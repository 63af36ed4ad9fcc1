------------------------- MODULE SceneDialogsProofs -------------------------
(***************************************************************************)
(* Proofs about SceneDialogs, for any number of tabs, users and scenes: no *)
(* body outlives its scene, what is reported saved is stored whole, only   *)
(* an owner's connection touches a scene, and a page is connected as the   *)
(* account it showed when it was loaded.                                   *)
(***************************************************************************)
EXTENDS SceneDialogs, SequenceTheorems, TLAPS

USE SceneAssumption

Message == [type : {"ERROR"}]
           \cup [type : {"SCENE_LIST"}, scenes : SUBSET Scene]
           \cup [type : {"LOADED_SCENE"}, bodies : SUBSET BodyRow]

AboutScene == [type : {"LOAD", "DELETE", "UPDATE"}, scene : Scene]

Order == [type : {"LIST"}] \cup [type : {"SAVE"}, draft : Draft] \cup AboutScene

Pump == [pc : {"idle", "save", "list"}, scene : Scene \cup {NoScene}]

Fetch == [pc : {"none", "asked", "answered"}, user : User \cup {Guest}, ok : BOOLEAN]

DatabaseOK ==
  /\ DOMAIN scenes \subseteq DOMAIN drafts
  /\ \A s \in DOMAIN scenes : scenes[s] \in Row
  /\ bodies \subseteq BodyRow
  /\ DOMAIN drafts \subseteq Scene
  /\ \A s \in DOMAIN drafts : drafts[s] \in Draft
  /\ DOMAIN saving \subseteq DOMAIN drafts
  /\ \A s \in DOMAIN saving : saving[s] \in Nat \ {0}

ConnectionsOK ==
  /\ user \in [Tab -> User \cup {Guest}]
  /\ pump \in [Tab -> Pump]
  /\ down \in [Tab -> Seq(Message)]
  /\ net \in [Tab -> Seq(Order)]
  /\ rows \in [Tab -> SUBSET Scene]
  /\ editing \in [Tab -> Scene \cup {NoScene}]

AccountsOK ==
  /\ registered \subseteq User
  /\ {cookie, stored} \subseteq User \cup {Guest}
  /\ account \in [Tab -> User \cup {Guest}]
  /\ fetch \in [Tab -> Fetch]
  /\ fresh \in [Tab -> BOOLEAN]
  /\ torn \in BOOLEAN

TypeOK == DatabaseOK /\ ConnectionsOK /\ AccountsOK

-----------------------------------------------------------------------------
(* The database and its history *)

LEMMA InitDatabase == Init => DatabaseOK
  BY DEF Init, ServerInit, NoRows, DatabaseOK

\* What a draft is made of.
LEMMA Drafts ==
  ASSUME NEW draft \in Draft
  PROVE  /\ Len(draft) \in Nat
         /\ DOMAIN draft = 1 .. Len(draft)
         /\ \A i \in 1 .. Len(draft) : draft[i] \in Body
  <1>1. PICK n \in 1 .. MaxBodies : draft \in [1 .. n -> Body]
    BY DEF Draft
  <1>2. draft \in Seq(Body) /\ Len(draft) = n
    BY <1>1
  <1> QED
    BY <1>1, <1>2

LEMMA DatabaseInserts ==
  ASSUME DatabaseOK, NEW s \in Scene, SaveInserts(s)
  PROVE  DatabaseOK'
  <1>1. drafts[s] \in Draft /\ saving[s] \in Nat \ {0} /\ saving[s] \in 1 .. Len(drafts[s])
    BY Drafts DEF SaveInserts, DatabaseOK, Done
  <1>2. drafts[s][saving[s]] \in Body
    BY <1>1, Drafts
  <1>3. bodies' \subseteq BodyRow
    BY <1>1, <1>2 DEF SaveInserts, DatabaseOK, BodyRow
  <1>4. /\ DOMAIN saving' = DOMAIN saving
        /\ \A u \in DOMAIN saving : saving'[u] \in Nat \ {0}
    BY <1>1 DEF SaveInserts, DatabaseOK
  <1> QED
    BY <1>3, <1>4 DEF SaveInserts, DatabaseOK

LEMMA DatabaseBegins ==
  ASSUME DatabaseOK, user \in [Tab -> User \cup {Guest}],
         NEW t \in Tab, NEW draft \in Draft, SaveBegins(t, draft)
  PROVE  DatabaseOK'
  <1>1. CASE Refuse(t)
    BY <1>1 DEF Refuse, database, history, DatabaseOK
  <1>2. CASE ~Refuse(t)
    <2>1. user[t] \in User
      BY <1>2 DEF SaveBegins
    <2>2. PICK s \in Scene \ DOMAIN drafts :
            /\ scenes' = With(scenes, s, [owner |-> user[t], name |-> "default"])
            /\ drafts' = With(drafts, s, draft)
            /\ saving' = With(saving, s, 1)
      BY <1>2 DEF SaveBegins
    <2>3. [owner |-> user[t], name |-> "default"] \in Row
      BY <2>1 DEF Row
    <2>4. bodies' = bodies
      BY <1>2 DEF SaveBegins
    <2> QED
      BY <2>2, <2>3, <2>4 DEF With, DatabaseOK
  <1> QED
    BY <1>1, <1>2

LEMMA DatabaseHandles ==
  ASSUME DatabaseOK, user \in [Tab -> User \cup {Guest}],
         NEW t \in Tab, NEW m \in Order, Handle(t, m)
  PROVE  DatabaseOK'
  <1>1. CASE m.type = "SAVE" /\ SaveBegins(t, m.draft)
    <2>1. m.draft \in Draft
      BY <1>1 DEF Order, AboutScene
    <2> QED
      BY <1>1, <2>1, DatabaseBegins
  <1>2. CASE ListScenes(t) /\ UNCHANGED pump
    BY <1>2 DEF ListScenes, database, history, DatabaseOK
  <1>3. CASE LoadScene(t, m.scene)
    BY <1>3 DEF LoadScene, Refuse, database, history, DatabaseOK
  <1>4. CASE DeleteScene(t, m.scene)
    BY <1>4 DEF DeleteScene, Refuse, Without, Cascade, database, history, DatabaseOK
  <1>5. CASE UpdateScene(t, m.scene)
    <2>1. UNCHANGED <<bodies, saving, drafts>>
      BY <1>5 DEF UpdateScene, history
    <2>2. DOMAIN scenes' = DOMAIN scenes /\ \A s \in DOMAIN scenes : scenes'[s] \in Row
      BY <1>5 DEF UpdateScene, DatabaseOK, Row
    <2> QED
      BY <2>1, <2>2 DEF DatabaseOK
  <1> QED
    BY <1>1, <1>2, <1>3, <1>4, <1>5 DEF Handle

LEMMA DatabaseNext ==
  ASSUME DatabaseOK, ConnectionsOK, [Next]_vars
  PROVE  DatabaseOK'
  <1>1. ASSUME NEW t \in Tab, Serve(t) PROVE DatabaseOK'
    <2>1. Head(net[t]) \in Order
      BY <1>1 DEF Serve, ConnectionsOK
    <2> QED
      BY <1>1, <2>1, DatabaseHandles DEF Serve, ConnectionsOK
  <1>2. CASE GoOn
    <2>1. ASSUME NEW s \in Scene, SaveInserts(s) PROVE DatabaseOK'
      BY <2>1, DatabaseInserts
    <2>2. ASSUME NEW s \in Scene, SaveEnds(s) PROVE DatabaseOK'
      BY <2>2 DEF SaveEnds, Without, database, DatabaseOK
    <2>3. ASSUME NEW t \in Tab, ListsAgain(t) PROVE DatabaseOK'
      BY <2>3 DEF ListsAgain, ListScenes, database, history, DatabaseOK
    <2> QED
      BY <1>2, <2>1, <2>2, <2>3 DEF GoOn
  <1>3. CASE UNCHANGED <<database, saving, history>>
    BY <1>3 DEF database, history, DatabaseOK
  <1>4. ASSUME NEW t \in Tab, ClickSave(t) \/ ClickList(t) \/ ClickRow(t) \/ ConfirmEdit(t)
        PROVE  UNCHANGED <<database, saving, history>>
    BY <1>4 DEF ClickSave, ClickList, ClickRow, ConfirmEdit, Ask, serverVars
  <1> QED
    BY <1>1, <1>2, <1>3, <1>4
    DEF Next, ClickLogin, Authenticate, FetchReturns, Register, ClickLogout, CookieExpires,
        Reload, ClickEdit, Receive, serverVars, vars

-----------------------------------------------------------------------------
(* Connections *)

\* An answer is a message.
LEMMA AnswerTypes ==
  ASSUME ConnectionsOK, NEW t \in Tab, NEW m \in Message, Answer(t, m)
  PROVE  down' \in [Tab -> Seq(Message)]
  <1>1. Append(down[t], m) \in Seq(Message)
    BY DEF ConnectionsOK
  <1> QED
    BY <1>1 DEF Answer, ConnectionsOK

LEMMA ListTypes ==
  ASSUME TypeOK, NEW t \in Tab, ListScenes(t)
  PROVE  down' \in [Tab -> Seq(Message)]
  <1>1. /\ [type |-> "SCENE_LIST", scenes |-> Mine(t)] \in Message
        /\ Error \in Message
    BY DEF Mine, Error, Message, TypeOK, DatabaseOK
  <1> QED
    BY <1>1, AnswerTypes DEF ListScenes, TypeOK

LEMMA HandleTypes ==
  ASSUME TypeOK, NEW t \in Tab, NEW m \in Order, Handle(t, m)
  PROVE  down' \in [Tab -> Seq(Message)] /\ pump' \in [Tab -> Pump]
  <1>1. Error \in Message
    BY DEF Error, Message
  <1>2. CASE Refuse(t)
    BY <1>1, <1>2, AnswerTypes DEF Refuse, TypeOK, ConnectionsOK
  <1>3. CASE m.type = "SAVE" /\ SaveBegins(t, m.draft)
    BY <1>2, <1>3 DEF SaveBegins, TypeOK, ConnectionsOK, Pump
  <1>4. CASE ListScenes(t) /\ UNCHANGED pump
    BY <1>4, ListTypes DEF TypeOK, ConnectionsOK
  <1>5. CASE LoadScene(t, m.scene)
    <2>1. [type |-> "LOADED_SCENE", bodies |-> {b \in bodies : b.scene = m.scene}] \in Message
      BY DEF Message, TypeOK, DatabaseOK
    <2> QED
      BY <1>2, <1>5, <2>1, AnswerTypes DEF LoadScene, TypeOK, ConnectionsOK
  <1>a. [pump EXCEPT ![t].pc = "list"] \in [Tab -> Pump]
    BY DEF TypeOK, ConnectionsOK, Pump
  <1>6. CASE DeleteScene(t, m.scene)
    BY <1>2, <1>6, <1>a DEF DeleteScene, TypeOK, ConnectionsOK
  <1>7. CASE UpdateScene(t, m.scene)
    BY <1>7, <1>a DEF UpdateScene, TypeOK, ConnectionsOK
  <1> QED
    BY <1>3, <1>4, <1>5, <1>6, <1>7 DEF Handle

LEMMA ConnectionsNext ==
  ASSUME TypeOK, [Next]_vars
  PROVE  ConnectionsOK'
  <1> USE DEF TypeOK
  <1>1. ASSUME NEW t \in Tab, NEW m \in Order, Ask(t, m), editing' \in [Tab -> Scene \cup {NoScene}]
        PROVE  ConnectionsOK'
    <2>1. Append(net[t], m) \in Seq(Order)
      BY DEF ConnectionsOK
    <2>2. net' \in [Tab -> Seq(Order)]
      BY <1>1, <2>1 DEF Ask, ConnectionsOK
    <2> QED
      BY <1>1, <2>2 DEF Ask, serverVars, ConnectionsOK
  <1>2. ASSUME NEW t \in Tab, ClickSave(t) PROVE ConnectionsOK'
    BY <1>1, <1>2 DEF ClickSave, Order, ConnectionsOK
  <1>3. ASSUME NEW t \in Tab, ClickList(t) PROVE ConnectionsOK'
    BY <1>1, <1>3 DEF ClickList, Order, ConnectionsOK
  <1>4. ASSUME NEW t \in Tab, ClickRow(t) PROVE ConnectionsOK'
    <2>1. PICK type \in {"LOAD", "DELETE"}, s \in rows[t] :
            Ask(t, [type |-> type, scene |-> s])
      BY <1>4 DEF ClickRow
    <2>2. [type |-> type, scene |-> s] \in Order
      BY DEF Order, AboutScene, ConnectionsOK
    <2> QED
      BY <1>1, <1>4, <2>1, <2>2 DEF ClickRow, ConnectionsOK
  <1>5. ASSUME NEW t \in Tab, ConfirmEdit(t) PROVE ConnectionsOK'
    <2>1. [type |-> "UPDATE", scene |-> editing[t]] \in Order
      BY <1>5 DEF ConfirmEdit, Order, AboutScene, ConnectionsOK
    <2> QED
      BY <1>1, <1>5, <2>1 DEF ConfirmEdit, ConnectionsOK
  <1>6. ASSUME NEW t \in Tab, ClickEdit(t) PROVE ConnectionsOK'
    BY <1>6 DEF ClickEdit, serverVars, ConnectionsOK
  <1>7. ASSUME NEW t \in Tab, Reload(t) PROVE ConnectionsOK'
    <2>1. << >> \in Seq(Message) /\ << >> \in Seq(Order) /\ Idle \in Pump
      BY DEF Idle, Pump
    <2> QED
      BY <1>7, <2>1 DEF Reload, ConnectionsOK, AccountsOK
  <1>8. ASSUME NEW t \in Tab, Receive(t) PROVE ConnectionsOK'
    <2>1. Head(down[t]) \in Message /\ Tail(down[t]) \in Seq(Message)
      BY <1>8 DEF Receive, ConnectionsOK
    <2>2. Head(down[t]).type = "SCENE_LIST" => Head(down[t]).scenes \in SUBSET Scene
      BY <2>1 DEF Message
    <2>3. rows' \in [Tab -> SUBSET Scene]
      BY <1>8, <2>2 DEF Receive, ConnectionsOK
    <2>4. down' \in [Tab -> Seq(Message)]
      BY <1>8, <2>1 DEF Receive, ConnectionsOK
    <2> QED
      BY <1>8, <2>3, <2>4 DEF Receive, ConnectionsOK
  <1>9. ASSUME NEW t \in Tab, Serve(t) PROVE ConnectionsOK'
    <2>1. Head(net[t]) \in Order /\ Tail(net[t]) \in Seq(Order)
      BY <1>9 DEF Serve, ConnectionsOK
    <2>2. net' \in [Tab -> Seq(Order)]
      BY <1>9, <2>1 DEF Serve, ConnectionsOK
    <2>3. down' \in [Tab -> Seq(Message)] /\ pump' \in [Tab -> Pump]
      BY <1>9, <2>1, HandleTypes DEF Serve
    <2> QED
      BY <1>9, <2>2, <2>3 DEF Serve, ConnectionsOK
  <1>10. CASE GoOn
    <2>1. ASSUME NEW s \in Scene, SaveInserts(s) PROVE ConnectionsOK'
      BY <1>10, <2>1 DEF GoOn, SaveInserts, dialogVars, ConnectionsOK
    <2>2. ASSUME NEW s \in Scene, SaveEnds(s) PROVE ConnectionsOK'
      BY <1>10, <2>2 DEF GoOn, SaveEnds, dialogVars, Idle, Pump, ConnectionsOK
    <2>3. ASSUME NEW t \in Tab, ListsAgain(t) PROVE ConnectionsOK'
      <3>1. Idle \in Pump
        BY DEF Idle, Pump
      <3>2. down' \in [Tab -> Seq(Message)] /\ UNCHANGED user
        BY <2>3, ListTypes DEF ListsAgain, ListScenes
      <3>3. pump' \in [Tab -> Pump]
        BY <2>3, <3>1 DEF ListsAgain, ConnectionsOK
      <3> QED
        BY <1>10, <3>2, <3>3 DEF GoOn, dialogVars, ConnectionsOK
    <2> QED
      BY <1>10, <2>1, <2>2, <2>3 DEF GoOn
  <1>11. CASE UNCHANGED <<serverVars, dialogVars>>
    BY <1>11 DEF serverVars, dialogVars, ConnectionsOK
  <1> QED
    BY <1>2, <1>3, <1>4, <1>5, <1>6, <1>7, <1>8, <1>9, <1>10, <1>11
    DEF Next, ClickLogin, Authenticate, FetchReturns, Register, ClickLogout, CookieExpires, vars

-----------------------------------------------------------------------------
(* Types *)

LEMMA AccountsNext ==
  ASSUME AccountsOK, [Next]_vars
  PROVE  AccountsOK'
  <1>1. ASSUME NEW t \in Tab, ClickLogin(t) PROVE AccountsOK'
    BY <1>1 DEF ClickLogin, AccountsOK, Fetch
  <1>2. ASSUME NEW t \in Tab, Authenticate(t) PROVE AccountsOK'
    <2>1. PICK ok \in BOOLEAN :
            /\ fetch' = [fetch EXCEPT ![t].pc = "answered", ![t].ok = ok]
            /\ cookie' = IF ok THEN fetch[t].user ELSE cookie
      BY <1>2 DEF Authenticate
    <2>2. fetch' \in [Tab -> Fetch]
      BY <2>1 DEF AccountsOK, Fetch
    <2>3. cookie' \in User \cup {Guest}
      BY <2>1 DEF AccountsOK, Fetch
    <2> QED
      BY <1>2, <2>2, <2>3 DEF Authenticate, AccountsOK
  <1>3. ASSUME NEW t \in Tab, FetchReturns(t) PROVE AccountsOK'
    <2>1. fetch[t].user \in User \cup {Guest} /\ NoFetch \in Fetch /\ fetch[t].ok \in BOOLEAN
      BY DEF AccountsOK, Fetch, NoFetch
    <2> QED
      BY <1>3, <2>1 DEF FetchReturns, AccountsOK
  <1>4. ASSUME NEW t \in Tab, ClickLogout(t) PROVE AccountsOK'
    BY <1>4 DEF ClickLogout, AccountsOK
  <1>5. ASSUME NEW t \in Tab, Reload(t) PROVE AccountsOK'
    BY <1>5 DEF Reload, AccountsOK, Fetch, NoFetch
  <1>6. CASE Register
    BY <1>6 DEF Register, AccountsOK
  <1>7. CASE CookieExpires
    BY <1>7 DEF CookieExpires, AccountsOK
  <1>8. CASE UNCHANGED authVars
    BY <1>8 DEF authVars, AccountsOK
  <1> QED
    BY <1>1, <1>2, <1>3, <1>4, <1>5, <1>6, <1>7, <1>8
    DEF Next, ClickSave, ClickList, ClickRow, ClickEdit, ConfirmEdit, Ask, Receive, Serve,
        GoOn, vars

\* Every variable keeps its type.
THEOREM DialogTypes == Spec => []TypeOK
  <1>1. Init => TypeOK
    <2> SUFFICES ASSUME Init PROVE TypeOK
      OBVIOUS
    <2>1. << >> \in Seq(Message) /\ << >> \in Seq(Order) /\ Idle \in Pump /\ NoFetch \in Fetch
      BY DEF Idle, Pump, NoFetch, Fetch
    <2>2. ConnectionsOK
      BY <2>1 DEF Init, ServerInit, ConnectionsOK
    <2>3. AccountsOK
      BY <2>1 DEF Init, AccountsOK
    <2> QED
      BY <2>2, <2>3, InitDatabase DEF TypeOK
  <1>2. TypeOK /\ [Next]_vars => TypeOK'
    BY DatabaseNext, ConnectionsNext, AccountsNext DEF TypeOK
  <1> QED
    BY <1>1, <1>2, PTL DEF Spec

-----------------------------------------------------------------------------
(* What a step does to the tables *)

\* The steps that touch them; every other one leaves the tables and their history.
DatabaseStep ==
  \/ \E t \in Tab, draft \in Draft : SaveBegins(t, draft)
  \/ \E t \in Tab, s \in Scene : DeleteScene(t, s) \/ UpdateScene(t, s)
  \/ \E s \in Scene : SaveInserts(s) \/ SaveEnds(s)
  \/ UNCHANGED <<database, saving, history>>

LEMMA DatabaseSteps ==
  ASSUME TypeOK, [Next]_vars
  PROVE  DatabaseStep
  <1>1. ASSUME NEW t \in Tab, Serve(t) PROVE DatabaseStep
    <2>1. Head(net[t]) \in Order
      BY <1>1 DEF Serve, TypeOK, ConnectionsOK
    <2>2. /\ Head(net[t]).type = "SAVE" => Head(net[t]).draft \in Draft
          /\ Head(net[t]).type \in {"DELETE", "UPDATE"} => Head(net[t]).scene \in Scene
      BY <2>1 DEF Order, AboutScene
    <2> QED
      BY <1>1, <2>2 DEF Serve, Handle, ListScenes, LoadScene, Refuse, DatabaseStep
  <1>2. CASE GoOn
    BY <1>2 DEF GoOn, ListsAgain, ListScenes, DatabaseStep
  <1>3. ASSUME NEW t \in Tab, ClickSave(t) \/ ClickList(t) \/ ClickRow(t) \/ ConfirmEdit(t)
        PROVE  UNCHANGED <<database, saving, history>>
    BY <1>3 DEF ClickSave, ClickList, ClickRow, ConfirmEdit, Ask, serverVars
  <1> QED
    BY <1>1, <1>2, <1>3
    DEF Next, ClickLogin, Authenticate, FetchReturns, Register, ClickLogout, CookieExpires,
        Reload, ClickEdit, Receive, serverVars, vars, DatabaseStep

\* No body outlives its scene, whatever saves and deletions run at once
\* (client.go:219-239, 348): the foreign key and its cascade are enough.
THEOREM NoOrphans == Spec => []NoOrphanBodies
  <1>1. Init => NoOrphanBodies
    BY DEF Init, ServerInit, NoOrphanBodies
  <1>2. TypeOK /\ NoOrphanBodies /\ [Next]_vars => NoOrphanBodies'
    <2> SUFFICES ASSUME TypeOK, NoOrphanBodies, DatabaseStep PROVE NoOrphanBodies'
      BY DatabaseSteps
    <2>1. ASSUME NEW t \in Tab, NEW draft \in Draft, SaveBegins(t, draft) PROVE NoOrphanBodies'
      BY <2>1 DEF SaveBegins, Refuse, With, database, NoOrphanBodies
    <2>2. ASSUME NEW t \in Tab, NEW s \in Scene, DeleteScene(t, s) PROVE NoOrphanBodies'
      BY <2>2 DEF DeleteScene, Refuse, Without, Cascade, database, NoOrphanBodies
    <2>3. ASSUME NEW t \in Tab, NEW s \in Scene, UpdateScene(t, s) PROVE NoOrphanBodies'
      BY <2>3 DEF UpdateScene, NoOrphanBodies
    <2>4. ASSUME NEW s \in Scene, SaveInserts(s) PROVE NoOrphanBodies'
      BY <2>4 DEF SaveInserts, NoOrphanBodies
    <2>5. ASSUME NEW s \in Scene, SaveEnds(s) PROVE NoOrphanBodies'
      BY <2>5 DEF SaveEnds, database, NoOrphanBodies
    <2> QED
      BY <2>1, <2>2, <2>3, <2>4, <2>5 DEF DatabaseStep, database, NoOrphanBodies
  <1> QED
    BY <1>1, <1>2, DialogTypes, PTL DEF Spec

-----------------------------------------------------------------------------
(* Saves *)

\* The rows of the first bodies of a draft.
Inserted(s, n) ==
  {[scene |-> s, index |-> i, body |-> drafts[s][i]] : i \in {k \in DOMAIN drafts[s] : k < n}}

SavesOK ==
  /\ saved \subseteq DOMAIN drafts
  /\ saved \cap DOMAIN saving = {}
  /\ \A s \in DOMAIN scenes : s \notin failed =>
       Stored(s) = IF s \in DOMAIN saving THEN Inserted(s, saving[s]) ELSE Drafted(s)

LEMMA SavesBegin ==
  ASSUME TypeOK, NoOrphanBodies, SavesOK,
         NEW t \in Tab, NEW draft \in Draft, SaveBegins(t, draft)
  PROVE  SavesOK'
  <1>1. CASE Refuse(t)
    BY <1>1 DEF Refuse, database, history, SavesOK, Stored, Inserted, Drafted
  <1>2. CASE ~Refuse(t)
    <2>1. PICK s \in Scene \ DOMAIN drafts :
            /\ scenes' = With(scenes, s, [owner |-> user[t], name |-> "default"])
            /\ drafts' = With(drafts, s, draft)
            /\ saving' = With(saving, s, 1)
      BY <1>2 DEF SaveBegins
    <2>2. UNCHANGED <<bodies, failed, saved>>
      BY <1>2 DEF SaveBegins
    <2>3. s \notin DOMAIN scenes /\ s \notin DOMAIN saving /\ s \notin saved
      BY DEF TypeOK, DatabaseOK, SavesOK
    <2>4. Stored(s)' = {}
      BY <2>2, <2>3 DEF Stored, NoOrphanBodies
    <2>5. DOMAIN draft = 1 .. Len(draft) /\ Len(draft) \in Nat
      BY Drafts
    <2>6. Inserted(s, 1)' = {}
      BY <2>1, <2>5 DEF Inserted, With
    <2>7. ASSUME NEW u \in DOMAIN scenes, u \notin failed
          PROVE  Stored(u)' = (IF u \in DOMAIN saving THEN Inserted(u, saving[u]) ELSE Drafted(u))'
      <3>1. u # s /\ u \in DOMAIN drafts
        BY <2>3 DEF TypeOK, DatabaseOK
      <3>2. drafts'[u] = drafts[u] /\ Stored(u)' = Stored(u)
        BY <2>1, <2>2, <3>1 DEF With, Stored
      <3>3. Drafted(u)' = Drafted(u) /\ \A n : Inserted(u, n)' = Inserted(u, n)
        BY <3>2 DEF Drafted, Inserted
      <3>4. (u \in DOMAIN saving' <=> u \in DOMAIN saving)
            /\ (u \in DOMAIN saving => saving'[u] = saving[u])
        BY <2>1, <3>1 DEF With
      <3> QED
        BY <2>7, <3>2, <3>3, <3>4 DEF SavesOK
    <2>8. s \in DOMAIN saving' /\ saving'[s] = 1
      BY <2>1 DEF With
    <2>9. DOMAIN scenes' = DOMAIN scenes \cup {s} /\ DOMAIN saving' = DOMAIN saving \cup {s}
          /\ DOMAIN drafts' = DOMAIN drafts \cup {s}
      BY <2>1 DEF With
    <2> QED
      BY <2>2, <2>3, <2>4, <2>6, <2>7, <2>8, <2>9 DEF SavesOK
  <1> QED
    BY <1>1, <1>2

LEMMA SavesInsert ==
  ASSUME TypeOK, SavesOK, NEW s \in Scene, SaveInserts(s)
  PROVE  SavesOK'
  <1>1. /\ s \in DOMAIN drafts /\ DOMAIN drafts[s] = 1 .. Len(drafts[s])
        /\ saving[s] \in 1 .. Len(drafts[s])
    BY Drafts DEF SaveInserts, Done, TypeOK, DatabaseOK
  <1>2. DOMAIN saving' = DOMAIN saving /\ saving'[s] = saving[s] + 1
        /\ \A u \in DOMAIN saving \ {s} : saving'[u] = saving[u]
    BY DEF SaveInserts, TypeOK, DatabaseOK
  <1>3. UNCHANGED <<scenes, drafts, saved>>
    BY DEF SaveInserts
  <1>4. Inserted(s, saving[s] + 1)
          = Inserted(s, saving[s])
            \cup {[scene |-> s, index |-> saving[s], body |-> drafts[s][saving[s]]]}
    BY <1>1 DEF Inserted
  <1>5. ASSUME NEW u \in DOMAIN scenes, u \notin failed', u # s
        PROVE  Stored(u)' = (IF u \in DOMAIN saving THEN Inserted(u, saving[u]) ELSE Drafted(u))'
    <2>1. Stored(u)' = Stored(u) /\ u \notin failed
      BY <1>5 DEF SaveInserts, Stored
    <2> QED
      BY <1>2, <1>3, <1>5, <2>1 DEF SavesOK, Inserted, Drafted
  <1>6. ASSUME s \in DOMAIN scenes, s \notin failed'
        PROVE  Stored(s)' = (IF s \in DOMAIN saving THEN Inserted(s, saving[s]) ELSE Drafted(s))'
    <2>1. /\ bodies' = bodies \cup {[scene |-> s, index |-> saving[s],
                                     body |-> drafts[s][saving[s]]]}
          /\ s \notin failed
      BY <1>6 DEF SaveInserts
    <2>2. Stored(s)' = Stored(s) \cup {[scene |-> s, index |-> saving[s],
                                        body |-> drafts[s][saving[s]]]}
      BY <2>1 DEF Stored
    <2>3. Stored(s) = Inserted(s, saving[s])
      BY <1>6, <2>1 DEF SavesOK, SaveInserts
    <2>4. Inserted(s, saving[s])' = Inserted(s, saving[s] + 1)
      BY <1>2, <1>3 DEF Inserted
    <2>5. s \in DOMAIN saving'
      BY <1>2 DEF SaveInserts
    <2> QED
      BY <1>4, <2>2, <2>3, <2>4, <2>5
  <1> QED
    BY <1>2, <1>3, <1>5, <1>6 DEF SavesOK

LEMMA SavesEnd ==
  ASSUME TypeOK, SavesOK, NEW s \in Scene, SaveEnds(s)
  PROVE  SavesOK'
  <1>1. s \in DOMAIN drafts /\ DOMAIN drafts[s] = 1 .. Len(drafts[s]) /\ Len(drafts[s]) \in Nat
        /\ saving[s] \in Nat /\ saving[s] > Len(drafts[s])
    BY Drafts DEF SaveEnds, Done, TypeOK, DatabaseOK
  <1>2. Inserted(s, saving[s]) = Drafted(s)
    BY <1>1 DEF Inserted, Drafted
  <1>3. UNCHANGED <<database, drafts, failed>> /\ saved' = saved \cup {s}
        /\ saving' = Without(saving, s)
    BY DEF SaveEnds
  <1> QED
    BY <1>1, <1>2, <1>3 DEF database, Without, SavesOK, Stored, Inserted, Drafted, SaveEnds

\* A scene whose save met no failure is stored whole once it is reported saved
\* (client.go:219-241), however many saves and deletions run at once.
THEOREM WholeScenes == Spec => []SavedWhole
  <1>1. Init => SavesOK
    BY DEF Init, ServerInit, NoRows, SavesOK
  <1>2. TypeOK /\ NoOrphanBodies /\ SavesOK /\ [Next]_vars => SavesOK'
    <2> SUFFICES ASSUME TypeOK, NoOrphanBodies, SavesOK, DatabaseStep PROVE SavesOK'
      BY DatabaseSteps
    <2>1. ASSUME NEW t \in Tab, NEW s \in Scene, DeleteScene(t, s) PROVE SavesOK'
      <3>1. CASE Refuse(t)
        BY <3>1 DEF Refuse, database, history, SavesOK, Stored, Inserted, Drafted
      <3>2. CASE ~Refuse(t)
        <4>1. scenes' = Without(scenes, s) /\ bodies' = Cascade(s) /\ UNCHANGED <<saving, history>>
          BY <2>1, <3>2 DEF DeleteScene
        <4>2. \A u \in DOMAIN scenes' : u \in DOMAIN scenes /\ Stored(u)' = Stored(u)
          BY <4>1 DEF Without, Cascade, Stored
        <4> QED
          BY <4>1, <4>2 DEF history, SavesOK, Inserted, Drafted
      <3> QED
        BY <3>1, <3>2
    <2>2. ASSUME NEW t \in Tab, NEW s \in Scene, UpdateScene(t, s) PROVE SavesOK'
      <3>1. DOMAIN scenes' = DOMAIN scenes /\ UNCHANGED <<bodies, saving, history>>
        BY <2>2 DEF UpdateScene
      <3> QED
        BY <3>1 DEF history, SavesOK, Stored, Inserted, Drafted
    <2>3. CASE UNCHANGED <<database, saving, history>>
      BY <2>3 DEF database, history, SavesOK, Stored, Inserted, Drafted
    <2> QED
      BY <2>1, <2>2, <2>3, SavesBegin, SavesInsert, SavesEnd DEF DatabaseStep
  <1>3. SavesOK => SavedWhole
    BY DEF SavesOK, SavedWhole
  <1> QED
    BY <1>1, <1>2, <1>3, DialogTypes, NoOrphans, PTL DEF Spec

-----------------------------------------------------------------------------
(* Whose scenes are touched *)

\* What a tab may know of a scene: that it is its own, while it exists.
Known(t, s) == s \in DOMAIN drafts /\ (s \in DOMAIN scenes => scenes[s].owner = user[t])

\* r, d and n, a tab's rows, messages and requests, offer what it knows.
Offers(t, r, d, n) ==
  /\ \A s \in r : Known(t, s)
  /\ \A i \in DOMAIN d : d[i].type = "SCENE_LIST" => \A s \in d[i].scenes : Known(t, s)
  /\ \A i \in DOMAIN n : n[i].type = "DELETE" => Known(t, n[i].scene)

OffersOK == \A t \in Tab : Offers(t, rows[t], down[t], net[t])

\* A tab goes on knowing what it knew, as long as its connection lasts.
LEMMA KnownKept ==
  ASSUME TypeOK, DatabaseStep, NEW t \in Tab, user'[t] = user[t], NEW s, Known(t, s)
  PROVE  Known(t, s)'
  <1>1. ASSUME NEW u \in Tab, NEW draft \in Draft, SaveBegins(u, draft) PROVE Known(t, s)'
    BY <1>1 DEF SaveBegins, Refuse, With, database, history, Known
  <1>2. ASSUME NEW u \in Tab, NEW r \in Scene, DeleteScene(u, r) PROVE Known(t, s)'
    BY <1>2 DEF DeleteScene, Refuse, Without, database, history, Known
  <1>3. ASSUME NEW u \in Tab, NEW r \in Scene, UpdateScene(u, r) PROVE Known(t, s)'
    <2>1. \A v \in DOMAIN scenes : scenes'[v].owner = scenes[v].owner
      BY <1>3 DEF UpdateScene, TypeOK, DatabaseOK, Row
    <2>2. DOMAIN scenes' = DOMAIN scenes /\ UNCHANGED drafts
      BY <1>3 DEF UpdateScene, history
    <2> QED
      BY <2>1, <2>2 DEF Known
  <1>4. ASSUME NEW r \in Scene, SaveInserts(r) \/ SaveEnds(r) PROVE Known(t, s)'
    BY <1>4 DEF SaveInserts, SaveEnds, database, Known
  <1>5. CASE UNCHANGED <<database, saving, history>>
    BY <1>5 DEF database, history, Known
  <1> QED
    BY <1>1, <1>2, <1>3, <1>4, <1>5 DEF DatabaseStep

\* What sequences that grow or shrink by one element hold.
LEMMA Appended ==
  ASSUME NEW S, NEW q \in Seq(S), NEW e
  PROVE  \A i \in DOMAIN Append(q, e) :
           (i \in DOMAIN q /\ Append(q, e)[i] = q[i]) \/ Append(q, e)[i] = e
  OBVIOUS

LEMMA Dropped ==
  ASSUME NEW S, NEW q \in Seq(S), q # << >>
  PROVE  /\ Head(q) = q[1] /\ 1 \in DOMAIN q
         /\ \A i \in DOMAIN Tail(q) : i + 1 \in DOMAIN q /\ Tail(q)[i] = q[i + 1]
  OBVIOUS

\* A new list names scenes of the connection's user.
LEMMA ListOffers ==
  ASSUME TypeOK, OffersOK, NEW t \in Tab, ListScenes(t)
  PROVE  \A u \in Tab : Offers(u, rows[u], down'[u], net[u])
  <1>1. PICK m : Answer(t, m) /\ (m = Error \/ m = [type |-> "SCENE_LIST", scenes |-> Mine(t)])
    BY DEF ListScenes
  <1>2. m.type = "SCENE_LIST" => \A s \in m.scenes : Known(t, s)
    BY <1>1 DEF Error, Mine, Known, TypeOK, DatabaseOK
  <1>3. \A i \in DOMAIN Append(down[t], m) :
          (i \in DOMAIN down[t] /\ Append(down[t], m)[i] = down[t][i])
          \/ Append(down[t], m)[i] = m
    BY Appended DEF TypeOK, ConnectionsOK
  <1>4. down'[t] = Append(down[t], m) /\ \A u \in Tab \ {t} : down'[u] = down[u]
    BY <1>1 DEF Answer, TypeOK, ConnectionsOK
  <1> QED
    BY <1>2, <1>3, <1>4 DEF OffersOK, Offers

\* An answer that is no list offers nothing.
LEMMA OtherAnswers ==
  ASSUME TypeOK, OffersOK, NEW t \in Tab, NEW m, m.type # "SCENE_LIST", Answer(t, m)
  PROVE  \A u \in Tab : Offers(u, rows[u], down'[u], net[u])
  <1>1. \A i \in DOMAIN Append(down[t], m) :
          (i \in DOMAIN down[t] /\ Append(down[t], m)[i] = down[t][i])
          \/ Append(down[t], m)[i] = m
    BY Appended DEF TypeOK, ConnectionsOK
  <1>2. down'[t] = Append(down[t], m) /\ \A u \in Tab \ {t} : down'[u] = down[u]
    BY DEF Answer, TypeOK, ConnectionsOK
  <1> QED
    BY <1>1, <1>2 DEF OffersOK, Offers

LEMMA HandleOffers ==
  ASSUME TypeOK, OffersOK, NEW t \in Tab, NEW m, Handle(t, m)
  PROVE  \A u \in Tab : Offers(u, rows[u], down'[u], net[u])
  <1>1. CASE UNCHANGED down
    BY <1>1 DEF OffersOK
  <1>2. CASE Refuse(t)
    BY <1>2, OtherAnswers DEF Refuse, Error
  <1>3. CASE ListScenes(t)
    BY <1>3, ListOffers
  <1>4. CASE LoadScene(t, m.scene)
    BY <1>2, <1>4, OtherAnswers DEF LoadScene
  <1> QED
    BY <1>1, <1>2, <1>3, <1>4 DEF Handle, SaveBegins, DeleteScene, UpdateScene

\* A step leaves a tab with a new, empty connection, or with what it already knew.
LEMMA StepOffers ==
  ASSUME TypeOK, OffersOK, [Next]_vars, NEW u \in Tab
  PROVE  \/ rows'[u] = {} /\ down'[u] = << >> /\ net'[u] = << >>
         \/ user'[u] = user[u] /\ Offers(u, rows'[u], down'[u], net'[u])
  <1> USE DEF TypeOK, ConnectionsOK
  <1>0. Offers(u, rows[u], down[u], net[u])
    BY DEF OffersOK
  <1>1. ASSUME NEW t \in Tab, NEW m, Ask(t, m), m.type = "DELETE" => m.scene \in rows[t]
        PROVE  user'[u] = user[u] /\ Offers(u, rows'[u], down'[u], net'[u])
    <2>1. UNCHANGED <<user, rows, down>>
      BY <1>1 DEF Ask, serverVars
    <2>2. net'[u] = IF u = t THEN Append(net[u], m) ELSE net[u]
      BY <1>1 DEF Ask
    <2>3. CASE u = t
      <3>1. \A i \in DOMAIN Append(net[u], m) :
              (i \in DOMAIN net[u] /\ Append(net[u], m)[i] = net[u][i])
              \/ Append(net[u], m)[i] = m
        BY Appended
      <3> QED
        BY <1>0, <1>1, <2>1, <2>2, <2>3, <3>1 DEF Offers
    <2> QED
      BY <1>0, <2>1, <2>2, <2>3
  <1>2. ASSUME NEW t \in Tab, ClickSave(t) \/ ClickList(t) \/ ClickRow(t) \/ ConfirmEdit(t)
        PROVE  user'[u] = user[u] /\ Offers(u, rows'[u], down'[u], net'[u])
    BY <1>1, <1>2 DEF ClickSave, ClickList, ClickRow, ConfirmEdit
  <1>3. ASSUME NEW t \in Tab, Reload(t)
        PROVE  \/ rows'[u] = {} /\ down'[u] = << >> /\ net'[u] = << >>
               \/ user'[u] = user[u] /\ Offers(u, rows'[u], down'[u], net'[u])
    <2>1. CASE u = t
      BY <1>3, <2>1 DEF Reload
    <2>2. CASE u # t
      BY <1>0, <1>3, <2>2 DEF Reload
    <2> QED
      BY <2>1, <2>2
  <1>4. ASSUME NEW t \in Tab, Receive(t)
        PROVE  user'[u] = user[u] /\ Offers(u, rows'[u], down'[u], net'[u])
    <2>1. CASE u # t
      BY <1>0, <1>4, <2>1 DEF Receive
    <2>2. CASE u = t
      <3>1. /\ Head(down[u]) = down[u][1] /\ 1 \in DOMAIN down[u]
            /\ \A i \in DOMAIN Tail(down[u]) :
                 i + 1 \in DOMAIN down[u] /\ Tail(down[u])[i] = down[u][i + 1]
        BY <1>4, <2>2, Dropped DEF Receive
      <3>2. /\ down'[u] = Tail(down[u]) /\ UNCHANGED <<user, net>>
            /\ rows'[u] = IF Head(down[u]).type = "SCENE_LIST"
                            THEN Head(down[u]).scenes ELSE rows[u]
        BY <1>4, <2>2 DEF Receive
      <3> QED
        BY <1>0, <3>1, <3>2 DEF Offers
    <2> QED
      BY <2>1, <2>2
  <1>5. ASSUME NEW t \in Tab, Serve(t)
        PROVE  user'[u] = user[u] /\ Offers(u, rows'[u], down'[u], net'[u])
    <2>1. Offers(u, rows[u], down'[u], net[u])
      BY <1>5, HandleOffers DEF Serve
    <2>2. CASE u # t
      BY <1>5, <2>1, <2>2 DEF Serve
    <2>3. CASE u = t
      <3>1. \A i \in DOMAIN Tail(net[u]) :
              i + 1 \in DOMAIN net[u] /\ Tail(net[u])[i] = net[u][i + 1]
        BY <1>5, <2>3, Dropped DEF Serve
      <3>2. net'[u] = Tail(net[u]) /\ UNCHANGED <<user, rows>>
        BY <1>5, <2>3 DEF Serve
      <3> QED
        BY <2>1, <3>1, <3>2 DEF Offers
    <2> QED
      BY <2>2, <2>3
  <1>6. CASE GoOn
    <2>1. CASE UNCHANGED <<user, down>>
      BY <1>0, <1>6, <2>1 DEF GoOn, dialogVars
    <2>2. ASSUME NEW t \in Tab, ListsAgain(t)
          PROVE  user'[u] = user[u] /\ Offers(u, rows'[u], down'[u], net'[u])
      BY <1>6, <2>2, ListOffers DEF GoOn, ListsAgain, ListScenes, dialogVars
    <2> QED
      BY <1>0, <1>6, <2>1, <2>2 DEF GoOn, SaveInserts, SaveEnds
  <1>7. CASE UNCHANGED <<user, down, rows, net>>
    BY <1>0, <1>7
  <1> QED
    BY <1>2, <1>3, <1>4, <1>5, <1>6, <1>7
    DEF Next, ClickLogin, Authenticate, FetchReturns, Register, ClickLogout, CookieExpires,
        ClickEdit, serverVars, dialogVars, vars

LEMMA OffersNext ==
  ASSUME TypeOK, OffersOK, [Next]_vars
  PROVE  OffersOK'
  <1> SUFFICES ASSUME NEW u \in Tab PROVE Offers(u, rows[u], down[u], net[u])'
    BY DEF OffersOK
  <1>1. CASE rows'[u] = {} /\ down'[u] = << >> /\ net'[u] = << >>
    BY <1>1 DEF Offers
  <1>2. CASE user'[u] = user[u] /\ Offers(u, rows'[u], down'[u], net'[u])
    <2>1. ASSUME NEW s, Known(u, s) PROVE Known(u, s)'
      BY <1>2, <2>1, KnownKept, DatabaseSteps
    <2> QED
      BY <1>2, <2>1 DEF Offers
  <1> QED
    BY <1>1, <1>2, StepOffers

\* A scene is deleted or renamed only while a connection of its owner is served
\* (client.go:348, scenes.sql:22, app.js:1310-1391): DELETE_SCENE asks for no owner,
\* but what the page offers is its own.
THEOREM OwnScenes == Spec => OnlyOwnScenesTouched
  <1>1. Init => OffersOK
    <2> SUFFICES ASSUME Init, NEW t \in Tab PROVE Offers(t, rows[t], down[t], net[t])
      BY DEF OffersOK
    <2>1. rows[t] = {} /\ down[t] = << >> /\ net[t] = << >>
      BY DEF Init, ServerInit
    <2> QED
      BY <2>1 DEF Offers
  <1>2. TypeOK /\ OffersOK /\ [Next]_vars
          => [\A s \in DOMAIN scenes :
                s \notin DOMAIN scenes' \/ scenes'[s] # scenes[s] =>
                  \E t \in Tab : user[t] = scenes[s].owner /\ net'[t] # net[t]]_vars
    <2> SUFFICES ASSUME TypeOK, OffersOK, [Next]_vars, NEW s \in DOMAIN scenes,
                        s \notin DOMAIN scenes' \/ scenes'[s] # scenes[s]
                 PROVE  \E t \in Tab : user[t] = scenes[s].owner /\ net'[t] # net[t]
      OBVIOUS
    <2>1. ASSUME NEW t \in Tab, Serve(t)
          PROVE  user[t] = scenes[s].owner /\ net'[t] # net[t]
      <3>1. Head(net[t]) = net[t][1] /\ 1 \in DOMAIN net[t]
        BY <2>1, Dropped DEF Serve, TypeOK, ConnectionsOK
      <3>2. Len(Tail(net[t])) # Len(net[t])
        BY <2>1 DEF Serve, TypeOK, ConnectionsOK
      <3>3. net'[t] # net[t]
        BY <2>1, <3>2 DEF Serve, TypeOK, ConnectionsOK
      <3>4. Handle(t, Head(net[t]))
        BY <2>1 DEF Serve
      <3>5. CASE SaveBegins(t, Head(net[t]).draft)
        BY <3>5 DEF SaveBegins, Refuse, database, With, TypeOK, DatabaseOK
      <3>6. CASE ListScenes(t) \/ LoadScene(t, Head(net[t]).scene)
        BY <3>6 DEF ListScenes, LoadScene, Refuse, database
      <3>7. CASE Head(net[t]).type = "DELETE" /\ DeleteScene(t, Head(net[t]).scene)
        <4>1. Known(t, Head(net[t]).scene)
          BY <3>1, <3>7 DEF OffersOK, Offers
        <4>2. s = Head(net[t]).scene
          BY <3>7 DEF DeleteScene, Refuse, database, Without
        <4> QED
          BY <3>3, <4>1, <4>2 DEF Known
      <3>8. CASE UpdateScene(t, Head(net[t]).scene)
        <4>1. s = Head(net[t]).scene /\ Matches(t, s)
          BY <3>8 DEF UpdateScene
        <4> QED
          BY <3>3, <4>1 DEF Matches
      <3> QED
        BY <3>4, <3>5, <3>6, <3>7, <3>8 DEF Handle
    <2>2. CASE UNCHANGED scenes
      BY <2>2
    <2>3. CASE GoOn
      BY <2>2, <2>3 DEF GoOn, SaveInserts, SaveEnds, ListsAgain, ListScenes, database
    <2>4. ASSUME NEW t \in Tab, ClickSave(t) \/ ClickList(t) \/ ClickRow(t) \/ ConfirmEdit(t)
          PROVE  UNCHANGED scenes
      BY <2>4 DEF ClickSave, ClickList, ClickRow, ConfirmEdit, Ask, serverVars, database
    <2> QED
      BY <2>1, <2>2, <2>3, <2>4
      DEF Next, ClickLogin, Authenticate, FetchReturns, Register, ClickLogout, CookieExpires,
          Reload, ClickEdit, Receive, serverVars, database, vars
  <1> QED
    BY <1>1, <1>2, DialogTypes, OffersNext, PTL DEF Spec, OnlyOwnScenesTouched

-----------------------------------------------------------------------------
(* Who a page is connected as *)

\* The two copies of the account agree, but for the end of the only login.
LoginsOK ==
  ~torn =>
    /\ \A t, u \in Tab : LoggingIn(t) /\ LoggingIn(u) => t = u
    /\ \A t \in Tab : fetch[t].ok => fetch[t].pc = "answered" /\ cookie \in {fetch[t].user, Guest}
    /\ (\A t \in Tab : ~fetch[t].ok) /\ stored # Guest => cookie \in {stored, Guest}

LEMMA LoginAt ==
  ASSUME NEW t \in Tab, fetch[t].pc # "none"
  PROVE  LoggingIn(t)
  <1>1. NoFetch.pc = "none"
    BY DEF NoFetch
  <1> QED
    BY <1>1 DEF LoggingIn

LEMMA LoginsNext ==
  ASSUME AccountsOK, LoginsOK, [Next]_vars
  PROVE  LoginsOK'
  <1>0. SUFFICES ASSUME ~torn' PROVE LoginsOK'
    BY DEF LoginsOK
  <1>1. ASSUME NEW t \in Tab, ClickLogin(t) PROVE LoginsOK'
    <2>1. ~torn /\ \A u \in Tab : ~LoggingIn(u) /\ ~fetch[u].ok
      BY <1>0, <1>1, LoginAt DEF ClickLogin, SomebodyLogsIn, LoginsOK
    <2>2. /\ fetch'[t].ok = FALSE /\ \A u \in Tab \ {t} : fetch'[u] = fetch[u]
          /\ UNCHANGED <<cookie, stored>>
      BY <1>1 DEF ClickLogin, AccountsOK
    <2> QED
      BY <2>1, <2>2 DEF LoginsOK, LoggingIn
  <1>2. ASSUME NEW t \in Tab, Authenticate(t) PROVE LoginsOK'
    <2>1. ~torn /\ LoggingIn(t) /\ UNCHANGED stored
      BY <1>0, <1>2, LoginAt DEF Authenticate
    <2>2. \A u \in Tab \ {t} : ~LoggingIn(u) /\ ~fetch[u].ok
      BY <2>1, LoginAt DEF LoginsOK
    <2>3. PICK ok \in BOOLEAN :
            /\ fetch' = [fetch EXCEPT ![t].pc = "answered", ![t].ok = ok]
            /\ cookie' = IF ok THEN fetch[t].user ELSE cookie
      BY <1>2 DEF Authenticate
    <2>4. /\ fetch'[t] = [fetch[t] EXCEPT !.pc = "answered", !.ok = ok]
          /\ \A u \in Tab \ {t} : fetch'[u] = fetch[u]
      BY <2>3 DEF AccountsOK
    <2>5. fetch'[t].ok = ok /\ fetch'[t].user = fetch[t].user /\ fetch'[t].pc = "answered"
      BY <2>4 DEF AccountsOK, Fetch
    <2>6. \A u \in Tab \ {t} : ~LoggingIn(u)' /\ ~fetch'[u].ok
      BY <2>2, <2>4 DEF LoggingIn
    <2>7. ~fetch[t].ok
      BY <1>2, <2>1 DEF Authenticate, LoginsOK
    <2> QED
      BY <2>1, <2>2, <2>3, <2>5, <2>6, <2>7 DEF LoginsOK
  <1>3. ASSUME NEW t \in Tab, FetchReturns(t) PROVE LoginsOK'
    <2>1. ~torn /\ LoggingIn(t) /\ UNCHANGED cookie
      <3>1. torn' = torn \/ torn' = (torn \/ fetch[t].ok)
        BY <1>3 DEF FetchReturns
      <3>2. ~torn
        BY <1>0, <3>1
      <3>3. fetch[t].pc # "none" /\ UNCHANGED cookie
        BY <1>3 DEF FetchReturns
      <3> QED
        BY <3>2, <3>3, LoginAt
    <2>2. \A u \in Tab \ {t} : ~LoggingIn(u) /\ ~fetch[u].ok
      BY <2>1, LoginAt DEF LoginsOK
    <2>3. /\ fetch'[t] = NoFetch /\ \A u \in Tab \ {t} : fetch'[u] = fetch[u]
      BY <1>3 DEF FetchReturns, AccountsOK
    <2>4. \A u \in Tab : ~LoggingIn(u)' /\ ~fetch'[u].ok
      <3>1. ~NoFetch.ok
        BY DEF NoFetch
      <3> QED
        BY <2>2, <2>3, <3>1 DEF LoggingIn
    <2>5. stored' # Guest => cookie' \in {stored', Guest}
      BY <1>0, <1>3, <2>1, <2>2 DEF FetchReturns, Accepted, LoginsOK
    <2> QED
      BY <2>4, <2>5 DEF LoginsOK
  <1>4. ASSUME NEW t \in Tab, ClickLogout(t) PROVE LoginsOK'
    BY <1>0, <1>4 DEF ClickLogout, LoginsOK, LoggingIn
  <1>5. ASSUME NEW t \in Tab, Reload(t) PROVE LoginsOK'
    <2>1. ~torn /\ \A u \in Tab : ~LoggingIn(u) /\ ~fetch[u].ok
      BY <1>0, <1>5, LoginAt DEF Reload, SomebodyLogsIn, LoginsOK
    <2>2. UNCHANGED <<cookie, stored>> /\ \A u \in Tab : fetch'[u] = fetch[u] \/ fetch'[u] = NoFetch
      BY <1>5 DEF Reload, AccountsOK
    <2> QED
      BY <2>1, <2>2 DEF LoginsOK, LoggingIn, NoFetch
  <1>6. CASE CookieExpires
    BY <1>0, <1>6 DEF CookieExpires, LoginsOK, LoggingIn
  <1>7. CASE UNCHANGED <<cookie, stored, fetch, torn>>
    BY <1>0, <1>7 DEF LoginsOK, LoggingIn
  <1> QED
    BY <1>1, <1>2, <1>3, <1>4, <1>5, <1>6, <1>7
    DEF Next, Register, ClickSave, ClickList, ClickRow, ClickEdit, ConfirmEdit, Ask, Receive,
        Serve, GoOn, authVars, vars

LEMMA ConnectedNext ==
  ASSUME TypeOK, LoginsOK, ConnectedAsShown, [Next]_vars
  PROVE  ConnectedAsShown'
  <1>0. SUFFICES ASSUME ~torn', NEW u \in Tab, fresh'[u], account'[u] # Guest
                 PROVE  user'[u] \in {account'[u], Guest}
    BY DEF ConnectedAsShown
  <1> USE DEF TypeOK, ConnectionsOK, AccountsOK
  <1>1. CASE UNCHANGED <<user, account, fresh>> /\ ~torn
    BY <1>0, <1>1 DEF ConnectedAsShown
  <1>2. ASSUME NEW t \in Tab, FetchReturns(t) \/ ClickLogout(t)
        PROVE  user'[u] \in {account'[u], Guest}
    <2>1. ~torn /\ UNCHANGED user
      BY <1>0, <1>2 DEF FetchReturns, ClickLogout, serverVars
    <2>2. account'[u] = account[u] /\ fresh[u]
      BY <1>0, <1>2 DEF FetchReturns, ClickLogout
    <2> QED
      BY <1>0, <2>1, <2>2 DEF ConnectedAsShown
  <1>3. ASSUME NEW t \in Tab, Reload(t) PROVE user'[u] \in {account'[u], Guest}
    <2>1. ~torn /\ \A v \in Tab : ~LoggingIn(v)
      BY <1>0, <1>3 DEF Reload, SomebodyLogsIn
    <2>2. stored # Guest => cookie \in {stored, Guest}
      BY <2>1, LoginAt DEF LoginsOK
    <2>3. CASE u = t
      BY <1>0, <1>3, <2>2, <2>3 DEF Reload
    <2>4. CASE u # t
      <3>1. user'[u] = user[u] /\ account'[u] = account[u] /\ fresh'[u] = fresh[u]
        BY <1>3, <2>4 DEF Reload
      <3> QED
        BY <1>0, <2>1, <3>1 DEF ConnectedAsShown
    <2> QED
      BY <2>3, <2>4
  <1>4. ASSUME NEW t \in Tab, ClickLogin(t) \/ Authenticate(t) \/ Receive(t) \/ Serve(t)
                              \/ ClickEdit(t)
        PROVE  UNCHANGED <<user, account, fresh>> /\ ~torn
    BY <1>0, <1>4 DEF ClickLogin, Authenticate, Receive, Serve, ClickEdit, serverVars, authVars
  <1>5. ASSUME NEW t \in Tab, ClickSave(t) \/ ClickList(t) \/ ClickRow(t) \/ ConfirmEdit(t)
        PROVE  UNCHANGED <<user, account, fresh>> /\ ~torn
    BY <1>0, <1>5 DEF ClickSave, ClickList, ClickRow, ConfirmEdit, Ask, serverVars, authVars
  <1>6. CASE GoOn
    BY <1>0, <1>1, <1>6
    DEF GoOn, SaveInserts, SaveEnds, ListsAgain, ListScenes, authVars
  <1>7. CASE Register \/ CookieExpires \/ UNCHANGED vars
    BY <1>0, <1>1, <1>7 DEF Register, CookieExpires, vars, serverVars, authVars
  <1> QED
    BY <1>1, <1>2, <1>3, <1>4, <1>5, <1>6, <1>7 DEF Next

\* A page is connected as the account it showed when it was loaded, or as nobody,
\* unless something cut a login in two (app.js:161, 205-207; client.go:553-572).
THEOREM Connected == Spec => []ConnectedAsShown
  <1>1. Init => LoginsOK /\ ConnectedAsShown
    <2> SUFFICES ASSUME Init PROVE LoginsOK /\ ConnectedAsShown
      OBVIOUS
    <2>1. \A t \in Tab : fetch[t] = NoFetch /\ ~fetch[t].ok /\ ~fresh[t]
      BY DEF Init, NoFetch
    <2>2. stored # Guest => cookie \in {stored, Guest}
      BY DEF Init
    <2> QED
      BY <2>1, <2>2 DEF LoginsOK, ConnectedAsShown, LoggingIn
  <1>2. TypeOK /\ LoginsOK /\ ConnectedAsShown /\ [Next]_vars => LoginsOK' /\ ConnectedAsShown'
    BY LoginsNext, ConnectedNext DEF TypeOK
  <1> QED
    BY <1>1, <1>2, DialogTypes, PTL DEF Spec
=============================================================================
