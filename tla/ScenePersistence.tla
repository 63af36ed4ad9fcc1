-------------------------- MODULE ScenePersistence --------------------------
(***************************************************************************)
(* Saved scenes: the handlers SAVE_SCENE, LIST_SCENES, LOAD_SCENE,         *)
(* DELETE_SCENE and UPDATE_SCENE of client.go, which several connections   *)
(* run at the same time against one database, and the queries of db/query  *)
(* with the constraints of db/migrations they rely on.  Each statement is  *)
(* atomic; no handler uses a transaction.  SceneDialogs adds the pages     *)
(* that send the requests, and the specification.                          *)
(*                                                                         *)
(* Left out: the order of a list (updated_at), and the cache that          *)
(* LOAD_SCENE resets (see Telemetry).                                      *)
(***************************************************************************)
EXTENDS Integers, Sequences

CONSTANTS
  Tab,        \* browser tabs, each with its connection
  User,       \* registered users
  Guest,      \* the UserID of a connection without a valid cookie: NULL
  Scene,      \* scene ids; uuid.New() never repeats one
  NoScene,    \* null
  Body,       \* bodies a draft may hold
  MaxBodies   \* bound on the length of a draft

ASSUME SceneAssumption ==
  /\ Guest \notin User
  /\ NoScene \notin Scene
  /\ MaxBodies \in Nat

VARIABLES
  user,    \* c.UserID of every tab's connection
  scenes,  \* table scenes: id -> owner, name
  bodies,  \* table scene_bodies
  pump,    \* per tab: what its ReadPump is doing, and the scene it saves
  saving,  \* saves in progress: scene -> the next body's index
  down,    \* per tab: messages under way to the browser
  drafts,  \* history: the draft of every scene ever created
  failed,  \* history: the scenes a body of which could not be inserted
  saved    \* history: the scenes reported as "successfully saved"

database == <<scenes, bodies>>
history == <<drafts, failed, saved>>

serverVars == <<user, database, pump, saving, down, history>>

Row == [owner : User, name : {"default", "edited"}]

BodyRow == [scene : Scene, index : Nat, body : Body]

Draft == UNION {[1 .. n -> Body] : n \in 1 .. MaxBodies}

Idle == [pc |-> "idle", scene |-> NoScene]

Answer(t, message) == down' = [down EXCEPT ![t] = Append(@, message)]

\* The page ignores it.
Error == [type |-> "ERROR"]

Refuse(t) == Answer(t, Error) /\ UNCHANGED <<database, pump, saving, history>>

NoRows == [s \in {} |-> NoScene]

Without(map, s) == [u \in DOMAIN map \ {s} |-> map[u]]

With(map, s, value) == [u \in DOMAIN map \cup {s} |-> IF u = s THEN value ELSE map[u]]

ServerInit ==
  /\ user \in [Tab -> User \cup {Guest}]
  /\ scenes = NoRows /\ bodies = {}
  /\ pump = [t \in Tab |-> Idle] /\ saving = NoRows
  /\ down = [t \in Tab |-> << >>]
  /\ drafts = NoRows /\ failed = {} /\ saved = {}

-----------------------------------------------------------------------------
(* SAVE_SCENE *)

\* CreateScene; user_id is NOT NULL, so a guest's insert fails, and any other
\* may (connection, deadline).
SaveBegins(t, draft) ==
  \/ /\ user[t] # Guest
     /\ \E s \in Scene \ DOMAIN drafts :
          /\ scenes' = With(scenes, s, [owner |-> user[t], name |-> "default"])
          /\ drafts' = With(drafts, s, draft)
          /\ saving' = With(saving, s, 1)
          /\ pump' = [pump EXCEPT ![t] = [pc |-> "save", scene |-> s]]
     /\ UNCHANGED <<bodies, down, failed, saved>>
  \/ Refuse(t)

\* Mutant of Done: the loop ends one body early.
DoneEarly(s) == saving[s] >= Len(drafts[s])

Done(s) == saving[s] > Len(drafts[s])

\* InsertSceneBody.  It fails when the scene is gone (foreign key), when the
\* 3 s shared by the whole save are over, or when the database fails; the loop
\* goes on in every case.
SaveInserts(s) ==
  /\ s \in DOMAIN saving /\ ~Done(s)
  /\ LET i == saving[s] IN
     /\ \/ /\ s \in DOMAIN scenes
           /\ bodies' = bodies \cup {[scene |-> s, index |-> i, body |-> drafts[s][i]]}
           /\ UNCHANGED failed
        \/ failed' = failed \cup {s} /\ UNCHANGED bodies
     /\ saving' = [saving EXCEPT ![s] = i + 1]
  /\ UNCHANGED <<user, scenes, pump, down, drafts, saved>>

\* "Scene successfully saved to PostgreSQL!"
SaveEnds(s) ==
  /\ s \in DOMAIN saving /\ Done(s)
  /\ saved' = saved \cup {s}
  /\ saving' = Without(saving, s)
  /\ pump' = [t \in Tab |-> IF pump[t].scene = s THEN Idle ELSE pump[t]]
  /\ UNCHANGED <<user, database, down, drafts, failed>>

-----------------------------------------------------------------------------
(* LIST_SCENES, alone or at the end of DELETE_SCENE and UPDATE_SCENE *)

\* Mutant of Mine: the query forgets whose scenes are asked for.
MineAndOthers(t) == DOMAIN scenes

Mine(t) == {s \in DOMAIN scenes : scenes[s].owner = user[t]}

ListScenes(t) ==
  /\ \/ user[t] # Guest /\ Answer(t, [type |-> "SCENE_LIST", scenes |-> Mine(t)])
     \/ Answer(t, Error)
  /\ UNCHANGED <<user, database, saving, history>>

ListsAgain(t) ==
  /\ pump[t].pc = "list"
  /\ ListScenes(t)
  /\ pump' = [pump EXCEPT ![t] = Idle]

-----------------------------------------------------------------------------
(* LOAD_SCENE: whatever rows there are, of anybody's scene, or none *)

LoadScene(t, s) ==
  \/ /\ Answer(t, [type |-> "LOADED_SCENE", bodies |-> {b \in bodies : b.scene = s}])
     /\ UNCHANGED <<database, pump, saving, history>>
  \/ Refuse(t)

-----------------------------------------------------------------------------
(* DELETE_SCENE *)

\* Mutant of Cascade: the rows of the scene stay.
CascadeNone(s) == bodies

\* REFERENCES scenes(id) ON DELETE CASCADE
Cascade(s) == {b \in bodies : b.scene # s}

\* DELETE ... WHERE id = $1: anybody's scene.
DeleteScene(t, s) ==
  \/ /\ user[t] # Guest
     /\ scenes' = Without(scenes, s)
     /\ bodies' = Cascade(s)
     /\ pump' = [pump EXCEPT ![t].pc = "list"]
     /\ UNCHANGED <<saving, down, history>>
  \/ Refuse(t)

-----------------------------------------------------------------------------
(* UPDATE_SCENE *)

\* WHERE id = $3 AND user_id = $4; nothing equals NULL.
Matches(t, s) == s \in DOMAIN scenes /\ scenes[s].owner = user[t]

\* No row may match, which is no error; a failure is only logged.
UpdateScene(t, s) ==
  /\ \/ /\ scenes' = IF Matches(t, s) THEN [scenes EXCEPT ![s].name = "edited"] ELSE scenes
        /\ pump' = [pump EXCEPT ![t].pc = "list"]
     \/ UNCHANGED <<scenes, pump>>
  /\ UNCHANGED <<bodies, saving, down, history>>

-----------------------------------------------------------------------------
(* Properties *)

Stored(s) == {b \in bodies : b.scene = s}

Drafted(s) == {[scene |-> s, index |-> i, body |-> drafts[s][i]] : i \in DOMAIN drafts[s]}

\* No body outlives its scene, also when one tab deletes a scene that another is
\* still saving (client.go:219-239, 348; init_schema.up.sql:41).
NoOrphanBodies == \A b \in bodies : b.scene \in DOMAIN scenes

\* A scene whose save met no failure is stored whole once it is reported saved,
\* whatever the other tabs did, unless it was deleted (client.go:219-241).
SavedWhole ==
  \A s \in saved \cap DOMAIN scenes : s \notin failed => Stored(s) = Drafted(s)
=============================================================================
