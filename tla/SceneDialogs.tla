---------------------------- MODULE SceneDialogs ----------------------------
(***************************************************************************)
(* Accounts and saved scenes as the user meets them: the tabs of one       *)
(* browser (web/src/app.js) with the account shown in each, the login and  *)
(* register requests (internal/auth/auth.go), and the dialogs that save,   *)
(* list, load, rename and delete scenes through ScenePersistence.          *)
(*                                                                         *)
(* The browser's cookie decides who a connection belongs to when it is     *)
(* made, localStorage which account the page shows: two copies of one      *)
(* fact, written one after the other.                                      *)
(*                                                                         *)
(* Opening and closing a dialog changes nothing but what is visible and is *)
(* left out; selecting a row and pressing Load, and pressing a button and  *)
(* confirming it, are one step.  What a loaded scene does to the canvas is *)
(* in Dashboard and LiveView.                                              *)
(***************************************************************************)
EXTENDS ScenePersistence

CONSTANTS MaxInputs  \* bound on the inputs of the user

VARIABLES
  registered,  \* table users
  cookie,      \* the user in auth_token; Guest: none, or expired
  stored,      \* localStorage astrophysics_user; Guest: none
  account,     \* per tab: currentUser; Guest: null
  fetch,       \* per tab: its login request
  net,         \* per tab: requests under way to the server
  rows,        \* per tab: the scenes listed in the load dialog
  editing,     \* per tab: editingSceneId
  inputs,      \* number of inputs so far
  fresh,       \* history, per tab: no login or logout since the page was loaded
  torn         \* history: something came between a login's cookie and its account

authVars == <<registered, cookie, stored, account, fetch, fresh, torn>>
dialogVars == <<net, rows, editing>>

vars == <<serverVars, authVars, dialogVars, inputs>>

NoFetch == [pc |-> "none", user |-> Guest, ok |-> FALSE]

\* Tabs opened at different times by a browser that was used before.
Init ==
  /\ ServerInit
  /\ registered \in SUBSET User
  /\ cookie \in registered \cup {Guest}
  /\ stored \in {Guest} \cup (IF cookie = Guest THEN registered ELSE {cookie})
  /\ \A t \in Tab : user[t] \in registered \cup {Guest}
  /\ account = [t \in Tab |-> stored]
  /\ fetch = [t \in Tab |-> NoFetch]
  /\ net = [t \in Tab |-> << >>]
  /\ rows = [t \in Tab |-> {}]
  /\ editing = [t \in Tab |-> NoScene]
  /\ inputs = 0
  /\ fresh = [t \in Tab |-> FALSE]
  /\ torn = FALSE

Act == inputs < MaxInputs /\ inputs' = inputs + 1

-----------------------------------------------------------------------------
(* Accounts *)

LoggingIn(t) == fetch[t] # NoFetch

SomebodyLogsIn == \E t \in Tab : LoggingIn(t)

\* The login form is there only for who is logged out.
ClickLogin(t) ==
  /\ Act
  /\ account[t] = Guest
  /\ ~LoggingIn(t)
  /\ \E u \in User : fetch' = [fetch EXCEPT ![t] = [pc |-> "asked", user |-> u, ok |-> FALSE]]
  /\ torn' = (torn \/ SomebodyLogsIn)
  /\ UNCHANGED <<serverVars, dialogVars, registered, cookie, stored, account, fresh>>

\* HandleLogin, up to the headers of its answer, which set the cookie.  The password
\* may be wrong, the database may fail.
Authenticate(t) ==
  /\ fetch[t].pc = "asked"
  /\ \E ok \in BOOLEAN :
       /\ ok => fetch[t].user \in registered
       /\ fetch' = [fetch EXCEPT ![t].pc = "answered", ![t].ok = ok]
       /\ cookie' = IF ok THEN fetch[t].user ELSE cookie
  /\ UNCHANGED <<serverVars, dialogVars, registered, stored, account, fresh, torn, inputs>>

\* Mutant of Accepted: response.ok is not looked at.
AcceptedAlways(t) == TRUE

Accepted(t) == fetch[t].ok

\* await response.json(), which throws when the body is lost or is the plain text of
\* an error; the page says so and changes nothing.
FetchReturns(t) ==
  /\ fetch[t].pc = "answered"
  /\ fetch' = [fetch EXCEPT ![t] = NoFetch]
  /\ \/ /\ Accepted(t)
        /\ account' = [account EXCEPT ![t] = fetch[t].user]
        /\ stored' = fetch[t].user
        /\ fresh' = [fresh EXCEPT ![t] = FALSE]
        /\ UNCHANGED torn
     \/ /\ torn' = (torn \/ fetch[t].ok)
        /\ UNCHANGED <<account, stored, fresh>>
  /\ UNCHANGED <<serverVars, dialogVars, registered, cookie, inputs>>

\* The register form and HandleRegister: users.email is UNIQUE.  Nobody is logged in,
\* and no step lies between that could be told apart.
Register ==
  /\ Act
  /\ \E u \in User \ registered : registered' = registered \cup {u}
  /\ UNCHANGED <<serverVars, dialogVars, cookie, stored, account, fetch, fresh, torn>>

\* The cookie stays, and so does the connection.
ClickLogout(t) ==
  /\ Act
  /\ account[t] # Guest
  /\ account' = [account EXCEPT ![t] = Guest]
  /\ stored' = Guest
  /\ fresh' = [fresh EXCEPT ![t] = FALSE]
  /\ UNCHANGED <<serverVars, dialogVars, registered, cookie, fetch, torn>>

\* After 24 hours.
CookieExpires ==
  /\ Act
  /\ cookie' = Guest
  /\ UNCHANGED <<serverVars, dialogVars, registered, stored, account, fetch, fresh, torn>>

\* The page is loaded again: a new connection, whose user ServeWs takes from the
\* cookie.  A save of the old connection goes on.
Reload(t) ==
  /\ Act
  /\ user' = [user EXCEPT ![t] = cookie]
  /\ account' = [account EXCEPT ![t] = stored]
  /\ fresh' = [fresh EXCEPT ![t] = TRUE]
  /\ torn' = (torn \/ SomebodyLogsIn)
  /\ fetch' = [fetch EXCEPT ![t] = NoFetch]
  /\ pump' = [pump EXCEPT ![t] = Idle]
  /\ net' = [net EXCEPT ![t] = << >>]
  /\ down' = [down EXCEPT ![t] = << >>]
  /\ rows' = [rows EXCEPT ![t] = {}]
  /\ editing' = [editing EXCEPT ![t] = NoScene]
  /\ UNCHANGED <<database, saving, history, registered, cookie, stored>>

-----------------------------------------------------------------------------
(* Scene dialogs *)

Ask(t, message) ==
  /\ Act
  /\ net' = [net EXCEPT ![t] = Append(@, message)]
  /\ UNCHANGED <<serverVars, authVars, rows>>

ClickSave(t) ==
  /\ \E draft \in Draft : Ask(t, [type |-> "SAVE", draft |-> draft])
  /\ UNCHANGED editing

ClickList(t) == Ask(t, [type |-> "LIST"]) /\ UNCHANGED editing

\* Load and delete buttons
ClickRow(t) ==
  /\ \E type \in {"LOAD", "DELETE"}, s \in rows[t] : Ask(t, [type |-> type, scene |-> s])
  /\ UNCHANGED editing

ClickEdit(t) ==
  /\ Act
  /\ \E s \in rows[t] \cup {NoScene} : editing' = [editing EXCEPT ![t] = s]
  /\ UNCHANGED <<serverVars, authVars, net, rows>>

ConfirmEdit(t) ==
  /\ editing[t] # NoScene
  /\ Ask(t, [type |-> "UPDATE", scene |-> editing[t]])
  /\ editing' = [editing EXCEPT ![t] = NoScene]

\* socket.onmessage, renderSceneList
Receive(t) ==
  /\ down[t] # << >>
  /\ down' = [down EXCEPT ![t] = Tail(@)]
  /\ rows' = IF Head(down[t]).type = "SCENE_LIST"
               THEN [rows EXCEPT ![t] = Head(down[t]).scenes] ELSE rows
  /\ UNCHANGED <<user, database, pump, saving, history, authVars, net, editing, inputs>>

-----------------------------------------------------------------------------
(* The server *)

Handle(t, m) ==
  \/ m.type = "SAVE" /\ SaveBegins(t, m.draft)
  \/ m.type = "LIST" /\ ListScenes(t) /\ UNCHANGED pump
  \/ m.type = "LOAD" /\ LoadScene(t, m.scene)
  \/ m.type = "DELETE" /\ DeleteScene(t, m.scene)
  \/ m.type = "UPDATE" /\ UpdateScene(t, m.scene)

\* ReadPump takes the next request when it is done with the last.
Serve(t) ==
  /\ pump[t].pc = "idle"
  /\ net[t] # << >>
  /\ net' = [net EXCEPT ![t] = Tail(@)]
  /\ Handle(t, Head(net[t]))
  /\ UNCHANGED <<user, authVars, rows, editing, inputs>>

GoOn ==
  /\ \/ \E s \in Scene : SaveInserts(s) \/ SaveEnds(s)
     \/ \E t \in Tab : ListsAgain(t)
  /\ UNCHANGED <<authVars, dialogVars, inputs>>

-----------------------------------------------------------------------------
Next ==
  \/ \E t \in Tab :
       \/ ClickLogin(t)
       \/ Authenticate(t)
       \/ FetchReturns(t)
       \/ ClickLogout(t)
       \/ Reload(t)
       \/ ClickSave(t)
       \/ ClickList(t)
       \/ ClickRow(t)
       \/ ClickEdit(t)
       \/ ConfirmEdit(t)
       \/ Receive(t)
       \/ Serve(t)
  \/ Register
  \/ CookieExpires
  \/ GoOn

Spec == Init /\ [][Next]_vars

-----------------------------------------------------------------------------
(* Properties *)

\* A scene is deleted or renamed only at the request of a connection of its owner,
\* although DELETE_SCENE does not ask whose it is: the page offers the scenes of its
\* own list only, and a list does not outlive its connection (app.js:1310-1391,
\* client.go:348, scenes.sql:22).
OnlyOwnScenesTouched ==
  [][\A s \in DOMAIN scenes :
       s \notin DOMAIN scenes' \/ scenes'[s] # scenes[s] =>
         \E t \in Tab : user[t] = scenes[s].owner /\ net'[t] # net[t]]_vars

\* A page that showed an account when it was loaded is connected as that account, or
\* as a guest once the cookie has expired, unless a reload, another login or a lost
\* answer cut a login in two (app.js:161, 205-207, 218-222; client.go:553-572).
ConnectedAsShown ==
  ~torn => \A t \in Tab :
    fresh[t] /\ account[t] # Guest => user[t] \in {account[t], Guest}
=============================================================================
