--------------------------- MODULE BrowserSession ---------------------------
(***************************************************************************)
(* The session in a tab of the browser: the providers around every page    *)
(* (SetupProvider, AuthProvider, RouteAccessProvider and                   *)
(* AppWorkspaceProvider of src/frontend/src/features) with the guards of   *)
(* the routes and the page of login.                                       *)
(*                                                                         *)
(* A tab asks for the state of the setup, then for the session of its      *)
(* cookie, then for the routes and the apps of the user.  The effects of a *)
(* render are part of the step that causes it, and so is the redirection   *)
(* of a guard.  Every user is offered every app.  Where the page of login  *)
(* leads is kept in sessionStorage, which is not modelled: any place.      *)
(***************************************************************************)
EXTENDS Browser, FiniteSets

CONSTANTS
    Users, Apps,
    First                \* the first app of the list

Sources == {"routes", "apps"}
Places == Apps \cup {"home", "admin", "login"}
Selection == [user : Users, app : Apps]
\* A request for the data of a user, with the cookie the browser has then.
Request == [user : Users, as : Users \cup {None}]

ASSUME BrowserSessionAssumption ==
    /\ First \in Apps /\ Apps \cap {"home", "admin", "login"} = {}
    /\ None \notin Users \cup Apps \cup Selection \cup Request
    /\ MaxActs \in Nat /\ MaxFaults \in Nat

VARIABLES
    cookie,                  \* whose session the cookie of the browser is
    stored,                  \* the selection in localStorage
    setup,                   \* "loading", "completed" or "failed"
    user, bootstrapping,     \* of AuthProvider
    restores, logins, logouts,   \* requests under way
    place,                   \* the route
    loaded, data, load,      \* of each source: loadedUserSub, whose data, the request
    persisted,               \* persistedAppId
    parted, chosen, remounted    \* history, see the properties

auth == <<restores, logins, logouts>>
sources == <<loaded, data, load>>
vars == <<cookie, stored, setup, user, bootstrapping, auth, place, sources, persisted,
          parted, chosen, remounted, acts, faults>>

SignedOut == ~bootstrapping /\ user = None
Mounted == setup = "completed" /\ place # "login"
RouteApp == IF place \in Apps THEN place ELSE None
\* The apps are loaded on the home page and inside an app.
Enabled(s) == s = "routes" \/ place \in Apps \cup {"home"}
Unloaded == [s \in Sources |-> None]

Init ==
    /\ cookie \in Users \cup {None} /\ stored \in Selection \cup {None}
    /\ setup = "loading"
    /\ user = None /\ bootstrapping = TRUE
    /\ restores = {} /\ logins = {} /\ logouts = {}
    /\ place \in Places
    /\ loaded = Unloaded /\ data = Unloaded /\ load = Unloaded
    /\ persisted = None
    /\ parted = FALSE /\ chosen = [u \in Users |-> None] /\ remounted = FALSE
    /\ acts = 0 /\ faults = 0

-----------------------------------------------------------------------------
(* A render: what the guards and the effects make of a change. *)


\* RequireAuth and the page of login, once the session is known.  That page leads to where
\* a guard sent the visitor from, now or earlier in this tab, or home: to any place.
Guarded(p) ==
    IF setup' # "completed" \/ bootstrapping' THEN {p}
    ELSE IF user' = None THEN IF p \in {"home", "login"} THEN {p} ELSE {"login"}
    ELSE IF p = "login" THEN Places \ {"login"} ELSE {p}

\* A provider holds nothing when it is mounted, and when nobody is signed in.
Empty == ~Mounted \/ ~Mounted' \/ SignedOut'

\* got: of each source answered by this step, whose data it is, None for an error.
Loaded(s, got) == IF s \in DOMAIN got THEN load[s].user ELSE loaded[s]
Kept(s) == /\ load[s] # None /\ ~Empty /\ user' = user
           /\ s = "apps" => RouteApp' = RouteApp
Wanted(s) == /\ Mounted' /\ ~bootstrapping' /\ user' # None /\ Enabled(s)'
             /\ loaded'[s] # user'

Load(got) ==
    /\ loaded' = [s \in Sources |-> IF Empty THEN None ELSE Loaded(s, got)]
    /\ data' = [s \in Sources |-> IF Empty THEN None
                                  ELSE IF s \in DOMAIN got THEN got[s] ELSE data[s]]
    /\ load' = [s \in Sources |-> IF ~Wanted(s) THEN None
                                  ELSE IF Kept(s) THEN load[s]
                                  ELSE [user |-> user', as |-> cookie']]

\* Mutant: the stored selection is not read.
ChosenUnread(s) ==
    IF user' = None \/ data'["apps"] = None THEN None
    ELSE IF RouteApp' # None THEN RouteApp' ELSE First

\* The app of the route, the one stored, or the first, of those that are there.
Chosen(s) ==
    IF user' = None \/ data'["apps"] = None THEN None
    ELSE IF RouteApp' # None THEN RouteApp'
    ELSE IF s # None /\ s.user = user' THEN s.app ELSE First

\* Mutant: the selection of whoever signs out stays.
StoreStaying(s) ==
    IF user' # None /\ Mounted' /\ (~Mounted \/ user' # user \/ persisted' # persisted)
    THEN IF persisted' = None THEN None ELSE [user |-> user', app |-> persisted']
    ELSE s

\* The effects clear the selection when nobody is signed in, or there is none.
Store(s) ==
    IF SignedOut' /\ (Mounted \/ Mounted') THEN None
    ELSE IF user' # None /\ Mounted' /\ (~Mounted \/ user' # user \/ persisted' # persisted)
    THEN IF persisted' = None THEN None ELSE [user |-> user', app |-> persisted']
    ELSE s

\* s is the selection stored when the render begins.
Select(s, got) ==
    /\ persisted' = IF ~Mounted' THEN None
                    ELSE IF \/ ~Mounted \/ user' # user \/ RouteApp' # RouteApp
                            \/ "apps" \in DOMAIN got
                    THEN Chosen(s) ELSE persisted
    /\ stored' = Store(s)
    /\ chosen' = IF SignedOut' THEN [u \in Users |-> None]
                 ELSE IF user' = None \/ data'["apps"] = None \/ RouteApp' = None THEN chosen
                 ELSE [chosen EXCEPT ![user'] = RouteApp']
    /\ remounted' = (~Mounted' \/ (remounted /\ chosen' = chosen))

Render(p, s, got) ==
    /\ place' \in Guarded(p)
    /\ Load(got)
    /\ Select(s, got)

Answer(s, whose) == [x \in {s} |-> whose]
Nothing == [x \in {} |-> None]

-----------------------------------------------------------------------------
(* What the user does. *)

\* The tab is opened anew: the cookie and localStorage stay.
Reload(p) ==
    /\ Acts
    /\ setup' = "loading" /\ user' = None /\ bootstrapping' = TRUE
    /\ restores' = {} /\ logins' = {} /\ logouts' = {}
    /\ place' = p
    /\ loaded' = Unloaded /\ data' = Unloaded /\ load' = Unloaded
    /\ persisted' = None
    /\ parted' = FALSE /\ remounted' = TRUE
    /\ UNCHANGED <<cookie, stored, chosen>>

GoTo(p) ==
    /\ Acts /\ setup = "completed" /\ p # place
    /\ UNCHANGED <<cookie, setup, user, bootstrapping, auth, parted>>
    /\ Render(p, stored, Nothing)

\* The launcher of the home page stores the app and opens it.
SelectApp(a) ==
    /\ Acts /\ place = "home" /\ Mounted /\ user # None /\ data["apps"] # None
    /\ UNCHANGED <<cookie, setup, user, bootstrapping, auth, parted>>
    /\ Render(a, [user |-> user, app |-> a], Nothing)

\* The form is there while no session is known.
SubmitLogin(u) ==
    /\ Acts /\ setup = "completed" /\ place = "login"
    /\ logins' = logins \cup {u}
    /\ parted' = (parted \/ bootstrapping)
    /\ UNCHANGED <<cookie, stored, setup, user, bootstrapping, restores, logouts, place,
                   sources, persisted, chosen, remounted>>

SubmitLogout ==
    /\ Acts /\ Mounted /\ user # None
    /\ logouts' = logouts \cup {cookie}
    /\ UNCHANGED <<cookie, stored, setup, user, bootstrapping, restores, logins, place,
                   sources, persisted, parted, chosen, remounted>>

-----------------------------------------------------------------------------
(* What the tab does with the answers. *)

SetupAnswer ==
    /\ setup = "loading"
    /\ UNCHANGED <<cookie, user, logins, logouts, parted>>
    /\ \/ /\ Works
          /\ setup' = "completed" /\ restores' = {cookie} /\ UNCHANGED bootstrapping
       \/ /\ Fails
          /\ setup' = "failed" /\ bootstrapping' = FALSE /\ UNCHANGED restores
    /\ Render(place, stored, Nothing)

\* Mutant: the flag waits for a session.
RestoreFailedWaiting == Fails /\ parted' = TRUE /\ UNCHANGED <<user, bootstrapping>>

\* An error that does not say the session is missing leaves the user as it is.
RestoreFailed == Fails /\ bootstrapping' = FALSE /\ parted' = TRUE /\ UNCHANGED user

RestoreAnswer(as) ==
    /\ as \in restores
    /\ restores' = restores \ {as}
    /\ UNCHANGED <<cookie, setup, logins, logouts>>
    /\ \/ Works /\ user' = as /\ bootstrapping' = FALSE /\ UNCHANGED parted
       \/ RestoreFailed
    /\ Render(place, stored, Nothing)

LoginAnswer(u) ==
    /\ u \in logins
    /\ logins' = logins \ {u}
    /\ UNCHANGED <<setup, bootstrapping, restores, logouts>>
    /\ \/ Works /\ cookie' = u /\ user' = u /\ parted' = (parted /\ ~SignedOut)
       \/ Fails /\ UNCHANGED <<cookie, user, parted>>
    /\ Render(place, stored, Nothing)

LogoutFailed == Fails /\ UNCHANGED <<cookie, user, parted>>

\* A missing session is as good as one that was ended.
LogoutAnswer(as) ==
    /\ as \in logouts
    /\ logouts' = logouts \ {as}
    /\ UNCHANGED <<setup, bootstrapping, restores, logins>>
    /\ \/ Works /\ cookie' = None /\ user' = None /\ parted' = (parted /\ restores # {})
       \/ LogoutFailed
    /\ Render(place, stored, Nothing)

\* An error counts as an answer, and nothing is asked again.
LoadAnswer(s) ==
    /\ load[s] # None
    /\ UNCHANGED <<cookie, setup, user, bootstrapping, auth, parted>>
    /\ \/ Works /\ load[s].as # None /\ Render(place, stored, Answer(s, load[s].as))
       \/ /\ IF load[s].as = None THEN Works ELSE Fails
          /\ Render(place, stored, Answer(s, None))

\* The session ends, or another tab begins one.
OtherTab(c) ==
    /\ Fails /\ c # cookie
    /\ cookie' = c /\ parted' = TRUE
    /\ UNCHANGED <<stored, setup, user, bootstrapping, auth, place, sources, persisted,
                   chosen, remounted>>

Next ==
    \/ \E p \in Places : Reload(p) \/ GoTo(p)
    \/ \E a \in Apps : SelectApp(a)
    \/ \E u \in Users : SubmitLogin(u)
    \/ SubmitLogout
    \/ SetupAnswer
    \/ \E as \in Users \cup {None} : RestoreAnswer(as) \/ LogoutAnswer(as) \/ OtherTab(as)
    \/ \E u \in Users : LoginAnswer(u)
    \/ \E s \in Sources : LoadAnswer(s)

\* The requests a tab waits for are answered, with a result or an error.
Fairness ==
    /\ WF_vars(SetupAnswer)
    /\ \A as \in Users \cup {None} : WF_vars(RestoreAnswer(as))
    /\ \A s \in Sources : WF_vars(LoadAnswer(s))

Spec == Init /\ [][Next]_vars /\ Fairness

-----------------------------------------------------------------------------
(* Properties. *)

TypeOK ==
    /\ cookie \in Users \cup {None} /\ stored \in Selection \cup {None}
    /\ setup \in {"loading", "completed", "failed"}
    /\ user \in Users \cup {None} /\ bootstrapping \in BOOLEAN
    /\ restores \cup logouts \subseteq Users \cup {None} /\ logins \subseteq Users
    /\ place \in Places
    /\ {loaded, data} \subseteq [Sources -> Users \cup {None}]
    /\ load \in [Sources -> Request \cup {None}]
    /\ persisted \in Apps \cup {None}
    /\ {parted, remounted} \subseteq BOOLEAN /\ chosen \in [Users -> Apps \cup {None}]
    /\ acts \in 0 .. MaxActs /\ faults \in 0 .. MaxFaults

\* Mutant: whoever the routes were loaded for.
AllowedUnchecked == data["routes"]
\* effectiveAllowedRouteIds: whose routes the guards and the menus go by.
Allowed == IF loaded["routes"] = user THEN data["routes"] ELSE None

\* The user of the tab is that of the cookie, so what is shown as done by one is not done
\* by another, and the guards and menus go by that user's routes, whoever signed in, out
\* and in again while routes were being loaded, unless the cookie was changed elsewhere,
\* the session could not be read, or one request of login or logout was sent while
\* another was under way.
UserOfCookie ==
    ~parted => /\ setup = "completed" /\ ~bootstrapping => user = cookie
               /\ Allowed \in {None, user}

\* Nothing of a user stays once a page is shown to nobody: no routes, no apps, no
\* selection, no request that would bring them back.
NothingLeft ==
    Mounted /\ SignedOut =>
        data = Unloaded /\ load = Unloaded /\ stored = None /\ persisted = None

\* Inside one visit the home page offers the app the user opened last.
SelectionHeld ==
    /\ Mounted /\ user # None /\ place = "home" /\ data["apps"] = user
    /\ chosen[user] # None /\ ~remounted /\ ~parted
    => persisted = chosen[user]

\* A tab waits for an answer that comes: neither the splash screens nor the spinners of
\* routes and apps stay.
Waiting ==
    \/ setup = "loading"
    \/ setup = "completed" /\ bootstrapping
    \/ Mounted /\ user # None /\ \E s \in Sources : Enabled(s) /\ loaded[s] # user
WaitingEnds == Waiting ~> ~Waiting
=============================================================================
