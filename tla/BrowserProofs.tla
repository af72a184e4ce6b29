---------------------------- MODULE BrowserProofs ----------------------------
(* Theorems about BrowserSession and EntityPages, for every value of their        *)
(* constants: what a tab holds is of the user it believes in, and of nobody once  *)
(* it shows a page to nobody; the page of a list shows the rows of its URL, and   *)
(* the page of a record that record.                                              *)
EXTENDS BrowserSession, EntityPages, SequenceTheorems, TLAPS

Unchosen == [u \in Users |-> None]
\* What is under way fits the setup and the restore.
Underway ==
    /\ setup # "completed" => user = None /\ restores = {} /\ logins = {} /\ logouts = {}
    /\ setup = "loading" => bootstrapping
    /\ setup = "failed" => ~bootstrapping
    /\ setup = "completed" =>
        IF bootstrapping THEN \E as \in Users \cup {None} : restores = {as}
        ELSE restores = {}

\* Who is signed in is not on the page of login.
Placed == setup = "completed" /\ ~bootstrapping /\ place = "login" => user = None

\* Data are asked for when they are missing, for the user there is.
Asked ==
    \A s \in Sources : load[s] # None =>
        /\ Mounted /\ ~bootstrapping /\ user # None /\ Enabled(s)
        /\ loaded[s] # user /\ load[s].user = user

\* Nothing is left of a user.
Emptied ==
    /\ ~Mounted \/ SignedOut => loaded = Unloaded /\ data = Unloaded /\ load = Unloaded
    /\ ~Mounted \/ user = None => persisted = None
    /\ Mounted /\ SignedOut => stored = None
    /\ SignedOut => chosen = Unchosen

\* The user is that of the cookie, or is being asked for.
Known ==
    ~parted =>
        /\ setup = "completed" =>
            IF bootstrapping
            THEN restores = {cookie} /\ user = None /\ logins = {} /\ logouts = {}
            ELSE user = cookie
        /\ user \notin logins

\* Data are of the user they were loaded for.
Owned ==
    ~parted =>
        /\ \A u \in logins : chosen[u] = None
        /\ \A s \in Sources :
            /\ data[s] \in {None, loaded[s]}
            /\ load[s] # None => load[s].as = load[s].user

\* The selection is stored, it is the app on the page, and the home page has it still.
Selected ==
    /\ Mounted /\ user # None =>
        stored = IF persisted = None THEN None ELSE [user |-> user, app |-> persisted]
    /\ Mounted /\ user # None /\ data["apps"] # None /\ RouteApp # None =>
        chosen[user] = RouteApp /\ persisted = RouteApp
    /\ ~parted /\ ~remounted =>
        /\ user = None => chosen = Unchosen
        /\ Mounted /\ user # None /\ chosen[user] # None =>
            IF data["apps"] = None THEN loaded["apps"] = user
            ELSE persisted = chosen[user]

Inv == TypeOK /\ Underway /\ Placed /\ Asked /\ Emptied /\ Known /\ Owned /\ Selected

-----------------------------------------------------------------------------
(* What a step is given, and does, beside the render it causes. *)

\* A render is given answers to requests under way, each an error or the data of whoever
\* the cookie said it was.
Given(got) ==
    \A x \in Sources : x \in DOMAIN got =>
        load[x] # None /\ got[x] \in {None, load[x].as}

\* The selection a render begins with is the one stored, or that of the app being opened.
Begins(p, s, got) ==
    \/ s = stored
    \/ /\ Mounted /\ Mounted' /\ user # None /\ user' = user
       /\ p \in Apps /\ data["apps"] # None /\ s = [user |-> user, app |-> p]
       /\ got = Nothing

\* The user of the tab is only changed by an answer: what the history says of the tab
\* can be told from what it said before.
Turn ==
    /\ logins' \subseteq logins
    /\ parted /\ ~parted' => SignedOut \/ SignedOut'
    /\ bootstrapping' /\ ~parted' => user = None /\ user' = None /\ ~parted
    /\ user' # user /\ user' # None /\ ~parted' /\ ~remounted => chosen[user'] = None

\* The part of the type invariant a render takes from its step.
TypedControl ==
    /\ cookie \in Users \cup {None} /\ setup \in {"loading", "completed", "failed"}
    /\ user \in Users \cup {None} /\ bootstrapping \in BOOLEAN
    /\ restores \cup logouts \subseteq Users \cup {None} /\ logins \subseteq Users
    /\ parted \in BOOLEAN
    /\ acts \in 0 .. MaxActs /\ faults \in 0 .. MaxFaults

-----------------------------------------------------------------------------
(* A render. *)

\* A route leads to a place.
LEMMA GuardedTyped ==
    ASSUME NEW p \in Places, NEW s, NEW got, Render(p, s, got)
    PROVE  place' \in Places
BY DEF Render, Guarded, Places

\* A render keeps the type of all it changes.
LEMMA RenderTyped ==
    ASSUME TypeOK, TypedControl', NEW p \in Places, NEW s \in Selection \cup {None}, NEW got,
           Given(got), Render(p, s, got)
    PROVE  TypeOK'
<1>1. place' \in Places
    BY GuardedTyped
<1>2. loaded' \in [Sources -> Users \cup {None}]
    <2>1. \A x \in Sources : Loaded(x, got) \in Users \cup {None}
        BY DEF TypeOK, Given, Loaded, Request
    <2> QED BY <2>1 DEF Render, Load
<1>3. data' \in [Sources -> Users \cup {None}]
    <2>1. \A x \in Sources : x \in DOMAIN got => got[x] \in Users \cup {None}
        BY DEF TypeOK, Given, Request
    <2> QED BY <2>1 DEF TypeOK, Render, Load
<1>4. load' \in [Sources -> Request \cup {None}]
    <2>1. \A x \in Sources : Wanted(x) => [user |-> user', as |-> cookie'] \in Request
        BY DEF TypedControl, Wanted, Request
    <2> QED BY <2>1 DEF TypeOK, Render, Load
<1>5. RouteApp' \in Apps \cup {None}
    BY DEF RouteApp
<1>6. Chosen(s) \in Apps \cup {None}
    BY <1>5, BrowserSessionAssumption DEF Chosen, Selection
<1>7. persisted' \in Apps \cup {None}
    BY <1>6 DEF TypeOK, Render, Select
<1>8. stored' \in Selection \cup {None}
    BY <1>7 DEF TypedControl, Render, Select, Store, Selection
<1>9. chosen' \in [Users -> Apps \cup {None}]
    BY <1>5 DEF TypeOK, Render, Select
<1>10. remounted' \in BOOLEAN
    BY DEF Render, Select
<1> QED
    BY <1>1, <1>2, <1>3, <1>4, <1>7, <1>8, <1>9, <1>10 DEF TypeOK, TypedControl

\* Whoever is signed in is led away from the page of login.
LEMMA RenderPlaced ==
    ASSUME NEW p, NEW s, NEW got, Render(p, s, got)
    PROVE  Placed'
BY DEF Placed, Render, Guarded

\* What a render asks for is missing, and asked for the user there is.
LEMMA RenderAsked ==
    ASSUME Asked, NEW p, NEW s, NEW got, Render(p, s, got)
    PROVE  Asked'
<1> SUFFICES ASSUME NEW x \in Sources, load'[x] # None
             PROVE  /\ Mounted' /\ ~bootstrapping' /\ user' # None /\ Enabled(x)'
                    /\ loaded'[x] # user' /\ load'[x].user = user'
    BY DEF Asked
<1>1. Wanted(x)
    BY DEF Render, Load
<1>2. load'[x].user = user'
    BY <1>1 DEF Asked, Render, Load, Kept
<1> QED BY <1>1, <1>2 DEF Wanted

\* A render to nobody leaves nothing of a user.
LEMMA RenderEmptied ==
    ASSUME Emptied, NEW p, NEW s, NEW got, Render(p, s, got)
    PROVE  Emptied'
<1>1. ~Mounted' \/ SignedOut' => loaded' = Unloaded /\ data' = Unloaded /\ load' = Unloaded
    <2>1. ~Mounted' \/ SignedOut' => Empty /\ \A x \in Sources : ~Wanted(x)
        BY DEF Empty, Wanted, SignedOut
    <2> QED BY <2>1 DEF Render, Load, Unloaded
<1>2. ~Mounted' \/ user' = None => persisted' = None
    BY DEF Emptied, Render, Select, Chosen
<1>3. Mounted' /\ SignedOut' => stored' = None
    BY DEF Render, Select, Store
<1>4. SignedOut' => chosen' = Unchosen
    BY DEF Render, Select, Unchosen
<1>5. Unloaded' = Unloaded /\ Unchosen' = Unchosen
    BY DEF Unloaded, Unchosen
<1> QED BY <1>1, <1>2, <1>3, <1>4, <1>5 DEF Emptied

\* While a user stays, the page is shown and the guards have done their work: the history
\* of the tab is that of one visit.
LEMMA Visit ==
    ASSUME TypeOK, Underway, Placed, Known, Turn, Mounted', user' # None, user' = user, ~parted'
    PROVE  ~parted /\ Mounted /\ ~SignedOut /\ ~SignedOut'
<1>1. ~SignedOut /\ ~SignedOut'
    BY DEF SignedOut
<1>2. ~parted
    BY <1>1 DEF Turn
<1>3. setup = "completed" /\ ~bootstrapping
    BY <1>2 DEF Underway, Known, TypeOK
<1>4. Mounted
    BY <1>3 DEF Placed, Mounted
<1> QED BY <1>1, <1>2, <1>4

\* Data and requests of a render are of the user they are for.
LEMMA RenderOwned ==
    ASSUME TypeOK, TypeOK', Asked, Emptied, Owned, Known', Turn,
           NEW p, NEW s, NEW got, Given(got), Render(p, s, got)
    PROVE  Owned'
<1> SUFFICES ASSUME ~parted'
             PROVE  /\ \A u \in logins' : chosen'[u] = None
                    /\ \A x \in Sources :
                        /\ data'[x] \in {None, loaded'[x]}
                        /\ load'[x] # None => load'[x].as = load'[x].user
    BY DEF Owned
<1>1. Empty \/ ~parted \/ (data = Unloaded /\ load = Unloaded)
    BY DEF Turn, Emptied, Empty, SignedOut
<1>2. ASSUME NEW u \in logins' PROVE chosen'[u] = None
    <2>1. u \in Users /\ u # user' /\ u \in logins
        BY DEF TypeOK, Known, Turn
    <2>2. SignedOut' => chosen'[u] = None
        BY <2>1 DEF Render, Select
    <2>3. SignedOut => chosen[u] = None
        BY <2>1 DEF Emptied, Unchosen
    <2>4. ~parted => chosen[u] = None
        BY <2>1 DEF Owned
    <2>5. chosen'[u] \in {None, chosen[u]}
        BY <2>1 DEF Render, Select, TypeOK
    <2> QED BY <2>2, <2>3, <2>4, <2>5 DEF Turn
<1>3. ASSUME NEW x \in Sources PROVE data'[x] \in {None, loaded'[x]}
    <2>1. CASE ~parted
        <3>1. x \in DOMAIN got => got[x] \in {None, Loaded(x, got)}
            BY <2>1 DEF Given, Owned, Loaded
        <3>2. x \notin DOMAIN got => data[x] \in {None, Loaded(x, got)}
            BY <2>1 DEF Owned, Loaded
        <3> QED BY <3>1, <3>2 DEF Render, Load
    <2>2. CASE Empty
        BY <2>2 DEF Render, Load
    <2>3. CASE data = Unloaded /\ load = Unloaded
        BY <2>3 DEF Unloaded, Given, Render, Load
    <2> QED BY <1>1, <2>1, <2>2, <2>3
<1>4. ASSUME NEW x \in Sources, load'[x] # None PROVE load'[x].as = load'[x].user
    <2>1. Wanted(x)
        BY <1>4 DEF Render, Load
    <2>2. user' = cookie'
        BY <2>1 DEF Wanted, Mounted, Known
    <2>3. CASE Kept(x)
        BY <1>1, <2>1, <2>3 DEF Kept, Owned, Render, Load, Unloaded
    <2>4. CASE ~Kept(x)
        BY <2>1, <2>2, <2>4 DEF Render, Load
    <2> QED BY <2>3, <2>4
<1> QED BY <1>2, <1>3, <1>4

\* An app that is opened is on the page.
LEMMA Opens ==
    ASSUME NEW p, NEW s, NEW got, Begins(p, s, got), Render(p, s, got), s # stored
    PROVE  RouteApp' = p /\ p # None
<1>1. p \in Apps /\ user' # None
    BY DEF Begins
<1>2. p \notin {"home", "login"} /\ p # None
    BY <1>1, BrowserSessionAssumption
<1>3. place' = p
    BY <1>1, <1>2 DEF Render, Guarded
<1> QED BY <1>1, <1>2, <1>3 DEF RouteApp

\* A render offers the app of the route, and stores what it offers.
LEMMA RenderStored ==
    ASSUME TypeOK, TypeOK', Emptied, Selected, NEW p \in Places,
           NEW s \in Selection \cup {None}, NEW got, Begins(p, s, got), Render(p, s, got),
           Mounted', user' # None
    PROVE  /\ data'["apps"] # None /\ RouteApp' # None =>
                chosen'[user'] = RouteApp' /\ persisted' = RouteApp'
           /\ stored' = IF persisted' = None THEN None
                        ELSE [user |-> user', app |-> persisted']
<1>1. ~SignedOut' /\ user' \in Users
    BY DEF SignedOut, TypeOK
<1>2. ASSUME data'["apps"] # None, RouteApp' # None
      PROVE  chosen'[user'] = RouteApp' /\ persisted' = RouteApp'
    <2>1. chosen'[user'] = RouteApp'
        BY <1>1, <1>2 DEF Render, Select, TypeOK
    <2>2. CASE ~Mounted \/ user' # user \/ RouteApp' # RouteApp \/ "apps" \in DOMAIN got
        <3>1. persisted' = Chosen(s)
            BY <2>2 DEF Render, Select
        <3>2. Chosen(s) = RouteApp'
            BY <1>2 DEF Chosen
        <3> QED BY <2>1, <3>1, <3>2
    <2>3. CASE /\ Mounted /\ user' = user /\ RouteApp' = RouteApp
               /\ "apps" \notin DOMAIN got
        <3>1. data'["apps"] = data["apps"]
            BY <1>1, <2>3 DEF Render, Load, Empty, Sources
        <3>2. persisted' = persisted
            BY <2>3 DEF Render, Select
        <3>3. data["apps"] # None /\ RouteApp # None /\ Mounted /\ user # None
            BY <1>2, <2>3, <3>1
        <3>4. persisted = RouteApp
            BY <3>3 DEF Selected
        <3> QED BY <2>1, <2>3, <3>2, <3>4
    <2> QED BY <2>1, <2>2, <2>3
<1>3. stored' = IF persisted' = None THEN None
                ELSE [user |-> user', app |-> persisted']
    <2>1. CASE ~Mounted \/ user' # user \/ persisted' # persisted
        BY <1>1, <2>1 DEF Render, Select, Store
    <2>2. CASE Mounted /\ user' = user /\ persisted' = persisted
        <3>1. stored' = s
            BY <1>1, <2>2 DEF Render, Select, Store
        <3>2. CASE s = stored
            BY <2>2, <3>1, <3>2 DEF Selected
        <3>3. CASE s # stored
            <4>1. s = [user |-> user, app |-> p]
                BY <3>3 DEF Begins
            <4>2. RouteApp' = p /\ p # None
                BY <3>3, Opens
            <4>3. data'["apps"] # None
                BY <1>1, <3>3, <4>1
                DEF Begins, Nothing, Render, Load, Empty, Sources
            <4>4. persisted' = p /\ p # None
                BY <1>2, <4>2, <4>3
            <4> QED BY <2>2, <3>1, <4>1, <4>4
        <3> QED BY <3>2, <3>3
    <2> QED BY <2>1, <2>2
<1> QED BY <1>2, <1>3

\* A render keeps the app opened last, for as long as the visit lasts.
LEMMA RenderSelected ==
    ASSUME TypeOK, TypeOK', Underway, Placed, Asked, Emptied, Known, Owned, Selected, Turn,
           NEW p \in Places, NEW s \in Selection \cup {None}, NEW got,
           Given(got), Begins(p, s, got), Render(p, s, got)
    PROVE  Selected'
<1>1. Mounted' /\ user' # None =>
        stored' = IF persisted' = None THEN None ELSE [user |-> user', app |-> persisted']
    BY RenderStored
<1>2. Mounted' /\ user' # None /\ data'["apps"] # None /\ RouteApp' # None =>
        chosen'[user'] = RouteApp' /\ persisted' = RouteApp'
    BY RenderStored
<1>3. ASSUME ~parted', ~remounted', user' = None PROVE chosen' = Unchosen
    <2>1. CASE SignedOut'
        BY <2>1 DEF Render, Select, Unchosen
    <2>2. CASE bootstrapping'
        <3>1. user = None /\ ~parted
            BY <1>3, <2>2 DEF Turn
        <3>2. chosen' = chosen
            BY <1>3, <2>2 DEF Render, Select, SignedOut
        <3>3. ~remounted
            BY <1>3, <3>2 DEF Render, Select
        <3> QED BY <3>1, <3>2, <3>3 DEF Selected
    <2> QED BY <1>3, <2>1, <2>2 DEF SignedOut
<1>4. ASSUME ~parted', ~remounted', Mounted', user' # None, chosen'[user'] # None
      PROVE  IF data'["apps"] = None THEN loaded'["apps"] = user'
             ELSE persisted' = chosen'[user']
    <2>1. CASE data'["apps"] # None /\ RouteApp' # None
        BY <1>2, <1>4, <2>1
    <2>2. CASE data'["apps"] = None \/ RouteApp' = None
        <3>1. chosen' = chosen /\ ~remounted
            BY <1>4, <2>2 DEF Render, Select, SignedOut
        <3>2. user' = user
            BY <1>4, <3>1 DEF Turn
        <3>3. ~parted /\ Mounted /\ ~SignedOut /\ ~SignedOut'
            BY <1>4, <3>2, Visit
        <3>4. IF data["apps"] = None THEN loaded["apps"] = user
              ELSE persisted = chosen[user]
            BY <1>4, <3>1, <3>2, <3>3 DEF Selected
        <3>5. stored = IF persisted = None THEN None
                       ELSE [user |-> user, app |-> persisted]
            BY <1>4, <3>2, <3>3 DEF Selected
        <3>6. ~Empty
            BY <1>4, <3>3 DEF Empty
        <3>7. CASE data'["apps"] = None
            <4>1. CASE "apps" \in DOMAIN got
                <5>1. load["apps"] # None
                    BY <4>1 DEF Given, Sources
                <5>2. load["apps"].user = user
                    BY <5>1 DEF Asked, Sources
                <5>3. loaded'["apps"] = Loaded("apps", got)
                    BY <3>6 DEF Render, Load, Sources
                <5> QED BY <3>2, <3>7, <4>1, <5>2, <5>3 DEF Loaded
            <4>2. CASE "apps" \notin DOMAIN got
                BY <3>2, <3>4, <3>6, <3>7, <4>2 DEF Sources, Render, Load, Loaded
            <4> QED BY <3>7, <4>1, <4>2
        <3>8. CASE data'["apps"] # None /\ RouteApp' = None
            <4>1. data["apps"] # None
                <5>1. "apps" \in DOMAIN got => loaded["apps"] # user
                    BY DEF Given, Asked, Sources
                <5>2. "apps" \notin DOMAIN got => data'["apps"] = data["apps"]
                    BY <3>6 DEF Render, Load, Sources
                <5> QED BY <3>4, <3>8, <5>1, <5>2
            <4>2. s = stored
                BY <3>8, Opens
            <4>3. Chosen(s) = persisted
                <5>1. persisted # None
                    BY <1>4, <3>1, <3>2, <3>4, <4>1
                <5>2. s = [user |-> user, app |-> persisted] /\ s # None
                    BY <1>4, <3>2, <3>5, <4>2, <5>1, BrowserSessionAssumption
                    DEF TypeOK, Selection
                <5> QED BY <1>4, <3>2, <3>8, <5>2 DEF Chosen
            <4>4. persisted' \in {persisted, Chosen(s)}
                BY <1>4 DEF Render, Select
            <4> QED BY <1>4, <3>1, <3>2, <3>4, <3>8, <4>1, <4>3, <4>4
        <3> QED BY <2>2, <3>7, <3>8
    <2> QED BY <2>1, <2>2
<1>5. Unchosen' = Unchosen
    BY DEF Unchosen
<1> QED BY <1>1, <1>2, <1>3, <1>4, <1>5 DEF Selected

\* What a render makes of the invariant, whatever step causes it.
LEMMA RenderStep ==
    ASSUME Inv, TypedControl', Underway', Known', Turn,
           NEW p \in Places, NEW s \in Selection \cup {None}, NEW got,
           Given(got), Begins(p, s, got), Render(p, s, got)
    PROVE  Inv'
<1>1. TypeOK'
    BY RenderTyped DEF Inv
<1>2. Placed'
    BY RenderPlaced
<1>3. Asked' /\ Emptied'
    BY RenderAsked, RenderEmptied DEF Inv
<1>4. Owned'
    BY <1>1, RenderOwned DEF Inv
<1>5. Selected'
    BY <1>1, RenderSelected DEF Inv
<1> QED BY <1>1, <1>2, <1>3, <1>4, <1>5 DEF Inv

-----------------------------------------------------------------------------
(* The steps. *)

\* The tab begins with nothing.
LEMMA InitInv == Init => Inv
<1> SUFFICES ASSUME Init PROVE Inv
    OBVIOUS
<1>1. TypeOK
    <2>0. MaxActs \in Nat /\ MaxFaults \in Nat
        BY BrowserSessionAssumption
    <2>1. /\ acts \in 0 .. MaxActs /\ faults \in 0 .. MaxFaults
          /\ {parted, remounted} \subseteq BOOLEAN
        <3>1. acts = 0 /\ faults = 0 /\ parted = FALSE /\ remounted = FALSE
            BY DEF Init
        <3>2. 0 \in 0 .. MaxActs /\ 0 \in 0 .. MaxFaults
            BY <2>0
        <3>3. {parted, remounted} \subseteq BOOLEAN
            BY <3>1
        <3> QED BY <3>1, <3>2, <3>3
    <2>2. Unloaded \in [Sources -> Users \cup {None}]
          /\ Unloaded \in [Sources -> Request \cup {None}]
        BY DEF Unloaded
    <2>3. {loaded, data} \subseteq [Sources -> Users \cup {None}]
          /\ load \in [Sources -> Request \cup {None}]
        BY <2>2 DEF Init
    <2>4. /\ restores \cup logouts \subseteq Users \cup {None} /\ logins \subseteq Users
          /\ setup \in {"loading", "completed", "failed"}
          /\ chosen \in [Users -> Apps \cup {None}]
        BY DEF Init
    <2> QED BY <2>1, <2>3, <2>4 DEF Init, TypeOK
<1>2. Underway /\ Placed /\ Asked
    BY DEF Init, Underway, Placed, Asked, Unloaded
<1>3. Emptied /\ Known /\ Owned /\ Selected
    BY DEF Init, Emptied, Known, Owned, Selected, Unchosen, Unloaded, SignedOut, Mounted
<1> QED BY <1>1, <1>2, <1>3 DEF Inv

\* Counting keeps the counters in their bounds.
LEMMA Counting ==
    ASSUME TypeOK, Acts \/ Fails \/ Works
    PROVE  acts' \in 0 .. MaxActs /\ faults' \in 0 .. MaxFaults
BY BrowserSessionAssumption DEF TypeOK, Acts, Fails, Works

\* A tab opened anew has no history.
LEMMA ReloadInv ==
    ASSUME Inv, NEW p \in Places, Reload(p)
    PROVE  Inv'
<1>1. TypeOK'
    <2>1. acts' \in 0 .. MaxActs /\ faults' \in 0 .. MaxFaults
        BY Counting DEF Inv, Reload
    <2>2. Unloaded \in [Sources -> Users \cup {None}]
          /\ Unloaded \in [Sources -> Request \cup {None}]
        BY DEF Unloaded
    <2> QED BY <2>1, <2>2 DEF Inv, TypeOK, Reload
<1>2. Underway' /\ Placed' /\ Asked'
    BY DEF Reload, Underway, Placed, Asked, Unloaded
<1>3. Unloaded' = Unloaded /\ ~Mounted' /\ ~SignedOut'
    BY DEF Unloaded, Reload, Mounted, SignedOut
<1>4. Emptied' /\ Known'
    BY <1>3 DEF Reload, Emptied, Known
<1>5. Owned' /\ Selected'
    BY <1>3 DEF Reload, Owned, Selected, Unloaded
<1> QED BY <1>1, <1>2, <1>4, <1>5 DEF Inv

\* Moving about changes nobody.
LEMMA Unturned ==
    ASSUME Inv, UNCHANGED <<cookie, setup, user, bootstrapping, auth, parted>>,
           Acts \/ Fails \/ Works
    PROVE  TypedControl' /\ Underway' /\ Known' /\ Turn
<1>1. TypedControl'
    BY Counting DEF Inv, TypeOK, TypedControl, auth
<1>2. Underway' /\ Known' /\ Turn
    BY DEF Inv, Underway, Known, Turn, auth
<1> QED BY <1>1, <1>2

\* No answer is an answer that was asked for.
LEMMA NothingGiven == Given(Nothing)
BY DEF Given, Nothing

\* Another page of the same user.
LEMMA GoToInv ==
    ASSUME Inv, NEW p \in Places, GoTo(p)
    PROVE  Inv'
<1>1. TypedControl' /\ Underway' /\ Known' /\ Turn
    BY Unturned DEF GoTo
<1>2. Begins(p, stored, Nothing) /\ Render(p, stored, Nothing)
    BY DEF Begins, GoTo
<1>3. stored \in Selection \cup {None}
    BY DEF Inv, TypeOK
<1> QED BY <1>1, <1>2, <1>3, NothingGiven, RenderStep

\* An app is opened from the home page.
LEMMA SelectAppInv ==
    ASSUME Inv, NEW a \in Apps, SelectApp(a)
    PROVE  Inv'
<1> DEFINE s == [user |-> user, app |-> a]
<1>1. TypedControl' /\ Underway' /\ Known' /\ Turn
    BY Unturned DEF SelectApp
<1>2. s \in Selection /\ a \in Places
    BY DEF SelectApp, Inv, TypeOK, Selection, Places
<1>3. Render(a, s, Nothing)
    BY DEF SelectApp
<1>4. Begins(a, s, Nothing)
    <2>1. a # "login" /\ user' = user /\ user # None /\ Mounted /\ setup' = setup
        BY BrowserSessionAssumption DEF SelectApp
    <2>2. place' = a
        BY <1>3, <2>1, BrowserSessionAssumption DEF Render, Guarded
    <2>3. Mounted'
        BY <2>1, <2>2 DEF Mounted
    <2> QED BY <2>1, <2>3 DEF Begins, SelectApp
<1> HIDE DEF s
<1> QED BY <1>1, <1>2, <1>3, <1>4, NothingGiven, RenderStep

\* Who signs in is not signed in.
LEMMA SubmitLoginInv ==
    ASSUME Inv, NEW u \in Users, SubmitLogin(u)
    PROVE  Inv'
<1> USE DEF Inv
<1>1. TypeOK'
    <2>1. acts' \in 0 .. MaxActs /\ faults' \in 0 .. MaxFaults
        BY Counting DEF SubmitLogin
    <2> QED BY <2>1 DEF TypeOK, SubmitLogin, sources
<1>2. Underway' /\ Placed' /\ Asked' /\ Emptied'
    <2>1. Mounted' = Mounted /\ SignedOut' = SignedOut
        BY DEF SubmitLogin, Mounted, SignedOut
    <2>2. \A x \in Sources : Enabled(x)' = Enabled(x)
        BY DEF SubmitLogin, Enabled
    <2> QED
        BY <2>1, <2>2
        DEF Underway, Placed, Asked, Emptied, SubmitLogin, sources, Unloaded, Unchosen
<1>3. ~parted' => user = None /\ SignedOut
    BY DEF SubmitLogin, Placed, TypeOK, SignedOut
<1>4. ~parted' => ~parted
    BY DEF SubmitLogin
<1>5. Known'
    BY <1>3, <1>4, BrowserSessionAssumption DEF Known, SubmitLogin, SignedOut
<1>6. Owned'
    BY <1>3, <1>4 DEF Owned, Emptied, Unchosen, SubmitLogin, sources
<1>7. Selected'
    BY <1>4 DEF Selected, SubmitLogin, sources, Mounted, RouteApp, Unchosen
<1> QED BY <1>1, <1>2, <1>5, <1>6, <1>7

\* Who signs out is signed in until the answer.
LEMMA SubmitLogoutInv ==
    ASSUME Inv, SubmitLogout
    PROVE  Inv'
<1> USE DEF Inv
<1>1. TypeOK'
    <2>1. acts' \in 0 .. MaxActs /\ faults' \in 0 .. MaxFaults
        BY Counting DEF SubmitLogout
    <2> QED BY <2>1 DEF TypeOK, SubmitLogout, sources
<1>2. Underway' /\ Placed' /\ Asked' /\ Emptied'
    <2>1. Mounted' = Mounted /\ SignedOut' = SignedOut /\ setup = "completed"
        BY DEF SubmitLogout, Mounted, SignedOut
    <2>2. \A x \in Sources : Enabled(x)' = Enabled(x)
        BY DEF SubmitLogout, Enabled
    <2> QED
        BY <2>1, <2>2
        DEF Underway, Placed, Asked, Emptied, SubmitLogout, sources, Unloaded, Unchosen
<1>3. Known'
    BY DEF Known, SubmitLogout, Mounted
<1>4. Owned' /\ Selected'
    BY DEF Owned, Selected, SubmitLogout, sources, Mounted, RouteApp, Unchosen
<1> QED BY <1>1, <1>2, <1>3, <1>4

\* The cookie changed elsewhere: nothing is promised of the tab until it is signed out.
LEMMA OtherTabInv ==
    ASSUME Inv, NEW c \in Users \cup {None}, OtherTab(c)
    PROVE  Inv'
<1> USE DEF Inv
<1>1. TypeOK'
    <2>1. acts' \in 0 .. MaxActs /\ faults' \in 0 .. MaxFaults
        BY Counting DEF OtherTab
    <2> QED BY <2>1 DEF TypeOK, OtherTab, sources, auth
<1>2. Underway' /\ Placed' /\ Asked' /\ Emptied'
    <2>1. Mounted' = Mounted /\ SignedOut' = SignedOut
        BY DEF OtherTab, Mounted, SignedOut
    <2>2. \A x \in Sources : Enabled(x)' = Enabled(x)
        BY DEF OtherTab, Enabled
    <2> QED
        BY <2>1, <2>2
        DEF Underway, Placed, Asked, Emptied, OtherTab, sources, auth, Unloaded, Unchosen
<1>3. Known' /\ Owned'
    BY DEF Known, Owned, OtherTab
<1>4. Selected'
    BY DEF Selected, OtherTab, sources, Mounted, RouteApp, Unchosen
<1> QED BY <1>1, <1>2, <1>3, <1>4

\* The setup is known: the session is asked for, or nobody is signed in.
LEMMA SetupAnswerInv ==
    ASSUME Inv, SetupAnswer
    PROVE  Inv'
<1>1. TypedControl'
    <2>1. acts' \in 0 .. MaxActs /\ faults' \in 0 .. MaxFaults
        BY Counting DEF SetupAnswer, Inv
    <2> QED BY <2>1 DEF Inv, TypeOK, TypedControl, SetupAnswer
<1>2. user = None /\ bootstrapping /\ restores = {} /\ logins = {} /\ logouts = {}
    BY DEF Inv, Underway, SetupAnswer
<1>3. Underway' /\ Known'
    BY <1>2, BrowserSessionAssumption DEF Inv, TypeOK, SetupAnswer, Underway, Known
<1>4. Turn
    BY <1>2 DEF SetupAnswer, Turn
<1>5. Begins(place, stored, Nothing) /\ Render(place, stored, Nothing)
    BY DEF Begins, SetupAnswer
<1>6. stored \in Selection \cup {None} /\ place \in Places
    BY DEF Inv, TypeOK
<1> QED BY <1>1, <1>3, <1>4, <1>5, <1>6, NothingGiven, RenderStep

\* The session is known, or it could not be read.
LEMMA RestoreAnswerInv ==
    ASSUME Inv, NEW as \in Users \cup {None}, RestoreAnswer(as)
    PROVE  Inv'
<1>1. TypedControl'
    <2>1. acts' \in 0 .. MaxActs /\ faults' \in 0 .. MaxFaults
        BY Counting DEF RestoreAnswer, RestoreFailed, Inv
    <2> QED BY <2>1 DEF Inv, TypeOK, TypedControl, RestoreAnswer, RestoreFailed
<1>2. setup = "completed" /\ bootstrapping /\ restores = {as} /\ ~bootstrapping'
    BY DEF Inv, TypeOK, Underway, RestoreAnswer, RestoreFailed
<1>3. ~parted' => ~parted /\ user = None /\ user' = as /\ as = cookie /\ logins = {}
    <2>1. ~parted' => ~parted /\ user' = as
        BY DEF RestoreAnswer, RestoreFailed
    <2>2. ~parted => restores = {cookie} /\ user = None /\ logins = {}
        BY <1>2 DEF Inv, Known
    <2> QED BY <1>2, <2>1, <2>2
<1>4. Underway'
    BY <1>2 DEF Underway, RestoreAnswer
<1>5. Known'
    BY <1>2, <1>3 DEF Known, RestoreAnswer
<1>6. Turn
    BY <1>2, <1>3 DEF Inv, Selected, Unchosen, TypedControl, Turn, RestoreAnswer
<1>7. Begins(place, stored, Nothing) /\ Render(place, stored, Nothing)
    BY DEF Begins, RestoreAnswer
<1>8. stored \in Selection \cup {None} /\ place \in Places
    BY DEF Inv, TypeOK
<1> QED BY <1>1, <1>4, <1>5, <1>6, <1>7, <1>8, NothingGiven, RenderStep

\* Somebody signed in, in place of nobody unless the cookie was changed elsewhere.
LEMMA LoginAnswerInv ==
    ASSUME Inv, NEW u \in Users, LoginAnswer(u)
    PROVE  Inv'
<1>1. TypedControl'
    <2>1. acts' \in 0 .. MaxActs /\ faults' \in 0 .. MaxFaults
        BY Counting DEF LoginAnswer, Inv
    <2>2. parted' \in BOOLEAN
        BY DEF Inv, TypeOK, LoginAnswer
    <2> QED BY <2>1, <2>2 DEF Inv, TypeOK, TypedControl, LoginAnswer
<1>2. setup = "completed" /\ u \in logins /\ u # None
    BY BrowserSessionAssumption DEF Inv, TypeOK, Underway, LoginAnswer
<1>3. ~parted => ~bootstrapping /\ user = cookie /\ chosen[u] = None
    BY <1>2 DEF Inv, Known, Owned
<1>4. SignedOut => ~bootstrapping /\ user = None /\ chosen[u] = None
    BY DEF Inv, Emptied, Unchosen, SignedOut
<1>5. \/ user' = u /\ cookie' = u /\ (~parted' => ~parted \/ SignedOut)
      \/ UNCHANGED <<cookie, user, parted>>
    BY DEF LoginAnswer
<1>6. logins' = logins \ {u} /\ UNCHANGED <<setup, bootstrapping, restores, logouts>>
    BY DEF LoginAnswer
<1>7. Underway'
    BY <1>2, <1>6 DEF Inv, Underway
<1>8. Known'
    BY <1>2, <1>3, <1>4, <1>5, <1>6 DEF Inv, Known
<1>9. Turn
    BY <1>2, <1>3, <1>4, <1>5, <1>6 DEF Turn
<1>10. Begins(place, stored, Nothing) /\ Render(place, stored, Nothing)
    BY DEF Begins, LoginAnswer
<1>11. stored \in Selection \cup {None} /\ place \in Places
    BY DEF Inv, TypeOK
<1> QED BY <1>1, <1>7, <1>8, <1>9, <1>10, <1>11, NothingGiven, RenderStep

\* Nobody is signed in any more, or the session could not be ended.
LEMMA LogoutAnswerInv ==
    ASSUME Inv, NEW as \in Users \cup {None}, LogoutAnswer(as)
    PROVE  Inv'
<1>1. TypedControl'
    <2>1. acts' \in 0 .. MaxActs /\ faults' \in 0 .. MaxFaults
        BY Counting DEF LogoutAnswer, LogoutFailed, Inv
    <2>2. parted' \in BOOLEAN
        BY DEF Inv, TypeOK, LogoutAnswer, LogoutFailed
    <2> QED BY <2>1, <2>2 DEF Inv, TypeOK, TypedControl, LogoutAnswer, LogoutFailed
<1>2. setup = "completed" /\ as \in logouts
    BY DEF Inv, TypeOK, Underway, LogoutAnswer
<1>3. ~parted => ~bootstrapping /\ user = cookie
    BY <1>2 DEF Inv, Known
<1>4. ~bootstrapping <=> restores = {}
    BY <1>2 DEF Inv, Underway, TypeOK
<1>5. \/ user' = None /\ cookie' = None /\ (~parted' => ~parted \/ restores = {})
      \/ UNCHANGED <<cookie, user, parted>>
    BY DEF LogoutAnswer, LogoutFailed
<1>6. logouts' = logouts \ {as} /\ UNCHANGED <<setup, bootstrapping, restores, logins>>
    BY DEF LogoutAnswer
<1>7. Underway'
    BY <1>2, <1>6 DEF Inv, Underway
<1>8. None \notin logins
    BY BrowserSessionAssumption DEF Inv, TypeOK
<1>9. Known'
    BY <1>2, <1>3, <1>4, <1>5, <1>6, <1>8 DEF Inv, Known
<1>10. Turn
    BY <1>2, <1>3, <1>4, <1>5, <1>6 DEF Turn, SignedOut
<1>11. Begins(place, stored, Nothing) /\ Render(place, stored, Nothing)
    BY DEF Begins, LogoutAnswer
<1>12. stored \in Selection \cup {None} /\ place \in Places
    BY DEF Inv, TypeOK
<1> QED BY <1>1, <1>7, <1>9, <1>10, <1>11, <1>12, NothingGiven, RenderStep

\* The routes or the apps of a user are there, or could not be read.
LEMMA LoadAnswerInv ==
    ASSUME Inv, NEW x \in Sources, LoadAnswer(x)
    PROVE  Inv'
<1>1. TypedControl' /\ Underway' /\ Known' /\ Turn
    BY Unturned DEF LoadAnswer
<1>2. ASSUME NEW who \in {None, load[x].as}, Render(place, stored, Answer(x, who))
      PROVE  Inv'
    <2> DEFINE got == Answer(x, who)
    <2>1. DOMAIN got = {x} /\ got[x] = who
        BY DEF Answer
    <2>2. Given(got)
        BY <2>1 DEF Given, LoadAnswer
    <2>3. Begins(place, stored, got)
        BY DEF Begins
    <2>4. stored \in Selection \cup {None} /\ place \in Places
        BY DEF Inv, TypeOK
    <2>5. Render(place, stored, got)
        BY <1>2
    <2> HIDE DEF got
    <2> QED BY <1>1, <2>2, <2>3, <2>4, <2>5, RenderStep
<1>3. CASE Render(place, stored, Answer(x, load[x].as))
    BY <1>2, <1>3
<1>4. CASE Render(place, stored, Answer(x, None))
    BY <1>2, <1>4
<1> QED BY <1>3, <1>4 DEF LoadAnswer

\* Nothing happens.
LEMMA StutterInv == Inv /\ UNCHANGED vars => Inv'
<1> SUFFICES ASSUME Inv, UNCHANGED vars PROVE Inv'
    OBVIOUS
<1> USE DEF Inv, vars, auth, sources
<1>1. TypeOK'
    BY DEF TypeOK
<1>2. Underway' /\ Placed' /\ Asked' /\ Emptied'
    BY DEF Underway, Placed, Asked, Emptied, Mounted, SignedOut, Enabled, Unloaded, Unchosen
<1>3. Known' /\ Owned' /\ Selected'
    BY DEF Known, Owned, Selected, Mounted, RouteApp, Unchosen
<1> QED BY <1>1, <1>2, <1>3

\* The invariant is inductive.
LEMMA NextInv == Inv /\ [Next]_vars => Inv'
<1> SUFFICES ASSUME Inv, [Next]_vars PROVE Inv'
    OBVIOUS
<1>1. ASSUME NEW p \in Places, Reload(p) \/ GoTo(p) PROVE Inv'
    BY <1>1, ReloadInv, GoToInv
<1>2. ASSUME NEW a \in Apps, SelectApp(a) PROVE Inv'
    BY <1>2, SelectAppInv
<1>3. ASSUME NEW u \in Users, SubmitLogin(u) \/ LoginAnswer(u) PROVE Inv'
    BY <1>3, SubmitLoginInv, LoginAnswerInv
<1>4. CASE SubmitLogout \/ SetupAnswer
    BY <1>4, SubmitLogoutInv, SetupAnswerInv
<1>5. ASSUME NEW as \in Users \cup {None},
             RestoreAnswer(as) \/ LogoutAnswer(as) \/ OtherTab(as)
      PROVE  Inv'
    BY <1>5, RestoreAnswerInv, LogoutAnswerInv, OtherTabInv
<1>6. ASSUME NEW x \in Sources, LoadAnswer(x) PROVE Inv'
    BY <1>6, LoadAnswerInv
<1>7. CASE UNCHANGED vars
    BY <1>7, StutterInv
<1> QED BY <1>1, <1>2, <1>3, <1>4, <1>5, <1>6, <1>7 DEF Next

-----------------------------------------------------------------------------
(* The theorems. *)

\* The invariant holds in every behaviour.
LEMMA Invariance == Spec => []Inv
BY InitInv, NextInv, PTL DEF Spec

\* In every behaviour of the tab the variables keep their types.
THEOREM TypeCorrect == Spec => []TypeOK
<1>1. Inv => TypeOK
    BY DEF Inv
<1> QED BY <1>1, Invariance, PTL

\* The tab takes for its user the one of the cookie, and goes by that user's routes, unless
\* the cookie was changed elsewhere, the session could not be read, or one request of login
\* or logout was sent while another was under way (parted).
THEOREM RightUser == Spec => []UserOfCookie
<1>1. Inv => UserOfCookie
    BY DEF Inv, Underway, Known, Owned, UserOfCookie, Allowed, Sources
<1> QED BY <1>1, Invariance, PTL

\* What a user loaded, selected or was waiting for is gone once nobody is signed in.
THEOREM NobodyHolds == Spec => []NothingLeft
<1>1. Inv => NothingLeft
    BY DEF Inv, Emptied, NothingLeft, SignedOut
<1> QED BY <1>1, Invariance, PTL

\* The home page offers the app opened last in one visit of a user, once the apps are there,
\* unless the pages were left or the session ended since (remounted, parted).
THEOREM LastAppOffered == Spec => []SelectionHeld
<1>1. Inv => SelectionHeld
    <2>1. \A u \in Users : u # None
        BY BrowserSessionAssumption
    <2> QED BY <2>1 DEF Inv, Selected, SelectionHeld, TypeOK
<1> QED BY <1>1, Invariance, PTL

-----------------------------------------------------------------------------
(* EntityList. *)

FirstPage(u) == ToList(u.list, u.query, None)

\* The instances of the page ask one after the other.
ListPaged ==
    /\ OnList => Instance > 0
    /\ \A i \in DOMAIN requests : requests[i].page <= Instance
    /\ \A i, j \in DOMAIN requests : i < j => requests[i].page <= requests[j].page
    /\ \A d \in deletions : d.page <= Instance

\* A spinner waits for an answer.
Spinning == OnList /\ loading => \E i \in DOMAIN requests : ListLive(requests[i])

\* The rows, or the error, are those of the URL.
RowsRight ==
    \/ rows = None /\ error # None
    \/ /\ rows # None /\ error = None
       /\ rows.list = url.list /\ rows.query = url.query
       /\ rows.page = PageOf(url.cursor)

\* The browser is on its way from a page to the first one.
Turning == target # None /\ target.cursor = None /\ url.cursor # None

\* The last request of the page, or what it left, will do.
ListCurrent ==
    /\ \A i, j \in DOMAIN requests : i < j /\ requests[j].late => requests[i].late
    /\ \A i \in DOMAIN requests :
         ListLive(requests[i]) /\ (\A j \in DOMAIN requests : j > i => ~ListLive(requests[j]))
         => requests[i].late \/ requests[i].url = url
    /\ OnList /\ (\A i \in DOMAIN requests : ListLive(requests[i]) => requests[i].late)
           /\ ~behind /\ ~hasty
       => RowsRight \/ Turning

\* What is not old is of the page, and the browser stays there.
Stays == target = None \/ target.list = url.list
Recent ==
    /\ \A i \in DOMAIN requests : ~requests[i].old => ListLive(requests[i]) /\ Stays
    /\ \A d \in deletions : ~d.old => ListLive(d) /\ Stays

\* The cursors kept are a path to u.
OfList(c, u) == c # None => c.list = u.list /\ c.query = u.query
Path(h, u) ==
    /\ OfList(u.cursor, u)
    /\ Len(h) = PageOf(u.cursor)
    /\ \A i \in DOMAIN h : PageOf(h[i]) = i - 1 /\ OfList(h[i], u)
Pathed ==
    /\ rows # None /\ rows.next # None => OfList(rows.next, rows) /\ rows.next.page = rows.page + 1
    /\ ~astray =>
       /\ target # None =>
            IF OnList /\ target.list = url.list
            THEN Path(cursorHistory, target) /\ (target.query # url.query => target.cursor = None)
            ELSE target.cursor = None
       /\ OnList /\ target = None => Path(cursorHistory, url)

\* The browser is, or goes, where the user wants, and nothing that is not old says other.
Leading == IF target = None THEN url ELSE target
Going ==
    ~pulled =>
        /\ Leading \in {wanted, FirstPage(wanted)}
        /\ \A i \in DOMAIN requests : ~requests[i].old =>
              requests[i].url.query = wanted.query /\ url.list = wanted.list
        /\ \A d \in deletions : ~d.old => d.query = wanted.query /\ url.list = wanted.list

\* No cursor is of the future, and each is of its list and query.
UpTo(c, e) == c # None => c.epoch <= e
Dated ==
    /\ rows # None => UpTo(rows.next, epoch)
    /\ ~returned =>
       /\ UpTo(url.cursor, epoch) /\ OfList(url.cursor, url)
       /\ target # None => UpTo(target.cursor, epoch) /\ OfList(target.cursor, target)
       /\ OnList => \A i \in DOMAIN cursorHistory :
                      UpTo(cursorHistory[i], epoch) /\ OfList(cursorHistory[i], url)
       /\ \A i \in DOMAIN requests :
            /\ UpTo(requests[i].url.cursor, epoch)
            /\ OfList(requests[i].url.cursor, requests[i].url)

\* A page reached by a cursor is asked for alone.
Single ==
    ~returned =>
       /\ target # None /\ target.cursor # None =>
            /\ requests = <<>> /\ \A d \in deletions : d.old
            /\ OnList /\ target.list = url.list /\ target.query = url.query
       /\ \A i \in DOMAIN requests : ~requests[i].old /\ requests[i].url.cursor # None =>
            /\ Len(requests) = 1 /\ url = requests[i].url /\ target = None
            /\ \A d \in deletions : d.old
            /\ loading

\* After a recovery every cursor of the page is newer than the one that had expired.
Since(c, k) == c # None => c.epoch > k.cursor.epoch
Recovered ==
    ~returned /\ OnList /\ recoveryKeys[Instance] # None =>
      LET k == recoveryKeys[Instance]
      IN /\ k.cursor.epoch < epoch
         /\ \A i \in DOMAIN requests : ListLive(requests[i]) => Since(requests[i].url.cursor, k)
         /\ target # None => Since(target.cursor, k)
         /\ \/ Turning /\ cursorHistory = <<>>
            \/ /\ Since(url.cursor, k)
               /\ \A i \in DOMAIN cursorHistory : Since(cursorHistory[i], k)
               /\ loading \/ rows = None \/ Since(rows.next, k)
NoLoop == error = "cursor" => returned

ListBase == ListTypeOK /\ EntityListAssumption
ListInv ==
    /\ ListBase /\ ListPaged /\ Spinning /\ ListCurrent /\ Recent /\ Pathed /\ Going
    /\ Dated /\ Single /\ Recovered /\ NoLoop

-----------------------------------------------------------------------------
(* Requests. *)

LEMMA Removing ==
    ASSUME NEW S, NEW s \in Seq(S), NEW i \in 1 .. Len(s)
    PROVE  /\ RemoveAt(s, i) \in Seq(S) /\ Len(RemoveAt(s, i)) = Len(s) - 1
           /\ \A j \in 1 .. Len(s) - 1 :
                RemoveAt(s, i)[j] = IF j < i THEN s[j] ELSE s[j + 1]
<1> DEFINE p == SubSeq(s, 1, i - 1)
           q == SubSeq(s, i + 1, Len(s))
<1>1. /\ p \in Seq(S) /\ Len(p) = i - 1
      /\ \A j \in 1 .. i - 1 : p[j] = s[j]
    OBVIOUS
<1>2. /\ q \in Seq(S) /\ Len(q) = Len(s) - i
      /\ \A j \in 1 .. Len(s) - i : q[j] = s[i + j]
    OBVIOUS
<1> HIDE DEF p, q
<1>3. /\ p \o q \in Seq(S) /\ Len(p \o q) = Len(p) + Len(q)
      /\ \A j \in 1 .. Len(p) + Len(q) : (p \o q)[j] = IF j <= Len(p) THEN p[j] ELSE q[j - Len(p)]
    BY <1>1, <1>2, ConcatProperties
<1>4. RemoveAt(s, i) = p \o q
    BY DEF RemoveAt, p, q
<1>5. ASSUME NEW j \in 1 .. Len(s) - 1
      PROVE  RemoveAt(s, i)[j] = IF j < i THEN s[j] ELSE s[j + 1]
    <2>1. Len(s) \in Nat
        OBVIOUS
    <2>2. j \in 1 .. Len(p) + Len(q)
        BY <1>1, <1>2, <2>1
    <2>3. CASE j < i
        BY <1>1, <1>3, <1>4, <2>1, <2>2, <2>3
    <2>4. CASE ~(j < i)
        <3>1. j - Len(p) \in 1 .. Len(s) - i /\ i + (j - Len(p)) = j + 1 /\ ~(j <= Len(p))
            BY <1>1, <2>1, <2>4
        <3>2. q[j - Len(p)] = s[j + 1]
            BY <1>2, <3>1
        <3> QED BY <1>3, <1>4, <2>2, <2>4, <3>1, <3>2
    <2> QED BY <2>3, <2>4
<1>6. RemoveAt(s, i) \in Seq(S) /\ Len(RemoveAt(s, i)) = Len(s) - 1
    <2>1. Len(s) \in Nat /\ Len(p) + Len(q) = Len(s) - 1
        BY <1>1, <1>2
    <2> QED BY <1>3, <1>4, <2>1
<1> QED BY <1>5, <1>6

Before(j, i) == IF j < i THEN j ELSE j + 1

LEMMA AnsweredRequest ==
    ASSUME requests \in Seq(ListRequest), NEW i \in DOMAIN requests, requests' = ListAnswered(i)
    PROVE  /\ requests' \in Seq(ListRequest) /\ Len(requests') = Len(requests) - 1
           /\ \A j \in DOMAIN requests' :
                /\ Before(j, i) \in DOMAIN requests \ {i}
                /\ requests'[j] = IF j < i THEN [requests[j] EXCEPT !.late = TRUE] ELSE requests[j + 1]
           /\ \A k \in DOMAIN requests \ {i} : \E j \in DOMAIN requests' : k = Before(j, i)
<1> DEFINE s == [j \in DOMAIN requests |->
                  IF j < i THEN [requests[j] EXCEPT !.late = TRUE] ELSE requests[j]]
<1>1. s \in Seq(ListRequest) /\ Len(s) = Len(requests) /\ DOMAIN s = DOMAIN requests
    <2>1. ASSUME NEW j \in DOMAIN requests PROVE s[j] \in ListRequest
        <3>1. requests[j] \in ListRequest
            OBVIOUS
        <3>2. [requests[j] EXCEPT !.late = TRUE] \in ListRequest
            BY <3>1 DEF ListRequest
        <3> QED BY <3>1, <3>2
    <2> QED BY <2>1
<1>2. requests' = RemoveAt(s, i)
    BY DEF ListAnswered
<1>3. \A j \in DOMAIN requests :
        s[j] = IF j < i THEN [requests[j] EXCEPT !.late = TRUE] ELSE requests[j]
    OBVIOUS
<1> HIDE DEF s
<1>4. i \in 1 .. Len(s) /\ Len(requests) \in Nat
    BY <1>1
<1>5. /\ requests' \in Seq(ListRequest) /\ Len(requests') = Len(requests) - 1
      /\ \A j \in 1 .. Len(requests) - 1 : requests'[j] = IF j < i THEN s[j] ELSE s[j + 1]
    BY <1>1, <1>2, <1>4, Removing
<1>6. DOMAIN requests' = 1 .. Len(requests) - 1 /\ DOMAIN requests = 1 .. Len(requests)
    BY <1>5
<1>7. ASSUME NEW j \in DOMAIN requests'
      PROVE  /\ Before(j, i) \in DOMAIN requests \ {i}
             /\ requests'[j] = IF j < i THEN [requests[j] EXCEPT !.late = TRUE] ELSE requests[j + 1]
    <2>1. Before(j, i) \in DOMAIN requests \ {i}
        BY <1>4, <1>6 DEF Before
    <2>2. requests'[j] = IF j < i THEN s[j] ELSE s[j + 1]
        BY <1>5, <1>6
    <2>3. CASE j < i
        BY <1>3, <2>1, <2>2, <2>3 DEF Before
    <2>4. CASE ~(j < i)
        <3>1. ~(j + 1 < i)
            BY <1>4, <1>6, <2>4
        <3> QED BY <1>3, <2>1, <2>2, <2>4, <3>1 DEF Before
    <2> QED BY <2>1, <2>3, <2>4
<1>8. ASSUME NEW k \in DOMAIN requests \ {i}
      PROVE  \E j \in DOMAIN requests' : k = Before(j, i)
    <2>1. CASE k < i
        BY <1>4, <1>6, <2>1 DEF Before
    <2>2. CASE k > i
        <3>1. k - 1 \in DOMAIN requests' /\ k = Before(k - 1, i)
            BY <1>4, <1>6, <2>2 DEF Before
        <3> QED BY <3>1
    <2> QED BY <1>4, <1>6, <2>1, <2>2
<1> QED BY <1>5, <1>7, <1>8

LEMMA Left ==
    ASSUME requests \in Seq(ListRequest), NEW i \in DOMAIN requests, requests' = ListAnswered(i),
           NEW j \in DOMAIN requests'
    PROVE  /\ Before(j, i) \in DOMAIN requests \ {i}
           /\ requests'[j].page = requests[Before(j, i)].page
           /\ requests'[j].url = requests[Before(j, i)].url
           /\ requests'[j].old = requests[Before(j, i)].old
           /\ requests'[j].late = (j < i \/ requests[Before(j, i)].late)
<1>1. /\ Before(j, i) \in DOMAIN requests \ {i}
      /\ requests'[j] = IF j < i THEN [requests[j] EXCEPT !.late = TRUE] ELSE requests[j + 1]
    BY AnsweredRequest
<1>2. requests[Before(j, i)] \in ListRequest
    BY <1>1
<1>3. CASE j < i
    BY <1>1, <1>2, <1>3 DEF Before, ListRequest
<1>4. CASE ~(j < i)
    BY <1>1, <1>2, <1>4 DEF Before, ListRequest
<1> QED BY <1>3, <1>4

\* Appending a request to the others.
LEMMA Appended ==
    ASSUME requests \in Seq(ListRequest), NEW x \in ListRequest, requests' = Append(requests, x)
    PROVE  /\ requests' \in Seq(ListRequest) /\ DOMAIN requests' = 1 .. Len(requests) + 1
           /\ DOMAIN requests = 1 .. Len(requests) /\ Len(requests) \in Nat
           /\ requests'[Len(requests) + 1] = x
           /\ \A j \in DOMAIN requests : requests'[j] = requests[j]
OBVIOUS

\* Going elsewhere makes the requests old.
Aged == [i \in DOMAIN requests |-> [requests[i] EXCEPT !.old = TRUE]]
LEMMA Ageing ==
    ASSUME requests \in Seq(ListRequest), requests' = Aged
    PROVE  /\ requests' \in Seq(ListRequest) /\ Len(requests') = Len(requests)
           /\ DOMAIN requests' = DOMAIN requests
           /\ \A i \in DOMAIN requests :
                /\ requests'[i].url = requests[i].url /\ requests'[i].page = requests[i].page
                /\ requests'[i].late = requests[i].late /\ requests'[i].old = TRUE
<1>1. \A i \in DOMAIN requests : requests[i] \in ListRequest
    OBVIOUS
<1>2. \A i \in DOMAIN requests : [requests[i] EXCEPT !.old = TRUE] \in ListRequest
    BY <1>1 DEF ListRequest
<1>3. requests' \in Seq(ListRequest) /\ Len(requests') = Len(requests)
      /\ DOMAIN requests' = DOMAIN requests
    BY <1>2 DEF Aged
<1> QED BY <1>1, <1>3 DEF Aged, ListRequest

-----------------------------------------------------------------------------
(* Types. *)

LEMMA Destinations ==
    ASSUME NEW u \in Url
    PROVE  /\ u.list \in Lists \cup {Elsewhere} /\ u.query \in Queries
           /\ u.cursor \in Cursor \cup {None}
           /\ u = ToList(u.list, u.query, u.cursor)
BY DEF Url, ToList

LEMMA Listed ==
    ASSUME NEW l \in Lists \cup {Elsewhere}, NEW q \in Queries, NEW c \in Cursor \cup {None}
    PROVE  /\ ToList(l, q, c) \in Url /\ ToList(l, q, c).list = l
           /\ ToList(l, q, c).query = q /\ ToList(l, q, c).cursor = c
BY DEF Url, ToList

LEMMA TypeGoes ==
    ASSUME ListBase, NEW u \in Url, Goes(u), cursorHistory' \in Seq(Cursor \cup {None}),
           astray' \in BOOLEAN, returned' \in BOOLEAN
    PROVE  ListTypeOK'
<1> USE DEF ListBase
<1>1. requests' \in Seq(ListRequest)
    BY Ageing DEF Goes, Aged, ListTypeOK
<1>2. deletions' \subseteq Deletion
    <2>1. \A d \in Deletion : [d EXCEPT !.old = TRUE] \in Deletion
        BY DEF Deletion
    <2> QED BY <2>1 DEF Goes, ListTypeOK
<1>3. acts' \in 0 .. MaxActs /\ faults' = faults
    BY DEF Goes, UserActs, Acts, ListTypeOK, EntityListAssumption
<1>4. hasty' \in BOOLEAN /\ pulled' \in BOOLEAN
    BY DEF Goes, ListTypeOK
<1> QED BY <1>1, <1>2, <1>3, <1>4 DEF Goes, ListTypeOK

\* Where the user goes.
LEMMA GoesWhere ==
    ASSUME ListBase,
           \/ \E l \in Lists \cup {Elsewhere} : ListFollow(l)
           \/ \E u \in visited : Back(u)
           \/ \E q \in Queries : Search(q)
           \/ NextPage \/ PreviousPage
    PROVE  /\ \E u \in Url : Goes(u)
           /\ cursorHistory' \in Seq(Cursor \cup {None})
           /\ astray' \in BOOLEAN /\ returned' \in BOOLEAN
<1> USE DEF ListBase
<1>1. /\ Plain \in Queries /\ url \in Url /\ visited \subseteq Url
      /\ cursorHistory \in Seq(Cursor \cup {None}) /\ rows \in Rows \cup {None}
      /\ astray \in BOOLEAN /\ returned \in BOOLEAN
    BY DEF ListTypeOK, EntityListAssumption
<1>2. url.list \in Lists \cup {Elsewhere} /\ url.query \in Queries
      /\ url.cursor \in Cursor \cup {None}
    BY <1>1, Destinations
<1>3. ASSUME NEW l \in Lists \cup {Elsewhere}, ListFollow(l)
      PROVE  /\ \E u \in Url : Goes(u)
             /\ cursorHistory' \in Seq(Cursor \cup {None})
             /\ astray' \in BOOLEAN /\ returned' \in BOOLEAN
    BY <1>1, <1>3, Listed DEF ListFollow
<1>4. ASSUME NEW u \in visited, Back(u)
      PROVE  /\ \E v \in Url : Goes(v)
             /\ cursorHistory' \in Seq(Cursor \cup {None})
             /\ astray' \in BOOLEAN /\ returned' \in BOOLEAN
    BY <1>1, <1>4 DEF Back
<1>5. ASSUME NEW q \in Queries, Search(q)
      PROVE  /\ \E u \in Url : Goes(u)
             /\ cursorHistory' \in Seq(Cursor \cup {None})
             /\ astray' \in BOOLEAN /\ returned' \in BOOLEAN
    BY <1>1, <1>2, <1>5, Listed DEF Search
<1>6. CASE NextPage
    <2>1. rows \in Rows /\ rows.next \in Cursor
        BY <1>1, <1>6 DEF NextPage, ListShown, Rows
    <2>2. ToList(url.list, url.query, rows.next) \in Url
        BY <1>2, <2>1, Listed
    <2> QED BY <1>1, <1>2, <1>6, <2>2 DEF NextPage
<1>7. CASE PreviousPage
    <2>1. Last(cursorHistory) \in Cursor \cup {None}
          /\ Front(cursorHistory) \in Seq(Cursor \cup {None})
        BY <1>1, <1>7 DEF PreviousPage, Last, Front
    <2>2. ToList(url.list, url.query, Last(cursorHistory)) \in Url
        BY <1>2, <2>1, Listed
    <2> QED BY <1>1, <1>7, <2>1, <2>2 DEF PreviousPage
<1> QED BY <1>3, <1>4, <1>5, <1>6, <1>7

LEMMA TypeDelete ==
    ASSUME ListBase, ListDelete
    PROVE  ListTypeOK'
<1> USE DEF ListBase
<1>1. acts' \in 0 .. MaxActs /\ faults' = faults
    BY DEF ListDelete, UserActs, Acts, ListTypeOK, EntityListAssumption
<1>2. [query |-> url.query, page |-> Instance, old |-> target # None] \in Deletion
    BY DEF ListTypeOK, Deletion, Url, Instance
<1> QED BY <1>1, <1>2 DEF ListDelete, ListTypeOK, listPage, listHistory

LEMMA AskedTyped ==
    ASSUME NEW u \in Url, u.list # Elsewhere, NEW n \in Nat
    PROVE  ListAsked(u, n) \in ListRequest
BY DEF ListAsked, ListRequest, Url, ListUrl

\* One element of a sequence changes.
LEMMA Marked ==
    ASSUME NEW S, NEW s \in Seq(S), NEW x \in S, NEW n
    PROVE  /\ [s EXCEPT ![n] = x] \in Seq(S) /\ Len([s EXCEPT ![n] = x]) = Len(s)
           /\ n \in DOMAIN s => [s EXCEPT ![n] = x][n] = x
           /\ \A m \in DOMAIN s : m # n => [s EXCEPT ![n] = x][m] = s[m]
<1>1. s \in [1 .. Len(s) -> S] /\ Len(s) \in Nat
    OBVIOUS
<1>2. PICK t : t = [s EXCEPT ![n] = x]
    OBVIOUS
<1>3. t \in [1 .. Len(s) -> S]
    BY <1>1, <1>2
<1>4. t \in Seq(S) /\ Len(t) = Len(s)
    BY <1>1, <1>3
<1> QED BY <1>1, <1>2, <1>4

LEMMA TypeArrive ==
    ASSUME ListBase, ListArrive
    PROVE  ListTypeOK'
<1> USE DEF ListBase
<1>1. url' \in Url /\ target' = None /\ visited' \subseteq Url /\ target \in Url
    BY DEF ListArrive, ListTypeOK
<1>2. Instance \in Nat /\ Instance + 1 \in Nat
    BY DEF ListTypeOK, Instance
<1>3. /\ rows' \in Rows \cup {None} /\ loading' \in BOOLEAN
      /\ error' \in {None, "failed", "cursor"}
      /\ cursorHistory' \in Seq(Cursor \cup {None})
      /\ recoveryKeys' \in Seq(Key \cup {None})
      /\ requests' \in Seq(ListRequest)
    <2>1. CASE target.list = Elsewhere
        BY <2>1 DEF ListArrive, ListTypeOK, listPage
    <2>2. CASE target.list # Elsewhere /\ OnList /\ ListRenew
        <3>1. ListAsked(target, Instance) \in ListRequest
            BY <1>1, <1>2, <2>2, AskedTyped
        <3>2. requests' \in Seq(ListRequest) /\ loading' \in BOOLEAN
            BY <2>2, <3>1, Appended DEF ListRenew, ListTypeOK
        <3>3. cursorHistory' \in Seq(Cursor \cup {None})
            <4>1. cursorHistory' = <<>> \/ cursorHistory' = cursorHistory
                BY <2>2 DEF ListRenew
            <4> QED BY <4>1, EmptySeq DEF ListTypeOK
        <3>4. recoveryKeys' \in Seq(Key \cup {None})
            <4>1. [recoveryKeys EXCEPT ![Instance] = None] \in Seq(Key \cup {None})
                BY Marked DEF ListTypeOK
            <4> QED BY <2>2, <4>1 DEF ListRenew, ListTypeOK
        <3> QED BY <2>2, <3>2, <3>3, <3>4 DEF ListRenew, ListTypeOK
    <2>3. CASE target.list # Elsewhere /\ ListOpen
        <3>1. ListAsked(target, Instance + 1) \in ListRequest
            BY <1>1, <1>2, <2>3, AskedTyped
        <3>2. requests' \in Seq(ListRequest)
            BY <2>3, <3>1, Appended DEF ListOpen, ListTypeOK
        <3> QED BY <2>3, <3>2 DEF ListOpen, ListTypeOK
    <2> QED BY <2>1, <2>2, <2>3 DEF ListArrive
<1>4. hasty' \in BOOLEAN /\ astray' \in BOOLEAN
    BY DEF ListArrive, ListTypeOK
<1> QED BY <1>1, <1>3, <1>4 DEF ListArrive, ListTypeOK

\* What a recovery or a deletion asks for.
LEMMA Redirected ==
    ASSUME ListBase, NEW q \in Queries, NEW old \in BOOLEAN, Redirect(q, old)
    PROVE  /\ target' \in Url /\ target'.list = url.list /\ target'.query = q
           /\ target'.cursor = None /\ target' # None
           /\ pulled' \in BOOLEAN /\ astray' \in BOOLEAN /\ returned' \in BOOLEAN
<1>1. url.list \in Lists \cup {Elsewhere}
    BY DEF ListBase, ListTypeOK, Url
<1> QED BY <1>1, Listed DEF ListBase, Redirect, ListTypeOK, EntityListAssumption

LEMMA AnswerTyped ==
    ASSUME ListBase, NEW u \in ListUrl
    PROVE  /\ ListAnswer(u) \in Rows /\ ListAnswer(u) # None
           /\ ListAnswer(u).list = u.list /\ ListAnswer(u).query = u.query
           /\ ListAnswer(u).page = PageOf(u.cursor)
           /\ ListAnswer(u).next # None =>
                /\ ListAnswer(u).next.list = u.list /\ ListAnswer(u).next.query = u.query
                /\ ListAnswer(u).next.page = ListAnswer(u).page + 1
                /\ ListAnswer(u).next.epoch = epoch
<1>1. LastPage \in Nat /\ epoch \in Nat /\ None \notin Cursor /\ None \notin Rows
    BY DEF ListBase, ListTypeOK, EntityListAssumption
<1>2. u.list \in Lists /\ u.query \in Queries /\ u.cursor \in Cursor \cup {None}
    BY DEF ListUrl
<1>3. PICK k : k = PageOf(u.cursor)
    OBVIOUS
<1>4. k \in 0 .. LastPage
    BY <1>1, <1>2, <1>3 DEF PageOf, Cursor
<1>5. CASE k = LastPage
    BY <1>1, <1>2, <1>3, <1>4, <1>5 DEF ListAnswer, Rows
<1>6. CASE k # LastPage
    <2>1. k + 1 \in 1 .. LastPage
        BY <1>1, <1>4, <1>6
    <2>2. PICK c : c = [list |-> u.list, query |-> u.query, page |-> k + 1, epoch |-> epoch]
        OBVIOUS
    <2>3. c \in Cursor /\ c.list = u.list /\ c.query = u.query /\ c.page = k + 1 /\ c.epoch = epoch
        BY <1>1, <1>2, <2>1, <2>2 DEF Cursor
    <2>4. ListAnswer(u) = [list |-> u.list, query |-> u.query, page |-> k, next |-> c]
        BY <1>3, <1>6, <2>2 DEF ListAnswer
    <2> QED BY <1>1, <1>2, <1>3, <1>4, <2>3, <2>4 DEF Rows
<1> QED BY <1>5, <1>6

LEMMA TypeLoadAnswer ==
    ASSUME ListBase, NEW i \in DOMAIN requests, ListLoadAnswer(i)
    PROVE  ListTypeOK'
<1> USE DEF ListBase
<1>1. requests' \in Seq(ListRequest)
    BY AnsweredRequest DEF ListLoadAnswer, ListTypeOK
<1>2. requests[i] \in ListRequest
    BY DEF ListTypeOK
<1>3. /\ requests[i].url \in ListUrl /\ requests[i].page \in Nat
      /\ requests[i].late \in BOOLEAN /\ requests[i].old \in BOOLEAN
      /\ requests[i].url.query \in Queries
    BY <1>2 DEF ListRequest, ListUrl
<1>4. faults' \in 0 .. MaxFaults /\ acts' = acts
    BY DEF ListLoadAnswer, ListSucceed, Recover, ListGiveUp, SomethingFails, Fails, Works,
           ListTypeOK, EntityListAssumption
<1>5. CASE ListSucceed(requests[i])
    <2>1. ListAnswer(requests[i].url) \in Rows
        BY <1>3, AnswerTyped
    <2>2. rows' \in Rows \cup {None} /\ error' \in {None, "failed", "cursor"}
          /\ loading' \in BOOLEAN /\ behind' \in BOOLEAN
        BY <1>3, <1>5, <2>1 DEF ListSucceed, ListTypeOK
    <2> QED BY <1>1, <1>4, <1>5, <2>2 DEF ListSucceed, ListLoadAnswer, ListTypeOK
<1>6. CASE Recover(requests[i])
    <2>1. RecoveryKey(requests[i].url) \in Key
        <3>1. requests[i].url.cursor # None
            BY <1>6 DEF Recover, Valid
        <3> QED BY <1>3, <3>1 DEF RecoveryKey, ToList, Key, ListUrl
    <2>2. recoveryKeys' \in Seq(Key \cup {None}) /\ cursorHistory' \in Seq(Cursor \cup {None})
          /\ loading' \in BOOLEAN
        <3>1. recoveryKeys' \in Seq(Key \cup {None})
            BY <1>6, <2>1, Marked DEF Recover, ListTypeOK
        <3>2. /\ cursorHistory' = <<>> \/ cursorHistory' = cursorHistory
              /\ loading' = FALSE \/ loading' = loading
            BY <1>6 DEF Recover
        <3> QED BY <3>1, <3>2, EmptySeq DEF ListTypeOK
    <2>3. target' \in Url /\ pulled' \in BOOLEAN /\ astray' \in BOOLEAN /\ returned' \in BOOLEAN
        BY <1>3, <1>6, Redirected DEF Recover
    <2> QED BY <1>1, <1>4, <1>6, <2>2, <2>3 DEF Recover, ListLoadAnswer, ListTypeOK
<1>7. CASE ListGiveUp(requests[i])
    <2>1. rows' \in Rows \cup {None} /\ error' \in {None, "failed", "cursor"}
          /\ loading' \in BOOLEAN /\ behind' \in BOOLEAN
        BY <1>3, <1>7 DEF ListGiveUp, ListTypeOK
    <2> QED BY <1>1, <1>4, <1>7, <2>1 DEF ListGiveUp, ListLoadAnswer, ListTypeOK
<1> QED BY <1>5, <1>6, <1>7 DEF ListLoadAnswer

LEMMA TypeDeleteAnswer ==
    ASSUME ListBase, NEW d \in deletions, DeleteAnswer(d)
    PROVE  ListTypeOK'
<1> USE DEF ListBase
<1>1. deletions' \subseteq Deletion /\ d.query \in Queries /\ d.old \in BOOLEAN
    BY DEF DeleteAnswer, ListTypeOK, Deletion
<1>2. faults' \in 0 .. MaxFaults /\ acts' = acts
    BY DEF DeleteAnswer, SomethingFails, Fails, Works, ListTypeOK, EntityListAssumption
<1>3. /\ target' \in Url \cup {None} /\ cursorHistory' \in Seq(Cursor \cup {None})
      /\ pulled' \in BOOLEAN /\ astray' \in BOOLEAN /\ returned' \in BOOLEAN
    <2>1. CASE UNCHANGED <<target, cursorHistory, pulled, astray, returned>>
        BY <2>1 DEF ListTypeOK
    <2>2. CASE Redirect(d.query, d.old) /\ cursorHistory' = IF ListLive(d) THEN <<>> ELSE cursorHistory
        BY <1>1, <2>2, Redirected DEF ListTypeOK
    <2> QED BY <2>1, <2>2 DEF DeleteAnswer
<1> QED BY <1>1, <1>2, <1>3 DEF DeleteAnswer, ListTypeOK

LEMMA ListTypeStep ==
    ASSUME ListBase, [ListNext]_listVars
    PROVE  ListTypeOK'
<1>1. CASE Expire
    <2>1. faults' \in 0 .. MaxFaults /\ acts' = acts /\ epoch' \in Nat
        BY <1>1 DEF Expire, SomethingFails, Fails, ListBase, ListTypeOK, EntityListAssumption
    <2> QED BY <1>1, <2>1 DEF Expire, ListBase, ListTypeOK, listPage, listHistory
<1>2. CASE UNCHANGED listVars
    BY <1>2 DEF listVars, listPage, listHistory, ListBase, ListTypeOK
<1>3. CASE \/ \E l \in Lists \cup {Elsewhere} : ListFollow(l)
           \/ \E u \in visited : Back(u)
           \/ \E q \in Queries : Search(q)
           \/ NextPage \/ PreviousPage
    BY <1>3, GoesWhere, TypeGoes
<1> QED
    BY <1>1, <1>2, <1>3, TypeDelete, TypeArrive, TypeLoadAnswer, TypeDeleteAnswer DEF ListNext

-----------------------------------------------------------------------------
(* The user goes elsewhere. *)

LEMMA GoesEffect ==
    ASSUME ListBase, NEW u \in Url, Goes(u)
    PROVE  /\ target' = u /\ wanted' = u /\ u # None /\ pulled' = FALSE
           /\ hasty' = (hasty \/ target # None)
           /\ UNCHANGED <<epoch, url, rows, loading, error, recoveryKeys, behind>>
           /\ Len(requests') = Len(requests) /\ DOMAIN requests' = DOMAIN requests
           /\ \A i \in DOMAIN requests :
                /\ requests'[i].url = requests[i].url /\ requests'[i].page = requests[i].page
                /\ requests'[i].late = requests[i].late /\ requests'[i].old = TRUE
           /\ \A d \in deletions' :
                /\ d.old = TRUE
                /\ \E e \in deletions : d.page = e.page /\ d.query = e.query
<1>1. requests \in Seq(ListRequest) /\ deletions \subseteq Deletion /\ None \notin Url
    BY DEF ListBase, ListTypeOK, EntityListAssumption
<1>2. requests' = Aged
    BY DEF Goes, Aged
<1>3. ASSUME NEW d \in deletions'
      PROVE  /\ d.old = TRUE
             /\ \E e \in deletions : d.page = e.page /\ d.query = e.query
    <2>1. PICK e \in deletions : d = [e EXCEPT !.old = TRUE]
        BY DEF Goes
    <2> QED BY <1>1, <2>1 DEF Deletion
<1> QED BY <1>1, <1>2, <1>3, Ageing DEF Goes

LEMMA GoesKeeps ==
    ASSUME ListInv, NEW u \in Url, Goes(u), returned => returned'
    PROVE  ListPaged' /\ Spinning' /\ ListCurrent' /\ Recent' /\ Going' /\ NoLoop'
<1>1. ListBase
    BY DEF ListInv
<1>2. ListPaged'
    BY <1>1, GoesEffect DEF ListInv, ListPaged, Instance, OnList
<1>3. Spinning'
    BY <1>1, GoesEffect DEF ListInv, Spinning, ListLive, OnList, Instance
<1>4. ListCurrent'
    <2>1. \A i, j \in DOMAIN requests' : i < j /\ requests'[j].late => requests'[i].late
        BY <1>1, GoesEffect DEF ListInv, ListCurrent
    <2>2. ASSUME NEW i \in DOMAIN requests', ListLive(requests[i])',
                 \A j \in DOMAIN requests' : j > i => ~ListLive(requests[j])'
          PROVE  requests'[i].late \/ requests'[i].url = url'
        <3>1. i \in DOMAIN requests /\ ListLive(requests[i])
            BY <1>1, <2>2, GoesEffect DEF ListLive, OnList, Instance
        <3>2. ASSUME NEW j \in DOMAIN requests, j > i PROVE ~ListLive(requests[j])
            <4>1. j \in DOMAIN requests' /\ ~ListLive(requests[j])'
                BY <1>1, <2>2, <3>2, GoesEffect
            <4> QED BY <1>1, <4>1, GoesEffect DEF ListLive, OnList, Instance
        <3> QED BY <1>1, <3>1, <3>2, GoesEffect DEF ListInv, ListCurrent
    <2>3. ASSUME OnList', \A i \in DOMAIN requests' : ListLive(requests[i])' => requests'[i].late,
                 ~behind', ~hasty'
          PROVE  RowsRight'
        <3>1. OnList /\ \A i \in DOMAIN requests : ListLive(requests[i]) => requests[i].late
            BY <1>1, <2>3, GoesEffect DEF ListLive, OnList, Instance
        <3>2. ~behind /\ ~hasty /\ target = None
            BY <1>1, <2>3, GoesEffect
        <3>3. RowsRight
            BY <3>1, <3>2 DEF ListInv, ListCurrent, Turning
        <3> QED BY <1>1, <3>3, GoesEffect DEF RowsRight
    <2> QED BY <2>1, <2>2, <2>3 DEF ListCurrent
<1>5. Recent'
    BY <1>1, GoesEffect DEF Recent
<1>6. Going'
    BY <1>1, GoesEffect DEF Going, Leading
<1>7. NoLoop'
    BY <1>1, GoesEffect DEF ListInv, NoLoop
<1> QED BY <1>2, <1>3, <1>4, <1>5, <1>6, <1>7

\* Going to a first page.
LEMMA GoesFirst ==
    ASSUME ListInv, NEW u \in Url, Goes(u), u.cursor = None, returned' = returned,
           cursorHistory' = cursorHistory \/ cursorHistory' = <<>>
    PROVE  Dated' /\ Single' /\ Recovered'
<1>1. ListBase
    BY DEF ListInv
<1>0. \A i \in DOMAIN cursorHistory' :
        i \in DOMAIN cursorHistory /\ cursorHistory'[i] = cursorHistory[i]
    <2>1. CASE cursorHistory' = cursorHistory
        BY <2>1
    <2>2. CASE cursorHistory' = <<>>
        <3>1. DOMAIN cursorHistory' = {}
            BY <2>2
        <3> QED BY <3>1
    <2> QED BY <2>1, <2>2
<1>2. Dated'
    <2>1. rows' # None => UpTo(rows'.next, epoch')
        BY <1>1, GoesEffect DEF ListInv, Dated
    <2>2. ASSUME ~returned'
          PROVE  /\ UpTo(url'.cursor, epoch') /\ OfList(url'.cursor, url')
                 /\ OnList' => \A i \in DOMAIN cursorHistory' :
                       UpTo(cursorHistory'[i], epoch') /\ OfList(cursorHistory'[i], url')
                 /\ \A i \in DOMAIN requests' :
                      /\ UpTo(requests'[i].url.cursor, epoch')
                      /\ OfList(requests'[i].url.cursor, requests'[i].url)
        BY <1>0, <1>1, <2>2, GoesEffect DEF ListInv, Dated, OnList
    <2>3. UpTo(target'.cursor, epoch') /\ OfList(target'.cursor, target')
        BY <1>1, GoesEffect DEF UpTo, OfList
    <2> QED BY <2>1, <2>2, <2>3 DEF Dated
<1>3. Single'
    BY <1>1, GoesEffect DEF Single
<1>4. ASSUME ~returned', OnList', recoveryKeys'[Instance'] # None
      PROVE  Recovered'
    <2>1. ~returned /\ OnList /\ recoveryKeys[Instance] # None
        BY <1>1, <1>4, GoesEffect DEF OnList, Instance
    <2>2. PICK k : k = recoveryKeys[Instance]
        OBVIOUS
    <2>3. /\ k.cursor.epoch < epoch
          /\ \A i \in DOMAIN requests : ListLive(requests[i]) => Since(requests[i].url.cursor, k)
          /\ \/ Turning /\ cursorHistory = <<>>
             \/ /\ Since(url.cursor, k)
                /\ \A i \in DOMAIN cursorHistory : Since(cursorHistory[i], k)
                /\ loading \/ rows = None \/ Since(rows.next, k)
        BY <2>1, <2>2 DEF ListInv, Recovered
    <2>4. recoveryKeys'[Instance'] = k /\ k.cursor.epoch < epoch'
        BY <1>1, <2>2, <2>3, GoesEffect DEF Instance
    <2>5. ASSUME NEW i \in DOMAIN requests', ListLive(requests[i])'
          PROVE  Since(requests'[i].url.cursor, k)
        <3>1. i \in DOMAIN requests /\ ListLive(requests[i])
            BY <1>1, <2>5, GoesEffect DEF ListLive, OnList, Instance
        <3> QED BY <1>1, <2>3, <3>1, GoesEffect
    <2>6. Since(target'.cursor, k)
        BY <1>1, GoesEffect DEF Since
    <2>7. CASE Turning /\ cursorHistory = <<>>
        <3>1. Turning' /\ cursorHistory' = <<>>
            BY <1>1, <2>7, GoesEffect DEF Turning
        <3> QED BY <2>4, <2>5, <2>6, <3>1 DEF Recovered
    <2>8. CASE /\ Since(url.cursor, k)
               /\ \A i \in DOMAIN cursorHistory : Since(cursorHistory[i], k)
               /\ loading \/ rows = None \/ Since(rows.next, k)
        <3>1. /\ Since(url'.cursor, k)
              /\ \A i \in DOMAIN cursorHistory' : Since(cursorHistory'[i], k)
              /\ loading' \/ rows' = None \/ Since(rows'.next, k)
            BY <1>0, <1>1, <2>8, GoesEffect
        <3> QED BY <2>4, <2>5, <2>6, <3>1 DEF Recovered
    <2> QED BY <2>3, <2>7, <2>8
<1> QED BY <1>2, <1>3, <1>4 DEF Recovered

LEMMA FollowStep ==
    ASSUME ListInv, NEW l \in Lists \cup {Elsewhere}, ListFollow(l)
    PROVE  Pathed' /\ Dated' /\ Single' /\ Recovered' /\ (returned => returned')
<1>1. ListBase
    BY DEF ListInv
<1>2. PICK u : u = ToList(l, Plain, None)
    OBVIOUS
<1>3. u \in Url /\ u.list = l /\ u.cursor = None /\ Goes(u)
    BY <1>1, <1>2, Listed DEF ListFollow, ListBase, EntityListAssumption
<1>4. Dated' /\ Single' /\ Recovered'
    BY <1>3, GoesFirst DEF ListFollow
<1>5. Pathed'
    BY <1>1, <1>3, GoesEffect DEF ListInv, ListFollow, Pathed
<1> QED BY <1>4, <1>5 DEF ListFollow

LEMMA BackStep ==
    ASSUME ListInv, NEW u \in visited, Back(u)
    PROVE  Pathed' /\ Dated' /\ Single' /\ Recovered' /\ (returned => returned')
<1>1. ListBase /\ u \in Url /\ Goes(u) /\ astray' = TRUE /\ returned' = TRUE
    BY DEF ListInv, ListBase, ListTypeOK, Back
<1>2. Pathed'
    BY <1>1, GoesEffect DEF ListInv, Pathed
<1>3. Dated'
    BY <1>1, GoesEffect DEF ListInv, Dated
<1> QED BY <1>1, <1>2, <1>3 DEF Single, Recovered

LEMMA SearchStep ==
    ASSUME ListInv, NEW q \in Queries, Search(q)
    PROVE  Pathed' /\ Dated' /\ Single' /\ Recovered' /\ (returned => returned')
<1>1. ListBase
    BY DEF ListInv
<1>2. PICK u : u = ToList(url.list, q, None)
    OBVIOUS
<1>3. u \in Url /\ u.list = url.list /\ u.cursor = None /\ Goes(u)
    <2>1. url.list \in Lists \cup {Elsewhere}
        BY <1>1 DEF ListBase, ListTypeOK, Url
    <2> QED BY <1>2, <2>1, Listed DEF Search
<1>4. Dated' /\ Single' /\ Recovered'
    BY <1>3, GoesFirst DEF Search
<1>5. Pathed'
    <2>1. Path(cursorHistory', u)
        BY <1>3 DEF Search, Path, OfList, PageOf
    <2>2. target' = u /\ u # None /\ url' = url /\ rows' = rows
        BY <1>1, <1>3, GoesEffect
    <2>3. Path(cursorHistory', target')
        BY <2>1, <2>2
    <2> QED BY <1>3, <2>2, <2>3 DEF ListInv, Pathed
<1> QED BY <1>4, <1>5 DEF Search

LEMMA Paging ==
    ASSUME ListBase, ListShown, Steady
    PROVE  /\ OnList /\ target = None /\ ~loading /\ rows \in Rows /\ url \in Url
           /\ rows.list = url.list /\ rows.query = url.query
           /\ rows.page = PageOf(url.cursor)
           /\ url.list \in Lists \cup {Elsewhere} /\ url.query \in Queries
BY DEF ListBase, ListTypeOK, ListShown, Steady, ToList, Url

LEMMA NextPageStep ==
    ASSUME ListInv, NextPage
    PROVE  Pathed' /\ Dated' /\ Single' /\ Recovered' /\ (returned => returned')
<1>1. /\ ListBase /\ ListShown /\ rows.next # None /\ rows \in Rows /\ url \in Url
      /\ cursorHistory \in Seq(Cursor \cup {None})
    BY DEF ListInv, ListBase, ListTypeOK, NextPage, ListShown
<1>2. PICK u : u = ToList(url.list, url.query, rows.next)
    OBVIOUS
<1>3. /\ u \in Url /\ u.list = url.list /\ u.query = url.query /\ u.cursor = rows.next /\ Goes(u)
      /\ u.cursor \in Cursor
    BY <1>1, <1>2, Listed DEF NextPage, Rows, Url
<1>4. /\ target' = u /\ u # None /\ url' = url /\ rows' = rows /\ epoch' = epoch
      /\ loading' = loading /\ recoveryKeys' = recoveryKeys
    BY <1>1, <1>3, GoesEffect
<1>5. PICK n \in Nat : n = Len(cursorHistory)
    BY <1>1
<1>6. /\ Len(cursorHistory') = n + 1 /\ DOMAIN cursorHistory' = 1 .. n + 1
      /\ cursorHistory'[n + 1] = url.cursor
      /\ \A i \in 1 .. n : i \in DOMAIN cursorHistory /\ cursorHistory'[i] = cursorHistory[i]
    <2>1. cursorHistory' = Append(cursorHistory, url.cursor) /\ url.cursor \in Cursor \cup {None}
        BY <1>1 DEF NextPage, Url
    <2> QED BY <1>1, <1>5, <2>1
<1>7. astray' = (astray \/ ~Steady) /\ returned' = (returned \/ ~Steady \/ requests # <<>>)
    BY DEF NextPage
<1>8. Pathed'
    <2>1. ASSUME ~astray' PROVE Path(cursorHistory', u)
        <3>1. ~astray /\ Steady
            BY <1>7, <2>1
        <3>2. /\ OnList /\ target = None /\ rows.list = url.list /\ rows.query = url.query
              /\ rows.page = PageOf(url.cursor)
            BY <1>1, <3>1, Paging
        <3>3. Path(cursorHistory, url) /\ OfList(rows.next, rows) /\ rows.next.page = rows.page + 1
            BY <1>1, <3>1, <3>2 DEF ListInv, Pathed, EntityListAssumption, ListBase
        <3>4. n = PageOf(url.cursor) /\ PageOf(u.cursor) = n + 1
            BY <1>1, <1>3, <1>5, <3>2, <3>3 DEF Path, PageOf
        <3>5. OfList(u.cursor, u)
            BY <1>3, <3>2, <3>3 DEF OfList
        <3>6. ASSUME NEW i \in DOMAIN cursorHistory'
              PROVE  PageOf(cursorHistory'[i]) = i - 1 /\ OfList(cursorHistory'[i], u)
            <4>1. CASE i \in 1 .. n
                BY <1>3, <1>6, <3>3, <4>1 DEF Path, OfList
            <4>2. CASE i = n + 1
                <5>1. PageOf(url.cursor) = i - 1
                    BY <3>4, <4>2
                <5> QED BY <1>3, <1>6, <3>3, <4>2, <5>1 DEF Path, OfList
            <4> QED BY <1>5, <1>6, <4>1, <4>2
        <3> QED BY <1>6, <3>4, <3>5, <3>6 DEF Path
    <2>2. ~astray' => Path(cursorHistory', target')
        BY <1>4, <2>1
    <2> QED BY <1>1, <1>3, <1>4, <2>2 DEF ListInv, Pathed, OnList, ListShown
<1>9. ASSUME ~returned'
      PROVE  /\ ~returned /\ OnList /\ target = None /\ requests = <<>>
             /\ UpTo(rows.next, epoch) /\ OfList(rows.next, u)
             /\ UpTo(url.cursor, epoch) /\ OfList(url.cursor, url)
             /\ \A i \in 1 .. n : /\ UpTo(cursorHistory'[i], epoch)
                                  /\ OfList(cursorHistory'[i], url)
             /\ DOMAIN requests' = {}
    <2>1. ~returned /\ Steady /\ requests = <<>>
        BY <1>7, <1>9
    <2>2. OnList /\ target = None /\ rows.list = url.list /\ rows.query = url.query
        BY <1>1, <2>1, Paging
    <2>3. rows # None
        BY <1>1 DEF ListShown
    <2>4. UpTo(rows.next, epoch) /\ OfList(rows.next, rows)
        BY <1>1, <2>3 DEF ListInv, Dated, Pathed
    <2>5. OfList(rows.next, u)
        BY <1>3, <2>2, <2>4 DEF OfList
    <2>6. DOMAIN requests' = DOMAIN requests
        BY <1>1, <1>3, GoesEffect
    <2> QED BY <1>6, <2>1, <2>2, <2>4, <2>5, <2>6 DEF ListInv, Dated
<1>10. Dated'
    <2>1. rows' # None => UpTo(rows'.next, epoch')
        BY <1>4 DEF ListInv, Dated
    <2>2. ASSUME ~returned', NEW i \in DOMAIN cursorHistory'
          PROVE  UpTo(cursorHistory'[i], epoch') /\ OfList(cursorHistory'[i], url')
        <3>1. i \in 1 .. n \/ i = n + 1
            BY <1>5, <1>6
        <3> QED BY <1>4, <1>6, <1>9, <2>2, <3>1
    <2>3. ASSUME ~returned'
          PROVE  /\ UpTo(url'.cursor, epoch') /\ OfList(url'.cursor, url')
                 /\ UpTo(target'.cursor, epoch') /\ OfList(target'.cursor, target')
                 /\ DOMAIN requests' = {}
        BY <1>3, <1>4, <1>9, <2>3
    <2> QED BY <2>1, <2>2, <2>3 DEF Dated
<1>11. Single'
    <2>1. ASSUME ~returned'
          PROVE  requests' = <<>> /\ \A d \in deletions' : d.old
        <3>1. Len(requests') = 0 /\ requests' \in Seq(ListRequest)
            BY <1>1, <1>3, <1>9, <2>1, GoesEffect, Ageing DEF Goes, Aged, ListBase, ListTypeOK
        <3> QED BY <1>1, <1>3, <3>1, GoesEffect, EmptySeq
    <2> QED BY <1>1, <1>3, <1>4, <1>9, <2>1 DEF Single, OnList, ListShown
<1>12. Recovered'
    <2> SUFFICES ASSUME ~returned', OnList', recoveryKeys'[Instance'] # None
                 PROVE  Recovered'
        BY DEF Recovered
    <2>1. ~returned /\ OnList /\ recoveryKeys[Instance] # None /\ target = None
        BY <1>4, <1>9 DEF Instance
    <2>2. PICK k : k = recoveryKeys[Instance]
        OBVIOUS
    <2>3. /\ k.cursor.epoch < epoch /\ Since(url.cursor, k)
          /\ \A i \in DOMAIN cursorHistory : Since(cursorHistory[i], k)
          /\ Since(rows.next, k)
        BY <1>1, <2>1, <2>2 DEF ListInv, Recovered, Turning, ListShown
    <2>4. \A i \in DOMAIN cursorHistory' : Since(cursorHistory'[i], k)
        <3>1. \A i \in DOMAIN cursorHistory' : i \in 1 .. n \/ i = n + 1
            BY <1>5, <1>6
        <3> QED BY <1>6, <2>3, <3>1
    <2>5. k = recoveryKeys'[Instance'] /\ DOMAIN requests' = {}
        BY <1>4, <1>9, <2>2 DEF Instance
    <2> QED BY <1>3, <1>4, <2>3, <2>4, <2>5 DEF Recovered
<1> QED BY <1>7, <1>8, <1>10, <1>11, <1>12

LEMMA PreviousPageStep ==
    ASSUME ListInv, PreviousPage
    PROVE  Pathed' /\ Dated' /\ Single' /\ Recovered' /\ (returned => returned')
<1>1. /\ ListBase /\ ListShown /\ rows \in Rows /\ url \in Url /\ cursorHistory # <<>>
      /\ cursorHistory \in Seq(Cursor \cup {None})
    BY DEF ListInv, ListBase, ListTypeOK, PreviousPage, ListShown
<1>2. PICK n \in Nat \ {0} : n = Len(cursorHistory)
    BY <1>1, EmptySeq
<1>3. PICK c : c = cursorHistory[n]
    OBVIOUS
<1>4. c \in Cursor \cup {None} /\ c = Last(cursorHistory)
    BY <1>1, <1>2, <1>3 DEF Last
<1>5. PICK u : u = ToList(url.list, url.query, c)
    OBVIOUS
<1>6. /\ u \in Url /\ u.list = url.list /\ u.query = url.query /\ u.cursor = c /\ Goes(u)
    <2>1. url.list \in Lists \cup {Elsewhere} /\ url.query \in Queries
        BY <1>1, Destinations
    <2>2. u \in Url /\ u.list = url.list /\ u.query = url.query /\ u.cursor = c
        BY <1>4, <1>5, <2>1, Listed
    <2>3. Goes(ToList(url.list, url.query, Last(cursorHistory)))
        BY DEF PreviousPage
    <2> QED BY <1>4, <1>5, <2>2, <2>3
<1>7. /\ target' = u /\ u # None /\ url' = url /\ rows' = rows /\ epoch' = epoch
      /\ loading' = loading /\ recoveryKeys' = recoveryKeys
    BY <1>1, <1>6, GoesEffect
<1>8. /\ Len(cursorHistory') = n - 1 /\ DOMAIN cursorHistory' = 1 .. n - 1
      /\ \A i \in 1 .. n - 1 : i \in DOMAIN cursorHistory /\ cursorHistory'[i] = cursorHistory[i]
      /\ n \in DOMAIN cursorHistory
    <2>1. cursorHistory' = SubSeq(cursorHistory, 1, n - 1)
        BY <1>2 DEF PreviousPage, Front
    <2> QED BY <1>1, <1>2, <2>1
<1>9. astray' = (astray \/ ~Steady) /\ returned' = (returned \/ ~Steady \/ requests # <<>>)
    BY DEF PreviousPage
<1>10. Pathed'
    <2>1. ASSUME ~astray' PROVE Path(cursorHistory', u)
        <3>1. ~astray /\ Steady
            BY <1>9, <2>1
        <3>2. OnList /\ target = None
            BY <1>1, <3>1, Paging
        <3>3. Path(cursorHistory, url)
            BY <3>1, <3>2 DEF ListInv, Pathed
        <3>4. PageOf(c) = n - 1 /\ OfList(c, url)
            BY <1>3, <1>8, <3>3 DEF Path
        <3>5. Len(cursorHistory') = PageOf(u.cursor) /\ OfList(u.cursor, u)
            BY <1>6, <1>8, <3>4 DEF OfList
        <3>6. ASSUME NEW i \in DOMAIN cursorHistory'
              PROVE  PageOf(cursorHistory'[i]) = i - 1 /\ OfList(cursorHistory'[i], u)
            BY <1>6, <1>8, <3>3, <3>6 DEF Path, OfList
        <3> QED BY <3>5, <3>6 DEF Path
    <2>2. ~astray' => Path(cursorHistory', target')
        BY <1>7, <2>1
    <2> QED BY <1>1, <1>6, <1>7, <2>2 DEF ListInv, Pathed, OnList, ListShown
<1>11. ASSUME ~returned'
       PROVE  /\ ~returned /\ OnList /\ target = None /\ requests = <<>>
              /\ UpTo(c, epoch) /\ OfList(c, u)
              /\ UpTo(url.cursor, epoch) /\ OfList(url.cursor, url)
              /\ \A i \in 1 .. n - 1 : /\ UpTo(cursorHistory'[i], epoch)
                                       /\ OfList(cursorHistory'[i], url)
              /\ DOMAIN requests' = {}
    <2>1. ~returned /\ Steady /\ requests = <<>>
        BY <1>9, <1>11
    <2>2. OnList /\ target = None
        BY <1>1, <2>1, Paging
    <2>3. UpTo(c, epoch) /\ OfList(c, url)
        BY <1>3, <1>8, <2>1, <2>2 DEF ListInv, Dated
    <2>4. OfList(c, u)
        BY <1>6, <2>3 DEF OfList
    <2>5. DOMAIN requests' = DOMAIN requests
        BY <1>1, <1>6, GoesEffect
    <2> QED BY <1>8, <2>1, <2>2, <2>3, <2>4, <2>5 DEF ListInv, Dated
<1>12. Dated'
    <2>1. rows' # None => UpTo(rows'.next, epoch')
        BY <1>7 DEF ListInv, Dated
    <2>2. ASSUME ~returned', NEW i \in DOMAIN cursorHistory'
          PROVE  UpTo(cursorHistory'[i], epoch') /\ OfList(cursorHistory'[i], url')
        BY <1>7, <1>8, <1>11, <2>2
    <2>3. ASSUME ~returned'
          PROVE  /\ UpTo(url'.cursor, epoch') /\ OfList(url'.cursor, url')
                 /\ UpTo(target'.cursor, epoch') /\ OfList(target'.cursor, target')
                 /\ DOMAIN requests' = {}
        BY <1>6, <1>7, <1>11, <2>3
    <2> QED BY <2>1, <2>2, <2>3 DEF Dated
<1>13. Single'
    <2>1. ASSUME ~returned'
          PROVE  requests' = <<>> /\ \A d \in deletions' : d.old
        <3>1. Len(requests') = 0 /\ requests' \in Seq(ListRequest)
            BY <1>1, <1>6, <1>11, <2>1, GoesEffect, Ageing DEF Goes, Aged, ListBase, ListTypeOK
        <3> QED BY <1>1, <1>6, <3>1, GoesEffect, EmptySeq
    <2> QED BY <1>1, <1>6, <1>7, <1>11, <2>1 DEF Single, OnList, ListShown
<1>14. Recovered'
    <2> SUFFICES ASSUME ~returned', OnList', recoveryKeys'[Instance'] # None
                 PROVE  Recovered'
        BY DEF Recovered
    <2>1. ~returned /\ OnList /\ recoveryKeys[Instance] # None /\ target = None
        BY <1>7, <1>11 DEF Instance
    <2>2. PICK k : k = recoveryKeys[Instance]
        OBVIOUS
    <2>3. /\ k.cursor.epoch < epoch /\ Since(url.cursor, k)
          /\ \A i \in DOMAIN cursorHistory : Since(cursorHistory[i], k)
          /\ loading \/ rows = None \/ Since(rows.next, k)
        BY <1>1, <2>1, <2>2 DEF ListInv, Recovered, Turning, ListShown
    <2>4. Since(c, k) /\ \A i \in DOMAIN cursorHistory' : Since(cursorHistory'[i], k)
        BY <1>3, <1>8, <2>3
    <2>5. k = recoveryKeys'[Instance'] /\ DOMAIN requests' = {}
        BY <1>7, <1>11, <2>2 DEF Instance
    <2> QED BY <1>6, <1>7, <2>3, <2>4, <2>5 DEF Recovered
<1> QED BY <1>9, <1>10, <1>12, <1>13, <1>14

LEMMA GoesInv ==
    ASSUME ListInv,
           \/ \E l \in Lists \cup {Elsewhere} : ListFollow(l)
           \/ \E u \in visited : Back(u)
           \/ \E q \in Queries : Search(q)
           \/ NextPage \/ PreviousPage
    PROVE  ListInv'
<1>1. ListBase
    BY DEF ListInv
<1>2. ListBase'
    BY <1>1, GoesWhere, TypeGoes DEF ListBase, EntityListAssumption, Cursor, Rows, Key, Url
<1>3. Pathed' /\ Dated' /\ Single' /\ Recovered' /\ (returned => returned')
    BY FollowStep, BackStep, SearchStep, NextPageStep, PreviousPageStep
<1>4. ListPaged' /\ Spinning' /\ ListCurrent' /\ Recent' /\ Going' /\ NoLoop'
    BY <1>1, <1>3, GoesWhere, GoesKeeps
<1> QED BY <1>2, <1>3, <1>4 DEF ListInv

-----------------------------------------------------------------------------
(* A deletion is asked for, cursors expire. *)

LEMMA Assumed == ListBase /\ ListTypeOK' => ListBase'
BY DEF ListBase, EntityListAssumption, Cursor, Rows, Key, Url

\* What does not look at the deletions stays while nothing else changes.
LEMMA Unmoved ==
    ASSUME ListInv,
           UNCHANGED <<url, target, rows, loading, error, cursorHistory, recoveryKeys, requests,
                       behind, hasty, astray, pulled, returned, wanted>>
    PROVE  Spinning' /\ ListCurrent' /\ Pathed' /\ NoLoop'
<1>1. Spinning'
    BY DEF ListInv, Spinning, ListLive, OnList, Instance
<1>2. ListCurrent'
    BY DEF ListInv, ListCurrent, ListLive, OnList, Instance, RowsRight, Turning
<1>3. Pathed'
    BY DEF ListInv, Pathed, OnList
<1>4. NoLoop'
    BY DEF ListInv, NoLoop
<1> QED BY <1>1, <1>2, <1>3, <1>4

LEMMA DeleteInv ==
    ASSUME ListInv, ListDelete
    PROVE  ListInv'
<1>1. UNCHANGED <<url, target, rows, loading, error, cursorHistory, recoveryKeys, requests,
                  behind, hasty, astray, pulled, returned, wanted, epoch>>
    BY DEF ListDelete, listPage, listHistory
<1>2. PICK x : x = [query |-> url.query, page |-> Instance, old |-> target # None]
    OBVIOUS
<1>3. /\ deletions' = deletions \cup {x} /\ x.query = url.query /\ x.page = Instance
      /\ x.old = (target # None)
    BY <1>2 DEF ListDelete
<1>4. ListBase' /\ Instance \in Nat
    BY TypeDelete, Assumed DEF ListInv, ListBase, ListTypeOK, Instance
<1>5. Spinning' /\ ListCurrent' /\ Pathed' /\ NoLoop'
    BY <1>1, Unmoved
<1>6. ListPaged'
    BY <1>1, <1>3, <1>4 DEF ListInv, ListPaged, Instance, OnList
<1>7. Recent'
    BY <1>1, <1>3 DEF ListInv, Recent, ListLive, OnList, Instance, Stays, ListDelete, ListShown
<1>8. Going'
    <2>1. ~pulled /\ target = None => url.query = wanted.query /\ url.list = wanted.list
        BY DEF ListInv, Going, Leading, FirstPage, ToList
    <2>2. Leading' = Leading /\ FirstPage(wanted)' = FirstPage(wanted)
        BY <1>1 DEF Leading, FirstPage, ToList
    <2> QED BY <1>1, <1>3, <2>1, <2>2 DEF ListInv, Going
<1>9. Dated'
    BY <1>1 DEF ListInv, Dated, OnList
<1>10. Single'
    BY <1>1, <1>3 DEF ListInv, Single, OnList, ListDelete, ListShown
<1>11. Recovered'
    BY <1>1 DEF ListInv, Recovered, ListLive, OnList, Instance, Turning
<1> QED BY <1>4, <1>5, <1>6, <1>7, <1>8, <1>9, <1>10, <1>11 DEF ListInv

LEMMA ExpireInv ==
    ASSUME ListInv, Expire
    PROVE  ListInv'
<1>1. /\ UNCHANGED <<url, target, rows, loading, error, cursorHistory, recoveryKeys, requests,
                     behind, hasty, astray, pulled, returned, wanted, deletions>>
      /\ epoch' = epoch + 1 /\ epoch \in Nat
    BY DEF Expire, listPage, listHistory, ListInv, ListBase, ListTypeOK
<1>2. ListBase'
    BY ListTypeStep, Assumed DEF ListInv, ListNext
<1>3. Spinning' /\ ListCurrent' /\ Pathed' /\ NoLoop'
    BY <1>1, Unmoved
<1>4. ListPaged' /\ Recent' /\ Single'
    BY <1>1 DEF ListInv, ListPaged, Recent, Single, ListLive, OnList, Instance, Stays
<1>5. Going'
    BY <1>1 DEF ListInv, Going, Leading, FirstPage, ToList
<1>6. /\ \A c \in Cursor \cup {None} : UpTo(c, epoch) => UpTo(c, epoch')
      /\ \A e \in Nat : e < epoch => e < epoch'
    BY <1>1 DEF UpTo, Cursor
<1>7. Dated'
    <2>1. /\ rows # None => rows.next \in Cursor \cup {None}
          /\ url.cursor \in Cursor \cup {None}
          /\ target # None => target.cursor \in Cursor \cup {None}
        BY DEF ListInv, ListBase, ListTypeOK, Rows, Url
    <2>2. \A i \in DOMAIN cursorHistory : cursorHistory[i] \in Cursor \cup {None}
        BY DEF ListInv, ListBase, ListTypeOK
    <2>3. ASSUME NEW i \in DOMAIN requests
          PROVE  requests[i].url.cursor \in Cursor \cup {None}
        <3>1. requests[i] \in ListRequest
            BY DEF ListInv, ListBase, ListTypeOK
        <3> QED BY <3>1 DEF ListRequest, ListUrl
    <2> QED BY <1>1, <1>6, <2>1, <2>2, <2>3 DEF ListInv, Dated, OnList
<1>8. Recovered'
    <2>1. OnList /\ recoveryKeys[Instance] # None /\ ~returned
          => recoveryKeys[Instance].cursor.epoch < epoch'
        <3> SUFFICES ASSUME OnList, recoveryKeys[Instance] # None, ~returned
                     PROVE  recoveryKeys[Instance].cursor.epoch < epoch'
            OBVIOUS
        <3>1. Instance \in DOMAIN recoveryKeys
            BY DEF ListInv, ListPaged, Instance, ListBase, ListTypeOK
        <3>2. recoveryKeys[Instance] \in Key
            BY <3>1 DEF ListInv, ListBase, ListTypeOK
        <3> QED BY <1>6, <3>2 DEF ListInv, Recovered, Key, Cursor
    <2> QED BY <1>1, <2>1 DEF ListInv, Recovered, ListLive, OnList, Instance, Turning
<1> QED BY <1>2, <1>3, <1>4, <1>5, <1>7, <1>8 DEF ListInv

-----------------------------------------------------------------------------
(* A navigation takes effect. *)

LEMMA ArriveEffect ==
    ASSUME ListBase, ListArrive
    PROVE  /\ target \in Url /\ target # None /\ url' = target /\ target' = None
           /\ UNCHANGED <<epoch, deletions, behind, pulled, returned, wanted>>
           /\ hasty' = (hasty /\ Len(requests') = Len(requests))
           /\ astray' = (astray /\ ~(target.cursor = None /\ cursorHistory' = <<>>))
           /\ ListBase'
           /\ requests \in Seq(ListRequest) /\ cursorHistory \in Seq(Cursor \cup {None})
           /\ Instance \in Nat
<1>1. ListBase'
    BY TypeArrive, Assumed
<1> QED BY <1>1 DEF ListArrive, ListBase, ListTypeOK, Instance

LEMMA ElsewhereInv ==
    ASSUME ListInv, ListArrive, target.list = Elsewhere
    PROVE  ListInv'
<1>1. ListBase
    BY DEF ListInv
<1>2. /\ UNCHANGED <<rows, loading, error, cursorHistory, recoveryKeys, requests, deletions, epoch,
                     behind, pulled, returned, wanted>>
      /\ url' = target /\ target' = None /\ target # None /\ ListBase' /\ ~OnList'
    BY <1>1, ArriveEffect DEF ListArrive, listPage, OnList
<1>3. ListPaged' /\ Spinning'
    BY <1>2 DEF ListInv, ListPaged, Spinning, Instance
<1>4. \A i \in DOMAIN requests : requests[i].old
    BY <1>2 DEF ListInv, Recent, ListLive, OnList, Stays
<1>5. \A d \in deletions : d.old
    BY <1>2 DEF ListInv, Recent, ListLive, OnList, Stays
<1>6. ListCurrent'
    BY <1>2 DEF ListInv, ListCurrent, ListLive
<1>7. Recent' /\ Single'
    BY <1>2, <1>4, <1>5 DEF Recent, Single
<1>8. Pathed'
    BY <1>2 DEF ListInv, Pathed
<1>9. Going'
    BY <1>2, <1>4, <1>5 DEF ListInv, Going, Leading, FirstPage, ToList
<1>10. Dated'
    BY <1>2 DEF ListInv, Dated
<1>11. Recovered' /\ NoLoop'
    BY <1>2 DEF ListInv, Recovered, NoLoop
<1> QED BY <1>2, <1>3, <1>6, <1>7, <1>8, <1>9, <1>10, <1>11 DEF ListInv

\* The request of a page that opens, or changes its list, query or cursor.
LEMMA Asking ==
    ASSUME ListBase, ListBase', NEW n \in Nat, target \in Url, target.list # Elsewhere,
           requests' = Append(requests, ListAsked(target, n))
    PROVE  /\ DOMAIN requests = 1 .. Len(requests) /\ Len(requests) \in Nat
           /\ DOMAIN requests' = 1 .. Len(requests) + 1 /\ Len(requests') = Len(requests) + 1
           /\ \A j \in DOMAIN requests : requests'[j] = requests[j]
           /\ \E m \in Nat : /\ m = Len(requests) + 1 /\ m \in DOMAIN requests'
                            /\ requests'[m].url = target /\ requests'[m].page = n
                            /\ requests'[m].late = FALSE /\ requests'[m].old = FALSE
                            /\ \A j \in DOMAIN requests' : j = m \/ (j \in DOMAIN requests /\ j < m)
<1>1. requests \in Seq(ListRequest)
    BY DEF ListBase, ListTypeOK
<1>2. PICK x : x = ListAsked(target, n)
    OBVIOUS
<1>3. /\ x \in ListRequest /\ x.url = target /\ x.page = n /\ x.late = FALSE /\ x.old = FALSE
    BY <1>2, AskedTyped DEF ListAsked
<1>4. PICK m \in Nat : m = Len(requests) + 1
    BY <1>1
<1>5. /\ requests' \in Seq(ListRequest) /\ DOMAIN requests' = 1 .. m
      /\ DOMAIN requests = 1 .. Len(requests) /\ Len(requests) \in Nat
      /\ requests'[m] = x
      /\ \A j \in DOMAIN requests : requests'[j] = requests[j]
    BY <1>1, <1>2, <1>3, <1>4, Appended
<1>6. Len(requests') = m
    BY <1>5
<1>7. m \in DOMAIN requests' /\ \A j \in DOMAIN requests' : j = m \/ (j \in DOMAIN requests /\ j < m)
    <2>1. \A p \in Nat : /\ p + 1 \in 1 .. p + 1
                        /\ \A j \in 1 .. p + 1 : j = p + 1 \/ (j \in 1 .. p /\ j < p + 1)
        OBVIOUS
    <2> QED BY <1>4, <1>5, <2>1
<1> QED BY <1>3, <1>4, <1>5, <1>6, <1>7

LEMMA OpenInv ==
    ASSUME ListInv, ListArrive, target.list # Elsewhere, ~OnList, ListOpen
    PROVE  ListInv'
<1>1. ListBase
    BY DEF ListInv
<1>2. /\ UNCHANGED <<deletions, epoch, behind, pulled, returned, wanted>>
      /\ url' = target /\ target' = None /\ target # None /\ ListBase' /\ target \in Url
      /\ Instance \in Nat /\ recoveryKeys \in Seq(Key \cup {None})
    BY <1>1, ArriveEffect DEF ListBase, ListTypeOK
<1>3. /\ rows' = None /\ loading' = TRUE /\ error' = None /\ cursorHistory' = <<>>
      /\ DOMAIN cursorHistory' = {}
    BY DEF ListOpen
<1>4. Instance' = Instance + 1 /\ recoveryKeys'[Instance'] = None
    BY <1>2 DEF ListOpen, Instance
<1>5. PICK n \in Nat : n = Instance + 1
    BY <1>2
<1>6. requests' = Append(requests, ListAsked(target, n))
    BY <1>5 DEF ListOpen
<1>7. PICK m \in Nat : /\ m = Len(requests) + 1 /\ m \in DOMAIN requests'
                      /\ requests'[m].url = target /\ requests'[m].page = n
                      /\ requests'[m].late = FALSE /\ requests'[m].old = FALSE
                      /\ \A j \in DOMAIN requests' : j = m \/ (j \in DOMAIN requests /\ j < m)
    BY <1>1, <1>2, <1>6, Asking
<1>8. \A j \in DOMAIN requests : requests'[j] = requests[j] /\ requests[j].page < n
                                /\ requests[j].page \in Nat
    <2>1. \A j \in DOMAIN requests : requests[j] \in ListRequest
        BY <1>1 DEF ListBase, ListTypeOK
    <2>2. \A j \in DOMAIN requests : requests[j].page \in Nat
        BY <2>1 DEF ListRequest
    <2>3. \A j \in DOMAIN requests : requests[j].page <= Instance
        BY DEF ListInv, ListPaged
    <2> QED BY <1>1, <1>2, <1>5, <1>6, <2>2, <2>3, Asking
<1>9. OnList' /\ ListLive(requests[m])' /\ \A j \in DOMAIN requests' : ListLive(requests[j])' => j = m
    BY <1>2, <1>4, <1>5, <1>7, <1>8 DEF OnList, ListLive
<1>10. /\ \A j \in DOMAIN requests : requests[j].old
       /\ \A d \in deletions : d.old
    BY DEF ListInv, Recent, ListLive
<1>11. ListPaged'
    <2>1. \A i, j \in DOMAIN requests' : i < j => requests'[i].page <= requests'[j].page
        BY <1>5, <1>7, <1>8 DEF ListInv, ListPaged
    <2>2. \A i \in DOMAIN requests' : requests'[i].page <= Instance'
        BY <1>4, <1>5, <1>7, <1>8
    <2>3. \A d \in deletions' : d.page <= Instance'
        BY <1>1, <1>2, <1>4 DEF ListInv, ListPaged, ListBase, ListTypeOK, Deletion
    <2>4. Instance' > 0
        BY <1>2, <1>4
    <2> QED BY <2>1, <2>2, <2>3, <2>4 DEF ListPaged
<1>12. Spinning'
    BY <1>7, <1>9 DEF Spinning
<1>13. ListCurrent'
    <2>1. ASSUME NEW i \in DOMAIN requests', NEW j \in DOMAIN requests', i < j, requests'[j].late
          PROVE  requests'[i].late
        <3>1. j \in DOMAIN requests
            BY <1>7, <2>1
        <3>2. i \in DOMAIN requests
            BY <1>1, <1>7, <2>1, <3>1 DEF ListBase, ListTypeOK
        <3> QED BY <1>8, <2>1, <3>1, <3>2 DEF ListInv, ListCurrent
    <2>2. \A i \in DOMAIN requests' : ListLive(requests[i])' => requests'[i].url = url'
        BY <1>2, <1>7, <1>9
    <2>3. ~ \A i \in DOMAIN requests' : ListLive(requests[i])' => requests'[i].late
        BY <1>7, <1>9
    <2> QED BY <2>1, <2>2, <2>3 DEF ListCurrent
<1>14. Recent'
    BY <1>2, <1>7, <1>8, <1>9, <1>10 DEF Recent, Stays
<1>15. Pathed'
    <2>1. ASSUME ~astray' PROVE target.cursor = None
        BY <1>1, <1>2, <2>1, ArriveEffect DEF ListInv, Pathed
    <2>2. target.cursor = None => Path(cursorHistory', url')
        BY <1>2, <1>3 DEF Path, OfList, PageOf
    <2> QED BY <1>2, <1>3, <2>1, <2>2 DEF Pathed
<1>16. Going'
    <2>1. ~pulled => target \in {wanted, FirstPage(wanted)}
        BY <1>2 DEF ListInv, Going, Leading
    <2>2. ~pulled => target.list = wanted.list /\ target.query = wanted.query
        BY <2>1 DEF FirstPage, ToList
    <2>3. FirstPage(wanted)' = FirstPage(wanted) /\ Leading' = target
        BY <1>2 DEF FirstPage, ToList, Leading
    <2> QED BY <1>2, <1>7, <1>8, <1>10, <2>1, <2>2, <2>3 DEF Going
<1>17. Dated'
    BY <1>2, <1>3, <1>7, <1>8 DEF ListInv, Dated
<1>18. Single'
    <2>1. ~returned => target.cursor = None
        BY <1>2 DEF ListInv, Single
    <2> QED BY <1>2, <1>7, <1>8, <1>10, <2>1 DEF Single
<1>19. Recovered' /\ NoLoop'
    BY <1>1, <1>3, <1>4 DEF Recovered, NoLoop, ListBase, EntityListAssumption
<1> QED BY <1>2, <1>11, <1>12, <1>13, <1>14, <1>15, <1>16, <1>17, <1>18, <1>19 DEF ListInv

\* The link to the URL the page has.
LEMMA StayInv ==
    ASSUME ListInv, ListArrive, target.list # Elsewhere, OnList, ListRenew, target = url
    PROVE  ListInv'
<1>1. ListBase
    BY DEF ListInv
<1>2. /\ UNCHANGED <<url, rows, loading, error, cursorHistory, recoveryKeys, requests, deletions,
                     epoch, behind, pulled, returned, wanted, hasty>>
      /\ target' = None /\ target # None /\ ListBase'
      /\ astray' = (astray /\ ~(target.cursor = None /\ cursorHistory' = <<>>))
    <2>1. UNCHANGED <<rows, loading, error, cursorHistory, recoveryKeys, requests>>
        BY DEF ListRenew, ListReloads
    <2>2. hasty \in BOOLEAN /\ Len(requests') = Len(requests)
        BY <1>1, <2>1 DEF ListBase, ListTypeOK
    <2>3. hasty' = hasty
        BY <1>1, <2>2, ArriveEffect
    <2> QED BY <1>1, <2>1, <2>3, ArriveEffect
<1>3. ListPaged' /\ Spinning'
    BY <1>2 DEF ListInv, ListPaged, Spinning, Instance, ListLive, OnList
<1>4. ListCurrent'
    <2>1. ~Turning
        BY DEF Turning
    <2> QED BY <1>2, <2>1 DEF ListInv, ListCurrent, ListLive, OnList, Instance, RowsRight
<1>5. Recent' /\ Single'
    BY <1>2 DEF ListInv, Recent, Single, ListLive, OnList, Instance, Stays
<1>6. Pathed'
    <2>1. ASSUME ~astray' PROVE Path(cursorHistory, url)
        <3>1. CASE ~astray
            BY <1>2, <3>1 DEF ListInv, Pathed
        <3>2. CASE target.cursor = None /\ cursorHistory = <<>>
            BY <3>2 DEF Path, OfList, PageOf
        <3> QED BY <1>2, <2>1, <3>1, <3>2
    <2> QED BY <1>2, <2>1 DEF ListInv, Pathed
<1>7. Going'
    BY <1>2 DEF ListInv, Going, Leading, FirstPage, ToList
<1>8. Dated'
    BY <1>2 DEF ListInv, Dated, OnList
<1>9. Recovered' /\ NoLoop'
    BY <1>2 DEF ListInv, Recovered, NoLoop, ListLive, OnList, Instance, Turning
<1> QED BY <1>2, <1>3, <1>4, <1>5, <1>6, <1>7, <1>8, <1>9 DEF ListInv

\* What a page keeps when its list, query or cursor changes.
LEMMA RenewEffect ==
    ASSUME ListInv, ListArrive, target.list # Elsewhere, OnList, ListRenew, target # url
    PROVE  /\ UNCHANGED <<rows, error, deletions, epoch, behind, pulled, returned, wanted>>
           /\ url' = target /\ target' = None /\ target # None /\ ListBase' /\ target \in Url
           /\ Instance' = Instance /\ Instance \in Nat /\ OnList' /\ loading' = TRUE
           /\ \/ /\ target.list = url.list /\ target.query = url.query
                 /\ UNCHANGED <<cursorHistory, recoveryKeys>>
              \/ /\ target.list # url.list \/ target.query # url.query
                 /\ cursorHistory' = <<>> /\ recoveryKeys'[Instance'] = None
           /\ requests' = Append(requests, ListAsked(target, Instance))
<1>1. ListBase
    BY DEF ListInv
<1>2. /\ UNCHANGED <<deletions, epoch, behind, pulled, returned, wanted>>
      /\ url' = target /\ target' = None /\ target # None /\ ListBase' /\ target \in Url
      /\ Instance \in Nat /\ OnList'
    BY <1>1, ArriveEffect DEF OnList
<1>3. /\ UNCHANGED <<rows, error>> /\ loading' = TRUE
      /\ requests' = Append(requests, ListAsked(target, Instance))
    BY DEF ListRenew, ListReloads
<1>4. recoveryKeys \in Seq(Key \cup {None}) /\ Instance \in DOMAIN recoveryKeys
    BY <1>1 DEF ListInv, ListBase, ListTypeOK, ListPaged, Instance
<1>5. CASE target.list = url.list /\ target.query = url.query
    BY <1>2, <1>3, <1>5 DEF ListRenew, Instance
<1>6. CASE target.list # url.list \/ target.query # url.query
    <2>1. cursorHistory' = <<>> /\ recoveryKeys' = [recoveryKeys EXCEPT ![Instance] = None]
        BY <1>6 DEF ListRenew
    <2>2. Len(recoveryKeys') = Len(recoveryKeys) /\ recoveryKeys'[Instance] = None
        BY <1>4, <2>1, Marked
    <2> QED BY <1>2, <1>3, <1>6, <2>1, <2>2 DEF Instance
<1> QED BY <1>5, <1>6

LEMMA RenewInv ==
    ASSUME ListInv, ListArrive, target.list # Elsewhere, OnList, ListRenew, target # url
    PROVE  ListInv'
<1>1. ListBase
    BY DEF ListInv
<1>2. /\ UNCHANGED <<rows, error, deletions, epoch, behind, pulled, returned, wanted>>
      /\ url' = target /\ target' = None /\ target # None /\ ListBase' /\ target \in Url
      /\ Instance' = Instance /\ Instance \in Nat /\ OnList' /\ loading' = TRUE
      /\ requests' = Append(requests, ListAsked(target, Instance))
    BY RenewEffect
<1>3. \/ /\ target.list = url.list /\ target.query = url.query
         /\ UNCHANGED <<cursorHistory, recoveryKeys>>
      \/ /\ target.list # url.list \/ target.query # url.query
         /\ cursorHistory' = <<>> /\ recoveryKeys'[Instance'] = None
    BY RenewEffect
<1>4. PICK n \in Nat : n = Instance
    BY <1>2
<1>5. PICK m \in Nat : /\ m = Len(requests) + 1 /\ m \in DOMAIN requests'
                      /\ requests'[m].url = target /\ requests'[m].page = n
                      /\ requests'[m].late = FALSE /\ requests'[m].old = FALSE
                      /\ \A j \in DOMAIN requests' : j = m \/ (j \in DOMAIN requests /\ j < m)
    BY <1>1, <1>2, <1>4, Asking
<1>6. \A j \in DOMAIN requests : /\ requests'[j] = requests[j] /\ requests[j].page <= n
                                /\ requests[j].page \in Nat /\ j \in Nat
    <2>1. \A j \in DOMAIN requests : requests[j] \in ListRequest /\ j \in Nat
        BY <1>1 DEF ListBase, ListTypeOK
    <2>2. \A j \in DOMAIN requests : requests[j].page \in Nat
        BY <2>1 DEF ListRequest
    <2>3. \A j \in DOMAIN requests : requests[j].page <= n
        BY <1>4 DEF ListInv, ListPaged
    <2> QED BY <1>1, <1>2, <1>4, <2>1, <2>2, <2>3, Asking
<1>7. /\ ListLive(requests[m])'
      /\ \A j \in DOMAIN requests : ListLive(requests[j]) => ListLive(requests[j])'
      /\ \A d \in deletions : ListLive(d) => ListLive(d)'
    BY <1>2, <1>4, <1>5, <1>6 DEF OnList, ListLive
<1>8. \A i \in DOMAIN cursorHistory' :
        /\ i \in DOMAIN cursorHistory /\ cursorHistory'[i] = cursorHistory[i]
        /\ target.list = url.list /\ target.query = url.query
    <2>1. CASE cursorHistory' = <<>>
        <3>1. DOMAIN cursorHistory' = {}
            BY <2>1
        <3> QED BY <3>1
    <2> QED BY <1>3, <2>1
<1>9. ListPaged'
    <2>1. \A i, j \in DOMAIN requests' : i < j => requests'[i].page <= requests'[j].page
        BY <1>4, <1>5, <1>6 DEF ListInv, ListPaged
    <2>2. \A i \in DOMAIN requests' : requests'[i].page <= Instance'
        BY <1>2, <1>4, <1>5, <1>6
    <2>3. \A d \in deletions' : d.page <= Instance'
        BY <1>2 DEF ListInv, ListPaged
    <2>4. Instance' > 0
        BY <1>2 DEF ListInv, ListPaged
    <2> QED BY <2>1, <2>2, <2>3, <2>4 DEF ListPaged
<1>10. Spinning'
    BY <1>5, <1>7 DEF Spinning
<1>11. ListCurrent'
    <2>1. ASSUME NEW i \in DOMAIN requests', NEW j \in DOMAIN requests', i < j, requests'[j].late
          PROVE  requests'[i].late
        <3>1. j \in DOMAIN requests
            BY <1>5, <2>1
        <3>2. i \in DOMAIN requests
            BY <1>5, <1>6, <2>1, <3>1
        <3> QED BY <1>6, <2>1, <3>1, <3>2 DEF ListInv, ListCurrent
    <2>2. ASSUME NEW i \in DOMAIN requests', ListLive(requests[i])',
                 \A j \in DOMAIN requests' : j > i => ~ListLive(requests[j])'
          PROVE  requests'[i].url = url'
        <3>1. i = m
            BY <1>5, <1>6, <1>7, <2>2
        <3> QED BY <1>2, <1>5, <3>1
    <2>3. ~ \A i \in DOMAIN requests' : ListLive(requests[i])' => requests'[i].late
        BY <1>5, <1>7
    <2> QED BY <2>1, <2>2, <2>3 DEF ListCurrent
<1>12. Recent'
    <2>1. ASSUME NEW i \in DOMAIN requests', ~requests'[i].old PROVE ListLive(requests[i])'
        BY <1>5, <1>6, <1>7, <2>1 DEF ListInv, Recent
    <2>2. ASSUME NEW d \in deletions', ~d.old PROVE ListLive(d)'
        BY <1>2, <1>7, <2>2 DEF ListInv, Recent
    <2> QED BY <1>2, <2>1, <2>2 DEF Recent, Stays
<1>13. Pathed'
    <2>1. ASSUME ~astray' PROVE Path(cursorHistory', target)
        <3>1. ~astray \/ (target.cursor = None /\ cursorHistory' = <<>>)
            BY <1>1, <2>1, ArriveEffect
        <3>2. CASE target.cursor = None /\ cursorHistory' = <<>>
            BY <3>2 DEF Path, OfList, PageOf
        <3>3. CASE ~astray
            <4>1. IF target.list = url.list
                  THEN Path(cursorHistory, target) /\ (target.query # url.query => target.cursor = None)
                  ELSE target.cursor = None
                BY <1>2, <3>3 DEF ListInv, Pathed
            <4> QED BY <1>3, <3>2, <4>1
        <3> QED BY <3>1, <3>2, <3>3
    <2> QED BY <1>2, <2>1 DEF ListInv, Pathed
<1>14. Going'
    <2>1. ~pulled => target \in {wanted, FirstPage(wanted)}
        BY <1>2 DEF ListInv, Going, Leading
    <2>2. ~pulled => target.list = wanted.list /\ target.query = wanted.query
        BY <2>1 DEF FirstPage, ToList
    <2>3. FirstPage(wanted)' = FirstPage(wanted) /\ Leading' = target
        BY <1>2 DEF FirstPage, ToList, Leading
    <2>4. ASSUME ~pulled', NEW i \in DOMAIN requests', ~requests'[i].old
          PROVE  requests'[i].url.query = wanted'.query
        BY <1>2, <1>5, <1>6, <2>2, <2>4 DEF ListInv, Going
    <2>5. ~pulled => \A d \in deletions : ~d.old => d.query = wanted.query
        BY DEF ListInv, Going
    <2> QED BY <1>2, <2>1, <2>2, <2>3, <2>4, <2>5 DEF Going
<1>15. Dated'
    <2>1. rows' # None => UpTo(rows'.next, epoch')
        BY <1>2 DEF ListInv, Dated
    <2>2. ~returned => UpTo(target.cursor, epoch) /\ OfList(target.cursor, target)
        BY <1>2 DEF ListInv, Dated
    <2>3. ASSUME ~returned, NEW i \in DOMAIN cursorHistory'
          PROVE  UpTo(cursorHistory'[i], epoch) /\ OfList(cursorHistory'[i], target)
        <3>1. UpTo(cursorHistory[i], epoch) /\ OfList(cursorHistory[i], url)
            BY <1>8, <2>3 DEF ListInv, Dated
        <3> QED BY <1>8, <3>1 DEF OfList
    <2>4. ASSUME ~returned, NEW i \in DOMAIN requests'
          PROVE  /\ UpTo(requests'[i].url.cursor, epoch)
                 /\ OfList(requests'[i].url.cursor, requests'[i].url)
        BY <1>5, <1>6, <2>2, <2>4 DEF ListInv, Dated
    <2> QED BY <1>2, <2>1, <2>2, <2>3, <2>4 DEF Dated
<1>16. Single'
    <2> SUFFICES ASSUME ~returned', NEW i \in DOMAIN requests', ~requests'[i].old,
                        requests'[i].url.cursor # None
                 PROVE  /\ Len(requests') = 1 /\ url' = requests'[i].url /\ target' = None
                        /\ \A d \in deletions' : d.old
                        /\ loading'
        BY <1>2 DEF Single
    <2>1. i = m
        <3>1. ~(i \in DOMAIN requests)
            BY <1>2, <1>6 DEF ListInv, Single
        <3> QED BY <1>5, <3>1
    <2>2. requests = <<>> /\ \A d \in deletions : d.old
        BY <1>2, <1>5, <2>1 DEF ListInv, Single
    <2>3. Len(requests') = 1
        <3>1. Len(requests') = Len(requests) + 1 /\ Len(requests) = 0
            BY <1>1, <1>2, <2>2, Asking
        <3> QED BY <3>1
    <2> QED BY <1>2, <1>5, <2>1, <2>2, <2>3
<1>17. Recovered'
    <2> SUFFICES ASSUME ~returned', OnList', recoveryKeys'[Instance'] # None
                 PROVE  Recovered'
        BY DEF Recovered
    <2>1. /\ UNCHANGED <<cursorHistory, recoveryKeys>>
          /\ ~returned /\ recoveryKeys[Instance] # None
        BY <1>2, <1>3
    <2>2. PICK k : k = recoveryKeys[Instance]
        OBVIOUS
    <2>3. /\ k.cursor.epoch < epoch
          /\ \A i \in DOMAIN requests : ListLive(requests[i]) => Since(requests[i].url.cursor, k)
          /\ Since(target.cursor, k)
          /\ \A i \in DOMAIN cursorHistory : Since(cursorHistory[i], k)
        BY <1>2, <2>1, <2>2 DEF ListInv, Recovered
    <2>4. ASSUME NEW i \in DOMAIN requests', ListLive(requests[i])'
          PROVE  Since(requests'[i].url.cursor, k)
        <3>1. CASE i = m
            BY <1>5, <2>3, <3>1
        <3>2. CASE i \in DOMAIN requests
            <4>1. ListLive(requests[i])
                BY <1>2, <1>6, <2>4, <3>2 DEF ListLive
            <4> QED BY <1>6, <2>3, <3>2, <4>1
        <3> QED BY <1>5, <3>1, <3>2
    <2> QED BY <1>2, <2>1, <2>2, <2>3, <2>4 DEF Recovered
<1>18. NoLoop'
    BY <1>2 DEF ListInv, NoLoop
<1> QED BY <1>2, <1>9, <1>10, <1>11, <1>12, <1>13, <1>14, <1>15, <1>16, <1>17, <1>18 DEF ListInv

LEMMA ArriveInv ==
    ASSUME ListInv, ListArrive
    PROVE  ListInv'
BY ElsewhereInv, OpenInv, StayInv, RenewInv DEF ListArrive

-----------------------------------------------------------------------------
(* A request is answered. *)

LEMMA AnswerEffect ==
    ASSUME ListInv, NEW i \in DOMAIN requests, ListLoadAnswer(i)
    PROVE  /\ UNCHANGED <<epoch, url, deletions, hasty, wanted>> /\ ListBase'
           /\ Instance' = Instance /\ requests' = ListAnswered(i)
           /\ requests[i].url \in ListUrl /\ requests[i].page \in Nat
           /\ requests[i].late \in BOOLEAN /\ requests[i].old \in BOOLEAN
           /\ requests[i].url.query \in Queries
           /\ requests \in Seq(ListRequest)
<1>1. ListBase
    BY DEF ListInv
<1>2. /\ UNCHANGED <<epoch, url, deletions, hasty, wanted>> /\ requests' = ListAnswered(i)
    BY DEF ListLoadAnswer
<1>3. ListBase'
    BY <1>1, TypeLoadAnswer, Assumed
<1>4. recoveryKeys \in Seq(Key \cup {None}) /\ requests \in Seq(ListRequest)
    BY <1>1 DEF ListBase, ListTypeOK
<1>5. requests[i] \in ListRequest
    BY <1>4
<1>6. /\ requests[i].url \in ListUrl /\ requests[i].page \in Nat
      /\ requests[i].late \in BOOLEAN /\ requests[i].old \in BOOLEAN
      /\ requests[i].url.query \in Queries
    BY <1>5 DEF ListRequest, ListUrl
<1>7. Instance' = Instance
    <2>1. CASE Recover(requests[i])
        <3>1. RecoveryKey(requests[i].url) \in Key
            <4>1. requests[i].url.cursor # None
                BY <2>1 DEF Recover, Valid
            <4> QED BY <1>6, <4>1 DEF RecoveryKey, ToList, Key, ListUrl
        <3> QED BY <1>4, <2>1, <3>1, Marked DEF Recover, Instance
    <2>2. CASE ListSucceed(requests[i]) \/ ListGiveUp(requests[i])
        BY <2>2 DEF ListSucceed, ListGiveUp, Instance
    <2> QED BY <2>1, <2>2 DEF ListLoadAnswer
<1> QED BY <1>2, <1>3, <1>4, <1>6, <1>7

LEMMA Remaining ==
    ASSUME ListInv, NEW i \in DOMAIN requests, ListLoadAnswer(i), NEW j \in DOMAIN requests'
    PROVE  /\ Before(j, i) \in DOMAIN requests \ {i} /\ j \in Nat /\ i \in Nat
           /\ requests'[j].page = requests[Before(j, i)].page
           /\ requests'[j].url = requests[Before(j, i)].url
           /\ requests'[j].old = requests[Before(j, i)].old
           /\ requests'[j].late = (j < i \/ requests[Before(j, i)].late)
           /\ ListLive(requests[j])' <=> ListLive(requests[Before(j, i)])
<1>1. /\ url' = url /\ requests' = ListAnswered(i) /\ requests \in Seq(ListRequest)
      /\ ListBase' /\ Instance' = Instance
    BY AnswerEffect
<1>2. /\ Before(j, i) \in DOMAIN requests \ {i}
      /\ requests'[j].page = requests[Before(j, i)].page
      /\ requests'[j].url = requests[Before(j, i)].url
      /\ requests'[j].old = requests[Before(j, i)].old
      /\ requests'[j].late = (j < i \/ requests[Before(j, i)].late)
    BY <1>1, Left
<1>3. requests' \in Seq(ListRequest)
    BY <1>1 DEF ListBase, ListTypeOK
<1>4. j \in Nat /\ i \in Nat
    BY <1>1, <1>3
<1> QED BY <1>1, <1>2, <1>4 DEF ListLive, OnList

LEMMA AnswerPaged ==
    ASSUME ListInv, NEW i \in DOMAIN requests, ListLoadAnswer(i)
    PROVE  ListPaged'
<1>1. UNCHANGED <<url, deletions>> /\ Instance' = Instance
    BY AnswerEffect
<1>2. \A j \in DOMAIN requests' : requests'[j].page <= Instance'
    BY <1>1, Remaining DEF ListInv, ListPaged
<1>3. ASSUME NEW j \in DOMAIN requests', NEW k \in DOMAIN requests', j < k
      PROVE  requests'[j].page <= requests'[k].page
    <2>1. Before(j, i) < Before(k, i)
        BY <1>3, Remaining DEF Before
    <2> QED BY <2>1, Remaining DEF ListInv, ListPaged
<1> QED BY <1>1, <1>2, <1>3 DEF ListInv, ListPaged, OnList

LEMMA AnswerSpinning ==
    ASSUME ListInv, NEW i \in DOMAIN requests, ListLoadAnswer(i)
    PROVE  Spinning'
<1>1. loading' = IF ListLive(requests[i]) THEN FALSE ELSE loading
    BY DEF ListLoadAnswer, ListSucceed, Recover, ListGiveUp
<1>2. ASSUME OnList', loading' PROVE \E j \in DOMAIN requests' : ListLive(requests[j])'
    <2>1. OnList /\ loading /\ ~ListLive(requests[i])
        BY <1>1, <1>2, AnswerEffect DEF OnList
    <2>2. PICK k \in DOMAIN requests : ListLive(requests[k])
        BY <2>1 DEF ListInv, Spinning
    <2>3. PICK j \in DOMAIN requests' : k = Before(j, i)
        BY <2>1, <2>2, AnswerEffect, AnsweredRequest
    <2> QED BY <2>2, <2>3, Remaining
<1> QED BY <1>2 DEF Spinning

\* What was asked for last, if the answer is not late.
LEMMA AnswerLast ==
    ASSUME ListInv, NEW i \in DOMAIN requests, ListLoadAnswer(i), ListLive(requests[i]),
           ~requests[i].late,
           \A j \in DOMAIN requests' : ListLive(requests[j])' => requests'[j].late
    PROVE  requests[i].url = url
<1>1. ASSUME NEW k \in DOMAIN requests, k > i, ListLive(requests[k])
      PROVE  FALSE
    <2>1. requests \in Seq(ListRequest)
        BY AnswerEffect
    <2>2. k # i /\ i \in Nat /\ k \in Nat
        BY <1>1, <2>1
    <2>3. PICK j \in DOMAIN requests' : k = Before(j, i)
        BY <1>1, <2>1, <2>2, AnswerEffect, AnsweredRequest
    <2>4. ~(j < i)
        BY <1>1, <2>2, <2>3, Remaining DEF Before
    <2>5. requests[k].late
        BY <1>1, <2>3, <2>4, Remaining
    <2> QED BY <1>1, <2>5 DEF ListInv, ListCurrent
<1> QED BY <1>1 DEF ListInv, ListCurrent

LEMMA AnswerCurrent ==
    ASSUME ListInv, NEW i \in DOMAIN requests, ListLoadAnswer(i)
    PROVE  ListCurrent'
<1> DEFINE r == requests[i]
<1>1. /\ UNCHANGED <<url, hasty>> /\ Instance' = Instance /\ r.late \in BOOLEAN
      /\ requests \in Seq(ListRequest) /\ r.url \in ListUrl /\ ListBase
    BY AnswerEffect DEF ListInv
<1>2. ASSUME NEW j \in DOMAIN requests', NEW k \in DOMAIN requests', j < k, requests'[k].late
      PROVE  requests'[j].late
    <2>1. Before(j, i) < Before(k, i)
        BY <1>2, Remaining DEF Before
    <2>2. CASE k < i
        <3>1. j < i
            BY <1>2, <2>2, Remaining
        <3> QED BY <3>1, Remaining
    <2>3. CASE requests[Before(k, i)].late
        BY <2>1, <2>3, Remaining DEF ListInv, ListCurrent
    <2> QED BY <1>2, <2>2, <2>3, Remaining
<1>3. ASSUME NEW j \in DOMAIN requests', ListLive(requests[j])',
             \A k \in DOMAIN requests' : k > j => ~ListLive(requests[k])'
      PROVE  requests'[j].late \/ requests'[j].url = url'
    <2>1. CASE j < i
        BY <2>1, Remaining
    <2>2. CASE ~(j < i)
        <3>1. Before(j, i) = j + 1 /\ j + 1 \in DOMAIN requests /\ ListLive(requests[j + 1])
              /\ j \in Nat /\ i \in Nat
            BY <1>3, <2>2, Remaining DEF Before
        <3>2. ASSUME NEW m \in DOMAIN requests, m > j + 1 PROVE ~ListLive(requests[m])
            <4>1. m \in Nat
                BY <1>1
            <4>2. m # i
                BY <2>2, <3>1, <3>2, <4>1
            <4>3. PICK k \in DOMAIN requests' : m = Before(k, i)
                BY <1>1, <4>2, AnswerEffect, AnsweredRequest
            <4>4. k > j
                BY <2>2, <3>1, <3>2, <4>3, Remaining DEF Before
            <4> QED BY <1>3, <4>3, <4>4, Remaining
        <3>3. requests[j + 1].late \/ requests[j + 1].url = url
            BY <3>1, <3>2 DEF ListInv, ListCurrent
        <3> QED BY <1>1, <3>1, <3>3, Remaining, ZenonT(60)
    <2> QED BY <2>1, <2>2
<1>4. ASSUME OnList', \A j \in DOMAIN requests' : ListLive(requests[j])' => requests'[j].late,
             ~behind', ~hasty'
      PROVE  RowsRight' \/ Turning'
    <2>0. OnList /\ ~hasty
        BY <1>1, <1>4 DEF OnList
    <2>1. ASSUME ListLive(r), ~r.late PROVE r.url = url
        BY <1>4, <2>1, AnswerLast
    <2>2. ASSUME ~ListLive(r) \/ r.late
          PROVE  \A k \in DOMAIN requests : ListLive(requests[k]) => requests[k].late
        <3> SUFFICES ASSUME NEW k \in DOMAIN requests, ListLive(requests[k]), ~requests[k].late
                     PROVE  FALSE
            OBVIOUS
        <3>1. k # i /\ k \in Nat /\ i \in Nat
            BY <1>1, <2>2
        <3>2. PICK j \in DOMAIN requests' : k = Before(j, i)
            BY <1>1, <3>1, AnswerEffect, AnsweredRequest
        <3>3. j < i /\ k < i
            BY <1>4, <3>1, <3>2, Remaining DEF Before
        <3>4. ListLive(r)
            <4>1. requests[k].page <= r.page /\ r.page <= Instance /\ requests[k].page = Instance
                BY <3>3 DEF ListInv, ListPaged, ListLive
            <4>2. r.page \in Nat /\ Instance \in Nat
                BY AnswerEffect DEF Instance, ListInv, ListBase, ListTypeOK
            <4> QED BY <2>0, <4>1, <4>2 DEF ListLive
        <3> QED BY <2>2, <3>3, <3>4 DEF ListInv, ListCurrent
    <2>3. CASE ListSucceed(r)
        <3>1. CASE ListLive(r)
            <4>1. rows' = ListAnswer(r.url) /\ error' = None /\ behind' = r.late
                BY <2>3, <3>1 DEF ListSucceed
            <4>2. r.url = url
                BY <1>4, <2>1, <3>1, <4>1
            <4> QED BY <1>1, <4>1, <4>2, AnswerTyped DEF RowsRight
        <3>2. CASE ~ListLive(r)
            <4>1. UNCHANGED <<rows, error, behind, target>>
                BY <2>3, <3>2 DEF ListSucceed
            <4> QED BY <1>1, <1>4, <2>0, <2>2, <3>2, <4>1
                    DEF ListInv, ListCurrent, RowsRight, Turning
        <3> QED BY <3>1, <3>2
    <2>4. CASE ListGiveUp(r)
        <3>1. CASE ListLive(r)
            <4>1. rows' = None /\ error' \in {"failed", "cursor"}
                BY <2>4, <3>1 DEF ListGiveUp
            <4> QED BY <1>1, <4>1 DEF RowsRight, ListBase, EntityListAssumption
        <3>2. CASE ~ListLive(r)
            <4>1. UNCHANGED <<rows, error, behind, target>>
                BY <2>4, <3>2 DEF ListGiveUp
            <4> QED BY <1>1, <1>4, <2>0, <2>2, <3>2, <4>1
                    DEF ListInv, ListCurrent, RowsRight, Turning
        <3> QED BY <3>1, <3>2
    <2>5. CASE Recover(r)
        <3>1. target' # None /\ target'.cursor = None
            BY <1>1, <2>5, AnswerEffect, Redirected DEF Recover
        <3>2. CASE ListLive(r) /\ ~r.late
            <4>1. r.url.cursor # None
                BY <2>5 DEF Recover, Valid
            <4> QED BY <1>1, <2>1, <3>1, <3>2, <4>1 DEF Turning
        <3>3. CASE ~ListLive(r) \/ r.late
            <4>1. UNCHANGED <<rows, error, behind>>
                BY <2>5 DEF Recover
            <4>2. RowsRight \/ Turning
                BY <1>4, <2>0, <2>2, <3>3, <4>1 DEF ListInv, ListCurrent
            <4> QED BY <1>1, <3>1, <4>1, <4>2 DEF RowsRight, Turning
        <3> QED BY <3>2, <3>3
    <2> QED BY <2>3, <2>4, <2>5 DEF ListLoadAnswer
<1> QED BY <1>2, <1>3, <1>4 DEF ListCurrent

LEMMA AnswerRecent ==
    ASSUME ListInv, NEW i \in DOMAIN requests, ListLoadAnswer(i)
    PROVE  Recent'
<1>1. UNCHANGED <<url, deletions>> /\ Instance' = Instance
    BY AnswerEffect
<1>2. Stays => Stays'
    <2>1. target' = target \/ (target' # None /\ target'.list = url.list)
        <3>1. CASE Recover(requests[i])
            BY <3>1, AnswerEffect, Redirected DEF Recover, ListInv
        <3>2. CASE ListSucceed(requests[i]) \/ ListGiveUp(requests[i])
            BY <3>2 DEF ListSucceed, ListGiveUp
        <3> QED BY <3>1, <3>2 DEF ListLoadAnswer
    <2> QED BY <1>1, <2>1 DEF Stays
<1>3. ASSUME NEW j \in DOMAIN requests', ~requests'[j].old PROVE ListLive(requests[j])' /\ Stays'
    BY <1>2, <1>3, Remaining DEF ListInv, Recent
<1>4. ASSUME NEW d \in deletions', ~d.old PROVE ListLive(d)' /\ Stays'
    BY <1>1, <1>2, <1>4 DEF ListInv, Recent, ListLive, OnList
<1> QED BY <1>3, <1>4 DEF Recent

\* What an answer that does not move the browser leaves alone.
LEMMA AnswerStays ==
    ASSUME ListInv, NEW i \in DOMAIN requests, ListLoadAnswer(i),
           ListSucceed(requests[i]) \/ ListGiveUp(requests[i])
    PROVE  /\ UNCHANGED <<url, target, cursorHistory, recoveryKeys, pulled, astray, returned,
                          epoch, deletions, wanted>>
           /\ \/ UNCHANGED <<rows, loading, error>>
              \/ /\ ListLive(requests[i]) /\ loading' = FALSE
                 /\ rows' = None \/ rows' = ListAnswer(requests[i].url)
BY AnswerEffect DEF ListSucceed, ListGiveUp

LEMMA AnswerRows ==
    ASSUME ListInv, NEW i \in DOMAIN requests, ListLoadAnswer(i)
    PROVE  rows' # None /\ rows'.next # None =>
             /\ OfList(rows'.next, rows') /\ rows'.next.page = rows'.page + 1
             /\ UpTo(rows'.next, epoch)
<1>1. rows # None /\ rows.next # None =>
        /\ OfList(rows.next, rows) /\ rows.next.page = rows.page + 1
        /\ UpTo(rows.next, epoch)
    BY DEF ListInv, Pathed, Dated
<1>2. requests[i].url \in ListUrl /\ epoch \in Nat /\ ListBase
    BY AnswerEffect DEF ListInv, ListBase, ListTypeOK
<1>3. rows' = rows \/ rows' = None \/ rows' = ListAnswer(requests[i].url)
    BY DEF ListLoadAnswer, ListSucceed, ListGiveUp, Recover
<1>4. CASE rows' = ListAnswer(requests[i].url)
    BY <1>2, <1>4, AnswerTyped DEF OfList, UpTo
<1> QED BY <1>1, <1>3, <1>4

\* A refused cursor of a request that is not old.
LEMMA RecoverEffect ==
    ASSUME ListInv, NEW i \in DOMAIN requests, ListLoadAnswer(i), Recover(requests[i])
    PROVE  /\ UNCHANGED <<url, rows, error, behind, epoch, deletions, wanted>>
           /\ target' = ToList(url.list, requests[i].url.query, None)
           /\ target' # None /\ target'.list = url.list /\ target'.cursor = None
           /\ target'.query = requests[i].url.query
           /\ pulled' = (pulled \/ requests[i].old) /\ astray' = (astray \/ requests[i].old)
           /\ returned' = (returned \/ requests[i].old)
           /\ requests[i].url.cursor # None
           /\ ~requests[i].old => /\ ListLive(requests[i]) /\ OnList /\ cursorHistory' = <<>>
                                  /\ recoveryKeys'[Instance'] = RecoveryKey(requests[i].url)
<1> DEFINE r == requests[i]
<1>1. target' = ToList(url.list, r.url.query, None)
    BY DEF Recover, Redirect
<1>2. target' # None /\ target'.list = url.list /\ target'.cursor = None /\ target'.query = r.url.query
    BY AnswerEffect, Redirected DEF Recover, ListInv
<1>3. r.url.cursor # None
    BY DEF Recover, Valid
<1>4. ASSUME ~r.old
      PROVE  /\ ListLive(r) /\ OnList /\ cursorHistory' = <<>>
             /\ recoveryKeys'[Instance'] = RecoveryKey(r.url)
    <2>1. ListLive(r) /\ OnList
        BY <1>4 DEF ListInv, Recent, ListLive
    <2>2. cursorHistory' = <<>>
        BY <2>1 DEF Recover
    <2>3. recoveryKeys \in Seq(Key \cup {None}) /\ Instance \in DOMAIN recoveryKeys
          /\ Instance' = Instance
        BY <2>1, AnswerEffect DEF ListInv, ListPaged, Instance, ListBase, ListTypeOK
    <2>4. recoveryKeys' = [recoveryKeys EXCEPT ![Instance] = RecoveryKey(r.url)]
        BY <2>1 DEF Recover, ListLive
    <2>5. recoveryKeys'[Instance] = RecoveryKey(r.url)
        <3>1. PICK t : t = recoveryKeys
            OBVIOUS
        <3>2. t \in [1 .. Len(t) -> Key \cup {None}] /\ Instance \in DOMAIN t
            BY <2>3, <3>1
        <3> QED BY <2>4, <3>1, <3>2
    <2> QED BY <2>1, <2>2, <2>3, <2>5
<1> QED BY <1>1, <1>2, <1>3, <1>4, AnswerEffect DEF Recover, Redirect

LEMMA AnswerPathed ==
    ASSUME ListInv, NEW i \in DOMAIN requests, ListLoadAnswer(i)
    PROVE  Pathed'
<1>1. rows' # None /\ rows'.next # None =>
        OfList(rows'.next, rows') /\ rows'.next.page = rows'.page + 1
    BY AnswerRows
<1>2. CASE ListSucceed(requests[i]) \/ ListGiveUp(requests[i])
    <2>1. UNCHANGED <<url, target, cursorHistory, astray>>
        BY <1>2, AnswerStays
    <2> QED BY <1>1, <2>1 DEF ListInv, Pathed, OnList
<1>3. CASE Recover(requests[i])
    <2>1. ASSUME ~astray'
          PROVE  /\ OnList' /\ target' # None /\ target'.list = url'.list
                 /\ Path(cursorHistory', target') /\ target'.cursor = None
        <3>1. /\ OnList /\ cursorHistory' = <<>> /\ target' # None /\ target'.list = url.list
              /\ target'.cursor = None /\ url' = url
            BY <1>3, <2>1, RecoverEffect
        <3> QED BY <3>1 DEF Path, OfList, PageOf, OnList
    <2> QED BY <1>1, <2>1 DEF Pathed
<1> QED BY <1>2, <1>3 DEF ListLoadAnswer

LEMMA AnswerGoing ==
    ASSUME ListInv, NEW i \in DOMAIN requests, ListLoadAnswer(i)
    PROVE  Going'
<1>1. UNCHANGED <<url, deletions, wanted>> /\ FirstPage(wanted)' = FirstPage(wanted)
    BY AnswerEffect DEF FirstPage, ToList
<1>2. ASSUME ~pulled, NEW j \in DOMAIN requests', ~requests'[j].old
      PROVE  requests'[j].url.query = wanted.query /\ url.list = wanted.list
    BY <1>2, Remaining DEF ListInv, Going
<1>3. ASSUME ~pulled'
      PROVE  ~pulled /\ Leading' \in {wanted, FirstPage(wanted)}
    <2>1. CASE ListSucceed(requests[i]) \/ ListGiveUp(requests[i])
        BY <1>3, <2>1, AnswerStays DEF ListInv, Going, Leading
    <2>2. CASE Recover(requests[i])
        <3>1. ~pulled /\ ~requests[i].old
            BY <1>3, <2>2, RecoverEffect
        <3>2. requests[i].url.query = wanted.query /\ url.list = wanted.list
            BY <3>1 DEF ListInv, Going
        <3>3. target' = FirstPage(wanted) /\ target' # None
            BY <2>2, <3>2, RecoverEffect DEF FirstPage
        <3> QED BY <3>1, <3>3 DEF Leading
    <2> QED BY <2>1, <2>2 DEF ListLoadAnswer
<1>4. ~pulled => \A d \in deletions : ~d.old => d.query = wanted.query /\ url.list = wanted.list
    BY DEF ListInv, Going
<1> QED BY <1>1, <1>2, <1>3, <1>4 DEF Going

LEMMA AnswerDated ==
    ASSUME ListInv, NEW i \in DOMAIN requests, ListLoadAnswer(i)
    PROVE  Dated'
<1>1. UNCHANGED <<url, epoch>>
    BY AnswerEffect
<1>2. rows' # None => UpTo(rows'.next, epoch')
    BY <1>1, AnswerRows DEF UpTo
<1>3. ASSUME ~returned, NEW j \in DOMAIN requests'
      PROVE  /\ UpTo(requests'[j].url.cursor, epoch)
             /\ OfList(requests'[j].url.cursor, requests'[j].url)
    BY <1>3, Remaining DEF ListInv, Dated
<1>4. ASSUME ~returned'
      PROVE  /\ ~returned
             /\ target' # None => UpTo(target'.cursor, epoch) /\ OfList(target'.cursor, target')
             /\ OnList => \A k \in DOMAIN cursorHistory' :
                   UpTo(cursorHistory'[k], epoch) /\ OfList(cursorHistory'[k], url)
    <2>1. CASE ListSucceed(requests[i]) \/ ListGiveUp(requests[i])
        BY <1>4, <2>1, AnswerStays DEF ListInv, Dated
    <2>2. CASE Recover(requests[i])
        <3>1. ~returned /\ cursorHistory' = <<>> /\ target'.cursor = None
            BY <1>4, <2>2, RecoverEffect
        <3>2. DOMAIN cursorHistory' = {}
            BY <3>1
        <3> QED BY <3>1, <3>2 DEF UpTo, OfList
    <2> QED BY <2>1, <2>2 DEF ListLoadAnswer
<1>5. ~returned => UpTo(url.cursor, epoch) /\ OfList(url.cursor, url)
    BY DEF ListInv, Dated
<1> QED BY <1>1, <1>2, <1>3, <1>4, <1>5 DEF Dated, OnList

LEMMA AnswerSingle ==
    ASSUME ListInv, NEW i \in DOMAIN requests, ListLoadAnswer(i)
    PROVE  Single'
<1>1. returned' \/ ~returned
    <2>1. CASE ListSucceed(requests[i]) \/ ListGiveUp(requests[i])
        BY <2>1, AnswerStays DEF ListInv, ListBase, ListTypeOK
    <2>2. CASE Recover(requests[i])
        BY <2>2, RecoverEffect
    <2> QED BY <2>1, <2>2 DEF ListLoadAnswer
<1>2. ~returned => target' = None \/ target'.cursor = None
    <2>1. CASE ListSucceed(requests[i]) \/ ListGiveUp(requests[i])
        <3>1. requests # <<>>
            BY AnswerEffect
        <3> QED BY <2>1, <3>1, AnswerStays DEF ListInv, Single
    <2>2. CASE Recover(requests[i])
        BY <2>2, RecoverEffect
    <2> QED BY <2>1, <2>2 DEF ListLoadAnswer
<1>3. ASSUME ~returned, NEW j \in DOMAIN requests', ~requests'[j].old, requests'[j].url.cursor # None
      PROVE  FALSE
    <2>1. Len(requests) = 1
        BY <1>3, Remaining DEF ListInv, Single
    <2>2. Before(j, i) \in DOMAIN requests \ {i}
        BY Remaining
    <2> QED BY <2>1, <2>2, AnswerEffect
<1> QED BY <1>1, <1>2, <1>3 DEF Single

LEMMA AnswerRecovered ==
    ASSUME ListInv, NEW i \in DOMAIN requests, ListLoadAnswer(i)
    PROVE  Recovered'
<1> SUFFICES ASSUME ~returned', OnList', recoveryKeys'[Instance'] # None
             PROVE  Recovered'
    BY DEF Recovered
<1>1. /\ UNCHANGED <<url, epoch>> /\ Instance' = Instance /\ OnList /\ ListBase
      /\ requests[i].url \in ListUrl /\ epoch \in Nat /\ requests \in Seq(ListRequest)
    BY AnswerEffect DEF OnList, ListInv, ListBase, ListTypeOK
<1>2. PICK k : k = recoveryKeys'[Instance']
    OBVIOUS
<1>3. CASE ListSucceed(requests[i]) \/ ListGiveUp(requests[i])
    <2>1. UNCHANGED <<target, cursorHistory, recoveryKeys, returned>>
        BY <1>3, AnswerStays
    <2>2. /\ k.cursor.epoch < epoch
          /\ \A j \in DOMAIN requests : ListLive(requests[j]) => Since(requests[j].url.cursor, k)
          /\ target # None => Since(target.cursor, k)
          /\ \/ Turning /\ cursorHistory = <<>>
             \/ /\ Since(url.cursor, k)
                /\ \A j \in DOMAIN cursorHistory : Since(cursorHistory[j], k)
                /\ loading \/ rows = None \/ Since(rows.next, k)
        BY <1>1, <1>2, <2>1 DEF ListInv, Recovered
    <2>3. \A j \in DOMAIN requests' : ListLive(requests[j])' => Since(requests'[j].url.cursor, k)
        BY <2>2, Remaining
    <2>4. loading \/ rows = None \/ Since(rows.next, k)
          => loading' \/ rows' = None \/ Since(rows'.next, k)
        <3>1. CASE UNCHANGED <<rows, loading>>
            BY <3>1
        <3>2. CASE rows' = None
            BY <3>2
        <3>3. CASE rows' = ListAnswer(requests[i].url)
            BY <1>1, <2>2, <3>3, AnswerTyped DEF Since
        <3> QED BY <1>3, <3>1, <3>2, <3>3, AnswerStays
    <2>5. CASE Turning /\ cursorHistory = <<>>
        <3>1. Turning' /\ cursorHistory' = <<>>
            BY <1>1, <2>1, <2>5 DEF Turning
        <3> QED BY <1>1, <1>2, <2>1, <2>2, <2>3, <3>1 DEF Recovered
    <2>6. CASE /\ Since(url.cursor, k)
               /\ \A j \in DOMAIN cursorHistory : Since(cursorHistory[j], k)
               /\ loading \/ rows = None \/ Since(rows.next, k)
        <3>1. /\ Since(url'.cursor, k)
              /\ \A j \in DOMAIN cursorHistory' : Since(cursorHistory'[j], k)
              /\ loading' \/ rows' = None \/ Since(rows'.next, k)
            BY <1>1, <2>1, <2>4, <2>6
        <3> QED BY <1>1, <1>2, <2>1, <2>2, <2>3, <3>1 DEF Recovered
    <2> QED BY <2>2, <2>5, <2>6
<1>4. CASE Recover(requests[i])
    <2>1. /\ ~returned /\ ~requests[i].old /\ requests[i].url.cursor # None
          /\ target' # None /\ target'.cursor = None /\ cursorHistory' = <<>>
          /\ recoveryKeys'[Instance'] = RecoveryKey(requests[i].url)
        BY <1>4, RecoverEffect
    <2>2. k.cursor = requests[i].url.cursor
        BY <1>2, <2>1 DEF RecoveryKey, ToList
    <2>3. k.cursor.epoch < epoch
        <3>1. PICK c \in Cursor : c = requests[i].url.cursor
            BY <1>1, <2>1 DEF ListUrl
        <3>2. c # None /\ UpTo(c, epoch) /\ OfList(c, requests[i].url)
            BY <2>1, <3>1 DEF ListInv, Dated
        <3>3. c.epoch # epoch
            <4>1. c # [list |-> requests[i].url.list, query |-> requests[i].url.query,
                       page |-> c.page, epoch |-> epoch]
                BY <1>4, <3>1, <3>2 DEF Recover, Valid
            <4> QED BY <3>2, <4>1 DEF OfList, Cursor
        <3>4. c.epoch \in Nat /\ c.epoch <= epoch
            BY <3>2 DEF UpTo, Cursor
        <3> QED BY <1>1, <2>2, <3>1, <3>3, <3>4
    <2>4. Len(requests) = 1 /\ url = requests[i].url
        BY <2>1 DEF ListInv, Single
    <2>5. DOMAIN requests' = {}
        <3>1. Len(requests') = 0 /\ requests' \in Seq(ListRequest)
            BY <1>1, <2>4, AnswerEffect, AnsweredRequest
        <3> QED BY <3>1
    <2>6. Turning' /\ cursorHistory' = <<>>
        BY <1>1, <2>1, <2>4 DEF Turning
    <2> QED BY <1>1, <1>2, <2>1, <2>3, <2>5, <2>6 DEF Recovered, Since
<1> QED BY <1>3, <1>4 DEF ListLoadAnswer

LEMMA AnswerNoLoop ==
    ASSUME ListInv, NEW i \in DOMAIN requests, ListLoadAnswer(i)
    PROVE  NoLoop'
<1> DEFINE r == requests[i]
<1> SUFFICES ASSUME error' = "cursor", ~returned'
             PROVE  FALSE
    BY DEF NoLoop
<1>1. /\ r.url \in ListUrl /\ epoch \in Nat /\ None \notin Key /\ None # "cursor"
    BY AnswerEffect DEF ListInv, ListBase, ListTypeOK, EntityListAssumption
<1>2. ~returned
    <2>1. CASE ListSucceed(r) \/ ListGiveUp(r)
        BY <2>1, AnswerStays
    <2>2. CASE Recover(r)
        BY <2>2, RecoverEffect
    <2> QED BY <2>1, <2>2 DEF ListLoadAnswer
<1>3. error # "cursor"
    BY <1>2 DEF ListInv, NoLoop
<1>4. ListGiveUp(r) /\ ListLive(r) /\ ~Valid(r.url) /\ recoveryKeys[r.page] = RecoveryKey(r.url)
    BY <1>1, <1>3 DEF ListLoadAnswer, ListSucceed, Recover, ListGiveUp
<1>5. r.url.cursor \in Cursor /\ r.url.cursor # None
    BY <1>1, <1>4 DEF Valid, ListUrl
<1>6. /\ OnList /\ recoveryKeys[Instance] = RecoveryKey(r.url) /\ RecoveryKey(r.url) \in Key
      /\ RecoveryKey(r.url).cursor = r.url.cursor
    BY <1>1, <1>4, <1>5 DEF ListLive, RecoveryKey, ToList, Key, ListUrl
<1>7. Since(r.url.cursor, recoveryKeys[Instance])
    BY <1>1, <1>2, <1>4, <1>6 DEF ListInv, Recovered
<1> QED BY <1>5, <1>6, <1>7 DEF Since, Cursor

LEMMA AnswerInv ==
    ASSUME ListInv, NEW i \in DOMAIN requests, ListLoadAnswer(i)
    PROVE  ListInv'
BY AnswerEffect, AnswerPaged, AnswerSpinning, AnswerCurrent, AnswerRecent, AnswerPathed,
   AnswerGoing, AnswerDated, AnswerSingle, AnswerRecovered, AnswerNoLoop DEF ListInv

-----------------------------------------------------------------------------
(* A deletion is answered. *)

LEMMA DeletionEffect ==
    ASSUME ListInv, NEW d \in deletions, DeleteAnswer(d)
    PROVE  /\ UNCHANGED <<epoch, url, rows, loading, error, recoveryKeys, requests, behind, hasty,
                          wanted>>
           /\ deletions' = deletions \ {d} /\ ListBase' /\ d.old \in BOOLEAN
           /\ returned \in BOOLEAN
           /\ \/ UNCHANGED <<target, cursorHistory, pulled, astray, returned>>
              \/ /\ target' = ToList(url.list, d.query, None)
                 /\ target' # None /\ target'.list = url.list /\ target'.query = d.query
                 /\ target'.cursor = None
                 /\ pulled' = (pulled \/ d.old) /\ astray' = (astray \/ d.old)
                 /\ returned' = (returned \/ d.old)
                 /\ cursorHistory' = <<>> \/ cursorHistory' = cursorHistory
                 /\ ~d.old => OnList /\ cursorHistory' = <<>>
<1>1. ListBase /\ d \in Deletion
    BY DEF ListInv, ListBase, ListTypeOK
<1>2. ListBase' /\ d.old \in BOOLEAN /\ d.query \in Queries
    BY <1>1, TypeDeleteAnswer, Assumed DEF Deletion
<1>3. CASE UNCHANGED <<target, cursorHistory, pulled, astray, returned>>
    BY <1>1, <1>2, <1>3 DEF DeleteAnswer, ListBase, ListTypeOK
<1>4. CASE Redirect(d.query, d.old) /\ cursorHistory' = IF ListLive(d) THEN <<>> ELSE cursorHistory
    <2>1. target' # None /\ target'.list = url.list /\ target'.query = d.query /\ target'.cursor = None
        BY <1>1, <1>2, <1>4, Redirected
    <2>2. ~d.old => ListLive(d) /\ OnList
        BY DEF ListInv, Recent, ListLive
    <2> QED BY <1>1, <1>2, <1>4, <2>1, <2>2 DEF DeleteAnswer, Redirect, ListBase, ListTypeOK
<1> QED BY <1>3, <1>4 DEF DeleteAnswer

LEMMA DeleteAnswerInv ==
    ASSUME ListInv, NEW d \in deletions, DeleteAnswer(d)
    PROVE  ListInv'
<1>1. /\ UNCHANGED <<epoch, url, rows, loading, error, recoveryKeys, requests, behind, hasty,
                     wanted>>
      /\ deletions' = deletions \ {d} /\ ListBase' /\ d.old \in BOOLEAN /\ returned \in BOOLEAN
    BY DeletionEffect
<1>2. \/ UNCHANGED <<target, cursorHistory, pulled, astray, returned>>
      \/ /\ target' = ToList(url.list, d.query, None)
         /\ target' # None /\ target'.list = url.list /\ target'.query = d.query
         /\ target'.cursor = None
         /\ pulled' = (pulled \/ d.old) /\ astray' = (astray \/ d.old)
         /\ returned' = (returned \/ d.old)
         /\ cursorHistory' = <<>> \/ cursorHistory' = cursorHistory
         /\ ~d.old => OnList /\ cursorHistory' = <<>>
    BY DeletionEffect
<1>3. ListPaged' /\ Spinning'
    BY <1>1 DEF ListInv, ListPaged, Spinning, ListLive, OnList, Instance
<1>4. ListCurrent'
    <2>1. Turning => Turning'
        BY <1>1, <1>2 DEF Turning
    <2> QED BY <1>1, <2>1 DEF ListInv, ListCurrent, ListLive, OnList, Instance, RowsRight
<1>5. Recent'
    <2>1. Stays => Stays'
        BY <1>1, <1>2 DEF Stays
    <2> QED BY <1>1, <2>1 DEF ListInv, Recent, ListLive, OnList, Instance
<1>6. \A j \in DOMAIN cursorHistory' :
        j \in DOMAIN cursorHistory /\ cursorHistory'[j] = cursorHistory[j]
    <2>1. CASE cursorHistory' = <<>>
        <3>1. DOMAIN cursorHistory' = {}
            BY <2>1
        <3> QED BY <3>1
    <2> QED BY <1>2, <2>1
<1>7. Pathed'
    <2>1. CASE UNCHANGED <<target, cursorHistory, pulled, astray, returned>>
        BY <1>1, <2>1 DEF ListInv, Pathed, OnList
    <2>2. CASE ~astray' => /\ OnList /\ target' # None /\ target'.list = url.list
                           /\ target'.cursor = None /\ cursorHistory' = <<>>
        <3>1. ~astray' => Path(cursorHistory', target')
            BY <2>2 DEF Path, OfList, PageOf
        <3> QED BY <1>1, <2>2, <3>1 DEF ListInv, Pathed, OnList
    <2> QED BY <1>2, <2>1, <2>2
<1>8. Going'
    <2>1. FirstPage(wanted)' = FirstPage(wanted)
        BY <1>1 DEF FirstPage, ToList
    <2>2. ASSUME ~pulled'
          PROVE  ~pulled /\ Leading' \in {wanted, FirstPage(wanted)}
        <3>1. CASE UNCHANGED <<target, cursorHistory, pulled, astray, returned>>
            BY <1>1, <2>2, <3>1 DEF ListInv, Going, Leading
        <3>2. CASE /\ target' = ToList(url.list, d.query, None) /\ target' # None
                   /\ pulled' = (pulled \/ d.old)
            <4>1. ~pulled /\ ~d.old
                BY <2>2, <3>2
            <4>2. d.query = wanted.query /\ url.list = wanted.list
                BY <4>1 DEF ListInv, Going
            <4> QED BY <3>2, <4>1, <4>2 DEF Leading, FirstPage
        <3> QED BY <1>2, <3>1, <3>2
    <2> QED BY <1>1, <2>1, <2>2 DEF ListInv, Going
<1>9. Dated'
    <2>1. ASSUME ~returned'
          PROVE  ~returned /\ (target' # None => UpTo(target'.cursor, epoch)
                                                /\ OfList(target'.cursor, target'))
        BY <1>1, <1>2, <2>1 DEF ListInv, Dated, UpTo, OfList
    <2> QED BY <1>1, <1>6, <2>1 DEF ListInv, Dated, OnList
<1>10. Single'
    <2>1. ASSUME ~returned'
          PROVE  /\ ~returned
                 /\ \/ target' = target
                    \/ target'.cursor = None /\ ~d.old
        BY <1>1, <1>2, <2>1
    <2> QED BY <1>1, <2>1 DEF ListInv, Single, OnList
<1>11. Recovered'
    <2> SUFFICES ASSUME ~returned', OnList', recoveryKeys'[Instance'] # None
                 PROVE  Recovered'
        BY DEF Recovered
    <2>1. PICK k : k = recoveryKeys[Instance]
        OBVIOUS
    <2>2. ~returned /\ (target' = target \/ (target' # None /\ target'.cursor = None))
          /\ k = recoveryKeys'[Instance'] /\ OnList /\ k # None
        BY <1>1, <1>2, <2>1 DEF Instance, OnList
    <2>3. /\ k.cursor.epoch < epoch
          /\ \A j \in DOMAIN requests : ListLive(requests[j]) => Since(requests[j].url.cursor, k)
          /\ target # None => Since(target.cursor, k)
          /\ \/ Turning /\ cursorHistory = <<>>
             \/ /\ Since(url.cursor, k)
                /\ \A j \in DOMAIN cursorHistory : Since(cursorHistory[j], k)
                /\ loading \/ rows = None \/ Since(rows.next, k)
        BY <2>1, <2>2 DEF ListInv, Recovered
    <2>4. \A j \in DOMAIN requests' : ListLive(requests[j])' => Since(requests'[j].url.cursor, k)
        BY <1>1, <2>3 DEF ListLive, OnList, Instance
    <2>5. target' # None => Since(target'.cursor, k)
        BY <2>2, <2>3 DEF Since
    <2>6. CASE Turning /\ cursorHistory = <<>>
        <3>1. Turning' /\ cursorHistory' = <<>>
            BY <1>1, <1>2, <2>6 DEF Turning
        <3> QED BY <1>1, <2>2, <2>3, <2>4, <2>5, <3>1 DEF Recovered
    <2>7. CASE /\ Since(url.cursor, k)
               /\ \A j \in DOMAIN cursorHistory : Since(cursorHistory[j], k)
               /\ loading \/ rows = None \/ Since(rows.next, k)
        <3>1. /\ Since(url'.cursor, k)
              /\ \A j \in DOMAIN cursorHistory' : Since(cursorHistory'[j], k)
              /\ loading' \/ rows' = None \/ Since(rows'.next, k)
            BY <1>1, <1>6, <2>7
        <3> QED BY <1>1, <2>2, <2>3, <2>4, <2>5, <3>1 DEF Recovered
    <2> QED BY <2>3, <2>6, <2>7
<1>12. NoLoop'
    BY <1>1, <1>2 DEF ListInv, NoLoop
<1> QED BY <1>1, <1>3, <1>4, <1>5, <1>7, <1>8, <1>9, <1>10, <1>11, <1>12 DEF ListInv

-----------------------------------------------------------------------------
(* The list of an entity. *)

LEMMA ListStarts == EntityListAssumption /\ ListInit => ListInv
<1> SUFFICES ASSUME EntityListAssumption, ListInit PROVE ListInv
    OBVIOUS
<1>1. PICK l \in Lists \cup {Elsewhere} :
        url = ToList(Elsewhere, Plain, None) /\ target = ToList(l, Plain, None)
    BY DEF ListInit
<1>2. /\ url \in Url /\ url.list = Elsewhere /\ url.cursor = None
      /\ target \in Url /\ target.list = l /\ target.cursor = None /\ target # None
    BY <1>1, Listed DEF EntityListAssumption
<1>3. /\ rows = None /\ loading = FALSE /\ error = None /\ cursorHistory = <<>>
      /\ recoveryKeys = <<>> /\ requests = <<>> /\ deletions = {}
      /\ behind = FALSE /\ hasty = FALSE /\ astray = FALSE /\ pulled = FALSE
      /\ returned = FALSE /\ wanted = target /\ acts = 0 /\ faults = 0
      /\ epoch = 0 /\ visited = {url} /\ ~OnList
    BY <1>2 DEF ListInit, OnList
<1>4. DOMAIN requests = {}
    BY <1>3
<1>5. ListBase
    <2>1. /\ cursorHistory \in Seq(Cursor \cup {None}) /\ requests \in Seq(ListRequest)
          /\ recoveryKeys \in Seq(Key \cup {None})
        BY <1>3, EmptySeq
    <2>2. acts \in 0 .. MaxActs /\ faults \in 0 .. MaxFaults
        BY <1>3 DEF EntityListAssumption
    <2> QED BY <1>2, <1>3, <2>1, <2>2 DEF ListBase, ListTypeOK
<1>6. ListPaged /\ Spinning /\ ListCurrent /\ Recent
    BY <1>3, <1>4 DEF ListPaged, Spinning, ListCurrent, Recent, ListLive
<1>7. Pathed /\ Going /\ Single /\ Recovered
    BY <1>2, <1>3, <1>4 DEF Pathed, Going, Leading, Single, Recovered
<1>8. Dated
    BY <1>2, <1>3, <1>4 DEF Dated, UpTo, OfList
<1>9. NoLoop
    BY <1>3 DEF NoLoop, EntityListAssumption
<1> QED BY <1>5, <1>6, <1>7, <1>8, <1>9 DEF ListInv

LEMMA ListStep == ListInv /\ [ListNext]_listVars => ListInv'
<1> SUFFICES ASSUME ListInv, [ListNext]_listVars PROVE ListInv'
    OBVIOUS
<1>1. CASE UNCHANGED listVars
    <2>1. /\ UNCHANGED <<url, target, rows, loading, error, cursorHistory, recoveryKeys, requests,
                         behind, hasty, astray, pulled, returned, wanted>>
          /\ UNCHANGED <<epoch, deletions>>
        BY <1>1 DEF listVars, listPage, listHistory
    <2>2. ListBase'
        BY ListTypeStep, Assumed DEF ListInv
    <2>3. Spinning' /\ ListCurrent' /\ Pathed' /\ NoLoop'
        BY <2>1, Unmoved
    <2>4. ListPaged' /\ Recent' /\ Single'
        BY <2>1 DEF ListInv, ListPaged, Recent, Single, ListLive, OnList, Instance, Stays
    <2>5. Going'
        BY <2>1 DEF ListInv, Going, Leading, FirstPage, ToList
    <2>6. Dated' /\ Recovered'
        BY <2>1 DEF ListInv, Dated, Recovered, ListLive, OnList, Instance, Turning
    <2> QED BY <2>2, <2>3, <2>4, <2>5, <2>6 DEF ListInv
<1> QED BY <1>1, GoesInv, DeleteInv, ExpireInv, ArriveInv, AnswerInv, DeleteAnswerInv DEF ListNext

LEMMA ListHolds == ListInv => RowsMatch /\ HistoryLeads /\ UserArrives
<1> SUFFICES ASSUME ListInv PROVE RowsMatch /\ HistoryLeads /\ UserArrives
    OBVIOUS
<1>1. RowsMatch
    BY DEF ListInv, RowsMatch, ListQuiet, Spinning, ListCurrent, RowsRight, Turning
<1>2. HistoryLeads
    BY DEF ListInv, HistoryLeads, Pathed, Path, OfList
<1>3. UserArrives
    BY DEF ListInv, UserArrives, Going, Leading, FirstPage, NoLoop
<1> QED BY <1>1, <1>2, <1>3

-----------------------------------------------------------------------------
(* EntityRecord. *)

\* A component asks and writes as long as it is there.
RecordPaged ==
    /\ \A i \in DOMAIN loads : loads[i].page <= instance
    /\ \A w \in writes : w.page <= instance

\* A form sends saves, a page of details the rest, and the page is still of that kind.
Sent ==
    \A w \in writes :
        /\ Component(w.route) = IF w.kind = "save" THEN "form" ELSE "detail"
        /\ RecordLive(w) => Component(w.route) = Component(url)

\* The button of a form is disabled while its save is under way.
Held == \A w \in writes : w.kind = "save" /\ w.page = instance => submitting

\* What is shown without a spinner is of the record of the route.
Seen == OnPage /\ ~foreign /\ ~loading /\ shown # None => shown.record = url.record

\* A load whose answer will do.
Fits(r) ==
    \/ r.late
    \/ r.route = url /\ (url.kind = "detail" => r.since >= written[url.record])

\* The last load of the page, or what it left, will do.
RecordCurrent ==
    /\ \A r \in Records : written[r] <= versions[r]
    /\ \A i \in DOMAIN loads :
         RecordLive(loads[i]) /\ (\A j \in DOMAIN loads : j > i => ~RecordLive(loads[j])) => Fits(loads[i])
    /\ OnPage /\ (\A i \in DOMAIN loads : ~RecordLive(loads[i])) /\ ~behind /\ ~error =>
        /\ shown # None /\ shown.record = url.record
        /\ url.kind = "detail" => shown.version >= written[shown.record]

RecordBase == RecordTypeOK /\ Sent /\ EntityRecordAssumption

-----------------------------------------------------------------------------
(* Loads. *)

LEMMA AnsweredLoads ==
    ASSUME loads \in Seq(RecordLoad), NEW i \in DOMAIN loads, loads' = RecordAnswered(i)
    PROVE  /\ loads' \in Seq(RecordLoad) /\ Len(loads') = Len(loads) - 1
           /\ \A j \in DOMAIN loads' :
                /\ Before(j, i) \in DOMAIN loads \ {i}
                /\ loads'[j] = IF j < i THEN [loads[j] EXCEPT !.late = TRUE] ELSE loads[j + 1]
           /\ \A k \in DOMAIN loads \ {i} : \E j \in DOMAIN loads' : k = Before(j, i)
<1> DEFINE s == [j \in DOMAIN loads |->
                  IF j < i THEN [loads[j] EXCEPT !.late = TRUE] ELSE loads[j]]
<1>1. s \in Seq(RecordLoad) /\ Len(s) = Len(loads) /\ DOMAIN s = DOMAIN loads
    <2>1. ASSUME NEW j \in DOMAIN loads PROVE s[j] \in RecordLoad
        <3>1. loads[j] \in RecordLoad
            OBVIOUS
        <3>2. [loads[j] EXCEPT !.late = TRUE] \in RecordLoad
            BY <3>1 DEF RecordLoad
        <3> QED BY <3>1, <3>2
    <2> QED BY <2>1
<1>2. loads' = RemoveAt(s, i)
    BY DEF RecordAnswered
<1>3. \A j \in DOMAIN loads :
        s[j] = IF j < i THEN [loads[j] EXCEPT !.late = TRUE] ELSE loads[j]
    OBVIOUS
<1> HIDE DEF s
<1>4. i \in 1 .. Len(s) /\ Len(loads) \in Nat
    BY <1>1
<1>5. /\ loads' \in Seq(RecordLoad) /\ Len(loads') = Len(loads) - 1
      /\ \A j \in 1 .. Len(loads) - 1 : loads'[j] = IF j < i THEN s[j] ELSE s[j + 1]
    BY <1>1, <1>2, <1>4, Removing
<1>6. DOMAIN loads' = 1 .. Len(loads) - 1 /\ DOMAIN loads = 1 .. Len(loads)
    BY <1>5
<1>7. ASSUME NEW j \in DOMAIN loads'
      PROVE  /\ Before(j, i) \in DOMAIN loads \ {i}
             /\ loads'[j] = IF j < i THEN [loads[j] EXCEPT !.late = TRUE] ELSE loads[j + 1]
    <2>1. Before(j, i) \in DOMAIN loads \ {i}
        BY <1>4, <1>6 DEF Before
    <2>2. loads'[j] = IF j < i THEN s[j] ELSE s[j + 1]
        BY <1>5, <1>6
    <2>3. CASE j < i
        BY <1>3, <2>1, <2>2, <2>3 DEF Before
    <2>4. CASE ~(j < i)
        <3>1. ~(j + 1 < i)
            BY <1>4, <1>6, <2>4
        <3> QED BY <1>3, <2>1, <2>2, <2>4, <3>1 DEF Before
    <2> QED BY <2>1, <2>3, <2>4
<1>8. ASSUME NEW k \in DOMAIN loads \ {i}
      PROVE  \E j \in DOMAIN loads' : k = Before(j, i)
    <2>1. CASE k < i
        BY <1>4, <1>6, <2>1 DEF Before
    <2>2. CASE k > i
        <3>1. k - 1 \in DOMAIN loads' /\ k = Before(k - 1, i)
            BY <1>4, <1>6, <2>2 DEF Before
        <3> QED BY <3>1
    <2> QED BY <1>4, <1>6, <2>1, <2>2
<1> QED BY <1>5, <1>7, <1>8

-----------------------------------------------------------------------------
(* Types. *)

LEMMA LoadAsked ==
    ASSUME RecordBase, NEW u \in Route, NEW n \in Pages, NEW e \in BOOLEAN
    PROVE  RecordAsked(u, n, e) \in RecordLoad
<1>1. Version(u) \in Nat
    BY DEF RecordBase, RecordTypeOK, Version, Route, List, Blank, Detail, Edit, EntityRecordAssumption
<1> QED BY <1>1 DEF RecordAsked, RecordLoad

\* Appending a load to the others.
LEMMA LoadAppended ==
    ASSUME loads \in Seq(RecordLoad), NEW x \in RecordLoad, loads' = Append(loads, x)
    PROVE  /\ loads' \in Seq(RecordLoad) /\ DOMAIN loads' = 1 .. Len(loads) + 1
           /\ DOMAIN loads = 1 .. Len(loads) /\ Len(loads) \in Nat
           /\ loads'[Len(loads) + 1] = x
           /\ \A j \in DOMAIN loads : loads'[j] = loads[j]
OBVIOUS

\* The loads that are left are as they were, and late before the one answered.
LEMMA LoadLeft ==
    ASSUME loads \in Seq(RecordLoad), NEW i \in DOMAIN loads, loads' = RecordAnswered(i),
           NEW j \in DOMAIN loads'
    PROVE  /\ Before(j, i) \in DOMAIN loads \ {i}
           /\ loads'[j].page = loads[Before(j, i)].page
           /\ loads'[j].route = loads[Before(j, i)].route
           /\ loads'[j].since = loads[Before(j, i)].since
           /\ loads'[j].ends = loads[Before(j, i)].ends
           /\ loads'[j].late = (j < i \/ loads[Before(j, i)].late)
<1>1. /\ Before(j, i) \in DOMAIN loads \ {i}
      /\ loads'[j] = IF j < i THEN [loads[j] EXCEPT !.late = TRUE] ELSE loads[j + 1]
    BY AnsweredLoads
<1>2. loads[Before(j, i)] \in RecordLoad
    BY <1>1
<1>3. CASE j < i
    BY <1>1, <1>2, <1>3 DEF Before, RecordLoad
<1>4. CASE ~(j < i)
    BY <1>1, <1>2, <1>4 DEF Before, RecordLoad
<1> QED BY <1>3, <1>4

LEMMA TypeRecordArrive ==
    ASSUME RecordBase, RecordArrive
    PROVE  RecordTypeOK'
<1> USE DEF RecordBase
<1>1. target \in Route /\ target # None /\ instance + 1 \in Pages
    BY DEF RecordArrive, RecordTypeOK, Pages
<1>2. /\ loads' \in Seq(RecordLoad) /\ instance' \in Pages /\ shown' \in Values \cup {None}
      /\ {loading, error, submitting, deleting, updating}' \subseteq BOOLEAN
    <2>1. CASE target = List
        BY <2>1 DEF RecordArrive, RecordTypeOK, recordPage, flags
    <2>2. CASE target # List /\ Component(target) = Component(url)
        <3>1. RecordAsked(target, instance, FALSE) \in RecordLoad
            BY <1>1, LoadAsked DEF RecordTypeOK
        <3>2. RecordRenew
            BY <2>2 DEF RecordArrive
        <3> QED BY <3>1, <3>2, LoadAppended DEF RecordRenew, RecordTypeOK, flags
    <2>3. CASE target # List /\ Component(target) # Component(url)
        <3>1. RecordAsked(target, instance + 1, FALSE) \in RecordLoad
            BY <1>1, LoadAsked
        <3>2. RecordOpen
            BY <2>3 DEF RecordArrive
        <3> QED BY <1>1, <3>1, <3>2, LoadAppended DEF RecordOpen, RecordTypeOK
    <2> QED BY <2>1, <2>2, <2>3
<1> QED BY <1>1, <1>2 DEF RecordArrive, RecordTypeOK

LEMMA TypeSend ==
    ASSUME RecordBase, SelectStatus \/ RecordDelete \/ Submit
    PROVE  RecordTypeOK'
<1> USE DEF RecordBase
<1>1. acts' \in 0 .. MaxActs /\ faults' = faults
    BY DEF SelectStatus, RecordDelete, Submit, Sends, Acts, RecordTypeOK, EntityRecordAssumption
<1>2. shown \in Values
    BY DEF SelectStatus, RecordDelete, Submit, RecordShown, RecordTypeOK
<1>3. \A kind \in {"path", "save", "delete"} :
        [kind |-> kind, route |-> url, page |-> instance, id |-> acts',
         seen |-> shown.record, excused |-> foreign] \in Write
    BY <1>1, <1>2 DEF Write, Values, RecordTypeOK
<1>4. writes' \subseteq Write
    BY <1>3 DEF SelectStatus, RecordDelete, Submit, Sends, RecordTypeOK
<1>5. {submitting, deleting, updating}' \subseteq BOOLEAN
    BY DEF SelectStatus, RecordDelete, Submit, RecordTypeOK
<1>6. UNCHANGED <<versions, exists, url, target, instance, shown, loading, error, loads,
                  recordHistory>>
    BY DEF SelectStatus, RecordDelete, Submit, Sends
<1> QED BY <1>1, <1>4, <1>5, <1>6 DEF RecordTypeOK, recordHistory

LEMMA TypeRecordAnswer ==
    ASSUME RecordBase, NEW i \in DOMAIN loads, RecordLoadAnswer(i)
    PROVE  RecordTypeOK'
<1> USE DEF RecordBase
<1>1. loads' \in Seq(RecordLoad)
    BY AnsweredLoads DEF RecordLoadAnswer, RecordTypeOK
<1>2. loads[i] \in RecordLoad
    BY DEF RecordTypeOK
<1>3. faults' \in 0 .. MaxFaults /\ acts' = acts
    BY DEF RecordLoadAnswer, RecordSucceed, RecordGiveUp, Fails, Works, RecordTypeOK,
           EntityRecordAssumption
<1>4. shown' \in Values \cup {None} /\ error' \in BOOLEAN
    <2>1. CASE RecordSucceed(loads[i])
        <3>1. ASSUME NEW v \in loads[i].since .. Version(loads[i].route)
              PROVE  [record |-> loads[i].route.record, version |-> v] \in Values
            <4>1. loads[i].since \in Nat /\ loads[i].route \in Route
                BY <1>2 DEF RecordLoad
            <4>2. v \in Nat
                <5>1. Version(loads[i].route) \in Nat
                    BY <4>1 DEF RecordTypeOK, Version, Route, List, Blank, Detail, Edit
                <5> QED BY <4>1, <5>1
            <4>3. loads[i].route.record \in Records \cup {None}
                BY <4>1 DEF Route, List, Blank, Detail, Edit
            <4> QED BY <4>2, <4>3 DEF Values
        <3> QED BY <2>1, <3>1 DEF RecordSucceed, RecordTypeOK
    <2>2. CASE RecordGiveUp(loads[i])
        BY <2>2 DEF RecordGiveUp, RecordTypeOK
    <2> QED BY <2>1, <2>2 DEF RecordLoadAnswer
<1>5. loading' \in BOOLEAN /\ behind' \in BOOLEAN /\ foreign' \in BOOLEAN
    BY <1>2 DEF RecordLoadAnswer, RecordTypeOK, RecordLoad
<1> QED BY <1>1, <1>3, <1>4, <1>5 DEF RecordLoadAnswer, RecordTypeOK

\* What a lost answer leaves on the server is a later version of the record or one more.
LEMMA ReachedGrows ==
    ASSUME RecordBase, NEW w \in writes, MayHaveReached(w)
    PROVE  /\ versions' \in [Records -> Nat] /\ exists' \subseteq Records
           /\ \A q \in Records : versions'[q] >= versions[q]
<1>1. versions \in [Records -> Nat] /\ exists \subseteq Records /\ w \in Write
    BY DEF RecordBase, RecordTypeOK
<1>2. CASE UNCHANGED <<versions, exists>>
    BY <1>1, <1>2
<1>3. CASE w.kind = "delete" /\ exists' = exists \ {w.route.record} /\ UNCHANGED versions
    BY <1>1, <1>3
<1>4. ASSUME w.kind # "delete", NEW r \in Written(w),
             versions' = [versions EXCEPT ![r] = @ + 1], exists' = exists \cup {r}
      PROVE  /\ versions' \in [Records -> Nat] /\ exists' \subseteq Records
             /\ \A q \in Records : versions'[q] >= versions[q]
    <2>1. r \in Records
        BY <1>1, <1>4 DEF Written, RecordBase, Sent, Component, Write, Route, List, Blank, Detail, Edit
    <2> QED BY <1>1, <1>4, <2>1
<1> QED BY <1>2, <1>3, <1>4 DEF MayHaveReached

LEMMA TypeWriteAnswer ==
    ASSUME RecordBase, NEW w \in writes, WriteAnswer(w)
    PROVE  RecordTypeOK'
<1> USE DEF RecordBase
<1>1. w \in Write
    BY DEF RecordTypeOK
<1>2. writes' \subseteq Write /\ faults' \in 0 .. MaxFaults /\ acts' = acts
    BY DEF WriteAnswer, Fails, Works, RecordTypeOK, EntityRecordAssumption
<1>3. ASSUME NEW r \in Records, Stores(w, r)
      PROVE  versions' \in [Records -> Nat] /\ written' \in [Records -> Nat]
    <2>1. versions[r] + 1 \in Nat
        BY DEF RecordTypeOK
    <2> QED BY <1>3, <2>1 DEF Stores, RecordTypeOK
<1>4. w.route # Blank /\ w.route # List => w.route.record \in Records
    BY <1>1 DEF Write, Route, List, Blank, Detail, Edit
<1>5. CASE w.kind = "path" /\ StatusSaved(w) /\ UNCHANGED error
    <2>1. w.route.record \in Records
        BY <1>4, <1>5 DEF Sent, Component, List, Blank
    <2>2. versions' \in [Records -> Nat] /\ written' \in [Records -> Nat]
        BY <1>3, <1>5, <2>1 DEF StatusSaved
    <2>3. loads' \in Seq(RecordLoad)
        <3>1. RecordAsked(w.route, w.page, TRUE) \in RecordLoad
            BY <1>1, LoadAsked DEF Write
        <3>2. versions'[w.route.record] \in Nat
            BY <2>1, <2>2
        <3>3. [RecordAsked(w.route, w.page, TRUE) EXCEPT !.since = versions'[w.route.record]] \in RecordLoad
            BY <3>1, <3>2 DEF RecordLoad
        <3> QED BY <1>5, <3>3, LoadAppended DEF StatusSaved, RecordTypeOK
    <2>4. loading' \in BOOLEAN /\ UNCHANGED <<exists, target, flags>>
        BY <1>5 DEF StatusSaved
    <2> QED BY <1>2, <1>5, <2>2, <2>3, <2>4 DEF WriteAnswer, RecordTypeOK, flags
<1>6. CASE w.kind = "save" /\ Saved(w) /\ UNCHANGED error
    <2>1. PICK r \in Written(w) :
            Stores(w, r) /\ exists' = exists \cup {r} /\ target' = Detail(r)
        BY <1>6 DEF Saved
    <2>2. r \in Records
        BY <1>4, <1>6, <2>1 DEF Written, Sent, Component, List
    <2>3. versions' \in [Records -> Nat] /\ written' \in [Records -> Nat]
        BY <1>3, <2>1, <2>2
    <2>4. exists' \subseteq Records /\ target' \in Route
        BY <2>1, <2>2 DEF RecordTypeOK, Route
    <2>5. submitting' \in BOOLEAN /\ UNCHANGED <<loading, deleting, updating, loads>>
        BY <1>6 DEF Saved
    <2> QED BY <1>2, <1>6, <2>3, <2>4, <2>5 DEF WriteAnswer, RecordTypeOK
<1>7. CASE w.kind = "delete" /\ Deleted(w) /\ UNCHANGED error
    <2>1. exists' \subseteq Records /\ target' \in Route /\ deleting' \in BOOLEAN
        BY <1>7 DEF Deleted, RecordTypeOK, Route
    <2> QED BY <1>2, <1>7, <2>1 DEF Deleted, WriteAnswer, RecordTypeOK
<1>8. CASE WriteFailed(w)
    <2>1. {error, submitting, deleting, updating}' \subseteq BOOLEAN
        BY <1>8 DEF WriteFailed
    <2>2. versions' \in [Records -> Nat] /\ exists' \subseteq Records
        BY <1>8, ReachedGrows DEF WriteFailed
    <2> QED BY <1>2, <1>8, <2>1, <2>2 DEF WriteFailed, WriteAnswer, RecordTypeOK
<1> QED BY <1>5, <1>6, <1>7, <1>8 DEF WriteAnswer

LEMMA RecordTypeStep ==
    ASSUME RecordBase, [RecordNext]_recordVars
    PROVE  RecordTypeOK'
<1>1. ASSUME NEW u \in Route, RecordFollow(u) PROVE RecordTypeOK'
    <2>1. acts' \in 0 .. MaxActs /\ faults' = faults
        BY <1>1 DEF RecordFollow, Acts, RecordBase, RecordTypeOK, EntityRecordAssumption
    <2> QED BY <1>1, <2>1 DEF RecordFollow, RecordBase, RecordTypeOK, recordPage, flags, recordHistory
<1>2. CASE UNCHANGED recordVars
    BY <1>2 DEF recordVars, recordPage, flags, recordHistory, RecordBase, RecordTypeOK
<1> QED
    BY <1>1, <1>2, TypeSend, TypeRecordArrive, TypeRecordAnswer, TypeWriteAnswer DEF RecordNext

-----------------------------------------------------------------------------
(* Who sends, and who asks. *)

\* Where the browser goes.
LEMMA Moving ==
    ASSUME RecordBase, [RecordNext]_recordVars
    PROVE  \/ url' = url /\ instance' = instance
           \/ RecordArrive
BY DEF RecordNext, RecordFollow, SelectStatus, RecordDelete, Submit, Sends, RecordLoadAnswer, WriteAnswer, recordVars, recordPage

\* A component lives on when its route only changes its record.
LEMMA Arrival ==
    ASSUME RecordBase, RecordArrive
    PROVE  /\ url' = target /\ target \in Route
           /\ \/ target = List /\ ~OnPage' /\ UNCHANGED <<recordPage, loads>>
              \/ target # List /\ OnPage /\ Component(target) = Component(url) /\ RecordRenew
              \/ target # List /\ Component(target) # Component(url) /\ RecordOpen
<1>1. url' = target /\ target \in Route
    BY DEF RecordBase, RecordTypeOK, RecordArrive
<1>2. target = List => ~OnPage'
    BY <1>1 DEF OnPage, List
<1>3. target # List /\ Component(target) = Component(url) => OnPage
    BY <1>1 DEF Component, OnPage, Route, Blank, Detail, Edit, List
<1> QED BY <1>1, <1>2, <1>3 DEF RecordArrive

\* The load a route asks for.
LEMMA Renewed ==
    ASSUME RecordBase, RecordArrive, RecordRenew, target \in Route
    PROVE  \/ UNCHANGED <<recordPage, loads>> /\ target.record = url.record
           \/ /\ loading' /\ UNCHANGED <<instance, shown, error, flags>>
              /\ \E x \in RecordLoad :
                    /\ loads' = Append(loads, x)
                    /\ x.page = instance /\ x.route = target /\ ~x.late
                    /\ x.since = Version(target)
<1>1. RecordAsked(target, instance, FALSE) \in RecordLoad
    BY LoadAsked DEF RecordBase, RecordTypeOK
<1>2. UNCHANGED <<loading, loads>> => UNCHANGED <<recordPage, loads>>
    BY DEF RecordRenew, recordPage
<1> QED BY <1>1, <1>2 DEF RecordRenew, RecordReloads, RecordAsked

LEMMA Opened ==
    ASSUME RecordBase, RecordOpen, target \in Route
    PROVE  /\ instance' = instance + 1 /\ instance' \in Nat /\ loading' /\ shown' = None
           /\ ~submitting' /\ ~deleting' /\ ~updating'
           /\ \E x \in RecordLoad :
                /\ loads' = Append(loads, x)
                /\ x.page = instance' /\ x.route = target /\ ~x.late
                /\ x.since = Version(target)
<1>1. instance + 1 \in Pages
    BY DEF RecordBase, RecordTypeOK, Pages
<1>2. RecordAsked(target, instance + 1, FALSE) \in RecordLoad
    BY <1>1, LoadAsked
<1> QED BY <1>1, <1>2 DEF RecordOpen, RecordAsked, Pages

LEMMA AskedAgain ==
    ASSUME RecordBase, NEW w \in writes, w.kind = "path", StatusSaved(w)
    PROVE  /\ w.route.record \in Records
           /\ \E x \in RecordLoad :
                /\ loads' = Append(loads, x)
                /\ x.page = w.page /\ x.route = w.route /\ x.ends
                /\ x.late = (w.route # url)
                /\ x.since = versions[w.route.record] + 1
<1> DEFINE x == [RecordAsked(w.route, w.page, TRUE) EXCEPT !.since = versions'[w.route.record]]
<1>1. w \in Write
    BY DEF RecordBase, RecordTypeOK
<1>2. w.route.record \in Records
    BY <1>1 DEF RecordBase, Sent, Component, Write, Route, List, Blank, Detail, Edit
<1>3. versions'[w.route.record] = versions[w.route.record] + 1 /\ versions[w.route.record] + 1 \in Nat
    BY <1>2 DEF StatusSaved, Stores, RecordBase, RecordTypeOK
<1>4. RecordAsked(w.route, w.page, TRUE) \in RecordLoad
    BY <1>1, LoadAsked DEF Write
<1>5. x \in RecordLoad
    BY <1>3, <1>4 DEF RecordLoad
<1>6. /\ x.page = w.page /\ x.route = w.route /\ x.ends
      /\ x.late = (w.route # url) /\ x.since = versions[w.route.record] + 1
    BY <1>3 DEF RecordAsked
<1>7. loads' = Append(loads, x)
    BY DEF StatusSaved
<1> QED BY <1>2, <1>5, <1>6, <1>7

\* Whose pages, and since when, are numbers.
LEMMA Numbers ==
    ASSUME RecordBase
    PROVE  /\ instance \in Nat
           /\ \A j \in DOMAIN loads : loads[j] \in RecordLoad /\ loads[j].page \in Nat
                                      /\ loads[j].since \in Nat /\ loads[j].late \in BOOLEAN
           /\ \A w \in writes : w.page \in Nat
<1>1. \A j \in DOMAIN loads : loads[j] \in RecordLoad
    BY DEF RecordBase, RecordTypeOK
<1>2. \A w \in writes : w \in Write
    BY DEF RecordBase, RecordTypeOK
<1> QED BY <1>1, <1>2 DEF RecordBase, RecordTypeOK, RecordLoad, Write, Pages

LEMMA PagedStep ==
    ASSUME RecordBase, RecordPaged, [RecordNext]_recordVars
    PROVE  RecordPaged'
<1> USE DEF RecordBase
<1>0. loads \in Seq(RecordLoad)
    BY DEF RecordTypeOK
<1>1. ASSUME NEW u \in Route, RecordFollow(u) PROVE RecordPaged'
    BY <1>1 DEF RecordFollow, RecordPaged, recordPage
<1>2. CASE SelectStatus \/ RecordDelete \/ Submit
    <2>1. UNCHANGED <<instance, loads>> /\ \A w \in writes' : w \in writes \/ w.page = instance
        BY <1>2 DEF SelectStatus, RecordDelete, Submit, Sends
    <2> QED BY <2>1, Numbers DEF RecordPaged
<1>3. CASE RecordArrive
    <2>1. CASE UNCHANGED <<recordPage, loads>>
        BY <1>3, <2>1 DEF RecordArrive, RecordPaged, recordPage
    <2>2. ASSUME NEW n \in Nat, instance' = n, n = instance \/ n = instance + 1,
                 NEW x \in RecordLoad, loads' = Append(loads, x), x.page = n
          PROVE  RecordPaged'
        <3>1. \A j \in DOMAIN loads' : loads'[j].page <= n
            <4>1. \A j \in DOMAIN loads : loads[j].page <= n
                BY <2>2, Numbers DEF RecordPaged
            <4> QED BY <1>0, <2>2, <4>1, LoadAppended
        <3>2. \A w \in writes : w.page <= n
            BY <2>2, Numbers DEF RecordPaged
        <3> QED BY <1>3, <2>2, <3>1, <3>2 DEF RecordArrive, RecordPaged
    <2>3. CASE RecordRenew
        BY <1>3, <2>1, <2>2, <2>3, Arrival, Renewed, Numbers
    <2>4. CASE RecordOpen
        BY <1>3, <2>2, <2>4, Arrival, Opened, Numbers
    <2> QED BY <1>3, <2>1, <2>3, <2>4, Arrival
<1>4. ASSUME NEW i \in DOMAIN loads, RecordLoadAnswer(i) PROVE RecordPaged'
    <2>1. \A j \in DOMAIN loads' : loads'[j].page = loads[Before(j, i)].page
                                   /\ Before(j, i) \in DOMAIN loads
        BY <1>0, <1>4, LoadLeft DEF RecordLoadAnswer
    <2> QED BY <1>4, <2>1 DEF RecordLoadAnswer, RecordPaged
<1>5. ASSUME NEW w \in writes, WriteAnswer(w) PROVE RecordPaged'
    <2>1. \A j \in DOMAIN loads' : loads'[j].page <= instance
        <3>1. CASE w.kind = "path" /\ StatusSaved(w)
            BY <1>0, <3>1, AskedAgain, LoadAppended DEF RecordPaged
        <3>2. CASE loads' = loads
            BY <3>2 DEF RecordPaged
        <3> QED BY <1>5, <3>1, <3>2 DEF WriteAnswer, Saved, Deleted, WriteFailed
    <2> QED BY <1>5, <2>1 DEF WriteAnswer, RecordPaged
<1>6. CASE UNCHANGED recordVars
    BY <1>6 DEF recordVars, recordPage, RecordPaged
<1> QED BY <1>1, <1>2, <1>3, <1>4, <1>5, <1>6 DEF RecordNext

LEMMA SentStep ==
    ASSUME RecordBase, RecordPaged, [RecordNext]_recordVars
    PROVE  Sent'
<1> USE DEF RecordBase
<1>1. ASSUME NEW u \in Route, RecordFollow(u) PROVE Sent'
    BY <1>1 DEF RecordFollow, Sent, RecordLive, OnPage, recordPage
<1>2. CASE SelectStatus \/ RecordDelete \/ Submit
    <2>1. UNCHANGED <<url, instance>>
        BY <1>2 DEF SelectStatus, RecordDelete, Submit, Sends
    <2>2. \A w \in writes' :
            \/ w \in writes
            \/ w.route = url /\ Component(url) = IF w.kind = "save" THEN "form" ELSE "detail"
        BY <1>2 DEF SelectStatus, RecordDelete, Submit, Sends
    <2> QED BY <2>1, <2>2 DEF Sent, RecordLive, OnPage
<1>3. CASE RecordArrive
    <2>0. writes' = writes
        BY <1>3 DEF RecordArrive
    <2>1. CASE ~OnPage'
        BY <2>0, <2>1 DEF Sent, RecordLive
    <2>2. CASE OnPage /\ Component(target) = Component(url) /\ instance' = instance
        BY <1>3, <2>0, <2>2, Arrival DEF Sent, RecordLive
    <2>3. CASE instance' = instance + 1
        BY <2>0, <2>3, Numbers DEF Sent, RecordLive, RecordPaged
    <2> QED BY <1>3, <2>1, <2>2, <2>3, Arrival DEF RecordRenew, RecordOpen
<1>4. ASSUME NEW i \in DOMAIN loads, RecordLoadAnswer(i) PROVE Sent'
    BY <1>4 DEF RecordLoadAnswer, Sent, RecordLive, OnPage
<1>5. ASSUME NEW w \in writes, WriteAnswer(w) PROVE Sent'
    BY <1>5 DEF WriteAnswer, Sent, RecordLive, OnPage
<1>6. CASE UNCHANGED recordVars
    BY <1>6 DEF recordVars, recordPage, Sent, RecordLive, OnPage
<1> QED BY <1>1, <1>2, <1>3, <1>4, <1>5, <1>6 DEF RecordNext

-----------------------------------------------------------------------------
(* Spinners and buttons. *)

Busy == BusyWaits /\ Held

\* RecordLive loads are kept: by an answer to another, and by a load that is added.
LEMMA StillLoading ==
    ASSUME RecordBase, url' = url, instance' = instance,
           NEW k \in DOMAIN loads, RecordLive(loads[k]),
           \/ \E x \in RecordLoad : loads' = Append(loads, x)
           \/ \E i \in DOMAIN loads \ {k} : loads' = RecordAnswered(i)
           \/ loads' = loads
    PROVE  \E j \in DOMAIN loads' : loads'[j].page = instance' /\ loads'[j].ends = loads[k].ends
<1> USE DEF RecordLive
<1>0. loads \in Seq(RecordLoad)
    BY DEF RecordBase, RecordTypeOK
<1>1. CASE \E x \in RecordLoad : loads' = Append(loads, x)
    BY <1>0, <1>1, LoadAppended
<1>2. ASSUME NEW i \in DOMAIN loads \ {k}, loads' = RecordAnswered(i)
      PROVE  \E j \in DOMAIN loads' : loads'[j].page = instance' /\ loads'[j].ends = loads[k].ends
    <2>1. PICK j \in DOMAIN loads' : k = Before(j, i)
        BY <1>0, <1>2, AnsweredLoads
    <2> QED BY <1>0, <1>2, <2>1, LoadLeft
<1>3. CASE loads' = loads
    BY <1>3
<1> QED BY <1>1, <1>2, <1>3

LEMMA BusySend ==
    ASSUME RecordBase, RecordPaged, Busy, SelectStatus \/ RecordDelete \/ Submit
    PROVE  Busy'
<1> DEFINE x(kind) == [kind |-> kind, route |-> url, page |-> instance, id |-> acts',
                       seen |-> shown.record, excused |-> foreign]
<1>1. UNCHANGED <<url, instance, loading, loads>> /\ OnPage
    BY DEF SelectStatus, RecordDelete, Submit, Sends, OnPage, Component, RecordShown
<1>2. CASE SelectStatus
    <2>1. writes' = writes \cup {x("path")} /\ UNCHANGED <<submitting, deleting>>
        BY <1>2 DEF SelectStatus, Sends
    <2>2. x("path").kind = "path" /\ x("path").page = instance
        OBVIOUS
    <2> HIDE DEF x
    <2> QED BY <1>1, <2>1, <2>2 DEF Busy, BusyWaits, Held, RecordLive, OnPage
<1>3. CASE RecordDelete
    <2>1. writes' = writes \cup {x("delete")} /\ UNCHANGED <<submitting, updating>>
        BY <1>3 DEF RecordDelete, Sends
    <2>2. x("delete").kind = "delete" /\ x("delete").page = instance
        OBVIOUS
    <2> HIDE DEF x
    <2> QED BY <1>1, <2>1, <2>2 DEF Busy, BusyWaits, Held, RecordLive, OnPage
<1>4. CASE Submit
    <2>1. /\ writes' = writes \cup {x("save")} /\ UNCHANGED <<deleting, updating>>
          /\ ~submitting /\ submitting'
        BY <1>4 DEF Submit, Sends
    <2>2. \A v \in writes : v.kind = "save" => v.page # x("save").page
        BY <2>1 DEF Busy, Held
    <2>3. \A v, w \in writes' : v.kind = "save" /\ w.kind = "save" /\ v.page = w.page => v = w
        BY <2>1, <2>2 DEF Busy, BusyWaits, RecordLive
    <2>4. x("save").kind = "save" /\ x("save").page = instance /\ x("save") \in writes'
        BY <2>1
    <2> HIDE DEF x
    <2> QED BY <1>1, <2>1, <2>3, <2>4 DEF Busy, BusyWaits, Held, RecordLive, OnPage
<1> QED BY <1>2, <1>3, <1>4

LEMMA BusyArrive ==
    ASSUME RecordBase, RecordPaged, Busy, RecordArrive
    PROVE  Busy'
<1>0. writes' = writes /\ loads \in Seq(RecordLoad)
    BY DEF RecordArrive, RecordBase, RecordTypeOK
<1>1. CASE ~OnPage' /\ UNCHANGED <<recordPage, loads>>
    BY <1>0, <1>1 DEF Busy, BusyWaits, Held, recordPage, flags
<1>2. CASE target # List /\ OnPage /\ RecordRenew
    <2>1. UNCHANGED <<instance, flags>> /\ OnPage' /\ target \in Route
        BY <1>2, Arrival DEF RecordRenew, OnPage, Route, Blank, Detail, Edit, List
    <2>2. \A v : RecordLive(v)' = RecordLive(v)
        BY <1>2, <2>1 DEF RecordLive
    <2>3. CASE UNCHANGED <<recordPage, loads>>
        BY <1>0, <1>2, <2>2, <2>3 DEF Busy, BusyWaits, Held, recordPage, flags
    <2>4. CASE ~UNCHANGED <<recordPage, loads>>
        <3>1. PICK x \in RecordLoad : loads' = Append(loads, x) /\ x.page = instance
            BY <1>2, <2>1, <2>4, Renewed
        <3>2. \A k \in DOMAIN loads : k \in DOMAIN loads' /\ loads'[k] = loads[k]
            BY <1>0, <3>1, LoadAppended
        <3>3. Len(loads) + 1 \in DOMAIN loads' /\ loads'[Len(loads) + 1] = x /\ RecordLive(x)
            BY <1>0, <1>2, <3>1, LoadAppended DEF RecordLive
        <3> QED BY <1>0, <2>1, <2>2, <3>2, <3>3 DEF Busy, BusyWaits, Held, RecordLive, flags
    <2> QED BY <2>3, <2>4
<1>3. CASE target # List /\ RecordOpen
    <2>0. target \in Route
        BY Arrival
    <2>1. /\ instance' = instance + 1 /\ ~submitting' /\ ~deleting' /\ ~updating'
          /\ \E x \in RecordLoad : loads' = Append(loads, x) /\ x.page = instance'
        BY <1>3, <2>0, Opened
    <2>2. PICK x \in RecordLoad : loads' = Append(loads, x) /\ x.page = instance'
        BY <2>1
    <2>3. Len(loads) + 1 \in DOMAIN loads' /\ loads'[Len(loads) + 1] = x
        BY <1>0, <2>2, LoadAppended
    <2>4. \A w \in writes' : w.page # instance'
        BY <1>0, <2>1, Numbers DEF RecordPaged
    <2> QED BY <1>0, <2>1, <2>2, <2>3, <2>4 DEF Busy, BusyWaits, Held, RecordLive
<1> QED BY <1>1, <1>2, <1>3, Arrival

LEMMA BusyLoadAnswer ==
    ASSUME RecordBase, RecordPaged, Busy, NEW i \in DOMAIN loads, RecordLoadAnswer(i)
    PROVE  Busy'
<1>0. loads' = RecordAnswered(i) /\ UNCHANGED <<url, instance, submitting, deleting, writes>>
    BY DEF RecordLoadAnswer
<1>1. \A v : RecordLive(v)' = RecordLive(v)
    BY <1>0 DEF RecordLive, OnPage
<1>2. OnPage' = OnPage
    BY <1>0 DEF OnPage
<1>3. ASSUME OnPage, loading' PROVE \E j \in DOMAIN loads' : loads'[j].page = instance'
    <2>1. ~RecordLive(loads[i]) /\ loading
        BY <1>3 DEF RecordLoadAnswer, RecordBase, RecordTypeOK
    <2>2. PICK k \in DOMAIN loads : RecordLive(loads[k])
        BY <1>3, <2>1 DEF Busy, BusyWaits, RecordLive
    <2> QED BY <1>0, <2>1, <2>2, StillLoading
<1>4. ASSUME OnPage, updating'
      PROVE  \/ \E w \in writes : RecordLive(w) /\ w.kind = "path"
             \/ \E j \in DOMAIN loads' : loads'[j].page = instance' /\ loads'[j].ends
    <2>1. updating /\ ~(RecordLive(loads[i]) /\ loads[i].ends)
        BY <1>4 DEF RecordLoadAnswer
    <2>2. ASSUME NEW k \in DOMAIN loads, RecordLive(loads[k]), loads[k].ends
          PROVE  \E j \in DOMAIN loads' : loads'[j].page = instance' /\ loads'[j].ends
        BY <1>0, <2>1, <2>2, StillLoading
    <2> QED BY <1>4, <2>1, <2>2 DEF Busy, BusyWaits, RecordLive
<1> QED BY <1>0, <1>1, <1>2, <1>3, <1>4 DEF Busy, BusyWaits, Held, RecordLive

LEMMA BusyWriteAnswer ==
    ASSUME RecordBase, RecordPaged, Busy, NEW w \in writes, WriteAnswer(w)
    PROVE  Busy'
<1>0. writes' = writes \ {w} /\ UNCHANGED <<url, instance>> /\ loads \in Seq(RecordLoad)
    BY DEF WriteAnswer, RecordBase, RecordTypeOK
<1>1. \A v : RecordLive(v)' = RecordLive(v)
    BY <1>0 DEF RecordLive, OnPage
<1>2. OnPage' = OnPage
    BY <1>0 DEF OnPage
<1>3. \A v, x \in writes' : v.kind = "save" /\ x.kind = "save" /\ v.page = x.page => v = x
    BY <1>0 DEF Busy, BusyWaits, RecordLive
<1>4. CASE w.kind = "path" /\ StatusSaved(w)
    <2>1. UNCHANGED flags /\ (loading' => loading \/ RecordLive(w))
        BY <1>4 DEF StatusSaved
    <2>2. PICK x \in RecordLoad : loads' = Append(loads, x) /\ x.page = w.page /\ x.ends
        BY <1>4, AskedAgain
    <2>3. \A k \in DOMAIN loads : k \in DOMAIN loads' /\ loads'[k] = loads[k]
        BY <1>0, <2>2, LoadAppended
    <2>4. /\ Len(loads) + 1 \in DOMAIN loads' /\ loads'[Len(loads) + 1].ends
          /\ RecordLive(w) => loads'[Len(loads) + 1].page = instance
        BY <1>0, <2>2, LoadAppended DEF RecordLive
    <2>5. OnPage' /\ loading' => \E j \in DOMAIN loads' : loads'[j].page = instance'
        BY <1>1, <1>2, <2>1, <2>3, <2>4 DEF Busy, BusyWaits, RecordLive
    <2>6. OnPage' /\ updating' => \/ \E v \in writes' : RecordLive(v)' /\ v.kind = "path"
                                  \/ \E j \in DOMAIN loads' : loads'[j].page = instance' /\ loads'[j].ends
        BY <1>0, <1>1, <1>2, <2>1, <2>3, <2>4 DEF Busy, BusyWaits, RecordLive, flags
    <2>7. UNCHANGED <<submitting, deleting>>
        BY <2>1 DEF flags
    <2> QED BY <1>0, <1>1, <1>2, <1>3, <1>4, <2>5, <2>6, <2>7 DEF Busy, BusyWaits, Held, RecordLive
<1>5. CASE /\ UNCHANGED <<loading, loads>>
           /\ submitting' = (submitting /\ ~(RecordLive(w) /\ w.kind = "save"))
           /\ deleting' = (deleting /\ ~(RecordLive(w) /\ w.kind = "delete"))
           /\ updating' = (updating /\ ~(RecordLive(w) /\ w.kind = "path"))
    <2>1. OnPage' /\ loading' => \E j \in DOMAIN loads' : loads'[j].page = instance'
        BY <1>1, <1>2, <1>5 DEF Busy, BusyWaits, RecordLive
    <2>2. OnPage' /\ submitting' => \E v \in writes' : RecordLive(v)' /\ v.kind = "save"
        BY <1>0, <1>1, <1>2, <1>5 DEF Busy, BusyWaits, RecordLive
    <2>3. OnPage' /\ deleting' => \E v \in writes' : RecordLive(v)' /\ v.kind = "delete"
        BY <1>0, <1>1, <1>2, <1>5 DEF Busy, BusyWaits, RecordLive
    <2>4. OnPage' /\ updating' => \/ \E v \in writes' : RecordLive(v)' /\ v.kind = "path"
                                  \/ \E j \in DOMAIN loads' : loads'[j].page = instance' /\ loads'[j].ends
        BY <1>0, <1>1, <1>2, <1>5 DEF Busy, BusyWaits, RecordLive
    <2>5. Held'
        <3>1. ASSUME NEW v \in writes', v.kind = "save", v.page = instance PROVE submitting'
            <4>1. submitting /\ v # w /\ v \in writes
                BY <1>0, <3>1 DEF Busy, Held
            <4>2. ~(w.kind = "save" /\ w.page = instance)
                BY <3>1, <4>1 DEF Busy, BusyWaits, RecordLive
            <4> QED BY <1>5, <4>1, <4>2 DEF RecordLive
        <3> QED BY <1>0, <3>1 DEF Held
    <2> QED BY <1>3, <2>1, <2>2, <2>3, <2>4, <2>5 DEF Busy, BusyWaits, RecordLive
<1>6. CASE w.kind = "save" /\ Saved(w)
    BY <1>5, <1>6 DEF Saved, RecordBase, RecordTypeOK
<1>7. CASE w.kind = "delete" /\ Deleted(w)
    BY <1>5, <1>7 DEF Deleted, RecordBase, RecordTypeOK
<1>8. CASE WriteFailed(w)
    BY <1>5, <1>8 DEF WriteFailed
<1> QED BY <1>4, <1>6, <1>7, <1>8 DEF WriteAnswer

LEMMA BusyStep ==
    ASSUME RecordBase, RecordPaged, Busy, [RecordNext]_recordVars
    PROVE  Busy'
<1>1. ASSUME NEW u \in Route, RecordFollow(u) PROVE Busy'
    BY <1>1 DEF RecordFollow, Busy, BusyWaits, Held, RecordLive, OnPage, recordPage, flags
<1>2. CASE UNCHANGED recordVars
    BY <1>2 DEF recordVars, Busy, BusyWaits, Held, RecordLive, OnPage, recordPage, flags
<1> QED
    BY <1>1, <1>2, BusySend, BusyArrive, BusyLoadAnswer, BusyWriteAnswer DEF RecordNext

-----------------------------------------------------------------------------
(* What is shown, and sent. *)

\* A page that reloads shows its spinner.
LEMMA SeenArrive ==
    ASSUME RecordBase, Seen, RecordArrive
    PROVE  Seen'
<1>1. CASE ~OnPage'
    BY <1>1 DEF Seen
<1>2. CASE target # List /\ OnPage /\ RecordRenew
    <2>1. url' = target /\ target \in Route /\ foreign' = (foreign /\ loads' = loads)
        BY Arrival DEF RecordArrive
    <2>2. CASE UNCHANGED <<recordPage, loads>> /\ target.record = url.record
        BY <1>2, <2>1, <2>2 DEF Seen, recordPage
    <2>3. CASE loading'
        BY <2>3 DEF Seen
    <2> QED BY <1>2, <2>1, <2>2, <2>3, Renewed
<1>3. CASE target # List /\ RecordOpen
    BY <1>3, Arrival, Opened DEF Seen
<1> QED BY <1>1, <1>2, <1>3, Arrival

LEMMA SeenStep ==
    ASSUME RecordBase, Seen, [RecordNext]_recordVars
    PROVE  Seen'
<1>1. CASE UNCHANGED <<url, foreign, loading, shown>>
    BY <1>1 DEF Seen, OnPage
<1>2. ASSUME NEW u \in Route, RecordFollow(u) PROVE Seen'
    BY <1>1, <1>2 DEF RecordFollow, recordPage, recordHistory
<1>3. CASE SelectStatus \/ RecordDelete \/ Submit
    BY <1>1, <1>3 DEF SelectStatus, RecordDelete, Submit, Sends, recordHistory
<1>4. ASSUME NEW i \in DOMAIN loads, RecordLoadAnswer(i) PROVE Seen'
    <2>1. CASE RecordLive(loads[i])
        <3>1. foreign' = (loads[i].route # url) /\ url' = url
            BY <1>4, <2>1 DEF RecordLoadAnswer
        <3>2. shown' # None => shown'.record = loads[i].route.record
            BY <1>4, <2>1 DEF RecordLoadAnswer, RecordSucceed, RecordGiveUp
        <3> QED BY <3>1, <3>2 DEF Seen
    <2>2. CASE ~RecordLive(loads[i])
        BY <1>1, <1>4, <2>2 DEF RecordLoadAnswer, RecordSucceed, RecordGiveUp
    <2> QED BY <2>1, <2>2
<1>5. ASSUME NEW w \in writes, WriteAnswer(w) PROVE Seen'
    <2>1. UNCHANGED <<url, foreign, shown>> /\ (loading' = loading \/ loading')
        BY <1>5 DEF WriteAnswer, StatusSaved, Saved, Deleted, WriteFailed, RecordBase, RecordTypeOK
    <2> QED BY <2>1 DEF Seen, OnPage
<1>6. CASE UNCHANGED recordVars
    BY <1>1, <1>6 DEF recordVars, recordPage, recordHistory
<1> QED BY <1>2, <1>3, <1>4, <1>5, <1>6, SeenArrive DEF RecordNext

LEMMA WritesStep ==
    ASSUME RecordBase, Seen, WritesMatch, [RecordNext]_recordVars
    PROVE  WritesMatch'
<1>1. CASE writes' \subseteq writes
    BY <1>1 DEF WritesMatch
<1>2. CASE SelectStatus \/ Submit
    <2>1. PICK kind : Sends(kind)
        BY <1>2 DEF SelectStatus, Submit
    <2>2. shown # None /\ OnPage /\ ~loading
        BY <1>2 DEF SelectStatus, Submit, RecordShown
    <2>3. \A w \in writes' : \/ w \in writes
                             \/ w.seen = shown.record /\ w.route = url /\ w.excused = foreign
        BY <2>1 DEF Sends
    <2> QED BY <2>2, <2>3 DEF Seen, WritesMatch
<1>3. CASE RecordDelete
    BY <1>3 DEF RecordDelete, Sends, WritesMatch
<1> QED
    BY <1>1, <1>2, <1>3
    DEF RecordNext, RecordFollow, RecordArrive, RecordLoadAnswer, WriteAnswer, recordVars

-----------------------------------------------------------------------------
(* The record of the route. *)

\* The last load of the page.
LastLive(i) == RecordLive(loads[i]) /\ \A j \in DOMAIN loads : j > i => ~RecordLive(loads[j])
NoneLive == \A i \in DOMAIN loads : ~RecordLive(loads[i])

\* A load of the page that is the last one is the one its answer is judged by.
LEMMA CurrentAdds ==
    ASSUME RecordBase, NEW x \in RecordLoad, loads' = Append(loads, x), OnPage', x.page = instance',
           Fits(x)', (\A r \in Records : written[r] <= versions[r])'
    PROVE  RecordCurrent'
<1>1. /\ DOMAIN loads' = 1 .. Len(loads) + 1 /\ Len(loads) \in Nat
      /\ loads'[Len(loads) + 1] = x
    BY LoadAppended DEF RecordBase, RecordTypeOK
<1>2. ASSUME NEW i \in DOMAIN loads', LastLive(i)' PROVE i = Len(loads) + 1
    <2>1. PICK n \in Nat : n = Len(loads) + 1
        BY <1>1
    <2>2. n > i => ~RecordLive(loads[n])'
        BY <1>1, <1>2, <2>1 DEF LastLive
    <2> QED BY <1>1, <1>2, <2>1, <2>2 DEF RecordLive
<1>3. ~NoneLive'
    BY <1>1 DEF NoneLive, RecordLive
<1>4. \A i \in DOMAIN loads' : LastLive(i)' => Fits(loads[i])'
    BY <1>1, <1>2 DEF Fits
<1> QED BY <1>3, <1>4 DEF RecordCurrent, LastLive, NoneLive

\* The page goes on as it was.
LEMMA CurrentKept ==
    ASSUME RecordCurrent, UNCHANGED <<url, instance, loads, behind, shown>>, error' \/ ~error,
           (\A r \in Records : written[r] <= versions[r])',
           written' = written \/ url.kind # "detail"
    PROVE  RecordCurrent'
BY DEF RecordCurrent, Fits, RecordLive, OnPage

LEMMA StoresStep ==
    ASSUME RecordBase, RecordCurrent, NEW w, NEW r \in Records, Stores(w, r)
    PROVE  /\ (\A q \in Records : written[q] <= versions[q])'
           /\ ~RecordLive(w) => written' = written
           /\ RecordLive(w) => written'[r] = versions[r] + 1
<1>1. \A q \in Records : written[q] \in Nat /\ versions[q] \in Nat
    BY DEF RecordBase, RecordTypeOK
<1>2. \A q \in Records : versions'[q] = IF q = r THEN versions[q] + 1 ELSE versions[q]
    BY DEF Stores, RecordBase, RecordTypeOK
<1>3. \A q \in Records : written'[q] = IF RecordLive(w) /\ q = r THEN versions[q] + 1 ELSE written[q]
    BY DEF Stores, RecordBase, RecordTypeOK
<1>4. \A q \in Records : written[q] <= versions[q]
    BY DEF RecordCurrent
<1> QED BY <1>1, <1>2, <1>3, <1>4 DEF Stores

LEMMA CurrentArrive ==
    ASSUME RecordBase, RecordPaged, RecordCurrent, RecordArrive
    PROVE  RecordCurrent'
<1>0. /\ url' = target /\ target \in Route /\ UNCHANGED <<versions, written, behind>>
      /\ \A r \in Records : written[r] <= versions[r]
    BY Arrival DEF RecordArrive, RecordCurrent
<1>1. CASE ~OnPage'
    BY <1>0, <1>1 DEF RecordCurrent, RecordLive
<1>2. ASSUME NEW x \in RecordLoad, loads' = Append(loads, x), x.page = instance',
             x.route = target, ~x.late, x.since = Version(target), target # List
      PROVE  RecordCurrent'
    <2>1. OnPage'
        BY <1>0, <1>2 DEF OnPage, Route, Blank, Detail, Edit, List
    <2>2. target.kind = "detail" => target.record \in Records /\ target.record # None
        BY <1>0 DEF Route, Blank, Detail, Edit, List, RecordBase, EntityRecordAssumption
    <2>3. Fits(x)'
        BY <1>0, <1>2, <2>2 DEF Fits, Version
    <2> QED BY <1>0, <1>2, <2>1, <2>3, CurrentAdds
<1>3. CASE target # List /\ Component(target) = Component(url) /\ RecordRenew
    <2>1. CASE UNCHANGED <<recordPage, loads>> /\ target.record = url.record
        <3>1. target = url
            BY <1>0, <1>3, <2>1
            DEF RecordBase, RecordTypeOK, EntityRecordAssumption, Component, Route, Blank, Detail, Edit, List
        <3> QED BY <1>0, <2>1, <3>1, CurrentKept DEF recordPage
    <2>2. CASE ~(UNCHANGED <<recordPage, loads>> /\ target.record = url.record)
        BY <1>0, <1>2, <1>3, <2>2, Renewed
    <2> QED BY <2>1, <2>2
<1>4. CASE target # List /\ RecordOpen
    BY <1>0, <1>2, <1>4, Opened
<1> QED BY <1>1, <1>3, <1>4, Arrival

LEMMA CurrentLoadAnswer ==
    ASSUME RecordBase, RecordCurrent, NEW i \in DOMAIN loads, RecordLoadAnswer(i)
    PROVE  RecordCurrent'
<1>0. /\ loads' = RecordAnswered(i) /\ UNCHANGED <<url, instance, versions, written>>
      /\ loads \in Seq(RecordLoad) /\ loads[i] \in RecordLoad /\ i \in Nat
      /\ \A j \in DOMAIN loads : j \in Nat
      /\ \A j \in DOMAIN loads' : j \in Nat
    BY AnsweredLoads DEF RecordLoadAnswer, RecordBase, RecordTypeOK
<1>1. \A r \in Records : written[r] <= versions[r]
    BY DEF RecordCurrent
<1>2. ASSUME NEW j \in DOMAIN loads', LastLive(j)' PROVE Fits(loads[j])'
    <2>1. CASE j < i
        BY <1>0, <1>2, <2>1, LoadLeft DEF Fits
    <2>2. CASE ~(j < i)
        <3>1. Before(j, i) = j + 1 /\ j + 1 \in DOMAIN loads
            BY <1>0, <2>2, LoadLeft DEF Before
        <3>2. ASSUME NEW m \in DOMAIN loads, m > j + 1 PROVE ~RecordLive(loads[m])
            <4>1. m # i
                BY <1>0, <2>2, <3>2
            <4>2. PICK k \in DOMAIN loads' : m = Before(k, i)
                BY <1>0, <4>1, AnsweredLoads
            <4>3. k > j
                BY <1>0, <2>2, <3>2, <4>2 DEF Before
            <4>4. ~RecordLive(loads[k])'
                BY <1>2, <4>3 DEF LastLive
            <4> QED BY <1>0, <4>2, <4>4, LoadLeft DEF RecordLive, OnPage
        <3>3. RecordLive(loads[j + 1])
            BY <1>0, <1>2, <3>1, LoadLeft DEF LastLive, RecordLive, OnPage
        <3>4. Fits(loads[j + 1])
            BY <3>1, <3>2, <3>3 DEF RecordCurrent
        <3>5. /\ loads'[j].late = loads[j + 1].late
              /\ loads'[j].route = loads[j + 1].route
              /\ loads'[j].since = loads[j + 1].since
            <4>1. loads[j + 1].late \in BOOLEAN
                BY <3>1, Numbers
            <4> QED BY <1>0, <2>2, <3>1, <4>1, LoadLeft
        <3> QED BY <1>0, <3>4, <3>5 DEF Fits
    <2> QED BY <2>1, <2>2
<1>3. ASSUME OnPage', NoneLive', ~behind', ~error'
      PROVE  /\ shown' # None /\ shown'.record = url'.record
             /\ url'.kind = "detail" => shown'.version >= written'[shown'.record]
    <2>1. \A k \in DOMAIN loads \ {i} : ~RecordLive(loads[k])
        <3>1. ASSUME NEW k \in DOMAIN loads \ {i} PROVE ~RecordLive(loads[k])
            <4>1. PICK j \in DOMAIN loads' : k = Before(j, i)
                BY <1>0, AnsweredLoads
            <4> QED BY <1>0, <1>3, <4>1, LoadLeft DEF NoneLive, RecordLive, OnPage
        <3> QED BY <3>1
    <2>2. CASE RecordLive(loads[i])
        <3>1. Fits(loads[i])
            BY <1>0, <2>1, <2>2 DEF RecordCurrent
        <3>2. ~loads[i].late
            BY <1>3, <2>2 DEF RecordLoadAnswer
        <3>3. loads[i].route = url
              /\ (url.kind = "detail" => loads[i].since >= written[url.record])
            BY <3>1, <3>2 DEF Fits
        <3>4. PICK v \in loads[i].since .. Version(loads[i].route) :
                shown' = [record |-> loads[i].route.record, version |-> v]
            BY <1>3, <2>2 DEF RecordLoadAnswer, RecordSucceed, RecordGiveUp
        <3>5. url.kind = "detail" => v >= written[url.record]
            <4>1. url.kind = "detail" => url.record \in Records
                BY DEF RecordBase, RecordTypeOK, Route, Blank, Detail, Edit, List
            <4>2. url.kind = "detail" => written[url.record] \in Nat
                BY <4>1 DEF RecordBase, RecordTypeOK
            <4>3. loads[i].since \in Nat
                BY <1>0 DEF RecordLoad
            <4> QED BY <3>3, <3>4, <4>2, <4>3
        <3>6. shown' # None
            <4>1. Version(loads[i].route) \in Nat /\ loads[i].since \in Nat
                  /\ loads[i].route.record \in Records \cup {None}
                BY <1>0 DEF RecordBase, RecordTypeOK, RecordLoad, Version, Route, List, Blank, Detail, Edit
            <4>2. v \in Nat
                BY <4>1
            <4>3. shown' \in Values
                BY <3>4, <4>1, <4>2 DEF Values
            <4> QED BY <4>3 DEF RecordBase, EntityRecordAssumption
        <3> QED BY <1>0, <3>3, <3>4, <3>5, <3>6
    <2>3. CASE ~RecordLive(loads[i])
        <3>1. UNCHANGED <<shown, error, behind>> /\ NoneLive /\ OnPage
            BY <1>0, <1>3, <2>1, <2>3 DEF RecordLoadAnswer, RecordSucceed, RecordGiveUp, NoneLive, OnPage
        <3> QED BY <1>0, <1>3, <3>1 DEF RecordCurrent, NoneLive
    <2> QED BY <2>2, <2>3
<1> QED BY <1>0, <1>1, <1>2, <1>3 DEF RecordCurrent, LastLive, NoneLive

LEMMA CurrentWriteAnswer ==
    ASSUME RecordBase, RecordCurrent, NEW w \in writes, WriteAnswer(w)
    PROVE  RecordCurrent'
<1>0. UNCHANGED <<url, instance, shown, behind>> /\ w \in Write
    BY DEF WriteAnswer, RecordBase, RecordTypeOK
<1>1. CASE w.kind = "path" /\ StatusSaved(w) /\ UNCHANGED error
    <2>1. PICK x \in RecordLoad : /\ loads' = Append(loads, x)
                            /\ x.page = w.page /\ x.route = w.route
                            /\ x.late = (w.route # url)
                            /\ x.since = versions[w.route.record] + 1
        BY <1>1, AskedAgain
    <2>2. w.route.record \in Records /\ Stores(w, w.route.record)
        BY <1>1, AskedAgain DEF StatusSaved
    <2>3. /\ (\A r \in Records : written[r] <= versions[r])'
          /\ ~RecordLive(w) => written' = written
          /\ RecordLive(w) => written'[w.route.record] = versions[w.route.record] + 1
        BY <2>2, StoresStep
    <2>4. versions[w.route.record] + 1 \in Nat
        BY <2>2 DEF RecordBase, RecordTypeOK
    <2>5. CASE RecordLive(w)
        <3>1. Fits(x)'
            <4>1. CASE w.route # url
                BY <2>1, <4>1 DEF Fits
            <4>2. CASE w.route = url
                <5>1. x.since >= written'[url'.record]
                    BY <1>0, <2>1, <2>3, <2>4, <2>5, <4>2
                <5> QED BY <1>0, <2>1, <4>2, <5>1 DEF Fits
            <4> QED BY <4>1, <4>2
        <3> QED BY <1>0, <2>1, <2>3, <2>5, <3>1, CurrentAdds DEF RecordLive, OnPage
    <2>6. CASE ~RecordLive(w)
        <3>1. /\ DOMAIN loads' = 1 .. Len(loads) + 1 /\ DOMAIN loads = 1 .. Len(loads)
              /\ Len(loads) \in Nat /\ loads'[Len(loads) + 1] = x
              /\ \A j \in DOMAIN loads : loads'[j] = loads[j]
            BY <2>1, LoadAppended DEF RecordBase, RecordTypeOK
        <3>2. ~(OnPage /\ x.page = instance)
            BY <2>1, <2>6 DEF RecordLive
        <3>3. ASSUME NEW i \in DOMAIN loads', LastLive(i)' PROVE Fits(loads[i])'
            <4>1. loads'[i].page = instance /\ OnPage
                BY <1>0, <3>3 DEF LastLive, RecordLive, OnPage
            <4>2. i \in DOMAIN loads
                BY <3>1, <3>2, <4>1
            <4>3. RecordLive(loads[i])
                BY <3>1, <4>1, <4>2 DEF RecordLive
            <4>4. ASSUME NEW m \in DOMAIN loads, m > i PROVE ~RecordLive(loads[m])
                <5>1. m \in DOMAIN loads' /\ loads'[m] = loads[m]
                    BY <3>1
                <5>2. ~RecordLive(loads[m])'
                    BY <3>3, <4>4, <5>1 DEF LastLive
                <5> QED BY <1>0, <5>1, <5>2 DEF RecordLive, OnPage
            <4>5. Fits(loads[i])
                BY <4>2, <4>3, <4>4 DEF RecordCurrent
            <4> QED BY <1>0, <2>3, <2>6, <3>1, <4>2, <4>5 DEF Fits
        <3>4. NoneLive' => NoneLive
            BY <1>0, <3>1 DEF NoneLive, RecordLive, OnPage
        <3>5. OnPage' = OnPage
            BY <1>0 DEF OnPage
        <3> QED BY <1>0, <1>1, <2>3, <2>6, <3>3, <3>4, <3>5 DEF RecordCurrent, LastLive, NoneLive
    <2> QED BY <2>5, <2>6
<1>2. CASE w.kind = "save" /\ Saved(w) /\ UNCHANGED error
    <2>1. PICK r \in Written(w) :
            Stores(w, r)
        BY <1>2 DEF Saved
    <2>2. r \in Records
        BY <1>0, <1>2, <2>1 DEF Written, RecordBase, Sent, Component, Write, Route, List, Blank, Detail, Edit
    <2>3. /\ (\A q \in Records : written[q] <= versions[q])'
          /\ ~RecordLive(w) => written' = written
        BY <2>1, <2>2, StoresStep
    <2>4. RecordLive(w) => url.kind # "detail"
        BY <1>2 DEF RecordBase, Sent, Component
    <2> QED BY <1>0, <1>2, <2>3, <2>4, CurrentKept DEF Saved
<1>3. CASE UNCHANGED <<versions, written, loads>> /\ (error' \/ ~error)
    BY <1>0, <1>3, CurrentKept DEF RecordCurrent
<1>4. CASE w.kind = "delete" /\ Deleted(w) /\ UNCHANGED error
    BY <1>3, <1>4 DEF Deleted, RecordCurrent, Fits, RecordLive, OnPage, WriteAnswer
<1>5. CASE WriteFailed(w)
    <2>1. /\ written' = written /\ loads' = loads /\ (error' \/ ~error)
          /\ \A q \in Records : versions'[q] >= versions[q]
        BY <1>5, ReachedGrows DEF WriteFailed, RecordBase, RecordTypeOK
    <2>2. \A q \in Records : written[q] <= versions[q] /\ written[q] \in Nat /\ versions[q] \in Nat
        BY DEF RecordCurrent, RecordBase, RecordTypeOK
    <2>3. \A q \in Records : written'[q] <= versions'[q]
        <3>1. \A q \in Records : versions'[q] \in Nat
            BY <1>5, ReachedGrows DEF WriteFailed
        <3> QED BY <2>1, <2>2, <3>1
    <2> QED BY <1>0, <2>1, <2>3, CurrentKept
<1> QED BY <1>1, <1>2, <1>4, <1>5 DEF WriteAnswer

LEMMA CurrentStep ==
    ASSUME RecordBase, RecordPaged, RecordCurrent, [RecordNext]_recordVars
    PROVE  RecordCurrent'
<1>1. CASE UNCHANGED <<url, instance, loads, behind, shown, error, versions, written>>
    BY <1>1 DEF RecordCurrent, Fits, RecordLive, OnPage
<1>2. ASSUME NEW u \in Route, RecordFollow(u) PROVE RecordCurrent'
    BY <1>1, <1>2 DEF RecordFollow, recordPage, recordHistory
<1>3. CASE SelectStatus \/ RecordDelete \/ Submit
    BY <1>1, <1>3 DEF SelectStatus, RecordDelete, Submit, Sends, recordHistory
<1>4. CASE UNCHANGED recordVars
    BY <1>1, <1>4 DEF recordVars, recordPage, recordHistory
<1> QED
    BY <1>2, <1>3, <1>4, CurrentArrive, CurrentLoadAnswer, CurrentWriteAnswer DEF RecordNext

-----------------------------------------------------------------------------
(* The page of one record. *)

RecordInv == RecordBase /\ RecordPaged /\ Busy /\ Seen /\ WritesMatch /\ RecordCurrent

LEMMA RecordStarts == EntityRecordAssumption /\ RecordInit => RecordInv
<1> SUFFICES ASSUME EntityRecordAssumption, RecordInit PROVE RecordInv
    OBVIOUS
<1>0. 0 \in 0 .. MaxActs /\ 0 \in 0 .. MaxFaults
    BY DEF EntityRecordAssumption
<1>1. RecordTypeOK
    <2>1. {loading, error, submitting, deleting, updating, behind, foreign} \subseteq BOOLEAN
        BY DEF RecordInit
    <2>2. loads \in Seq(RecordLoad) /\ writes \subseteq Write
        BY DEF RecordInit
    <2>3. versions \in [Records -> Nat] /\ written \in [Records -> Nat]
        BY DEF RecordInit
    <2> QED BY <1>0, <2>1, <2>2, <2>3 DEF RecordInit, RecordTypeOK, EntityRecordAssumption, Route, Pages
<1>2. Sent /\ RecordPaged /\ Busy /\ Seen /\ WritesMatch
    BY DEF RecordInit, Sent, RecordPaged, Busy, BusyWaits, Held, Seen, WritesMatch, OnPage, List
<1>3. RecordCurrent
    BY DEF RecordInit, RecordCurrent, OnPage, List
<1> QED BY <1>1, <1>2, <1>3 DEF RecordInv, RecordBase

LEMMA RecordStep == RecordInv /\ [RecordNext]_recordVars => RecordInv'
<1> SUFFICES ASSUME RecordInv, [RecordNext]_recordVars PROVE RecordInv'
    OBVIOUS
<1>1. RecordBase'
    BY RecordTypeStep, SentStep DEF RecordInv, RecordBase, EntityRecordAssumption
<1> QED
    BY <1>1, PagedStep, BusyStep, SeenStep, WritesStep, CurrentStep DEF RecordInv

LEMMA RecordHolds == RecordInv => RecordMatches /\ WritesMatch /\ BusyWaits
<1> SUFFICES ASSUME RecordInv PROVE RecordMatches
    BY DEF RecordInv, Busy
<1> QED BY DEF RecordInv, RecordCurrent, RecordMatches, RecordQuiet

-----------------------------------------------------------------------------
(* The pages together. *)

PagesInv ==
    /\ opened \in {"list", "record"}
    /\ opened = "list" => ListInv
    /\ opened = "record" => RecordInv

LEMMA PagesStart == PagesInit => PagesInv
<1> SUFFICES ASSUME PagesInit PROVE PagesInv
    OBVIOUS
<1>1. CASE opened = "list" /\ ListInit
    BY <1>1, ListStarts, EntityPagesAssumption DEF PagesInv
<1>2. CASE opened = "record" /\ RecordInit
    BY <1>2, RecordStarts, EntityPagesAssumption DEF PagesInv
<1> QED BY <1>1, <1>2 DEF PagesInit

LEMMA PagesStep == PagesInv /\ [PagesNext]_pagesVars => PagesInv'
<1> SUFFICES ASSUME PagesInv, [PagesNext]_pagesVars PROVE PagesInv'
    OBVIOUS
<1>1. opened' = opened
    BY DEF PagesNext, pagesVars
<1>2. ASSUME opened = "list" PROVE [ListNext]_listVars
    <2>1. CASE UNCHANGED pagesVars
        <3>1. UNCHANGED <<epoch, url, target, visited>> /\ UNCHANGED <<requests, deletions, acts, faults>>
            BY <2>1 DEF pagesVars, listOnly
        <3>2. UNCHANGED listPage
            BY <2>1 DEF pagesVars, listOnly, listPage
        <3>3. UNCHANGED listHistory
            BY <2>1 DEF pagesVars, listOnly, listHistory
        <3> QED BY <3>1, <3>2, <3>3 DEF listVars
    <2> QED BY <1>2, <2>1 DEF PagesNext
<1>3. ASSUME opened = "record" PROVE [RecordNext]_recordVars
    <2>1. CASE UNCHANGED pagesVars
        <3>1. UNCHANGED <<versions, exists, url, target>> /\ UNCHANGED <<loads, writes, acts, faults>>
            BY <2>1 DEF pagesVars, recordOnly
        <3>2. UNCHANGED recordPage
            BY <2>1 DEF pagesVars, recordOnly, recordPage
        <3>3. UNCHANGED recordHistory
            BY <2>1 DEF pagesVars, recordOnly, recordHistory
        <3> QED BY <3>1, <3>2, <3>3 DEF recordVars
    <2> QED BY <1>3, <2>1 DEF PagesNext
<1>4. opened = "list" => ListInv'
    BY <1>2, ListStep DEF PagesInv
<1>5. opened = "record" => RecordInv'
    BY <1>3, RecordStep DEF PagesInv
<1> QED BY <1>1, <1>4, <1>5 DEF PagesInv

LEMMA PagesAlways == PagesSpec => []PagesInv
<1> QED BY PagesStart, PagesStep, PTL DEF PagesSpec

\* Once nothing is under way the rows of a list are those of its URL, or an error stands
\* for them, unless the last answer used came after that of a later request (behind), or
\* the user acted while a navigation was under way (hasty) (loadList).
THEOREM ListShowsItsUrl == PagesSpec => []RowsOfUrl
<1>1. PagesInv => RowsOfUrl
    BY ListHolds DEF PagesInv, RowsOfUrl
<1> QED BY <1>1, PagesAlways, PTL

\* With no navigation under way, the cursors kept are those of the pages before the one in
\* the URL.  This leaves out the ways that were not made by the buttons of the list
\* (astray): the browser's history, a link to the list that is open, a second click before
\* the first has arrived, a redirection by a late answer (updateSearchState).
THEOREM PreviousLeadsBack == PagesSpec => []HistoryIsPath
<1>1. PagesInv => HistoryIsPath
    BY ListHolds DEF PagesInv, HistoryIsPath
<1> QED BY <1>1, PagesAlways, PTL

\* With no navigation under way, the browser is at the list, query and page asked for last
\* or at the first page of them, unless a recovery or deletion the user had gone away from
\* has moved it since (pulled).  An error for a refused cursor is shown only after a return
\* by the browser's history, an act on rows still awaited, or such a late redirection
\* (returned) (loadList, recoveryKeyRef).
THEOREM BrowserArrives == PagesSpec => []UserGoesThere
<1>1. PagesInv => UserGoesThere
    BY ListHolds DEF PagesInv, UserGoesThere
<1> QED BY <1>1, PagesAlways, PTL

\* Once nothing is under way the page shows the record of its route, the details not
\* older than what the user wrote to it, or an error, unless the last answer used came
\* after that of a later request or was a reload for a record left since (behind)
\* (loadDetail, loadForm).
THEOREM PageShowsRecord == PagesSpec => []RecordOfRoute
<1>1. PagesInv => RecordOfRoute
    BY RecordHolds DEF PagesInv, RecordOfRoute
<1> QED BY <1>1, PagesAlways, PTL

\* A save or a status update goes to the record whose values the user saw, as long as the
\* last answer shown was for the route of the page: that of an earlier route takes the
\* spinner away before its own is there (excused) (onSubmit of the form, onSelect of
\* the status path).
THEOREM SeenIsWritten == PagesSpec => []WritesWhatIsSeen
<1>1. PagesInv => WritesWhatIsSeen
    BY RecordHolds DEF PagesInv, WritesWhatIsSeen
<1> QED BY <1>1, PagesAlways, PTL

\* A spinner or a disabled button waits for an answer that ends it, and while a save of a
\* form is under way it sends no other (onSubmit of the form).
THEOREM BusyWhileWaiting == PagesSpec => []BusyHasRequest
<1>1. PagesInv => BusyHasRequest
    BY RecordHolds DEF PagesInv, BusyHasRequest
<1> QED BY <1>1, PagesAlways, PTL
=============================================================================
