--------------------------- MODULE AccountsProofs ----------------------------
(***************************************************************************)
(* Proofs about Accounts for any clients, portals and requests: types, who *)
(* changes credentials, what is on record of an answer, that an            *)
(* installation is completed once and whole, and that a credential found   *)
(* disabled is not enabled unasked.                                        *)
(***************************************************************************)
EXTENDS Accounts, TLAPS

-----------------------------------------------------------------------------
(* The inductive invariant. *)

Installing == {"pending?", "configure", "identity", "save"}
Saving == {"contact", "existing", "provision", "put", "saved", "read back"}
Deleting == {"find", "remove", "removed"}
Admitted == {"list"} \cup Saving \cup Deleting
Known == {"login success", "grants", "admin email", "acl"}

\* A request is where requests of its kind go.
Routed(c) ==
    /\ pc[c] # "idle" => req[c] \in Requests
    /\ pc[c] \in Installing => req[c].op = "setup"
    /\ pc[c] \in {"login", "login success", "login failed"} => req[c].op = "login"
    /\ pc[c] \in {"session", "session missing", "session invalid", "acl", "acl denied"} =>
        req[c].op \in {"list", "upsert", "delete"}
    /\ pc[c] \in {"grants", "admin email"} => req[c].op \in {"login", "list", "upsert", "delete"}
    /\ pc[c] = "list" => req[c].op = "list"
    /\ pc[c] \in Saving => req[c].op = "upsert"
    /\ pc[c] \in Deleting => req[c].op = "delete"
    /\ pc[c] = "refuse" => req[c].op \in {"setup", "upsert"}
    /\ pc[c] \in Known => user[c] \in User
    /\ pc[c] = "put" => want[c] \in BOOLEAN

\* What is recorded before each answer, and nothing else.
Recorded(c) ==
    /\ pc[c] \notin {"login failed", "read back", "done"} => log[c] = {}
    /\ pc[c] = "login failed" => log[c] \subseteq {"LOGIN_SUCCESS"}
    /\ pc[c] = "read back" => log[c] = {"SAVED"}
    /\ pc[c] # "done" => outcome[c] = "none"
    /\ outcome[c] = "ok" /\ req[c].op = "login" => log[c] = {"LOGIN_SUCCESS"}
    /\ outcome[c] = "denied" =>
        log[c] \cap {"LOGIN_FAILED", "SESSION_MISSING", "SESSION_INVALID", "ACL_DENIED"} # {}
    /\ outcome[c] = "refused" => log[c] = {"INPUT_VALIDATION_FAILED"}
    /\ outcome[c] \in {"denied", "refused"} => log[c] \cap {"SAVED", "DELETED"} = {}
    /\ outcome[c] = "ok" /\ req[c].op = "upsert" => "SAVED" \in log[c]
    /\ outcome[c] = "ok" /\ req[c].op = "delete" => "DELETED" \in log[c]

\* What an upsert knows of the credential, unless it was changed meanwhile.
Written(c) ==
    "identity" \notin past[c].moved =>
        /\ pc[c] = "provision" => seen[c] = EnabledOf(req[c].subject)
        /\ pc[c] = "put" =>
            /\ seen[c] = EnabledOf(req[c].subject)
            /\ want[c] = Given(req[c], seen[c])
            /\ req[c].pwd = None => seen[c] # None
        /\ pc[c] \in {"saved", "read back"} =>
            /\ want[c] = Given(req[c], seen[c])
            /\ Held(req[c].subject) # {}
        /\ "SAVED" \in log[c] =>
            want[c] = Given(req[c], seen[c]) /\ outcome[c] # "missing"

\* Whether its user was found an administrator, and what that says of the grounds.
Entitled(c) ==
    /\ pc[c] \in {"admin email", "acl"} /\ admin[c] => past[c].was
    /\ pc[c] \in Admitted => past[c].was
    /\ "setup" \notin past[c].moved =>
        /\ pc[c] = "admin email" /\ ~admin[c] => ~past[c].always \/ Installed(user[c])
        /\ pc[c] = "acl" /\ ~admin[c] => ~past[c].always
        /\ pc[c] = "acl denied" => ~past[c].always

Inv ==
    /\ TypeOK
    /\ \A c \in Clients : Routed(c) /\ Recorded(c) /\ Written(c) /\ Entitled(c)

\* How far an installation is.
Underway(c) ==
    "setup" \notin past[c].moved =>
        /\ pc[c] \in {"configure", "identity", "save"} => setup = None
        /\ pc[c] \in {"identity", "save"} => connector = req[c].source
        /\ pc[c] = "save" => identity[req[c].email] # None /\ identity[req[c].email].enabled

\* Until a portal is installed it has no administrator, so nobody changes an
\* identity except to install it.
Installation ==
    /\ setup = None =>
        /\ granted = {}
        /\ \A c \in Clients :
            pc[c] \notin Admitted /\ (pc[c] \in {"admin email", "acl"} => ~admin[c])
    /\ \A c \in Clients : Underway(c)

\* A credential that provisioning found disabled, and is not asked to enable, is written
\* disabled.
Asleep(c) ==
    pc[c] = "put" /\ req[c].enabled # TRUE /\ had[c] # {} /\ TRUE \notin had[c] =>
        want[c] = FALSE

\* What theorems about installations take from the portal.
NotInstalledByHand == \A p \in Portals : p.setup = None => p.granted = {}

-----------------------------------------------------------------------------
(* Steps. *)

\* A client sends a request.
Ask(c, q) ==
    \/ CompleteSetup(c, q) \/ LoginWithPassword(c, q) \/ Logout(c, q)
    \/ ListLocalCredentials(c, q) \/ UpsertLocalCredential(c, q)
    \/ DeleteLocalCredential(c, q)

Step(c) == (\E q \in Requests : Ask(c, q)) \/ Serve(c) \/ Leave(c)

\* What belongs to the request of a client.
Kept(c) ==
    /\ pc'[c] = pc[c] /\ req'[c] = req[c] /\ user'[c] = user[c] /\ admin'[c] = admin[c]
    /\ seen'[c] = seen[c] /\ want'[c] = want[c] /\ log'[c] = log[c]
    /\ outcome'[c] = outcome[c]

LEMMA NextIs == Next <=> ((\E c \in Clients : Step(c)) \/ ChangeGrants \/ Crash) /\ Remember
  BY DEF Next, Step, Ask

LEMMA OthersKept ==
    ASSUME TypeOK, NEW c \in Clients, Step(c), NEW d \in Clients, d # c
    PROVE  Kept(d)
  <1> USE DEF TypeOK, Kept, known, portal, counts, Goto, Stay, Answer, Works, Fails
  <1>1. ASSUME NEW q \in Requests, Ask(c, q) PROVE Kept(d)
    BY <1>1 DEF Ask, CompleteSetup, LoginWithPassword, Logout, ListLocalCredentials,
        UpsertLocalCredential, DeleteLocalCredential, Begin
  <1>2. CASE Leave(c)
    BY <1>2 DEF Leave
  <1>3. CASE AssertPending(c)
    BY <1>3 DEF AssertPending, Catch, Record
  <1>4. CASE Configure(c)
    BY <1>4 DEF Configure, Catch, Record
  <1>5. CASE UpsertIdentity(c)
    BY <1>5 DEF UpsertIdentity, Catch, Record
  <1>6. CASE SaveCompletedSetup(c)
    BY <1>6 DEF SaveCompletedSetup, Catch, Record
  <1>7. CASE CheckPassword(c)
    BY <1>7 DEF CheckPassword, Catch, Record
  <1>8. CASE LoginSuccess(c)
    BY <1>8 DEF LoginSuccess, Catch, Record
  <1>9. CASE LoginFailed(c)
    BY <1>9 DEF LoginFailed, Catch, Record
  <1>10. CASE ResolveSession(c)
    BY <1>10 DEF ResolveSession, Catch, Record
  <1>11. CASE ReadGrants(c)
    BY <1>11 DEF ReadGrants, Catch, Record
  <1>12. CASE ReadAdminEmail(c)
    BY <1>12 DEF ReadAdminEmail, Catch, Record
  <1>13. CASE SessionDenied(c)
    BY <1>13 DEF SessionDenied, Catch, Record
  <1>14. CASE CheckAcl(c)
    BY <1>14 DEF CheckAcl, Catch, Record
  <1>15. CASE Refuse(c)
    BY <1>15 DEF Refuse, Catch, Record
  <1>16. CASE ListCredentials(c)
    BY <1>16 DEF ListCredentials, Catch, Record
  <1>17. CASE FindContact(c)
    BY <1>17 DEF FindContact, Catch, Record
  <1>18. CASE FindExisting(c)
    BY <1>18 DEF FindExisting, Catch, Record
  <1>19. CASE Provision(c)
    BY <1>19 DEF Provision, Catch, Record
  <1>20. CASE PutCredential(c)
    BY <1>20 DEF PutCredential, Catch, Record
  <1>21. CASE AuditChange(c)
    <2> DEFINE entry == IF pc[c] = "saved" THEN "SAVED" ELSE "DELETED"
    <2>1. log' \in {log, [log EXCEPT ![c] = @ \cup {entry}]}
      BY <1>21 DEF AuditChange
    <2> HIDE DEF entry
    <2>2. log'[d] = log[d]
      BY <2>1
    <2>3. /\ \/ pc' = [pc EXCEPT ![c] = "read back"] /\ outcome' = outcome
             \/ \E how \in {"ok", "error"} :
                    /\ pc' = [pc EXCEPT ![c] = "done"]
                    /\ outcome' = [outcome EXCEPT ![c] = how]
          /\ req' = req /\ user' = user /\ admin' = admin /\ seen' = seen /\ want' = want
      <3> HIDE DEF TypeOK
      <3>1. QED
        BY <1>21 DEF AuditChange
    <2>4. pc'[d] = pc[d] /\ outcome'[d] = outcome[d]
      BY <2>3, ZenonT(60)
    <2>5. QED
      BY <2>2, <2>3, <2>4
  <1>22. CASE ReadBack(c)
    BY <1>22 DEF ReadBack, Catch, Record
  <1>23. CASE FindForDelete(c)
    BY <1>23 DEF FindForDelete, Catch, Record
  <1>24. CASE RemoveCredential(c)
    BY <1>24 DEF RemoveCredential, Catch, Record
  <1>25. QED
    BY <1>1, <1>2, <1>3, <1>4, <1>5, <1>6, <1>7, <1>8, <1>9, <1>10, <1>11, <1>12, <1>13, <1>14, <1>15, <1>16, <1>17, <1>18, <1>19, <1>20, <1>21, <1>22, <1>23, <1>24 DEF Step, Serve
LEMMA Distinct ==
    /\ None \notin Setup /\ None \notin Identity /\ None \notin Requests /\ None \notin User
    /\ None \notin BOOLEAN /\ None \notin Emails /\ None \notin Sources
  BY AccountsAssumption

LEMMA RequestFacts ==
    ASSUME NEW q \in Requests
    PROVE  /\ q \in Request
           /\ q.op \in {"setup", "login"} => q.pwd \in Passwords
           /\ q.op = "upsert" => q.subject \in Contacts /\ EmailOf[q.subject] \in Emails
  BY AccountsAssumption DEF Request

\* What listCredentials finds.
LEMMA EnabledFacts ==
    ASSUME identity \in [Emails -> Identity \cup {None}], NEW s
    PROVE  /\ Held(s) \subseteq Emails
           /\ EnabledOf(s) = None <=> Held(s) = {}
           /\ Held(s) # {} => \E e \in Held(s) : EnabledOf(s) = identity[e].enabled
           /\ EnabledOf(s) \in BOOLEAN \cup {None}
  <1>1. CASE Held(s) = {}
    BY <1>1 DEF EnabledOf
  <1>2. CASE Held(s) # {}
    <2>1. (CHOOSE e \in Held(s) : TRUE) \in Held(s)
      BY <1>2
    <2>2. \A e \in Held(s) : e \in Emails /\ identity[e] \in Identity
      BY DEF Held
    <2>3. \A e \in Held(s) : identity[e].enabled \in BOOLEAN
      BY <2>2 DEF Identity
    <2>4. QED
      BY <1>2, <2>1, <2>2, <2>3, Distinct DEF EnabledOf
  <1>3. QED
    BY <1>1, <1>2

LEMMA EnabledKept ==
    ASSUME NEW c \in Clients, req' = req, identity' = identity
    PROVE  /\ Held(req[c].subject)' = Held(req[c].subject)
           /\ EnabledOf(req[c].subject)' = EnabledOf(req[c].subject)
  <1>1. Held(req[c].subject)' = Held(req[c].subject)
    BY DEF Held
  <1>2. QED
    BY <1>1 DEF EnabledOf

LEMMA GivenType ==
    ASSUME NEW q \in Requests, NEW x \in BOOLEAN \cup {None}
    PROVE  Given(q, x) \in BOOLEAN
  BY RequestFacts DEF Given, Request

\* The history, by where the client goes.
LEMMA PastOf ==
    ASSUME TypeOK, Remember, NEW c \in Clients
    PROVE  /\ past'[c] \in History
           /\ pc'[c] = "idle" => past'[c].moved = {}
           /\ pc'[c] # "idle" => past[c].moved \subseteq past'[c].moved
           /\ pc'[c] # "idle" /\ pc'[c] # pc[c] => past'[c].moved = past[c].moved
           /\ pc'[c] # "idle" /\ pc'[c] = pc[c] =>
                /\ setup' # setup \/ connector' # connector => "setup" \in past'[c].moved
                /\ identity' # identity => "identity" \in past'[c].moved
           /\ pc'[c] # "idle" =>
                /\ past[c].was => past'[c].was
                /\ pc[c] \in {"grants", "admin email"} /\ IsAdmin(user[c]) => past'[c].was
                /\ ~past[c].always => ~past'[c].always
                /\ pc[c] \in {"grants", "admin email"} /\ ~IsAdmin(user[c]) => ~past'[c].always
  <1> DEFINE m == IF pc'[c] # pc[c] THEN past[c].moved
                  ELSE past[c].moved
                       \cup (IF setup' # setup \/ connector' # connector THEN {"setup"} ELSE {})
                       \cup (IF identity' # identity THEN {"identity"} ELSE {})
             w == past[c].was \/ (pc[c] \in {"grants", "admin email"} /\ IsAdmin(user[c]))
             al == past[c].always
                   /\ (pc[c] \in {"grants", "admin email"} => IsAdmin(user[c]))
  <1>1. past[c] \in History
    BY DEF TypeOK
  <1>2. m \subseteq {"setup", "identity"} /\ w \in BOOLEAN /\ al \in BOOLEAN
    BY <1>1 DEF History, IsAdmin, GrantedTo, Installed
  <1>3. past'[c] = IF pc'[c] = "idle" THEN [moved |-> {}, was |-> FALSE, always |-> TRUE]
                   ELSE [moved |-> m, was |-> w, always |-> al]
    BY DEF Remember
  <1>4. /\ past'[c] \in History
        /\ pc'[c] = "idle" => past'[c].moved = {}
        /\ pc'[c] # "idle" => past'[c].moved = m /\ past'[c].was = w /\ past'[c].always = al
    <2> HIDE DEF m, w, al
    <2>1. [moved |-> m, was |-> w, always |-> al] \in History
      BY <1>2 DEF History
    <2>2. [moved |-> {}, was |-> FALSE, always |-> TRUE] \in History
      BY DEF History
    <2> DEFINE r == [moved |-> m, was |-> w, always |-> al]
    <2>3. r \in History /\ r.moved = m /\ r.was = w /\ r.always = al
      BY <2>1
    <2> HIDE DEF r
    <2>4. CASE pc'[c] = "idle"
      BY <1>3, <2>2, <2>4
    <2>5. CASE pc'[c] # "idle"
      <3>1. past'[c] = r
        BY <1>3, <2>5 DEF r
      <3>2. QED
        BY <2>3, <2>5, <3>1
    <2>6. QED
      BY <2>4, <2>5
  <1>5. QED
    BY <1>1, <1>4 DEF History

LEMMA PastType ==
    ASSUME TypeOK, Remember
    PROVE  past' \in [Clients -> History]
  <1>1. past' = [c \in Clients |-> past'[c]]
    BY DEF Remember
  <1>2. QED
    BY <1>1, PastOf

LEMMA HadType ==
    ASSUME TypeOK, Remember
    PROVE  had' \in [Clients -> SUBSET BOOLEAN]
  <1>1. ASSUME NEW s
        PROVE  {identity[e].enabled : e \in Held(s)} \in SUBSET BOOLEAN
    <2>1. \A e \in Held(s) : identity[e] \in Identity
      BY Distinct DEF Held, TypeOK
    <2>2. QED
      BY <2>1 DEF Identity
  <1>2. \A c \in Clients : had[c] \in SUBSET BOOLEAN
    BY DEF TypeOK
  <1>3. QED
    BY <1>1, <1>2 DEF Remember

LEMMA Bounded ==
    ASSUME TypeOK, \/ \E c \in Clients : Step(c)
                   \/ ChangeGrants
                   \/ Crash
                   \/ UNCHANGED vars
    PROVE  asked' \in 0 .. MaxRequests /\ grants' \in 0 .. MaxGrants /\ faults' \in 0 .. MaxFaults
  <1>1. MaxRequests \in Nat /\ MaxFaults \in Nat /\ MaxGrants \in Nat
    BY AccountsAssumption
  <1> DEFINE Counted == /\ asked' = asked \/ (asked < MaxRequests /\ asked' = asked + 1)
                        /\ grants' = grants \/ (grants < MaxGrants /\ grants' = grants + 1)
                        /\ faults' = faults \/ (faults < MaxFaults /\ faults' = faults + 1)
  <1>2. ASSUME NEW c \in Clients, Step(c) PROVE Counted
    <2> USE DEF counts, Works, Fails
    <2>1. ASSUME NEW q \in Requests, Ask(c, q) PROVE Counted
      BY <1>2, <2>1 DEF Ask, CompleteSetup, LoginWithPassword, Logout, ListLocalCredentials,
        UpsertLocalCredential, DeleteLocalCredential, Begin
    <2>2. CASE Leave(c)
      BY <2>2 DEF Leave
    <2>3. CASE AssertPending(c)
      BY <2>3 DEF AssertPending, Catch, Record
    <2>4. CASE Configure(c)
      BY <2>4 DEF Configure, Catch, Record
    <2>5. CASE UpsertIdentity(c)
      BY <2>5 DEF UpsertIdentity, Catch, Record
    <2>6. CASE SaveCompletedSetup(c)
      BY <2>6 DEF SaveCompletedSetup, Catch, Record
    <2>7. CASE CheckPassword(c)
      BY <2>7 DEF CheckPassword, Catch, Record
    <2>8. CASE LoginSuccess(c)
      BY <2>8 DEF LoginSuccess, Catch, Record
    <2>9. CASE LoginFailed(c)
      BY <2>9 DEF LoginFailed, Catch, Record
    <2>10. CASE ResolveSession(c)
      BY <2>10 DEF ResolveSession, Catch, Record
    <2>11. CASE ReadGrants(c)
      BY <2>11 DEF ReadGrants, Catch, Record
    <2>12. CASE ReadAdminEmail(c)
      BY <2>12 DEF ReadAdminEmail, Catch, Record
    <2>13. CASE SessionDenied(c)
      BY <2>13 DEF SessionDenied, Catch, Record
    <2>14. CASE CheckAcl(c)
      BY <2>14 DEF CheckAcl, Catch, Record
    <2>15. CASE Refuse(c)
      BY <2>15 DEF Refuse, Catch, Record
    <2>16. CASE ListCredentials(c)
      BY <2>16 DEF ListCredentials, Catch, Record
    <2>17. CASE FindContact(c)
      BY <2>17 DEF FindContact, Catch, Record
    <2>18. CASE FindExisting(c)
      BY <2>18 DEF FindExisting, Catch, Record
    <2>19. CASE Provision(c)
      BY <2>19 DEF Provision, Catch, Record
    <2>20. CASE PutCredential(c)
      BY <2>20 DEF PutCredential, Catch, Record
    <2>21. CASE AuditChange(c)
      BY <2>21 DEF AuditChange, Catch, Record
    <2>22. CASE ReadBack(c)
      BY <2>22 DEF ReadBack, Catch, Record
    <2>23. CASE FindForDelete(c)
      BY <2>23 DEF FindForDelete, Catch, Record
    <2>24. CASE RemoveCredential(c)
      BY <2>24 DEF RemoveCredential, Catch, Record
    <2>25. QED
      BY <1>2, <2>1, <2>2, <2>3, <2>4, <2>5, <2>6, <2>7, <2>8, <2>9, <2>10, <2>11, <2>12,
      <2>13, <2>14, <2>15, <2>16, <2>17, <2>18, <2>19, <2>20, <2>21, <2>22, <2>23, <2>24
      DEF Step, Serve
  <1>3. ChangeGrants \/ Crash \/ UNCHANGED vars => Counted
    BY DEF ChangeGrants, Crash, Fails, counts, vars
  <1>4. Counted
    BY <1>2, <1>3
  <1>5. asked \in 0 .. MaxRequests /\ grants \in 0 .. MaxGrants /\ faults \in 0 .. MaxFaults
    BY DEF TypeOK
  <1>6. QED
    BY <1>1, <1>4, <1>5

-----------------------------------------------------------------------------
(* Types. *)

\* What a type says but for the counters and the history.
Typed ==
    /\ setup \in Setup \cup {None} /\ connector \in Sources \cup {None}
    /\ identity \in [Emails -> Identity \cup {None}] /\ granted \subseteq Subjects
    /\ cookie \in [Clients -> Emails \cup {None}]
    /\ pc \in [Clients -> Labels] /\ req \in [Clients -> Requests \cup {None}]
    /\ user \in [Clients -> User \cup {None}] /\ admin \in [Clients -> BOOLEAN]
    /\ seen \in [Clients -> BOOLEAN \cup {None}] /\ want \in [Clients -> BOOLEAN \cup {None}]
    /\ log \in [Clients -> SUBSET Events]
    /\ outcome \in [Clients -> {"none", "ok", "conflict", "denied", "refused", "missing",
                                "error"}]

LEMMA EventsKnown == \A x \in {"LOGIN_SUCCESS", "LOGIN_FAILED", "SESSION_MISSING",
        "SESSION_INVALID", "ACL_DENIED", "INPUT_VALIDATION_FAILED", "SAVED", "DELETED"} : x \in Events
  BY DEF Events

LEMMA Noted ==
    ASSUME log \in [Clients -> SUBSET Events], NEW c \in Clients, NEW x \in Events,
           log' = log \/ log' = [log EXCEPT ![c] = @ \cup {x}]
    PROVE  log' \in [Clients -> SUBSET Events] /\ log'[c] \in {log[c], log[c] \cup {x}}
  <1>1. log[c] \cup {x} \in SUBSET Events
    OBVIOUS
  <1>2. QED
    BY <1>1

LEMMA NotSaved ==
    ASSUME NEW l, NEW x \in {"LOGIN_SUCCESS", "LOGIN_FAILED", "SESSION_MISSING",
               "SESSION_INVALID", "ACL_DENIED", "INPUT_VALIDATION_FAILED", "DELETED"},
           "SAVED" \notin l, NEW m \in {l, l \cup {x}}
    PROVE  "SAVED" \notin m
  OBVIOUS

LEMMA MemberType ==
    ASSUME Typed, NEW e \in Emails, identity[e] # None
    PROVE  Member(e) \in User
  BY DEF Typed, Member, User, Identity

\* The identities an installation or an upsert makes.
LEMMA InstallerFacts ==
    ASSUME Typed, NEW q \in Requests, q.op = "setup"
    PROVE  /\ q.email \in Emails /\ q.source \in Sources
           /\ Installer(q) \in [Emails -> Identity \cup {None}]
           /\ Installer(q)[q.email] # None /\ Installer(q)[q.email].enabled
           /\ Installer(q)[q.email].subject = q.email
           /\ \A e \in Emails : e # q.email => Installer(q)[e] = identity[e]
  <1>1. q.email \in Emails /\ q.source \in Sources /\ q.pwd \in Passwords
    BY RequestFacts DEF Request
  <1> DEFINE new == [pwd |-> q.pwd, enabled |-> TRUE, subject |-> q.email]
  <1>2. new \in Identity /\ new.enabled /\ new.subject = q.email
    BY <1>1 DEF Identity, Subjects
  <1>3. new # None
    BY <1>2, Distinct
  <1>4. Installer(q) = [identity EXCEPT ![q.email] = new]
    BY DEF Installer
  <1> HIDE DEF new
  <1>5. QED
    BY <1>1, <1>2, <1>3, <1>4 DEF Typed

LEMMA SavedFacts ==
    ASSUME Typed, NEW c \in Clients, req[c] \in Requests, req[c].op = "upsert",
           want[c] \in BOOLEAN
    PROVE  LET e == EmailOf[req[c].subject]
           IN  /\ e \in Emails /\ req[c].subject \in Contacts
               /\ Saved(c) \in [Emails -> Identity \cup {None}]
               /\ \A i \in Emails : i # e => Saved(c)[i] = identity[i]
               /\ \/ req[c].pwd = None /\ identity[e] = None /\ Saved(c) = identity
                  \/ /\ Saved(c)[e] # None /\ Saved(c)[e].enabled = want[c]
                     /\ Saved(c)[e].subject = req[c].subject
  <1> DEFINE q == req[c]
             e == EmailOf[q.subject]
             word == IF q.pwd = None THEN identity[e].pwd ELSE q.pwd
             new == [pwd |-> word, enabled |-> want[c], subject |-> q.subject]
  <1>1. q.subject \in Contacts /\ e \in Emails
    BY RequestFacts
  <1>2. CASE q.pwd = None /\ identity[e] = None
    BY <1>1, <1>2 DEF Saved, Typed
  <1>3. CASE ~(q.pwd = None /\ identity[e] = None)
    <2>1. Saved(c) = [identity EXCEPT ![e] = new]
      BY <1>3 DEF Saved
    <2>2. word \in Passwords
      BY <1>1, <1>3, RequestFacts DEF Typed, Identity, Request
    <2>3. new \in Identity /\ new.enabled = want[c] /\ new.subject = q.subject
      <3> HIDE DEF word
      <3> QED
        BY <1>1, <2>2 DEF Identity, Subjects
    <2>4. new # None
      BY <2>3, Distinct
    <2> HIDE DEF new
    <2>5. QED
      BY <1>1, <2>1, <2>3, <2>4 DEF Typed
  <1>4. QED
    BY <1>2, <1>3

LEMMA TypedAct ==
    ASSUME Typed, NEW c \in Clients, Routed(c), Step(c)
    PROVE  Typed'
  <1> USE DEF Typed, known, portal, counts, Goto, Stay, Answer, Works, Fails, Labels
  <1>1. ASSUME NEW q \in Requests, Ask(c, q) PROVE Typed'
    <2>1. CASE Logout(c, q)
      BY <2>1 DEF Logout
    <2>2. ASSUME NEW label \in Labels, Begin(c, q, label) PROVE Typed'
      BY <2>2 DEF Begin
    <2>3. QED
      BY <1>1, <2>1, <2>2 DEF Ask, CompleteSetup, LoginWithPassword, ListLocalCredentials,
          UpsertLocalCredential, DeleteLocalCredential
  <1>2. CASE Leave(c)
    BY <1>2 DEF Leave
  <1>3. CASE AssertPending(c)
    BY <1>3 DEF AssertPending, Catch, Record
  <1>4. CASE Configure(c)
    <2>1. req[c].source \in Sources
      BY <1>4, InstallerFacts DEF Configure, Routed, Installing
    <2>2. QED
      BY <1>4, <2>1 DEF Configure
  <1>5. CASE UpsertIdentity(c)
    <2>1. Installer(req[c]) \in [Emails -> Identity \cup {None}]
      BY <1>5, InstallerFacts DEF UpsertIdentity, Routed, Installing
    <2>2. QED
      BY <1>5, <2>1 DEF UpsertIdentity
  <1>6. CASE SaveCompletedSetup(c)
    <2>1. [admin |-> req[c].email, source |-> req[c].source] \in Setup
      BY <1>6, InstallerFacts DEF SaveCompletedSetup, Routed, Installing, Setup
    <2>2. QED
      BY <1>6, <2>1 DEF SaveCompletedSetup
  <1>7. CASE CheckPassword(c)
    <2>1. req[c].email \in Emails
      BY <1>7, RequestFacts DEF CheckPassword, Routed, Request
    <2>2. identity[req[c].email] # None => Member(req[c].email) \in User
      BY <2>1, MemberType
    <2>3. QED
      BY <1>7, <2>2, ZenonT(60) DEF CheckPassword, Catch
  <1>8. CASE LoginSuccess(c)
    <2>1. user[c].email \in Emails
      BY <1>8 DEF LoginSuccess, Routed, Known, User
    <2>2. log' \in [Clients -> SUBSET Events]
      BY <1>8, Noted, EventsKnown DEF LoginSuccess
    <2>3. QED
      BY <1>8, <2>1, <2>2, ZenonT(60) DEF LoginSuccess, Catch
  <1>9. CASE LoginFailed(c)
    <2>1. log' \in [Clients -> SUBSET Events]
      BY <1>9, Noted, EventsKnown DEF LoginFailed, Record
    <2>2. QED
      BY <1>9, <2>1 DEF LoginFailed, Record
  <1>10. CASE ResolveSession(c)
    <2>1. cookie[c] # None /\ identity[cookie[c]] # None => Member(cookie[c]) \in User
      BY MemberType
    <2>2. \/ user' = user
          \/ user' = [user EXCEPT ![c] = Member(cookie[c])] /\ Member(cookie[c]) \in User
      <3> HIDE DEF Typed, Labels
      <3>1. QED
        BY <1>10, <2>1 DEF ResolveSession
    <2>3. user' \in [Clients -> User \cup {None}]
      BY <2>2
    <2>4. \E label \in {"session missing", "grants", "session invalid"} :
            pc' = [pc EXCEPT ![c] = label]
      BY <1>10 DEF ResolveSession
    <2>5. pc' \in [Clients -> Labels]
      BY <2>4
    <2>6. QED
      BY <1>10, <2>3, <2>5 DEF ResolveSession
  <1>11. CASE ReadGrants(c)
    <2>1. GrantedTo(user[c]) \in BOOLEAN
      BY DEF GrantedTo
    <2>2. QED
      BY <1>11, <2>1 DEF ReadGrants, Catch
  <1>12. CASE ReadAdminEmail(c)
    <2>1. Installed(user[c]) \in BOOLEAN
      BY DEF Installed
    <2>2. QED
      BY <1>12, <2>1 DEF ReadAdminEmail, Catch
  <1>13. CASE SessionDenied(c)
    <2>1. log' \in [Clients -> SUBSET Events]
      BY <1>13, Noted, EventsKnown DEF SessionDenied, Record
    <2>2. QED
      BY <1>13, <2>1 DEF SessionDenied, Record
  <1>14. CASE CheckAcl(c)
    <2>1. (IF admin[c] THEN Handler(req[c].op) ELSE "acl denied") \in Labels
      BY <1>14 DEF CheckAcl, Routed, Handler
    <2>2. QED
      BY <1>14, <2>1 DEF CheckAcl
  <1>15. CASE Refuse(c)
    <2>1. log' \in [Clients -> SUBSET Events]
      BY <1>15, Noted, EventsKnown DEF Refuse, Record
    <2>2. QED
      BY <1>15, <2>1 DEF Refuse, Record
  <1>16. CASE ListCredentials(c)
    BY <1>16 DEF ListCredentials, Catch, Record
  <1>17. CASE FindContact(c)
    BY <1>17 DEF FindContact, Catch, Record
  <1>18. CASE FindExisting(c)
    <2>1. EnabledOf(req[c].subject) \in BOOLEAN \cup {None}
      BY EnabledFacts
    <2>2. QED
      BY <1>18, <2>1 DEF FindExisting
  <1>19. CASE Provision(c)
    <2>1. Given(req[c], EnabledOf(req[c].subject)) \in BOOLEAN
      BY <1>19, EnabledFacts, GivenType DEF Provision, Routed
    <2>2. QED
      BY <1>19, <2>1 DEF Provision
  <1>20. CASE PutCredential(c)
    <2>1. Saved(c) \in [Emails -> Identity \cup {None}]
      BY <1>20, SavedFacts DEF PutCredential, Routed, Saving
    <2>2. QED
      BY <1>20, <2>1 DEF PutCredential
  <1>21. CASE AuditChange(c)
    <2>1. log' \in [Clients -> SUBSET Events]
      BY <1>21, Noted, EventsKnown DEF AuditChange, Record
    <2>2. QED
      BY <1>21, <2>1 DEF AuditChange, Record
  <1>22. CASE ReadBack(c)
    BY <1>22 DEF ReadBack, Catch, Record
  <1>23. CASE FindForDelete(c)
    BY <1>23 DEF FindForDelete, Catch, Record
  <1>24. CASE RemoveCredential(c)
    <2>1. Removed(c) \in [Emails -> Identity \cup {None}]
      BY DEF Removed
    <2>2. QED
      BY <1>24, <2>1 DEF RemoveCredential
  <1>25. QED
    BY <1>1, <1>2, <1>3, <1>4, <1>5, <1>6, <1>7, <1>8, <1>9, <1>10, <1>11, <1>12,
      <1>13, <1>14, <1>15, <1>16, <1>17, <1>18, <1>19, <1>20, <1>21, <1>22, <1>23, <1>24
      DEF Step, Serve
-----------------------------------------------------------------------------
(* What a client's own step does to its request. *)
LEMMA RecordIs ==
    ASSUME TypeOK, NEW c \in Clients, NEW event, NEW how, Record(c, event, how)
    PROVE  /\ pc'[c] = "done"
           /\ \/ outcome'[c] = how /\ log'[c] = log[c] \cup {event}
              \/ outcome'[c] = "error" /\ log'[c] \in {log[c], log[c] \cup {event}}
  BY DEF TypeOK, Record, Answer, Goto, Works, Fails

LEMMA RoutedAct ==
    ASSUME TypeOK, NEW c \in Clients, Routed(c), Step(c)
    PROVE  Routed(c)'
  <1> USE DEF TypeOK, known, portal, counts, Goto, Stay, Answer, Works, Fails, Routed, Installing, Saving, Deleting, Known
  <1>1. ASSUME NEW q \in Requests, Ask(c, q) PROVE Routed(c)'
    BY <1>1, Distinct, ZenonT(60) DEF Ask, CompleteSetup, LoginWithPassword, Logout, ListLocalCredentials,
        UpsertLocalCredential, DeleteLocalCredential, Begin
  <1>2. CASE Leave(c)
    BY <1>2 DEF Leave
  <1>3. CASE AssertPending(c)
    BY <1>3 DEF AssertPending, Catch, Record
  <1>4. CASE Configure(c)
    BY <1>4 DEF Configure, Catch, Record
  <1>5. CASE UpsertIdentity(c)
    BY <1>5 DEF UpsertIdentity, Catch, Record
  <1>6. CASE SaveCompletedSetup(c)
    BY <1>6 DEF SaveCompletedSetup, Catch, Record
  <1>7. CASE CheckPassword(c)
    <2>1. req[c].email \in Emails
      BY <1>7, RequestFacts DEF CheckPassword, Routed, Request
    <2>2. identity[req[c].email] # None => Member(req[c].email) \in User
      BY <2>1, MemberType DEF Typed
    <2>3. QED
      BY <1>7, <2>2 DEF CheckPassword, Catch
  <1>8. CASE LoginSuccess(c)
    BY <1>8 DEF LoginSuccess, Catch, Record
  <1>9. CASE LoginFailed(c)
    BY <1>9 DEF LoginFailed, Catch, Record
  <1>10. CASE ResolveSession(c)
    <2>1. cookie[c] # None /\ identity[cookie[c]] # None => Member(cookie[c]) \in User
      BY MemberType DEF Typed
    <2>2. QED
      BY <1>10, <2>1 DEF ResolveSession
  <1>11. CASE ReadGrants(c)
    BY <1>11 DEF ReadGrants, Catch, Record
  <1>12. CASE ReadAdminEmail(c)
    BY <1>12 DEF ReadAdminEmail, Catch, Record
  <1>13. CASE SessionDenied(c)
    BY <1>13 DEF SessionDenied, Catch, Record
  <1>14. CASE CheckAcl(c)
    BY <1>14 DEF CheckAcl, Catch, Record, Handler
  <1>15. CASE Refuse(c)
    BY <1>15 DEF Refuse, Catch, Record
  <1>16. CASE ListCredentials(c)
    BY <1>16 DEF ListCredentials, Catch, Record
  <1>17. CASE FindContact(c)
    BY <1>17 DEF FindContact, Catch, Record
  <1>18. CASE FindExisting(c)
    BY <1>18 DEF FindExisting, Catch, Record
  <1>19. CASE Provision(c)
    <2>1. Given(req[c], EnabledOf(req[c].subject)) \in BOOLEAN
      BY <1>19, EnabledFacts, GivenType DEF Provision
    <2>2. QED
      BY <1>19, <2>1 DEF Provision
  <1>20. CASE PutCredential(c)
    BY <1>20 DEF PutCredential, Catch, Record
  <1>21. CASE AuditChange(c)
    BY <1>21, ZenonT(60) DEF AuditChange, Catch, Record
  <1>22. CASE ReadBack(c)
    BY <1>22 DEF ReadBack, Catch, Record
  <1>23. CASE FindForDelete(c)
    BY <1>23 DEF FindForDelete, Catch, Record
  <1>24. CASE RemoveCredential(c)
    BY <1>24 DEF RemoveCredential, Catch, Record
  <1>25. QED
    BY <1>1, <1>2, <1>3, <1>4, <1>5, <1>6, <1>7, <1>8, <1>9, <1>10, <1>11, <1>12,
      <1>13, <1>14, <1>15, <1>16, <1>17, <1>18, <1>19, <1>20, <1>21, <1>22, <1>23, <1>24
      DEF Step, Serve

LEMMA RecordedAct ==
    ASSUME TypeOK, NEW c \in Clients, Routed(c), Recorded(c), Step(c)
    PROVE  Recorded(c)'
  <1> USE DEF TypeOK, known, portal, counts, Goto, Stay, Answer, Works, Fails, Routed, Recorded, Installing, Saving, Deleting, Known
  <1>1. ASSUME NEW q \in Requests, Ask(c, q) PROVE Recorded(c)'
    BY <1>1 DEF Ask, CompleteSetup, LoginWithPassword, Logout, ListLocalCredentials,
        UpsertLocalCredential, DeleteLocalCredential, Begin
  <1>2. CASE Leave(c)
    BY <1>2 DEF Leave
  <1>3. CASE AssertPending(c)
    BY <1>3 DEF AssertPending, Catch, Record
  <1>4. CASE Configure(c)
    BY <1>4 DEF Configure, Catch, Record
  <1>5. CASE UpsertIdentity(c)
    BY <1>5 DEF UpsertIdentity, Catch, Record
  <1>6. CASE SaveCompletedSetup(c)
    BY <1>6 DEF SaveCompletedSetup, Catch, Record
  <1>7. CASE CheckPassword(c)
    BY <1>7 DEF CheckPassword, Catch, Record
  <1>8. CASE LoginSuccess(c)
    <2>1. /\ req' = req /\ log[c] = {} /\ req[c].op = "login" /\ outcome[c] = "none"
          /\ log' = log \/ log' = [log EXCEPT ![c] = log[c] \cup {"LOGIN_SUCCESS"}]
      BY <1>8 DEF LoginSuccess
    <2>2. log'[c] \in {log[c], log[c] \cup {"LOGIN_SUCCESS"}}
      BY <2>1, Noted, EventsKnown
    <2>3. \/ pc'[c] = "done" /\ outcome'[c] = "ok" /\ log'[c] = log[c] \cup {"LOGIN_SUCCESS"}
          \/ pc'[c] = "login failed" /\ outcome' = outcome
      BY <1>8, <2>1 DEF LoginSuccess, Catch
    <2>4. QED
      BY <2>1, <2>2, <2>3
  <1>9. CASE LoginFailed(c)
    <2>1. req' = req /\ log[c] \subseteq {"LOGIN_SUCCESS"} /\ pc'[c] = "done"
          /\ \/ outcome'[c] = "denied" /\ log'[c] = log[c] \cup {"LOGIN_FAILED"}
             \/ outcome'[c] = "error"
      BY <1>9, RecordIs DEF LoginFailed
    <2>2. QED
      BY <2>1
  <1>10. CASE ResolveSession(c)
    BY <1>10 DEF ResolveSession, Catch, Record
  <1>11. CASE ReadGrants(c)
    BY <1>11 DEF ReadGrants, Catch, Record
  <1>12. CASE ReadAdminEmail(c)
    BY <1>12 DEF ReadAdminEmail, Catch, Record
  <1>13. CASE SessionDenied(c)
    <2>1. PICK event \in {"SESSION_MISSING", "SESSION_INVALID", "ACL_DENIED"} :
               Record(c, event, "denied")
      BY <1>13 DEF SessionDenied
    <2>2. req' = req /\ log[c] = {}
      BY <1>13 DEF SessionDenied
    <2>3. /\ pc'[c] = "done"
          /\ \/ outcome'[c] = "denied" /\ log'[c] = log[c] \cup {event}
             \/ outcome'[c] = "error"
      BY <2>1, RecordIs
    <2>4. QED
      BY <2>2, <2>3
  <1>14. CASE CheckAcl(c)
    BY <1>14 DEF CheckAcl, Catch, Record, Handler
  <1>15. CASE Refuse(c)
    <2>1. req' = req /\ log[c] = {} /\ pc'[c] = "done"
          /\ \/ outcome'[c] = "refused" /\ log'[c] = log[c] \cup {"INPUT_VALIDATION_FAILED"}
             \/ outcome'[c] = "error"
      BY <1>15, RecordIs DEF Refuse
    <2>2. QED
      BY <2>1
  <1>16. CASE ListCredentials(c)
    BY <1>16 DEF ListCredentials, Catch, Record
  <1>17. CASE FindContact(c)
    BY <1>17 DEF FindContact, Catch, Record
  <1>18. CASE FindExisting(c)
    BY <1>18 DEF FindExisting, Catch, Record
  <1>19. CASE Provision(c)
    BY <1>19 DEF Provision, Catch, Record
  <1>20. CASE PutCredential(c)
    BY <1>20 DEF PutCredential, Catch, Record
  <1>21. CASE AuditChange(c)
    <2>1. CASE pc[c] = "saved"
      <3>1. req' = req /\ log[c] = {} /\ req[c].op = "upsert"
            /\ \/ pc'[c] = "read back" /\ outcome' = outcome /\ log'[c] = log[c] \cup {"SAVED"}
               \/ pc'[c] = "done" /\ outcome'[c] = "error"
        BY <1>21, <2>1 DEF AuditChange
      <3>2. outcome[c] = "none"
        BY <2>1
      <3>3. QED
        BY <3>1, <3>2
    <2>2. CASE pc[c] = "removed"
      <3>1. req' = req /\ log[c] = {} /\ req[c].op = "delete" /\ pc'[c] = "done"
            /\ \/ outcome'[c] = "ok" /\ log'[c] = {"DELETED"}
               \/ outcome'[c] = "error"
        BY <1>21, <2>2 DEF AuditChange
      <3>2. QED
        BY <3>1
    <2>3. QED
      BY <1>21, <2>1, <2>2 DEF AuditChange
  <1>22. CASE ReadBack(c)
    BY <1>22 DEF ReadBack, Catch, Record
  <1>23. CASE FindForDelete(c)
    BY <1>23 DEF FindForDelete, Catch, Record
  <1>24. CASE RemoveCredential(c)
    BY <1>24 DEF RemoveCredential, Catch, Record
  <1>25. QED
    BY <1>1, <1>2, <1>3, <1>4, <1>5, <1>6, <1>7, <1>8, <1>9, <1>10, <1>11, <1>12,
      <1>13, <1>14, <1>15, <1>16, <1>17, <1>18, <1>19, <1>20, <1>21, <1>22, <1>23, <1>24
      DEF Step, Serve
LEMMA EntitledAct ==
    ASSUME TypeOK, Remember, NEW c \in Clients, Routed(c), Entitled(c), Step(c)
    PROVE  Entitled(c)'
  <1>0. /\ pc'[c] = "idle" => past'[c].moved = {}
        /\ pc'[c] # "idle" /\ pc'[c] # pc[c] => past'[c].moved = past[c].moved
        /\ pc'[c] # "idle" =>
            /\ past[c].was => past'[c].was
            /\ pc[c] \in {"grants", "admin email"} /\ IsAdmin(user[c]) => past'[c].was
            /\ ~past[c].always => ~past'[c].always
            /\ pc[c] \in {"grants", "admin email"} /\ ~IsAdmin(user[c]) => ~past'[c].always
    BY PastOf
  <1> USE DEF TypeOK, known, portal, counts, Goto, Stay, Answer, Works, Fails, Routed, Entitled, Admitted, Installing, Saving, Deleting, Known
  <1>1. ASSUME NEW q \in Requests, Ask(c, q) PROVE Entitled(c)'
    BY <1>0, <1>1, ZenonT(60) DEF Ask, CompleteSetup, LoginWithPassword, Logout, ListLocalCredentials,
        UpsertLocalCredential, DeleteLocalCredential, Begin
  <1>2. CASE Leave(c)
    BY <1>0, <1>2 DEF Leave
  <1>3. CASE AssertPending(c)
    BY <1>0, <1>3 DEF AssertPending, Catch, Record
  <1>4. CASE Configure(c)
    BY <1>0, <1>4 DEF Configure, Catch, Record
  <1>5. CASE UpsertIdentity(c)
    BY <1>0, <1>5 DEF UpsertIdentity, Catch, Record
  <1>6. CASE SaveCompletedSetup(c)
    BY <1>0, <1>6 DEF SaveCompletedSetup, Catch, Record
  <1>7. CASE CheckPassword(c)
    BY <1>0, <1>7 DEF CheckPassword, Catch, Record
  <1>8. CASE LoginSuccess(c)
    BY <1>0, <1>8, ZenonT(60) DEF LoginSuccess, Catch, Record
  <1>9. CASE LoginFailed(c)
    BY <1>0, <1>9 DEF LoginFailed, Catch, Record
  <1>10. CASE ResolveSession(c)
    BY <1>0, <1>10 DEF ResolveSession, Catch, Record
  <1>11. CASE ReadGrants(c)
    BY <1>0, <1>11 DEF ReadGrants, Catch, Record, IsAdmin, Installed
  <1>12. CASE ReadAdminEmail(c)
    BY <1>0, <1>12, ZenonT(60) DEF ReadAdminEmail, Catch, Record, IsAdmin, Installed
  <1>13. CASE SessionDenied(c)
    BY <1>0, <1>13 DEF SessionDenied, Catch, Record
  <1>14. CASE CheckAcl(c)
    BY <1>0, <1>14 DEF CheckAcl, Catch, Record, Handler
  <1>15. CASE Refuse(c)
    BY <1>0, <1>15 DEF Refuse, Catch, Record
  <1>16. CASE ListCredentials(c)
    BY <1>0, <1>16 DEF ListCredentials, Catch, Record
  <1>17. CASE FindContact(c)
    BY <1>0, <1>17 DEF FindContact, Catch, Record
  <1>18. CASE FindExisting(c)
    BY <1>0, <1>18 DEF FindExisting, Catch, Record
  <1>19. CASE Provision(c)
    BY <1>0, <1>19 DEF Provision, Catch, Record
  <1>20. CASE PutCredential(c)
    BY <1>0, <1>20 DEF PutCredential, Catch, Record
  <1>21. CASE AuditChange(c)
    BY <1>0, <1>21 DEF AuditChange, Catch, Record
  <1>22. CASE ReadBack(c)
    BY <1>0, <1>22 DEF ReadBack, Catch, Record
  <1>23. CASE FindForDelete(c)
    BY <1>0, <1>23 DEF FindForDelete, Catch, Record
  <1>24. CASE RemoveCredential(c)
    BY <1>0, <1>24 DEF RemoveCredential, Catch, Record
  <1>25. QED
    BY <1>1, <1>2, <1>3, <1>4, <1>5, <1>6, <1>7, <1>8, <1>9, <1>10, <1>11, <1>12,
      <1>13, <1>14, <1>15, <1>16, <1>17, <1>18, <1>19, <1>20, <1>21, <1>22, <1>23, <1>24
      DEF Step, Serve

LEMMA WrittenAct ==
    ASSUME TypeOK, Remember, NEW c \in Clients, Routed(c), Recorded(c), Written(c), Step(c)
    PROVE  Written(c)'
  <1>0. /\ pc'[c] = "idle" => past'[c].moved = {}
        /\ pc'[c] # "idle" /\ pc'[c] # pc[c] => past'[c].moved = past[c].moved
    BY PastOf
  <1> USE DEF TypeOK, known, portal, counts, Goto, Stay, Answer, Works, Fails, Routed, Recorded, Written, Installing, Saving, Deleting, Known
  <1>1. ASSUME NEW q \in Requests, Ask(c, q) PROVE Written(c)'
    BY <1>0, <1>1 DEF Ask, CompleteSetup, LoginWithPassword, Logout, ListLocalCredentials,
        UpsertLocalCredential, DeleteLocalCredential, Begin
  <1>2. CASE Leave(c)
    BY <1>0, <1>2 DEF Leave
  <1>3. CASE AssertPending(c)
    BY <1>0, <1>3 DEF AssertPending, Catch, Record
  <1>4. CASE Configure(c)
    BY <1>0, <1>4 DEF Configure, Catch, Record
  <1>5. CASE UpsertIdentity(c)
    BY <1>0, <1>5 DEF UpsertIdentity, Catch, Record
  <1>6. CASE SaveCompletedSetup(c)
    BY <1>0, <1>6 DEF SaveCompletedSetup, Catch, Record
  <1>7. CASE CheckPassword(c)
    BY <1>0, <1>7 DEF CheckPassword, Catch, Record
  <1>8. CASE LoginSuccess(c)
    <2>1. log' = log \/ log' = [log EXCEPT ![c] = log[c] \cup {"LOGIN_SUCCESS"}]
      BY <1>0, <1>8 DEF LoginSuccess
    <2>2. log'[c] \in {log[c], log[c] \cup {"LOGIN_SUCCESS"}}
      BY <2>1, Noted, EventsKnown
    <2>3. log[c] = {} /\ pc'[c] \in {"done", "login failed", "session invalid"}
      BY <1>0, <1>8 DEF LoginSuccess, Catch
    <2>4. "SAVED" \notin log'[c]
      BY <2>2, <2>3, NotSaved
    <2>5. QED
      BY <2>3, <2>4
  <1>9. CASE LoginFailed(c)
    <2>1. log[c] \subseteq {"LOGIN_SUCCESS"} /\ Record(c, "LOGIN_FAILED", "denied")
      BY <1>0, <1>9 DEF LoginFailed
    <2>2. pc'[c] = "done" /\ log'[c] \in {log[c], log[c] \cup {"LOGIN_FAILED"}}
      BY <2>1, RecordIs
    <2>3. "SAVED" \notin log'[c]
      BY <2>1, <2>2, NotSaved
    <2>4. QED
      BY <2>2, <2>3
  <1>10. CASE ResolveSession(c)
    BY <1>0, <1>10 DEF ResolveSession, Catch, Record
  <1>11. CASE ReadGrants(c)
    BY <1>0, <1>11 DEF ReadGrants, Catch, Record
  <1>12. CASE ReadAdminEmail(c)
    BY <1>0, <1>12 DEF ReadAdminEmail, Catch, Record
  <1>13. CASE SessionDenied(c)
    <2>1. PICK event \in {"SESSION_MISSING", "SESSION_INVALID", "ACL_DENIED"} :
               log[c] = {} /\ Record(c, event, "denied")
      BY <1>0, <1>13 DEF SessionDenied
    <2>2. pc'[c] = "done" /\ log'[c] \in {log[c], log[c] \cup {event}}
      BY <2>1, RecordIs
    <2>3. "SAVED" \notin log'[c]
      BY <2>1, <2>2, NotSaved
    <2>4. QED
      BY <2>2, <2>3
  <1>14. CASE CheckAcl(c)
    BY <1>0, <1>14 DEF CheckAcl, Catch, Record, Handler
  <1>15. CASE Refuse(c)
    <2>1. log[c] = {} /\ Record(c, "INPUT_VALIDATION_FAILED", "refused")
      BY <1>0, <1>15 DEF Refuse
    <2>2. pc'[c] = "done" /\ log'[c] \in {log[c], log[c] \cup {"INPUT_VALIDATION_FAILED"}}
      BY <2>1, RecordIs
    <2>3. "SAVED" \notin log'[c]
      BY <2>1, <2>2, NotSaved
    <2>4. QED
      BY <2>2, <2>3
  <1>16. CASE ListCredentials(c)
    BY <1>0, <1>16 DEF ListCredentials, Catch, Record
  <1>17. CASE FindContact(c)
    BY <1>0, <1>17 DEF FindContact, Catch, Record
  <1>18. CASE FindExisting(c)
    <2> DEFINE current == EnabledOf(req[c].subject)
    <2>1. /\ req' = req /\ identity' = identity /\ log'[c] = {}
          /\ \/ pc'[c] = "done"
             \/ pc'[c] = "provision" /\ seen'[c] = current
      BY <1>0, <1>18 DEF FindExisting
    <2>2. current' = current
      BY <2>1, EnabledKept
    <2> HIDE DEF current
    <2>3. QED
      BY <2>1, <2>2 DEF current
  <1>19. CASE Provision(c)
    <2> DEFINE current == EnabledOf(req[c].subject)
    <2>1. /\ req' = req /\ identity' = identity /\ seen' = seen /\ log'[c] = {}
          /\ pc[c] = "provision" /\ pc'[c] # pc[c]
          /\ \/ pc'[c] \in {"refuse", "done"}
             \/ /\ pc'[c] = "put" /\ (current # None \/ req[c].pwd # None)
                /\ want'[c] = Given(req[c], current)
      BY <1>0, <1>19 DEF Provision
    <2>2. current' = current
      BY <2>1 DEF EnabledOf, Held
    <2>3. Given(req[c], current)' = Given(req[c], current)
      BY <2>1, <2>2 DEF Given
    <2>4. "identity" \notin past'[c].moved => seen[c] = current
      BY <1>0, <1>0, <2>1
    <2> HIDE DEF current
    <2>5. QED
      BY <2>1, <2>2, <2>3, <2>4 DEF current
  <1>20. CASE PutCredential(c)
    <2>1. /\ pc[c] = "put" /\ req[c].op = "upsert" /\ req' = req /\ want' = want /\ seen' = seen
          /\ log'[c] = {} /\ req[c] \in Requests
          /\ pc'[c] = "done" \/ (pc'[c] = "saved" /\ identity' = Saved(c))
      BY <1>0, <1>20 DEF PutCredential
    <2>2. CASE pc'[c] = "done"
      BY <2>1, <2>2
    <2>3. ASSUME pc'[c] = "saved", "identity" \notin past'[c].moved
          PROVE  (Held(req[c].subject) # {})' /\ want'[c] = Given(req[c], seen[c])'
      <3>1. /\ seen[c] = EnabledOf(req[c].subject) /\ want[c] = Given(req[c], seen[c])
            /\ req[c].pwd = None => seen[c] # None
        BY <1>0, <1>0, <2>1, <2>3
      <3>2. want[c] \in BOOLEAN
        BY <2>1, <3>1, EnabledFacts, GivenType
      <3>3. /\ EmailOf[req[c].subject] \in Emails
            /\ \/ req[c].pwd = None /\ identity' = identity
               \/ /\ identity'[EmailOf[req[c].subject]] # None
                  /\ identity'[EmailOf[req[c].subject]].subject = req[c].subject
        BY <2>1, <2>3, <3>2, SavedFacts DEF Typed
      <3>4. (Held(req[c].subject) # {})'
        <4>1. CASE req[c].pwd = None /\ identity' = identity
          BY <2>1, <3>1, <4>1, EnabledFacts DEF Held
        <4>2. CASE ~(req[c].pwd = None /\ identity' = identity)
          BY <2>1, <3>3, <4>2 DEF Held
        <4>3. QED
          BY <4>1, <4>2
      <3>5. QED
        BY <2>1, <3>1, <3>4 DEF Given
    <2>4. QED
      BY <2>1, <2>2, <2>3
  <1>21. CASE AuditChange(c)
    <2>1. CASE pc[c] = "saved"
      <3>1. /\ req' = req /\ identity' = identity /\ want' = want /\ seen' = seen
            /\ \/ pc'[c] = "read back" /\ outcome'[c] # "missing"
               \/ pc'[c] = "done" /\ outcome'[c] = "error"
        BY <1>0, <1>21, <2>1, ZenonT(60) DEF AuditChange
      <3>2. "identity" \notin past'[c].moved =>
              want[c] = Given(req[c], seen[c]) /\ Held(req[c].subject) # {}
        BY <1>0, <1>0, <2>1, <3>1
      <3>3. Given(req[c], seen[c])' = Given(req[c], seen[c]) /\ Held(req[c].subject)' = Held(req[c].subject)
        BY <3>1 DEF Given, Held
      <3>4. QED
        BY <3>1, <3>2, <3>3
    <2>2. CASE pc[c] = "removed"
      <3>1. pc'[c] = "done" /\ log'[c] \in {log[c], log[c] \cup {"DELETED"}} /\ log[c] = {}
        BY <1>0, <1>21, <2>2, Noted, EventsKnown DEF AuditChange
      <3>2. "SAVED" \notin log'[c]
        BY <3>1, NotSaved
      <3>3. QED
        BY <3>1, <3>2
    <2>3. QED
      BY <1>0, <1>21, <2>1, <2>2 DEF AuditChange
  <1>22. CASE ReadBack(c)
    BY <1>0, <1>22 DEF ReadBack, Catch, Record
  <1>23. CASE FindForDelete(c)
    BY <1>0, <1>23 DEF FindForDelete, Catch, Record
  <1>24. CASE RemoveCredential(c)
    BY <1>0, <1>24 DEF RemoveCredential, Catch, Record
  <1>25. QED
    BY <1>1, <1>2, <1>3, <1>4, <1>5, <1>6, <1>7, <1>8, <1>9, <1>10, <1>11, <1>12,
      <1>13, <1>14, <1>15, <1>16, <1>17, <1>18, <1>19, <1>20, <1>21, <1>22, <1>23, <1>24
      DEF Step, Serve
-----------------------------------------------------------------------------
(* The steps of others, and the whole step. *)

LEMMA KeptInv ==
    ASSUME TypeOK, Remember, NEW c \in Clients, Kept(c),
           Routed(c), Recorded(c), Written(c), Entitled(c)
    PROVE  Routed(c)' /\ Recorded(c)' /\ Written(c)' /\ Entitled(c)'
  <1>1. /\ pc'[c] = "idle" => past'[c].moved = {}
        /\ pc'[c] # "idle" => past[c].moved \subseteq past'[c].moved
        /\ pc'[c] # "idle" =>
            /\ setup' # setup \/ connector' # connector => "setup" \in past'[c].moved
            /\ identity' # identity => "identity" \in past'[c].moved
        /\ pc'[c] # "idle" =>
            /\ past[c].was => past'[c].was
            /\ ~past[c].always => ~past'[c].always
    BY PastOf DEF Kept
  <1>2. Routed(c)' /\ Recorded(c)'
    BY DEF Kept, Routed, Recorded
  <1>3. Written(c)'
    <2>1. CASE pc[c] = "idle"
      BY <2>1 DEF Kept, Written, Recorded
    <2>2. CASE pc[c] # "idle" /\ identity' # identity
      BY <1>1, <2>2 DEF Kept, Written
    <2>3. CASE pc[c] # "idle" /\ identity' = identity
      <3> DEFINE current == EnabledOf(req[c].subject)
                 held == Held(req[c].subject)
                 given == Given(req[c], seen[c])
      <3>1. current' = current /\ held' = held
        <4>1. req'[c] = req[c]
          BY DEF Kept
        <4>2. held' = held
          BY <2>3, <4>1 DEF Held
        <4>3. QED
          BY <4>1, <4>2, <2>3 DEF EnabledOf
      <3>2. given' = given
        BY DEF Given, Kept
      <3>3. req'[c].pwd = req[c].pwd
        BY DEF Kept
      <3>4. "identity" \notin past'[c].moved => "identity" \notin past[c].moved
        BY <1>1, <2>3 DEF Kept
      <3> HIDE DEF current, held, given
      <3>5. QED
        BY <3>1, <3>2, <3>3, <3>4 DEF Kept, Written, current, held, given
    <2>4. QED
      BY <2>1, <2>2, <2>3
  <1>4. Entitled(c)'
    <2>1. CASE pc[c] = "idle"
      BY <2>1 DEF Kept, Entitled, Admitted, Saving, Deleting
    <2>2. CASE pc[c] # "idle" /\ setup' # setup
      BY <1>1, <2>2 DEF Kept, Entitled, Admitted, Saving, Deleting
    <2>3. CASE pc[c] # "idle" /\ setup' = setup
      BY <1>1, <2>3 DEF Kept, Entitled, Admitted, Saving, Deleting, Installed
    <2>4. QED
      BY <2>1, <2>2, <2>3
  <1>5. QED
    BY <1>2, <1>3, <1>4

LEMMA CrashInv ==
    ASSUME TypeOK, Remember, NEW c \in Clients, Crash,
           Routed(c), Recorded(c), Written(c), Entitled(c)
    PROVE  Routed(c)' /\ Recorded(c)' /\ Written(c)' /\ Entitled(c)'
  <1>1. CASE pc[c] \in {"idle", "done"}
    <2>1. Kept(c)
      BY <1>1 DEF Crash, Kept, known
    <2>2. QED
      BY <2>1, KeptInv
  <1>2. CASE pc[c] \notin {"idle", "done"}
    <2>1. /\ pc'[c] = "done" /\ outcome'[c] = "error" /\ req' = req /\ log' = log
          /\ want' = want /\ seen' = seen
      BY <1>2 DEF Crash, known
    <2>2. past'[c].moved = past[c].moved
      BY <1>2, <2>1, PastOf
    <2>3. Routed(c)' /\ Recorded(c)' /\ Entitled(c)'
      BY <1>2, <2>1 DEF Routed, Recorded, Entitled, Installing, Saving, Deleting, Admitted, Known
    <2>4. Written(c)'
      <3>1. "SAVED" \in log[c] => pc[c] = "read back"
        BY <1>2 DEF Recorded
      <3>2. Given(req[c], seen[c])' = Given(req[c], seen[c])
        BY <2>1 DEF Given
      <3>3. QED
        BY <2>1, <2>2, <3>1, <3>2 DEF Written
    <2>5. QED
      BY <2>3, <2>4
  <1>3. QED
    BY <1>1, <1>2

LEMMA InvInit == Init => Inv
  <1> SUFFICES ASSUME Init PROVE Inv
    OBVIOUS
  <1>1. PICK p \in Portals :
            /\ setup = p.setup /\ connector = p.source
            /\ identity = p.identity /\ granted = p.granted
            /\ cookie \in [Clients -> {e \in Emails : p.identity[e] # None} \cup {None}]
    BY DEF Init
  <1>2. p \in Portal
    BY AccountsAssumption
  <1>3. /\ setup \in Setup \cup {None} /\ connector \in Sources \cup {None}
        /\ identity \in [Emails -> Identity \cup {None}] /\ granted \subseteq Subjects
        /\ cookie \in [Clients -> Emails \cup {None}]
    BY <1>1, <1>2 DEF Portal
  <1>4. past \in [Clients -> History]
    <2>1. [moved |-> {}, was |-> FALSE, always |-> TRUE] \in History
      BY DEF History
    <2>2. QED
      BY <2>1 DEF Init
  <1>5. asked \in 0 .. MaxRequests /\ grants \in 0 .. MaxGrants /\ faults \in 0 .. MaxFaults
    BY AccountsAssumption DEF Init
  <1>6. TypeOK
    BY <1>3, <1>4, <1>5 DEF Init, TypeOK, Labels
  <1>7. ASSUME NEW c \in Clients
        PROVE  Routed(c) /\ Recorded(c) /\ Written(c) /\ Entitled(c)
    BY DEF Init, Routed, Recorded, Written, Entitled, Installing, Saving, Deleting, Admitted, Known
  <1>8. QED
    BY <1>6, <1>7 DEF Inv

LEMMA InvStep == Inv /\ [Next]_vars => Inv'
  <1> SUFFICES ASSUME Inv, [Next]_vars PROVE Inv'
    OBVIOUS
  <1>1. TypeOK /\ \A c \in Clients : Routed(c) /\ Recorded(c) /\ Written(c) /\ Entitled(c)
    BY DEF Inv
  <1>2. CASE UNCHANGED vars
    <2> USE DEF vars, portal, known, counts
    <2>1. TypeOK'
      BY <1>1, <1>2 DEF TypeOK
    <2>2. ASSUME NEW c \in Clients
          PROVE  Routed(c)' /\ Recorded(c)' /\ Written(c)' /\ Entitled(c)'
      <3>1. Routed(c)' /\ Recorded(c)'
        BY <1>1, <1>2 DEF Routed, Recorded
      <3>2. /\ EnabledOf(req[c].subject)' = EnabledOf(req[c].subject)
            /\ Held(req[c].subject)' = Held(req[c].subject)
        BY <1>2, EnabledKept
      <3>3. Given(req[c], seen[c])' = Given(req[c], seen[c])
        BY <1>2 DEF Given
      <3>4. Written(c)'
        BY <1>1, <1>2, <3>2, <3>3 DEF Written
      <3>5. Entitled(c)'
        BY <1>1, <1>2 DEF Entitled, Installed
      <3>6. QED
        BY <3>1, <3>4, <3>5
    <2>3. QED
      BY <2>1, <2>2 DEF Inv
  <1>3. CASE Next
    <2>1. Remember /\ ((\E c \in Clients : Step(c)) \/ ChangeGrants \/ Crash)
      BY <1>3, NextIs
    <2>2. past' \in [Clients -> History] /\ had' \in [Clients -> SUBSET BOOLEAN]
      BY <1>1, <2>1, PastType, HadType
    <2>3. Typed'
      <3>1. ASSUME NEW c \in Clients, Step(c) PROVE Typed'
        BY <1>1, <3>1, TypedAct DEF TypeOK, Typed
      <3>2. CASE ChangeGrants
        BY <1>1, <3>2 DEF ChangeGrants, TypeOK, Typed, known, Subjects
      <3>3. CASE Crash
        BY <1>1, <3>3 DEF Crash, TypeOK, Typed, known, portal, Labels
      <3>4. QED
        BY <2>1, <3>1, <3>2, <3>3
    <2>4. TypeOK'
      BY <1>1, <2>1, <2>2, <2>3, Bounded DEF TypeOK, Typed
    <2>5. ASSUME NEW c \in Clients
          PROVE  Routed(c)' /\ Recorded(c)' /\ Written(c)' /\ Entitled(c)'
      <3>1. CASE Step(c)
        BY <1>1, <2>1, <3>1, RoutedAct, RecordedAct, WrittenAct, EntitledAct
      <3>2. ASSUME NEW d \in Clients, d # c, Step(d) PROVE Kept(c)
        BY <1>1, <3>2, OthersKept
      <3>3. CASE ChangeGrants
        BY <1>1, <2>1, <3>3, KeptInv DEF ChangeGrants, Kept, known
      <3>4. CASE Crash
        BY <1>1, <2>1, <3>4, CrashInv
      <3>5. QED
        BY <1>1, <2>1, <3>1, <3>2, <3>3, <3>4, KeptInv
    <2>6. QED
      BY <2>4, <2>5 DEF Inv
  <1>4. QED
    BY <1>2, <1>3

-----------------------------------------------------------------------------
(* Theorems. *)

\* Every variable keeps its type.
THEOREM TypeCorrect == Spec => []TypeOK
  <1>1. Inv => TypeOK
    BY DEF Inv
  <1>2. QED
    BY <1>1, InvInit, InvStep, PTL DEF Spec

\* Credentials are changed for someone who was an administrator while the request was
\* authorised, and one who was throughout is not refused (AclGuard).
THEOREM Administrators == Spec => []AdministratorsOnly
  <1>1. Inv => AdministratorsOnly
    BY DEF Inv, Entitled, AdministratorsOnly, Admitted, Saving, Deleting
  <1>2. QED
    BY <1>1, InvInit, InvStep, PTL DEF Spec

\* What a client is told of its login, of a refusal or of a change is on record
\* (AuthController, AuditExceptionFilter, LocalCredentialAdminService).
THEOREM OnRecord == Spec => []OutcomesAreRecorded
  <1>1. Inv => OutcomesAreRecorded
    BY DEF Inv, Recorded, Written, OutcomesAreRecorded
  <1>2. QED
    BY <1>1, InvInit, InvStep, PTL DEF Spec
-----------------------------------------------------------------------------
(* Installations. *)

\* What a client's step does to what is shared.
Effects(c) ==
    /\ pc'[c] # pc[c] /\ granted' = granted
    /\ \/ setup' = setup
       \/ pc[c] = "save" /\ setup' = [admin |-> req[c].email, source |-> req[c].source]
    /\ connector' = connector \/ pc[c] = "configure"
    /\ \/ identity' = identity
       \/ pc[c] = "identity" /\ identity' = Installer(req[c])
       \/ pc[c] = "put" /\ identity' = Saved(c)
       \/ pc[c] = "remove" /\ identity' = Removed(c)

LEMMA EffectsOf ==
    ASSUME TypeOK, NEW c \in Clients, Routed(c), Step(c)
    PROVE  Effects(c)
  <1> USE DEF TypeOK, known, portal, counts, Goto, Stay, Answer, Works, Fails, Effects, Routed, Admitted, Installing, Saving, Deleting, Known
  <1>1. ASSUME NEW q \in Requests, Ask(c, q) PROVE Effects(c)
    BY <1>1 DEF Ask, CompleteSetup, LoginWithPassword, Logout, ListLocalCredentials,
        UpsertLocalCredential, DeleteLocalCredential, Begin
  <1>2. CASE Leave(c)
    BY <1>2 DEF Leave
  <1>3. CASE AssertPending(c)
    BY <1>3 DEF AssertPending, Catch, Record
  <1>4. CASE Configure(c)
    BY <1>4 DEF Configure, Catch, Record
  <1>5. CASE UpsertIdentity(c)
    BY <1>5 DEF UpsertIdentity, Catch, Record
  <1>6. CASE SaveCompletedSetup(c)
    BY <1>6 DEF SaveCompletedSetup, Catch, Record
  <1>7. CASE CheckPassword(c)
    BY <1>7 DEF CheckPassword, Catch, Record
  <1>8. CASE LoginSuccess(c)
    BY <1>8 DEF LoginSuccess, Catch, Record
  <1>9. CASE LoginFailed(c)
    BY <1>9 DEF LoginFailed, Catch, Record
  <1>10. CASE ResolveSession(c)
    BY <1>10 DEF ResolveSession, Catch, Record
  <1>11. CASE ReadGrants(c)
    BY <1>11 DEF ReadGrants, Catch, Record
  <1>12. CASE ReadAdminEmail(c)
    BY <1>12 DEF ReadAdminEmail, Catch, Record
  <1>13. CASE SessionDenied(c)
    BY <1>13 DEF SessionDenied, Catch, Record
  <1>14. CASE CheckAcl(c)
    BY <1>14 DEF CheckAcl, Catch, Record, Handler
  <1>15. CASE Refuse(c)
    BY <1>15 DEF Refuse, Catch, Record
  <1>16. CASE ListCredentials(c)
    BY <1>16 DEF ListCredentials, Catch, Record
  <1>17. CASE FindContact(c)
    BY <1>17 DEF FindContact, Catch, Record
  <1>18. CASE FindExisting(c)
    BY <1>18 DEF FindExisting, Catch, Record
  <1>19. CASE Provision(c)
    BY <1>19 DEF Provision, Catch, Record
  <1>20. CASE PutCredential(c)
    BY <1>20 DEF PutCredential, Catch, Record
  <1>21. CASE AuditChange(c)
    BY <1>21 DEF AuditChange, Catch, Record
  <1>22. CASE ReadBack(c)
    BY <1>22 DEF ReadBack, Catch, Record
  <1>23. CASE FindForDelete(c)
    BY <1>23 DEF FindForDelete, Catch, Record
  <1>24. CASE RemoveCredential(c)
    BY <1>24 DEF RemoveCredential, Catch, Record
  <1>25. QED
    BY <1>1, <1>2, <1>3, <1>4, <1>5, <1>6, <1>7, <1>8, <1>9, <1>10, <1>11, <1>12,
      <1>13, <1>14, <1>15, <1>16, <1>17, <1>18, <1>19, <1>20, <1>21, <1>22, <1>23, <1>24
      DEF Step, Serve

\* Nobody is let in while nothing is installed.
NotIn(c) == pc[c] \notin Admitted /\ (pc[c] \in {"admin email", "acl"} => ~admin[c])

LEMMA NotInAct ==
    ASSUME TypeOK, NEW c \in Clients, NotIn(c), setup = None, granted = {}, Step(c)
    PROVE  NotIn(c)'
  <1> USE DEF TypeOK, known, portal, counts, Goto, Stay, Answer, Works, Fails, NotIn, Admitted, Installing, Saving, Deleting, Known
  <1>1. ASSUME NEW q \in Requests, Ask(c, q) PROVE NotIn(c)'
    BY <1>1, ZenonT(60) DEF Ask, CompleteSetup, LoginWithPassword, Logout, ListLocalCredentials,
        UpsertLocalCredential, DeleteLocalCredential, Begin
  <1>2. CASE Leave(c)
    BY <1>2 DEF Leave
  <1>3. CASE AssertPending(c)
    BY <1>3 DEF AssertPending, Catch, Record
  <1>4. CASE Configure(c)
    BY <1>4 DEF Configure, Catch, Record
  <1>5. CASE UpsertIdentity(c)
    BY <1>5 DEF UpsertIdentity, Catch, Record
  <1>6. CASE SaveCompletedSetup(c)
    BY <1>6 DEF SaveCompletedSetup, Catch, Record
  <1>7. CASE CheckPassword(c)
    BY <1>7, ZenonT(60) DEF CheckPassword, Catch, Record
  <1>8. CASE LoginSuccess(c)
    BY <1>8, ZenonT(60) DEF LoginSuccess, Catch, Record
  <1>9. CASE LoginFailed(c)
    BY <1>9 DEF LoginFailed, Catch, Record
  <1>10. CASE ResolveSession(c)
    BY <1>10 DEF ResolveSession, Catch, Record
  <1>11. CASE ReadGrants(c)
    BY <1>11, ZenonT(60) DEF ReadGrants, Catch, Record, GrantedTo
  <1>12. CASE ReadAdminEmail(c)
    BY <1>12, ZenonT(60) DEF ReadAdminEmail, Catch, Record, Installed
  <1>13. CASE SessionDenied(c)
    BY <1>13 DEF SessionDenied, Catch, Record
  <1>14. CASE CheckAcl(c)
    BY <1>14 DEF CheckAcl, Catch, Record, Handler
  <1>15. CASE Refuse(c)
    BY <1>15 DEF Refuse, Catch, Record
  <1>16. CASE ListCredentials(c)
    BY <1>16 DEF ListCredentials, Catch, Record
  <1>17. CASE FindContact(c)
    BY <1>17 DEF FindContact, Catch, Record
  <1>18. CASE FindExisting(c)
    BY <1>18 DEF FindExisting, Catch, Record
  <1>19. CASE Provision(c)
    BY <1>19 DEF Provision, Catch, Record
  <1>20. CASE PutCredential(c)
    BY <1>20 DEF PutCredential, Catch, Record
  <1>21. CASE AuditChange(c)
    BY <1>21 DEF AuditChange, Catch, Record
  <1>22. CASE ReadBack(c)
    BY <1>22 DEF ReadBack, Catch, Record
  <1>23. CASE FindForDelete(c)
    BY <1>23 DEF FindForDelete, Catch, Record
  <1>24. CASE RemoveCredential(c)
    BY <1>24 DEF RemoveCredential, Catch, Record
  <1>25. QED
    BY <1>1, <1>2, <1>3, <1>4, <1>5, <1>6, <1>7, <1>8, <1>9, <1>10, <1>11, <1>12,
      <1>13, <1>14, <1>15, <1>16, <1>17, <1>18, <1>19, <1>20, <1>21, <1>22, <1>23, <1>24
      DEF Step, Serve

LEMMA UnderwayAct ==
    ASSUME TypeOK, Remember, NEW c \in Clients, Routed(c), Underway(c), Step(c)
    PROVE  Underway(c)'
  <1>0. pc'[c] # "idle" /\ pc'[c] # pc[c] => past'[c].moved = past[c].moved
    BY PastOf
  <1> USE DEF TypeOK, known, portal, counts, Goto, Stay, Answer, Works, Fails, Routed, Underway, Admitted, Installing, Saving, Deleting, Known
  <1>1. ASSUME NEW q \in Requests, Ask(c, q) PROVE Underway(c)'
    BY <1>0, <1>1 DEF Ask, CompleteSetup, LoginWithPassword, Logout, ListLocalCredentials,
        UpsertLocalCredential, DeleteLocalCredential, Begin
  <1>2. CASE Leave(c)
    BY <1>0, <1>2 DEF Leave
  <1>3. CASE AssertPending(c)
    BY <1>0, <1>3 DEF AssertPending, Catch, Record
  <1>4. CASE Configure(c)
    BY <1>0, <1>4 DEF Configure, Catch, Record
  <1>5. CASE UpsertIdentity(c)
    <2>1. /\ req[c] \in Requests /\ req[c].op = "setup" /\ req' = req
          /\ setup' = setup /\ connector' = connector
          /\ pc[c] = "identity"
          /\ pc'[c] = "done" \/ (pc'[c] = "save" /\ identity' = Installer(req[c]))
      BY <1>0, <1>5 DEF UpsertIdentity
    <2>2. Installer(req[c])[req[c].email] # None /\ Installer(req[c])[req[c].email].enabled
      BY <2>1, InstallerFacts DEF Typed
    <2>3. QED
      BY <1>0, <1>0, <2>1, <2>2
  <1>6. CASE SaveCompletedSetup(c)
    BY <1>0, <1>6 DEF SaveCompletedSetup, Catch, Record
  <1>7. CASE CheckPassword(c)
    BY <1>0, <1>7 DEF CheckPassword, Catch, Record
  <1>8. CASE LoginSuccess(c)
    BY <1>0, <1>8 DEF LoginSuccess, Catch, Record
  <1>9. CASE LoginFailed(c)
    BY <1>0, <1>9 DEF LoginFailed, Catch, Record
  <1>10. CASE ResolveSession(c)
    BY <1>0, <1>10 DEF ResolveSession, Catch, Record
  <1>11. CASE ReadGrants(c)
    BY <1>0, <1>11 DEF ReadGrants, Catch, Record
  <1>12. CASE ReadAdminEmail(c)
    BY <1>0, <1>12 DEF ReadAdminEmail, Catch, Record
  <1>13. CASE SessionDenied(c)
    BY <1>0, <1>13 DEF SessionDenied, Catch, Record
  <1>14. CASE CheckAcl(c)
    BY <1>0, <1>14 DEF CheckAcl, Catch, Record, Handler
  <1>15. CASE Refuse(c)
    BY <1>0, <1>15 DEF Refuse, Catch, Record
  <1>16. CASE ListCredentials(c)
    BY <1>0, <1>16 DEF ListCredentials, Catch, Record
  <1>17. CASE FindContact(c)
    BY <1>0, <1>17 DEF FindContact, Catch, Record
  <1>18. CASE FindExisting(c)
    BY <1>0, <1>18 DEF FindExisting, Catch, Record
  <1>19. CASE Provision(c)
    BY <1>0, <1>19 DEF Provision, Catch, Record
  <1>20. CASE PutCredential(c)
    BY <1>0, <1>20 DEF PutCredential, Catch, Record
  <1>21. CASE AuditChange(c)
    BY <1>0, <1>21 DEF AuditChange, Catch, Record
  <1>22. CASE ReadBack(c)
    BY <1>0, <1>22 DEF ReadBack, Catch, Record
  <1>23. CASE FindForDelete(c)
    BY <1>0, <1>23 DEF FindForDelete, Catch, Record
  <1>24. CASE RemoveCredential(c)
    BY <1>0, <1>24 DEF RemoveCredential, Catch, Record
  <1>25. QED
    BY <1>1, <1>2, <1>3, <1>4, <1>5, <1>6, <1>7, <1>8, <1>9, <1>10, <1>11, <1>12,
      <1>13, <1>14, <1>15, <1>16, <1>17, <1>18, <1>19, <1>20, <1>21, <1>22, <1>23, <1>24
      DEF Step, Serve

LEMMA UnderwayKept ==
    ASSUME Inv, Installation, Remember, NEW c \in Clients, Kept(c),
           \/ \E d \in Clients : Step(d)
           \/ setup' = setup /\ connector' = connector /\ identity' = identity
    PROVE  Underway(c)'
  <1>1. TypeOK /\ \A d \in Clients : Routed(d)
    BY DEF Inv
  <1>2. /\ pc'[c] # "idle" => past[c].moved \subseteq past'[c].moved
        /\ pc'[c] # "idle" /\ (setup' # setup \/ connector' # connector) =>
            "setup" \in past'[c].moved
    BY <1>1, PastOf DEF Kept
  <1> SUFFICES ASSUME "setup" \notin past'[c].moved, pc[c] \in {"configure", "identity", "save"}
               PROVE  Underway(c)'
    BY DEF Underway, Kept
  <1>3. /\ setup' = setup /\ connector' = connector /\ "setup" \notin past[c].moved
        /\ setup = None
    BY <1>2 DEF Kept, Installation, Underway
  <1>4. pc[c] \in {"identity", "save"} => connector' = req'[c].source
    BY <1>3 DEF Kept, Installation, Underway
  <1>5. ASSUME pc[c] = "save"
        PROVE  identity'[req'[c].email] # None /\ identity'[req'[c].email].enabled
    <2>1. identity[req[c].email] # None /\ identity[req[c].email].enabled
      BY <1>3, <1>5 DEF Installation, Underway
    <2>2. req'[c] = req[c] /\ req[c] \in Requests /\ req[c].op = "setup"
      BY <1>1, <1>5 DEF Kept, Routed, Installing
    <2>3. CASE identity' = identity
      BY <2>1, <2>2, <2>3
    <2>4. ASSUME NEW d \in Clients, Step(d), identity' # identity
          PROVE  identity'[req[c].email] # None /\ identity'[req[c].email].enabled
      <3>1. pc[d] = "identity" /\ identity' = Installer(req[d])
        BY <1>1, <1>3, <2>4, EffectsOf DEF Effects, Installation, Admitted, Saving, Deleting
      <3>2. req[d] \in Requests /\ req[d].op = "setup"
        BY <1>1, <3>1 DEF Routed, Installing
      <3>3. req[c].email \in Emails
        BY <1>1, <2>2, InstallerFacts DEF TypeOK, Typed
      <3>4. QED
        BY <1>1, <2>1, <3>1, <3>2, <3>3, InstallerFacts DEF TypeOK, Typed
    <2>5. QED
      BY <2>2, <2>3, <2>4
  <1>6. QED
    BY <1>3, <1>4, <1>5 DEF Underway, Kept

LEMMA InstallationInit ==
    ASSUME NotInstalledByHand
    PROVE  Init => Installation
  BY DEF Init, NotInstalledByHand, Installation, Underway, Admitted, Saving, Deleting

LEMMA InstallationStep == Inv /\ Installation /\ [Next]_vars => Installation'
  <1> SUFFICES ASSUME Inv, Installation, [Next]_vars PROVE Installation'
    OBVIOUS
  <1>1. TypeOK /\ \A c \in Clients : Routed(c) /\ Underway(c)
    BY DEF Inv, Installation
  <1>2. CASE UNCHANGED vars
    <2> USE DEF vars, portal, known, counts
    <2>1. \A c \in Clients : Underway(c)'
      BY <1>1, <1>2 DEF Underway
    <2>2. setup' = None => granted' = {} /\ \A c \in Clients :
            pc'[c] \notin Admitted /\ (pc'[c] \in {"admin email", "acl"} => ~admin'[c])
      BY <1>2 DEF Installation
    <2>3. QED
      BY <2>1, <2>2 DEF Installation
  <1>3. CASE Next
    <2>1. Remember /\ ((\E c \in Clients : Step(c)) \/ ChangeGrants \/ Crash)
      BY <1>3, NextIs
    <2>2. ASSUME NEW c \in Clients PROVE Underway(c)'
      <3>1. CASE Step(c)
        BY <1>1, <2>1, <3>1, UnderwayAct
      <3>2. ASSUME NEW d \in Clients, d # c, Step(d) PROVE Underway(c)'
        BY <1>1, <2>1, <3>2, OthersKept, UnderwayKept
      <3>3. CASE ChangeGrants
        <4>1. Kept(c) /\ setup' = setup /\ connector' = connector /\ identity' = identity
          BY <3>3 DEF ChangeGrants, Kept, known
        <4>2. QED
          BY <2>1, <4>1, UnderwayKept
      <3>4. CASE Crash
        BY <3>4 DEF Crash, Underway
      <3>5. QED
        BY <2>1, <3>1, <3>2, <3>3, <3>4
    <2>3. ASSUME setup' = None
          PROVE  granted' = {} /\ \A c \in Clients : NotIn(c)'
      <3>1. CASE Crash
        BY <2>3, <3>1 DEF Crash, Installation, NotIn, Admitted, Saving, Deleting, portal, known
      <3>2. CASE ChangeGrants
        BY <2>3, <3>2 DEF ChangeGrants
      <3>3. ASSUME NEW d \in Clients, Step(d)
            PROVE  granted' = {} /\ \A c \in Clients : NotIn(c)'
        <4>1. Effects(d)
          BY <1>1, <3>3, EffectsOf
        <4>2. setup = None
          <5>1. CASE setup' = setup
            BY <2>3, <5>1
          <5>2. CASE setup' # setup
            <6>1. pc[d] = "save" /\ setup' = [admin |-> req[d].email, source |-> req[d].source]
              BY <4>1, <5>2 DEF Effects
            <6>2. req[d] \in Requests /\ req[d].op = "setup"
              BY <1>1, <6>1 DEF Routed, Installing
            <6>3. setup' \in Setup
              BY <1>1, <6>1, <6>2, InstallerFacts DEF Setup, TypeOK, Typed
            <6>4. QED
              BY <2>3, <6>3, Distinct
          <5>3. QED
            BY <5>1, <5>2
        <4>3. granted = {} /\ \A c \in Clients : NotIn(c)
          BY <4>2 DEF Installation, NotIn
        <4>4. ASSUME NEW c \in Clients PROVE NotIn(c)'
          <5>1. CASE c = d
            BY <1>1, <3>3, <4>2, <4>3, <5>1, NotInAct
          <5>2. CASE c # d
            BY <1>1, <3>3, <4>3, <5>2, OthersKept DEF Kept, NotIn
          <5>3. QED
            BY <5>1, <5>2
        <4>5. QED
          BY <4>1, <4>3, <4>4 DEF Effects
      <3>4. QED
        BY <2>1, <3>1, <3>2, <3>3
    <2>4. QED
      BY <2>2, <2>3 DEF Installation, NotIn
  <1>4. QED
    BY <1>2, <1>3

\* A portal is completed with the data source and the enabled identity of the request
\* that completes it, unless another was let past assertPending (completeSetup).
THEOREM InstalledOnce ==
    ASSUME NotInstalledByHand
    PROVE  Spec => CompletedOnceAndWhole
  <1> DEFINE Once == setup' # setup =>
        \E c \in Clients :
            /\ Acts(c)
            /\ "setup" \in past[c].moved
               \/ /\ setup = None
                  /\ connector = setup'.source
                  /\ identity[setup'.admin] # None /\ identity[setup'.admin].enabled
  <1>1. ASSUME Inv, Installation, [Next]_vars PROVE [Once]_vars
    <2> SUFFICES ASSUME setup' # setup PROVE Once
      OBVIOUS
    <2>1. TypeOK /\ \A c \in Clients : Routed(c) /\ Underway(c)
      BY <1>1 DEF Inv, Installation
    <2>2. PICK c \in Clients : Step(c)
      BY <1>1, NextIs DEF vars, portal, ChangeGrants, Crash
    <2>3. /\ pc'[c] # pc[c] /\ pc[c] = "save"
          /\ setup' = [admin |-> req[c].email, source |-> req[c].source]
      BY <2>1, <2>2, EffectsOf DEF Effects
    <2>4. QED
      BY <2>1, <2>3 DEF Acts, Underway
  <1>2. Init => Inv /\ Installation
    BY InvInit, InstallationInit
  <1>3. Inv /\ Installation /\ [Next]_vars => (Inv /\ Installation)' /\ [Once]_vars
    BY <1>1, InvStep, InstallationStep
  <1>4. QED
    <2> HIDE DEF Once
    <2>1. Spec => [][Once]_vars
      BY <1>2, <1>3, PTL DEF Spec
    <2>2. QED
      BY <2>1 DEF CompletedOnceAndWhole, Once

-----------------------------------------------------------------------------
(* Disabled credentials. *)

\* A credential is written after provisioning has read it.
LEMMA ToPut ==
    ASSUME TypeOK, NEW c \in Clients, Routed(c), Step(c), pc'[c] = "put"
    PROVE  Provision(c)
  <1> DEFINE AtPut == Provision(c)
  <1> USE DEF TypeOK, known, portal, counts, Goto, Stay, Answer, Works, Fails, AtPut
  <1>1. ASSUME NEW q \in Requests, Ask(c, q) PROVE AtPut
    BY <1>1 DEF Ask, CompleteSetup, LoginWithPassword, Logout, ListLocalCredentials,
        UpsertLocalCredential, DeleteLocalCredential, Begin
  <1>2. CASE Leave(c)
    BY <1>2 DEF Leave
  <1>3. CASE AssertPending(c)
    BY <1>3 DEF AssertPending, Catch, Record
  <1>4. CASE Configure(c)
    BY <1>4 DEF Configure, Catch, Record
  <1>5. CASE UpsertIdentity(c)
    BY <1>5 DEF UpsertIdentity, Catch, Record
  <1>6. CASE SaveCompletedSetup(c)
    BY <1>6 DEF SaveCompletedSetup, Catch, Record
  <1>7. CASE CheckPassword(c)
    BY <1>7 DEF CheckPassword, Catch, Record
  <1>8. CASE LoginSuccess(c)
    BY <1>8 DEF LoginSuccess, Catch, Record
  <1>9. CASE LoginFailed(c)
    BY <1>9 DEF LoginFailed, Catch, Record
  <1>10. CASE ResolveSession(c)
    BY <1>10 DEF ResolveSession, Catch, Record
  <1>11. CASE ReadGrants(c)
    BY <1>11 DEF ReadGrants, Catch, Record
  <1>12. CASE ReadAdminEmail(c)
    BY <1>12 DEF ReadAdminEmail, Catch, Record
  <1>13. CASE SessionDenied(c)
    BY <1>13 DEF SessionDenied, Catch, Record
  <1>14. CASE CheckAcl(c)
    BY <1>14 DEF CheckAcl, Handler, Routed, Known
  <1>15. CASE Refuse(c)
    BY <1>15 DEF Refuse, Catch, Record
  <1>16. CASE ListCredentials(c)
    BY <1>16 DEF ListCredentials, Catch, Record
  <1>17. CASE FindContact(c)
    BY <1>17 DEF FindContact, Catch, Record
  <1>18. CASE FindExisting(c)
    BY <1>18 DEF FindExisting, Catch, Record
  <1>19. CASE Provision(c)
    BY <1>19 DEF Provision, Catch, Record
  <1>20. CASE PutCredential(c)
    BY <1>20 DEF PutCredential, Catch, Record
  <1>21. CASE AuditChange(c)
    BY <1>21 DEF AuditChange, Catch, Record
  <1>22. CASE ReadBack(c)
    BY <1>22 DEF ReadBack, Catch, Record
  <1>23. CASE FindForDelete(c)
    BY <1>23 DEF FindForDelete, Catch, Record
  <1>24. CASE RemoveCredential(c)
    BY <1>24 DEF RemoveCredential, Catch, Record
  <1>25. QED
    BY <1>1, <1>2, <1>3, <1>4, <1>5, <1>6, <1>7, <1>8, <1>9, <1>10, <1>11, <1>12,
      <1>13, <1>14, <1>15, <1>16, <1>17, <1>18, <1>19, <1>20, <1>21, <1>22, <1>23, <1>24
      DEF Step, Serve

LEMMA AsleepAct ==
    ASSUME TypeOK, Remember, NEW c \in Clients, Routed(c), Step(c)
    PROVE  Asleep(c)'
  <1> SUFFICES ASSUME pc'[c] = "put", req'[c].enabled # TRUE, had'[c] # {}, TRUE \notin had'[c]
               PROVE  want'[c] = FALSE
    BY DEF Asleep
  <1> DEFINE q == req[c]
  <1>1. Provision(c)
    BY ToPut
  <1>2. pc[c] = "provision" /\ req' = req /\ q \in Requests
    BY <1>1 DEF Provision, Routed
  <1>3. want'[c] = Given(q, EnabledOf(q.subject))
    BY <1>1 DEF Provision, Goto, Stay, Answer, TypeOK
  <1>4. had'[c] = {identity[e].enabled : e \in Held(q.subject)}
    BY <1>2 DEF Remember
  <1>5. Held(q.subject) # {}
    BY <1>4
  <1>6. EnabledOf(q.subject) = FALSE
    <2>1. /\ \E e \in Held(q.subject) : EnabledOf(q.subject) = identity[e].enabled
          /\ EnabledOf(q.subject) \in BOOLEAN \cup {None} /\ EnabledOf(q.subject) # None
      BY <1>5, EnabledFacts DEF TypeOK
    <2>2. EnabledOf(q.subject) \in had'[c]
      BY <1>4, <2>1
    <2>3. QED
      BY <2>1, <2>2
  <1>7. q.enabled \in {FALSE, None}
    BY <1>2, RequestFacts DEF Request
  <1>8. QED
    BY <1>3, <1>6, <1>7, Distinct DEF Given

LEMMA AsleepStep ==
    ASSUME Inv, [Next]_vars, \A c \in Clients : Asleep(c)
    PROVE  \A c \in Clients : Asleep(c)'
  <1>1. TypeOK /\ \A c \in Clients : Routed(c)
    BY DEF Inv
  <1>2. CASE UNCHANGED vars
    BY <1>2 DEF vars, known, Asleep
  <1>3. CASE Next
    <2>1. Remember /\ ((\E c \in Clients : Step(c)) \/ ChangeGrants \/ Crash)
      BY <1>3, NextIs
    <2> SUFFICES ASSUME NEW c \in Clients PROVE Asleep(c)'
      OBVIOUS
    <2>2. CASE Step(c)
      BY <1>1, <2>1, <2>2, AsleepAct
    <2>3. CASE Kept(c)
      <3>1. pc'[c] = "put" => had'[c] = had[c]
        BY <2>1, <2>3 DEF Remember, Kept
      <3>2. QED
        BY <2>3, <3>1 DEF Asleep, Kept
    <2>4. ASSUME NEW d \in Clients, d # c, Step(d) PROVE Kept(c)
      BY <1>1, <2>4, OthersKept
    <2>5. CASE ChangeGrants
      BY <2>3, <2>5 DEF ChangeGrants, Kept, known
    <2>6. CASE Crash
      <3>1. pc'[c] # "put"
        BY <2>6 DEF Crash
      <3>2. QED
        BY <3>1 DEF Asleep
    <2>7. QED
      BY <2>1, <2>2, <2>3, <2>4, <2>5, <2>6
  <1>4. QED
    BY <1>2, <1>3

\* A credential that its contact had disabled when the request last read it is enabled
\* only by a request that asks for it, or by an installation, whatever the request read
\* before and whatever others do meanwhile (upsertResolvedCredential).
THEOREM StaysDisabled == Spec => DisabledStays
  <1> DEFINE Unasked == \A e \in Emails :
        (/\ identity[e] # None /\ ~identity[e].enabled
         /\ identity'[e] # None /\ identity'[e].enabled)
        => \E c \in Clients :
            /\ Acts(c)
            /\ \/ req[c].op = "setup" \/ req[c].enabled = TRUE
               \/ had[c] = {} \/ TRUE \in had[c]
             AllAsleep == \A c \in Clients : Asleep(c)
  <1>1. ASSUME Inv, AllAsleep, [Next]_vars PROVE [Unasked]_vars
    <2> SUFFICES ASSUME NEW e \in Emails,
                        identity[e] # None, ~identity[e].enabled,
                        identity'[e] # None, identity'[e].enabled
                 PROVE  \E c \in Clients :
                          /\ Acts(c)
                          /\ \/ req[c].op = "setup" \/ req[c].enabled = TRUE
                             \/ had[c] = {} \/ TRUE \in had[c]
      OBVIOUS
    <2>1. TypeOK /\ \A c \in Clients : Routed(c)
      BY <1>1 DEF Inv
    <2>2. identity' # identity
      OBVIOUS
    <2>3. PICK c \in Clients : Step(c)
      BY <1>1, <2>2, NextIs DEF vars, portal, ChangeGrants, Crash
    <2>4. Effects(c) /\ Acts(c)
      BY <2>1, <2>3, EffectsOf DEF Effects, Acts
    <2>5. CASE pc[c] = "identity"
      BY <2>1, <2>4, <2>5 DEF Routed, Installing
    <2>6. CASE pc[c] = "put" /\ identity' = Saved(c)
      <3> DEFINE q == req[c]
      <3>1. q \in Requests /\ q.op = "upsert" /\ want[c] \in BOOLEAN
        BY <2>1, <2>6 DEF Routed, Saving
      <3>2. identity'[e].enabled = want[c]
        <4> DEFINE i == EmailOf[q.subject]
        <4>1. /\ \A j \in Emails : j # i => identity'[j] = identity[j]
              /\ \/ identity' = identity
                 \/ identity'[i].enabled = want[c]
          BY <2>1, <2>6, <3>1, SavedFacts DEF TypeOK, Typed
        <4>2. identity'[e].enabled # identity[e].enabled
          OBVIOUS
        <4> HIDE DEF i, q
        <4>3. e = i
          BY <4>1, <4>2
        <4>4. QED
          BY <2>2, <4>1, <4>3
      <3>3. want[c] # FALSE
        BY <3>2
      <3>4. Asleep(c)
        BY <1>1
      <3>5. QED
        BY <2>4, <2>6, <3>3, <3>4 DEF Asleep
    <2>7. CASE pc[c] = "remove" /\ identity' = Removed(c)
      BY <2>7 DEF Removed
    <2>8. QED
      BY <2>2, <2>4, <2>5, <2>6, <2>7 DEF Effects
  <1>2. Init => Inv /\ AllAsleep
    BY InvInit DEF Init, Asleep
  <1>3. Inv /\ AllAsleep /\ [Next]_vars => (Inv /\ AllAsleep)' /\ [Unasked]_vars
    BY <1>1, InvStep, AsleepStep
  <1>4. QED
    <2> HIDE DEF Unasked, AllAsleep
    <2>1. Spec => [][Unasked]_vars
      BY <1>2, <1>3, PTL DEF Spec
    <2>2. QED
      BY <2>1 DEF DisabledStays, Unasked
=============================================================================
