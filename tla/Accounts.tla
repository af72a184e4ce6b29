------------------------------ MODULE Accounts -------------------------------
(***************************************************************************)
(* The installation of the portal, logging in, sessions, and the           *)
(* administration of local credentials (src/backend/src/setup, auth).      *)
(*                                                                         *)
(* Identities and passwords belong to a platform service, connectors to    *)
(* another: both are external, and seen through the calls made to them.    *)
(* The portal keeps one setup record and the permissions of contacts, and  *)
(* decides at each request who is an administrator.                        *)
(*                                                                         *)
(* An action is the code from one await to the next.  Any call may fail    *)
(* before or after its effect, and the process may crash.                  *)
(***************************************************************************)
EXTENDS Integers, FiniteSets

CONSTANTS
    Clients, Emails, Contacts, Passwords, Sources,
    EmailOf,       \* contact -> email, in Salesforce
    Requests,
    Portals,       \* how a behaviour may begin
    MaxRequests, MaxFaults, MaxGrants,    \* bounds of one behaviour
    None

Subjects == Contacts \cup Emails
Identity == [pwd : Passwords, enabled : BOOLEAN, subject : Subjects]
Setup == [admin : Emails, source : Sources]
Ops == {"setup", "login", "logout", "list", "upsert", "delete"}
Request == [op : Ops, email : Emails, pwd : Passwords \cup {None}, source : Sources,
            subject : Subjects, enabled : {TRUE, FALSE, None}]
Portal == [setup : Setup \cup {None}, source : Sources \cup {None},
           identity : [Emails -> Identity \cup {None}], granted : SUBSET Subjects]
Events == {"LOGIN_SUCCESS", "LOGIN_FAILED", "SESSION_MISSING", "SESSION_INVALID",
           "ACL_DENIED", "INPUT_VALIDATION_FAILED", "SAVED", "DELETED"}
User == [email : Emails, subject : Subjects]
History == [moved : SUBSET {"setup", "identity"}, was : BOOLEAN, always : BOOLEAN]

ASSUME AccountsAssumption ==
    /\ EmailOf \in [Contacts -> Emails]
    /\ Requests \subseteq Request /\ Portals \subseteq Portal
    /\ \A q \in Requests :
        /\ q.op \in {"setup", "login"} => q.pwd # None
        /\ q.op = "upsert" => q.subject \in Contacts
    /\ MaxRequests \in Nat /\ MaxFaults \in Nat /\ MaxGrants \in Nat
    /\ None \notin Passwords /\ None \notin Sources /\ None \notin BOOLEAN
    /\ None \notin Identity /\ None \notin Setup /\ None \notin Request /\ None \notin Emails
    /\ None \notin User

VARIABLES
    setup,        \* instanceSetupRecord, once completed
    connector,    \* external: the configured data source
    identity,     \* external: identities with a membership of the portal
    granted,      \* subjects with PORTAL_ADMIN among acl_contact_permissions
    cookie,       \* per client: the identity of its session
    pc, req,      \* per client
    user,         \* whom its credentials or its session resolved to
    admin,        \* whether PORTAL_ADMIN is among the permissions resolved
    seen, want,   \* enabled, as first read (None: no credential); as written
    log,          \* the security events and audit rows of the request
    outcome,
    past,         \* history: what happened since the request began
    had,          \* history: what provisioning last read of its subject's credentials
    asked, grants, faults

portal == <<setup, connector, identity, granted>>
known == <<user, admin, seen, want>>
counts == <<asked, grants>>
vars == <<portal, cookie, pc, req, known, log, outcome, past, had, counts, faults>>

-----------------------------------------------------------------------------
(* How a step ends. *)

Goto(c, label) == pc' = [pc EXCEPT ![c] = label]
Stay == UNCHANGED outcome
\* "ok"; "conflict" 409; "denied" 401, 403, or the error that kept the client out;
\* "refused" 400; "missing" 404; "error" any other.
Answer(c, how) == Goto(c, "done") /\ outcome' = [outcome EXCEPT ![c] = how]

Works == UNCHANGED faults
Fails == faults < MaxFaults /\ faults' = faults + 1

\* The handler of an error, by what was going on.
Catch(c) == IF req[c].op = "login" THEN Goto(c, "login failed") /\ Stay
            ELSE Goto(c, "session invalid") /\ Stay

\* recordSecurityEventOrThrow before the answer: the statement may fail before or
\* after it is executed.
Record(c, event, how) ==
    \/ Works /\ log' = [log EXCEPT ![c] = @ \cup {event}] /\ Answer(c, how)
    \/ /\ Fails
       /\ log' \in {log, [log EXCEPT ![c] = @ \cup {event}]}
       /\ Answer(c, "error")

-----------------------------------------------------------------------------
(* Who is an administrator. *)

\* The two grounds of PORTAL_ADMIN, read one after the other.  Permissions are given
\* to the subject of a membership or to an identity, for which its email stands.
GrantedTo(u) == u.subject \in granted \/ u.email \in granted
Installed(u) == setup # None /\ setup.admin = u.email
IsAdmin(u) == GrantedTo(u) \/ Installed(u)

Member(e) == [email |-> e, subject |-> identity[e].subject]

\* What listCredentials finds for a subject, and the identity behind it.
Held(s) == {e \in Emails : identity[e] # None /\ identity[e].subject = s}
EnabledOf(s) == IF Held(s) = {} THEN None
                ELSE identity[CHOOSE e \in Held(s) : TRUE].enabled

Init ==
    /\ \E p \in Portals :
        /\ setup = p.setup /\ connector = p.source
        /\ identity = p.identity /\ granted = p.granted
        /\ cookie \in [Clients -> {e \in Emails : p.identity[e] # None} \cup {None}]
    /\ pc = [c \in Clients |-> "idle"]
    /\ req = [c \in Clients |-> None]
    /\ user = [c \in Clients |-> None]
    /\ admin = [c \in Clients |-> FALSE]
    /\ seen = [c \in Clients |-> None]
    /\ want = [c \in Clients |-> None]
    /\ log = [c \in Clients |-> {}]
    /\ outcome = [c \in Clients |-> "none"]
    /\ past = [c \in Clients |-> [moved |-> {}, was |-> FALSE, always |-> TRUE]]
    /\ had = [c \in Clients |-> {}]
    /\ asked = 0 /\ grants = 0 /\ faults = 0

Begin(c, q, label) ==
    /\ pc[c] = "idle" /\ asked < MaxRequests
    /\ asked' = asked + 1
    /\ req' = [req EXCEPT ![c] = q]
    /\ Goto(c, label)
    /\ UNCHANGED <<portal, cookie, known, log, outcome, grants, faults>>

-----------------------------------------------------------------------------
(* completeSetup. *)

CompleteSetup(c, q) == q.op = "setup" /\ Begin(c, q, "pending?")

\* assertPending, then the validation of what was entered.
AssertPending(c) ==
    /\ pc[c] = "pending?"
    /\ \/ Works /\ setup # None /\ Answer(c, "conflict")
       \/ Works /\ setup = None /\ (Goto(c, "configure") \/ Goto(c, "refuse")) /\ Stay
       \/ Fails /\ Answer(c, "error")
    /\ UNCHANGED <<portal, cookie, req, known, log, counts>>

Configure(c) ==
    /\ pc[c] = "configure"
    /\ \/ Works /\ connector' = req[c].source /\ Goto(c, "identity") /\ Stay
       \/ Fails /\ connector' \in {connector, req[c].source} /\ Answer(c, "error")
    /\ UNCHANGED <<setup, identity, granted, cookie, req, known, log, counts>>

\* The administrator's identity: enabled, with its own email as subject.
Installer(q) == [identity EXCEPT ![q.email] =
                    [pwd |-> q.pwd, enabled |-> TRUE, subject |-> q.email]]

\* Mutant: a setup that could not create the identity goes on.
UpsertIdentityBestEffort(c) ==
    /\ pc[c] = "identity"
    /\ \/ Works /\ identity' = Installer(req[c])
       \/ Fails /\ identity' \in {identity, Installer(req[c])}
    /\ Goto(c, "save") /\ Stay
    /\ UNCHANGED <<setup, connector, granted, cookie, req, known, log, counts>>

UpsertIdentity(c) ==
    /\ pc[c] = "identity"
    /\ \/ Works /\ identity' = Installer(req[c]) /\ Goto(c, "save") /\ Stay
       \/ Fails /\ identity' \in {identity, Installer(req[c])} /\ Answer(c, "error")
    /\ UNCHANGED <<setup, connector, granted, cookie, req, known, log, counts>>

\* saveCompletedSetup, an upsert of the only row.
SaveCompletedSetup(c) ==
    LET row == [admin |-> req[c].email, source |-> req[c].source]
    IN  /\ pc[c] = "save"
        /\ \/ Works /\ setup' = row /\ Answer(c, "ok")
           \/ Fails /\ setup' \in {setup, row} /\ Answer(c, "error")
        /\ UNCHANGED <<connector, identity, granted, cookie, req, known, log, counts>>

-----------------------------------------------------------------------------
(* Logging in and out. *)

LoginWithPassword(c, q) == q.op = "login" /\ Begin(c, q, "login")

Logout(c, q) ==
    /\ q.op = "logout"
    /\ pc[c] = "idle" /\ asked < MaxRequests
    /\ asked' = asked + 1
    /\ req' = [req EXCEPT ![c] = q]
    /\ cookie' = [cookie EXCEPT ![c] = None]
    /\ Answer(c, "ok")
    /\ UNCHANGED <<portal, known, log, grants, faults>>

\* The platform checks the password.
CheckPassword(c) ==
    LET e == req[c].email
        accepted == identity[e] # None /\ identity[e].enabled /\ identity[e].pwd = req[c].pwd
    IN  /\ pc[c] = "login"
        /\ \/ /\ Works /\ accepted
              /\ user' = [user EXCEPT ![c] = Member(e)]
              /\ Goto(c, "grants") /\ Stay
           \/ /\ (Works /\ ~accepted) \/ Fails
              /\ Catch(c)
              /\ UNCHANGED user
        /\ UNCHANGED <<portal, cookie, req, admin, seen, want, log, counts>>

\* Mutant: the cookie is set first.
LoginSuccessUnrecorded(c) ==
    /\ pc[c] = "login success"
    /\ cookie' = [cookie EXCEPT ![c] = user[c].email]
    /\ \/ Works /\ log' = [log EXCEPT ![c] = @ \cup {"LOGIN_SUCCESS"}]
       \/ Fails /\ UNCHANGED log
    /\ Answer(c, "ok")
    /\ UNCHANGED <<portal, req, known, counts>>

\* LOGIN_SUCCESS, then the cookie; the catch block records LOGIN_FAILED.
LoginSuccess(c) ==
    /\ pc[c] = "login success"
    /\ \/ /\ Works
          /\ log' = [log EXCEPT ![c] = @ \cup {"LOGIN_SUCCESS"}]
          /\ cookie' = [cookie EXCEPT ![c] = user[c].email]
          /\ Answer(c, "ok")
       \/ /\ Fails
          /\ log' \in {log, [log EXCEPT ![c] = @ \cup {"LOGIN_SUCCESS"}]}
          /\ Catch(c)
          /\ UNCHANGED cookie
    /\ UNCHANGED <<portal, req, known, counts>>

LoginFailed(c) ==
    /\ pc[c] = "login failed"
    /\ Record(c, "LOGIN_FAILED", "denied")
    /\ UNCHANGED <<portal, cookie, req, known, counts>>

-----------------------------------------------------------------------------
(* Sessions and permissions. *)

\* The administration of credentials, behind JwtAuthGuard and AclGuard.
ListLocalCredentials(c, q) == q.op = "list" /\ Begin(c, q, "session")
UpsertLocalCredential(c, q) == q.op = "upsert" /\ Begin(c, q, "session")
DeleteLocalCredential(c, q) == q.op = "delete" /\ Begin(c, q, "session")

\* JwtAuthGuard: the platform resolves the session, or says it is no longer valid.
ResolveSession(c) ==
    /\ pc[c] = "session"
    /\ Works /\ Stay
    /\ \/ cookie[c] = None /\ Goto(c, "session missing") /\ UNCHANGED user
       \/ /\ cookie[c] # None /\ identity[cookie[c]] # None
          /\ user' = [user EXCEPT ![c] = Member(cookie[c])]
          /\ Goto(c, "grants")
       \/ cookie[c] # None /\ Goto(c, "session invalid") /\ UNCHANGED user
    /\ UNCHANGED <<portal, cookie, req, admin, seen, want, log, counts>>

\* resolveEffectivePermissions: the permissions given to the contact ...
ReadGrants(c) ==
    /\ pc[c] = "grants"
    /\ \/ /\ Works
          /\ admin' = [admin EXCEPT ![c] = GrantedTo(user[c])]
          /\ Goto(c, "admin email") /\ Stay
       \/ Fails /\ Catch(c) /\ UNCHANGED admin
    /\ UNCHANGED <<portal, cookie, req, user, seen, want, log, counts>>

\* Mutant: the claim of the identity made by the setup is enough.
ReadAdminClaim(c) ==
    /\ pc[c] = "admin email"
    /\ Works
    /\ admin' = [admin EXCEPT ![c] = @ \/ user[c].subject = user[c].email]
    /\ Goto(c, IF req[c].op = "login" THEN "login success" ELSE "acl") /\ Stay
    /\ UNCHANGED <<portal, cookie, req, user, seen, want, log, counts>>

\* ... and the administrator of the completed setup.
ReadAdminEmail(c) ==
    /\ pc[c] = "admin email"
    /\ \/ /\ Works
          /\ admin' = [admin EXCEPT ![c] = @ \/ Installed(user[c])]
          /\ Goto(c, IF req[c].op = "login" THEN "login success" ELSE "acl") /\ Stay
       \/ Fails /\ Catch(c) /\ UNCHANGED admin
    /\ UNCHANGED <<portal, cookie, req, user, seen, want, log, counts>>

SessionDenied(c) ==
    /\ \/ pc[c] = "session missing" /\ Record(c, "SESSION_MISSING", "denied")
       \/ pc[c] = "session invalid" /\ Record(c, "SESSION_INVALID", "denied")
       \/ pc[c] = "acl denied" /\ Record(c, "ACL_DENIED", "denied")
    /\ UNCHANGED <<portal, cookie, req, known, counts>>

\* AclGuard for rest:auth-admin; then the handler.
Handler(op) == CASE op = "list" -> "list" [] op = "upsert" -> "contact"
                 [] op = "delete" -> "find"

CheckAcl(c) ==
    /\ pc[c] = "acl"
    /\ Goto(c, IF admin[c] THEN Handler(req[c].op) ELSE "acl denied")
    /\ Works /\ Stay
    /\ UNCHANGED <<portal, cookie, req, known, log, counts>>

-----------------------------------------------------------------------------
(* Local credentials. *)

Refuse(c) ==
    /\ pc[c] = "refuse"
    /\ Record(c, "INPUT_VALIDATION_FAILED", "refused")
    /\ UNCHANGED <<portal, cookie, req, known, counts>>

ListCredentials(c) ==
    /\ pc[c] = "list"
    /\ \/ Works /\ Answer(c, "ok")
       \/ Fails /\ Answer(c, "error")
    /\ UNCHANGED <<portal, cookie, req, known, log, counts>>

\* upsertCredential: the contact must have an email; its credential is read.
FindContact(c) ==
    /\ pc[c] = "contact"
    /\ \/ Works /\ (Goto(c, "existing") \/ Goto(c, "refuse")) /\ Stay
       \/ Fails /\ Answer(c, "error")
    /\ UNCHANGED <<portal, cookie, req, known, log, counts>>

FindExisting(c) ==
    /\ pc[c] = "existing"
    /\ \/ /\ Works
          /\ seen' = [seen EXCEPT ![c] = EnabledOf(req[c].subject)]
          /\ Goto(c, "provision") /\ Stay
       \/ Fails /\ Answer(c, "error") /\ UNCHANGED seen
    /\ UNCHANGED <<portal, cookie, req, user, admin, want, log, counts>>


Given(q, current) == IF q.enabled # None THEN q.enabled
                     ELSE IF current # None THEN current ELSE TRUE

\* Mutant: the state upsertCredential has read is written back.
ProvisionAsSeen(c) ==
    LET q == req[c]
        current == EnabledOf(q.subject)
    IN  /\ pc[c] = "provision"
        /\ \/ /\ Works /\ current = None /\ q.pwd = None
              /\ Goto(c, "refuse") /\ Stay /\ UNCHANGED want
           \/ /\ Works /\ (current # None \/ q.pwd # None)
              /\ want' = [want EXCEPT ![c] = Given(q, seen[c])]
              /\ Goto(c, "put") /\ Stay
           \/ Fails /\ Answer(c, "error") /\ UNCHANGED want
        /\ UNCHANGED <<portal, cookie, req, user, admin, seen, log, counts>>

\* upsertResolvedCredential reads it again: a new one needs a password.
Provision(c) ==
    LET q == req[c]
        current == EnabledOf(q.subject)
    IN  /\ pc[c] = "provision"
        /\ \/ /\ Works /\ current = None /\ q.pwd = None
              /\ Goto(c, "refuse") /\ Stay /\ UNCHANGED want
           \/ /\ Works /\ (current # None \/ q.pwd # None)
              /\ want' = [want EXCEPT ![c] = Given(q, current)]
              /\ Goto(c, "put") /\ Stay
           \/ Fails /\ Answer(c, "error") /\ UNCHANGED want
        /\ UNCHANGED <<portal, cookie, req, user, admin, seen, log, counts>>

\* What the platform does with it: a password that is not given is kept.
Saved(c) ==
    LET q == req[c]
        e == EmailOf[q.subject]
    IN  IF q.pwd = None /\ identity[e] = None THEN identity
        ELSE [identity EXCEPT ![e] =
                [pwd |-> IF q.pwd = None THEN identity[e].pwd ELSE q.pwd,
                 enabled |-> want[c], subject |-> q.subject]]

PutCredential(c) ==
    /\ pc[c] = "put"
    /\ \/ Works /\ identity' = Saved(c) /\ Goto(c, "saved") /\ Stay
       \/ Fails /\ identity' \in {identity, Saved(c)} /\ Answer(c, "error")
    /\ UNCHANGED <<setup, connector, granted, cookie, req, known, log, counts>>

\* recordApplicationSuccessOrThrow
AuditChange(c) ==
    LET logged == [log EXCEPT ![c] = @ \cup {IF pc[c] = "saved" THEN "SAVED" ELSE "DELETED"}]
    IN  /\ pc[c] \in {"saved", "removed"}
        /\ \/ /\ Works
              /\ log' = logged
              /\ IF pc[c] = "saved" THEN Goto(c, "read back") /\ Stay ELSE Answer(c, "ok")
           \/ Fails /\ log' \in {log, logged} /\ Answer(c, "error")
        /\ UNCHANGED <<portal, cookie, req, known, counts>>

ReadBack(c) ==
    /\ pc[c] = "read back"
    /\ \/ Works /\ Answer(c, IF Held(req[c].subject) = {} THEN "missing" ELSE "ok")
       \/ Fails /\ Answer(c, "error")
    /\ UNCHANGED <<portal, cookie, req, known, log, counts>>

\* deleteCredential
FindForDelete(c) ==
    /\ pc[c] = "find"
    /\ \/ Works /\ Held(req[c].subject) = {} /\ Answer(c, "missing")
       \/ Works /\ Held(req[c].subject) # {} /\ Goto(c, "remove") /\ Stay
       \/ Fails /\ Answer(c, "error")
    /\ UNCHANGED <<portal, cookie, req, known, log, counts>>

Removed(c) == [e \in Emails |-> IF e \in Held(req[c].subject) THEN None ELSE identity[e]]

RemoveCredential(c) ==
    /\ pc[c] = "remove"
    /\ \/ Works /\ identity' = Removed(c) /\ Goto(c, "removed") /\ Stay
       \/ Fails /\ identity' \in {identity, Removed(c)} /\ Answer(c, "error")
    /\ UNCHANGED <<setup, connector, granted, cookie, req, known, log, counts>>

-----------------------------------------------------------------------------
(* The environment. *)

\* The answer has been read.
Leave(c) ==
    /\ pc[c] = "done"
    /\ Goto(c, "idle")
    /\ req' = [req EXCEPT ![c] = None]
    /\ user' = [user EXCEPT ![c] = None]
    /\ admin' = [admin EXCEPT ![c] = FALSE]
    /\ seen' = [seen EXCEPT ![c] = None]
    /\ want' = [want EXCEPT ![c] = None]
    /\ log' = [log EXCEPT ![c] = {}]
    /\ outcome' = [outcome EXCEPT ![c] = "none"]
    /\ UNCHANGED <<portal, cookie, counts, faults>>

\* An administrator gives PORTAL_ADMIN to a contact, or takes it back.
ChangeGrants ==
    /\ setup # None /\ grants < MaxGrants
    /\ \E k \in Contacts :
        granted' = IF k \in granted THEN granted \ {k} ELSE granted \cup {k}
    /\ grants' = grants + 1
    /\ UNCHANGED <<setup, connector, identity, cookie, pc, req, known, log, outcome, asked,
                   faults>>

\* The process dies: the database and the platform keep what was stored.
Crash ==
    /\ Fails
    /\ \E c \in Clients : pc[c] \notin {"idle", "done"}
    /\ pc' = [c \in Clients |-> IF pc[c] = "idle" THEN "idle" ELSE "done"]
    /\ outcome' = [c \in Clients |-> IF pc[c] \in {"idle", "done"} THEN outcome[c]
                                                                   ELSE "error"]
    /\ UNCHANGED <<portal, cookie, req, known, log, counts>>

Serve(c) ==
    \/ AssertPending(c) \/ Configure(c) \/ UpsertIdentity(c) \/ SaveCompletedSetup(c)
    \/ CheckPassword(c) \/ LoginSuccess(c) \/ LoginFailed(c)
    \/ ResolveSession(c) \/ ReadGrants(c) \/ ReadAdminEmail(c) \/ SessionDenied(c)
    \/ CheckAcl(c) \/ Refuse(c) \/ ListCredentials(c)
    \/ FindContact(c) \/ FindExisting(c) \/ Provision(c) \/ PutCredential(c)
    \/ AuditChange(c) \/ ReadBack(c) \/ FindForDelete(c) \/ RemoveCredential(c)

\* The history of a request: what others changed since it began, and whether its
\* user was an administrator at some moment, and at all, while that was decided; and
\* what it read of the credentials it is about to write.
Remember ==
    /\ had' = [c \in Clients |->
            IF pc'[c] # "put" THEN {}
            ELSE IF pc[c] = "put" THEN had[c]
            ELSE {identity[e].enabled : e \in Held(req[c].subject)}]
    /\ past' = [c \in Clients |->
            IF pc'[c] = "idle" THEN [moved |-> {}, was |-> FALSE, always |-> TRUE]
            ELSE [moved |->
                    IF pc'[c] # pc[c] THEN past[c].moved
                    ELSE past[c].moved
                         \cup (IF setup' # setup \/ connector' # connector THEN {"setup"} ELSE {})
                         \cup (IF identity' # identity THEN {"identity"} ELSE {}),
                  was |-> past[c].was
                          \/ (pc[c] \in {"grants", "admin email"} /\ IsAdmin(user[c])),
                  always |-> past[c].always
                             /\ (pc[c] \in {"grants", "admin email"} => IsAdmin(user[c]))]]

Next ==
    /\ \/ \E c \in Clients :
            \/ \E q \in Requests :
                \/ CompleteSetup(c, q) \/ LoginWithPassword(c, q) \/ Logout(c, q)
                \/ ListLocalCredentials(c, q) \/ UpsertLocalCredential(c, q)
                \/ DeleteLocalCredential(c, q)
            \/ Serve(c)
            \/ Leave(c)
       \/ ChangeGrants
       \/ Crash
    /\ Remember

Spec == Init /\ [][Next]_vars

-----------------------------------------------------------------------------
(* Properties. *)

Labels == {"idle", "pending?", "configure", "identity", "save", "login", "login success",
           "login failed", "session", "session missing", "session invalid", "grants",
           "admin email", "acl", "acl denied", "refuse", "list", "contact", "existing",
           "provision", "put", "saved", "read back", "find", "remove", "removed", "done"}

TypeOK ==
    /\ setup \in Setup \cup {None} /\ connector \in Sources \cup {None}
    /\ identity \in [Emails -> Identity \cup {None}] /\ granted \subseteq Subjects
    /\ cookie \in [Clients -> Emails \cup {None}]
    /\ pc \in [Clients -> Labels] /\ req \in [Clients -> Requests \cup {None}]
    /\ user \in [Clients -> User \cup {None}] /\ admin \in [Clients -> BOOLEAN]
    /\ seen \in [Clients -> BOOLEAN \cup {None}] /\ want \in [Clients -> BOOLEAN \cup {None}]
    /\ log \in [Clients -> SUBSET Events]
    /\ outcome \in [Clients -> {"none", "ok", "conflict", "denied", "refused", "missing",
                                "error"}]
    /\ past \in [Clients -> History] /\ had \in [Clients -> SUBSET BOOLEAN]
    /\ asked \in 0 .. MaxRequests /\ grants \in 0 .. MaxGrants /\ faults \in 0 .. MaxFaults

Acts(c) == pc[c] # pc'[c]

\* A portal is completed once and whole, whatever attempts failed before: with the
\* data source and the enabled identity of the request that completes it.  Only
\* requests that were both past assertPending mix or replace their values
\* (completeSetup).
CompletedOnceAndWhole ==
    [][setup' # setup =>
        \E c \in Clients :
            /\ Acts(c)
            /\ "setup" \in past[c].moved
               \/ /\ setup = None
                  /\ connector = setup'.source
                  /\ identity[setup'.admin] # None /\ identity[setup'.admin].enabled]_vars

\* What is changed through the administration of credentials is changed for
\* someone who was an administrator while its request was authorised, and one who
\* was throughout is not refused, with the grounds read one after the other
\* (resolveEffectivePermissions, AclGuard).
AdministratorsOnly ==
    \A c \in Clients :
        /\ pc[c] \in {"list", "contact", "find"} => past[c].was
        /\ pc[c] = "acl denied" /\ "setup" \notin past[c].moved => ~past[c].always

\* A client that is told it is logged in is on record as such, with no failure
\* beside it; one that is denied or refused is on record with the reason, and
\* nothing was changed for it; one whose change of a credential is acknowledged is
\* on record with what was written, unless the credential was changed between the
\* two readings (AuthController, AuditExceptionFilter, LocalCredentialAdminService).
OutcomesAreRecorded ==
    \A c \in Clients :
        /\ outcome[c] = "ok" /\ req[c].op = "login" => log[c] = {"LOGIN_SUCCESS"}
        /\ outcome[c] = "denied" =>
            log[c] \cap {"LOGIN_FAILED", "SESSION_MISSING", "SESSION_INVALID", "ACL_DENIED"} # {}
        /\ outcome[c] = "refused" => log[c] = {"INPUT_VALIDATION_FAILED"}
        /\ outcome[c] \in {"denied", "refused"} => log[c] \cap {"SAVED", "DELETED"} = {}
        /\ outcome[c] = "ok" /\ req[c].op = "upsert" => "SAVED" \in log[c]
        /\ outcome[c] = "ok" /\ req[c].op = "delete" => "DELETED" \in log[c]
        /\ "SAVED" \in log[c] /\ "identity" \notin past[c].moved =>
            want[c] = Given(req[c], seen[c]) /\ outcome[c] # "missing"

\* A request that says nothing of it never enables a credential that the contact had
\* disabled when the request last read it, whatever it had read before and whatever
\* others do meanwhile.  It does enable one that was disabled after that reading, or that
\* belongs to another contact with the same email, for it then has found none of its own
\* (upsertCredential and upsertResolvedCredential read by contact, and write by email).
DisabledStays ==
    [][\A e \in Emails :
        (/\ identity[e] # None /\ ~identity[e].enabled
         /\ identity'[e] # None /\ identity'[e].enabled)
        => \E c \in Clients :
            /\ Acts(c)
            /\ \/ req[c].op = "setup" \/ req[c].enabled = TRUE
               \/ had[c] = {} \/ TRUE \in had[c]]_vars
=============================================================================
