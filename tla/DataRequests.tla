---------------------------- MODULE DataRequests -----------------------------
(***************************************************************************)
(* Requests for Salesforce data: pages of lists, related lists and         *)
(* reports, single records, and writes (src/backend/src/entities, reports, *)
(* audit).                                                                 *)
(*                                                                         *)
(* Every request is authorised first, against the access rules and the     *)
(* visibility policy in force.  Every query and write is announced in the  *)
(* audit trail, executed, and its row completed; the pages after the first *)
(* are read through a cursor, a database row that keeps the rows already   *)
(* fetched and Salesforce's locator of the others.                         *)
(*                                                                         *)
(* An action is the code from one await to the next.  Any statement and    *)
(* any call to Salesforce may fail, the process may crash, and the policy  *)
(* may change between two steps.  Visibility auditing is switched on.      *)
(***************************************************************************)
EXTENDS Integers, Sequences

CONSTANTS
    Clients,         \* requests under way, at most
    Contacts, Views, Records,
    Requests,        \* what is asked
    Visible,         \* per scope, the records its predicate selects
    Results,         \* per scope, the answers Salesforce may give
    BatchSizes,      \* rows Salesforce returns at a time, while there are as many
    TTL,             \* ENTITY_QUERY_CURSOR_TTL_SECONDS
    MaxRequests, MaxSingles, MaxVersion, MaxTime, MaxFaults,    \* bounds of one behaviour
    None

\* The identifiers of cursors: random, never used twice; at most one a request.
Tokens == 1 .. MaxRequests
Versions == 1 .. MaxVersion
Ops == {"page", "read", "create", "update", "delete"}
Kinds == {"list", "related-list", "report"}
View == [kind : Kinds, name : STRING]
Request == [op : Ops, contact : Contacts, view : Views, size : Nat \ {0},
            record : Records \cup {None}]
Scope == [contact : Contacts, view : Views, ver : Versions]
Cursor == [scope : Scope, size : Nat \ {0}, records : Seq(Records),
           locator : Seq(Records), expires : Nat]
AuditRow == [call : {"query", "write"}, status : {"PENDING", "SUCCESS", "FAILURE"},
             effect : BOOLEAN,       \* history: whether Salesforce did it
             seen : BOOLEAN]         \* whether the visibility decision is recorded

ASSUME DataRequestsAssumption ==
    /\ Requests \subseteq Request
    /\ Views \subseteq View
    /\ BatchSizes \subseteq Nat \ {0} /\ BatchSizes # {} /\ TTL \in Nat \ {0}
    /\ MaxRequests \in Nat /\ MaxSingles \in Nat /\ MaxVersion \in Nat \ {0}
    /\ MaxTime \in Nat /\ MaxFaults \in Nat
    /\ Visible \in [Scope -> SUBSET Records]
    /\ DOMAIN Results = Scope
    /\ \A s \in Scope : \A rows \in Results[s] : rows \in Seq(Visible[s])
    /\ None \notin Request /\ None \notin Cursor /\ None \notin Tokens
    /\ None \notin Records
    /\ None \notin [scope : Scope, size : Nat \ {0}, rows : Seq(Records)]
    /\ None \notin [scope : Scope, size : Nat \ {0}, rows : Seq(Records), fresh : BOOLEAN]
    /\ \A q \in Requests : q.op \in {"update", "delete", "read"} => q.record # None

VARIABLES
    version,         \* object policy version
    cursors,         \* entityQueryCursorCache and reportQueryCursorCache
    asked, minted,   \* requests and cursors so far
    pc, req, token, ver,    \* per client: its request, the cursor it
                            \* presents, the policy it was given
    work, rest,      \* workingRecords, and what the locator stands for
    trail,           \* the audit rows of the request
    filed,           \* whether its refusal is in a security or visibility log
    outcome,
    faults, now

store == <<cursors, minted, asked, version>>
fixed == <<req, token, ver>>
held == <<work, rest>>
vars == <<version, cursors, asked, minted, pc, req, token, ver, work, rest, trail,
          filed, outcome, faults, now>>

ScopeOf(c) == [contact |-> req[c].contact, view |-> req[c].view, ver |-> ver[c]]
Table(view) == IF view.kind = "report" THEN "report" ELSE "entity"

Init ==
    /\ version = 1
    /\ cursors = [t \in Tokens |-> None]
    /\ asked = 0
    /\ minted = 0
    /\ pc = [c \in Clients |-> "idle"]
    /\ req = [c \in Clients |-> None]
    /\ token = [c \in Clients |-> None]
    /\ ver = [c \in Clients |-> 1]
    /\ work = [c \in Clients |-> <<>>]
    /\ rest = [c \in Clients |-> <<>>]
    /\ trail = [c \in Clients |-> <<>>]
    /\ filed = [c \in Clients |-> FALSE]
    /\ outcome = [c \in Clients |-> "none"]
    /\ faults = 0
    /\ now = 0

-----------------------------------------------------------------------------
(* How a step ends. *)

Goto(c, label) == pc' = [pc EXCEPT ![c] = label]

\* outcome: "ok"; "refused" 400 or 403; "hidden" 403, no field left to show;
\* "missing" 404; "error" 500 or 503.
Answer(c, how) ==
    /\ Goto(c, "done")
    /\ outcome' = [outcome EXCEPT ![c] = how]

Works == UNCHANGED faults
Fails == faults < MaxFaults /\ faults' = faults + 1

-----------------------------------------------------------------------------
(* Entry points. *)

Begin(c, q, t, label) ==
    /\ pc[c] = "idle"
    /\ asked < MaxRequests
    /\ asked' = asked + 1
    /\ req' = [req EXCEPT ![c] = q]
    /\ token' = [token EXCEPT ![c] = t]
    /\ Goto(c, label)
    /\ UNCHANGED <<version, cursors, minted, ver, held, trail, filed, outcome, faults, now>>

\* A page, the first or the one a cursor stands for.
BeginPage(c, q, kind) ==
    /\ q.op = "page" /\ q.view.kind = kind
    /\ \E t \in (1 .. minted) \cup {None} : Begin(c, q, t, "sweep")

GetEntityList(c, q) == BeginPage(c, q, "list")
GetEntityRelatedList(c, q) == BeginPage(c, q, "related-list")
RunReport(c, q) == BeginPage(c, q, "report")

\* One record.  These requests share nothing but the policy: a behaviour has them
\* among its first MaxSingles.
BeginSingle(c, q, op) ==
    q.op = op /\ asked < MaxSingles /\ Begin(c, q, None, "access")

GetEntity(c, q) == BeginSingle(c, q, "read")
CreateEntityRecord(c, q) == BeginSingle(c, q, "create")
UpdateEntityRecord(c, q) == BeginSingle(c, q, "update")
DeleteEntityRecord(c, q) == BeginSingle(c, q, "delete")

Expired(t) == cursors[t] # None /\ cursors[t].expires < now

\* deleteExpiredCursors, before anything else.
Sweep(c) ==
    /\ pc[c] = "sweep"
    /\ \/ /\ Works
          /\ cursors' = [t \in Tokens |->
                IF Expired(t) /\ Table(cursors[t].scope.view) = Table(req[c].view)
                THEN None ELSE cursors[t]]
          /\ Goto(c, "access")
          /\ UNCHANGED outcome
       \/ Fails /\ Answer(c, "error") /\ UNCHANGED cursors
    /\ UNCHANGED <<version, asked, minted, fixed, held, trail, filed, now>>

\* The security event of the access rules, or the visibility record of a DENY.
Deny(c) ==
    \/ /\ Works
       /\ filed' = [filed EXCEPT ![c] = TRUE]
       /\ Answer(c, "refused")
    \/ Fails /\ Answer(c, "error") /\ UNCHANGED filed

\* What follows the authorisation.
AfterAccess(c) ==
    IF req[c].op = "page" /\ token[c] # None THEN "cursor"
    ELSE IF req[c].op = "create" THEN "decision"
    ELSE "intent"

\* The configuration is loaded, and may lack what is asked for; then
\* authorizeObjectAccess; then, for what is read, ensureVisibleFields.
Access(c) ==
    /\ pc[c] = "access"
    /\ \/ /\ Works
          /\ ver' = [ver EXCEPT ![c] = version]
          /\ Goto(c, AfterAccess(c))
          /\ UNCHANGED <<filed, outcome>>
       \/ Works /\ Answer(c, "missing") /\ UNCHANGED <<ver, filed>>
       \/ Deny(c) /\ UNCHANGED ver
       \/ /\ req[c].op \in {"page", "read"}
          /\ Works /\ Answer(c, "hidden") /\ UNCHANGED <<ver, filed>>
    /\ UNCHANGED <<store, req, token, held, trail, now>>

-----------------------------------------------------------------------------
(* Cursors. *)

\* Mutant: the fingerprint leaves the policy out.
MatchesAnyPolicy(c, k) ==
    k.scope = [ScopeOf(c) EXCEPT !.ver = k.scope.ver] /\ k.size = req[c].size

\* assertCursorMatches, and the fingerprint with it.
Matches(c, k) == k.scope = ScopeOf(c) /\ k.size = req[c].size

\* The row of the token, in the table of the service asked.
Found(c) ==
    /\ cursors[token[c]] # None
    /\ Table(cursors[token[c]].scope.view) = Table(req[c].view)

\* Mutant: rows beyond the page are dropped when the locator is exhausted.
PaginateByLocator(c, w, r) ==
    /\ work' = [work EXCEPT ![c] = w]
    /\ rest' = [rest EXCEPT ![c] = r]
    /\ IF token[c] # None /\ Len(w) < req[c].size /\ r # <<>>
       THEN Goto(c, "intent") /\ UNCHANGED outcome
       ELSE IF r # <<>> THEN Goto(c, "mint") /\ UNCHANGED outcome
       ELSE Answer(c, "ok")

\* The loop of materializeCursorPage: fetch more, create the next cursor, or
\* answer.  The first page of a result is cut from a single batch.
Paginate(c, w, r) ==
    /\ work' = [work EXCEPT ![c] = w]
    /\ rest' = [rest EXCEPT ![c] = r]
    /\ IF token[c] # None /\ Len(w) < req[c].size /\ r # <<>>
       THEN Goto(c, "intent") /\ UNCHANGED outcome
       ELSE IF Len(w) > req[c].size \/ r # <<>>
       THEN Goto(c, "mint") /\ UNCHANGED outcome
       ELSE Answer(c, "ok")

\* readCursor and assertCursorMatches.
ReadCursor(c) ==
    /\ pc[c] = "cursor"
    /\ LET k == cursors[token[c]]
       IN  IF ~Found(c)
           THEN Goto(c, "refuse") /\ UNCHANGED <<held, outcome>>
           ELSE IF k.expires <= now
           THEN Goto(c, "expired") /\ UNCHANGED <<held, outcome>>
           ELSE IF ~Matches(c, k)
           THEN Goto(c, "refuse") /\ UNCHANGED <<held, outcome>>
           ELSE Paginate(c, k.records, k.locator)
    /\ UNCHANGED <<store, fixed, trail, filed, faults, now>>

\* The delete of the expired row, which fails if the row is gone by then.
DropExpired(c) ==
    /\ pc[c] = "expired"
    /\ \/ /\ cursors[token[c]] # None
          /\ cursors' = [cursors EXCEPT ![token[c]] = None]
          /\ Goto(c, "refuse")
          /\ Works /\ UNCHANGED outcome
       \/ /\ \/ Works /\ cursors[token[c]] = None
             \/ Fails
          /\ Answer(c, "error")
          /\ UNCHANGED cursors
    /\ UNCHANGED <<version, asked, minted, fixed, held, trail, filed, now>>

\* AuditExceptionFilter: a 400 is answered once its security event is stored.
Refuse(c) ==
    /\ pc[c] = "refuse"
    /\ Deny(c)
    /\ UNCHANGED <<store, fixed, held, trail, now>>

First(s, n) == SubSeq(s, 1, n)
After(s, n) == SubSeq(s, n + 1, Len(s))
PageOf(c) == First(work[c], IF Len(work[c]) < req[c].size THEN Len(work[c]) ELSE req[c].size)
LeftOf(c) == After(work[c], Len(PageOf(c)))

\* createCursor, then the answer.
Mint(c) ==
    /\ pc[c] = "mint"
    /\ \/ /\ Works
          /\ minted < MaxRequests
          /\ minted' = minted + 1
          /\ cursors' = [cursors EXCEPT ![minted + 1] =
                [scope |-> ScopeOf(c), size |-> req[c].size,
                 records |-> LeftOf(c), locator |-> rest[c], expires |-> now + TTL]]
          /\ Answer(c, "ok")
          /\ work' = [work EXCEPT ![c] = PageOf(c)]
          /\ rest' = [rest EXCEPT ![c] = <<>>]
       \/ Fails /\ Answer(c, "error") /\ UNCHANGED <<cursors, minted, held>>
    /\ UNCHANGED <<version, asked, fixed, trail, filed, now>>

-----------------------------------------------------------------------------
(* executeWithAudit: one query and its row of the audit trail. *)

Announce(c, call) ==
    trail' = [trail EXCEPT ![c] = Append(@, [call |-> call, status |-> "PENDING",
                                             effect |-> FALSE, seen |-> FALSE])]
Last(c) == Len(trail[c])
Mark(c, status) == trail' = [trail EXCEPT ![c][Last(c)].status = status]

\* createQueryAuditIntentOrThrow: the statement may fail before or after it is
\* executed.
Intent(c) ==
    /\ pc[c] = "intent"
    /\ \/ Works /\ Announce(c, "query") /\ Goto(c, "call") /\ UNCHANGED outcome
       \/ Fails /\ (Announce(c, "query") \/ UNCHANGED trail) /\ Answer(c, "error")
    /\ UNCHANGED <<store, fixed, held, filed, now>>

\* How many rows Salesforce returns of those that are left.
Batches(s) == {IF b < Len(s) THEN b ELSE Len(s) : b \in BatchSizes}


\* The record asked for, when the predicate selects it and it exists.
Lookups(c) == {<<>>} \cup (IF req[c].record \in Visible[ScopeOf(c)]
                           THEN {<<req[c].record>>} ELSE {})

\* The query itself: the first batch, the next batch, or one record.
Fetch(c) ==
    \/ /\ req[c].op = "page" /\ token[c] = None
       /\ \E s \in Results[ScopeOf(c)] : \E n \in Batches(s) :
            /\ work' = [work EXCEPT ![c] = First(s, n)]
            /\ rest' = [rest EXCEPT ![c] = After(s, n)]
    \/ /\ req[c].op = "page" /\ token[c] # None
       /\ \E n \in Batches(rest[c]) :
            /\ work' = [work EXCEPT ![c] = @ \o First(rest[c], n)]
            /\ rest' = [rest EXCEPT ![c] = After(@, n)]
    \/ /\ req[c].op # "page"
       /\ \E s \in Lookups(c) : work' = [work EXCEPT ![c] = s]
       /\ UNCHANGED rest

Call(c) ==
    /\ pc[c] = "call"
    /\ \/ /\ Works
          /\ Fetch(c)
          /\ trail' = [trail EXCEPT ![c][Last(c)].effect = TRUE]
          /\ Goto(c, "complete")
       \/ Fails /\ Goto(c, "failure") /\ UNCHANGED <<held, trail>>
    /\ UNCHANGED <<store, fixed, filed, outcome, now>>

\* completeQueryAuditOrThrow, inside the try: when it fails the catch block runs.
Complete(c) ==
    /\ pc[c] = "complete"
    /\ \/ Works /\ Mark(c, "SUCCESS") /\ Goto(c, "visibility")
       \/ Fails /\ Mark(c, "SUCCESS") /\ Goto(c, "failure")
       \/ Fails /\ Goto(c, "failure") /\ UNCHANGED trail
    /\ UNCHANGED <<store, fixed, held, filed, outcome, now>>

Proceed(c) ==
    \/ req[c].op = "page" /\ Paginate(c, work[c], rest[c])
    \/ /\ req[c].op # "page"
       /\ IF work[c] = <<>> THEN Answer(c, "missing")
          ELSE IF req[c].op = "read" THEN Answer(c, "ok")
          ELSE Goto(c, "decision") /\ UNCHANGED outcome
       /\ UNCHANGED held

\* Mutant: the record of the visibility decision is best effort.
RecordVisibilityBestEffort(c) ==
    /\ pc[c] = "visibility"
    /\ \/ Works /\ trail' = [trail EXCEPT ![c][Last(c)].seen = TRUE]
       \/ Fails /\ UNCHANGED trail
    /\ Proceed(c)
    /\ UNCHANGED <<store, fixed, filed, now>>

\* recordAudit, inside the same try.
RecordVisibility(c) ==
    /\ pc[c] = "visibility"
    /\ \/ /\ Works
          /\ trail' = [trail EXCEPT ![c][Last(c)].seen = TRUE]
          /\ Proceed(c)
       \/ Fails /\ Goto(c, "failure") /\ UNCHANGED <<trail, outcome, held>>
    /\ UNCHANGED <<store, fixed, filed, now>>

\* Mutant: the catch block does not rethrow.
FailureNotRethrown(c) ==
    /\ pc[c] = "failure"
    /\ Works
    /\ Mark(c, "FAILURE")
    /\ Proceed(c)
    /\ UNCHANGED <<store, fixed, filed, now>>

\* The catch block: FAILURE, whatever the row says; then the decision again.
Failure(c) ==
    /\ pc[c] = "failure"
    /\ \/ Works /\ Mark(c, "FAILURE") /\ Goto(c, "unseen") /\ UNCHANGED outcome
       \/ Fails /\ Answer(c, "error") /\ UNCHANGED trail
    /\ UNCHANGED <<store, fixed, held, filed, now>>

FailureVisibility(c) ==
    /\ pc[c] = "unseen"
    /\ \/ Works /\ trail' = [trail EXCEPT ![c][Last(c)].seen = TRUE]
       \/ Fails /\ UNCHANGED trail
    /\ Answer(c, "error")
    /\ UNCHANGED <<store, fixed, held, filed, now>>

-----------------------------------------------------------------------------
(* Writes, once the record is known to be in scope. *)

\* normalizeWritePayload, which may refuse the values, and
\* recordWriteVisibilityAudit.
Decision(c) ==
    /\ pc[c] = "decision"
    /\ \/ Works /\ Goto(c, "announce") /\ UNCHANGED outcome
       \/ /\ req[c].op \in {"create", "update"}
          /\ Works /\ Goto(c, "refuse") /\ UNCHANGED outcome
       \/ Fails /\ Answer(c, "error")
    /\ UNCHANGED <<store, fixed, held, trail, filed, now>>

\* createApplicationIntentOrThrow
AnnounceWrite(c) ==
    /\ pc[c] = "announce"
    /\ \/ Works /\ Announce(c, "write") /\ Goto(c, "write") /\ UNCHANGED outcome
       \/ Fails /\ (Announce(c, "write") \/ UNCHANGED trail) /\ Answer(c, "error")
    /\ UNCHANGED <<store, fixed, held, filed, now>>

\* createRecord, updateRecord, deleteRecord: a call that fails may have had its
\* effect, when it is the answer that is lost.
Write(c) ==
    /\ pc[c] = "write"
    /\ \E done \in BOOLEAN :
        /\ trail' = [trail EXCEPT ![c][Last(c)].effect = done]
        /\ \/ Works /\ done /\ Goto(c, "written")
           \/ Fails /\ Goto(c, "unwritten")
    /\ UNCHANGED <<store, fixed, held, filed, outcome, now>>

\* completeApplicationAuditOrThrow, inside the same try.
Written(c) ==
    /\ pc[c] = "written"
    /\ \/ Works /\ Mark(c, "SUCCESS") /\ Answer(c, "ok")
       \/ Fails /\ Mark(c, "SUCCESS") /\ Goto(c, "unwritten") /\ UNCHANGED outcome
       \/ Fails /\ Goto(c, "unwritten") /\ UNCHANGED <<trail, outcome>>
    /\ UNCHANGED <<store, fixed, held, filed, now>>


Unwritten(c) ==
    /\ pc[c] = "unwritten"
    /\ \/ Works /\ Mark(c, "FAILURE")
       \/ Fails /\ UNCHANGED trail
    /\ Answer(c, "error")
    /\ UNCHANGED <<store, fixed, held, filed, now>>

-----------------------------------------------------------------------------
(* The environment. *)

Clear(cs) ==
    /\ pc' = [c \in Clients |-> IF c \in cs THEN "idle" ELSE pc[c]]
    /\ req' = [c \in Clients |-> IF c \in cs THEN None ELSE req[c]]
    /\ token' = [c \in Clients |-> IF c \in cs THEN None ELSE token[c]]
    /\ ver' = [c \in Clients |-> IF c \in cs THEN 1 ELSE ver[c]]
    /\ work' = [c \in Clients |-> IF c \in cs THEN <<>> ELSE work[c]]
    /\ rest' = [c \in Clients |-> IF c \in cs THEN <<>> ELSE rest[c]]
    /\ trail' = [c \in Clients |-> IF c \in cs THEN <<>> ELSE trail[c]]
    /\ filed' = [c \in Clients |-> IF c \in cs THEN FALSE ELSE filed[c]]
    /\ outcome' = [c \in Clients |-> IF c \in cs THEN "none" ELSE outcome[c]]

\* The answer has been read.
Leave(c) ==
    /\ pc[c] = "done"
    /\ Clear({c})
    /\ UNCHANGED <<store, faults, now>>

\* The process dies: the database keeps what was stored.
Crash ==
    /\ Fails
    /\ \E c \in Clients : pc[c] \notin {"idle", "done"}
    /\ pc' = [c \in Clients |-> IF pc[c] = "idle" THEN "idle" ELSE "done"]
    /\ outcome' = [c \in Clients |-> IF pc[c] \in {"idle", "done"} THEN outcome[c]
                                                                   ELSE "error"]
    /\ UNCHANGED <<store, fixed, held, trail, filed, now>>

ChangePolicy ==
    /\ version < MaxVersion
    /\ version' = version + 1
    /\ UNCHANGED <<cursors, minted, asked, pc, fixed, held, trail, filed, outcome, faults, now>>

\* The clock matters once there is a cursor, and is counted from then on.
Tick ==
    /\ minted > 0 /\ now < MaxTime
    /\ now' = now + 1
    /\ UNCHANGED <<store, pc, fixed, held, trail, filed, outcome, faults>>

Serve(c) ==
    \/ Sweep(c) \/ Access(c)
    \/ ReadCursor(c) \/ DropExpired(c) \/ Refuse(c) \/ Mint(c)
    \/ Intent(c) \/ Call(c) \/ Complete(c) \/ RecordVisibility(c)
    \/ Failure(c) \/ FailureVisibility(c)
    \/ Decision(c) \/ AnnounceWrite(c) \/ Write(c) \/ Written(c) \/ Unwritten(c)

Next ==
    \/ \E c \in Clients :
        \/ \E q \in Requests :
            \/ GetEntityList(c, q) \/ GetEntityRelatedList(c, q) \/ RunReport(c, q)
            \/ GetEntity(c, q) \/ CreateEntityRecord(c, q)
            \/ UpdateEntityRecord(c, q) \/ DeleteEntityRecord(c, q)
        \/ Serve(c)
        \/ Leave(c)
    \/ Crash
    \/ ChangePolicy
    \/ Tick

Spec == Init /\ [][Next]_vars

-----------------------------------------------------------------------------
(* Properties. *)

Labels == {"idle", "sweep", "access", "cursor", "expired", "refuse", "mint",
           "intent", "call", "complete", "visibility", "failure", "unseen",
           "decision", "announce", "write", "written", "unwritten", "done"}

TypeOK ==
    /\ version \in Versions
    /\ cursors \in [Tokens -> Cursor \cup {None}]
    /\ asked \in 0 .. MaxRequests /\ minted \in 0 .. MaxRequests
    /\ pc \in [Clients -> Labels]
    /\ req \in [Clients -> Requests \cup {None}]
    /\ \A c \in Clients : pc[c] # "idle" => req[c] \in Requests
    /\ token \in [Clients -> Tokens \cup {None}]
    /\ ver \in [Clients -> Versions]
    /\ work \in [Clients -> Seq(Records)] /\ rest \in [Clients -> Seq(Records)]
    /\ trail \in [Clients -> Seq(AuditRow)]
    /\ filed \in [Clients -> BOOLEAN]
    /\ outcome \in [Clients -> {"none", "ok", "refused", "hidden", "missing", "error"}]
    /\ faults \in 0 .. MaxFaults
    /\ now \in 0 .. MaxTime

Given(c) == pc[c] = "done" /\ outcome[c] = "ok"

\* Whatever batches, cursors, retries and policy changes a page went through, the
\* client is given only rows that the policy it was authorised under selects for
\* it: the fingerprint of a cursor changes with everything the rows depend on
\* (buildEntityQueryFingerprint, materializeCursorPage).
RowsOfOnePolicy ==
    \A c \in Clients : Given(c) => work[c] \in Seq(Visible[ScopeOf(c)])

\* An update or a deletion reaches Salesforce only for a record that the policy
\* the request was authorised under puts in the contact's scope
\* (assertRecordInWriteScope).
WritesInScope ==
    \A c \in Clients : \A i \in DOMAIN trail[c] :
        trail[c][i].call = "write" /\ req[c].op \in {"update", "delete"} =>
            req[c].record \in Visible[ScopeOf(c)]

\* What is given and what is written keeps to the policy the request was authorised
\* under, whatever changed meanwhile.
WithinPolicy == RowsOfOnePolicy /\ WritesInScope

\* A client that is given data, or told that its write succeeded, leaves a
\* complete record: every call is in the trail as a success that took place, and
\* every query with the visibility decision behind it (executeWithAudit,
\* EntityWriteRuntime).
Recorded(c) ==
    /\ \A i \in DOMAIN trail[c] :
        /\ trail[c][i].status = "SUCCESS" /\ trail[c][i].effect
        /\ trail[c][i].call = "query" => trail[c][i].seen
    /\ req[c].op \in {"create", "update", "delete"} =>
        \E i \in DOMAIN trail[c] : trail[c][i].call = "write"

\* What is given is completely on record; an access that is denied and an input
\* that is refused, a cursor included, are answered only once a log says so, and
\* nothing was written by then (authorizeObjectAccess, AuditExceptionFilter).
OutcomesAreRecorded ==
    \A c \in Clients :
        /\ Given(c) => Recorded(c)
        /\ outcome[c] = "refused" =>
            filed[c] /\ \A i \in DOMAIN trail[c] : trail[c][i].call # "write"

\* The trail never claims a success that did not take place; when no step failed
\* it is exact, and no row of an ended request is left PENDING.
TrailIsTrue ==
    \A c \in Clients : \A i \in DOMAIN trail[c] :
        /\ trail[c][i].status = "SUCCESS" => trail[c][i].effect
        /\ faults = 0 => trail[c][i].status # "FAILURE"
        /\ faults = 0 /\ pc[c] = "done" => trail[c][i].status = "SUCCESS"

\* The trail has all that was given or written, and claims no more.
Audited == OutcomesAreRecorded /\ TrailIsTrue

\* A completed row changes once more at most: from SUCCESS to FAILURE, and then
\* the client is not given the answer (the catch blocks of executeWithAudit and
\* of EntityWriteRuntime).
TrailIsFinal ==
    [][\A c \in Clients : \A i \in DOMAIN trail[c] :
        i \in DOMAIN trail'[c] /\ trail'[c][i].status # trail[c][i].status =>
            /\ trail[c][i].status # "FAILURE" /\ trail'[c][i].status # "PENDING"
            /\ trail[c][i].status = "SUCCESS" =>
                pc'[c] = "unseen" \/ outcome'[c] = "error"]_vars

\* The promise of cursors (EntityCursorQueryExecutor, ReportCursorExecutorService):
\* a request goes on with the rows it fetched and those behind its locator.
Reading(c) ==
    /\ pc[c] \in {"complete", "visibility", "mint"}
                 \cup (IF token[c] = None THEN {} ELSE {"intent", "call"})
    /\ req[c].op = "page"

Pages ==
    INSTANCE PagedResult WITH
        Cursors <- Tokens,
        Scopes <- DOMAIN Results,
        Sizes <- {q.size : q \in Requests},
        stands <- [t \in Tokens |->
            IF cursors[t] = None THEN None
            ELSE [scope |-> cursors[t].scope, size |-> cursors[t].size,
                  rows |-> cursors[t].records \o cursors[t].locator]],
        claim <- [c \in Clients |->
            IF ~Reading(c) THEN None
            ELSE [scope |-> ScopeOf(c), size |-> req[c].size,
                  rows |-> work[c] \o rest[c], fresh |-> token[c] = None]],
        page <- [c \in Clients |->
            IF Given(c) /\ req[c].op = "page" THEN work[c] ELSE None]

PagesInOrder == Pages!PSpec
=============================================================================
