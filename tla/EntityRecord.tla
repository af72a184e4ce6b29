---------------------------- MODULE EntityRecord ----------------------------
(***************************************************************************)
(* The pages of one record in the browser (EntityDetailPage and            *)
(* EntityFormPage of src/frontend/src/features/entities).  The page of     *)
(* details shows a record, moves its status along a path and deletes it;   *)
(* the form edits one or creates one.  Each component loads when the       *)
(* record of its route changes, and lives on when only the record changes. *)
(*                                                                         *)
(* Nothing is cancelled: every answer a mounted component gets is used, and*)
(* a save or a deletion leads the browser elsewhere whenever it ends.      *)
(***************************************************************************)
EXTENDS EntityPage, SequencesExt

CONSTANTS
    Records, Initial     \* ids, and those of the records there at first

List == [kind |-> "list", record |-> None]
Blank == [kind |-> "new", record |-> None]
Detail(r) == [kind |-> "detail", record |-> r]
Edit(r) == [kind |-> "edit", record |-> r]
Route == {List, Blank} \cup {Detail(r) : r \in Records} \cup {Edit(r) : r \in Records}

Pages == Nat
Values == [record : Records \cup {None}, version : Nat]
\* Assumed where the module is given its constants.
EntityRecordAssumption ==
    /\ Initial \subseteq Records /\ None \notin Records \cup Values
    /\ MaxActs \in Nat /\ MaxFaults \in Nat

\* since: the version there when it was asked.  page: the instance of the component
\* that asked.  ends: the load is the last step of a status update.
\* late: something asked for later was answered, or the route had been left already.
RecordLoad == [route : Route, since : Nat, page : Pages, ends : BOOLEAN, late : BOOLEAN]
\* seen: the record on the page.  excused: an answer for another route was shown.
Write == [kind : {"path", "save", "delete"}, route : Route, page : Pages, id : Nat,
          seen : Records \cup {None}, excused : BOOLEAN]

VARIABLES
    versions, exists,       \* the server: the version of each record, those there are
    instance,             \* instances of the two components so far
    shown,                \* detailResponse; or formResponse and the values of the form
    submitting, deleting, updating,
    loads, writes,        \* under way
    foreign, written      \* history, see the properties

flags == <<submitting, deleting, updating>>
recordPage == <<instance, shown, loading, error, flags>>
recordHistory == <<behind, foreign, written>>
recordVars == <<versions, exists, url, target, recordPage, loads, writes, recordHistory, acts, faults>>

Component(u) == IF u.kind \in {"edit", "new"} THEN "form" ELSE u.kind
OnPage == url.kind # "list"
RecordLive(x) == OnPage /\ x.page = instance
Version(u) == IF u.record = None THEN 0 ELSE versions[u.record]
RecordAsked(u, n, ends) == [route |-> u, since |-> Version(u), page |-> n, ends |-> ends,
                      late |-> ends /\ u # url]

RecordInit ==
    /\ versions = [r \in Records |-> 0] /\ exists = Initial
    /\ url = List /\ target = None /\ instance = 0
    /\ shown = None /\ loading = FALSE /\ error = FALSE
    /\ submitting = FALSE /\ deleting = FALSE /\ updating = FALSE
    /\ loads = <<>> /\ writes = {}
    /\ behind = FALSE /\ foreign = FALSE /\ written = [r \in Records |-> 0]
    /\ acts = 0 /\ faults = 0

-----------------------------------------------------------------------------
(* What the user does. *)

\* A link, or the browser's history.
RecordFollow(u) ==
    /\ Acts /\ u # url
    /\ target' = u
    /\ UNCHANGED <<versions, exists, url, recordPage, loads, writes, recordHistory>>

Sends(kind) ==
    /\ Acts
    /\ writes' = writes \cup {[kind |-> kind, route |-> url, page |-> instance, id |-> acts',
                               seen |-> shown.record, excused |-> foreign]}
    /\ UNCHANGED <<versions, exists, url, target, instance, shown, loading, error, loads,
                   recordHistory>>

RecordShown == OnPage /\ ~loading /\ ~error /\ shown # None

SelectStatus ==
    /\ Component(url) = "detail" /\ RecordShown
    /\ Sends("path")
    /\ updating' = TRUE /\ UNCHANGED <<submitting, deleting>>

\* The buttons are those of the last answer, also while another one is awaited.
RecordDelete ==
    /\ Component(url) = "detail" /\ shown # None /\ ~deleting
    /\ Sends("delete")
    /\ deleting' = TRUE /\ UNCHANGED <<submitting, updating>>


Submit ==
    /\ Component(url) = "form" /\ RecordShown /\ ~submitting
    /\ Sends("save")
    /\ submitting' = TRUE /\ UNCHANGED <<deleting, updating>>

-----------------------------------------------------------------------------
(* What the pages do. *)

\* The callback depends on the record.
RecordReloads(u) == u.record # url.record

\* Mutant: the spinner is not shown again.
RenewQuietly ==
    /\ IF RecordReloads(target) THEN loads' = Append(loads, RecordAsked(target, instance, FALSE))
                          ELSE UNCHANGED loads
    /\ UNCHANGED recordPage

\* The same component, for another record.
RecordRenew ==
    /\ IF RecordReloads(target)
       THEN loading' = TRUE /\ loads' = Append(loads, RecordAsked(target, instance, FALSE))
       ELSE UNCHANGED <<loading, loads>>
    /\ UNCHANGED <<instance, shown, error, flags>>

RecordOpen ==
    /\ instance' = instance + 1
    /\ shown' = None /\ loading' = TRUE /\ error' = FALSE
    /\ submitting' = FALSE /\ deleting' = FALSE /\ updating' = FALSE
    /\ loads' = Append(loads, RecordAsked(target, instance + 1, FALSE))

RecordArrive ==
    /\ target # None
    /\ url' = target /\ target' = None
    /\ IF target = List THEN UNCHANGED <<recordPage, loads>>
       ELSE IF Component(target) = Component(url) THEN RecordRenew ELSE RecordOpen
    /\ foreign' = (foreign /\ loads' = loads)
    /\ UNCHANGED <<versions, exists, writes, behind, written, acts, faults>>

\* The load at i is answered: those before it are late.
RecordAnswered(i) ==
    RemoveAt([j \in DOMAIN loads |->
               IF j < i THEN [loads[j] EXCEPT !.late = TRUE] ELSE loads[j]], i)

Found(u) == u.record = None \/ u.record \in exists

RecordSucceed(r) ==
    /\ Works /\ Found(r.route)
    /\ IF RecordLive(r)
       THEN /\ \E v \in r.since .. Version(r.route) :
                  shown' = [record |-> r.route.record, version |-> v]
            /\ error' = FALSE
       ELSE UNCHANGED <<shown, error>>

RecordGiveUp(r) ==
    /\ IF Found(r.route) THEN Fails ELSE Works
    /\ IF RecordLive(r) THEN shown' = None /\ error' = TRUE ELSE UNCHANGED <<shown, error>>

RecordLoadAnswer(i) ==
    LET r == loads[i]
    IN  /\ loads' = RecordAnswered(i)
        /\ RecordSucceed(r) \/ RecordGiveUp(r)
        /\ IF RecordLive(r) THEN loading' = FALSE /\ behind' = r.late /\ foreign' = (r.route # url)
                      ELSE UNCHANGED <<loading, behind, foreign>>
        /\ updating' = (updating /\ ~(RecordLive(r) /\ r.ends))
        /\ UNCHANGED <<versions, exists, url, target, instance, submitting, deleting, writes,
                       written>>

\* The version w leaves is one the page that sent it knows of, if it is still there.
Stores(w, r) ==
    /\ versions' = [versions EXCEPT ![r] = @ + 1]
    /\ written' = IF RecordLive(w) THEN [written EXCEPT ![r] = versions[r] + 1] ELSE written

\* Mutant: the record is not loaded again.
StatusSavedOnly(w) ==
    /\ Stores(w, w.route.record)
    /\ updating' = (updating /\ ~RecordLive(w))
    /\ UNCHANGED <<exists, target, loading, submitting, deleting, loads>>

\* Then the record the update was made for is loaded again, and the flag waits for it.
StatusSaved(w) ==
    /\ Stores(w, w.route.record)
    /\ loading' = (loading \/ RecordLive(w))
    /\ loads' = Append(loads, [RecordAsked(w.route, w.page, TRUE) EXCEPT !.since = versions'[w.route.record]])
    /\ UNCHANGED <<exists, target, flags>>


\* The record a write is for, a new one for a creation.
Written(w) == IF w.route = Blank THEN Records \ exists ELSE {w.route.record}

\* A save leads to the record, and a creation to the one the answer names.
Saved(w) ==
    /\ \E r \in Written(w) :
          /\ Stores(w, r)
          /\ exists' = exists \cup {r}
          /\ target' = Detail(r)
    /\ submitting' = (submitting /\ ~RecordLive(w))
    /\ UNCHANGED <<loading, deleting, updating, loads>>

Deleted(w) ==
    /\ exists' = exists \ {w.route.record}
    /\ target' = List
    /\ deleting' = (deleting /\ ~RecordLive(w))
    /\ UNCHANGED <<versions, loading, submitting, updating, loads, written>>

\* What fails for the page may have reached the server, its answer then lost.
MayHaveReached(w) ==
    \/ UNCHANGED <<versions, exists>>
    \/ /\ w.kind = "delete" /\ exists' = exists \ {w.route.record} /\ UNCHANGED versions
    \/ /\ w.kind # "delete" /\ Found(w.route)
       /\ \E r \in Written(w) : /\ versions' = [versions EXCEPT ![r] = @ + 1]
                                 /\ exists' = exists \cup {r}

\* Mutant: the flag of the write is not taken back.
WriteFailedBusy(w) ==
    /\ MayHaveReached(w)
    /\ error' = (error \/ RecordLive(w))
    /\ UNCHANGED <<target, loading, flags, loads, written>>

WriteFailed(w) ==
    /\ MayHaveReached(w)
    /\ error' = (error \/ RecordLive(w))
    /\ submitting' = (submitting /\ ~(RecordLive(w) /\ w.kind = "save"))
    /\ deleting' = (deleting /\ ~(RecordLive(w) /\ w.kind = "delete"))
    /\ updating' = (updating /\ ~(RecordLive(w) /\ w.kind = "path"))
    /\ UNCHANGED <<target, loading, loads, written>>

WriteAnswer(w) ==
    /\ writes' = writes \ {w}
    /\ \/ /\ Works /\ Found(w.route)
          /\ \/ w.kind = "path" /\ StatusSaved(w)
             \/ w.kind = "save" /\ Saved(w)
             \/ w.kind = "delete" /\ Deleted(w)
          /\ UNCHANGED error
       \/ /\ IF Found(w.route) THEN Fails ELSE Works
          /\ WriteFailed(w)
    /\ UNCHANGED <<url, instance, shown, behind, foreign>>

RecordNext ==
    \/ \E u \in Route : RecordFollow(u)
    \/ SelectStatus \/ RecordDelete \/ Submit
    \/ RecordArrive
    \/ \E i \in DOMAIN loads : RecordLoadAnswer(i)
    \/ \E w \in writes : WriteAnswer(w)

RecordSpec == RecordInit /\ [][RecordNext]_recordVars

-----------------------------------------------------------------------------
(* Properties. *)

RecordTypeOK ==
    /\ versions \in [Records -> Nat] /\ exists \subseteq Records
    /\ url \in Route /\ target \in Route \cup {None}
    /\ instance \in Pages
    /\ shown \in Values \cup {None}
    /\ {loading, error, submitting, deleting, updating, behind, foreign} \subseteq BOOLEAN
    /\ loads \in Seq(RecordLoad) /\ writes \subseteq Write
    /\ written \in [Records -> Nat]
    /\ acts \in 0 .. MaxActs /\ faults \in 0 .. MaxFaults

\* Nothing is under way for the page.
RecordQuiet ==
    /\ OnPage /\ target = None
    /\ \A i \in DOMAIN loads : ~RecordLive(loads[i])
    /\ \A w \in writes : ~RecordLive(w)

\* Once nothing is under way the page shows the record of its route, not older than what
\* the user wrote to it, or an error, unless the last answer it used came after that of a
\* later request, or was asked for by a status update of a record the user had left
\* (nothing is cancelled, and the component is kept from one record to the next).
RecordMatches ==
    RecordQuiet /\ ~behind /\ ~error =>
        /\ shown # None /\ shown.record = url.record
        /\ url.kind = "detail" => shown.version >= written[shown.record]

\* A status update or a save is sent to the record whose values the user saw, unless
\* the answer of another route had taken the spinner away (the record is that of the
\* route, the values those of the last answer).
WritesMatch ==
    \A w \in writes : w.kind # "delete" /\ ~w.excused => w.seen = w.route.record

\* A spinner, a disabled button or a highlighted step waits for an answer that will end
\* it, however the user moved from record to record meanwhile; and while a save of a form
\* is under way its button sends no other.  (After its answer it does, until the browser
\* has gone to the record, and after a failure that was none for the server.)
BusyWaits ==
    /\ OnPage /\ loading => \E i \in DOMAIN loads : RecordLive(loads[i])
    /\ OnPage /\ submitting => \E w \in writes : RecordLive(w) /\ w.kind = "save"
    /\ OnPage /\ deleting => \E w \in writes : RecordLive(w) /\ w.kind = "delete"
    /\ OnPage /\ updating => \/ \E w \in writes : RecordLive(w) /\ w.kind = "path"
                             \/ \E i \in DOMAIN loads : RecordLive(loads[i]) /\ loads[i].ends
    /\ \A v, w \in writes : v.kind = "save" /\ w.kind = "save" /\ v.page = w.page => v = w
=============================================================================
