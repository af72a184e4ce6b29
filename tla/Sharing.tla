------------------------------ MODULE Sharing ------------------------------
(***************************************************************************)
(* Report folders, reports, dashboard folders, dashboards and the home     *)
(* page of their app: who owns each, with whom it is shared, and the       *)
(* requests that change that (backend/src/reports, backend/src/dashboards, *)
(* the home page of backend/src/apps).                                     *)
(*                                                                         *)
(* A request reads rows and checks them, then writes: with one statement   *)
(* for a creation or a deletion, in a transaction (READ COMMITTED) that    *)
(* replaces the share rows otherwise; it records the change in the audit   *)
(* trail and answers by reading the row again.  The reads of one check are *)
(* one step here; between the check, the transaction, its commit and the   *)
(* answer every other request can act.  A refused request changes nothing  *)
(* and is left out.                                                        *)
(***************************************************************************)
EXTENDS Naturals, FiniteSets

CONSTANTS ReportFolders, Reports, DashFolders, Dashboards,
          Users, Admins,      \* admins hold rest:apps-admin
          Grants, Matches,    \* share grants, and those that match a user
          InitRows,           \* what earlier requests may have stored
          Clients,            \* requests in flight at a time
          MaxOps,             \* bound: requests in a run
          HomePage,           \* names the home page in what a check has read
          None

Folders == ReportFolders \cup DashFolders
Items   == Reports \cup Dashboards
Nodes   == Folders \cup Items

Row == [owner : Users, mode : {"personal", "shared", "inherit", "restricted"},
        grants : SUBSET Grants, folder : Folders \cup {None}, source : Reports \cup {None}]
Sharable(x) == x.mode \in {"shared", "restricted"}

\* What the foreign keys guarantee of the tables R.
WellFormed(R) ==
    /\ R \in [Nodes -> Row \cup {None}]
    /\ \A r \in Reports : R[r] # None =>
           R[r].folder \in ReportFolders /\ R[R[r].folder] # None
    /\ \A d \in Dashboards : R[d] # None =>
           /\ R[d].folder \in DashFolders /\ R[R[d].folder] # None
           /\ R[d].source \in Reports /\ R[R[d].source] # None

ASSUME SharingAssumption ==
    /\ \A R \in InitRows :
        /\ WellFormed(R)
        /\ \A n \in Nodes : R[n] # None => (Sharable(R[n]) <=> R[n].grants # {})
    /\ None \notin Row
    /\ Admins \subseteq Users
    /\ Matches \in [Users -> SUBSET Grants]
    /\ MaxOps \in Nat
    /\ ReportFolders \cap DashFolders = {} /\ Reports \cap Dashboards = {}
    /\ Folders \cap Items = {}
    /\ {None, HomePage} \cap Nodes = {}

VARIABLES row,        \* the row and the grants of each node
          used,       \* ids given out so far (an id is a uuid, never reused)
          home,       \* dashboards shown by blocks of the app's home page
          pc, job,    \* each client: where its request is, and what it asks
          read,       \* what its check read: nodes, or the home page
          stale,      \* some of that was changed since by another request
          overtaken,  \* its grants were replaced since its transaction began
          ops,        \* requests so far
          raced,      \* nodes whose grants come from overlapping replacements
          loose,      \* dashboards that may reach beyond their report
          orphaned,   \* blocks of the home page that may name nothing
          late        \* kinds of request refused after they were committed

request == <<pc, job, read, stale, overtaken>>
vars == <<row, used, home, request, ops, raced, loose, orphaned, late>>

Exists(n) == n \in Nodes /\ row[n] # None
In(f)     == {n \in Items : row[n] # None /\ row[n].folder = f}
BuiltOn(rs) == {d \in Dashboards : row[d] # None /\ row[d].source \in rs}

-----------------------------------------------------------------------------
(* Access policies. *)

IsAdmin(u)       == u \in Admins
HasGrant(u, gs)  == gs \cap Matches[u] # {}
Owns(u, n)       == IsAdmin(u) \/ row[n].owner = u

\* What a folder, then the mode of an item in it, lets a user see.
CanAccessFolder(u, f) ==
    \/ Owns(u, f)
    \/ row[f].mode = "shared" /\ HasGrant(u, row[f].grants)

ModeAdmits(u, n) ==
    \/ row[n].mode = "inherit"
    \/ row[n].mode = "restricted" /\ HasGrant(u, row[n].grants)

CanAccessReport(u, r) ==
    \/ Owns(u, r)
    \/ CanAccessFolder(u, row[r].folder) /\ ModeAdmits(u, r)

\* Mutant: the dashboards' copy of the policy forgets the mode of the report.
CanUseReportByFolder(u, r) ==
    \/ Owns(u, r)
    \/ LET f == row[row[r].folder]
       IN  f.mode = "shared" /\ HasGrant(u, f.grants)

\* The dashboards' own copy: here owning the report's folder is not enough.
CanUseReport(u, r) ==
    \/ Owns(u, r)
    \/ LET f == row[row[r].folder]
       IN  /\ f.mode = "shared" /\ HasGrant(u, f.grants)
           /\ ModeAdmits(u, r)

CanAccessDashboard(u, d) ==
    \/ IsAdmin(u)
    \/ /\ CanUseReport(u, row[d].source)
       /\ \/ row[d].owner = u
          \/ CanAccessFolder(u, row[d].folder) /\ ModeAdmits(u, d)

\* The grants a dashboard and its folder may carry, given the source report.
\* (A report for its owner only has none: no shared mode is without grants.)
Envelope(r) ==
    LET f == row[row[r].folder]
    IN  CASE f.mode = "personal" \/ row[r].mode = "personal" -> {}
          [] row[r].mode = "inherit" -> f.grants
          [] OTHER -> f.grants \cap row[r].grants

Fits(n, r) == Sharable(n) => n.grants \subseteq Envelope(r)

\* A folder row, and a dashboard row in it, compared with the source report.
Compatible(folder, dashboard) ==
    Fits(folder, dashboard.source) /\ Fits(dashboard, dashboard.source)

-----------------------------------------------------------------------------
(* Requests.  Scopes: the combinations of mode and grants that pass the     *)
(* normalizers.                                                            *)

Scopes(plain, shared) ==
    {[mode |-> m, grants |-> {}] : m \in plain} \cup
    {[mode |-> shared, grants |-> gs] : gs \in (SUBSET Grants) \ {{}}}
FolderScopes == Scopes({"personal"}, "shared")
ItemScopes   == Scopes({"personal", "inherit"}, "restricted")

NewRow(u, s, f, r) ==
    [owner |-> u, mode |-> s.mode, grants |-> s.grants, folder |-> f, source |-> r]

\* The rows the checks of a request about n read: its folder, the source report
\* of a dashboard, and for a dashboard folder those of everything in it.
Behind(rs) == rs \cup {row[r].folder : r \in rs}
ReadRows(n, new) ==
    {n, new.folder} \cup
    (IF n \in Dashboards THEN Behind({new.source})
     ELSE IF n \in DashFolders THEN In(n) \cup Behind({row[d].source : d \in In(n)})
     ELSE {})

Init ==
    /\ row \in InitRows
    /\ used = {n \in Nodes : row[n] # None}
    /\ home = {d \in Dashboards : row[d] # None}
    /\ pc = [c \in Clients |-> "idle"]
    /\ job = [c \in Clients |-> None]
    /\ read = [c \in Clients |-> {}]
    /\ stale = [c \in Clients |-> FALSE]
    /\ overtaken = [c \in Clients |-> FALSE]
    /\ ops = 0
    /\ loose = {d \in Dashboards : row[d] # None /\ ~ Compatible(row[row[d].folder], row[d])}
    /\ raced = {} /\ orphaned = {} /\ late = {}

\* A request that passed its checks.
Ask(c, op, u, n, new, reads) ==
    /\ pc[c] = "idle" /\ ops < MaxOps
    /\ ops' = ops + 1
    /\ pc' = [pc EXCEPT ![c] = "checked"]
    /\ job' = [job EXCEPT ![c] = [op |-> op, user |-> u, node |-> n, new |-> new]]
    /\ read' = [read EXCEPT ![c] = reads]
    /\ stale' = [stale EXCEPT ![c] = FALSE]
    /\ overtaken' = [overtaken EXCEPT ![c] = FALSE]
    /\ used' = IF op = "create" THEN used \cup {n} ELSE used
    /\ UNCHANGED <<row, home, raced, loose, orphaned, late>>

CreateReportFolder(c) ==
    \E u \in Users, n \in ReportFolders \ used, s \in FolderScopes :
        LET new == NewRow(u, s, None, None)
        IN  Ask(c, "create", u, n, new, ReadRows(n, new))

UpdateReportFolder(c) ==
    \E u \in Users, n \in ReportFolders, s \in FolderScopes :
        /\ Exists(n) /\ Owns(u, n)
        /\ LET new == [row[n] EXCEPT !.mode = s.mode, !.grants = s.grants]
           IN  Ask(c, "update", u, n, new, ReadRows(n, new))

UpdateReportFolderShares(c) ==
    \E u \in Users, n \in ReportFolders, gs \in (SUBSET Grants) \ {{}} :
        /\ Exists(n) /\ Owns(u, n) /\ row[n].mode = "shared"
        /\ LET new == [row[n] EXCEPT !.grants = gs]
           IN  Ask(c, "shares", u, n, new, ReadRows(n, new))

DeleteReportFolder(c) ==
    \E u \in Users, n \in ReportFolders :
        /\ Exists(n) /\ Owns(u, n)
        /\ Ask(c, "delete", u, n, row[n], ReadRows(n, row[n]))

CreateReport(c) ==
    \E u \in Users, n \in Reports \ used, f \in ReportFolders, s \in ItemScopes :
        /\ Exists(f) /\ Owns(u, f)
        /\ LET new == NewRow(u, s, f, None)
           IN  Ask(c, "create", u, n, new, ReadRows(n, new))

UpdateReport(c) ==
    \E u \in Users, n \in Reports, f \in ReportFolders, s \in ItemScopes :
        /\ Exists(n) /\ Owns(u, n) /\ Exists(f) /\ Owns(u, f)
        /\ LET new == [row[n] EXCEPT !.mode = s.mode, !.grants = s.grants, !.folder = f]
           IN  Ask(c, "update", u, n, new, ReadRows(n, new))

UpdateReportShares(c) ==
    \E u \in Users, n \in Reports, gs \in (SUBSET Grants) \ {{}} :
        /\ Exists(n) /\ Owns(u, n) /\ row[n].mode = "restricted"
        /\ LET new == [row[n] EXCEPT !.grants = gs]
           IN  Ask(c, "shares", u, n, new, ReadRows(n, new))

DeleteReport(c) ==
    \E u \in Users, n \in Reports :
        /\ Exists(n) /\ Owns(u, n)
        /\ Ask(c, "delete", u, n, row[n], ReadRows(n, row[n]))

CreateDashFolder(c) ==
    \E u \in Users, n \in DashFolders \ used, s \in FolderScopes :
        LET new == NewRow(u, s, None, None)
        IN  Ask(c, "create", u, n, new, ReadRows(n, new))

\* A dashboard folder has to suit every dashboard in it.
FolderSuits(n, new) == \A d \in In(n) : Compatible(new, row[d])

UpdateDashFolder(c) ==
    \E u \in Users, n \in DashFolders, s \in FolderScopes :
        /\ Exists(n) /\ Owns(u, n)
        /\ LET new == [row[n] EXCEPT !.mode = s.mode, !.grants = s.grants]
           IN  /\ FolderSuits(n, new)
               /\ Ask(c, "update", u, n, new, ReadRows(n, new))

\* Mutant: the new grants of a folder are not compared with the dashboards in it.
UpdateDashFolderSharesUnchecked(c) ==
    \E u \in Users, n \in DashFolders, gs \in (SUBSET Grants) \ {{}} :
        /\ Exists(n) /\ Owns(u, n) /\ row[n].mode = "shared"
        /\ LET new == [row[n] EXCEPT !.grants = gs]
           IN  Ask(c, "shares", u, n, new, ReadRows(n, new))

UpdateDashFolderShares(c) ==
    \E u \in Users, n \in DashFolders, gs \in (SUBSET Grants) \ {{}} :
        /\ Exists(n) /\ Owns(u, n) /\ row[n].mode = "shared"
        /\ LET new == [row[n] EXCEPT !.grants = gs]
           IN  /\ FolderSuits(n, new)
               /\ Ask(c, "shares", u, n, new, ReadRows(n, new))

\* The dashboards in it are not looked at, nor whether the home page shows them.
DeleteDashFolder(c) ==
    \E u \in Users, n \in DashFolders :
        /\ Exists(n) /\ Owns(u, n)
        /\ Ask(c, "delete", u, n, row[n], ReadRows(n, row[n]))


CreateDashboard(c) ==
    \E u \in Users, n \in Dashboards \ used, f \in DashFolders, r \in Reports, s \in ItemScopes :
        /\ Exists(f) /\ Owns(u, f)
        /\ Exists(r) /\ CanUseReport(u, r)
        /\ LET new == NewRow(u, s, f, r)
           IN  /\ Compatible(row[f], new)
               /\ Ask(c, "create", u, n, new, ReadRows(n, new))

\* The source report of a dashboard cannot change.
UpdateDashboard(c) ==
    \E u \in Users, n \in Dashboards, f \in DashFolders, s \in ItemScopes :
        /\ Exists(n) /\ Owns(u, n) /\ Exists(f) /\ Owns(u, f)
        /\ CanUseReport(u, row[n].source)
        /\ LET new == [row[n] EXCEPT !.mode = s.mode, !.grants = s.grants, !.folder = f]
           IN  /\ Compatible(row[f], new)
               /\ Ask(c, "update", u, n, new, ReadRows(n, new))

UpdateDashboardShares(c) ==
    \E u \in Users, n \in Dashboards, gs \in (SUBSET Grants) \ {{}} :
        /\ Exists(n) /\ Owns(u, n) /\ row[n].mode = "restricted"
        /\ LET new == [row[n] EXCEPT !.grants = gs]
           IN  /\ Compatible(row[row[n].folder], new)
               /\ Ask(c, "shares", u, n, new, ReadRows(n, new))

\* Mutant: a dashboard shown on the home page can be deleted.
DeleteDashboardShown(c) ==
    \E u \in Users, n \in Dashboards :
        /\ Exists(n) /\ Owns(u, n)
        /\ Ask(c, "delete", u, n, row[n], {n, HomePage})

DeleteDashboard(c) ==
    \E u \in Users, n \in Dashboards :
        /\ Exists(n) /\ Owns(u, n)
        /\ n \notin home
        /\ Ask(c, "delete", u, n, row[n], {n, HomePage})

\* updateHomePage and updateApp check that the dashboards they name exist.
UpdateHomePage(c) ==
    \E u \in Admins, ds \in SUBSET Dashboards :
        /\ \A d \in ds : Exists(d)
        /\ Ask(c, "home", u, None, None, ds)

-----------------------------------------------------------------------------
(* The writes. *)

\* What the write of c changes makes the checks of the others stale.
Touched ==
    {n \in Nodes : row'[n] # row[n]} \cup
    {row'[n].folder : n \in {m \in Nodes : row'[m] # None /\ row'[m] # row[m]}} \cup
    (IF home' # home THEN {HomePage} ELSE {})

Committed(c) ==
    /\ pc' = [pc EXCEPT ![c] = "committed"]
    /\ stale' = [d \in Clients |->
                    stale[d] \/ (d # c /\ pc[d] # "idle" /\ read[d] \cap Touched # {})]
    /\ UNCHANGED <<job, read, used, ops, late>>

\* A check on the dashboards' side makes sure that ds stay within their reports,
\* unless what it read has changed; a change on the reports' side may not.
Checked(c, ds) ==
    loose' = IF stale[c] \/ overtaken[c] THEN loose \cup ds ELSE loose \ ds
Narrowed ==
    loose' = loose \cup {d \in BuiltOn(Reports) :
                            ~ (Envelope(row[d].source) \subseteq Envelope(row[d].source)')}
Settled(c, n) ==
    IF n \in DashFolders \cup Dashboards
    THEN Checked(c, IF n \in Dashboards THEN {n} ELSE In(n))
    ELSE Narrowed

\* create: one statement; the folder and the source report must still exist.
Insert(c) ==
    LET j == job[c]  n == j.node
    IN  /\ pc[c] = "checked" /\ j.op = "create"
        /\ n \in Items => Exists(j.new.folder)
        /\ n \in Dashboards => Exists(j.new.source)
        /\ row' = [row EXCEPT ![n] = j.new]
        /\ Settled(c, n)
        /\ UNCHANGED <<home, orphaned, raced, overtaken>>
        /\ Committed(c)

\* The transaction of an update locks the row; one that only replaces the
\* shares locks none.  deleteMany deletes the grants that are there now.
Locked(n) == \E d \in Clients : pc[d] = "writing" /\ job[d].op = "update" /\ job[d].node = n

Begin(c) ==
    LET j == job[c]
    IN  /\ pc[c] = "checked" /\ j.op \in {"update", "shares"}
        /\ Exists(j.node)
        /\ j.op = "update" => ~ Locked(j.node)
        /\ pc' = [pc EXCEPT ![c] = "writing"]
        /\ UNCHANGED <<row, used, home, job, read, stale, overtaken, ops, raced, loose, orphaned, late>>

\* Two replacements overlapped, or the mode changed after the check saw it.
Mixed(c) == overtaken[c] \/ (job[c].op = "shares" /\ stale[c])

\* Mutant: the update of a node leaves its grants when it is no longer shared.
ReplaceButKeep(c) ==
    LET j == job[c]  n == j.node
        kept == IF overtaken[c] \/ j.new.grants = {} THEN row[n].grants ELSE {}
    IN  /\ pc[c] = "writing"
        /\ Exists(n) /\ (n \in Items => Exists(j.new.folder))
        /\ kept \cap j.new.grants = {}
        /\ row' = [row EXCEPT ![n].grants = j.new.grants \cup kept,
                              ![n].mode   = IF j.op = "update" THEN j.new.mode ELSE @,
                              ![n].folder = IF j.op = "update" THEN j.new.folder ELSE @]
        /\ overtaken' = [d \in Clients |->
                            overtaken[d] \/ (d # c /\ pc[d] = "writing" /\ job[d].node = n)]
        /\ raced' = IF Mixed(c) THEN raced \cup {n} ELSE raced \ {n}
        /\ Settled(c, n)
        /\ UNCHANGED <<home, orphaned>>
        /\ Committed(c)

\* createMany and the commit.  Grants another transaction stored since deleteMany
\* stay beside the new ones; one that is in both breaks the unique index.
Replace(c) ==
    LET j == job[c]  n == j.node
        kept == IF overtaken[c] THEN row[n].grants ELSE {}
    IN  /\ pc[c] = "writing"
        /\ Exists(n) /\ (n \in Items => Exists(j.new.folder))
        /\ kept \cap j.new.grants = {}
        /\ row' = [row EXCEPT ![n].grants = j.new.grants \cup kept,
                              ![n].mode   = IF j.op = "update" THEN j.new.mode ELSE @,
                              ![n].folder = IF j.op = "update" THEN j.new.folder ELSE @]
        /\ overtaken' = [d \in Clients |->
                            overtaken[d] \/ (d # c /\ pc[d] = "writing" /\ job[d].node = n)]
        /\ raced' = IF Mixed(c) THEN raced \cup {n} ELSE raced \ {n}
        /\ Settled(c, n)
        /\ UNCHANGED <<home, orphaned>>
        /\ Committed(c)

\* delete: a folder takes the items in it along; a report that a dashboard is
\* built on cannot go.
Remove(c) ==
    LET j == job[c]
        gone == {j.node} \cup In(j.node)
    IN  /\ pc[c] = "checked" /\ j.op = "delete"
        /\ Exists(j.node)
        /\ BuiltOn(gone) = {}
        /\ \A n \in gone : ~ Locked(n)
        /\ row' = [n \in Nodes |-> IF n \in gone THEN None ELSE row[n]]
        /\ loose' = loose \ gone
        /\ orphaned' = IF stale[c] \/ j.node \in Folders THEN orphaned \cup gone ELSE orphaned
        /\ UNCHANGED <<home, raced, overtaken>>
        /\ Committed(c)

\* The blocks that are saved are the dashboards the check has looked up.
SaveHome(c) ==
    /\ pc[c] = "checked" /\ job[c].op = "home"
    /\ home' = read[c]
    /\ orphaned' = IF stale[c] THEN orphaned \cup home' ELSE orphaned \ home'
    /\ UNCHANGED <<row, raced, loose, overtaken>>
    /\ Committed(c)

Leave(c) ==
    /\ pc' = [pc EXCEPT ![c] = "idle"]
    /\ job' = [job EXCEPT ![c] = None]
    /\ read' = [read EXCEPT ![c] = {}]
    /\ UNCHANGED <<row, used, home, stale, overtaken, ops, raced, loose, orphaned>>

\* The audit record is written after the commit, then the row is read again to
\* answer; either may fail, and the client of a dashboard may be refused there
\* (unless the audit record failed first).
Answer(c) ==
    LET j == job[c]
        refused == /\ j.node \in Dashboards /\ j.op # "delete" /\ Exists(j.node)
                   /\ ~ CanAccessDashboard(j.user, j.node)
    IN  /\ pc[c] = "committed"
        /\ late' \in {late, IF refused /\ ~ stale[c] THEN late \cup {j.op} ELSE late}
        /\ Leave(c)

\* A statement fails before the commit: nothing of the request stays.
Fail(c) == pc[c] \in {"checked", "writing"} /\ Leave(c) /\ UNCHANGED late

Request(c) ==
    \/ CreateReportFolder(c) \/ UpdateReportFolder(c)
    \/ UpdateReportFolderShares(c) \/ DeleteReportFolder(c)
    \/ CreateReport(c) \/ UpdateReport(c) \/ UpdateReportShares(c) \/ DeleteReport(c)
    \/ CreateDashFolder(c) \/ UpdateDashFolder(c)
    \/ UpdateDashFolderShares(c) \/ DeleteDashFolder(c)
    \/ CreateDashboard(c) \/ UpdateDashboard(c) \/ UpdateDashboardShares(c) \/ DeleteDashboard(c)
    \/ UpdateHomePage(c)

Next == \E c \in Clients :
    \/ Request(c)
    \/ Insert(c) \/ Begin(c) \/ Replace(c) \/ Remove(c) \/ SaveHome(c)
    \/ Answer(c) \/ Fail(c)

Spec == Init /\ [][Next]_vars

-----------------------------------------------------------------------------
(* Properties. *)

\* Every row has the form of its kind, and the folder and the report it refers
\* to exist (the foreign keys, with their cascades and restrictions).
TypeOK ==
    /\ WellFormed(row)
    /\ used \subseteq Nodes /\ {n \in Nodes : row[n] # None} \subseteq used
    /\ home \subseteq Dashboards
    /\ pc \in [Clients -> {"idle", "checked", "writing", "committed"}]
    /\ DOMAIN job = Clients /\ DOMAIN read = Clients
    /\ stale \in [Clients -> BOOLEAN] /\ overtaken \in [Clients -> BOOLEAN]
    /\ ops \in 0 .. MaxOps
    /\ raced \subseteq Nodes /\ loose \subseteq Dashboards /\ orphaned \subseteq Nodes

\* Whoever is shown a dashboard may see the report it is computed from: the
\* dashboards have a policy of their own (canAccessDashboard), and the reports
\* are shared, moved and made personal without looking at the dashboards.
DashboardWithinReport ==
    \A u \in Users, d \in Dashboards :
        row[d] # None /\ CanAccessDashboard(u, d) => CanAccessReport(u, row[d].source)

\* A dashboard and its folder carry no grant the source report does not have
\* (assertDashboardSharesCompatibleWithSourceReport), unless the report or its
\* folder was narrowed since, or the check had read rows that changed under it.
WithinEnvelope ==
    \A d \in Dashboards \ loose :
        row[d] # None => Compatible(row[row[d].folder], row[d])

\* However share replacements overlap, a shared or restricted node always has
\* somebody it is shared with; and one that is not has no grants left from
\* earlier, unless a replacement overlapped the change of its mode.
GrantsFitModes ==
    /\ \A n \in Nodes : row[n] # None /\ Sharable(row[n]) => row[n].grants # {}
    /\ \A n \in Nodes \ raced : row[n] # None /\ ~ Sharable(row[n]) => row[n].grants = {}

\* Every dashboard block of the home page names a dashboard that exists
\* (assertDashboardNotReferencedByHome, assertDashboardIdsExist), unless the
\* folder was deleted with the dashboard in it or the two requests overlapped.
HomeResolves ==
    \A d \in home \ orphaned : row[d] # None

\* A client is told 403 about a change of its own that was committed only when
\* it replaced the shares of a dashboard whose report it can no longer see (the
\* one request that does not check that first), or when others acted meanwhile.
LateRefusalExplained == late \subseteq {"shares"}
=============================================================================
