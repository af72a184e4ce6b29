---------------------------- MODULE SharingProofs ----------------------------
(* Theorems about Sharing, for any number of folders, reports, dashboards,      *)
(* users, grants and requests in flight.  A request whose check is not stale    *)
(* still has its check true (Holds): that is what carries every property.       *)
EXTENDS Sharing, TLAPS

\* What a request asks for: its target, and where the item would be.
Asked(op, u, n, new, reads) ==
    /\ op \in {"create", "update", "shares", "delete", "home"}
    /\ op = "home" => n = None /\ reads \subseteq Dashboards
    /\ op # "home" =>
        /\ n \in Nodes /\ new \in Row /\ u \in Users /\ n \in reads
        /\ n \in Reports => new.folder \in ReportFolders
        /\ n \in Dashboards => new.folder \in DashFolders /\ new.source \in Reports
    /\ op \in {"create", "update"} => (Sharable(new) <=> new.grants # {})
    /\ op = "shares" => new.grants # {}

\* What its check establishes, and the rows that depends on.
Right(op, u, n, new, reads) ==
    /\ op = "home" => \A d \in reads : row[d] # None
    /\ op = "delete" /\ n \in Dashboards => HomePage \in reads /\ n \notin home
    /\ op \in {"update", "shares"} =>
        /\ row[n] # None
        /\ new.owner = row[n].owner /\ new.source = row[n].source
    /\ op = "shares" => Sharable(row[n]) /\ new.mode = row[n].mode /\ new.folder = row[n].folder
    /\ op \in {"create", "update", "shares"} /\ n \in Dashboards =>
        /\ {new.folder, new.source, row[new.source].folder} \subseteq reads
        /\ row[new.folder] # None /\ row[new.source] # None
        /\ Compatible(row[new.folder], new)
        /\ op # "shares" => IsAdmin(u) \/ (new.owner = u /\ CanUseReport(u, new.source))
    /\ op \in {"update", "shares"} /\ n \in DashFolders =>
        \A d \in In(n) :
            /\ {d, row[d].source, row[row[d].source].folder} \subseteq reads
            /\ Compatible(new, row[d])

JobOK(c) ==
    LET j == job[c]
    IN  /\ Asked(j.op, j.user, j.node, j.new, read[c])
        /\ j.op = "create" => j.node \in used
        /\ pc[c] = "writing" => j.op \in {"update", "shares"}

Jobs == \A c \in Clients : pc[c] # "idle" => JobOK(c)

\* An id that is being given out names nothing yet, and is given out once.
Creating(c) == pc[c] = "checked" /\ job[c].op = "create"
Fresh ==
    /\ \A c \in Clients : Creating(c) => row[job[c].node] = None
    /\ \A c, d \in Clients : Creating(c) /\ Creating(d) /\ c # d => job[c].node # job[d].node

Holds(c) == Right(job[c].op, job[c].user, job[c].node, job[c].new, read[c])
Checks == \A c \in Clients : pc[c] \in {"checked", "writing"} /\ ~ stale[c] => Holds(c)

\* What a change of a dashboard that nobody disturbed leaves its author.
Entitled(c) ==
    LET n == job[c].node
    IN  n \in Dashboards /\ job[c].op \in {"create", "update"} =>
            /\ row[n] # None
            /\ {n, row[n].source, row[row[n].source].folder} \subseteq read[c]
            /\ \/ IsAdmin(job[c].user)
               \/ row[n].owner = job[c].user /\ CanUseReport(job[c].user, row[n].source)
Answers == \A c \in Clients : pc[c] = "committed" /\ ~ stale[c] => Entitled(c)

IInv == TypeOK /\ Jobs /\ Fresh /\ Checks /\ Answers

LEMMA Kinds ==
    /\ None \notin Nodes /\ None \notin Row /\ None \notin Dashboards /\ None \notin Reports
    /\ HomePage \notin Nodes
    /\ \A n \in Nodes : \/ n \in ReportFolders /\ n \notin DashFolders /\ n \notin Items
                        \/ n \in DashFolders /\ n \notin ReportFolders /\ n \notin Items
                        \/ n \in Reports /\ n \notin Dashboards /\ n \notin Folders
                        \/ n \in Dashboards /\ n \notin Reports /\ n \notin Folders
    /\ \A f \in Folders : f \in Nodes /\ f \notin Items
    /\ \A i \in Items : i \in Nodes /\ i \notin Folders
    /\ ReportFolders \subseteq Folders /\ DashFolders \subseteq Folders
    /\ Reports \subseteq Items /\ Dashboards \subseteq Items
  BY SharingAssumption DEF Nodes, Folders, Items

LEMMA ScopesOK ==
    /\ \A s \in FolderScopes \cup ItemScopes :
        /\ s.mode \in {"personal", "shared", "inherit", "restricted"}
        /\ s.grants \in SUBSET Grants
        /\ s.mode \in {"shared", "restricted"} <=> s.grants # {}
  <1>1. ASSUME NEW plain, NEW shared, NEW s \in Scopes(plain, shared),
               plain \subseteq {"personal", "inherit"}, shared \in {"shared", "restricted"}
        PROVE  /\ s.mode \in {"personal", "shared", "inherit", "restricted"}
               /\ s.grants \in SUBSET Grants
               /\ s.mode \in {"shared", "restricted"} <=> s.grants # {}
    <2>1. CASE \E m \in plain : s = [mode |-> m, grants |-> {}]
      <3>1. PICK m \in plain : s = [mode |-> m, grants |-> {}]
        BY <2>1
      <3>2. s.grants = {} /\ s.mode = m /\ (m = "personal" \/ m = "inherit")
        BY <1>1, <3>1
      <3>3. QED
        BY <3>2
    <2>2. CASE \E gs \in (SUBSET Grants) \ {{}} : s = [mode |-> shared, grants |-> gs]
      <3>1. PICK gs \in (SUBSET Grants) \ {{}} : s = [mode |-> shared, grants |-> gs]
        BY <2>2
      <3>2. s.grants = gs /\ s.mode = shared
        BY <3>1
      <3>3. gs # {} /\ gs \in SUBSET Grants
        BY <3>1
      <3>4. shared = "shared" \/ shared = "restricted"
        BY <1>1
      <3>5. QED
        BY <3>2, <3>3, <3>4
    <2>3. QED
      BY <1>1, <2>1, <2>2 DEF Scopes
  <1>2. QED
    BY <1>1 DEF FolderScopes, ItemScopes

LEMMA NewRowOK ==
    ASSUME NEW u \in Users, NEW s \in FolderScopes \cup ItemScopes,
           NEW f \in Folders \cup {None}, NEW r \in Reports \cup {None}
    PROVE  /\ NewRow(u, s, f, r) \in Row
           /\ NewRow(u, s, f, r).folder = f /\ NewRow(u, s, f, r).source = r
           /\ NewRow(u, s, f, r).owner = u
           /\ Sharable(NewRow(u, s, f, r)) <=> NewRow(u, s, f, r).grants # {}
  BY ScopesOK DEF NewRow, Row, Sharable

LEMMA RowOf ==
    ASSUME TypeOK, NEW n \in Nodes, row[n] # None
    PROVE  row[n] \in Row
  BY DEF TypeOK, WellFormed

\* A row with another mode, other grants, another folder.
Rewritten(y, x, m, gs, f) ==
    /\ y \in Row /\ y.mode = m /\ y.grants = gs /\ y.folder = f
    /\ y.owner = x.owner /\ y.source = x.source

LEMMA RescopedRow ==
    ASSUME NEW x \in Row, NEW m \in {"personal", "shared", "inherit", "restricted"},
           NEW gs \in SUBSET Grants
    PROVE  /\ Rewritten([x EXCEPT !.mode = m, !.grants = gs], x, m, gs, x.folder)
           /\ Rewritten([x EXCEPT !.grants = gs], x, x.mode, gs, x.folder)
  BY DEF Row, Rewritten

LEMMA MovedRow ==
    ASSUME NEW x \in Row, NEW m \in {"personal", "shared", "inherit", "restricted"},
           NEW gs \in SUBSET Grants, NEW f \in Folders
    PROVE  Rewritten([x EXCEPT !.mode = m, !.grants = gs, !.folder = f], x, m, gs, f)
  BY DEF Row, Rewritten

\* What the checks read of a dashboard folder, and of a dashboard.
LEMMA Reads ==
    ASSUME TypeOK, NEW n \in Nodes, NEW new
    PROVE  /\ n \in ReadRows(n, new) /\ new.folder \in ReadRows(n, new)
           /\ n \in Dashboards => {new.source, row[new.source].folder} \subseteq ReadRows(n, new)
           /\ n \in DashFolders => \A d \in In(n) :
                {d, row[d].source, row[row[d].source].folder} \subseteq ReadRows(n, new)
  BY Kinds DEF ReadRows, Behind

\* A request on the reports' side that passed its checks.
LEMMA ReportRequests ==
    ASSUME TypeOK, NEW c \in Clients,
           \/ CreateReportFolder(c) \/ UpdateReportFolder(c)
           \/ UpdateReportFolderShares(c) \/ DeleteReportFolder(c)
           \/ CreateReport(c) \/ UpdateReport(c) \/ UpdateReportShares(c) \/ DeleteReport(c)
    PROVE  \E op, u, n, new, reads :
               Ask(c, op, u, n, new, reads) /\ Asked(op, u, n, new, reads)
               /\ Right(op, u, n, new, reads) /\ (op = "create" => n \notin used)
  <1> USE Kinds DEF Exists
  <1>1. CASE CreateReportFolder(c)
    <2>1. PICK u \in Users, n \in ReportFolders \ used, s \in FolderScopes :
            Ask(c, "create", u, n, NewRow(u, s, None, None), ReadRows(n, NewRow(u, s, None, None)))
      BY <1>1 DEF CreateReportFolder
    <2> DEFINE new == NewRow(u, s, None, None)
    <2>2. Asked("create", u, n, new, ReadRows(n, new)) /\ Right("create", u, n, new, ReadRows(n, new))
      BY NewRowOK, Reads DEF Asked, Right
    <2>3. QED
      BY <2>1, <2>2
  <1>2. CASE UpdateReportFolder(c)
    <2>1. PICK u \in Users, n \in ReportFolders, s \in FolderScopes :
            LET new == [row[n] EXCEPT !.mode = s.mode, !.grants = s.grants]
            IN  row[n] # None /\ Ask(c, "update", u, n, new, ReadRows(n, new))
      BY <1>2 DEF UpdateReportFolder
    <2> DEFINE new == [row[n] EXCEPT !.mode = s.mode, !.grants = s.grants]
    <2>2. row[n] \in Row /\ s.mode \in {"personal", "shared", "inherit", "restricted"}
          /\ s.grants \in SUBSET Grants
      BY <2>1, RowOf, ScopesOK
    <2>3. Rewritten(new, row[n], s.mode, s.grants, row[n].folder)
      BY <2>2, RescopedRow
    <2> HIDE DEF new
    <2>4. Sharable(new) <=> new.grants # {}
      BY <2>3, ScopesOK DEF Sharable, Rewritten
    <2>5. Asked("update", u, n, new, ReadRows(n, new)) /\ Right("update", u, n, new, ReadRows(n, new))
      BY <2>1, <2>3, <2>4, Reads DEF Asked, Right, Rewritten
    <2>6. QED
      BY <2>1, <2>5 DEF new
  <1>3. CASE UpdateReportFolderShares(c)
    <2>1. PICK u \in Users, n \in ReportFolders, gs \in (SUBSET Grants) \ {{}} :
            LET new == [row[n] EXCEPT !.grants = gs]
            IN  row[n] # None /\ row[n].mode = "shared" /\ Ask(c, "shares", u, n, new, ReadRows(n, new))
      BY <1>3 DEF UpdateReportFolderShares
    <2> DEFINE new == [row[n] EXCEPT !.grants = gs]
    <2>2. row[n] \in Row /\ gs \in SUBSET Grants /\ gs # {}
      BY <2>1, RowOf
    <2>3. Rewritten(new, row[n], row[n].mode, gs, row[n].folder)
      BY <2>2, RescopedRow
    <2> HIDE DEF new
    <2>5. Asked("shares", u, n, new, ReadRows(n, new)) /\ Right("shares", u, n, new, ReadRows(n, new))
      BY <2>1, <2>2, <2>3, Reads DEF Asked, Right, Rewritten, Sharable
    <2>6. QED
      BY <2>1, <2>5 DEF new
  <1>4. CASE DeleteReportFolder(c)
    <2>1. PICK u \in Users, n \in ReportFolders :
            row[n] # None /\ Ask(c, "delete", u, n, row[n], ReadRows(n, row[n]))
      BY <1>4 DEF DeleteReportFolder
    <2>2. Asked("delete", u, n, row[n], ReadRows(n, row[n])) /\ Right("delete", u, n, row[n], ReadRows(n, row[n]))
      BY <2>1, RowOf, Reads DEF Asked, Right
    <2>3. QED
      BY <2>1, <2>2
  <1>5. CASE CreateReport(c)
    <2>1. PICK u \in Users, n \in Reports \ used, f \in ReportFolders, s \in ItemScopes :
            Ask(c, "create", u, n, NewRow(u, s, f, None), ReadRows(n, NewRow(u, s, f, None)))
      BY <1>5 DEF CreateReport
    <2> DEFINE new == NewRow(u, s, f, None)
    <2>2. Asked("create", u, n, new, ReadRows(n, new)) /\ Right("create", u, n, new, ReadRows(n, new))
      BY NewRowOK, Reads DEF Asked, Right
    <2>3. QED
      BY <2>1, <2>2
  <1>6. CASE UpdateReport(c)
    <2>1. PICK u \in Users, n \in Reports, f \in ReportFolders, s \in ItemScopes :
            LET new == [row[n] EXCEPT !.mode = s.mode, !.grants = s.grants, !.folder = f]
            IN  row[n] # None /\ Ask(c, "update", u, n, new, ReadRows(n, new))
      BY <1>6 DEF UpdateReport
    <2> DEFINE new == [row[n] EXCEPT !.mode = s.mode, !.grants = s.grants, !.folder = f]
    <2>2. row[n] \in Row /\ s.mode \in {"personal", "shared", "inherit", "restricted"}
          /\ s.grants \in SUBSET Grants
      BY <2>1, RowOf, ScopesOK
    <2>3. Rewritten(new, row[n], s.mode, s.grants, f)
      BY <2>2, MovedRow
    <2> HIDE DEF new
    <2>4. Sharable(new) <=> new.grants # {}
      BY <2>3, ScopesOK DEF Sharable, Rewritten
    <2>5. Asked("update", u, n, new, ReadRows(n, new)) /\ Right("update", u, n, new, ReadRows(n, new))
      BY <2>1, <2>3, <2>4, Reads DEF Asked, Right, Rewritten
    <2>6. QED
      BY <2>1, <2>5 DEF new
  <1>7. CASE UpdateReportShares(c)
    <2>1. PICK u \in Users, n \in Reports, gs \in (SUBSET Grants) \ {{}} :
            LET new == [row[n] EXCEPT !.grants = gs]
            IN  row[n] # None /\ row[n].mode = "restricted" /\ Ask(c, "shares", u, n, new, ReadRows(n, new))
      BY <1>7 DEF UpdateReportShares
    <2> DEFINE new == [row[n] EXCEPT !.grants = gs]
    <2>2. row[n] \in Row /\ gs \in SUBSET Grants /\ gs # {}
      BY <2>1, RowOf
    <2>3. Rewritten(new, row[n], row[n].mode, gs, row[n].folder)
      BY <2>2, RescopedRow
    <2>4. row[n].folder \in ReportFolders
      BY <2>1 DEF TypeOK, WellFormed
    <2> HIDE DEF new
    <2>5. Asked("shares", u, n, new, ReadRows(n, new)) /\ Right("shares", u, n, new, ReadRows(n, new))
      BY <2>1, <2>2, <2>3, <2>4, Reads DEF Asked, Right, Rewritten, Sharable
    <2>6. QED
      BY <2>1, <2>5 DEF new
  <1>8. CASE DeleteReport(c)
    <2>1. PICK u \in Users, n \in Reports :
            row[n] # None /\ Ask(c, "delete", u, n, row[n], ReadRows(n, row[n]))
      BY <1>8 DEF DeleteReport
    <2>2. row[n].folder \in ReportFolders
      BY <2>1 DEF TypeOK, WellFormed
    <2>3. Asked("delete", u, n, row[n], ReadRows(n, row[n])) /\ Right("delete", u, n, row[n], ReadRows(n, row[n]))
      BY <2>1, <2>2, RowOf, Reads DEF Asked, Right
    <2>4. QED
      BY <2>1, <2>3
  <1>9. QED
    BY <1>1, <1>2, <1>3, <1>4, <1>5, <1>6, <1>7, <1>8

\* A request on the dashboards' side, or for the home page.
LEMMA DashboardRequests ==
    ASSUME TypeOK, NEW c \in Clients,
           \/ CreateDashFolder(c) \/ UpdateDashFolder(c)
           \/ UpdateDashFolderShares(c) \/ DeleteDashFolder(c)
           \/ CreateDashboard(c) \/ UpdateDashboard(c) \/ UpdateDashboardShares(c)
           \/ DeleteDashboard(c) \/ UpdateHomePage(c)
    PROVE  \E op, u, n, new, reads :
               Ask(c, op, u, n, new, reads) /\ Asked(op, u, n, new, reads)
               /\ Right(op, u, n, new, reads) /\ (op = "create" => n \notin used)
  <1> USE Kinds DEF Exists
  <1>1. CASE CreateDashFolder(c)
    <2>1. PICK u \in Users, n \in DashFolders \ used, s \in FolderScopes :
            Ask(c, "create", u, n, NewRow(u, s, None, None), ReadRows(n, NewRow(u, s, None, None)))
      BY <1>1 DEF CreateDashFolder
    <2> DEFINE new == NewRow(u, s, None, None)
    <2>2. Asked("create", u, n, new, ReadRows(n, new)) /\ Right("create", u, n, new, ReadRows(n, new))
      BY NewRowOK, Reads DEF Asked, Right
    <2>3. QED
      BY <2>1, <2>2
  <1>2. CASE UpdateDashFolder(c)
    <2>1. PICK u \in Users, n \in DashFolders, s \in FolderScopes :
            LET new == [row[n] EXCEPT !.mode = s.mode, !.grants = s.grants]
            IN  /\ row[n] # None /\ FolderSuits(n, new)
                /\ Ask(c, "update", u, n, new, ReadRows(n, new))
      BY <1>2 DEF UpdateDashFolder
    <2> DEFINE new == [row[n] EXCEPT !.mode = s.mode, !.grants = s.grants]
    <2>2. row[n] \in Row /\ s.mode \in {"personal", "shared", "inherit", "restricted"}
          /\ s.grants \in SUBSET Grants
      BY <2>1, RowOf, ScopesOK
    <2>3. Rewritten(new, row[n], s.mode, s.grants, row[n].folder)
      BY <2>2, RescopedRow
    <2> HIDE DEF new
    <2>4. Sharable(new) <=> new.grants # {}
      BY <2>3, ScopesOK DEF Sharable, Rewritten
    <2>5. row[n] # None /\ FolderSuits(n, new) /\ Ask(c, "update", u, n, new, ReadRows(n, new))
      BY <2>1 DEF new
    <2>6. Asked("update", u, n, new, ReadRows(n, new)) /\ Right("update", u, n, new, ReadRows(n, new))
      BY <2>5, <2>3, <2>4, Reads DEF Asked, Right, Rewritten, FolderSuits
    <2>7. QED
      BY <2>5, <2>6
  <1>3. CASE UpdateDashFolderShares(c)
    <2>1. PICK u \in Users, n \in DashFolders, gs \in (SUBSET Grants) \ {{}} :
            LET new == [row[n] EXCEPT !.grants = gs]
            IN  /\ row[n] # None /\ row[n].mode = "shared" /\ FolderSuits(n, new)
                /\ Ask(c, "shares", u, n, new, ReadRows(n, new))
      BY <1>3 DEF UpdateDashFolderShares
    <2> DEFINE new == [row[n] EXCEPT !.grants = gs]
    <2>2. row[n] \in Row /\ gs \in SUBSET Grants /\ gs # {}
      BY <2>1, RowOf
    <2>3. Rewritten(new, row[n], row[n].mode, gs, row[n].folder)
      BY <2>2, RescopedRow
    <2> HIDE DEF new
    <2>4. /\ row[n] # None /\ row[n].mode = "shared" /\ FolderSuits(n, new)
          /\ Ask(c, "shares", u, n, new, ReadRows(n, new))
      BY <2>1 DEF new
    <2>5. Asked("shares", u, n, new, ReadRows(n, new)) /\ Right("shares", u, n, new, ReadRows(n, new))
      BY <2>4, <2>2, <2>3, Reads DEF Asked, Right, Rewritten, Sharable, FolderSuits
    <2>6. QED
      BY <2>4, <2>5
  <1>4. CASE DeleteDashFolder(c)
    <2>1. PICK u \in Users, n \in DashFolders :
            row[n] # None /\ Ask(c, "delete", u, n, row[n], ReadRows(n, row[n]))
      BY <1>4 DEF DeleteDashFolder
    <2>2. Asked("delete", u, n, row[n], ReadRows(n, row[n])) /\ Right("delete", u, n, row[n], ReadRows(n, row[n]))
      BY <2>1, RowOf, Reads DEF Asked, Right
    <2>3. QED
      BY <2>1, <2>2
  <1>5. CASE CreateDashboard(c)
    <2>1. PICK u \in Users, n \in Dashboards \ used, f \in DashFolders, r \in Reports, s \in ItemScopes :
            LET new == NewRow(u, s, f, r)
            IN  /\ row[f] # None /\ row[r] # None /\ CanUseReport(u, r)
                /\ Compatible(row[f], new)
                /\ Ask(c, "create", u, n, new, ReadRows(n, new))
      BY <1>5 DEF CreateDashboard
    <2> DEFINE new == NewRow(u, s, f, r)
    <2>2. /\ new \in Row /\ new.folder = f /\ new.source = r /\ new.owner = u
          /\ Sharable(new) <=> new.grants # {}
      BY NewRowOK
    <2> HIDE DEF new
    <2>3. /\ row[f] # None /\ row[r] # None /\ CanUseReport(u, r) /\ Compatible(row[f], new)
          /\ Ask(c, "create", u, n, new, ReadRows(n, new))
      BY <2>1 DEF new
    <2>4. Asked("create", u, n, new, ReadRows(n, new)) /\ Right("create", u, n, new, ReadRows(n, new))
      BY <2>2, <2>3, Reads DEF Asked, Right
    <2>5. QED
      BY <2>3, <2>4
  <1>6. CASE UpdateDashboard(c)
    <2>1. PICK u \in Users, n \in Dashboards, f \in DashFolders, s \in ItemScopes :
            LET new == [row[n] EXCEPT !.mode = s.mode, !.grants = s.grants, !.folder = f]
            IN  /\ row[n] # None /\ Owns(u, n) /\ row[f] # None /\ CanUseReport(u, row[n].source)
                /\ Compatible(row[f], new)
                /\ Ask(c, "update", u, n, new, ReadRows(n, new))
      BY <1>6 DEF UpdateDashboard
    <2> DEFINE new == [row[n] EXCEPT !.mode = s.mode, !.grants = s.grants, !.folder = f]
    <2>2. row[n] \in Row /\ s.mode \in {"personal", "shared", "inherit", "restricted"}
          /\ s.grants \in SUBSET Grants
      BY <2>1, RowOf, ScopesOK
    <2>3. Rewritten(new, row[n], s.mode, s.grants, f)
      BY <2>2, MovedRow
    <2> HIDE DEF new
    <2>4. Sharable(new) <=> new.grants # {}
      BY <2>3, ScopesOK DEF Sharable, Rewritten
    <2>5. /\ row[n] # None /\ Owns(u, n) /\ row[f] # None /\ CanUseReport(u, row[n].source)
          /\ Compatible(row[f], new) /\ Ask(c, "update", u, n, new, ReadRows(n, new))
      BY <2>1 DEF new
    <2>6. row[n].source \in Reports /\ row[row[n].source] # None
      BY <2>1 DEF TypeOK, WellFormed
    <2>7. Asked("update", u, n, new, ReadRows(n, new))
      BY <2>3, <2>4, <2>5, <2>6, Reads DEF Asked, Rewritten
    <2>8. Right("update", u, n, new, ReadRows(n, new))
      BY <2>3, <2>4, <2>5, <2>6, Reads DEF Right, Rewritten, Owns
    <2>9. QED
      BY <2>5, <2>7, <2>8
  <1>7. CASE UpdateDashboardShares(c)
    <2>1. PICK u \in Users, n \in Dashboards, gs \in (SUBSET Grants) \ {{}} :
            LET new == [row[n] EXCEPT !.grants = gs]
            IN  /\ row[n] # None /\ row[n].mode = "restricted" /\ Compatible(row[row[n].folder], new)
                /\ Ask(c, "shares", u, n, new, ReadRows(n, new))
      BY <1>7 DEF UpdateDashboardShares
    <2> DEFINE new == [row[n] EXCEPT !.grants = gs]
    <2>2. row[n] \in Row /\ gs \in SUBSET Grants /\ gs # {}
      BY <2>1, RowOf
    <2>3. Rewritten(new, row[n], row[n].mode, gs, row[n].folder)
      BY <2>2, RescopedRow
    <2> HIDE DEF new
    <2>4. /\ row[n] # None /\ row[n].mode = "restricted" /\ Compatible(row[row[n].folder], new)
          /\ Ask(c, "shares", u, n, new, ReadRows(n, new))
      BY <2>1 DEF new
    <2>5. /\ row[n].source \in Reports /\ row[row[n].source] # None
          /\ row[n].folder \in DashFolders /\ row[row[n].folder] # None
      BY <2>1 DEF TypeOK, WellFormed
    <2>6. Asked("shares", u, n, new, ReadRows(n, new))
      BY <2>2, <2>3, <2>4, <2>5, Reads DEF Asked, Rewritten
    <2>7. Right("shares", u, n, new, ReadRows(n, new))
      BY <2>2, <2>3, <2>4, <2>5, Reads DEF Right, Rewritten, Sharable
    <2>8. QED
      BY <2>4, <2>6, <2>7
  <1>8. CASE DeleteDashboard(c)
    <2>1. PICK u \in Users, n \in Dashboards :
            row[n] # None /\ n \notin home /\ Ask(c, "delete", u, n, row[n], {n, HomePage})
      BY <1>8 DEF DeleteDashboard
    <2>2. row[n].folder \in DashFolders /\ row[n].source \in Reports
      BY <2>1 DEF TypeOK, WellFormed
    <2>3. Asked("delete", u, n, row[n], {n, HomePage}) /\ Right("delete", u, n, row[n], {n, HomePage})
      BY <2>1, <2>2, RowOf DEF Asked, Right
    <2>4. QED
      BY <2>1, <2>3
  <1>9. CASE UpdateHomePage(c)
    <2>1. PICK u \in Admins, ds \in SUBSET Dashboards :
            (\A d \in ds : row[d] # None) /\ Ask(c, "home", u, None, None, ds)
      BY <1>9 DEF UpdateHomePage
    <2>2. Asked("home", u, None, None, ds) /\ Right("home", u, None, None, ds)
      BY <2>1 DEF Asked, Right
    <2>3. QED
      BY <2>1, <2>2
  <1>10. QED
    BY <1>1, <1>2, <1>3, <1>4, <1>5, <1>6, <1>7, <1>8, <1>9

LEMMA Requests ==
    ASSUME TypeOK, NEW c \in Clients, Request(c)
    PROVE  \E op, u, n, new, reads :
               Ask(c, op, u, n, new, reads) /\ Asked(op, u, n, new, reads)
               /\ Right(op, u, n, new, reads) /\ (op = "create" => n \notin used)
  BY ReportRequests, DashboardRequests DEF Request

-----------------------------------------------------------------------------
(* The steps. *)

LEMMA TypeAsk ==
    ASSUME TypeOK, NEW c \in Clients, Request(c)
    PROVE  TypeOK'
  <1>1. PICK op, u, n, new, reads :
            Ask(c, op, u, n, new, reads) /\ Asked(op, u, n, new, reads)
    BY Requests
  <1> USE <1>1 DEF Ask, TypeOK
  <1>2. ops' \in 0 .. MaxOps
    BY SharingAssumption
  <1>3. used' \subseteq Nodes /\ {m \in Nodes : row'[m] # None} \subseteq used'
    BY DEF Asked
  <1>4. QED
    BY <1>2, <1>3 DEF WellFormed

\* The tables after an insertion, a replacement and a removal.
LEMMA InsertRows ==
    ASSUME IInv, NEW c \in Clients, Insert(c)
    PROVE  /\ WellFormed(row)' /\ job[c].node \in used /\ job[c].node \in Nodes
           /\ job[c].new \in Row /\ row'[job[c].node] = job[c].new
           /\ \A n \in Nodes : n # job[c].node => row'[n] = row[n]
  <1> USE Kinds DEF IInv, Jobs, JobOK, Asked, Insert, TypeOK, WellFormed, Exists
  <1>1. job[c].node \in used /\ job[c].node \in Nodes /\ job[c].new \in Row
    OBVIOUS
  <1>2. row' \in [Nodes -> Row \cup {None}]
    BY <1>1
  <1>3. QED
    BY <1>1, <1>2

LEMMA ReplaceRows ==
    ASSUME IInv, NEW c \in Clients, Replace(c)
    PROVE  /\ WellFormed(row)' /\ job[c].node \in Nodes /\ row[job[c].node] # None
           /\ \A n \in Nodes : n # job[c].node => row'[n] = row[n]
           /\ LET n == job[c].node
                  kept == IF overtaken[c] THEN row[n].grants ELSE {}
              IN  /\ row'[n] # None
                  /\ row'[n].owner = row[n].owner /\ row'[n].source = row[n].source
                  /\ row'[n].grants = job[c].new.grants \cup kept
                  /\ row'[n].mode = IF job[c].op = "update" THEN job[c].new.mode ELSE row[n].mode
                  /\ row'[n].folder = IF job[c].op = "update" THEN job[c].new.folder ELSE row[n].folder
  <1> DEFINE n == job[c].node
             kept == IF overtaken[c] THEN row[n].grants ELSE {}
             gs == job[c].new.grants \cup kept
             m == IF job[c].op = "update" THEN job[c].new.mode ELSE row[n].mode
             f == IF job[c].op = "update" THEN job[c].new.folder ELSE row[n].folder
  <1>1. /\ n \in Nodes /\ row[n] # None /\ row[n] \in Row /\ job[c].new \in Row
        /\ job[c].op \in {"update", "shares"}
        /\ n \in Reports => job[c].new.folder \in ReportFolders
        /\ n \in Dashboards => job[c].new.folder \in DashFolders
        /\ n \in Items => row[job[c].new.folder] # None
    BY Kinds DEF IInv, Jobs, JobOK, Asked, Replace, TypeOK, WellFormed, Exists
  <1>2. row' = [row EXCEPT ![n].grants = gs, ![n].mode = m, ![n].folder = f]
    BY <1>1 DEF Replace
  <1>3. row \in [Nodes -> Row \cup {None}]
    BY DEF IInv, TypeOK, WellFormed
  <1>4. row' = [row EXCEPT ![n] = [row[n] EXCEPT !.grants = gs, !.mode = m, !.folder = f]]
    BY <1>1, <1>2, <1>3
  <1>5. /\ gs \in SUBSET Grants /\ m \in {"personal", "shared", "inherit", "restricted"}
        /\ f \in Folders \cup {None}
    BY <1>1 DEF Row
  <1> DEFINE y == [row[n] EXCEPT !.grants = gs, !.mode = m, !.folder = f]
  <1>6. /\ y \in Row /\ y.mode = m /\ y.grants = gs /\ y.folder = f
        /\ y.owner = row[n].owner /\ y.source = row[n].source
    <2> HIDE DEF gs, m, f, n
    <2> QED
      BY <1>1, <1>5 DEF Row
  <1>7. row'[n] = y /\ \A i \in Nodes : i # n => row'[i] = row[i]
    BY <1>1, <1>3, <1>4
  <1>8. row' \in [Nodes -> Row \cup {None}]
    BY <1>1, <1>3, <1>4, <1>6
  <1>9. y # None
    BY <1>6, Kinds
  <1>10. WellFormed(row)'
    <2> HIDE DEF y
    <2>1. /\ n \in Reports => f \in ReportFolders /\ row[f] # None
          /\ n \in Dashboards => f \in DashFolders /\ row[f] # None
      BY <1>1, Kinds DEF IInv, TypeOK, WellFormed
    <2> HIDE DEF f, m, gs, n
    <2>2. \A i \in Nodes : row'[i] # None <=> row[i] # None
      BY <1>1, <1>7, <1>9
    <2>3. \A r \in Reports : row'[r] # None =>
               row'[r].folder \in ReportFolders /\ row'[row'[r].folder] # None
      BY <2>1, <2>2, <1>6, <1>7, Kinds DEF IInv, TypeOK, WellFormed
    <2>4. \A d \in Dashboards : row'[d] # None =>
               /\ row'[d].folder \in DashFolders /\ row'[row'[d].folder] # None
               /\ row'[d].source \in Reports /\ row'[row'[d].source] # None
      BY <2>1, <2>2, <1>6, <1>7, Kinds DEF IInv, TypeOK, WellFormed
    <2>5. QED
      BY <1>8, <2>3, <2>4 DEF WellFormed
  <1>11. QED
    BY <1>1, <1>6, <1>7, <1>9, <1>10

LEMMA RemoveRows ==
    ASSUME IInv, NEW c \in Clients, Remove(c)
    PROVE  LET gone == {job[c].node} \cup In(job[c].node)
           IN  /\ WellFormed(row)' /\ job[c].node \in Nodes /\ gone \subseteq Nodes
               /\ \A n \in gone : row'[n] = None
               /\ \A n \in Nodes : n \notin gone => row'[n] = row[n]
               /\ \A d \in Dashboards : row'[d] # None =>
                    {row[d].folder, row[d].source, row[row[d].source].folder} \cap gone = {}
  <1> DEFINE gone == {job[c].node} \cup In(job[c].node)
  <1>1. job[c].node \in Nodes /\ gone \subseteq Nodes
    BY Kinds DEF IInv, Jobs, JobOK, Asked, Remove, In
  <1>2. row' = [n \in Nodes |-> IF n \in gone THEN None ELSE row[n]] /\ BuiltOn(gone) = {}
    BY DEF Remove
  <1>3. \A i \in Items : row[i] # None /\ row[i].folder \in gone => i \in gone
    BY Kinds DEF In, IInv, TypeOK, WellFormed
  <1>4. \A d \in Dashboards : row'[d] # None =>
            {row[d].folder, row[d].source, row[row[d].source].folder} \cap gone = {}
    BY <1>1, <1>2, <1>3, Kinds DEF IInv, TypeOK, WellFormed, BuiltOn
  <1>5. WellFormed(row)'
    <2> HIDE DEF gone
    <2>1. row' \in [Nodes -> Row \cup {None}]
      BY <1>2 DEF IInv, TypeOK, WellFormed
    <2>2. \A r \in Reports : row'[r] # None =>
               row'[r].folder \in ReportFolders /\ row'[row'[r].folder] # None
      BY <1>2, <1>3, Kinds DEF IInv, TypeOK, WellFormed
    <2>3. \A d \in Dashboards : row'[d] # None =>
               /\ row'[d].folder \in DashFolders /\ row'[row'[d].folder] # None
               /\ row'[d].source \in Reports /\ row'[row'[d].source] # None
      BY <1>2, <1>4, Kinds DEF IInv, TypeOK, WellFormed
    <2>4. QED
      BY <2>1, <2>2, <2>3 DEF WellFormed
  <1>6. QED
    BY <1>1, <1>2, <1>4, <1>5

LEMMA TypeStep == ASSUME IInv, [Next]_vars PROVE TypeOK'
  <1>1. ASSUME NEW c \in Clients, Request(c) PROVE TypeOK'
    BY <1>1, TypeAsk DEF IInv
  <1>2. ASSUME NEW c \in Clients, Insert(c) PROVE TypeOK'
    <2>1. {n \in Nodes : row'[n] # None} \subseteq used'
      BY <1>2, InsertRows DEF IInv, TypeOK, Insert, Committed
    <2>2. loose' \subseteq Dashboards
      BY <1>2, Kinds DEF IInv, TypeOK, WellFormed, Insert, Settled, Checked, Narrowed, In, BuiltOn
    <2>3. QED
      BY <1>2, <2>1, <2>2, InsertRows DEF IInv, TypeOK, Insert, Committed
  <1>3. ASSUME NEW c \in Clients, Begin(c) PROVE TypeOK'
    BY <1>3 DEF IInv, TypeOK, WellFormed, Begin
  <1>4. ASSUME NEW c \in Clients, Replace(c) PROVE TypeOK'
    <2>1. {n \in Nodes : row'[n] # None} \subseteq used'
      BY <1>4, ReplaceRows DEF IInv, TypeOK, Replace, Committed
    <2>2. loose' \subseteq Dashboards
      BY <1>4, Kinds DEF IInv, TypeOK, WellFormed, Replace, Settled, Checked, Narrowed, In, BuiltOn
    <2>3. overtaken' \in [Clients -> BOOLEAN] /\ raced' \subseteq Nodes
      BY <1>4, ReplaceRows DEF IInv, TypeOK, Replace
    <2>4. QED
      BY <1>4, <2>1, <2>2, <2>3, ReplaceRows DEF IInv, TypeOK, Replace, Committed
  <1>5. ASSUME NEW c \in Clients, Remove(c) PROVE TypeOK'
    <2>1. {n \in Nodes : row'[n] # None} \subseteq used'
      BY <1>5, RemoveRows DEF IInv, TypeOK, Remove, Committed
    <2>2. orphaned' \subseteq Nodes
      BY <1>5, RemoveRows DEF IInv, TypeOK, Remove
    <2>3. QED
      BY <1>5, <2>1, <2>2, RemoveRows DEF IInv, TypeOK, Remove, Committed
  <1>6. ASSUME NEW c \in Clients, SaveHome(c) PROVE TypeOK'
    <2>1. home' \subseteq Dashboards
      BY <1>6 DEF IInv, Jobs, JobOK, Asked, SaveHome
    <2>2. QED
      BY <1>6, <2>1, Kinds DEF IInv, TypeOK, WellFormed, SaveHome, Committed
  <1>7. ASSUME NEW c \in Clients, Leave(c) PROVE TypeOK'
    BY <1>7 DEF IInv, TypeOK, WellFormed, Leave
  <1>8. CASE UNCHANGED vars
    BY <1>8 DEF IInv, TypeOK, WellFormed, vars, request
  <1>9. QED
    BY <1>1, <1>2, <1>3, <1>4, <1>5, <1>6, <1>7, <1>8 DEF Next, Answer, Fail

\* The jobs of the requests in flight.
LEMMA JobsStep == ASSUME IInv, [Next]_vars PROVE Jobs'
  <1> SUFFICES ASSUME NEW d \in Clients, pc'[d] # "idle" PROVE JobOK(d)'
    BY DEF Jobs
  <1>0. /\ pc \in [Clients -> {"idle", "checked", "writing", "committed"}]
        /\ DOMAIN job = Clients /\ DOMAIN read = Clients
        /\ pc[d] # "idle" => JobOK(d)
    BY DEF IInv, TypeOK, Jobs
  <1>1. ASSUME NEW c \in Clients, Request(c) PROVE JobOK(d)'
    <2>1. PICK op, u, n, new, reads :
            /\ Ask(c, op, u, n, new, reads) /\ Asked(op, u, n, new, reads)
            /\ op = "create" => n \notin used
      BY <1>1, Requests DEF IInv
    <2>2. CASE d = c
      <3>1. /\ job'[c] = [op |-> op, user |-> u, node |-> n, new |-> new]
            /\ read'[c] = reads /\ pc'[c] = "checked"
        BY <1>0, <2>1 DEF Ask
      <3>2. op = "create" => n \in used'
        BY <2>1 DEF Ask
      <3>3. QED
        BY <2>1, <2>2, <3>1, <3>2 DEF JobOK, Asked
    <2>3. CASE d # c
      <3>1. pc'[d] = pc[d] /\ job'[d] = job[d] /\ read'[d] = read[d]
        BY <1>0, <2>1, <2>3 DEF Ask
      <3>2. used \subseteq used'
        BY <2>1 DEF Ask
      <3>3. QED
        BY <1>0, <3>1, <3>2 DEF JobOK
    <2>4. QED
      BY <2>2, <2>3
  <1>2. ASSUME NEW c \in Clients, Committed(c), pc[c] # "idle" PROVE JobOK(d)'
    BY <1>0, <1>2 DEF Committed, JobOK
  <1>3. ASSUME NEW c \in Clients, Begin(c) PROVE JobOK(d)'
    BY <1>0, <1>3 DEF Begin, JobOK
  <1>4. ASSUME NEW c \in Clients, Leave(c) PROVE JobOK(d)'
    BY <1>0, <1>4 DEF Leave, JobOK
  <1>5. CASE UNCHANGED vars
    BY <1>0, <1>5 DEF vars, request, JobOK
  <1>6. QED
    BY <1>1, <1>2, <1>3, <1>4, <1>5 DEF Next, Insert, Replace, Remove, SaveHome, Answer, Fail

-----------------------------------------------------------------------------
(* A check that is not stale still holds. *)

\* What a step by another request leaves of what d has read.
Kept(d) ==
    /\ job'[d] = job[d] /\ read'[d] = read[d]
    /\ \A n \in Nodes : n \in read[d] => row'[n] = row[n]
    /\ \A n \in Nodes : row'[n] # None /\ row'[n].folder \in read[d] => row'[n] = row[n]
    /\ HomePage \in read[d] => home' = home

LEMMA CommitKeeps ==
    ASSUME TypeOK, NEW c \in Clients, Committed(c), NEW d \in Clients,
           d # c, pc[d] # "idle", ~ stale'[d]
    PROVE  Kept(d) /\ pc'[d] = pc[d] /\ ~ stale[d]
  <1>1. ~ stale[d] /\ read[d] \cap Touched = {}
    BY DEF Committed
  <1>2. job'[d] = job[d] /\ read'[d] = read[d] /\ pc'[d] = pc[d]
    BY DEF Committed, TypeOK
  <1>3. \A n \in Nodes : n \in read[d] => row'[n] = row[n]
    BY <1>1 DEF Touched
  <1>4. \A n \in Nodes : row'[n] # None /\ row'[n].folder \in read[d] => row'[n] = row[n]
    BY <1>1 DEF Touched
  <1>5. HomePage \in read[d] => home' = home
    BY <1>1 DEF Touched
  <1>6. QED
    BY <1>1, <1>2, <1>3, <1>4, <1>5 DEF Kept

LEMMA HoldsKept ==
    ASSUME TypeOK, TypeOK', NEW d \in Clients, JobOK(d), Holds(d), Kept(d)
    PROVE  Holds(d)'
  <1> DEFINE j == job[d]
             n == job[d].node
             new == job[d].new
  <1>1. j.op = "home" => \A e \in read[d] : row'[e] # None
    BY Kinds DEF Holds, Right, Kept, JobOK, Asked
  <1>2. j.op = "delete" /\ n \in Dashboards => HomePage \in read[d] /\ n \notin home'
    BY DEF Holds, Right, Kept
  <1>3. j.op # "home" => n \in Nodes /\ row'[n] = row[n]
    BY DEF JobOK, Asked, Kept
  <1>4. j.op \in {"update", "shares"} =>
            row'[n] # None /\ new.owner = row'[n].owner /\ new.source = row'[n].source
    BY <1>3 DEF Holds, Right
  <1>5. j.op = "shares" => Sharable(row'[n]) /\ new.mode = row'[n].mode /\ new.folder = row'[n].folder
    BY <1>3 DEF Holds, Right
  <1>6. ASSUME j.op \in {"create", "update", "shares"}, n \in Dashboards
        PROVE  /\ {new.folder, new.source, row'[new.source].folder} \subseteq read[d]
               /\ row'[new.folder] # None /\ row'[new.source] # None
               /\ Compatible(row[new.folder], new)'
               /\ j.op # "shares" => \/ IsAdmin(j.user)
                                     \/ new.owner = j.user /\ CanUseReport(j.user, new.source)'
    <2>1. /\ {new.folder, new.source, row[new.source].folder} \subseteq read[d]
          /\ row[new.folder] # None /\ row[new.source] # None
          /\ Compatible(row[new.folder], new)
          /\ j.op # "shares" => IsAdmin(j.user) \/ (new.owner = j.user /\ CanUseReport(j.user, new.source))
      BY <1>6 DEF Holds, Right
    <2>2. new.folder \in DashFolders /\ new.source \in Reports
      BY <1>6 DEF JobOK, Asked
    <2>3. row[new.source].folder \in Nodes
      BY <2>1, <2>2, Kinds DEF TypeOK, WellFormed
    <2>4. /\ row'[new.folder] = row[new.folder] /\ row'[new.source] = row[new.source]
          /\ row'[row[new.source].folder] = row[row[new.source].folder]
          /\ job'[d] = job[d]
      BY <2>1, <2>2, <2>3, Kinds DEF Kept
    <2>5. Compatible(row[new.folder], new)'
      BY <2>1, <2>4 DEF Compatible, Fits, Envelope
    <2>6. CanUseReport(j.user, new.source) => CanUseReport(j.user, new.source)'
      BY <2>4 DEF CanUseReport, Owns, ModeAdmits
    <2>7. QED
      BY <2>1, <2>4, <2>5, <2>6
  <1>7. ASSUME j.op \in {"update", "shares"}, n \in DashFolders, NEW e \in In(n)'
        PROVE  /\ {e, row'[e].source, row'[row'[e].source].folder} \subseteq read[d]
               /\ Compatible(new, row[e])'
    <2>1. e \in Items /\ e \in Nodes /\ row'[e] # None /\ row'[e].folder = n /\ n \in read[d]
      BY <1>7, Kinds DEF In, Kept, JobOK, Asked
    <2>2. row'[e] = row[e] /\ e \in Dashboards
      BY <2>1, <1>7, Kinds DEF Kept, TypeOK, WellFormed, Items
    <2>3. e \in In(n)
      BY <2>1, <2>2 DEF In
    <2>4. {e, row[e].source, row[row[e].source].folder} \subseteq read[d] /\ Compatible(new, row[e])
      BY <2>3, <1>7 DEF Holds, Right
    <2>5. row[e].source \in Nodes /\ row[row[e].source].folder \in Nodes
      BY <2>1, <2>2, Kinds DEF TypeOK, WellFormed
    <2>6. /\ row'[row[e].source] = row[row[e].source]
          /\ row'[row[row[e].source].folder] = row[row[row[e].source].folder]
          /\ job'[d] = job[d]
      BY <2>4, <2>5 DEF Kept
    <2>7. Compatible(new, row[e])'
      BY <2>2, <2>4, <2>6 DEF Compatible, Fits, Envelope
    <2>8. QED
      BY <2>2, <2>4, <2>6, <2>7
  <1>8. QED
    <2>1. job'[d] = job[d] /\ read'[d] = read[d]
      BY DEF Kept
    <2>2. QED
      BY <2>1, <1>1, <1>2, <1>4, <1>5, <1>6, <1>7 DEF Holds, Right, IsAdmin

LEMMA ChecksStep == ASSUME IInv, [Next]_vars PROVE Checks'
  <1> SUFFICES ASSUME NEW d \in Clients, pc'[d] \in {"checked", "writing"}, ~ stale'[d]
               PROVE  Holds(d)'
    BY DEF Checks
  <1>0. /\ TypeOK /\ TypeOK'
        /\ pc \in [Clients -> {"idle", "checked", "writing", "committed"}]
        /\ DOMAIN job = Clients /\ DOMAIN read = Clients /\ stale \in [Clients -> BOOLEAN]
        /\ pc[d] # "idle" => JobOK(d)
        /\ pc[d] \in {"checked", "writing"} /\ ~ stale[d] => Holds(d)
    BY TypeStep DEF IInv, TypeOK, Jobs, Checks
  <1>1. ASSUME NEW c \in Clients, Request(c) PROVE Holds(d)'
    <2>1. PICK op, u, n, new, reads :
            Ask(c, op, u, n, new, reads) /\ Right(op, u, n, new, reads)
      BY <1>0, <1>1, Requests
    <2>2. CASE d = c
      <3>1. /\ job'[c] = [op |-> op, user |-> u, node |-> n, new |-> new]
            /\ read'[c] = reads /\ row' = row /\ home' = home
        BY <1>0, <2>1 DEF Ask
      <3>2. Right(op, u, n, new, reads)'
        BY <2>1, <3>1 DEF Right, In, Compatible, Fits, Envelope, CanUseReport, Owns, ModeAdmits
      <3>3. QED
        BY <2>2, <3>1, <3>2 DEF Holds
    <2>3. CASE d # c
      <3>1. /\ pc'[d] = pc[d] /\ stale'[d] = stale[d]
            /\ job'[d] = job[d] /\ read'[d] = read[d] /\ row' = row /\ home' = home
        BY <1>0, <2>1, <2>3 DEF Ask
      <3>2. QED
        BY <1>0, <3>1, HoldsKept DEF Kept
    <2>4. QED
      BY <2>2, <2>3
  <1>2. ASSUME NEW c \in Clients, Committed(c), pc[c] # "idle" PROVE Holds(d)'
    <2>1. d # c /\ pc[d] # "idle"
      BY <1>0, <1>2 DEF Committed
    <2>2. QED
      BY <1>0, <1>2, <2>1, CommitKeeps, HoldsKept
  <1>3. ASSUME NEW c \in Clients, Begin(c) PROVE Holds(d)'
    <2>1. /\ pc[d] \in {"checked", "writing"} /\ ~ stale[d]
          /\ job'[d] = job[d] /\ read'[d] = read[d] /\ row' = row /\ home' = home
      BY <1>0, <1>3 DEF Begin
    <2>2. QED
      BY <1>0, <2>1, HoldsKept DEF Kept
  <1>4. ASSUME NEW c \in Clients, Leave(c) PROVE Holds(d)'
    <2>1. /\ pc[d] \in {"checked", "writing"} /\ ~ stale[d]
          /\ job'[d] = job[d] /\ read'[d] = read[d] /\ row' = row /\ home' = home
      BY <1>0, <1>4 DEF Leave
    <2>2. QED
      BY <1>0, <2>1, HoldsKept DEF Kept
  <1>5. CASE UNCHANGED vars
    <2>1. /\ pc[d] \in {"checked", "writing"} /\ ~ stale[d]
          /\ job'[d] = job[d] /\ read'[d] = read[d] /\ row' = row /\ home' = home
      BY <1>5 DEF vars, request
    <2>2. QED
      BY <1>0, <2>1, HoldsKept DEF Kept
  <1>6. QED
    BY <1>1, <1>2, <1>3, <1>4, <1>5 DEF Next, Insert, Replace, Remove, SaveHome, Answer, Fail

LEMMA FreshStep == ASSUME IInv, [Next]_vars PROVE Fresh'
  <1>0. /\ TypeOK /\ Fresh /\ Jobs
        /\ pc \in [Clients -> {"idle", "checked", "writing", "committed"}]
        /\ DOMAIN job = Clients
    BY DEF IInv, TypeOK
  <1>1. ASSUME NEW c \in Clients, Request(c) PROVE Fresh'
    <2>1. PICK op, u, n, new, reads :
            /\ Ask(c, op, u, n, new, reads) /\ Asked(op, u, n, new, reads)
            /\ op = "create" => n \notin used
      BY <1>0, <1>1, Requests
    <2>2. /\ job'[c].op = op /\ job'[c].node = n /\ row' = row
          /\ \A d \in Clients : d # c => job'[d] = job[d] /\ pc'[d] = pc[d]
      BY <1>0, <2>1 DEF Ask
    <2>3. op = "create" => n \in Nodes /\ row[n] = None
      BY <1>0, <2>1 DEF TypeOK, Asked
    <2>4. \A d \in Clients : Creating(d) => job[d].node \in used
      BY <1>0 DEF Jobs, JobOK, Creating
    <2>5. QED
      BY <1>0, <2>1, <2>2, <2>3, <2>4 DEF Fresh, Creating
  <1>2. ASSUME NEW c \in Clients, Insert(c) PROVE Fresh'
    <2>1. \A d \in Clients : Creating(d)' => d # c /\ Creating(d) /\ job'[d] = job[d]
      BY <1>0, <1>2 DEF Insert, Committed, Creating
    <2>2. Creating(c)
      BY <1>2 DEF Insert, Creating
    <2>3. \A d \in Clients : Creating(d) => job[d].node \in Nodes
      BY <1>0 DEF Jobs, JobOK, Asked, Creating
    <2>4. \A n \in Nodes : n # job[c].node => row'[n] = row[n]
      BY <1>2, InsertRows
    <2>5. QED
      BY <1>0, <2>1, <2>2, <2>3, <2>4 DEF Fresh
  <1>3. ASSUME NEW c \in Clients, Begin(c) PROVE Fresh'
    BY <1>0, <1>3 DEF Begin, Fresh, Creating
  <1>4. ASSUME NEW c \in Clients, Replace(c) PROVE Fresh'
    <2>1. \A d \in Clients : Creating(d)' => Creating(d) /\ job'[d] = job[d]
      BY <1>0, <1>4 DEF Replace, Committed, Creating
    <2>2. \A d \in Clients : Creating(d) => job[d].node \in Nodes
      BY <1>0 DEF Jobs, JobOK, Asked, Creating
    <2>3. /\ row[job[c].node] # None
          /\ \A n \in Nodes : n # job[c].node => row'[n] = row[n]
      BY <1>4, ReplaceRows
    <2>4. QED
      BY <1>0, <2>1, <2>2, <2>3 DEF Fresh
  <1>5. ASSUME NEW c \in Clients, Remove(c) PROVE Fresh'
    <2>1. \A d \in Clients : Creating(d)' => Creating(d) /\ job'[d] = job[d]
      BY <1>0, <1>5 DEF Remove, Committed, Creating
    <2>2. \A d \in Clients : Creating(d) => job[d].node \in Nodes
      BY <1>0 DEF Jobs, JobOK, Asked, Creating
    <2>3. \A n \in Nodes : row'[n] = None \/ row'[n] = row[n]
      BY <1>5, RemoveRows
    <2>4. QED
      BY <1>0, <2>1, <2>2, <2>3 DEF Fresh
  <1>6. ASSUME NEW c \in Clients, SaveHome(c) PROVE Fresh'
    BY <1>0, <1>6 DEF SaveHome, Committed, Fresh, Creating
  <1>7. ASSUME NEW c \in Clients, Leave(c) PROVE Fresh'
    BY <1>0, <1>7 DEF Leave, Fresh, Creating
  <1>8. CASE UNCHANGED vars
    BY <1>0, <1>8 DEF vars, request, Fresh, Creating
  <1>9. QED
    BY <1>1, <1>2, <1>3, <1>4, <1>5, <1>6, <1>7, <1>8 DEF Next, Answer, Fail

LEMMA EntitledKept ==
    ASSUME TypeOK, NEW d \in Clients, JobOK(d), Entitled(d), Kept(d)
    PROVE  Entitled(d)'
  <1>1. SUFFICES ASSUME job[d].node \in Dashboards, job[d].op \in {"create", "update"}
                 PROVE  Entitled(d)'
    BY DEF Entitled, Kept
  <1> DEFINE n == job[d].node
  <1>2. /\ row[n] # None
        /\ {n, row[n].source, row[row[n].source].folder} \subseteq read[d]
        /\ \/ IsAdmin(job[d].user)
           \/ row[n].owner = job[d].user /\ CanUseReport(job[d].user, row[n].source)
    BY <1>1 DEF Entitled
  <1>3. n \in Nodes /\ row[n].source \in Nodes /\ row[row[n].source].folder \in Nodes
    BY <1>1, <1>2, Kinds DEF TypeOK, WellFormed
  <1>4. /\ row'[n] = row[n] /\ row'[row[n].source] = row[row[n].source]
        /\ row'[row[row[n].source].folder] = row[row[row[n].source].folder]
        /\ job'[d] = job[d] /\ read'[d] = read[d]
    BY <1>2, <1>3 DEF Kept
  <1>5. CanUseReport(job[d].user, row[n].source) => CanUseReport(job[d].user, row[n].source)'
    BY <1>4 DEF CanUseReport, Owns, ModeAdmits
  <1>6. QED
    BY <1>2, <1>4, <1>5 DEF Entitled

\* A change commits with what its check established for it.
LEMMA EntitledByChange ==
    ASSUME IInv, NEW c \in Clients, pc[c] \in {"checked", "writing"}, ~ stale[c],
           job[c].node \in Dashboards, job[c].op \in {"create", "update"},
           job'[c] = job[c], read'[c] = read[c],
           row'[job[c].node] # None,
           row'[job[c].node].owner = job[c].new.owner, row'[job[c].node].source = job[c].new.source,
           \A n \in Nodes : n # job[c].node => row'[n] = row[n]
    PROVE  Entitled(c)'
  <1> DEFINE n == job[c].node
             new == job[c].new
             u == job[c].user
  <1>1. /\ {new.folder, new.source, row[new.source].folder} \subseteq read[c]
        /\ row[new.source] # None
        /\ IsAdmin(u) \/ (new.owner = u /\ CanUseReport(u, new.source))
    BY DEF IInv, Checks, Holds, Right
  <1>2. n \in read[c] /\ new.source \in Reports
    BY DEF IInv, Jobs, JobOK, Asked
  <1>3. new.source \in Nodes /\ new.source # n /\ row[new.source].folder \in Nodes /\ row[new.source].folder # n
    BY <1>1, <1>2, Kinds DEF IInv, TypeOK, WellFormed
  <1>4. /\ row'[new.source] = row[new.source]
        /\ row'[row[new.source].folder] = row[row[new.source].folder]
    BY <1>3
  <1>5. CanUseReport(u, new.source) => CanUseReport(u, new.source)'
    BY <1>4 DEF CanUseReport, Owns, ModeAdmits
  <1>6. QED
    BY <1>1, <1>2, <1>4, <1>5 DEF Entitled, IsAdmin

LEMMA AnswersStep == ASSUME IInv, [Next]_vars PROVE Answers'
  <1> SUFFICES ASSUME NEW d \in Clients, pc'[d] = "committed", ~ stale'[d]
               PROVE  Entitled(d)'
    BY DEF Answers
  <1>0. /\ TypeOK /\ TypeOK'
        /\ pc \in [Clients -> {"idle", "checked", "writing", "committed"}]
        /\ DOMAIN job = Clients /\ DOMAIN read = Clients /\ stale \in [Clients -> BOOLEAN]
        /\ pc[d] # "idle" => JobOK(d)
        /\ pc[d] = "committed" /\ ~ stale[d] => Entitled(d)
    BY TypeStep DEF IInv, TypeOK, Jobs, Answers
  <1>1. ASSUME NEW c \in Clients, Request(c) PROVE Entitled(d)'
    <2>1. PICK op, u, n, new, reads : Ask(c, op, u, n, new, reads)
      BY <1>0, <1>1, Requests
    <2>2. /\ pc[d] = "committed" /\ ~ stale[d]
          /\ job'[d] = job[d] /\ read'[d] = read[d] /\ row' = row /\ home' = home
      BY <1>0, <2>1 DEF Ask
    <2>3. QED
      BY <1>0, <2>2, EntitledKept DEF Kept
  <1>2. ASSUME NEW c \in Clients, Committed(c), pc[c] # "idle", d # c PROVE Entitled(d)'
    <2>1. pc[d] # "idle"
      BY <1>0, <1>2 DEF Committed
    <2>2. QED
      BY <1>0, <1>2, <2>1, CommitKeeps, EntitledKept
  <1>3. CASE Insert(d)
    <2>1. /\ pc[d] = "checked" /\ ~ stale[d] /\ job'[d] = job[d] /\ read'[d] = read[d]
          /\ job[d].op = "create"
      BY <1>0, <1>3 DEF Insert, Committed
    <2>2. CASE job[d].node \in Dashboards
      <3>1. row'[job[d].node] = job[d].new /\ job[d].new # None
            /\ \A n \in Nodes : n # job[d].node => row'[n] = row[n]
        BY <1>3, InsertRows, Kinds
      <3>2. QED
        BY <2>1, <2>2, <3>1, EntitledByChange
    <2>3. CASE job[d].node \notin Dashboards
      BY <2>1, <2>3 DEF Entitled
    <2>4. QED
      BY <2>2, <2>3
  <1>4. CASE Replace(d)
    <2>1. /\ pc[d] = "writing" /\ ~ stale[d] /\ job'[d] = job[d] /\ read'[d] = read[d]
      BY <1>0, <1>4 DEF Replace, Committed
    <2>2. CASE job[d].node \in Dashboards /\ job[d].op = "update"
      <3>1. /\ row'[job[d].node] # None
            /\ row'[job[d].node].owner = row[job[d].node].owner
            /\ row'[job[d].node].source = row[job[d].node].source
            /\ \A n \in Nodes : n # job[d].node => row'[n] = row[n]
        BY <1>4, ReplaceRows
      <3>2. job[d].new.owner = row[job[d].node].owner /\ job[d].new.source = row[job[d].node].source
        BY <2>1, <2>2 DEF IInv, Checks, Holds, Right
      <3>3. QED
        BY <2>1, <2>2, <3>1, <3>2, EntitledByChange
    <2>3. CASE ~ (job[d].node \in Dashboards /\ job[d].op = "update")
      <3>1. job[d].op # "create"
        BY <2>1 DEF IInv, Jobs, JobOK
      <3>2. QED
        BY <2>1, <2>3, <3>1 DEF Entitled
    <2>4. QED
      BY <2>2, <2>3
  <1>5. CASE Remove(d) \/ SaveHome(d)
    <2>1. job'[d] = job[d] /\ job[d].op \in {"delete", "home"}
      BY <1>5 DEF Remove, SaveHome, Committed
    <2>2. QED
      BY <2>1 DEF Entitled
  <1>6. ASSUME NEW c \in Clients, Begin(c) \/ Leave(c) PROVE Entitled(d)'
    <2>1. /\ pc[d] = "committed" /\ ~ stale[d]
          /\ job'[d] = job[d] /\ read'[d] = read[d] /\ row' = row /\ home' = home
      BY <1>0, <1>6 DEF Begin, Leave
    <2>2. QED
      BY <1>0, <2>1, EntitledKept DEF Kept
  <1>7. CASE UNCHANGED vars
    <2>1. /\ pc[d] = "committed" /\ ~ stale[d]
          /\ job'[d] = job[d] /\ read'[d] = read[d] /\ row' = row /\ home' = home
      BY <1>7 DEF vars, request
    <2>2. QED
      BY <1>0, <2>1, EntitledKept DEF Kept
  <1>8. QED
    <2>1. ASSUME NEW c \in Clients, Insert(c) \/ Replace(c) \/ Remove(c) \/ SaveHome(c)
          PROVE  Entitled(d)'
      <3>1. Committed(c) /\ pc[c] # "idle"
        BY <2>1 DEF Insert, Replace, Remove, SaveHome
      <3>2. CASE d = c
        BY <2>1, <3>2, <1>3, <1>4, <1>5
      <3>3. CASE d # c
        BY <3>1, <3>3, <1>2
      <3>4. QED
        BY <3>2, <3>3
    <2>2. QED
      BY <1>1, <1>6, <1>7, <2>1 DEF Next, Answer, Fail

LEMMA Inductive == Spec => []IInv
  <1>1. Init => IInv
    <2> SUFFICES ASSUME Init PROVE IInv
      OBVIOUS
    <2>1. WellFormed(row)
      BY SharingAssumption DEF Init
    <2>2. TypeOK
      BY <2>1, SharingAssumption, Kinds DEF Init, TypeOK, WellFormed
    <2>3. QED
      BY <2>2 DEF Init, IInv, Jobs, Fresh, Creating, Checks, Answers
  <1>2. IInv /\ [Next]_vars => IInv'
    BY TypeStep, JobsStep, FreshStep, ChecksStep, AnswersStep DEF IInv
  <1>3. QED
    BY <1>1, <1>2, PTL DEF Spec

-----------------------------------------------------------------------------
(* Theorems. *)

\* Every variable keeps its type, and the references of the tables resolve: the
\* statements that create, move and delete rows respect the foreign keys.
THEOREM TypeCorrect == Spec => []TypeOK
  BY Inductive, PTL DEF IInv

\* The policy the dashboards have of their own never lets somebody see a
\* dashboard whose report the policy of the reports would refuse them: whatever
\* the tables hold, so no sequence of changes can separate the two.
THEOREM DashboardsWithinReports == Spec => []DashboardWithinReport
  <1>1. DashboardWithinReport
    BY DEF DashboardWithinReport, CanAccessDashboard, CanUseReport, CanAccessReport,
           CanAccessFolder, Owns
  <1>2. QED
    BY <1>1, PTL

\* A 403 after a commit has the two explanations the code leaves for it.
THEOREM LateRefusals == Spec => []LateRefusalExplained
  <1>1. Init => LateRefusalExplained
    BY DEF Init, LateRefusalExplained
  <1>2. ASSUME IInv, LateRefusalExplained, [Next]_vars PROVE LateRefusalExplained'
    <2>1. ASSUME NEW c \in Clients, Answer(c) PROVE LateRefusalExplained'
      <3>1. CASE late' = late
        BY <1>2, <3>1 DEF LateRefusalExplained
      <3>2. CASE /\ late' = late \cup {job[c].op} /\ ~ stale[c]
                 /\ job[c].node \in Dashboards /\ job[c].op # "delete"
                 /\ ~ CanAccessDashboard(job[c].user, job[c].node)
        <4>1. pc[c] = "committed" /\ Asked(job[c].op, job[c].user, job[c].node, job[c].new, read[c])
          BY <1>2, <2>1 DEF Answer, IInv, Jobs, JobOK
        <4>2. job[c].op \in {"create", "update", "shares"}
          BY <4>1, <3>2, Kinds DEF Asked
        <4>3. CASE job[c].op = "shares"
          BY <1>2, <3>2, <4>3 DEF LateRefusalExplained
        <4>4. CASE job[c].op \in {"create", "update"}
          <5>1. Entitled(c)
            BY <1>2, <3>2, <4>1 DEF IInv, Answers
          <5>2. CanAccessDashboard(job[c].user, job[c].node)
            BY <5>1, <3>2, <4>4 DEF Entitled, CanAccessDashboard
          <5>3. QED
            BY <5>2, <3>2
        <4>5. QED
          BY <4>2, <4>3, <4>4
      <3>3. QED
        BY <2>1, <3>1, <3>2 DEF Answer
    <2>2. CASE late' = late
      BY <1>2, <2>2 DEF LateRefusalExplained
    <2>3. QED
      <3>1. ASSUME NEW c \in Clients, Request(c) PROVE late' = late
        BY <3>1, <1>2, Requests DEF IInv, Ask
      <3>2. QED
        BY <1>2, <2>1, <2>2, <3>1 DEF Next, Insert, Begin, Replace, Remove, SaveHome,
             Committed, Fail, vars
  <1>3. QED
    BY <1>1, <1>2, Inductive, PTL DEF Spec

\* Somebody is always left to share with, and no grant outlives the sharing.
THEOREM GrantsFit == Spec => []GrantsFitModes
  <1> DEFINE Inv == IInv /\ GrantsFitModes
  <1>1. Init => GrantsFitModes
    BY SharingAssumption DEF Init, GrantsFitModes
  <1>2. ASSUME IInv, GrantsFitModes, [Next]_vars PROVE GrantsFitModes'
    <2>1. ASSUME NEW c \in Clients, Insert(c) PROVE GrantsFitModes'
      <3>1. Sharable(job[c].new) <=> job[c].new.grants # {}
        BY <1>2, <2>1 DEF IInv, Jobs, JobOK, Asked, Insert
      <3>2. QED
        BY <1>2, <2>1, <3>1, InsertRows DEF GrantsFitModes, Insert
    <2>2. ASSUME NEW c \in Clients, Replace(c) PROVE GrantsFitModes'
      <3> DEFINE n == job[c].node
                 new == job[c].new
      <3>1. /\ n \in Nodes /\ row[n] # None /\ row'[n] # None
            /\ \A i \in Nodes : i # n => row'[i] = row[i]
            /\ row'[n].grants = new.grants \cup (IF overtaken[c] THEN row[n].grants ELSE {})
            /\ row'[n].mode = IF job[c].op = "update" THEN new.mode ELSE row[n].mode
        BY <1>2, <2>2, ReplaceRows
      <3>2. /\ job[c].op \in {"update", "shares"}
            /\ job[c].op = "update" => (Sharable(new) <=> new.grants # {})
            /\ job[c].op = "shares" => new.grants # {}
        BY <1>2, <2>2 DEF Replace, IInv, Jobs, JobOK, Asked
      <3>3. raced' = IF Mixed(c) THEN raced \cup {n} ELSE raced \ {n}
        BY <2>2 DEF Replace
      <3>4. job[c].op = "shares" /\ ~ stale[c] => Sharable(row[n])
        BY <1>2, <2>2 DEF Replace, IInv, Checks, Holds, Right
      <3>5. Sharable(row'[n]) => row'[n].grants # {}
        BY <3>1, <3>2 DEF Sharable
      <3>6. ~ Mixed(c) /\ ~ Sharable(row'[n]) => row'[n].grants = {}
        BY <3>1, <3>2, <3>4 DEF Sharable, Mixed
      <3>7. QED
        BY <1>2, <3>1, <3>3, <3>5, <3>6 DEF GrantsFitModes
    <2>3. ASSUME NEW c \in Clients, Remove(c) PROVE GrantsFitModes'
      BY <1>2, <2>3, RemoveRows DEF GrantsFitModes, Remove
    <2>4. CASE UNCHANGED <<row, raced>>
      BY <1>2, <2>4 DEF GrantsFitModes
    <2>5. QED
      <3>1. ASSUME NEW c \in Clients, Request(c) PROVE UNCHANGED <<row, raced>>
        BY <3>1, <1>2, Requests DEF IInv, Ask
      <3>2. QED
        BY <1>2, <2>1, <2>2, <2>3, <2>4, <3>1 DEF Next, Begin, SaveHome, Answer, Fail, Leave, vars
  <1>3. QED
    BY <1>1, <1>2, Inductive, PTL DEF Spec

\* The home page names dashboards that exist, but for the cases named.
THEOREM HomeResolved == Spec => []HomeResolves
  <1>1. Init => HomeResolves
    BY DEF Init, HomeResolves
  <1>2. ASSUME IInv, HomeResolves, [Next]_vars PROVE HomeResolves'
    <2>1. home \subseteq Dashboards
      BY <1>2 DEF IInv, TypeOK
    <2>2. ASSUME NEW c \in Clients, Insert(c) PROVE HomeResolves'
      BY <1>2, <2>1, <2>2, InsertRows, Kinds DEF HomeResolves, Insert
    <2>3. ASSUME NEW c \in Clients, Replace(c) PROVE HomeResolves'
      <3>1. \A n \in Nodes : row[n] # None => row'[n] # None
        BY <1>2, <2>3, ReplaceRows
      <3>2. home' = home /\ orphaned' = orphaned
        BY <2>3 DEF Replace
      <3>3. QED
        BY <1>2, <2>1, <3>1, <3>2, Kinds DEF HomeResolves
    <2>4. ASSUME NEW c \in Clients, Remove(c) PROVE HomeResolves'
      <3> DEFINE n == job[c].node
                 gone == {n} \cup In(n)
      <3>1. n \in Nodes /\ \A i \in Nodes : i \notin gone => row'[i] = row[i]
        BY <1>2, <2>4, RemoveRows
      <3>2. /\ home' = home /\ pc[c] = "checked" /\ job[c].op = "delete"
            /\ orphaned' = IF stale[c] \/ n \in Folders THEN orphaned \cup gone ELSE orphaned
        BY <2>4 DEF Remove
      <3>3. CASE stale[c] \/ n \in Folders
        BY <1>2, <2>1, <3>1, <3>2, <3>3, Kinds DEF HomeResolves
      <3>4. CASE ~ stale[c] /\ n \notin Folders
        <4>1. gone = {n}
          BY <1>2, <3>4, Kinds DEF In, IInv, TypeOK, WellFormed, Items
        <4>2. n \in Dashboards => n \notin home
          BY <1>2, <3>2, <3>4 DEF IInv, Checks, Holds, Right
        <4>3. QED
          BY <1>2, <2>1, <3>1, <3>2, <3>4, <4>1, <4>2, Kinds DEF HomeResolves
      <3>5. QED
        BY <3>3, <3>4
    <2>5. ASSUME NEW c \in Clients, SaveHome(c) PROVE HomeResolves'
      <3>1. ~ stale[c] => \A d \in read[c] : row[d] # None
        BY <1>2, <2>5 DEF SaveHome, IInv, Checks, Holds, Right
      <3>2. QED
        BY <1>2, <2>5, <3>1 DEF SaveHome, HomeResolves
    <2>6. CASE UNCHANGED <<row, home, orphaned>>
      BY <1>2, <2>6 DEF HomeResolves
    <2>7. QED
      <3>1. ASSUME NEW c \in Clients, Request(c) PROVE UNCHANGED <<row, home, orphaned>>
        BY <3>1, <1>2, Requests DEF IInv, Ask
      <3>2. QED
        BY <1>2, <2>2, <2>3, <2>4, <2>5, <2>6, <3>1 DEF Next, Begin, Answer, Fail, Leave, vars
  <1>3. QED
    BY <1>1, <1>2, Inductive, PTL DEF Spec

\* The shares of a dashboard stay within its report's, but for the cases named.
THEOREM EnvelopesKept == Spec => []WithinEnvelope
  <1>1. Init => WithinEnvelope
    BY DEF Init, WithinEnvelope
  <1>2. ASSUME IInv, WithinEnvelope, [Next]_vars PROVE WithinEnvelope'
    <2>0. TypeOK /\ TypeOK'
      BY <1>2, TypeStep DEF IInv
    <2>1. ASSUME NEW c \in Clients, NEW n \in Nodes, n \in ReportFolders \cup Reports,
                 Settled(c, n), \A i \in Nodes : i # n => row'[i] = row[i]
          PROVE  WithinEnvelope'
      <3> SUFFICES ASSUME NEW d \in Dashboards \ loose', row'[d] # None
                   PROVE  Compatible(row[row[d].folder], row[d])'
        BY DEF WithinEnvelope
      <3>1. loose' = loose \cup {e \in BuiltOn(Reports) :
                            ~ (Envelope(row[e].source) \subseteq Envelope(row[e].source)')}
        BY <2>1, Kinds DEF Settled, Narrowed
      <3>2. d \in Nodes /\ d # n /\ row'[d] = row[d] /\ row[d].folder \in Nodes /\ row[d].folder # n
            /\ row[d].source \in Reports
        BY <2>0, <2>1, Kinds DEF TypeOK, WellFormed
      <3>3. row'[row[d].folder] = row[row[d].folder]
        BY <2>1, <3>2
      <3>4. d \in BuiltOn(Reports)
        BY <3>2 DEF BuiltOn
      <3>5. Envelope(row[d].source) \subseteq Envelope(row[d].source)'
        BY <3>1, <3>4
      <3>6. Compatible(row[row[d].folder], row[d])
        BY <1>2, <3>1, <3>2 DEF WithinEnvelope
      <3>7. QED
        BY <3>2, <3>3, <3>5, <3>6 DEF Compatible, Fits
    <2>2. ASSUME NEW d \in Dashboards, NEW n \in Nodes, n \in DashFolders \cup Dashboards,
                 \A i \in Nodes : i # n => row'[i] = row[i],
                 row'[d] # None, d \notin loose, d # n, row'[d].folder # n
          PROVE  Compatible(row[row[d].folder], row[d])'
      <3>1. d \in Nodes /\ row'[d] = row[d] /\ row[d].folder \in Nodes
            /\ row[d].source \in Nodes /\ row[d].source # n
            /\ row[row[d].source].folder \in Nodes /\ row[row[d].source].folder # n
        BY <2>0, <2>2, Kinds DEF TypeOK, WellFormed
      <3>2. /\ row'[row[d].folder] = row[row[d].folder] /\ row'[row[d].source] = row[row[d].source]
            /\ row'[row[row[d].source].folder] = row[row[row[d].source].folder]
        BY <2>2, <3>1
      <3>3. Compatible(row[row[d].folder], row[d])
        BY <1>2, <2>2, <3>1 DEF WithinEnvelope
      <3>4. QED
        BY <3>1, <3>2, <3>3 DEF Compatible, Fits, Envelope
    <2>8. ASSUME NEW c \in Clients, NEW n \in Dashboards, n = job[c].node,
                 pc[c] \in {"checked", "writing"}, ~ stale[c],
                 job[c].op \in {"create", "update", "shares"},
                 row'[n].grants = job[c].new.grants, row'[n].mode = job[c].new.mode,
                 row'[n].folder = job[c].new.folder, row'[n].source = job[c].new.source,
                 \A i \in Nodes : i # n => row'[i] = row[i]
          PROVE  Compatible(row[row[n].folder], row[n])'
      <3> DEFINE new == job[c].new
      <3>1. row[new.source] # None /\ Compatible(row[new.folder], new)
        BY <1>2, <2>8 DEF IInv, Checks, Holds, Right
      <3>2. new.folder \in DashFolders /\ new.source \in Reports
        BY <1>2, <2>8 DEF IInv, Jobs, JobOK, Asked
      <3>3. /\ new.folder \in Nodes /\ new.folder # n /\ new.source \in Nodes /\ new.source # n
            /\ row[new.source].folder \in Nodes /\ row[new.source].folder # n
        BY <2>0, <2>8, <3>1, <3>2, Kinds DEF TypeOK, WellFormed
      <3>4. /\ row'[new.folder] = row[new.folder] /\ row'[new.source] = row[new.source]
            /\ row'[row[new.source].folder] = row[row[new.source].folder]
        BY <2>8, <3>3
      <3>5. Envelope(row[n].source)' = Envelope(new.source)
        BY <2>8, <3>4 DEF Envelope
      <3> HIDE DEF new
      <3>6. /\ Sharable(row[new.folder]) => row[new.folder].grants \subseteq Envelope(new.source)
            /\ Sharable(new) => new.grants \subseteq Envelope(new.source)
        BY <3>1 DEF Compatible, Fits
      <3>7. QED
        BY <2>8, <3>4, <3>5, <3>6 DEF Compatible, Fits, Sharable, new
    <2>3. ASSUME NEW c \in Clients, Insert(c) PROVE WithinEnvelope'
      <3> DEFINE n == job[c].node
      <3>1. /\ n \in Nodes /\ Settled(c, n) /\ row'[n] = job[c].new
            /\ \A i \in Nodes : i # n => row'[i] = row[i]
            /\ pc[c] = "checked" /\ job[c].op = "create" /\ row[n] = None
        BY <1>2, <2>3, InsertRows DEF Insert, IInv, Fresh, Creating
      <3>2. CASE n \in ReportFolders \cup Reports
        BY <2>1, <3>1, <3>2
      <3>3. CASE n \in DashFolders
        <4>1. In(n) = {}
          BY <2>0, <3>1, <3>3, Kinds DEF In, TypeOK, WellFormed, Items
        <4>2. loose' = loose
          BY <3>1, <3>3, <4>1, Kinds DEF Settled, Checked
        <4>3. \A d \in Dashboards : row'[d] # None => d # n /\ row'[d].folder # n
          BY <2>0, <3>1, <3>3, Kinds DEF TypeOK, WellFormed
        <4>4. QED
          BY <2>2, <3>1, <3>3, <4>2, <4>3 DEF WithinEnvelope
      <3>4. CASE n \in Dashboards
        <4>1. loose' = IF stale[c] \/ overtaken[c] THEN loose \cup {n} ELSE loose \ {n}
          BY <3>1, <3>4, Kinds DEF Settled, Checked
        <4> SUFFICES ASSUME NEW d \in Dashboards \ loose', row'[d] # None
                     PROVE  Compatible(row[row[d].folder], row[d])'
          BY DEF WithinEnvelope
        <4>2. CASE d = n
          BY <2>8, <3>1, <4>1, <4>2
        <4>3. CASE d # n
          <5>1. d \notin loose /\ row'[d].folder # n
            BY <2>0, <3>4, <4>1, <4>3, Kinds DEF TypeOK, WellFormed
          <5>2. QED
            BY <2>2, <3>1, <3>4, <4>3, <5>1
        <4>4. QED
          BY <4>2, <4>3
      <3>5. QED
        BY <3>1, <3>2, <3>3, <3>4, Kinds
    <2>4. ASSUME NEW c \in Clients, Replace(c) PROVE WithinEnvelope'
      <3> DEFINE n == job[c].node
                 new == job[c].new
      <3>1. /\ n \in Nodes /\ Settled(c, n) /\ pc[c] = "writing"
            /\ \A i \in Nodes : i # n => row'[i] = row[i]
            /\ job[c].op \in {"update", "shares"}
        BY <1>2, <2>4, ReplaceRows DEF Replace, IInv, Jobs, JobOK
      <3>2. ASSUME ~ stale[c], ~ overtaken[c]
            PROVE  /\ row'[n].grants = new.grants /\ row'[n].mode = new.mode
                   /\ row'[n].folder = new.folder /\ row'[n].source = new.source
        <4>1. /\ row'[n].source = row[n].source /\ row'[n].grants = new.grants \cup {}
              /\ row'[n].mode = IF job[c].op = "update" THEN new.mode ELSE row[n].mode
              /\ row'[n].folder = IF job[c].op = "update" THEN new.folder ELSE row[n].folder
          BY <1>2, <2>4, <3>2, ReplaceRows
        <4>2. /\ new.source = row[n].source
              /\ job[c].op = "shares" => new.mode = row[n].mode /\ new.folder = row[n].folder
          BY <1>2, <3>1, <3>2 DEF IInv, Checks, Holds, Right
        <4>3. QED
          BY <3>1, <4>1, <4>2
      <3>3. CASE n \in ReportFolders \cup Reports
        BY <2>1, <3>1, <3>3
      <3>4. CASE n \in DashFolders
        <4>1. loose' = IF stale[c] \/ overtaken[c] THEN loose \cup In(n) ELSE loose \ In(n)
          BY <3>1, <3>4, Kinds DEF Settled, Checked
        <4> SUFFICES ASSUME NEW d \in Dashboards \ loose', row'[d] # None
                     PROVE  Compatible(row[row[d].folder], row[d])'
          BY DEF WithinEnvelope
        <4>2. d \in Nodes /\ d # n /\ row'[d] = row[d]
          BY <3>1, <3>4, Kinds
        <4>3. CASE row[d].folder = n
          <5>1. d \in In(n)
            BY <4>2, <4>3, Kinds DEF In
          <5>2. ~ stale[c] /\ ~ overtaken[c]
            BY <4>1, <5>1
          <5>3. Compatible(new, row[d])
            BY <1>2, <3>1, <3>4, <5>1, <5>2 DEF IInv, Checks, Holds, Right
          <5>4. /\ row[d].source \in Nodes /\ row[d].source # n
                /\ row[row[d].source].folder \in Nodes /\ row[row[d].source].folder # n
            BY <2>0, <3>4, <4>2, Kinds DEF TypeOK, WellFormed
          <5>5. /\ row'[row[d].source] = row[row[d].source]
                /\ row'[row[row[d].source].folder] = row[row[row[d].source].folder]
            BY <3>1, <5>4
          <5>6. QED
            BY <3>2, <4>2, <4>3, <5>2, <5>3, <5>5 DEF Compatible, Fits, Envelope, Sharable
        <4>4. CASE row[d].folder # n
          <5>1. d \notin loose
            BY <4>1, <4>4 DEF In
          <5>2. QED
            BY <2>2, <3>1, <3>4, <4>2, <4>4, <5>1
        <4>5. QED
          BY <4>3, <4>4
      <3>5. CASE n \in Dashboards
        <4>1. loose' = IF stale[c] \/ overtaken[c] THEN loose \cup {n} ELSE loose \ {n}
          BY <3>1, <3>5, Kinds DEF Settled, Checked
        <4> SUFFICES ASSUME NEW d \in Dashboards \ loose', row'[d] # None
                     PROVE  Compatible(row[row[d].folder], row[d])'
          BY DEF WithinEnvelope
        <4>2. CASE d = n
          <5>1. ~ stale[c] /\ ~ overtaken[c] /\ d = job[c].node
            BY <4>1, <4>2
          <5>2. QED
            BY <2>8, <3>1, <3>2, <5>1
        <4>3. CASE d # n
          <5>1. d \notin loose /\ row'[d].folder # n
            BY <2>0, <3>5, <4>1, <4>3, Kinds DEF TypeOK, WellFormed
          <5>2. QED
            BY <2>2, <3>1, <3>5, <4>3, <5>1
        <4>4. QED
          BY <4>2, <4>3
      <3>6. QED
        BY <3>1, <3>3, <3>4, <3>5, Kinds
    <2>5. ASSUME NEW c \in Clients, Remove(c) PROVE WithinEnvelope'
      <3> SUFFICES ASSUME NEW d \in Dashboards \ loose', row'[d] # None
                   PROVE  Compatible(row[row[d].folder], row[d])'
        BY DEF WithinEnvelope
      <3> DEFINE gone == {job[c].node} \cup In(job[c].node)
      <3>1. /\ \A i \in Nodes : i \notin gone => row'[i] = row[i]
            /\ \A i \in gone : row'[i] = None
            /\ {row[d].folder, row[d].source, row[row[d].source].folder} \cap gone = {}
        BY <1>2, <2>5, RemoveRows
      <3>2. d \notin gone /\ d \notin loose
        BY <2>5, <3>1 DEF Remove
      <3> HIDE DEF gone
      <3>3. d \in Nodes /\ row'[d] = row[d] /\ row[d] # None
        BY <3>1, <3>2, Kinds
      <3>4. row[d].folder \in Nodes /\ row[d].source \in Nodes /\ row[row[d].source].folder \in Nodes
        BY <2>0, <3>3, Kinds DEF TypeOK, WellFormed
      <3>5. /\ row'[row[d].folder] = row[row[d].folder] /\ row'[row[d].source] = row[row[d].source]
            /\ row'[row[row[d].source].folder] = row[row[row[d].source].folder]
        BY <3>1, <3>4
      <3>6. Compatible(row[row[d].folder], row[d])
        BY <1>2, <3>2, <3>3 DEF WithinEnvelope
      <3>7. QED
        BY <3>3, <3>5, <3>6 DEF Compatible, Fits, Envelope
    <2>6. CASE UNCHANGED <<row, loose>>
      BY <1>2, <2>6 DEF WithinEnvelope, Compatible, Fits, Envelope
    <2>7. QED
      <3>1. ASSUME NEW c \in Clients, Request(c) PROVE UNCHANGED <<row, loose>>
        BY <3>1, <1>2, Requests DEF IInv, Ask
      <3>2. QED
        BY <1>2, <2>3, <2>4, <2>5, <2>6, <3>1 DEF Next, Begin, SaveHome, Answer, Fail, Leave, vars
  <1>3. QED
    BY <1>1, <1>2, Inductive, PTL DEF Spec
=============================================================================
