---------------------------- MODULE EntityPages ----------------------------
(* The pages of entities of which one is open.  They share nothing but the    *)
(* browser: a behaviour is one of EntityList or one of EntityRecord, and the  *)
(* variables of the page that is not open are None throughout.                *)
EXTENDS EntityList, EntityRecord

ASSUME EntityPagesAssumption == EntityListAssumption /\ EntityRecordAssumption

VARIABLE opened     \* "list" or "record"

listOnly == <<epoch, visited, rows, cursorHistory, recoveryKeys, requests, deletions, hasty,
              astray, pulled, returned, wanted>>
recordOnly == <<versions, exists, instance, shown, flags, loads, writes, foreign, written>>
pagesVars == <<opened, url, target, loading, error, behind, acts, faults, listOnly, recordOnly>>

NoList ==
    /\ epoch = None /\ visited = None /\ rows = None /\ cursorHistory = None
    /\ recoveryKeys = None /\ requests = None /\ deletions = None /\ hasty = None
    /\ astray = None /\ pulled = None /\ returned = None /\ wanted = None

NoRecord ==
    /\ versions = None /\ exists = None /\ instance = None /\ shown = None
    /\ submitting = None /\ deleting = None /\ updating = None
    /\ loads = None /\ writes = None /\ foreign = None /\ written = None

PagesInit ==
    \/ opened = "list" /\ ListInit /\ NoRecord
    \/ opened = "record" /\ RecordInit /\ NoList

PagesNext ==
    \/ opened = "list" /\ ListNext /\ UNCHANGED <<opened, recordOnly>>
    \/ opened = "record" /\ RecordNext /\ UNCHANGED <<opened, listOnly>>

PagesSpec == PagesInit /\ [][PagesNext]_pagesVars

\* The rows of a list are those of its URL (loadList), see RowsMatch.
RowsOfUrl == opened = "list" => RowsMatch
\* "Previous" leads back the way the user came by the list's own buttons
\* (updateSearchState), see HistoryLeads.
HistoryIsPath == opened = "list" => HistoryLeads
\* The browser ends where the user asked to go, or on the first page of that list,
\* expired cursors or not (loadList), see UserArrives and what it leaves out.
UserGoesThere == opened = "list" => UserArrives
\* A page shows the record of its route, as the user last wrote it (loadDetail, loadForm),
\* see RecordMatches.
RecordOfRoute == opened = "record" => RecordMatches
\* What is sent goes to the record whose values the user saw, if the last answer was for
\* it (onSubmit, onSelect), see WritesMatch.
WritesWhatIsSeen == opened = "record" => WritesMatch
\* A busy page has a request under way, and a form one save at a time (onSubmit), see
\* BusyWaits.
BusyHasRequest == opened = "record" => BusyWaits
=============================================================================
