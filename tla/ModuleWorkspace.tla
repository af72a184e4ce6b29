--------------------------- MODULE ModuleWorkspace ---------------------------
(***************************************************************************)
(* The workspace of reports, or of dashboards, in the browser              *)
(* (src/frontend/src/features/reports and dashboards): a page that follows *)
(* its URL, and asks the server for the folders, for what the URL names,   *)
(* and for runs of a report or dashboard.                                  *)
(*                                                                         *)
(* Answers come in any order, or fail, while the user follows links,       *)
(* switches between running and editing, saves and deletes.  An action is  *)
(* a callback with the renders and effects it leads to; a navigation takes *)
(* effect later, in a transition of its own.                               *)
(***************************************************************************)
EXTENDS Integers, Sequences

CONSTANTS
    Items, Folders,      \* reports or dashboards, and their folders
    FolderOf,
    Beginnings,          \* what may be there at first
    MaxActs, MaxFaults,  \* bounds of one behaviour
    None

Places == Items \cup Folders
Routes == Places \cup {"workspace", "invalid"}
Versions == 1 .. MaxActs + 1
Response(ids) == [id : ids, ver : Versions]
\* live: not cancelled.  History: late, whether something asked for later has been
\* answered; amid, whether it was asked for while the item was being saved.
Load == [id : Places, since : 0 .. MaxActs + 2, live : BOOLEAN, late : BOOLEAN]
Run == [id : Items, since : 0 .. MaxActs + 2, late : BOOLEAN, amid : BOOLEAN]
Rows == [id : Items, ver : Versions, amid : BOOLEAN]
Refresh == [since : 0 .. MaxActs, own : BOOLEAN, late : BOOLEAN]
\* What the editor holds: the definition of an item, or one begun for a new item.
Drafts == Items \cup {"new", None}
\* sent: of a saved item, what the editor held.
Action == [op : {"save", "create", "delete"}, id : Places,
           stage : {"write", "answer", "refresh"}, sent : Drafts]

ASSUME ModuleWorkspaceAssumption ==
    /\ FolderOf \in [Items -> Folders] /\ Beginnings \subseteq SUBSET Places
    /\ MaxActs \in Nat /\ MaxFaults \in Nat
    /\ Items \cap Folders = {} /\ {"workspace", "invalid", "new"} \cap Places = {}
    /\ None \notin Routes \cup {"new"} /\ None \notin Response(Places) /\ None \notin Rows
    /\ None \notin Action /\ None \notin Nat

VARIABLES
    kind,            \* "report" or "dashboard"
    stored, gone,    \* the server: last versions (0: not yet), and what was deleted
    catalog,         \* writes so far
    route, target,   \* the route shown; the one a navigation leads to
    folderData, itemData, detailLoading, detailError,
    mode,            \* editorMode
    draft,           \* reportDraft or dashboardDraft, shared with the create dialog
    runData, runError, runLoading,
    workspace,       \* the catalogue shown beside, by its writes
    listError,       \* workspaceError
    action,          \* what actionBusy stands for
    loads, runs, refreshes,     \* requests under way
    behind,          \* history: what was last answered late
    acts, faults

server == <<stored, gone, catalog>>
detail == <<folderData, itemData, detailLoading, detailError>>
run == <<runData, runError, runLoading, runs>>
list == <<workspace, listError, refreshes>>
vars == <<kind, server, route, target, detail, mode, draft, run, list, action, loads, behind,
          acts, faults>>

Works == UNCHANGED faults
\* One bound for what the user does and what goes wrong, and one for the latter.
Fails == faults < MaxFaults /\ acts + faults < MaxActs /\ faults' = faults + 1
Acts == acts + faults < MaxActs /\ acts' = acts + 1

-----------------------------------------------------------------------------
(* Requests and answers. *)

Present(p) == stored[p] # 0 /\ p \notin gone
Since(p) == IF p \in gone THEN stored[p] + 1 ELSE stored[p]

\* What the server may have answered since it was asked.
Answers(f) == {v \in f.since .. stored[f.id] : v > 0}
Refuses(f) == ~Present(f.id)

Without(s, i) == SubSeq(s, 1, i - 1) \o SubSeq(s, i + 1, Len(s))
\* The request at i is answered: those before it are late.
Answered(s, i) ==
    Without([j \in DOMAIN s |-> IF j < i THEN [s[j] EXCEPT !.late = TRUE] ELSE s[j]], i)

Saving(p) == action # None /\ action.op = "save" /\ action.id = p
Ask(p) == Append(runs, [id |-> p, since |-> Since(p), late |-> FALSE, amid |-> Saving(p)])
Remember(what, late) == behind' = IF late THEN behind \cup {what} ELSE behind \ {what}

\* The effect that runs what the route names: it depends on the mode, on the route
\* and on the identity of the data shown.

Depends(r, d, m) == <<m, IF r \in Items THEN r ELSE None, IF d = None THEN None ELSE d.id>>

RunEffect(r, d, m) ==
    LET starts == r \in Items /\ m = "run" /\ d # None
                 /\ Depends(r, d, m) # Depends(route, itemData, mode)
    IN  /\ runs' = IF starts THEN Ask(r) ELSE runs
        /\ runLoading' = (runLoading \/ starts)

Init ==
    /\ kind \in {"report", "dashboard"}
    /\ \E there \in Beginnings :
        stored = [p \in Places |-> IF p \in there THEN 1 ELSE 0]
    /\ gone = {} /\ catalog = 0
    /\ route = "workspace" /\ target \in Routes
    /\ folderData = None /\ itemData = None /\ detailLoading = FALSE /\ detailError = FALSE
    /\ mode = "run" /\ draft = None
    /\ runData = None /\ runError = FALSE /\ runLoading = FALSE
    /\ workspace = None /\ listError = FALSE /\ action = None
    /\ loads = {} /\ runs = <<>>
    /\ refreshes = <<[since |-> 0, own |-> FALSE, late |-> FALSE]>>
    /\ behind = {}
    /\ acts = 0 /\ faults = 0

-----------------------------------------------------------------------------
(* Navigation. *)

\* A link, the address bar, the browser's history.
Follow(r) ==
    /\ Acts
    /\ target' = r
    /\ UNCHANGED <<kind, server, route, detail, mode, draft, run, list, action, loads, behind,
                   faults>>

ResetKey(r) == IF r \in Folders THEN "folder" ELSE r

\* Mutant: the effect has no cleanup.
CancelledNever(ls) == ls

\* The cleanup of the effect: the answer that is under way is not used any more.
Cancelled(ls) == {[l EXCEPT !.live = FALSE] : l \in ls}

\* The route changes: its details are cleared and asked for, and the mode is reset;
\* the run effect still sees the item that is left.
Commit ==
    /\ target # None /\ target' = None
    /\ IF target = route
       THEN UNCHANGED <<route, detail, mode, run, loads>>
       ELSE /\ route' = target
            /\ folderData' = None /\ itemData' = None /\ runData' = None
            /\ detailError' = (target = "invalid")
            /\ detailLoading' = (detailLoading \/ target \in Places)
            /\ loads' = Cancelled(loads) \cup
                  (IF target \in Places
                   THEN {[id |-> target, since |-> Since(target), live |-> TRUE,
                         late |-> FALSE]} ELSE {})
            /\ mode' = IF ResetKey(target) # ResetKey(route) THEN "run" ELSE mode
            /\ RunEffect(target, itemData, mode)
            /\ UNCHANGED runError
    /\ UNCHANGED <<kind, server, draft, list, action, behind, acts, faults>>

\* Mutant: the editor keeps a draft that is there.
ArriveBesideDraft(l) ==
    \E v \in Answers(l) :
        LET d == [id |-> l.id, ver |-> v]
        IN  /\ folderData' = IF l.id \in Folders THEN d ELSE None
            /\ itemData' = IF l.id \in Folders THEN None ELSE d
            /\ draft' = IF l.id \in Folders \/ draft # None THEN draft ELSE l.id
            /\ RunEffect(route, itemData', mode)

\* What was asked for is put on the page; an item's definition is also what is edited.
Arrive(l) ==
    \E v \in Answers(l) :
        LET d == [id |-> l.id, ver |-> v]
        IN  /\ folderData' = IF l.id \in Folders THEN d ELSE None
            /\ itemData' = IF l.id \in Folders THEN None ELSE d
            /\ draft' = IF l.id \in Folders THEN draft ELSE l.id
            /\ RunEffect(route, itemData', mode)

\* Mutant: only a success ends the loading.
LoadAnswerStuck(l) ==
    /\ loads' = loads \ {l}
    /\ IF ~l.live
       THEN Works /\ UNCHANGED <<detail, draft, runs, runLoading, behind>>
       ELSE /\ Remember("detail", l.late)
            /\ \/ /\ Works /\ Arrive(l) /\ detailLoading' = FALSE
                  /\ UNCHANGED detailError
               \/ /\ (Works /\ Refuses(l)) \/ Fails
                  /\ detailError' = TRUE
                  /\ UNCHANGED <<folderData, itemData, detailLoading, draft, runs, runLoading>>
    /\ UNCHANGED <<kind, server, route, target, mode, runData, runError, list, action, acts>>

\* The answer is dropped once the route it was asked for has been left.
LoadAnswer(l) ==
    /\ loads' = loads \ {l}
    /\ IF ~l.live
       THEN Works /\ UNCHANGED <<detail, draft, runs, runLoading, behind>>
       ELSE /\ detailLoading' = FALSE
            /\ Remember("detail", l.late)
            /\ \/ /\ Works /\ Arrive(l) /\ UNCHANGED detailError
               \/ /\ (Works /\ Refuses(l)) \/ Fails
                  /\ detailError' = TRUE
                  /\ UNCHANGED <<folderData, itemData, draft, runs, runLoading>>
    /\ UNCHANGED <<kind, server, route, target, mode, runData, runError, list, action, acts>>

-----------------------------------------------------------------------------
(* Running and editing. *)

\* currentCanWrite, for a user who may write.
CanWrite == workspace # None \/ folderData # None \/ itemData # None

\* renderContent
Shown(d) == d # None /\ ~detailLoading /\ ~detailError /\ ~listError
ItemView == route \in Items /\ Shown(itemData) /\ draft # None
FolderView == route \in Folders /\ Shown(folderData)

SwitchMode(m) ==
    /\ Acts /\ ItemView
    /\ mode' = m
    /\ RunEffect(route, itemData, m)
    /\ UNCHANGED <<kind, server, route, target, detail, draft, runData, runError, list,
                   action, loads, behind, faults>>

\* Run it again, go to the next page, or change a filter of the dashboard.
RunAgain ==
    /\ Acts /\ ItemView /\ mode = "run"
    /\ runs' = Ask(route)
    /\ runLoading' = TRUE
    /\ UNCHANGED <<kind, server, route, target, detail, mode, draft, runData, runError,
                   list, action, loads, behind, faults>>

RunFailed == runError' = TRUE /\ runData' = IF kind = "report" THEN None ELSE runData

RunAnswer(i) ==
    /\ runs' = Answered(runs, i)
    /\ runLoading' = FALSE
    /\ Remember("run", runs[i].late)
    /\ \/ /\ Works
          /\ \E v \in Answers(runs[i]) :
                runData' = [id |-> runs[i].id, ver |-> v, amid |-> runs[i].amid]
          /\ runError' = FALSE
       \/ ((Works /\ Refuses(runs[i])) \/ Fails) /\ RunFailed
    /\ UNCHANGED <<kind, server, route, target, detail, mode, draft, list, action, loads,
                   acts>>

-----------------------------------------------------------------------------
(* Saving and deleting; one at a time, the buttons are disabled meanwhile.  What *)
(* is sent is what a dialog was opened with. *)

Start(op, p) ==
    /\ Acts /\ action = None
    /\ action' = [op |-> op, id |-> p, stage |-> "write",
                  sent |-> IF op = "save" /\ p \in Items THEN draft ELSE None]
    /\ draft' = IF op = "create" /\ p \in Items THEN "new" ELSE draft
    /\ UNCHANGED <<kind, server, route, target, detail, mode, run, list, loads, behind,
                   faults>>

\* The dialog for a new item is opened, and closed without saving.
OpenCreate ==
    /\ Acts /\ ItemView /\ workspace # None
    /\ draft' = "new"
    /\ UNCHANGED <<kind, server, route, target, detail, mode, run, list, action, loads,
                   behind, faults>>

SaveExistingItem == ItemView /\ mode = "edit" /\ Start("save", itemData.id)
SaveNewItem == CanWrite /\ \E i \in Items : stored[i] = 0 /\ Start("create", i)
SaveFolder ==
    \/ FolderView /\ Start("save", folderData.id)
    \/ CanWrite /\ \E f \in Folders : stored[f] = 0 /\ Start("create", f)
RemoveCurrentItem == ItemView /\ Start("delete", itemData.id)
RemoveCurrentFolder == FolderView /\ Start("delete", folderData.id)

\* The server does it, or refuses.
Write ==
    LET p == action.id
    IN  /\ action # None /\ action.stage = "write"
        /\ \/ /\ Works /\ (action.op = "create" \/ Present(p))
              /\ stored' = IF action.op = "delete" THEN stored
                           ELSE [stored EXCEPT ![p] = @ + 1]
              /\ gone' = IF action.op = "delete" THEN gone \cup {p} ELSE gone
              /\ catalog' = catalog + 1
              /\ action' = [action EXCEPT !.stage = "answer"]
           \/ /\ (Works /\ action.op # "create" /\ ~Present(p)) \/ Fails
              /\ action' = None
              /\ UNCHANGED server
        /\ UNCHANGED <<kind, route, target, detail, mode, draft, run, list, loads, behind, acts>>

Refreshing(own) == Append(refreshes, [since |-> catalog, own |-> own, late |-> FALSE])

\* The answer of the write; then refreshWorkspace.
WriteAnswer ==
    /\ action # None /\ action.stage = "answer"
    /\ \/ /\ Works
          /\ action' = [action EXCEPT !.stage = "refresh"]
          /\ refreshes' = Refreshing(TRUE)
       \/ Fails /\ action' = None /\ UNCHANGED refreshes
    /\ UNCHANGED <<kind, server, route, target, detail, mode, draft, run, workspace,
                   listError, loads, behind, acts>>

\* Mutant: a saved item is left as it was shown.
FinishNavigating ==
    /\ action' = None
    /\ target' = IF action.op # "delete" THEN action.id
                 ELSE IF action.id \in Items THEN FolderOf[action.id] ELSE "workspace"
    /\ mode' = IF action.op = "save" THEN "run" ELSE mode
    /\ draft' = IF action.op = "delete" \/ action.id \in Folders THEN draft
                ELSE IF action.op = "create" THEN "new" ELSE action.id
    /\ RunEffect(route, itemData, mode')
    /\ UNCHANGED <<itemData, loads>>

\* Where the page goes, and what a saved item shows until then.
Finish ==
    /\ action' = None
    /\ target' = IF action.op # "delete" THEN action.id
                 ELSE IF action.id \in Items THEN FolderOf[action.id] ELSE "workspace"
    /\ draft' = IF action.op = "delete" \/ action.id \in Folders THEN draft
                ELSE IF action.op = "create" THEN "new" ELSE action.id
    /\ IF action.op = "save" /\ action.id \in Items
       THEN /\ itemData' = [id |-> action.id, ver |-> stored[action.id]]
            /\ mode' = "run"
            /\ RunEffect(route, itemData', "run")
            /\ loads' = {[l EXCEPT !.late = TRUE] : l \in loads}
       ELSE UNCHANGED <<itemData, mode, runs, runLoading, loads>>

RefreshAnswer(i) ==
    /\ refreshes' = Answered(refreshes, i)
    /\ \/ Works /\ workspace' \in refreshes[i].since .. catalog /\ listError' = FALSE
       \/ Fails /\ workspace' = None /\ listError' = TRUE
    /\ Remember("list", refreshes[i].late)
    /\ IF refreshes[i].own THEN Finish
       ELSE UNCHANGED <<action, target, itemData, mode, draft, runs, runLoading, loads>>
    /\ UNCHANGED <<kind, server, route, folderData, detailLoading, detailError, runData,
                   runError, acts>>

User ==
    \/ \E r \in Routes : Follow(r)
    \/ \E m \in {"run", "edit"} : SwitchMode(m)
    \/ RunAgain \/ OpenCreate
    \/ SaveExistingItem \/ SaveNewItem \/ SaveFolder
    \/ RemoveCurrentItem \/ RemoveCurrentFolder

Page ==
    \/ Commit
    \/ \E l \in loads : LoadAnswer(l)
    \/ \E i \in DOMAIN runs : RunAnswer(i)
    \/ Write \/ WriteAnswer
    \/ \E i \in DOMAIN refreshes : RefreshAnswer(i)

Next == User \/ Page

Spec == Init /\ [][Next]_vars

-----------------------------------------------------------------------------
(* Properties. *)

TypeOK ==
    /\ kind \in {"report", "dashboard"}
    /\ stored \in [Places -> 0 .. MaxActs + 1] /\ gone \subseteq Places
    /\ catalog \in 0 .. MaxActs
    /\ route \in Routes /\ target \in Routes \cup {None}
    /\ folderData \in Response(Folders) \cup {None} /\ itemData \in Response(Items) \cup {None}
    /\ detailLoading \in BOOLEAN /\ detailError \in BOOLEAN
    /\ mode \in {"run", "edit"} /\ draft \in Drafts
    /\ runData \in Rows \cup {None} /\ runError \in BOOLEAN /\ runLoading \in BOOLEAN
    /\ workspace \in 0 .. MaxActs \cup {None} /\ listError \in BOOLEAN
    /\ action \in Action \cup {None}
    /\ loads \subseteq Load /\ runs \in Seq(Run) /\ refreshes \in Seq(Refresh)
    /\ behind \subseteq {"detail", "run", "list"}
    /\ acts \in 0 .. MaxActs /\ faults \in 0 .. MaxFaults

\* Whatever the order of answers, saves and links, what is put on the page is the
\* folder or item its route names, or a saved item the page is on its way to; and
\* nothing of a route that is left stays (the `cancelled` flag of the effect).
DetailOfRoute ==
    [][/\ itemData' # itemData /\ itemData' # None => itemData'.id \in {route', target'}
       /\ folderData' # folderData /\ folderData' # None => folderData'.id = route'
       /\ route' # route => itemData' = None /\ folderData' = None]_vars

\* A save of an item sends that item's definition, whatever was loaded, saved or left
\* meanwhile, or one begun for a new item: the dialog for it, opened over an editor,
\* replaces its draft (openCreateReport, saveNewReport).
SavesOwnDraft ==
    action # None /\ action.op = "save" /\ action.id \in Items =>
        action.sent \in {action.id, "new"}

\* A page that names something shows it, or an error, or waits for an answer that
\* it will not drop: no spinner is left behind by the requests it cancelled.
NeverBlank ==
    target = None /\ route \in Places =>
        \/ \E l \in loads : l.live /\ l.id = route
        \/ ItemView \/ FolderView \/ (detailError /\ ~detailLoading) \/ listError

\* Nothing is under way.
Quiet == target = None /\ action = None /\ runs = <<>> /\ \A l \in loads : ~l.live

\* Once nothing is under way the rows below an item are its own, and of the
\* definition above them or a later one, unless a run was answered after one asked
\* for later, or was asked for while the item was being saved (loadRunPage has no
\* cancellation, and its effect looks at the identity of the item and at the mode).
RowsOfDefinition ==
    Quiet /\ ItemView /\ itemData.id = route /\ mode = "run" /\ "run" \notin behind =>
        \/ runError
        \/ /\ runData # None /\ runData.id = itemData.id
           /\ runData.ver >= itemData.ver \/ runData.amid

\* Once nothing is under way, and nothing failed, an item is shown as it was last
\* saved and the folders beside are listed as the last action left them, wherever
\* the user went meanwhile, unless an answer asked for before the save, or the first
\* list, came after it (saveExistingReport, refreshWorkspace).
SavedIsShown ==
    faults = 0 =>
        /\ Quiet /\ ItemView /\ "detail" \notin behind => itemData.ver = stored[itemData.id]
        /\ action = None /\ refreshes = <<>> /\ "list" \notin behind => workspace = catalog

\* What the page settles on: the item as saved, and rows of that definition.
SettlesOnStored == RowsOfDefinition /\ SavedIsShown
=============================================================================
