------------------------- MODULE ModuleWorkspaceProofs -------------------------
(* Theorems about ModuleWorkspace: its type invariant, that what is put on the    *)
(* page is what the route names, that a page that names something shows it, waits *)
(* or says why not, that a save sends the draft of its own item, and that the     *)
(* page settles on what is stored and on rows of it, for any folders and items,   *)
(* any number of actions, and answers in any order.                               *)
EXTENDS ModuleWorkspace, TLAPS

-----------------------------------------------------------------------------
(* The inductive invariant. *)

\* Each write is an action of the user, and each version a write.
Counted ==
    /\ catalog + (IF action # None /\ action.stage = "write" THEN 1 ELSE 0) <= acts
    /\ \A p \in Places : stored[p] <= catalog + 1
    /\ action # None /\ action.stage # "write" /\ action.op # "delete" => stored[action.id] > 0

\* An action waits for at most one list, and one that ended for none.
Waited ==
    /\ \A i \in DOMAIN refreshes :
        refreshes[i].own => action # None /\ action.stage = "refresh"
    /\ \A i, j \in DOMAIN refreshes : refreshes[i].own /\ refreshes[j].own => i = j

\* The one answer that will be used is of the route, and no error hides it yet.
Awaited ==
    /\ \A l \in loads : l.live => l.id = route /\ ~detailError
    /\ \A l, m \in loads : l.live /\ m.live => l = m

\* What the editor holds belongs to the item shown.
Edited == itemData # None => draft \in {itemData.id, "new"}

\* A place is waited for, failed, or is there.
Settled ==
    route \in Places =>
        \/ \E l \in loads : l.live /\ l.id = route
        \/ /\ ~detailLoading
           /\ \/ detailError
              \/ route \in Items /\ itemData # None
              \/ route \in Folders /\ folderData # None

Inv ==
    /\ TypeOK /\ Counted /\ Waited /\ Awaited /\ Edited /\ Settled /\ SavesOwnDraft

-----------------------------------------------------------------------------
(* Sequences of requests. *)

LEMMA AnsweredRest ==
    ASSUME NEW S, NEW s \in Seq(S), NEW i \in DOMAIN s,
           \A x \in S : [x EXCEPT !.late = TRUE] \in S
    PROVE  /\ Answered(s, i) \in Seq(S)
           /\ DOMAIN Answered(s, i) = 1 .. Len(s) - 1
           /\ \A k \in 1 .. Len(s) - 1 :
                Answered(s, i)[k] = IF k < i THEN [s[k] EXCEPT !.late = TRUE] ELSE s[k + 1]
  <1> DEFINE t == [j \in DOMAIN s |-> IF j < i THEN [s[j] EXCEPT !.late = TRUE] ELSE s[j]]
  <1>1. /\ Len(s) \in Nat /\ DOMAIN s = 1 .. Len(s) /\ i \in 1 .. Len(s)
        /\ \A j \in 1 .. Len(s) : s[j] \in S
    OBVIOUS
  <1>2. t \in [1 .. Len(s) -> S]
    BY <1>1
  <1>3. t \in Seq(S) /\ Len(t) = Len(s) /\ DOMAIN t = 1 .. Len(s)
    BY <1>1, <1>2
  <1>4. \A j \in 1 .. Len(s) : t[j] = IF j < i THEN [s[j] EXCEPT !.late = TRUE] ELSE s[j]
    BY <1>1
  <1> HIDE DEF t
  <1>5. Answered(s, i) = SubSeq(t, 1, i - 1) \o SubSeq(t, i + 1, Len(t))
    BY DEF Answered, Without, t
  <1> DEFINE a == SubSeq(t, 1, i - 1)
             b == SubSeq(t, i + 1, Len(t))
  <1>6. a \in Seq(S) /\ Len(a) = i - 1 /\ \A k \in 1 .. i - 1 : a[k] = t[k]
    BY <1>1, <1>3
  <1>7. b \in Seq(S) /\ Len(b) = Len(s) - i /\ \A k \in 1 .. Len(s) - i : b[k] = t[k + i]
    BY <1>1, <1>3
  <1> HIDE DEF a, b
  <1>8. /\ a \o b \in Seq(S) /\ Len(a \o b) = Len(s) - 1
        /\ \A k \in 1 .. Len(s) - 1 : (a \o b)[k] = IF k <= i - 1 THEN a[k] ELSE b[k - (i - 1)]
    <2>1. a \o b \in Seq(S) /\ Len(a \o b) = Len(a) + Len(b)
      BY <1>6, <1>7
    <2>2. \A k \in 1 .. Len(a) + Len(b) :
            (a \o b)[k] = IF k <= Len(a) THEN a[k] ELSE b[k - Len(a)]
      BY <1>6, <1>7
    <2>3. Len(a) = i - 1 /\ Len(a) + Len(b) = Len(s) - 1
      BY <1>1, <1>6, <1>7
    <2>4. QED
      BY <2>1, <2>2, <2>3
  <1>9. Answered(s, i) = a \o b
    BY <1>5 DEF a, b
  <1>10. ASSUME NEW k \in 1 .. Len(s) - 1
         PROVE  (a \o b)[k] = IF k < i THEN [s[k] EXCEPT !.late = TRUE] ELSE s[k + 1]
    <2>1. i \in 1 .. Len(s) /\ Len(s) \in Nat
      BY <1>1
    <2>2. CASE k < i
      <3>1. k \in 1 .. i - 1 /\ k <= i - 1 /\ k \in 1 .. Len(s)
        BY <2>1, <2>2
      <3>2. (a \o b)[k] = t[k]
        BY <1>6, <1>8, <3>1
      <3>3. t[k] = [s[k] EXCEPT !.late = TRUE]
        BY <1>4, <2>2, <3>1
      <3>4. QED
        BY <2>2, <3>2, <3>3
    <2>3. CASE ~(k < i)
      <3>1. /\ k - (i - 1) \in 1 .. Len(s) - i /\ k - (i - 1) + i = k + 1
            /\ ~(k <= i - 1) /\ k + 1 \in 1 .. Len(s) /\ ~(k + 1 < i)
        BY <2>1, <2>3
      <3>2. (a \o b)[k] = b[k - (i - 1)]
        BY <1>8, <3>1
      <3>3. b[k - (i - 1)] = t[k + 1]
        BY <1>7, <3>1
      <3>4. t[k + 1] = s[k + 1]
        BY <1>4, <3>1
      <3>5. QED
        BY <2>3, <3>2, <3>3, <3>4
    <2>4. QED
      BY <2>2, <2>3
  <1>11. DOMAIN (a \o b) = 1 .. Len(s) - 1
    BY <1>8
  <1>12. QED
    BY <1>8, <1>9, <1>10, <1>11

LEMMA RequestTypes ==
    /\ \A x \in Run : [x EXCEPT !.late = TRUE] \in Run
    /\ \A x \in Refresh : [x EXCEPT !.late = TRUE] \in Refresh
    /\ \A x \in Load : /\ [x EXCEPT !.late = TRUE] \in Load
                       /\ [x EXCEPT !.live = FALSE] \in Load
  BY DEF Run, Refresh, Load

LEMMA AskType ==
    ASSUME TypeOK, NEW r \in Items
    PROVE  Ask(r) \in Seq(Run)
  <1>1. Since(r) \in 0 .. MaxActs + 2
    BY ModuleWorkspaceAssumption DEF TypeOK, Since, Places
  <1>2. [id |-> r, since |-> Since(r), late |-> FALSE, amid |-> Saving(r)] \in Run
    BY <1>1 DEF Run, Saving
  <1>3. QED
    BY <1>2 DEF Ask, TypeOK

LEMMA RunEffectType ==
    ASSUME TypeOK, NEW r, NEW d, NEW m, RunEffect(r, d, m)
    PROVE  runs' \in Seq(Run) /\ runLoading' \in BOOLEAN
  <1>1. r \in Items => Ask(r) \in Seq(Run)
    BY AskType
  <1>2. (runs' = Ask(r) /\ r \in Items) \/ runs' = runs
    BY DEF RunEffect
  <1>3. runLoading' \in BOOLEAN
    BY DEF RunEffect, TypeOK
  <1>4. QED
    BY <1>1, <1>2, <1>3 DEF TypeOK

LEMMA FaultsType ==
    ASSUME TypeOK, Works \/ Fails
    PROVE  faults' \in 0 .. MaxFaults
  BY ModuleWorkspaceAssumption DEF TypeOK, Works, Fails

LEMMA AnswersType ==
    ASSUME TypeOK, NEW f, f.id \in Places, f.since \in Nat, NEW v \in Answers(f)
    PROVE  v \in Versions
  BY ModuleWorkspaceAssumption DEF TypeOK, Answers, Versions

-----------------------------------------------------------------------------
(* What a step that leaves something alone preserves. *)

LEMMA Frames ==
    ASSUME Inv
    PROVE  /\ UNCHANGED <<stored, catalog, action>> /\ acts' \in {acts, acts + 1} => Counted'
           /\ UNCHANGED <<refreshes, action>> => Waited'
           /\ UNCHANGED <<loads, route, detailError>> => Awaited'
           /\ UNCHANGED <<itemData, draft>> => Edited'
           /\ UNCHANGED <<loads, route, detailLoading, detailError, itemData, folderData>> => Settled'
           /\ UNCHANGED action => SavesOwnDraft'
  <1> USE DEF Inv
  <1>1. UNCHANGED <<stored, catalog, action>> /\ acts' \in {acts, acts + 1} => Counted'
    BY ModuleWorkspaceAssumption DEF Counted, TypeOK
  <1>2. UNCHANGED <<refreshes, action>> => Waited'
    BY DEF Waited
  <1>3. UNCHANGED <<loads, route, detailError>> => Awaited'
    BY DEF Awaited
  <1>4. UNCHANGED <<itemData, draft>> => Edited'
    BY DEF Edited
  <1>5. UNCHANGED <<loads, route, detailLoading, detailError, itemData, folderData>> => Settled'
    BY DEF Settled
  <1>6. UNCHANGED action => SavesOwnDraft'
    BY DEF SavesOwnDraft
  <1>7. QED
    BY <1>1, <1>2, <1>3, <1>4, <1>5, <1>6

-----------------------------------------------------------------------------
(* The user. *)

LEMMA FollowInv == ASSUME Inv, NEW r \in Routes, Follow(r) PROVE Inv'
  <1>1. TypeOK'
    BY ModuleWorkspaceAssumption DEF Inv, TypeOK, Follow, Acts, server, detail, run, list
  <1>2. QED
    BY <1>1, Frames DEF Inv, Follow, Acts, server, detail, run, list

LEMMA SwitchModeInv == ASSUME Inv, NEW m \in {"run", "edit"}, SwitchMode(m) PROVE Inv'
  <1>1. runs' \in Seq(Run) /\ runLoading' \in BOOLEAN
    BY RunEffectType DEF Inv, SwitchMode
  <1>2. TypeOK'
    BY <1>1, ModuleWorkspaceAssumption DEF Inv, TypeOK, SwitchMode, Acts, server, detail, list
  <1>3. QED
    BY <1>2, Frames DEF Inv, SwitchMode, Acts, server, detail, list

LEMMA RunAgainInv == ASSUME Inv, RunAgain PROVE Inv'
  <1>1. runs' \in Seq(Run) /\ runLoading' \in BOOLEAN
    BY AskType DEF Inv, RunAgain, ItemView
  <1>2. TypeOK'
    BY <1>1, ModuleWorkspaceAssumption DEF Inv, TypeOK, RunAgain, Acts, server, detail, list
  <1>3. QED
    BY <1>2, Frames DEF Inv, RunAgain, Acts, server, detail, list

LEMMA OpenCreateInv == ASSUME Inv, OpenCreate PROVE Inv'
  <1>1. TypeOK'
    BY ModuleWorkspaceAssumption DEF Inv, TypeOK, OpenCreate, Acts, Drafts, server, detail, run, list
  <1>2. Edited'
    BY DEF Edited, OpenCreate, detail
  <1>3. QED
    BY <1>1, <1>2, Frames DEF Inv, OpenCreate, Acts, server, detail, run, list

LEMMA StartInv ==
    ASSUME Inv, NEW op \in {"save", "create", "delete"}, NEW p \in Places, Start(op, p),
           op = "save" /\ p \in Items => itemData # None /\ itemData.id = p
    PROVE  Inv'
  <1>1. action = None /\ action' = [op |-> op, id |-> p, stage |-> "write",
                                   sent |-> IF op = "save" /\ p \in Items THEN draft ELSE None]
    BY DEF Start
  <1>2. action' \in Action
    BY <1>1 DEF Inv, TypeOK, Action, Drafts
  <1>3. draft' \in {draft, "new"} /\ acts' = acts + 1 /\ acts + faults < MaxActs
    BY DEF Start, Acts
  <1>4. UNCHANGED <<kind, server, route, target, detail, mode, run, list, loads, behind, faults>>
    BY DEF Start
  <1>5. TypeOK'
    BY <1>2, <1>3, <1>4, ModuleWorkspaceAssumption
       DEF Inv, TypeOK, Drafts, server, detail, run, list
  <1>6. Counted'
    BY <1>1, <1>3, <1>4, ModuleWorkspaceAssumption DEF Inv, Counted, TypeOK, server
  <1>7. Waited'
    BY <1>1, <1>4 DEF Inv, Waited, list
  <1>8. Edited'
    BY <1>3, <1>4 DEF Inv, Edited, detail
  <1>9. SavesOwnDraft'
    BY <1>1 DEF Inv, SavesOwnDraft, Edited
  <1>10. QED
    BY <1>4, <1>5, <1>6, <1>7, <1>8, <1>9, Frames DEF Inv, detail

LEMMA UserInv == ASSUME Inv, User PROVE Inv'
  <1>1. \A p \in Items \cup Folders : p \in Places /\ (p \in Folders => p \notin Items)
    BY ModuleWorkspaceAssumption DEF Places
  <1>2. itemData # None => itemData.id \in Items
    BY DEF Inv, TypeOK, Response
  <1>3. folderData # None => folderData.id \in Folders
    BY DEF Inv, TypeOK, Response
  <1>4. CASE SaveExistingItem \/ RemoveCurrentItem
    BY <1>1, <1>2, <1>4, StartInv DEF SaveExistingItem, RemoveCurrentItem, ItemView, Shown
  <1>5. CASE SaveFolder \/ RemoveCurrentFolder
    BY <1>1, <1>3, <1>5, StartInv DEF SaveFolder, RemoveCurrentFolder, FolderView, Shown
  <1>6. CASE SaveNewItem
    BY <1>1, <1>6, StartInv DEF SaveNewItem
  <1>7. QED
    BY <1>4, <1>5, <1>6, FollowInv, SwitchModeInv, RunAgainInv, OpenCreateInv DEF User

-----------------------------------------------------------------------------
(* The page. *)

LEMMA CommitInv == ASSUME Inv, Commit PROVE Inv'
  <1>1. target \in Routes /\ target' = None
    BY DEF Inv, TypeOK, Commit
  <1>2. UNCHANGED <<kind, server, draft, list, action, behind, acts, faults>>
    BY DEF Commit
  <1>3. CASE target = route
    <2>1. UNCHANGED <<route, detail, mode, run, loads>>
      BY <1>3 DEF Commit
    <2>2. TypeOK'
      BY <1>1, <1>2, <2>1 DEF Inv, TypeOK, server, detail, run, list
    <2>3. QED
      BY <1>2, <2>1, <2>2, Frames DEF Inv, server, detail, list
  <1>4. CASE target # route
    <2> DEFINE asked == [id |-> target, since |-> Since(target), live |-> TRUE, late |-> FALSE]
    <2>1. /\ route' = target
          /\ folderData' = None /\ itemData' = None /\ runData' = None /\ runError' = runError
          /\ detailError' = (target = "invalid")
          /\ detailLoading' = (detailLoading \/ target \in Places)
          /\ loads' = Cancelled(loads) \cup (IF target \in Places THEN {asked} ELSE {})
          /\ mode' \in {"run", mode}
          /\ RunEffect(target, itemData, mode)
      BY <1>4 DEF Commit
    <2>2. target \in Places => asked \in Load
      BY ModuleWorkspaceAssumption DEF Inv, TypeOK, Load, Since
    <2>3. Cancelled(loads) \subseteq Load /\ \A l \in Cancelled(loads) : ~l.live
      <3>1. \A l \in loads : [l EXCEPT !.live = FALSE] \in Load /\ ~[l EXCEPT !.live = FALSE].live
        BY DEF Inv, TypeOK, Load
      <3>2. QED
        BY <3>1 DEF Cancelled
    <2>4. runs' \in Seq(Run) /\ runLoading' \in BOOLEAN
      BY <2>1, RunEffectType DEF Inv
    <2>5. TypeOK'
      BY <1>1, <1>2, <2>1, <2>2, <2>3, <2>4 DEF Inv, TypeOK, server, list
    <2>6. Awaited'
      <3>1. ASSUME NEW l \in loads', l.live
            PROVE  l = asked /\ target \in Places
        BY <2>1, <2>3, <3>1
      <3>2. target \in Places => target # "invalid"
        BY ModuleWorkspaceAssumption
      <3>3. asked.id = target
        OBVIOUS
      <3> HIDE DEF asked
      <3>4. \A l \in loads' : l.live => l.id = route' /\ ~detailError'
        BY <2>1, <3>1, <3>2, <3>3
      <3>5. \A l, m \in loads' : l.live /\ m.live => l = m
        BY <3>1
      <3>6. QED
        BY <3>4, <3>5 DEF Awaited
    <2>7. Edited'
      BY <2>1 DEF Edited
    <2>8. Settled'
      <3>1. asked.id = target /\ asked.live
        OBVIOUS
      <3> HIDE DEF asked
      <3>2. target \in Places => asked \in loads'
        BY <2>1
      <3>3. QED
        BY <2>1, <3>1, <3>2 DEF Settled
    <2>9. QED
      BY <1>2, <2>5, <2>6, <2>7, <2>8, Frames DEF Inv, server, list
  <1>5. QED
    BY <1>3, <1>4

LEMMA LoadAnswerInv == ASSUME Inv, NEW l \in loads, LoadAnswer(l) PROVE Inv'
  <1>1. /\ UNCHANGED <<kind, server, route, target, mode, runData, runError, list, action, acts>>
        /\ loads' = loads \ {l} /\ l \in Load
    BY DEF Inv, TypeOK, LoadAnswer
  <1>2. CASE ~l.live
    <2>1. UNCHANGED <<detail, draft, runs, runLoading, behind, faults>>
      BY <1>2 DEF LoadAnswer, Works
    <2>2. TypeOK'
      BY <1>1, <2>1 DEF Inv, TypeOK, server, detail, list
    <2>3. Awaited' /\ Settled'
      BY <1>1, <1>2, <2>1 DEF Inv, Awaited, Settled, detail
    <2>4. QED
      BY <1>1, <2>1, <2>2, <2>3, Frames DEF Inv, server, detail, list
  <1>3. CASE l.live
    <2>1. /\ detailLoading' = FALSE
          /\ behind' \subseteq {"detail", "run", "list"}
          /\ faults' \in 0 .. MaxFaults
          /\ \/ Arrive(l) /\ detailError' = detailError
             \/ /\ detailError' = TRUE
                /\ UNCHANGED <<folderData, itemData, draft, runs, runLoading>>
      <3>1. behind' \subseteq {"detail", "run", "list"}
        BY <1>3 DEF LoadAnswer, Remember, Inv, TypeOK
      <3>2. Works \/ Fails
        BY <1>3 DEF LoadAnswer
      <3>3. QED
        BY <1>3, <3>1, <3>2, FaultsType DEF LoadAnswer, Inv
    <2>2. l.id = route /\ route \in Places /\ l.since \in Nat
      BY <1>1, <1>3, ModuleWorkspaceAssumption DEF Inv, Awaited, Load
    <2>3. CASE Arrive(l) /\ detailError' = detailError
      <3>1. PICK v \in Answers(l) :
              /\ folderData' = IF l.id \in Folders THEN [id |-> l.id, ver |-> v] ELSE None
              /\ itemData' = IF l.id \in Folders THEN None ELSE [id |-> l.id, ver |-> v]
              /\ draft' = IF l.id \in Folders THEN draft ELSE l.id
              /\ RunEffect(route, itemData', mode)
        BY <2>3 DEF Arrive
      <3>2. v \in Versions
        BY <2>2, AnswersType DEF Inv
      <3>3. runs' \in Seq(Run) /\ runLoading' \in BOOLEAN
        BY <3>1, RunEffectType DEF Inv
      <3>4. /\ folderData' \in Response(Folders) \cup {None}
            /\ itemData' \in Response(Items) \cup {None}
            /\ draft' \in Drafts
        BY <2>2, <3>1, <3>2 DEF Inv, TypeOK, Response, Places, Drafts
      <3>5. TypeOK'
        BY <1>1, <2>1, <2>3, <3>3, <3>4 DEF Inv, TypeOK, server, list
      <3>6. Edited'
        BY <3>1 DEF Edited
      <3>7. route \in Folders => folderData' # None
        BY <2>2, <3>1, <3>2, ModuleWorkspaceAssumption DEF Response
      <3>8. route \notin Folders => route \in Items /\ itemData' # None
        BY <2>2, <3>1, <3>2, ModuleWorkspaceAssumption DEF Response, Places
      <3>9. Settled'
        BY <1>1, <2>1, <3>7, <3>8 DEF Settled
      <3>10. Awaited'
        BY <1>1, <1>3, <2>3 DEF Inv, Awaited
      <3>11. QED
        BY <1>1, <3>5, <3>6, <3>9, <3>10, Frames DEF Inv, server, list
    <2>4. CASE detailError' = TRUE /\ UNCHANGED <<folderData, itemData, draft, runs, runLoading>>
      <3>1. TypeOK'
        BY <1>1, <2>1, <2>4 DEF Inv, TypeOK, server, list
      <3>2. Awaited'
        BY <1>1, <1>3 DEF Inv, Awaited
      <3>3. Settled'
        BY <2>1, <2>4 DEF Settled
      <3>4. QED
        BY <1>1, <2>4, <3>1, <3>2, <3>3, Frames DEF Inv, server, list
    <2>5. QED
      BY <2>1, <2>3, <2>4
  <1>4. QED
    BY <1>2, <1>3

LEMMA RunAnswerInv == ASSUME Inv, NEW i \in DOMAIN runs, RunAnswer(i) PROVE Inv'
  <1>1. UNCHANGED <<kind, server, route, target, detail, mode, draft, list, action, loads, acts>>
    BY DEF RunAnswer
  <1>2. runs' \in Seq(Run) /\ runs[i] \in Run
    <2>1. runs \in Seq(Run)
      BY DEF Inv, TypeOK
    <2>2. Answered(runs, i) \in Seq(Run)
      BY <2>1, AnsweredRest, RequestTypes
    <2>3. QED
      BY <2>1, <2>2 DEF RunAnswer
  <1>3. runData' \in Rows \cup {None}
    <2>1. CASE \E v \in Answers(runs[i]) :
                runData' = [id |-> runs[i].id, ver |-> v, amid |-> runs[i].amid]
      <3>1. runs[i].id \in Places /\ runs[i].since \in Nat
        BY <1>2, ModuleWorkspaceAssumption DEF Run, Places
      <3>2. QED
        BY <1>2, <2>1, <3>1, AnswersType DEF Inv, Run, Rows
    <2>2. CASE RunFailed
      BY <2>2 DEF RunFailed, Inv, TypeOK
    <2>3. QED
      BY <2>1, <2>2 DEF RunAnswer
  <1>4. /\ runError' \in BOOLEAN /\ runLoading' \in BOOLEAN /\ faults' \in 0 .. MaxFaults
        /\ behind' \subseteq {"detail", "run", "list"}
    <2>1. behind' \subseteq {"detail", "run", "list"}
      BY DEF RunAnswer, Remember, Inv, TypeOK
    <2>2. Works \/ Fails
      BY DEF RunAnswer
    <2>3. runError' \in BOOLEAN /\ runLoading' = FALSE
      BY DEF RunAnswer, RunFailed
    <2>4. QED
      BY <2>1, <2>2, <2>3, FaultsType DEF Inv
  <1>5. TypeOK'
    BY <1>1, <1>2, <1>3, <1>4 DEF Inv, TypeOK, server, detail, list
  <1>6. QED
    BY <1>1, <1>5, Frames DEF Inv, server, detail, list

LEMMA WriteInv == ASSUME Inv, Write PROVE Inv'
  <1>1. /\ action \in Action /\ action # None /\ action.stage = "write" /\ action.id \in Places
        /\ UNCHANGED <<kind, route, target, detail, mode, draft, run, list, loads, behind, acts>>
    BY DEF Inv, TypeOK, Write, Action
  <1>2. faults' \in 0 .. MaxFaults
    BY FaultsType DEF Inv, Write
  <1>3. \A j \in DOMAIN refreshes : ~refreshes[j].own
    BY <1>1 DEF Inv, Waited
  <1>4. catalog \in Nat /\ acts \in Nat /\ acts <= MaxActs /\ catalog + 1 <= acts
        /\ \A p \in Places : stored[p] \in Nat /\ stored[p] <= catalog + 1
    BY <1>1, ModuleWorkspaceAssumption DEF Inv, TypeOK, Counted
  <1>5. CASE action' = None /\ UNCHANGED server
    <2>1. TypeOK'
      BY <1>1, <1>2, <1>5 DEF Inv, TypeOK, server, detail, run, list
    <2>2. Counted' /\ Waited' /\ SavesOwnDraft'
      BY <1>1, <1>3, <1>4, <1>5 DEF Counted, Waited, SavesOwnDraft, server, list
    <2>3. QED
      BY <1>1, <2>1, <2>2, Frames DEF Inv, detail
  <1>6. CASE /\ stored' = IF action.op = "delete" THEN stored
                          ELSE [stored EXCEPT ![action.id] = @ + 1]
             /\ gone' = IF action.op = "delete" THEN gone \cup {action.id} ELSE gone
             /\ catalog' = catalog + 1
             /\ action' = [action EXCEPT !.stage = "answer"]
    <2>1. /\ action' \in Action /\ action'.stage = "answer" /\ action'.op = action.op
          /\ action'.id = action.id /\ action'.sent = action.sent
      BY <1>1, <1>6 DEF Action
    <2>2. action' # None
      BY <2>1, ModuleWorkspaceAssumption
    <2>3. \A p \in Places : stored'[p] \in Nat /\ stored'[p] <= catalog' + 1
      BY <1>4, <1>6 DEF Inv, TypeOK
    <2>4. action.op # "delete" => stored'[action.id] > 0
      BY <1>1, <1>4, <1>6 DEF Inv, TypeOK
    <2>5. stored' \in [Places -> 0 .. MaxActs + 1]
      <3>1. \A p \in Places : stored'[p] \in 0 .. MaxActs + 1
        BY <1>4, <1>6, <2>3, ModuleWorkspaceAssumption
      <3>2. DOMAIN stored' = Places /\ stored' = [p \in Places |-> stored'[p]]
        <4>1. CASE action.op = "delete"
          BY <1>6, <4>1 DEF Inv, TypeOK
        <4>2. CASE action.op # "delete"
          BY <1>6, <4>2 DEF Inv, TypeOK
        <4>3. QED
          BY <4>1, <4>2
      <3>3. QED
        BY <3>1, <3>2
    <2>6. gone' \subseteq Places /\ catalog' \in 0 .. MaxActs
      BY <1>1, <1>4, <1>6, ModuleWorkspaceAssumption DEF Inv, TypeOK
    <2>7. TypeOK'
      BY <1>1, <1>2, <2>1, <2>5, <2>6 DEF Inv, TypeOK, detail, run, list
    <2>8. Counted'
      BY <1>1, <1>4, <1>6, <2>1, <2>2, <2>3, <2>4 DEF Counted
    <2>9. Waited' /\ SavesOwnDraft'
      BY <1>1, <1>3, <2>1 DEF Inv, Waited, SavesOwnDraft, list
    <2>10. QED
      BY <1>1, <2>7, <2>8, <2>9, Frames DEF Inv, detail
  <1>7. QED
    BY <1>5, <1>6 DEF Write

LEMMA WriteAnswerInv == ASSUME Inv, WriteAnswer PROVE Inv'
  <1>1. /\ action \in Action /\ action # None /\ action.stage = "answer"
        /\ UNCHANGED <<kind, server, route, target, detail, mode, draft, run, workspace,
                       listError, loads, behind, acts>>
    BY DEF Inv, TypeOK, WriteAnswer
  <1>2. faults' \in 0 .. MaxFaults
    BY FaultsType DEF Inv, WriteAnswer
  <1>3. refreshes \in Seq(Refresh) /\ \A j \in DOMAIN refreshes : ~refreshes[j].own
    BY <1>1 DEF Inv, TypeOK, Waited
  <1>4. CASE action' = None /\ UNCHANGED refreshes
    <2>1. TypeOK'
      BY <1>1, <1>2, <1>4 DEF Inv, TypeOK, server, detail, run
    <2>2. Counted' /\ Waited' /\ SavesOwnDraft'
      BY <1>1, <1>3, <1>4 DEF Inv, Counted, Waited, SavesOwnDraft, server
    <2>3. QED
      BY <1>1, <2>1, <2>2, Frames DEF Inv, detail
  <1>5. CASE action' = [action EXCEPT !.stage = "refresh"] /\ refreshes' = Refreshing(TRUE)
    <2>1. /\ action' \in Action /\ action'.stage = "refresh" /\ action'.op = action.op
          /\ action'.id = action.id /\ action'.sent = action.sent
      BY <1>1, <1>5 DEF Action
    <2>2. action' # None
      BY <2>1, ModuleWorkspaceAssumption
    <2> DEFINE asked == [since |-> catalog, own |-> TRUE, late |-> FALSE]
    <2>3. asked \in Refresh
      BY DEF Inv, TypeOK, Refresh
    <2>4. refreshes' = Append(refreshes, asked)
      BY <1>5 DEF Refreshing
    <2> HIDE DEF asked
    <2>5. /\ refreshes' \in Seq(Refresh)
          /\ \A j \in DOMAIN refreshes' : j = Len(refreshes) + 1 \/ ~refreshes'[j].own
      BY <1>3, <2>3, <2>4
    <2>6. TypeOK'
      BY <1>1, <1>2, <2>1, <2>5 DEF Inv, TypeOK, server, detail, run
    <2>7. Counted'
      BY <1>1, <2>1, <2>2 DEF Inv, Counted, server
    <2>8. Waited'
      BY <2>1, <2>2, <2>5 DEF Waited
    <2>9. SavesOwnDraft'
      BY <1>1, <2>1 DEF Inv, SavesOwnDraft
    <2>10. QED
      BY <1>1, <2>6, <2>7, <2>8, <2>9, Frames DEF Inv, detail
  <1>6. QED
    BY <1>4, <1>5 DEF WriteAnswer

LEMMA FinishInv ==
    ASSUME Inv, Finish, action \in Action, action # None, action.stage = "refresh",
           UNCHANGED <<route, folderData, detailLoading, detailError>>
    PROVE  /\ target' \in Routes \cup {None} /\ itemData' \in Response(Items) \cup {None}
           /\ mode' \in {"run", "edit"} /\ draft' \in Drafts
           /\ runs' \in Seq(Run) /\ runLoading' \in BOOLEAN /\ loads' \subseteq Load
           /\ Awaited' /\ Edited' /\ Settled'
  <1>1. action.id \in Places /\ action.op \in {"save", "create", "delete"}
    BY DEF Action
  <1>2. target' \in Routes \cup {None}
    BY <1>1, ModuleWorkspaceAssumption DEF Finish, Routes, Places
  <1>3. draft' \in Drafts /\ (action.op = "save" /\ action.id \in Items => draft' = action.id)
        /\ draft' \in {draft, "new", action.id}
    BY <1>1, ModuleWorkspaceAssumption DEF Inv, TypeOK, Finish, Drafts, Places
  <1>4. CASE action.op = "save" /\ action.id \in Items
    <2>1. /\ itemData' = [id |-> action.id, ver |-> stored[action.id]]
          /\ mode' = "run" /\ RunEffect(route, itemData', "run")
          /\ loads' = {[l EXCEPT !.late = TRUE] : l \in loads}
      BY <1>4 DEF Finish
    <2>2. itemData' \in Response(Items)
      BY <1>1, <1>4, <2>1, ModuleWorkspaceAssumption
         DEF Inv, TypeOK, Counted, Response, Versions
    <2>3. itemData' # None
      BY <2>2, ModuleWorkspaceAssumption DEF Response, Places
    <2>4. runs' \in Seq(Run) /\ runLoading' \in BOOLEAN
      BY <2>1, RunEffectType DEF Inv
    <2>5. \A l \in loads : /\ [l EXCEPT !.late = TRUE] \in Load
                           /\ [l EXCEPT !.late = TRUE].live = l.live
                           /\ [l EXCEPT !.late = TRUE].id = l.id
      BY DEF Inv, TypeOK, Load
    <2>6. loads' \subseteq Load
      BY <2>1, <2>5
    <2>7. Awaited'
      BY <2>1, <2>5 DEF Inv, Awaited
    <2>8. Edited'
      BY <1>3, <1>4, <2>1 DEF Edited
    <2>9. Settled'
      BY <2>1, <2>3, <2>5 DEF Inv, Settled
    <2>10. QED
      BY <1>2, <1>3, <2>1, <2>2, <2>4, <2>6, <2>7, <2>8, <2>9
  <1>5. CASE ~(action.op = "save" /\ action.id \in Items)
    <2>1. UNCHANGED <<itemData, mode, runs, runLoading, loads>>
      BY <1>5 DEF Finish
    <2>2. draft' \in {draft, "new"}
      BY <1>1, <1>5 DEF Finish, Places
    <2>3. Edited'
      BY <2>1, <2>2 DEF Inv, Edited
    <2>4. Awaited' /\ Settled'
      BY <2>1, Frames
    <2>5. QED
      BY <1>2, <1>3, <2>1, <2>3, <2>4 DEF Inv, TypeOK
  <1>6. QED
    BY <1>4, <1>5

LEMMA RefreshAnswerInv == ASSUME Inv, NEW i \in DOMAIN refreshes, RefreshAnswer(i) PROVE Inv'
  <1>1. /\ UNCHANGED <<kind, server, route, folderData, detailLoading, detailError, runData,
                       runError, acts>>
        /\ refreshes \in Seq(Refresh) /\ refreshes[i] \in Refresh
    BY DEF Inv, TypeOK, RefreshAnswer
  <1>2. /\ Answered(refreshes, i) \in Seq(Refresh)
        /\ DOMAIN Answered(refreshes, i) = 1 .. Len(refreshes) - 1
        /\ \A k \in 1 .. Len(refreshes) - 1 :
            Answered(refreshes, i)[k] = IF k < i THEN [refreshes[k] EXCEPT !.late = TRUE]
                                        ELSE refreshes[k + 1]
    BY <1>1, AnsweredRest, RequestTypes
  <1>3. refreshes' = Answered(refreshes, i)
    BY DEF RefreshAnswer
  <1>4. \A k \in DOMAIN refreshes' :
            \E j \in DOMAIN refreshes :
                /\ j # i /\ j = (IF k < i THEN k ELSE k + 1)
                /\ refreshes'[k].own = refreshes[j].own
    <2>1. i \in 1 .. Len(refreshes) /\ DOMAIN refreshes = 1 .. Len(refreshes) /\ Len(refreshes) \in Nat
      BY <1>1
    <2>2. \A j \in DOMAIN refreshes : [refreshes[j] EXCEPT !.late = TRUE].own = refreshes[j].own
      BY <1>1 DEF Refresh
    <2>3. ASSUME NEW k \in DOMAIN refreshes', k < i
          PROVE  k \in DOMAIN refreshes /\ refreshes'[k].own = refreshes[k].own
      <3>1. k \in DOMAIN refreshes /\ refreshes'[k] = [refreshes[k] EXCEPT !.late = TRUE]
        BY <1>2, <1>3, <2>1, <2>3
      <3>2. QED
        BY <2>2, <3>1
    <2>4. ASSUME NEW k \in DOMAIN refreshes', ~(k < i)
          PROVE  k + 1 \in DOMAIN refreshes /\ refreshes'[k].own = refreshes[k + 1].own /\ k + 1 # i
      BY <1>2, <1>3, <2>1, <2>4
    <2>5. QED
      BY <2>1, <2>3, <2>4
  <1>5. faults' \in 0 .. MaxFaults
    BY FaultsType DEF Inv, RefreshAnswer
  <1>6. workspace' \in 0 .. MaxActs \cup {None} /\ listError' \in BOOLEAN
    <2>1. refreshes[i].since \in Nat /\ catalog \in 0 .. MaxActs
      BY <1>1, ModuleWorkspaceAssumption DEF Inv, TypeOK, Refresh
    <2>2. refreshes[i].since .. catalog \subseteq 0 .. MaxActs
      BY <2>1, ModuleWorkspaceAssumption
    <2>3. QED
      BY <2>2 DEF RefreshAnswer
  <1>7. behind' \subseteq {"detail", "run", "list"}
    BY DEF Inv, TypeOK, RefreshAnswer, Remember
  <1>8. CASE refreshes[i].own
    <2>1. Finish /\ action # None /\ action \in Action /\ action.stage = "refresh" /\ action' = None
      BY <1>8 DEF Inv, TypeOK, Waited, RefreshAnswer, Finish
    <2>2. /\ target' \in Routes \cup {None} /\ itemData' \in Response(Items) \cup {None}
          /\ mode' \in {"run", "edit"} /\ draft' \in Drafts
          /\ runs' \in Seq(Run) /\ runLoading' \in BOOLEAN /\ loads' \subseteq Load
          /\ Awaited' /\ Edited' /\ Settled'
      BY <1>1, <2>1, FinishInv
    <2>3. TypeOK'
      BY <1>1, <1>2, <1>3, <1>5, <1>6, <1>7, <2>1, <2>2 DEF Inv, TypeOK, server
    <2>4. Counted'
      BY <1>1, <2>1 DEF Inv, Counted, server
    <2>5. Waited'
      BY <1>4, <1>8 DEF Inv, Waited
    <2>6. SavesOwnDraft'
      BY <2>1 DEF SavesOwnDraft
    <2>7. QED
      BY <2>2, <2>3, <2>4, <2>5, <2>6 DEF Inv
  <1>9. CASE ~refreshes[i].own
    <2>1. UNCHANGED <<action, target, itemData, mode, draft, runs, runLoading, loads>>
      BY <1>9 DEF RefreshAnswer
    <2>2. TypeOK'
      BY <1>1, <1>2, <1>3, <1>5, <1>6, <1>7, <2>1 DEF Inv, TypeOK, server
    <2>3. Waited'
      <3>1. DOMAIN refreshes = 1 .. Len(refreshes) /\ DOMAIN refreshes' = 1 .. Len(refreshes) - 1
            /\ Len(refreshes) \in Nat /\ i \in 1 .. Len(refreshes)
        BY <1>1, <1>2, <1>3
      <3>2. ASSUME NEW j \in DOMAIN refreshes', NEW k \in DOMAIN refreshes',
                   refreshes'[j].own, refreshes'[k].own
            PROVE  j = k
        <4>1. (IF j < i THEN j ELSE j + 1) = (IF k < i THEN k ELSE k + 1)
          BY <1>4, <3>2 DEF Inv, Waited
        <4>2. QED
          BY <3>1, <4>1
      <3>3. ASSUME NEW j \in DOMAIN refreshes', refreshes'[j].own
            PROVE  action' # None /\ action'.stage = "refresh"
        BY <1>4, <2>1, <3>3 DEF Inv, Waited
      <3>4. QED
        BY <3>2, <3>3 DEF Waited
    <2>4. QED
      BY <1>1, <2>1, <2>2, <2>3, Frames DEF Inv, server
  <1>10. QED
    BY <1>8, <1>9

LEMMA NextInv == ASSUME Inv, [Next]_vars PROVE Inv'
  <1>1. CASE UNCHANGED vars
    <2>1. UNCHANGED <<kind, server, route, target, detail, mode, draft, run, list, action, loads,
                      behind, acts, faults>>
      BY <1>1 DEF vars
    <2>2. TypeOK'
      BY <2>1 DEF Inv, TypeOK, server, detail, run, list
    <2>3. QED
      BY <2>1, <2>2, Frames DEF Inv, server, detail, run, list
  <1>2. CASE Page
    BY <1>2, CommitInv, LoadAnswerInv, RunAnswerInv, WriteInv, WriteAnswerInv, RefreshAnswerInv
       DEF Page
  <1>3. QED
    BY <1>1, <1>2, UserInv DEF Next

LEMMA InitInv == Init => Inv
  <1> SUFFICES ASSUME Init PROVE Inv
    OBVIOUS
  <1>1. PICK there \in Beginnings : stored = [p \in Places |-> IF p \in there THEN 1 ELSE 0]
    BY DEF Init
  <1>2. stored \in [Places -> 0 .. MaxActs + 1]
    BY <1>1, ModuleWorkspaceAssumption
  <1>3. refreshes \in Seq(Refresh) /\ DOMAIN refreshes = {1} /\ ~refreshes[1].own
    BY ModuleWorkspaceAssumption DEF Init, Refresh
  <1>4. TypeOK
    <2>1. /\ route \in Routes /\ target \in Routes /\ draft \in Drafts /\ runs \in Seq(Run)
          /\ catalog \in 0 .. MaxActs /\ acts \in 0 .. MaxActs /\ faults \in 0 .. MaxFaults
      BY ModuleWorkspaceAssumption DEF Init, Routes, Drafts
    <2>2. QED
      BY <1>2, <1>3, <2>1 DEF Init, TypeOK
  <1>5. Counted
    BY <1>1 DEF Init, Counted
  <1>6. Waited /\ Awaited /\ Edited /\ SavesOwnDraft
    BY <1>3 DEF Init, Waited, Awaited, Edited, SavesOwnDraft
  <1>7. Settled
    BY ModuleWorkspaceAssumption DEF Init, Settled
  <1>8. QED
    BY <1>4, <1>5, <1>6, <1>7 DEF Inv

LEMMA Inductive == Spec => []Inv
  BY InitInv, NextInv, PTL DEF Spec

-----------------------------------------------------------------------------
(* What the page settles on: a second invariant, over the first. *)

\* What is shown was stored, and what is created is not there before.
Stored ==
    /\ itemData # None => itemData.ver <= stored[itemData.id]
    /\ action # None /\ action.op = "create" /\ action.stage = "write" =>
        stored[action.id] = 0

\* The server has the save of this item, and the page has not been told.
Written(p) == Saving(p) /\ action.stage # "write"

\* Until an answer comes late, a request under way brings the item as it is stored,
\* and the item shown is as stored; or its save is about to be shown.
Watched ==
    /\ \A l \in loads : l.live /\ ~l.late =>
        /\ itemData = None
        /\ l.id \in Items => Answers(l) \subseteq {stored[l.id]} \/ Written(l.id)
    /\ itemData # None /\ "detail" \notin behind =>
        itemData.ver = stored[itemData.id] \/ Written(itemData.id)

\* No action waits for its list of folders.
Unlisted == action = None \/ action.stage = "write"

\* The list an action waits for is the last one asked for and has what was written;
\* after it every other one is late, and before the first write any of them will do.
Listed ==
    /\ \A i \in DOMAIN refreshes : refreshes[i].own =>
        i = Len(refreshes) /\ refreshes[i].since = catalog /\ ~refreshes[i].late
    /\ Unlisted => \A i \in DOMAIN refreshes : refreshes[i].late \/ catalog = 0
    /\ Unlisted /\ "list" \notin behind =>
        workspace = catalog \/ (catalog = 0 /\ refreshes # <<>>)

\* Rows of this version are those of the item shown, and of the one on its way.
Meets(x) == x >= itemData.ver /\ ((\E l \in loads : l.live) => x >= stored[route])
Good(amid, x) == amid = TRUE \/ (~Saving(route) /\ Meets(x))

\* An item is shown in the mode that runs it.
Running == route \in Items /\ mode = "run" /\ itemData # None /\ itemData.id = route

\* The last run asked for is good; answered, the others are late.
Pending ==
    /\ runs # <<>> /\ ~runs[Len(runs)].late /\ runs[Len(runs)].id = route
    /\ Good(runs[Len(runs)].amid, runs[Len(runs)].since)
Past ==
    /\ \A i \in DOMAIN runs : runs[i].late
    /\ \/ "run" \in behind \/ runError
       \/ runData # None /\ runData.id = route /\ Good(runData.amid, runData.ver)
RunsMeet == Running => Pending \/ Past

Settling == Stored /\ RunsMeet /\ (faults = 0 => Watched /\ Listed)

\* An action of the user, as far as these parts are concerned.
Started ==
    /\ action = None /\ UNCHANGED <<mode, runs>>
    /\ \E op \in {"save", "create", "delete"}, p \in Places :
        /\ action'.op = op /\ action'.id = p /\ action'.stage = "write"
        /\ op = "create" => stored[p] = 0
        /\ op = "save" /\ p \in Items => mode = "edit"

LEMMA UserKeeps ==
    ASSUME Inv, User
    PROVE  /\ UNCHANGED <<stored, gone, catalog, route, itemData, refreshes, workspace, loads,
                          behind, faults, runData, runError>>
           /\ \/ UNCHANGED <<action, mode, runs>> \/ Started
              \/ action' = action /\ \E m \in {"run", "edit"} : SwitchMode(m)
              \/ UNCHANGED <<action, mode>> /\ RunAgain
  <1>1. /\ itemData # None => itemData.id \in Items /\ itemData.id \in Places
        /\ folderData # None => folderData.id \in Folders /\ folderData.id \notin Items
                                /\ folderData.id \in Places
        /\ \A p \in Items \cup Folders : p \in Places
        /\ \A p \in Folders : p \notin Items
    BY ModuleWorkspaceAssumption DEF Inv, TypeOK, Response, Places
  <1>2. /\ UNCHANGED <<stored, gone, catalog, route, itemData, refreshes, workspace, loads,
                          behind, faults, runData, runError>>
    BY DEF User, Follow, SwitchMode, RunAgain, OpenCreate, SaveExistingItem, SaveNewItem,
           SaveFolder, RemoveCurrentItem, RemoveCurrentFolder, Start, server, detail, run, list
  <1>3. CASE \E r \in Routes : Follow(r)
    BY <1>2, <1>3 DEF Follow, run
  <1>4. CASE \E m \in {"run", "edit"} : SwitchMode(m)
    BY <1>2, <1>4 DEF SwitchMode
  <1>5. CASE RunAgain
    BY <1>2, <1>5 DEF RunAgain
  <1>6. CASE OpenCreate
    BY <1>2, <1>6 DEF OpenCreate, run
  <1>7. ASSUME NEW op \in {"save", "create", "delete"}, NEW p \in Places, Start(op, p),
               op = "create" => stored[p] = 0, op = "save" /\ p \in Items => mode = "edit"
        PROVE  Started
    BY <1>7 DEF Start, Started, run
  <1>8. CASE SaveExistingItem \/ RemoveCurrentItem
    <2>1. itemData.id \in Places
      BY <1>1, <1>8 DEF SaveExistingItem, RemoveCurrentItem, ItemView, Shown
    <2>2. CASE SaveExistingItem
      BY <1>2, <1>7, <2>1, <2>2 DEF SaveExistingItem
    <2>3. CASE RemoveCurrentItem
      BY <1>2, <1>7, <2>1, <2>3 DEF RemoveCurrentItem
    <2>4. QED
      BY <1>8, <2>2, <2>3
  <1>9. CASE SaveNewItem
    BY <1>1, <1>2, <1>7, <1>9 DEF SaveNewItem
  <1>10. CASE SaveFolder \/ RemoveCurrentFolder
    <2>1. CASE FolderView /\ Start("save", folderData.id)
      BY <1>1, <1>2, <1>7, <2>1 DEF FolderView, Shown
    <2>2. CASE \E f \in Folders : stored[f] = 0 /\ Start("create", f)
      BY <1>1, <1>2, <1>7, <2>2
    <2>3. CASE RemoveCurrentFolder
      BY <1>1, <1>2, <1>7, <2>3 DEF RemoveCurrentFolder, FolderView, Shown
    <2>4. QED
      BY <1>10, <2>1, <2>2, <2>3 DEF SaveFolder
  <1>11. QED
    BY <1>3, <1>4, <1>5, <1>6, <1>8, <1>9, <1>10 DEF User

\* What is sent for and answered, by name.
LEMMA Shapes ==
    ASSUME Inv
    PROVE  /\ \A l \in loads : l.id \in Places /\ l.since \in Nat /\ l.live \in BOOLEAN
                               /\ l.late \in BOOLEAN
           /\ itemData # None => /\ itemData.id \in Items /\ itemData.id \in Places
                                 /\ itemData.ver \in Nat /\ itemData.ver > 0
           /\ \A p \in Places : stored[p] \in Nat
           /\ action # None => /\ action \in Action /\ action.id \in Places
                               /\ action.op \in {"save", "create", "delete"}
           /\ \A p \in Items : p \in Places
  BY ModuleWorkspaceAssumption DEF Inv, TypeOK, Load, Response, Places, Versions, Action

\* A write the server accepts, and one it does not.
LEMMA WriteSteps ==
    ASSUME Inv, Write
    PROVE  /\ action # None /\ action.stage = "write"
           /\ UNCHANGED <<route, itemData, mode, runs, runData, runError, refreshes, workspace,
                          loads, behind>>
           /\ \/ action' = None /\ UNCHANGED <<stored, catalog>>
              \/ /\ action' # None /\ action'.op = action.op /\ action'.id = action.id
                 /\ action'.stage = "answer" /\ catalog' = catalog + 1
                 /\ stored' \in [Places -> Nat]
                 /\ \A p \in Places : stored'[p] =
                        IF action.op # "delete" /\ p = action.id THEN stored[p] + 1 ELSE stored[p]
  <1>1. /\ action # None /\ action.stage = "write"
        /\ UNCHANGED <<route, itemData, mode, runs, runData, runError, refreshes, workspace,
                       loads, behind>>
    BY DEF Write, detail, run, list
  <1>2. CASE action' = None /\ UNCHANGED server
    BY <1>1, <1>2 DEF server
  <1>3. CASE /\ stored' = IF action.op = "delete" THEN stored
                          ELSE [stored EXCEPT ![action.id] = @ + 1]
             /\ catalog' = catalog + 1
             /\ action' = [action EXCEPT !.stage = "answer"]
    <2>1. action \in Action /\ action.id \in Places
      BY <1>1, Shapes
    <2>2. /\ action' \in Action /\ action'.op = action.op /\ action'.id = action.id
          /\ action'.stage = "answer"
      BY <1>3, <2>1 DEF Action
    <2>3. action' # None
      BY <2>2, ModuleWorkspaceAssumption
    <2>4. /\ stored' \in [Places -> Nat]
          /\ \A p \in Places : stored'[p] =
                IF action.op # "delete" /\ p = action.id THEN stored[p] + 1 ELSE stored[p]
      <3>1. stored \in [Places -> Nat]
        BY ModuleWorkspaceAssumption DEF Inv, TypeOK
      <3>2. QED
        BY <1>3, <2>1, <3>1
    <2>5. QED
      BY <1>1, <1>3, <2>2, <2>3, <2>4
  <1>4. QED
    BY <1>2, <1>3 DEF Write

LEMMA WriteAnswerSteps ==
    ASSUME Inv, WriteAnswer
    PROVE  /\ action # None /\ action.stage = "answer"
           /\ UNCHANGED <<stored, catalog, route, itemData, mode, runs, runData, runError,
                          workspace, loads, behind>>
           /\ \/ action' = None /\ UNCHANGED refreshes /\ faults' = faults + 1
              \/ /\ action' # None /\ action'.op = action.op /\ action'.id = action.id
                 /\ action'.stage = "refresh" /\ refreshes' = Refreshing(TRUE)
  <1>1. /\ action # None /\ action.stage = "answer"
        /\ UNCHANGED <<stored, catalog, route, itemData, mode, runs, runData, runError,
                       workspace, loads, behind>>
    BY DEF WriteAnswer, detail, run, server
  <1>2. CASE action' = None /\ UNCHANGED refreshes /\ Fails
    BY <1>1, <1>2 DEF Fails
  <1>3. CASE action' = [action EXCEPT !.stage = "refresh"] /\ refreshes' = Refreshing(TRUE)
    <2>1. action \in Action
      BY <1>1, Shapes
    <2>2. /\ action' \in Action /\ action'.op = action.op /\ action'.id = action.id
          /\ action'.stage = "refresh"
      BY <1>3, <2>1 DEF Action
    <2>3. QED
      BY <1>1, <1>3, <2>2, ModuleWorkspaceAssumption
  <1>4. QED
    BY <1>2, <1>3 DEF WriteAnswer

LEMMA FinishSteps ==
    ASSUME Inv, NEW i \in DOMAIN refreshes, RefreshAnswer(i)
    PROVE  /\ UNCHANGED <<stored, catalog, route, runData, runError>>
           /\ refreshes' = Answered(refreshes, i)
           /\ ("detail" \in behind') = ("detail" \in behind)
           /\ ("run" \in behind') = ("run" \in behind)
           /\ \/ /\ ~refreshes[i].own /\ UNCHANGED <<action, itemData, mode, runs, loads>>
              \/ /\ refreshes[i].own /\ action' = None /\ action # None /\ action.stage = "refresh"
                 /\ \/ /\ ~(action.op = "save" /\ action.id \in Items)
                       /\ UNCHANGED <<itemData, mode, runs, loads>>
                    \/ /\ action.op = "save" /\ action.id \in Items
                       /\ itemData' = [id |-> action.id, ver |-> stored[action.id]]
                       /\ itemData' # None
                       /\ mode' = "run" /\ RunEffect(route, itemData', "run")
                       /\ loads' = {[l EXCEPT !.late = TRUE] : l \in loads}
  <1>1. /\ UNCHANGED <<stored, catalog, route, runData, runError>>
        /\ refreshes' = Answered(refreshes, i)
        /\ ("detail" \in behind') = ("detail" \in behind)
        /\ ("run" \in behind') = ("run" \in behind)
    BY DEF RefreshAnswer, Remember, server
  <1>2. CASE ~refreshes[i].own
    BY <1>1, <1>2 DEF RefreshAnswer
  <1>3. CASE refreshes[i].own
    <2>1. Finish /\ action # None /\ action.stage = "refresh" /\ action.id \in Places
      BY <1>3, Shapes DEF RefreshAnswer, Inv, Waited
    <2>2. CASE ~(action.op = "save" /\ action.id \in Items)
      BY <1>1, <1>3, <2>1, <2>2 DEF Finish
    <2>3. CASE action.op = "save" /\ action.id \in Items
      <3>1. itemData' = [id |-> action.id, ver |-> stored[action.id]]
        BY <2>1, <2>3 DEF Finish
      <3>2. stored[action.id] \in Versions
        BY <2>1, <2>3, ModuleWorkspaceAssumption DEF Inv, TypeOK, Counted, Versions
      <3>3. itemData' \in Response(Places)
        BY <2>1, <3>1, <3>2 DEF Response
      <3>4. itemData' # None
        BY <3>3, ModuleWorkspaceAssumption
      <3>5. QED
        BY <1>1, <1>3, <2>1, <2>3, <3>1, <3>4 DEF Finish
    <2>4. QED
      BY <2>2, <2>3
  <1>4. QED
    BY <1>2, <1>3

\* An answer that is used is that of the route, and no other is awaited.
LEMMA LoadSteps ==
    ASSUME Inv, NEW l \in loads, LoadAnswer(l)
    PROVE  /\ UNCHANGED <<stored, catalog, route, mode, runData, runError, refreshes, workspace,
                          action>>
           /\ loads' = loads \ {l}
           /\ ("list" \in behind') = ("list" \in behind)
           /\ ("run" \in behind') = ("run" \in behind)
           /\ \/ ~l.live /\ UNCHANGED <<itemData, runs, behind>>
              \/ /\ l.live /\ l.id = route /\ \A m \in loads' : ~m.live
                 /\ ("detail" \in behind') = l.late
                 /\ \/ UNCHANGED <<itemData, runs>>
                    \/ /\ itemData' = None
                    \/ \E v \in Answers(l) :
                        /\ l.id \in Items
                        /\ itemData' = [id |-> l.id, ver |-> v]
                        /\ RunEffect(route, itemData', mode)
  <1>1. /\ UNCHANGED <<stored, catalog, route, mode, runData, runError, refreshes, workspace,
                       action>>
        /\ loads' = loads \ {l}
    BY DEF LoadAnswer, server, list
  <1>2. CASE ~l.live
    BY <1>1, <1>2 DEF LoadAnswer, detail
  <1>3. CASE l.live
    <2>1. l.id = route /\ \A m \in loads' : ~m.live
      BY <1>1, <1>3 DEF Inv, Awaited
    <2>2. /\ ("list" \in behind') = ("list" \in behind)
          /\ ("run" \in behind') = ("run" \in behind)
          /\ ("detail" \in behind') = l.late
      <3>1. l.late \in BOOLEAN /\ behind' = IF l.late THEN behind \cup {"detail"}
                                            ELSE behind \ {"detail"}
        BY <1>3, Shapes DEF LoadAnswer, Remember
      <3>2. QED
        BY <3>1
    <2>3. CASE UNCHANGED <<itemData, runs>>
      BY <1>1, <1>3, <2>1, <2>2, <2>3
    <2>4. CASE Arrive(l)
      <3>1. PICK v \in Answers(l) :
              /\ itemData' = IF l.id \in Folders THEN None ELSE [id |-> l.id, ver |-> v]
              /\ RunEffect(route, itemData', mode)
        BY <2>4 DEF Arrive
      <3>2. l.id \in Folders \/ l.id \in Items
        BY Shapes DEF Places
      <3>3. QED
        BY <1>1, <1>3, <2>1, <2>2, <3>1, <3>2
    <2>5. QED
      BY <1>3, <2>3, <2>4 DEF LoadAnswer
  <1>4. QED
    BY <1>2, <1>3

LEMMA CommitSteps ==
    ASSUME Inv, Commit
    PROVE  /\ UNCHANGED <<stored, catalog, action, refreshes, workspace, behind, runError, faults>>
           /\ \/ UNCHANGED <<route, itemData, mode, runData, runs, loads>>
              \/ /\ itemData' = None /\ target \in Routes
                 /\ loads' = Cancelled(loads) \cup
                      (IF target \in Places
                       THEN {[id |-> target, since |-> Since(target), live |-> TRUE,
                              late |-> FALSE]} ELSE {})
  BY DEF Commit, server, list, detail, run, Inv, TypeOK

LEMMA RunSteps ==
    ASSUME Inv, NEW i \in DOMAIN runs, RunAnswer(i)
    PROVE  /\ UNCHANGED <<stored, catalog, route, itemData, mode, refreshes, workspace, action,
                          loads>>
           /\ runs' = Answered(runs, i)
           /\ ("list" \in behind') = ("list" \in behind)
           /\ ("detail" \in behind') = ("detail" \in behind)
           /\ runs[i].late => "run" \in behind'
  BY DEF RunAnswer, Remember, server, list, detail

-----------------------------------------------------------------------------
LEMMA StoredStep == ASSUME Inv, Stored, [Next]_vars PROVE Stored'
  <1> USE DEF Stored
  <1>1. CASE UNCHANGED <<stored, itemData, action>>
    BY <1>1
  <1>2. CASE User
    <2>1. UNCHANGED <<stored, itemData>> /\ (action' = action \/ Started)
      BY <1>2, UserKeeps
    <2>2. QED
      BY <2>1 DEF Started
  <1>3. CASE Commit
    BY <1>3, CommitSteps
  <1>4. ASSUME NEW l \in loads, LoadAnswer(l) PROVE Stored'
    <2>1. \A v \in Answers(l) : v <= stored[l.id]
      BY Shapes DEF Answers
    <2>2. UNCHANGED <<stored, action>>
      BY <1>4, LoadSteps
    <2>3. \/ itemData' = itemData \/ itemData' = None
          \/ \E v \in Answers(l) : itemData' = [id |-> l.id, ver |-> v]
      BY <1>4, LoadSteps
    <2>4. QED
      BY <2>1, <2>2, <2>3
  <1>5. ASSUME NEW i \in DOMAIN runs, RunAnswer(i) PROVE Stored'
    BY <1>5, RunSteps
  <1>6. CASE Write
    <2>1. itemData' = itemData /\ (action' = None \/ action'.stage = "answer")
      BY <1>6, WriteSteps
    <2>2. \A p \in Places : stored'[p] \in Nat /\ stored'[p] >= stored[p]
      BY <1>6, WriteSteps, Shapes
    <2>3. QED
      BY <2>1, <2>2, Shapes
  <1>7. CASE WriteAnswer
    BY <1>7, WriteAnswerSteps
  <1>8. ASSUME NEW i \in DOMAIN refreshes, RefreshAnswer(i) PROVE Stored'
    <2>1. stored' = stored /\ (action' = action \/ action' = None)
      BY <1>8, FinishSteps
    <2>2. \/ itemData' = itemData
          \/ /\ action.id \in Items /\ itemData' = [id |-> action.id, ver |-> stored[action.id]]
      BY <1>8, FinishSteps
    <2>3. QED
      BY <2>1, <2>2, Shapes
  <1>9. UNCHANGED vars => UNCHANGED <<stored, itemData, action>>
    BY DEF vars, server, detail
  <1>10. QED
    BY <1>1, <1>2, <1>3, <1>4, <1>5, <1>6, <1>7, <1>8, <1>9 DEF Next, Page

LEMMA WatchedStep ==
    ASSUME Inv, Stored, Watched, [Next]_vars, faults' = 0, faults = 0
    PROVE  Watched'
  <1>1. ASSUME UNCHANGED <<stored, itemData, loads>>,
               \A p \in Items : Written(p) => Written(p)',
               "detail" \in behind => "detail" \in behind'
        PROVE  Watched'
    <2>1. \A l \in loads : Answers(l)' = Answers(l)
      BY <1>1 DEF Answers
    <2>2. QED
      BY <1>1, <2>1, Shapes DEF Watched
  <1>2. UNCHANGED action => \A p \in Items : Written(p) => Written(p)'
    BY DEF Written, Saving
  <1>3. CASE User
    <2>1. \A p \in Items : Written(p) => Written(p)'
      BY <1>2, <1>3, UserKeeps DEF Started, Written, Saving
    <2>2. QED
      BY <1>1, <1>3, <2>1, UserKeeps
  <1>4. CASE Commit
    <2>1. CASE UNCHANGED <<route, itemData, mode, runData, runs, loads>>
      BY <1>1, <1>2, <1>4, <2>1, CommitSteps
    <2>2. CASE /\ itemData' = None /\ target \in Routes
               /\ loads' = Cancelled(loads) \cup
                      (IF target \in Places
                       THEN {[id |-> target, since |-> Since(target), live |-> TRUE,
                              late |-> FALSE]} ELSE {})
      <3>0. PICK asked : asked = [id |-> target, since |-> Since(target), live |-> TRUE,
                                  late |-> FALSE]
        OBVIOUS
      <3>1. \A l \in Cancelled(loads) : ~l.live
        <4>1. \A l \in loads : ~[l EXCEPT !.live = FALSE].live
          BY DEF Inv, TypeOK, Load
        <4>2. QED
          BY <4>1 DEF Cancelled
      <3>2. stored' = stored
        BY <1>4, CommitSteps
      <3>3. target \in Places => Answers(asked)' \subseteq {stored'[target]}
        <4>1. /\ target \in Places => stored[target] \in Nat /\ Since(target) >= stored[target]
              /\ target \in Places => Since(target) \in Nat
          BY Shapes DEF Since
        <4>2. asked.id = target /\ asked.since = Since(target)
          BY <3>0
        <4>3. Answers(asked)' = {v \in Since(target) .. stored[target] : v > 0}
          BY <3>2, <4>2 DEF Answers
        <4>4. QED
          BY <3>2, <4>1, <4>3
      <3>4. asked.id = target
        BY <3>0
      <3>5. \A l \in loads' : l.live => l = asked /\ target \in Places
        BY <2>2, <3>0, <3>1
      <3>6. QED
        BY <2>2, <3>3, <3>4, <3>5 DEF Watched
    <2>3. QED
      BY <1>4, <2>1, <2>2, CommitSteps
  <1>5. ASSUME NEW l \in loads, LoadAnswer(l) PROVE Watched'
    <2>1. /\ UNCHANGED <<stored, action>> /\ loads' = loads \ {l}
          /\ \A p \in Items : Written(p) => Written(p)'
      BY <1>2, <1>5, LoadSteps
    <2>2. \A m \in loads : Answers(m)' = Answers(m)
      BY <2>1 DEF Answers
    <2>3. CASE ~l.live /\ UNCHANGED <<itemData, runs, behind>>
      BY <2>1, <2>2, <2>3, Shapes DEF Watched
    <2>4. CASE /\ l.live /\ l.id = route /\ \A m \in loads' : ~m.live
               /\ ("detail" \in behind') = l.late
      <3>1. CASE UNCHANGED <<itemData, runs>>
        BY <2>1, <2>4, <3>1, Shapes DEF Watched
      <3>2. CASE itemData' = None
        BY <2>4, <3>2 DEF Watched
      <3>3. ASSUME NEW v \in Answers(l), l.id \in Items, itemData' = [id |-> l.id, ver |-> v]
            PROVE  Watched'
        BY <2>1, <2>4, <3>3 DEF Watched
      <3>4. QED
        BY <1>5, <2>4, <3>1, <3>2, <3>3, LoadSteps
    <2>5. QED
      BY <1>5, <2>3, <2>4, LoadSteps
  <1>6. ASSUME NEW i \in DOMAIN runs, RunAnswer(i) PROVE Watched'
    BY <1>1, <1>2, <1>6, RunSteps
  <1>7. CASE Write
    <2>1. /\ UNCHANGED <<itemData, loads, behind>> /\ action # None /\ action.stage = "write"
          /\ \A p : ~Written(p)
      BY <1>7, WriteSteps DEF Written
    <2>2. CASE action' = None /\ UNCHANGED <<stored, catalog>>
      BY <1>1, <2>1, <2>2
    <2>3. CASE /\ action' # None /\ action'.op = action.op /\ action'.id = action.id
               /\ action'.stage = "answer"
               /\ stored' \in [Places -> Nat]
               /\ \A p \in Places : stored'[p] =
                    IF action.op # "delete" /\ p = action.id THEN stored[p] + 1 ELSE stored[p]
      <3>1. ASSUME NEW p \in Items, stored'[p] # stored[p]
            PROVE  Written(p)' \/ (stored[p] = 0 /\ stored'[p] = 1)
        <4>1. p = action.id /\ action.op # "delete" /\ stored'[p] = stored[p] + 1
          BY <2>3, <3>1, Shapes
        <4>2. CASE action.op = "save"
          BY <2>3, <4>1, <4>2 DEF Written, Saving
        <4>3. CASE action.op = "create"
          BY <2>1, <4>1, <4>3, Shapes DEF Stored
        <4>4. QED
          BY <2>1, <4>1, <4>2, <4>3, Shapes
      <3>2. ASSUME NEW l \in loads, l.live, ~l.late, l.id \in Items
            PROVE  Answers(l)' \subseteq {stored'[l.id]} \/ Written(l.id)'
        <4>1. Answers(l) \subseteq {stored[l.id]}
          BY <2>1, <3>2 DEF Watched
        <4>2. Answers(l)' = {v \in l.since .. stored'[l.id] : v > 0}
          BY DEF Answers
        <4>3. CASE stored'[l.id] = stored[l.id]
          BY <4>1, <4>2, <4>3 DEF Answers
        <4>4. CASE stored'[l.id] = 1
          BY <4>2, <4>4, Shapes
        <4>5. QED
          BY <3>1, <3>2, <4>3, <4>4
      <3>3. ASSUME itemData # None, "detail" \notin behind
            PROVE  itemData.ver = stored'[itemData.id] \/ Written(itemData.id)'
        <4>1. itemData.ver = stored[itemData.id] /\ stored[itemData.id] # 0
          BY <2>1, <3>3, Shapes DEF Watched
        <4>2. itemData' = itemData /\ itemData.id \in Items
          BY <2>1, <3>3, Shapes
        <4>3. QED
          BY <3>1, <4>1, <4>2 DEF Written, Saving
      <3>4. \A l \in loads : l.live /\ ~l.late => itemData = None
        BY DEF Watched
      <3>5. QED
        BY <2>1, <3>2, <3>3, <3>4 DEF Watched
    <2>4. QED
      BY <1>7, <2>2, <2>3, WriteSteps
  <1>8. CASE WriteAnswer
    <2>1. action' # None /\ action'.op = action.op /\ action'.id = action.id
          /\ action'.stage = "refresh"
      BY <1>8, WriteAnswerSteps
    <2>2. \A p \in Items : Written(p) => Written(p)'
      BY <2>1 DEF Written, Saving
    <2>3. QED
      BY <1>1, <1>8, <2>2, WriteAnswerSteps
  <1>9. ASSUME NEW i \in DOMAIN refreshes, RefreshAnswer(i) PROVE Watched'
    <2>1. stored' = stored /\ ("detail" \in behind') = ("detail" \in behind)
      BY <1>9, FinishSteps
    <2>2. CASE UNCHANGED <<action, itemData, mode, runs, loads>>
      BY <1>1, <1>2, <2>1, <2>2
    <2>3. CASE /\ ~(action.op = "save" /\ action.id \in Items)
               /\ UNCHANGED <<itemData, mode, runs, loads>>
      <3>1. \A p \in Items : ~Written(p)
        BY <2>3 DEF Written, Saving
      <3>2. QED
        BY <1>1, <2>1, <2>3, <3>1
    <2>4. CASE /\ action.op = "save" /\ action.id \in Items
               /\ itemData' = [id |-> action.id, ver |-> stored[action.id]]
               /\ loads' = {[l EXCEPT !.late = TRUE] : l \in loads}
      <3>1. \A l \in loads' : l.late
        <4>1. \A l \in loads : [l EXCEPT !.late = TRUE].late
          BY DEF Inv, TypeOK, Load
        <4>2. QED
          BY <2>4, <4>1
      <3>2. QED
        BY <2>1, <2>4, <3>1 DEF Watched
    <2>5. QED
      BY <1>9, <2>2, <2>3, <2>4, FinishSteps
  <1>10. UNCHANGED vars => UNCHANGED <<stored, itemData, loads, behind, action>>
    BY DEF vars, server, detail
  <1>11. QED
    BY <1>1, <1>2, <1>3, <1>4, <1>5, <1>6, <1>7, <1>8, <1>9, <1>10 DEF Next, Page

LEMMA ListedStep ==
    ASSUME Inv, Listed, [Next]_vars, faults' = 0, faults = 0
    PROVE  Listed'
  <1>1. ASSUME UNCHANGED <<catalog, refreshes, workspace>>,
               Unlisted' => Unlisted, "list" \in behind => "list" \in behind'
        PROVE  Listed'
    BY <1>1 DEF Listed
  <1>2. UNCHANGED action => Unlisted' = Unlisted
    BY DEF Unlisted
  <1>3. CASE User
    BY <1>1, <1>2, <1>3, UserKeeps DEF Started, Unlisted
  <1>4. CASE Commit
    BY <1>1, <1>2, <1>4, CommitSteps
  <1>5. ASSUME NEW l \in loads, LoadAnswer(l) PROVE Listed'
    BY <1>1, <1>2, <1>5, LoadSteps
  <1>6. ASSUME NEW i \in DOMAIN runs, RunAnswer(i) PROVE Listed'
    BY <1>1, <1>2, <1>6, RunSteps
  <1>7. CASE Write
    <2>1. /\ UNCHANGED <<refreshes, workspace, behind>> /\ action # None
          /\ action.stage = "write"
      BY <1>7, WriteSteps
    <2>2. \A j \in DOMAIN refreshes : ~refreshes[j].own
      BY <2>1 DEF Inv, Waited
    <2>3. CASE action' = None /\ UNCHANGED <<stored, catalog>>
      BY <1>1, <2>1, <2>3 DEF Unlisted
    <2>4. CASE action' # None /\ action'.stage = "answer"
      BY <2>1, <2>2, <2>4 DEF Listed, Unlisted
    <2>5. QED
      BY <1>7, <2>3, <2>4, WriteSteps
  <1>8. CASE WriteAnswer
    <2>1. /\ action' # None /\ action'.stage = "refresh" /\ catalog' = catalog
          /\ refreshes' = Refreshing(TRUE) /\ action.stage = "answer"
      BY <1>8, WriteAnswerSteps
    <2>2. refreshes \in Seq(Refresh) /\ \A j \in DOMAIN refreshes : ~refreshes[j].own
      BY <2>1 DEF Inv, TypeOK, Waited
    <2> DEFINE asked == [since |-> catalog, own |-> TRUE, late |-> FALSE]
    <2>3. asked.since = catalog /\ ~asked.late /\ asked \in Refresh
      BY DEF Inv, TypeOK, Refresh
    <2>4. refreshes' = Append(refreshes, asked)
      BY <2>1 DEF Refreshing
    <2> HIDE DEF asked
    <2>5. /\ Len(refreshes') = Len(refreshes) + 1
          /\ \A j \in DOMAIN refreshes' :
                \/ j = Len(refreshes) + 1 /\ refreshes'[j] = asked
                \/ ~refreshes'[j].own
      BY <2>2, <2>3, <2>4
    <2>6. QED
      BY <2>1, <2>3, <2>5 DEF Listed, Unlisted
  <1>9. ASSUME NEW i \in DOMAIN refreshes, RefreshAnswer(i) PROVE Listed'
    <2>0. PICK n \in Nat : n = Len(refreshes)
      BY DEF Inv, TypeOK
    <2>1. refreshes \in Seq(Refresh) /\ n \in Nat /\ DOMAIN refreshes = 1 .. n /\ i \in 1 .. n
      BY <2>0 DEF Inv, TypeOK
    <2>2. /\ refreshes' \in Seq(Refresh) /\ DOMAIN refreshes' = 1 .. n - 1 /\ Len(refreshes') = n - 1
          /\ \A k \in 1 .. n - 1 :
                refreshes'[k] = IF k < i THEN [refreshes[k] EXCEPT !.late = TRUE]
                                ELSE refreshes[k + 1]
      <3>1. refreshes' = Answered(refreshes, i)
        BY <1>9, FinishSteps
      <3>2. /\ Answered(refreshes, i) \in Seq(Refresh)
            /\ DOMAIN Answered(refreshes, i) = 1 .. n - 1
            /\ \A k \in 1 .. n - 1 :
                Answered(refreshes, i)[k] = IF k < i THEN [refreshes[k] EXCEPT !.late = TRUE]
                                            ELSE refreshes[k + 1]
        BY <2>0, <2>1, AnsweredRest, RequestTypes
      <3>3. \A s \in Seq(Refresh) : DOMAIN s = 1 .. n - 1 => Len(s) = n - 1
        BY <2>1
      <3>4. QED
        BY <3>1, <3>2, <3>3
    <2>3. \A k \in 1 .. n - 1 : k < i =>
            refreshes'[k].late /\ refreshes'[k].own = refreshes[k].own
      <3>1. \A k \in 1 .. n : /\ [refreshes[k] EXCEPT !.late = TRUE].late
                              /\ [refreshes[k] EXCEPT !.late = TRUE].own = refreshes[k].own
        BY <2>1 DEF Refresh
      <3>2. ASSUME NEW k \in 1 .. n - 1, k < i
            PROVE  refreshes'[k].late /\ refreshes'[k].own = refreshes[k].own
        <4>1. refreshes'[k] = [refreshes[k] EXCEPT !.late = TRUE] /\ k \in 1 .. n
          BY <2>1, <2>2, <3>2
        <4>2. QED
          BY <3>1, <4>1
      <3>3. QED
        BY <3>2
    <2>4. catalog' = catalog /\ catalog \in Nat /\ refreshes[i].since \in Nat
      <3>1. refreshes[i] \in Refresh
        BY <2>1
      <3>2. refreshes[i].since \in Nat
        BY <3>1, ModuleWorkspaceAssumption DEF Refresh
      <3>3. catalog \in Nat
        BY ModuleWorkspaceAssumption DEF Inv, TypeOK
      <3>4. QED
        BY <1>9, <3>2, <3>3, FinishSteps
    <2>5. workspace' \in refreshes[i].since .. catalog
      BY <1>9 DEF RefreshAnswer, Fails
    <2>6. refreshes[i].late => "list" \in behind'
      BY <1>9 DEF RefreshAnswer, Remember
    <2>7. CASE refreshes[i].own
      <3>1. action' = None /\ i = n /\ refreshes[i].since = catalog
        BY <1>9, <2>0, <2>7, FinishSteps DEF Listed
      <3>2. \A k \in 1 .. n - 1 : refreshes'[k].late /\ ~refreshes'[k].own
        <4>1. \A k \in 1 .. n - 1 : k < i /\ k \in DOMAIN refreshes /\ k # i
          BY <2>1, <3>1
        <4>2. \A k \in 1 .. n - 1 : ~refreshes[k].own
          BY <2>7, <4>1 DEF Inv, Waited
        <4>3. QED
          BY <2>3, <4>1, <4>2
      <3>3. workspace' = catalog
        BY <2>4, <2>5, <3>1
      <3>4. QED
        BY <2>2, <2>4, <3>2, <3>3 DEF Listed
    <2>8. CASE ~refreshes[i].own
      <3>1. action' = action
        BY <1>9, <2>8, FinishSteps
      <3>2. ASSUME NEW k \in 1 .. n - 1, refreshes'[k].own
            PROVE  k = n - 1 /\ refreshes'[k].since = catalog /\ ~refreshes'[k].late
        <4>1. CASE k < i
          <5>1. k \in DOMAIN refreshes /\ refreshes[k].own
            BY <2>1, <2>3, <3>2, <4>1
          <5>2. k = n
            BY <2>0, <5>1 DEF Listed
          <5>3. QED
            BY <2>1, <4>1, <5>2
        <4>2. CASE ~(k < i)
          <5>1. k + 1 \in DOMAIN refreshes /\ refreshes'[k] = refreshes[k + 1]
            BY <2>1, <2>2, <4>2
          <5>2. k + 1 = n /\ refreshes[k + 1].since = catalog /\ ~refreshes[k + 1].late
            BY <2>0, <3>2, <5>1 DEF Listed
          <5>3. QED
            BY <2>1, <5>1, <5>2
        <4>3. QED
          BY <4>1, <4>2
      <3>3. ASSUME Unlisted, NEW k \in 1 .. n - 1
            PROVE  refreshes'[k].late \/ catalog = 0
        <4>1. CASE k < i
          BY <2>3, <4>1
        <4>2. CASE ~(k < i)
          <5>1. k + 1 \in DOMAIN refreshes /\ refreshes'[k] = refreshes[k + 1]
            BY <2>1, <2>2, <4>2
          <5>2. QED
            BY <3>3, <5>1 DEF Listed
        <4>3. QED
          BY <4>1, <4>2
      <3>4. ASSUME Unlisted, "list" \notin behind'
            PROVE  workspace' = catalog
        <4>1. catalog = 0
          BY <2>6, <3>4 DEF Listed
        <4>2. QED
          BY <2>4, <2>5, <4>1
      <3>5. Unlisted' = Unlisted
        BY <1>2, <3>1
      <3>6. QED
        BY <2>2, <2>4, <3>2, <3>3, <3>4, <3>5 DEF Listed
    <2>9. QED
      BY <2>7, <2>8
  <1>10. UNCHANGED vars => UNCHANGED <<catalog, refreshes, workspace, behind, action>>
    BY DEF vars, server, list
  <1>11. QED
    BY <1>1, <1>2, <1>3, <1>4, <1>5, <1>6, <1>7, <1>8, <1>9, <1>10 DEF Next, Page

\* A run of the route asked for now is good for the item that is shown with it.
LEMMA AskMeets ==
    ASSUME Inv, Stored', route' = route, route \in Items, stored' = stored,
           itemData' # None, itemData'.id = route, itemData'.ver \in Nat,
           runs' = Ask(route), Saving(route)' => Saving(route)
    PROVE  Pending'
  <1>0. PICK asked : asked = [id |-> route, since |-> Since(route), late |-> FALSE,
                              amid |-> Saving(route)]
    OBVIOUS
  <1>1. stored[route] \in Nat /\ Since(route) \in Nat /\ Since(route) >= stored[route]
        /\ itemData'.ver <= stored[route]
    BY Shapes DEF Since, Stored
  <1>2. asked \in Run
    <2>1. Since(route) \in 0 .. MaxActs + 2
      BY Shapes, ModuleWorkspaceAssumption DEF Inv, TypeOK, Since
    <2>2. QED
      BY <1>0, <2>1 DEF Run, Saving
  <1>3. asked.id = route /\ ~asked.late /\ asked.since = Since(route)
        /\ asked.amid = Saving(route)
    BY <1>0
  <1>4. runs' = Append(runs, asked) /\ runs \in Seq(Run)
    BY <1>0 DEF Ask, Inv, TypeOK
  <1>5. runs' # <<>> /\ runs'[Len(runs')] = asked
    BY <1>2, <1>4
  <1>6. Saving(route) \in BOOLEAN
    BY DEF Saving
  <1>7. Good(asked.amid, asked.since)'
    <2>1. CASE Saving(route)
      BY <1>3, <2>1, <1>6 DEF Good
    <2>2. CASE ~Saving(route)
      <3>1. Since(route) >= itemData'.ver /\ Since(route) >= stored'[route']
        BY <1>1
      <3>2. QED
        BY <1>3, <2>2, <3>1 DEF Good, Meets
    <2>3. QED
      BY <2>1, <2>2
  <1>8. QED
    BY <1>3, <1>5, <1>7 DEF Pending

\* A run whose rows were good for the page stays good, or another one is asked for.
LEMMA RunsKept ==
    ASSUME Inv, Running' => Running, RunsMeet, UNCHANGED <<route, runs, runData, runError>>,
           "run" \in behind => "run" \in behind',
           \A amid \in BOOLEAN, x \in Nat : Running' /\ Good(amid, x) => Good(amid, x)'
    PROVE  RunsMeet'
  <1>1. SUFFICES ASSUME Running' PROVE Pending' \/ Past'
    BY DEF RunsMeet
  <1>2. runs # <<>> => /\ runs[Len(runs)].amid \in BOOLEAN /\ runs[Len(runs)].since \in Nat
    <2>1. runs # <<>> => runs[Len(runs)] \in Run
      BY DEF Inv, TypeOK
    <2>2. QED
      BY <2>1, ModuleWorkspaceAssumption DEF Run
  <1>3. runData # None => runData.amid \in BOOLEAN /\ runData.ver \in Nat
    BY ModuleWorkspaceAssumption DEF Inv, TypeOK, Rows, Versions
  <1>4. Pending => Pending'
    BY <1>1, <1>2 DEF Pending
  <1>5. Past => Past'
    BY <1>1, <1>3 DEF Past
  <1>6. QED
    BY <1>1, <1>4, <1>5 DEF RunsMeet

LEMMA RunsMeetStep == ASSUME Inv, Stored, Stored', RunsMeet, [Next]_vars PROVE RunsMeet'
  <1>1. ASSUME UNCHANGED <<route, stored, itemData, mode, loads, runs, runData, runError>>,
               \A p \in Items : Saving(p)' => Saving(p),
               "run" \in behind => "run" \in behind'
        PROVE  RunsMeet'
    <2>1. Running' = Running
      BY <1>1 DEF Running
    <2>2. \A amid \in BOOLEAN, x \in Nat : Running' /\ Good(amid, x) => Good(amid, x)'
      BY <1>1 DEF Good, Meets, Running
    <2>3. QED
      BY <1>1, <2>1, <2>2, RunsKept
  <1>2. UNCHANGED action => \A p : Saving(p)' = Saving(p)
    BY DEF Saving
  <1>3. CASE User
    <2>1. UNCHANGED <<stored, route, itemData, loads, behind, runData, runError>>
      BY <1>3, UserKeeps
    <2>2. CASE UNCHANGED <<action, mode, runs>>
      BY <1>1, <1>2, <2>1, <2>2
    <2>3. CASE Started
      <3>1. PICK op \in {"save", "create", "delete"}, p \in Places :
              /\ action'.op = op /\ action'.id = p
              /\ op = "save" /\ p \in Items => mode = "edit"
        BY <2>3 DEF Started
      <3>2. Running' => Running /\ ~Saving(route)'
        BY <2>1, <2>3, <3>1 DEF Started, Running, Saving
      <3>3. \A amid \in BOOLEAN, x \in Nat : Running' /\ Good(amid, x) => Good(amid, x)'
        BY <2>1, <3>2 DEF Good, Meets
      <3>4. QED
        BY <2>1, <2>3, <3>2, <3>3, RunsKept DEF Started
    <2>4. ASSUME NEW m \in {"run", "edit"}, SwitchMode(m), action' = action
          PROVE  RunsMeet'
      <3>1. route \in Items /\ itemData # None /\ mode' = m /\ RunEffect(route, itemData, m)
        BY <2>4 DEF SwitchMode, ItemView, Shown
      <3>2. CASE runs' = runs /\ mode' = mode
        BY <1>1, <1>2, <2>1, <2>4, <3>2
      <3>3. CASE m # mode /\ m = "run"
        <4>1. Depends(route, itemData, m) # Depends(route, itemData, mode)
          BY <3>3 DEF Depends
        <4>2. runs' = Ask(route)
          BY <3>1, <3>3, <4>1 DEF RunEffect
        <4>3. Running' => Pending'
          BY <1>2, <2>1, <2>4, <3>1, <4>2, AskMeets, Shapes DEF Running
        <4>4. QED
          BY <4>3 DEF RunsMeet
      <3>4. CASE m # "run"
        BY <3>1, <3>4 DEF RunsMeet, Running
      <3>5. CASE m = mode
        <4>1. runs' = runs
          BY <3>1, <3>5 DEF RunEffect
        <4>2. QED
          BY <3>1, <3>2, <3>5, <4>1
      <3>6. QED
        BY <3>3, <3>4, <3>5
    <2>5. CASE UNCHANGED <<action, mode>> /\ RunAgain
      <3>1. route \in Items /\ itemData # None /\ runs' = Ask(route)
        BY <2>5 DEF RunAgain, ItemView, Shown
      <3>2. Running' => Pending'
        BY <1>2, <2>1, <2>5, <3>1, AskMeets, Shapes DEF Running
      <3>3. QED
        BY <3>2 DEF RunsMeet
    <2>6. QED
      BY <1>3, <2>2, <2>3, <2>4, <2>5, UserKeeps
  <1>4. CASE Commit
    <2>1. CASE UNCHANGED <<route, itemData, mode, runData, runs, loads>>
      BY <1>1, <1>2, <1>4, <2>1, CommitSteps
    <2>2. CASE itemData' = None
      BY <2>2 DEF RunsMeet, Running
    <2>3. QED
      BY <1>4, <2>1, <2>2, CommitSteps
  <1>5. ASSUME NEW l \in loads, LoadAnswer(l) PROVE RunsMeet'
    <2>1. /\ UNCHANGED <<stored, route, mode, runData, runError, action>>
          /\ ("run" \in behind') = ("run" \in behind) /\ loads' = loads \ {l}
          /\ \A p : Saving(p)' = Saving(p)
      BY <1>2, <1>5, LoadSteps
    <2>2. CASE UNCHANGED <<itemData, runs>>
      <3>1. \A amid \in BOOLEAN, x \in Nat : Good(amid, x) => Good(amid, x)'
        BY <2>1, <2>2 DEF Good, Meets
      <3>2. QED
        BY <2>1, <2>2, <3>1, RunsKept DEF Running
    <2>3. CASE itemData' = None
      BY <2>3 DEF RunsMeet, Running
    <2>4. ASSUME l.live, l.id = route, \A m \in loads' : ~m.live,
                 NEW v \in Answers(l), route \in Items,
                 itemData' = [id |-> l.id, ver |-> v], RunEffect(route, itemData', mode),
                 Running'
          PROVE  Pending' \/ Past'
      <3>1. /\ itemData'.id = route /\ itemData'.ver = v /\ v \in Nat /\ v <= stored[route]
            /\ itemData' # None /\ mode = "run"
        BY <2>1, <2>4, Shapes DEF Answers, Running
      <3>2. CASE Depends(route, itemData', mode) # Depends(route, itemData, mode)
        <4>1. runs' = Ask(route)
          BY <2>4, <3>1, <3>2 DEF RunEffect
        <4>2. QED
          BY <2>1, <2>4, <3>1, <4>1, AskMeets
      <3>3. CASE Depends(route, itemData', mode) = Depends(route, itemData, mode)
        <4>1. runs' = runs
          BY <2>4, <3>3 DEF RunEffect
        <4>2. itemData # None /\ itemData.id = route
          <5>1. (IF itemData' = None THEN None ELSE itemData'.id)
                    = (IF itemData = None THEN None ELSE itemData.id)
            BY <3>3 DEF Depends
          <5>2. route # None
            BY <2>4, ModuleWorkspaceAssumption DEF Routes, Places
          <5>3. QED
            BY <3>1, <5>1, <5>2
        <4>3. Running
          BY <2>4, <3>1, <4>2 DEF Running
        <4>4. \A amid \in BOOLEAN, x \in Nat : Good(amid, x) => Good(amid, x)'
          <5>1. ASSUME NEW x \in Nat, Meets(x) PROVE Meets(x)'
            <6>1. x >= stored[route] /\ stored[route] \in Nat
              BY <2>4, <5>1, Shapes DEF Meets
            <6>2. QED
              BY <2>4, <3>1, <6>1 DEF Meets
          <5>2. QED
            BY <2>1, <5>1 DEF Good
        <4>5. QED
          BY <2>1, <2>4, <4>1, <4>3, <4>4, RunsKept DEF RunsMeet
      <3>4. QED
        BY <3>2, <3>3
    <2>5. QED
      BY <1>5, <2>2, <2>3, <2>4, LoadSteps DEF RunsMeet
  <1>6. ASSUME NEW i \in DOMAIN runs, RunAnswer(i), Running' PROVE Pending' \/ Past'
    <2>0. PICK n \in Nat : n = Len(runs)
      BY DEF Inv, TypeOK
    <2>1. runs \in Seq(Run) /\ n \in Nat /\ DOMAIN runs = 1 .. n /\ i \in 1 .. n
      BY <2>0 DEF Inv, TypeOK
    <2>2. /\ UNCHANGED <<stored, route, itemData, mode, action, loads>>
          /\ runs[i].late => "run" \in behind'
          /\ \A p : Saving(p)' = Saving(p)
      BY <1>2, <1>6, RunSteps
    <2>3. /\ runs' \in Seq(Run) /\ DOMAIN runs' = 1 .. n - 1 /\ Len(runs') = n - 1
          /\ \A k \in 1 .. n - 1 :
                runs'[k] = IF k < i THEN [runs[k] EXCEPT !.late = TRUE] ELSE runs[k + 1]
      <3>1. runs' = Answered(runs, i)
        BY <1>6, RunSteps
      <3>2. /\ Answered(runs, i) \in Seq(Run)
            /\ DOMAIN Answered(runs, i) = 1 .. n - 1
            /\ \A k \in 1 .. n - 1 :
                Answered(runs, i)[k] = IF k < i THEN [runs[k] EXCEPT !.late = TRUE]
                                       ELSE runs[k + 1]
        BY <2>0, <2>1, AnsweredRest, RequestTypes
      <3>3. \A s \in Seq(Run) : DOMAIN s = 1 .. n - 1 => Len(s) = n - 1
        BY <2>1
      <3>4. QED
        BY <3>1, <3>2, <3>3
    <2>4. \A k \in 1 .. n : [runs[k] EXCEPT !.late = TRUE].late
      BY <2>1 DEF Run
    <2>5. Running /\ \A amid \in BOOLEAN, x \in Nat : Good(amid, x)' = Good(amid, x)
      BY <1>6, <2>2 DEF Running, Good, Meets
    <2>6. runs[i] \in Run /\ runs[n] \in Run
      BY <2>1
    <2>7. CASE Pending /\ i # n
      <3>1. /\ n - 1 \in 1 .. n - 1 /\ ~(n - 1 < i) /\ (n - 1) + 1 = n
        BY <2>1, <2>7
      <3>2. runs'[n - 1] = runs[n] /\ runs' # <<>>
        BY <2>3, <3>1
      <3>3. runs[n].amid \in BOOLEAN /\ runs[n].since \in Nat
        BY <2>6, ModuleWorkspaceAssumption DEF Run
      <3>4. Pending'
        BY <2>0, <2>2, <2>3, <2>5, <2>7, <3>2, <3>3 DEF Pending
      <3>5. QED
        BY <3>4
    <2>8. CASE Pending /\ i = n
      <3>1. \A k \in DOMAIN runs' : runs'[k].late
        <4>1. \A k \in 1 .. n - 1 : k < i /\ k \in 1 .. n
          BY <2>1, <2>8
        <4>2. QED
          BY <2>3, <2>4, <4>1
      <3>2. CASE runError'
        BY <3>1, <3>2 DEF Past
      <3>3. CASE \E v \in Answers(runs[i]) :
                    runData' = [id |-> runs[i].id, ver |-> v, amid |-> runs[i].amid]
        <4>1. PICK v \in Answers(runs[i]) :
                runData' = [id |-> runs[i].id, ver |-> v, amid |-> runs[i].amid]
          BY <3>3
        <4>2. /\ runs[i].id = route /\ Good(runs[i].amid, runs[i].since)
              /\ runs[i].amid \in BOOLEAN /\ runs[i].since \in Nat /\ runs[i].id \in Items
          BY <2>6, <2>8, <2>0, ModuleWorkspaceAssumption DEF Pending, Run
        <4>3. v \in Nat /\ v >= runs[i].since /\ v \in Versions
          <5>1. v \in Versions
            BY <4>2, AnswersType, Shapes DEF Inv
          <5>2. v >= runs[i].since
            BY <4>2, Shapes DEF Answers
          <5>3. QED
            BY <5>1, <5>2, ModuleWorkspaceAssumption DEF Versions
        <4>4. Good(runs[i].amid, v)
          <5>1. itemData.ver \in Nat /\ stored[route] \in Nat
            BY <2>5, Shapes DEF Running
          <5>2. QED
            BY <4>2, <4>3, <5>1 DEF Good, Meets
        <4>5. runData' \in Rows
          BY <4>1, <4>2, <4>3 DEF Rows
        <4>6. runData' # None
          BY <4>5, ModuleWorkspaceAssumption
        <4>7. Good(runData.amid, runData.ver)'
          BY <2>2, <4>1, <4>4 DEF Good, Meets
        <4>8. QED
          BY <2>2, <3>1, <4>1, <4>2, <4>6, <4>7 DEF Past
      <3>4. QED
        BY <1>6, <3>2, <3>3 DEF RunAnswer, RunFailed
    <2>9. CASE Past
      <3>1. \A k \in DOMAIN runs' : runs'[k].late
        <4>1. \A k \in 1 .. n - 1 : k \in 1 .. n /\ k + 1 \in 1 .. n
          BY <2>1
        <4>2. QED
          BY <2>1, <2>3, <2>4, <2>9, <4>1 DEF Past
      <3>2. "run" \in behind'
        BY <2>2, <2>9 DEF Past
      <3>3. QED
        BY <3>1, <3>2 DEF Past
    <2>10. QED
      BY <2>5, <2>7, <2>8, <2>9 DEF RunsMeet
  <1>7. CASE Write
    <2>1. UNCHANGED <<route, itemData, mode, runs, runData, runError, loads, behind>>
      BY <1>7, WriteSteps
    <2>2. \A p \in Items : Saving(p)' => Saving(p)
      BY <1>7, WriteSteps DEF Saving
    <2>3. ASSUME Running, ~Saving(route) PROVE stored'[route] = stored[route]
      <3>1. /\ route \in Places /\ stored[route] # 0
        BY <2>3, Shapes DEF Running, Stored
      <3>2. action # None /\ action.stage = "write" /\ action.op \in {"save", "create", "delete"}
        BY <1>7, WriteSteps, Shapes
      <3>3. action.op # "delete" => route # action.id
        BY <2>3, <3>1, <3>2 DEF Saving, Stored
      <3>4. QED
        BY <1>7, <3>1, <3>3, WriteSteps
    <2>4. Running' = Running
      BY <2>1 DEF Running
    <2>5. \A amid \in BOOLEAN, x \in Nat : Running' /\ Good(amid, x) => Good(amid, x)'
      <3>1. Running => route \in Items
        BY DEF Running
      <3>2. QED
        BY <2>1, <2>2, <2>3, <2>4, <3>1 DEF Good, Meets
    <2>6. QED
      BY <2>1, <2>4, <2>5, RunsKept
  <1>8. CASE WriteAnswer
    <2>1. \A p \in Items : Saving(p)' => Saving(p)
      BY <1>8, WriteAnswerSteps DEF Saving
    <2>2. QED
      BY <1>1, <1>8, <2>1, WriteAnswerSteps
  <1>9. ASSUME NEW i \in DOMAIN refreshes, RefreshAnswer(i) PROVE RunsMeet'
    <2>1. /\ UNCHANGED <<stored, route, runData, runError>>
          /\ ("run" \in behind') = ("run" \in behind)
      BY <1>9, FinishSteps
    <2>2. CASE UNCHANGED <<action, itemData, mode, runs, loads>>
      BY <1>1, <1>2, <2>1, <2>2
    <2>3. CASE action' = None /\ UNCHANGED <<itemData, mode, runs, loads>>
      <3>1. \A p \in Items : Saving(p)' => Saving(p)
        BY <2>3 DEF Saving
      <3>2. QED
        BY <1>1, <2>1, <2>3, <3>1
    <2>4. ASSUME action' = None, action # None, action.op = "save", action.id \in Items,
                 itemData' = [id |-> action.id, ver |-> stored[action.id]],
                 itemData' # None, mode' = "run", RunEffect(route, itemData', "run"),
                 Running'
          PROVE  Pending' \/ Past'
      <3>1. /\ itemData'.id = route /\ action.id = route /\ route \in Items
            /\ itemData'.ver = stored[route] /\ stored[route] \in Nat
        BY <2>1, <2>4, Shapes DEF Running
      <3>2. ~Saving(route)'
        BY <2>4 DEF Saving
      <3>3. CASE Depends(route, itemData', "run") # Depends(route, itemData, mode)
        <4>1. runs' = Ask(route)
          BY <2>4, <3>1, <3>3 DEF RunEffect
        <4>2. QED
          BY <2>1, <2>4, <3>1, <3>2, <4>1, AskMeets
      <3>4. CASE Depends(route, itemData', "run") = Depends(route, itemData, mode)
        <4>1. runs' = runs
          BY <2>4, <3>4 DEF RunEffect
        <4>2. itemData # None /\ itemData.id = route /\ mode = "run"
          <5>1. (IF itemData' = None THEN None ELSE itemData'.id)
                    = (IF itemData = None THEN None ELSE itemData.id) /\ mode = "run"
            BY <3>4 DEF Depends
          <5>2. route # None
            BY <3>1, ModuleWorkspaceAssumption DEF Routes, Places
          <5>3. QED
            BY <2>4, <3>1, <5>1, <5>2
        <4>3. Running /\ Saving(route)
          BY <2>4, <3>1, <4>2 DEF Running, Saving
        <4>4. \A amid \in BOOLEAN, x \in Nat : Good(amid, x) => Good(amid, x)'
          BY <4>3 DEF Good
        <4>5. QED
          BY <2>1, <2>4, <4>1, <4>3, <4>4, RunsKept DEF RunsMeet
      <3>5. QED
        BY <3>3, <3>4
    <2>5. QED
      BY <1>9, <2>2, <2>3, <2>4, FinishSteps DEF RunsMeet
  <1>10. UNCHANGED vars => UNCHANGED <<route, stored, itemData, mode, loads, runs, runData,
                                       runError, behind, action>>
    BY DEF vars, server, detail, run
  <1>11. QED
    BY <1>1, <1>2, <1>3, <1>4, <1>5, <1>6, <1>7, <1>8, <1>9, <1>10 DEF Next, Page, RunsMeet

LEMMA SettlingInit == ASSUME Inv, Init PROVE Settling
  <1>1. refreshes # <<>> /\ \A i \in DOMAIN refreshes : ~refreshes[i].own
    BY DEF Init
  <1>2. Stored /\ RunsMeet /\ Watched
    BY DEF Init, Stored, RunsMeet, Running, Watched
  <1>3. Listed
    BY <1>1 DEF Init, Listed
  <1>4. QED
    BY <1>2, <1>3 DEF Settling

LEMMA SettlingStep == ASSUME Inv, Inv', Settling, [Next]_vars PROVE Settling'
  <1>1. faults' = 0 => faults = 0
    <2>1. faults \in Nat
      BY ModuleWorkspaceAssumption DEF Inv, TypeOK
    <2>2. faults' = faults \/ faults' = faults + 1
      BY DEF Next, Page, User, Follow, SwitchMode, RunAgain, OpenCreate, SaveExistingItem,
             SaveNewItem, SaveFolder, RemoveCurrentItem, RemoveCurrentFolder, Start, Commit,
             LoadAnswer, RunAnswer, Write, WriteAnswer, RefreshAnswer, Works, Fails, vars
    <2>3. QED
      BY <2>1, <2>2
  <1>2. Stored'
    BY StoredStep DEF Settling
  <1>3. QED
    BY <1>1, <1>2, RunsMeetStep, WatchedStep, ListedStep DEF Settling

-----------------------------------------------------------------------------
\* Every variable keeps its type, and no version passes the number of actions
\* (ReportRuntimeWorkspace, DashboardRuntimeWorkspace).
THEOREM TypeCorrect == Spec => []TypeOK
  BY Inductive, PTL DEF Inv

\* A save sends the draft of the item it saves, or one begun for a new item
\* (saveExistingReport, saveExistingDashboard).
THEOREM OwnDrafts == Spec => []SavesOwnDraft
  BY Inductive, PTL DEF Inv

\* No cancelled request leaves the page blank: what the route names is shown, is
\* waited for, or is answered for by an error (renderContent).
THEOREM AlwaysSomething == Spec => []NeverBlank
  <1>1. Inv /\ itemData # None => draft # None
    BY ModuleWorkspaceAssumption DEF Inv, Edited, TypeOK, Response, Routes, Places
  <1>2. Inv => NeverBlank
    BY <1>1 DEF Inv, Settled, NeverBlank, ItemView, FolderView, Shown
  <1>3. QED
    BY <1>2, Inductive, PTL

\* What is put on the page is what the route names, or a saved item the page is on
\* its way to, in whatever order answers, saves and links come (the effect's cleanup).
THEOREM DetailsOfRoute == Spec => DetailOfRoute
  <1> DEFINE Placed ==
        /\ itemData' # itemData /\ itemData' # None => itemData'.id \in {route', target'}
        /\ folderData' # folderData /\ folderData' # None => folderData'.id = route'
        /\ route' # route => itemData' = None /\ folderData' = None
  <1>1. ASSUME Inv, [Next]_vars PROVE Placed
    <2>1. CASE UNCHANGED <<route, itemData, folderData>>
      BY <2>1
    <2>2. CASE Commit
      BY <2>2 DEF Commit, detail
    <2>3. ASSUME NEW l \in loads, LoadAnswer(l) PROVE Placed
      <3>1. CASE ~l.live
        BY <2>3, <3>1 DEF LoadAnswer, detail
      <3>2. CASE l.live
        <4>1. l.id = route /\ route' = route
          <5>1. l.id = route
            BY <1>1, <3>2 DEF Inv, Awaited
          <5>2. route' = route
            BY <2>3 DEF LoadAnswer
          <5>3. QED
            BY <5>1, <5>2
        <4>2. Arrive(l) \/ UNCHANGED <<folderData, itemData>>
          BY <2>3, <3>2 DEF LoadAnswer
        <4>3. CASE Arrive(l)
          <5>1. PICK v \in Answers(l) :
                  /\ folderData' = IF l.id \in Folders THEN [id |-> l.id, ver |-> v] ELSE None
                  /\ itemData' = IF l.id \in Folders THEN None ELSE [id |-> l.id, ver |-> v]
            BY <4>3 DEF Arrive
          <5>2. QED
            BY <4>1, <5>1
        <4>4. QED
          BY <4>1, <4>2, <4>3
      <3>3. QED
        BY <3>1, <3>2
    <2>4. ASSUME NEW i \in DOMAIN refreshes, RefreshAnswer(i) PROVE Placed
      <3>1. UNCHANGED <<route, folderData>> /\ (Finish \/ UNCHANGED itemData)
        BY <2>4 DEF RefreshAnswer
      <3>2. CASE Finish
        BY <3>1, <3>2 DEF Finish
      <3>3. QED
        BY <3>1, <3>2
    <2>5. User => UNCHANGED <<route, itemData, folderData>>
      BY DEF User, Follow, SwitchMode, RunAgain, OpenCreate, SaveExistingItem, SaveNewItem,
             SaveFolder, RemoveCurrentItem, RemoveCurrentFolder, Start, detail
    <2>6. /\ \A i \in DOMAIN runs : RunAnswer(i) => UNCHANGED <<route, itemData, folderData>>
          /\ Write \/ WriteAnswer => UNCHANGED <<route, itemData, folderData>>
      BY DEF RunAnswer, Write, WriteAnswer, detail
    <2>7. UNCHANGED vars => UNCHANGED <<route, itemData, folderData>>
      BY DEF vars, detail
    <2>8. QED
      BY <1>1, <2>1, <2>2, <2>3, <2>4, <2>5, <2>6, <2>7 DEF Next, Page
  <1>2. QED
    BY <1>1, Inductive, PTL DEF Spec, DetailOfRoute

\* Once nothing is under way, the rows below an item are its own and of the definition
\* above them or a later one, and, when nothing failed, the item is as it was saved
\* last and the folders are as the last action left them; except where an answer came
\* after a later one, or a run was asked for while the item was saved (loadRunPage,
\* saveExistingReport, refreshWorkspace).
THEOREM Settles == Spec => []SettlesOnStored
  <1>1. ASSUME Inv, Settling, Quiet, ItemView, itemData.id = route, mode = "run",
               "run" \notin behind, ~runError
        PROVE  /\ runData # None /\ runData.id = itemData.id
               /\ runData.ver >= itemData.ver \/ runData.amid
    <2>1. Running /\ runs = <<>>
      BY <1>1 DEF Running, ItemView, Shown, Quiet
    <2>2. Past
      BY <1>1, <2>1 DEF Settling, RunsMeet, Pending
    <2>3. QED
      BY <1>1, <2>2 DEF Past, Good, Meets
  <1>2. ASSUME Inv, Settling, faults = 0, Quiet, ItemView, "detail" \notin behind
        PROVE  itemData.ver = stored[itemData.id]
    BY <1>2 DEF Settling, Watched, Written, Saving, Quiet, ItemView, Shown
  <1>3. ASSUME Settling, faults = 0, action = None, refreshes = <<>>, "list" \notin behind
        PROVE  workspace = catalog
    BY <1>3 DEF Settling, Listed, Unlisted
  <1>4. Inv /\ Settling => SettlesOnStored
    BY <1>1, <1>2, <1>3 DEF SettlesOnStored, RowsOfDefinition, SavedIsShown
  <1>5. Spec => [](Inv /\ Settling)
    BY InitInv, NextInv, SettlingInit, SettlingStep, PTL DEF Spec
  <1>6. QED
    BY <1>4, <1>5, PTL
=============================================================================
