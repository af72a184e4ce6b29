----------------------------- MODULE EntityList -----------------------------
(***************************************************************************)
(* The list of an entity in the browser (EntityListPage of                 *)
(* src/frontend/src/features/entities): its URL names the list, a view     *)
(* with a search, and the cursor of a page; each change asks the server,   *)
(* and the cursors of the pages before are kept for going back.            *)
(*                                                                         *)
(* Nothing is cancelled: every answer is used, in whatever order it comes, *)
(* and one that refuses the cursor, or ends a deletion, changes the URL    *)
(* again.  A navigation takes effect in a transition of its own.  The list *)
(* of related records (EntityRelatedListPage) is this page with one query. *)
(***************************************************************************)
EXTENDS EntityPage, SequencesExt

CONSTANTS
    Lists, Queries,      \* entities, and what a view and a search select
    Plain,               \* the query of a URL without parameters
    Elsewhere,           \* any page that is not a list
    LastPage             \* pages 0 .. LastPage

\* A token is drawn for every answer: those of one page and epoch are one here.
Cursor == [list : Lists, query : Queries, page : 1 .. LastPage, epoch : Nat]
Url == [list : Lists \cup {Elsewhere}, query : Queries, cursor : Cursor \cup {None}]
ListUrl == [list : Lists, query : Queries, cursor : Cursor \cup {None}]
Rows == [list : Lists, query : Queries, page : 0 .. LastPage, next : Cursor \cup {None}]
Key == [list : Lists, query : Queries, cursor : Cursor]
\* page: the instance of the component that asked.  History: late, whether something
\* asked for later has been answered; old, whether the user has gone elsewhere since.
ListRequest == [url : ListUrl, page : Nat, late : BOOLEAN, old : BOOLEAN]
Deletion == [query : Queries, page : Nat, old : BOOLEAN]

\* Assumed where the module is given its constants.
EntityListAssumption ==
    /\ Plain \in Queries /\ Elsewhere \notin Lists
    /\ LastPage \in Nat /\ MaxActs \in Nat /\ MaxFaults \in Nat
    /\ None \notin Cursor \cup Rows \cup Key \cup Url \cup {"failed", "cursor"}

VARIABLES
    epoch,            \* the server: cursors of earlier epochs have expired
    visited,          \* what the browser's history offers
    rows,             \* listResponse
    cursorHistory,
    recoveryKeys,     \* recoveryKeyRef, of each instance of the page
    requests, deletions,        \* under way
    hasty, astray, pulled, returned, wanted   \* history, see the properties

listPage == <<rows, loading, error, cursorHistory, recoveryKeys>>
listHistory == <<behind, hasty, astray, pulled, returned, wanted>>
listVars == <<epoch, url, target, visited, listPage, requests, deletions, listHistory, acts, faults>>

\* One bound for what the user does and what goes wrong, and one for the latter.
UserActs == acts + faults < MaxActs /\ Acts
SomethingFails == acts + faults < MaxActs /\ Fails

Instance == Len(recoveryKeys)
OnList == url.list # Elsewhere
ListLive(r) == OnList /\ r.page = Instance
PageOf(c) == IF c = None THEN 0 ELSE c.page
ToList(l, q, c) == [list |-> l, query |-> q, cursor |-> c]

\* The server refuses a cursor that expired or belongs to another list or query.
Valid(u) == IF u.cursor = None THEN TRUE
            ELSE u.cursor = [list |-> u.list, query |-> u.query, page |-> u.cursor.page,
                             epoch |-> epoch]
ListAnswer(u) ==
    LET k == PageOf(u.cursor)
    IN  [list |-> u.list, query |-> u.query, page |-> k,
         next |-> IF k = LastPage THEN None
                  ELSE [list |-> u.list, query |-> u.query, page |-> k + 1, epoch |-> epoch]]

ListInit ==
    /\ epoch = 0
    /\ \E l \in Lists \cup {Elsewhere} : url = ToList(Elsewhere, Plain, None)
                                        /\ target = ToList(l, Plain, None)
    /\ visited = {url}
    /\ rows = None /\ loading = FALSE /\ error = None /\ cursorHistory = <<>>
    /\ recoveryKeys = <<>>
    /\ requests = <<>> /\ deletions = {}
    /\ behind = FALSE /\ hasty = FALSE /\ astray = FALSE /\ pulled = FALSE
    /\ returned = FALSE /\ wanted = target
    /\ acts = 0 /\ faults = 0

-----------------------------------------------------------------------------
(* What the user does. *)

\* The user goes to u, by a link, a form or the browser's history.
Goes(u) ==
    /\ UserActs
    /\ target' = u /\ wanted' = u
    /\ requests' = [i \in DOMAIN requests |-> [requests[i] EXCEPT !.old = TRUE]]
    /\ deletions' = {[d EXCEPT !.old = TRUE] : d \in deletions}
    /\ hasty' = (hasty \/ target # None)
    /\ pulled' = FALSE
    /\ UNCHANGED <<epoch, url, visited, rows, loading, error, recoveryKeys, behind>>

ListFollow(l) ==
    /\ Goes(ToList(l, Plain, None))
    /\ astray' = (astray \/ l = url.list)
    /\ UNCHANGED <<cursorHistory, returned>>

Back(u) ==
    /\ u # url
    /\ Goes(u)
    /\ astray' = TRUE /\ returned' = TRUE
    /\ UNCHANGED cursorHistory

\* Another view, or another search.
Search(q) ==
    /\ OnList
    /\ Goes(ToList(url.list, q, None))
    /\ cursorHistory' = <<>>
    /\ UNCHANGED <<astray, returned>>

ListShown == OnList /\ ~loading /\ error = None /\ rows # None
\* The user acts on the rows of the URL, and no other page is on its way.
Steady == target = None /\ ToList(rows.list, rows.query, rows.page)
                           = ToList(url.list, url.query, PageOf(url.cursor))


NextPage ==
    /\ ListShown /\ rows.next # None
    /\ Goes(ToList(url.list, url.query, rows.next))
    /\ cursorHistory' = Append(cursorHistory, url.cursor)
    /\ astray' = (astray \/ ~Steady)
    /\ returned' = (returned \/ ~Steady \/ requests # <<>>)

PreviousPage ==
    /\ ListShown /\ cursorHistory # <<>>
    /\ Goes(ToList(url.list, url.query, Last(cursorHistory)))
    /\ cursorHistory' = Front(cursorHistory)
    /\ astray' = (astray \/ ~Steady)
    /\ returned' = (returned \/ ~Steady \/ requests # <<>>)

ListDelete ==
    /\ UserActs /\ ListShown
    /\ deletions' = deletions \cup {[query |-> url.query, page |-> Instance, old |-> target # None]}
    /\ UNCHANGED <<epoch, url, target, visited, listPage, requests, listHistory>>

-----------------------------------------------------------------------------
(* What the page does. *)

ListAsked(u, n) == [url |-> u, page |-> n, late |-> FALSE, old |-> FALSE]

\* Mutant: the callback does not depend on the query.
ReloadsByCursor(u) == u.list # url.list \/ u.cursor # url.cursor
\* The URL is not the one the last request was made for.
ListReloads(u) == u # url

\* A list is opened: a new instance of the page.
ListOpen ==
    /\ rows' = None /\ loading' = TRUE /\ error' = None /\ cursorHistory' = <<>>
    /\ recoveryKeys' = Append(recoveryKeys, None)
    /\ requests' = Append(requests, ListAsked(target, Instance + 1))

\* The same page with other parameters.
ListRenew ==
    /\ IF target.list # url.list \/ target.query # url.query
       THEN cursorHistory' = <<>> /\ recoveryKeys' = [recoveryKeys EXCEPT ![Instance] = None]
       ELSE UNCHANGED <<cursorHistory, recoveryKeys>>
    /\ IF ListReloads(target)
       THEN loading' = TRUE /\ requests' = Append(requests, ListAsked(target, Instance))
       ELSE UNCHANGED <<loading, requests>>
    /\ UNCHANGED <<rows, error>>

ListArrive ==
    /\ target # None
    /\ url' = target /\ target' = None
    /\ visited' = visited \cup {target}
    /\ IF target.list = Elsewhere THEN UNCHANGED <<listPage, requests>>
       ELSE IF OnList THEN ListRenew ELSE ListOpen
    /\ hasty' = (hasty /\ Len(requests') = Len(requests))
    /\ astray' = (astray /\ ~(target.cursor = None /\ cursorHistory' = <<>>))
    /\ UNCHANGED <<epoch, deletions, behind, pulled, returned, wanted, acts, faults>>

\* setSearchParams keeps the path of the page that is there by now, and interrupts
\* whatever navigation is under way.
Redirect(q, old) ==
    /\ target' = ToList(url.list, q, None)
    /\ pulled' = (pulled \/ old)
    /\ astray' = (astray \/ old)
    /\ returned' = (returned \/ old)

\* The request at i is answered: those before it are late.
ListAnswered(i) ==
    RemoveAt([j \in DOMAIN requests |->
              IF j < i THEN [requests[j] EXCEPT !.late = TRUE] ELSE requests[j]], i)

\* Mutant: one recovery for a list, whatever the cursor.
RecoveryKeyOfList(u) == ToList(u.list, u.query, None)
RecoveryKey(u) == ToList(u.list, u.query, u.cursor)

ListSucceed(r) ==
    /\ Works /\ Valid(r.url)
    /\ IF ListLive(r)
       THEN rows' = ListAnswer(r.url) /\ error' = None /\ loading' = FALSE /\ behind' = r.late
       ELSE UNCHANGED <<rows, error, loading, behind>>
    /\ UNCHANGED <<target, cursorHistory, recoveryKeys, pulled, astray, returned>>


\* Mutant: the cursors of the pages before stay.
RecoverWithHistory(r) ==
    /\ Works /\ ~Valid(r.url) /\ recoveryKeys[r.page] # RecoveryKey(r.url)
    /\ recoveryKeys' = [recoveryKeys EXCEPT ![r.page] = RecoveryKey(r.url)]
    /\ loading' = IF ListLive(r) THEN FALSE ELSE loading
    /\ Redirect(r.url.query, r.old)
    /\ UNCHANGED <<rows, error, cursorHistory, behind>>

\* The first page replaces one whose cursor is refused, once.
Recover(r) ==
    /\ Works /\ ~Valid(r.url) /\ recoveryKeys[r.page] # RecoveryKey(r.url)
    /\ recoveryKeys' = [recoveryKeys EXCEPT ![r.page] = RecoveryKey(r.url)]
    /\ IF ListLive(r) THEN cursorHistory' = <<>> /\ loading' = FALSE
       ELSE UNCHANGED <<cursorHistory, loading>>
    /\ Redirect(r.url.query, r.old)
    /\ UNCHANGED <<rows, error, behind>>


ListGiveUp(r) ==
    /\ \/ SomethingFails /\ error' = IF ListLive(r) THEN "failed" ELSE error
       \/ /\ Works /\ ~Valid(r.url) /\ recoveryKeys[r.page] = RecoveryKey(r.url)
          /\ error' = IF ListLive(r) THEN "cursor" ELSE error
    /\ IF ListLive(r) THEN rows' = None /\ loading' = FALSE /\ behind' = r.late
       ELSE UNCHANGED <<rows, loading, behind>>
    /\ UNCHANGED <<target, cursorHistory, recoveryKeys, pulled, astray, returned>>

ListLoadAnswer(i) ==
    LET r == requests[i]
    IN  /\ requests' = ListAnswered(i)
        /\ ListSucceed(r) \/ Recover(r) \/ ListGiveUp(r)
        /\ UNCHANGED <<epoch, url, visited, deletions, hasty, wanted>>

\* A deletion that fails is not reported.
DeleteAnswer(d) ==
    /\ deletions' = deletions \ {d}
    /\ \/ SomethingFails /\ UNCHANGED <<target, cursorHistory, pulled, astray, returned>>
       \/ /\ Works
          /\ cursorHistory' = IF ListLive(d) THEN <<>> ELSE cursorHistory
          /\ Redirect(d.query, d.old)
    /\ UNCHANGED <<epoch, url, visited, rows, loading, error, recoveryKeys, requests, behind,
                   hasty, wanted>>

\* Time passes, the policy or the configuration changes.
Expire ==
    /\ SomethingFails
    /\ epoch' = epoch + 1
    /\ UNCHANGED <<url, target, visited, listPage, requests, deletions, listHistory>>

ListNext ==
    \/ \E l \in Lists \cup {Elsewhere} : ListFollow(l)
    \/ \E u \in visited : Back(u)
    \/ \E q \in Queries : Search(q)
    \/ NextPage \/ PreviousPage \/ ListDelete
    \/ ListArrive
    \/ \E i \in DOMAIN requests : ListLoadAnswer(i)
    \/ \E d \in deletions : DeleteAnswer(d)
    \/ Expire

ListSpec == ListInit /\ [][ListNext]_listVars

-----------------------------------------------------------------------------
(* Properties. *)

ListTypeOK ==
    /\ epoch \in Nat
    /\ url \in Url /\ target \in Url \cup {None} /\ visited \subseteq Url
    /\ rows \in Rows \cup {None} /\ loading \in BOOLEAN
    /\ error \in {None, "failed", "cursor"}
    /\ cursorHistory \in Seq(Cursor \cup {None})
    /\ recoveryKeys \in Seq(Key \cup {None})
    /\ requests \in Seq(ListRequest) /\ deletions \subseteq Deletion
    /\ wanted \in Url
    /\ {behind, hasty, astray, pulled, returned} \subseteq BOOLEAN
    /\ acts \in 0 .. MaxActs /\ faults \in 0 .. MaxFaults

\* Nothing is under way for the list on the page.
ListQuiet == OnList /\ target = None /\ \A i \in DOMAIN requests : ~ListLive(requests[i])

\* Once nothing is under way no spinner is left, and the rows are those of the list,
\* query and cursor of the URL, or an error stands for them, unless an answer came after
\* that of a later request, or the user acted while a navigation was under way (loadList
\* is never cancelled and its dependencies decide when it runs).
RowsMatch ==
    /\ ListQuiet => ~loading
    /\ ListQuiet /\ ~behind /\ ~hasty =>
        \/ rows = None /\ error # None
        \/ /\ rows # None /\ error = None
           /\ rows.list = url.list /\ rows.query = url.query
           /\ rows.page = PageOf(url.cursor)

\* "Previous" leads back page by page to the first one: the cursors kept are those of
\* the pages before the one in the URL, unless the user went there by the browser's
\* history or by a link to the list that is open, acted on rows of another URL or before
\* a navigation had arrived, or was moved by a late answer.
HistoryLeads ==
    OnList /\ target = None /\ ~astray =>
        /\ Len(cursorHistory) = PageOf(url.cursor)
        /\ \A i \in DOMAIN cursorHistory :
              LET kept == cursorHistory[i]
              IN  /\ PageOf(kept) = i - 1
                  /\ kept # None => kept.list = url.list /\ kept.query = url.query

\* However cursors expire and records are deleted, the browser ends at the list and
\* query the user asked for last, on the page asked for or the first one, unless the
\* answer that moved it belonged to a page the user had left.  A cursor that expired, any
\* number of times, leads there and not to an error, except that of a page the user
\* returned to by the browser's history, or reached before what was asked for earlier
\* was answered, or when a late answer has moved the browser (recoveryKeyRef is there to
\* stop a loop).
UserArrives ==
    /\ target = None /\ ~pulled =>
        url \in {wanted, ToList(wanted.list, wanted.query, None)}
    /\ error = "cursor" => returned
=============================================================================
