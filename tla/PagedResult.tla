----------------------------- MODULE PagedResult -----------------------------
(***************************************************************************)
(* What a cursor promises a client: the pages of one result, in order and  *)
(* without gaps or repetitions, to the one request it was handed to.       *)
(*                                                                         *)
(* A request claims rows, a fresh result or what a cursor stands for, and  *)
(* is handed a page: the first rows of the claim.  What is left is what a  *)
(* new cursor stands for.  A cursor keeps its meaning for as long as it    *)
(* exists: presenting it twice yields the same rows twice.                 *)
(***************************************************************************)
EXTENDS Integers, Sequences

CONSTANTS
    Clients, Cursors,
    Scopes,          \* who reads what under which policy
    Sizes,           \* page sizes
    Results,         \* the results a scope may have
    None

VARIABLES
    stands,          \* what each cursor stands for
    claim,           \* what each request goes on with
    page             \* the rows each request was handed

pvars == <<stands, claim, page>>

First(s, n) == SubSeq(s, 1, n)
After(s, n) == SubSeq(s, n + 1, Len(s))
Shorter(m, n) == IF m < n THEN m ELSE n

PInit ==
    /\ stands = [k \in Cursors |-> None]
    /\ claim = [c \in Clients |-> None]
    /\ page = [c \in Clients |-> None]

\* A query is answered: the request claims one of the results of its scope.
Ask(c) ==
    /\ claim[c] = None /\ page[c] = None
    /\ claim'[c] # None
    /\ \E s \in Scopes, z \in Sizes : \E rows \in Results[s] :
        claim' = [claim EXCEPT ![c] = [scope |-> s, size |-> z, rows |-> rows,
                                       fresh |-> TRUE]]
    /\ UNCHANGED <<stands, page>>

\* A cursor is presented by a request of the scope it was created for.
Present(c, k) ==
    /\ claim[c] = None /\ page[c] = None
    /\ stands[k] # None
    /\ claim' = [claim EXCEPT ![c] = [scope |-> stands[k].scope, size |-> stands[k].size,
                                      rows |-> stands[k].rows, fresh |-> FALSE]]
    /\ UNCHANGED <<stands, page>>

\* The page is full unless the rows end, or it is the first of its result; a
\* cursor is created exactly when rows are left.
Hand(c) ==
    /\ claim[c] # None
    /\ \E n \in 0 .. Shorter(claim[c].size, Len(claim[c].rows)) :
        /\ claim[c].fresh \/ n = Shorter(claim[c].size, Len(claim[c].rows))
        /\ n = 0 => claim[c].rows = <<>>
        /\ page' = [page EXCEPT ![c] = First(claim[c].rows, n)]
        /\ IF n = Len(claim[c].rows)
           THEN UNCHANGED stands
           ELSE \E k \in Cursors :
                    /\ stands[k] = None
                    /\ stands' = [stands EXCEPT ![k] =
                            [scope |-> claim[c].scope, size |-> claim[c].size,
                             rows |-> After(claim[c].rows, n)]]
    /\ claim' = [claim EXCEPT ![c] = None]

\* What a cursor stands for is a last page: it is handed at once.
HandLast(c, k) ==
    /\ claim[c] = None /\ page[c] = None
    /\ stands[k] # None
    /\ Len(stands[k].rows) <= stands[k].size
    /\ page' = [page EXCEPT ![c] = stands[k].rows]
    /\ UNCHANGED <<stands, claim>>

\* The request fails, or its answer has been read.
End(c) ==
    /\ claim' = [claim EXCEPT ![c] = None]
    /\ page' = [page EXCEPT ![c] = None]
    /\ UNCHANGED stands

\* Everything in progress is lost; cursors are not.
EndAll ==
    /\ claim' = [c \in Clients |-> None]
    /\ UNCHANGED <<stands, page>>

\* Cursors expire.
Forget ==
    /\ \A k \in Cursors : stands'[k] \in {stands[k], None}
    /\ UNCHANGED <<claim, page>>

PNext ==
    \/ \E c \in Clients :
        Ask(c) \/ Hand(c) \/ End(c) \/ \E k \in Cursors : Present(c, k) \/ HandLast(c, k)
    \/ EndAll
    \/ Forget

PSpec == PInit /\ [][PNext]_pvars
=============================================================================
