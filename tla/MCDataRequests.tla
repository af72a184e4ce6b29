---------------------------- MODULE MCDataRequests ---------------------------
(* Small instances of DataRequests for the model checker. *)
EXTENDS DataRequests, TLC

CONSTANTS c1, c2, k1, k2

List == [kind |-> "list", name |-> "accounts"]
Related == [kind |-> "related-list", name |-> "contacts"]
Report == [kind |-> "report", name |-> "pipeline"]

Page(k, v, z) == [op |-> "page", contact |-> k, view |-> v, size |-> z, record |-> None]
Single(op, k, r) == [op |-> op, contact |-> k, view |-> List, size |-> 1, record |-> r]

MCViews == {List, Related, Report}

\* A policy change takes the last record from the first contact.
MCVisible == [s \in Scope |-> IF s.contact = k2 THEN {4}
                              ELSE IF s.ver = 1 THEN {1, 2, 3, 4} ELSE {1, 2, 3}]
MCResults == [s \in Scope |-> IF s.contact = k2 THEN {<<4>>}
                              ELSE IF s.ver = 1 THEN {<<1, 2, 3, 4>>} ELSE {<<1, 2, 3>>}]
MCRequests ==
    {Page(k1, List, 2), Page(k2, Related, 2), Page(k1, Report, 2),
     Single("read", k1, 4), Single("update", k1, 4), Single("delete", k1, 4),
     Single("create", k1, None)}

ClientSymmetry == Permutations(Clients)
=============================================================================
