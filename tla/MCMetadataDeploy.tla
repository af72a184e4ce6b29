--------------------------- MODULE MCMetadataDeploy ---------------------------
(* Small instances of MetadataDeploy for the model checker. *)
EXTENDS MetadataDeploy, TLC

CONSTANTS d1, d2, t1, p1, p2, k1, k2, r1, a1, o1, o2

MCItems == {t1, p1, p2, k1, k2, r1, a1}
MCTypes ==
    t1 :> "template" @@ p1 :> "acl" @@ p2 :> "acl" @@ k1 :> "cone" @@ k2 :> "cone"
    @@ r1 :> "rule" @@ a1 :> "assign"

Rule(k, o) == [cone |-> k, obj |-> o]
Assign(k) == [cone |-> k, contact |-> TRUE, perm |-> TRUE]

MCInitRows ==
    t1 :> "old" @@ p1 :> "old" @@ p2 :> "old" @@ k1 :> "active" @@ k2 :> "active"
    @@ r1 :> Rule(k1, o1) @@ a1 :> Assign(k1)

\* The package moves the rule to the other object and the assignment to the other
\* cone, which it switches off; one access rule is in the package, one is not.
MCPackage ==
    t1 :> "new" @@ p1 :> "new" @@ k2 :> "inactive" @@ r1 :> Rule(k1, o2) @@ a1 :> Assign(k2)

\* Another administrator may move the rule as well.
MCEdits == {<<r1, Rule(k2, o1)>>}

DeployerSymmetry == Permutations(Deployers)
=============================================================================
