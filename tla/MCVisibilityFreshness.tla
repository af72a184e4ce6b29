------------------------ MODULE MCVisibilityFreshness ------------------------
(* Small instances of VisibilityFreshness for the model checker. *)
EXTENDS VisibilityFreshness, TLC

CONSTANTS c1, r1, a1, o1, u1, x1, x2, e1, e2

MCBodies == {"wide", "narrow", "boot", "broken"}
MCInvalidBodies == {"broken"}

Rule(c, o, active, body) == [cone |-> c, obj |-> o, active |-> active, body |-> body]
Window(c, from, until) == [cone |-> c, user |-> u1, from |-> from, until |-> until]

OneRulePolicies ==
    {[cones |-> [c \in Cones |-> IF c = c1 THEN "active" ELSE "absent"],
      rules |-> [r \in Rules |-> IF r = r1 THEN Rule(c1, o1, TRUE, b) ELSE None],
      assigns |-> [a \in Assigns |-> IF a = a1 THEN Window(c1, 0, MaxTime) ELSE None]] :
        b \in {"wide", "broken"}}

OneRuleInputs == {Rule(c1, o1, TRUE, "narrow"), Rule(c1, o1, FALSE, "wide")}
DatedAssignInputs == {Window(c1, 0, 0)}

ReaderSymmetry == Permutations(Readers)
=============================================================================
