------------------------- MODULE MCVisibilityPolicy -------------------------
(* A small instance of VisibilityPolicy for the model checker: a cone that the
   bootstrap does not know, whose first rule one administrator creates while
   another edits the cone. *)
EXTENDS VisibilityPolicy

CONSTANTS c1, c2, r1, a1, o1, u1, x1, x2, e1

MCBodies == {"wide", "narrow", "boot", "broken"}
MCInvalidBodies == {"broken"}

Rule(c, o, active, body) == [cone |-> c, obj |-> o, active |-> active, body |-> body]
Window(c, from, until) == [cone |-> c, user |-> u1, from |-> from, until |-> until]

\* A cone that is in force and assigned to the only subject, and has no rule yet.
NoRulePolicies ==
    {[cones |-> [c \in Cones |-> IF c = c1 THEN "active" ELSE "absent"],
      rules |-> [r \in Rules |-> None],
      assigns |-> [a \in Assigns |-> IF a = a1 THEN Window(c1, 0, MaxTime) ELSE None]]}

OneRuleInputs == {Rule(c1, o1, TRUE, "wide")}
OneAssignInputs == {Window(c1, 0, MaxTime)}
=============================================================================
