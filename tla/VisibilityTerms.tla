--------------------------- MODULE VisibilityTerms ---------------------------
(* What the policy tables and the decision about one subject both speak of. *)
CONSTANTS
    Cones,
    None             \* the absent row, request, selector, predicate or field list
=============================================================================
