----------------------------- MODULE EntityPage -----------------------------
(* What the pages of entities keep alike, the list and the pages of a record. *)
EXTENDS Browser

VARIABLES
    url, target,      \* where the browser is; where a navigation leads to
    loading, error,   \* of the page that is open
    behind            \* whether its last answer came after that of a later request
=============================================================================
