------------------------- MODULE VisibilityFreshness -------------------------
(***************************************************************************)
(* What an evaluation may answer, whatever was committed while it ran: a   *)
(* history of the moments of each request, and the bounds they put on its  *)
(* answer.  The steps are those of VisibilityPolicy; only the history is   *)
(* added, and it restricts nothing.                                        *)
(***************************************************************************)
EXTENDS VisibilityPolicy

VARIABLE past    \* per evaluation, what its moments so far had in common or saw

fvars == <<vars, past>>

\* What the tables say of a request now; a scope is cached for a
\* while, so an assignment counts if it was valid at some instant up to now.
\*   active, live, assigned: cones enabled, rules in force on its object, cones
\*     assigned to its subject; standing: what it was entitled to at every instant;
\*   broken: rules in force that do not compile; sound: whether there is none;
\*   blind: whether it reads the caches under a version that is not the object's.
Moment(q) ==
    LET d == LiveDefinition(q.obj)
    IN  [active |-> {c \in Cones : cones[c] = "active"},
         live |-> EntriesOf(q.obj, Cones),
         assigned |-> UNION {AssignedCones(q.user, t) : t \in 0 .. now},
         standing |-> {e \in d.entries :
                        \A t \in 0 .. now : e.cone \in AssignedCones(q.user, t)},
         broken |-> {e \in EntriesOf(q.obj, SelectedCones(q.obj)) : e.body \in InvalidBodies},
         sound |-> d.status = "READY",
         blind |-> q.ver # objVersion[q.obj]]

\* Union of what was seen at some moment, intersection of what held at all; whether
\* it is blind is settled when it begins.
Extend(p, m) ==
    [active |-> p.active \cup m.active,
     live |-> p.live \cup m.live,
     assigned |-> p.assigned \cup m.assigned,
     standing |-> p.standing \cap m.standing,
     broken |-> p.broken \cap m.broken,
     sound |-> p.sound /\ m.sound,
     blind |-> p.blind]

FInit == Init /\ past = [r \in Readers |-> None]

Remember ==
    past' = [r \in Readers |->
                IF pc'[r] = "idle" THEN None
                ELSE IF pc[r] = "idle" THEN Moment(req[r])'
                ELSE IF pc[r] \in {"served", "invalid", "failed"} THEN past[r]
                ELSE Extend(past[r], Moment(req[r])')]

FNext == Next /\ Remember

FSpec == FInit /\ [][FNext]_fvars

-----------------------------------------------------------------------------
\* An answer lies between what stood throughout the request and what was in force
\* at some moment of it: a change committed before the request began is honoured,
\* through both caches, and no interleaving drops a DENY that nobody touched.  While a
\* rule that does not compile is in force nothing is answered, from a cache or live,
\* and an object whose policy is valid throughout is not refused as invalid (evaluate).
\* Exempt is an evaluation whose own read of the version failed, which goes on with
\* the rows of version 1 (getObjectPolicyVersion): what it files there must not reach
\* the others.
AnswersTheRequest ==
    \A r \in Readers :
        pc[r] # "idle" /\ ~past[r].blind =>
            /\ pc[r] = "served" =>
                /\ past[r].broken = {}
                /\ past[r].standing \subseteq scope[r]
                /\ \A e \in scope[r] :
                    /\ e \in past[r].live
                    /\ e.cone \in past[r].active
                    /\ e.cone \in past[r].assigned
            /\ pc[r] = "invalid" => ~past[r].sound
=============================================================================
