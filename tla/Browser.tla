------------------------------ MODULE Browser ------------------------------
(* What the models of the browser share: the bounds of one behaviour, on what *)
(* the user does and on what goes wrong.                                      *)
EXTENDS Integers

CONSTANTS MaxActs, MaxFaults, None

VARIABLES acts, faults

Acts == acts < MaxActs /\ acts' = acts + 1 /\ UNCHANGED faults
Fails == faults < MaxFaults /\ faults' = faults + 1 /\ UNCHANGED acts
Works == UNCHANGED <<acts, faults>>
=============================================================================
