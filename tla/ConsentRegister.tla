--------------------------- MODULE ConsentRegister ---------------------------
(***************************************************************************)
(* What the default-mode consent sender promises the service, which keeps  *)
(* the last decision it is told: decisions are told in the order they were *)
(* taken, each at most once, older ones may be skipped, and the newest is  *)
(* always told in the end.                                                 *)
(***************************************************************************)
EXTENDS Naturals

VARIABLES decided,   \* number of decisions taken so far
          told       \* the last one told to the service, 0 for none

RegisterInit == decided = 0 /\ told = 0

Decide == decided' = decided + 1 /\ UNCHANGED told

Tell == /\ told < decided
        /\ told' \in told + 1 .. decided
        /\ UNCHANGED decided

\* What holds at every moment; that the newest is told is the fairness.
RegisterSafety == RegisterInit /\ [][Decide \/ Tell]_<<decided, told>>

RegisterSpec == RegisterSafety /\ WF_<<decided, told>>(Tell)
=============================================================================
