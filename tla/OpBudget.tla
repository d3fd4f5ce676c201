------------------------------ MODULE OpBudget ------------------------------
(***************************************************************************)
(* What a limit on the operations of an execution promises: operations are *)
(* recorded one at a time and never past the limit, and a call is refused  *)
(* when, and only when, all of them are used.                              *)
(***************************************************************************)
EXTENDS Naturals

CONSTANT Limit

VARIABLES
    used,      \* operations recorded
    refused    \* calls refused for the limit

BudgetInit == used = 0 /\ refused = 0

Use == used < Limit /\ used' = used + 1 /\ UNCHANGED refused

Refuse == used = Limit /\ refused' = refused + 1 /\ UNCHANGED used

BudgetSpec == BudgetInit /\ [][Use \/ Refuse]_<<used, refused>>
=============================================================================
