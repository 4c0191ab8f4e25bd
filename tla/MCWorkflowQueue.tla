-------------------------- MODULE MCWorkflowQueue --------------------------
(***************************************************************************)
(* Small instances of WorkflowQueue for TLC.  Jobs are numbered in the     *)
(* order of their insertion.                                               *)
(***************************************************************************)
EXTENDS WorkflowQueue, TLC

CONSTANTS l1, l2, l3

Leases == {l1, l2, l3}
LeaseSymmetry == Permutations(Leases)

\* Job 2, a cleanup that a request starts, is more urgent than background work.
Priorities == [j \in Job |-> IF j = 2 THEN 50 ELSE 0]

Once(occasions) == [o \in Occasion |-> IF o \in occasions THEN 1 ELSE 0]

NoBudgets == {Once({})}
StopBudgets == {Once({"crash", "stop"}), Once({"retry"})}
ProgressBudgets ==
    {Once({"stop", "defer"}), Once({"lost"}), Once({"retry"}), Once({"crash", "defer"}), Once({"crash", "recover"})}
RequestBudgets == {Once({"crash"}), Once({"retry"}), Once({"lost"})}
LeasePair == {l1, l2}
OneLease == {l1}
=============================================================================
