---------------------------- MODULE MCSupervisor ----------------------------
(* SupervisorLoop over one or two accounts.                                *)
EXTENDS SupervisorLoop

CONSTANTS a1, a2

OneAccount == {a1}
TwoAccounts == {a1, a2}
=============================================================================
