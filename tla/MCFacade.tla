------------------------------ MODULE MCFacade ------------------------------
(* PoolFacade with two accounts and jobs of one or two lines.              *)
EXTENDS PoolFacade

CONSTANTS j1, j2, j3, a, b, x, y, w1

ThreeJobs == {j1, j2, j3}
TwoAccounts == {a, b}
TwoLines == {x, y}
OneWaiter == {w1}
LastReattached == {j3}
TwoAndOne == [j \in ThreeJobs |-> IF j = j3 THEN y ELSE x]

CrashAndStore == [crash |-> 1, store |-> 1]
\* "reverted" is to the bus what "failed" is.
GoodOrBad == {"confirmed", "failed"}
=============================================================================
