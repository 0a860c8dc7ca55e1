----------------------------- MODULE MCTreasury -----------------------------
(* TreasuryFunder with one or two recipients and a small treasury.         *)
EXTENDS TreasuryFunder, TLC

CONSTANTS r1, r2

OneRecipient == {r1}
TwoRecipients == {r1, r2}

Chances(rpc, lost, crash, drain) ==
    [kind \in FaultKinds |->
        CASE kind = "rpc" -> rpc [] kind = "lost" -> lost
          [] kind = "crash" -> crash [] kind = "drain" -> drain]

FourDrains == Chances(0, 0, 0, 4)
AllFaults == Chances(1, 1, 1, 4)
=============================================================================
