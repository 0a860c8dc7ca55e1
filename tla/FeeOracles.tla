----------------------------- MODULE FeeOracles -----------------------------
(***************************************************************************)
(* The two fee oracles (src/src/fee/legacy.ts, src/src/fee/eip1559.ts) and *)
(* the replacement rule of the node they are up against.  Prices are wei;  *)
(* division is integer division, as it is on bigint.                       *)
(***************************************************************************)
EXTENDS Integers

CONSTANTS
    MinGasPrice, \* minGasPriceWei of the legacy oracle
    Tip,         \* priorityFeeWei of the EIP-1559 oracle
    HeadroomNum, HeadroomDen, \* its base-fee headroom
    BumpNum, BumpDen          \* replacement bump of both

ASSUME PricesAssumption == {MinGasPrice, Tip, HeadroomNum, BumpNum} \subseteq Nat
ASSUME RatiosAssumption == {HeadroomDen, BumpDen} \subseteq Nat \ {0}

Legacy(price) == [type |-> "legacy", gasPrice |-> price]
Eip1559(cap, tip) ==
    [type |-> "eip1559", maxFeePerGas |-> cap, maxPriorityFeePerGas |-> tip]

FeeFields ==
    [type : {"legacy"}, gasPrice : Nat]
    \cup [type : {"eip1559"}, maxFeePerGas : Nat, maxPriorityFeePerGas : Nat]

Raised(price) == (price * BumpNum) \div BumpDen

LegacyEstimate == Legacy(MinGasPrice)
\* The configured floor applies to a bump as well.
LegacyBump(fees) ==
    Legacy(IF Raised(fees.gasPrice) > MinGasPrice THEN Raised(fees.gasPrice) ELSE MinGasPrice)

\* A client that cannot tell the base fee counts as 0.
Eip1559Estimate(base) == Eip1559((base * HeadroomNum) \div HeadroomDen + Tip, Tip)

\* Bug: only the cap is raised.
CapRaised(fees) == Eip1559(Raised(fees.maxFeePerGas), fees.maxPriorityFeePerGas)
Eip1559Bump(fees) == Eip1559(Raised(fees.maxFeePerGas), Raised(fees.maxPriorityFeePerGas))

Estimate(oracle, base) == IF oracle = "legacy" THEN LegacyEstimate ELSE Eip1559Estimate(base)

\* bump() throws for the other kind of fees.
Bumps(oracle, fees) == fees.type = oracle
Bump(fees) == IF fees.type = "legacy" THEN LegacyBump(fees) ELSE Eip1559Bump(fees)

----------------------------------------------------------------------------
(* The node: go-ethereum's rule, "geth's 10% min" in fee/index.ts.  Both   *)
(* prices of a replacement must be higher, and by a tenth; a legacy        *)
(* transaction counts with its gas price as both.                          *)

NodeBumpPercent == 10

PriceOutbids(new, old) ==
    new > old /\ new >= (old * (100 + NodeBumpPercent)) \div 100

Cap(fees) == IF fees.type = "legacy" THEN fees.gasPrice ELSE fees.maxFeePerGas
TipOf(fees) == IF fees.type = "legacy" THEN fees.gasPrice ELSE fees.maxPriorityFeePerGas

Outbids(new, old) ==
    PriceOutbids(Cap(new), Cap(old)) /\ PriceOutbids(TipOf(new), TipOf(old))
=============================================================================
