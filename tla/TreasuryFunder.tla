--------------------------- MODULE TreasuryFunder ---------------------------
(***************************************************************************)
(* The auto-refill: Supervisor.refreshBalances() calls maybeTopUp() for    *)
(* every account below minBalanceWei, all of them at once, and             *)
(* TreasuryFunder sends native gas from the treasury account, whose nonces *)
(* come from a NonceLane (src/src/balance/treasury-funder.ts,              *)
(* src/src/account/nonce-lane.ts).  Calls are cut at their awaits.         *)
(*                                                                         *)
(* The next pass starts when every call of the last one has settled, so    *)
(* one account's calls never overlap (SupervisorLoop, SingleLoop).         *)
(* Marks, lane and calls live in memory and go with the process; what was  *)
(* gossiped stays.  Balances are counted in units of the gas price's       *)
(* worth; the chain side (Mine, Drain, how a send is answered) is external.*)
(***************************************************************************)
EXTENDS Integers, Sequences, FiniteSets, FiniteSetsExt

CONSTANTS
    Recipients,  \* the pool's accounts
    MinBalance,  \* minBalanceWei of the supervisor
    Target,      \* targetBalanceWei
    Floor,       \* minTreasuryWei
    GasCost,     \* TRANSFER_GAS times the gas price
    Funds,       \* what the treasury starts with
    Budget       \* bound: faults of each kind, and times a balance is drained

FaultKinds == {"rpc", "lost", "crash", "drain"}

ASSUME AmountsAssumption ==
    /\ {MinBalance, Target, Floor, GasCost, Funds} \subseteq Nat
    /\ MinBalance <= Target
ASSUME FiniteAssumption == IsFiniteSet(Recipients)
ASSUME BudgetAssumption == Budget \in [FaultKinds -> Nat]

VARIABLES
    bal,       \* mined balance of each recipient
    treasury,  \* mined balance of the treasury
    wire,      \* the treasury's gossiped, unmined transfers
    mined,     \* the treasury's mined transaction count
    pending,   \* TreasuryFunder.pending
    cursor,    \* NonceLane.cursor
    queue,     \* turns chained on NonceLane.tail
    pc,        \* where each account's part of the pass stands
    amount,    \* what the call decided to send
    nonce,     \* the nonce its turn was given
    forgotten, \* history: recipients of a transfer that went out unmarked
    faults     \* faults and drains still allowed

chainVars == <<bal, treasury, wire, mined>>
laneVars == <<cursor, queue>>
callVars == <<pc, amount, nonce>>
vars == <<chainVars, pending, laneVars, callVars, forgotten, faults>>

Undefined == -1
InTurn == {"counting", "sending", "drift"}
Committed == {"pricing", "queued"} \cup InTurn
Transfer == [to : Recipients, value : Nat, nonce : Nat]

\* A call that is past its first checks has something to send.
TypeOK ==
    /\ bal \in [Recipients -> Nat]
    /\ treasury \in Nat /\ mined \in Nat
    /\ wire \in SUBSET Transfer
    /\ pending \in SUBSET Recipients
    /\ cursor \in {Undefined} \cup Nat
    /\ queue \in Seq(Recipients)
    /\ pc \in [Recipients -> {"settled", "due", "called"} \cup Committed]
    /\ amount \in [Recipients -> 0 .. Target]
    /\ \A r \in Recipients : pc[r] \in Committed => amount[r] > 0
    /\ nonce \in [Recipients -> Nat]
    /\ forgotten \in SUBSET Recipients
    /\ faults \in [FaultKinds -> Nat]

Init ==
    /\ bal = [r \in Recipients |-> MinBalance] /\ treasury = Funds
    /\ wire = {} /\ mined = 0
    /\ pending = {} /\ cursor = Undefined /\ queue = <<>>
    /\ pc = [r \in Recipients |-> "settled"]
    /\ amount = [r \in Recipients |-> 0] /\ nonce = [r \in Recipients |-> 0]
    /\ forgotten = {} /\ faults = Budget

Spend(kind) ==
    /\ faults[kind] > 0
    /\ faults' = [faults EXCEPT ![kind] = @ - 1]

MovePc(r, to) == pc' = [pc EXCEPT ![r] = to]

----------------------------------------------------------------------------
(* The treasury's node.                                                    *)

Held(n) == {t \in wire : t.nonce = n}
PendingCount == mined + Cardinality(wire)
CanPay(v) == treasury >= v + GasCost

\* A free nonce is taken, and so is a held one if the new fee outbids it.
Accepts(n) == n >= mined
Drifts(n) == n < mined \/ Held(n) # {}
Gossip(t) == wire' = (wire \ Held(t.nonce)) \cup {t}

MineTransfer(t) ==
    /\ t \in wire /\ t.nonce = mined /\ CanPay(t.value)
    /\ wire' = wire \ {t}
    /\ mined' = mined + 1
    /\ bal' = [bal EXCEPT ![t.to] = @ + t.value]
    /\ treasury' = treasury - t.value - GasCost
    /\ UNCHANGED <<pending, laneVars, callVars, forgotten, faults>>

\* An account pays for its own transactions.
Drain(r) ==
    /\ bal[r] > 0
    /\ Spend("drain")
    /\ bal' = [bal EXCEPT ![r] = @ - 1]
    /\ UNCHANGED <<treasury, wire, mined, pending, laneVars, callVars, forgotten>>

----------------------------------------------------------------------------
(* refreshBalances(), up to the call of maybeTopUp().                      *)

PassStart ==
    /\ \A r \in Recipients : pc[r] = "settled"
    /\ pc' = [r \in Recipients |-> "due"]
    /\ UNCHANGED <<chainVars, pending, laneVars, amount, nonce, forgotten, faults>>

CheckBalance(r) ==
    /\ pc[r] = "due"
    /\ MovePc(r, IF bal[r] < MinBalance THEN "called" ELSE "settled")
    /\ UNCHANGED <<chainVars, pending, laneVars, amount, nonce, forgotten, faults>>

\* getBalance or the fee oracle throws: nothing was decided yet.
CallFails(r) ==
    /\ pc[r] \in {"due", "called", "pricing"}
    /\ Spend("rpc")
    /\ MovePc(r, "settled")
    /\ UNCHANGED <<chainVars, pending, laneVars, amount, nonce, forgotten>>

----------------------------------------------------------------------------
(* maybeTopUp().                                                           *)

\* Bug: the recipient may have recovered since the supervisor looked.
NeverRecovered(r) == FALSE
Recovered(r) == bal[r] >= Target

\* Bug: a recipient is funded again while its top-up is on the wire.
NeverPending(r) == FALSE
AlreadyPending(r) == r \in pending

AlreadyRecovered(r) ==
    /\ pc[r] = "called" /\ Recovered(r)
    /\ pending' = pending \ {r}
    /\ MovePc(r, "settled")
    /\ UNCHANGED <<chainVars, laneVars, amount, nonce, forgotten, faults>>

AwaitsTopUp(r) ==
    /\ pc[r] = "called" /\ ~Recovered(r) /\ AlreadyPending(r)
    /\ MovePc(r, "settled")
    /\ UNCHANGED <<chainVars, pending, laneVars, amount, nonce, forgotten, faults>>

WantsTopUp(r) ==
    /\ pc[r] = "called" /\ ~Recovered(r) /\ ~AlreadyPending(r)
    /\ amount' = [amount EXCEPT ![r] = Target - bal[r]]
    /\ MovePc(r, "pricing")
    /\ UNCHANGED <<chainVars, pending, laneVars, nonce, forgotten, faults>>

\* Bug: the floor is left out of the sum.
CoversSend(r) == treasury >= amount[r] + GasCost
Affordable(r) == treasury >= amount[r] + GasCost + Floor

\* The fee is known; the treasury's balance is read and compared.
Refuse(r) ==
    /\ pc[r] = "pricing" /\ ~Affordable(r)
    /\ MovePc(r, "settled")
    /\ UNCHANGED <<chainVars, pending, laneVars, amount, nonce, forgotten, faults>>

Commit(r) ==
    /\ pc[r] = "pricing" /\ Affordable(r)
    /\ pending' = pending \cup {r}
    /\ queue' = Append(queue, r)
    /\ MovePc(r, "queued")
    /\ UNCHANGED <<chainVars, cursor, amount, nonce, forgotten, faults>>

----------------------------------------------------------------------------
(* NonceLane.withNextNonce() around the send.                              *)

\* Bug: turns do not wait for each other.
NoMutex == TRUE
LaneFree == \A r \in Recipients : pc[r] \notin InTurn

TakeTurn(r) ==
    /\ queue # <<>> /\ r = Head(queue) /\ LaneFree
    /\ queue' = Tail(queue)
    /\ IF cursor = Undefined
       THEN MovePc(r, "counting") /\ UNCHANGED nonce
       ELSE MovePc(r, "sending") /\ nonce' = [nonce EXCEPT ![r] = cursor]
    /\ UNCHANGED <<chainVars, pending, cursor, amount, forgotten, faults>>

\* Bug: a recipient whose top-up could not be sent stays marked.
StillMarked(r) == pending
\* The catch block clears the mark, so that the next pass tries again.
Unmarked(r) == pending \ {r}

\* Bug: a nonce is passed over even when its send failed.
AdvanceAnyway(r) ==
    /\ pending' = pending \ {r}
    /\ MovePc(r, "settled")
    /\ cursor' = nonce[r] + 1

\* An error other than nonce drift leaves the cursor: the nonce is reused.
TurnFails(r) ==
    /\ pending' = Unmarked(r)
    /\ MovePc(r, "settled")
    /\ UNCHANGED cursor

CountNonce(r) ==
    /\ pc[r] = "counting"
    /\ \/ /\ nonce' = [nonce EXCEPT ![r] = PendingCount]
          /\ MovePc(r, "sending")
          /\ UNCHANGED <<pending, cursor, faults>>
       \/ /\ Spend("rpc")
          /\ TurnFails(r)
          /\ UNCHANGED nonce
    /\ UNCHANGED <<chainVars, queue, amount, forgotten>>

Send(r) ==
    LET t == [to |-> r, value |-> amount[r], nonce |-> nonce[r]] IN
    /\ pc[r] = "sending"
    /\ \/ /\ Accepts(nonce[r]) /\ CanPay(amount[r])
          /\ Gossip(t)
          /\ cursor' = nonce[r] + 1
          /\ MovePc(r, "settled")
          /\ UNCHANGED <<pending, forgotten, faults>>
       \/ /\ Drifts(nonce[r])
          /\ MovePc(r, "drift")
          /\ UNCHANGED <<wire, pending, cursor, forgotten, faults>>
       \/ /\ ~CanPay(amount[r])                 \* "insufficient funds"
          /\ TurnFails(r)
          /\ UNCHANGED <<wire, forgotten, faults>>
       \/ /\ Spend("rpc")                       \* the request never arrived
          /\ TurnFails(r)
          /\ UNCHANGED <<wire, forgotten>>
       \/ /\ Spend("lost")                      \* the reply never arrived
          /\ Accepts(nonce[r]) /\ CanPay(amount[r])
          /\ Gossip(t)
          /\ TurnFails(r)
          /\ forgotten' = forgotten \cup {r}
    /\ UNCHANGED <<bal, treasury, mined, queue, amount, nonce>>

\* On drift the cursor passes this nonce; the chain's count is 0 when that
\* call fails too.
PassNonce(r) ==
    /\ pc[r] = "drift"
    /\ \/ cursor' = Max({PendingCount, nonce[r] + 1}) /\ UNCHANGED faults
       \/ Spend("rpc") /\ cursor' = nonce[r] + 1
    /\ pending' = Unmarked(r)
    /\ MovePc(r, "settled")
    /\ UNCHANGED <<chainVars, queue, amount, nonce, forgotten>>

----------------------------------------------------------------------------
(* The process dies and a new TreasuryFunder is constructed.  One that     *)
(* dies while a request is under way is a lost reply followed by this.     *)

\* Nothing restores the marks: what is on the wire is forgotten.
Restart ==
    /\ Spend("crash")
    /\ pending' = {} /\ cursor' = Undefined /\ queue' = <<>>
    /\ pc' = [r \in Recipients |-> "settled"]
    /\ forgotten' = forgotten \cup {t.to : t \in wire}
    /\ UNCHANGED <<chainVars, amount, nonce>>

CallStep(r) ==
    \/ CheckBalance(r) \/ CallFails(r)
    \/ AlreadyRecovered(r) \/ AwaitsTopUp(r) \/ WantsTopUp(r)
    \/ Refuse(r) \/ Commit(r)
    \/ TakeTurn(r) \/ CountNonce(r) \/ Send(r) \/ PassNonce(r)

ChainMines == \E t \in wire : MineTransfer(t)

Next ==
    \/ PassStart
    \/ \E r \in Recipients : CallStep(r) \/ Drain(r)
    \/ ChainMines
    \/ Restart

Spec == Init /\ [][Next]_vars

\* The supervisor goes on passing, promises settle, and the chain mines.
FairSpec ==
    /\ Spec
    /\ WF_vars(PassStart)
    /\ \A r \in Recipients : WF_vars(CallStep(r))
    /\ WF_vars(ChainMines)

----------------------------------------------------------------------------
(* treasury-funder.ts: "we never double-fund while the first top-up is     *)
(* still in the mempool".  This holds of a recipient until one of its      *)
(* top-ups is out without a mark: the marks are in memory only and go with *)
(* the process, and the catch block clears the mark of a transfer that did *)
(* go out when only the reply to it was lost.                              *)
OneTopUpInFlight ==
    \A r \in Recipients \ forgotten : Cardinality({t \in wire : t.to = r}) <= 1

(* treasury-funder.ts: "we never spend the treasury below it", the floor.  *)
(* Parallel calls compare the same mined balance, so what is spent leaves  *)
(* the floor up to one transfer for every recipient but the first, and     *)
(* exactly for one recipient.  It holds until a top-up is forgotten, by a  *)
(* restart or a lost reply: the next one to that recipient is compared     *)
(* with a balance the forgotten one was not taken from yet.                *)
FloorAllButShared ==
    forgotten = {} /\ treasury < Funds =>
        treasury + (Cardinality(Recipients) - 1) * (Target + GasCost) >= Floor

(* nonce-lane.ts: "a failed send reuses the nonce -- no gap".  A transfer  *)
(* on the wire never waits behind a nonce that no transfer holds.          *)
NoTransferBlocked ==
    \A t \in wire : \A n \in mined .. t.nonce : Held(n) # {}

\* The mark a call left when it settled, not one of a call under way.
Marked(r) == r \in pending /\ pc[r] \notin {"queued"} \cup InTurn

(* A transfer whose call succeeded leaves the wire only by being mined: no *)
(* later turn, for whichever recipient, is given its nonce.                *)
SentStaysSent ==
    [][\A t \in wire : Marked(t.to) => t \in wire' \/ mined' > t.nonce]_vars

Poor(r) == treasury < Target - bal[r] + GasCost + Floor

(* A recipient that runs low and has no top-up under way gets one, however *)
(* calls fail meanwhile, while the treasury can pay.                       *)
LowIsFunded ==
    \A r \in Recipients :
        (bal[r] < MinBalance /\ r \notin pending) ~> (bal[r] >= MinBalance \/ Poor(r))

(* treasury-funder.ts: a recipient stays in `pending` "until a later       *)
(* balance check shows it recovered": the second time it runs low it is    *)
(* funded as it was the first time.                                        *)
LowIsFundedAgain == \A r \in Recipients : bal[r] < MinBalance ~> (bal[r] >= MinBalance \/ Poor(r))
=============================================================================
