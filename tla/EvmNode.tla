------------------------------ MODULE EvmNode ------------------------------
(***************************************************************************)
(* The chain as walletsforce sees it, for ONE account: the replies that    *)
(* sendRawTransaction, getTransactionReceipt, getTransactionCount and      *)
(* getBlockNumber give, and what the network does between two calls.  This *)
(* is an external component: it is not part of the repository, and is      *)
(* modelled from how src/src/account and src/src/chain use it and from     *)
(* the error texts src/src/chain/classify.ts recognises.                   *)
(*                                                                         *)
(* A transaction is identified by (job, nonce, attempt): two signatures of *)
(* the same job at different fee levels are two hashes, and a re-sign of   *)
(* the same attempt is the same hash.  Only transactions of this account   *)
(* appear, at most one in a block; a block without one is empty.           *)
(***************************************************************************)
EXTENDS Integers, FiniteSets

CONSTANTS
    Keys,       \* idempotency keys of everything this account ever sends
    ChainBase,  \* nonces the account had used before this deployment started
    Confirmations,  \* deps.confirmations: so deep a block is never orphaned
    IdleHeight  \* bound: up to here blocks pass by the account at any time

ASSUME ChainBaseAssumption == ChainBase \in Nat
ASSUME DepthAssumption == Confirmations \in Nat \ {0} /\ IdleHeight \in Nat

VARIABLES
    network,  \* every gossiped, unmined version; a miner may still hold an
              \* old version after this node's mempool replaced it
    mined,    \* [tx, ok, block]: the canonical chain's transactions, with
              \* the receipt's status ("success" or not) and blockNumber
    next,     \* the account's first unmined nonce ("latest" count)
    height,   \* number of the newest block
    buried    \* newest block that ever was Confirmations deep

nodeVars == <<network, mined, next, height, buried>>

Tx == [job : Keys, nonce : Nat, attempt : Nat]
Receipt == [tx : Tx, ok : BOOLEAN, block : Nat]

NodeTypeOK ==
    /\ network \in SUBSET Tx
    /\ mined \in SUBSET Receipt
    /\ next \in Nat
    /\ height \in Nat \ {0}
    /\ buried \in Nat \ {0}

NodeInit ==
    /\ network = {}
    /\ mined = {}
    /\ next = ChainBase
    /\ height = 1
    /\ buried = 1

----------------------------------------------------------------------------
(* What a call returns.                                                    *)

Versions(n) == {u \in network : u.nonce = n}

\* getTransactionCount(address, "pending"): the first nonce from `next` on
\* that no transaction holds.  A singleton, used as \E c \in PendingCounts.
PendingCounts ==
    {c \in {next} \cup {u.nonce + 1 : u \in network} :
        /\ c >= next
        /\ Versions(c) = {}
        /\ \A n \in next .. (c - 1) : Versions(n) # {}}

\* The node takes the transaction: the nonce is unused, or it replaces an
\* earlier version.  Against ANOTHER job at the nonce the fees decide, which
\* the model leaves open: both Accepts and Drifts hold.
Accepts(t) ==
    /\ t.nonce >= next
    /\ \A u \in Versions(t.nonce) : u.job = t.job => u.attempt < t.attempt

\* The node answers one of classify.ts's NONCE texts: "nonce too low",
\* "already known" or "replacement transaction underpriced".
Drifts(t) ==
    \/ t.nonce < next
    \/ \E u \in Versions(t.nonce) : u.job = t.job => u.attempt >= t.attempt

Receipts(t) == {m \in mined : m.tx = t}

----------------------------------------------------------------------------
(* What the network does on its own.                                       *)

\* A block is appended; the one Confirmations - 1 below it is buried.
AppendBlock ==
    /\ height' = height + 1
    /\ buried' = IF height' - Confirmations + 1 > buried
                  THEN height' - Confirmations + 1
                  ELSE buried

\* Some version of the next nonce is mined; its siblings become invalid.
Mine(u, ok) ==
    /\ u \in network
    /\ u.nonce = next
    /\ AppendBlock
    /\ mined' = mined \cup {[tx |-> u, ok |-> ok, block |-> height']}
    /\ network' = network \ Versions(next)
    /\ next' = next + 1

\* A block without a transaction of the account.  Bound: above IdleHeight
\* only until every transaction is buried.
EmptyBlock ==
    /\ height < IdleHeight \/ \E m \in mined : m.block > buried
    /\ AppendBlock
    /\ UNCHANGED <<network, mined, next>>

\* The newest block is orphaned, unless it is buried.  The transaction it
\* held, the account's last, is gossiped again and may be mined anew, in
\* another block and with another outcome.
Reorg ==
    /\ height > buried
    /\ height' = height - 1
    /\ \/ \E m \in mined :
              /\ m.block = height /\ m.tx.nonce + 1 = next
              /\ mined' = mined \ {m}
              /\ network' = network \cup {m.tx}
              /\ next' = m.tx.nonce
       \/ /\ \A m \in mined : m.block # height
          /\ UNCHANGED <<network, mined, next>>
    /\ UNCHANGED buried

\* Every mempool forgets the transaction.
Evict(u) ==
    /\ u \in network
    /\ network' = network \ {u}
    /\ UNCHANGED <<mined, next, height, buried>>
=============================================================================
