--------------------------- MODULE LaneInvariant ---------------------------
(***************************************************************************)
(* Why the nonces of an account are distinct, tracked, bounded in number   *)
(* and without a gap: what the cursor, the in-flight set, the turn that    *)
(* holds the lane and the stored rows say of each other.  IInv is about    *)
(* one record; the invariants here relate the records of different jobs.   *)
(***************************************************************************)
EXTENDS AccountInvariant

(* What they take.  A store that fails after a send leaves a live row that *)
(* the lane knows nothing of (the run SharedNonce), and reattach() puts    *)
(* records beside the cap and the lane.                                    *)
NeverFaults(kind) == \A b \in Budgets : b[kind] = 0
OwnJobsOnly == Keys = Jobs

\* A job that has, or may still get, the nonce of its row.
Occupies(k) == row[k].status \in Active \/ CachedFor(k) # {}

\* One turn at a time, and its row carries the nonce it was given.
TurnInv ==
    /\ \A j, k \in Keys : pc[j] \in InTurn /\ pc[k] \in InTurn => j = k
    /\ \A k \in Keys : pc[k] \in InTurn \ {"estimating"} => row[k].nonce = alloc[k]
    /\ \A k \in Keys : pc[k] = "reseed" => row[k].status = "failed"

\* The cursor is past every nonce in use, and so is what a turn was given:
\* it may set the cursor back to the next one when it ends.
LaneInv ==
    /\ \A x, y \in inflight : x.nonce = y.nonce => x = y
    /\ \A j, k \in Keys : Occupies(j) /\ Occupies(k) /\ row[j].nonce = row[k].nonce => j = k
    /\ phase # "down" =>
          \A k \in Keys : Occupies(k) /\ pc[k] \notin InTurn => row[k].nonce < cursor
    /\ \A k \in Keys : pc[k] \in InTurn =>
          /\ alloc[k] <= cursor
          /\ \A j \in Keys \ {k} : Occupies(j) => row[j].nonce < alloc[k]

\* A record that is being written is still cached under its nonce, so that
\* dropping that nonce drops no other job's record.
TrackInv ==
    /\ ActiveRowsTracked
    /\ step = "cache" => \A w \in work : CachedFor(w.job) # {}

\* The turn that holds the lane has its place under the cap already.
Claimed == {k \in Keys : Occupies(k) \/ pc[k] \in InTurn}

CapInv ==
    /\ IsFiniteSet(inflight) /\ IsFiniteSet(Claimed)
    /\ Cardinality(Claimed) <= MaxInflight

----------------------------------------------------------------------------
(* No gaps, as long as mempools forget nothing and a record that was never *)
(* sent is not given up (MaxAttempts > 1).                                 *)

OutThere(n) == n < next \/ Versions(n) # {}

\* The nonce is used, or a record that the tick or a restart will send has it.
Accounted(n) ==
    \/ OutThere(n)
    \/ \E k \in Keys : row[k].status \in Active /\ pc[k] \notin InTurn /\ row[k].nonce = n

\* What was replaced, settled, answered with drift or seen mined is out there.
SentInv ==
    /\ \A k \in Keys : row[k].attempts > 1 => OutThere(row[k].nonce)
    /\ \A r \in outbox : r.attempts > 1 => OutThere(r.nonce)
    /\ step \in {"store", "cache"} =>
          \A w \in work : w.attempts > 1 \/ w.status \in Terminal => OutThere(w.nonce)
    /\ \A k \in Keys : pc[k] \in {"drift", "reseed"} => OutThere(alloc[k])
    /\ \A m \in seen : OutThere(m.tx.nonce)

\* Below every cursor, in memory, stored or still to be computed from the
\* rows by a restart, all nonces are accounted for.
BelowInv ==
    /\ \A n \in Nat : n < cursor \/ n < savedCursor => Accounted(n)
    /\ \A k \in Keys : pc[k] \in InTurn => \A n \in Nat : n < alloc[k] => Accounted(n)
    /\ \A k \in Keys :
          row[k].status \in Active => \A n \in Nat : n < row[k].nonce => Accounted(n)
=============================================================================
