-------------------------- MODULE AccountInvariant --------------------------
(***************************************************************************)
(* The inductive invariant of ManagedAccount.  The safety properties name  *)
(* what must never happen; the conjuncts here say why it does not: who may *)
(* hold a record, and how what is held relates to the stored row.          *)
(***************************************************************************)
EXTENDS ManagedAccount

\* A nonce a transaction of key k may carry: its row's, or, for a reattached
\* key, the one the other program used.
NonceOf(k) == IF k \in Jobs THEN row[k].nonce ELSE alloc[k]

PhaseInv ==
    /\ phase # "up" =>
        /\ step = "idle"
        /\ \A k \in Keys : pc[k] \in {"idle", "abroad"} \cup Done
    /\ phase = "down" => inflight = {}
    /\ outbox # {} => phase = "restoring"

\* The tick holds a successor record exactly while it writes one.
StepInv ==
    /\ step = "idle" => todo = {}
    /\ step \in {"idle", "poll", "head"} => work = {}
    /\ \A v, w \in work : v = w

\* The row is the one the call that owns the key has written so far.
RowInv ==
    \A k \in Keys :
        /\ row[k].job = k
        /\ pc[k] \in {"idle", "queued", "estimating", "abroad"} => row[k].status = "absent"
        /\ pc[k] \in {"ahead", "sent", "drift", "error"} => row[k].status = "pending"
        /\ pc[k] = "reseed" => row[k].status \in {"pending", "failed"}
        /\ pc[k] \in {"stored", "recorded"} => row[k].status = "broadcast"
        /\ pc[k] \in {"abroad", "recorded"} => k \notin Jobs
        /\ pc[k] \in {"queued"} \cup InTurn => k \in Jobs
        /\ k \notin Jobs => row[k].status # "pending"
        /\ k \notin Jobs /\ row[k].status # "absent" => row[k].nonce = alloc[k]

\* Cache and snapshot hold live records of finished calls, as stored; one
\* cached record may lag behind the row the tick has just written.
HeldInv ==
    /\ \A r \in inflight \cup todo :
        r.status \in Active /\ r.nonce = row[r.job].nonce /\ pc[r.job] \in Done
    /\ \A r \in inflight : row[r.job] = r \/ (step = "cache" /\ row[r.job] \in work)
    /\ \A r \in todo : row[r.job] = r

\* The record being written succeeds an active row of the same nonce, and no
\* other record of its job is still to be looked at.
WorkInv ==
    \A w \in work :
        /\ w.status \in {"broadcast", "mined"} \cup Terminal
        /\ step = "send" => w.status = "broadcast" /\ w.job \in Jobs
        /\ step \in {"send", "store"} => row[w.job].status \in Active
        /\ step = "cache" => row[w.job] = w
        /\ w.nonce = row[w.job].nonce
        /\ pc[w.job] \in Done
        /\ told[w.job] = <<>>
        /\ \A r \in todo : r.job # w.job

OutboxInv ==
    \A r \in outbox :
        /\ r.status \in {"pending", "broadcast"}
        /\ row[r.job].status = "pending"
        /\ r.nonce = row[r.job].nonce
        /\ pc[r.job] \in Done
        /\ \A s \in outbox : s.job = r.job => s = r

ToldInv ==
    \A k \in Keys :
        told[k] # <<>> => row[k].status \in Terminal /\ told[k] = <<row[k].status>>

\* Every version of a job carries the job's one nonce, and the chain mines a
\* nonce once.
ChainInv ==
    /\ \A u \in network \cup {m.tx : m \in mined} :
        /\ u.nonce = NonceOf(u.job)
        /\ IF u.job \in Jobs THEN row[u.job].status # "absent" ELSE pc[u.job] # "idle"
    /\ \A m \in mined : m.tx.nonce < next
    /\ \A m1, m2 \in mined : m1.tx.nonce = m2.tx.nonce => m1 = m2

\* Whatever the newest block and the pass's head show as deep is buried.
DepthInv ==
    /\ height - Confirmations + 1 <= buried
    /\ head - Confirmations + 1 <= buried

BuriedSuccess(r) ==
    \E m \in mined : m.ok /\ m.tx.job = r.job /\ m.tx.nonce = r.nonce /\ m.block <= buried

ConfirmedInv ==
    /\ \A k \in Keys \ slipped : row[k].status = "confirmed" => BuriedSuccess(row[k])
    /\ \A w \in work : w.status = "confirmed" => w.job \in slipped \/ BuriedSuccess(w)

(* Everything TLAPS shows of the account follows from this conjunction.    *)
IInv ==
    /\ TypeOK
    /\ PhaseInv
    /\ StepInv
    /\ RowInv
    /\ HeldInv
    /\ WorkInv
    /\ OutboxInv
    /\ ToldInv
    /\ ChainInv
    /\ DepthInv
    /\ ConfirmedInv
=============================================================================
