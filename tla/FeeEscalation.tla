--------------------------- MODULE FeeEscalation ---------------------------
(***************************************************************************)
(* A stuck transaction from its first price to the last: the price is      *)
(* estimated, raised as long as nothing is mined, written to the store     *)
(* with every version, and read back after a restart, in a process that    *)
(* may use the other oracle.  ManagedAccount has the nonces, the lane and  *)
(* the failing calls; here every key stands for one nonce, calls answer,   *)
(* and what counts is the price, and what the store makes of a record.     *)
(* Signing is deterministic and only the fees of a key's transaction ever  *)
(* change, so that a version's fees stand for its hash.                    *)
(*                                                                         *)
(* Several pools share a SQLite file.  Each has one account here, and both *)
(* go by one name.  With in-memory stores each pool has its own.           *)
(***************************************************************************)
EXTENDS Stores

CONSTANTS
    OwnerOf,     \* the pool that each key belongs to
    Reattached,  \* keys taken over with reattach()
    BaseFees,    \* what the chain may tell as its base fee
    MaxAttempts, \* maxAttempts
    ZeroHash,    \* ZERO_HASH, in the record of a transaction not sent yet
    Crashes      \* bound: crashes of all pools together

ASSUME KeysAssumption == Reattached \subseteq Keys /\ OwnerOf \in [Keys -> Accounts]
ASSUME ValuesAssumption == Absent \notin BOOLEAN /\ Unset \notin BOOLEAN
ASSUME HashAssumption == ZeroHash \notin FeeFields \cup {Absent}
ASSUME LimitsAssumption ==
    BaseFees \subseteq Nat /\ MaxAttempts \in Nat \ {0} /\ Crashes \in Nat

VARIABLES
    up,      \* pools whose process runs
    oracle,  \* the fee oracle each is configured with
    tracked, \* in-flight records of the caches
    gauge,   \* the health each cache has of its account
    pc,      \* the call, or the tick's transition, that works on a key
    work,    \* the record it is about to write
    held,    \* the version in the mempool
    mined,   \* the version that was mined
    cut,     \* keys whose last accepted send a crash kept from being recorded
    crashes  \* crashes still allowed

procVars == <<up, oracle, gauge, crashes>>
chainVars == <<held, mined>>
vars == <<storeVars, procVars, tracked, pc, work, chainVars, cut>>

Oracles == {"legacy", "eip1559"}
Hash == FeeFields \cup {ZeroHash}
Record == [ownerId : Accounts, status : Statuses, attempts : 1 .. MaxAttempts,
           fees : FeeFields, hash : Hash, replaceable : BOOLEAN]
Row == [owner_id : Accounts, status : Statuses, attempts : 1 .. MaxAttempts,
        fees : FeeColumns, hash : Hash, replaceable : {Null, 0, 1}]
AccountRecord == [ownerId : Accounts, healthy : BOOLEAN]
AccountRow == [owner_id : Accounts, healthy : {0, 1}]

ASSUME AbsentAssumption ==
    Absent \notin FeeFields \cup Record \cup Row \cup AccountRecord \cup AccountRow

TypeOK ==
    /\ kind \in {"memory", "sqlite"}
    /\ \A k \in Keys : TransactionAt(k) \in Record \cup {Absent}
    /\ \A a \in Accounts : AccountAt(a) \in AccountRecord \cup {Absent}
    /\ up \in SUBSET Accounts
    /\ oracle \in [Accounts -> Oracles]
    /\ tracked \in [Keys -> Record \cup {Absent}]
    /\ gauge \in [Accounts -> BOOLEAN \cup {Absent}]
    /\ pc \in [Keys -> {"idle", "ahead", "sent", "stored", "done"}]
    /\ work \in [Keys -> Record \cup {Absent}]
    /\ held \in [Keys -> FeeFields \cup {Absent}]
    /\ mined \in [Keys -> FeeFields \cup {Absent}]
    /\ cut \in SUBSET Keys
    /\ crashes \in 0 .. Crashes

Init ==
    /\ kind \in {"memory", "sqlite"}
    /\ transactions = [k \in Keys |-> Absent] /\ accounts = [a \in Accounts |-> Absent]
    /\ up = {} /\ oracle \in [Accounts -> Oracles]
    /\ tracked = [k \in Keys |-> Absent] /\ gauge = [a \in Accounts |-> Absent]
    /\ pc = [k \in Keys |-> "idle"] /\ work = [k \in Keys |-> Absent]
    /\ held = [k \in Keys |-> Absent] /\ mined = [k \in Keys |-> Absent]
    /\ cut = {} /\ crashes = Crashes

Owned(o) == {k \in Keys : OwnerOf[k] = o}

\* A call or transition moves on, with the record it is about to write.
Move(k, to, rec) ==
    /\ pc' = [pc EXCEPT ![k] = to]
    /\ work' = [work EXCEPT ![k] = rec]

----------------------------------------------------------------------------
(* submit() and reattach().                                                *)

NewRecord(k, fees) ==
    [ownerId |-> OwnerOf[k], status |-> "pending", attempts |-> 1,
     fees |-> fees, hash |-> ZeroHash, replaceable |-> TRUE]
ReattachRecord(k, fees) ==
    [NewRecord(k, fees) EXCEPT !.status = "broadcast", !.hash = fees, !.replaceable = FALSE]

WriteAhead(k) ==
    /\ pc[k] = "idle" /\ k \notin Reattached /\ OwnerOf[k] \in up
    /\ \E base \in BaseFees :
          LET rec == NewRecord(k, Estimate(oracle[OwnerOf[k]], base)) IN
          UpsertTransaction(k, rec) /\ Move(k, "ahead", rec)
    /\ UNCHANGED <<procVars, tracked, chainVars, cut>>

\* A version that is out already, or mined, is answered with drift, which a
\* rebroadcast takes for success: its record becomes "broadcast" and keeps
\* ZERO_HASH.
Send(k) ==
    LET accepted == held[k] = Absent /\ mined[k] = Absent
        live == [work[k] EXCEPT !.status = "broadcast"] IN
    /\ pc[k] = "ahead"
    /\ \/ /\ accepted
          /\ held' = [held EXCEPT ![k] = work[k].fees]
          /\ Move(k, "sent", [live EXCEPT !.hash = work[k].fees])
       \/ /\ ~accepted
          /\ Move(k, "sent", live)
          /\ UNCHANGED held
    /\ UNCHANGED <<storeVars, procVars, tracked, mined, cut>>

\* Another program has sent the transaction; its caller hands it over.
Reattach(k) ==
    /\ pc[k] = "idle" /\ k \in Reattached /\ OwnerOf[k] \in up
    /\ \E o \in Oracles, base \in BaseFees :
          LET rec == ReattachRecord(k, Estimate(o, base)) IN
          /\ UpsertTransaction(k, rec) /\ Move(k, "stored", rec)
          /\ held' = [held EXCEPT ![k] = rec.fees]
    /\ UNCHANGED <<procVars, tracked, mined, cut>>

\* Store first, then cache: the end of submit(), rebroadcast(), replace()
\* and settle().
Store(k) ==
    /\ pc[k] = "sent"
    /\ UpsertTransaction(k, work[k])
    /\ Move(k, "stored", work[k])
    /\ UNCHANGED <<procVars, tracked, chainVars, cut>>

Track(k) ==
    /\ pc[k] = "stored"
    /\ tracked' = [tracked EXCEPT ![k] =
                      IF work[k].status \in TerminalStatus THEN Absent ELSE work[k]]
    /\ Move(k, "done", Absent)
    /\ UNCHANGED <<storeVars, procVars, chainVars, cut>>

----------------------------------------------------------------------------
(* The tick asks for the receipt of the record's hash, and for no other.   *)

Polled(k) == pc[k] = "done" /\ tracked[k] # Absent
Stuck(k) == Polled(k) /\ mined[k] # tracked[k].hash /\ tracked[k].replaceable # FALSE

\* Bug: one attempt more than allowed.
OneMore(rec) == rec.attempts > MaxAttempts
Exhausted(rec) == rec.attempts >= MaxAttempts

Confirms(k) ==
    /\ Polled(k) /\ mined[k] = tracked[k].hash
    /\ Move(k, "sent", [tracked[k] EXCEPT !.status = "confirmed"])
    /\ UNCHANGED <<storeVars, procVars, tracked, chainVars, cut>>

GivesUp(k) ==
    /\ Stuck(k) /\ Exhausted(tracked[k])
    /\ Move(k, "sent", [tracked[k] EXCEPT !.status = "failed"])
    /\ UNCHANGED <<storeVars, procVars, tracked, chainVars, cut>>

\* Bug: the record goes on asking for the version that was outbid.
ReplacementKeepsHash(rec, fees) ==
    [rec EXCEPT !.fees = fees, !.attempts = @ + 1, !.status = "broadcast"]
Replacement(rec, fees) ==
    [rec EXCEPT !.fees = fees, !.hash = fees, !.attempts = @ + 1, !.status = "broadcast"]

\* A refused replacement changes nothing; neither does one the oracle throws at.
Replaces(k) ==
    LET fees == Bump(tracked[k].fees) IN
    /\ Stuck(k) /\ ~Exhausted(tracked[k])
    /\ Bumps(oracle[OwnerOf[k]], tracked[k].fees)
    /\ mined[k] = Absent
    /\ held[k] # Absent => Outbids(fees, held[k])
    /\ held' = [held EXCEPT ![k] = fees]
    /\ Move(k, "sent", Replacement(tracked[k], fees))
    /\ cut' = cut \ {k}
    /\ UNCHANGED <<storeVars, procVars, tracked, mined>>

\* refreshState(), at the end of the pass.
Refresh(o) ==
    /\ o \in up
    /\ \E healthy \in BOOLEAN :
          /\ UpsertAccount(o, [ownerId |-> o, healthy |-> healthy])
          /\ gauge' = [gauge EXCEPT ![o] = healthy]
    /\ UNCHANGED <<up, oracle, crashes, tracked, pc, work, chainVars, cut>>

----------------------------------------------------------------------------
Mine(k) ==
    /\ held[k] # Absent
    /\ mined' = [mined EXCEPT ![k] = held[k]]
    /\ held' = [held EXCEPT ![k] = Absent]
    /\ UNCHANGED <<storeVars, procVars, tracked, pc, work, cut>>

Crash(o) ==
    /\ o \in up /\ crashes > 0
    /\ crashes' = crashes - 1
    /\ up' = up \ {o}
    /\ StoreSurvives(o) /\ UNCHANGED kind
    /\ tracked' = [k \in Keys |-> IF k \in Owned(o) THEN Absent ELSE tracked[k]]
    /\ gauge' = [gauge EXCEPT ![o] = Absent]
    /\ pc' = [k \in Keys |-> IF k \in Owned(o) /\ pc[k] # "idle" THEN "done" ELSE pc[k]]
    /\ work' = [k \in Keys |-> IF k \in Owned(o) THEN Absent ELSE work[k]]
    /\ cut' = cut \cup {k \in Owned(o) : pc[k] = "sent" /\ work[k].hash # TransactionAt(k).hash}
    /\ UNCHANGED <<oracle, chainVars>>

\* restore(): the gauge comes from a stored row or is seeded; active records
\* are tracked, and the pending ones sent again.
Boot(o) ==
    LET loaded == ActiveKeys(o)
        saved == AccountAt(o) IN
    /\ o \notin up
    /\ up' = up \cup {o}
    /\ \E which \in Oracles : oracle' = [oracle EXCEPT ![o] = which]
    /\ IF saved # Absent
       THEN gauge' = [gauge EXCEPT ![o] = saved.healthy] /\ UNCHANGED storeVars
       ELSE /\ gauge' = [gauge EXCEPT ![o] = TRUE]
            /\ UpsertAccount(o, [ownerId |-> o, healthy |-> TRUE])
    /\ tracked' = [k \in Keys |-> IF k \in loaded THEN TransactionAt(k) ELSE tracked[k]]
    /\ LET again == {k \in loaded : TransactionAt(k).status = "pending"} IN
       /\ pc' = [k \in Keys |-> IF k \in again THEN "ahead" ELSE pc[k]]
       /\ work' = [k \in Keys |-> IF k \in again THEN TransactionAt(k) ELSE work[k]]
    /\ UNCHANGED <<crashes, chainVars, cut>>

CallStep(k) == WriteAhead(k) \/ Reattach(k)
KeyStep(k) ==
    Send(k) \/ Store(k) \/ Track(k) \/ Confirms(k) \/ GivesUp(k) \/ Replaces(k)

Next ==
    \/ \E k \in Keys : CallStep(k) \/ KeyStep(k) \/ Mine(k)
    \/ \E o \in Accounts : Refresh(o) \/ Crash(o) \/ Boot(o)

Spec == Init /\ [][Next]_vars

\* Calls settle, the tick passes on and on, time makes records stuck, and a
\* pool that died is started again.  Nothing is assumed of mining.
FairSpec ==
    /\ Spec
    /\ \A k \in Keys : WF_vars(KeyStep(k))
    /\ \A o \in Accounts : WF_vars(Boot(o))

----------------------------------------------------------------------------
(* models.ts: "Recovery set = rows WHERE status NOT IN ('confirmed',       *)
(* 'reverted','failed')".  Whichever the store, what restore() would load  *)
(* for a pool is what the pool works on, in other pools' presence: owner,  *)
(* status, attempts, fees, hash and flag; and so is its account's health.  *)
Recoverable ==
    \A o \in up :
        /\ AccountAt(o) = [ownerId |-> o, healthy |-> gauge[o]]
        /\ \A k \in Owned(o) : pc[k] = "done" =>
              IF tracked[k] = Absent THEN k \notin ActiveKeys(o)
              ELSE k \in ActiveKeys(o) /\ TransactionAt(k) = tracked[k]

(* The tick asks for the version in the mempool, or its receipt is never   *)
(* found, unless a crash came between a send and its row.  After a first   *)
(* send the next process finds the row "pending", is answered with drift,  *)
(* and keeps ZERO_HASH until it replaces the transaction; after a          *)
(* replacement the row has the hash of the version that was outbid.        *)
AsksForHeld ==
    \A k \in Keys \ cut :
        Polled(k) /\ held[k] # Absent => tracked[k].hash = held[k]

(* managed-account.ts: "Placeholder signable (no calldata) -> confirm-only, *)
(* never replaced": not by the process that took it over, nor by the next.  *)
PlaceholderUntouched ==
    [][\A k \in Reattached : held[k] # Absent => held'[k] \in {held[k], Absent}]_vars

\* The node holds a replacement that the record does not know of.
ReplacementLost(k) == k \in cut /\ tracked[k].fees # held[k]

(* README.md: "a tx that never mines is retried up to `maxAttempts`, then  *)
(* `failed` and removed".  The node takes every replacement, so that a     *)
(* stuck transaction is mined or given up: also across a restart, and with *)
(* ZERO_HASH in its record, unless the restart cut a replacement off or    *)
(* brought the other oracle.                                               *)
StuckEnds ==
    \A k \in Keys :
        Stuck(k) ~> \/ mined[k] # Absent \/ tracked[k] = Absent \/ ReplacementLost(k)
                    \/ ~Bumps(oracle[OwnerOf[k]], tracked[k].fees)
=============================================================================
