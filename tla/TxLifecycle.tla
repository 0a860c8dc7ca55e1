---------------------------- MODULE TxLifecycle ----------------------------
(***************************************************************************)
(* What walletsforce promises about one job's record, without the lane,    *)
(* the cache, the tick or the chain: a job is recorded once, its status    *)
(* moves among the active ones until it becomes terminal, a terminal       *)
(* status never changes (src/src/store/models.ts, isTerminal), and the     *)
(* caller hears of it at most once, and then hears what was recorded.      *)
(***************************************************************************)
EXTENDS Sequences

CONSTANT Keys

VARIABLES
    status,  \* the stored status of each job
    told     \* the terminal events emitted for each job

lifecycleVars == <<status, told>>

ActiveStatus == {"pending", "broadcast", "mined"}
TerminalStatus == {"confirmed", "reverted", "failed"}

LifecycleInit ==
    /\ status = [k \in Keys |-> "absent"]
    /\ told = [k \in Keys |-> <<>>]

\* Written ahead by submit(), or taken over by reattach().
Record(k) ==
    /\ status[k] = "absent"
    /\ \E s \in {"pending", "broadcast"} : status' = [status EXCEPT ![k] = s]
    /\ UNCHANGED told

\* Once past "pending" a record is never written ahead again.  "mined" may
\* fall back to "broadcast" when a reorg makes the tick replace it.
Progress(k) ==
    /\ status[k] \in ActiveStatus
    /\ \E s \in ActiveStatus \ {"pending"} : status' = [status EXCEPT ![k] = s]
    /\ UNCHANGED told

Settle(k) ==
    /\ status[k] \in ActiveStatus
    /\ \E s \in TerminalStatus : status' = [status EXCEPT ![k] = s]
    /\ UNCHANGED told

Announce(k) ==
    /\ status[k] \in TerminalStatus
    /\ told[k] = <<>>
    /\ told' = [told EXCEPT ![k] = <<status[k]>>]
    /\ UNCHANGED status

LifecycleNext == \E k \in Keys : Record(k) \/ Progress(k) \/ Settle(k) \/ Announce(k)

LifecycleSpec == LifecycleInit /\ [][LifecycleNext]_lifecycleVars
=============================================================================
