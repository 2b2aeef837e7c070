----------------------------- MODULE AtomicPool -----------------------------
(***************************************************************************)
(* What the two contracts promise together, a transaction a step.  While   *)
(* the hook is attached to the registry, escrow moves with the record of   *)
(* why it does: a deposit is a task on record, and a settlement on record  *)
(* has paid its transfers.  While it is not, tasks and settlements may be  *)
(* recorded and no money moves with them.  A settlement is of tasks on     *)
(* record, under the pool of the first of them, and its operator settles   *)
(* no task again.  DarkPool, with a hook, a manager and a failure possible *)
(* at any call of either, is shown to implement this.                      *)
(***************************************************************************)
EXTENDS EscrowLedger, Sequences

CONSTANTS
    PoolKeyOf,         \* the key of each pool
    TaskIds, NoTask,
    TaskInput(_),      \* the currency a task gives up, and how much of it
    TaskAmount(_),
    Owed(_, _, _)      \* what a list of transfers owes a trader in a currency

VARIABLES
    tasks,             \* task id -> the task recorded under it
    settled,           \* the settlements on record, in order
    attached           \* whether the registry takes its tasks from the hook

poolVars == <<ledgerVars, tasks, settled, attached>>

PoolInit ==
    /\ LedgerInit
    /\ tasks = [i \in TaskIds |-> NoTask]
    /\ settled = <<>>
    /\ attached = FALSE

Record(i) ==
    /\ tasks[i] = NoTask /\ tasks'[i] # NoTask
    /\ tasks' = [tasks EXCEPT ![i] = tasks'[i]]
    /\ UNCHANGED <<settled, attached>>

RecordOrder(i) ==
    /\ attached
    /\ Record(i)
    /\ escrow' = [escrow EXCEPT ![TaskInput(tasks'[i])] = @ + TaskAmount(tasks'[i])]
    /\ Deposit

Covers(settlement, i) == \E j \in DOMAIN settlement.refs : settlement.refs[j] = i

Settles(settlement) ==
    /\ settled' = Append(settled, settlement)
    /\ settlement.message.poolId = tasks[settlement.refs[1]].order.poolId
    /\ \A i \in TaskIds : Covers(settlement, i) =>
          /\ tasks[i] # NoTask
          /\ \A k \in DOMAIN settled :
                settled[k].operator = settlement.operator => ~Covers(settled[k], i)
    /\ UNCHANGED <<tasks, attached>>

RecordSettlement(settlement) ==
    LET key == PoolKeyOf[settlement.message.poolId]
    IN  /\ attached
        /\ Settles(settlement)
        /\ Settle
        /\ \A u \in Users, c \in Currencies :
              held'[u][c] - held[u][c] = Owed(settlement.message.payload.transfers, u, c)
        /\ \A c \in Currencies \ {key.currency0, key.currency1} : amm'[c] = amm[c]

(* What another hook records, and what is settled with it.                 *)
RecordDetached ==
    /\ ~attached
    /\ \/ \E i \in TaskIds : Record(i)
       \/ \E k \in DOMAIN settled' : Settles(settled'[k])
    /\ UNCHANGED ledgerVars

Attach == attached' = ~attached /\ UNCHANGED <<ledgerVars, tasks, settled>>

PoolNext ==
    \/ \E i \in TaskIds : RecordOrder(i)
    \/ \E k \in DOMAIN settled' : RecordSettlement(settled'[k])
    \/ RecordDetached \/ Attach
    \/ Trade /\ UNCHANGED <<tasks, settled, attached>>

PoolSpec == PoolInit /\ [][PoolNext]_poolVars
=============================================================================
