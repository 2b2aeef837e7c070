---------------------------- MODULE OperatorProofs ----------------------------
(***************************************************************************)
(* The operator's safety properties, for any tasks, window length, number  *)
(* of blocks and of restarts, and that it implements AtomicBatching.  The  *)
(* life of the process (ServiceSpec) implements OperatorNext step by step: *)
(* an event that is missed while the process registers is one whose logs   *)
(* are dropped.  So everything is proved of the steps of Operator.         *)
(***************************************************************************)
EXTENDS OperatorService, OperatorOnChain, SequenceTheorems, TLAPS

(* A call of processBatch: it was made for a batch that holds tasks.        *)
Call == [batch : Blocks, phase : Phases, asked : Nat \ {0}, quoted : SUBSET Nat]

(* Each call of processBatch is a record, so that EXCEPT says what a step  *)
(* changes in it.                                                          *)
CallsOK == running \subseteq Call

TypeInv == OperatorTypeOK /\ CallsOK

(* A batch that is processed was closed before the open one began, and by  *)
(* one call only.                                                          *)
ClosedOnce ==
    \A r \in running :
        /\ r.batch < latestBatchNumber
        /\ \A s \in running : r.batch = s.batch => r = s

(* A task waits for its event or its lookup, or is in one place of one     *)
(* batch, or has been submitted: it is in a batch and submitted only while *)
(* its batch is being sent.                                                *)
Waiting == events \cup lookups
BeingSent(b) == \E r \in running : r.batch = b /\ r.phase = "sending"

FiledOnce ==
    /\ events \cap lookups = {}
    /\ \A b \in BatchNumbers : Elements(batches[b]) \cap Waiting = {}
    /\ \A b, c \in BatchNumbers : b # c => Elements(batches[b]) \cap Elements(batches[c]) = {}
    /\ \A b \in BatchNumbers : \A i, j \in DOMAIN batches[b] :
          i # j => batches[b][i] # batches[b][j]

SentOnce ==
    \A k \in DOMAIN submissions :
        /\ Elements(submissions[k]) \cap Waiting = {}
        /\ \A b \in BatchNumbers :
              Elements(submissions[k]) \cap Elements(batches[b]) # {} => BeingSent(b)

IInv ==
    /\ TypeInv /\ WindowBounded /\ ClosedOnce /\ QuotedBeforeMatched /\ WindowsDrain
    /\ FiledOnce /\ SentOnce /\ SubmittedOnce

------------------------------------------------------------------------------
(* A task appended to an array is the one new element.                     *)
LEMMA ElementsAppend ==
    ASSUME NEW S, NEW s \in Seq(S), NEW e \in S
    PROVE  /\ Append(s, e) \in Seq(S)
           /\ Len(Append(s, e)) = Len(s) + 1
           /\ DOMAIN Append(s, e) = 1..(Len(s) + 1)
           /\ \A i \in 1..Len(s) : Append(s, e)[i] = s[i]
           /\ Append(s, e)[Len(s) + 1] = e
           /\ Elements(Append(s, e)) = Elements(s) \cup {e}
<1>1. /\ Append(s, e) \in Seq(S)
      /\ Len(Append(s, e)) = Len(s) + 1
      /\ DOMAIN Append(s, e) = 1..(Len(s) + 1)
      /\ DOMAIN s = 1..Len(s) /\ Len(s) \in Nat
      /\ \A i \in 1..Len(s) : Append(s, e)[i] = s[i]
      /\ Append(s, e)[Len(s) + 1] = e
  OBVIOUS
<1>2. Elements(Append(s, e)) = Elements(s) \cup {e}
  <2>1. 1..(Len(s) + 1) = (1..Len(s)) \cup {Len(s) + 1}
    BY <1>1
  <2>2. QED
    BY <1>1, <2>1 DEF Elements
<1>3. QED
  BY <1>1, <1>2

(* An empty array has no elements.                                         *)
LEMMA ElementsEmpty == Elements(<<>>) = {} /\ DOMAIN <<>> = {}
BY DEF Elements

------------------------------------------------------------------------------
(* What a step of a processBatch call does: the call goes on, as it is     *)
(* about to be matched or signed, or as its answer is sent; or it ends.    *)
Continues(r, next) ==
    /\ Advance(r, next)
    /\ next.batch = r.batch /\ next.asked = r.asked /\ next.quoted \subseteq 1..next.asked
    /\ UNCHANGED batches

Prepares(r) ==
    /\ r.phase # "sending" /\ UNCHANGED submissions
    /\ \E next \in Call : Continues(r, next) /\ next.phase # "sending"

Sends(r) ==
    /\ r.phase = "signing" /\ submissions' = Append(submissions, batches[r.batch])
    /\ \E next \in Call : Continues(r, next) /\ next.phase = "sending"

Ends(r) == Finish(r) /\ UNCHANGED submissions

(* Each of the four steps is one of these three.                           *)
LEMMA StepCases ==
    ASSUME TypeInv, NEW r \in running, Step(r)
    PROVE  /\ UNCHANGED <<events, lookups, blockNumber, latestBatchNumber, mined, restarts>>
           /\ Prepares(r) \/ Sends(r) \/ Ends(r)
<1>1. r \in Call /\ r.quoted \subseteq 1..r.asked
  BY DEF TypeInv, CallsOK, OperatorTypeOK
<1>2. ASSUME QuoteSettles(r) PROVE Prepares(r)
  <2>1. PICK i \in Outstanding(r) :
          LET quoted == r.quoted \cup {i}
          IN  Advance(r, [r EXCEPT !.quoted = quoted,
                                   !.phase = IF quoted = 1..r.asked THEN "hashing" ELSE @])
    BY <1>2 DEF QuoteSettles
  <2> DEFINE quoted == r.quoted \cup {i}
             asking == [r EXCEPT !.quoted = quoted]
             phase == IF quoted = 1..r.asked THEN "hashing" ELSE r.phase
             next == [asking EXCEPT !.phase = phase]
  <2>2. quoted \subseteq 1..r.asked /\ quoted \in SUBSET Nat
    BY <1>1 DEF Outstanding, Call
  <2>3. /\ asking \in Call /\ asking.quoted = quoted
        /\ asking.batch = r.batch /\ asking.asked = r.asked
    BY <1>1, <2>2 DEF Call
  <2>4. phase \in Phases /\ phase # "sending" /\ r.phase = "quoting"
    BY <1>1, <1>2 DEF QuoteSettles, Phases
  <2> HIDE DEF phase, quoted, asking
  <2>5. /\ next \in Call /\ next.quoted = quoted /\ next.phase = phase
        /\ next.batch = r.batch /\ next.asked = r.asked
    BY <2>3, <2>4 DEF Call
  <2>6. Advance(r, next)
    BY <2>1 DEF next, phase, quoted, asking
  <2> HIDE DEF next
  <2>7. QED
    BY <1>2, <2>2, <2>4, <2>5, <2>6 DEF QuoteSettles, Prepares, Continues
<1>3. ASSUME HashSettles(r) PROVE Prepares(r) \/ Ends(r)
  <2> DEFINE next == [r EXCEPT !.phase = "signing"]
  <2>1. /\ next \in Call /\ next.batch = r.batch /\ next.asked = r.asked
        /\ next.quoted = r.quoted /\ next.phase = "signing"
    BY <1>1 DEF Call, Phases
  <2> HIDE DEF next
  <2>2. CASE Advance(r, next) /\ UNCHANGED batches
    BY <1>1, <1>3, <2>1, <2>2 DEF HashSettles, Prepares, Continues
  <2>3. QED
    BY <1>3, <2>2 DEF HashSettles, Ends, next
<1>4. ASSUME SignSettles(r) PROVE Sends(r) \/ Ends(r)
  <2> DEFINE next == [r EXCEPT !.phase = "sending"]
  <2>1. /\ next \in Call /\ next.batch = r.batch /\ next.asked = r.asked
        /\ next.quoted = r.quoted /\ next.phase = "sending"
    BY <1>1 DEF Call, Phases
  <2> HIDE DEF next
  <2>2. CASE /\ Advance(r, next) /\ UNCHANGED batches
             /\ submissions' = Append(submissions, batches[r.batch])
    BY <1>1, <1>4, <2>1, <2>2 DEF SignSettles, Sends, Continues
  <2>3. QED
    BY <1>4, <2>2 DEF SignSettles, Ends, next
<1>5. ASSUME SendSettles(r) PROVE Ends(r)
  BY <1>5 DEF SendSettles, Ends
<1>6. UNCHANGED <<events, lookups, blockNumber, latestBatchNumber, mined, restarts>>
  BY DEF Step, QuoteSettles, HashSettles, SignSettles, SendSettles
<1>7. QED
  BY <1>2, <1>3, <1>4, <1>5, <1>6 DEF Step

(* The call a window that is over starts, and what a new block number does:*)
(* the first one opens a window, a late one closes it, others do nothing.  *)
NewCall(b) == [batch |-> b, phase |-> "quoting", asked |-> Len(batches[b]), quoted |-> {}]

Opens(bn) == latestBatchNumber = 0 /\ latestBatchNumber' = bn /\ UNCHANGED running

Closes(bn) ==
    /\ latestBatchNumber \in Blocks /\ latestBatchNumber < bn /\ latestBatchNumber' = bn
    /\ IF batches[latestBatchNumber] = <<>> THEN UNCHANGED running
       ELSE /\ NewCall(latestBatchNumber) \in Call
            /\ running' = running \cup {NewCall(latestBatchNumber)}

Waits(bn) ==
    /\ latestBatchNumber # 0 /\ bn - latestBatchNumber < MAX_BLOCKS_PER_BATCH
    /\ bn > blockNumber
    /\ UNCHANGED <<latestBatchNumber, running>>

LEMMA BlockCases ==
    ASSUME TypeInv, NEW bn \in Blocks, OnBlockNumber(bn)
    PROVE  /\ UNCHANGED <<events, lookups, batches, submissions, mined, restarts>>
           /\ blockNumber' = bn
           /\ Opens(bn) \/ Closes(bn) \/ Waits(bn)
<1>1. /\ MAX_BLOCKS_PER_BATCH \in Nat \ {0} /\ bn \in Nat
      /\ latestBatchNumber \in Nat /\ latestBatchNumber \in Blocks \cup {0}
  BY OperatorAssumption DEF TypeInv, OperatorTypeOK, BatchNumbers, Blocks
<1>2. CASE latestBatchNumber = 0
  BY <1>2 DEF OnBlockNumber, Opens
<1>3. CASE latestBatchNumber # 0 /\ WindowOver(bn)
  <2>1. latestBatchNumber < bn /\ latestBatchNumber \in Blocks
    BY <1>1, <1>3 DEF WindowOver
  <2>2. batches[latestBatchNumber] \in Seq(Tasks)
    BY <2>1 DEF TypeInv, OperatorTypeOK, BatchNumbers, Blocks
  <2>3. batches[latestBatchNumber] # <<>> => NewCall(latestBatchNumber) \in Call
    BY <2>1, <2>2 DEF NewCall, Call, Phases
  <2>4. QED
    BY <1>3, <2>1, <2>3 DEF OnBlockNumber, ProcessBatch, NewBatch, Closes, NewCall
<1>4. CASE latestBatchNumber # 0 /\ ~WindowOver(bn)
  BY <1>1, <1>4 DEF OnBlockNumber, Waits, WindowOver
<1>5. QED
  BY <1>2, <1>3, <1>4 DEF OnBlockNumber

------------------------------------------------------------------------------
(* Every variable is typed at the start.                                   *)
LEMMA TypeInit == OperatorInit => TypeInv
<1> SUFFICES ASSUME OperatorInit PROVE TypeInv
  OBVIOUS
<1>1. 0 \in BatchNumbers /\ 0 \in 0..MaxRestarts
  BY OperatorAssumption DEF BatchNumbers
<1>2. batches \in [BatchNumbers -> Seq(Tasks)]
  BY DEF OperatorInit
<1>3. submissions \in Seq(Seq(Tasks)) /\ mined \subseteq DOMAIN submissions
  BY DEF OperatorInit
<1>4. QED
  BY <1>1, <1>2, <1>3 DEF OperatorInit, TypeInv, OperatorTypeOK, CallsOK

(* Every step keeps the types.                                             *)
LEMMA TypeStep == TypeInv /\ [OperatorNext]_operatorVars => TypeInv'
<1> SUFFICES ASSUME TypeInv, [OperatorNext]_operatorVars PROVE TypeInv'
  OBVIOUS
<1> USE DEF TypeInv
<1> DEFINE CallTyped(r) == r.batch \in Blocks /\ r.phase \in Phases /\ r.quoted \subseteq 1..r.asked
<1>0. /\ MAX_BLOCKS_PER_BATCH \in Nat \ {0} /\ MaxBlock \in Nat /\ MaxRestarts \in Nat
      /\ blockNumber \in Nat /\ latestBatchNumber \in Nat /\ restarts \in Nat
      /\ Blocks \subseteq BatchNumbers /\ Blocks \subseteq Nat
  BY OperatorAssumption DEF OperatorTypeOK, BatchNumbers, Blocks
<1>1. ASSUME NEW t \in Tasks, OnNewTask(t) PROVE TypeInv'
  BY <1>1 DEF OnNewTask, OperatorTypeOK, CallsOK
<1>2. ASSUME NEW t \in Tasks, FileTask(t) PROVE TypeInv'
  <2>1. batches' \in [BatchNumbers -> Seq(Tasks)]
    BY <1>2, ElementsAppend DEF FileTask, OperatorTypeOK
  <2>2. QED
    BY <1>2, <2>1 DEF FileTask, OperatorTypeOK, CallsOK
<1>3. ASSUME NEW t \in Tasks, LookupFails(t) PROVE TypeInv'
  BY <1>3 DEF LookupFails, OperatorTypeOK, CallsOK
<1>4. ASSUME NEW bn \in Blocks, OnBlockNumber(bn) PROVE TypeInv'
  <2>1. blockNumber' \in BatchNumbers /\ latestBatchNumber' \in BatchNumbers
    BY <1>0, <1>4, BlockCases DEF Opens, Closes, Waits, OperatorTypeOK
  <2>2. CASE UNCHANGED running
    BY <1>4, <2>1, <2>2, BlockCases DEF OperatorTypeOK, CallsOK
  <2>3. ASSUME NEW b \in Blocks, NewCall(b) \in Call, running' = running \cup {NewCall(b)}
        PROVE  TypeInv'
    <3>1. CallTyped(NewCall(b))
      BY <2>3 DEF NewCall, Phases
    <3>2. QED
      BY <1>4, <2>1, <2>3, <3>1, BlockCases DEF OperatorTypeOK, CallsOK
  <2>4. QED
    BY <1>4, <2>2, <2>3, BlockCases DEF Opens, Closes, Waits
<1>5. ASSUME NEW r \in running, Step(r) PROVE TypeInv'
  <2>1. r \in Call /\ CallTyped(r) /\ batches[r.batch] \in Seq(Tasks)
    BY <1>0 DEF CallsOK, OperatorTypeOK
  <2>2. ASSUME NEW next \in Call, Continues(r, next) PROVE CallsOK' /\ \A q \in running' : CallTyped(q)
    BY <2>1, <2>2 DEF Continues, Advance, CallsOK, OperatorTypeOK, Call
  <2>3. CASE Prepares(r)
    BY <1>5, <2>2, <2>3, StepCases DEF Prepares, Continues, OperatorTypeOK
  <2>4. CASE Sends(r)
    <3>1. submissions' \in Seq(Seq(Tasks)) /\ DOMAIN submissions \subseteq DOMAIN submissions'
      BY <2>1, <2>4, ElementsAppend DEF Sends, OperatorTypeOK
    <3>2. QED
      BY <1>5, <2>2, <2>4, <3>1, StepCases DEF Sends, Continues, OperatorTypeOK
  <2>5. CASE Ends(r)
    <3>1. <<>> \in Seq(Tasks)
      OBVIOUS
    <3>2. batches' \in [BatchNumbers -> Seq(Tasks)]
      BY <2>5, <3>1 DEF Ends, Finish, OperatorTypeOK
    <3>3. QED
      BY <1>5, <2>5, <3>2, StepCases DEF Ends, Finish, OperatorTypeOK, CallsOK
  <2>6. QED
    BY <1>5, <2>3, <2>4, <2>5, StepCases
<1>10. ASSUME NEW k \in DOMAIN submissions, Mine(k) PROVE TypeInv'
  BY <1>10 DEF Mine, OperatorTypeOK, CallsOK
<1>11. CASE Restart
  <2>1. restarts' \in 0..MaxRestarts /\ latestBatchNumber' \in BatchNumbers
    BY <1>0, <1>11 DEF Restart, BatchNumbers
  <2>2. batches' \in [BatchNumbers -> Seq(Tasks)]
    BY <1>11 DEF Restart
  <2>3. QED
    BY <1>11, <2>1, <2>2 DEF Restart, OperatorTypeOK, CallsOK
<1>12. CASE UNCHANGED operatorVars
  BY <1>12 DEF operatorVars, OperatorTypeOK, CallsOK
<1>13. QED
  BY <1>1, <1>2, <1>3, <1>4, <1>5, <1>10, <1>11, <1>12 DEF OperatorNext, MonitorStep

------------------------------------------------------------------------------
(* The bound on the open window survives every step.                       *)
LEMMA WindowStep == TypeInv /\ WindowBounded /\ [OperatorNext]_operatorVars => WindowBounded'
<1> SUFFICES ASSUME TypeInv, WindowBounded, [OperatorNext]_operatorVars PROVE WindowBounded'
  OBVIOUS
<1>1. /\ MAX_BLOCKS_PER_BATCH \in Nat \ {0}
      /\ blockNumber \in Nat /\ latestBatchNumber \in Nat
  BY OperatorAssumption DEF TypeInv, OperatorTypeOK, BatchNumbers
<1>2. ASSUME NEW bn \in Blocks, OnBlockNumber(bn) PROVE WindowBounded'
  <2>1. bn \in Nat /\ blockNumber' = bn /\ (Opens(bn) \/ Closes(bn) \/ Waits(bn))
    BY <1>2, BlockCases DEF Blocks
  <2>2. QED
    BY <1>1, <2>1 DEF Opens, Closes, Waits, WindowBounded
<1>3. ASSUME NEW r \in running, Step(r) PROVE WindowBounded'
  BY <1>3, StepCases DEF WindowBounded
<1>4. CASE Restart
  BY <1>4 DEF Restart, WindowBounded
<1>5. QED
  BY <1>2, <1>3, <1>4 DEF OperatorNext, MonitorStep, OnNewTask, FileTask, LookupFails, Mine,
     operatorVars, WindowBounded

(* No two calls ever process one batch, nor any the open one.              *)
LEMMA ClosedStep == TypeInv /\ ClosedOnce /\ [OperatorNext]_operatorVars => ClosedOnce'
<1> SUFFICES ASSUME TypeInv, ClosedOnce, [OperatorNext]_operatorVars PROVE ClosedOnce'
  OBVIOUS
<1>1. /\ latestBatchNumber \in Nat
      /\ \A r \in running : r.batch \in Nat /\ r.batch # 0
  BY DEF TypeInv, OperatorTypeOK, BatchNumbers, Blocks
<1>2. ASSUME NEW bn \in Blocks, OnBlockNumber(bn) PROVE ClosedOnce'
  <2>1. bn \in Nat /\ (Opens(bn) \/ Closes(bn) \/ Waits(bn))
    BY <1>2, BlockCases DEF Blocks
  <2>2. CASE Opens(bn)
    BY <1>1, <2>1, <2>2 DEF Opens, ClosedOnce
  <2>3. CASE Closes(bn)
    <3>1. \A r \in running : r.batch < bn /\ r.batch # latestBatchNumber
      BY <1>1, <2>1, <2>3 DEF Closes, ClosedOnce
    <3>2. CASE UNCHANGED running
      BY <2>3, <3>1, <3>2 DEF Closes, ClosedOnce
    <3>3. CASE running' = running \cup {NewCall(latestBatchNumber)}
      <4>1. NewCall(latestBatchNumber).batch = latestBatchNumber
        BY DEF NewCall
      <4>2. QED
        BY <2>3, <3>1, <3>3, <4>1 DEF Closes, ClosedOnce
    <3>4. QED
      BY <2>3, <3>2, <3>3 DEF Closes
  <2>4. CASE Waits(bn)
    BY <2>4 DEF Waits, ClosedOnce
  <2>5. QED
    BY <2>1, <2>2, <2>3, <2>4
<1>3. ASSUME NEW r \in running, Step(r) PROVE ClosedOnce'
  <2>1. ASSUME NEW next \in Call, Continues(r, next) PROVE
            \A p, q \in running' : p.batch < latestBatchNumber /\ (p.batch = q.batch => p = q)
    BY <2>1 DEF Continues, Advance, ClosedOnce
  <2>2. Ends(r) => running' \subseteq running
    BY DEF Ends, Finish
  <2>3. QED
    BY <1>3, <2>1, <2>2, StepCases DEF Prepares, Sends, ClosedOnce
<1>4. CASE Restart
  BY <1>4 DEF Restart, ClosedOnce
<1>5. QED
  BY <1>2, <1>3, <1>4 DEF OperatorNext, MonitorStep, OnNewTask, FileTask, LookupFails, Mine,
     operatorVars, ClosedOnce

(* While a batch is processed its array does not change: handlers file     *)
(* into the open batch, which is another one.                              *)
LEMMA QuotedStep ==
    TypeInv /\ ClosedOnce /\ QuotedBeforeMatched /\ [OperatorNext]_operatorVars
        => QuotedBeforeMatched'
<1> SUFFICES ASSUME TypeInv, ClosedOnce, QuotedBeforeMatched, [OperatorNext]_operatorVars
             PROVE  QuotedBeforeMatched'
  OBVIOUS
<1>1. /\ latestBatchNumber \in BatchNumbers /\ latestBatchNumber \in Nat
      /\ batches \in [BatchNumbers -> Seq(Tasks)]
      /\ \A r \in running : r.batch \in BatchNumbers /\ r.batch \in Nat
  BY DEF TypeInv, OperatorTypeOK, BatchNumbers, Blocks
<1>2. \A r \in running : r.batch # latestBatchNumber
  BY <1>1 DEF ClosedOnce
<1>3. ASSUME NEW t \in Tasks, FileTask(t) PROVE QuotedBeforeMatched'
  BY <1>1, <1>2, <1>3 DEF FileTask, QuotedBeforeMatched
<1>4. ASSUME NEW bn \in Blocks, OnBlockNumber(bn) PROVE QuotedBeforeMatched'
  <2>1. UNCHANGED batches /\ (Opens(bn) \/ Closes(bn) \/ Waits(bn))
    BY <1>4, BlockCases
  <2>2. CASE UNCHANGED running
    BY <2>1, <2>2 DEF QuotedBeforeMatched
  <2>3. CASE running' = running \cup {NewCall(latestBatchNumber)}
    BY <2>1, <2>3 DEF NewCall, QuotedBeforeMatched
  <2>4. QED
    BY <2>1, <2>2, <2>3 DEF Opens, Closes, Waits
<1>5. ASSUME NEW r \in running, Step(r) PROVE QuotedBeforeMatched'
  <2>1. ASSUME NEW next \in Call, Continues(r, next) PROVE QuotedBeforeMatched'
    BY <2>1 DEF Continues, Advance, QuotedBeforeMatched
  <2>2. CASE Ends(r)
    <3>1. \A q \in running' : q \in running /\ q.batch # r.batch
      BY <2>2 DEF Ends, Finish, ClosedOnce
    <3>2. QED
      BY <1>1, <2>2, <3>1 DEF Ends, Finish, QuotedBeforeMatched
  <2>3. QED
    BY <1>5, <2>1, <2>2, StepCases DEF Prepares, Sends
<1>6. CASE Restart
  BY <1>6 DEF Restart, QuotedBeforeMatched
<1>7. QED
  BY <1>3, <1>4, <1>5, <1>6 DEF OperatorNext, MonitorStep, OnNewTask, LookupFails, Mine,
     operatorVars, QuotedBeforeMatched

(* Tasks are in the open batch or in one that is processed, batch 0 apart. *)
LEMMA DrainStep ==
    TypeInv /\ WindowsDrain /\ [OperatorNext]_operatorVars => WindowsDrain'
<1> SUFFICES ASSUME TypeInv, WindowsDrain, [OperatorNext]_operatorVars,
                    NEW b \in Blocks, batches'[b] # <<>>
             PROVE  b = latestBatchNumber' \/ \E r \in running' : r.batch = b
  BY DEF WindowsDrain
<1> DEFINE Kept == batches[b] # <<>> => b = latestBatchNumber \/ \E r \in running : r.batch = b
           Drained == b = latestBatchNumber' \/ \E r \in running' : r.batch = b
<1>1. /\ b \in BatchNumbers /\ b # 0 /\ Kept
      /\ batches \in [BatchNumbers -> Seq(Tasks)]
  <2>1. b \in BatchNumbers /\ b # 0
    BY OperatorAssumption DEF BatchNumbers, Blocks
  <2>2. Kept
    BY DEF WindowsDrain
  <2>3. QED
    BY <2>1, <2>2 DEF TypeInv, OperatorTypeOK
<1>2. ASSUME NEW t \in Tasks, FileTask(t) PROVE Drained
  BY <1>1, <1>2 DEF FileTask
<1>3. ASSUME NEW bn \in Blocks, OnBlockNumber(bn) PROVE Drained
  <2>1. UNCHANGED batches /\ (Opens(bn) \/ Closes(bn) \/ Waits(bn))
    BY <1>3, BlockCases
  <2>2. QED
    BY <1>1, <2>1 DEF Opens, Closes, Waits, NewCall
<1>4. ASSUME NEW r \in running, Step(r) PROVE Drained
  <2>1. ASSUME NEW next \in Call, Continues(r, next), UNCHANGED latestBatchNumber PROVE Drained
    BY <1>1, <2>1 DEF Continues, Advance
  <2>2. CASE Ends(r) /\ UNCHANGED latestBatchNumber
    BY <1>1, <2>2 DEF Ends, Finish, TypeInv, OperatorTypeOK
  <2>3. QED
    BY <1>4, <2>1, <2>2, StepCases DEF Prepares, Sends
<1>5. CASE Restart
  BY <1>1, <1>5 DEF Restart
<1>6. QED
  BY <1>1, <1>2, <1>3, <1>4, <1>5 DEF OperatorNext, MonitorStep, OnNewTask, LookupFails, Mine,
     operatorVars

------------------------------------------------------------------------------
(* A task is filed once: its event is delivered once, and its handler puts *)
(* it into one batch.                                                      *)
LEMMA FiledStep == TypeInv /\ FiledOnce /\ [OperatorNext]_operatorVars => FiledOnce'
<1> SUFFICES ASSUME TypeInv, FiledOnce, [OperatorNext]_operatorVars PROVE FiledOnce'
  OBVIOUS
<1>1. /\ batches \in [BatchNumbers -> Seq(Tasks)]
      /\ latestBatchNumber \in BatchNumbers
  BY DEF TypeInv, OperatorTypeOK
<1>2. ASSUME UNCHANGED batches, Waiting' \subseteq Waiting, events' \cap lookups' = {}
      PROVE  FiledOnce'
  BY <1>2 DEF FiledOnce
<1>3. ASSUME NEW t \in Tasks, OnNewTask(t) \/ LookupFails(t) PROVE FiledOnce'
  <2>1. Waiting' \subseteq Waiting /\ events' \cap lookups' = {} /\ UNCHANGED batches
    BY <1>3 DEF OnNewTask, LookupFails, Waiting, FiledOnce
  <2>2. QED
    BY <1>2, <2>1
<1>4. ASSUME NEW t \in Tasks, FileTask(t) PROVE FiledOnce'
  <2> DEFINE old == batches[latestBatchNumber]
             new == Append(old, t)
  <2>1. /\ t \in Waiting /\ Waiting' = Waiting \ {t} /\ events' \cap lookups' = {}
    BY <1>4 DEF FileTask, Waiting, FiledOnce
  <2>2. /\ batches'[latestBatchNumber] = new
        /\ \A b \in BatchNumbers : b # latestBatchNumber => batches'[b] = batches[b]
    BY <1>1, <1>4 DEF FileTask
  <2>3. old \in Seq(Tasks) /\ DOMAIN old = 1..Len(old) /\ Len(old) \in Nat
    BY <1>1
  <2>4. /\ DOMAIN new = 1..(Len(old) + 1) /\ new[Len(old) + 1] = t
        /\ \A i \in 1..Len(old) : new[i] = old[i]
        /\ Elements(new) = Elements(old) \cup {t}
    BY <2>3, ElementsAppend
  <2>5. \A b \in BatchNumbers : t \notin Elements(batches[b])
    BY <2>1 DEF FiledOnce
  <2>6. \A b \in BatchNumbers : Elements(batches'[b]) \cap Waiting' = {}
    BY <2>1, <2>2, <2>4 DEF FiledOnce
  <2>7. \A b, c \in BatchNumbers : b # c => Elements(batches'[b]) \cap Elements(batches'[c]) = {}
    <3> HIDE DEF new, old
    <3>1. \A b \in BatchNumbers : b # latestBatchNumber =>
              /\ Elements(batches'[b]) = Elements(batches[b])
              /\ Elements(batches'[latestBatchNumber]) \cap Elements(batches[b]) = {}
      <4>1. Elements(old) = Elements(batches[latestBatchNumber])
        BY DEF old
      <4>2. \A b \in BatchNumbers : b # latestBatchNumber =>
                Elements(old) \cap Elements(batches[b]) = {}
        BY <4>1, <1>1 DEF FiledOnce
      <4>3. QED
        BY <2>2, <2>4, <2>5, <4>2
    <3>2. QED
      BY <3>1 DEF FiledOnce
  <2>8. \A i, j \in DOMAIN new : i # j => new[i] # new[j]
    <3>1. \A i \in 1..Len(old) : old[i] # t
      BY <1>1, <2>3, <2>5 DEF Elements
    <3>2. \A i, j \in 1..Len(old) : i # j => old[i] # old[j]
      BY <1>1, <2>3 DEF FiledOnce
    <3> HIDE DEF new, old
    <3>3. QED
      BY <2>3, <2>4, <3>1, <3>2
  <2>9. \A b \in BatchNumbers : \A i, j \in DOMAIN batches'[b] :
            i # j => batches'[b][i] # batches'[b][j]
    <3> HIDE DEF new, old
    <3>1. QED
      BY <2>2, <2>8 DEF FiledOnce
  <2>10. QED
    BY <2>1, <2>6, <2>7, <2>9 DEF FiledOnce
<1>5. ASSUME NEW bn \in Blocks, OnBlockNumber(bn) PROVE FiledOnce'
  BY <1>5, BlockCases DEF FiledOnce, Waiting
<1>6. ASSUME NEW r \in running, Step(r) PROVE FiledOnce'
  <2>1. CASE UNCHANGED batches
    BY <1>6, <2>1, StepCases DEF FiledOnce, Waiting
  <2>2. CASE Ends(r)
    <3>1. \A b \in BatchNumbers : batches'[b] = <<>> \/ batches'[b] = batches[b]
      BY <1>1, <2>2 DEF Ends, Finish
    <3>2. UNCHANGED <<events, lookups>>
      BY <1>6, StepCases
    <3>3. QED
      BY <3>1, <3>2, ElementsEmpty DEF FiledOnce, Waiting
  <2>3. QED
    BY <1>6, <2>1, <2>2, StepCases DEF Prepares, Sends, Continues
<1>7. CASE Restart
  <2>1. \A b \in BatchNumbers : batches'[b] = <<>>
    BY <1>7 DEF Restart
  <2>2. QED
    BY <1>7, <2>1, ElementsEmpty DEF Restart, FiledOnce
<1>8. QED
  BY <1>3, <1>4, <1>5, <1>6, <1>7 DEF OperatorNext, MonitorStep, Mine, operatorVars, FiledOnce,
     Waiting

(* What has been submitted waits nowhere, and is still in a batch only     *)
(* while that batch is being sent.                                         *)
LEMMA SentStep ==
    TypeInv /\ FiledOnce /\ SentOnce /\ [OperatorNext]_operatorVars => SentOnce'
<1> SUFFICES ASSUME TypeInv, FiledOnce, SentOnce, [OperatorNext]_operatorVars PROVE SentOnce'
  OBVIOUS
<1>1. /\ batches \in [BatchNumbers -> Seq(Tasks)] /\ latestBatchNumber \in BatchNumbers
      /\ submissions \in Seq(Seq(Tasks))
      /\ \A r \in running : r.batch \in BatchNumbers
  BY OperatorAssumption DEF TypeInv, OperatorTypeOK, BatchNumbers, Blocks
<1>2. ASSUME UNCHANGED submissions, Waiting' \subseteq Waiting,
             \A b \in BatchNumbers : Elements(batches'[b]) \subseteq Elements(batches[b]) \cup Waiting,
             \A b \in BatchNumbers : BeingSent(b) => BeingSent(b)' \/ Elements(batches'[b]) = {}
      PROVE  SentOnce'
  <2>1. ASSUME NEW k \in DOMAIN submissions PROVE Elements(submissions[k]) \cap Waiting' = {}
    BY <1>2 DEF SentOnce
  <2>2. ASSUME NEW k \in DOMAIN submissions, NEW b \in BatchNumbers,
               Elements(submissions[k]) \cap Elements(batches'[b]) # {}
        PROVE  BeingSent(b)'
    <3>1. /\ Elements(batches'[b]) \subseteq Elements(batches[b]) \cup Waiting
          /\ BeingSent(b) => BeingSent(b)' \/ Elements(batches'[b]) = {}
      BY <1>2
    <3>2. Elements(submissions[k]) \cap Waiting = {}
      BY DEF SentOnce
    <3>3. Elements(submissions[k]) \cap Elements(batches[b]) # {}
      BY <2>2, <3>1, <3>2
    <3>4. BeingSent(b)
      BY <3>3 DEF SentOnce
    <3>5. QED
      BY <2>2, <3>1, <3>4
  <2>3. QED
    BY <1>2, <2>1, <2>2 DEF SentOnce
<1>3. ASSUME NEW t \in Tasks, OnNewTask(t) \/ LookupFails(t) PROVE SentOnce'
  BY <1>2, <1>3 DEF OnNewTask, LookupFails, Waiting, BeingSent
<1>4. ASSUME NEW t \in Tasks, FileTask(t) PROVE SentOnce'
  <2>1. t \in Waiting /\ Waiting' \subseteq Waiting /\ UNCHANGED <<running, submissions>>
    BY <1>4 DEF FileTask, Waiting
  <2>2. \A b \in BatchNumbers : Elements(batches'[b]) \subseteq Elements(batches[b]) \cup {t}
    BY <1>1, <1>4, ElementsAppend DEF FileTask
  <2>3. QED
    BY <1>2, <2>1, <2>2 DEF BeingSent
<1>5. ASSUME NEW bn \in Blocks, OnBlockNumber(bn) PROVE SentOnce'
  <2>1. UNCHANGED <<events, lookups, batches, submissions>> /\ running \subseteq running'
    BY <1>5, BlockCases DEF Opens, Closes, Waits
  <2>2. QED
    BY <1>2, <2>1 DEF Waiting, BeingSent
<1>6. ASSUME NEW r \in running, Step(r) PROVE SentOnce'
  <2>1. UNCHANGED Waiting
    BY <1>6, StepCases DEF Waiting
  <2>2. CASE Prepares(r)
    <3>1. \A b \in BatchNumbers : BeingSent(b) => BeingSent(b)'
      BY <2>2 DEF Prepares, Continues, Advance, BeingSent
    <3>2. QED
      BY <1>2, <2>1, <2>2, <3>1 DEF Prepares, Continues
  <2>3. CASE Sends(r)
    <3> DEFINE sent == batches[r.batch]
    <3>1. UNCHANGED batches /\ sent \in Seq(Tasks)
      BY <1>1, <2>3 DEF Sends, Continues
    <3>2. \A b \in BatchNumbers : BeingSent(b) => BeingSent(b)'
      BY <2>3 DEF Sends, Continues, Advance, BeingSent
    <3>3. BeingSent(r.batch)'
      BY <2>3 DEF Sends, Continues, Advance, BeingSent
    <3>4. /\ DOMAIN submissions' = DOMAIN submissions \cup {Len(submissions) + 1}
          /\ \A k \in DOMAIN submissions : submissions'[k] = submissions[k]
          /\ submissions'[Len(submissions) + 1] = sent
      BY <1>1, <2>3, <3>1 DEF Sends
    <3>5. /\ Elements(sent) \cap Waiting = {}
          /\ \A b \in BatchNumbers : b # r.batch => Elements(sent) \cap Elements(batches[b]) = {}
      BY <1>1 DEF FiledOnce
    <3> HIDE DEF sent
    <3>6. QED
      BY <2>1, <3>1, <3>2, <3>3, <3>4, <3>5 DEF SentOnce
  <2>4. CASE Ends(r)
    <3>1. /\ batches'[r.batch] = <<>>
          /\ \A b \in BatchNumbers : b # r.batch => batches'[b] = batches[b]
      BY <1>1, <2>4 DEF Ends, Finish
    <3>2. \A b \in BatchNumbers : b # r.batch => (BeingSent(b) => BeingSent(b)')
      BY <2>4 DEF Ends, Finish, BeingSent
    <3>3. UNCHANGED submissions
      BY <2>4 DEF Ends
    <3>4. QED
      BY <1>2, <2>1, <3>1, <3>2, <3>3, ElementsEmpty
  <2>5. QED
    BY <1>6, <2>2, <2>3, <2>4, StepCases
<1>7. CASE Restart
  <2>1. \A b \in BatchNumbers : batches'[b] = <<>>
    BY <1>7 DEF Restart
  <2>2. Waiting' \subseteq Waiting /\ UNCHANGED submissions
    BY <1>7 DEF Restart, Waiting
  <2>3. QED
    BY <1>2, <2>1, <2>2, ElementsEmpty
<1>8. CASE (\E k \in DOMAIN submissions : Mine(k)) \/ UNCHANGED operatorVars
  BY <1>8 DEF Mine, operatorVars, SentOnce, Waiting, BeingSent
<1>9. QED
  BY <1>3, <1>4, <1>5, <1>6, <1>7, <1>8 DEF OperatorNext, MonitorStep

(* Only the step that sends a batch adds a submission, and the call it     *)
(* belongs to, the one of its batch, has sent nothing before.              *)
LEMMA SubmittedStep ==
    IInv /\ [OperatorNext]_operatorVars => SubmittedOnce'
<1> SUFFICES ASSUME IInv, [OperatorNext]_operatorVars PROVE SubmittedOnce'
  OBVIOUS
<1>1. CASE UNCHANGED submissions
  BY <1>1 DEF IInv, SubmittedOnce
<1>2. ASSUME NEW r \in running, Sends(r) PROVE SubmittedOnce'
  <2> DEFINE sent == batches[r.batch]
  <2>1. /\ r.batch \in BatchNumbers
        /\ batches \in [BatchNumbers -> Seq(Tasks)] /\ submissions \in Seq(Seq(Tasks))
    BY OperatorAssumption DEF IInv, TypeInv, OperatorTypeOK, BatchNumbers, Blocks
  <2>2. ~BeingSent(r.batch)
    BY <1>2 DEF IInv, ClosedOnce, Sends, BeingSent
  <2>3. \A k \in DOMAIN submissions : Elements(submissions[k]) \cap Elements(sent) = {}
    BY <2>1, <2>2 DEF IInv, SentOnce
  <2>4. \A i, j \in DOMAIN sent : i # j => sent[i] # sent[j]
    BY <2>1 DEF IInv, FiledOnce
  <2>5. /\ DOMAIN submissions' = DOMAIN submissions \cup {Len(submissions) + 1}
        /\ \A k \in DOMAIN submissions : submissions'[k] = submissions[k]
        /\ submissions'[Len(submissions) + 1] = sent
    BY <1>2, <2>1 DEF Sends
  <2> HIDE DEF sent
  <2>6. \A j, k \in DOMAIN submissions' :
            j # k => Elements(submissions'[j]) \cap Elements(submissions'[k]) = {}
    BY <2>3, <2>5 DEF IInv, SubmittedOnce
  <2>7. \A k \in DOMAIN submissions' : \A i, j \in DOMAIN submissions'[k] :
            i # j => submissions'[k][i] # submissions'[k][j]
    BY <2>4, <2>5 DEF IInv, SubmittedOnce
  <2>8. QED
    BY <2>6, <2>7 DEF SubmittedOnce
<1>3. ASSUME NEW r \in running, Step(r) PROVE SubmittedOnce'
  BY <1>1, <1>2, <1>3, StepCases DEF IInv, Prepares, Ends
<1>4. ASSUME NEW bn \in Blocks, OnBlockNumber(bn) PROVE SubmittedOnce'
  BY <1>1, <1>4, BlockCases DEF IInv
<1>5. QED
  BY <1>1, <1>3, <1>4 DEF OperatorNext, MonitorStep, OnNewTask, FileTask, LookupFails, Mine,
     Restart, operatorVars

------------------------------------------------------------------------------
(* The inductive invariant holds at the start and is kept.                 *)
LEMMA InvInit == OperatorInit => IInv
<1> SUFFICES ASSUME OperatorInit PROVE IInv
  OBVIOUS
<1>1. TypeInv
  BY TypeInit
<1>2. \A b \in BatchNumbers : batches[b] = <<>>
  BY DEF OperatorInit
<1>3. FiledOnce
  BY <1>2, ElementsEmpty DEF OperatorInit, FiledOnce
<1>4. WindowsDrain
  BY <1>2, OperatorAssumption DEF WindowsDrain, BatchNumbers, Blocks
<1>5. WindowBounded /\ ClosedOnce /\ QuotedBeforeMatched
  BY DEF OperatorInit, WindowBounded, ClosedOnce, QuotedBeforeMatched
<1>6. SentOnce /\ SubmittedOnce
  BY DEF OperatorInit, SentOnce, SubmittedOnce
<1>7. QED
  BY <1>1, <1>3, <1>4, <1>5, <1>6 DEF IInv

LEMMA InvStep == IInv /\ [OperatorNext]_operatorVars => IInv'
BY TypeStep, WindowStep, ClosedStep, QuotedStep, DrainStep, FiledStep, SentStep, SubmittedStep
DEF IInv

(* The life of the process takes steps of OperatorNext only.               *)
LEMMA ServiceSteps ==
    /\ ServiceInit => OperatorInit
    /\ [ServiceNext]_serviceVars => [OperatorNext]_operatorVars
<1>1. ASSUME NEW t \in Tasks, MissEvent(t) PROVE OnNewTask(t)
  BY <1>1 DEF MissEvent, OnNewTask
<1>2. QED
  BY <1>1 DEF ServiceInit, ServiceNext, serviceVars, operatorVars, Register, Monitor, MineBatch,
     StartAgain, OperatorNext, MonitorStep

LEMMA ServiceInv == ServiceSpec => []IInv
<1>1. ServiceInit => IInv
  BY InvInit, ServiceSteps
<1>2. IInv /\ [ServiceNext]_serviceVars => IInv'
  BY InvStep, ServiceSteps
<1>3. QED
  BY <1>1, <1>2, PTL DEF ServiceSpec

------------------------------------------------------------------------------
(* What is sent, after one submission more.                                *)
SentSets(s) == [k \in DOMAIN s |-> Elements(s[k])]

LEMMA SentAppend ==
    ASSUME NEW s \in Seq(Seq(Tasks)), NEW b \in Seq(Tasks)
    PROVE  SentSets(Append(s, b)) = Append(SentSets(s), Elements(b))
<1> DEFINE Sets == SUBSET Tasks
           new == Append(s, b)
           sets == SentSets(s)
           batch == Elements(b)
<1>1. /\ new \in Seq(Seq(Tasks)) /\ DOMAIN new = 1..(Len(s) + 1)
      /\ DOMAIN s = 1..Len(s) /\ Len(s) \in Nat
      /\ \A i \in 1..Len(s) : new[i] = s[i]
      /\ new[Len(s) + 1] = b
  BY ElementsAppend
<1>2. sets \in [1..Len(s) -> Sets] /\ batch \in Sets
  BY <1>1 DEF SentSets, Elements
<1>3. \A S : \A n \in Nat : \A f \in [1..n -> S] : f \in Seq(S) /\ Len(f) = n
  OBVIOUS
<1> HIDE DEF Sets, new, sets, batch
<1>4. sets \in Seq(Sets) /\ Len(sets) = Len(s)
  BY <1>1, <1>2, <1>3
<1>5. /\ DOMAIN Append(sets, batch) = 1..(Len(s) + 1)
      /\ \A i \in 1..Len(s) : Append(sets, batch)[i] = sets[i]
      /\ Append(sets, batch)[Len(s) + 1] = batch
      /\ Append(sets, batch) \in Seq(Sets)
  BY <1>2, <1>4, ElementsAppend
<1>6. \A i \in 1..(Len(s) + 1) : i \in 1..Len(s) \/ i = Len(s) + 1
  BY <1>1
<1>7. \A i \in 1..(Len(s) + 1) : SentSets(new)[i] = Append(sets, batch)[i]
  <2>1. \A i \in 1..Len(s) : i \in 1..(Len(s) + 1) /\ sets[i] = Elements(s[i])
    BY <1>1 DEF sets, SentSets
  <2>2. \A i \in 1..(Len(s) + 1) : SentSets(new)[i] = Elements(new[i])
    BY <1>1 DEF SentSets
  <2>3. Elements(new[Len(s) + 1]) = batch
    BY <1>1 DEF batch
  <2>4. QED
    BY <1>1, <1>5, <1>6, <2>1, <2>2, <2>3
<1>8. SentSets(new) \in Seq(Sets) /\ Len(SentSets(new)) = Len(s) + 1
  <2>1. SentSets(new) \in [1..(Len(s) + 1) -> Sets]
    BY <1>1 DEF SentSets, Elements, Sets
  <2>2. Len(s) + 1 \in Nat
    BY <1>1
  <2>3. QED
    BY <1>3, <2>1, <2>2
<1>9. SentSets(new) = Append(sets, batch)
  <2>1. Len(Append(sets, batch)) = Len(s) + 1
    BY <1>2, <1>4, ElementsAppend
  <2>2. QED
    BY <1>5, <1>7, <1>8, <2>1, SeqEqual
<1>10. QED
  BY <1>9 DEF new, sets, batch

(* The batches of calls are of numbers closed before the open one, hold    *)
(* tasks, and no two share one.                                            *)
LEMMA CallsApart ==
    ASSUME IInv, NEW r \in running
    PROVE  /\ r \in Call /\ r.batch \in BatchNumbers /\ r.batch # latestBatchNumber
           /\ batches[r.batch] \in Seq(Tasks)
           /\ Elements(batches[r.batch]) # {}
           /\ \A q \in running : q # r =>
                 q.batch # r.batch /\ Elements(batches[q.batch]) # Elements(batches[r.batch])
<1>1. /\ latestBatchNumber \in Nat
      /\ \A q \in running : q \in Call /\ q.batch \in BatchNumbers /\ q.batch \in Nat
      /\ batches \in [BatchNumbers -> Seq(Tasks)]
  BY OperatorAssumption DEF IInv, TypeInv, CallsOK, OperatorTypeOK, BatchNumbers, Blocks
<1>2. ASSUME NEW q \in running PROVE Elements(batches[q.batch]) # {}
  <2>1. batches[q.batch] \in Seq(Tasks) /\ Len(batches[q.batch]) # 0
    BY <1>1 DEF IInv, QuotedBeforeMatched, Call
  <2>2. \A s \in Seq(Tasks) : Len(s) # 0 => 1 \in DOMAIN s
    OBVIOUS
  <2>3. QED
    BY <2>1, <2>2 DEF Elements
<1>3. r.batch # latestBatchNumber
  BY <1>1 DEF IInv, ClosedOnce
<1>4. ASSUME NEW q \in running, q # r
      PROVE  q.batch # r.batch /\ Elements(batches[q.batch]) # Elements(batches[r.batch])
  <2>1. q.batch # r.batch
    BY <1>4 DEF IInv, ClosedOnce
  <2>2. Elements(batches[q.batch]) \cap Elements(batches[r.batch]) = {}
    BY <1>1, <2>1 DEF IInv, FiledOnce
  <2>3. QED
    BY <1>2, <2>1, <2>2
<1>5. QED
  BY <1>1, <1>2, <1>3, <1>4

------------------------------------------------------------------------------
(* The operator starts where AtomicBatching does.                          *)
LEMMA InitImplements == OperatorInit => Batching!BatchingInit
<1> SUFFICES ASSUME OperatorInit PROVE Batching!BatchingInit
  OBVIOUS
<1>1. events \cup lookups = Tasks /\ (latestBatchNumber # 0) = FALSE
  BY DEF OperatorInit
<1>2. Window = {}
  BY ElementsEmpty, OperatorAssumption DEF OperatorInit, Window, BatchNumbers
<1>3. Unsent = {}
  BY DEF OperatorInit, Unsent
<1>4. [k \in DOMAIN submissions |-> Elements(submissions[k])] = <<>>
  <2>1. DOMAIN submissions = {}
    BY ElementsEmpty DEF OperatorInit
  <2>2. \A s \in [{} -> {}] : s = <<>>
    OBVIOUS
  <2>3. QED
    BY <2>1, <2>2
<1>5. QED
  BY <1>1, <1>2, <1>3, <1>4 DEF Batching!BatchingInit

(* The arrays of the calls stay as they are.                               *)
LEMMA UnsentKept ==
    ASSUME UNCHANGED running, \A r \in running : batches'[r.batch] = batches[r.batch]
    PROVE  UNCHANGED Unsent
BY DEF Unsent

(* A handler's steps collect a task, or lose it, or are not seen.          *)
LEMMA HandlerImplements ==
    ASSUME IInv, NEW t \in Tasks, OnNewTask(t) \/ FileTask(t) \/ LookupFails(t)
    PROVE  [Batching!BatchingNext]_(Batching!batchingVars)
<1>1. /\ events \cap lookups = {}
      /\ batches \in [BatchNumbers -> Seq(Tasks)] /\ latestBatchNumber \in BatchNumbers
  BY DEF IInv, TypeInv, OperatorTypeOK, FiledOnce
<1>2. CASE FileTask(t)
  <2>1. t \in Waiting /\ Waiting' = Waiting \ {t}
    BY <1>1, <1>2 DEF FileTask, Waiting
  <2>2. batches'[latestBatchNumber] = Append(batches[latestBatchNumber], t)
    BY <1>1, <1>2 DEF FileTask
  <2>3. Window' = Window \cup {t}
    BY <1>1, <1>2, <2>2, ElementsAppend DEF FileTask, Window
  <2>4. UNCHANGED Unsent
    <3>1. \A r \in running : batches'[r.batch] = batches[r.batch]
      BY <1>1, <1>2, CallsApart DEF FileTask
    <3>2. QED
      BY <1>2, <3>1, UnsentKept DEF FileTask
  <2>5. Batching!Collect(t)
    BY <1>2, <2>1, <2>3, <2>4 DEF FileTask, Waiting, Batching!Collect
  <2>6. QED
    BY <2>1, <2>5 DEF Waiting, Batching!BatchingNext
<1>3. CASE OnNewTask(t) \/ LookupFails(t)
  <2>1. UNCHANGED <<latestBatchNumber, Window, Unsent, submissions>>
    BY <1>3 DEF OnNewTask, LookupFails, Window, Unsent
  <2>2. t \in Waiting /\ (Waiting' = Waiting \/ Waiting' = Waiting \ {t})
    BY <1>1, <1>3 DEF OnNewTask, LookupFails, Waiting
  <2>3. CASE Waiting' = Waiting
    BY <2>1, <2>3 DEF Waiting, Batching!batchingVars
  <2>4. CASE Waiting' = Waiting \ {t}
    BY <2>1, <2>2, <2>4 DEF Waiting, Batching!Miss, Batching!BatchingNext
  <2>5. QED
    BY <2>2, <2>3, <2>4
<1>4. QED
  BY <1>2, <1>3

(* A block begins the first window or closes one; the array that is open   *)
(* then is empty, as the drained windows show.                             *)
LEMMA BlockImplements ==
    ASSUME IInv, NEW bn \in Blocks, OnBlockNumber(bn)
    PROVE  [Batching!BatchingNext]_(Batching!batchingVars)
<1>1. /\ bn \in Nat /\ bn # 0 /\ bn \in BatchNumbers
      /\ batches \in [BatchNumbers -> Seq(Tasks)] /\ latestBatchNumber \in BatchNumbers
      /\ latestBatchNumber \in Nat
  BY OperatorAssumption DEF IInv, TypeInv, OperatorTypeOK, BatchNumbers, Blocks
<1>2. /\ UNCHANGED <<events, lookups, batches, submissions>>
      /\ Opens(bn) \/ Closes(bn) \/ Waits(bn)
  BY BlockCases DEF IInv
<1>3. ASSUME latestBatchNumber < bn PROVE Elements(batches[bn]) = {}
  <2>1. \A r \in running : r.batch \in Nat /\ r.batch < latestBatchNumber
    BY <1>1 DEF IInv, ClosedOnce, TypeInv, OperatorTypeOK, Blocks
  <2>2. batches[bn] = <<>>
    BY <1>1, <1>3, <2>1 DEF IInv, WindowsDrain
  <2>3. QED
    BY <2>2, ElementsEmpty
<1>4. CASE Opens(bn)
  <2>1. Window' = {} /\ UNCHANGED Unsent
    BY <1>1, <1>2, <1>3, <1>4 DEF Opens, Window, Unsent
  <2>2. Batching!Begin
    BY <1>1, <1>2, <1>4, <2>1 DEF Opens, Batching!Begin
  <2>3. QED
    BY <2>2 DEF Batching!BatchingNext
<1>5. CASE Closes(bn)
  <2>1. Window' = {} /\ latestBatchNumber # 0 /\ latestBatchNumber' # 0
    BY <1>1, <1>2, <1>3, <1>5 DEF Closes, Window, Blocks
  <2>2. CASE batches[latestBatchNumber] = <<>>
    <3>1. Window = {} /\ UNCHANGED Unsent
      BY <1>2, <1>5, <2>2, ElementsEmpty DEF Closes, Window, Unsent
    <3>2. QED
      BY <1>2, <2>1, <3>1 DEF Batching!batchingVars
  <2>3. CASE batches[latestBatchNumber] # <<>>
    <3>1. running' = running \cup {NewCall(latestBatchNumber)}
      BY <1>5, <2>3 DEF Closes
    <3>2. /\ NewCall(latestBatchNumber).batch = latestBatchNumber
          /\ NewCall(latestBatchNumber).phase # "sending"
      BY DEF NewCall
    <3>3. Unsent' = Unsent \cup {Window}
      BY <1>2, <3>1, <3>2 DEF Unsent, Window
    <3>4. Window # {}
      <4>1. \A s \in Seq(Tasks) : s # <<>> => 1 \in DOMAIN s
        OBVIOUS
      <4>2. QED
        BY <1>1, <2>3, <4>1 DEF Window, Elements
    <3>5. Batching!Close
      BY <1>2, <2>1, <3>3, <3>4 DEF Batching!Close
    <3>6. QED
      BY <3>5 DEF Batching!BatchingNext
  <2>4. QED
    BY <2>2, <2>3
<1>6. CASE Waits(bn)
  BY <1>2, <1>6 DEF Waits, Window, Unsent, Batching!batchingVars
<1>7. QED
  BY <1>2, <1>4, <1>5, <1>6

(* A call goes on unseen until it submits its batch, or drops it.          *)
LEMMA CallImplements ==
    ASSUME IInv, NEW r \in running, Step(r)
    PROVE  [Batching!BatchingNext]_(Batching!batchingVars)
<1> DEFINE batch == Elements(batches[r.batch])
           Rest == {Elements(batches[q.batch]) : q \in {p \in running \ {r} : p.phase # "sending"}}
<1>1. /\ UNCHANGED <<events, lookups, latestBatchNumber>>
      /\ Prepares(r) \/ Sends(r) \/ Ends(r)
  BY StepCases DEF IInv
<1>2. /\ batches \in [BatchNumbers -> Seq(Tasks)] /\ submissions \in Seq(Seq(Tasks))
      /\ r.batch # latestBatchNumber /\ r.batch \in BatchNumbers
      /\ batches[r.batch] \in Seq(Tasks)
  BY CallsApart DEF IInv, TypeInv, OperatorTypeOK
<1>3. r.phase # "sending" => Unsent = Rest \cup {batch}
  BY DEF Unsent
<1>4. r.phase = "sending" => Unsent = Rest
  BY DEF Unsent
<1>5. batch \notin Rest
  BY CallsApart
<1>6. ASSUME NEW next \in Call, Continues(r, next)
      PROVE  /\ next.phase # "sending" => Unsent' = Rest \cup {batch}
             /\ next.phase = "sending" => Unsent' = Rest
             /\ UNCHANGED Window
  <2>1. UNCHANGED batches /\ running' = (running \ {r}) \cup {next} /\ next.batch = r.batch
    BY <1>6 DEF Continues, Advance
  <2>2. next.phase # "sending" => Unsent' = Rest \cup {batch}
    BY <2>1 DEF Unsent
  <2>3. next.phase = "sending" => Unsent' = Rest
    BY <2>1 DEF Unsent
  <2>4. QED
    BY <1>1, <2>1, <2>2, <2>3 DEF Window
<1> HIDE DEF batch, Rest
<1>7. CASE Prepares(r)
  <2>1. UNCHANGED <<Window, Unsent, submissions>>
    BY <1>3, <1>6, <1>7 DEF Prepares
  <2>2. QED
    BY <1>1, <2>1 DEF Batching!batchingVars
<1>8. CASE Sends(r)
  <2>1. Unsent = Rest \cup {batch} /\ Unsent' = Rest /\ UNCHANGED Window
    BY <1>3, <1>6, <1>8 DEF Sends
  <2>2. submissions' = Append(submissions, batches[r.batch])
    BY <1>8 DEF Sends
  <2>3. SentSets(submissions') = Append(SentSets(submissions), batch)
    BY <1>2, <2>2, SentAppend DEF batch
  <2>4. batch \in Unsent /\ Unsent' = Unsent \ {batch}
    BY <1>5, <2>1
  <2>5. Batching!Submit(batch)
    BY <1>1, <2>1, <2>3, <2>4 DEF SentSets, Batching!Submit
  <2>6. QED
    BY <2>4, <2>5 DEF Batching!BatchingNext
<1>9. CASE Ends(r)
  <2>1. /\ running' = running \ {r} /\ UNCHANGED submissions
        /\ \A b \in BatchNumbers : b # r.batch => batches'[b] = batches[b]
    BY <1>2, <1>9 DEF Ends, Finish
  <2>2. UNCHANGED Window
    BY <1>1, <1>2, <2>1 DEF Window, IInv, TypeInv, OperatorTypeOK
  <2>3. Unsent' = Rest
    <3>1. \A q \in running \ {r} : q.batch \in BatchNumbers /\ q.batch # r.batch
      BY CallsApart
    <3>2. \A q \in running \ {r} : batches'[q.batch] = batches[q.batch]
      BY <2>1, <3>1
    <3>3. QED
      BY <2>1, <3>2 DEF Unsent, Rest
  <2>4. CASE r.phase = "sending"
    BY <1>1, <1>4, <2>1, <2>2, <2>3, <2>4 DEF Batching!batchingVars
  <2>5. CASE r.phase # "sending"
    <3>1. batch \in Unsent /\ Unsent' = Unsent \ {batch}
      BY <1>3, <1>5, <2>3, <2>5
    <3>2. Batching!Drop(batch)
      BY <1>1, <2>1, <2>2, <3>1 DEF Batching!Drop
    <3>3. QED
      BY <3>1, <3>2 DEF Batching!BatchingNext
  <2>6. QED
    BY <2>4, <2>5
<1>10. QED
  BY <1>1, <1>7, <1>8, <1>9

(* A restart is a crash: what was not submitted is gone.                   *)
LEMMA RestartImplements ==
    ASSUME Restart PROVE [Batching!BatchingNext]_(Batching!batchingVars)
<1>1. Window' = {} /\ Unsent' = {}
  BY ElementsEmpty, OperatorAssumption DEF Restart, Window, Unsent, BatchNumbers
<1>2. (events \cup lookups)' \in SUBSET (events \cup lookups)
  BY DEF Restart
<1>3. Batching!Crash
  BY <1>1, <1>2 DEF Restart, Batching!Crash
<1>4. QED
  BY <1>3 DEF Batching!BatchingNext

LEMMA NextImplements ==
    IInv /\ [OperatorNext]_operatorVars => [Batching!BatchingNext]_(Batching!batchingVars)
<1> SUFFICES ASSUME IInv, [OperatorNext]_operatorVars
             PROVE  [Batching!BatchingNext]_(Batching!batchingVars)
  OBVIOUS
<1>1. CASE (\E k \in DOMAIN submissions : Mine(k)) \/ UNCHANGED operatorVars
  BY <1>1 DEF Mine, operatorVars, Window, Unsent, Batching!batchingVars
<1>2. QED
  BY <1>1, HandlerImplements, BlockImplements, CallImplements, RestartImplements
     DEF OperatorNext, MonitorStep

------------------------------------------------------------------------------
(* Every variable keeps its type, however batches overlap and whenever the *)
(* process is restarted.                                                   *)
THEOREM OperatorTypeCorrect == ServiceSpec => []OperatorTypeOK
<1>1. IInv => OperatorTypeOK
  BY DEF IInv, TypeInv
<1>2. QED
  BY <1>1, ServiceInv, PTL

(* onBlockNumber closes a window as soon as it is called                   *)
(* MAX_BLOCKS_PER_BATCH blocks after it was opened, or later.              *)
THEOREM WindowAlwaysBounded == ServiceSpec => []WindowBounded
<1>1. IInv => WindowBounded
  BY DEF IInv
<1>2. QED
  BY <1>1, ServiceInv, PTL

(* processBatch matches, signs and sends the very tasks it had quoted.     *)
THEOREM AlwaysQuoted == ServiceSpec => []QuotedBeforeMatched
<1>1. IInv => QuotedBeforeMatched
  BY DEF IInv
<1>2. QED
  BY <1>1, ServiceInv, PTL

(* No batch of a closed window is forgotten while it holds tasks.          *)
THEOREM WindowsAlwaysDrain == ServiceSpec => []WindowsDrain
<1>1. IInv => WindowsDrain
  BY DEF IInv
<1>2. QED
  BY <1>1, ServiceInv, PTL

(* respondToBatch is never sent twice for one task, not even by a process  *)
(* that was restarted after sending it.                                    *)
THEOREM NothingSubmittedTwice == ServiceSpec => []SubmittedOnce
<1>1. IInv => SubmittedOnce
  BY DEF IInv
<1>2. QED
  BY <1>1, ServiceInv, PTL

(* Whatever handlers wait and however calls overlap, the process does no   *)
(* more than collect tasks in one window at a time, close it, and submit   *)
(* or drop it whole.                                                       *)
THEOREM OperatorImplementsBatching == ServiceSpec => ImplementsBatching
<1>1. ServiceInit => Batching!BatchingInit
  BY InitImplements, ServiceSteps
<1>2. IInv /\ [ServiceNext]_serviceVars => [Batching!BatchingNext]_(Batching!batchingVars)
  BY NextImplements, ServiceSteps
<1>3. QED
  BY <1>1, <1>2, ServiceInv, PTL DEF ServiceSpec, ImplementsBatching, Batching!BatchingSpec
------------------------------------------------------------------------------
(* The operator and the manager together.  Each of their steps is one of   *)
(* the operator, or leaves it alone.                                       *)
LEMMA OnChainSteps ==
    /\ OnChainInit => OperatorInit
    /\ [AnySignatureNext]_onChainVars => [OperatorNext]_operatorVars
BY DEF OnChainInit, AnySignatureNext, onChainVars, operatorVars, Order, Deploy, Operate, Respond,
       OperatorNext

(* Tasks are on record in the order of their ids, and the operator has     *)
(* heard of none but those.                                                *)
OnRecord ==
    /\ Tasks = 0..MaxTaskId /\ latestTaskNum \in Tasks
    /\ allTaskHashes = [i \in Tasks |-> allTaskHashes[i]]
    /\ \A i \in Tasks : i < latestTaskNum => allTaskHashes[i] # NoTask
    /\ \A i \in Tasks \ events : i < latestTaskNum

(* A task the manager has an answer for was in a batch it accepted.        *)
AnsweredInBatch ==
    /\ allTaskResponses = [o \in {Self} |-> allTaskResponses[o]]
    /\ \A i \in Tasks : allTaskResponses[Self][i] # Empty =>
          \E k \in mined : i \in Elements(submissions[k])

SubmissionsFull == \A k \in DOMAIN submissions : submissions[k] # <<>>

OnChainInv ==
    /\ OnChainConstants
    /\ IInv /\ OnRecord /\ AnsweredInBatch /\ SubmissionsFull

(* Nothing is submitted but an array that holds tasks.                     *)
LEMMA SubmissionsGrow ==
    ASSUME IInv, MonitorStep \/ Restart
    PROVE  /\ mined' = mined
           /\ \/ submissions' = submissions
              \/ \E b \in Seq(Tasks) \ {<<>>} : submissions' = Append(submissions, b)
<1>1. ASSUME NEW r \in running, Step(r)
      PROVE  /\ mined' = mined
             /\ \/ submissions' = submissions
                \/ \E b \in Seq(Tasks) \ {<<>>} : submissions' = Append(submissions, b)
  <2>1. UNCHANGED mined /\ (Prepares(r) \/ Sends(r) \/ Ends(r))
    BY <1>1, StepCases DEF IInv
  <2>2. batches[r.batch] \in Seq(Tasks) /\ r.asked = Len(batches[r.batch]) /\ r.asked # 0
    BY DEF IInv, TypeInv, OperatorTypeOK, CallsOK, Call, QuotedBeforeMatched, Blocks, BatchNumbers
  <2>3. batches[r.batch] # <<>>
    BY <2>2
  <2>4. QED
    BY <2>1, <2>2, <2>3 DEF Prepares, Sends, Ends
<1>2. QED
  BY <1>1 DEF MonitorStep, OnNewTask, FileTask, LookupFails, OnBlockNumber, Restart

(* createNewTask puts the next task on record.                             *)
LEMMA OrderInv ==
    ASSUME OnChainInv, Order
    PROVE  OnRecord' /\ AnsweredInBatch' /\ SubmissionsFull'
<1>1. UNCHANGED <<events, submissions, mined, allTaskResponses>>
  BY DEF Order, operatorVars, Chain!CreateNewTask
<1>2. AnsweredInBatch' /\ SubmissionsFull'
  BY <1>1 DEF OnChainInv, AnsweredInBatch, SubmissionsFull
<1> DEFINE new == [order |-> [poolId |-> Pool], taskId |-> latestTaskNum]
<1>3. /\ latestTaskNum < MaxTaskId /\ latestTaskNum' = latestTaskNum + 1
      /\ allTaskHashes' = [allTaskHashes EXCEPT ![latestTaskNum] = new]
  BY DEF Order, Chain!CreateNewTask, Chain!Increment
<1>4. latestTaskNum \in Tasks /\ new # NoTask
  BY DEF OnChainInv, OnChainConstants, OnRecord
<1> HIDE DEF new
<1>5. Tasks = 0..MaxTaskId /\ \A i \in Tasks : i \in Int
  BY DEF OnChainInv, OnRecord
<1>6. latestTaskNum' \in Tasks
  BY <1>3, <1>4, <1>5 DEF OnChainInv, OnChainConstants
<1>7. /\ allTaskHashes' = [i \in Tasks |-> allTaskHashes'[i]]
      /\ \A i \in Tasks : allTaskHashes'[i] = IF i = latestTaskNum THEN new ELSE allTaskHashes[i]
  BY <1>3, <1>4 DEF OnChainInv, OnRecord
<1>8. \A i \in Tasks : i < latestTaskNum' => allTaskHashes'[i] # NoTask
  BY <1>3, <1>4, <1>5, <1>7 DEF OnChainInv, OnRecord
<1>9. \A i \in Tasks \ events' : i < latestTaskNum'
  BY <1>1, <1>3, <1>4, <1>5 DEF OnChainInv, OnRecord
<1>10. OnRecord'
  BY <1>5, <1>6, <1>7, <1>8, <1>9 DEF OnRecord
<1>11. QED
  BY <1>2, <1>10

(* The operator hears of recorded tasks only, and submits arrays that hold *)
(* some.                                                                   *)
LEMMA OperateInv ==
    ASSUME OnChainInv, Operate
    PROVE  OnRecord' /\ AnsweredInBatch' /\ SubmissionsFull'
<1>1. /\ UNCHANGED <<latestTaskNum, allTaskHashes, allTaskResponses>>
      /\ events \ events' \subseteq {t \in Tasks : t < latestTaskNum}
  BY DEF Operate, managerVars
<1>2. OnRecord'
  BY <1>1 DEF OnChainInv, OnRecord
<1>3. /\ mined' = mined
      /\ \/ submissions' = submissions
         \/ \E b \in Seq(Tasks) \ {<<>>} : submissions' = Append(submissions, b)
  BY SubmissionsGrow DEF OnChainInv, Operate
<1>4. submissions \in Seq(Seq(Tasks)) /\ mined \subseteq DOMAIN submissions
  BY DEF OnChainInv, IInv, TypeInv, OperatorTypeOK
<1>5. CASE submissions' = submissions
  BY <1>1, <1>2, <1>3, <1>5 DEF OnChainInv, AnsweredInBatch, SubmissionsFull
<1>6. ASSUME NEW b \in Seq(Tasks) \ {<<>>}, submissions' = Append(submissions, b)
      PROVE  AnsweredInBatch' /\ SubmissionsFull'
  <2>1. /\ DOMAIN submissions' = 1..(Len(submissions) + 1) /\ DOMAIN submissions = 1..Len(submissions)
        /\ Len(submissions) \in Nat
        /\ \A k \in DOMAIN submissions : submissions'[k] = submissions[k]
        /\ submissions'[Len(submissions) + 1] = b
    BY <1>4, <1>6
  <2>2. SubmissionsFull'
    BY <2>1 DEF OnChainInv, SubmissionsFull
  <2>3. \A k \in mined : Elements(submissions'[k]) = Elements(submissions[k])
    BY <1>4, <2>1
  <2>4. AnsweredInBatch'
    BY <1>1, <1>3, <2>3 DEF OnChainInv, AnsweredInBatch
  <2>5. QED
    BY <2>2, <2>4
<1>7. QED
  BY <1>2, <1>3, <1>5, <1>6

(* A batch the manager accepts has its tasks answered, and no others.      *)
LEMMA RespondInv ==
    ASSUME OnChainInv, NEW k \in DOMAIN submissions, NEW signature, Respond(k, signature)
    PROVE  OnRecord' /\ AnsweredInBatch' /\ SubmissionsFull'
<1>1. UNCHANGED <<events, submissions, latestTaskNum, allTaskHashes>> /\ mined' = mined \cup {k}
  BY DEF Respond, Mine, Chain!RespondToBatch, Chain!registry
<1>2. OnRecord' /\ SubmissionsFull'
  BY <1>1 DEF OnChainInv, OnRecord, SubmissionsFull
<1> DEFINE refs == submissions[k]
           answers == [i \in Tasks |-> IF \E j \in DOMAIN refs : refs[j] = i
                                       THEN signature ELSE allTaskResponses[Self][i]]
<1>3. allTaskResponses' = [allTaskResponses EXCEPT ![Self] = answers]
  BY DEF OnChainInv, OnRecord, Respond, Chain!RespondToBatch, Chain!TaskIds
<1>4. \A i \in Tasks : answers[i] = allTaskResponses[Self][i] \/ i \in Elements(refs)
  BY DEF Elements
<1> HIDE DEF answers
<1>5. allTaskResponses' = [o \in {Self} |-> allTaskResponses'[o]] /\ allTaskResponses'[Self] = answers
  BY <1>3 DEF OnChainInv, AnsweredInBatch
<1>6. AnsweredInBatch'
  BY <1>1, <1>4, <1>5 DEF OnChainInv, AnsweredInBatch
<1>7. QED
  BY <1>2, <1>6

(* The invariant of the two together holds at the start and is kept.       *)
LEMMA OnChainInitInv == OnChainConstants /\ OnChainInit => OnChainInv
<1> SUFFICES ASSUME OnChainConstants, OnChainInit PROVE OnChainInv
  OBVIOUS
<1>1. IInv
  BY OnChainSteps, InvInit
<1>2. /\ latestTaskNum = 0 /\ events = Tasks /\ submissions = <<>>
      /\ allTaskHashes = [i \in Tasks |-> NoTask]
      /\ allTaskResponses = [o \in {Self} |-> [i \in Tasks |-> Empty]]
  BY DEF OnChainInit, OperatorInit, Chain!ManagerInit, Chain!TaskIds
<1>3. Tasks = 0..MaxTaskId /\ 0 \in Tasks /\ \A i \in Tasks : ~(i < 0)
  BY DEF OnChainConstants, OnChainInit, Chain!TaskIds
<1>4. OnRecord
  BY <1>2, <1>3 DEF OnRecord
<1>5. AnsweredInBatch /\ SubmissionsFull
  BY <1>2 DEF AnsweredInBatch, SubmissionsFull
<1>6. QED
  BY <1>1, <1>4, <1>5 DEF OnChainInv

LEMMA OnChainStepInv == OnChainInv /\ [AnySignatureNext]_onChainVars => OnChainInv'
<1> SUFFICES ASSUME OnChainInv, [AnySignatureNext]_onChainVars PROVE OnChainInv'
  OBVIOUS
<1>1. IInv'
  BY OnChainSteps, InvStep DEF OnChainInv
<1>2. OnRecord' /\ AnsweredInBatch' /\ SubmissionsFull'
  <2>1. CASE Order
    BY <2>1, OrderInv
  <2>2. CASE Operate
    BY <2>2, OperateInv
  <2>3. CASE Deploy \/ UNCHANGED onChainVars
    <3>1. UNCHANGED <<events, submissions, mined, latestTaskNum, allTaskHashes, allTaskResponses>>
      BY <2>3 DEF Deploy, Chain!SetHook, Chain!registry, operatorVars, managerVars, onChainVars
    <3>2. QED
      BY <3>1 DEF OnChainInv, OnRecord, AnsweredInBatch, SubmissionsFull
  <2>4. ASSUME NEW k \in DOMAIN submissions, NEW signature, Respond(k, signature)
        PROVE  OnRecord' /\ AnsweredInBatch' /\ SubmissionsFull'
    BY <2>4, RespondInv
  <2>5. QED
    BY <2>1, <2>2, <2>3, <2>4 DEF AnySignatureNext
<1>3. OnChainConstants'
  BY DEF OnChainInv, OnChainConstants
<1>4. QED
  BY <1>1, <1>2, <1>3 DEF OnChainInv

(* A submission that waits to be executed names tasks on record, and none  *)
(* of an accepted one.                                                     *)
LEMMA InvAnswerable == OnChainInv => SubmissionsAnswerable
<1> SUFFICES ASSUME OnChainInv, NEW k \in DOMAIN submissions \ mined
             PROVE  LET refs == submissions[k]
                        records == [j \in DOMAIN refs |-> allTaskHashes[refs[j]]]
                    IN  /\ refs # <<>> /\ NoTask \notin Elements(records)
                        /\ Chain!Answerable(Self, records, refs)
  BY DEF SubmissionsAnswerable
<1> DEFINE refs == submissions[k]
           records == [j \in DOMAIN refs |-> allTaskHashes[refs[j]]]
<1>1. submissions[k] \in Seq(Tasks) /\ mined \subseteq DOMAIN submissions
  BY DEF OnChainInv, IInv, TypeInv, OperatorTypeOK
<1>2. refs # <<>>
  BY DEF OnChainInv, SubmissionsFull
<1>3. ASSUME NEW j \in DOMAIN refs
      PROVE  allTaskHashes[refs[j]] # NoTask /\ allTaskResponses[Self][refs[j]] = Empty
  <2>1. refs[j] \in Tasks /\ refs[j] \in Elements(submissions[k])
    BY <1>1 DEF Elements
  <2>2. refs[j] \notin events
    BY <2>1 DEF OnChainInv, IInv, SentOnce, Waiting
  <2>3. allTaskHashes[refs[j]] # NoTask
    BY <2>1, <2>2 DEF OnChainInv, OnRecord
  <2>4. \A m \in mined : refs[j] \notin Elements(submissions[m])
    BY <1>1, <2>1 DEF OnChainInv, IInv, SubmittedOnce
  <2>5. QED
    BY <2>1, <2>3, <2>4 DEF OnChainInv, AnsweredInBatch
<1>4. NoTask \notin Elements(records)
  BY <1>3 DEF Elements
<1>5. Chain!Answerable(Self, records, refs)
  BY <1>3 DEF Chain!Answerable
<1>6. QED
  BY <1>2, <1>4, <1>5

(* Whatever is signed and whichever batches the manager has accepted       *)
(* before, respondToBatch finds no fault with the tasks of a submission.   *)
THEOREM SubmissionsAlwaysAnswerable ==
    ASSUME OnChainConstants
    PROVE  AnySignatureSpec => []SubmissionsAnswerable
<1>1. OnChainInit => OnChainInv
  BY OnChainInitInv
<1>2. QED
  BY <1>1, OnChainStepInv, InvAnswerable, PTL DEF AnySignatureSpec

(* A struct of a domain and a hash is not one of a pool and lists.         *)
LEMMA DifferentStructs ==
    ASSUME NEW a, NEW b, NEW c, NEW d
    PROVE  [domain |-> a, hash |-> b] # [poolId |-> c, payload |-> d]
<1>1. "domain" \in DOMAIN [domain |-> a, hash |-> b]
  OBVIOUS
<1>2. "domain" \notin DOMAIN [poolId |-> c, payload |-> d]
  OBVIOUS
<1>3. QED
  BY <1>1, <1>2

(* With what the operator signs, the manager recovers nobody.              *)
LEMMA AnswerRefused == ASSUME OnChainConstants, NEW k, Answer(k) PROVE FALSE
<1> DEFINE refs == submissions[k]
           records == [j \in DOMAIN refs |-> allTaskHashes[refs[j]]]
           message == [poolId |-> Chain!PoolToUse(records), payload |-> NoLists]
           signature == SignTypedData(MessageHash(refs))
<1>1. Chain!Recover(message, signature) = Self
  BY DEF Answer, Respond, Chain!RespondToBatch
<1>2. signature.message # message
  BY DifferentStructs DEF SignTypedData
<1>3. Chain!Recover(message, signature) = NoAddress
  BY <1>2 DEF Chain!Recover
<1>4. QED
  BY <1>1, <1>3 DEF OnChainConstants

(* As the code stands, the manager accepts no batch of the operator, and   *)
(* no task is ever settled or answered.                                    *)
NothingAccepted ==
    /\ mined = {} /\ settlements = <<>>
    /\ \A i \in Tasks : allTaskResponses[Self][i] = Empty

THEOREM NothingEverAccepted ==
    ASSUME OnChainConstants
    PROVE  OnChainSpec => []NothingAccepted
<1>1. OnChainInit => NothingAccepted
  BY DEF OnChainInit, OperatorInit, Chain!ManagerInit, Chain!TaskIds, NothingAccepted
<1>2. NothingAccepted /\ [OnChainNext]_onChainVars => NothingAccepted'
  <2> SUFFICES ASSUME NothingAccepted, [OnChainNext]_onChainVars PROVE NothingAccepted'
    OBVIOUS
  <2>1. UNCHANGED <<mined, settlements, allTaskResponses>>
    <3>1. CASE Operate
      <4>1. UNCHANGED mined
        BY <3>1 DEF Operate, MonitorStep, OnNewTask, FileTask, LookupFails, OnBlockNumber, Restart, Step,
                    QuoteSettles, HashSettles, SignSettles, SendSettles
      <4>2. QED
        BY <3>1, <4>1 DEF Operate, managerVars
    <3>2. CASE Order \/ Deploy \/ UNCHANGED onChainVars
      BY <3>2 DEF Order, Deploy, Chain!CreateNewTask, Chain!SetHook, operatorVars, managerVars, onChainVars
    <3>3. QED
      BY <3>1, <3>2, AnswerRefused DEF OnChainNext
  <2>2. QED
    BY <2>1 DEF NothingAccepted
<1>3. QED
  BY <1>1, <1>2, PTL DEF OnChainSpec
=============================================================================
