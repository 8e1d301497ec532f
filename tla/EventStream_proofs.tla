------------------------- MODULE EventStream_proofs -------------------------
(***************************************************************************)
(* The invariants of the event streams: the dispatcher preserves the       *)
(* inductive invariant too, and the properties follow from it.             *)
(*                                                                         *)
(* That no event before the fromBlock is delivered needs an invariant of   *)
(* its own (FromInv), and that the stream starts within reach of that      *)
(* block (StartsInReach): the code does not ensure it.                     *)
(***************************************************************************)
EXTENDS EventStream_invariant

-----------------------------------------------------------------------------
(* The dispatcher.                                                          *)

\* The dispatcher takes the first message of the channel.
LEMMA Received ==
    ASSUME IInv, dispatch # <<>>
    PROVE  /\ Tail(dispatch) \in Seq(Messages) /\ Head(dispatch) \in Messages
           /\ Len(Tail(dispatch)) <= setup.batchSize
           /\ Claims(Wanted, Head(dispatch), Batched)
           /\ Queued(Wanted, Tail(dispatch), Batched \cup {Head(dispatch).log})
           /\ LogsIn(dispatch) = LogsIn(Tail(dispatch)) \cup {Head(dispatch).log}
           /\ Proper(Head(dispatch), indexed) /\ AllProper(Tail(dispatch), indexed)
           /\ Head(dispatch).block \in Blocks /\ Head(dispatch).log \in AllLogs \cup {NoLog}
           /\ origin # None
<1> USE DEF IInv
<1>1. dispatch \in Seq(Messages) /\ Len(dispatch) <= setup.batchSize
  BY Zenon DEF Types
<1>2. Len(Tail(dispatch)) <= setup.batchSize
  BY <1>1, Fields
<1>3. /\ Tail(dispatch) \in Seq(Messages) /\ Head(dispatch) \in Messages
      /\ Claims(Wanted, Head(dispatch), Batched)
      /\ Queued(Wanted, Tail(dispatch), Batched \cup {Head(dispatch).log})
      /\ LogsIn(dispatch) = LogsIn(Tail(dispatch)) \cup {Head(dispatch).log}
  BY Zenon, <1>1, QueueTail DEF Pipeline
<1>4. Proper(Head(dispatch), indexed) /\ AllProper(Tail(dispatch), indexed)
  BY Zenon, <1>1, ProperTail DEF DispatcherShape
<1>5. Head(dispatch).block \in Blocks /\ Head(dispatch).log \in AllLogs \cup {NoLog}
  BY Zenon, <1>3 DEF Messages
<1>6. origin # None
  BY Zenon DEF Origins
<1> QED
  BY Zenon, <1>2, <1>3, <1>4, <1>5, <1>6

\* A confirmation, which is no event, leaves the channel.
LEMMA ConfirmationTaken ==
    ASSUME IInv, dispatch # <<>>, Head(dispatch).log = NoLog, dispatch' = Tail(dispatch),
           origin' = origin, det' = det, Batched' = Batched
    PROVE  /\ Queued(Wanted', dispatch', Batched')
           /\ Queued(Wanted', det'.out, Batched' \cup LogsIn(dispatch'))
           /\ Reached(Wanted)'
<1> USE DEF IInv
<1>1. Wanted' = Wanted /\ \A e \in Wanted : e # NoLog
  BY Zenon, SameWanted, WantedFacts
<1>2. /\ Queued(Wanted, dispatch', Batched \cup {NoLog})
      /\ LogsIn(dispatch) = LogsIn(dispatch') \cup {NoLog}
  BY Zenon, Received
<1>3. Queued(Wanted, dispatch', Batched)
  <2>1. \A e \in Wanted : e \in Batched \cup {NoLog} => e \in Batched
    BY Zenon, <1>1
  <2> QED
    BY Zenon, <1>2, <2>1, QueueMore
<1>4. \A e \in Wanted : e \in Batched \cup LogsIn(dispatch) => e \in Batched \cup LogsIn(dispatch')
  BY Zenon, <1>1, <1>2
<1>5. Queued(Wanted, det.out, Batched \cup LogsIn(dispatch'))
  BY Zenon, <1>4, QueueMore DEF Pipeline
<1>6. Reached(Wanted)'
  <2>1. \A e \in Wanted : e \in Handed => e \in Handed'
    BY Zenon, <1>4 DEF Handed
  <2> QED
    BY Zenon, <2>1, StillReached DEF Pipeline
<1> QED
  BY Zenon, <1>1, <1>3, <1>5, <1>6

LEMMA AdvanceCheckpointStep ==
    ASSUME IInv, AdvanceCheckpoint
    PROVE  IInv'
<1> USE DEF IInv
<1> DEFINE m == Head(dispatch)
<1>1. /\ dispatch # <<>> /\ m.log = NoLog /\ dispatch' = Tail(dispatch)
      /\ \/ persisted' = m.block /\ checkpoint' = m.block
         \/ persisted' = persisted /\ checkpoint' = checkpoint
      /\ UNCHANGED <<setup, indexed, notified, delivered, blocks, det, dis, origin, discarded>>
  BY Zenon DEF AdvanceCheckpoint, UpdateCheckpoint
<1>2. /\ Tail(dispatch) \in Seq(Messages) /\ Len(Tail(dispatch)) <= setup.batchSize
      /\ Claims(Wanted, m, Batched) /\ AllProper(Tail(dispatch), indexed)
      /\ m.block <= indexed /\ m.last /\ m.block \in Blocks /\ origin # None
  BY Zenon, <1>1, Received DEF Proper
<1>3. m.block \in -1..indexed
  <2> HIDE DEF m
  <2> QED
    BY <1>2, Fields DEF Blocks
<1>4. Types'
  BY Zenon, <1>1, <1>2, <1>3 DEF Types
<1>5. DetectorShape' /\ DispatcherShape' /\ Ascending' /\ Origins'
  BY Zenon, <1>1, <1>2, SameDetector DEF DispatcherShape, Ascending, Origins
<1>6. Wanted' = Wanted /\ Settled' = Settled /\ Batched' = Batched /\ \A e \in Wanted : e # NoLog
  BY Zenon, <1>1, SameWanted, WantedFacts DEF Settled, Batched
<1>7. \A e \in Wanted : e[1] <= m.block => e \in Batched
  BY Zenon, <1>1, <1>2, <1>6 DEF Claims
<1>8. Covered(Wanted)'
  <2> HIDE DEF m
  <2>1. \A e \in Wanted : e[1] <= persisted' => e \in Batched
    BY Zenon, <1>1, <1>7 DEF Pipeline, Covered
  <2> QED
    BY Zenon, <1>1, <1>6, <2>1 DEF Pipeline, Covered
<1>9. /\ Queued(Wanted', dispatch', Batched')
      /\ Queued(Wanted', det'.out, Batched' \cup LogsIn(dispatch'))
      /\ Reached(Wanted)'
  BY Zenon, <1>1, <1>6, ConfirmationTaken
<1> QED
  BY Zenon, <1>4, <1>5, <1>8, <1>9 DEF Pipeline

LEMMA AdvanceCancelledStep ==
    ASSUME IInv, AdvanceCancelled
    PROVE  IInv'
<1> USE DEF IInv
<1>1. /\ dispatch # <<>> /\ Head(dispatch).log = NoLog /\ dispatch' = Tail(dispatch)
      /\ dis' = Idle("off") /\ discarded' = discarded \cup ToSet(dis.batch)
      /\ UNCHANGED <<setup, indexed, notified, persisted, delivered, blocks, checkpoint, det,
         origin>>
  BY Zenon DEF AdvanceCancelled
<1>2. /\ Batched' = Batched /\ Covered(Wanted)'
      /\ discarded' \subseteq AllLogs /\ dis' \in Dispatchers
      /\ dis'.pc = "off" /\ dis'.batch = <<>> /\ dis'.after = 0
  BY Zenon, <1>1, GivenUp
<1>3. /\ Tail(dispatch) \in Seq(Messages) /\ Len(Tail(dispatch)) <= setup.batchSize
      /\ AllProper(Tail(dispatch), indexed) /\ origin # None
  BY Zenon, <1>1, Received
<1>4. Types'
  BY Zenon, <1>1, <1>2, <1>3 DEF Types
<1>5. DispatcherShape'
  <2>1. AllProper(dispatch', indexed')
    BY Zenon, <1>1, <1>3
  <2> QED
    BY Zenon, <1>1, <1>2, <2>1, IdleShape
<1>6. DetectorShape' /\ Ascending' /\ Origins'
  BY Zenon, <1>1, <1>3, SameDetector DEF Ascending, Origins
<1>7. /\ Queued(Wanted', dispatch', Batched')
      /\ Queued(Wanted', det'.out, Batched' \cup LogsIn(dispatch'))
      /\ Reached(Wanted)'
  BY Zenon, <1>1, <1>2, ConfirmationTaken
<1> QED
  BY Zenon, <1>2, <1>4, <1>5, <1>6, <1>7 DEF Pipeline

LEMMA ReceiveEventStep ==
    ASSUME IInv, ReceiveEvent
    PROVE  IInv'
<1> USE DEF IInv
<1> DEFINE m == Head(dispatch)
           batch == Append(dis.batch, m.log)
           pc == IF Len(batch) >= setup.batchSize THEN "run" ELSE "receive"
           after == IF m.last THEN m.block ELSE m.block - 1
<1>1. /\ dis.pc = "receive" /\ dispatch # <<>> /\ m.log # NoLog /\ dispatch' = Tail(dispatch)
      /\ dis' = [pc |-> pc, batch |-> batch, after |-> after]
      /\ UNCHANGED <<setup, indexed, notified, persisted, delivered, blocks, checkpoint, det,
         origin, discarded>>
  BY Zenon DEF ReceiveEvent
<1>2. /\ Tail(dispatch) \in Seq(Messages) /\ Len(Tail(dispatch)) <= setup.batchSize
      /\ Claims(Wanted, m, Batched) /\ AllProper(Tail(dispatch), indexed)
      /\ Queued(Wanted, Tail(dispatch), Batched \cup {m.log})
      /\ LogsIn(dispatch) = LogsIn(Tail(dispatch)) \cup {m.log}
      /\ m.block <= indexed /\ m.log[1] = m.block /\ m.block \in Blocks /\ m.log \in AllLogs
      /\ origin # None
  BY Zenon, <1>1, Received DEF Proper
<1>3. /\ batch \in Seq(AllLogs) /\ Len(batch) = Len(dis.batch) + 1
      /\ ToSet(batch) = ToSet(dis.batch) \cup {m.log} /\ batch # <<>>
  BY Zenon, <1>2, BatchSets, Fields
<1>4. /\ Len(batch) <= setup.batchSize
      /\ pc = "receive" => Len(batch) < setup.batchSize
      /\ pc \in {"run", "receive"}
  <2>1. Len(dis.batch) < setup.batchSize /\ Len(dis.batch) \in Nat
    BY <1>1, Fields DEF DispatcherShape
  <2> HIDE DEF batch
  <2> QED
    BY <1>3, <2>1, Fields
<1>5. after \in 0..MaxBlock /\ after <= indexed
  <2> HIDE DEF m
  <2> QED
    BY <1>2, Fields, SMTT(40) DEF Blocks
<1>6. ASSUME NEW e \in Wanted, e[1] <= after PROVE e \in Batched \cup {m.log}
  <2>1. CASE m.last
    BY Zenon, <1>2, <1>6, <2>1 DEF Claims
  <2>2. CASE ~m.last
    <3>1. e[1] < m.log[1]
      <4>1. e[1] \in Blocks /\ e[1] <= m.block - 1
        BY Zenon, <1>6, <2>2, WantedFacts
      <4> HIDE DEF m, after
      <4> QED
        BY <1>2, <4>1 DEF Blocks
    <3> QED
      BY Zenon, <1>1, <1>2, <3>1 DEF Claims, Earlier
  <2> QED
    BY Zenon, <2>1, <2>2
<1> HIDE DEF batch, pc, after
<1>7. dis'.pc = pc /\ dis'.batch = batch /\ dis'.after = after /\ dis' \in Dispatchers
  BY Zenon, <1>1, <1>3, <1>4, <1>5 DEF Dispatchers
<1>8. Types'
  BY Zenon, <1>1, <1>2, <1>7 DEF Types
<1>9. DispatcherShape'
  BY Zenon, <1>1, <1>2, <1>3, <1>4, <1>5, <1>7 DEF DispatcherShape
<1>10. DetectorShape' /\ Ascending' /\ Origins'
  BY Zenon, <1>1, <1>2, SameDetector DEF Ascending, Origins
<1>11. Wanted' = Wanted /\ Settled' = Settled /\ Batched' = Batched \cup {m.log}
  <2>1. Batched' = Settled' \cup ToSet(batch)
    BY Zenon, <1>7 DEF Batched
  <2>2. Settled' = Settled /\ Wanted' = Wanted
    BY Zenon, <1>1, SameWanted DEF Settled
  <2>3. \A x : x \in Batched' <=> x \in Batched \cup {m.log}
    BY Zenon, <1>3, <2>1, <2>2 DEF Batched
  <2> QED
    BY Zenon, <2>2, <2>3
<1> HIDE DEF m
<1>12. Covered(Wanted)'
  <2>1. \A f \in delivered' : \A e \in Wanted : Earlier(e, f) => e \in Settled'
    BY Zenon, <1>1, <1>11 DEF Pipeline, Covered
  <2>2. \A f \in ToSet(batch) : \A e \in Wanted : Earlier(e, f) => e \in Batched'
    BY Zenon, <1>1, <1>2, <1>3, <1>11 DEF Pipeline, Covered, Claims
  <2>3. \A e \in Wanted : e[1] <= after => e \in Batched'
    BY Zenon, <1>6, <1>11
  <2>4. \A e \in Wanted : e[1] <= persisted' => e \in Batched'
    BY Zenon, <1>1, <1>11 DEF Pipeline, Covered
  <2> QED
    BY Zenon, <1>7, <1>11, <2>1, <2>2, <2>3, <2>4 DEF Covered
<1>13. Queued(Wanted', dispatch', Batched')
  BY Zenon, <1>1, <1>2, <1>11
<1>14. Batched' \cup LogsIn(dispatch') = Batched \cup LogsIn(dispatch)
  BY Zenon, <1>1, <1>2, <1>11
<1>15. Queued(Wanted', det'.out, Batched' \cup LogsIn(dispatch'))
  BY Zenon, <1>1, <1>11, <1>14 DEF Pipeline
<1>16. Reached(Wanted)'
  <2>1. \A e \in Wanted : e \in Handed => e \in Handed'
    BY Zenon, <1>1, <1>14 DEF Handed
  <2> QED
    BY Zenon, <1>1, <2>1, StillReached DEF Pipeline
<1> QED
  BY Zenon, <1>8, <1>9, <1>10, <1>12, <1>13, <1>15, <1>16 DEF Pipeline

LEMMA BatchTimeoutStep ==
    ASSUME IInv, BatchTimeout
    PROVE  IInv'
<1> USE DEF IInv
<1>1. /\ dis.pc = "receive" /\ dis.batch # <<>> /\ dis' = [dis EXCEPT !.pc = "run"]
      /\ UNCHANGED <<setup, indexed, notified, persisted, delivered, blocks, dispatch, checkpoint,
         det, origin, discarded>>
  BY Zenon DEF BatchTimeout
<1>2. dis'.pc = "run" /\ dis'.batch = dis.batch /\ dis'.after = dis.after /\ dis' \in Dispatchers
  BY Zenon, <1>1 DEF Types, Dispatchers
<1>3. Types' /\ DetectorShape' /\ DispatcherShape' /\ Ascending' /\ Origins'
  BY Zenon, <1>1, <1>2, SameDetector DEF Types, DispatcherShape, Ascending, Origins
<1>4. Pipeline(Wanted)'
  BY Zenon, <1>1, <1>2, QuietStep
<1> QED
  BY Zenon, <1>3, <1>4

LEMMA CommitFailsStep ==
    ASSUME IInv, RunBatchCommitFails
    PROVE  IInv'
<1> USE DEF IInv
<1>1. /\ checkpoint' = dis.after
      /\ UNCHANGED <<setup, indexed, notified, persisted, delivered, blocks, dispatch, det, dis,
         origin, discarded>>
  BY Zenon DEF RunBatchCommitFails
<1>2. dis.after \in -1..indexed
  BY Fields DEF DispatcherShape
<1>3. Types' /\ DetectorShape' /\ DispatcherShape' /\ Ascending' /\ Origins'
  BY Zenon, <1>1, <1>2, SameDetector, SameDispatcher DEF Types, Ascending, Origins
<1>4. Pipeline(Wanted)'
  BY Zenon, <1>1, QuietStep
<1> QED
  BY Zenon, <1>3, <1>4

\* The batch is delivered.  Whether the dispatcher keeps it or lets go of it,
\* it is settled.
LEMMA BatchDelivered ==
    ASSUME IInv, dis.batch # <<>>, delivered' = delivered \cup ToSet(dis.batch),
           persisted' \in {persisted, dis.after},
           (dis'.batch = dis.batch /\ dis'.after = dis.after) \/ dis'.batch = <<>>,
           UNCHANGED <<discarded, origin, dispatch, det>>
    PROVE  Pipeline(Wanted)' /\ delivered' \subseteq AllLogs /\ origin # None
<1> USE DEF IInv
<1>1. Wanted' = Wanted /\ Settled' = Batched
  BY Zenon, SameWanted DEF Settled, Batched
<1>2. Batched' = Batched
  <2>1. \A x \in ToSet(dis'.batch) : x \in Batched
    BY Zenon, BatchSets DEF Batched
  <2> QED
    BY Zenon, <1>1, <2>1 DEF Batched
<1>3. \A e \in Wanted : e \in Settled => e \in Batched
  BY Zenon DEF Batched
<1>4. Covered(Wanted)'
  <2>1. \A f \in delivered' : \A e \in Wanted : Earlier(e, f) => e \in Batched
    BY Zenon, <1>3 DEF Pipeline, Covered
  <2>2. \A f \in ToSet(dis'.batch) : \A e \in Wanted : Earlier(e, f) => e \in Batched
    BY Zenon, BatchSets DEF Pipeline, Covered
  <2>3. dis'.batch # <<>> => \A e \in Wanted : e[1] <= dis'.after => e \in Batched
    BY Zenon DEF Pipeline, Covered
  <2>4. \A e \in Wanted : e[1] <= persisted' => e \in Batched
    BY Zenon DEF Pipeline, Covered
  <2> QED
    BY Zenon, <1>1, <1>2, <2>1, <2>2, <2>3, <2>4 DEF Covered
<1>5. Queued(Wanted', dispatch', Batched') /\ Queued(Wanted', det'.out,
        Batched' \cup LogsIn(dispatch'))
  BY Zenon, <1>1, <1>2 DEF Pipeline
<1>6. Reached(Wanted)'
  <2>1. Handed' = Handed
    BY Zenon, <1>2 DEF Handed
  <2> QED
    BY Zenon, <2>1, StillReached DEF Pipeline
<1>7. delivered' \subseteq AllLogs /\ origin # None
  BY Zenon, BatchSets, Fields DEF Types, Origins
<1> QED
  BY Zenon, <1>4, <1>5, <1>6, <1>7 DEF Pipeline

LEMMA RunBatchDBTXStep ==
    ASSUME IInv, RunBatchDBTX
    PROVE  IInv'
<1> USE DEF IInv
<1>1. /\ dis.pc = "run" /\ delivered' = delivered \cup ToSet(dis.batch)
      /\ persisted' = dis.after /\ checkpoint' = dis.after /\ dis' = Idle("receive")
      /\ UNCHANGED <<setup, indexed, notified, blocks, dispatch, det, origin, discarded>>
  BY Zenon DEF RunBatchDBTX, UpdateCheckpoint
<1>2. dis'.pc = "receive" /\ dis'.batch = <<>> /\ dis'.after = 0 /\ dis' \in Dispatchers
  BY Zenon, <1>1, Typed DEF Idle
<1>3. dis.batch # <<>> /\ dis.after \in -1..indexed
  BY <1>1, Fields DEF DispatcherShape
<1>4. Pipeline(Wanted)' /\ delivered' \subseteq AllLogs /\ origin # None
  BY Zenon, <1>1, <1>2, <1>3, BatchDelivered
<1>5. Types'
  BY Zenon, <1>1, <1>2, <1>3, <1>4 DEF Types
<1>6. DispatcherShape'
  <2>1. AllProper(dispatch', indexed')
    BY Zenon, <1>1 DEF DispatcherShape
  <2> QED
    BY Zenon, <1>1, <1>2, <2>1, IdleShape
<1>7. DetectorShape' /\ Ascending' /\ Origins'
  BY Zenon, <1>1, <1>4, SameDetector DEF Ascending, Origins
<1> QED
  BY Zenon, <1>4, <1>5, <1>6, <1>7

LEMMA RunBatchNOTXStep ==
    ASSUME IInv, RunBatchNOTX
    PROVE  IInv'
<1> USE DEF IInv
<1>1. /\ dis.pc = "run" /\ delivered' = delivered \cup ToSet(dis.batch)
      /\ dis' = [dis EXCEPT !.pc = "handled"]
      /\ UNCHANGED <<setup, indexed, notified, persisted, blocks, dispatch, checkpoint, det, origin,
         discarded>>
  BY Zenon DEF RunBatchNOTX
<1>2. dis'.pc = "handled" /\ dis'.batch = dis.batch /\ dis'.after = dis.after
        /\ dis' \in Dispatchers
  BY Zenon, <1>1 DEF Types, Dispatchers
<1>3. dis.batch # <<>>
  BY Zenon, <1>1 DEF DispatcherShape
<1>4. Pipeline(Wanted)' /\ delivered' \subseteq AllLogs /\ origin # None
  BY Zenon, <1>1, <1>2, <1>3, BatchDelivered
<1>5. Types'
  BY Zenon, <1>1, <1>2, <1>4 DEF Types
<1>6. DetectorShape' /\ DispatcherShape' /\ Ascending' /\ Origins'
  BY Zenon, <1>1, <1>2, <1>3, <1>4, SameDetector DEF DispatcherShape, Ascending, Origins
<1> QED
  BY Zenon, <1>4, <1>5, <1>6

LEMMA RunBatchCheckpointStep ==
    ASSUME IInv, RunBatchCheckpoint
    PROVE  IInv'
<1> USE DEF IInv
<1>1. /\ dis.pc = "handled" /\ persisted' = dis.after /\ checkpoint' = dis.after
         /\ dis' = Idle("receive")
      /\ UNCHANGED <<setup, indexed, notified, delivered, blocks, dispatch, det, origin, discarded>>
  BY Zenon DEF RunBatchCheckpoint, UpdateCheckpoint
<1>2. dis'.pc = "receive" /\ dis'.batch = <<>> /\ dis'.after = 0 /\ dis' \in Dispatchers
  BY Zenon, <1>1, Typed DEF Idle
<1>3. dis.batch # <<>> /\ dis.after \in -1..indexed
  BY <1>1, Fields DEF DispatcherShape
<1>4. delivered' = delivered \cup ToSet(dis.batch)
  BY Zenon, <1>1 DEF DispatcherShape
<1>5. Pipeline(Wanted)' /\ origin # None
  BY Zenon, <1>1, <1>2, <1>3, <1>4, BatchDelivered
<1>6. Types'
  BY Zenon, <1>1, <1>2, <1>3 DEF Types
<1>7. DispatcherShape'
  <2>1. AllProper(dispatch', indexed')
    BY Zenon, <1>1 DEF DispatcherShape
  <2> QED
    BY Zenon, <1>1, <1>2, <2>1, IdleShape
<1>8. DetectorShape' /\ Ascending' /\ Origins'
  BY Zenon, <1>1, <1>5, SameDetector DEF Ascending, Origins
<1> QED
  BY Zenon, <1>5, <1>6, <1>7, <1>8

\* So does a stuttering step.
LEMMA StutterStep ==
    ASSUME IInv, UNCHANGED vars
    PROVE  IInv'
<1> USE DEF IInv
<1>1. UNCHANGED <<setup, indexed, notified, persisted, delivered, blocks, dispatch, checkpoint, det,
        dis, origin, discarded>>
  BY Zenon DEF vars
<1>2. Types' /\ Ascending' /\ Origins'
  BY Zenon, <1>1 DEF Types, Ascending, Origins
<1> QED
  BY Zenon, <1>1, <1>2, SameDetector, SameDispatcher, QuietStep

-----------------------------------------------------------------------------
(* The theorems.                                                            *)

\* Every step keeps the invariant.
LEMMA NextIInv ==
    ASSUME IInv, [Next]_vars
    PROVE  IInv'
<1>1. CASE Indexer
  BY Zenon, <1>1, WriteBatchStep, NotifyStep DEF Indexer
<1>2. CASE Lifecycle
  BY Zenon, <1>2, StartStep, StopStep, DetectorDropsStep, DetectorExitsStep, DispatcherExitsStep,
     CrashStep
  DEF Lifecycle
<1>3. CASE Detector
  BY Zenon, <1>3, ReadDBCheckpointStep, FirstBlockStep, GetHighestIndexedBlockStep, TakeBlockStep,
     CatchupStep, SendToDispatcherStep DEF Detector
<1>4. CASE Dispatcher
  BY Zenon, <1>4, AdvanceCheckpointStep, AdvanceCancelledStep, ReceiveEventStep, BatchTimeoutStep,
     RunBatchDBTXStep, CommitFailsStep, RunBatchNOTXStep, RunBatchCheckpointStep DEF Dispatcher
<1> QED
  BY Zenon, <1>1, <1>2, <1>3, <1>4, StutterStep DEF Next

\* The pipeline from the detector to the checkpoint loses no event and lets
\* none overtake another, whatever the logs of the blocks, the sizes of the
\* channels, batches and pages, and the crashes, stops and failed commits.
THEOREM Inductive == Spec => []IInv
<1>1. Init => IInv
  BY Zenon, InitIInv
<1>2. IInv /\ [Next]_vars => IInv'
  BY Zenon, NextIInv
<1> QED
  BY <1>1, <1>2, PTL DEF Spec

\* The channels stay within their capacity, and neither the checkpoint in
\* memory nor the one in the database is ahead of the blocks (sendToDispatcher,
\* updateCheckpoint).
THEOREM TypesHold == Spec => []TypeOK
<1>1. IInv => TypeOK
  <2> SUFFICES ASSUME IInv PROVE TypeOK
    OBVIOUS
  <2>1. blocks \in Seq(Blocks)
    BY Zenon DEF IInv, Types
  <2>2. ToSet(blocks) \subseteq Blocks
    BY <2>1 DEF ToSet
  <2> QED
    BY Zenon, <2>2, Fields DEF IInv, Types, DispatcherShape, TypeOK
<1> QED
  BY <1>1, Inductive, PTL

\* Events are delivered in the order of the chain, apart from those that a
\* stream held in memory when it was stopped or crashed (detector, dispatcher,
\* processCatchupEventPage).
THEOREM OrderHolds == Spec => []InOrder
<1>1. IInv => InOrder
  BY Zenon DEF IInv, Pipeline, Covered, Settled, InOrder
<1> QED
  BY <1>1, Inductive, PTL

\* A restart from the persisted checkpoint finds every event that was not
\* delivered, apart from those that a stream held in memory when it was
\* stopped or crashed (runBatch, updateCheckpoint, readDBCheckpoint).
THEOREM CheckpointHolds == Spec => []CheckpointCovers
<1>1. IInv => CheckpointCovers
  BY Zenon DEF IInv, Pipeline, Covered, Batched, Settled, CheckpointCovers
<1> QED
  BY <1>1, Inductive, PTL

-----------------------------------------------------------------------------
(* The first block of a stream.                                             *)

\* A stream with a fromBlock and without a checkpoint starts when the index is
\* empty or has the block before it.  (When the index is still behind, the
\* detector takes the highest indexed block for its position once the catch-up
\* of the startup has ended, and is back below the fromBlock.)
StartsInReach ==
    (det.pc = "highest" /\ persisted < 0) => (indexed = None \/ setup.fromBlock <= indexed + 1)

\* Messages about blocks from n on, or that the block before n is complete.
SentFrom(q, n) ==
    \A i \in 1..Len(q) : IF q[i].log = NoLog THEN n <= q[i].block + 1 ELSE n <= q[i].block

\* Nothing that the stream holds, has recorded or will ask for next is of a block
\* before its fromBlock.
FromInv ==
    setup.fromBlock # Latest =>
      /\ \A e \in delivered \cup ToSet(dis.batch) : setup.fromBlock <= e[1]
      /\ SentFrom(dispatch, setup.fromBlock) /\ SentFrom(det.out, setup.fromBlock)
      /\ dis.batch # <<>> => setup.fromBlock <= dis.after + 1
      /\ persisted >= 0 => setup.fromBlock <= persisted + 1
      /\ det.pc \in {"highest", "loop"} => setup.fromBlock <= det.base + 1
      /\ det.startup # None => setup.fromBlock <= det.startup + 1
      /\ det.upTo # None => setup.fromBlock <= det.upTo
      /\ det.last # NoLog => setup.fromBlock <= det.last[1]

\* Messages from a block on remain so as the first one leaves,
LEMMA SentTail ==
    ASSUME NEW q \in Seq(Messages), q # <<>>, NEW n, SentFrom(q, n)
    PROVE  /\ IF Head(q).log = NoLog THEN n <= Head(q).block + 1 ELSE n <= Head(q).block
           /\ SentFrom(Tail(q), n)
<1>1. /\ Head(q) = q[1] /\ 1 \in 1..Len(q)
      /\ \A i \in 1..Len(Tail(q)) : i + 1 \in 1..Len(q) /\ Tail(q)[i] = q[i + 1]
  OBVIOUS
<1> QED
  BY Zenon, <1>1 DEF SentFrom

\* as a queue follows another,
LEMMA SentConcat ==
    ASSUME NEW q \in Seq(Messages), NEW r \in Seq(Messages), NEW n, SentFrom(q, n), SentFrom(r, n)
    PROVE  SentFrom(q \o r, n)
<1>1. \A i \in 1..Len(q \o r) : \/ i \in 1..Len(q) /\ (q \o r)[i] = q[i]
                                \/ i - Len(q) \in 1..Len(r) /\ (q \o r)[i] = r[i - Len(q)]
  OBVIOUS
<1> QED
  BY Zenon, <1>1 DEF SentFrom

\* as one more is sent,
LEMMA SentAppend ==
    ASSUME NEW q \in Seq(Messages), NEW m, NEW n, SentFrom(q, n),
           IF m.log = NoLog THEN n <= m.block + 1 ELSE n <= m.block
    PROVE  SentFrom(Append(q, m), n)
<1>1. \A i \in 1..Len(Append(q, m)) : \/ i \in 1..Len(q) /\ Append(q, m)[i] = q[i]
                                      \/ Append(q, m)[i] = m
  OBVIOUS
<1> QED
  BY Zenon, <1>1 DEF SentFrom

\* and as a notified block at or after it is queued.
LEMMA SentNotified ==
    ASSUME NEW b \in Blocks, NEW n \in Nat, n <= b
    PROVE  SentFrom(NotifiedBlock(b), n) /\ NotifiedBlock(b) \in Seq(Messages)
<1> DEFINE q == NotifiedBlock(b)
<1>1. q \in Seq(Messages) /\ \A i \in 1..Len(q) : q[i].block = b
  <2>1. {} \in SUBSET AllLogs /\ (\A e \in {} : Matches(e)) /\ \A e \in {} : e[1] < b => e \in {}
    BY Zenon
  <2> QED
    BY Zenon, <2>1, NotifiedQueue
<1> HIDE DEF q
<1>2. n <= b + 1
  BY DEF Blocks
<1> QED
  BY Zenon, <1>1, <1>2 DEF SentFrom, q

\* Nothing is sent or received, and the detector stays where it is or ends.
LEMMA FromFrame ==
    ASSUME FromInv, setup' = setup,
           \A e \in delivered' \cup ToSet(dis'.batch) : e \in delivered \cup ToSet(dis.batch),
           dispatch' \in {dispatch, <<>>}, det'.out \in {det.out, <<>>},
           dis'.batch # <<>> => (dis.batch # <<>> /\ dis'.after = dis.after),
           persisted' = persisted \/ (dis.batch # <<>> /\ persisted' = dis.after),
           det'.pc \in {"highest", "loop"} => (det.pc \in {"highest", "loop"}
             /\ det'.base = det.base),
           det'.startup \in {det.startup, None}, det'.upTo \in {det.upTo, None},
           det'.last \in {det.last, NoLog}
    PROVE  FromInv'
<1> SUFFICES ASSUME setup.fromBlock # Latest PROVE FromInv'
  BY Zenon DEF FromInv
<1>1. \A n : SentFrom(<<>>, n)
  <2>1. 1..Len(<<>>) = {}
    OBVIOUS
  <2> QED
    BY Zenon, <2>1 DEF SentFrom
<1>2. SentFrom(dispatch', setup.fromBlock) /\ SentFrom(det'.out, setup.fromBlock)
  BY Zenon, <1>1 DEF FromInv
<1>3. /\ \A e \in delivered' \cup ToSet(dis'.batch) : setup.fromBlock <= e[1]
      /\ dis'.batch # <<>> => setup.fromBlock <= dis'.after + 1
      /\ persisted' >= 0 => setup.fromBlock <= persisted' + 1
  BY Zenon DEF FromInv
<1>4. /\ det'.pc \in {"highest", "loop"} => setup.fromBlock <= det'.base + 1
      /\ det'.startup # None => setup.fromBlock <= det'.startup + 1
      /\ det'.upTo # None => setup.fromBlock <= det'.upTo
      /\ det'.last # NoLog => setup.fromBlock <= det'.last[1]
  BY Zenon DEF FromInv
<1> QED
  BY Zenon, <1>2, <1>3, <1>4 DEF FromInv

\* The steps of the indexer leave the stream alone.
LEMMA FromIndexer ==
    ASSUME IInv, FromInv, Indexer \/ UNCHANGED vars
    PROVE  FromInv'
<1>1. UNCHANGED <<setup, persisted, delivered, dispatch, det, dis>>
  BY Zenon DEF Indexer, WriteBatch, NotifyEventStreams, vars
<1> QED
  BY Zenon, <1>1 DEF FromInv

\* Starts, stops and crashes send nothing and forget what was read.
LEMMA FromLifecycle ==
    ASSUME IInv, FromInv, Lifecycle
    PROVE  FromInv'
<1>1. /\ Off.pc = "off" /\ Off.startup = None /\ Off.upTo = None /\ Off.last = NoLog
         /\ Off.out = <<>>
      /\ \A p : Idle(p).batch = <<>>
  BY Zenon DEF Off, Idle
<1>2. CASE Start
  <2>1. /\ det' = [Off EXCEPT !.pc = "checkpoint"] /\ dis' = Idle("receive")
        /\ UNCHANGED <<setup, delivered, dispatch, persisted>>
    BY Zenon, <1>2 DEF Start
  <2>2. /\ det'.pc = "checkpoint" /\ det'.startup = None /\ det'.upTo = None
        /\ det'.last = NoLog /\ det'.out = <<>>
    BY Zenon, <2>1 DEF Off
  <2> QED
    BY Zenon, <1>1, <2>1, <2>2, BatchSets, FromFrame
<1>3. CASE Stop
  BY Zenon, <1>3 DEF Stop, FromInv
<1>4. CASE DetectorDrops
  <2>1. /\ det.out # <<>> /\ det' = [det EXCEPT !.out = Tail(@)]
        /\ UNCHANGED <<setup, delivered, dispatch, persisted, dis>>
    BY Zenon, <1>4 DEF DetectorDrops
  <2>2. /\ det'.pc = det.pc /\ det'.base = det.base /\ det'.startup = det.startup
           /\ det'.upTo = det.upTo
        /\ det'.last = det.last /\ det'.out = Tail(det.out)
    BY Zenon, <2>1 DEF IInv, Types, Detectors
  <2>3. setup.fromBlock # Latest => SentFrom(Tail(det.out), setup.fromBlock)
    BY Zenon, <2>1, SentTail, Fields DEF FromInv, IInv
  <2> QED
    BY Zenon, <2>1, <2>2, <2>3 DEF FromInv
<1>5. CASE DetectorExits
  <2>1. det' = Off /\ UNCHANGED <<setup, delivered, dispatch, persisted, dis>>
    BY Zenon, <1>5 DEF DetectorExits
  <2> QED
    BY Zenon, <1>1, <2>1, FromFrame
<1>6. CASE DispatcherExits
  <2>1. dis' = Idle("off") /\ UNCHANGED <<setup, delivered, dispatch, persisted, det>>
    BY Zenon, <1>6 DEF DispatcherExits
  <2> QED
    BY Zenon, <1>1, <2>1, BatchSets, FromFrame
<1>7. CASE Crash
  <2>1. dis' = Idle("off") /\ det' = Off /\ dispatch' = <<>> /\ UNCHANGED <<setup, delivered,
          persisted>>
    BY Zenon, <1>7 DEF Crash
  <2> QED
    BY Zenon, <1>1, <2>1, BatchSets, FromFrame
<1> QED
  BY Zenon, <1>2, <1>3, <1>4, <1>5, <1>6, <1>7 DEF Lifecycle

\* The detector sends no event of a block before the fromBlock.
LEMMA FromDetector ==
    ASSUME IInv, FromInv, StartsInReach, Detector
    PROVE  FromInv'
<1> USE DEF IInv
<1> DEFINE n == setup.fromBlock
<1>1. n \in Nat /\ setup' = setup
  BY Fields DEF Detector, ReadDBCheckpoint, FirstBlock, GetHighestIndexedBlock, TakeBlock,
                ProcessCatchupEventPage, SendToDispatcher
<1> SUFFICES ASSUME n # Latest PROVE FromInv'
  BY Zenon, <1>1 DEF FromInv
<1>2. /\ \A e \in delivered \cup ToSet(dis.batch) : n <= e[1]
      /\ SentFrom(dispatch, n) /\ SentFrom(det.out, n)
      /\ dis.batch # <<>> => n <= dis.after + 1
      /\ persisted >= 0 => n <= persisted + 1
      /\ det.pc \in {"highest", "loop"} => n <= det.base + 1
      /\ det.startup # None => n <= det.startup + 1
      /\ det.upTo # None => n <= det.upTo
      /\ det.last # NoLog => n <= det.last[1]
  BY Zenon DEF FromInv
<1>3. n # 0
  BY Zenon DEF Latest
<1> HIDE DEF n
\* What is to be shown of a step that leaves the dispatcher alone.
<1>4. ASSUME UNCHANGED <<delivered, dispatch, persisted, dis>>, SentFrom(det'.out, n),
             det'.pc \in {"highest", "loop"} => n <= det'.base + 1,
             det'.startup # None => n <= det'.startup + 1,
             det'.upTo # None => n <= det'.upTo,
             det'.last # NoLog => n <= det'.last[1]
      PROVE  FromInv'
  BY Zenon, <1>1, <1>2, <1>4 DEF FromInv, n
<1>5. CASE ReadDBCheckpoint
  <2> DEFINE base == IF persisted >= 0 THEN persisted ELSE n - 1
             pc == IF persisted < 0 /\ n = Latest THEN "first" ELSE "highest"
             b == IF base < 0 THEN None ELSE base
  <2>1. /\ det' = [det EXCEPT !.pc = pc, !.base = b]
        /\ UNCHANGED <<delivered, dispatch, persisted, dis>>
    BY Zenon, <1>5 DEF ReadDBCheckpoint, n
  <2>2. n <= b + 1
    <3>1. persisted \in Int
      BY Fields DEF Types
    <3> QED
      BY <1>1, <1>2, <1>3, <3>1 DEF None
  <2> HIDE DEF base, pc, b
  <2>3. /\ det'.base = b /\ det'.startup = det.startup /\ det'.upTo = det.upTo
        /\ det'.last = det.last /\ det'.out = det.out
    BY Zenon, <2>1 DEF Types, Detectors
  <2> QED
    BY Zenon, <1>2, <1>4, <2>1, <2>2, <2>3
<1>6. CASE FirstBlock
  BY Zenon, <1>6 DEF FirstBlock, Origins, n
<1>7. CASE GetHighestIndexedBlock
  <2>1. /\ det.pc = "highest" /\ det' = [det EXCEPT !.pc = "loop", !.startup = indexed]
        /\ UNCHANGED <<delivered, dispatch, persisted, dis>>
    BY Zenon, <1>7 DEF GetHighestIndexedBlock
  <2>2. /\ det'.base = det.base /\ det'.startup = indexed /\ det'.upTo = det.upTo
        /\ det'.last = det.last /\ det'.out = det.out
    BY Zenon, <2>1 DEF Types, Detectors
  <2>3. indexed # None => n <= indexed + 1
    <3>1. persisted \in -1..indexed /\ indexed \in Nat
      BY Zenon, Fields DEF Types
    <3>2. persisted < 0 => (indexed = None \/ n <= indexed + 1)
      BY Zenon, <2>1 DEF StartsInReach, n
    <3> QED
      BY <1>1, <1>2, <3>1, <3>2
  <2> QED
    BY Zenon, <1>2, <1>4, <2>1, <2>2, <2>3
<1>8. CASE TakeBlock
  <2> DEFINE b == Head(blocks)
             q == NotifiedBlock(b)
  <2>1. /\ det.pc = "loop" /\ blocks # <<>>
        /\ \/ det' = det
           \/ b = det.base + 1 /\ det' = [det EXCEPT !.base = b, !.out = q]
           \/ b > det.base + 1 /\ det' = [det EXCEPT !.upTo = b]
        /\ UNCHANGED <<delivered, dispatch, persisted, dis>>
    BY Zenon, <1>8 DEF TakeBlock
  <2>2. b \in Blocks
    BY Zenon, <2>1, NextBlock
  <2> HIDE DEF b
  <2>3. b = det.base + 1 \/ b > det.base + 1 => n <= b /\ n <= b + 1
    BY <1>1, <1>2, <2>1, <2>2, Fields, SMTT(40) DEF Blocks
  <2>4. n <= b => SentFrom(q, n)
    BY Zenon, <1>1, <2>2, SentNotified
  <2> HIDE DEF q
  <2>5. CASE det' = det
    BY Zenon, <1>2, <1>4, <2>1, <2>5
  <2>6. CASE b = det.base + 1 /\ det' = [det EXCEPT !.base = b, !.out = q]
    <3>1. /\ det'.base = b /\ det'.startup = det.startup /\ det'.upTo = det.upTo
          /\ det'.last = det.last /\ det'.out = q
      BY Zenon, <2>6 DEF Types, Detectors
    <3> QED
      BY Zenon, <1>2, <1>4, <2>1, <2>3, <2>4, <2>6, <3>1
  <2>7. CASE b > det.base + 1 /\ det' = [det EXCEPT !.upTo = b]
    <3>1. /\ det'.base = det.base /\ det'.startup = det.startup /\ det'.upTo = b /\ det'.pc = det.pc
          /\ det'.last = det.last /\ det'.out = det.out
      BY Zenon, <2>7 DEF Types, Detectors
    <3> QED
      BY Zenon, <1>2, <1>4, <2>1, <2>3, <2>7, <3>1
  <2> QED
    BY Zenon, <2>1, <2>5, <2>6, <2>7
<1>9. CASE ProcessCatchupEventPage
  <2> DEFINE to == IF det.startup # None THEN det.startup + 1 ELSE det.upTo
             after(e) == IF det.last = NoLog THEN e[1] > det.base ELSE Earlier(det.last, e)
             F == {e \in AllLogs : e[1] <= indexed /\ e[1] < to /\ after(e)}
             P == FirstPage(F)
             caughtUp == Cardinality(P) < PageSize
             q == PageEvents(P, caughtUp)
  <2>1. /\ det.pc = "loop" /\ CatchingUp
        /\ det' = IF ~caughtUp THEN [det EXCEPT !.last = LastOf(P), !.out = q]
                  ELSE IF det.startup = None
                  THEN [det EXCEPT !.last = NoLog, !.out = q \o NotifiedBlock(det.upTo),
                                   !.base = det.upTo, !.upTo = None]
                  ELSE [det EXCEPT !.last = NoLog, !.out = Append(q, Confirmed(to - 1)),
                                   !.base = det.startup, !.startup = None]
        /\ UNCHANGED <<delivered, dispatch, persisted, dis>>
    BY Zenon, <1>9 DEF ProcessCatchupEventPage, Page
  <2>2. F \in SUBSET AllLogs /\ \A e \in F : e \in AllLogs /\ after(e)
    BY Zenon
  <2>3. ASSUME NEW e \in F PROVE n <= e[1]
    <3>1. e \in AllLogs /\ e[1] \in Nat /\ det.base \in Nat
      BY <2>2, LogShape, Fields DEF Blocks
    <3>2. CASE det.last = NoLog
      <4>1. e[1] > det.base /\ n <= det.base + 1
        BY Zenon, <1>2, <2>1, <2>2, <3>2
      <4> QED
        BY <1>1, <3>1, <4>1
    <3>3. CASE det.last # NoLog
      <4>1. Earlier(det.last, e) /\ n <= det.last[1]
        BY Zenon, <1>2, <2>2, <3>3
      <4>2. det.last[1] \in Nat
        BY <3>3, LogShape, Fields DEF Blocks
      <4> QED
        BY <1>1, <3>1, <4>1, <4>2 DEF Earlier
    <3> QED
      BY Zenon, <3>2, <3>3
  <2>4. to - 1 = det.startup \/ det.startup = None
    BY Fields
  <2> HIDE DEF F, to
  <2>5. /\ P \subseteq F /\ (caughtUp => P = F) /\ (~caughtUp => P # {})
    BY Zenon, <2>2, PageIsPrefix
  <2>6. caughtUp \in BOOLEAN /\ P \in SUBSET AllLogs
    <3>1. P \in SUBSET AllLogs
      BY Zenon, <2>2, <2>5
    <3> HIDE DEF P
    <3>2. Cardinality(P) \in Nat /\ PageSize \in Nat
      BY Zenon, <3>1, FiniteLogs, SetupsAssumption
    <3>3. caughtUp \in BOOLEAN
      BY <3>2
    <3> QED
      BY Zenon, <3>1, <3>3
  <2> HIDE DEF caughtUp
  <2>7. q \in Seq(Messages) /\ \A i \in 1..Len(q) : q[i].log \in P /\ q[i].block = q[i].log[1]
    <3>1. /\ {} \in SUBSET AllLogs /\ \A e \in {} : Matches(e)
          /\ \A e \in {} : \A f \in F : e[1] <= f[1] => e \in {} \cup F
      BY Zenon
    <3> QED
      BY Zenon, <2>2, <2>5, <2>6, <3>1, PageQueue
  <2> HIDE DEF P, q
  <2>8. SentFrom(q, n)
    <3>1. \A e \in P : e # NoLog /\ n <= e[1]
      BY Zenon, <2>3, <2>5, <2>6, LogShape
    <3> QED
      BY Zenon, <2>7, <3>1 DEF SentFrom
  <2>9. CASE ~caughtUp
    <3>1. LastOf(P) \in P
      BY Zenon, <2>5, <2>6, <2>9, LastOfPage
    <3>2. /\ det'.base = det.base /\ det'.startup = det.startup /\ det'.upTo = det.upTo
          /\ det'.last = LastOf(P) /\ det'.out = q
      BY Zenon, <2>1, <2>9 DEF Types, Detectors
    <3>3. n <= LastOf(P)[1]
      BY Zenon, <2>3, <2>5, <3>1
    <3> QED
      BY Zenon, <1>2, <1>4, <2>1, <2>8, <3>2, <3>3
  <2>10. CASE caughtUp /\ det.startup = None
    <3> DEFINE b == det.upTo
               r == NotifiedBlock(b)
    <3>1. b \in Blocks /\ n <= b /\ n <= b + 1
      <4>1. b # None /\ b \in 0..MaxBlock /\ n <= b
        BY Zenon, <1>2, <2>1, <2>10, Fields DEF CatchingUp
      <4> HIDE DEF b
      <4> QED
        BY <1>1, <4>1, SetupsAssumption DEF Blocks, None
    <3>2. SentFrom(r, n) /\ r \in Seq(Messages)
      BY Zenon, <1>1, <3>1, SentNotified
    <3>3. det' = [det EXCEPT !.last = NoLog, !.out = q \o r, !.base = b, !.upTo = None]
      BY Zenon, <2>1, <2>10
    <3> HIDE DEF r
    <3>4. /\ det'.base = b /\ det'.startup = det.startup /\ det'.upTo = None
          /\ det'.last = NoLog /\ det'.out = q \o r
      BY Zenon, <3>3 DEF Types, Detectors
    <3>5. SentFrom(q \o r, n)
      BY Zenon, <2>7, <2>8, <3>2, SentConcat
    <3> QED
      BY Zenon, <1>2, <1>4, <2>1, <3>1, <3>4, <3>5
  <2>11. CASE caughtUp /\ det.startup # None
    <3> DEFINE b == det.startup
               m == Confirmed(b)
    <3>1. n <= b + 1
      BY Zenon, <1>2, <2>11
    <3>2. m.log = NoLog /\ m.block = b
      BY Zenon DEF Confirmed
    <3>3. det' = [det EXCEPT !.last = NoLog, !.out = Append(q, m), !.base = b, !.startup = None]
      BY Zenon, <2>1, <2>4, <2>11
    <3> HIDE DEF m
    <3>4. /\ det'.base = b /\ det'.startup = None /\ det'.upTo = det.upTo
          /\ det'.last = NoLog /\ det'.out = Append(q, m)
      BY Zenon, <3>3 DEF Types, Detectors
    <3>5. SentFrom(Append(q, m), n)
      BY Zenon, <2>7, <2>8, <3>1, <3>2, SentAppend
    <3> QED
      BY Zenon, <1>2, <1>4, <2>1, <3>1, <3>4, <3>5
  <2> QED
    BY Zenon, <2>9, <2>10, <2>11
<1>10. CASE SendToDispatcher
  <2> DEFINE m == Head(det.out)
  <2>1. /\ det.out # <<>> /\ dispatch' = Append(dispatch, m) /\ det' = [det EXCEPT !.out = Tail(@)]
        /\ UNCHANGED <<delivered, persisted, dis>>
    BY Zenon, <1>10 DEF SendToDispatcher
  <2>2. /\ det'.pc = det.pc /\ det'.base = det.base /\ det'.startup = det.startup
           /\ det'.upTo = det.upTo
        /\ det'.last = det.last /\ det'.out = Tail(det.out)
    BY Zenon, <2>1 DEF Types, Detectors
  <2>3. /\ IF m.log = NoLog THEN n <= m.block + 1 ELSE n <= m.block
        /\ SentFrom(Tail(det.out), n)
    BY Zenon, <1>2, <2>1, SentTail, Fields
  <2> HIDE DEF m
  <2>4. SentFrom(dispatch', n)
    <3>1. dispatch \in Seq(Messages)
      BY Zenon DEF Types
    <3> QED
      BY Zenon, <1>2, <2>1, <2>3, <3>1, SentAppend
  <2> QED
    BY Zenon, <1>1, <1>2, <2>1, <2>2, <2>3, <2>4 DEF FromInv, n
<1> QED
  BY Zenon, <1>5, <1>6, <1>7, <1>8, <1>9, <1>10 DEF Detector

\* The dispatcher passes on what it was sent.
LEMMA FromDispatcher ==
    ASSUME IInv, FromInv, Dispatcher
    PROVE  FromInv'
<1> USE DEF IInv
<1> DEFINE n == setup.fromBlock
           m == Head(dispatch)
<1>1. n \in Nat
  BY Fields
<1>2. ASSUME dispatch # <<>>, n # Latest
      PROVE  /\ IF m.log = NoLog THEN n <= m.block + 1 ELSE n <= m.block
             /\ SentFrom(Tail(dispatch), n)
  <2>1. dispatch \in Seq(Messages) /\ SentFrom(dispatch, n)
    BY Zenon, <1>2 DEF Types, FromInv
  <2> QED
    BY Zenon, <1>2, <2>1, SentTail
<1>3. ToSet(<<>>) = {} /\ \A p : Idle(p).batch = <<>>
  BY Zenon, BatchSets DEF Idle
<1>4. CASE AdvanceCheckpoint
  <2>1. /\ dispatch # <<>> /\ m.log = NoLog /\ dispatch' = Tail(dispatch)
        /\ persisted' \in {persisted, m.block} /\ UNCHANGED <<setup, delivered, det, dis>>
    BY Zenon, <1>4 DEF AdvanceCheckpoint, UpdateCheckpoint
  <2> HIDE DEF m
  <2> QED
    BY Zenon, <1>2, <2>1 DEF FromInv
<1>5. CASE AdvanceCancelled
  <2>1. /\ dispatch # <<>> /\ dispatch' = Tail(dispatch) /\ dis' = Idle("off")
        /\ UNCHANGED <<setup, delivered, persisted, det>>
    BY Zenon, <1>5 DEF AdvanceCancelled
  <2>2. dis'.batch = <<>> /\ \A e \in delivered \cup ToSet(dis'.batch) :
          e \in delivered \cup ToSet(dis.batch)
    BY Zenon, <1>3, <2>1
  <2> QED
    BY Zenon, <1>2, <2>1, <2>2 DEF FromInv
<1>6. CASE ReceiveEvent
  <2> DEFINE batch == Append(dis.batch, m.log)
             pc == IF Len(batch) >= setup.batchSize THEN "run" ELSE "receive"
             after == IF m.last THEN m.block ELSE m.block - 1
  <2>1. /\ dispatch # <<>> /\ m.log # NoLog /\ dispatch' = Tail(dispatch)
        /\ dis' = [pc |-> pc, batch |-> batch, after |-> after]
        /\ UNCHANGED <<setup, delivered, persisted, det>>
    BY Zenon, <1>6 DEF ReceiveEvent
  <2>2. m.log[1] = m.block /\ m.block \in Blocks /\ m.log \in AllLogs
    BY Zenon, <2>1, Received DEF Proper
  <2>3. ToSet(batch) = ToSet(dis.batch) \cup {m.log}
    BY Zenon, <2>2, BatchSets, Fields
  <2>4. n # Latest => n <= m.log[1] /\ n <= after + 1 /\ SentFrom(dispatch', n)
    <3>1. n # Latest => n <= m.block /\ SentFrom(dispatch', n)
      BY Zenon, <1>2, <2>1
    <3> HIDE DEF m
    <3> QED
      BY <1>1, <2>2, <3>1 DEF Blocks
  <2> HIDE DEF batch, pc, after, m
  <2>5. dis'.batch = batch /\ dis'.after = after
    BY Zenon, <2>1
  <2>6. \A e \in delivered \cup ToSet(dis'.batch) : e \in delivered \cup ToSet(dis.batch)
          \/ e = m.log
    BY Zenon, <2>3, <2>5
  <2> QED
    BY Zenon, <2>1, <2>4, <2>5, <2>6 DEF FromInv
<1>7. CASE BatchTimeout
  <2>1. dis' = [dis EXCEPT !.pc = "run"] /\ UNCHANGED <<setup, delivered, dispatch, persisted, det>>
    BY Zenon, <1>7 DEF BatchTimeout
  <2>2. dis'.batch = dis.batch /\ dis'.after = dis.after
    BY Zenon, <2>1 DEF Types, Dispatchers
  <2> QED
    BY Zenon, <2>1, <2>2 DEF FromInv
<1>8. CASE RunBatchDBTX
  <2>1. /\ dis.pc = "run" /\ delivered' = delivered \cup ToSet(dis.batch) /\ persisted' = dis.after
        /\ dis' = Idle("receive") /\ UNCHANGED <<setup, dispatch, det>>
    BY Zenon, <1>8 DEF RunBatchDBTX, UpdateCheckpoint
  <2>2. dis.batch # <<>>
    BY Zenon, <2>1 DEF DispatcherShape
  <2> QED
    BY Zenon, <1>3, <2>1, <2>2, FromFrame
<1>9. CASE RunBatchCommitFails
  <2>1. UNCHANGED <<setup, delivered, dispatch, persisted, det, dis>>
    BY Zenon, <1>9 DEF RunBatchCommitFails
  <2> QED
    BY Zenon, <2>1 DEF FromInv
<1>10. CASE RunBatchNOTX
  <2>1. /\ delivered' = delivered \cup ToSet(dis.batch) /\ dis' = [dis EXCEPT !.pc = "handled"]
        /\ UNCHANGED <<setup, dispatch, persisted, det>>
    BY Zenon, <1>10 DEF RunBatchNOTX
  <2>2. dis'.batch = dis.batch /\ dis'.after = dis.after
    BY Zenon, <2>1 DEF Types, Dispatchers
  <2>3. \A e \in delivered' \cup ToSet(dis'.batch) : e \in delivered \cup ToSet(dis.batch)
    BY Zenon, <2>1, <2>2
  <2> QED
    BY Zenon, <2>1, <2>2, <2>3 DEF FromInv
<1>11. CASE RunBatchCheckpoint
  <2>1. /\ dis.pc = "handled" /\ persisted' = dis.after /\ dis' = Idle("receive")
        /\ UNCHANGED <<setup, delivered, dispatch, det>>
    BY Zenon, <1>11 DEF RunBatchCheckpoint, UpdateCheckpoint
  <2>2. dis.batch # <<>>
    BY Zenon, <2>1 DEF DispatcherShape
  <2> QED
    BY Zenon, <1>3, <2>1, <2>2, FromFrame
<1> QED
  BY Zenon, <1>4, <1>5, <1>6, <1>7, <1>8, <1>9, <1>10, <1>11 DEF Dispatcher

\* No event of a block before the fromBlock is delivered, by a stream that
\* starts within reach of it (readDBCheckpoint, detector).
THEOREM FromBlockHolds == Spec /\ []StartsInReach => []FromBlockRespected
<1>1. Init => FromInv
  <2> SUFFICES ASSUME Init PROVE FromInv
    BY Zenon
  <2>1. 1..Len(<<>>) = {} /\ ~(-1 >= 0)
    OBVIOUS
  <2> QED
    BY Zenon, <2>1, BatchSets DEF Init, FromInv, SentFrom, Off, Idle, None, NoLog
<1>2. IInv /\ FromInv /\ StartsInReach /\ [Next]_vars => FromInv'
  BY Zenon, FromIndexer, FromLifecycle, FromDetector, FromDispatcher DEF Next
<1>3. IInv /\ FromInv => FromBlockRespected
  <2> SUFFICES ASSUME IInv, FromInv, NEW e \in delivered PROVE e[1] >= setup.fromBlock
    BY Zenon DEF FromBlockRespected
  <2>1. e[1] \in Nat /\ setup.fromBlock \in Nat
    <3>1. e \in AllLogs /\ Types
      BY Zenon DEF IInv, Types
    <3>2. e[1] \in Blocks /\ setup.fromBlock \in 0..MaxBlock
      BY Zenon, <3>1, LogShape, Fields
    <3> QED
      BY <3>2 DEF Blocks
  <2>2. setup.fromBlock # Latest => setup.fromBlock <= e[1]
    BY Zenon DEF FromInv
  <2> QED
    BY <2>1, <2>2 DEF Latest
<1> QED
  BY <1>1, <1>2, <1>3, Inductive, PTL DEF Spec
==============================================================================
