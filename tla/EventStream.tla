---------------------------- MODULE EventStream ----------------------------
(***************************************************************************)
(* An event stream of the block indexer (core/go/pkg/blockindexer): the    *)
(* detector that turns the notifications of indexed blocks, or pages read  *)
(* from the database when it has fallen behind, into events, the           *)
(* dispatcher that delivers them in batches and persists the checkpoint,   *)
(* and the stop, restart and crash of both.                                *)
(*                                                                         *)
(* A log is <<block, position>>.  All logs of Logs have a signature of the *)
(* stream's ABI; those marked "other" turn out not to match it.  Blocks    *)
(* are numbered from 1.                                                    *)
(***************************************************************************)
EXTENDS Integers, Sequences, FiniteSets, SequencesExt

CONSTANTS MaxBlock,     \* bound: blocks indexed
          Logs,         \* the logs of each block: sequences of "match" and "other"
          Setups,       \* how the stream may be configured, see SetupsAssumption
          CommitBatch,  \* commitBatchSize of the block indexer
          QueueLength,  \* blockDispatchQueueLength
          PageSize,     \* catchupQueryPageSize
          Faults,       \* the faults that may happen
          MaxFaults     \* bound: how many of them in one behaviour

None == 0     \* no block
Latest == 0   \* the fromBlock of a stream that starts at the next block

Blocks == 1..MaxBlock

ASSUME SetupsAssumption ==
  /\ MaxBlock \in Nat \ {0} /\ CommitBatch \in Nat \ {0} /\ PageSize \in Nat \ {0}
  /\ QueueLength \in Nat /\ MaxFaults \in Nat
  /\ Logs \in [Blocks -> Seq({"match", "other"})]
  /\ \A s \in Setups : s.fromBlock \in {Latest} \cup Blocks /\ s.notx \in BOOLEAN
                       /\ s.batchSize \in Nat \ {0}
  /\ Faults \subseteq {"crash", "stop", "commit"}

VARIABLES
  setup,      \* [fromBlock, notx, batchSize]: the definition of the stream
  indexed,    \* the highest block in the database, None when there is none
  notified,   \* the highest block of which the stream was notified, or was not for lack of room
  persisted,  \* event_stream_checkpoints: the block number, -1 when there is no row
  delivered,  \* the logs that a handler has accepted
  blocks,     \* the channel of notified blocks
  dispatch,   \* the channel between detector and dispatcher
  checkpoint, \* es.checkpoint, the block number in memory
  det,        \* the detector: [pc, base, startup, upTo, last, out]
  dis,        \* the dispatcher: [pc, batch, after]
  stopping,   \* the context of the stream is cancelled
  origin,     \* the first block the stream is to deliver
  discarded,  \* logs that were held in memory by a stream that was stopped or crashed
  missed,     \* the last notification did not find room in the channel
  faults      \* faults that have happened

vars == <<setup, indexed, notified, persisted, delivered, blocks, dispatch, checkpoint,
          det, dis, stopping, origin, discarded, missed, faults>>

NoLog == <<None, None>>

Off == [pc |-> "off", base |-> None, startup |-> None, upTo |-> None, last |-> NoLog, out |-> <<>>]
Idle(pc) == [pc |-> pc, batch |-> <<>>, after |-> 0]

Init ==
  /\ setup \in Setups
  /\ indexed = None /\ notified = None /\ persisted = -1 /\ delivered = {}
  /\ blocks = <<>> /\ dispatch = <<>> /\ checkpoint = -1
  /\ det = Off /\ dis = Idle("off") /\ stopping = FALSE
  /\ origin = setup.fromBlock /\ discarded = {} /\ missed = FALSE /\ faults = 0

Fault(f) == f \in Faults /\ faults < MaxFaults /\ faults' = faults + 1

Earlier(e, f) == e[1] < f[1] \/ (e[1] = f[1] /\ e[2] < f[2])
LogsOf(b) == {<<b, i>> : i \in DOMAIN Logs[b]}
AllLogs == UNION {LogsOf(b) : b \in Blocks}
Matches(e) == Logs[e[1]][e[2]] = "match"

(* Variant: the logs of a block come in any order, here the last one first. *)
InChainOrder_Unordered(S) ==
  CHOOSE s \in [1..Cardinality(S) -> S] :
    \A i, j \in 1..Cardinality(S) :
      i < j => s[i][1] < s[j][1] \/ (s[i][1] = s[j][1] /\ s[i][2] > s[j][2])

(* The logs of a set, ordered by block and position. *)
InChainOrder(S) ==
  CHOOSE s \in [1..Cardinality(S) -> S] :
    \A i, j \in 1..Cardinality(S) : i < j => Earlier(s[i], s[j])

------------------------------------------------------------------------------
(* The block indexer: a batch of blocks is committed, then each of them is  *)
(* offered to the stream, which misses it when its channel is full.         *)

WriteBatch ==
  /\ notified = indexed
  /\ \E k \in 1..CommitBatch : indexed + k <= MaxBlock /\ indexed' = indexed + k
  /\ UNCHANGED <<setup, notified, persisted, delivered, blocks, dispatch, checkpoint,
                 det, dis, stopping, origin, discarded, missed, faults>>

NotifyEventStreams ==
  /\ notified < indexed
  /\ notified' = notified + 1
  /\ blocks' = IF Len(blocks) < QueueLength THEN Append(blocks, notified + 1) ELSE blocks
  /\ missed' = (Len(blocks) >= QueueLength)
  /\ UNCHANGED <<setup, indexed, persisted, delivered, dispatch, checkpoint,
                 det, dis, stopping, origin, discarded, faults>>

------------------------------------------------------------------------------
(* The life of a stream. *)

Start ==
  /\ det.pc = "off" /\ dis.pc = "off"
  /\ det' = [Off EXCEPT !.pc = "checkpoint"] /\ dis' = Idle("receive")
  /\ stopping' = FALSE
  /\ UNCHANGED <<setup, indexed, notified, persisted, delivered, blocks, dispatch,
                 checkpoint, origin, discarded, missed, faults>>

(* StopEventStream, or the reset of the block indexer, cancels the context; *)
(* the channels keep what they hold.                                        *)
Stop ==
  /\ det.pc # "off" /\ dis.pc # "off" /\ ~stopping
  /\ Fault("stop")
  /\ stopping' = TRUE
  /\ UNCHANGED <<setup, indexed, notified, persisted, delivered, blocks, dispatch,
                 checkpoint, det, dis, origin, discarded, missed>>

(* A send that finds the context cancelled may be given up ... *)
DetectorDrops ==
  /\ stopping /\ det.out # <<>>
  /\ det' = [det EXCEPT !.out = Tail(@)]
  /\ discarded' = discarded \cup ({Head(det.out).log} \ {NoLog})
  /\ UNCHANGED <<setup, indexed, notified, persisted, delivered, blocks, dispatch,
                 checkpoint, dis, stopping, origin, missed, faults>>

(* ... and the detector ends wherever it waits or reads the database. *)
DetectorExits ==
  /\ stopping /\ det.pc # "off" /\ det.out = <<>>
  /\ det' = Off
  /\ UNCHANGED <<setup, indexed, notified, persisted, delivered, blocks, dispatch,
                 checkpoint, dis, stopping, origin, discarded, missed, faults>>

(* The dispatcher ends with its batch undelivered. *)
DispatcherExits ==
  /\ stopping /\ dis.pc # "off"
  /\ dis' = Idle("off")
  /\ discarded' = discarded \cup ToSet(dis.batch)
  /\ UNCHANGED <<setup, indexed, notified, persisted, delivered, blocks, dispatch,
                 checkpoint, det, stopping, origin, missed, faults>>

(* The process ends: only the database is left, and blocks that were        *)
(* committed are not notified again.                                        *)
Crash ==
  /\ Fault("crash")
  /\ notified' = indexed
  /\ blocks' = <<>> /\ dispatch' = <<>> /\ checkpoint' = -1
  /\ det' = Off /\ dis' = Idle("off") /\ stopping' = FALSE
  /\ discarded' = discarded \cup ToSet(dis.batch)
  /\ UNCHANGED <<setup, indexed, persisted, delivered, origin, missed>>

------------------------------------------------------------------------------
(* The detector. *)

Event(e, lastInBlock) == [log |-> e, block |-> e[1], last |-> lastInBlock]
Confirmed(b) == [log |-> NoLog, block |-> b, last |-> TRUE]

(* processNotifiedBlock: the messages for the dispatcher. *)
NotifiedBlock(b) ==
  LET found == InChainOrder({e \in LogsOf(b) : Matches(e)})
  IN IF found = <<>> THEN <<Confirmed(b)>>
     ELSE [j \in DOMAIN found |-> Event(found[j], found[j][2] = Len(Logs[b]))]

(* Variant: fromBlock is ignored. *)
ReadDBCheckpoint_FromGenesis ==
  /\ det.pc = "checkpoint"
  /\ LET base == IF persisted >= 0 THEN persisted ELSE 0
     IN /\ det' = [det EXCEPT !.pc = IF persisted < 0 /\ setup.fromBlock = Latest
                                     THEN "first" ELSE "highest",
                              !.base = IF base < 0 THEN None ELSE base]
        /\ checkpoint' = IF persisted >= 0 THEN persisted ELSE checkpoint
  /\ UNCHANGED <<setup, indexed, notified, persisted, delivered, blocks, dispatch,
                 dis, stopping, origin, discarded, missed, faults>>

(* processCheckpoint: without a row the stream starts at its fromBlock. *)
ReadDBCheckpoint ==
  /\ det.pc = "checkpoint"
  /\ LET base == IF persisted >= 0 THEN persisted ELSE setup.fromBlock - 1
     IN /\ det' = [det EXCEPT !.pc = IF persisted < 0 /\ setup.fromBlock = Latest
                                     THEN "first" ELSE "highest",
                              !.base = IF base < 0 THEN None ELSE base]
        /\ checkpoint' = IF persisted >= 0 THEN persisted ELSE checkpoint
  /\ UNCHANGED <<setup, indexed, notified, persisted, delivered, blocks, dispatch,
                 dis, stopping, origin, discarded, missed, faults>>

(* Variant: a restarted stream waits for a block before it catches up. *)
GetHighestIndexedBlock_Waits ==
  /\ det.pc = "highest"
  /\ det' = [det EXCEPT !.pc = "loop", !.startup = None]
  /\ missed' = FALSE
  /\ UNCHANGED <<setup, indexed, notified, persisted, delivered, blocks, dispatch,
                 checkpoint, dis, stopping, origin, discarded, faults>>

(* A stream that starts at the latest block waits for a first one. *)
FirstBlock ==
  /\ det.pc = "first" /\ blocks # <<>>
  /\ det' = [det EXCEPT !.pc = "loop", !.base = Head(blocks), !.out = NotifiedBlock(Head(blocks))]
  /\ blocks' = Tail(blocks)
  /\ origin' = Head(blocks)
  /\ UNCHANGED <<setup, indexed, notified, persisted, delivered, dispatch, checkpoint,
                 dis, stopping, discarded, missed, faults>>

GetHighestIndexedBlock ==
  /\ det.pc = "highest"
  /\ det' = [det EXCEPT !.pc = "loop", !.startup = indexed]
  /\ missed' = FALSE
  /\ UNCHANGED <<setup, indexed, notified, persisted, delivered, blocks, dispatch,
                 checkpoint, dis, stopping, origin, discarded, faults>>

CatchingUp == det.startup # None \/ det.upTo # None

(* The next notified block is at or behind the checkpoint, follows it, or   *)
(* shows that others were missed.                                           *)
TakeBlock ==
  /\ det.pc = "loop" /\ det.out = <<>> /\ ~CatchingUp /\ blocks # <<>>
  /\ blocks' = Tail(blocks)
  /\ LET b == Head(blocks)
     IN \/ b <= det.base /\ det' = det
        \/ b = det.base + 1 /\ det' = [det EXCEPT !.base = b, !.out = NotifiedBlock(b)]
        \/ b > det.base + 1 /\ det' = [det EXCEPT !.upTo = b]
  /\ UNCHANGED <<setup, indexed, notified, persisted, delivered, dispatch, checkpoint,
                 dis, stopping, origin, discarded, missed, faults>>

FirstPage(found) == {e \in found : Cardinality({f \in found : Earlier(f, e)}) < PageSize}

(* The indexed logs below a block, after the last one of the previous page  *)
(* or, for the first page, above the checkpoint.                            *)
Page(to) ==
  LET after(e) == IF det.last = NoLog THEN e[1] > det.base ELSE Earlier(det.last, e)
      found    == {e \in AllLogs : e[1] <= indexed /\ e[1] < to /\ after(e)}
  IN FirstPage(found)

LastOf(page) == CHOOSE e \in page : \A f \in page : f = e \/ Earlier(f, e)

(* Variant: the last log of every page ends its block. *)
PageEvents_AnyPage(page, caughtUp) ==
  LET found == InChainOrder({e \in page : Matches(e)})
  IN [j \in DOMAIN found |-> Event(found[j], found[j] = LastOf(page))]

(* Only the last log of the last page ends its block. *)
PageEvents(page, caughtUp) ==
  LET found == InChainOrder({e \in page : Matches(e)})
  IN [j \in DOMAIN found |-> Event(found[j], caughtUp /\ found[j] = LastOf(page))]

(* Variant: the checkpoint of a startup is the exclusive bound of the query. *)
ProcessCatchupEventPage_Bound ==
  /\ det.pc = "loop" /\ det.out = <<>> /\ CatchingUp /\ ~stopping
  /\ LET to       == IF det.startup # None THEN det.startup + 1 ELSE det.upTo
         page     == Page(to)
         caughtUp == Cardinality(page) < PageSize
         events   == PageEvents(page, caughtUp)
     IN det' = IF ~caughtUp THEN [det EXCEPT !.last = LastOf(page), !.out = events]
               ELSE IF det.startup = None
               THEN [det EXCEPT !.last = NoLog, !.out = events \o NotifiedBlock(det.upTo),
                                !.base = det.upTo, !.upTo = None]
               ELSE [det EXCEPT !.last = NoLog, !.out = Append(events, Confirmed(to)),
                                !.base = det.startup, !.startup = None]
  /\ UNCHANGED <<setup, indexed, notified, persisted, delivered, blocks, dispatch,
                 checkpoint, dis, stopping, origin, discarded, missed, faults>>

(* processCatchupEventPage, and what the detector does once it has caught   *)
(* up: the deferred block, or the checkpoint of a startup.                  *)
ProcessCatchupEventPage ==
  /\ det.pc = "loop" /\ det.out = <<>> /\ CatchingUp /\ ~stopping
  /\ LET to       == IF det.startup # None THEN det.startup + 1 ELSE det.upTo
         page     == Page(to)
         caughtUp == Cardinality(page) < PageSize
         events   == PageEvents(page, caughtUp)
     IN det' = IF ~caughtUp THEN [det EXCEPT !.last = LastOf(page), !.out = events]
               ELSE IF det.startup = None
               THEN [det EXCEPT !.last = NoLog, !.out = events \o NotifiedBlock(det.upTo),
                                !.base = det.upTo, !.upTo = None]
               ELSE [det EXCEPT !.last = NoLog, !.out = Append(events, Confirmed(to - 1)),
                                !.base = det.startup, !.startup = None]
  /\ UNCHANGED <<setup, indexed, notified, persisted, delivered, blocks, dispatch,
                 checkpoint, dis, stopping, origin, discarded, missed, faults>>

SendToDispatcher ==
  /\ det.out # <<>> /\ Len(dispatch) < setup.batchSize
  /\ dispatch' = Append(dispatch, Head(det.out))
  /\ det' = [det EXCEPT !.out = Tail(@)]
  /\ UNCHANGED <<setup, indexed, notified, persisted, delivered, blocks, checkpoint,
                 dis, stopping, origin, discarded, missed, faults>>

------------------------------------------------------------------------------
(* The dispatcher. *)

UpdateCheckpoint(b) == persisted' = b /\ checkpoint' = b

(* The confirmation of blocks without events moves the checkpoint forward.  *)
AdvanceCheckpoint ==
  /\ dis.pc = "receive" /\ dispatch # <<>> /\ Head(dispatch).log = NoLog /\ ~stopping
  /\ dispatch' = Tail(dispatch)
  /\ IF Head(dispatch).block > checkpoint THEN UpdateCheckpoint(Head(dispatch).block)
     ELSE UNCHANGED <<persisted, checkpoint>>
  /\ UNCHANGED <<setup, indexed, notified, delivered, blocks, det, dis, stopping,
                 origin, discarded, missed, faults>>

(* With the context cancelled the write fails and the dispatcher ends. *)
AdvanceCancelled ==
  /\ dis.pc = "receive" /\ dispatch # <<>> /\ Head(dispatch).log = NoLog /\ stopping
  /\ dispatch' = Tail(dispatch)
  /\ dis' = Idle("off")
  /\ discarded' = discarded \cup ToSet(dis.batch)
  /\ UNCHANGED <<setup, indexed, notified, persisted, delivered, blocks, checkpoint,
                 det, stopping, origin, missed, faults>>

(* An event joins the batch, which is run when it is full. *)
ReceiveEvent ==
  /\ dis.pc = "receive" /\ dispatch # <<>> /\ Head(dispatch).log # NoLog
  /\ dispatch' = Tail(dispatch)
  /\ LET m     == Head(dispatch)
         batch == Append(dis.batch, m.log)
     IN dis' = [pc    |-> IF Len(batch) >= setup.batchSize THEN "run" ELSE "receive",
                batch |-> batch,
                after |-> IF m.last THEN m.block ELSE m.block - 1]
  /\ UNCHANGED <<setup, indexed, notified, persisted, delivered, blocks, checkpoint,
                 det, stopping, origin, discarded, missed, faults>>

BatchTimeout ==
  /\ dis.pc = "receive" /\ dis.batch # <<>> /\ ~stopping
  /\ dis' = [dis EXCEPT !.pc = "run"]
  /\ UNCHANGED <<setup, indexed, notified, persisted, delivered, blocks, dispatch,
                 checkpoint, det, stopping, origin, discarded, missed, faults>>

(* The handler and the checkpoint are one transaction ... *)
RunBatchDBTX ==
  /\ dis.pc = "run" /\ ~setup.notx
  /\ delivered' = delivered \cup ToSet(dis.batch)
  /\ UpdateCheckpoint(dis.after)
  /\ dis' = Idle("receive")
  /\ UNCHANGED <<setup, indexed, notified, blocks, dispatch, det, stopping, origin,
                 discarded, missed, faults>>

(* ... whose commit may fail after the checkpoint in memory has moved. *)
RunBatchCommitFails ==
  /\ dis.pc = "run" /\ ~setup.notx
  /\ Fault("commit")
  /\ checkpoint' = dis.after
  /\ UNCHANGED <<setup, indexed, notified, persisted, delivered, blocks, dispatch,
                 det, dis, stopping, origin, discarded, missed>>

(* A handler of its own is called first and the checkpoint written after it. *)
RunBatchNOTX ==
  /\ dis.pc = "run" /\ setup.notx
  /\ delivered' = delivered \cup ToSet(dis.batch)
  /\ dis' = [dis EXCEPT !.pc = "handled"]
  /\ UNCHANGED <<setup, indexed, notified, persisted, blocks, dispatch, checkpoint,
                 det, stopping, origin, discarded, missed, faults>>

RunBatchCheckpoint ==
  /\ dis.pc = "handled" /\ ~stopping
  /\ UpdateCheckpoint(dis.after)
  /\ dis' = Idle("receive")
  /\ UNCHANGED <<setup, indexed, notified, delivered, blocks, dispatch, det, stopping,
                 origin, discarded, missed, faults>>

------------------------------------------------------------------------------
Indexer == WriteBatch \/ NotifyEventStreams
Lifecycle == Start \/ Stop \/ DetectorDrops \/ DetectorExits \/ DispatcherExits \/ Crash
Detector ==
  ReadDBCheckpoint \/ FirstBlock \/ GetHighestIndexedBlock \/ TakeBlock
  \/ ProcessCatchupEventPage \/ SendToDispatcher
Dispatcher ==
  AdvanceCheckpoint \/ AdvanceCancelled \/ ReceiveEvent \/ BatchTimeout
  \/ RunBatchDBTX \/ RunBatchCommitFails \/ RunBatchNOTX \/ RunBatchCheckpoint

Next == Indexer \/ Lifecycle \/ Detector \/ Dispatcher

Spec == Init /\ [][Next]_vars

(* Blocks keep being indexed up to the bound, both goroutines run, batches  *)
(* time out, failed transactions are retried, and a stream that was stopped *)
(* is started again.                                                        *)
FairSpec ==
  /\ Spec
  /\ WF_vars(Indexer)
  /\ WF_vars(Start) /\ WF_vars(DetectorDrops \/ DetectorExits) /\ WF_vars(DispatcherExits)
  /\ WF_vars(Detector)
  /\ WF_vars(AdvanceCheckpoint \/ ReceiveEvent \/ BatchTimeout \/ RunBatchDBTX
             \/ RunBatchNOTX \/ RunBatchCheckpoint)

------------------------------------------------------------------------------
(* The events that the stream is to deliver. *)
Wanted == {e \in AllLogs : origin # None /\ e[1] >= origin /\ Matches(e)}

(* The channels stay within their capacity and no checkpoint is ahead of    *)
(* the database (updateCheckpoint, sendToDispatcher).                       *)
TypeOK ==
  /\ indexed \in 0..MaxBlock /\ notified \in 0..indexed
  /\ persisted \in -1..indexed /\ checkpoint \in -1..indexed
  /\ ToSet(blocks) \subseteq Blocks /\ Len(blocks) <= QueueLength
  /\ Len(dispatch) <= setup.batchSize /\ Len(dis.batch) <= setup.batchSize
  /\ det.pc \in {"off", "checkpoint", "first", "highest", "loop"}
  /\ dis.pc \in {"off", "receive", "run", "handled"}

(* Events are delivered in the order of the chain: when one has been        *)
(* delivered, every earlier one has been, unless it was in memory when the  *)
(* stream was stopped or crashed (detector, processCatchupEventPage).       *)
InOrder ==
  \A e \in Wanted : \A f \in delivered :
    Earlier(e, f) => e \in delivered \cup discarded

(* The persisted checkpoint leaves out only events that the dispatcher      *)
(* holds in its batch, or that were in memory when the stream was stopped   *)
(* or crashed: a restart finds all others in the database.                  *)
CheckpointCovers ==
  \A e \in Wanted : e[1] <= persisted => e \in delivered \cup discarded \cup ToSet(dis.batch)

(* No event of a block before the fromBlock of the stream is delivered,     *)
(* whether it is found by notification or by a query (readDBCheckpoint).    *)
FromBlockRespected == \A e \in delivered : e[1] >= setup.fromBlock

(* Every event is delivered, in spite of crashes and of notifications that  *)
(* were dropped, unless the last of them was, or the stream is still        *)
(* waiting for its first block.                                             *)
AllDelivered ==
  (<>[](~missed /\ det.pc # "first")) => <>[](Wanted \subseteq delivered \cup discarded)

(* What the detector says of the dispatcher's checkpoint: it "represents    *)
(* the last block to be fully processed and persisted".                     *)
CheckpointIsProcessed == \A e \in Wanted : e[1] <= persisted => e \in delivered
=============================================================================
