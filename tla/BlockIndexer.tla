---------------------------- MODULE BlockIndexer ----------------------------
(***************************************************************************)
(* The block indexer (core/go/pkg/blockindexer/block_indexer.go) behind    *)
(* the block listener: the notification processor that attaches notified   *)
(* blocks to the view of the chain after the checkpoint, the dispatcher    *)
(* that extends the view from notifications or from the node, takes blocks *)
(* with enough confirmations off its front and writes them in batches, the *)
(* reset after receipts that do not fit, and the restart of the process.   *)
(***************************************************************************)
EXTENDS BlockListener

CONSTANTS FromBlock,              \* fromBlock of the configuration, a number
          RequiredConfirmations,
          CommitBatchSize,
          NewHeadLimit            \* newHeadToAdd is dropped beyond this length (10)

ASSUME IndexerAssumption ==
  /\ FromBlock \in Nat \ {0} /\ RequiredConfirmations \in Nat
  /\ CommitBatchSize \in Nat \ {0} /\ NewHeadLimit \in Nat

VARIABLES
  nextBlock,  \* the first number after the checkpoint
  view,       \* blocksSinceCheckpoint
  newHead,    \* newHeadToAdd
  tap,        \* dispatcherTap holds a token
  dsp,        \* the dispatcher: [pc, found, lastFromNotification, timedOut, timer, number, fetched, batch]
  indexed     \* the blocks in the database, in the order they were written

ivars == <<nextBlock, view, newHead, tap, dsp, indexed>>
vars == <<lvars, ivars>>

(* timer: the context the dispatcher waits on is that of the indexer        *)
(* ("none"), of an open batch ("armed") or of one that was cancelled        *)
(* ("expired").                                                             *)
Dispatching ==
  [pc |-> "read", found |-> FALSE, lastFromNotification |-> FALSE, timedOut |-> FALSE,
   timer |-> "none", number |-> 0, fetched |-> None, batch |-> <<>>]

RestoreCheckpoint == IF indexed = <<>> THEN FromBlock ELSE Number(Last(indexed)) + 1

Init ==
  /\ LInit
  /\ nextBlock = FromBlock /\ view = <<>> /\ newHead = <<>> /\ tap = FALSE
  /\ dsp = Dispatching /\ indexed = <<>>

(* Variant: notified blocks are added without limit. *)
ProcessBlockNotification_NoLimit ==
  /\ newBlocks # <<>>
  /\ newBlocks' = Tail(newBlocks)
  /\ LET b     == Head(newBlocks)
         heads == newHead
         known == view \o heads
         same  == {i \in DOMAIN view : Number(view[i]) = Number(b)}
     IN IF Number(b) < nextBlock THEN UNCHANGED <<view, newHead, tap>>
        ELSE /\ tap' = TRUE
             /\ IF (known # <<>> /\ Parent(b) = Last(known)) \/ (known = <<>> /\ Number(b) = nextBlock)
                THEN newHead' = Append(heads, b) /\ UNCHANGED view
                ELSE IF same = {} THEN newHead' = heads /\ UNCHANGED view
                ELSE LET i    == CHOOSE i \in same : \A j \in same : i <= j
                         kept == SubSeq(view, 1, i - 1)
                     IN /\ newHead' = <<>>
                        /\ view' = IF i = 1 \/ Parent(b) = Last(kept) THEN Append(kept, b) ELSE kept
  /\ UNCHANGED <<head, filter, chain, lis, unseen, reorgs, faults, nextBlock, dsp, indexed>>

------------------------------------------------------------------------------
(* A notified block extends the newest block known, replaces one of the     *)
(* view, or only wakes the dispatcher.                                      *)
ProcessBlockNotification ==
  /\ newBlocks # <<>>
  /\ newBlocks' = Tail(newBlocks)
  /\ LET b     == Head(newBlocks)
         heads == IF Len(newHead) > NewHeadLimit THEN <<>> ELSE newHead
         known == view \o heads
         same  == {i \in DOMAIN view : Number(view[i]) = Number(b)}
     IN IF Number(b) < nextBlock THEN UNCHANGED <<view, newHead, tap>>
        ELSE /\ tap' = TRUE
             /\ IF (known # <<>> /\ Parent(b) = Last(known)) \/ (known = <<>> /\ Number(b) = nextBlock)
                THEN newHead' = Append(heads, b) /\ UNCHANGED view
                ELSE IF same = {} THEN newHead' = heads /\ UNCHANGED view
                ELSE LET i    == CHOOSE i \in same : \A j \in same : i <= j
                         kept == SubSeq(view, 1, i - 1)
                     IN /\ newHead' = <<>>
                        /\ view' = IF i = 1 \/ Parent(b) = Last(kept) THEN Append(kept, b) ELSE kept
  /\ UNCHANGED <<head, filter, chain, lis, unseen, reorgs, faults, nextBlock, dsp, indexed>>

------------------------------------------------------------------------------
(* The dispatcher, from one lock or query to the next. *)

Pop ==
  /\ view' = Append(view, Head(newHead))
  /\ newHead' = Tail(newHead)
  /\ dsp' = [dsp EXCEPT !.pc = "confirm", !.lastFromNotification = TRUE]

(* Variant: once notified, the dispatcher never asks the node again. *)
NextIteration_KeepsFlag(d) ==
  [d EXCEPT !.pc = IF d.found THEN "read" ELSE "wait",
            !.timedOut = FALSE,
            !.lastFromNotification = @]

(* The end of an iteration of its loop: a batch that is full or too old is  *)
(* flushed, then the next block is read or waited for.                      *)
NextIteration(d) ==
  [d EXCEPT !.pc = IF d.found THEN "read" ELSE "wait",
            !.timedOut = FALSE,
            !.lastFromNotification = d.found /\ @]

EndIteration(d) ==
  IF d.batch # <<>> /\ (d.timedOut \/ Len(d.batch) >= CommitBatchSize)
  THEN [d EXCEPT !.pc = "flush"]
  ELSE NextIteration(d)

(* readNextBlock: a block from the notification processor first; when the   *)
(* last one came from there, another is awaited; otherwise the node is asked. *)
ReadNextBlock ==
  /\ dsp.pc = "read"
  /\ \/ newHead # <<>> /\ Pop
     \/ /\ newHead = <<>> /\ dsp.lastFromNotification
        /\ dsp' = EndIteration([dsp EXCEPT !.found = FALSE])
        /\ UNCHANGED <<view, newHead>>
     \/ /\ newHead = <<>> /\ ~dsp.lastFromNotification
        /\ dsp' = [dsp EXCEPT !.pc = "query",
                              !.number = IF view = <<>> THEN nextBlock ELSE Number(Last(view)) + 1]
        /\ UNCHANGED <<view, newHead>>
  /\ UNCHANGED <<lvars, nextBlock, tap, indexed>>

GetBlockInfoByNumber ==
  /\ dsp.pc = "query"
  /\ dsp' = IF dsp.number > Number(head) THEN EndIteration([dsp EXCEPT !.found = FALSE])
            ELSE [dsp EXCEPT !.pc = "attach", !.fetched = BlockByNumber(dsp.number)]
  /\ UNCHANGED <<lvars, nextBlock, view, newHead, tap, indexed>>

(* Variant: the block that was fetched is attached whatever the view has become. *)
AttachBlock_Unchecked ==
  /\ dsp.pc = "attach"
  /\ \/ newHead # <<>> /\ Pop
     \/ /\ newHead = <<>>
        /\ view' = Append(view, dsp.fetched)
        /\ dsp' = [dsp EXCEPT !.pc = "confirm"]
        /\ UNCHANGED newHead
  /\ UNCHANGED <<lvars, nextBlock, tap, indexed>>

(* The view may have changed during the query: a notified block goes first, *)
(* and a block that does not fit takes the last of the view away.           *)
AttachBlock ==
  /\ dsp.pc = "attach"
  /\ \/ newHead # <<>> /\ Pop
     \/ /\ newHead = <<>>
        /\ view' = IF view # <<>> /\ Last(view) # Parent(dsp.fetched) THEN Front(view)
                   ELSE Append(view, dsp.fetched)
        /\ dsp' = [dsp EXCEPT !.pc = "confirm"]
        /\ UNCHANGED newHead
  /\ UNCHANGED <<lvars, nextBlock, tap, indexed>>

(* Variant: one confirmation too few. *)
GetNextConfirmed_OneLess ==
  /\ dsp.pc = "confirm"
  /\ LET d == [dsp EXCEPT !.found = TRUE, !.fetched = None, !.number = 0]
     IN IF Len(view) >= RequiredConfirmations
        THEN /\ view' = Tail(view)
             /\ nextBlock' = Number(Head(view)) + 1
             /\ dsp' = EndIteration([d EXCEPT !.batch = Append(@, Head(view)), !.timer = "armed"])
        ELSE dsp' = EndIteration(d) /\ UNCHANGED <<view, nextBlock>>
  /\ UNCHANGED <<lvars, newHead, tap, indexed>>

(* getNextConfirmed, and the batch that its block joins. *)
GetNextConfirmed ==
  /\ dsp.pc = "confirm"
  /\ LET d == [dsp EXCEPT !.found = TRUE, !.fetched = None, !.number = 0]
     IN IF Len(view) > RequiredConfirmations
        THEN /\ view' = Tail(view)
             /\ nextBlock' = Number(Head(view)) + 1
             /\ dsp' = EndIteration([d EXCEPT !.batch = Append(@, Head(view)), !.timer = "armed"])
        ELSE dsp' = EndIteration(d) /\ UNCHANGED <<view, nextBlock>>
  /\ UNCHANGED <<lvars, newHead, tap, indexed>>

(* The receipts of all blocks are there: one transaction writes the batch.  *)
WriteBatch ==
  /\ dsp.pc = "flush"
  /\ indexed' = indexed \o dsp.batch
  /\ dsp' = NextIteration([dsp EXCEPT !.batch = <<>>,
                                      !.timer = IF @ = "armed" THEN "expired" ELSE @])
  /\ UNCHANGED <<lvars, nextBlock, view, newHead, tap>>

StartOrReset ==
  /\ nextBlock' = RestoreCheckpoint
  /\ view' = <<>> /\ newHead' = <<>> /\ dsp' = Dispatching
  /\ UNCHANGED indexed

(* The receipts of a block are not found, or are not its own. *)
ReceiptsInvalid ==
  /\ dsp.pc = "flush"
  /\ Fault("receipts")
  /\ StartOrReset
  /\ UNCHANGED <<head, filter, chain, lis, newBlocks, unseen, reorgs, tap>>

Wait ==
  /\ dsp.pc = "wait"
  /\ \/ /\ tap /\ tap' = FALSE
        /\ dsp' = [dsp EXCEPT !.pc = "read"]
     \/ /\ dsp.timer # "none" /\ UNCHANGED tap
        /\ dsp' = [dsp EXCEPT !.pc = "read", !.timedOut = TRUE, !.timer = "none"]
  /\ UNCHANGED <<lvars, nextBlock, view, newHead, indexed>>

Crash ==
  /\ Fault("crash")
  /\ ListenerRestarts
  /\ StartOrReset
  /\ tap' = FALSE

------------------------------------------------------------------------------
Dispatcher ==
  ReadNextBlock \/ GetBlockInfoByNumber \/ AttachBlock \/ GetNextConfirmed \/ WriteBatch \/ Wait

Next ==
  \/ Node /\ UNCHANGED ivars
  \/ (ListenLoop \/ LookupFails) /\ UNCHANGED ivars
  \/ ProcessBlockNotification
  \/ Dispatcher
  \/ ReceiptsInvalid
  \/ Crash

Spec == Init /\ [][Next]_vars

(* Blocks are mined up to the bound, and the three goroutines run. *)
FairSpec ==
  /\ Spec
  /\ WF_vars(Mine /\ UNCHANGED ivars)
  /\ WF_vars(ListenLoop /\ UNCHANGED ivars)
  /\ WF_vars(ProcessBlockNotification)
  /\ WF_vars(Dispatcher)

------------------------------------------------------------------------------
(* The channel and the list of notified blocks stay within their limits,    *)
(* and the batch within its size (processBlockNotification, dispatcher).    *)
TypeOK ==
  /\ Len(newBlocks) <= CacheLen /\ Len(newHead) <= NewHeadLimit + 1
  /\ nextBlock \in FromBlock..Larger(FromBlock, MaxHeight + 1)
  /\ dsp.pc \in {"read", "query", "attach", "confirm", "flush", "wait"}
  /\ Len(dsp.batch) <= CommitBatchSize
  /\ dsp.timer \in {"none", "armed", "expired"}

(* The view after the checkpoint, with the blocks notified since, is a      *)
(* chain that starts at the next block to be indexed, whatever notifications *)
(* arrive while the dispatcher queries the node (processBlockNotification,  *)
(* readNextBlock).                                                          *)
ViewIsLinked ==
  LET known == view \o newHead
  IN \A i \in DOMAIN known :
       /\ Number(known[i]) = nextBlock + i - 1
       /\ i > 1 => Parent(known[i]) = known[i - 1]

(* The index is the canonical chain from the first block on, without gaps   *)
(* and duplicates, as long as no reorganisation is deeper than the required *)
(* confirmations (getNextConfirmed, restoreCheckpoint).                     *)
IndexedIsCanonical ==
  LET written == indexed \o dsp.batch
  IN \A i \in DOMAIN written : Number(written[i]) = FromBlock + i - 1 /\ Canonical(written[i])

(* The dispatcher took the last block of its view from a notification, the  *)
(* block was replaced meanwhile, and the notifications of its successors    *)
(* have come and gone: nothing makes it look at the chain again before the  *)
(* next block.                                                              *)
Stalled ==
  /\ dsp.pc = "wait" /\ ~tap /\ dsp.timer = "none"
  /\ view # <<>> /\ ~Canonical(Last(view))

(* Every block with enough confirmations is indexed in the end, in spite of *)
(* reorganisations, resets and restarts, unless the last block was lost to  *)
(* the listener or the dispatcher is stalled (readNextBlock, tapDispatcher). *)
AllIndexed ==
  (<>[](unseen = 0 /\ ~Stalled)) =>
  <>[](FromBlock + Len(indexed) > Number(head) - RequiredConfirmations)
=============================================================================
