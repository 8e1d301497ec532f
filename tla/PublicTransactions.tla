------------------------- MODULE PublicTransactions -------------------------
(***************************************************************************)
(* The public transaction manager (core/go/internal/publictxmgr) for one   *)
(* signing address: rows written to the database without a nonce, the      *)
(* orchestrator that allocates nonces and drives each in-flight            *)
(* transaction through gas price, signing and submission with one          *)
(* goroutine per step, updates of a transaction that is already in flight, *)
(* and the completion that the block indexer writes and then notifies.     *)
(*                                                                         *)
(* A signed transaction is identified by the row and the version of its    *)
(* content.  The signing address pays no gas (hasZeroGasPrice), so the     *)
(* balance never holds a submission back.  Timeouts are flags that the     *)
(* passing of time may set.  The in-flight list is in the order of the     *)
(* rows: it is the set of them.                                            *)
(***************************************************************************)
EXTENDS Integers, Sequences, FiniteSets, FiniteSetsExt

CONSTANTS MaxTx,         \* bound: rows written for the signing address
          MaxVersion,    \* bound: versions of a row's content
          Updatable,     \* the rows that a user may update
          MaxInFlight,   \* orchestrator.maxInFlightTxs
          Faults,        \* the faults that may happen
          MaxFaults      \* bound: how many of them in one behaviour

ASSUME BoundsAssumption ==
  /\ MaxTx \in Nat \ {0} /\ MaxVersion \in Nat \ {0}
  /\ MaxInFlight \in Nat \ {0} /\ MaxFaults \in Nat
  /\ Updatable \subseteq 1..MaxTx
  /\ Faults \subseteq {"action", "persist", "lostResponse", "drop", "swap", "restart"}

VARIABLES
  rows,      \* public_txns and public_submissions: what the database holds
  updating,  \* the rows whose UpdateTransaction has passed its completion check
  ptm,       \* pubTxManager: updates queued for the engine loop, confirmations to notify
  oc,        \* the orchestrator of the signing address
  mem,       \* the in-flight transactions: in-memory state and running stage
  stray,     \* goroutines of superseded generations that still have something to do
  chain,     \* the base ledger node: pool, mined transactions, blocks indexed
  faults     \* faults that have happened

vars == <<rows, updating, ptm, oc, mem, stray, chain, faults>>

Txs == 1..MaxTx
Versions == 1..MaxVersion
None == 0

Stages == {"none", "gas", "sign", "submit", "status"}

(* BaseTXUpdates: what a stage wants written once it has its result. *)
NoUpdates == [gas |-> "keep", hash |-> None, resetHash |-> FALSE,
              submission |-> None, lastSubmit |-> FALSE, confirmed |-> FALSE]

(* A freshly constructed in-flight transaction; the ephemeral state is     *)
(* recovered from the most recent persisted submission.                    *)
NewInMemoryTxStateManager(r) ==
  [ver |-> r.ver, gas |-> FALSE, hash |-> r.hash, lastSubmit |-> r.hash # None,
   confirmed |-> FALSE, newStatus |-> FALSE, update |-> None,
   stage |-> "none", run |-> "none", out |-> "none", result |-> "none",
   signed |-> None, errored |-> FALSE, elapsed |-> FALSE, tosave |-> NoUpdates]

NoMem == NewInMemoryTxStateManager([ver |-> 1, hash |-> None])

NoOrchestrator ==
  [state |-> "none", cancelled |-> FALSE, pc |-> "init", next |-> None,
   list |-> {}, polled |-> {}, todo |-> {}, changed |-> FALSE,
   updates |-> {}, quiet |-> FALSE]

Init ==
  /\ rows = [t \in Txs |-> [written |-> FALSE, ver |-> 1, nonce |-> None,
                            completed |-> FALSE, subs |-> <<>>]]
  /\ updating = {}
  /\ ptm = [updates |-> {}, confirms |-> {}]
  /\ oc = NoOrchestrator
  /\ mem = [t \in Txs |-> NoMem]
  /\ stray = {}
  /\ chain = [pool |-> {}, mined |-> <<>>, indexed |-> 0]
  /\ faults = 0

Fault(f) == f \in Faults /\ faults < MaxFaults /\ faults' = faults + 1

Live == oc.state \notin {"none", "stopped"}
InFlight(t) == Live /\ t \in oc.list

------------------------------------------------------------------------------
(* The database rows. *)

(* Rows are inserted without a nonce.  The post-commit notification only    *)
(* wakes a loop that also polls on a timer.                                 *)
WriteNewTransactions(t) ==
  /\ ~rows[t].written
  /\ \A s \in Txs : s < t => rows[s].written
  /\ rows' = [rows EXCEPT ![t].written = TRUE]
  /\ UNCHANGED <<updating, ptm, oc, mem, stray, chain, faults>>

CheckTransactionCompleted(t) ==
  /\ rows[t].written /\ ~rows[t].completed
  /\ rows[t].ver < MaxVersion /\ t \in Updatable \ updating
  /\ updating' = updating \cup {t}
  /\ UNCHANGED <<rows, ptm, oc, mem, stray, chain, faults>>

(* The new content is committed and queued for the engine loop under updateMux. *)
UpdateTransaction(t) ==
  /\ t \in updating
  /\ updating' = updating \ {t}
  /\ rows' = [rows EXCEPT ![t].ver = @ + 1]
  /\ ptm' = [ptm EXCEPT !.updates = @ \cup {<<t, rows[t].ver + 1>>}]
  /\ UNCHANGED <<oc, mem, stray, chain, faults>>

------------------------------------------------------------------------------
(* The engine loop. *)

\* A mutant: an update is applied to the list of the moment it is handed over.
EngineLoop_AppliesNow ==
  LET absent == oc.state \in {"none", "stopped"}
      toDo   == \E t \in Txs : rows[t].written /\ ~rows[t].completed
      vers(t) == {v \in Versions : <<t, v>> \in ptm.updates}
  IN /\ oc' = IF absent THEN [NoOrchestrator EXCEPT !.state = IF toDo THEN "new" ELSE "none"]
              ELSE oc
     /\ mem' = [t \in Txs |-> IF absent THEN NoMem
                             ELSE IF InFlight(t) /\ vers(t) # {}
                             THEN [mem[t] EXCEPT !.update = CHOOSE v \in vers(t) : TRUE]
                             ELSE mem[t]]
     /\ ptm' = [ptm EXCEPT !.updates = {}]
     /\ oc' # oc \/ ptm' # ptm
     /\ UNCHANGED <<rows, updating, stray, chain, faults>>

(* One iteration: queued updates are handed over, a stopped orchestrator is *)
(* dropped, and one is started when a row is left to do and the pool has    *)
(* none for the address.                                                    *)
EngineLoop ==
  LET absent == oc.state \in {"none", "stopped"}
      toDo   == \E t \in Txs : rows[t].written /\ ~rows[t].completed
  IN /\ oc' = IF absent THEN [NoOrchestrator EXCEPT !.state = IF toDo THEN "new" ELSE "none"]
              ELSE [oc EXCEPT !.updates = @ \cup ptm.updates]
     /\ mem' = IF absent THEN [t \in Txs |-> NoMem] ELSE mem
     /\ ptm' = [ptm EXCEPT !.updates = {}]
     /\ oc' # oc \/ ptm' # ptm
     /\ UNCHANGED <<rows, updating, stray, chain, faults>>

(* The engine loop stops an orchestrator that has been idle, or stale, for  *)
(* the whole of the timeout.                                                *)
StopTimedOut ==
  /\ Live /\ oc.state \in {"idle", "stale"} /\ ~oc.cancelled
  /\ oc' = [oc EXCEPT !.cancelled = TRUE]
  /\ UNCHANGED <<rows, updating, ptm, mem, stray, chain, faults>>

(* The pool is full and this orchestrator is the one swapped out. *)
SwapOut ==
  /\ Live /\ ~oc.cancelled
  /\ Fault("swap")
  /\ oc' = [oc EXCEPT !.cancelled = TRUE]
  /\ UNCHANGED <<rows, updating, ptm, mem, stray, chain>>

(* Nothing is under way for this transaction: it waits for the chain, or    *)
(* for a timeout.                                                           *)
Waiting(m) == m.run = "none" /\ ((m.out = "none" /\ m.stage = "none") \/ m.errored)

(* staleTimeout has passed since the queue last changed.  It is far longer  *)
(* than the goroutines of a stage take.                                     *)
QueueQuiet ==
  /\ Live /\ oc.list # {} /\ ~oc.quiet
  /\ \A t \in oc.list : Waiting(mem[t])
  /\ oc' = [oc EXCEPT !.quiet = TRUE]
  /\ UNCHANGED <<rows, updating, ptm, mem, stray, chain, faults>>

------------------------------------------------------------------------------
(* The orchestrator loop: nonces and the in-flight list. *)

Nonces == {rows[t].nonce : t \in Txs} \ {None}
HighestNonce(ts) ==
  LET ns == {rows[t].nonce : t \in ts}
  IN IF ns = {} THEN None ELSE Max(ns)

InitNextNonceFromDB ==
  /\ Live /\ oc.pc = "init" /\ ~oc.cancelled
  /\ oc' = [oc EXCEPT !.pc = "wait",
                      !.next = IF Nonces = {} THEN None ELSE HighestNonce(Txs) + 1]
  /\ UNCHANGED <<rows, updating, ptm, mem, stray, chain, faults>>

(* handleUpdates: an update reaches the in-flight transaction it is for;    *)
(* the rest are dropped, for a row polled later is read with its update.    *)
Updated ==
  [t \in Txs |->
     LET vs == {v \in Versions : <<t, v>> \in oc.updates}
     IN IF vs # {} /\ InFlight(t)
        THEN [mem[t] EXCEPT !.update = Max(vs)]
        ELSE mem[t]]

LastSubmission(t) == IF rows[t].subs = <<>> THEN None ELSE rows[t].subs[Len(rows[t].subs)]

(* The first n of a set of rows, in order of pub_txn_id. *)
FirstOf(ts, n) == {t \in ts : Cardinality({s \in ts : s < t}) < n}
Polled(t) == [tx |-> t, ver |-> rows[t].ver, hash |-> LastSubmission(t)]

\* A mutant: one transaction more than there are spaces.
Additional_OneMore(keep) ==
  LET found == {t \in Txs \ oc.list : rows[t].written /\ ~rows[t].completed}
  IN {Polled(t) : t \in FirstOf(found, MaxInFlight - Cardinality(keep) + 1)}

(* The query of pollAndProcess: uncompleted rows in order of pub_txn_id, at *)
(* most as many as there are spaces, skipping those already in flight by    *)
(* their nonce.                                                             *)
Additional(keep) ==
  LET above(t) == \/ keep = {}
                  \/ rows[t].nonce = None
                  \/ rows[t].nonce > HighestNonce(oc.list)
      found == {t \in Txs : rows[t].written /\ ~rows[t].completed /\ above(t)}
  IN {Polled(t) : t \in FirstOf(found, MaxInFlight - Cardinality(keep))}

(* The state the poll leaves the orchestrator in, and when it was entered. *)
NextState(o, quiet) ==
  CASE o.list = {} -> "idle"
    [] o.list # {} /\ quiet /\ o.state # "stale" -> "stale"
    [] OTHER -> "running"

(* The end of pollAndProcess, once every transaction has had its turn. *)
PollDone(o) ==
  IF o.todo # {} THEN o
  ELSE LET quiet == o.quiet /\ ~o.changed /\ o.list # {}
       IN [o EXCEPT !.pc = "wait", !.changed = FALSE, !.quiet = quiet,
                    !.state = NextState(o, quiet)]

(* A wake-up by timer or notification: updates, then the confirmed          *)
(* transactions leave the list and new rows are read.                       *)
PollQuery ==
  /\ Live /\ oc.pc = "wait"
  /\ LET keep == {t \in oc.list : ~mem[t].confirmed}
         add  == Additional(keep)
         o    == [oc EXCEPT !.updates = {}, !.list = keep, !.polled = add,
                            !.changed = keep # oc.list \/ add # {}]
     IN /\ oc.cancelled => Cardinality(keep) = MaxInFlight
        /\ oc' = IF add # {} THEN [o EXCEPT !.pc = "allocate"]
                 ELSE PollDone([o EXCEPT !.todo = keep, !.pc = "process"])
  /\ mem' = [t \in Txs |-> IF mem[t].confirmed THEN NoMem ELSE Updated[t]]
  /\ UNCHANGED <<rows, updating, ptm, stray, chain, faults>>

PolledTxs == {p.tx : p \in oc.polled}
PolledRow(t) == CHOOSE p \in oc.polled : p.tx = t

\* A mutant: nextNonce is left at the last nonce that was allocated.
AllocateNonces_LastAgain ==
  /\ Live /\ oc.pc = "allocate" /\ ~oc.cancelled
  /\ LET toAlloc == {t \in PolledTxs : rows[t].nonce = None}
         first   == IF oc.next = None THEN Len(chain.mined) + 1 ELSE oc.next
         nonce(t) == first + Cardinality({s \in toAlloc : s < t})
         list    == oc.list \cup PolledTxs
     IN /\ rows' = [t \in Txs |-> IF t \in toAlloc THEN [rows[t] EXCEPT !.nonce = nonce(t)]
                                  ELSE rows[t]]
        /\ oc' = [oc EXCEPT !.next = IF toAlloc = {} THEN @ ELSE first + Cardinality(toAlloc) - 1,
                            !.list = list, !.todo = list, !.polled = {}, !.pc = "process"]
        /\ mem' = [t \in Txs |-> IF t \in PolledTxs THEN NewInMemoryTxStateManager(PolledRow(t))
                                 ELSE mem[t]]
  /\ UNCHANGED <<updating, ptm, stray, chain, faults>>

(* allocateNonces: the nonces are in the database, in one transaction,      *)
(* before nextNonce moves on and before the list is published; an error is  *)
(* retried for as long as the orchestrator lives.                           *)
AllocateNonces ==
  /\ Live /\ oc.pc = "allocate" /\ ~oc.cancelled
  /\ LET toAlloc == {t \in PolledTxs : rows[t].nonce = None}
         first   == IF oc.next = None THEN Len(chain.mined) + 1 ELSE oc.next
         nonce(t) == first + Cardinality({s \in toAlloc : s < t})
         list    == oc.list \cup PolledTxs
     IN /\ rows' = [t \in Txs |-> IF t \in toAlloc THEN [rows[t] EXCEPT !.nonce = nonce(t)]
                                  ELSE rows[t]]
        /\ oc' = [oc EXCEPT !.next = IF toAlloc = {} THEN @ ELSE first + Cardinality(toAlloc),
                            !.list = list, !.todo = list, !.polled = {}, !.pc = "process"]
        /\ mem' = [t \in Txs |-> IF t \in PolledTxs THEN NewInMemoryTxStateManager(PolledRow(t))
                                 ELSE mem[t]]
  /\ UNCHANGED <<updating, ptm, stray, chain, faults>>

(* The orchestrator was stopped while it polled or allocated. *)
PollCancelled ==
  /\ Live /\ oc.cancelled /\ oc.pc \in {"init", "allocate"}
  /\ oc' = [oc EXCEPT !.polled = {}, !.pc = IF oc.pc = "init" THEN "exit" ELSE "wait"]
  /\ UNCHANGED <<rows, updating, ptm, mem, stray, chain, faults>>

------------------------------------------------------------------------------
(* ProduceLatestInFlightStageContext, for one in-flight transaction. *)

ApplyInMemoryUpdates(m, u) ==
  [m EXCEPT !.gas = (@ \/ u.gas = "set") /\ u.gas # "reset",
            !.hash = IF u.resetHash THEN None ELSE IF u.hash # None THEN u.hash ELSE @,
            !.lastSubmit = @ \/ u.lastSubmit,
            !.confirmed = @ \/ u.confirmed]

ClearRunningStageContext(m) ==
  [m EXCEPT !.stage = "none", !.out = "none", !.run = "none", !.errored = FALSE,
            !.elapsed = FALSE, !.result = "none", !.signed = None, !.tosave = NoUpdates]

(* TriggerNewStageRun: the stage's goroutine does not start once the        *)
(* orchestrator's context is cancelled.                                     *)
TriggerNewStageRun(m, stage) ==
  [ClearRunningStageContext(m) EXCEPT
     !.stage = stage,
     !.run = IF oc.cancelled THEN "none" ELSE IF stage = "status" THEN "persist" ELSE "action",
     !.signed = IF stage = "submit" THEN m.signed ELSE IF stage = "sign" THEN m.ver ELSE None,
     !.tosave = IF stage = "status" THEN [NoUpdates EXCEPT !.confirmed = TRUE] ELSE @]

TriggerPersistTxState(m) ==
  [m EXCEPT !.run = IF oc.cancelled THEN "none" ELSE "persist", !.out = "none", !.elapsed = FALSE]

(* NewGeneration: the content is replaced, gas price and hash are reset,    *)
(* and what the running stage was doing is left to its goroutine.           *)
NewGeneration(m) ==
  IF m.update = None THEN m
  ELSE ClearRunningStageContext([m EXCEPT !.ver = m.update, !.update = None,
                                          !.gas = FALSE, !.hash = None])

(* The updates a stage's result asks for. *)
StageUpdates(m, result) ==
  CASE m.stage = "gas" /\ result = "ok" ->
         [NoUpdates EXCEPT !.gas = "set", !.resetHash = TRUE]
    [] m.stage = "sign" /\ result = "ok" ->
         [NoUpdates EXCEPT !.submission = m.signed, !.hash = m.signed]
    [] m.stage = "submit" /\ result = "ok" ->
         [NoUpdates EXCEPT !.lastSubmit = TRUE, !.hash = IF m.hash = None THEN m.signed ELSE None]
    [] m.stage = "submit" /\ result = "underpriced" ->
         [NoUpdates EXCEPT !.lastSubmit = TRUE, !.gas = "reset"]
    [] m.stage = "submit" /\ result = "failed" ->
         [NoUpdates EXCEPT !.lastSubmit = TRUE]
    [] OTHER -> NoUpdates

(* What is done once the outcome of a stage has been saved. *)
StageSaved(m) ==
  CASE m.stage = "status" ->
         [ClearRunningStageContext(m) EXCEPT !.newStatus = @ /\ ~m.confirmed]
    [] m.stage # "status" /\ m.result # "ok" -> [m EXCEPT !.errored = TRUE, !.out = "none"]
    [] m.stage = "sign" /\ m.result = "ok" -> TriggerNewStageRun(m, "submit")
    [] OTHER -> ClearRunningStageContext(m)

\* A mutant: a signed transaction is submitted before it is recorded.
ProcessStageOutputs_SubmitFirst(m) ==
  LET n == CASE m.out = "none" -> m
             [] m.out = "saveFailed" -> IF m.elapsed THEN TriggerPersistTxState(m) ELSE m
             [] m.out = "saved" -> StageSaved(m)
             [] m.out = "ok" /\ m.stage = "sign" -> TriggerNewStageRun(m, "submit")
             [] OTHER -> TriggerPersistTxState(
                           [m EXCEPT !.result = m.out, !.tosave = StageUpdates(m, m.out)])
  IN IF n.errored /\ n.elapsed THEN ClearRunningStageContext(n) ELSE n

ProcessStageOutputs(m) ==
  LET n == CASE m.out = "none" -> m
             [] m.out = "saveFailed" -> IF m.elapsed THEN TriggerPersistTxState(m) ELSE m
             [] m.out = "saved" -> StageSaved(m)
             [] OTHER -> TriggerPersistTxState(
                           [m EXCEPT !.result = m.out, !.tosave = StageUpdates(m, m.out)])
  IN IF n.errored /\ n.elapsed THEN ClearRunningStageContext(n) ELSE n

\* A mutant: nothing is submitted again.
StartNewStage_NoResubmit(m) ==
  CASE m.newStatus /\ ~m.confirmed -> TriggerNewStageRun(m, "status")
    [] ~m.newStatus /\ ~m.confirmed /\ ~m.gas -> TriggerNewStageRun(m, "gas")
    [] ~m.newStatus /\ ~m.confirmed /\ m.gas /\ m.hash = None -> TriggerNewStageRun(m, "sign")
    [] OTHER -> m

StartNewStage(m) ==
  CASE m.newStatus /\ ~m.confirmed -> TriggerNewStageRun(m, "status")
    [] m.confirmed -> m
    [] ~m.newStatus /\ ~m.confirmed /\ ~m.gas -> TriggerNewStageRun(m, "gas")
    [] ~m.newStatus /\ ~m.confirmed /\ m.gas /\ m.hash = None ->
         TriggerNewStageRun(m, "sign")
    [] ~m.newStatus /\ ~m.confirmed /\ m.gas /\ m.hash # None /\ m.lastSubmit /\ m.elapsed ->
         TriggerNewStageRun(m, "gas")
    [] OTHER -> m

(* The goroutine a superseded generation leaves behind.  The result of a    *)
(* gas price or signing request ends in a buffer nobody reads any more;     *)
(* a submission, or the saving of a result, still has its effect.           *)
Abandoned(t) ==
  IF mem[t].update # None /\ (mem[t].run = "persist" \/ (mem[t].run = "action" /\ mem[t].stage = "submit"))
  THEN {[tx |-> t, run |-> mem[t].run, signed |-> mem[t].signed, tosave |-> mem[t].tosave]}
  ELSE {}

ProduceLatestInFlightStageContext ==
  /\ Live /\ oc.pc = "process"
  /\ LET t == Min(oc.todo)
         m == ProcessStageOutputs(NewGeneration(mem[t]))
     IN /\ mem' = [mem EXCEPT ![t] = IF m.stage = "none" THEN StartNewStage(m) ELSE m]
        /\ stray' = stray \cup Abandoned(t)
  /\ oc' = PollDone([oc EXCEPT !.todo = @ \ {Min(@)}])
  /\ UNCHANGED <<rows, updating, ptm, chain, faults>>

(* The loop sees that it was stopped ... *)
LoopCancelled ==
  /\ Live /\ oc.pc = "wait" /\ oc.cancelled
  /\ oc' = [oc EXCEPT !.pc = "exit"]
  /\ UNCHANGED <<rows, updating, ptm, mem, stray, chain, faults>>

Quiescent == stray = {} /\ \A t \in Txs : mem[t].run = "none"

\* A mutant: the orchestrator is stopped while goroutines are running.
LoopExit_NotAwaited ==
  /\ Live /\ oc.pc = "exit"
  /\ oc' = [oc EXCEPT !.state = "stopped"]
  /\ UNCHANGED <<rows, updating, ptm, mem, stray, chain, faults>>

(* ... and waits for the goroutines of its transactions before it is stopped. *)
LoopExit ==
  /\ Live /\ oc.pc = "exit" /\ Quiescent
  /\ oc' = [oc EXCEPT !.state = "stopped"]
  /\ UNCHANGED <<rows, updating, ptm, mem, stray, chain, faults>>

------------------------------------------------------------------------------
(* The goroutines started with executeAsync. *)

(* A running stage reports its result. *)
StageOutput(t, out) == mem' = [mem EXCEPT ![t].run = "none", ![t].out = out]

TriggerRetrieveGasPrice(t) ==
  /\ mem[t].run = "action" /\ mem[t].stage = "gas"
  /\ StageOutput(t, "ok")
  /\ UNCHANGED <<rows, updating, ptm, oc, stray, chain, faults>>

TriggerSignTx(t) ==
  /\ mem[t].run = "action" /\ mem[t].stage = "sign"
  /\ StageOutput(t, "ok")
  /\ UNCHANGED <<rows, updating, ptm, oc, stray, chain, faults>>

(* eth_sendRawTransaction: a nonce that is mined already and a transaction  *)
(* that is known are both fine; otherwise the transaction takes the place   *)
(* of whatever the pool holds for the nonce.                                *)
SendRawTransaction(t, v) ==
  chain' = IF rows[t].nonce <= Len(chain.mined) THEN chain
           ELSE [chain EXCEPT !.pool = {h \in @ : h.tx # t} \cup {[tx |-> t, ver |-> v]}]

TriggerSubmitTx(t) ==
  /\ mem[t].run = "action" /\ mem[t].stage = "submit"
  /\ SendRawTransaction(t, mem[t].signed)
  /\ StageOutput(t, "ok")
  /\ UNCHANGED <<rows, updating, ptm, oc, stray, faults>>

(* An error from the gas price source, the signer or the node; the node may *)
(* also find the submission underpriced.                                    *)
ActionFails(t) ==
  /\ mem[t].run = "action"
  /\ Fault("action")
  /\ \E out \in {"failed"} \cup IF mem[t].stage = "submit" THEN {"underpriced"} ELSE {} :
       StageOutput(t, out)
  /\ UNCHANGED <<rows, updating, ptm, oc, stray, chain>>

(* The node accepted the submission but the call returned an error. *)
SubmitResponseLost(t) ==
  /\ mem[t].run = "action" /\ mem[t].stage = "submit"
  /\ Fault("lostResponse")
  /\ SendRawTransaction(t, mem[t].signed)
  /\ StageOutput(t, "failed")
  /\ UNCHANGED <<rows, updating, ptm, oc, stray>>

(* The submission writer inserts by transaction hash, on conflict nothing.  *)
WriteSubmission(t, v) ==
  rows' = IF v = None \/ v \in Range(rows[t].subs) THEN rows
          ELSE [rows EXCEPT ![t].subs = Append(@, v)]

(* The new submission is flushed to the database, then the in-memory state  *)
(* is updated.                                                              *)
PersistTxState(t) ==
  /\ mem[t].run = "persist"
  /\ WriteSubmission(t, mem[t].tosave.submission)
  /\ mem' = [mem EXCEPT ![t] = [ApplyInMemoryUpdates(@, @.tosave) EXCEPT !.run = "none", !.out = "saved"]]
  /\ UNCHANGED <<updating, ptm, oc, stray, chain, faults>>

PersistFails(t) ==
  /\ mem[t].run = "persist"
  /\ Fault("persist")
  /\ StageOutput(t, "saveFailed")
  /\ UNCHANGED <<rows, updating, ptm, oc, stray, chain>>

(* The same for a goroutine of a superseded generation. *)
StrayPersists(g) ==
  /\ g \in stray /\ g.run = "persist"
  /\ WriteSubmission(g.tx, g.tosave.submission)
  /\ mem' = [mem EXCEPT ![g.tx] = ApplyInMemoryUpdates(@, g.tosave)]
  /\ stray' = stray \ {g}
  /\ UNCHANGED <<updating, ptm, oc, chain, faults>>

StraySubmits(g) ==
  /\ g \in stray /\ g.run = "action"
  /\ SendRawTransaction(g.tx, g.signed)
  /\ stray' = stray \ {g}
  /\ UNCHANGED <<rows, updating, ptm, oc, mem, faults>>

(* It finds its generation, or its orchestrator's context, cancelled. *)
StrayCancelled(g) ==
  /\ g \in stray /\ (g.run = "action" \/ oc.cancelled)
  /\ stray' = stray \ {g}
  /\ UNCHANGED <<rows, updating, ptm, oc, mem, chain, faults>>

(* A goroutine that finds the orchestrator's context cancelled does nothing. *)
ActionCancelled(t) ==
  /\ mem[t].run # "none" /\ oc.cancelled
  /\ StageOutput(t, "none")
  /\ UNCHANGED <<rows, updating, ptm, oc, stray, chain, faults>>

Tracking(m) ==
  m.stage = "none" /\ ~m.confirmed /\ ~m.newStatus /\ m.gas /\ m.hash # None /\ m.lastSubmit

(* The stage retry, persistence retry or resubmit interval passes. *)
Elapse(t) ==
  /\ InFlight(t) /\ ~mem[t].elapsed
  /\ mem[t].errored \/ mem[t].out = "saveFailed" \/ Tracking(mem[t])
  /\ mem' = [mem EXCEPT ![t].elapsed = TRUE]
  /\ UNCHANGED <<rows, updating, ptm, oc, stray, chain, faults>>

------------------------------------------------------------------------------
(* The base ledger and the block indexer. *)

Mine(h) ==
  /\ h \in chain.pool /\ rows[h.tx].nonce = Len(chain.mined) + 1
  /\ chain' = [chain EXCEPT !.pool = @ \ {h}, !.mined = Append(@, h)]
  /\ UNCHANGED <<rows, updating, ptm, oc, mem, stray, faults>>

(* The node forgets a transaction it had accepted. *)
NodeDrops(h) ==
  /\ h \in chain.pool
  /\ Fault("drop")
  /\ chain' = [chain EXCEPT !.pool = @ \ {h}]
  /\ UNCHANGED <<rows, updating, ptm, oc, mem, stray>>

(* A mined transaction is matched by hash with a recorded submission, and   *)
(* the completion is written in the block indexer's database transaction.   *)
MatchUpdateConfirmedTransactions ==
  /\ chain.indexed < Len(chain.mined)
  /\ chain' = [chain EXCEPT !.indexed = @ + 1]
  /\ LET h == chain.mined[chain.indexed + 1]
         matched == h.ver \in Range(rows[h.tx].subs)
     IN /\ rows' = IF matched THEN [rows EXCEPT ![h.tx].completed = TRUE] ELSE rows
        /\ ptm' = IF matched THEN [ptm EXCEPT !.confirms = @ \cup {h.tx}] ELSE ptm
  /\ UNCHANGED <<updating, oc, mem, stray, faults>>

(* After that commit the in-flight transaction, if there is one, is told. *)
NotifyConfirmPersisted(t) ==
  /\ t \in ptm.confirms
  /\ ptm' = [ptm EXCEPT !.confirms = @ \ {t}]
  /\ mem' = IF InFlight(t) /\ ~mem[t].confirmed THEN [mem EXCEPT ![t].newStatus = TRUE] ELSE mem
  /\ UNCHANGED <<rows, updating, oc, stray, chain, faults>>

(* The process stops and starts again: only the database is left. *)
Restart ==
  /\ Fault("restart")
  /\ oc' = NoOrchestrator
  /\ mem' = [t \in Txs |-> NoMem]
  /\ stray' = {} /\ updating' = {}
  /\ ptm' = [updates |-> {}, confirms |-> {}]
  /\ UNCHANGED <<rows, chain>>

------------------------------------------------------------------------------
Pool == {[tx |-> t, ver |-> v] : t \in Txs, v \in Versions}

Async ==
  \/ \E t \in Txs : TriggerRetrieveGasPrice(t) \/ TriggerSignTx(t) \/ TriggerSubmitTx(t)
  \/ \E t \in Txs : PersistTxState(t) \/ ActionCancelled(t)
  \/ \E g \in stray : StrayPersists(g) \/ StraySubmits(g) \/ StrayCancelled(g)

Failures ==
  \/ \E t \in Txs : ActionFails(t) \/ SubmitResponseLost(t) \/ PersistFails(t)
  \/ \E h \in Pool : NodeDrops(h)
  \/ SwapOut \/ Restart

Timers == StopTimedOut \/ QueueQuiet \/ \E t \in Txs : Elapse(t)

Loop ==
  \/ InitNextNonceFromDB \/ PollQuery \/ AllocateNonces \/ PollCancelled
  \/ ProduceLatestInFlightStageContext \/ LoopCancelled \/ LoopExit

Indexer ==
  \/ MatchUpdateConfirmedTransactions
  \/ \E t \in Txs : NotifyConfirmPersisted(t)

Next ==
  \/ \E t \in Txs : WriteNewTransactions(t) \/ CheckTransactionCompleted(t) \/ UpdateTransaction(t)
  \/ EngineLoop \/ Loop \/ Async \/ Failures \/ Timers \/ Indexer
  \/ \E h \in Pool : Mine(h)

Spec == Init /\ [][Next]_vars

(* The loops poll on a ticker, every goroutine ends, timeouts expire, the   *)
(* chain mines what its pool holds and the indexer follows it.  Between     *)
(* polling again and seeing the cancelled context the loop's select is      *)
(* fair in the strong sense.                                                *)
FairSpec ==
  /\ Spec
  /\ WF_vars(EngineLoop)
  /\ WF_vars(Loop)
  /\ SF_vars(LoopCancelled)
  /\ \A t \in Txs : /\ WF_vars(\/ TriggerRetrieveGasPrice(t) \/ TriggerSignTx(t) \/ TriggerSubmitTx(t)
                               \/ PersistTxState(t))
                    /\ WF_vars(Elapse(t))
                    /\ WF_vars(NotifyConfirmPersisted(t))
  /\ WF_vars(\E g \in stray : StrayPersists(g) \/ StraySubmits(g))
  /\ WF_vars(StopTimedOut) /\ WF_vars(QueueQuiet)
  /\ WF_vars(\E h \in Pool : Mine(h))
  /\ WF_vars(MatchUpdateConfirmedTransactions)
------------------------------------------------------------------------------
(* Every variable ranges over the values its code can give it. *)
TypeOK ==
  /\ \A t \in Txs :
       /\ rows[t].ver \in Versions /\ rows[t].nonce \in 0..MaxTx
       /\ Range(rows[t].subs) \subseteq Versions
       /\ mem[t].stage \in Stages /\ mem[t].run \in {"none", "action", "persist"}
       /\ mem[t].hash \in 0..MaxVersion /\ mem[t].ver \in Versions
  /\ oc.state \in {"none", "new", "running", "stale", "idle", "stopped"}
  /\ oc.list \subseteq Txs /\ Cardinality(oc.list) <= MaxInFlight
  /\ oc.pc = "allocate" => PolledTxs \subseteq Txs \ oc.list
  /\ chain.pool \subseteq Pool /\ Range(chain.mined) \subseteq Pool

(* Whatever reached the base ledger has a submission record, so that the    *)
(* block indexer can match it ("very important that we persist the          *)
(* transaction after SIGNING and before SUBMISSION"), whatever generations, *)
(* restarts and retries came in between.                                    *)
RecordedBeforeSubmitted ==
  \A h \in chain.pool \cup Range(chain.mined) : h.ver \in Range(rows[h.tx].subs)

(* The nonces in the database have no gap and no duplicate and follow the   *)
(* order of the rows, across orchestrators, failures and restarts.          *)
NoncesFollowRows ==
  \A t \in Txs : rows[t].nonce # None =>
    /\ rows[t].nonce = Cardinality({s \in Txs : s <= t /\ rows[s].nonce # None})
    /\ \A s \in Txs : s < t => rows[s].nonce # None

(* An update committed while the transaction is in flight is not lost: the  *)
(* in-memory content is the database's, or the update is on its way.        *)
UpdateNotLost ==
  \A t \in Txs : InFlight(t) =>
    \/ mem[t].ver = rows[t].ver
    \/ mem[t].update = rows[t].ver
    \/ <<t, rows[t].ver>> \in ptm.updates \cup oc.updates

(* A stopped orchestrator, which the engine may replace at any moment, has  *)
(* no goroutine left that could sign, submit or save for the same nonce.    *)
StoppedIsQuiescent == oc.state \in {"none", "stopped"} => Quiescent

(* A transaction that waits for the receipt of a hash nobody submitted and  *)
(* that has no submission time to resubmit from.                            *)
Stuck(t) ==
  /\ InFlight(t) /\ mem[t].stage = "none" /\ mem[t].gas /\ mem[t].hash # None
  /\ ~mem[t].lastSubmit

(* A transaction that was read before its completion was committed and      *)
(* joined the list after the notification of it: nothing takes it off the   *)
(* list any more.                                                           *)
Missed(t) ==
  InFlight(t) /\ rows[t].completed /\ t \notin ptm.confirms
              /\ ~mem[t].newStatus /\ ~mem[t].confirmed

(* Every row is completed in the end, whatever is lost, dropped, swapped    *)
(* out or restarted on the way, unless a transaction of the address gets    *)
(* stuck or keeps its place in flight for good.                             *)
Completes ==
  (<>[](\A t \in Txs : ~Stuck(t) /\ ~Missed(t))) =>
     \A t \in Txs : rows[t].written ~> rows[t].completed

(* "If we reach this point then we have a transaction hash recorded from    *)
(* our latest successful submission": a transaction that waits for its      *)
(* receipt has been submitted, so that the resubmit interval applies to it. *)
TrackedIsSubmitted == \A t \in Txs : ~Stuck(t)
=============================================================================
