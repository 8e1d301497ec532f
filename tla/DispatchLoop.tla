---------------------------- MODULE DispatchLoop ----------------------------
(***************************************************************************)
(* The dispatch of prepared transactions by one coordinator.               *)
(*                                                                         *)
(* Two goroutines share the coordinator: its event loop, which prepares    *)
(* transactions, queues the prepared dispatches, applies confirmations,    *)
(* dependency resets, epoch boundaries and step-downs; and the dispatch    *)
(* loop, which takes the queued dispatches, waits for dispatch-ahead       *)
(* capacity, moves each transaction to Dispatched and persists the batch.  *)
(*                                                                         *)
(* A transaction is seen from State_Preparing on: "Pooled" stands for every *)
(* state in which it has still to be assembled, endorsed and approved (the *)
(* module CoordinatorTransaction opens it up).                             *)
(***************************************************************************)
EXTENDS Integers, Sequences, FiniteSets, Functions

CONSTANTS
    Txs,                   \* the private transactions delegated to the coordinator
    PublicTxs,             \* those whose dispatch is a public transaction
    Spends,                \* <<t, u>>: assembled, t consumes a state u creates
    Chained,               \* <<t, u>>: t was submitted as dependent on u
    MaxInflight,           \* maxInflightTransactions: capacity of dispatchQueue
    MaxDispatchAhead,      \* maxDispatchAhead
    DispatchMaxBatchSize,  \* dispatchMaxBatchSize
    MaxPrepares,           \* bound: prepare attempts of one transaction
    MaxKeys                \* bound: signing identities the coordinator creates

ASSUME TxsAssumption == IsFiniteSet(Txs) /\ PublicTxs \subseteq Txs
ASSUME DependenciesAssumption ==
    Spends \subseteq Txs \X Txs /\ Chained \subseteq Txs \X Txs
ASSUME LimitsAssumption ==
    /\ MaxInflight \in Nat \ {0}
    /\ MaxDispatchAhead \in Nat \ {0}
    /\ DispatchMaxBatchSize \in Nat \ {0}
    /\ MaxPrepares \in Nat
    /\ MaxKeys \in Nat \ {0}
\* The coordinator holds at most maxInflightTransactions transactions.
ASSUME InflightAssumption == Cardinality(Txs) <= MaxInflight

VARIABLES
    coordinatorState,   \* the coordinator state machine, seen from here
    key,                \* signingIdentity.value, as the number of the identity
    used,               \* signingIdentity.used
    txState,            \* current state of each transaction
    signer,             \* pt.Signer: 0 is "", otherwise a signing identity
    prepareID,          \* inFlightPrepareID: 0 is uuid.Nil
    prepares,           \* prepare attempts started so far, per transaction
    running,            \* <<tx, id>> of the prepares whose result is awaited
    minters,            \* grapher: the transactions whose output states it knows
    links,              \* post-assembly dependency chain, as <<t, u>>: t needs u
    cascade,            \* calls of the event under way, innermost first
    eventLoop,          \* what the event loop is blocked in, "idle" if nothing
    enqueuing,          \* the dispatches enqueueForDispatch is blocked on
    dispatchQueue,      \* the dispatchQueue channel
    enqueued,           \* number of dispatches ever queued
    loop,               \* where the dispatch loop is
    cancelled,          \* the dispatch loop's context has been cancelled
    batch,              \* dispatches the dispatch loop took off the queue
    accepted,           \* the DispatchBatch being built and persisted
    inFlightTxns,       \* transactions occupying a dispatch-ahead slot
    persisted,          \* dispatches in the database, in insertion order
    resolved,           \* positions of persisted whose outcome was delivered
    handedOff,          \* dispatches whose chained children were submitted
    leftDispatched,     \* a queued state transition event out of Dispatched
    restartQueued       \* a queued RestartDispatchLoopEvent

coordVars == <<coordinatorState, key, used>>
txVars == <<txState, signer, prepareID, prepares, running>>
depVars == <<minters, links, cascade>>
queueVars == <<eventLoop, enqueuing, dispatchQueue, enqueued>>
loopVars == <<loop, cancelled, batch, accepted>>
ledgerVars == <<persisted, resolved, handedOff>>
eventVars == <<leftDispatched, restartQueued>>
vars == <<coordVars, txVars, depVars, queueVars, loopVars, inFlightTxns,
          ledgerVars, eventVars>>

CoordinatorStates == {"Active", "Active_Flush", "Closing"}
TxStates == {"Pooled", "Preparing", "Ready_For_Dispatch", "Dispatched",
             "Confirmed", "Reverted"}
ReadyStates == {"Ready_For_Dispatch", "Dispatched", "Confirmed"}
EventLoopStates == {"idle", "cascade", "enqueue", "stop_epoch", "stop_stepdown"}
LoopStates == {"stopped", "select", "await", "waiting", "handle", "check",
               "persist", "children"}

\* A prepared dispatch: the attempt that built it, the identity it will be
\* signed with, its position in the order of queueing, and the unconfirmed
\* dispatches of the transactions it depends on.
QueuedDispatches ==
    [tx : Txs, id : Nat, signer : Nat, n : Nat, deps : SUBSET (Txs \X Nat)]

\* An event handler of transaction tx, holding its lock, that has yet to tell
\* the transactions in todo of its reset or failure; leaving: it then clears
\* the dispatch-ahead slot on the way out of State_Dispatched.
Frames == [tx : Txs, kind : {"reset", "failed"}, todo : SUBSET Txs,
           leaving : BOOLEAN]

\* The first k elements of a sequence, or all of them, and what remains.
Front(s, k) == SubSeq(s, 1, IF k < Len(s) THEN k ELSE Len(s))
Rest(s, k) == SubSeq(s, (IF k < Len(s) THEN k ELSE Len(s)) + 1, Len(s))
Smaller(a, b) == IF a < b THEN a ELSE b

-----------------------------------------------------------------------------
\* guard_HasUnconfirmedDispatchedTransactions
HasUnconfirmedDispatched == \E t \in Txs : txState[t] = "Dispatched"

\* guard_MustFlushToRotateSigningIdentity
MustFlush == used /\ HasUnconfirmedDispatched

\* action_NewSigningIdentity
NewSigningIdentity == key' = key + 1 /\ used' = FALSE

\* startDispatchLoop: a no-op while a loop is running.
StartDispatchLoop ==
    IF loop = "stopped"
    THEN /\ loop' = "select"
         /\ cancelled' = FALSE
         /\ UNCHANGED <<batch, accepted>>
    ELSE UNCHANGED loopVars

\* setDispatchedInFlight(tx, false), on leaving Dispatched, together with the
\* TransactionStateTransitionEvent queued for the coordinator.
LeaveDispatched_SlotKept(t) ==
    /\ UNCHANGED inFlightTxns
    /\ leftDispatched' = TRUE
LeaveDispatched(t) ==
    /\ inFlightTxns' = inFlightTxns \ {t}
    /\ leftDispatched' = TRUE

\* GetDependents of the chained and of the post-assembly dependency chain.
ChainedDependents(t) == {u \in Txs : <<u, t>> \in Chained}
Dependents(t) == {u \in Txs : <<u, t>> \in links \cup Chained}

\* The states t would consume bind it to the transactions that mint them.
SpentFrom(t) == {u \in minters : <<t, u>> \in Spends}
Prerequisites(t) == {u \in Txs : <<t, u>> \in links \cup Chained}

\* ForgetTransaction(AndLocks): the grapher drops the transactions in S.
Forget(S) ==
    /\ minters' = minters \ S
    /\ links' = {l \in links : l[1] \notin S /\ l[2] \notin S}

\* notifyDependentsOfReset, notifyDependentsOfRevertedConfirmation and
\* action_CascadeChainedDependencyFailure.
Notify(t, kind, todo, leaving) ==
    [tx |-> t, kind |-> kind, todo |-> todo, leaving |-> leaving]

\* The calls under way, once the innermost has turned to dependent t.
Told(t) == <<[cascade[1] EXCEPT !.todo = @ \ {t}]>> \o Tail(cascade)

\* The lock of a transaction is held by the handlers of the current event.
Locked_NotWhileNotifying(t) == \E i \in DOMAIN enqueuing : enqueuing[i].tx = t
Locked(t) ==
    \/ \E i \in DOMAIN enqueuing : enqueuing[i].tx = t
    \/ \E i \in DOMAIN cascade : cascade[i].tx = t

Init ==
    /\ coordinatorState = "Active"
    /\ key = 1
    /\ used = FALSE
    /\ txState = [t \in Txs |-> "Pooled"]
    /\ signer = [t \in Txs |-> 0]
    /\ prepareID = [t \in Txs |-> 0]
    /\ prepares = [t \in Txs |-> 0]
    /\ running = {}
    /\ minters = {}
    /\ links = {}
    /\ cascade = <<>>
    /\ eventLoop = "idle"
    /\ enqueuing = <<>>
    /\ dispatchQueue = <<>>
    /\ enqueued = 0
    /\ loop = "select"
    /\ cancelled = FALSE
    /\ batch = <<>>
    /\ accepted = <<>>
    /\ inFlightTxns = {}
    /\ persisted = <<>>
    /\ resolved = {}
    /\ handedOff = {}
    /\ leftDispatched = FALSE
    /\ restartQueued = FALSE

-----------------------------------------------------------------------------
(* The coordinator event loop.  Each action runs to completion unless it    *)
(* blocks: on a full dispatch queue, or waiting for the dispatch loop.      *)

\* The event loop takes an event off its main queue once it is idle and has
\* drained the priority queue of the transitions out of Dispatched and of the
\* restart of the dispatch loop.
MainEvent == eventLoop = "idle" /\ ~leftDispatched /\ ~restartQueued

\* The transaction has been assembled, endorsed and approved for dispatch and
\* enters State_Preparing, which it may only do once the transactions it turned
\* out to depend on are ready.  It is given a signing identity, unless it kept
\* one from an earlier attempt, and a prepare goroutine starts under a fresh ID.
StartPrepare(t) ==
    /\ MainEvent
    /\ coordinatorState \in {"Active", "Active_Flush"}
    /\ txState[t] = "Pooled"
    /\ \A u \in SpentFrom(t) \cup Prerequisites(t) : txState[u] \in ReadyStates
    /\ prepares[t] < MaxPrepares
    /\ txState' = [txState EXCEPT ![t] = "Preparing"]
    /\ IF signer[t] = 0
       THEN signer' = [signer EXCEPT ![t] = key] /\ used' = TRUE
       ELSE UNCHANGED <<signer, used>>
    /\ prepares' = [prepares EXCEPT ![t] = @ + 1]
    /\ prepareID' = [prepareID EXCEPT ![t] = prepares[t] + 1]
    /\ running' = running \cup {<<t, prepares[t] + 1>>}
    /\ minters' = minters \cup {t}
    /\ links' = links \cup ({t} \X SpentFrom(t))
    /\ UNCHANGED <<coordinatorState, key, cascade, queueVars, loopVars, inFlightTxns,
                   ledgerVars, eventVars>>

\* The dispatchQueue channel has no room.
QueueFull_OffByOne == Len(dispatchQueue) > MaxInflight
QueueFull == Len(dispatchQueue) >= MaxInflight

\* The dispatch built by attempt id of transaction t.
PreparedDispatch(t, id) ==
    [tx |-> t, id |-> id, signer |-> signer[t], n |-> enqueued + 1,
     deps |-> {<<u, prepares[u]>> :
                 u \in {u \in Prerequisites(t) : txState[u] # "Confirmed"}}]

\* enqueueForDispatch succeeds: the dispatch is on the queue and the
\* transaction moves to Ready_For_Dispatch, forgetting the prepare ID.
Enqueue(qd) ==
    /\ dispatchQueue' = Append(dispatchQueue, qd)
    /\ enqueued' = enqueued + 1
    /\ txState' = [txState EXCEPT ![qd.tx] = "Ready_For_Dispatch"]
    /\ prepareID' = [prepareID EXCEPT ![qd.tx] = 0]

\* Event_PrepareSucceeded: the result of the current attempt is queued, which
\* blocks the event loop while the queue is full; a superseded one is dropped.
PrepareSucceeded(t, id) ==
    /\ eventLoop = "idle"
    /\ <<t, id>> \in running
    /\ running' = running \ {<<t, id>>}
    /\ IF txState[t] = "Preparing" /\ id = prepareID[t]
       THEN IF ~QueueFull
            THEN /\ Enqueue(PreparedDispatch(t, id))
                 /\ UNCHANGED <<eventLoop, enqueuing>>
            ELSE /\ eventLoop' = "enqueue"
                 /\ enqueuing' = <<PreparedDispatch(t, id)>>
                 /\ UNCHANGED <<dispatchQueue, enqueued, txState, prepareID>>
       ELSE UNCHANGED <<queueVars, txState, prepareID>>
    /\ UNCHANGED <<coordVars, signer, prepares, depVars, loopVars, inFlightTxns,
                   ledgerVars, eventVars>>

\* The blocked enqueueForDispatch finds room.
EnqueueUnblocked ==
    /\ eventLoop = "enqueue"
    /\ ~QueueFull
    /\ Enqueue(enqueuing[1])
    /\ eventLoop' = "idle"
    /\ enqueuing' = <<>>
    /\ UNCHANGED <<coordVars, signer, prepares, running, depVars, loopVars,
                   inFlightTxns, ledgerVars, eventVars>>

\* Event_PrepareFailed: the retries of the current attempt are exhausted and
\* the transaction is repooled.
PrepareFailed(t, id) ==
    /\ eventLoop = "idle"
    /\ <<t, id>> \in running
    /\ running' = running \ {<<t, id>>}
    /\ IF txState[t] = "Preparing" /\ id = prepareID[t]
       THEN /\ txState' = [txState EXCEPT ![t] = "Pooled"]
            /\ prepareID' = [prepareID EXCEPT ![t] = 0]
            /\ eventLoop' = "cascade"
            /\ cascade' = <<Notify(t, "reset", Dependents(t), FALSE)>>
       ELSE UNCHANGED <<txState, prepareID, eventLoop, cascade>>
    /\ UNCHANGED <<coordVars, signer, prepares, minters, links, enqueuing,
                   dispatchQueue, enqueued, loopVars, inFlightTxns, ledgerVars,
                   eventVars>>

\* Event_DependencyReset or Event_DependencyConfirmedReverted.  Before it is
\* dispatched the transaction goes back to be assembled again: leaving Preparing
\* cancels the prepare, but a dispatch already queued stays queued.  Once
\* dispatched it stays so and forgets its locks.  Either way it tells its own
\* dependents.
DependencyReset(t) ==
    /\ eventLoop = "cascade"
    /\ cascade[1].kind = "reset"
    /\ t \in cascade[1].todo
    /\ \/ /\ txState[t] \in {"Preparing", "Ready_For_Dispatch"}
          /\ txState' = [txState EXCEPT ![t] = "Pooled"]
          /\ prepareID' = [prepareID EXCEPT ![t] = 0]
          /\ cascade' = <<Notify(t, "reset", Dependents(t), FALSE)>> \o Told(t)
          /\ UNCHANGED <<minters, links>>
       \/ /\ txState[t] = "Dispatched"
          /\ Forget({t})
          /\ cascade' = <<Notify(t, "reset", ChainedDependents(t), FALSE)>>
                           \o Told(t)
          /\ UNCHANGED <<txState, prepareID>>
       \/ /\ txState[t] \in {"Pooled", "Confirmed", "Reverted"}
          /\ cascade' = Told(t)
          /\ UNCHANGED <<txState, prepareID, minters, links>>
    /\ UNCHANGED <<coordVars, signer, prepares, running, queueVars, loopVars,
                   inFlightTxns, ledgerVars, eventVars>>

\* Event_ChainedDependencyFailed: the transaction is reverted, dispatched or
\* not, if it is in memory, and its own chained dependents with it.
ChainedDependencyFailed(t) ==
    /\ eventLoop = "cascade"
    /\ cascade[1].kind = "failed"
    /\ t \in cascade[1].todo
    /\ IF txState[t] \in {"Confirmed", "Reverted"}
          \/ (txState[t] = "Pooled" /\ coordinatorState = "Closing")
       THEN /\ cascade' = Told(t)
            /\ UNCHANGED <<txState, prepareID, minters, links>>
       ELSE /\ txState' = [txState EXCEPT ![t] = "Reverted"]
            /\ prepareID' = [prepareID EXCEPT ![t] = 0]
            /\ Forget({t})
            /\ cascade' = <<Notify(t, "failed", ChainedDependents(t), FALSE)>>
                             \o Told(t)
    /\ IF txState[t] = "Dispatched"
       THEN LeaveDispatched(t)
       ELSE UNCHANGED <<inFlightTxns, leftDispatched>>
    /\ UNCHANGED <<coordVars, signer, prepares, running, queueVars, loopVars,
                   ledgerVars, restartQueued>>

\* The innermost handler has told all its dependents: a reset transaction
\* leaves the grapher, and one that was dispatched frees its slot.
HandlerReturns ==
    /\ eventLoop = "cascade"
    /\ cascade[1].todo = {}
    /\ cascade' = Tail(cascade)
    /\ eventLoop' = IF Len(cascade) = 1 THEN "idle" ELSE "cascade"
    /\ IF cascade[1].kind = "reset"
       THEN Forget({cascade[1].tx})
       ELSE UNCHANGED <<minters, links>>
    /\ IF cascade[1].leaving
       THEN LeaveDispatched(cascade[1].tx)
       ELSE UNCHANGED <<inFlightTxns, leftDispatched>>
    /\ UNCHANGED <<coordVars, txVars, enqueuing, dispatchQueue, enqueued,
                   loopVars, ledgerVars, restartQueued>>

\* The outcome of the persisted dispatch i reaches the coordinator.  The base
\* ledger orders the public transactions of one signing identity by nonce.
OutcomeDelivered(i) ==
    /\ MainEvent
    /\ i \in DOMAIN persisted \ resolved
    /\ \A j \in 1 .. i - 1 :
          \/ j \in resolved
          \/ persisted[j].signer # persisted[i].signer
          \/ persisted[i].tx \notin PublicTxs
    /\ resolved' = resolved \cup {i}
    /\ UNCHANGED <<coordVars, prepares, prepareID, running, enqueuing,
                   dispatchQueue, enqueued, loopVars, persisted, handedOff,
                   restartQueued>>

\* Event_ConfirmedSuccess, handled in State_Dispatched only.
ConfirmedSuccess(i) ==
    /\ OutcomeDelivered(i)
    /\ LET t == persisted[i].tx IN
       IF txState[t] = "Dispatched"
       THEN /\ txState' = [txState EXCEPT ![t] = "Confirmed"]
            /\ Forget({t})
            /\ LeaveDispatched(t)
       ELSE UNCHANGED <<txState, minters, links, inFlightTxns, leftDispatched>>
    /\ UNCHANGED <<signer, cascade, eventLoop>>

\* Event_ConfirmedReverted with a retryable reason: the transaction is
\* repooled, or removed from memory by a coordinator that is closing.
ConfirmedRevertedRetry(i) ==
    /\ OutcomeDelivered(i)
    /\ LET t == persisted[i].tx IN
       IF txState[t] = "Dispatched"
       THEN /\ txState' = [txState EXCEPT ![t] = "Pooled"]
            /\ signer' = IF coordinatorState = "Closing"
                         THEN [signer EXCEPT ![t] = 0] ELSE signer
            /\ cascade' = <<Notify(t, "reset", Dependents(t), TRUE)>>
            /\ eventLoop' = "cascade"
       ELSE UNCHANGED <<txState, signer, cascade, eventLoop>>
    /\ UNCHANGED <<minters, links, inFlightTxns, leftDispatched>>

\* Event_ConfirmedReverted with a reason that is not retryable: the grapher
\* forgets the transaction first, so that only its chained dependents are told
\* of the revert, and then of the failure.
ConfirmedRevertedFinal(i) ==
    /\ OutcomeDelivered(i)
    /\ LET t == persisted[i].tx IN
       IF txState[t] = "Dispatched"
       THEN /\ txState' = [txState EXCEPT ![t] = "Reverted"]
            /\ Forget({t})
            /\ cascade' = <<Notify(t, "reset", ChainedDependents(t), TRUE),
                            Notify(t, "failed", ChainedDependents(t), FALSE)>>
            /\ eventLoop' = "cascade"
       ELSE UNCHANGED <<txState, minters, links, cascade, eventLoop>>
    /\ UNCHANGED <<signer, inFlightTxns, leftDispatched>>

\* Event_TransactionStateTransition from Dispatched: a flush that has drained
\* the dispatched transactions re-enters Active with a new identity.
DispatchedTransition ==
    /\ eventLoop = "idle"
    /\ leftDispatched
    /\ leftDispatched' = FALSE
    /\ IF coordinatorState = "Active_Flush" /\ ~HasUnconfirmedDispatched
       THEN /\ coordinatorState' = "Active"
            /\ NewSigningIdentity
            /\ StartDispatchLoop
       ELSE UNCHANGED <<coordVars, loopVars>>
    /\ UNCHANGED <<txVars, depVars, queueVars, inFlightTxns, ledgerVars, restartQueued>>

\* stopDispatchLoop: cancel the loop's context, then wait until it is done.
StopDispatchLoop(reason) ==
    /\ eventLoop' = reason
    /\ cancelled' = TRUE
    /\ UNCHANGED <<enqueuing, dispatchQueue, enqueued, loop, batch, accepted>>

\* <-c.dispatchLoopDone
DispatchLoopDone_NotAwaited == TRUE
DispatchLoopDone == loop = "stopped"

\* Event_EpochBoundaryReached in State_Active: it is a priority event, queued
\* behind those that were already there.
EpochBoundaryReached ==
    /\ MainEvent
    /\ coordinatorState = "Active"
    /\ key < MaxKeys
    /\ StopDispatchLoop("stop_epoch")
    /\ UNCHANGED <<coordVars, txVars, depVars, inFlightTxns, ledgerVars, eventVars>>

\* The rest of the handler: flush before rotating the signing identity, or
\* rotate in place and queue the restart of the dispatch loop.
EpochRotate ==
    /\ eventLoop = "stop_epoch"
    /\ DispatchLoopDone
    /\ eventLoop' = "idle"
    /\ IF MustFlush
       THEN /\ coordinatorState' = "Active_Flush"
            /\ UNCHANGED <<key, used, restartQueued>>
       ELSE /\ NewSigningIdentity
            /\ restartQueued' = TRUE
            /\ UNCHANGED coordinatorState
    /\ UNCHANGED <<txVars, depVars, enqueuing, dispatchQueue, enqueued, loopVars,
                   inFlightTxns, ledgerVars, leftDispatched>>

\* Event_RestartDispatchLoop, handled in State_Active only.
RestartDispatchLoop ==
    /\ eventLoop = "idle"
    /\ restartQueued
    /\ restartQueued' = FALSE
    /\ IF coordinatorState = "Active"
       THEN StartDispatchLoop
       ELSE UNCHANGED loopVars
    /\ UNCHANGED <<coordVars, txVars, depVars, queueVars, inFlightTxns, ledgerVars,
                   leftDispatched>>

\* A live coordinator of higher priority is heard of: stop dispatching.
StepDown ==
    /\ MainEvent
    /\ coordinatorState \in {"Active", "Active_Flush"}
    /\ key < MaxKeys
    /\ StopDispatchLoop("stop_stepdown")
    /\ UNCHANGED <<coordVars, txVars, depVars, inFlightTxns, ledgerVars, eventVars>>

\* The rest of the step-down: action_CleanUpTransactionsNotYetDispatched
\* removes every transaction not yet dispatched, and drains the queue.
CleanUpTransactionsNotYetDispatched ==
    /\ eventLoop = "stop_stepdown"
    /\ DispatchLoopDone
    /\ eventLoop' = "idle"
    /\ coordinatorState' = "Closing"
    /\ LET kept == {t \in Txs :
                      txState[t] \in {"Dispatched", "Confirmed", "Reverted"}}
       IN /\ txState' = [t \in Txs |->
                           IF t \in kept THEN txState[t] ELSE "Pooled"]
          /\ signer' = [t \in Txs |-> IF t \in kept THEN signer[t] ELSE 0]
          /\ prepareID' = [t \in Txs |-> IF t \in kept THEN prepareID[t] ELSE 0]
          /\ Forget(Txs \ kept)
    /\ dispatchQueue' = <<>>
    /\ UNCHANGED <<key, used, prepares, running, cascade, enqueuing, enqueued,
                   loopVars, inFlightTxns, ledgerVars, eventVars>>

\* The coordinator is elected again and enters State_Active.
BecomeActive ==
    /\ MainEvent
    /\ coordinatorState = "Closing"
    /\ coordinatorState' = "Active"
    /\ NewSigningIdentity
    /\ StartDispatchLoop
    /\ UNCHANGED <<txVars, depVars, queueVars, inFlightTxns, ledgerVars, eventVars>>

-----------------------------------------------------------------------------
(* The dispatch loop.  Where both of its select cases are ready (a queued   *)
(* dispatch and a cancelled context) Go takes either.                       *)

\* case qd := <-c.dispatchQueue
TakeFirst ==
    /\ loop = "select"
    /\ dispatchQueue # <<>>
    /\ batch' = <<Head(dispatchQueue)>>
    /\ dispatchQueue' = Tail(dispatchQueue)
    /\ loop' = "await"
    /\ UNCHANGED <<coordVars, txVars, depVars, eventLoop, enqueuing, enqueued, cancelled,
                   accepted, inFlightTxns, ledgerVars, eventVars>>

\* case <-ctx.Done()
StopAtSelect ==
    /\ loop = "select"
    /\ cancelled
    /\ loop' = "stopped"
    /\ UNCHANGED <<coordVars, txVars, depVars, queueVars, cancelled, batch, accepted,
                   inFlightTxns, ledgerVars, eventVars>>

\* The free dispatch-ahead slots, capped to the batch size.
Capacity_BatchSizeOnly == DispatchMaxBatchSize
Capacity ==
    Smaller(MaxDispatchAhead - Cardinality(inFlightTxns), DispatchMaxBatchSize)

\* awaitDispatchAheadCapacity returns the free slots and pullDispatchBatch
\* takes the dispatches that are waiting, up to that many in all.
PullDispatchBatch ==
    /\ Cardinality(inFlightTxns) < MaxDispatchAhead
    /\ batch' = batch \o Front(dispatchQueue, Capacity - 1)
    /\ dispatchQueue' = Rest(dispatchQueue, Capacity - 1)
    /\ loop' = "handle"
    /\ UNCHANGED <<coordVars, txVars, depVars, eventLoop, enqueuing, enqueued, cancelled,
                   accepted, inFlightTxns, ledgerVars, eventVars>>

\* The first check finds a free slot, cancelled or not.
CapacityFree == loop = "await" /\ PullDispatchBatch

\* The first check finds no free slot: cond.Wait.
CapacityExhausted ==
    /\ loop = "await"
    /\ Cardinality(inFlightTxns) >= MaxDispatchAhead
    /\ loop' = "waiting"
    /\ UNCHANGED <<coordVars, txVars, depVars, queueVars, cancelled, batch, accepted,
                   inFlightTxns, ledgerVars, eventVars>>

\* A wait is signalled by a freed slot.
CapacityFreed_NoSignal == FALSE
CapacityFreed == loop = "waiting" /\ ~cancelled /\ PullDispatchBatch

\* The wait is woken by stopDispatchLoop: the loop returns, and with it goes
\* the dispatch it had taken off the queue.
StopWhileWaiting_NoBroadcast ==
    /\ loop = "waiting"
    /\ cancelled
    /\ PullDispatchBatch
StopWhileWaiting_Requeued ==
    /\ loop = "waiting"
    /\ cancelled
    /\ loop' = "stopped"
    /\ batch' = <<>>
    /\ dispatchQueue' = IF QueueFull THEN dispatchQueue
                        ELSE Append(dispatchQueue, batch[1])
    /\ UNCHANGED <<coordVars, txVars, depVars, eventLoop, enqueuing, enqueued,
                   cancelled, accepted, inFlightTxns, ledgerVars, eventVars>>
StopWhileWaiting ==
    /\ loop = "waiting"
    /\ cancelled
    /\ loop' = "stopped"
    /\ batch' = <<>>
    /\ UNCHANGED <<coordVars, txVars, depVars, queueVars, cancelled, accepted,
                   inFlightTxns, ledgerVars, eventVars>>

\* HandleEvent(Event_Dispatched), under the transaction's lock: it takes
\* effect in State_Ready_For_Dispatch and is dropped in every other state.
HandleDispatched ==
    /\ loop = "handle"
    /\ LET t == batch[1].tx IN
       /\ ~Locked(t)
       /\ IF txState[t] = "Ready_For_Dispatch"
          THEN /\ txState' = [txState EXCEPT ![t] = "Dispatched"]
               /\ inFlightTxns' = IF t \in PublicTxs
                                  THEN inFlightTxns \cup {t} ELSE inFlightTxns
          ELSE UNCHANGED <<txState, inFlightTxns>>
    /\ loop' = "check"
    /\ UNCHANGED <<coordVars, signer, prepareID, prepares, running, depVars,
                   queueVars, cancelled, batch, accepted, ledgerVars, eventVars>>

\* GetCurrentState: the dispatch joins the batch if its transaction is now in
\* State_Dispatched.
CheckDispatched ==
    /\ loop = "check"
    /\ accepted' = IF txState[batch[1].tx] = "Dispatched"
                   THEN Append(accepted, batch[1]) ELSE accepted
    /\ batch' = Tail(batch)
    /\ loop' = IF Len(batch) = 1 THEN "persist" ELSE "handle"
    /\ UNCHANGED <<coordVars, txVars, depVars, queueVars, cancelled, inFlightTxns,
                   ledgerVars, eventVars>>

\* PersistDispatchBatch commits the batch in one database transaction.  A
\* failed commit is retried, so without a cancellation it changes nothing.
PersistDispatchBatch ==
    /\ loop = "persist"
    /\ persisted' = persisted \o accepted
    /\ loop' = "children"
    /\ UNCHANGED <<coordVars, txVars, depVars, queueVars, cancelled, batch, accepted,
                   inFlightTxns, resolved, handedOff, eventVars>>

\* A commit fails and the retry delay ends with the cancelled context.
PersistAbandoned_NoReturn ==
    /\ loop = "persist"
    /\ cancelled
    /\ loop' = "children"
    /\ UNCHANGED <<coordVars, txVars, depVars, queueVars, cancelled, batch,
                   accepted, inFlightTxns, ledgerVars, eventVars>>
PersistAbandoned ==
    /\ loop = "persist"
    /\ cancelled
    /\ accepted' = <<>>
    /\ loop' = "select"
    /\ UNCHANGED <<coordVars, txVars, depVars, queueVars, cancelled, batch,
                   inFlightTxns, ledgerVars, eventVars>>

\* handleChainedChildren: the children of private dispatches are submitted as
\* new transactions, in database transactions that fail once cancelled.
HandleChainedChildren ==
    /\ loop = "children"
    /\ \E k \in 0 .. Len(accepted) :
          /\ cancelled \/ k = Len(accepted)
          /\ handedOff' = handedOff \cup
                {qd \in Range(Front(accepted, k)) : qd.tx \notin PublicTxs}
    /\ accepted' = <<>>
    /\ loop' = "select"
    /\ UNCHANGED <<coordVars, txVars, depVars, queueVars, cancelled, batch,
                   inFlightTxns, persisted, resolved, eventVars>>

-----------------------------------------------------------------------------
\* The notification of dependents, within the handling of one event.
CascadeNext ==
    \/ \E t \in Txs : DependencyReset(t) \/ ChainedDependencyFailed(t)
    \/ HandlerReturns

EventLoopNext ==
    \/ \E t \in Txs : StartPrepare(t)
    \/ CascadeNext
    \/ \E p \in running : \/ PrepareSucceeded(p[1], p[2])
                          \/ PrepareFailed(p[1], p[2])
    \/ EnqueueUnblocked
    \/ \E i \in DOMAIN persisted : \/ ConfirmedSuccess(i)
                                   \/ ConfirmedRevertedRetry(i)
                                   \/ ConfirmedRevertedFinal(i)
    \/ DispatchedTransition
    \/ EpochBoundaryReached
    \/ EpochRotate
    \/ RestartDispatchLoop
    \/ StepDown
    \/ CleanUpTransactionsNotYetDispatched
    \/ BecomeActive

DispatchLoopNext ==
    \/ TakeFirst
    \/ StopAtSelect
    \/ CapacityFree
    \/ CapacityExhausted
    \/ CapacityFreed
    \/ StopWhileWaiting
    \/ HandleDispatched
    \/ CheckDispatched
    \/ PersistDispatchBatch
    \/ PersistAbandoned
    \/ HandleChainedChildren

Next == EventLoopNext \/ DispatchLoopNext

Spec == Init /\ [][Next]_vars

\* The dispatch loop is scheduled, a blocked event loop resumes when it can,
\* queued events are processed, and the base ledger decides what it is given.
Fairness ==
    /\ WF_vars(DispatchLoopNext)
    /\ WF_vars(CascadeNext)
    /\ WF_vars(EnqueueUnblocked)
    /\ WF_vars(EpochRotate)
    /\ WF_vars(CleanUpTransactionsNotYetDispatched)
    /\ WF_vars(DispatchedTransition)
    /\ WF_vars(RestartDispatchLoop)
    /\ WF_vars(\E i \in DOMAIN persisted : \/ ConfirmedSuccess(i)
                                           \/ ConfirmedRevertedRetry(i)
                                           \/ ConfirmedRevertedFinal(i))

FairSpec == Spec /\ Fairness

-----------------------------------------------------------------------------
CoordType == /\ coordinatorState \in CoordinatorStates
             /\ key \in Nat \ {0}
             /\ used \in BOOLEAN
TxType == /\ txState \in [Txs -> TxStates]
          /\ signer \in [Txs -> Nat]
          /\ prepareID \in [Txs -> Nat]
          /\ prepares \in [Txs -> Nat]
          /\ running \subseteq Txs \X Nat
DepType == /\ minters \subseteq Txs
           /\ links \subseteq Txs \X Txs
           /\ cascade \in Seq(Frames)
QueueType == /\ eventLoop \in EventLoopStates
             /\ enqueuing \in Seq(QueuedDispatches)
             /\ dispatchQueue \in Seq(QueuedDispatches)
             /\ Len(dispatchQueue) <= MaxInflight
             /\ enqueued \in Nat
LoopType == /\ loop \in LoopStates
            /\ cancelled \in BOOLEAN
            /\ batch \in Seq(QueuedDispatches)
            /\ accepted \in Seq(QueuedDispatches)
LedgerType == /\ persisted \in Seq(QueuedDispatches)
              /\ resolved \subseteq Nat
              /\ handedOff \subseteq QueuedDispatches
EventType == leftDispatched \in BOOLEAN /\ restartQueued \in BOOLEAN

\* The variables have the types of the fields they model, and the channel no
\* more elements than its capacity.
TypeOK ==
    /\ CoordType
    /\ TxType
    /\ DepType
    /\ QueueType
    /\ LoopType
    /\ inFlightTxns \subseteq Txs
    /\ LedgerType
    /\ EventType

\* At no time do more transactions than maxDispatchAhead occupy a
\* dispatch-ahead slot, although awaitDispatchAheadCapacity reads the number of
\* free slots long before the batch it allows is dispatched.
InFlightBound == Cardinality(inFlightTxns) <= MaxDispatchAhead

\* inFlightTxns, written by both goroutines, holds every public transaction in
\* State_Dispatched, and nothing else except while the event loop is on its way
\* out of that state: the capacity check never admits too many and, between
\* events, never too few.
InFlightExact ==
    LET dispatched == {t \in PublicTxs : txState[t] = "Dispatched"}
    IN /\ dispatched \subseteq inFlightTxns
       /\ eventLoop # "cascade" => inFlightTxns = dispatched

\* The dispatches reach the database in the order enqueueForDispatch queued
\* them, whatever is dropped, stopped and restarted in between: "pull order ->
\* Append order -> insert order -> pub_txn_id order -> nonce order".
NonceOrder ==
    \A i, j \in DOMAIN persisted : i < j => persisted[i].n < persisted[j].n

\* As long as the dispatch loop is not stopped and no transaction is prepared
\* twice, a dispatch reaches the database only after the dispatches of the
\* transactions it depends on, although the dispatch loop runs while the event
\* loop is half way through resetting a chain of dependents.  This takes
\* dependencies in which nobody depends on a transaction that was itself submitted
\* as dependent on another: the failure of that other one reverts a dispatched
\* transaction, which is then dropped from the batch before its own dependents
\* are told, if they are told at all.
DependencyOrder ==
    key = 1 /\ ~cancelled /\ (\A t \in Txs : prepares[t] <= 1) =>
        \A i \in DOMAIN persisted :
            \A d \in persisted[i].deps :
                \E j \in 1 .. i - 1 : <<persisted[j].tx, persisted[j].id>> = d

\* A transaction enters State_Dispatched only while its coordinator is Active:
\* a flush or a step-down waits for the dispatch loop before it takes stock of
\* the dispatched transactions and cleans up the others.
DispatchOnlyWhenActive ==
    [][\A t \in Txs : txState[t] # "Dispatched" /\ txState'[t] = "Dispatched"
                         => coordinatorState = "Active"]_vars

\* handleChainedChildren submits the children of a dispatch only once the
\* dispatch itself is in the database.
ChildrenAfterPersist == handedOff \subseteq Range(persisted)

\* stopDispatchLoop always returns: the event loop never waits for ever for a
\* dispatch loop that is itself waiting for capacity or for the database.
StopTerminates ==
    (eventLoop \in {"stop_epoch", "stop_stepdown"}) ~> (eventLoop = "idle")

\* A transaction that is ready for dispatch is dispatched or reset, unless the
\* dispatch loop is stopped: neither the queue nor a loop that waits for
\* capacity holds it for ever.
ReadyLeaves ==
    \A t \in Txs : (txState[t] = "Ready_For_Dispatch")
                      ~> \/ txState[t] # "Ready_For_Dispatch"
                         \/ cancelled \/ key > 1

\* "the dispatch loop persists the queued dispatch and sends it to chain only
\* if its Event_Dispatched lands here": a dispatch joins the batch to persist
\* only if it is the latest one its dispatched transaction prepared.
NoStaleDispatch ==
    \A qd \in Range(accepted) :
        txState[qd.tx] = "Dispatched" => qd.id = prepares[qd.tx]

\* A stop of the dispatch loop at an epoch boundary must not "leave
\* transactions wedged in Ready_For_Dispatch": the dispatch of a transaction in
\* that state is in the queue or in the hands of the dispatch loop.
NoWedgedReady ==
    \A t \in Txs : txState[t] = "Ready_For_Dispatch" =>
        \E qd \in Range(dispatchQueue) \cup Range(batch) :
            qd.tx = t /\ qd.id = prepares[t]

=============================================================================
