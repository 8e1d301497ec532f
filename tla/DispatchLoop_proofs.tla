------------------------- MODULE DispatchLoop_proofs -------------------------
(***************************************************************************)
(* Proofs about DispatchLoop, for any set of transactions, any dependencies *)
(* between them (ShallowChains restricts them for DependenciesFirst) and    *)
(* any limits.                                                              *)
(***************************************************************************)
EXTENDS DispatchLoop, FiniteSetTheorems, SequenceTheorems, TLAPS

-----------------------------------------------------------------------------
(* Sequences: what the operators of the module do to them.                  *)

\* Front and Rest of a sequence of S are sequences of S, no longer than it.
LEMMA FrontRest ==
    ASSUME NEW S, NEW s \in Seq(S), NEW k \in Nat
    PROVE  /\ Front(s, k) \in Seq(S)
           /\ Rest(s, k) \in Seq(S)
           /\ Len(Front(s, k)) <= k
           /\ Len(Front(s, k)) <= Len(s)
           /\ Len(Rest(s, k)) <= Len(s)
           /\ \A i \in 1 .. Len(Front(s, k)) : Front(s, k)[i] = s[i]
           /\ \A i \in 1 .. Len(Rest(s, k)) :
                 /\ Len(Front(s, k)) + i \in 1 .. Len(s)
                 /\ Rest(s, k)[i] = s[Len(Front(s, k)) + i]
  BY DEF Front, Rest

\* Sequences of one and of two elements.
LEMMA ShortSeqs ==
    ASSUME NEW S, NEW e \in S, NEW f \in S
    PROVE  /\ <<e>> \in Seq(S) /\ <<e>> # <<>>
           /\ <<e, f>> \in Seq(S) /\ <<e, f>> # <<>>
  OBVIOUS

\* The innermost frame is replaced, the others are kept.
LEMMA ToldType ==
    ASSUME NEW t \in Txs, cascade \in Seq(Frames), cascade # <<>>
    PROVE  /\ Told(t) \in Seq(Frames)
           /\ Told(t) # <<>>
           /\ Len(Told(t)) = Len(cascade)
           /\ \A i \in 1 .. Len(cascade) : /\ Told(t)[i].tx = cascade[i].tx
                                           /\ Told(t)[i].leaving = cascade[i].leaving
  <1> DEFINE top == [cascade[1] EXCEPT !.todo = @ \ {t}]
  <1>1. cascade[1] \in Frames /\ Tail(cascade) \in Seq(Frames)
    OBVIOUS
  <1>2. top \in Frames /\ top.tx = cascade[1].tx /\ top.leaving = cascade[1].leaving
    BY Zenon, <1>1 DEF Frames
  <1>3. Told(t) = <<top>> \o Tail(cascade)
    BY Zenon DEF Told
  <1> HIDE DEF top
  <1> QED
    BY <1>1, <1>2, <1>3

-----------------------------------------------------------------------------
(* The type invariant needs to know which of the sequences are not empty     *)
(* where an action looks at their first element.                            *)

\* The event loop is within a cascade exactly while calls are under way, and
\* blocked in enqueueForDispatch with one dispatch; the dispatch loop holds one
\* dispatch while it waits for capacity and at least one while it handles them.
CascadeInv == eventLoop = "cascade" <=> cascade # <<>>
EnqueueInv == eventLoop = "enqueue" => Len(enqueuing) = 1
BatchInv == /\ loop \in {"await", "waiting"} => Len(batch) = 1
            /\ loop \in {"handle", "check"} => Len(batch) > 0

TypeInv == TypeOK /\ CascadeInv /\ EnqueueInv /\ BatchInv

\* What a step leaves alone keeps its type.
LEMMA TypeFrame ==
    /\ UNCHANGED coordVars /\ CoordType => CoordType'
    /\ UNCHANGED txVars /\ TxType => TxType'
    /\ UNCHANGED depVars /\ DepType => DepType'
    /\ UNCHANGED queueVars /\ QueueType /\ EnqueueInv => QueueType' /\ EnqueueInv'
    /\ UNCHANGED loopVars /\ LoopType /\ BatchInv => LoopType' /\ BatchInv'
    /\ UNCHANGED ledgerVars /\ LedgerType => LedgerType'
    /\ UNCHANGED eventVars /\ EventType => EventType'
    /\ UNCHANGED <<eventLoop, cascade>> /\ CascadeInv => CascadeInv'
  <1>1. UNCHANGED coordVars /\ CoordType => CoordType'
    BY Zenon DEF coordVars, CoordType
  <1>2. UNCHANGED txVars /\ TxType => TxType'
    BY Zenon DEF txVars, TxType
  <1>3. UNCHANGED depVars /\ DepType => DepType'
    BY Zenon DEF depVars, DepType
  <1>4. UNCHANGED queueVars /\ QueueType /\ EnqueueInv => QueueType' /\ EnqueueInv'
    BY Zenon DEF queueVars, QueueType, EnqueueInv
  <1>5. UNCHANGED loopVars /\ LoopType /\ BatchInv => LoopType' /\ BatchInv'
    BY Zenon DEF loopVars, LoopType, BatchInv
  <1>6. UNCHANGED ledgerVars /\ LedgerType => LedgerType'
    BY Zenon DEF ledgerVars, LedgerType
  <1>7. UNCHANGED eventVars /\ EventType => EventType'
    BY Zenon DEF eventVars, EventType
  <1>8. UNCHANGED <<eventLoop, cascade>> /\ CascadeInv => CascadeInv'
    BY Zenon DEF CascadeInv
  <1> QED
    BY Zenon, <1>1, <1>2, <1>3, <1>4, <1>5, <1>6, <1>7, <1>8

\* A prepared dispatch has the type of the elements of the dispatch queue.
LEMMA PreparedDispatchType ==
    ASSUME TypeOK, NEW t \in Txs, NEW id \in Nat
    PROVE  /\ PreparedDispatch(t, id) \in QueuedDispatches
           /\ PreparedDispatch(t, id).tx = t
  <1>1. Prerequisites(t) \subseteq Txs
    BY Zenon DEF Prerequisites
  <1> QED
    BY <1>1 DEF TypeOK, TxType, QueueType, PreparedDispatch, QueuedDispatches

\* Notifications of transactions are frames.
LEMMA NotifyType ==
    ASSUME NEW t \in Txs, NEW kind \in {"reset", "failed"},
           NEW todo \in SUBSET Txs, NEW leaving \in BOOLEAN
    PROVE  Notify(t, kind, todo, leaving) \in Frames
  BY Zenon DEF Notify, Frames

\* The notifications the handlers make are frames.
LEMMA NotifiesType ==
    ASSUME NEW t \in Txs
    PROVE  /\ Notify(t, "reset", Dependents(t), FALSE) \in Frames
           /\ Notify(t, "reset", Dependents(t), TRUE) \in Frames
           /\ Notify(t, "reset", ChainedDependents(t), FALSE) \in Frames
           /\ Notify(t, "reset", ChainedDependents(t), TRUE) \in Frames
           /\ Notify(t, "failed", ChainedDependents(t), FALSE) \in Frames
  <1>1. Dependents(t) \subseteq Txs /\ ChainedDependents(t) \subseteq Txs
    BY Zenon DEF Dependents, ChainedDependents
  <1> QED
    BY Zenon, <1>1, NotifyType

\* A frame pushed on a non-empty sequence of frames.
LEMMA PushType ==
    ASSUME NEW f \in Frames, NEW s \in Seq(Frames)
    PROVE  <<f>> \o s \in Seq(Frames) /\ <<f>> \o s # <<>>
  OBVIOUS

\* Forgetting transactions keeps the type of the grapher's state.
LEMMA ForgetType ==
    ASSUME NEW S, DepType, Forget(S)
    PROVE  minters' \subseteq Txs /\ links' \subseteq Txs \X Txs
  BY Zenon DEF Forget, DepType

\* Entries of a sequence of dispatches are dispatches of transactions.
LEMMA EntryType ==
    ASSUME NEW s \in Seq(QueuedDispatches), NEW i \in DOMAIN s
    PROVE  s[i] \in QueuedDispatches /\ s[i].tx \in Txs /\ i \in Nat
  <1>1. s[i] \in QueuedDispatches /\ i \in Nat
    OBVIOUS
  <1> QED
    BY Zenon, <1>1 DEF QueuedDispatches

\* The capacity for a batch, when there is some, is positive and within the
\* dispatch-ahead limit.
LEMMA CapacityPositive ==
    ASSUME inFlightTxns \subseteq Txs, Cardinality(inFlightTxns) < MaxDispatchAhead
    PROVE  /\ Cardinality(inFlightTxns) \in Nat
           /\ Capacity \in Nat /\ Capacity - 1 \in Nat
           /\ Cardinality(inFlightTxns) + Capacity <= MaxDispatchAhead
  <1>1. IsFiniteSet(inFlightTxns)
    BY Zenon, TxsAssumption, FS_Subset
  <1>2. Cardinality(inFlightTxns) \in Nat
    BY Zenon, <1>1, FS_CardinalityType
  <1> QED
    BY <1>2, LimitsAssumption DEF Capacity, Smaller

\* The initial state has the types.
LEMMA InitType == Init => TypeInv
  <1> SUFFICES ASSUME Init PROVE TypeInv
    BY Zenon
  <1>1. coordinatorState \in CoordinatorStates /\ key \in Nat \ {0}
    BY DEF Init, CoordinatorStates
  <1>0. used \in BOOLEAN /\ cancelled \in BOOLEAN /\ EventType
    BY Zenon DEF Init, EventType
  <1>2. TxType
    BY Zenon DEF Init, TxType, TxStates
  <1>3. DepType /\ CascadeInv
    BY DEF Init, DepType, CascadeInv
  <1>4. QueueType /\ EnqueueInv
    BY LimitsAssumption DEF Init, QueueType, EnqueueInv, EventLoopStates
  <1>5. /\ loop \in LoopStates /\ batch \in Seq(QueuedDispatches)
        /\ accepted \in Seq(QueuedDispatches) /\ BatchInv
    BY DEF Init, BatchInv, LoopStates
  <1>6. LedgerType /\ inFlightTxns \subseteq Txs
    BY DEF Init, LedgerType
  <1> QED
    BY Zenon, <1>0, <1>1, <1>2, <1>3, <1>4, <1>5, <1>6
    DEF TypeInv, TypeOK, CoordType, LoopType

-----------------------------------------------------------------------------
(* Every action preserves the types.                                        *)

LEMMA StartPrepareType ==
    ASSUME TypeInv, NEW t \in Txs, StartPrepare(t) PROVE TypeInv'
  <1>1. CoordType'
    <2>1. used' \in BOOLEAN
      BY Zenon DEF StartPrepare, TypeInv, TypeOK, CoordType
    <2> QED
      BY Zenon, <2>1 DEF StartPrepare, TypeInv, TypeOK, CoordType
  <1>2. TxType'
    <2>1. txState' \in [Txs -> TxStates] /\ prepareID' \in [Txs -> Nat]
          /\ prepares' \in [Txs -> Nat] /\ running' \subseteq Txs \X Nat
      BY DEF StartPrepare, TypeInv, TypeOK, TxType, TxStates
    <2>2. signer' \in [Txs -> Nat]
      BY Zenon DEF StartPrepare, TypeInv, TypeOK, TxType, CoordType
    <2> QED
      BY Zenon, <2>1, <2>2 DEF TxType
  <1>3. DepType'
    BY Zenon DEF StartPrepare, TypeInv, TypeOK, DepType, SpentFrom
  <1>4. CascadeInv'
    BY Zenon DEF StartPrepare, TypeInv, CascadeInv, queueVars
  <1> QED
    BY Zenon, <1>1, <1>2, <1>3, <1>4, TypeFrame DEF StartPrepare, TypeInv, TypeOK

LEMMA DependencyResetType ==
    ASSUME TypeInv, NEW t \in Txs, DependencyReset(t) PROVE TypeInv'
  <1>1. cascade # <<>> /\ Told(t) \in Seq(Frames) /\ Told(t) # <<>>
    BY Zenon, ToldType DEF DependencyReset, TypeInv, TypeOK, DepType, CascadeInv
  <1>2. cascade' \in Seq(Frames) /\ cascade' # <<>>
    <2>1. \/ cascade' = Told(t)
          \/ cascade' = <<Notify(t, "reset", Dependents(t), FALSE)>> \o Told(t)
          \/ cascade' = <<Notify(t, "reset", ChainedDependents(t), FALSE)>> \o Told(t)
      BY Zenon DEF DependencyReset
    <2> QED
      BY Zenon, <1>1, <2>1, NotifiesType, PushType
  <1>3. minters' \subseteq Txs /\ links' \subseteq Txs \X Txs
    BY Zenon, ForgetType DEF DependencyReset, TypeInv, TypeOK, DepType
  <1>4. TxType'
    <2>1. \/ /\ txState' = [txState EXCEPT ![t] = "Pooled"]
             /\ prepareID' = [prepareID EXCEPT ![t] = 0]
          \/ UNCHANGED <<txState, prepareID>>
      BY Zenon DEF DependencyReset
    <2>2. UNCHANGED <<signer, prepares, running>>
      BY Zenon DEF DependencyReset
    <2> QED
      BY <2>1, <2>2 DEF TypeInv, TypeOK, TxType, TxStates
  <1>5. DepType' /\ CascadeInv'
    BY Zenon, <1>1, <1>2, <1>3 DEF DependencyReset, DepType, CascadeInv, TypeInv, queueVars
  <1> QED
    BY Zenon, <1>4, <1>5, TypeFrame DEF DependencyReset, TypeInv, TypeOK

LEMMA ChainedDependencyFailedType ==
    ASSUME TypeInv, NEW t \in Txs, ChainedDependencyFailed(t) PROVE TypeInv'
  <1>1. cascade # <<>> /\ Told(t) \in Seq(Frames) /\ Told(t) # <<>>
    BY Zenon, ToldType DEF ChainedDependencyFailed, TypeInv, TypeOK, DepType, CascadeInv
  <1>2. cascade' \in Seq(Frames) /\ cascade' # <<>>
    <2>1. \/ cascade' = Told(t)
          \/ cascade' = <<Notify(t, "failed", ChainedDependents(t), FALSE)>> \o Told(t)
      BY Zenon DEF ChainedDependencyFailed
    <2> QED
      BY Zenon, <1>1, <2>1, NotifiesType, PushType
  <1>3. minters' \subseteq Txs /\ links' \subseteq Txs \X Txs
    BY Zenon, ForgetType DEF ChainedDependencyFailed, TypeInv, TypeOK, DepType
  <1>4. TxType'
    <2>1. \/ /\ txState' = [txState EXCEPT ![t] = "Reverted"]
             /\ prepareID' = [prepareID EXCEPT ![t] = 0]
          \/ UNCHANGED <<txState, prepareID>>
      BY Zenon DEF ChainedDependencyFailed
    <2>2. UNCHANGED <<signer, prepares, running>>
      BY Zenon DEF ChainedDependencyFailed
    <2> QED
      BY SMTT(40), <2>1, <2>2 DEF TypeInv, TypeOK, TxType, TxStates
  <1>5. inFlightTxns' \subseteq Txs /\ EventType'
    BY Zenon DEF ChainedDependencyFailed, LeaveDispatched, TypeInv, TypeOK, EventType
  <1>6. DepType' /\ CascadeInv'
    BY Zenon, <1>1, <1>2, <1>3
    DEF ChainedDependencyFailed, DepType, CascadeInv, TypeInv, queueVars
  <1> QED
    BY Zenon, <1>4, <1>5, <1>6, TypeFrame DEF ChainedDependencyFailed, TypeInv, TypeOK

LEMMA HandlerReturnsType ==
    ASSUME TypeInv, HandlerReturns PROVE TypeInv'
  <1>1. cascade \in Seq(Frames) /\ cascade # <<>>
    BY Zenon DEF HandlerReturns, TypeInv, TypeOK, DepType, CascadeInv
  <1>2. Tail(cascade) \in Seq(Frames) /\ (Len(cascade) = 1 <=> Tail(cascade) = <<>>)
    <2>1. Tail(cascade) \in Seq(Frames) /\ Len(Tail(cascade)) = Len(cascade) - 1
      BY <1>1
    <2>2. Len(cascade) \in Nat /\ Len(<<>>) = 0
      BY <1>1
    <2>3. Tail(cascade) # <<>> => Len(Tail(cascade)) \in Nat \ {0}
      BY Zenon, <2>1, EmptySeq
    <2>4. Tail(cascade) = <<>> => Len(Tail(cascade)) = 0
      BY Zenon, <2>2
    <2> QED
      BY SMTT(40), <2>1, <2>2, <2>3, <2>4
  <1>3. minters' \subseteq Txs /\ links' \subseteq Txs \X Txs
    BY Zenon, ForgetType DEF HandlerReturns, TypeInv, TypeOK, DepType
  <1>4. inFlightTxns' \subseteq Txs /\ EventType'
    BY Zenon DEF HandlerReturns, LeaveDispatched, TypeInv, TypeOK, EventType
  <1>5. DepType'
    BY Zenon, <1>2, <1>3 DEF HandlerReturns, DepType
  <1>6. CascadeInv' /\ EnqueueInv' /\ QueueType'
    BY Zenon, <1>2
    DEF HandlerReturns, CascadeInv, EnqueueInv, QueueType, TypeInv, TypeOK,
        EventLoopStates
  <1> QED
    BY Zenon, <1>4, <1>5, <1>6, TypeFrame DEF HandlerReturns, TypeInv, TypeOK

\* A dispatch put on a queue that is not full.
LEMMA EnqueueType ==
    ASSUME TypeInv, NEW qd \in QueuedDispatches, Enqueue(qd), ~QueueFull
    PROVE  /\ dispatchQueue' \in Seq(QueuedDispatches)
           /\ Len(dispatchQueue') <= MaxInflight
           /\ enqueued' \in Nat
           /\ txState' \in [Txs -> TxStates]
           /\ prepareID' \in [Txs -> Nat]
  <1>1. qd.tx \in Txs
    BY Zenon DEF QueuedDispatches
  <1>2. txState' \in [Txs -> TxStates] /\ prepareID' \in [Txs -> Nat]
    BY Zenon, <1>1 DEF Enqueue, TypeInv, TypeOK, TxType, TxStates
  <1>3. Len(dispatchQueue) < MaxInflight
    BY LimitsAssumption DEF QueueFull, TypeInv, TypeOK, QueueType
  <1> QED
    BY <1>2, <1>3, LimitsAssumption DEF Enqueue, TypeInv, TypeOK, QueueType

LEMMA PrepareSucceededType ==
    ASSUME TypeInv, NEW t \in Txs, NEW id \in Nat, PrepareSucceeded(t, id)
    PROVE  TypeInv'
  <1> DEFINE qd == PreparedDispatch(t, id)
             current == txState[t] = "Preparing" /\ id = prepareID[t]
  <1>1. qd \in QueuedDispatches
    BY Zenon, PreparedDispatchType DEF TypeInv
  <1> HIDE DEF qd
  <1>2. running' \subseteq Txs \X Nat
    BY Zenon DEF PrepareSucceeded, TypeInv, TypeOK, TxType
  <1>3. CASE current /\ ~QueueFull
    <2>1. Enqueue(qd) /\ UNCHANGED <<eventLoop, enqueuing>>
      BY Zenon, <1>3 DEF PrepareSucceeded, qd
    <2>2. QueueType' /\ EnqueueInv' /\ TxType'
      BY Zenon, <1>1, <1>2, <1>3, <2>1, EnqueueType
      DEF PrepareSucceeded, QueueType, EnqueueInv, TxType, TypeInv, TypeOK
    <2> QED
      BY Zenon, <2>1, <2>2, TypeFrame DEF PrepareSucceeded, TypeInv, TypeOK, depVars
  <1>4. CASE current /\ QueueFull
    <2>1. /\ eventLoop' = "enqueue" /\ enqueuing' = <<qd>> /\ eventLoop = "idle"
          /\ UNCHANGED <<dispatchQueue, enqueued, txState, prepareID>>
      BY Zenon, <1>4 DEF PrepareSucceeded, qd
    <2>2. QueueType' /\ EnqueueInv' /\ CascadeInv'
      BY <1>1, <2>1
      DEF PrepareSucceeded, QueueType, EnqueueInv, CascadeInv, TypeInv, TypeOK,
          EventLoopStates, depVars
    <2>3. TxType'
      BY Zenon, <1>2, <2>1 DEF PrepareSucceeded, TxType, TypeInv, TypeOK
    <2> QED
      BY Zenon, <2>2, <2>3, TypeFrame DEF PrepareSucceeded, TypeInv, TypeOK
  <1>5. CASE ~current
    <2>1. UNCHANGED <<queueVars, txState, prepareID>>
      BY Zenon, <1>5 DEF PrepareSucceeded
    <2>2. TxType' /\ CascadeInv'
      BY Zenon, <1>2, <2>1
      DEF PrepareSucceeded, TxType, CascadeInv, TypeInv, TypeOK, queueVars, depVars
    <2> QED
      BY Zenon, <2>1, <2>2, TypeFrame DEF PrepareSucceeded, TypeInv, TypeOK
  <1> QED
    BY Zenon, <1>3, <1>4, <1>5

LEMMA EnqueueUnblockedType ==
    ASSUME TypeInv, EnqueueUnblocked PROVE TypeInv'
  <1>1. enqueuing \in Seq(QueuedDispatches) /\ Len(enqueuing) = 1
    BY Zenon DEF EnqueueUnblocked, TypeInv, TypeOK, QueueType, EnqueueInv
  <1>2. enqueuing[1] \in QueuedDispatches
    BY <1>1
  <1>3. QueueType' /\ EnqueueInv' /\ CascadeInv'
    BY SMTT(40), <1>2, EnqueueType
    DEF EnqueueUnblocked, QueueType, EnqueueInv, CascadeInv, EventLoopStates,
        depVars, TypeInv
  <1>4. TxType'
    BY Zenon, <1>2, EnqueueType DEF EnqueueUnblocked, TxType, TypeInv, TypeOK
  <1> QED
    BY Zenon, <1>3, <1>4, TypeFrame DEF EnqueueUnblocked, TypeInv, TypeOK

\* A handler starts a cascade of calls, or none.
LEMMA StartCascadeType ==
    ASSUME TypeInv, eventLoop = "idle", NEW calls \in Seq(Frames), calls # <<>>,
           \/ eventLoop' = "cascade" /\ cascade' = calls
           \/ UNCHANGED <<eventLoop, cascade>>,
           UNCHANGED <<enqueuing, dispatchQueue, enqueued>>
    PROVE  cascade' \in Seq(Frames) /\ CascadeInv' /\ QueueType' /\ EnqueueInv'
  <1>1. cascade' \in Seq(Frames)
    BY Zenon DEF TypeInv, TypeOK, DepType
  <1>2. CascadeInv' /\ EnqueueInv'
    BY Zenon DEF TypeInv, CascadeInv, EnqueueInv
  <1>3. QueueType'
    BY Zenon DEF TypeInv, TypeOK, QueueType, EventLoopStates
  <1> QED
    BY Zenon, <1>1, <1>2, <1>3

LEMMA PrepareFailedType ==
    ASSUME TypeInv, NEW t \in Txs, NEW id \in Nat, PrepareFailed(t, id)
    PROVE  TypeInv'
  <1>1. TxType'
    <2>1. \/ /\ txState' = [txState EXCEPT ![t] = "Pooled"]
             /\ prepareID' = [prepareID EXCEPT ![t] = 0]
          \/ UNCHANGED <<txState, prepareID>>
      BY Zenon DEF PrepareFailed
    <2>2. UNCHANGED <<signer, prepares>> /\ running' \subseteq running
      BY Zenon DEF PrepareFailed
    <2> QED
      BY SMTT(40), <2>1, <2>2 DEF TypeInv, TypeOK, TxType, TxStates
  <1>2. DepType' /\ CascadeInv' /\ QueueType' /\ EnqueueInv'
    <2>1. eventLoop = "idle" /\ UNCHANGED <<minters, links, enqueuing, dispatchQueue, enqueued>>
      BY Zenon DEF PrepareFailed
    <2>2. \/ /\ eventLoop' = "cascade"
             /\ cascade' = <<Notify(t, "reset", Dependents(t), FALSE)>>
          \/ UNCHANGED <<eventLoop, cascade>>
      BY Zenon DEF PrepareFailed
    <2> DEFINE calls == <<Notify(t, "reset", Dependents(t), FALSE)>>
    <2>3. calls \in Seq(Frames) /\ calls # <<>>
      BY Zenon, NotifiesType, ShortSeqs
    <2>4. \/ eventLoop' = "cascade" /\ cascade' = calls
          \/ UNCHANGED <<eventLoop, cascade>>
      BY Zenon, <2>1, <2>2
    <2> HIDE DEF calls
    <2>5. cascade' \in Seq(Frames) /\ CascadeInv' /\ QueueType' /\ EnqueueInv'
      BY Zenon, <2>1, <2>2, <2>3, <2>4, StartCascadeType
    <2> QED
      BY Zenon, <2>1, <2>5 DEF TypeInv, TypeOK, DepType
  <1> QED
    BY Zenon, <1>1, <1>2, TypeFrame DEF PrepareFailed, TypeInv, TypeOK

\* The parts of the state that no delivered outcome changes keep their types.
LEMMA OutcomeType ==
    ASSUME TypeInv, NEW i \in DOMAIN persisted, OutcomeDelivered(i)
    PROVE  /\ persisted[i].tx \in Txs
           /\ CoordType' /\ LoopType' /\ BatchInv' /\ LedgerType'
           /\ UNCHANGED <<prepares, prepareID, running>>
           /\ UNCHANGED <<enqueuing, dispatchQueue, enqueued, restartQueued>>
           /\ eventLoop = "idle" /\ cascade = <<>>
  <1>1. persisted[i].tx \in Txs /\ i \in Nat
    BY Zenon, EntryType DEF TypeInv, TypeOK, LedgerType
  <1>2. LedgerType'
    BY Zenon, <1>1 DEF OutcomeDelivered, TypeInv, TypeOK, LedgerType
  <1>3. eventLoop = "idle" /\ cascade = <<>>
    BY Zenon DEF OutcomeDelivered, MainEvent, TypeInv, CascadeInv
  <1> QED
    BY Zenon, <1>1, <1>2, <1>3, TypeFrame DEF OutcomeDelivered, TypeInv, TypeOK

LEMMA ConfirmedSuccessType ==
    ASSUME TypeInv, NEW i \in DOMAIN persisted, ConfirmedSuccess(i) PROVE TypeInv'
  <1> DEFINE t == persisted[i].tx
  <1>1. OutcomeDelivered(i)
    BY Zenon DEF ConfirmedSuccess
  <1>2. TxType'
    <2>1. \/ txState' = [txState EXCEPT ![t] = "Confirmed"]
          \/ UNCHANGED txState
      BY Zenon DEF ConfirmedSuccess
    <2>2. UNCHANGED <<signer, prepares, prepareID, running>> /\ t \in Txs
      BY Zenon, <1>1, OutcomeType DEF ConfirmedSuccess
    <2> QED
      BY Zenon, <2>1, <2>2 DEF TypeInv, TypeOK, TxType, TxStates
  <1>3. DepType'
    BY Zenon, ForgetType DEF ConfirmedSuccess, TypeInv, TypeOK, DepType
  <1>4. inFlightTxns' \subseteq Txs /\ leftDispatched' \in BOOLEAN
    BY Zenon DEF ConfirmedSuccess, LeaveDispatched, TypeInv, TypeOK, EventType
  <1>5. EventType'
    BY Zenon, <1>1, <1>4, OutcomeType DEF TypeInv, TypeOK, EventType
  <1>6. UNCHANGED <<queueVars, eventLoop, cascade>>
    BY Zenon, <1>1, OutcomeType DEF ConfirmedSuccess, queueVars
  <1> QED
    BY Zenon, <1>1, <1>2, <1>3, <1>4, <1>5, <1>6, OutcomeType, TypeFrame
    DEF TypeInv, TypeOK

LEMMA ConfirmedRevertedRetryType ==
    ASSUME TypeInv, NEW i \in DOMAIN persisted, ConfirmedRevertedRetry(i)
    PROVE  TypeInv'
  <1> DEFINE t == persisted[i].tx
  <1>1. OutcomeDelivered(i)
    BY Zenon DEF ConfirmedRevertedRetry
  <1>2. TxType'
    <2>1. /\ txState' = [txState EXCEPT ![t] = "Pooled"] \/ UNCHANGED txState
          /\ signer' = [signer EXCEPT ![t] = 0] \/ UNCHANGED signer
      BY Zenon DEF ConfirmedRevertedRetry
    <2>2. UNCHANGED <<prepares, prepareID, running>> /\ t \in Txs
      BY Zenon, <1>1, OutcomeType
    <2> QED
      BY SMTT(40), <2>1, <2>2 DEF TypeInv, TypeOK, TxType, TxStates
  <1>3. DepType' /\ CascadeInv' /\ QueueType' /\ EnqueueInv'
    <2>1. /\ \/ /\ eventLoop' = "cascade"
                /\ cascade' = <<Notify(t, "reset", Dependents(t), TRUE)>>
             \/ UNCHANGED <<eventLoop, cascade>>
          /\ UNCHANGED <<minters, links>>
      BY Zenon DEF ConfirmedRevertedRetry
    <2>2. eventLoop = "idle" /\ t \in Txs /\ UNCHANGED <<enqueuing, dispatchQueue, enqueued>>
      BY Zenon, <1>1, OutcomeType
    <2> DEFINE calls == <<Notify(t, "reset", Dependents(t), TRUE)>>
    <2>3. calls \in Seq(Frames) /\ calls # <<>>
      BY Zenon, <2>2, NotifiesType, ShortSeqs
    <2>4. \/ eventLoop' = "cascade" /\ cascade' = calls
          \/ UNCHANGED <<eventLoop, cascade>>
      BY Zenon, <2>1, <2>2
    <2> HIDE DEF calls
    <2>5. cascade' \in Seq(Frames) /\ CascadeInv' /\ QueueType' /\ EnqueueInv'
      BY Zenon, <2>1, <2>2, <2>3, <2>4, StartCascadeType
    <2> QED
      BY Zenon, <2>1, <2>5 DEF TypeInv, TypeOK, DepType
  <1>4. UNCHANGED eventVars /\ UNCHANGED inFlightTxns
    BY Zenon, <1>1, OutcomeType DEF ConfirmedRevertedRetry, eventVars
  <1> QED
    BY Zenon, <1>1, <1>2, <1>3, <1>4, OutcomeType, TypeFrame DEF TypeInv, TypeOK

LEMMA ConfirmedRevertedFinalType ==
    ASSUME TypeInv, NEW i \in DOMAIN persisted, ConfirmedRevertedFinal(i)
    PROVE  TypeInv'
  <1> DEFINE t == persisted[i].tx
  <1>1. OutcomeDelivered(i)
    BY Zenon DEF ConfirmedRevertedFinal
  <1>2. TxType'
    <2>1. txState' = [txState EXCEPT ![t] = "Reverted"] \/ UNCHANGED txState
      BY Zenon DEF ConfirmedRevertedFinal
    <2>2. UNCHANGED <<signer, prepares, prepareID, running>> /\ t \in Txs
      BY Zenon, <1>1, OutcomeType DEF ConfirmedRevertedFinal
    <2> QED
      BY Zenon, <2>1, <2>2 DEF TypeInv, TypeOK, TxType, TxStates
  <1>3. minters' \subseteq Txs /\ links' \subseteq Txs \X Txs
    BY Zenon, ForgetType DEF ConfirmedRevertedFinal, TypeInv, TypeOK, DepType
  <1>4. DepType' /\ CascadeInv' /\ QueueType' /\ EnqueueInv'
    <2>1. \/ /\ eventLoop' = "cascade"
             /\ cascade' = <<Notify(t, "reset", ChainedDependents(t), TRUE),
                             Notify(t, "failed", ChainedDependents(t), FALSE)>>
          \/ UNCHANGED <<eventLoop, cascade>>
      BY Zenon DEF ConfirmedRevertedFinal
    <2>2. eventLoop = "idle" /\ t \in Txs /\ UNCHANGED <<enqueuing, dispatchQueue, enqueued>>
      BY Zenon, <1>1, OutcomeType
    <2> DEFINE calls == <<Notify(t, "reset", ChainedDependents(t), TRUE),
                          Notify(t, "failed", ChainedDependents(t), FALSE)>>
    <2>3. calls \in Seq(Frames) /\ calls # <<>>
      BY Zenon, <2>2, NotifiesType, ShortSeqs
    <2>4. \/ eventLoop' = "cascade" /\ cascade' = calls
          \/ UNCHANGED <<eventLoop, cascade>>
      BY Zenon, <2>1
    <2> HIDE DEF calls
    <2>5. cascade' \in Seq(Frames) /\ CascadeInv' /\ QueueType' /\ EnqueueInv'
      BY Zenon, <2>2, <2>3, <2>4, StartCascadeType
    <2> QED
      BY Zenon, <1>3, <2>5 DEF DepType
  <1>5. UNCHANGED eventVars /\ UNCHANGED inFlightTxns
    BY Zenon, <1>1, OutcomeType DEF ConfirmedRevertedFinal, eventVars
  <1> QED
    BY Zenon, <1>1, <1>2, <1>4, <1>5, OutcomeType, TypeFrame DEF TypeInv, TypeOK

\* The three places that start the dispatch loop.
LEMMA StartDispatchLoopType ==
    ASSUME TypeInv, StartDispatchLoop PROVE LoopType' /\ BatchInv'
  <1>1. CASE loop = "stopped"
    <2>1. cancelled' \in BOOLEAN
      BY Zenon, <1>1 DEF StartDispatchLoop
    <2> QED
      BY Zenon, <1>1, <2>1
      DEF StartDispatchLoop, TypeInv, TypeOK, LoopType, BatchInv, LoopStates
  <1>2. CASE loop # "stopped"
    BY Zenon, <1>2, TypeFrame DEF StartDispatchLoop, TypeInv, TypeOK
  <1> QED
    BY Zenon, <1>1, <1>2

LEMMA NewSigningIdentityType ==
    ASSUME TypeInv, NewSigningIdentity PROVE key' \in Nat \ {0} /\ used' \in BOOLEAN
  <1>1. key' \in Nat \ {0}
    BY DEF NewSigningIdentity, TypeInv, TypeOK, CoordType
  <1>2. used' \in BOOLEAN
    BY Zenon DEF NewSigningIdentity
  <1> QED
    BY Zenon, <1>1, <1>2

LEMMA DispatchedTransitionType ==
    ASSUME TypeInv, DispatchedTransition PROVE TypeInv'
  <1>1. CoordType'
    <2>1. coordinatorState' \in CoordinatorStates
      BY Zenon DEF DispatchedTransition, coordVars, TypeInv, TypeOK, CoordType,
             CoordinatorStates
    <2>2. key' \in Nat \ {0} /\ used' \in BOOLEAN
      BY Zenon, NewSigningIdentityType DEF DispatchedTransition, coordVars, TypeInv, TypeOK,
         CoordType
    <2> QED
      BY Zenon, <2>1, <2>2 DEF CoordType
  <1>2. LoopType' /\ BatchInv'
    BY Zenon, StartDispatchLoopType, TypeFrame DEF DispatchedTransition, TypeInv, TypeOK
  <1>3. EventType'
    BY Zenon DEF DispatchedTransition, TypeInv, TypeOK, EventType
  <1>4. CascadeInv'
    BY Zenon DEF DispatchedTransition, TypeInv, CascadeInv, queueVars, depVars
  <1> QED
    BY Zenon, <1>1, <1>2, <1>3, <1>4, TypeFrame DEF DispatchedTransition, TypeInv, TypeOK

LEMMA BecomeActiveType ==
    ASSUME TypeInv, BecomeActive PROVE TypeInv'
  <1>1. CoordType'
    BY Zenon, NewSigningIdentityType DEF BecomeActive, CoordType, CoordinatorStates
  <1>2. CascadeInv'
    BY Zenon DEF BecomeActive, TypeInv, CascadeInv, queueVars, depVars
  <1> QED
    BY Zenon, <1>1, <1>2, StartDispatchLoopType, TypeFrame DEF BecomeActive, TypeInv, TypeOK

LEMMA RestartDispatchLoopType ==
    ASSUME TypeInv, RestartDispatchLoop PROVE TypeInv'
  <1>1. LoopType' /\ BatchInv'
    BY Zenon, StartDispatchLoopType, TypeFrame DEF RestartDispatchLoop, TypeInv, TypeOK
  <1>2. EventType'
    BY Zenon DEF RestartDispatchLoop, TypeInv, TypeOK, EventType
  <1>3. CascadeInv'
    BY Zenon DEF RestartDispatchLoop, TypeInv, CascadeInv, queueVars, depVars
  <1> QED
    BY Zenon, <1>1, <1>2, <1>3, TypeFrame DEF RestartDispatchLoop, TypeInv, TypeOK

LEMMA StopDispatchLoopType ==
    ASSUME TypeInv, NEW reason \in {"stop_epoch", "stop_stepdown"}, eventLoop = "idle",
           StopDispatchLoop(reason), UNCHANGED depVars
    PROVE  QueueType' /\ EnqueueInv' /\ LoopType' /\ BatchInv' /\ CascadeInv'
  <1>1. cancelled' \in BOOLEAN
    BY Zenon DEF StopDispatchLoop
  <1>2. QueueType' /\ EnqueueInv' /\ CascadeInv'
    BY Zenon DEF StopDispatchLoop, TypeInv, TypeOK, QueueType, EnqueueInv, CascadeInv,
           EventLoopStates, depVars
  <1>3. LoopType' /\ BatchInv'
    BY Zenon, <1>1 DEF StopDispatchLoop, TypeInv, TypeOK, LoopType, BatchInv
  <1> QED
    BY Zenon, <1>2, <1>3

LEMMA StopType ==
    ASSUME TypeInv, EpochBoundaryReached \/ StepDown PROVE TypeInv'
  BY Zenon, StopDispatchLoopType, TypeFrame
  DEF EpochBoundaryReached, StepDown, MainEvent, TypeInv, TypeOK

LEMMA EpochRotateType ==
    ASSUME TypeInv, EpochRotate PROVE TypeInv'
  <1>1. CoordType'
    <2>1. coordinatorState' \in CoordinatorStates
      BY Zenon DEF EpochRotate, TypeInv, TypeOK, CoordType, CoordinatorStates
    <2>2. key' \in Nat \ {0} /\ used' \in BOOLEAN
      BY Zenon, NewSigningIdentityType DEF EpochRotate, TypeInv, TypeOK, CoordType
    <2> QED
      BY Zenon, <2>1, <2>2 DEF CoordType
  <1>2. EventType'
    BY Zenon DEF EpochRotate, TypeInv, TypeOK, EventType
  <1>3. QueueType' /\ EnqueueInv' /\ CascadeInv'
    BY Zenon DEF EpochRotate, TypeInv, TypeOK, QueueType, EnqueueInv, CascadeInv,
           EventLoopStates, depVars
  <1> QED
    BY Zenon, <1>1, <1>2, <1>3, TypeFrame DEF EpochRotate, TypeInv, TypeOK

LEMMA CleanUpType ==
    ASSUME TypeInv, CleanUpTransactionsNotYetDispatched PROVE TypeInv'
  <1>1. TxType'
    BY Zenon DEF CleanUpTransactionsNotYetDispatched, TypeInv, TypeOK, TxType, TxStates
  <1>2. DepType' /\ CascadeInv'
    BY Zenon, ForgetType
    DEF CleanUpTransactionsNotYetDispatched, TypeInv, TypeOK, DepType, CascadeInv
  <1>3. QueueType' /\ EnqueueInv'
    BY LimitsAssumption
    DEF CleanUpTransactionsNotYetDispatched, TypeInv, TypeOK, QueueType, EnqueueInv,
        EventLoopStates
  <1>4. CoordType'
    BY Zenon DEF CleanUpTransactionsNotYetDispatched, TypeInv, TypeOK, CoordType,
           CoordinatorStates
  <1> QED
    BY Zenon, <1>1, <1>2, <1>3, <1>4, TypeFrame
    DEF CleanUpTransactionsNotYetDispatched, TypeInv, TypeOK

LEMMA TakeFirstType ==
    ASSUME TypeInv, TakeFirst PROVE TypeInv'
  <1>1. /\ dispatchQueue \in Seq(QueuedDispatches) /\ dispatchQueue # <<>>
        /\ Len(dispatchQueue) <= MaxInflight
    BY Zenon DEF TakeFirst, TypeInv, TypeOK, QueueType
  <1>2. /\ Head(dispatchQueue) \in QueuedDispatches
        /\ Tail(dispatchQueue) \in Seq(QueuedDispatches)
        /\ Len(Tail(dispatchQueue)) <= MaxInflight
    BY SMTT(40), <1>1, LimitsAssumption
  <1>3. QueueType' /\ EnqueueInv' /\ CascadeInv'
    BY Zenon, <1>2 DEF TakeFirst, TypeInv, TypeOK, QueueType, EnqueueInv, CascadeInv, depVars
  <1>4. LoopType' /\ BatchInv'
    BY SMTT(40), <1>2 DEF TakeFirst, TypeInv, TypeOK, LoopType, BatchInv, LoopStates
  <1> QED
    BY Zenon, <1>3, <1>4, TypeFrame DEF TakeFirst, TypeInv, TypeOK

LEMMA PullDispatchBatchType ==
    ASSUME TypeInv, loop \in {"await", "waiting"}, PullDispatchBatch PROVE TypeInv'
  <1> DEFINE k == Capacity - 1
  <1>1. k \in Nat
    BY Zenon, CapacityPositive DEF PullDispatchBatch, TypeInv, TypeOK
  <1>2. dispatchQueue \in Seq(QueuedDispatches) /\ Len(dispatchQueue) <= MaxInflight
    BY Zenon DEF TypeInv, TypeOK, QueueType
  <1>3. batch \in Seq(QueuedDispatches) /\ Len(batch) = 1
    BY Zenon DEF TypeInv, TypeOK, LoopType, BatchInv
  <1>4. /\ batch' = batch \o Front(dispatchQueue, k)
        /\ dispatchQueue' = Rest(dispatchQueue, k)
    BY Zenon DEF PullDispatchBatch
  <1> HIDE DEF k
  <1>5. batch' \in Seq(QueuedDispatches) /\ Len(batch') > 0
    <2> DEFINE f == Front(dispatchQueue, k)
    <2>1. f \in Seq(QueuedDispatches) /\ batch' = batch \o f
      BY Zenon, <1>1, <1>2, <1>4, FrontRest
    <2> HIDE DEF f
    <2>2. batch \o f \in Seq(QueuedDispatches) /\ Len(batch \o f) = Len(batch) + Len(f)
      BY Zenon, <1>3, <2>1, ConcatProperties
    <2>3. Len(f) \in Nat
      BY Zenon, <2>1, LenProperties
    <2> QED
      BY SMTT(40), <1>3, <2>1, <2>2, <2>3
  <1>6. dispatchQueue' \in Seq(QueuedDispatches) /\ Len(dispatchQueue') <= MaxInflight
    BY <1>1, <1>2, <1>4, FrontRest, LimitsAssumption
  <1>7. QueueType' /\ EnqueueInv' /\ CascadeInv'
    BY Zenon, <1>6
    DEF PullDispatchBatch, TypeInv, TypeOK, QueueType, EnqueueInv, CascadeInv, depVars
  <1>8. LoopType' /\ BatchInv'
    BY Zenon, <1>5 DEF PullDispatchBatch, TypeInv, TypeOK, LoopType, BatchInv, LoopStates
  <1> QED
    BY Zenon, <1>7, <1>8, TypeFrame DEF PullDispatchBatch, TypeInv, TypeOK

LEMMA HandleDispatchedType ==
    ASSUME TypeInv, HandleDispatched PROVE TypeInv'
  <1>1. batch[1].tx \in Txs
    BY EntryType DEF HandleDispatched, TypeInv, TypeOK, LoopType, BatchInv
  <1>2. TxType' /\ inFlightTxns' \subseteq Txs
    <2>1. /\ txState' = [txState EXCEPT ![batch[1].tx] = "Dispatched"] \/ UNCHANGED txState
          /\ UNCHANGED <<signer, prepareID, prepares, running>>
      BY Zenon DEF HandleDispatched
    <2>2. TxType'
      BY Zenon, <1>1, <2>1 DEF TypeInv, TypeOK, TxType, TxStates
    <2>3. inFlightTxns' \subseteq Txs
      BY Zenon, <1>1 DEF HandleDispatched, TypeInv, TypeOK
    <2> QED
      BY Zenon, <2>2, <2>3
  <1>3. LoopType' /\ BatchInv'
    BY Zenon DEF HandleDispatched, TypeInv, TypeOK, LoopType, BatchInv, LoopStates
  <1>4. CascadeInv'
    BY Zenon DEF HandleDispatched, TypeInv, CascadeInv, queueVars, depVars
  <1> QED
    BY Zenon, <1>2, <1>3, <1>4, TypeFrame DEF HandleDispatched, TypeInv, TypeOK

LEMMA CheckDispatchedType ==
    ASSUME TypeInv, CheckDispatched PROVE TypeInv'
  <1>1. batch \in Seq(QueuedDispatches) /\ Len(batch) > 0
    BY Zenon DEF CheckDispatched, TypeInv, TypeOK, LoopType, BatchInv
  <1>2. batch[1] \in QueuedDispatches /\ Tail(batch) \in Seq(QueuedDispatches)
        /\ Len(Tail(batch)) = Len(batch) - 1
    BY <1>1
  <1>3. accepted' \in Seq(QueuedDispatches)
    BY <1>2 DEF CheckDispatched, TypeInv, TypeOK, LoopType
  <1>4. LoopType' /\ BatchInv'
    BY <1>1, <1>2, <1>3
    DEF CheckDispatched, TypeInv, TypeOK, LoopType, BatchInv, LoopStates
  <1>5. CascadeInv'
    BY Zenon DEF CheckDispatched, TypeInv, CascadeInv, queueVars, depVars
  <1> QED
    BY Zenon, <1>4, <1>5, TypeFrame DEF CheckDispatched, TypeInv, TypeOK

LEMMA PersistDispatchBatchType ==
    ASSUME TypeInv, PersistDispatchBatch PROVE TypeInv'
  <1>1. LedgerType'
    BY DEF PersistDispatchBatch, TypeInv, TypeOK, LedgerType, LoopType
  <1>2. LoopType' /\ BatchInv'
    BY Zenon DEF PersistDispatchBatch, TypeInv, TypeOK, LoopType, BatchInv, LoopStates
  <1>3. CascadeInv'
    BY Zenon DEF PersistDispatchBatch, TypeInv, CascadeInv, queueVars, depVars
  <1> QED
    BY Zenon, <1>1, <1>2, <1>3, TypeFrame DEF PersistDispatchBatch, TypeInv, TypeOK

LEMMA PersistAbandonedType ==
    ASSUME TypeInv, PersistAbandoned PROVE TypeInv'
  <1>1. LoopType' /\ BatchInv'
    <2>1. cancelled' \in BOOLEAN
      BY Zenon DEF PersistAbandoned, TypeInv, TypeOK, LoopType
    <2>2. loop' = "select" /\ accepted' = <<>> /\ batch' = batch
      BY Zenon DEF PersistAbandoned
    <2> QED
      BY <2>1, <2>2 DEF TypeInv, TypeOK, LoopType, BatchInv, LoopStates
  <1>2. CascadeInv'
    BY Zenon DEF PersistAbandoned, TypeInv, CascadeInv, queueVars, depVars
  <1> QED
    BY Zenon, <1>1, <1>2, TypeFrame DEF PersistAbandoned, TypeInv, TypeOK

LEMMA HandleChainedChildrenType ==
    ASSUME TypeInv, HandleChainedChildren PROVE TypeInv'
  <1>1. LedgerType'
    <2> PICK k \in 0 .. Len(accepted) :
              handedOff' = handedOff \cup
                 {qd \in Range(Front(accepted, k)) : qd.tx \notin PublicTxs}
      BY Zenon DEF HandleChainedChildren
    <2>1. accepted \in Seq(QueuedDispatches) /\ k \in Nat
      BY DEF TypeInv, TypeOK, LoopType
    <2>2. Front(accepted, k) \in Seq(QueuedDispatches)
      BY Zenon, <2>1, FrontRest
    <2>3. Range(Front(accepted, k)) \subseteq QueuedDispatches
      BY <2>2 DEF Range
    <2> QED
      BY Zenon, <2>3 DEF HandleChainedChildren, TypeInv, TypeOK, LedgerType
  <1>2. LoopType' /\ BatchInv'
    BY DEF HandleChainedChildren, TypeInv, TypeOK, LoopType, BatchInv, LoopStates
  <1>3. CascadeInv'
    BY Zenon DEF HandleChainedChildren, TypeInv, CascadeInv, queueVars, depVars
  <1> QED
    BY Zenon, <1>1, <1>2, <1>3, TypeFrame DEF HandleChainedChildren, TypeInv, TypeOK

LEMMA StopAtSelectType ==
    ASSUME TypeInv, StopAtSelect PROVE TypeInv'
  <1>1. LoopType' /\ BatchInv'
    BY Zenon DEF StopAtSelect, TypeInv, TypeOK, LoopType, BatchInv, LoopStates
  <1>2. CascadeInv'
    BY Zenon DEF StopAtSelect, TypeInv, CascadeInv, queueVars, depVars
  <1> QED
    BY Zenon, <1>1, <1>2, TypeFrame DEF StopAtSelect, TypeInv, TypeOK

LEMMA CapacityExhaustedType ==
    ASSUME TypeInv, CapacityExhausted PROVE TypeInv'
  <1>1. LoopType' /\ BatchInv'
    BY Zenon DEF CapacityExhausted, TypeInv, TypeOK, LoopType, BatchInv, LoopStates
  <1>2. CascadeInv'
    BY Zenon DEF CapacityExhausted, TypeInv, CascadeInv, queueVars, depVars
  <1> QED
    BY Zenon, <1>1, <1>2, TypeFrame DEF CapacityExhausted, TypeInv, TypeOK

LEMMA StopWhileWaitingType ==
    ASSUME TypeInv, StopWhileWaiting PROVE TypeInv'
  <1>1. LoopType' /\ BatchInv'
    BY DEF StopWhileWaiting, TypeInv, TypeOK, LoopType, BatchInv, LoopStates
  <1>2. CascadeInv'
    BY Zenon DEF StopWhileWaiting, TypeInv, CascadeInv, queueVars, depVars
  <1> QED
    BY Zenon, <1>1, <1>2, TypeFrame DEF StopWhileWaiting, TypeInv, TypeOK

\* TypeInv is inductive.
LEMMA TypeStep == TypeInv /\ [Next]_vars => TypeInv'
  <1> SUFFICES ASSUME TypeInv, [Next]_vars PROVE TypeInv'
    BY Zenon
  <1>1. CASE EventLoopNext
    <2>1. \A p \in running : p[1] \in Txs /\ p[2] \in Nat
      BY Zenon DEF TypeInv, TypeOK, TxType
    <2> QED
      BY Zenon, <1>1, <2>1, StartPrepareType, DependencyResetType,
         ChainedDependencyFailedType, HandlerReturnsType, PrepareSucceededType,
         PrepareFailedType, EnqueueUnblockedType, ConfirmedSuccessType,
         ConfirmedRevertedRetryType, ConfirmedRevertedFinalType,
         DispatchedTransitionType, StopType, EpochRotateType,
         RestartDispatchLoopType, CleanUpType, BecomeActiveType
      DEF EventLoopNext, CascadeNext
  <1>2. CASE DispatchLoopNext
    BY Zenon, <1>2, TakeFirstType, StopAtSelectType, PullDispatchBatchType,
       CapacityExhaustedType, StopWhileWaitingType, HandleDispatchedType,
       CheckDispatchedType, PersistDispatchBatchType, PersistAbandonedType,
       HandleChainedChildrenType
    DEF DispatchLoopNext, CapacityFree, CapacityFreed
  <1>3. CASE UNCHANGED vars
    BY Zenon, <1>3, TypeFrame DEF vars, depVars, queueVars, TypeInv, TypeOK
  <1> QED
    BY Zenon, <1>1, <1>2, <1>3 DEF Next

\* The variables always have the types of the fields they model; in particular
\* enqueueForDispatch never puts more on the dispatchQueue channel than it holds.
THEOREM TypeCorrect == Spec => []TypeOK
  <1>1. TypeInv => TypeOK
    BY Zenon DEF TypeInv
  <1> QED
    BY InitType, TypeStep, <1>1, PTL DEF Spec

-----------------------------------------------------------------------------
(* What the event loop leaves to the dispatch loop.                         *)

\* The event loop never takes a dispatch-ahead slot, touches neither the batch
\* nor the database, and moves the dispatch loop only by starting a stopped one.
LEMMA EventLoopFrame ==
    ASSUME TypeInv, EventLoopNext
    PROVE  /\ inFlightTxns' \subseteq inFlightTxns
           /\ UNCHANGED <<batch, accepted, persisted, handedOff>>
           /\ loop' = loop \/ (loop = "stopped" /\ loop' = "select")
  <1> USE DEF coordVars, txVars, depVars, queueVars, loopVars, ledgerVars, eventVars
  <1>1. ASSUME NEW t \in Txs, StartPrepare(t)
        PROVE  UNCHANGED <<inFlightTxns, batch, accepted, persisted, handedOff, loop>>
    BY Zenon, <1>1 DEF StartPrepare
  <1>2. ASSUME NEW t \in Txs, DependencyReset(t)
        PROVE  UNCHANGED <<inFlightTxns, batch, accepted, persisted, handedOff, loop>>
    BY Zenon, <1>2 DEF DependencyReset
  <1>3. ASSUME NEW t \in Txs, ChainedDependencyFailed(t)
        PROVE  /\ UNCHANGED <<batch, accepted, persisted, handedOff, loop>>
               /\ inFlightTxns' \subseteq inFlightTxns
    BY Zenon, <1>3 DEF ChainedDependencyFailed, LeaveDispatched
  <1>4. ASSUME HandlerReturns
        PROVE  /\ UNCHANGED <<batch, accepted, persisted, handedOff, loop>>
               /\ inFlightTxns' \subseteq inFlightTxns
    BY Zenon, <1>4 DEF HandlerReturns, LeaveDispatched
  <1>5. ASSUME NEW t, NEW id, PrepareSucceeded(t, id) \/ PrepareFailed(t, id)
        PROVE  UNCHANGED <<inFlightTxns, batch, accepted, persisted, handedOff, loop>>
    BY Zenon, <1>5 DEF PrepareSucceeded, PrepareFailed
  <1>6. ASSUME EnqueueUnblocked
        PROVE  UNCHANGED <<inFlightTxns, batch, accepted, persisted, handedOff, loop>>
    BY Zenon, <1>6 DEF EnqueueUnblocked
  <1>7. ASSUME NEW i, \/ ConfirmedSuccess(i) \/ ConfirmedRevertedRetry(i)
                      \/ ConfirmedRevertedFinal(i)
        PROVE  /\ UNCHANGED <<batch, accepted, persisted, handedOff, loop>>
               /\ inFlightTxns' \subseteq inFlightTxns
    BY Zenon, <1>7 DEF ConfirmedSuccess, ConfirmedRevertedRetry, ConfirmedRevertedFinal,
                OutcomeDelivered, LeaveDispatched
  <1>8. ASSUME DispatchedTransition \/ RestartDispatchLoop \/ BecomeActive
        PROVE  /\ UNCHANGED <<inFlightTxns, batch, accepted, persisted, handedOff>>
               /\ loop' = loop \/ (loop = "stopped" /\ loop' = "select")
    BY Zenon, <1>8 DEF DispatchedTransition, RestartDispatchLoop, BecomeActive,
                StartDispatchLoop
  <1>9. ASSUME EpochBoundaryReached \/ StepDown \/ EpochRotate
                  \/ CleanUpTransactionsNotYetDispatched
        PROVE  UNCHANGED <<inFlightTxns, batch, accepted, persisted, handedOff, loop>>
    BY Zenon, <1>9 DEF EpochBoundaryReached, StepDown, EpochRotate, StopDispatchLoop,
                CleanUpTransactionsNotYetDispatched
  <1> QED
    BY Zenon, <1>1, <1>2, <1>3, <1>4, <1>5, <1>6, <1>7, <1>8, <1>9
    DEF EventLoopNext, CascadeNext

-----------------------------------------------------------------------------
(* The dispatch-ahead limit.                                                *)

\* The capacity read by awaitDispatchAheadCapacity stays reserved for the batch
\* taken on the strength of it.
SlotInv ==
    /\ InFlightBound
    /\ loop = "handle" => Cardinality(inFlightTxns) + Len(batch) <= MaxDispatchAhead
    /\ loop = "check" =>
          Cardinality(inFlightTxns) + Len(batch) <= MaxDispatchAhead + 1

LEMMA SlotInit == Init => SlotInv
  <1>1. Cardinality({}) = 0
    BY Zenon, FS_EmptySet
  <1> QED
    BY <1>1, LimitsAssumption DEF Init, SlotInv, InFlightBound

LEMMA SlotStep == TypeInv /\ SlotInv /\ [Next]_vars => SlotInv'
  <1> SUFFICES ASSUME TypeInv, SlotInv, [Next]_vars PROVE SlotInv'
    BY Zenon
  <1>1. IsFiniteSet(inFlightTxns) /\ Cardinality(inFlightTxns) \in Nat
    BY Zenon, TxsAssumption, FS_Subset, FS_CardinalityType DEF TypeInv, TypeOK
  <1>2. batch \in Seq(QueuedDispatches) /\ Len(batch) \in Nat
    BY Zenon, LenProperties DEF TypeInv, TypeOK, LoopType
  <1>3. CASE EventLoopNext
    <2>1. Cardinality(inFlightTxns') \in Nat
          /\ Cardinality(inFlightTxns') <= Cardinality(inFlightTxns)
      BY Zenon, <1>1, <1>3, EventLoopFrame, FS_Subset, FS_CardinalityType
    <2>2. batch' = batch /\ (loop' = loop \/ loop' = "select")
      BY Zenon, <1>3, EventLoopFrame
    <2> QED
      BY <1>1, <1>2, <2>1, <2>2, LimitsAssumption DEF SlotInv, InFlightBound
  <1>4. CASE CapacityFree \/ CapacityFreed
    <2>1. Len(batch) = 1 /\ PullDispatchBatch
      BY Zenon, <1>4 DEF CapacityFree, CapacityFreed, TypeInv, BatchInv
    <2> DEFINE f == Front(dispatchQueue, Capacity - 1)
    <2>2. /\ Capacity \in Nat /\ Capacity - 1 \in Nat
          /\ Cardinality(inFlightTxns) + Capacity <= MaxDispatchAhead
      BY Zenon, <2>1, CapacityPositive DEF PullDispatchBatch, TypeInv, TypeOK
    <2>3. f \in Seq(QueuedDispatches) /\ Len(f) <= Capacity - 1 /\ batch' = batch \o f
      BY Zenon, <2>1, <2>2, FrontRest DEF PullDispatchBatch, TypeInv, TypeOK, QueueType
    <2> HIDE DEF f
    <2>4. Len(f) \in Nat /\ Len(batch') = Len(batch) + Len(f)
      BY Zenon, <1>2, <2>3, LenProperties, ConcatProperties
    <2>5. loop' = "handle" /\ inFlightTxns' = inFlightTxns
      BY Zenon, <2>1 DEF PullDispatchBatch
    <2> QED
      BY <1>1, <2>1, <2>2, <2>3, <2>4, <2>5, LimitsAssumption DEF SlotInv, InFlightBound
  <1>5. CASE HandleDispatched
    <2>1. /\ batch' = batch /\ loop = "handle" /\ loop' = "check"
          /\ \/ inFlightTxns' = inFlightTxns
             \/ inFlightTxns' = inFlightTxns \cup {batch[1].tx}
      BY Zenon, <1>5 DEF HandleDispatched
    <2>2. Len(batch) > 0
      BY Zenon, <2>1 DEF TypeInv, BatchInv
    <2>3. /\ Cardinality(inFlightTxns') \in Nat
          /\ Cardinality(inFlightTxns') <= Cardinality(inFlightTxns) + 1
      <3> DEFINE S == inFlightTxns \cup {batch[1].tx}
      <3>1. Cardinality(S) \in Nat /\ Cardinality(S) <= Cardinality(inFlightTxns) + 1
        BY <1>1, FS_AddElement
      <3> HIDE DEF S
      <3>2. inFlightTxns' = inFlightTxns \/ inFlightTxns' = S
        BY Zenon, <2>1 DEF S
      <3> QED
        BY <1>1, <3>1, <3>2
    <2> QED
      BY <1>1, <1>2, <2>1, <2>2, <2>3, LimitsAssumption DEF SlotInv, InFlightBound
  <1>6. CASE CheckDispatched
    <2>1. /\ batch' = Tail(batch) /\ loop = "check" /\ loop' \in {"persist", "handle"}
          /\ inFlightTxns' = inFlightTxns
      BY Zenon, <1>6 DEF CheckDispatched
    <2>2. Len(batch) > 0
      BY Zenon, <2>1 DEF TypeInv, BatchInv
    <2>3. Len(Tail(batch)) = Len(batch) - 1
      BY <1>2, <2>2
    <2> QED
      BY <1>1, <1>2, <2>1, <2>2, <2>3, LimitsAssumption DEF SlotInv, InFlightBound
  <1>7. CASE \/ TakeFirst \/ StopAtSelect \/ CapacityExhausted \/ StopWhileWaiting
             \/ PersistDispatchBatch \/ PersistAbandoned \/ HandleChainedChildren
    <2>1. inFlightTxns' = inFlightTxns /\ loop' \notin {"handle", "check"}
      BY Zenon, <1>7 DEF TakeFirst, StopAtSelect, CapacityExhausted, StopWhileWaiting,
                  PersistDispatchBatch, PersistAbandoned, HandleChainedChildren
    <2> QED
      BY Zenon, <2>1 DEF SlotInv, InFlightBound
  <1>8. CASE UNCHANGED vars
    BY Zenon, <1>8 DEF vars, loopVars, SlotInv, InFlightBound
  <1> QED
    BY Zenon, <1>3, <1>4, <1>5, <1>6, <1>7, <1>8 DEF Next, DispatchLoopNext

\* However far apart the read of the free slots and the dispatch of the batch
\* are, no more than maxDispatchAhead transactions are ever in flight.
THEOREM DispatchAheadLimit == Spec => []InFlightBound
  <1>1. SlotInv => InFlightBound
    BY Zenon DEF SlotInv
  <1> QED
    BY InitType, TypeStep, SlotInit, SlotStep, <1>1, PTL DEF Spec

-----------------------------------------------------------------------------
(* The slots are those of the dispatched transactions.                      *)

Dispatched == {t \in PublicTxs : txState[t] = "Dispatched"}

\* The transactions whose handler has yet to clear their slot.
Leaving == {t \in Txs : \E i \in DOMAIN cascade : cascade[i].tx = t /\ cascade[i].leaving}

\* The transaction whose handler is blocked on the full dispatch queue.
Queueing == {t \in Txs : \E i \in DOMAIN enqueuing : enqueuing[i].tx = t}

\* A slot without a dispatched transaction is one that the event loop is about
\* to clear; the lock its handler holds keeps the dispatch loop from dispatching
\* the transaction again before that.
ExactInv ==
    /\ Dispatched \subseteq inFlightTxns
    /\ inFlightTxns \subseteq Dispatched \cup Leaving
    /\ \A t \in Leaving \cup Queueing : txState[t] # "Dispatched"

LEMMA ExactInit == Init => ExactInv
  <1> SUFFICES ASSUME Init PROVE ExactInv
    BY Zenon
  <1>1. Dispatched = {}
    BY Zenon, TxsAssumption DEF Init, Dispatched
  <1>2. Leaving = {} /\ Queueing = {}
    BY DEF Init, Leaving, Queueing
  <1>3. inFlightTxns = {}
    BY Zenon DEF Init
  <1> QED
    BY Zenon, <1>1, <1>2, <1>3 DEF ExactInv

\* A step that keeps the slots, the frames and who is dispatched.
LEMMA ExactFrame ==
    ASSUME ExactInv, inFlightTxns' = inFlightTxns, Leaving' = Leaving,
           Queueing' \subseteq Queueing,
           \A t \in Txs : txState'[t] = "Dispatched" <=> txState[t] = "Dispatched"
    PROVE  ExactInv'
  <1>1. Dispatched' = Dispatched
    BY Zenon, TxsAssumption DEF Dispatched
  <1> QED
    BY Zenon, <1>1 DEF ExactInv, Leaving, Queueing

\* Nobody is leaving where no handler is notifying.
LEMMA NobodyLeaving ==
    ASSUME TypeInv, eventLoop # "cascade"
    PROVE  Leaving = {}
  <1>1. cascade = <<>>
    BY Zenon DEF TypeInv, CascadeInv
  <1> QED
    BY <1>1 DEF Leaving

\* The innermost frame is replaced, or another is put before it.
LEMMA LeavingTold ==
    ASSUME TypeInv, cascade # <<>>, NEW t \in Txs, NEW u \in Txs,
           NEW kind \in {"reset", "failed"}, NEW todo \in SUBSET Txs,
           cascade' = Told(t) \/ cascade' = <<Notify(u, kind, todo, FALSE)>> \o Told(t)
    PROVE  Leaving' = Leaving
  <1>1. cascade \in Seq(Frames) /\ Len(cascade) \in Nat /\ DOMAIN cascade = 1 .. Len(cascade)
    BY Zenon, LenProperties DEF TypeInv, TypeOK, DepType
  <1>2. /\ Told(t) \in Seq(Frames) /\ Len(Told(t)) = Len(cascade)
        /\ \A i \in 1 .. Len(cascade) : /\ Told(t)[i].tx = cascade[i].tx
                                        /\ Told(t)[i].leaving = cascade[i].leaving
    BY Zenon, <1>1, ToldType
  <1>3. DOMAIN Told(t) = 1 .. Len(cascade)
    BY Zenon, <1>2, LenProperties
  <1>4. CASE cascade' = Told(t)
    BY Zenon, <1>1, <1>2, <1>3, <1>4 DEF Leaving
  <1>5. CASE cascade' = <<Notify(u, kind, todo, FALSE)>> \o Told(t)
    <2> DEFINE f == Notify(u, kind, todo, FALSE)
    <2>1. f \in Frames /\ f.leaving = FALSE
      BY Zenon, NotifyType DEF Notify
    <2> HIDE DEF f
    <2>2. /\ DOMAIN cascade' = 1 .. Len(cascade) + 1 /\ cascade'[1] = f
          /\ \A i \in 1 .. Len(cascade) : cascade'[i + 1] = Told(t)[i]
      <3>1. <<f>> \in Seq(Frames) /\ Len(<<f>>) = 1 /\ <<f>>[1] = f
        BY <2>1
      <3>2. cascade' = <<f>> \o Told(t)
        BY Zenon, <1>5 DEF f
      <3> QED
        BY <1>1, <1>2, <3>1, <3>2, ConcatProperties, LenProperties
    <2>3. ASSUME NEW x \in Txs
          PROVE  (\E i \in DOMAIN cascade' : cascade'[i].tx = x /\ cascade'[i].leaving)
                 <=> (\E i \in DOMAIN cascade : cascade[i].tx = x /\ cascade[i].leaving)
      <3>1. ASSUME NEW i \in DOMAIN cascade', cascade'[i].tx = x, cascade'[i].leaving
            PROVE  \E j \in DOMAIN cascade : cascade[j].tx = x /\ cascade[j].leaving
        <4>1. i # 1
          BY Zenon, <2>1, <2>2, <3>1
        <4>2. i - 1 \in 1 .. Len(cascade) /\ i = (i - 1) + 1
          BY <1>1, <2>2, <4>1
        <4>3. cascade'[i] = Told(t)[i - 1]
          BY Zenon, <2>2, <4>2
        <4> QED
          BY Zenon, <1>1, <1>2, <3>1, <4>2, <4>3
      <3>2. ASSUME NEW i \in DOMAIN cascade, cascade[i].tx = x, cascade[i].leaving
            PROVE  \E j \in DOMAIN cascade' : cascade'[j].tx = x /\ cascade'[j].leaving
        <4>1. i + 1 \in DOMAIN cascade' /\ cascade'[i + 1] = Told(t)[i]
          BY <1>1, <2>2
        <4> QED
          BY Zenon, <1>1, <1>2, <3>2, <4>1
      <3> QED
        BY Zenon, <3>1, <3>2
    <2> QED
      BY Zenon, <2>3 DEF Leaving
  <1> QED
    BY Zenon, <1>4, <1>5

LEMMA CascadeExact ==
    ASSUME TypeInv, ExactInv, CascadeNext
    PROVE  ExactInv'
  <1>0. eventLoop = "cascade" /\ cascade # <<>> /\ cascade \in Seq(Frames)
        /\ txState \in [Txs -> TxStates]
    BY Zenon DEF CascadeNext, DependencyReset, ChainedDependencyFailed, HandlerReturns,
           TypeInv, TypeOK, DepType, TxType, CascadeInv
  <1>q. Queueing' = Queueing
    BY Zenon DEF CascadeNext, DependencyReset, ChainedDependencyFailed, HandlerReturns, queueVars,
           Queueing
  <1>1. ASSUME NEW t \in Txs, DependencyReset(t)
        PROVE  ExactInv'
    <2>1. Dependents(t) \subseteq Txs /\ ChainedDependents(t) \subseteq Txs
      BY Zenon DEF Dependents, ChainedDependents
    <2>2. \/ cascade' = Told(t)
          \/ cascade' = <<Notify(t, "reset", Dependents(t), FALSE)>> \o Told(t)
          \/ cascade' = <<Notify(t, "reset", ChainedDependents(t), FALSE)>> \o Told(t)
      BY Zenon, <1>1 DEF DependencyReset
    <2>3. Leaving' = Leaving
      BY Zenon, <1>0, <2>1, <2>2, LeavingTold
    <2>4. \A u \in Txs : txState'[u] = "Dispatched" <=> txState[u] = "Dispatched"
      BY Zenon, <1>0, <1>1 DEF DependencyReset
    <2>5. inFlightTxns' = inFlightTxns
      BY Zenon, <1>1 DEF DependencyReset
    <2> QED
      BY Zenon, <1>q, <2>3, <2>4, <2>5, ExactFrame
  <1>2. ASSUME NEW t \in Txs, ChainedDependencyFailed(t)
        PROVE  ExactInv'
    <2>1. ChainedDependents(t) \subseteq Txs
      BY Zenon DEF ChainedDependents
    <2>2. \/ cascade' = Told(t)
          \/ cascade' = <<Notify(t, "failed", ChainedDependents(t), FALSE)>> \o Told(t)
      BY Zenon, <1>2 DEF ChainedDependencyFailed
    <2>3. Leaving' = Leaving
      BY Zenon, <1>0, <2>1, <2>2, LeavingTold
    <2>4. CASE txState[t] = "Dispatched"
      <3>1. txState' = [txState EXCEPT ![t] = "Reverted"] /\ inFlightTxns' = inFlightTxns \ {t}
        BY Zenon, <1>2, <2>4 DEF ChainedDependencyFailed, LeaveDispatched
      <3>2. Dispatched' = Dispatched \ {t}
        BY Zenon, <1>0, <3>1, TxsAssumption DEF Dispatched
      <3>3. \A u \in Leaving \cup Queueing : txState'[u] # "Dispatched"
        BY Zenon, <1>0, <3>1 DEF ExactInv, Leaving, Queueing
      <3> QED
        BY Zenon, <1>q, <2>3, <3>1, <3>2, <3>3 DEF ExactInv
    <2>5. CASE txState[t] # "Dispatched"
      <3>1. inFlightTxns' = inFlightTxns
        BY Zenon, <1>2, <2>5 DEF ChainedDependencyFailed
      <3>2. \A u \in Txs : txState'[u] = "Dispatched" <=> txState[u] = "Dispatched"
        BY Zenon, <1>0, <1>2, <2>5 DEF ChainedDependencyFailed
      <3> QED
        BY Zenon, <1>q, <2>3, <3>1, <3>2, ExactFrame
    <2> QED
      BY Zenon, <2>4, <2>5
  <1>3. ASSUME HandlerReturns
        PROVE  ExactInv'
    <2> DEFINE f == cascade[1]
    <2>1. /\ cascade' = Tail(cascade) /\ txState' = txState
          /\ inFlightTxns' = IF f.leaving THEN inFlightTxns \ {f.tx} ELSE inFlightTxns
      BY Zenon, <1>3 DEF HandlerReturns, LeaveDispatched, txVars
    <2>2. /\ Len(cascade) \in Nat \ {0} /\ DOMAIN cascade = 1 .. Len(cascade)
          /\ DOMAIN cascade' = 1 .. Len(cascade) - 1
          /\ \A i \in 1 .. Len(cascade) - 1 : cascade'[i] = cascade[i + 1]
      BY <1>0, <2>1, LenProperties, HeadTailProperties
    <2>3. f.tx \in Txs /\ f.leaving \in BOOLEAN
      <3>1. f \in Frames
        BY <1>0, <2>2, ElementOfSeq
      <3> QED
        BY Zenon, <3>1 DEF Frames
    <2> HIDE DEF f
    <2>4. Leaving' \subseteq Leaving
      <3> SUFFICES ASSUME NEW x \in Txs, NEW i \in DOMAIN cascade', cascade'[i].tx = x,
            cascade'[i].leaving
                   PROVE  \E j \in DOMAIN cascade : cascade[j].tx = x /\ cascade[j].leaving
        BY Zenon DEF Leaving
      <3>1. i + 1 \in DOMAIN cascade /\ cascade'[i] = cascade[i + 1]
        BY <2>2
      <3> QED
        BY Zenon, <3>1
    <2>5. Leaving \subseteq Leaving' \cup (IF f.leaving THEN {f.tx} ELSE {})
      <3> SUFFICES ASSUME NEW x \in Txs, NEW i \in DOMAIN cascade, cascade[i].tx = x,
            cascade[i].leaving,
                          ~(f.leaving /\ x = f.tx)
                   PROVE  \E j \in DOMAIN cascade' : cascade'[j].tx = x /\ cascade'[j].leaving
        BY Zenon DEF Leaving
      <3>1. i # 1
        BY Zenon DEF f
      <3>2. i - 1 \in DOMAIN cascade' /\ (i - 1) + 1 = i /\ i - 1 \in 1 .. Len(cascade) - 1
        BY <2>2, <3>1
      <3>3. cascade'[i - 1] = cascade[i]
        BY Zenon, <2>2, <3>2
      <3> QED
        BY Zenon, <3>2, <3>3
    <2>6. f.leaving => f.tx \notin Dispatched
      <3>1. 1 \in DOMAIN cascade
        BY <2>2
      <3> QED
        BY Zenon, <2>3, <3>1 DEF f, ExactInv, Leaving, Dispatched
    <2>7. Dispatched' = Dispatched
      BY Zenon, <2>1 DEF Dispatched
    <2>8. \A u \in Leaving' \cup Queueing' : txState'[u] # "Dispatched"
      BY Zenon, <1>q, <2>1, <2>4 DEF ExactInv
    <2> QED
      BY Zenon, <2>1, <2>5, <2>6, <2>7, <2>8 DEF ExactInv
  <1> QED
    BY Zenon, <1>1, <1>2, <1>3 DEF CascadeNext

\* A public transaction that leaves Dispatched has its slot cleared at once, or
\* by the handler that has just begun.
LEMMA OutcomeExact ==
    ASSUME TypeInv, ExactInv, NEW i \in DOMAIN persisted,
           ConfirmedSuccess(i) \/ ConfirmedRevertedRetry(i) \/ ConfirmedRevertedFinal(i)
    PROVE  ExactInv'
  <1> DEFINE t == persisted[i].tx
  <1>1. t \in Txs /\ txState \in [Txs -> TxStates]
    BY Zenon, EntryType DEF TypeInv, TypeOK, TxType, LedgerType
  <1>2. eventLoop = "idle"
    BY Zenon DEF ConfirmedSuccess, ConfirmedRevertedRetry, ConfirmedRevertedFinal, OutcomeDelivered,
           MainEvent
  <1>3. Leaving = {} /\ cascade = <<>>
    BY Zenon, <1>2, NobodyLeaving DEF TypeInv, CascadeInv
  <1>4. inFlightTxns = Dispatched
    BY Zenon, <1>3 DEF ExactInv
  <1>q. Queueing' = Queueing
    BY Zenon DEF ConfirmedSuccess, ConfirmedRevertedRetry, ConfirmedRevertedFinal, OutcomeDelivered,
           Queueing
  <1>5. CASE txState[t] # "Dispatched"
    <2>1. UNCHANGED <<txState, inFlightTxns, cascade>>
      BY Zenon, <1>5 DEF ConfirmedSuccess, ConfirmedRevertedRetry, ConfirmedRevertedFinal
    <2>2. Leaving' = Leaving
      BY Zenon, <2>1 DEF Leaving
    <2> QED
      BY Zenon, <1>q, <2>1, <2>2, ExactFrame
  <1>6. CASE txState[t] = "Dispatched" /\ ConfirmedSuccess(i)
    <2>1. txState' = [txState EXCEPT ![t] = "Confirmed"] /\ inFlightTxns' = inFlightTxns \ {t}
          /\ cascade' = cascade
      BY Zenon, <1>6 DEF ConfirmedSuccess, LeaveDispatched
    <2>2. Dispatched' = Dispatched \ {t} /\ Leaving' = {}
      BY Zenon, <1>1, <1>3, <2>1, TxsAssumption DEF Dispatched, Leaving
    <2>3. \A u \in Queueing : txState'[u] # "Dispatched"
      BY Zenon, <1>1, <2>1 DEF ExactInv, Queueing
    <2> QED
      BY Zenon, <1>4, <1>q, <2>1, <2>2, <2>3 DEF ExactInv
  <1>7. CASE txState[t] = "Dispatched" /\ (ConfirmedRevertedRetry(i) \/ ConfirmedRevertedFinal(i))
    <2>1. /\ \/ txState' = [txState EXCEPT ![t] = "Pooled"]
             \/ txState' = [txState EXCEPT ![t] = "Reverted"]
          /\ inFlightTxns' = inFlightTxns
          /\ \/ cascade' = <<Notify(t, "reset", Dependents(t), TRUE)>>
             \/ cascade' = <<Notify(t, "reset", ChainedDependents(t), TRUE),
                             Notify(t, "failed", ChainedDependents(t), FALSE)>>
      BY Zenon, <1>7 DEF ConfirmedRevertedRetry, ConfirmedRevertedFinal
    <2> HIDE DEF t
    <2>2. Dispatched' = Dispatched \ {t}
      BY Zenon, <1>1, <2>1, TxsAssumption DEF Dispatched
    <2>3. Leaving' = {t}
      BY <1>1, <2>1 DEF Leaving, Notify
    <2>4. \A u \in {t} \cup Queueing : txState'[u] # "Dispatched"
      BY Zenon, <1>1, <2>1 DEF ExactInv, Queueing
    <2> QED
      BY Zenon, <1>4, <1>q, <2>1, <2>2, <2>3, <2>4 DEF ExactInv
  <1> QED
    BY Zenon, <1>5, <1>6, <1>7

LEMMA ExactStep == TypeInv /\ ExactInv /\ [Next]_vars => ExactInv'
  <1> SUFFICES ASSUME TypeInv, ExactInv, [Next]_vars PROVE ExactInv'
    BY Zenon
  <1>0. txState \in [Txs -> TxStates] /\ running \subseteq Txs \X Nat
    BY Zenon DEF TypeInv, TypeOK, TxType
  <1>1. ASSUME NEW t \in Txs, StartPrepare(t)
        PROVE  ExactInv'
    <2>1. inFlightTxns' = inFlightTxns /\ Leaving' = Leaving /\ Queueing' = Queueing
      BY Zenon, <1>1 DEF StartPrepare, queueVars, Leaving, Queueing
    <2>2. \A u \in Txs : txState'[u] = "Dispatched" <=> txState[u] = "Dispatched"
      BY Zenon, <1>0, <1>1 DEF StartPrepare
    <2> QED
      BY Zenon, <2>1, <2>2, ExactFrame
  <1>2. CASE CascadeNext
    BY Zenon, <1>2, CascadeExact
  <1>3. ASSUME NEW p \in running, PrepareSucceeded(p[1], p[2])
        PROVE  ExactInv'
    <2>1. inFlightTxns' = inFlightTxns /\ Leaving' = Leaving
      BY Zenon, <1>3 DEF PrepareSucceeded, depVars, Leaving
    <2>2. CASE eventLoop' = "enqueue"
      <3>1. /\ txState' = txState /\ txState[p[1]] = "Preparing"
            /\ enqueuing' = <<PreparedDispatch(p[1], p[2])>>
        BY Zenon, <1>3, <2>2 DEF PrepareSucceeded, queueVars
      <3>2. Queueing' \subseteq {p[1]}
        BY <3>1 DEF Queueing, PreparedDispatch
      <3>3. Dispatched' = Dispatched
        BY Zenon, <3>1 DEF Dispatched
      <3> QED
        BY Zenon, <2>1, <3>1, <3>2, <3>3 DEF ExactInv
    <2>3. CASE eventLoop' # "enqueue"
      <3>1. Queueing' = Queueing
        BY Zenon, <1>3, <2>3 DEF PrepareSucceeded, queueVars, Queueing
      <3>2. \/ txState' = txState
            \/ txState[p[1]] = "Preparing" /\ txState' = [txState EXCEPT ![p[1]] = "Ready_For_Dispatch"]
        BY Zenon, <1>3, <2>3 DEF PrepareSucceeded, Enqueue, PreparedDispatch
      <3>3. \A u \in Txs : txState'[u] = "Dispatched" <=> txState[u] = "Dispatched"
        BY Zenon, <1>0, <3>2
      <3> QED
        BY Zenon, <2>1, <3>1, <3>3, ExactFrame
    <2> QED
      BY Zenon, <2>2, <2>3
  <1>4. ASSUME NEW p \in running, PrepareFailed(p[1], p[2])
        PROVE  ExactInv'
    <2>1. /\ inFlightTxns' = inFlightTxns
          /\ cascade' = cascade \/ cascade' = <<Notify(p[1], "reset", Dependents(p[1]), FALSE)>>
      BY Zenon, <1>4 DEF PrepareFailed
    <2>2. Leaving = {}
      BY Zenon, <1>4, NobodyLeaving DEF PrepareFailed
    <2>3. Leaving' = Leaving /\ Queueing' = Queueing
      BY <1>4, <2>1, <2>2 DEF PrepareFailed, Leaving, Queueing, Notify
    <2>4. \A u \in Txs : txState'[u] = "Dispatched" <=> txState[u] = "Dispatched"
      BY Zenon, <1>0, <1>4 DEF PrepareFailed
    <2> QED
      BY Zenon, <2>1, <2>3, <2>4, ExactFrame
  <1>5. CASE EnqueueUnblocked
    <2> DEFINE t == enqueuing[1].tx
    <2>1. inFlightTxns' = inFlightTxns /\ Leaving' = Leaving /\ Queueing' = {}
      BY <1>5 DEF EnqueueUnblocked, depVars, Leaving, Queueing
    <2>2. txState' = [txState EXCEPT ![t] = "Ready_For_Dispatch"]
      BY Zenon, <1>5 DEF EnqueueUnblocked, Enqueue
    <2>3. t \in Txs => t \in Queueing
      <3>1. enqueuing \in Seq(QueuedDispatches) /\ Len(enqueuing) = 1
        BY Zenon, <1>5 DEF EnqueueUnblocked, TypeInv, TypeOK, QueueType, EnqueueInv
      <3>2. 1 \in DOMAIN enqueuing
        BY <3>1, LenProperties
      <3> QED
        BY Zenon, <3>2 DEF Queueing
    <2> HIDE DEF t
    <2>4. \A u \in Txs : txState'[u] = "Dispatched" <=> txState[u] = "Dispatched"
      BY Zenon, <1>0, <2>2, <2>3 DEF ExactInv
    <2> QED
      BY Zenon, <2>1, <2>4, ExactFrame
  <1>6. ASSUME NEW i \in DOMAIN persisted,
               ConfirmedSuccess(i) \/ ConfirmedRevertedRetry(i) \/ ConfirmedRevertedFinal(i)
        PROVE  ExactInv'
    BY Zenon, <1>6, OutcomeExact
  <1>7. CASE \/ DispatchedTransition \/ EpochBoundaryReached \/ EpochRotate \/ RestartDispatchLoop
             \/ StepDown \/ BecomeActive
    <2>1. UNCHANGED <<inFlightTxns, txState>> /\ Leaving' = Leaving /\ Queueing' = Queueing
      BY Zenon, <1>7 DEF DispatchedTransition, EpochBoundaryReached, EpochRotate,
         RestartDispatchLoop,
                  StepDown, BecomeActive, StopDispatchLoop, depVars, txVars, queueVars, Leaving,
                    Queueing
    <2> QED
      BY Zenon, <2>1, ExactFrame
  <1>8. CASE CleanUpTransactionsNotYetDispatched
    <2>1. inFlightTxns' = inFlightTxns /\ Leaving' = Leaving /\ Queueing' = Queueing
      BY Zenon, <1>8 DEF CleanUpTransactionsNotYetDispatched, Leaving, Queueing
    <2>2. \A u \in Txs : txState'[u] = "Dispatched" <=> txState[u] = "Dispatched"
      BY Zenon, <1>0, <1>8 DEF CleanUpTransactionsNotYetDispatched
    <2> QED
      BY Zenon, <2>1, <2>2, ExactFrame
  <1>9. CASE HandleDispatched
    <2> DEFINE t == batch[1].tx
    <2>1. Leaving' = Leaving /\ Queueing' = Queueing
      BY Zenon, <1>9 DEF HandleDispatched, depVars, queueVars, Leaving, Queueing
    <2>2. t \in Txs
      <3>1. batch \in Seq(QueuedDispatches) /\ Len(batch) > 0
        BY Zenon, <1>9 DEF HandleDispatched, TypeInv, TypeOK, LoopType, BatchInv
      <3>2. 1 \in DOMAIN batch
        BY <3>1, LenProperties
      <3> QED
        BY Zenon, <3>1, <3>2, EntryType
    <2>3. t \notin Leaving /\ t \notin Queueing
      BY Zenon, <1>9 DEF HandleDispatched, Locked, Leaving, Queueing
    <2>4. CASE txState[t] = "Ready_For_Dispatch"
      <3>1. txState' = [txState EXCEPT ![t] = "Dispatched"]
            /\ inFlightTxns' = IF t \in PublicTxs THEN inFlightTxns \cup {t} ELSE inFlightTxns
        BY Zenon, <1>9, <2>4 DEF HandleDispatched
      <3> HIDE DEF t
      <3>2. Dispatched' = IF t \in PublicTxs THEN Dispatched \cup {t} ELSE Dispatched
        BY Zenon, <1>0, <2>2, <3>1, TxsAssumption DEF Dispatched
      <3>3. \A u \in Leaving \cup Queueing : txState'[u] # "Dispatched"
        BY Zenon, <1>0, <2>3, <3>1 DEF ExactInv, Leaving, Queueing
      <3> QED
        BY Zenon, <2>1, <3>1, <3>2, <3>3 DEF ExactInv
    <2>5. CASE txState[t] # "Ready_For_Dispatch"
      <3>1. UNCHANGED <<txState, inFlightTxns>>
        BY Zenon, <1>9, <2>5 DEF HandleDispatched
      <3> QED
        BY Zenon, <2>1, <3>1, ExactFrame
    <2> QED
      BY Zenon, <2>4, <2>5
  <1>10. CASE \/ TakeFirst \/ StopAtSelect \/ CapacityFree \/ CapacityExhausted \/ CapacityFreed
              \/ StopWhileWaiting \/ CheckDispatched \/ PersistDispatchBatch \/ PersistAbandoned
              \/ HandleChainedChildren
    <2>1. UNCHANGED <<inFlightTxns, cascade, enqueuing, txState>>
      BY Zenon, <1>10 DEF TakeFirst, StopAtSelect, CapacityFree, CapacityExhausted, CapacityFreed,
                   PullDispatchBatch, StopWhileWaiting, CheckDispatched, PersistDispatchBatch,
                   PersistAbandoned, HandleChainedChildren, depVars, txVars, queueVars
    <2> QED
      BY Zenon, <2>1, ExactFrame DEF Leaving, Queueing
  <1>11. CASE UNCHANGED vars
    <2>1. UNCHANGED <<inFlightTxns, cascade, enqueuing, txState>>
      BY Zenon, <1>11 DEF vars, depVars, txVars, queueVars
    <2> QED
      BY Zenon, <2>1, ExactFrame DEF Leaving, Queueing
  <1> QED
    BY Zenon, <1>1, <1>2, <1>3, <1>4, <1>5, <1>6, <1>7, <1>8, <1>9, <1>10, <1>11
    DEF Next, EventLoopNext, DispatchLoopNext

\* inFlightTxns, which both goroutines write, holds the public transactions in
\* State_Dispatched and, while dependents are being told of a revert, those on
\* their way out of it: no more slots are free than there are, and between
\* events no fewer.
THEOREM ExactSlots == Spec => []InFlightExact
  <1>1. TypeInv /\ ExactInv => InFlightExact
    BY Zenon, NobodyLeaving DEF ExactInv, InFlightExact, Dispatched
  <1> QED
    BY InitType, TypeStep, ExactInit, ExactStep, <1>1, PTL DEF Spec

-----------------------------------------------------------------------------
(* Children are submitted after their parent's dispatch is committed.       *)

\* The batch whose children are being handled has been committed.
ChildrenInv ==
    /\ ChildrenAfterPersist
    /\ loop = "children" => Range(accepted) \subseteq Range(persisted)

\* Appending to a sequence adds to its range.
LEMMA ConcatRange ==
    ASSUME NEW S, NEW s \in Seq(S), NEW u \in Seq(S)
    PROVE  Range(s) \subseteq Range(s \o u) /\ Range(u) \subseteq Range(s \o u)
  <1>1. ASSUME NEW i \in DOMAIN s PROVE s[i] \in Range(s \o u)
    BY <1>1 DEF Range
  <1>2. ASSUME NEW i \in DOMAIN u PROVE u[i] \in Range(s \o u)
    <2>1. Len(s) + i \in DOMAIN (s \o u) /\ (s \o u)[Len(s) + i] = u[i]
      BY <1>2
    <2> QED
      BY Zenon, <2>1 DEF Range
  <1> QED
    BY Zenon, <1>1, <1>2 DEF Range

LEMMA ChildrenStep == TypeInv /\ ChildrenInv /\ [Next]_vars => ChildrenInv'
  <1> SUFFICES ASSUME TypeInv, ChildrenInv, [Next]_vars PROVE ChildrenInv'
    BY Zenon
  <1>1. CASE EventLoopNext
    BY Zenon, <1>1, EventLoopFrame DEF ChildrenInv, ChildrenAfterPersist
  <1>2. CASE PersistDispatchBatch
    <2>1. /\ persisted' = persisted \o accepted /\ accepted' = accepted
          /\ handedOff' = handedOff
      BY Zenon, <1>2 DEF PersistDispatchBatch
    <2>2. /\ Range(persisted) \subseteq Range(persisted \o accepted)
          /\ Range(accepted) \subseteq Range(persisted \o accepted)
      BY Zenon, ConcatRange DEF TypeInv, TypeOK, LoopType, LedgerType
    <2> QED
      BY Zenon, <2>1, <2>2 DEF ChildrenInv, ChildrenAfterPersist
  <1>3. CASE HandleChainedChildren
    <2> PICK k \in 0 .. Len(accepted) :
              handedOff' = handedOff \cup
                 {qd \in Range(Front(accepted, k)) : qd.tx \notin PublicTxs}
      BY Zenon, <1>3 DEF HandleChainedChildren
    <2>1. accepted \in Seq(QueuedDispatches) /\ k \in Nat
      BY DEF TypeInv, TypeOK, LoopType
    <2>2. Range(Front(accepted, k)) \subseteq Range(accepted)
      BY <2>1, FrontRest DEF Range
    <2>3. loop = "children" /\ loop' = "select" /\ persisted' = persisted
      BY Zenon, <1>3 DEF HandleChainedChildren
    <2> QED
      BY Zenon, <2>2, <2>3 DEF ChildrenInv, ChildrenAfterPersist
  <1>4. CASE \/ TakeFirst \/ StopAtSelect \/ CapacityFree \/ CapacityExhausted
             \/ CapacityFreed \/ StopWhileWaiting \/ HandleDispatched
             \/ CheckDispatched \/ PersistAbandoned
    <2>1. UNCHANGED <<persisted, handedOff>> /\ loop' # "children"
      BY Zenon, <1>4 DEF TakeFirst, StopAtSelect, CapacityFree, CapacityExhausted,
                  CapacityFreed, StopWhileWaiting, HandleDispatched, CheckDispatched,
                  PersistAbandoned, PullDispatchBatch, ledgerVars
    <2> QED
      BY Zenon, <2>1 DEF ChildrenInv, ChildrenAfterPersist
  <1>5. CASE UNCHANGED vars
    BY Zenon, <1>5 DEF vars, loopVars, ledgerVars, ChildrenInv, ChildrenAfterPersist
  <1> QED
    BY Zenon, <1>1, <1>2, <1>3, <1>4, <1>5 DEF Next, DispatchLoopNext

\* Whatever commits fail and whenever the loop is stopped, handleChainedChildren
\* submits children of committed dispatches only.
THEOREM ChildrenAfterCommit == Spec => []ChildrenAfterPersist
  <1>1. Init => ChildrenInv
    BY Zenon DEF Init, ChildrenInv, ChildrenAfterPersist
  <1>2. ChildrenInv => ChildrenAfterPersist
    BY Zenon DEF ChildrenInv
  <1> QED
    BY InitType, TypeStep, <1>1, ChildrenStep, <1>2, PTL DEF Spec

-----------------------------------------------------------------------------
(* Dispatch only while Active.                                              *)

\* The dispatch loop runs only while the coordinator is Active: every exit from
\* State_Active waits for it to be done.
ActiveInv == loop # "stopped" => coordinatorState = "Active"

\* The event loop takes no transaction to State_Dispatched, and leaves Active
\* only when the dispatch loop has stopped.
LEMMA EventLoopActive ==
    ASSUME TypeInv, ActiveInv, EventLoopNext
    PROVE  /\ ActiveInv'
           /\ \A t \in Txs : txState'[t] = "Dispatched" => txState[t] = "Dispatched"
  <1> DEFINE NoneDispatched ==
        \A t \in Txs : txState'[t] = "Dispatched" => txState[t] = "Dispatched"
  <1> USE DEF coordVars, txVars, depVars, queueVars, loopVars, ledgerVars, eventVars
  <1>0. txState \in [Txs -> TxStates]
    BY Zenon DEF TypeInv, TypeOK, TxType
  <1>1. ASSUME NEW t \in Txs, StartPrepare(t)
        PROVE  UNCHANGED <<loop, coordinatorState>> /\ NoneDispatched
    BY Zenon, <1>0, <1>1 DEF StartPrepare
  <1>2. ASSUME NEW t \in Txs, DependencyReset(t)
        PROVE  UNCHANGED <<loop, coordinatorState>> /\ NoneDispatched
    <2>1. txState' = [txState EXCEPT ![t] = "Pooled"] \/ UNCHANGED txState
      BY Zenon, <1>2 DEF DependencyReset
    <2> QED
      BY Zenon, <1>0, <1>2, <2>1 DEF DependencyReset
  <1>3. ASSUME NEW t \in Txs, ChainedDependencyFailed(t)
        PROVE  UNCHANGED <<loop, coordinatorState>> /\ NoneDispatched
    <2>1. txState' = [txState EXCEPT ![t] = "Reverted"] \/ UNCHANGED txState
      BY Zenon, <1>3 DEF ChainedDependencyFailed
    <2> QED
      BY Zenon, <1>0, <1>3, <2>1 DEF ChainedDependencyFailed
  <1>4. ASSUME HandlerReturns
        PROVE  UNCHANGED <<loop, coordinatorState>> /\ NoneDispatched
    BY Zenon, <1>4 DEF HandlerReturns
  <1>5. ASSUME NEW t, NEW id, PrepareSucceeded(t, id) \/ PrepareFailed(t, id)
        PROVE  UNCHANGED <<loop, coordinatorState>> /\ NoneDispatched
    <2>1. \/ txState' = [txState EXCEPT ![t] = "Pooled"]
          \/ txState' = [txState EXCEPT ![t] = "Ready_For_Dispatch"]
          \/ UNCHANGED txState
      BY Zenon, <1>5 DEF PrepareSucceeded, PrepareFailed, Enqueue, PreparedDispatch
    <2> QED
      BY Zenon, <1>0, <1>5, <2>1 DEF PrepareSucceeded, PrepareFailed
  <1>6. ASSUME EnqueueUnblocked
        PROVE  UNCHANGED <<loop, coordinatorState>> /\ NoneDispatched
    BY Zenon, <1>0, <1>6 DEF EnqueueUnblocked, Enqueue
  <1>7. ASSUME NEW i, \/ ConfirmedSuccess(i) \/ ConfirmedRevertedRetry(i)
                      \/ ConfirmedRevertedFinal(i)
        PROVE  UNCHANGED <<loop, coordinatorState>> /\ NoneDispatched
    <2>1. \/ \E s \in {"Confirmed", "Pooled", "Reverted"} :
                txState' = [txState EXCEPT ![persisted[i].tx] = s]
          \/ UNCHANGED txState
      BY Zenon, <1>7 DEF ConfirmedSuccess, ConfirmedRevertedRetry, ConfirmedRevertedFinal
    <2> QED
      BY Zenon, <1>0, <1>7, <2>1 DEF ConfirmedSuccess, ConfirmedRevertedRetry,
         ConfirmedRevertedFinal, OutcomeDelivered
  <1>8. ASSUME DispatchedTransition \/ RestartDispatchLoop \/ BecomeActive
        PROVE  ActiveInv' /\ NoneDispatched
    BY Zenon, <1>8 DEF DispatchedTransition, RestartDispatchLoop, BecomeActive,
                StartDispatchLoop, ActiveInv
  <1>9. ASSUME EpochBoundaryReached \/ StepDown \/ EpochRotate
                  \/ CleanUpTransactionsNotYetDispatched
        PROVE  ActiveInv' /\ NoneDispatched
    BY Zenon, <1>9 DEF EpochBoundaryReached, StepDown, EpochRotate, StopDispatchLoop,
                CleanUpTransactionsNotYetDispatched, DispatchLoopDone, ActiveInv
  <1> QED
    BY Zenon, <1>1, <1>2, <1>3, <1>4, <1>5, <1>6, <1>7, <1>8, <1>9
    DEF EventLoopNext, CascadeNext, ActiveInv

LEMMA ActiveStep == TypeInv /\ ActiveInv /\ [Next]_vars => ActiveInv'
  <1> SUFFICES ASSUME TypeInv, ActiveInv, [Next]_vars PROVE ActiveInv'
    BY Zenon
  <1>1. CASE EventLoopNext
    BY Zenon, <1>1, EventLoopActive
  <1>2. CASE DispatchLoopNext
    <2>1. coordinatorState' = coordinatorState /\ (loop' # "stopped" => loop # "stopped")
      BY Zenon, <1>2 DEF DispatchLoopNext, TakeFirst, StopAtSelect, CapacityFree,
         CapacityExhausted, CapacityFreed, StopWhileWaiting, HandleDispatched,
         CheckDispatched, PersistDispatchBatch, PersistAbandoned,
         HandleChainedChildren, PullDispatchBatch, coordVars
    <2> QED
      BY Zenon, <2>1 DEF ActiveInv
  <1>3. CASE UNCHANGED vars
    BY Zenon, <1>3 DEF vars, coordVars, loopVars, ActiveInv
  <1> QED
    BY Zenon, <1>1, <1>2, <1>3 DEF Next

\* Only the dispatch loop takes a transaction to State_Dispatched.
LEMMA DispatchStep ==
    TypeInv /\ ActiveInv /\ [Next]_vars
      => [\A t \in Txs : txState[t] # "Dispatched" /\ txState'[t] = "Dispatched"
                            => coordinatorState = "Active"]_vars
  <1> SUFFICES ASSUME TypeInv, ActiveInv, [Next]_vars, NEW t \in Txs,
                      txState[t] # "Dispatched", txState'[t] = "Dispatched"
               PROVE  coordinatorState = "Active"
    BY Zenon
  <1>1. CASE EventLoopNext
    BY Zenon, <1>1, EventLoopActive
  <1>2. CASE HandleDispatched
    BY Zenon, <1>2 DEF HandleDispatched, ActiveInv
  <1>3. CASE \/ TakeFirst \/ StopAtSelect \/ CapacityFree \/ CapacityExhausted
             \/ CapacityFreed \/ StopWhileWaiting \/ CheckDispatched
             \/ PersistDispatchBatch \/ PersistAbandoned \/ HandleChainedChildren
    <2>1. txState' = txState
      BY Zenon, <1>3 DEF TakeFirst, StopAtSelect, CapacityFree, CapacityExhausted,
         CapacityFreed, StopWhileWaiting, CheckDispatched, PersistDispatchBatch,
         PersistAbandoned, HandleChainedChildren, PullDispatchBatch, txVars
    <2> QED
      BY Zenon, <2>1
  <1>4. CASE UNCHANGED vars
    BY Zenon, <1>4 DEF vars, txVars
  <1> QED
    BY Zenon, <1>1, <1>2, <1>3, <1>4 DEF Next, DispatchLoopNext

\* A flush and a step-down never see a transaction become dispatched behind
\* their back: transactions enter State_Dispatched only while the coordinator is
\* Active.
THEOREM NoDispatchAfterStop == Spec => DispatchOnlyWhenActive
  <1>1. Init => ActiveInv
    BY Zenon DEF Init, ActiveInv
  <1> QED
    BY InitType, TypeStep, <1>1, ActiveStep, DispatchStep, PTL
    DEF Spec, DispatchOnlyWhenActive

-----------------------------------------------------------------------------
(* The order of queueing is the order of insertion.                         *)

\* The dispatches are numbered in increasing order along a sequence, and those
\* of one sequence come before those of another.
Increasing(s) == \A i, j \in DOMAIN s : i < j => s[i].n < s[j].n
Before(s, u) == \A i \in DOMAIN s, j \in DOMAIN u : s[i].n < u[j].n
UpTo(s, k) == \A i \in DOMAIN s : s[i].n <= k

\* The dispatch enqueueForDispatch is blocked on is the next one.
EnqueuingInv ==
    /\ eventLoop # "enqueue" => enqueuing = <<>>
    /\ \A i \in DOMAIN enqueuing : enqueuing[i].n = enqueued + 1

\* On its way to the database a dispatch passes from the queue to the batch, to
\* the accepted dispatches, to the persisted ones: none overtakes another.
OrderInv ==
    /\ Increasing(persisted) /\ Increasing(accepted)
    /\ Increasing(batch) /\ Increasing(dispatchQueue)
    /\ loop # "children" => Before(persisted, accepted)
    /\ Before(persisted, batch) /\ Before(persisted, dispatchQueue)
    /\ Before(accepted, batch) /\ Before(accepted, dispatchQueue)
    /\ Before(batch, dispatchQueue)
    /\ UpTo(persisted, enqueued) /\ UpTo(accepted, enqueued)
    /\ UpTo(batch, enqueued) /\ UpTo(dispatchQueue, enqueued)
    /\ EnqueuingInv

\* The number of a dispatch is a number.
LEMMA Numbered ==
    ASSUME NEW s \in Seq(QueuedDispatches)
    PROVE  /\ \A i \in DOMAIN s : s[i].n \in Nat
           /\ Len(s) \in Nat /\ DOMAIN s = 1 .. Len(s)
  <1>1. \A i \in DOMAIN s : s[i] \in QueuedDispatches
    OBVIOUS
  <1> QED
    BY Zenon, <1>1, LenProperties DEF QueuedDispatches

\* A dispatch numbered above all those queued can be queued.
LEMMA AppendOrder ==
    ASSUME NEW s \in Seq(QueuedDispatches), NEW qd \in QueuedDispatches,
           NEW k \in Nat, qd.n = k + 1, Increasing(s), UpTo(s, k)
    PROVE  /\ Increasing(Append(s, qd))
           /\ UpTo(Append(s, qd), k + 1)
           /\ \A r \in Seq(QueuedDispatches) :
                 Before(r, s) /\ UpTo(r, k) => Before(r, Append(s, qd))
  <1>1. /\ DOMAIN Append(s, qd) = 1 .. Len(s) + 1 /\ Len(s) \in Nat
        /\ \A i \in 1 .. Len(s) : Append(s, qd)[i] = s[i]
        /\ Append(s, qd)[Len(s) + 1] = qd
        /\ DOMAIN s = 1 .. Len(s)
    OBVIOUS
  <1>2. \A i \in 1 .. Len(s) : s[i].n \in Nat /\ s[i].n < k + 1
    BY <1>1, Numbered DEF UpTo
  <1> DEFINE a == Append(s, qd)
  <1> HIDE DEF a
  <1>3. \A i \in 1 .. Len(s) + 1 : i = Len(s) + 1 \/ i \in 1 .. Len(s)
    BY <1>1
  <1>4. \A i \in 1 .. Len(s) + 1 : a[i].n \in Nat /\ a[i].n <= k + 1
    BY <1>1, <1>2, <1>3 DEF a
  <1>5. Increasing(a)
    BY <1>1, <1>2, <1>3 DEF Increasing, a
  <1>6. UpTo(a, k + 1)
    BY Zenon, <1>1, <1>4 DEF UpTo, a
  <1>7. ASSUME NEW r \in Seq(QueuedDispatches), Before(r, s), UpTo(r, k)
        PROVE  Before(r, a)
    <2>1. \A i \in DOMAIN r : r[i].n \in Nat /\ r[i].n < k + 1
      BY <1>7, Numbered DEF UpTo
    <2> QED
      BY Zenon, <1>1, <1>3, <1>7, <2>1 DEF Before, a
  <1> QED
    BY Zenon, <1>5, <1>6, <1>7 DEF a

\* A higher count bounds what a lower one bounded.
LEMMA UpToMonotone ==
    ASSUME NEW s \in Seq(QueuedDispatches), NEW k \in Nat, UpTo(s, k)
    PROVE  UpTo(s, k + 1)
  BY Numbered DEF UpTo

\* What the event loop does to the queue: nothing, the next dispatch is
\* appended to it, or a step-down drains it.
LEMMA EventLoopQueue ==
    ASSUME TypeInv, EnqueuingInv, EventLoopNext
    PROVE  /\ EnqueuingInv'
           /\ \/ UNCHANGED <<dispatchQueue, enqueued>>
              \/ dispatchQueue' = <<>> /\ UNCHANGED enqueued
              \/ \E qd \in QueuedDispatches :
                    /\ qd.n = enqueued + 1
                    /\ dispatchQueue' = Append(dispatchQueue, qd)
                    /\ enqueued' = enqueued + 1
  <1> USE DEF coordVars, txVars, depVars, queueVars, loopVars, ledgerVars, eventVars
  <1>1. ASSUME NEW t \in Txs,
               StartPrepare(t) \/ DependencyReset(t) \/ ChainedDependencyFailed(t)
        PROVE  UNCHANGED <<eventLoop, enqueuing, dispatchQueue, enqueued>>
    BY Zenon, <1>1 DEF StartPrepare, DependencyReset, ChainedDependencyFailed
  <1>2. ASSUME HandlerReturns
        PROVE  UNCHANGED <<dispatchQueue, enqueued>> /\ EnqueuingInv'
    BY Zenon, <1>2 DEF HandlerReturns, EnqueuingInv
  <1>3. ASSUME NEW t \in Txs, NEW id \in Nat, PrepareFailed(t, id)
        PROVE  UNCHANGED <<dispatchQueue, enqueued>> /\ EnqueuingInv'
    BY Zenon, <1>3 DEF PrepareFailed, EnqueuingInv
  <1>4. ASSUME NEW t \in Txs, NEW id \in Nat, PrepareSucceeded(t, id)
        PROVE  /\ EnqueuingInv'
               /\ \/ UNCHANGED <<dispatchQueue, enqueued>>
                  \/ \E qd \in QueuedDispatches :
                        /\ qd.n = enqueued + 1
                        /\ dispatchQueue' = Append(dispatchQueue, qd)
                        /\ enqueued' = enqueued + 1
    <2> DEFINE qd == PreparedDispatch(t, id)
    <2>1. qd \in QueuedDispatches /\ qd.n = enqueued + 1
      BY Zenon, PreparedDispatchType DEF TypeInv, PreparedDispatch
    <2> HIDE DEF qd
    <2>2. enqueuing = <<>>
      BY Zenon, <1>4 DEF PrepareSucceeded, EnqueuingInv
    <2>3. \/ /\ dispatchQueue' = Append(dispatchQueue, qd)
             /\ enqueued' = enqueued + 1
             /\ UNCHANGED <<eventLoop, enqueuing>>
          \/ /\ UNCHANGED <<dispatchQueue, enqueued>>
             /\ eventLoop' = "enqueue" /\ enqueuing' = <<qd>>
          \/ UNCHANGED <<eventLoop, enqueuing, dispatchQueue, enqueued>>
      BY Zenon, <1>4 DEF PrepareSucceeded, Enqueue, qd
    <2> QED
      BY <2>1, <2>2, <2>3 DEF EnqueuingInv
  <1>5. ASSUME EnqueueUnblocked
        PROVE  /\ EnqueuingInv'
               /\ \E qd \in QueuedDispatches :
                     /\ qd.n = enqueued + 1
                     /\ dispatchQueue' = Append(dispatchQueue, qd)
                     /\ enqueued' = enqueued + 1
    <2>1. enqueuing \in Seq(QueuedDispatches) /\ Len(enqueuing) = 1
      BY Zenon, <1>5 DEF EnqueueUnblocked, TypeInv, TypeOK, QueueType, EnqueueInv
    <2>2. enqueuing[1] \in QueuedDispatches /\ enqueuing[1].n = enqueued + 1
      BY <2>1 DEF EnqueuingInv
    <2> QED
      BY <1>5, <2>2 DEF EnqueueUnblocked, Enqueue, EnqueuingInv
  <1>6. ASSUME NEW i, \/ ConfirmedSuccess(i) \/ ConfirmedRevertedRetry(i)
                      \/ ConfirmedRevertedFinal(i)
        PROVE  UNCHANGED <<dispatchQueue, enqueued>> /\ EnqueuingInv'
    <2>1. /\ UNCHANGED <<enqueuing, dispatchQueue, enqueued>> /\ eventLoop = "idle"
      BY Zenon, <1>6 DEF ConfirmedSuccess, ConfirmedRevertedRetry, ConfirmedRevertedFinal,
                  OutcomeDelivered, MainEvent
    <2> QED
      BY Zenon, <2>1 DEF EnqueuingInv
  <1>7. ASSUME DispatchedTransition \/ RestartDispatchLoop \/ BecomeActive
        PROVE  UNCHANGED <<eventLoop, enqueuing, dispatchQueue, enqueued>>
    BY Zenon, <1>7 DEF DispatchedTransition, RestartDispatchLoop, BecomeActive
  <1>8. ASSUME EpochBoundaryReached \/ StepDown \/ EpochRotate
        PROVE  UNCHANGED <<dispatchQueue, enqueued>> /\ EnqueuingInv'
    BY Zenon, <1>8 DEF EpochBoundaryReached, StepDown, EpochRotate, StopDispatchLoop,
                MainEvent, EnqueuingInv
  <1>9. ASSUME CleanUpTransactionsNotYetDispatched
        PROVE  dispatchQueue' = <<>> /\ UNCHANGED enqueued /\ EnqueuingInv'
    BY Zenon, <1>9 DEF CleanUpTransactionsNotYetDispatched, EnqueuingInv
  <1>10. \A p \in running : p[1] \in Txs /\ p[2] \in Nat
    BY Zenon DEF TypeInv, TypeOK, TxType
  <1>11. UNCHANGED <<eventLoop, enqueuing, enqueued>> => EnqueuingInv'
    BY DEF EnqueuingInv
  <1> QED
    BY Zenon, <1>1, <1>2, <1>3, <1>4, <1>5, <1>6, <1>7, <1>8, <1>9, <1>10, <1>11
    DEF EventLoopNext, CascadeNext

\* What comes before the parts of an increasing sequence, and between them.
LEMMA SplitOrder ==
    ASSUME NEW b \in Seq(QueuedDispatches), NEW q \in Seq(QueuedDispatches),
           NEW k \in Nat,
           Increasing(b), Increasing(q), Before(b, q)
    PROVE  /\ Increasing(b \o Front(q, k))
           /\ Increasing(Rest(q, k))
           /\ Before(b \o Front(q, k), Rest(q, k))
           /\ \A r : Before(r, b) /\ Before(r, q) =>
                 Before(r, b \o Front(q, k)) /\ Before(r, Rest(q, k))
           /\ \A m : UpTo(b, m) /\ UpTo(q, m) =>
                 UpTo(b \o Front(q, k), m) /\ UpTo(Rest(q, k), m)
  <1> DEFINE f == Front(q, k)
             g == Rest(q, k)
  <1>1. /\ f \in Seq(QueuedDispatches) /\ g \in Seq(QueuedDispatches)
        /\ Len(f) \in Nat /\ Len(g) \in Nat /\ Len(f) <= Len(q)
        /\ \A i \in 1 .. Len(f) : f[i] = q[i]
        /\ \A i \in 1 .. Len(g) : Len(f) + i \in 1 .. Len(q) /\ g[i] = q[Len(f) + i]
    BY Zenon, FrontRest, LenProperties
  <1> HIDE DEF f, g
  <1>2. /\ DOMAIN f = 1 .. Len(f) /\ DOMAIN g = 1 .. Len(g)
        /\ DOMAIN b = 1 .. Len(b) /\ DOMAIN q = 1 .. Len(q)
        /\ Len(b) \in Nat /\ Len(q) \in Nat
    BY Zenon, <1>1, LenProperties
  <1>3. /\ DOMAIN (b \o f) = 1 .. Len(b) + Len(f)
        /\ \A i \in 1 .. Len(b) : (b \o f)[i] = b[i]
        /\ \A i \in Len(b) + 1 .. Len(b) + Len(f) :
              /\ i - Len(b) \in 1 .. Len(f) /\ i - Len(b) \in 1 .. Len(q)
              /\ (b \o f)[i] = q[i - Len(b)]
    BY <1>1, <1>2, ConcatProperties, LenProperties
  <1> DEFINE c == b \o f
  <1> HIDE DEF c
  <1>4. \A i \in DOMAIN c : i \in 1 .. Len(b) \/ i \in Len(b) + 1 .. Len(b) + Len(f)
    BY <1>1, <1>2, <1>3 DEF c
  <1>5. Increasing(c)
    <2> SUFFICES ASSUME NEW i \in DOMAIN c, NEW j \in DOMAIN c, i < j
                 PROVE  c[i].n < c[j].n
      BY Zenon DEF Increasing
    <2>1. i \in Nat /\ j \in Nat
      BY <1>1, <1>2, <1>3 DEF c
    <2>2. CASE j \in 1 .. Len(b)
      <3>1. i \in 1 .. Len(b) /\ c[i] = b[i] /\ c[j] = b[j]
        BY <1>2, <1>3, <1>4, <2>1, <2>2 DEF c
      <3> QED
        BY Zenon, <1>2, <2>2, <3>1 DEF Increasing
    <2>3. CASE i \in 1 .. Len(b) /\ j \in Len(b) + 1 .. Len(b) + Len(f)
      BY Zenon, <1>2, <1>3, <2>3 DEF Before, c
    <2>4. CASE i \in Len(b) + 1 .. Len(b) + Len(f) /\ j \in Len(b) + 1 .. Len(b) + Len(f)
      <3>1. /\ i - Len(b) \in DOMAIN q /\ c[i] = q[i - Len(b)]
            /\ j - Len(b) \in DOMAIN q /\ c[j] = q[j - Len(b)]
            /\ i - Len(b) < j - Len(b)
        BY <1>2, <1>3, <2>1, <2>4 DEF c
      <3> QED
        BY Zenon, <3>1 DEF Increasing
    <2> QED
      BY Zenon, <1>4, <2>2, <2>3, <2>4
  <1>6. Increasing(g)
    <2> SUFFICES ASSUME NEW i \in DOMAIN g, NEW j \in DOMAIN g, i < j
                 PROVE  g[i].n < g[j].n
      BY Zenon DEF Increasing
    <2>1. /\ Len(f) + i \in DOMAIN q /\ g[i] = q[Len(f) + i]
          /\ Len(f) + j \in DOMAIN q /\ g[j] = q[Len(f) + j]
          /\ Len(f) + i < Len(f) + j
      BY <1>1, <1>2
    <2> QED
      BY Zenon, <2>1 DEF Increasing
  <1>7. Before(c, g)
    <2> SUFFICES ASSUME NEW i \in DOMAIN c, NEW j \in DOMAIN g
                 PROVE  c[i].n < g[j].n
      BY Zenon DEF Before
    <2>1. Len(f) + j \in DOMAIN q /\ g[j] = q[Len(f) + j] /\ j > 0 /\ j \in Nat
      BY <1>1, <1>2
    <2>2. CASE i \in 1 .. Len(b)
      BY Zenon, <1>2, <1>3, <2>1, <2>2 DEF Before, c
    <2>3. CASE i \in Len(b) + 1 .. Len(b) + Len(f)
      <3>1. /\ i - Len(b) \in DOMAIN q /\ c[i] = q[i - Len(b)]
            /\ i - Len(b) < Len(f) + j
        BY <1>1, <1>2, <1>3, <2>1, <2>3 DEF c
      <3> QED
        BY Zenon, <2>1, <3>1 DEF Increasing
    <2> QED
      BY Zenon, <1>4, <2>2, <2>3
  <1>8. ASSUME NEW r, Before(r, b), Before(r, q) PROVE Before(r, c) /\ Before(r, g)
    <2>1. \A j \in DOMAIN c : (\E l \in DOMAIN b : c[j] = b[l])
                               \/ (\E l \in DOMAIN q : c[j] = q[l])
      BY Zenon, <1>2, <1>3, <1>4 DEF c
    <2>2. \A j \in DOMAIN g : \E l \in DOMAIN q : g[j] = q[l]
      BY Zenon, <1>1, <1>2
    <2> QED
      BY Zenon, <1>8, <2>1, <2>2 DEF Before
  <1>9. ASSUME NEW m, UpTo(b, m), UpTo(q, m) PROVE UpTo(c, m) /\ UpTo(g, m)
    <2>1. \A j \in DOMAIN c : (\E l \in DOMAIN b : c[j] = b[l])
                               \/ (\E l \in DOMAIN q : c[j] = q[l])
      BY <1>2, <1>3, <1>4, Zenon DEF c
    <2>2. \A j \in DOMAIN g : \E l \in DOMAIN q : g[j] = q[l]
      BY Zenon, <1>1, <1>2
    <2> QED
      BY Zenon, <1>9, <2>1, <2>2 DEF UpTo
  <1> QED
    BY Zenon, <1>5, <1>6, <1>7, <1>8, <1>9 DEF c, f, g

\* The first element moves from one sequence to the end of another.
LEMMA MoveOrder ==
    ASSUME NEW a \in Seq(QueuedDispatches), NEW b \in Seq(QueuedDispatches),
           Len(b) > 0, Increasing(b)
    PROVE  /\ Increasing(Tail(b))
           /\ Increasing(<<b[1]>>) /\ Before(<<b[1]>>, Tail(b))
           /\ Increasing(a) /\ Before(a, b) =>
                 Increasing(Append(a, b[1])) /\ Before(Append(a, b[1]), Tail(b))
           /\ \A r : Before(r, b) => Before(r, Tail(b)) /\ Before(r, <<b[1]>>)
           /\ \A r : Before(r, a) /\ Before(r, b) => Before(r, Append(a, b[1]))
           /\ \A r : Before(b, r) => Before(Tail(b), r) /\ Before(<<b[1]>>, r)
           /\ \A r : Before(a, r) /\ Before(b, r) => Before(Append(a, b[1]), r)
           /\ \A m : UpTo(b, m) => UpTo(Tail(b), m) /\ UpTo(<<b[1]>>, m)
           /\ \A m : UpTo(a, m) /\ UpTo(b, m) => UpTo(Append(a, b[1]), m)
  <1> DEFINE tl == Tail(b)
             hd == <<b[1]>>
             ap == Append(a, b[1])
  <1>1. /\ DOMAIN tl = 1 .. Len(b) - 1 /\ \A i \in 1 .. Len(b) - 1 : tl[i] = b[i + 1]
        /\ DOMAIN hd = {1} /\ hd[1] = b[1]
        /\ DOMAIN ap = 1 .. Len(a) + 1 /\ \A i \in 1 .. Len(a) : ap[i] = a[i]
        /\ ap[Len(a) + 1] = b[1]
        /\ DOMAIN a = 1 .. Len(a) /\ DOMAIN b = 1 .. Len(b)
        /\ Len(a) \in Nat /\ Len(b) \in Nat
    <2>1. b # <<>> /\ Len(a) \in Nat /\ Len(b) \in Nat
      BY LenProperties
    <2>2. Len(tl) = Len(b) - 1 /\ tl \in Seq(QueuedDispatches)
          /\ \A i \in 1 .. Len(b) - 1 : tl[i] = b[i + 1]
      BY Zenon, <2>1, HeadTailProperties
    <2>3. DOMAIN tl = 1 .. Len(b) - 1
      BY Zenon, <2>2, LenProperties
    <2>4. DOMAIN hd = {1} /\ hd[1] = b[1]
      OBVIOUS
    <2>5. b[1] \in QueuedDispatches
      BY <2>1, LenProperties
    <2>6. /\ ap \in Seq(QueuedDispatches) /\ Len(ap) = Len(a) + 1
          /\ \A i \in 1 .. Len(a) : ap[i] = a[i]
          /\ ap[Len(a) + 1] = b[1]
      BY <2>5, AppendProperties
    <2>7. DOMAIN ap = 1 .. Len(a) + 1
      BY Zenon, <2>6, LenProperties
    <2>8. DOMAIN a = 1 .. Len(a) /\ DOMAIN b = 1 .. Len(b)
      BY Zenon, LenProperties
    <2> HIDE DEF tl, hd, ap
    <2> QED
      BY Zenon, <2>1, <2>2, <2>3, <2>4, <2>6, <2>7, <2>8
  <1> HIDE DEF tl, hd, ap
  <1>2. 1 \in DOMAIN b /\ \A i \in DOMAIN tl : i + 1 \in DOMAIN b /\ 1 < i + 1
    <2>1. DOMAIN tl = 1 .. Len(b) - 1 /\ DOMAIN b = 1 .. Len(b) /\ Len(b) \in Nat
      BY Zenon, <1>1
    <2> QED
      BY <2>1
  <1>3. \A i \in DOMAIN ap : (i \in DOMAIN a /\ ap[i] = a[i])
                                \/ (i = Len(a) + 1 /\ ap[i] = b[1])
    BY <1>1
  <1>4. Increasing(tl)
    <2> SUFFICES ASSUME NEW i \in DOMAIN tl, NEW j \in DOMAIN tl, i < j
                 PROVE  tl[i].n < tl[j].n
      BY Zenon DEF Increasing
    <2>1. i + 1 \in DOMAIN b /\ j + 1 \in DOMAIN b /\ i + 1 < j + 1
      BY <1>1, <1>2
    <2> QED
      BY Zenon, <1>1, <2>1 DEF Increasing
  <1>5. Increasing(hd) /\ Before(hd, tl)
    BY Zenon, <1>1, <1>2 DEF Increasing, Before
  <1>6. ASSUME Increasing(a), Before(a, b) PROVE Increasing(ap) /\ Before(ap, tl)
    <2>1. Increasing(ap)
      <3> SUFFICES ASSUME NEW i \in DOMAIN ap, NEW j \in DOMAIN ap, i < j
                   PROVE  ap[i].n < ap[j].n
        BY Zenon DEF Increasing
      <3>1. i \in DOMAIN a /\ ap[i] = a[i]
        BY <1>1, <1>3
      <3> QED
        BY Zenon, <1>2, <1>3, <1>6, <3>1 DEF Increasing, Before
    <2>2. Before(ap, tl)
      BY Zenon, <1>1, <1>2, <1>3, <1>6 DEF Before, Increasing
    <2> QED
      BY Zenon, <2>1, <2>2
  <1>7. ASSUME NEW r, Before(r, b) PROVE Before(r, tl) /\ Before(r, hd)
    BY Zenon, <1>1, <1>2, <1>7 DEF Before
  <1>8. ASSUME NEW r, Before(r, a), Before(r, b) PROVE Before(r, ap)
    BY Zenon, <1>2, <1>3, <1>8 DEF Before
  <1>9. ASSUME NEW r, Before(b, r) PROVE Before(tl, r) /\ Before(hd, r)
    BY Zenon, <1>1, <1>2, <1>9 DEF Before
  <1>10. ASSUME NEW r, Before(a, r), Before(b, r) PROVE Before(ap, r)
    BY Zenon, <1>2, <1>3, <1>10 DEF Before
  <1>11. ASSUME NEW m, UpTo(b, m) PROVE UpTo(tl, m) /\ UpTo(hd, m)
    BY Zenon, <1>1, <1>2, <1>11 DEF UpTo
  <1>12. ASSUME NEW m, UpTo(a, m), UpTo(b, m) PROVE UpTo(ap, m)
    BY Zenon, <1>2, <1>3, <1>12 DEF UpTo
  <1> QED
    BY <1>4, <1>5, <1>6, <1>7, <1>8, <1>9, <1>10, <1>11, <1>12 DEF tl, hd, ap

\* A sequence is appended to one that comes before it.
LEMMA ConcatOrder ==
    ASSUME NEW a \in Seq(QueuedDispatches), NEW b \in Seq(QueuedDispatches),
           Increasing(a), Increasing(b), Before(a, b)
    PROVE  /\ Increasing(a \o b)
           /\ \A r : Before(a, r) /\ Before(b, r) => Before(a \o b, r)
           /\ \A m : UpTo(a, m) /\ UpTo(b, m) => UpTo(a \o b, m)
  <1> DEFINE c == a \o b
  <1>1. /\ DOMAIN a = 1 .. Len(a) /\ DOMAIN b = 1 .. Len(b)
        /\ Len(a) \in Nat /\ Len(b) \in Nat
    BY Zenon, LenProperties
  <1>2. /\ DOMAIN c = 1 .. Len(a) + Len(b)
        /\ \A i \in 1 .. Len(a) : c[i] = a[i]
        /\ \A i \in Len(a) + 1 .. Len(a) + Len(b) :
              i - Len(a) \in 1 .. Len(b) /\ c[i] = b[i - Len(a)]
    BY <1>1, ConcatProperties, LenProperties
  <1> HIDE DEF c
  <1>3. \A i \in DOMAIN c : \/ i \in DOMAIN a /\ c[i] = a[i]
                            \/ /\ i \in Len(a) + 1 .. Len(a) + Len(b)
                               /\ i - Len(a) \in DOMAIN b /\ c[i] = b[i - Len(a)]
    <2>1. \A i \in DOMAIN c : i \in 1 .. Len(a) \/ i \in Len(a) + 1 .. Len(a) + Len(b)
      BY <1>1, <1>2
    <2> QED
      BY Zenon, <1>1, <1>2, <2>1
  <1>4. Increasing(c)
    <2> SUFFICES ASSUME NEW i \in DOMAIN c, NEW j \in DOMAIN c, i < j
                 PROVE  c[i].n < c[j].n
      BY Zenon DEF Increasing
    <2>1. i \in Nat /\ j \in Nat
      BY <1>1, <1>2
    <2>2. CASE j \in DOMAIN a /\ c[j] = a[j]
      <3>1. i \in DOMAIN a /\ c[i] = a[i]
        BY <1>1, <1>2, <2>1, <2>2
      <3> QED
        BY Zenon, <2>2, <3>1 DEF Increasing
    <2>3. CASE /\ j \in Len(a) + 1 .. Len(a) + Len(b)
               /\ j - Len(a) \in DOMAIN b /\ c[j] = b[j - Len(a)]
      <3>1. CASE i \in DOMAIN a /\ c[i] = a[i]
        BY Zenon, <2>3, <3>1 DEF Before
      <3>2. CASE /\ i \in Len(a) + 1 .. Len(a) + Len(b)
                 /\ i - Len(a) \in DOMAIN b /\ c[i] = b[i - Len(a)]
        <4>1. i - Len(a) < j - Len(a)
          BY <1>1, <2>1
        <4> QED
          BY Zenon, <2>3, <3>2, <4>1 DEF Increasing
      <3> QED
        BY Zenon, <1>3, <3>1, <3>2
    <2> QED
      BY Zenon, <1>3, <2>2, <2>3
  <1>5. ASSUME NEW r, Before(a, r), Before(b, r) PROVE Before(c, r)
    BY Zenon, <1>3, <1>5 DEF Before
  <1>6. ASSUME NEW m, UpTo(a, m), UpTo(b, m) PROVE UpTo(c, m)
    BY Zenon, <1>3, <1>6 DEF UpTo
  <1> QED
    BY Zenon, <1>4, <1>5, <1>6 DEF c

LEMMA OrderInit == Init => OrderInv
  BY DEF Init, OrderInv, EnqueuingInv, Increasing, Before, UpTo

LEMMA OrderStep == TypeInv /\ OrderInv /\ [Next]_vars => OrderInv'
  <1> SUFFICES ASSUME TypeInv, OrderInv, [Next]_vars PROVE OrderInv'
    BY Zenon
  <1>0. /\ persisted \in Seq(QueuedDispatches) /\ accepted \in Seq(QueuedDispatches)
        /\ batch \in Seq(QueuedDispatches) /\ dispatchQueue \in Seq(QueuedDispatches)
        /\ enqueued \in Nat
    BY Zenon DEF TypeInv, TypeOK, LedgerType, LoopType, QueueType
  <1>1. CASE EventLoopNext
    <2>1. /\ UNCHANGED <<persisted, accepted, batch>>
          /\ loop' # "children" => loop # "children"
      BY Zenon, <1>1, EventLoopFrame
    <2>2. EnqueuingInv'
      BY Zenon, <1>1, EventLoopQueue DEF OrderInv
    <2>3. CASE UNCHANGED <<dispatchQueue, enqueued>>
      BY Zenon, <2>1, <2>2, <2>3 DEF OrderInv
    <2>4. CASE dispatchQueue' = <<>> /\ UNCHANGED enqueued
      <3>1. Increasing(<<>>) /\ (\A r : Before(r, <<>>)) /\ \A m : UpTo(<<>>, m)
        BY DEF Increasing, Before, UpTo
      <3> QED
        BY Zenon, <2>1, <2>2, <2>4, <3>1 DEF OrderInv
    <2>5. CASE \E qd \in QueuedDispatches :
                  /\ qd.n = enqueued + 1
                  /\ dispatchQueue' = Append(dispatchQueue, qd)
                  /\ enqueued' = enqueued + 1
      <3> PICK qd \in QueuedDispatches :
                /\ qd.n = enqueued + 1
                /\ dispatchQueue' = Append(dispatchQueue, qd)
                /\ enqueued' = enqueued + 1
        BY Zenon, <2>5
      <3> DEFINE q == Append(dispatchQueue, qd)
      <3>1. /\ Increasing(q) /\ UpTo(q, enqueued + 1)
            /\ Before(persisted, q) /\ Before(accepted, q) /\ Before(batch, q)
        BY Zenon, <1>0, AppendOrder DEF OrderInv
      <3>2. /\ UpTo(persisted, enqueued + 1) /\ UpTo(accepted, enqueued + 1)
            /\ UpTo(batch, enqueued + 1)
        BY Zenon, <1>0, UpToMonotone DEF OrderInv
      <3> HIDE DEF q
      <3>3. dispatchQueue' = q /\ enqueued' = enqueued + 1
        BY Zenon DEF q
      <3> QED
        BY Zenon, <2>1, <2>2, <3>1, <3>2, <3>3 DEF OrderInv
    <2> QED
      BY Zenon, <1>1, <2>3, <2>4, <2>5, EventLoopQueue DEF OrderInv
  <1>2. CASE TakeFirst
    <2>1. /\ dispatchQueue # <<>> /\ batch' = <<dispatchQueue[1]>>
          /\ dispatchQueue' = Tail(dispatchQueue)
          /\ loop = "select" /\ loop' = "await"
          /\ UNCHANGED <<persisted, accepted, enqueued, enqueuing, eventLoop>>
      BY <1>0, <1>2 DEF TakeFirst, ledgerVars
    <2>2. Len(dispatchQueue) > 0
      BY <1>0, <2>1, EmptySeq
    <2> DEFINE h == <<dispatchQueue[1]>>
               q == Tail(dispatchQueue)
    <2>3. /\ Increasing(h) /\ Increasing(q) /\ Before(h, q)
          /\ Before(persisted, h) /\ Before(persisted, q)
          /\ Before(accepted, h) /\ Before(accepted, q)
          /\ UpTo(h, enqueued) /\ UpTo(q, enqueued)
      BY Zenon, <1>0, <2>2, MoveOrder DEF OrderInv
    <2> HIDE DEF h, q
    <2>4. batch' = h /\ dispatchQueue' = q
      BY Zenon, <2>1 DEF h, q
    <2> QED
      BY Zenon, <2>1, <2>3, <2>4 DEF OrderInv, EnqueuingInv
  <1>3. CASE CapacityFree \/ CapacityFreed
    <2>1. PullDispatchBatch /\ loop # "children"
      BY Zenon, <1>3 DEF CapacityFree, CapacityFreed
    <2>2. Capacity - 1 \in Nat
      BY Zenon, <2>1, CapacityPositive DEF PullDispatchBatch, TypeInv, TypeOK
    <2> DEFINE b == batch \o Front(dispatchQueue, Capacity - 1)
               q == Rest(dispatchQueue, Capacity - 1)
    <2>3. /\ Increasing(b) /\ Increasing(q) /\ Before(b, q)
          /\ Before(persisted, b) /\ Before(persisted, q)
          /\ Before(accepted, b) /\ Before(accepted, q)
          /\ UpTo(b, enqueued) /\ UpTo(q, enqueued)
      BY Zenon, <1>0, <2>2, SplitOrder DEF OrderInv
    <2>4. /\ batch' = b /\ dispatchQueue' = q
          /\ UNCHANGED <<persisted, accepted, enqueued, enqueuing, eventLoop>>
      BY Zenon, <2>1 DEF PullDispatchBatch, ledgerVars
    <2> HIDE DEF b, q
    <2> QED
      BY Zenon, <2>1, <2>3, <2>4 DEF OrderInv, EnqueuingInv
  <1>4. CASE CheckDispatched
    <2>1. Len(batch) > 0 /\ loop # "children"
      BY Zenon, <1>4 DEF CheckDispatched, TypeInv, BatchInv
    <2> DEFINE a == Append(accepted, batch[1])
               b == Tail(batch)
    <2>2. /\ Increasing(b) /\ Before(persisted, b) /\ Before(accepted, b)
          /\ Before(b, dispatchQueue) /\ UpTo(b, enqueued)
      BY Zenon, <1>0, <2>1, MoveOrder DEF OrderInv
    <2>3. /\ Increasing(a) /\ Before(a, b) /\ Before(persisted, a)
          /\ Before(a, dispatchQueue) /\ UpTo(a, enqueued)
      BY Zenon, <1>0, <2>1, MoveOrder DEF OrderInv
    <2>4. /\ batch' = b /\ accepted' \in {a, accepted}
          /\ UNCHANGED <<persisted, dispatchQueue, enqueued, enqueuing, eventLoop>>
      BY Zenon, <1>4 DEF CheckDispatched, ledgerVars, queueVars
    <2> HIDE DEF a, b
    <2> QED
      BY Zenon, <2>1, <2>2, <2>3, <2>4 DEF OrderInv, EnqueuingInv
  <1>5. CASE PersistDispatchBatch
    <2> DEFINE p == persisted \o accepted
    <2>1. /\ Increasing(p) /\ Before(p, batch) /\ Before(p, dispatchQueue)
          /\ UpTo(p, enqueued)
      BY Zenon, <1>0, <1>5, ConcatOrder DEF PersistDispatchBatch, OrderInv
    <2>2. /\ persisted' = p /\ loop' = "children"
          /\ UNCHANGED <<batch, accepted, dispatchQueue, enqueued, enqueuing, eventLoop>>
      BY Zenon, <1>5 DEF PersistDispatchBatch, queueVars
    <2> HIDE DEF p
    <2> QED
      BY Zenon, <2>1, <2>2 DEF OrderInv, EnqueuingInv
  <1>6. CASE StopWhileWaiting \/ PersistAbandoned \/ HandleChainedChildren
    <2>1. /\ batch' \in {batch, <<>>} /\ accepted' \in {accepted, <<>>}
          /\ loop # "children" \/ accepted' = <<>>
          /\ UNCHANGED <<persisted, dispatchQueue, enqueued, enqueuing, eventLoop>>
      BY Zenon, <1>6 DEF StopWhileWaiting, PersistAbandoned, HandleChainedChildren,
                  ledgerVars, queueVars
    <2>2. /\ Increasing(<<>>) /\ \A r : Before(r, <<>>) /\ Before(<<>>, r)
          /\ \A m : UpTo(<<>>, m)
      BY DEF Increasing, Before, UpTo
    <2> QED
      BY Zenon, <2>1, <2>2 DEF OrderInv, EnqueuingInv
  <1>7. CASE StopAtSelect \/ CapacityExhausted \/ HandleDispatched
    <2>1. /\ UNCHANGED <<persisted, accepted, batch, dispatchQueue, enqueued, enqueuing,
                         eventLoop>>
          /\ loop # "children"
      BY Zenon, <1>7 DEF StopAtSelect, CapacityExhausted, HandleDispatched, ledgerVars,
                  queueVars
    <2> QED
      BY Zenon, <2>1 DEF OrderInv, EnqueuingInv
  <1>8. CASE UNCHANGED vars
    BY Zenon, <1>8 DEF vars, loopVars, ledgerVars, queueVars, OrderInv, EnqueuingInv
  <1> QED
    BY Zenon, <1>1, <1>2, <1>3, <1>4, <1>5, <1>6, <1>7, <1>8 DEF Next, DispatchLoopNext

\* The dispatches are inserted in the order in which enqueueForDispatch queued
\* them, so that the nonces assigned in order of insertion follow that order.
THEOREM InsertionOrder == Spec => []NonceOrder
  <1>1. OrderInv => NonceOrder
    BY Zenon DEF OrderInv, Increasing, NonceOrder
  <1> QED
    BY InitType, TypeStep, OrderInit, OrderStep, <1>1, PTL DEF Spec

-----------------------------------------------------------------------------
(* Dependencies are persisted first.                                        *)

\* Nobody depends on a transaction that was itself submitted as dependent on
\* another.
ShallowChains == \A c \in Chained, d \in Spends \cup Chained : d[2] # c[1]

\* Where DependencyOrder says something: the dispatch loop has not been stopped
\* and no transaction is prepared twice.
Uninterrupted == key = 1 /\ ~cancelled /\ \A t \in Txs : prepares[t] <= 1

\* Once the dispatch loop was stopped it is cancelled or the identity is new.
StopInv ==
    /\ eventLoop \in {"stop_epoch", "stop_stepdown"} => cancelled
    /\ loop = "stopped" => cancelled
    /\ restartQueued => key > 1
    /\ loop \in {"select", "stopped", "persist", "children"} => batch = <<>>

\* The dispatches that the dispatch loop has accepted, those it has still to
\* handle, and the one enqueueForDispatch is blocked on.
Done == Range(persisted) \cup Range(accepted)
Coming == Range(batch) \cup Range(dispatchQueue)
Blocked == Range(enqueuing)

Of(d, q) == <<q.tx, q.id>> = d
Landed(d, n) == \E q \in Done : Of(d, q) /\ q.n < n

\* The handler of u has still to tell t of its reset.
TellsOfReset(u, t) ==
    \E i \in DOMAIN cascade :
        cascade[i].kind = "reset" /\ cascade[i].tx = u /\ t \in cascade[i].todo

\* A queued dispatch q will be accepted, as its transaction is dispatched; or,
\* should its transaction be reset, t is told; or t is being told, and the lock
\* of the transaction keeps the dispatch loop from dropping q before that.
Assured(t, q) ==
    \/ txState[q.tx] = "Dispatched"
    \/ txState[q.tx] = "Ready_For_Dispatch" /\ <<t, q.tx>> \in links \cup Chained
    \/ (loop = "check" => q # batch[1]) /\ TellsOfReset(q.tx, t)

\* A dispatch numbered n of t, that depends on dispatch d, will not be accepted
\* before d: d has been accepted, or is ahead of it and assured.
Backed(t, d, n) ==
    Landed(d, n) \/ \E q \in Coming : Of(d, q) /\ q.n < n /\ Assured(t, q)

\* Every transaction has one dispatch at most.
OnceInv ==
    /\ \A t \in Txs : txState[t] = "Preparing" => prepares[t] = 1 /\ prepareID[t] = 1
    /\ \A q \in Done \cup Coming \cup Blocked : q.id = 1 /\ prepares[q.tx] = 1
    /\ \A q \in Done \cup Coming : txState[q.tx] # "Preparing"
    /\ \A q \in Blocked : txState[q.tx] = "Preparing"
    /\ \A p, q \in Done \cup Coming : p.tx = q.tx => p = q

\* The dispatch of a transaction that is ready or dispatched is not lost.
HeldInv ==
    /\ \A t \in Txs : txState[t] = "Ready_For_Dispatch" => \E q \in Coming : q.tx = t
    /\ \A t \in Txs : txState[t] = "Dispatched" => \E q \in Done \cup Coming : q.tx = t
    /\ loop = "check" => txState[batch[1].tx] # "Ready_For_Dispatch"

\* Handlers that tell others are those of transactions on their way back, and
\* only chained dependents are told of a failure.
ToldInv ==
    \A i \in DOMAIN cascade :
        /\ txState[cascade[i].tx] \notin {"Preparing", "Ready_For_Dispatch"}
        /\ cascade[i].kind = "failed" => \A t \in cascade[i].todo : \E c \in Chained : c[1] = t

KnownInv ==
    /\ links \subseteq Spends
    /\ \A q \in Done \cup Coming \cup Blocked : \A d \in q.deps :
       <<q.tx, d[1]>> \in Spends \cup Chained

FirstInv ==
    /\ \A p \in Range(persisted) : \A d \in p.deps :
          \E q \in Range(persisted) : Of(d, q) /\ q.n < p.n
    /\ \A p \in Range(accepted) : \A d \in p.deps : Landed(d, p.n)
    /\ \A p \in Coming : txState[p.tx] = "Dispatched" => \A d \in p.deps : Landed(d, p.n)
    /\ \A p \in Coming : txState[p.tx] = "Ready_For_Dispatch" => \A d \in p.deps :
       Backed(p.tx, d, p.n)
    /\ \A p \in Blocked : \A d \in p.deps : Backed(p.tx, d, p.n)
    /\ \A t \in Txs : txState[t] = "Preparing" =>
          \A u \in Prerequisites(t) : txState[u] = "Confirmed" \/ Backed(t, <<u, 1>>, enqueued + 1)

DepInv == OnceInv /\ HeldInv /\ ToldInv /\ KnownInv /\ FirstInv

\* The ranges of the sequences the dispatches move between.
LEMMA RangeConcat ==
    ASSUME NEW S, NEW s \in Seq(S), NEW u \in Seq(S)
    PROVE  \A q : q \in Range(s \o u) <=> q \in Range(s) \/ q \in Range(u)
  <1>1. Range(s \o u) \subseteq Range(s) \cup Range(u)
    <2> SUFFICES ASSUME NEW i \in DOMAIN (s \o u) PROVE (s \o u)[i] \in Range(s) \cup Range(u)
      BY Zenon DEF Range
    <2>1. \/ i \in DOMAIN s /\ (s \o u)[i] = s[i]
          \/ i - Len(s) \in DOMAIN u /\ (s \o u)[i] = u[i - Len(s)]
      OBVIOUS
    <2> QED
      BY Zenon, <2>1 DEF Range
  <1> QED
    BY Zenon, <1>1, ConcatRange

\* Appending a dispatch adds it to the range.
LEMMA AppendRange ==
    ASSUME NEW S, NEW s \in Seq(S), NEW e \in S
    PROVE  \A q : q \in Range(Append(s, e)) <=> q \in Range(s) \/ q = e
  <1>1. <<e>> \in Seq(S) /\ Append(s, e) = s \o <<e>> /\ DOMAIN <<e>> = {1} /\ <<e>>[1] = e
    OBVIOUS
  <1>2. Range(<<e>>) = {e}
    BY Zenon, <1>1 DEF Range
  <1>3. \A u \in Seq(S) : \A q : q \in Range(s \o u) <=> q \in Range(s) \/ q \in Range(u)
    BY Zenon, RangeConcat
  <1> QED
    BY Zenon, <1>1, <1>2, <1>3

\* Taking off the first leaves the others.
LEMMA TailRange ==
    ASSUME NEW S, NEW s \in Seq(S), s # <<>>
    PROVE  s[1] \in Range(s) /\ Range(s) = {s[1]} \cup Range(Tail(s))
  <1>1. /\ 1 \in DOMAIN s
        /\ \A i \in DOMAIN s : i = 1 \/ (i - 1 \in DOMAIN Tail(s) /\ s[i] = Tail(s)[i - 1])
        /\ \A i \in DOMAIN Tail(s) : i + 1 \in DOMAIN s /\ Tail(s)[i] = s[i + 1]
    OBVIOUS
  <1>2. ASSUME NEW i \in DOMAIN s PROVE s[i] \in {s[1]} \cup Range(Tail(s))
    <2>1. i = 1 \/ (i - 1 \in DOMAIN Tail(s) /\ s[i] = Tail(s)[i - 1])
      BY Zenon, <1>1
    <2> QED
      BY Zenon, <2>1 DEF Range
  <1>3. ASSUME NEW i \in DOMAIN Tail(s) PROVE Tail(s)[i] \in Range(s)
    <2>1. i + 1 \in DOMAIN s /\ Tail(s)[i] = s[i + 1]
      BY Zenon, <1>1
    <2> QED
      BY Zenon, <2>1 DEF Range
  <1>4. s[1] \in Range(s)
    BY Zenon, <1>1 DEF Range
  <1>5. Range(s) \subseteq {s[1]} \cup Range(Tail(s))
    <2> SUFFICES ASSUME NEW e \in Range(s) PROVE e \in {s[1]} \cup Range(Tail(s))
      BY Zenon
    <2> PICK i \in DOMAIN s : e = s[i]
      BY Zenon DEF Range
    <2> QED
      BY Zenon, <1>2
  <1>6. Range(Tail(s)) \subseteq Range(s)
    <2> SUFFICES ASSUME NEW e \in Range(Tail(s)) PROVE e \in Range(s)
      BY Zenon
    <2> PICK i \in DOMAIN Tail(s) : e = Tail(s)[i]
      BY Zenon DEF Range
    <2> QED
      BY Zenon, <1>3
  <1> QED
    BY Zenon, <1>4, <1>5, <1>6

\* Splitting a sequence splits its range.
LEMMA SplitRange ==
    ASSUME NEW S, NEW s \in Seq(S), NEW k \in Nat
    PROVE  \A q : q \in Range(s) <=> q \in Range(Front(s, k)) \/ q \in Range(Rest(s, k))
  <1> DEFINE f == Front(s, k)
             r == Rest(s, k)
  <1>1. /\ f \in Seq(S) /\ r \in Seq(S)
        /\ \A i \in DOMAIN f : i \in DOMAIN s /\ f[i] = s[i]
        /\ \A i \in DOMAIN r : Len(f) + i \in DOMAIN s /\ r[i] = s[Len(f) + i]
    <2>1. f \in Seq(S) /\ r \in Seq(S) /\ Len(f) <= Len(s)
      BY Zenon, FrontRest
    <2>2. /\ \A i \in 1 .. Len(f) : f[i] = s[i]
          /\ \A i \in 1 .. Len(r) : Len(f) + i \in 1 .. Len(s) /\ r[i] = s[Len(f) + i]
      BY Zenon, FrontRest
    <2> HIDE DEF f, r
    <2>3. /\ DOMAIN f = 1 .. Len(f) /\ DOMAIN r = 1 .. Len(r) /\ DOMAIN s = 1 .. Len(s)
          /\ Len(f) \in Nat /\ Len(s) \in Nat
      BY Zenon, <2>1, LenProperties
    <2>4. \A i \in 1 .. Len(f) : i \in 1 .. Len(s)
      BY <2>1, <2>3
    <2> QED
      BY Zenon, <2>1, <2>2, <2>3, <2>4
  <1>2. Len(f) + Len(r) = Len(s)
    <2>1. CASE k < Len(s)
      <3>1. f = SubSeq(s, 1, k) /\ r = SubSeq(s, k + 1, Len(s))
        BY <2>1 DEF Front, Rest
      <3>2. (\A i \in 1 .. k : s[i] \in S) /\ \A i \in k + 1 .. Len(s) : s[i] \in S
        BY <2>1
      <3>3. Len(SubSeq(s, 1, k)) = IF 1 <= k THEN k - 1 + 1 ELSE 0
        BY <3>2, SubSeqProperties
      <3>4. Len(SubSeq(s, k + 1, Len(s))) = IF k + 1 <= Len(s) THEN Len(s) - (k + 1) + 1 ELSE 0
        BY <3>2, SubSeqProperties
      <3> HIDE DEF f, r
      <3>5. /\ Len(f) = IF 1 <= k THEN k - 1 + 1 ELSE 0
            /\ Len(r) = IF k + 1 <= Len(s) THEN Len(s) - (k + 1) + 1 ELSE 0
            /\ Len(s) \in Nat
        BY Zenon, <3>1, <3>3, <3>4, LenProperties
      <3>6. ASSUME NEW m \in Nat, k < m
            PROVE  (IF 1 <= k THEN k - 1 + 1 ELSE 0)
                      + (IF k + 1 <= m THEN m - (k + 1) + 1 ELSE 0) = m
        BY <3>6
      <3> QED
        BY Zenon, <2>1, <3>5, <3>6
    <2>2. CASE ~(k < Len(s))
      <3>1. f = SubSeq(s, 1, Len(s)) /\ r = SubSeq(s, Len(s) + 1, Len(s))
        BY <2>2 DEF Front, Rest
      <3> HIDE DEF f, r
      <3> QED
        BY <2>2, <3>1
    <2> QED
      BY Zenon, <2>1, <2>2
  <1> HIDE DEF f, r
  <1>3. ASSUME NEW i \in DOMAIN s PROVE s[i] \in Range(f) \cup Range(r)
    <2>1. i \in DOMAIN f \/ (i - Len(f) \in DOMAIN r /\ i = Len(f) + (i - Len(f)))
      BY <1>1, <1>2
    <2> QED
      BY Zenon, <1>1, <2>1 DEF Range
  <1>4. ASSUME NEW i \in DOMAIN r PROVE r[i] \in Range(s)
    <2>1. Len(f) + i \in DOMAIN s /\ r[i] = s[Len(f) + i]
      BY Zenon, <1>1
    <2> QED
      BY Zenon, <2>1 DEF Range
  <1>5. Range(f) \subseteq Range(s)
    BY Zenon, <1>1 DEF Range
  <1>6. Range(r) \subseteq Range(s) /\ Range(s) \subseteq Range(f) \cup Range(r)
    BY Zenon, <1>3, <1>4 DEF Range
  <1> QED
    BY Zenon, <1>5, <1>6 DEF f, r

\* Elements of the sequences are dispatches.
LEMMA Elements ==
    ASSUME NEW s \in Seq(QueuedDispatches), NEW q \in Range(s)
    PROVE  /\ q \in QueuedDispatches /\ q.tx \in Txs /\ q.n \in Nat /\ q.id \in Nat
           /\ \A d \in q.deps : d \in Txs \X Nat
  <1>1. q \in QueuedDispatches
    <2> PICK i \in DOMAIN s : q = s[i]
      BY Zenon DEF Range
    <2> QED
      BY Zenon, EntryType
  <1> QED
    BY Zenon, <1>1 DEF QueuedDispatches

\* What is queued, accepted or persisted are dispatches of transactions.
LEMMA Dispatches ==
    ASSUME TypeInv
    PROVE  /\ \A q \in Done \cup Coming \cup Blocked :
                 /\ q \in QueuedDispatches /\ q.tx \in Txs /\ q.n \in Nat /\ q.id \in Nat
                 /\ \A d \in q.deps : d \in Txs \X Nat
           /\ enqueued \in Nat /\ txState \in [Txs -> TxStates]
           /\ prepares \in [Txs -> Nat] /\ prepareID \in [Txs -> Nat]
           /\ links \subseteq Txs \X Txs
  <1>1. /\ persisted \in Seq(QueuedDispatches) /\ accepted \in Seq(QueuedDispatches)
        /\ batch \in Seq(QueuedDispatches) /\ dispatchQueue \in Seq(QueuedDispatches)
        /\ enqueuing \in Seq(QueuedDispatches)
    BY Zenon DEF TypeInv, TypeOK, LedgerType, LoopType, QueueType
  <1>2. \A q \in Done \cup Coming \cup Blocked :
                 /\ q \in QueuedDispatches /\ q.tx \in Txs /\ q.n \in Nat /\ q.id \in Nat
                 /\ \A d \in q.deps : d \in Txs \X Nat
    BY Zenon, <1>1, Elements DEF Done, Coming, Blocked
  <1> QED
    BY Zenon, <1>2 DEF TypeInv, TypeOK, QueueType, TxType, DepType

-----------------------------------------------------------------------------
\* The steps that interrupt the dispatch loop.

\* A stop of the dispatch loop stays visible.
LEMMA StopStep == TypeInv /\ StopInv /\ [Next]_vars => StopInv'
  <1> SUFFICES ASSUME TypeInv, StopInv, [Next]_vars PROVE StopInv'
    BY Zenon
  <1> USE DEF coordVars, txVars, depVars, queueVars, loopVars, ledgerVars, eventVars
  <1>k. key \in Nat \ {0}
    BY Zenon DEF TypeInv, TypeOK, CoordType
  <1>n. NewSigningIdentity => key' > 1
    BY <1>k DEF NewSigningIdentity
  <1>f. ASSUME UNCHANGED <<cancelled, loop, restartQueued, key, batch>>,
               eventLoop' = eventLoop \/ eventLoop' \in {"idle", "cascade", "enqueue"}
        PROVE  StopInv'
    BY Zenon, <1>f DEF StopInv
  <1>1. ASSUME NEW t \in Txs, StartPrepare(t) \/ DependencyReset(t) \/ ChainedDependencyFailed(t)
        PROVE  UNCHANGED <<cancelled, loop, restartQueued, key, batch, eventLoop>>
    BY Zenon, <1>1 DEF StartPrepare, DependencyReset, ChainedDependencyFailed
  <1>2. ASSUME HandlerReturns
        PROVE  UNCHANGED <<cancelled, loop, restartQueued, key, batch>> /\ eventLoop' \in {"idle",
          "cascade"}
    BY Zenon, <1>2 DEF HandlerReturns
  <1>3. ASSUME NEW t, NEW id, PrepareSucceeded(t, id) \/ PrepareFailed(t, id)
        PROVE  /\ UNCHANGED <<cancelled, loop, restartQueued, key, batch>>
               /\ eventLoop' = eventLoop \/ eventLoop' \in {"enqueue", "cascade"}
    BY Zenon, <1>3 DEF PrepareSucceeded, PrepareFailed
  <1>4. ASSUME EnqueueUnblocked
        PROVE  UNCHANGED <<cancelled, loop, restartQueued, key, batch>> /\ eventLoop' = "idle"
    BY Zenon, <1>4 DEF EnqueueUnblocked
  <1>5. ASSUME NEW i, ConfirmedSuccess(i) \/ ConfirmedRevertedRetry(i) \/ ConfirmedRevertedFinal(i)
        PROVE  /\ UNCHANGED <<cancelled, loop, restartQueued, key, batch>>
               /\ eventLoop' = eventLoop \/ eventLoop' = "cascade"
    BY Zenon, <1>5 DEF ConfirmedSuccess, ConfirmedRevertedRetry, ConfirmedRevertedFinal,
       OutcomeDelivered
  <1>6. CASE DispatchedTransition \/ RestartDispatchLoop \/ BecomeActive
    <2>1. StartDispatchLoop => /\ batch' = batch
                               /\ \/ UNCHANGED <<loop, cancelled>>
                                  \/ loop = "stopped" /\ loop' = "select"
      BY Zenon DEF StartDispatchLoop
    <2>2. /\ eventLoop' = "idle" /\ (restartQueued' => restartQueued)
          /\ key' = key \/ key' > 1
          /\ UNCHANGED <<loop, cancelled, batch>> \/ StartDispatchLoop
      <3>1. CASE DispatchedTransition
        BY Zenon, <1>n, <3>1 DEF DispatchedTransition
      <3>2. CASE RestartDispatchLoop
        BY Zenon, <3>2 DEF RestartDispatchLoop
      <3>3. CASE BecomeActive
        BY Zenon, <1>n, <3>3 DEF BecomeActive, MainEvent
      <3> QED
        BY Zenon, <1>6, <3>1, <3>2, <3>3
    <2> QED
      BY Zenon, <2>1, <2>2 DEF StopInv
  <1>7. CASE EpochBoundaryReached \/ StepDown
    <2>1. cancelled' /\ UNCHANGED <<loop, batch, restartQueued, key>>
      BY Zenon, <1>7 DEF EpochBoundaryReached, StepDown, StopDispatchLoop
    <2> QED
      BY Zenon, <2>1 DEF StopInv
  <1>8. CASE EpochRotate \/ CleanUpTransactionsNotYetDispatched
    <2>1. /\ eventLoop' = "idle" /\ UNCHANGED <<loop, cancelled, batch>>
          /\ restartQueued' => key' > 1 \/ (restartQueued /\ key' = key)
      <3>1. CASE EpochRotate
        BY Zenon, <1>n, <3>1 DEF EpochRotate
      <3>2. CASE CleanUpTransactionsNotYetDispatched
        BY Zenon, <3>2 DEF CleanUpTransactionsNotYetDispatched
      <3> QED
        BY Zenon, <1>8, <3>1, <3>2
    <2> QED
      BY Zenon, <2>1 DEF StopInv
  <1>9. CASE CheckDispatched
    <2>1. /\ UNCHANGED <<eventLoop, cancelled, restartQueued, key>> /\ loop = "check"
          /\ batch' = Tail(batch) /\ loop' = IF Len(batch) = 1 THEN "persist" ELSE "handle"
      BY Zenon, <1>9 DEF CheckDispatched
    <2>2. Len(batch) = 1 => Tail(batch) = <<>>
      <3>1. batch \in Seq(QueuedDispatches)
        BY Zenon DEF TypeInv, TypeOK, LoopType
      <3>2. ASSUME NEW s \in Seq(QueuedDispatches), Len(s) = 1 PROVE Tail(s) = <<>>
        <4>0. 1 - 1 = 0 /\ 1 # 0
          OBVIOUS
        <4>2. s # <<>>
          BY Zenon, <3>2, <4>0, EmptySeq
        <4>1. Tail(s) \in Seq(QueuedDispatches) /\ Len(Tail(s)) = 0
          BY Zenon, <3>2, <4>0, <4>2, HeadTailProperties
        <4> QED
          BY Zenon, <4>1, EmptySeq
      <3> QED
        BY Zenon, <3>1, <3>2
    <2> QED
      BY Zenon, <2>1, <2>2 DEF StopInv
  <1>10. CASE \/ TakeFirst \/ StopAtSelect \/ CapacityFree \/ CapacityExhausted \/ CapacityFreed
              \/ StopWhileWaiting \/ HandleDispatched \/ PersistDispatchBatch \/ PersistAbandoned
              \/ HandleChainedChildren
    <2>1. /\ UNCHANGED <<eventLoop, cancelled, restartQueued, key>>
          /\ loop' = "stopped" => cancelled
          /\ \/ loop' \in {"await", "waiting", "handle", "check"} \/ batch' = <<>>
             \/ loop \in {"select", "persist", "children"} /\ batch' = batch
      BY Zenon, <1>10 DEF TakeFirst, StopAtSelect, CapacityFree, CapacityExhausted, CapacityFreed,
                   PullDispatchBatch, StopWhileWaiting, HandleDispatched, PersistDispatchBatch,
                   PersistAbandoned, HandleChainedChildren
    <2> QED
      BY Zenon, <2>1 DEF StopInv
  <1>11. CASE UNCHANGED vars
    BY Zenon, <1>f, <1>11 DEF vars
  <1> QED
    BY Zenon, <1>f, <1>1, <1>2, <1>3, <1>4, <1>5, <1>6, <1>7, <1>8, <1>9, <1>10, <1>11
    DEF Next, EventLoopNext, CascadeNext, DispatchLoopNext

\* A step that touches no transaction, no dependency and no dispatch.
QuietStep ==
    UNCHANGED <<txState, prepares, prepareID, links, cascade, enqueuing, dispatchQueue, enqueued,
                loop, batch, accepted, persisted>>

\* Without an interruption, what the coordinator does between dispatches is quiet.
LEMMA QuietSteps ==
    ASSUME TypeInv, StopInv, Uninterrupted',
           \/ DispatchedTransition \/ EpochBoundaryReached \/ EpochRotate \/ RestartDispatchLoop
           \/ StepDown \/ CleanUpTransactionsNotYetDispatched \/ BecomeActive
    PROVE  QuietStep /\ Uninterrupted
  <1> USE DEF coordVars, txVars, depVars, queueVars, loopVars, ledgerVars, eventVars
  <1>k. key \in Nat \ {0}
    BY Zenon DEF TypeInv, TypeOK, CoordType
  <1>n. ~NewSigningIdentity /\ (key' = key => ~(key > 1))
    BY <1>k DEF NewSigningIdentity, Uninterrupted
  <1>1. ~EpochBoundaryReached /\ ~StepDown /\ ~BecomeActive
    BY Zenon, <1>n DEF EpochBoundaryReached, StepDown, BecomeActive, StopDispatchLoop, Uninterrupted
  <1>2. ~EpochRotate /\ ~CleanUpTransactionsNotYetDispatched
    BY Zenon DEF EpochRotate, CleanUpTransactionsNotYetDispatched, StopInv, Uninterrupted
  <1>3. ~RestartDispatchLoop
    BY Zenon, <1>n DEF RestartDispatchLoop, StopInv
  <1>4. CASE DispatchedTransition
    BY Zenon, <1>4, <1>n DEF DispatchedTransition, QuietStep, Uninterrupted
  <1> QED
    BY Zenon, <1>1, <1>2, <1>3, <1>4

\* What interrupts the dispatch loop, or prepares a transaction again, is never undone.
LEMMA StillUninterrupted ==
    ASSUME TypeInv, StopInv, [Next]_vars, Uninterrupted'
    PROVE  Uninterrupted
  <1> USE DEF coordVars, txVars, depVars, queueVars, loopVars, ledgerVars, eventVars
  <1>1. ASSUME NEW t \in Txs, StartPrepare(t) PROVE Uninterrupted
    <2>1. prepares' = [prepares EXCEPT ![t] = @ + 1] /\ prepares \in [Txs -> Nat]
          /\ UNCHANGED <<key, cancelled>>
      BY Zenon, <1>1 DEF StartPrepare, TypeInv, TypeOK, TxType
    <2>2. \A u \in Txs : prepares[u] <= 1
      BY <2>1 DEF Uninterrupted
    <2> QED
      BY Zenon, <2>1, <2>2 DEF Uninterrupted
  <1>s. ASSUME UNCHANGED <<key, cancelled, prepares>> PROVE Uninterrupted
    <2>1. key' = key /\ cancelled' = cancelled /\ prepares' = prepares
      BY Zenon, <1>s
    <2>2. key' = 1 /\ ~cancelled' /\ \A t \in Txs : prepares'[t] <= 1
      BY Zenon DEF Uninterrupted
    <2> QED
      BY Zenon, <2>1, <2>2 DEF Uninterrupted
  <1>2. ASSUME NEW t \in Txs, DependencyReset(t) \/ ChainedDependencyFailed(t)
        PROVE  UNCHANGED <<key, cancelled, prepares>>
    BY Zenon, <1>2 DEF DependencyReset, ChainedDependencyFailed
  <1>3. CASE HandlerReturns
    BY Zenon, <1>3, <1>s DEF HandlerReturns
  <1>4. ASSUME NEW t, NEW id, PrepareSucceeded(t, id) \/ PrepareFailed(t, id)
        PROVE  UNCHANGED <<key, cancelled, prepares>>
    BY Zenon, <1>4 DEF PrepareSucceeded, PrepareFailed
  <1>5. CASE EnqueueUnblocked
    BY Zenon, <1>5, <1>s DEF EnqueueUnblocked
  <1>6. ASSUME NEW i, ConfirmedSuccess(i) \/ ConfirmedRevertedRetry(i) \/ ConfirmedRevertedFinal(i)
        PROVE  UNCHANGED <<key, cancelled, prepares>>
    BY Zenon, <1>6 DEF ConfirmedSuccess, ConfirmedRevertedRetry, ConfirmedRevertedFinal,
       OutcomeDelivered
  <1>7. CASE DispatchLoopNext
    <2>1. UNCHANGED <<key, cancelled, prepares>>
      BY Zenon, <1>7 DEF DispatchLoopNext, TakeFirst, StopAtSelect, CapacityFree, CapacityExhausted,
                  CapacityFreed, PullDispatchBatch, StopWhileWaiting, HandleDispatched,
                    CheckDispatched,
                  PersistDispatchBatch, PersistAbandoned, HandleChainedChildren
    <2> QED
      BY Zenon, <1>s, <2>1
  <1>8. CASE UNCHANGED vars
    BY Zenon, <1>8 DEF vars, Uninterrupted
  <1> QED
    BY Zenon, <1>s, <1>1, <1>2, <1>3, <1>4, <1>5, <1>6, <1>7, <1>8, QuietSteps
    DEF Next, EventLoopNext, CascadeNext

\* Where the sets of dispatches stay, what has landed stays landed.
LEMMA LandedStep ==
    ASSUME Done \subseteq Done', NEW d, NEW n, Landed(d, n)
    PROVE  Landed(d, n)'
  BY Zenon DEF Landed, Of

\* What is backed stays so while the dispatches that back it are still assured
\* or have been accepted.
LEMMA BackedStep ==
    ASSUME Done \subseteq Done',
           NEW t, NEW d, NEW n, Backed(t, d, n),
           \A q \in Coming : Of(d, q) /\ Assured(t, q) => (q \in Coming' /\ Assured(t, q)')
             \/ q \in Done'
    PROVE  Backed(t, d, n)'
  <1>1. CASE Landed(d, n)
    BY Zenon, <1>1, LandedStep DEF Backed
  <1>2. CASE \E q \in Coming : Of(d, q) /\ q.n < n /\ Assured(t, q)
    <2> PICK q \in Coming : Of(d, q) /\ q.n < n /\ Assured(t, q)
      BY Zenon, <1>2
    <2>1. CASE q \in Coming' /\ Assured(t, q)'
      BY Zenon, <2>1 DEF Backed, Of
    <2>2. CASE q \in Done'
      BY Zenon, <2>2 DEF Backed, Landed, Of
    <2> QED
      BY Zenon, <2>1, <2>2
  <1> QED
    BY Zenon, <1>1, <1>2 DEF Backed

\* No transaction moves on but to be pooled, confirmed or reverted, ...
Settling ==
    /\ UNCHANGED <<persisted, accepted, batch, dispatchQueue, enqueuing, enqueued, loop, prepares>>
    /\ \A t \in Txs : \/ txState'[t] = txState[t]
                      \/ txState[t] # "Confirmed" /\ txState'[t] \in {"Pooled", "Confirmed",
                         "Reverted"}
    /\ \A t \in Txs : txState'[t] = "Preparing" => prepareID'[t] = prepareID[t]
    /\ links' \subseteq links

\* ... and what was assured to one still on its way is assured or accepted.
KeepsAssured ==
    \A t \in Txs, q \in Coming :
        /\ txState'[t] \in {"Preparing", "Ready_For_Dispatch"}
        /\ <<t, q.tx>> \in Spends \cup Chained
        /\ Assured(t, q)
        => Assured(t, q)' \/ q \in Done

\* The steps of an event handler that send transactions back or confirm them,
\* and leave the dispatches where they are.
LEMMA Settle ==
    ASSUME TypeInv, DepInv, enqueuing = <<>>, Settling, KeepsAssured
    PROVE  OnceInv' /\ HeldInv' /\ KnownInv' /\ FirstInv'
  <1>1. Done' = Done /\ Coming' = Coming /\ Blocked' = Blocked /\ Blocked = {}
    <2>1. Range(<<>>) = {}
      BY DEF Range
    <2> QED
      BY Zenon, <2>1 DEF Done, Coming, Blocked, Settling
  <1>2. \A q \in Done \cup Coming \cup Blocked : q.tx \in Txs
    BY Zenon, Dispatches
  <1>3. OnceInv'
    BY Zenon, <1>1, <1>2 DEF DepInv, OnceInv, Settling
  <1>4. HeldInv'
    <2>1. \A t \in Txs : txState'[t] = "Ready_For_Dispatch" => \E q \in Coming : q.tx = t
      BY Zenon DEF DepInv, HeldInv, Settling
    <2>2. \A t \in Txs : txState'[t] = "Dispatched" => \E q \in Done \cup Coming : q.tx = t
      BY Zenon DEF DepInv, HeldInv, Settling
    <2>3. loop = "check" => txState'[batch[1].tx] # "Ready_For_Dispatch"
      <3> SUFFICES ASSUME loop = "check" PROVE txState'[batch[1].tx] # "Ready_For_Dispatch"
        BY Zenon
      <3>1. batch # <<>> /\ batch \in Seq(QueuedDispatches)
        BY DEF TypeInv, BatchInv, TypeOK, LoopType
      <3>2. batch[1] \in Coming
        BY Zenon, <3>1, TailRange DEF Coming
      <3> QED
        BY Zenon, <1>2, <3>2 DEF DepInv, HeldInv, Settling
    <2> QED
      BY Zenon, <1>1, <2>1, <2>2, <2>3 DEF HeldInv, Settling
  <1>5. KnownInv'
    BY Zenon, <1>1 DEF DepInv, KnownInv, Settling
  <1>8. \A t \in Txs : txState'[t] \in {"Preparing", "Ready_For_Dispatch"} =>
           \A d : <<t, d[1]>> \in Spends \cup Chained =>
             \A n : Backed(t, d, n) => Backed(t, d, n)'
    <2> TAKE t \in Txs
    <2>1. HAVE txState'[t] \in {"Preparing", "Ready_For_Dispatch"}
    <2> TAKE d
    <2>2. HAVE <<t, d[1]>> \in Spends \cup Chained
    <2> TAKE n
    <2>3. HAVE Backed(t, d, n)
    <2>4. ASSUME NEW q \in Coming, Of(d, q), Assured(t, q)
          PROVE  (q \in Coming' /\ Assured(t, q)') \/ q \in Done'
      <3>1. d[1] = q.tx
        BY <2>4 DEF Of
      <3> QED
        BY Zenon, <1>1, <2>1, <2>2, <2>4, <3>1 DEF KeepsAssured
    <2> QED
      BY Zenon, <1>1, <2>3, <2>4, BackedStep
  <1>7. FirstInv'
    <2>1. \A p \in Range(persisted) : \A d \in p.deps :
              \E q \in Range(persisted) : Of(d, q) /\ q.n < p.n
      BY Zenon DEF DepInv, FirstInv, Settling
    <2>2. \A p \in Range(accepted) : \A d \in p.deps : Landed(d, p.n)'
      BY Zenon, <1>1, LandedStep DEF DepInv, FirstInv, Settling
    <2>3. \A p \in Coming : txState'[p.tx] = "Dispatched" => \A d \in p.deps : Landed(d, p.n)'
      BY Zenon, <1>1, <1>2, LandedStep DEF DepInv, FirstInv, Settling
    <2>4. ASSUME NEW p \in Coming, txState'[p.tx] = "Ready_For_Dispatch", NEW d \in p.deps
          PROVE  Backed(p.tx, d, p.n)'
      <3>1. p.tx \in Txs /\ txState[p.tx] = "Ready_For_Dispatch"
        BY Zenon, <1>2, <2>4 DEF Settling
      <3>2. Backed(p.tx, d, p.n) /\ <<p.tx, d[1]>> \in Spends \cup Chained
        BY Zenon, <3>1 DEF DepInv, FirstInv, KnownInv, Settling
      <3>3. txState'[p.tx] \in {"Preparing", "Ready_For_Dispatch"}
        BY Zenon, <2>4
      <3>4. \A n : Backed(p.tx, d, n) => Backed(p.tx, d, n)'
        BY Zenon, <1>8, <3>1, <3>2, <3>3
      <3> QED
        BY Zenon, <3>2, <3>4 DEF Settling
    <2>5. ASSUME NEW t \in Txs, txState'[t] = "Preparing", NEW u \in Prerequisites(t)'
          PROVE  txState'[u] = "Confirmed" \/ Backed(t, <<u, 1>>, enqueued + 1)'
      <3>1. txState[t] = "Preparing"
        BY Zenon, <2>5 DEF Settling
      <3>2. u \in Txs /\ u \in Prerequisites(t)
        BY Zenon DEF Prerequisites, Settling
      <3>3. <<t, <<u, 1>>[1]>> \in Spends \cup Chained
        <4>1. <<t, u>> \in links \cup Chained
          BY Zenon, <3>2 DEF Prerequisites
        <4> QED
          BY <4>1 DEF DepInv, KnownInv, Settling
      <3>4. CASE txState[u] = "Confirmed"
        BY Zenon, <3>2, <3>4 DEF Settling
      <3>5. CASE Backed(t, <<u, 1>>, enqueued + 1)
        <4> PICK m : m = enqueued + 1
          BY Zenon
        <4>1. Backed(t, <<u, 1>>, m)
          BY Zenon, <3>5
        <4>2. txState'[t] \in {"Preparing", "Ready_For_Dispatch"}
          BY Zenon, <2>5
        <4>3. Backed(t, <<u, 1>>, m)'
          BY Zenon, <1>8, <3>3, <4>1, <4>2
        <4>4. m = enqueued' + 1
          BY Zenon DEF Settling
        <4> QED
          BY Zenon, <4>3, <4>4
      <3> QED
        BY Zenon, <3>1, <3>2, <3>4, <3>5 DEF DepInv, FirstInv, Settling
    <2> QED
      BY Zenon, <1>1, <2>1, <2>2, <2>3, <2>4, <2>5 DEF FirstInv, Of, Settling
  <1> QED
    BY Zenon, <1>3, <1>4, <1>5, <1>7

\* What telling dependent x leaves of the frames.
LEMMA ToldFrames ==
    ASSUME NEW x \in Txs, cascade \in Seq(Frames), cascade # <<>>
    PROVE  \A i \in 1 .. Len(cascade) :
               /\ Told(x)[i].tx = cascade[i].tx /\ Told(x)[i].kind = cascade[i].kind
               /\ Told(x)[i].todo \subseteq cascade[i].todo
               /\ cascade[i].todo \ {x} \subseteq Told(x)[i].todo
  <1> DEFINE top == [cascade[1] EXCEPT !.todo = @ \ {x}]
  <1>1. cascade[1] \in Frames /\ Tail(cascade) \in Seq(Frames)
    OBVIOUS
  <1>2. /\ top \in Frames /\ top.tx = cascade[1].tx /\ top.kind = cascade[1].kind
        /\ top.todo = cascade[1].todo \ {x}
    BY Zenon, <1>1 DEF Frames
  <1>3. Told(x) = <<top>> \o Tail(cascade)
    BY Zenon DEF Told
  <1> HIDE DEF top
  <1>4. \A i \in 1 .. Len(cascade) : (i = 1 /\ Told(x)[i] = top) \/ Told(x)[i] = cascade[i]
    BY <1>1, <1>2, <1>3
  <1> QED
    BY Zenon, <1>2, <1>4

\* The frames after a dependent was told, f being the frame of its own handler.
Pushed(f, x) == cascade' = <<f>> \o Told(x)

\* After a dependent is told, the handlers are those before, with a new one at most.
LEMMA FramesTold ==
    ASSUME TypeInv, cascade # <<>>, NEW x \in Txs, NEW f \in Frames,
           cascade' = Told(x) \/ Pushed(f, x)
    PROVE  /\ \A i \in DOMAIN cascade' :
                 \/ Pushed(f, x) /\ cascade'[i] = f
                 \/ \E j \in DOMAIN cascade :
                       /\ cascade'[i].tx = cascade[j].tx /\ cascade'[i].kind = cascade[j].kind
                       /\ cascade'[i].todo \subseteq cascade[j].todo
           /\ \A j \in DOMAIN cascade : \E i \in DOMAIN cascade' :
                 /\ cascade'[i].tx = cascade[j].tx /\ cascade'[i].kind = cascade[j].kind
                 /\ cascade[j].todo \ {x} \subseteq cascade'[i].todo
           /\ Pushed(f, x) => \E i \in DOMAIN cascade' : cascade'[i] = f
  <1>1. cascade \in Seq(Frames) /\ Len(cascade) \in Nat /\ DOMAIN cascade = 1 .. Len(cascade)
    BY Zenon, LenProperties DEF TypeInv, TypeOK, DepType
  <1>2. Told(x) \in Seq(Frames) /\ Len(Told(x)) = Len(cascade)
    BY Zenon, <1>1, ToldType
  <1>3. DOMAIN Told(x) = 1 .. Len(cascade)
    BY Zenon, <1>2, LenProperties
  <1>4. \A i \in 1 .. Len(cascade) :
               /\ Told(x)[i].tx = cascade[i].tx /\ Told(x)[i].kind = cascade[i].kind
               /\ Told(x)[i].todo \subseteq cascade[i].todo
               /\ cascade[i].todo \ {x} \subseteq Told(x)[i].todo
    BY Zenon, <1>1, ToldFrames
  <1>5. CASE Pushed(f, x)
    <2>1. /\ DOMAIN cascade' = 1 .. Len(cascade) + 1 /\ cascade'[1] = f
          /\ \A i \in 1 .. Len(cascade) : cascade'[i + 1] = Told(x)[i]
      <3>1. <<f>> \in Seq(Frames) /\ Len(<<f>>) = 1 /\ <<f>>[1] = f
        OBVIOUS
      <3>2. cascade' = <<f>> \o Told(x)
        BY Zenon, <1>5 DEF Pushed
      <3> QED
        BY <1>1, <1>2, <3>1, <3>2, ConcatProperties, LenProperties
    <2>2. 1 \in DOMAIN cascade'
      BY <1>1, <2>1
    <2>3. \A i \in DOMAIN cascade' :
              i = 1 \/ (i - 1 \in DOMAIN cascade /\ cascade'[i] = Told(x)[i - 1])
      <3> SUFFICES ASSUME NEW i \in DOMAIN cascade', i # 1
                   PROVE  i - 1 \in DOMAIN cascade /\ cascade'[i] = Told(x)[i - 1]
        BY Zenon
      <3>1. i - 1 \in 1 .. Len(cascade) /\ i = (i - 1) + 1
        BY <1>1, <2>1
      <3> QED
        BY Zenon, <1>1, <2>1, <3>1
    <2>4. \A j \in DOMAIN cascade : j + 1 \in DOMAIN cascade' /\ cascade'[j + 1] = Told(x)[j]
      <3> SUFFICES ASSUME NEW j \in DOMAIN cascade
                   PROVE  j + 1 \in DOMAIN cascade' /\ cascade'[j + 1] = Told(x)[j]
        BY Zenon
      <3>1. j + 1 \in 1 .. Len(cascade) + 1
        BY <1>1
      <3> QED
        BY Zenon, <1>1, <2>1, <3>1
    <2>5. \A i \in DOMAIN cascade' :
                 \/ cascade'[i] = f
                 \/ \E j \in DOMAIN cascade :
                       /\ cascade'[i].tx = cascade[j].tx /\ cascade'[i].kind = cascade[j].kind
                       /\ cascade'[i].todo \subseteq cascade[j].todo
      <3> TAKE i \in DOMAIN cascade'
      <3>1. CASE i = 1
        BY Zenon, <2>1, <3>1
      <3>2. CASE i - 1 \in DOMAIN cascade /\ cascade'[i] = Told(x)[i - 1]
        <4> PICK j \in DOMAIN cascade : cascade'[i] = Told(x)[j]
          BY Zenon, <3>2
        <4> QED
          BY Zenon, <1>1, <1>4
      <3> QED
        BY Zenon, <2>3, <3>1, <3>2
    <2>6. \A j \in DOMAIN cascade : \E i \in DOMAIN cascade' :
                 /\ cascade'[i].tx = cascade[j].tx /\ cascade'[i].kind = cascade[j].kind
                 /\ cascade[j].todo \ {x} \subseteq cascade'[i].todo
      BY Zenon, <1>1, <1>4, <2>4
    <2> QED
      BY Zenon, <1>5, <2>1, <2>2, <2>5, <2>6
  <1>6. CASE cascade' = Told(x) /\ ~Pushed(f, x)
    BY Zenon, <1>1, <1>3, <1>4, <1>6
  <1> QED
    BY Zenon, <1>5, <1>6

\* The handlers that tell a dependent of a reset still do so, but for x.
LEMMA StillTells ==
    ASSUME TypeInv, cascade # <<>>, NEW x \in Txs, NEW f \in Frames,
           cascade' = Told(x) \/ Pushed(f, x), NEW u, NEW t, t # x, TellsOfReset(u, t)
    PROVE  TellsOfReset(u, t)'
  <1> PICK j \in DOMAIN cascade : cascade[j].kind = "reset" /\ cascade[j].tx = u
        /\ t \in cascade[j].todo
    BY Zenon DEF TellsOfReset
  <1> PICK i \in DOMAIN cascade' :
                 /\ cascade'[i].tx = cascade[j].tx /\ cascade'[i].kind = cascade[j].kind
                 /\ cascade[j].todo \ {x} \subseteq cascade'[i].todo
    BY Zenon, FramesTold
  <1> QED
    BY Zenon DEF TellsOfReset

\* The frames stay those of transactions on their way back.
LEMMA StillTold ==
    ASSUME TypeInv, cascade # <<>>, ToldInv, NEW x \in Txs, NEW f \in Frames,
           cascade' = Told(x) \/ Pushed(f, x),
           \A t \in Txs : txState'[t] = txState[t] \/ txState'[t] \notin {"Preparing",
             "Ready_For_Dispatch"},
           Pushed(f, x) => /\ txState'[f.tx] \notin {"Preparing", "Ready_For_Dispatch"}
                           /\ f.kind = "failed" => \A t \in f.todo : \E c \in Chained : c[1] = t
    PROVE  ToldInv'
  <1>1. \A j \in DOMAIN cascade : cascade[j].tx \in Txs
    <2>1. cascade \in Seq(Frames)
      BY Zenon DEF TypeInv, TypeOK, DepType
    <2>2. \A j \in DOMAIN cascade : cascade[j] \in Frames
      BY <2>1
    <2> QED
      BY Zenon, <2>2 DEF Frames
  <1> SUFFICES ASSUME NEW i \in DOMAIN cascade'
      PROVE /\ txState'[cascade'[i].tx] \notin {"Preparing", "Ready_For_Dispatch"}
            /\ cascade'[i].kind = "failed" => \A t \in cascade'[i].todo : \E c \in Chained :
               c[1] = t
    BY Zenon DEF ToldInv
  <1>2. CASE Pushed(f, x) /\ cascade'[i] = f
    BY Zenon, <1>2
  <1>3. CASE \E j \in DOMAIN cascade :
                       /\ cascade'[i].tx = cascade[j].tx /\ cascade'[i].kind = cascade[j].kind
                       /\ cascade'[i].todo \subseteq cascade[j].todo
    BY Zenon, <1>1, <1>3 DEF ToldInv
  <1>4. \/ Pushed(f, x) /\ cascade'[i] = f
        \/ \E j \in DOMAIN cascade :
                       /\ cascade'[i].tx = cascade[j].tx /\ cascade'[i].kind = cascade[j].kind
                       /\ cascade'[i].todo \subseteq cascade[j].todo
    BY Zenon, FramesTold
  <1> QED
    BY Zenon, <1>2, <1>3, <1>4

\* No dispatch is being blocked on while handlers run.
LEMMA NobodyBlocked ==
    ASSUME TypeInv, OrderInv
    PROVE  /\ eventLoop \in {"idle", "cascade"} => enqueuing = <<>>
           /\ eventLoop = "idle" => cascade = <<>>
  BY Zenon DEF OrderInv, EnqueuingInv, TypeInv, CascadeInv

\* The first of the batch at the check is not ready for dispatch.
LEMMA CheckedNotReady ==
    ASSUME DepInv, NEW q, txState[q.tx] = "Ready_For_Dispatch", loop = "check"
    PROVE  q # batch[1]
  BY Zenon DEF DepInv, HeldInv

\* The return of a handler that told all its dependents.
LEMMA HandlerReturnsDep ==
    ASSUME TypeInv, OrderInv, DepInv, HandlerReturns
    PROVE  DepInv'
  <1> USE DEF coordVars, txVars, depVars, queueVars, loopVars, ledgerVars, eventVars
  <1>1. /\ UNCHANGED <<persisted, accepted, batch, dispatchQueue, enqueuing, enqueued, loop,
           prepares>>
        /\ UNCHANGED <<txState, prepareID>> /\ eventLoop = "cascade"
        /\ cascade[1].todo = {} /\ cascade' = Tail(cascade)
        /\ links' = links \/ links' = {l \in links : l[1] \notin {cascade[1].tx}
           /\ l[2] \notin {cascade[1].tx}}
    BY Zenon DEF HandlerReturns, Forget
  <1>2. enqueuing = <<>> /\ cascade # <<>> /\ cascade \in Seq(Frames)
    BY Zenon, <1>1, NobodyBlocked DEF TypeInv, TypeOK, CascadeInv, DepType
  <1>3. /\ 1 \in DOMAIN cascade
        /\ \A i \in DOMAIN cascade : i = 1 \/ (i - 1 \in DOMAIN Tail(cascade)
           /\ cascade[i] = Tail(cascade)[i - 1])
        /\ \A i \in DOMAIN Tail(cascade) : i + 1 \in DOMAIN cascade
           /\ Tail(cascade)[i] = cascade[i + 1]
    BY <1>2
  <1>4. txState[cascade[1].tx] \notin {"Preparing", "Ready_For_Dispatch"}
    BY Zenon, <1>3 DEF DepInv, ToldInv
  <1>5. ASSUME NEW u, NEW t, TellsOfReset(u, t)
        PROVE  TellsOfReset(u, t)'
    <2> PICK i \in DOMAIN cascade : cascade[i].kind = "reset" /\ cascade[i].tx = u
          /\ t \in cascade[i].todo
      BY Zenon, <1>5 DEF TellsOfReset
    <2>1. i # 1
      BY Zenon, <1>1
    <2>2. i - 1 \in DOMAIN cascade' /\ cascade[i] = cascade'[i - 1]
      BY Zenon, <1>1, <1>3, <2>1
    <2> QED
      BY Zenon, <2>2 DEF TellsOfReset
  <1>6. KeepsAssured
    <2> USE DEF KeepsAssured
    <2> TAKE t \in Txs, q \in Coming
    <2>0. HAVE /\ txState'[t] \in {"Preparing", "Ready_For_Dispatch"}
               /\ <<t, q.tx>> \in Spends \cup Chained
               /\ Assured(t, q)
    <2>1. CASE txState[q.tx] = "Dispatched"
      BY Zenon, <1>1, <2>1 DEF Assured
    <2>2. CASE txState[q.tx] = "Ready_For_Dispatch" /\ <<t, q.tx>> \in links \cup Chained
      <3>1. t # cascade[1].tx /\ q.tx # cascade[1].tx
        BY Zenon, <1>1, <1>4, <2>0, <2>2
      <3>2. <<t, q.tx>>[1] = t /\ <<t, q.tx>>[2] = q.tx
        OBVIOUS
      <3>3. <<t, q.tx>> \in links' \cup Chained
        BY Zenon, <1>1, <2>2, <3>1, <3>2
      <3> QED
        BY Zenon, <1>1, <2>2, <3>3 DEF Assured
    <2>3. CASE (loop = "check" => q # batch[1]) /\ TellsOfReset(q.tx, t)
      BY Zenon, <1>1, <1>5, <2>3 DEF Assured
    <2> QED
      BY Zenon, <2>0, <2>1, <2>2, <2>3 DEF Assured
  <1>7. Settling
    BY Zenon, <1>1 DEF Settling
  <1>8. OnceInv' /\ HeldInv' /\ KnownInv' /\ FirstInv'
    BY Zenon, <1>2, <1>6, <1>7, Settle
  <1>9. ToldInv'
    <2> SUFFICES ASSUME NEW i \in DOMAIN cascade'
        PROVE /\ txState'[cascade'[i].tx] \notin {"Preparing", "Ready_For_Dispatch"}
              /\ cascade'[i].kind = "failed" => \A t \in cascade'[i].todo : \E c \in Chained :
                 c[1] = t
      BY Zenon DEF ToldInv
    <2> PICK j \in DOMAIN cascade : cascade'[i] = cascade[j]
      BY Zenon, <1>1, <1>3
    <2> QED
      BY Zenon, <1>1 DEF DepInv, ToldInv
  <1> QED
    BY Zenon, <1>8, <1>9 DEF DepInv

\* Event_DependencyReset: those who need the transaction are told before its
\* queued dispatch can be dropped.
LEMMA DependencyResetDep ==
    ASSUME TypeInv, OrderInv, DepInv, NEW x \in Txs, DependencyReset(x)
    PROVE  DepInv'
  <1> USE DEF coordVars, txVars, depVars, queueVars, loopVars, ledgerVars, eventVars
  <1>1. /\ UNCHANGED <<persisted, accepted, batch, dispatchQueue, enqueuing, enqueued, loop,
           prepares>>
        /\ eventLoop = "cascade"
    BY Zenon DEF DependencyReset
  <1>2. enqueuing = <<>> /\ cascade # <<>>
    BY Zenon, <1>1, NobodyBlocked DEF TypeInv, CascadeInv
  <1>3. txState \in [Txs -> TxStates] /\ prepareID \in [Txs -> Nat]
    BY Zenon, Dispatches
  <1>4. CASE /\ txState[x] \in {"Preparing", "Ready_For_Dispatch"}
             /\ txState' = [txState EXCEPT ![x] = "Pooled"]
             /\ prepareID' = [prepareID EXCEPT ![x] = 0]
             /\ cascade' = <<Notify(x, "reset", Dependents(x), FALSE)>> \o Told(x)
             /\ UNCHANGED <<minters, links>>
    <2>1. /\ txState'[x] = "Pooled" /\ \A t \in Txs \ {x} : txState'[t] = txState[t]
             /\ prepareID'[t] = prepareID[t]
      BY Zenon, <1>3, <1>4
    <2>2. Settling
      BY Zenon, <1>1, <1>4, <2>1 DEF Settling
    <2> PICK f \in Frames : f = Notify(x, "reset", Dependents(x), FALSE)
      BY Zenon, NotifiesType
    <2>3. f.tx = x /\ f.kind = "reset" /\ f.todo = Dependents(x)
      BY Zenon DEF Notify
    <2>4. Pushed(f, x)
      BY Zenon, <1>4 DEF Pushed
    <2>5. PICK i \in DOMAIN cascade' : cascade'[i] = f
      BY Zenon, <1>2, <2>4, FramesTold
    <2>6. KeepsAssured
      <3> USE DEF KeepsAssured
      <3> TAKE t \in Txs, q \in Coming
      <3>0. HAVE /\ txState'[t] \in {"Preparing", "Ready_For_Dispatch"}
                 /\ <<t, q.tx>> \in Spends \cup Chained
                 /\ Assured(t, q)
      <3>t. t # x /\ q.tx \in Txs
        BY Zenon, <2>1, <3>0, Dispatches
      <3>1. CASE txState[q.tx] = "Dispatched"
        BY Zenon, <1>4, <2>1, <3>1, <3>t DEF Assured
      <3>2. CASE /\ txState[q.tx] = "Ready_For_Dispatch" /\ <<t, q.tx>> \in links \cup Chained
                 /\ q.tx # x
        BY Zenon, <1>4, <2>1, <3>2, <3>t DEF Assured
      <3>3. CASE /\ txState[q.tx] = "Ready_For_Dispatch" /\ <<t, q.tx>> \in links \cup Chained
                 /\ q.tx = x
        <4>1. t \in Dependents(x)
          BY Zenon, <3>3 DEF Dependents
        <4>2. TellsOfReset(q.tx, t)'
          BY Zenon, <2>3, <2>5, <3>3, <4>1 DEF TellsOfReset
        <4>3. loop = "check" => q # batch[1]
          BY Zenon, <3>3, CheckedNotReady
        <4> QED
          BY Zenon, <1>1, <4>2, <4>3 DEF Assured
      <3>4. CASE (loop = "check" => q # batch[1]) /\ TellsOfReset(q.tx, t)
        <4>1. TellsOfReset(q.tx, t)'
          BY Zenon, <1>2, <2>4, <3>4, <3>t, StillTells
        <4> QED
          BY Zenon, <1>1, <3>4, <4>1 DEF Assured
      <3> QED
        BY Zenon, <3>0, <3>1, <3>2, <3>3, <3>4 DEF Assured
    <2>7. \A t \in Txs : txState'[t] = txState[t] \/ txState'[t] \notin {"Preparing",
            "Ready_For_Dispatch"}
      BY Zenon, <2>1
    <2>8. ToldInv'
      BY Zenon, <1>2, <2>1, <2>3, <2>4, <2>7, StillTold DEF DepInv
    <2> QED
      BY Zenon, <1>2, <2>2, <2>6, <2>8, Settle DEF DepInv
  <1>5. CASE /\ txState[x] = "Dispatched"
             /\ Forget({x})
             /\ cascade' = <<Notify(x, "reset", ChainedDependents(x), FALSE)>> \o Told(x)
             /\ UNCHANGED <<txState, prepareID>>
    <2>1. links' = {l \in links : l[1] \notin {x} /\ l[2] \notin {x}}
      BY Zenon, <1>5 DEF Forget
    <2>2. Settling
      BY Zenon, <1>1, <1>5, <2>1 DEF Settling
    <2> PICK f \in Frames : f = Notify(x, "reset", ChainedDependents(x), FALSE)
      BY Zenon, NotifiesType
    <2>3. f.tx = x /\ f.kind = "reset"
      BY Zenon DEF Notify
    <2>4. Pushed(f, x)
      BY Zenon, <1>5 DEF Pushed
    <2>6. KeepsAssured
      <3> USE DEF KeepsAssured
      <3> TAKE t \in Txs, q \in Coming
      <3>0. HAVE /\ txState'[t] \in {"Preparing", "Ready_For_Dispatch"}
                 /\ <<t, q.tx>> \in Spends \cup Chained
                 /\ Assured(t, q)
      <3>t. t # x
        BY Zenon, <1>5, <3>0
      <3>1. CASE txState[q.tx] = "Dispatched"
        BY Zenon, <1>5, <3>1 DEF Assured
      <3>2. CASE txState[q.tx] = "Ready_For_Dispatch" /\ <<t, q.tx>> \in links \cup Chained
        <4>1. q.tx # x
          BY Zenon, <1>5, <3>2
        <4>2. <<t, q.tx>>[1] = t /\ <<t, q.tx>>[2] = q.tx
          OBVIOUS
        <4>3. <<t, q.tx>> \in links' \cup Chained
          BY Zenon, <2>1, <3>2, <3>t, <4>1, <4>2
        <4> QED
          BY Zenon, <1>5, <3>2, <4>3 DEF Assured
      <3>4. CASE (loop = "check" => q # batch[1]) /\ TellsOfReset(q.tx, t)
        <4>1. TellsOfReset(q.tx, t)'
          BY Zenon, <1>2, <2>4, <3>4, <3>t, StillTells
        <4> QED
          BY Zenon, <1>1, <3>4, <4>1 DEF Assured
      <3> QED
        BY Zenon, <3>0, <3>1, <3>2, <3>4 DEF Assured
    <2>7. txState'[f.tx] \notin {"Preparing", "Ready_For_Dispatch"}
      BY Zenon, <1>5, <2>3
    <2>8. ToldInv'
      BY Zenon, <1>2, <1>5, <2>3, <2>4, <2>7, StillTold DEF DepInv
    <2> QED
      BY Zenon, <1>2, <2>2, <2>6, <2>8, Settle DEF DepInv
  <1>6. CASE /\ txState[x] \in {"Pooled", "Confirmed", "Reverted"}
             /\ cascade' = Told(x)
             /\ UNCHANGED <<txState, prepareID, minters, links>>
    <2>2. Settling
      BY Zenon, <1>1, <1>6 DEF Settling
    <2> PICK f \in Frames : f = Notify(x, "reset", ChainedDependents(x), FALSE)
      BY Zenon, NotifiesType
    <2>3. f.tx = x /\ f.kind = "reset"
      BY Zenon DEF Notify
    <2>6. KeepsAssured
      <3> USE DEF KeepsAssured
      <3> TAKE t \in Txs, q \in Coming
      <3>0. HAVE /\ txState'[t] \in {"Preparing", "Ready_For_Dispatch"}
                 /\ <<t, q.tx>> \in Spends \cup Chained
                 /\ Assured(t, q)
      <3>t. t # x
        BY Zenon, <1>6, <3>0
      <3>1. TellsOfReset(q.tx, t) => TellsOfReset(q.tx, t)'
        BY Zenon, <1>2, <1>6, <3>t, StillTells
      <3> QED
        BY Zenon, <1>1, <1>6, <3>0, <3>1 DEF Assured
    <2>7. txState'[f.tx] \notin {"Preparing", "Ready_For_Dispatch"}
      BY Zenon, <1>6, <2>3
    <2>8. ToldInv'
      BY Zenon, <1>2, <1>6, <2>3, <2>7, StillTold DEF DepInv
    <2> QED
      BY Zenon, <1>2, <2>2, <2>6, <2>8, Settle DEF DepInv
  <1> QED
    BY Zenon, <1>4, <1>5, <1>6 DEF DependencyReset

\* A step that concerns none of the dispatches.
LEMMA QuietDep ==
    ASSUME DepInv, QuietStep
    PROVE  DepInv'
  <1> USE DEF QuietStep
  <1>1. Done' = Done /\ Coming' = Coming /\ Blocked' = Blocked
    BY Zenon DEF Done, Coming, Blocked
  <1>2. OnceInv' /\ HeldInv' /\ KnownInv'
    BY Zenon, <1>1 DEF DepInv, OnceInv, HeldInv, KnownInv
  <1>3. ToldInv'
    BY Zenon DEF DepInv, ToldInv
  <1>4. \A t, q : Assured(t, q) => Assured(t, q)'
    BY Zenon DEF Assured, TellsOfReset
  <1>5. \A t, d, n : Backed(t, d, n) => Backed(t, d, n)'
    BY Zenon, <1>1, <1>4, BackedStep
  <1>6. \A d, n : Landed(d, n) => Landed(d, n)'
    BY Zenon, <1>1, LandedStep
  <1>7. FirstInv'
    <2>1. \A t : Prerequisites(t)' = Prerequisites(t)
      BY Zenon DEF Prerequisites
    <2>2. \A t \in Txs : txState'[t] = "Preparing" =>
          \A u \in Prerequisites(t) : txState'[u] = "Confirmed"
            \/ Backed(t, <<u, 1>>, enqueued + 1)'
      <3>1. SUFFICES ASSUME NEW t \in Txs, txState'[t] = "Preparing", NEW u \in Prerequisites(t)
                    PROVE  txState'[u] = "Confirmed" \/ Backed(t, <<u, 1>>, enqueued + 1)'
        BY Zenon
      <3> PICK m : m = enqueued + 1
        BY Zenon
      <3>2. txState[u] = "Confirmed" \/ Backed(t, <<u, 1>>, m)
        BY Zenon, <3>1 DEF DepInv, FirstInv
      <3>3. Backed(t, <<u, 1>>, m) => Backed(t, <<u, 1>>, m)'
        BY Zenon, <1>5
      <3>4. m = enqueued' + 1
        BY Zenon
      <3> QED
        BY Zenon, <3>2, <3>3, <3>4
    <2>3. \A p \in Range(accepted) : \A d \in p.deps : Landed(d, p.n)'
      BY Zenon, <1>6 DEF DepInv, FirstInv
    <2>4. \A p \in Coming : txState[p.tx] = "Dispatched" => \A d \in p.deps : Landed(d, p.n)'
      BY Zenon, <1>6 DEF DepInv, FirstInv
    <2>5. \A p \in Coming : txState[p.tx] = "Ready_For_Dispatch" => \A d \in p.deps :
            Backed(p.tx, d, p.n)'
      BY Zenon, <1>5 DEF DepInv, FirstInv
    <2>6. \A p \in Blocked : \A d \in p.deps : Backed(p.tx, d, p.n)'
      BY Zenon, <1>5 DEF DepInv, FirstInv
    <2>7. \A p \in Range(persisted) : \A d \in p.deps :
              \E q \in Range(persisted) : Of(d, q) /\ q.n < p.n
      BY Zenon DEF DepInv, FirstInv
    <2> QED
      BY Zenon, <1>1, <2>1, <2>2, <2>3, <2>4, <2>5, <2>6, <2>7 DEF FirstInv, Of
  <1> QED
    BY Zenon, <1>2, <1>3, <1>7 DEF DepInv

\* Event_ChainedDependencyFailed reverts a transaction nobody depends on.
LEMMA ChainedDependencyFailedDep ==
    ASSUME TypeInv, OrderInv, DepInv, ShallowChains, NEW x \in Txs, ChainedDependencyFailed(x)
    PROVE  DepInv'
  <1> USE DEF coordVars, txVars, depVars, queueVars, loopVars, ledgerVars, eventVars
  <1>1. /\ UNCHANGED <<persisted, accepted, batch, dispatchQueue, enqueuing, enqueued, loop,
           prepares>>
        /\ eventLoop = "cascade" /\ cascade[1].kind = "failed" /\ x \in cascade[1].todo
    BY Zenon DEF ChainedDependencyFailed
  <1>2. enqueuing = <<>> /\ cascade # <<>> /\ cascade \in Seq(Frames)
    BY Zenon, <1>1, NobodyBlocked DEF TypeInv, TypeOK, DepType, CascadeInv
  <1>3. txState \in [Txs -> TxStates] /\ prepareID \in [Txs -> Nat]
    BY Zenon, Dispatches
  <1>4. PICK c \in Chained : c[1] = x
    <2>1. 1 \in DOMAIN cascade
      BY <1>2
    <2> QED
      BY Zenon, <1>1, <2>1 DEF DepInv, ToldInv
  <1>5. \A t, u : <<t, u>> \in Spends \cup Chained => u # x
    <2> TAKE t, u
    <2>1. HAVE <<t, u>> \in Spends \cup Chained
    <2>2. <<t, u>>[2] = u
      OBVIOUS
    <2> QED
      BY Zenon, <1>4, <2>1, <2>2 DEF ShallowChains
  <1> PICK f \in Frames : f = Notify(x, "failed", ChainedDependents(x), FALSE)
    BY Zenon, NotifiesType
  <1>6. f.tx = x /\ f.todo = ChainedDependents(x)
    BY Zenon DEF Notify
  <1>7. \A t \in f.todo : \E e \in Chained : e[1] = t
    <2> TAKE t \in f.todo
    <2>1. <<t, x>> \in Chained /\ <<t, x>>[1] = t
      BY <1>6, Zenon DEF ChainedDependents
    <2> QED
      BY Zenon, <2>1
  <1>8. \/ /\ txState[x] \notin {"Preparing", "Ready_For_Dispatch"} /\ cascade' = Told(x)
           /\ UNCHANGED <<txState, prepareID, links>>
        \/ /\ txState' = [txState EXCEPT ![x] = "Reverted"] /\ txState[x] # "Confirmed"
           /\ prepareID' = [prepareID EXCEPT ![x] = 0]
           /\ links' = {l \in links : l[1] \notin {x} /\ l[2] \notin {x}}
           /\ Pushed(f, x)
    BY Zenon DEF ChainedDependencyFailed, Forget, Pushed
  <1>9. /\ \A t \in Txs \ {x} : txState'[t] = txState[t] /\ prepareID'[t] = prepareID[t]
        /\ txState'[x] \notin {"Preparing", "Ready_For_Dispatch"}
        /\ txState'[x] = txState[x] \/ (txState[x] # "Confirmed" /\ txState'[x] = "Reverted")
        /\ links' \subseteq links
        /\ \A t, u : <<t, u>> \in links /\ t # x /\ u # x => <<t, u>> \in links'
    <2>1. \A t, u : <<t, u>>[1] = t /\ <<t, u>>[2] = u
      OBVIOUS
    <2>2. CASE txState' = txState
      BY Zenon, <1>8, <2>1, <2>2, <1>3
    <2>3. CASE txState' = [txState EXCEPT ![x] = "Reverted"]
      BY Zenon, <1>8, <2>1, <2>3, <1>3
    <2> QED
      BY Zenon, <1>8, <2>2, <2>3
  <1>10. Settling
    BY Zenon, <1>1, <1>9 DEF Settling
  <1>11. cascade' = Told(x) \/ Pushed(f, x)
    BY Zenon, <1>8
  <1>12. KeepsAssured
    <2> USE DEF KeepsAssured
    <2> TAKE t \in Txs, q \in Coming
    <2>0. HAVE /\ txState'[t] \in {"Preparing", "Ready_For_Dispatch"}
               /\ <<t, q.tx>> \in Spends \cup Chained
               /\ Assured(t, q)
    <2>1. t # x /\ q.tx # x /\ q.tx \in Txs
      BY Zenon, <1>5, <1>9, <2>0, Dispatches
    <2>2. txState'[q.tx] = txState[q.tx]
      BY Zenon, <1>9, <2>1
    <2>3. <<t, q.tx>> \in links \cup Chained => <<t, q.tx>> \in links' \cup Chained
      BY Zenon, <1>9, <2>1
    <2>4. TellsOfReset(q.tx, t) => TellsOfReset(q.tx, t)'
      BY Zenon, <1>2, <1>11, <2>1, StillTells
    <2> QED
      BY Zenon, <1>1, <2>0, <2>2, <2>3, <2>4 DEF Assured
  <1>13. \A t \in Txs : txState'[t] = txState[t] \/ txState'[t] \notin {"Preparing",
           "Ready_For_Dispatch"}
    BY Zenon, <1>9
  <1>14. ToldInv'
    BY Zenon, <1>2, <1>6, <1>7, <1>9, <1>11, <1>13, StillTold DEF DepInv
  <1> QED
    BY Zenon, <1>2, <1>10, <1>12, <1>14, Settle DEF DepInv

\* A frame that may be put on the cascade.
OnWayBack(h) ==
    /\ txState'[h.tx] \notin {"Preparing", "Ready_For_Dispatch"}
    /\ h.kind = "failed" => \A t \in h.todo : \E c \in Chained : c[1] = t

\* The frames of one or two handlers, where none were.
LEMMA StartTold ==
    ASSUME NEW f \in Frames, NEW g \in Frames,
           cascade' = <<>> \/ cascade' = <<f>> \/ cascade' = <<f, g>>,
           OnWayBack(f), OnWayBack(g)
    PROVE  ToldInv'
  <1>1. \A i \in DOMAIN cascade' : cascade'[i] \in {f, g}
    <2>1. (\A i \in DOMAIN <<>> : <<>>[i] \in {f, g})
            /\ (\A i \in DOMAIN <<f>> : <<f>>[i] \in {f, g})
          /\ \A i \in DOMAIN <<f, g>> : <<f, g>>[i] \in {f, g}
      OBVIOUS
    <2> QED
      BY Zenon, <2>1
  <1> QED
    BY Zenon, <1>1 DEF ToldInv, OnWayBack

\* Event_PrepareFailed: the transaction has no queued dispatch.
LEMMA PrepareFailedDep ==
    ASSUME TypeInv, OrderInv, DepInv, NEW x \in Txs, NEW id, PrepareFailed(x, id)
    PROVE  DepInv'
  <1> USE DEF coordVars, txVars, depVars, queueVars, loopVars, ledgerVars, eventVars
  <1>1. /\ UNCHANGED <<persisted, accepted, batch, dispatchQueue, enqueuing, enqueued, loop,
           prepares, links>>
        /\ eventLoop = "idle"
    BY Zenon DEF PrepareFailed
  <1>2. enqueuing = <<>> /\ cascade = <<>>
    BY Zenon, <1>1, NobodyBlocked
  <1>3. txState \in [Txs -> TxStates] /\ prepareID \in [Txs -> Nat]
    BY Zenon, Dispatches
  <1>4. CASE UNCHANGED <<txState, prepareID, cascade>>
    BY Zenon, <1>1, <1>4, QuietDep DEF QuietStep
  <1>5. CASE /\ txState[x] = "Preparing" /\ txState' = [txState EXCEPT ![x] = "Pooled"]
             /\ prepareID' = [prepareID EXCEPT ![x] = 0]
             /\ cascade' = <<Notify(x, "reset", Dependents(x), FALSE)>>
    <2>1. txState'[x] = "Pooled" /\ \A t \in Txs \ {x} : txState'[t] = txState[t]
            /\ prepareID'[t] = prepareID[t]
      BY Zenon, <1>3, <1>5
    <2>2. Settling
      BY Zenon, <1>1, <1>5, <2>1 DEF Settling
    <2>3. KeepsAssured
      <3> USE DEF KeepsAssured
      <3> TAKE t \in Txs, q \in Coming
      <3>0. HAVE /\ txState'[t] \in {"Preparing", "Ready_For_Dispatch"}
                 /\ <<t, q.tx>> \in Spends \cup Chained
                 /\ Assured(t, q)
      <3>1. q.tx \in Txs /\ q.tx # x
        BY Zenon, <1>5, Dispatches DEF DepInv, OnceInv
      <3>2. ~TellsOfReset(q.tx, t)
        <4>1. \A i \in DOMAIN <<>> : FALSE
          OBVIOUS
        <4> QED
          BY Zenon, <1>2, <4>1 DEF TellsOfReset
      <3> QED
        BY Zenon, <1>1, <2>1, <3>0, <3>1, <3>2 DEF Assured
    <2> PICK f \in Frames : f = Notify(x, "reset", Dependents(x), FALSE)
      BY Zenon, NotifiesType
    <2>4. f.tx = x /\ f.kind = "reset"
      BY Zenon DEF Notify
    <2>5. cascade' = <<f>>
      BY Zenon, <1>5
    <2>6. OnWayBack(f)
      BY Zenon, <2>1, <2>4 DEF OnWayBack
    <2>7. ToldInv'
      BY Zenon, <2>5, <2>6, StartTold
    <2> QED
      BY Zenon, <1>2, <2>2, <2>3, <2>7, Settle DEF DepInv
  <1> QED
    BY Zenon, <1>4, <1>5 DEF PrepareFailed

\* The outcomes concern a transaction whose dispatch has been persisted.
LEMMA OutcomeDep ==
    ASSUME TypeInv, OrderInv, DepInv, NEW k \in DOMAIN persisted,
           ConfirmedSuccess(k) \/ ConfirmedRevertedRetry(k) \/ ConfirmedRevertedFinal(k)
    PROVE  DepInv'
  <1> USE DEF coordVars, txVars, depVars, queueVars, loopVars, ledgerVars, eventVars
  <1>1. /\ UNCHANGED <<persisted, accepted, batch, dispatchQueue, enqueuing, enqueued, loop,
           prepares, prepareID>>
        /\ eventLoop = "idle"
    BY Zenon DEF ConfirmedSuccess, ConfirmedRevertedRetry, ConfirmedRevertedFinal, OutcomeDelivered,
       MainEvent
  <1>2. enqueuing = <<>> /\ cascade = <<>>
    BY Zenon, <1>1, NobodyBlocked
  <1>3. txState \in [Txs -> TxStates]
    BY Zenon, Dispatches
  <1> PICK p : p = persisted[k]
    BY Zenon
  <1> PICK x : x = p.tx
    BY Zenon
  <1>4. p \in Done /\ x \in Txs
    <2>1. p \in Done
      BY Zenon DEF Done, Range
    <2> QED
      BY Zenon, <2>1, Dispatches
  <1>n. /\ Notify(x, "reset", Dependents(x), TRUE).tx = x
        /\ Notify(x, "reset", Dependents(x), TRUE).kind = "reset"
        /\ Notify(x, "reset", ChainedDependents(x), TRUE).tx = x
        /\ Notify(x, "reset", ChainedDependents(x), TRUE).kind = "reset"
    BY Zenon DEF Notify
  <1> PICK f \in Frames : f \in {Notify(x, "reset", Dependents(x), TRUE), Notify(x, "reset",
        ChainedDependents(x), TRUE)}
                          /\ (ConfirmedRevertedRetry(k) /\ txState[x] = "Dispatched" =>
                             cascade' = <<f>>)
                          /\ (ConfirmedRevertedFinal(k) /\ txState[x] = "Dispatched" =>
                                 cascade' = <<f, Notify(x, "failed", ChainedDependents(x), FALSE)>>)
    <2>1. CASE ConfirmedRevertedRetry(k)
      <3>1. txState[x] = "Dispatched" => cascade' = <<Notify(x, "reset", Dependents(x), TRUE)>>
        BY Zenon, <2>1 DEF ConfirmedRevertedRetry
      <3>2. txState[x] = "Dispatched" => ~ConfirmedRevertedFinal(k)
        BY Zenon, <2>1, <1>3, <1>4 DEF ConfirmedRevertedRetry, ConfirmedRevertedFinal
      <3> QED
        BY Zenon, <1>4, <3>1, <3>2, NotifiesType
    <2>2. CASE ~ConfirmedRevertedRetry(k)
      <3>1. ConfirmedRevertedFinal(k) /\ txState[x] = "Dispatched" =>
               cascade' = <<Notify(x, "reset", ChainedDependents(x), TRUE), Notify(x, "failed",
                 ChainedDependents(x), FALSE)>>
        BY Zenon DEF ConfirmedRevertedFinal
      <3> QED
        BY Zenon, <1>4, <2>2, <3>1, NotifiesType
    <2> QED
      BY Zenon, <2>1, <2>2
  <1> PICK g \in Frames : g = Notify(x, "failed", ChainedDependents(x), FALSE)
    BY Zenon, <1>4, NotifiesType
  <1>5. f.tx = x /\ f.kind = "reset" /\ g.tx = x /\ g.todo = ChainedDependents(x)
    <2>1. f.tx = x /\ f.kind = "reset"
      BY Zenon, <1>n
    <2>3. g.tx = x /\ g.todo = ChainedDependents(x)
      BY Zenon DEF Notify
    <2> QED
      BY Zenon, <2>1, <2>3
  <1>6. \A t \in g.todo : \E e \in Chained : e[1] = t
    <2> TAKE t \in g.todo
    <2>1. <<t, x>> \in Chained /\ <<t, x>>[1] = t
      BY <1>5, Zenon DEF ChainedDependents
    <2> QED
      BY Zenon, <2>1
  <1>7. CASE txState[x] # "Dispatched"
    <2>1. UNCHANGED <<txState, links, cascade>>
      BY Zenon, <1>7 DEF ConfirmedSuccess, ConfirmedRevertedRetry, ConfirmedRevertedFinal,
         OutcomeDelivered
    <2> QED
      BY Zenon, <1>1, <2>1, QuietDep DEF QuietStep
  <1>8. CASE txState[x] = "Dispatched"
    <2>1. /\ \E s \in {"Confirmed", "Pooled", "Reverted"} : txState' = [txState EXCEPT ![x] = s]
          /\ links' = links \/ links' = {l \in links : l[1] \notin {x} /\ l[2] \notin {x}}
          /\ cascade' = <<>> \/ cascade' = <<f>> \/ cascade' = <<f, g>>
      <3>1. CASE ConfirmedSuccess(k)
        BY Zenon, <1>2, <1>8, <3>1 DEF ConfirmedSuccess, Forget
      <3>2. CASE ConfirmedRevertedRetry(k)
        BY Zenon, <1>8, <3>2 DEF ConfirmedRevertedRetry
      <3>3. CASE ConfirmedRevertedFinal(k)
        BY Zenon, <1>8, <3>3 DEF ConfirmedRevertedFinal, Forget
      <3> QED
        BY Zenon, <3>1, <3>2, <3>3
    <2>2. /\ txState'[x] \in {"Confirmed", "Pooled", "Reverted"}
          /\ \A t \in Txs \ {x} : txState'[t] = txState[t]
      BY Zenon, <1>3, <1>4, <2>1
    <2>3. Settling
      BY Zenon, <1>1, <1>8, <2>1, <2>2 DEF Settling
    <2>4. KeepsAssured
      <3> USE DEF KeepsAssured
      <3> TAKE t \in Txs, q \in Coming
      <3>0. HAVE /\ txState'[t] \in {"Preparing", "Ready_For_Dispatch"}
                 /\ <<t, q.tx>> \in Spends \cup Chained
                 /\ Assured(t, q)
      <3>1. CASE q.tx = x
        <4>1. q = p
          BY Zenon, <1>4, <3>1 DEF DepInv, OnceInv
        <4> QED
          BY Zenon, <1>4, <4>1
      <3>2. CASE q.tx # x
        <4>1. q.tx \in Txs /\ t # x
          BY Zenon, <2>2, <3>0, Dispatches
        <4>2. ~TellsOfReset(q.tx, t)
          <5>1. \A i \in DOMAIN <<>> : FALSE
            OBVIOUS
          <5> QED
            BY Zenon, <1>2, <5>1 DEF TellsOfReset
        <4>3. <<t, q.tx>>[1] = t /\ <<t, q.tx>>[2] = q.tx
          OBVIOUS
        <4>4. <<t, q.tx>> \in links \cup Chained => <<t, q.tx>> \in links' \cup Chained
          BY Zenon, <2>1, <3>2, <4>1, <4>3
        <4> QED
          BY Zenon, <1>1, <2>2, <3>0, <3>2, <4>1, <4>2, <4>4 DEF Assured
      <3> QED
        BY Zenon, <3>1, <3>2
    <2>5. OnWayBack(f) /\ OnWayBack(g)
      <3>1. f.kind # "failed"
        BY Zenon, <1>5
      <3>2. txState'[f.tx] \notin {"Preparing", "Ready_For_Dispatch"}
        BY Zenon, <1>5, <2>2
      <3>3. txState'[g.tx] \notin {"Preparing", "Ready_For_Dispatch"}
        BY Zenon, <1>5, <2>2
      <3> QED
        BY Zenon, <1>6, <3>1, <3>2, <3>3 DEF OnWayBack
    <2>6. ToldInv'
      BY Zenon, <2>1, <2>5, StartTold
    <2> QED
      BY Zenon, <1>2, <2>3, <2>4, <2>6, Settle DEF DepInv
  <1> QED
    BY Zenon, <1>7, <1>8

\* The dispatches so far are numbered up to enqueued.
LEMMA NumberedUpTo ==
    ASSUME TypeInv, OrderInv
    PROVE  \A q \in Done \cup Coming : q.n < enqueued + 1
  <1>1. \A q \in Done \cup Coming : q.n <= enqueued
    BY Zenon DEF OrderInv, UpTo, Done, Coming, Range
  <1>2. (\A q \in Done \cup Coming : q.n \in Nat) /\ enqueued \in Nat
    BY Zenon, Dispatches
  <1> TAKE q \in Done \cup Coming
  <1>3. q.n <= enqueued /\ q.n \in Nat /\ enqueued \in Nat
    BY Zenon, <1>1, <1>2
  <1>4. \A m \in Nat : m <= enqueued => m < enqueued + 1
    BY <1>3
  <1> QED
    BY Zenon, <1>3, <1>4

\* A transaction enters Preparing for the first time, with the transactions it
\* depends on ready.
LEMMA StartPrepareDep ==
    ASSUME TypeInv, OrderInv, DepInv, Uninterrupted', NEW x \in Txs, StartPrepare(x)
    PROVE  DepInv'
  <1> USE DEF coordVars, txVars, depVars, queueVars, loopVars, ledgerVars, eventVars
  <1>1. /\ UNCHANGED <<persisted, accepted, batch, dispatchQueue, enqueuing, enqueued, loop,
           cascade>>
        /\ eventLoop = "idle" /\ txState[x] = "Pooled"
        /\ \A u \in SpentFrom(x) \cup Prerequisites(x) : txState[u] \in ReadyStates
        /\ txState' = [txState EXCEPT ![x] = "Preparing"]
        /\ prepares' = [prepares EXCEPT ![x] = @ + 1]
        /\ prepareID' = [prepareID EXCEPT ![x] = prepares[x] + 1]
        /\ links' = links \cup ({x} \X SpentFrom(x))
    BY Zenon DEF StartPrepare, MainEvent
  <1>2. enqueuing = <<>> /\ cascade = <<>>
    BY Zenon, <1>1, NobodyBlocked
  <1>3. /\ txState \in [Txs -> TxStates] /\ prepareID \in [Txs -> Nat] /\ prepares \in [Txs -> Nat]
        /\ \A q \in Done \cup Coming : q.tx \in Txs
    BY Zenon, Dispatches
  <1>4. prepares'[x] = prepares[x] + 1 /\ prepareID'[x] = prepares[x] + 1
          /\ txState'[x] = "Preparing"
    BY Zenon, <1>1, <1>3
  <1>5. prepares[x] = 0 /\ prepares'[x] = 1 /\ prepareID'[x] = 1
    <2>1. prepares'[x] <= 1 /\ prepares[x] \in Nat
      BY Zenon, <1>3 DEF Uninterrupted
    <2> QED
      BY <1>4, <2>1
  <1>6. \A t \in Txs \ {x} : txState'[t] = txState[t] /\ prepares'[t] = prepares[t]
          /\ prepareID'[t] = prepareID[t]
    BY Zenon, <1>1, <1>3
  <1>7. Done' = Done /\ Coming' = Coming /\ Blocked' = {}
    <2>1. Range(<<>>) = {}
      BY DEF Range
    <2> QED
      BY Zenon, <1>1, <1>2, <2>1 DEF Done, Coming, Blocked
  <1>8. \A q \in Done \cup Coming : q.tx \in Txs \ {x}
    <2> TAKE q \in Done \cup Coming
    <2>1. prepares[q.tx] = 1
      BY Zenon DEF DepInv, OnceInv
    <2>2. 1 # 0
      OBVIOUS
    <2> QED
      BY Zenon, <1>3, <1>5, <2>1, <2>2
  <1>9. OnceInv'
    <2>1. \A t \in Txs : txState'[t] = "Preparing" => prepares'[t] = 1 /\ prepareID'[t] = 1
      BY Zenon, <1>5, <1>6 DEF DepInv, OnceInv
    <2>2. \A q \in Done \cup Coming : q.id = 1 /\ prepares'[q.tx] = 1
            /\ txState'[q.tx] # "Preparing"
      BY Zenon, <1>6, <1>8 DEF DepInv, OnceInv
    <2>3. \A p, q \in Done \cup Coming : p.tx = q.tx => p = q
      BY Zenon DEF DepInv, OnceInv
    <2> QED
      BY Zenon, <1>7, <2>1, <2>2, <2>3 DEF OnceInv
  <1>10. HeldInv'
    <2>1. \A t \in Txs : txState'[t] = "Ready_For_Dispatch" => \E q \in Coming : q.tx = t
      BY Zenon, <1>4, <1>6 DEF DepInv, HeldInv
    <2>2. \A t \in Txs : txState'[t] = "Dispatched" => \E q \in Done \cup Coming : q.tx = t
      BY Zenon, <1>4, <1>6 DEF DepInv, HeldInv
    <2>3. loop = "check" => txState'[batch[1].tx] # "Ready_For_Dispatch"
      <3> SUFFICES ASSUME loop = "check" PROVE txState'[batch[1].tx] # "Ready_For_Dispatch"
        BY Zenon
      <3>1. batch # <<>> /\ batch \in Seq(QueuedDispatches)
        BY DEF TypeInv, BatchInv, TypeOK, LoopType
      <3>2. batch[1] \in Coming
        BY Zenon, <3>1, TailRange DEF Coming
      <3> QED
        BY Zenon, <1>6, <1>8, <3>2 DEF DepInv, HeldInv
    <2> QED
      BY Zenon, <1>1, <1>7, <2>1, <2>2, <2>3 DEF HeldInv
  <1>11. ToldInv'
    <2>1. \A i \in DOMAIN <<>> : FALSE
      OBVIOUS
    <2> QED
      BY Zenon, <1>1, <1>2, <2>1 DEF ToldInv
  <1>12. links \subseteq links' /\ links' \subseteq Spends
    <2>1. {x} \X SpentFrom(x) \subseteq Spends
      BY DEF SpentFrom
    <2> QED
      BY Zenon, <1>1, <2>1 DEF DepInv, KnownInv
  <1>13. KnownInv'
    BY Zenon, <1>7, <1>12 DEF DepInv, KnownInv
  <1>14. \A t, q : q \in Coming /\ Assured(t, q) => Assured(t, q)'
    <2> TAKE t, q
    <2>1. HAVE q \in Coming /\ Assured(t, q)
    <2>2. ~TellsOfReset(q.tx, t)
      <3>1. \A i \in DOMAIN <<>> : FALSE
        OBVIOUS
      <3> QED
        BY Zenon, <1>2, <3>1 DEF TellsOfReset
    <2>3. txState'[q.tx] = txState[q.tx]
      BY Zenon, <1>6, <1>8, <2>1
    <2> QED
      BY Zenon, <1>12, <2>1, <2>2, <2>3 DEF Assured
  <1>15. \A t, d, n : Backed(t, d, n) => Backed(t, d, n)'
    <2> TAKE t, d, n
    <2>1. HAVE Backed(t, d, n)
    <2>2. \A q \in Coming : Of(d, q) /\ Assured(t, q) => (q \in Coming' /\ Assured(t, q)')
            \/ q \in Done'
      BY Zenon, <1>7, <1>14
    <2> QED
      BY Zenon, <1>7, <2>1, <2>2, BackedStep
  <1>16. \A d, n : Landed(d, n) => Landed(d, n)'
    BY Zenon, <1>7, LandedStep
  <1>17. \A t \in Txs : txState'[t] = "Preparing" =>
            \A u \in Prerequisites(t)' : txState'[u] = "Confirmed"
              \/ Backed(t, <<u, 1>>, enqueued + 1)'
    <2>1. SUFFICES ASSUME NEW t \in Txs, txState'[t] = "Preparing", NEW u \in Prerequisites(t)'
                  PROVE  txState'[u] = "Confirmed" \/ Backed(t, <<u, 1>>, enqueued + 1)'
      BY Zenon
    <2> PICK m : m = enqueued + 1
      BY Zenon
    <2>2. m = enqueued' + 1
      BY Zenon, <1>1
    <2>3. <<t, u>>[1] = t /\ <<t, u>>[2] = u
      OBVIOUS
    <2>4. u \in Txs /\ <<t, u>> \in links' \cup Chained
      BY Zenon DEF Prerequisites
    <2>5. CASE t # x
      <3>1. <<t, u>> \in links \cup Chained
        BY <1>1, <2>4, <2>5
      <3>2. u \in Prerequisites(t) /\ txState[t] = "Preparing"
        BY Zenon, <1>6, <2>1, <2>4, <2>5, <3>1 DEF Prerequisites
      <3>3. txState[u] = "Confirmed" \/ Backed(t, <<u, 1>>, m)
        BY Zenon, <3>2 DEF DepInv, FirstInv
      <3>4. txState[u] = "Confirmed" => txState'[u] = "Confirmed"
        BY Zenon, <1>1, <1>6, <2>4
      <3> QED
        BY Zenon, <1>15, <2>2, <3>3, <3>4
    <2>6. CASE t = x
      <3>1. u \in SpentFrom(x) \cup Prerequisites(x)
        BY <1>1, <2>4, <2>6 DEF Prerequisites
      <3>2. txState[u] \in ReadyStates /\ u # x
        BY Zenon, <1>1, <3>1 DEF ReadyStates
      <3>3. txState'[u] = txState[u]
        BY Zenon, <1>6, <2>4, <3>2
      <3>4. ASSUME NEW q \in Done \cup Coming, q.tx = u
            PROVE  Of(<<u, 1>>, q) /\ q.n < m
        BY Zenon, <3>4, NumberedUpTo DEF Of, DepInv, OnceInv
      <3>5. CASE txState[u] = "Confirmed"
        BY Zenon, <3>3, <3>5
      <3>6. CASE txState[u] = "Ready_For_Dispatch"
        <4> PICK q \in Coming : q.tx = u
          BY Zenon, <2>4, <3>6 DEF DepInv, HeldInv
        <4>1. Assured(t, q)'
          BY Zenon, <2>4, <3>3, <3>6 DEF Assured
        <4>2. Of(<<u, 1>>, q) /\ q.n < m
          BY Zenon, <3>4
        <4>3. Backed(t, <<u, 1>>, m)'
          BY Zenon, <1>7, <4>1, <4>2 DEF Backed, Of
        <4> QED
          BY Zenon, <2>2, <4>3
      <3>7. CASE txState[u] = "Dispatched"
        <4> PICK q \in Done \cup Coming : q.tx = u
          BY Zenon, <2>4, <3>7 DEF DepInv, HeldInv
        <4>1. Assured(t, q)'
          BY Zenon, <3>3, <3>7 DEF Assured
        <4>2. Of(<<u, 1>>, q) /\ q.n < m
          BY Zenon, <3>4
        <4>3. Backed(t, <<u, 1>>, m)'
          BY Zenon, <1>7, <4>1, <4>2 DEF Backed, Landed, Of
        <4> QED
          BY Zenon, <2>2, <4>3
      <3> QED
        BY Zenon, <3>2, <3>5, <3>6, <3>7 DEF ReadyStates
    <2> QED
      BY Zenon, <2>5, <2>6
  <1>18. FirstInv'
    <2>3. \A p \in Range(accepted) : \A d \in p.deps : Landed(d, p.n)'
      BY Zenon, <1>16 DEF DepInv, FirstInv
    <2>4. \A p \in Coming : txState'[p.tx] = "Dispatched" => \A d \in p.deps : Landed(d, p.n)'
      BY Zenon, <1>6, <1>8, <1>16 DEF DepInv, FirstInv
    <2>5. \A p \in Coming : txState'[p.tx] = "Ready_For_Dispatch" => \A d \in p.deps :
            Backed(p.tx, d, p.n)'
      BY Zenon, <1>6, <1>8, <1>15 DEF DepInv, FirstInv
    <2>7. \A p \in Range(persisted) : \A d \in p.deps :
              \E q \in Range(persisted) : Of(d, q) /\ q.n < p.n
      BY Zenon DEF DepInv, FirstInv
    <2> QED
      BY Zenon, <1>1, <1>7, <1>17, <2>3, <2>4, <2>5, <2>7 DEF FirstInv, Of
  <1> QED
    BY Zenon, <1>9, <1>10, <1>11, <1>13, <1>18 DEF DepInv

\* enqueueForDispatch puts a dispatch on the queue whose dependencies are backed.
LEMMA EnqueueDep ==
    ASSUME TypeInv, OrderInv, DepInv, NEW qd \in QueuedDispatches,
           txState[qd.tx] = "Preparing", qd.id = 1, prepares[qd.tx] = 1, qd.n = enqueued + 1,
           \A d \in qd.deps : Backed(qd.tx, d, qd.n) /\ <<qd.tx, d[1]>> \in Spends \cup Chained,
           Enqueue(qd), enqueuing' = <<>>,
           UNCHANGED <<prepares, links, cascade, loop, batch, accepted, persisted>>
    PROVE  DepInv'
  <1> PICK x : x = qd.tx
    BY Zenon
  <1>1. /\ dispatchQueue' = Append(dispatchQueue, qd) /\ enqueued' = enqueued + 1
        /\ txState' = [txState EXCEPT ![x] = "Ready_For_Dispatch"]
        /\ prepareID' = [prepareID EXCEPT ![x] = 0] /\ x \in Txs
    BY Zenon DEF Enqueue, QueuedDispatches
  <1>2. /\ txState \in [Txs -> TxStates] /\ prepareID \in [Txs -> Nat] /\ prepares \in [Txs -> Nat]
        /\ (\A q \in Done \cup Coming : q.tx \in Txs /\ q.n \in Nat) /\ enqueued \in Nat
    BY Zenon, Dispatches
  <1>3. /\ txState'[x] = "Ready_For_Dispatch"
        /\ \A t \in Txs \ {x} : txState'[t] = txState[t] /\ prepareID'[t] = prepareID[t]
    BY Zenon, <1>1, <1>2
  <1>4. Done' = Done /\ Coming' = Coming \cup {qd} /\ Blocked' = {}
    <2>1. dispatchQueue \in Seq(QueuedDispatches)
      BY Zenon DEF TypeInv, TypeOK, QueueType
    <2>0. Range(<<>>) = {}
      BY DEF Range
    <2>4. \A q : q \in Range(Append(dispatchQueue, qd)) <=> q \in Range(dispatchQueue) \/ q = qd
      BY Zenon, <2>1, AppendRange
    <2>3. Range(Append(dispatchQueue, qd)) = Range(dispatchQueue) \cup {qd}
      BY Zenon, <2>4
    <2>2. Range(<<>>) = {} /\ Range(Append(dispatchQueue, qd)) = Range(dispatchQueue) \cup {qd}
      BY Zenon, <2>0, <2>3
    <2> QED
      BY Zenon, <1>1, <2>2 DEF Done, Coming, Blocked
  <1>5. \A q \in Done \cup Coming : q.tx \in Txs \ {x}
    BY Zenon, <1>2 DEF DepInv, OnceInv
  <1>6. OnceInv'
    <2>1. \A t \in Txs : txState'[t] = "Preparing" => prepares[t] = 1 /\ prepareID'[t] = 1
      BY Zenon, <1>3 DEF DepInv, OnceInv
    <2>2. \A q \in Done \cup Coming \cup {qd} : q.id = 1 /\ prepares[q.tx] = 1
      BY Zenon DEF DepInv, OnceInv
    <2>3. \A q \in Done \cup Coming \cup {qd} : txState'[q.tx] # "Preparing"
      BY Zenon, <1>3, <1>5 DEF DepInv, OnceInv
    <2>4. \A p, q \in Done \cup Coming \cup {qd} : p.tx = q.tx => p = q
      BY Zenon, <1>5 DEF DepInv, OnceInv
    <2> QED
      BY Zenon, <1>4, <2>1, <2>2, <2>3, <2>4 DEF OnceInv
  <1>7. HeldInv'
    <2>1. \A t \in Txs : txState'[t] = "Ready_For_Dispatch" => \E q \in Coming \cup {qd} : q.tx = t
      BY Zenon, <1>3 DEF DepInv, HeldInv
    <2>2. \A t \in Txs : txState'[t] = "Dispatched" => \E q \in Done \cup Coming : q.tx = t
      BY Zenon, <1>3 DEF DepInv, HeldInv
    <2>3. loop = "check" => txState'[batch[1].tx] # "Ready_For_Dispatch"
      <3> SUFFICES ASSUME loop = "check" PROVE txState'[batch[1].tx] # "Ready_For_Dispatch"
        BY Zenon
      <3>1. batch # <<>> /\ batch \in Seq(QueuedDispatches)
        BY DEF TypeInv, BatchInv, TypeOK, LoopType
      <3>2. batch[1] \in Coming
        BY Zenon, <3>1, TailRange DEF Coming
      <3> QED
        BY Zenon, <1>3, <1>5, <3>2 DEF DepInv, HeldInv
    <2> QED
      BY Zenon, <1>4, <2>1, <2>2, <2>3 DEF HeldInv
  <1>8. ToldInv'
    <2>0. cascade \in Seq(Frames)
      BY Zenon DEF TypeInv, TypeOK, DepType
    <2>1. \A i \in DOMAIN cascade : cascade[i] \in Frames
      BY <2>0
    <2>2. \A i \in DOMAIN cascade : cascade[i].tx \in Txs \ {x}
      BY Zenon, <2>1 DEF DepInv, ToldInv, Frames
    <2>3. \A i \in DOMAIN cascade : txState'[cascade[i].tx] = txState[cascade[i].tx]
      BY Zenon, <1>3, <2>2
    <2> QED
      BY Zenon, <2>3 DEF DepInv, ToldInv
  <1>9. KnownInv'
    BY Zenon, <1>4 DEF DepInv, KnownInv
  <1>10. \A t, q : q \in Coming /\ Assured(t, q) => Assured(t, q)'
    <2> TAKE t, q
    <2>1. HAVE q \in Coming /\ Assured(t, q)
    <2>2. TellsOfReset(q.tx, t) => TellsOfReset(q.tx, t)'
      BY Zenon DEF TellsOfReset
    <2>3. txState'[q.tx] = txState[q.tx]
      BY Zenon, <1>3, <1>5, <2>1
    <2> QED
      BY Zenon, <2>1, <2>2, <2>3 DEF Assured
  <1>11. \A t, d, n : Backed(t, d, n) => Backed(t, d, n)'
    <2> TAKE t, d, n
    <2>1. HAVE Backed(t, d, n)
    <2>2. \A q \in Coming : Of(d, q) /\ Assured(t, q) => (q \in Coming' /\ Assured(t, q)')
            \/ q \in Done'
      BY Zenon, <1>4, <1>10
    <2> QED
      BY Zenon, <1>4, <2>1, <2>2, BackedStep
  <1>12. \A d, n : Landed(d, n) => Landed(d, n)'
    BY Zenon, <1>4, LandedStep
  <1>13. \A t, d : Backed(t, d, enqueued + 1) => Backed(t, d, enqueued + 1 + 1)
    <2> TAKE t, d
    <2>1. HAVE Backed(t, d, enqueued + 1)
    <2>2. ASSUME NEW q \in Done \cup Coming PROVE q.n < enqueued + 1 => q.n < enqueued + 1 + 1
      <3>1. q.n \in Nat
        BY Zenon, <1>2
      <3>2. ASSUME NEW m \in Nat, NEW e \in Nat, m < e + 1 PROVE m < e + 1 + 1
        BY <3>2
      <3> QED
        BY Zenon, <1>2, <3>1, <3>2
    <2> QED
      BY Zenon, <2>1, <2>2 DEF Backed, Landed
  <1>14. \A t \in Txs : txState'[t] = "Preparing" =>
            \A u \in Prerequisites(t)' : txState'[u] = "Confirmed"
              \/ Backed(t, <<u, 1>>, enqueued + 1)'
    <2>1. SUFFICES ASSUME NEW t \in Txs, txState'[t] = "Preparing", NEW u \in Prerequisites(t)'
                  PROVE  txState'[u] = "Confirmed" \/ Backed(t, <<u, 1>>, enqueued + 1)'
      BY Zenon
    <2> PICK m : m = enqueued + 1 + 1
      BY Zenon
    <2>2. m = enqueued' + 1
      BY Zenon, <1>1
    <2>3. u \in Txs /\ u \in Prerequisites(t)
      BY Zenon DEF Prerequisites
    <2>4. txState[t] = "Preparing"
      BY Zenon, <1>3, <2>1
    <2>5. txState[u] = "Confirmed" \/ Backed(t, <<u, 1>>, enqueued + 1)
      BY Zenon, <2>3, <2>4 DEF DepInv, FirstInv
    <2>6. txState[u] = "Confirmed" => txState'[u] = "Confirmed"
      BY Zenon, <1>3, <2>3
    <2>7. Backed(t, <<u, 1>>, enqueued + 1) => Backed(t, <<u, 1>>, m)
      BY Zenon, <1>13
    <2>8. Backed(t, <<u, 1>>, m) => Backed(t, <<u, 1>>, m)'
      BY Zenon, <1>11
    <2> QED
      BY Zenon, <2>2, <2>5, <2>6, <2>7, <2>8
  <1>15. FirstInv'
    <2>3. \A p \in Range(accepted) : \A d \in p.deps : Landed(d, p.n)'
      BY Zenon, <1>12 DEF DepInv, FirstInv
    <2>4. \A p \in Coming \cup {qd} : txState'[p.tx] = "Dispatched" => \A d \in p.deps :
            Landed(d, p.n)'
      BY Zenon, <1>3, <1>5, <1>12 DEF DepInv, FirstInv
    <2>5. \A p \in Coming \cup {qd} : txState'[p.tx] = "Ready_For_Dispatch" => \A d \in p.deps :
            Backed(p.tx, d, p.n)'
      <3>1. \A p \in Coming : txState'[p.tx] = "Ready_For_Dispatch" => \A d \in p.deps :
              Backed(p.tx, d, p.n)'
        BY Zenon, <1>3, <1>5, <1>11 DEF DepInv, FirstInv
      <3>2. \A d \in qd.deps : Backed(qd.tx, d, qd.n)'
        BY Zenon, <1>11
      <3> QED
        BY Zenon, <3>1, <3>2
    <2>7. \A p \in Range(persisted) : \A d \in p.deps :
              \E q \in Range(persisted) : Of(d, q) /\ q.n < p.n
      BY Zenon DEF DepInv, FirstInv
    <2> QED
      BY Zenon, <1>4, <1>14, <2>3, <2>4, <2>5, <2>7 DEF FirstInv, Of
  <1> QED
    BY Zenon, <1>6, <1>7, <1>8, <1>9, <1>15 DEF DepInv

\* The dispatch a prepare builds: what it depends on is backed.
LEMMA PreparedBacked ==
    ASSUME TypeInv, DepInv, NEW x \in Txs, txState[x] = "Preparing",
           NEW qd, qd = PreparedDispatch(x, prepareID[x])
    PROVE  /\ qd \in QueuedDispatches /\ qd.tx = x /\ qd.id = 1 /\ prepares[x] = 1
           /\ qd.n = enqueued + 1
           /\ \A d \in qd.deps : Backed(qd.tx, d, qd.n) /\ <<qd.tx, d[1]>> \in Spends \cup Chained
  <1>1. prepareID[x] = 1 /\ prepares[x] = 1
    BY Zenon DEF DepInv, OnceInv
  <1>2. qd \in QueuedDispatches /\ qd.tx = x
    <2>1. prepareID[x] \in Nat
      BY Zenon, Dispatches
    <2> QED
      BY Zenon, <2>1, PreparedDispatchType DEF TypeInv
  <1>3. /\ qd.id = prepareID[x] /\ qd.n = enqueued + 1
        /\ qd.deps = {<<u, prepares[u]>> : u \in {u \in Prerequisites(x) :
           txState[u] # "Confirmed"}}
    BY Zenon DEF PreparedDispatch
  <1>4. ASSUME NEW d \in qd.deps
        PROVE  Backed(x, d, enqueued + 1) /\ <<x, d[1]>> \in Spends \cup Chained
    <2> PICK u \in Prerequisites(x) : txState[u] # "Confirmed" /\ d = <<u, prepares[u]>>
      BY Zenon, <1>3
    <2>1. Backed(x, <<u, 1>>, enqueued + 1)
      BY Zenon DEF DepInv, FirstInv
    <2>2. PICK q \in Done \cup Coming : Of(<<u, 1>>, q)
      BY Zenon, <2>1 DEF Backed, Landed
    <2>3. q.tx = u
      BY <2>2 DEF Of
    <2>4. prepares[u] = 1
      BY Zenon, <2>3 DEF DepInv, OnceInv
    <2>5. <<x, u>> \in Spends \cup Chained
      BY Zenon DEF Prerequisites, DepInv, KnownInv
    <2>6. d[1] = u
      OBVIOUS
    <2> QED
      BY Zenon, <2>1, <2>4, <2>5, <2>6
  <1> QED
    BY Zenon, <1>1, <1>2, <1>3, <1>4

\* Event_PrepareSucceeded, queued at once or blocked on a full queue.
LEMMA PrepareSucceededDep ==
    ASSUME TypeInv, OrderInv, DepInv, NEW x \in Txs, NEW id, PrepareSucceeded(x, id)
    PROVE  DepInv'
  <1> USE DEF coordVars, txVars, depVars, queueVars, loopVars, ledgerVars, eventVars
  <1>1. UNCHANGED <<prepares, links, cascade, loop, batch, accepted, persisted>>
          /\ eventLoop = "idle"
    BY Zenon DEF PrepareSucceeded
  <1>2. enqueuing = <<>>
    BY Zenon, <1>1, NobodyBlocked
  <1> PICK qd : qd = PreparedDispatch(x, prepareID[x])
    BY Zenon
  <1>3. \/ txState[x] = "Preparing" /\ Enqueue(qd) /\ UNCHANGED enqueuing
        \/ txState[x] = "Preparing" /\ enqueuing' = <<qd>> /\ UNCHANGED <<dispatchQueue, enqueued,
           txState, prepareID>>
        \/ UNCHANGED <<enqueuing, dispatchQueue, enqueued, txState, prepareID>>
    BY Zenon DEF PrepareSucceeded
  <1>4. CASE txState[x] = "Preparing" /\ Enqueue(qd) /\ UNCHANGED enqueuing
    <2>1. /\ qd \in QueuedDispatches /\ qd.tx = x /\ qd.id = 1 /\ prepares[x] = 1
          /\ qd.n = enqueued + 1
          /\ \A d \in qd.deps : Backed(qd.tx, d, qd.n) /\ <<qd.tx, d[1]>> \in Spends \cup Chained
      BY Zenon, <1>4, PreparedBacked
    <2> QED
      BY Zenon, <1>1, <1>2, <1>4, <2>1, EnqueueDep
  <1>5. CASE txState[x] = "Preparing" /\ enqueuing' = <<qd>> /\ UNCHANGED <<dispatchQueue, enqueued,
          txState, prepareID>>
    <2>1. /\ qd \in QueuedDispatches /\ qd.tx = x /\ qd.id = 1 /\ prepares[x] = 1
          /\ qd.n = enqueued + 1
          /\ \A d \in qd.deps : Backed(qd.tx, d, qd.n) /\ <<qd.tx, d[1]>> \in Spends \cup Chained
      BY Zenon, <1>5, PreparedBacked
    <2>2. Done' = Done /\ Coming' = Coming /\ Blocked' = {qd}
      <3>1. Range(<<qd>>) = {qd}
        BY DEF Range
      <3> QED
        BY Zenon, <1>1, <1>5, <3>1 DEF Done, Coming, Blocked
    <2>3. OnceInv'
      BY Zenon, <1>1, <1>5, <2>1, <2>2 DEF DepInv, OnceInv
    <2>4. HeldInv' /\ ToldInv'
      BY Zenon, <1>1, <1>5, <2>2 DEF DepInv, HeldInv, ToldInv
    <2>5. KnownInv'
      BY Zenon, <1>1, <2>1, <2>2 DEF DepInv, KnownInv
    <2>6. \A t, q : Assured(t, q) => Assured(t, q)'
      BY Zenon, <1>1, <1>5 DEF Assured, TellsOfReset
    <2>7. \A t, d, n : Backed(t, d, n) => Backed(t, d, n)'
      BY Zenon, <2>2, <2>6, BackedStep
    <2>8. \A d, n : Landed(d, n) => Landed(d, n)'
      BY Zenon, <2>2, LandedStep
    <2>9. FirstInv'
      <3>1. \A t : Prerequisites(t)' = Prerequisites(t)
        BY Zenon, <1>1 DEF Prerequisites
      <3>2. \A t \in Txs : txState[t] = "Preparing" =>
            \A u \in Prerequisites(t) : txState[u] = "Confirmed"
              \/ Backed(t, <<u, 1>>, enqueued + 1)'
        <4>1. SUFFICES ASSUME NEW t \in Txs, txState[t] = "Preparing", NEW u \in Prerequisites(t)
                      PROVE  txState[u] = "Confirmed" \/ Backed(t, <<u, 1>>, enqueued + 1)'
          BY Zenon
        <4> PICK m : m = enqueued + 1
          BY Zenon
        <4>2. txState[u] = "Confirmed" \/ Backed(t, <<u, 1>>, m)
          BY Zenon, <4>1 DEF DepInv, FirstInv
        <4>3. Backed(t, <<u, 1>>, m) => Backed(t, <<u, 1>>, m)'
          BY Zenon, <2>7
        <4>4. m = enqueued' + 1
          BY Zenon, <1>5
        <4> QED
          BY Zenon, <4>2, <4>3, <4>4
      <3>3. \A p \in Range(accepted) : \A d \in p.deps : Landed(d, p.n)'
        BY Zenon, <2>8 DEF DepInv, FirstInv
      <3>4. \A p \in Coming : txState[p.tx] = "Dispatched" => \A d \in p.deps : Landed(d, p.n)'
        BY Zenon, <2>8 DEF DepInv, FirstInv
      <3>5. \A p \in Coming : txState[p.tx] = "Ready_For_Dispatch" => \A d \in p.deps :
              Backed(p.tx, d, p.n)'
        BY Zenon, <2>7 DEF DepInv, FirstInv
      <3>6. \A p \in {qd} : \A d \in p.deps : Backed(p.tx, d, p.n)'
        BY Zenon, <2>1, <2>7
      <3>7. \A p \in Range(persisted) : \A d \in p.deps :
                \E q \in Range(persisted) : Of(d, q) /\ q.n < p.n
        BY Zenon DEF DepInv, FirstInv
      <3> QED
        BY Zenon, <1>1, <1>5, <2>2, <3>1, <3>2, <3>3, <3>4, <3>5, <3>6, <3>7 DEF FirstInv, Of
    <2> QED
      BY Zenon, <2>3, <2>4, <2>5, <2>9 DEF DepInv
  <1>6. CASE UNCHANGED <<enqueuing, dispatchQueue, enqueued, txState, prepareID>>
    BY Zenon, <1>1, <1>6, QuietDep DEF QuietStep
  <1> QED
    BY Zenon, <1>3, <1>4, <1>5, <1>6

\* The blocked enqueueForDispatch goes on.
LEMMA EnqueueUnblockedDep ==
    ASSUME TypeInv, OrderInv, DepInv, EnqueueUnblocked
    PROVE  DepInv'
  <1> USE DEF coordVars, txVars, depVars, queueVars, loopVars, ledgerVars, eventVars
  <1> PICK qd : qd = enqueuing[1]
    BY Zenon
  <1>1. /\ UNCHANGED <<prepares, links, cascade, loop, batch, accepted, persisted>>
           /\ eventLoop = "enqueue"
        /\ Enqueue(qd) /\ enqueuing' = <<>>
    BY Zenon DEF EnqueueUnblocked
  <1>2. enqueuing \in Seq(QueuedDispatches) /\ Len(enqueuing) = 1
    BY Zenon, <1>1 DEF TypeInv, TypeOK, QueueType, EnqueueInv
  <1>3. 1 \in DOMAIN enqueuing
    BY <1>2
  <1>4. qd \in Blocked
    BY Zenon, <1>3 DEF Blocked, Range
  <1>5. qd \in QueuedDispatches /\ qd.n = enqueued + 1
    BY Zenon, <1>3, <1>4, Dispatches DEF OrderInv, EnqueuingInv
  <1>6. txState[qd.tx] = "Preparing" /\ qd.id = 1 /\ prepares[qd.tx] = 1
    BY Zenon, <1>4 DEF DepInv, OnceInv
  <1>7. \A d \in qd.deps : Backed(qd.tx, d, qd.n) /\ <<qd.tx, d[1]>> \in Spends \cup Chained
    BY Zenon, <1>4 DEF DepInv, FirstInv, KnownInv
  <1> QED
    BY Zenon, <1>1, <1>5, <1>6, <1>7, EnqueueDep

\* Dispatches move from the queue to the batch, or from the accepted ones to the
\* database.
LEMMA MoveDep ==
    ASSUME DepInv,
           UNCHANGED <<txState, prepares, prepareID, links, cascade, enqueuing, enqueued>>,
           loop' # "check", Done' = Done, Coming' = Coming,
           Range(accepted') \subseteq Range(accepted),
           Range(persisted') = Range(persisted) \/ Range(persisted') = Done
    PROVE  DepInv'
  <1>1. Blocked' = Blocked
    BY Zenon DEF Blocked
  <1>2. OnceInv' /\ HeldInv' /\ KnownInv'
    BY Zenon, <1>1 DEF DepInv, OnceInv, HeldInv, KnownInv
  <1>3. ToldInv'
    BY Zenon DEF DepInv, ToldInv
  <1>4. \A t, q : Assured(t, q) => Assured(t, q)'
    BY Zenon DEF Assured, TellsOfReset
  <1>5. \A t, d, n : Backed(t, d, n) => Backed(t, d, n)'
    BY Zenon, <1>4, BackedStep
  <1>6. \A d, n : Landed(d, n) => Landed(d, n)'
    BY Zenon, LandedStep
  <1>7. FirstInv'
    <2>1. \A t : Prerequisites(t)' = Prerequisites(t)
      BY Zenon DEF Prerequisites
    <2>2. \A t \in Txs : txState[t] = "Preparing" =>
          \A u \in Prerequisites(t) : txState[u] = "Confirmed" \/ Backed(t, <<u, 1>>, enqueued + 1)'
      <3>1. SUFFICES ASSUME NEW t \in Txs, txState[t] = "Preparing", NEW u \in Prerequisites(t)
                    PROVE  txState[u] = "Confirmed" \/ Backed(t, <<u, 1>>, enqueued + 1)'
        BY Zenon
      <3> PICK m : m = enqueued + 1
        BY Zenon
      <3>2. txState[u] = "Confirmed" \/ Backed(t, <<u, 1>>, m)
        BY Zenon, <3>1 DEF DepInv, FirstInv
      <3>3. Backed(t, <<u, 1>>, m) => Backed(t, <<u, 1>>, m)'
        BY Zenon, <1>5
      <3>4. m = enqueued' + 1
        BY Zenon
      <3> QED
        BY Zenon, <3>2, <3>3, <3>4
    <2>3. \A p \in Range(accepted') : \A d \in p.deps : Landed(d, p.n)'
      BY Zenon, <1>6 DEF DepInv, FirstInv
    <2>4. \A p \in Coming : txState[p.tx] = "Dispatched" => \A d \in p.deps : Landed(d, p.n)'
      BY Zenon, <1>6 DEF DepInv, FirstInv
    <2>5. \A p \in Coming : txState[p.tx] = "Ready_For_Dispatch" => \A d \in p.deps :
            Backed(p.tx, d, p.n)'
      BY Zenon, <1>5 DEF DepInv, FirstInv
    <2>6. \A p \in Blocked : \A d \in p.deps : Backed(p.tx, d, p.n)'
      BY Zenon, <1>5 DEF DepInv, FirstInv
    <2>7. \A p \in Range(persisted') : \A d \in p.deps :
              \E q \in Range(persisted') : Of(d, q) /\ q.n < p.n
      <3>1. CASE Range(persisted') = Range(persisted)
        BY Zenon, <3>1 DEF DepInv, FirstInv
      <3>2. CASE Range(persisted') = Done
        <4>1. \A p \in Done : \A d \in p.deps : \E q \in Done : Of(d, q) /\ q.n < p.n
          BY Zenon DEF DepInv, FirstInv, Landed, Done
        <4> QED
          BY Zenon, <3>2, <4>1
      <3> QED
        BY Zenon, <3>1, <3>2
    <2> QED
      BY Zenon, <1>1, <2>1, <2>2, <2>3, <2>4, <2>5, <2>6, <2>7 DEF FirstInv, Of
  <1> QED
    BY Zenon, <1>2, <1>3, <1>7 DEF DepInv

\* The steps of the dispatch loop that only move dispatches.
LEMMA LoopMovesDep ==
    ASSUME TypeInv, ChildrenInv, StopInv, DepInv,
           \/ TakeFirst \/ CapacityFree \/ CapacityFreed \/ CapacityExhausted
           \/ PersistDispatchBatch \/ HandleChainedChildren
    PROVE  DepInv'
  <1> USE DEF coordVars, txVars, depVars, queueVars, loopVars, ledgerVars, eventVars
  <1>0. /\ persisted \in Seq(QueuedDispatches) /\ accepted \in Seq(QueuedDispatches)
        /\ batch \in Seq(QueuedDispatches) /\ dispatchQueue \in Seq(QueuedDispatches)
    BY Zenon DEF TypeInv, TypeOK, LedgerType, LoopType, QueueType
  <1>e. Range(<<>>) = {}
    BY DEF Range
  <1>1. CASE TakeFirst
    <2>1. /\ UNCHANGED <<txState, prepares, prepareID, links, cascade, enqueuing, enqueued,
             accepted, persisted>>
          /\ loop' = "await" /\ loop = "select" /\ dispatchQueue # <<>>
          /\ batch' = <<Head(dispatchQueue)>> /\ dispatchQueue' = Tail(dispatchQueue)
      BY Zenon, <1>1 DEF TakeFirst
    <2>2. Range(batch) = {}
      BY Zenon, <1>e, <2>1 DEF StopInv
    <2>3. Range(dispatchQueue) = {dispatchQueue[1]} \cup Range(Tail(dispatchQueue))
      BY Zenon, <1>0, <2>1, TailRange
    <2>4. Range(batch') = {dispatchQueue[1]}
      <3>1. batch' = <<dispatchQueue[1]>>
        BY <1>0, <2>1
      <3>2. \A e : Range(<<e>>) = {e}
        BY DEF Range
      <3> QED
        BY Zenon, <3>1, <3>2
    <2>5. Coming' = Coming /\ Done' = Done
      BY Zenon, <2>1, <2>2, <2>3, <2>4 DEF Coming, Done
    <2> QED
      BY Zenon, <2>1, <2>5, MoveDep
  <1>2. CASE CapacityFree \/ CapacityFreed
    <2>1. /\ UNCHANGED <<txState, prepares, prepareID, links, cascade, enqueuing, enqueued,
             accepted, persisted>>
          /\ loop' = "handle" /\ Cardinality(inFlightTxns) < MaxDispatchAhead
          /\ batch' = batch \o Front(dispatchQueue, Capacity - 1)
          /\ dispatchQueue' = Rest(dispatchQueue, Capacity - 1)
      BY Zenon, <1>2 DEF CapacityFree, CapacityFreed, PullDispatchBatch
    <2> PICK k : k = Capacity - 1
      BY Zenon
    <2>2. k \in Nat
      BY Zenon, <2>1, CapacityPositive DEF TypeInv, TypeOK
    <2>3. Front(dispatchQueue, k) \in Seq(QueuedDispatches)
      BY Zenon, <1>0, <2>2, FrontRest
    <2>4. \A q : q \in Range(batch \o Front(dispatchQueue, k)) <=> q \in Range(batch)
            \/ q \in Range(Front(dispatchQueue, k))
      BY Zenon, <1>0, <2>3, RangeConcat
    <2>5. \A q : q \in Range(dispatchQueue) <=>
                   q \in Range(Front(dispatchQueue, k)) \/ q \in Range(Rest(dispatchQueue, k))
      BY Zenon, <1>0, <2>2, SplitRange
    <2>6. Coming' = Coming /\ Done' = Done
      BY Zenon, <2>1, <2>4, <2>5 DEF Coming, Done
    <2> QED
      BY Zenon, <2>1, <2>6, MoveDep
  <1>3. CASE CapacityExhausted
    <2>1. /\ UNCHANGED <<txState, prepares, prepareID, links, cascade, enqueuing, enqueued,
             accepted, persisted>>
          /\ loop' = "waiting" /\ UNCHANGED <<batch, dispatchQueue>>
      BY Zenon, <1>3 DEF CapacityExhausted
    <2>2. Coming' = Coming /\ Done' = Done
      BY Zenon, <2>1 DEF Coming, Done
    <2> QED
      BY Zenon, <2>1, <2>2, MoveDep
  <1>4. CASE PersistDispatchBatch
    <2>1. /\ UNCHANGED <<txState, prepares, prepareID, links, cascade, enqueuing, enqueued,
             accepted>>
          /\ loop' = "children" /\ UNCHANGED <<batch, dispatchQueue>>
             /\ persisted' = persisted \o accepted
      BY Zenon, <1>4 DEF PersistDispatchBatch
    <2>2. \A q : q \in Range(persisted \o accepted) <=> q \in Range(persisted)
            \/ q \in Range(accepted)
      BY Zenon, <1>0, RangeConcat
    <2>3. Range(persisted') = Done
      BY Zenon, <2>1, <2>2 DEF Done
    <2>4. Coming' = Coming /\ Done' = Done
      BY Zenon, <2>1, <2>3 DEF Coming, Done
    <2> QED
      BY Zenon, <2>1, <2>3, <2>4, MoveDep
  <1>5. CASE HandleChainedChildren
    <2>1. /\ UNCHANGED <<txState, prepares, prepareID, links, cascade, enqueuing, enqueued,
             persisted>>
          /\ loop' = "select" /\ loop = "children" /\ UNCHANGED <<batch, dispatchQueue>>
             /\ accepted' = <<>>
      BY Zenon, <1>5 DEF HandleChainedChildren
    <2>2. Coming' = Coming /\ Done' = Done
      BY Zenon, <1>e, <2>1 DEF Coming, Done, ChildrenInv
    <2>3. Range(accepted') \subseteq Range(accepted)
      BY Zenon, <1>e, <2>1
    <2> QED
      BY Zenon, <2>1, <2>2, <2>3, MoveDep
  <1> QED
    BY Zenon, <1>1, <1>2, <1>3, <1>4, <1>5

\* The first of the batch is the first of all the dispatches still to handle.
LEMMA FirstIsLeast ==
    ASSUME TypeInv, OrderInv, batch # <<>>
    PROVE  /\ batch[1] \in Coming
           /\ \A q \in Coming : ~(q.n < batch[1].n)
  <1>1. batch \in Seq(QueuedDispatches) /\ dispatchQueue \in Seq(QueuedDispatches)
    BY Zenon DEF TypeInv, TypeOK, LoopType, QueueType
  <1>2. 1 \in DOMAIN batch /\ \A i \in DOMAIN batch : i = 1 \/ 1 < i
    BY <1>1
  <1>3. /\ \A i \in DOMAIN batch : batch[i].n \in Nat
        /\ \A i \in DOMAIN dispatchQueue : dispatchQueue[i].n \in Nat
    BY Zenon, <1>1, Numbered
  <1>4. \A a, b \in Nat : a < b \/ a = b => ~(b < a)
    OBVIOUS
  <1>5. ASSUME NEW i \in DOMAIN batch PROVE ~(batch[i].n < batch[1].n)
    <2>1. batch[1].n < batch[i].n \/ batch[1].n = batch[i].n
      BY Zenon, <1>2 DEF OrderInv, Increasing
    <2> QED
      BY Zenon, <1>2, <1>3, <1>4, <2>1
  <1>6. ASSUME NEW i \in DOMAIN dispatchQueue PROVE ~(dispatchQueue[i].n < batch[1].n)
    <2>1. batch[1].n < dispatchQueue[i].n
      BY Zenon, <1>2 DEF OrderInv, Before
    <2> QED
      BY Zenon, <1>2, <1>3, <1>4, <2>1
  <1> QED
    BY Zenon, <1>2, <1>5, <1>6 DEF Coming, Range

\* HandleEvent(Event_Dispatched): the first of the batch has all it depends on
\* behind it, and whoever depends on a dispatch that will now be dropped has been
\* told, as the lock of its transaction is free.
LEMMA HandleDispatchedDep ==
    ASSUME TypeInv, OrderInv, DepInv, HandleDispatched
    PROVE  DepInv'
  <1> USE DEF coordVars, txVars, depVars, queueVars, loopVars, ledgerVars, eventVars
  <1> PICK p : p = batch[1]
    BY Zenon
  <1> PICK x : x = p.tx
    BY Zenon
  <1>1. /\ UNCHANGED <<prepares, prepareID, links, cascade, enqueuing, dispatchQueue, enqueued,
           batch, accepted, persisted>>
        /\ loop = "handle" /\ ~Locked(x)
        /\ \/ txState[x] = "Ready_For_Dispatch" /\ txState' = [txState EXCEPT ![x] = "Dispatched"]
           \/ txState[x] # "Ready_For_Dispatch" /\ txState' = txState
    BY Zenon DEF HandleDispatched
  <1>2. batch # <<>>
    BY <1>1 DEF TypeInv, BatchInv
  <1>3. p \in Coming /\ \A q \in Coming : ~(q.n < p.n)
    BY Zenon, <1>2, FirstIsLeast
  <1>4. /\ txState \in [Txs -> TxStates] /\ \A q \in Done \cup Coming \cup Blocked : q.tx \in Txs
    BY Zenon, Dispatches
  <1>5. x \in Txs
    BY Zenon, <1>3, <1>4
  <1>6. /\ \A t \in Txs \ {x} : txState'[t] = txState[t]
        /\ txState[x] = "Ready_For_Dispatch" => txState'[x] = "Dispatched"
        /\ txState[x] # "Ready_For_Dispatch" => txState'[x] = txState[x]
    BY Zenon, <1>1, <1>4, <1>5
  <1>7. Done' = Done /\ Coming' = Coming /\ Blocked' = Blocked
    BY Zenon, <1>1 DEF Done, Coming, Blocked
  <1>8. OnceInv'
    <2>1. \A t \in Txs : txState'[t] = "Preparing" <=> txState[t] = "Preparing"
      BY Zenon, <1>6
    <2> QED
      BY Zenon, <1>1, <1>4, <1>7, <2>1 DEF DepInv, OnceInv
  <1>9. HeldInv'
    <2>1. \A t \in Txs : txState'[t] = "Ready_For_Dispatch" => \E q \in Coming : q.tx = t
      BY Zenon, <1>6 DEF DepInv, HeldInv
    <2>2. \A t \in Txs : txState'[t] = "Dispatched" => \E q \in Done \cup Coming : q.tx = t
      BY Zenon, <1>3, <1>6 DEF DepInv, HeldInv
    <2>3. txState'[x] # "Ready_For_Dispatch"
      BY Zenon, <1>6
    <2> QED
      BY Zenon, <1>1, <1>7, <2>1, <2>2, <2>3 DEF HeldInv
  <1>10. ToldInv'
    <2>0. cascade \in Seq(Frames)
      BY Zenon DEF TypeInv, TypeOK, DepType
    <2>1. \A i \in DOMAIN cascade : cascade[i] \in Frames
      BY <2>0
    <2>2. \A i \in DOMAIN cascade : cascade[i].tx \in Txs \ {x}
      BY Zenon, <1>1, <2>1 DEF Locked, Frames
    <2>3. \A i \in DOMAIN cascade : txState'[cascade[i].tx] = txState[cascade[i].tx]
      BY Zenon, <1>6, <2>2
    <2> QED
      BY Zenon, <1>1, <2>3 DEF DepInv, ToldInv
  <1>11. KnownInv'
    BY Zenon, <1>1, <1>7 DEF DepInv, KnownInv
  <1>12. \A t, q : q \in Coming /\ Assured(t, q) => Assured(t, q)'
    <2> TAKE t, q
    <2>1. HAVE q \in Coming /\ Assured(t, q)
    <2>2. q.tx \in Txs
      BY Zenon, <1>4, <2>1
    <2>3. CASE txState[q.tx] = "Dispatched"
      BY Zenon, <1>6, <2>2, <2>3 DEF Assured
    <2>4. CASE txState[q.tx] = "Ready_For_Dispatch" /\ <<t, q.tx>> \in links \cup Chained
      <3>1. txState'[q.tx] \in {"Dispatched", "Ready_For_Dispatch"}
        BY Zenon, <1>6, <2>2, <2>4
      <3> QED
        BY Zenon, <1>1, <2>4, <3>1 DEF Assured
    <2>5. CASE TellsOfReset(q.tx, t)
      <3>1. q.tx # x
        BY Zenon, <1>1, <2>5 DEF Locked, TellsOfReset
      <3>2. q # batch'[1]
        BY Zenon, <1>1, <3>1
      <3>3. TellsOfReset(q.tx, t)'
        BY Zenon, <1>1, <2>5 DEF TellsOfReset
      <3> QED
        BY Zenon, <3>2, <3>3 DEF Assured
    <2> QED
      BY Zenon, <2>1, <2>3, <2>4, <2>5 DEF Assured
  <1>13. \A t, d, n : Backed(t, d, n) => Backed(t, d, n)'
    <2> TAKE t, d, n
    <2>1. HAVE Backed(t, d, n)
    <2>2. \A q \in Coming : Of(d, q) /\ Assured(t, q) => (q \in Coming' /\ Assured(t, q)')
            \/ q \in Done'
      BY Zenon, <1>7, <1>12
    <2> QED
      BY Zenon, <1>7, <2>1, <2>2, BackedStep
  <1>14. \A d, n : Landed(d, n) => Landed(d, n)'
    BY Zenon, <1>7, LandedStep
  <1>15. FirstInv'
    <2>1. \A t : Prerequisites(t)' = Prerequisites(t)
      BY Zenon, <1>1 DEF Prerequisites
    <2>2. \A t \in Txs : txState'[t] = "Preparing" =>
          \A u \in Prerequisites(t) : txState'[u] = "Confirmed"
            \/ Backed(t, <<u, 1>>, enqueued + 1)'
      <3>1. SUFFICES ASSUME NEW t \in Txs, txState'[t] = "Preparing", NEW u \in Prerequisites(t)
                    PROVE  txState'[u] = "Confirmed" \/ Backed(t, <<u, 1>>, enqueued + 1)'
        BY Zenon
      <3> PICK m : m = enqueued + 1
        BY Zenon
      <3>2. txState[t] = "Preparing"
        BY Zenon, <1>6, <3>1
      <3>3. txState[u] = "Confirmed" \/ Backed(t, <<u, 1>>, m)
        BY Zenon, <3>2 DEF DepInv, FirstInv
      <3>4. Backed(t, <<u, 1>>, m) => Backed(t, <<u, 1>>, m)'
        BY Zenon, <1>13
      <3>5. m = enqueued' + 1
        BY Zenon, <1>1
      <3>6. txState[u] = "Confirmed" => txState'[u] = "Confirmed"
        <4>1. u \in Txs
          BY Zenon DEF Prerequisites
        <4> QED
          BY Zenon, <1>6, <4>1
      <3> QED
        BY Zenon, <3>3, <3>4, <3>5, <3>6
    <2>3. \A c \in Range(accepted) : \A d \in c.deps : Landed(d, c.n)'
      BY Zenon, <1>14 DEF DepInv, FirstInv
    <2>4. \A c \in Coming : txState'[c.tx] = "Dispatched" => \A d \in c.deps : Landed(d, c.n)'
      <3> TAKE c \in Coming
      <3>1. HAVE txState'[c.tx] = "Dispatched"
      <3>2. CASE c.tx = x /\ txState[x] = "Ready_For_Dispatch"
        <4>1. c = p
          BY Zenon, <1>3, <3>2 DEF DepInv, OnceInv
        <4>2. \A d \in p.deps : Backed(p.tx, d, p.n)
          BY Zenon, <1>3, <3>2 DEF DepInv, FirstInv
        <4>3. \A d \in p.deps : Landed(d, p.n)
          BY Zenon, <1>3, <4>2 DEF Backed
        <4> QED
          BY Zenon, <1>14, <4>1, <4>3
      <3>3. CASE ~(c.tx = x /\ txState[x] = "Ready_For_Dispatch")
        <4>1. txState[c.tx] = "Dispatched"
          BY Zenon, <1>4, <1>6, <3>1, <3>3
        <4> QED
          BY Zenon, <1>14, <4>1 DEF DepInv, FirstInv
      <3> QED
        BY Zenon, <3>2, <3>3
    <2>5. \A c \in Coming : txState'[c.tx] = "Ready_For_Dispatch" => \A d \in c.deps :
            Backed(c.tx, d, c.n)'
      <3> TAKE c \in Coming
      <3>1. HAVE txState'[c.tx] = "Ready_For_Dispatch"
      <3>2. txState[c.tx] = "Ready_For_Dispatch"
        BY Zenon, <1>4, <1>6, <3>1
      <3> QED
        BY Zenon, <1>13, <3>2 DEF DepInv, FirstInv
    <2>6. \A c \in Blocked : \A d \in c.deps : Backed(c.tx, d, c.n)'
      BY Zenon, <1>13 DEF DepInv, FirstInv
    <2>7. \A c \in Range(persisted) : \A d \in c.deps :
              \E q \in Range(persisted) : Of(d, q) /\ q.n < c.n
      BY Zenon DEF DepInv, FirstInv
    <2> QED
      BY Zenon, <1>1, <1>7, <2>1, <2>2, <2>3, <2>4, <2>5, <2>6, <2>7 DEF FirstInv, Of
  <1> QED
    BY Zenon, <1>8, <1>9, <1>10, <1>11, <1>15 DEF DepInv

\* GetCurrentState: the first of the batch is accepted, with all it depends on
\* accepted before it, or dropped, and then nobody counts on it any more.
LEMMA CheckDispatchedDep ==
    ASSUME TypeInv, OrderInv, DepInv, CheckDispatched
    PROVE  DepInv'
  <1> USE DEF coordVars, txVars, depVars, queueVars, loopVars, ledgerVars, eventVars
  <1> PICK p : p = batch[1]
    BY Zenon
  <1>1. /\ UNCHANGED <<txState, prepares, prepareID, links, cascade, enqueuing, dispatchQueue,
           enqueued, persisted>>
        /\ loop = "check" /\ batch' = Tail(batch)
        /\ loop' = IF Len(batch) = 1 THEN "persist" ELSE "handle"
        /\ accepted' = IF txState[p.tx] = "Dispatched" THEN Append(accepted, p) ELSE accepted
    BY Zenon DEF CheckDispatched
  <1>2. batch # <<>> /\ loop' # "check"
    <2>1. batch # <<>>
      BY <1>1 DEF TypeInv, BatchInv
    <2>2. loop' = "persist" \/ loop' = "handle"
      BY Zenon, <1>1
    <2> QED
      BY Zenon, <2>1, <2>2
  <1>3. p \in Coming
    BY Zenon, <1>2, FirstIsLeast
  <1>4. /\ batch \in Seq(QueuedDispatches) /\ accepted \in Seq(QueuedDispatches)
        /\ p \in QueuedDispatches
    BY Zenon, <1>3, Dispatches DEF TypeInv, TypeOK, LoopType
  <1>5. \A q : q \in Coming <=> q = p \/ q \in Coming'
    <2>1. Range(batch) = {p} \cup Range(Tail(batch))
      BY Zenon, <1>2, <1>4, TailRange
    <2> QED
      BY Zenon, <1>1, <2>1 DEF Coming
  <1>6. /\ txState[p.tx] = "Dispatched" => \A q : q \in Range(accepted') <=> q \in Range(accepted)
           \/ q = p
        /\ txState[p.tx] # "Dispatched" => \A q : q \in Range(accepted') <=> q \in Range(accepted)
    <2>0. \A e \in QueuedDispatches : \A q : q \in Range(Append(accepted, e)) <=>
            q \in Range(accepted) \/ q = e
      BY Zenon, <1>4, AppendRange
    <2>1. \A q : q \in Range(Append(accepted, p)) <=> q \in Range(accepted) \/ q = p
      BY Zenon, <1>4, <2>0
    <2>2. /\ txState[p.tx] = "Dispatched" => accepted' = Append(accepted, p)
          /\ txState[p.tx] # "Dispatched" => accepted' = accepted
      BY Zenon, <1>1
    <2> QED
      BY Zenon, <2>1, <2>2
  <1>7. /\ txState[p.tx] = "Dispatched" => \A q : q \in Done' <=> q \in Done \/ q = p
        /\ txState[p.tx] # "Dispatched" => \A q : q \in Done' <=> q \in Done
    BY Zenon, <1>1, <1>6 DEF Done
  <1>8. Blocked' = Blocked /\ Done \subseteq Done' /\ Done' \cup Coming' \subseteq Done \cup Coming
    BY Zenon, <1>1, <1>5, <1>7 DEF Blocked
  <1>9. txState[p.tx] # "Ready_For_Dispatch"
    BY Zenon, <1>1 DEF DepInv, HeldInv
  <1>10. OnceInv'
    BY Zenon, <1>1, <1>8 DEF DepInv, OnceInv
  <1>11. HeldInv'
    <2>1. \A t \in Txs : txState[t] = "Ready_For_Dispatch" => \E q \in Coming' : q.tx = t
      BY Zenon, <1>5, <1>9 DEF DepInv, HeldInv
    <2>2. \A t \in Txs : txState[t] = "Dispatched" => \E q \in Done' \cup Coming' : q.tx = t
      BY Zenon, <1>5, <1>7, <1>8 DEF DepInv, HeldInv
    <2> QED
      BY Zenon, <1>1, <1>2, <2>1, <2>2 DEF HeldInv
  <1>12. ToldInv'
    BY Zenon, <1>1 DEF DepInv, ToldInv
  <1>13. KnownInv'
    BY Zenon, <1>1, <1>8 DEF DepInv, KnownInv
  <1>14. \A t, q : q \in Coming /\ Assured(t, q) => (q \in Coming' /\ Assured(t, q)') \/ q \in Done'
    <2> TAKE t, q
    <2>1. HAVE q \in Coming /\ Assured(t, q)
    <2>2. CASE txState[q.tx] = "Dispatched"
      <3>1. q \in Coming' \/ q \in Done'
        BY Zenon, <1>5, <1>7, <2>1, <2>2
      <3>2. Assured(t, q)'
        BY Zenon, <1>1, <2>2 DEF Assured
      <3> QED
        BY Zenon, <3>1, <3>2
    <2>3. CASE txState[q.tx] = "Ready_For_Dispatch" /\ <<t, q.tx>> \in links \cup Chained
      <3>1. q \in Coming'
        BY Zenon, <1>5, <1>9, <2>1, <2>3
      <3>2. Assured(t, q)'
        BY Zenon, <1>1, <2>3 DEF Assured
      <3> QED
        BY Zenon, <3>1, <3>2
    <2>4. CASE q # batch[1] /\ TellsOfReset(q.tx, t)
      <3>1. q \in Coming'
        BY Zenon, <1>5, <2>1, <2>4
      <3>2. Assured(t, q)'
        BY Zenon, <1>1, <1>2, <2>4 DEF Assured, TellsOfReset
      <3> QED
        BY Zenon, <3>1, <3>2
    <2> QED
      BY Zenon, <1>1, <2>1, <2>2, <2>3, <2>4 DEF Assured
  <1>15. \A t, d, n : Backed(t, d, n) => Backed(t, d, n)'
    <2> TAKE t, d, n
    <2>1. HAVE Backed(t, d, n)
    <2>2. \A q \in Coming : Of(d, q) /\ Assured(t, q) => (q \in Coming' /\ Assured(t, q)')
            \/ q \in Done'
      BY Zenon, <1>14
    <2> QED
      BY Zenon, <1>8, <2>1, <2>2, BackedStep
  <1>16. \A d, n : Landed(d, n) => Landed(d, n)'
    BY Zenon, <1>8, LandedStep
  <1>17. FirstInv'
    <2>1. \A t : Prerequisites(t)' = Prerequisites(t)
      BY Zenon, <1>1 DEF Prerequisites
    <2>2. \A t \in Txs : txState[t] = "Preparing" =>
          \A u \in Prerequisites(t) : txState[u] = "Confirmed" \/ Backed(t, <<u, 1>>, enqueued + 1)'
      <3>1. SUFFICES ASSUME NEW t \in Txs, txState[t] = "Preparing", NEW u \in Prerequisites(t)
                    PROVE  txState[u] = "Confirmed" \/ Backed(t, <<u, 1>>, enqueued + 1)'
        BY Zenon
      <3> PICK m : m = enqueued + 1
        BY Zenon
      <3>2. txState[u] = "Confirmed" \/ Backed(t, <<u, 1>>, m)
        BY Zenon, <3>1 DEF DepInv, FirstInv
      <3>3. Backed(t, <<u, 1>>, m) => Backed(t, <<u, 1>>, m)'
        BY Zenon, <1>15
      <3>4. m = enqueued' + 1
        BY Zenon, <1>1
      <3> QED
        BY Zenon, <3>2, <3>3, <3>4
    <2>3. \A c \in Range(accepted') : \A d \in c.deps : Landed(d, c.n)'
      <3> TAKE c \in Range(accepted')
      <3>1. c \in Range(accepted) \/ (c = p /\ txState[p.tx] = "Dispatched")
        BY Zenon, <1>6
      <3>2. \A d \in c.deps : Landed(d, c.n)
        BY Zenon, <1>3, <3>1 DEF DepInv, FirstInv
      <3> QED
        BY Zenon, <1>16, <3>2
    <2>4. \A c \in Coming' : txState[c.tx] = "Dispatched" => \A d \in c.deps : Landed(d, c.n)'
      BY Zenon, <1>5, <1>16 DEF DepInv, FirstInv
    <2>5. \A c \in Coming' : txState[c.tx] = "Ready_For_Dispatch" => \A d \in c.deps :
            Backed(c.tx, d, c.n)'
      BY Zenon, <1>5, <1>15 DEF DepInv, FirstInv
    <2>6. \A c \in Blocked : \A d \in c.deps : Backed(c.tx, d, c.n)'
      BY Zenon, <1>15 DEF DepInv, FirstInv
    <2>7. \A c \in Range(persisted) : \A d \in c.deps :
              \E q \in Range(persisted) : Of(d, q) /\ q.n < c.n
      BY Zenon DEF DepInv, FirstInv
    <2> QED
      BY Zenon, <1>1, <1>8, <2>1, <2>2, <2>3, <2>4, <2>5, <2>6, <2>7 DEF FirstInv, Of
  <1> QED
    BY Zenon, <1>10, <1>11, <1>12, <1>13, <1>17 DEF DepInv

\* Every step of the event loop and of the dispatch loop keeps what is queued and
\* accepted in the order of its dependencies.
LEMMA DepStep ==
    ASSUME ShallowChains, TypeInv, OrderInv, ChildrenInv, StopInv, Uninterrupted => DepInv,
           [Next]_vars, Uninterrupted'
    PROVE  DepInv'
  <1>1. Uninterrupted
    BY Zenon, StillUninterrupted
  <1>2. DepInv /\ ~cancelled
    BY Zenon, <1>1 DEF Uninterrupted
  <1>3. CASE EventLoopNext
    <2>1. \A p \in running : p[1] \in Txs
      BY Zenon DEF TypeInv, TypeOK, TxType
    <2>2. CASE \E t \in Txs : StartPrepare(t)
      BY Zenon, <1>2, <2>2, StartPrepareDep
    <2>3. CASE CascadeNext
      BY Zenon, <1>2, <2>3, DependencyResetDep, ChainedDependencyFailedDep, HandlerReturnsDep
      DEF CascadeNext
    <2>4. CASE \E p \in running : PrepareSucceeded(p[1], p[2]) \/ PrepareFailed(p[1], p[2])
      BY Zenon, <1>2, <2>1, <2>4, PrepareSucceededDep, PrepareFailedDep
    <2>5. CASE EnqueueUnblocked
      BY Zenon, <1>2, <2>5, EnqueueUnblockedDep
    <2>6. CASE \E i \in DOMAIN persisted :
                   ConfirmedSuccess(i) \/ ConfirmedRevertedRetry(i) \/ ConfirmedRevertedFinal(i)
      BY Zenon, <1>2, <2>6, OutcomeDep
    <2>7. CASE \/ DispatchedTransition \/ EpochBoundaryReached \/ EpochRotate \/ RestartDispatchLoop
               \/ StepDown \/ CleanUpTransactionsNotYetDispatched \/ BecomeActive
      BY Zenon, <1>2, <2>7, QuietSteps, QuietDep
    <2> QED
      BY Zenon, <1>3, <2>2, <2>3, <2>4, <2>5, <2>6, <2>7 DEF EventLoopNext
  <1>4. CASE DispatchLoopNext
    <2>1. ~StopAtSelect /\ ~StopWhileWaiting /\ ~PersistAbandoned
      BY Zenon, <1>2 DEF StopAtSelect, StopWhileWaiting, PersistAbandoned
    <2> QED
      BY Zenon, <1>2, <1>4, <2>1, LoopMovesDep, HandleDispatchedDep, CheckDispatchedDep
      DEF DispatchLoopNext
  <1>5. CASE UNCHANGED vars
    <2>1. QuietStep
      BY Zenon, <1>5 DEF QuietStep, vars, coordVars, txVars, depVars, queueVars, loopVars,
         ledgerVars, eventVars
    <2> QED
      BY Zenon, <1>2, <2>1, QuietDep
  <1> QED
    BY Zenon, <1>3, <1>4, <1>5 DEF Next

\* Nothing is queued and nobody prepares at the start.
LEMMA DepInit == Init => StopInv /\ DepInv
  <1> SUFFICES ASSUME Init PROVE StopInv /\ DepInv
    BY Zenon
  <1>1. /\ key = 1 /\ eventLoop = "idle" /\ enqueuing = <<>> /\ dispatchQueue = <<>>
           /\ loop = "select"
        /\ cancelled = FALSE /\ batch = <<>> /\ accepted = <<>> /\ persisted = <<>>
           /\ restartQueued = FALSE
        /\ links = {} /\ cascade = <<>> /\ txState = [t \in Txs |-> "Pooled"]
    BY Zenon DEF Init
  <1>2. Range(<<>>) = {} /\ DOMAIN <<>> = {}
    BY DEF Range
  <1>3. Done = {} /\ Coming = {} /\ Blocked = {} /\ Range(persisted) = {} /\ Range(accepted) = {}
    BY Zenon, <1>1, <1>2 DEF Done, Coming, Blocked
  <1>4. \A t \in Txs : txState[t] = "Pooled"
    BY Zenon, <1>1
  <1>5. StopInv
    BY Zenon, <1>1 DEF StopInv
  <1>6. OnceInv /\ HeldInv
    BY Zenon, <1>1, <1>3, <1>4 DEF OnceInv, HeldInv
  <1>7. ToldInv /\ KnownInv /\ FirstInv
    <2>1. ToldInv
      BY Zenon, <1>1, <1>2 DEF ToldInv
    <2>2. KnownInv
      BY Zenon, <1>1, <1>3 DEF KnownInv
    <2>3. FirstInv
      BY Zenon, <1>3, <1>4 DEF FirstInv
    <2> QED
      BY Zenon, <2>1, <2>2, <2>3
  <1> QED
    BY Zenon, <1>5, <1>6, <1>7 DEF DepInv

\* The dispatch that another depends on was persisted with a smaller number, so
\* at an earlier place.
LEMMA DepOrdered ==
    ASSUME TypeInv, OrderInv, Uninterrupted => DepInv
    PROVE  DependencyOrder
  <1> SUFFICES ASSUME Uninterrupted, NEW i \in DOMAIN persisted, NEW d \in persisted[i].deps
               PROVE  \E j \in 1 .. i - 1 : <<persisted[j].tx, persisted[j].id>> = d
    BY Zenon DEF DependencyOrder, Uninterrupted
  <1>1. persisted[i] \in Range(persisted)
    BY Zenon DEF Range
  <1>2. PICK q \in Range(persisted) : Of(d, q) /\ q.n < persisted[i].n
    BY Zenon, <1>1 DEF DepInv, FirstInv
  <1>3. PICK j \in DOMAIN persisted : q = persisted[j]
    BY Zenon DEF Range
  <1>4. persisted \in Seq(QueuedDispatches)
    BY Zenon DEF TypeInv, TypeOK, LedgerType
  <1>5. persisted[i].n \in Nat /\ persisted[j].n \in Nat
    BY Zenon, <1>4, Numbered
  <1>6. \A a, b \in Nat : a < b => ~(b < a) /\ a # b
    OBVIOUS
  <1>7. j # i /\ ~(i < j)
    BY Zenon, <1>2, <1>3, <1>5, <1>6 DEF OrderInv, Increasing
  <1>8. j \in 1 .. i - 1
    BY <1>4, <1>7
  <1>9. <<persisted[j].tx, persisted[j].id>> = d
    BY Zenon, <1>2, <1>3 DEF Of
  <1> QED
    BY Zenon, <1>8, <1>9

\* Where nobody depends on a transaction that was itself submitted as dependent
\* on another, and as long as the dispatch loop is not stopped and nothing is
\* prepared twice, PersistDispatchBatch writes a dispatch only after those of the
\* transactions it depends on.
THEOREM DependenciesFirst ==
    ASSUME ShallowChains
    PROVE  Spec => []DependencyOrder
  <1> DEFINE OrderedInv == /\ TypeInv /\ OrderInv /\ ChildrenInv /\ StopInv
                           /\ (Uninterrupted => DepInv)
  <1>1. Init => OrderedInv
    BY Zenon, InitType, OrderInit, DepInit DEF Init, ChildrenInv, ChildrenAfterPersist
  <1>2. OrderedInv /\ [Next]_vars => OrderedInv'
    BY Zenon, TypeStep, OrderStep, ChildrenStep, StopStep, DepStep
  <1>3. OrderedInv => DependencyOrder
    BY Zenon, DepOrdered
  <1> QED
    BY <1>1, <1>2, <1>3, PTL DEF Spec

=============================================================================
