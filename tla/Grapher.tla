------------------------------ MODULE Grapher ------------------------------
(***************************************************************************)
(* The ahead-of-chain view of a contract's private states.                 *)
(*                                                                         *)
(* The coordinator's grapher records which states its unconfirmed          *)
(* transactions create, read and spend.  A view of them is captured for    *)
(* the transaction being assembled; its originator merges the view with    *)
(* the states its own node has indexed from the base ledger and selects    *)
(* the inputs.  Nodes index blocks at different speeds: an originator may  *)
(* be up to Tolerance blocks away from the coordinator, which is why the   *)
(* grapher keeps the locks of a confirmed transaction for as long, and     *)
(* hands them to the next coordinator.                                     *)
(***************************************************************************)
EXTENDS Integers, FiniteSets

CONSTANTS
    Nodes,       \* the nodes
    Coordinators,  \* those that may coordinate the contract
    Txs,         \* the private transactions of the contract
    NoTx,        \* no transaction (nil)
    States,      \* state identifiers
    Genesis,     \* the states confirmed before the first modelled block
    Origin,      \* Origin[t]: the node of the originator of t
    Allowed,     \* Allowed[s]: the nodes in the distribution list of s
    Tolerance,   \* blockHeightTolerance
    ReadSizes,   \* how many states an assembly may read
    Failures,    \* what may go wrong: "reset", "retry", "final"
    HandoverLag, \* how many blocks a new coordinator may be behind the old one
    MaxHeight    \* bound: height of the base ledger

ASSUME NodesAssumption == Coordinators \subseteq Nodes
ASSUME TxsAssumption == NoTx \notin Txs /\ Origin \in [Txs -> Nodes]
ASSUME StatesAssumption ==
    /\ IsFiniteSet(States) /\ Genesis \subseteq States
    /\ Allowed \in [States -> SUBSET Nodes]
ASSUME BoundsAssumption ==
    /\ Tolerance \in Nat
    /\ ReadSizes \subseteq Nat
    /\ Failures \subseteq {"reset", "retry", "final"}
    /\ HandoverLag \in Nat
    /\ MaxHeight \in Nat

VARIABLES
    phase,        \* how far each transaction has got
    post,         \* its assembly: the states it spends, reads and creates
    view,         \* the view captured for the transaction being assembled
    coordinator,  \* the node that coordinates the contract
    active,       \* FALSE once it has stepped down
    grapher,      \* the grapher of each node's coordinator
    heartbeat,    \* the states and locks in the last Closing heartbeat
    height,       \* height of the base ledger
    indexed,      \* the height each node has indexed
    minedAt,      \* the block a transaction succeeded in, 0 if none
    minted        \* every state identifier ever produced by an assembly

txVars == <<phase, post, minted>>
chainVars == <<height, indexed, minedAt>>
roleVars == <<coordinator, active, heartbeat>>
vars == <<txVars, view, roleVars, grapher, chainVars>>

\* A transaction that is assembled may be anywhere from State_Signing to
\* State_Ready_For_Dispatch.
Phases == {"pooled", "requested", "assembling", "answered", "assembled",
           "dispatched", "mined", "confirmed", "reverted"}
Nothing == [in |-> {}, read |-> {}, out |-> {}]
Assemblies == [in : SUBSET States, read : SUBSET States, out : SUBSET States]

\* A state lock: held by a transaction, or left by one confirmed at a block.
Locks == [tx : Txs \cup {NoTx}, at : Nat]
NoLock == [tx |-> NoTx, at |-> 0]
LockMaps == [States -> Locks]
Snapshots == [create : LockMaps, spend : LockMaps, read : LockMaps,
              states : SUBSET States, sent : BOOLEAN]
NoHeartbeat == [create |-> [s \in States |-> NoLock],
                spend |-> [s \in States |-> NoLock],
                read |-> [s \in States |-> NoLock],
                states |-> {}, sent |-> FALSE]

\* The maps of the grapher and of its state visibility tracker.
Graphers == [known : SUBSET Txs,                    \* transactionByID
             minter : [States -> Txs \cup {NoTx}],  \* transactionByOutputState
             create : LockMaps, spend : LockMaps, read : LockMaps,
             links : SUBSET (Txs \X Txs),           \* <<t, u>>: t depends on u
             visible : SUBSET States]
NewGrapher == [known |-> {}, minter |-> [s \in States |-> NoTx],
               create |-> [s \in States |-> NoLock],
               spend |-> [s \in States |-> NoLock],
               read |-> [s \in States |-> NoLock],
               links |-> {}, visible |-> {}]

-----------------------------------------------------------------------------
(* The operations of the grapher, on its maps.                              *)

\* Transaction t takes a lock on each of the states in S.
Lock(map, S, t) ==
    [s \in States |-> IF s \in S THEN [tx |-> t, at |-> 0] ELSE map[s]]
Unlock(map, S) == [s \in States |-> IF s \in S THEN NoLock ELSE map[s]]

\* AddMinter: state identifiers are hashes over salted data, so that no other
\* transaction is known to mint them already.
AddMinter(G, t, out) ==
    [G EXCEPT !.known = @ \cup {t},
              !.minter = [s \in States |-> IF s \in out THEN t ELSE @[s]]]

\* recordOutputStateVisibility and LockMintsOnCreate
LockMintsOnCreate(G, t, out) ==
    [G EXCEPT !.visible = @ \cup out, !.create = Lock(@, out, t)]

\* LockMintsOnReadAndSpend: a transaction depends on the known minters of the
\* states it reads and spends.
LockMintsOnReadAndSpend(G, t, read, in) ==
    [G EXCEPT !.read = Lock(@, read, t),
              !.spend = Lock(@, in, t),
              !.links = @ \cup
                  {<<t, G.minter[s]>> : s \in {s \in read \cup in :
                                                  G.minter[s] # NoTx}}]

\* The states that the known transactions of T hold locks of one kind on.
ReadBy(G, T) == UNION {post[t].read : t \in T \cap G.known}
SpentBy(G, T) == UNION {post[t].in : t \in T \cap G.known}
CreatedBy(G, T) == UNION {post[t].out : t \in T \cap G.known}

\* The dependency chain and the minter index forget the transactions in T.
ForgetTxMints(G, T) ==
    [G EXCEPT !.known = @ \ T,
              !.minter = [s \in States |-> IF @[s] \in T THEN NoTx ELSE @[s]],
              !.links = {l \in @ : l[1] \notin T /\ l[2] \notin T}]

\* ForgetTransactionAndLocks, of each transaction in T: their locks go, by
\* state, and with a create lock the private data.
ForgetTransactionAndLocks_KeepVisible(G, T) ==
    [ForgetTxMints(G, T) EXCEPT !.create = Unlock(@, CreatedBy(G, T)),
                                !.spend = Unlock(@, SpentBy(G, T)),
                                !.read = Unlock(@, ReadBy(G, T))]
ForgetTransactionAndLocks(G, T) ==
    [ForgetTxMints(G, T) EXCEPT !.create = Unlock(@, CreatedBy(G, T)),
                                !.spend = Unlock(@, SpentBy(G, T)),
                                !.read = Unlock(@, ReadBy(G, T)),
                                !.visible = @ \ CreatedBy(G, T)]

\* ForgetTransaction: the locks of a confirmed transaction lose their owner and
\* record the block.
Confirm(map, t, h) ==
    [s \in States |-> IF map[s].tx = t THEN [tx |-> NoTx, at |-> h] ELSE map[s]]
ForgetTransaction(G, t, h) ==
    [ForgetTxMints(G, {t}) EXCEPT !.create = Confirm(@, t, h),
                                  !.spend = Confirm(@, t, h),
                                  !.read = Confirm(@, t, h)]

\* ForgetConfirmedLocks: the locks confirmed long enough before height h that
\* no node within the tolerance can have missed the block.
Confirmed(lock) == lock.tx = NoTx /\ lock.at # 0
Expired(lock, h) == Confirmed(lock) /\ h >= lock.at + Tolerance
Prune(map, h) == [s \in States |-> IF Expired(map[s], h) THEN NoLock ELSE map[s]]
ForgetConfirmedLocks(G, h) ==
    [G EXCEPT !.create = Prune(@, h), !.spend = Prune(@, h), !.read = Prune(@, h),
              !.visible = {s \in @ : ~Expired(G.create[s], h)}]

\* SnapshotView: the states a node may select, and those it may not.
SnapshotView(G, node) ==
    [candidates |-> {s \in G.visible : /\ node \in Allowed[s]
                                       /\ G.create[s] # NoLock
                                       /\ G.spend[s] = NoLock},
     spent |-> {s \in States : G.spend[s] # NoLock}]

\* ExportStatesAndLocks, before the filter by recipient.
ExportStatesAndLocks(G) ==
    [create |-> G.create, spend |-> G.spend, read |-> G.read,
     states |-> {s \in G.visible : G.spend[s] = NoLock}, sent |-> TRUE]

\* ImportStatesAndLocks indexes the confirmed locks by state alone: the last of
\* the create, spend and read locks of a state is the one that is imported.
KeepOld(old, new, wins) ==
    [s \in States |-> IF old[s] = NoLock /\ wins[s] THEN new[s] ELSE old[s]]
ImportStatesAndLocks_StatesOnly(G, hb, node) ==
    [G EXCEPT !.create = KeepOld(@, hb.create, [s \in States |-> Confirmed(hb.create[s])]),
              !.visible = @ \cup {s \in hb.states : node \in Allowed[s]}]
ImportStatesAndLocks(G, hb, node) ==
    LET read == [s \in States |-> Confirmed(hb.read[s])]
        spend == [s \in States |-> Confirmed(hb.spend[s]) /\ ~read[s]]
        create == [s \in States |-> Confirmed(hb.create[s])
                                       /\ ~read[s] /\ ~spend[s]]
    IN [G EXCEPT !.create = KeepOld(@, hb.create, create),
                 !.spend = KeepOld(@, hb.spend, spend),
                 !.read = KeepOld(@, hb.read, read),
                 !.visible = @ \cup {s \in hb.states :
                     node \in Allowed[s] /\ (read[s] \/ spend[s] \/ create[s])}]

-----------------------------------------------------------------------------
(* The base ledger, and what a node knows of it.                            *)

\* The transactions that succeeded in a block up to h.
MinedBy(h) == {t \in Txs : minedAt[t] # 0 /\ minedAt[t] <= h}
Outputs(T) == UNION {post[t].out : t \in T}
Inputs(T) == UNION {post[t].in : t \in T}
OnChain == Genesis \cup Outputs(MinedBy(height))
SpentOnChain == Inputs(MinedBy(height))

\* The confirmed, unspent states in a node's database.
DbAvailable(node) ==
    {s \in Genesis \cup Outputs(MinedBy(indexed[node])) : node \in Allowed[s]}
        \ Inputs(MinedBy(indexed[node]))

\* FindAvailableStates with the coordinator's view: the database without the
\* states spent ahead of chain, and the states created ahead of chain.
Selectable(node, v) == (DbAvailable(node) \ v.spent) \cup v.candidates

\* validator_AssembleBlockHeightToleranceExceeded, negated.
WithinTolerance_Unchecked(a, b) == TRUE
WithinTolerance(a, b) == a - b <= Tolerance /\ b - a <= Tolerance

Init ==
    /\ phase = [t \in Txs |-> "pooled"]
    /\ post = [t \in Txs |-> Nothing]
    /\ view = [candidates |-> {}, spent |-> {}, height |-> 0]
    /\ coordinator \in Coordinators
    /\ active = TRUE
    /\ grapher = [n \in Nodes |-> NewGrapher]
    /\ heartbeat = NoHeartbeat
    /\ height = 0
    /\ indexed = [n \in Nodes |-> 0]
    /\ minedAt = [t \in Txs |-> 0]
    /\ minted = Genesis

-----------------------------------------------------------------------------
(* The assembly of one transaction at a time.                               *)

UnderAssembly == {t \in Txs : phase[t] \in {"requested", "assembling", "answered"}}

\* refreshBlockHeight, of any node's coordinator, on many events.
RefreshBlockHeight(n) ==
    /\ grapher' = [grapher EXCEPT ![n] = ForgetConfirmedLocks(@, indexed[n])]
    /\ UNCHANGED <<txVars, view, roleVars, chainVars>>

\* Selection for assembly and the entry of State_Assembling: the block height
\* is refreshed, then the view captured and the request sent.
Select(t) ==
    /\ active
    /\ phase[t] = "pooled"
    /\ UnderAssembly = {}
    /\ LET G == ForgetConfirmedLocks(grapher[coordinator], indexed[coordinator])
           v == SnapshotView(G, Origin[t])
       IN /\ grapher' = [grapher EXCEPT ![coordinator] = G]
          /\ view' = [candidates |-> v.candidates, spent |-> v.spent,
                      height |-> indexed[coordinator]]
    /\ phase' = [phase EXCEPT ![t] = "requested"]
    /\ UNCHANGED <<post, minted, roleVars, chainVars>>

\* The originator is close enough to the height in the request and starts the
\* assembly in the background.
StartAssembly(t) ==
    /\ phase[t] = "requested"
    /\ WithinTolerance(indexed[Origin[t]], view.height)
    /\ phase' = [phase EXCEPT ![t] = "assembling"]
    /\ UNCHANGED <<post, minted, view, roleVars, grapher, chainVars>>

\* The assembly, blocks later perhaps: the domain selects inputs and produces
\* states that never existed before.
Assemble(t) ==
    /\ phase[t] = "assembling"
    /\ \E in, read, out \in SUBSET States :
          /\ in \cup read \subseteq Selectable(Origin[t], view)
          /\ in \cap read = {}
          /\ Cardinality(in) <= 1 /\ Cardinality(read) \in ReadSizes
          /\ out \cap minted = {} /\ Cardinality(out) <= 1
          /\ post' = [post EXCEPT ![t] = [in |-> in, read |-> read, out |-> out]]
          /\ minted' = minted \cup out
    /\ phase' = [phase EXCEPT ![t] = "answered"]
    /\ UNCHANGED <<view, roleVars, grapher, chainVars>>

\* applyPostAssembly
ApplyPostAssembly(t) ==
    /\ phase[t] = "answered"
    /\ phase' = [phase EXCEPT ![t] = "assembled"]
    /\ LET p == post[t]
           G1 == AddMinter(grapher[coordinator], t, p.out)
           G2 == LockMintsOnCreate(G1, t, p.out)
       IN grapher' = [grapher EXCEPT ![coordinator] =
                         LockMintsOnReadAndSpend(G2, t, p.read, p.in)]
    /\ UNCHANGED <<post, minted, view, roleVars, chainVars>>

\* The assembly is rejected, fails, times out or is parked: the transaction
\* returns to the pool, and a late answer finds no request to match.
AssemblyEnds(t) ==
    /\ t \in UnderAssembly
    /\ phase' = [phase EXCEPT ![t] = "pooled"]
    /\ post' = [post EXCEPT ![t] = Nothing]
    /\ UNCHANGED <<minted, view, roleVars, grapher, chainVars>>

-----------------------------------------------------------------------------
(* After assembly.                                                          *)

\* Whom a reset of t reaches along the dependency chain.  A transaction not yet
\* dispatched tells its dependents before it is forgotten; a dispatched one is
\* forgotten first (action_ResetTransactionLocks), and so finds none to tell.
Dependents(T) == {d \in Txs : \E u \in T : <<d, u>> \in grapher[coordinator].links}
Tells(T) == {u \in T : phase[u] = "assembled"}
Told(t) ==
    {d \in Txs : \A S \in SUBSET Txs :
        Dependents({t}) \subseteq S /\ Dependents(Tells(S)) \subseteq S => d \in S}

\* Transaction t leaves for phase to; those in T are reset with it; and, if
\* cancel, whatever is being assembled is repooled.
Unwind(t, to, T, cancel) ==
    LET repooled == Tells(T) \cup (IF cancel THEN UnderAssembly ELSE {})
    IN /\ phase' = [u \in Txs |-> IF u = t THEN to
                                  ELSE IF u \in repooled THEN "pooled" ELSE phase[u]]
       /\ post' = [u \in Txs |-> IF u \in repooled \cup {t} THEN Nothing ELSE post[u]]
       /\ grapher' = [grapher EXCEPT ![coordinator] =
                         ForgetTransactionAndLocks(@, T \cup {t})]
       /\ UNCHANGED <<minted, view, roleVars, chainVars>>

\* An assembled transaction fails to be signed, endorsed or approved: it is
\* repooled, or reverted for good.
Reset(t) ==
    /\ "reset" \in Failures
    /\ active
    /\ phase[t] = "assembled"
    /\ \E to \in {"pooled", "reverted"} : Unwind(t, to, Told(t), FALSE)

\* Event_Dispatched: once all it depends on is dispatched or confirmed.
Dispatch(t) ==
    /\ active
    /\ phase[t] = "assembled"
    /\ \A u \in Txs : <<t, u>> \in grapher[coordinator].links
                         => phase[u] \in {"dispatched", "mined", "confirmed"}
    /\ phase' = [phase EXCEPT ![t] = "dispatched"]
    /\ UNCHANGED <<post, minted, view, roleVars, grapher, chainVars>>

\* Event_ConfirmedReverted: with retries left, dependents are told before the
\* transaction is forgotten; without, it is forgotten first.  Either way an
\* assembly in progress is cancelled.
ConfirmedReverted(t) ==
    /\ phase[t] = "dispatched"
    /\ \/ "retry" \in Failures /\ Unwind(t, "pooled", Told(t), TRUE)
       \/ "final" \in Failures /\ Unwind(t, "reverted", {}, TRUE)

\* Event_ConfirmedSuccess, some time after the coordinator's node has indexed
\* the block: the completions of a domain are delivered in the order of their
\* locations on the base ledger.
Before(u, t) == \/ minedAt[u] < minedAt[t]
                \/ minedAt[u] = minedAt[t] /\ post[u].out \cap post[t].in # {}
ConfirmedSuccess(t) ==
    /\ phase[t] = "mined"
    /\ minedAt[t] <= indexed[coordinator]
    /\ \A u \in Txs : phase[u] = "mined" => ~Before(u, t)
    /\ phase' = [phase EXCEPT ![t] = "confirmed"]
    /\ grapher' = [grapher EXCEPT ![coordinator] =
                      IF t \in @.known THEN ForgetTransaction(@, t, minedAt[t]) ELSE @]
    /\ UNCHANGED <<post, minted, view, roleVars, chainVars>>

-----------------------------------------------------------------------------
(* The base ledger.                                                         *)

\* A block is mined with the transactions in T: each of them finds the states
\* it spends and reads, and no state is spent twice.
NewBlock(T) ==
    /\ height < MaxHeight
    /\ \A t \in T : /\ phase[t] = "dispatched"
                    /\ post[t].in \cup post[t].read
                          \subseteq (OnChain \cup Outputs(T)) \ SpentOnChain
    /\ \A t, u \in T : t # u => post[t].in \cap post[u].in = {}
    /\ height' = height + 1
    /\ minedAt' = [t \in Txs |-> IF t \in T THEN height + 1 ELSE minedAt[t]]
    /\ phase' = [t \in Txs |-> IF t \in T THEN "mined" ELSE phase[t]]
    /\ UNCHANGED <<post, minted, view, roleVars, grapher, indexed>>

\* A node indexes the next block.
IndexBlock_Ahead(n) ==
    /\ indexed[n] < MaxHeight
    /\ indexed' = [indexed EXCEPT ![n] = @ + 1]
    /\ UNCHANGED <<txVars, view, roleVars, grapher, height, minedAt>>
IndexBlock(n) ==
    /\ indexed[n] < height
    /\ indexed' = [indexed EXCEPT ![n] = @ + 1]
    /\ UNCHANGED <<txVars, view, roleVars, grapher, height, minedAt>>

-----------------------------------------------------------------------------
(* The handover to another coordinator.                                     *)

\* The coordinator steps down for another, and forgets what it has not
\* dispatched.
StepDown ==
    /\ active
    /\ Coordinators # {coordinator}
    /\ active' = FALSE
    /\ LET T == UnderAssembly \cup {t \in Txs : phase[t] = "assembled"}
       IN /\ phase' = [t \in Txs |-> IF t \in T THEN "pooled" ELSE phase[t]]
          /\ post' = [t \in Txs |-> IF t \in T THEN Nothing ELSE post[t]]
          /\ grapher' = [grapher EXCEPT ![coordinator] =
                            ForgetTransactionAndLocks(@, T)]
    /\ UNCHANGED <<minted, view, coordinator, heartbeat, chainVars>>

\* In State_Closing, its dispatched transactions flushed, it sends heartbeats
\* with its states and locks.
SendHeartbeatWithLocks ==
    /\ ~active
    /\ \A t \in Txs : phase[t] \notin {"dispatched", "mined"}
    /\ heartbeat' = ExportStatesAndLocks(grapher[coordinator])
    /\ UNCHANGED <<txVars, view, coordinator, active, grapher, chainVars>>

\* State_Elect or State_Prepared to State_Active, on a Closing heartbeat.
TakeOver(n) ==
    /\ heartbeat.sent
    /\ n # coordinator
    /\ indexed[n] + HandoverLag >= indexed[coordinator]
    /\ grapher' = [grapher EXCEPT ![n] = ImportStatesAndLocks(@, heartbeat, n)]
    /\ coordinator' = n
    /\ active' = TRUE
    /\ heartbeat' = NoHeartbeat
    /\ UNCHANGED <<txVars, view, chainVars>>

-----------------------------------------------------------------------------
Next ==
    \/ \E t \in Txs : \/ Select(t) \/ StartAssembly(t) \/ Assemble(t)
                      \/ ApplyPostAssembly(t) \/ AssemblyEnds(t) \/ Reset(t) \/ Dispatch(t)
                      \/ ConfirmedReverted(t) \/ ConfirmedSuccess(t)
    \/ \E n \in Coordinators : RefreshBlockHeight(n) \/ TakeOver(n)
    \/ \E n \in Nodes : IndexBlock(n)
    \/ \E T \in SUBSET Txs : NewBlock(T)
    \/ StepDown
    \/ SendHeartbeatWithLocks

Spec == Init /\ [][Next]_vars

-----------------------------------------------------------------------------
\* The variables have the types of the fields they model, and no node knows of
\* a block before it exists.
TypeOK ==
    /\ phase \in [Txs -> Phases]
    /\ post \in [Txs -> Assemblies]
    /\ view \in [candidates : SUBSET States, spent : SUBSET States, height : Nat]
    /\ coordinator \in Nodes
    /\ active \in BOOLEAN
    /\ grapher \in [Nodes -> Graphers]
    /\ heartbeat \in Snapshots
    /\ height \in Nat
    /\ indexed \in [Nodes -> 0 .. height]
    /\ minedAt \in [Txs -> 0 .. height]
    /\ minted \subseteq States

\* The transactions whose effects an assembly has to reckon with: those the
\* coordinator is processing and those that succeeded.
Live == grapher[coordinator].known \cup MinedBy(height)

\* The states that exist ahead of chain and are not spent ahead of chain.
Available(node) ==
    {s \in Genesis \cup Outputs(Live) : node \in Allowed[s]} \ Inputs(Live)

\* Whatever an originator within the block height tolerance selects from is
\* exactly what is available ahead of chain: merging its database with the
\* view the active coordinator would capture now neither offers a state that is
\* spent nor hides one that is not, although the two nodes have indexed
\* different blocks and the locks of confirmed transactions expire.
ViewIsExact ==
    LET G == ForgetConfirmedLocks(grapher[coordinator], indexed[coordinator])
        near == {n \in Nodes : indexed[n] - indexed[coordinator]
                                   \in -Tolerance .. Tolerance}
    IN active => \A n \in near : Selectable(n, SnapshotView(G, n)) = Available(n)

\* No two transactions in progress or mined spend the same state, although
\* each was assembled on its originator's node from a view that the
\* coordinator captured earlier.
DisjointInputs ==
    \A t, u \in Live : t # u => post[t].in \cap post[u].in = {}

\* The private data of a state is held only while its create lock is: it is
\* deleted with the lock, on a reset as on expiry ("the create lock is the
\* source of truth for how long private state data is held").
VisibleIsCreateLocked ==
    \A n \in Nodes : \A s \in grapher[n].visible : grapher[n].create[s] # NoLock

\* A transaction past assembly can still succeed: every state it spends or
\* reads is on the base ledger, or is minted by a transaction it is linked to
\* and will be reset with.
InputsMinted ==
    LET G == grapher[coordinator]
    IN \A t \in G.known : \A s \in post[t].in \cup post[t].read :
          s \in OnChain \/ \E u \in G.known : s \in post[u].out /\ <<t, u>> \in G.links

=============================================================================
