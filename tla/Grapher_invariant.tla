------------------------- MODULE Grapher_invariant --------------------------
(***************************************************************************)
(* The inductive invariant of Grapher.                                     *)
(*                                                                         *)
(* The argument follows a state from the assembly that selects it.  A known*)
(* transaction owns the locks of its states; a confirmed one leaves a lock *)
(* that names its block (LockInv), until every originator within the       *)
(* tolerance has indexed that block.  So a state that is spent ahead of    *)
(* chain is in the view's spent states or spent in the originator's        *)
(* database (ViewInv), and what is assembled from the two spends nothing   *)
(* that is spent (DisjointInputs).                                         *)
(***************************************************************************)
EXTENDS Grapher

\* No assembly reads a state.
NoReads == \A read \in SUBSET States : Cardinality(read) \in ReadSizes => read = {}

\* When the contract can change hands, the locks that are handed over have to
\* be enough: the new coordinator has indexed what the old one has, every
\* coordinator is on the distribution list of every state, and no transaction
\* reads states (ImportStatesAndLocks keeps one lock per state, and drops the
\* create lock of a state that was read).
HandoverSound ==
    \/ \A m, n \in Coordinators : m = n
    \/ /\ HandoverLag = 0
       /\ NoReads
       /\ \A s \in States : Coordinators \subseteq Allowed[s]

-----------------------------------------------------------------------------
(* The inductive invariant.                                                 *)

Processing == {"assembled", "dispatched", "mined"}
ConfirmedTxs == {t \in Txs : phase[t] = "confirmed"}
Needs(t) == post[t].in \cup post[t].read

\* A transaction has a block once it has succeeded and an assembly once it has
\* been assembled.
PhaseInv ==
    /\ coordinator \in Coordinators
    /\ \A t \in Txs : minedAt[t] # 0 <=> phase[t] \in {"mined", "confirmed"}
    /\ \A t \in Txs : phase[t] \in {"pooled", "requested", "assembling", "reverted"}
                         => post[t] = Nothing

\* A state is created by one transaction at most.
MintInv ==
    /\ Genesis \subseteq minted
    /\ \A t \in Txs : post[t].out \subseteq minted \ Genesis
    /\ \A t, u \in Txs : t # u => post[t].out \cap post[u].out = {}

\* Blocks are causal, and so is the order of confirmations.
LedgerInv ==
    /\ \A t \in Txs : minedAt[t] # 0 =>
          \A s \in Needs(t) :
             s \in Genesis \/ \E u \in Txs : /\ minedAt[u] # 0
                                             /\ minedAt[u] <= minedAt[t]
                                             /\ s \in post[u].out
    /\ \A t, u \in Txs : (phase[t] = "confirmed" /\ phase[u] = "mined")
                            => post[u].out \cap post[t].in = {}

\* A state that will never exist.
Dead(s) == s \in minted \ Genesis /\ \A u \in Txs : s \notin post[u].out

\* The coordinator knows the transactions it is processing, except dispatched
\* ones that were forgotten in a reset of what they depend on.  Those can no
\* longer succeed.
KnownInv ==
    /\ \A n \in Nodes : n # coordinator => grapher[n].known = {}
    /\ \A t \in grapher[coordinator].known : phase[t] \in Processing
    /\ \A t \in Txs : phase[t] \in Processing =>
          \/ t \in grapher[coordinator].known
          \/ phase[t] = "dispatched" /\ \E s \in Needs(t) : Dead(s)

\* One assembly at a time, none after the step-down, and no Closing heartbeat
\* before the dispatched transactions are flushed.
RoleInv ==
    /\ \A t, u \in UnderAssembly : t = u
    /\ ~active => \A t \in Txs : t \notin UnderAssembly /\ phase[t] # "assembled"
    /\ heartbeat.sent => ~active /\ \A t \in Txs : phase[t] \notin {"dispatched", "mined"}

\* Links and minters are those of known transactions.
Linked(G) ==
    /\ \A d, u \in Txs : <<d, u>> \in G.links =>
          d \in G.known /\ u \in G.known /\ Needs(d) \cap post[u].out # {}
    /\ \A s \in States : G.minter[s] # NoTx =>
          G.minter[s] \in G.known /\ s \in post[G.minter[s]].out

\* A lock has an owner that created or spent the state,
Held(G) ==
    \A s \in States :
        /\ G.spend[s].tx # NoTx => G.spend[s].tx \in G.known /\ s \in post[G.spend[s].tx].in
        /\ G.create[s].tx # NoTx => G.create[s].tx \in G.known /\ s \in post[G.create[s].tx].out

\* or was left by one, and names its block.
TrueSpend(map) ==
    \A s \in States : Confirmed(map[s]) =>
        \E t \in ConfirmedTxs : minedAt[t] = map[s].at /\ s \in post[t].in
TrueCreate(map) ==
    \A s \in States : Confirmed(map[s]) =>
        \E t \in ConfirmedTxs : minedAt[t] = map[s].at /\ s \in post[t].out

\* A known transaction owns its locks,
Owned(G) ==
    \A t \in G.known :
        /\ \A s \in post[t].in : G.spend[s].tx = t
        /\ \A s \in post[t].out : G.create[s].tx = t /\ s \in G.visible

\* and those of a confirmed one are kept until height h is Tolerance later.
Kept(create, spend, visible, h) ==
    \A t \in ConfirmedTxs : minedAt[t] + Tolerance > h =>
        /\ \A s \in post[t].in : Confirmed(spend[s])
        /\ \A s \in post[t].out : \/ \E u \in ConfirmedTxs : s \in post[u].in
                                  \/ s \in visible /\ Confirmed(create[s])

TrueLocks(G) == Linked(G) /\ Held(G) /\ TrueSpend(G.spend) /\ TrueCreate(G.create)
LockInv ==
    /\ \A n \in Nodes : TrueLocks(grapher[n])
    /\ Owned(grapher[coordinator])
    /\ Kept(grapher[coordinator].create, grapher[coordinator].spend,
            grapher[coordinator].visible, indexed[coordinator])

\* The same of the locks in a Closing heartbeat.
HeartbeatInv ==
    heartbeat.sent =>
        /\ TrueSpend(heartbeat.spend) /\ TrueCreate(heartbeat.create)
        /\ Kept(heartbeat.create, heartbeat.spend, heartbeat.states, indexed[coordinator])
        /\ \A s \in heartbeat.states : heartbeat.spend[s] = NoLock

\* Without reads there are no read locks.
ReadInv ==
    NoReads =>
        /\ \A n \in Nodes : \A s \in States : grapher[n].read[s] = NoLock
        /\ \A s \in States : heartbeat.read[s] = NoLock
        /\ \A t \in Txs : post[t].read = {}

\* The transaction under assembly sees everything that is spent, in the view or
\* in blocks its originator has indexed.
ViewInv ==
    \A t \in Txs :
        /\ phase[t] \in {"requested", "assembling"} =>
              \A u \in Live : view.candidates \cap post[u].in = {}
        /\ phase[t] = "requested" =>
              \A u \in Live : \A s \in post[u].in :
                  \/ s \in view.spent
                  \/ minedAt[u] # 0 /\ minedAt[u] + Tolerance <= view.height
        /\ phase[t] = "assembling" =>
              \A u \in Live : \A s \in post[u].in :
                  \/ s \in view.spent
                  \/ minedAt[u] # 0 /\ minedAt[u] <= indexed[Origin[t]]
        /\ phase[t] = "answered" => \A u \in Live : post[t].in \cap post[u].in = {}

TxInv == PhaseInv /\ MintInv /\ LedgerInv /\ RoleInv
GrapherInv == KnownInv /\ LockInv /\ HeartbeatInv /\ ReadInv /\ VisibleIsCreateLocked
IInv == TypeOK /\ TxInv /\ GrapherInv /\ DisjointInputs /\ ViewInv

============================================================================
