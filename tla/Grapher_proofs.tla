--------------------------- MODULE Grapher_proofs ---------------------------
(***************************************************************************)
(* Lemmas about one state and about the operators of the grapher.  Then    *)
(* every step preserves the inductive invariant of Grapher: the assembly,  *)
(* what has a transaction forgotten (it is assembled again, fails or       *)
(* reverts), the dispatch and the blocks of the base ledger, confirmations,*)
(* heartbeats and the handover.  Then the theorems: the view of states     *)
(* ahead of chain is exact, and no two transactions spend the same state,  *)
(* for any number of nodes, transactions, states and blocks.               *)
(***************************************************************************)
EXTENDS Grapher_invariant, TLAPS

-----------------------------------------------------------------------------
(* What the operations of the grapher do, field by field.                   *)

\* A lock that is not NoLock has an owner or was left by a confirmation.
LEMMA LockKinds ==
    \A l \in Locks : /\ l = NoLock <=> l.tx = NoTx /\ ~Confirmed(l)
                     /\ Confirmed(l) => l.tx = NoTx /\ l.at \in Nat \ {0}
  BY DEF Locks, NoLock, Confirmed

\* The fields of a grapher.
LEMMA GrapherFields ==
    ASSUME NEW G \in Graphers
    PROVE  /\ G.known \subseteq Txs /\ G.visible \subseteq States
           /\ G.links \subseteq Txs \X Txs
           /\ \A s \in States : /\ G.minter[s] \in Txs \cup {NoTx}
                                /\ G.create[s] \in Locks
                                /\ G.spend[s] \in Locks
                                /\ G.read[s] \in Locks
  BY Zenon DEF Graphers, LockMaps

\* ForgetConfirmedLocks drops expired locks and their private data.
LEMMA PruneFields ==
    ASSUME NEW G \in Graphers, NEW h \in Nat, NEW H, H = ForgetConfirmedLocks(G, h)
    PROVE  /\ H \in Graphers
           /\ H.known = G.known /\ H.minter = G.minter /\ H.links = G.links
           /\ H.visible = {s \in G.visible : ~Expired(G.create[s], h)}
           /\ \A s \in States :
                 /\ H.create[s] = IF Expired(G.create[s], h) THEN NoLock ELSE G.create[s]
                 /\ H.spend[s] = IF Expired(G.spend[s], h) THEN NoLock ELSE G.spend[s]
                 /\ H.read[s] = IF Expired(G.read[s], h) THEN NoLock ELSE G.read[s]
<1>1. NoLock \in Locks
  BY Zenon DEF Locks, NoLock
<1>2. \A map \in LockMaps :
         /\ Prune(map, h) \in LockMaps
         /\ \A s \in States : Prune(map, h)[s] = IF Expired(map[s], h) THEN NoLock ELSE map[s]
  BY Zenon, <1>1 DEF Prune, LockMaps
<1> DEFINE c == Prune(G.create, h)
           p == Prune(G.spend, h)
           r == Prune(G.read, h)
           v == {s \in G.visible : ~Expired(G.create[s], h)}
<1>3. H = [G EXCEPT !.create = c, !.spend = p, !.read = r, !.visible = v]
  BY Zenon DEF ForgetConfirmedLocks
<1>4. G.create \in LockMaps /\ G.spend \in LockMaps /\ G.read \in LockMaps
  BY Zenon DEF Graphers
<1>5. c \in LockMaps /\ p \in LockMaps /\ r \in LockMaps /\ v \in SUBSET States
  BY Zenon, <1>2, <1>4, GrapherFields
<1> HIDE DEF c, p, r, v
<1>6. /\ H.create = c /\ H.spend = p /\ H.read = r /\ H.visible = v
      /\ H.known = G.known /\ H.minter = G.minter /\ H.links = G.links /\ H \in Graphers
  BY Zenon, <1>3, <1>5 DEF Graphers
<1> QED
  BY <1>2, <1>4, <1>6 DEF c, p, r, v

\* ForgetTransactionAndLocks drops the locks of known transactions by state.
Forgets(G, H, T) ==
    /\ H \in Graphers
    /\ H.known = G.known \ T
    /\ H.visible = G.visible \ CreatedBy(G, T)
    /\ H.links = {l \in G.links : l[1] \notin T /\ l[2] \notin T}
    /\ \A s \in States :
          /\ H.minter[s] = IF G.minter[s] \in T THEN NoTx ELSE G.minter[s]
          /\ H.create[s] = IF s \in CreatedBy(G, T) THEN NoLock ELSE G.create[s]
          /\ H.spend[s] = IF s \in SpentBy(G, T) THEN NoLock ELSE G.spend[s]
          /\ H.read[s] = IF s \in ReadBy(G, T) THEN NoLock ELSE G.read[s]

LEMMA ForgetNothing ==
    ASSUME NEW G \in Graphers
    PROVE  Forgets(G, G, {})
  BY Zenon, GrapherFields DEF Forgets, CreatedBy, SpentBy, ReadBy

LEMMA ForgetFields ==
    ASSUME NEW G \in Graphers, NEW T, NEW H, H = ForgetTransactionAndLocks(G, T)
    PROVE  Forgets(G, H, T)
<1>1. NoLock \in Locks
  BY Zenon DEF Locks, NoLock
<1>2. \A map \in LockMaps : \A S :
         /\ Unlock(map, S) \in LockMaps
         /\ \A s \in States : Unlock(map, S)[s] = IF s \in S THEN NoLock ELSE map[s]
  BY Zenon, <1>1 DEF Unlock, LockMaps
<1> DEFINE k == G.known \ T
           m == [s \in States |-> IF G.minter[s] \in T THEN NoTx ELSE G.minter[s]]
           l == {e \in G.links : e[1] \notin T /\ e[2] \notin T}
           c == Unlock(G.create, CreatedBy(G, T))
           p == Unlock(G.spend, SpentBy(G, T))
           r == Unlock(G.read, ReadBy(G, T))
           v == G.visible \ CreatedBy(G, T)
<1>4. G.create \in LockMaps /\ G.spend \in LockMaps /\ G.read \in LockMaps
  BY Zenon DEF Graphers
<1>5. /\ c \in LockMaps /\ p \in LockMaps /\ r \in LockMaps /\ v \in SUBSET States
      /\ k \in SUBSET Txs /\ m \in [States -> Txs \cup {NoTx}] /\ l \in SUBSET (Txs \X Txs)
  BY <1>2, <1>4, GrapherFields
<1>3. H = [G EXCEPT !.known = k, !.minter = m, !.links = l,
                    !.create = c, !.spend = p, !.read = r, !.visible = v]
  <2> DEFINE F == ForgetTxMints(G, T)
  <2>1. F = [G EXCEPT !.known = k, !.minter = m, !.links = l]
    BY Zenon DEF ForgetTxMints
  <2>2. H = [F EXCEPT !.create = Unlock(F.create, CreatedBy(G, T)),
                      !.spend = Unlock(F.spend, SpentBy(G, T)),
                      !.read = Unlock(F.read, ReadBy(G, T)),
                      !.visible = F.visible \ CreatedBy(G, T)]
    BY Zenon DEF ForgetTransactionAndLocks
  <2> HIDE DEF F, k, m, l
  <2>3. F.create = G.create /\ F.spend = G.spend /\ F.read = G.read /\ F.visible = G.visible
    BY Zenon, <2>1 DEF Graphers
  <2>4. H = [F EXCEPT !.create = c, !.spend = p, !.read = r, !.visible = v]
    BY Zenon, <2>2, <2>3
  <2> HIDE DEF c, p, r, v
  <2> QED
    BY Zenon, <2>1, <2>4 DEF Graphers
<1> HIDE DEF k, m, l, c, p, r, v
<1>6. /\ H.create = c /\ H.spend = p /\ H.read = r /\ H.visible = v
      /\ H.known = k /\ H.minter = m /\ H.links = l /\ H \in Graphers
  BY Zenon, <1>3, <1>5 DEF Graphers
<1> QED
  BY <1>2, <1>4, <1>6 DEF Forgets, k, m, l, c, p, r, v

\* ForgetTransaction replaces the owner of its locks by the block.
LEMMA ConfirmFields ==
    ASSUME NEW G \in Graphers, NEW t \in Txs, NEW h \in Nat, NEW H, H = ForgetTransaction(G, t, h)
    PROVE  /\ H \in Graphers
           /\ H.known = G.known \ {t}
           /\ H.visible = G.visible
           /\ H.links = {l \in G.links : l[1] # t /\ l[2] # t}
           /\ \A s \in States :
                 /\ H.minter[s] = IF G.minter[s] = t THEN NoTx ELSE G.minter[s]
                 /\ H.create[s] = IF G.create[s].tx = t THEN [tx |-> NoTx, at |-> h] ELSE G.create[s]
                 /\ H.spend[s] = IF G.spend[s].tx = t THEN [tx |-> NoTx, at |-> h] ELSE G.spend[s]
                 /\ H.read[s] = IF G.read[s].tx = t THEN [tx |-> NoTx, at |-> h] ELSE G.read[s]
<1>1. [tx |-> NoTx, at |-> h] \in Locks
  BY Zenon DEF Locks
<1>2. \A map \in LockMaps :
         /\ Confirm(map, t, h) \in LockMaps
         /\ \A s \in States : Confirm(map, t, h)[s] =
                                 IF map[s].tx = t THEN [tx |-> NoTx, at |-> h] ELSE map[s]
  BY Zenon, <1>1 DEF Confirm, LockMaps
<1> DEFINE k == G.known \ {t}
           m == [s \in States |-> IF G.minter[s] \in {t} THEN NoTx ELSE G.minter[s]]
           l == {e \in G.links : e[1] \notin {t} /\ e[2] \notin {t}}
           c == Confirm(G.create, t, h)
           p == Confirm(G.spend, t, h)
           r == Confirm(G.read, t, h)
           v == G.visible
<1>4. G.create \in LockMaps /\ G.spend \in LockMaps /\ G.read \in LockMaps
  BY Zenon DEF Graphers
<1>5. /\ c \in LockMaps /\ p \in LockMaps /\ r \in LockMaps /\ v \in SUBSET States
      /\ k \in SUBSET Txs /\ m \in [States -> Txs \cup {NoTx}] /\ l \in SUBSET (Txs \X Txs)
  BY Zenon, <1>2, <1>4, GrapherFields
<1>3. H = [G EXCEPT !.known = k, !.minter = m, !.links = l,
                    !.create = c, !.spend = p, !.read = r, !.visible = v]
  <2> DEFINE F == ForgetTxMints(G, {t})
  <2>1. F = [G EXCEPT !.known = k, !.minter = m, !.links = l]
    BY Zenon DEF ForgetTxMints
  <2>2. H = [F EXCEPT !.create = Confirm(F.create, t, h),
                      !.spend = Confirm(F.spend, t, h),
                      !.read = Confirm(F.read, t, h)]
    BY Zenon DEF ForgetTransaction
  <2> HIDE DEF F, k, m, l
  <2>3. F.create = G.create /\ F.spend = G.spend /\ F.read = G.read
    BY Zenon, <2>1 DEF Graphers
  <2>4. H = [F EXCEPT !.create = c, !.spend = p, !.read = r]
    BY Zenon, <2>2, <2>3
  <2> HIDE DEF c, p, r
  <2> QED
    BY Zenon, <2>1, <2>4 DEF Graphers
<1> HIDE DEF k, m, l, c, p, r, v
<1>6. /\ H.create = c /\ H.spend = p /\ H.read = r /\ H.visible = v
      /\ H.known = k /\ H.minter = m /\ H.links = l /\ H \in Graphers
  BY Zenon, <1>3, <1>5 DEF Graphers
<1> QED
  BY <1>2, <1>4, <1>6 DEF k, m, l, c, p, r, v

\* applyPostAssembly adds a transaction with its locks, and links it to the
\* known minters of what it needs.
LEMMA AddFields ==
    ASSUME NEW G \in Graphers, NEW t \in Txs, NEW p \in Assemblies, NEW H,
           H = LockMintsOnReadAndSpend(LockMintsOnCreate(AddMinter(G, t, p.out), t, p.out),
                                       t, p.read, p.in)
    PROVE  /\ H \in Graphers
           /\ H.known = G.known \cup {t}
           /\ H.visible = G.visible \cup p.out
           /\ \A s \in States :
                 /\ H.minter[s] = IF s \in p.out THEN t ELSE G.minter[s]
                 /\ H.create[s] = IF s \in p.out THEN [tx |-> t, at |-> 0] ELSE G.create[s]
                 /\ H.spend[s] = IF s \in p.in THEN [tx |-> t, at |-> 0] ELSE G.spend[s]
                 /\ H.read[s] = IF s \in p.read THEN [tx |-> t, at |-> 0] ELSE G.read[s]
           /\ \A d, u \in Txs : <<d, u>> \in H.links =>
                 \/ <<d, u>> \in G.links
                 \/ d = t /\ \E s \in p.read \cup p.in : H.minter[s] = u
<1> DEFINE minter == [s \in States |-> IF s \in p.out THEN t ELSE G.minter[s]]
           new == {<<t, minter[s]>> : s \in {s \in p.read \cup p.in : minter[s] # NoTx}}
<1>0. p.in \subseteq States /\ p.read \subseteq States /\ p.out \subseteq States
  BY Zenon DEF Assemblies
<1>1. [tx |-> t, at |-> 0] \in Locks
  BY Zenon DEF Locks
<1>2. \A map \in LockMaps : \A S :
         /\ Lock(map, S, t) \in LockMaps
         /\ \A s \in States : Lock(map, S, t)[s] =
                                 IF s \in S THEN [tx |-> t, at |-> 0] ELSE map[s]
  BY Zenon, <1>1 DEF Lock, LockMaps
<1> DEFINE k == G.known \cup {t}
           l == G.links \cup new
           c == Lock(G.create, p.out, t)
           q == Lock(G.spend, p.in, t)
           r == Lock(G.read, p.read, t)
           v == G.visible \cup p.out
<1>4. minter \in [States -> Txs \cup {NoTx}]
  BY Zenon, GrapherFields
<1>5. new \subseteq Txs \X Txs
  <2>1. \A s \in p.read \cup p.in : minter[s] # NoTx => minter[s] \in Txs
    BY Zenon, <1>0, <1>4
  <2> HIDE DEF minter
  <2> QED
    BY <2>1
<1>6. G.create \in LockMaps /\ G.spend \in LockMaps /\ G.read \in LockMaps
  BY Zenon DEF Graphers
<1>7. /\ c \in LockMaps /\ q \in LockMaps /\ r \in LockMaps /\ v \in SUBSET States
      /\ k \in SUBSET Txs /\ l \in SUBSET (Txs \X Txs)
  BY SMTT(40), <1>0, <1>2, <1>5, <1>6, GrapherFields
<1>3. H = [G EXCEPT !.known = k, !.minter = minter, !.links = l,
                    !.create = c, !.spend = q, !.read = r, !.visible = v]
  <2> DEFINE A == AddMinter(G, t, p.out)
             B == LockMintsOnCreate(A, t, p.out)
  <2>1. A = [G EXCEPT !.known = k, !.minter = minter]
    BY Zenon DEF AddMinter
  <2>2. B = [A EXCEPT !.visible = A.visible \cup p.out, !.create = Lock(A.create, p.out, t)]
    BY Zenon DEF LockMintsOnCreate
  <2>3. H = [B EXCEPT !.read = Lock(B.read, p.read, t), !.spend = Lock(B.spend, p.in, t),
                !.links = B.links \cup
                   {<<t, B.minter[s]>> : s \in {s \in p.read \cup p.in : B.minter[s] # NoTx}}]
    BY Zenon DEF LockMintsOnReadAndSpend
  <2> HIDE DEF A, B, k, minter, new
  <2>4. A.visible = G.visible /\ A.create = G.create
    BY Zenon, <2>1 DEF Graphers
  <2>5. B = [A EXCEPT !.visible = v, !.create = c]
    BY Zenon, <2>2, <2>4
  <2> HIDE DEF v, c
  <2>6. B = [G EXCEPT !.known = k, !.minter = minter, !.create = c, !.visible = v]
    BY Zenon, <2>1, <2>5 DEF Graphers
  <2>7. B.read = G.read /\ B.spend = G.spend /\ B.links = G.links /\ B.minter = minter
    BY Zenon, <2>6 DEF Graphers
  <2>8. H = [B EXCEPT !.read = r, !.spend = q, !.links = l]
    BY Zenon, <2>3, <2>7 DEF new
  <2> HIDE DEF r, q, l
  <2> QED
    BY Zenon, <2>6, <2>8 DEF Graphers
<1>8. \A d, u \in Txs : <<d, u>> \in l =>
                 \/ <<d, u>> \in G.links
                 \/ d = t /\ \E s \in p.read \cup p.in : minter[s] = u
  BY Zenon
<1> HIDE DEF k, minter, l, c, q, r, v
<1>9. /\ H.create = c /\ H.spend = q /\ H.read = r /\ H.visible = v
      /\ H.known = k /\ H.minter = minter /\ H.links = l /\ H \in Graphers
  BY Zenon, <1>3, <1>4, <1>7 DEF Graphers
<1>10. \A s \in States :
          /\ minter[s] = IF s \in p.out THEN t ELSE G.minter[s]
          /\ c[s] = IF s \in p.out THEN [tx |-> t, at |-> 0] ELSE G.create[s]
          /\ q[s] = IF s \in p.in THEN [tx |-> t, at |-> 0] ELSE G.spend[s]
          /\ r[s] = IF s \in p.read THEN [tx |-> t, at |-> 0] ELSE G.read[s]
  BY <1>2, <1>6 DEF minter, c, q, r
<1> QED
  BY Zenon, <1>8, <1>9, <1>10 DEF k, v

\* ImportStatesAndLocks, when the heartbeat holds no read locks: a confirmed
\* lock is imported where there was none, a create lock only of an unspent
\* state.
LEMMA ImportFields ==
    ASSUME NEW G \in Graphers, NEW hb \in Snapshots, NEW n \in Nodes, NEW H,
           H = ImportStatesAndLocks(G, hb, n),
           \A s \in States : hb.read[s] = NoLock
    PROVE  /\ H \in Graphers
           /\ H.known = G.known /\ H.minter = G.minter /\ H.links = G.links
           /\ \A s \in States :
                 /\ H.read[s] = G.read[s]
                 /\ H.spend[s] = IF G.spend[s] = NoLock /\ Confirmed(hb.spend[s])
                                 THEN hb.spend[s] ELSE G.spend[s]
                 /\ H.create[s] = IF /\ G.create[s] = NoLock
                                     /\ Confirmed(hb.create[s]) /\ ~Confirmed(hb.spend[s])
                                  THEN hb.create[s] ELSE G.create[s]
           /\ H.visible = G.visible \cup
                 {s \in hb.states : n \in Allowed[s]
                                    /\ (Confirmed(hb.spend[s]) \/ Confirmed(hb.create[s]))}
<1> DEFINE read == [s \in States |-> Confirmed(hb.read[s])]
           spend == [s \in States |-> Confirmed(hb.spend[s]) /\ ~read[s]]
           create == [s \in States |-> Confirmed(hb.create[s]) /\ ~read[s] /\ ~spend[s]]
           vis == {s \in hb.states : n \in Allowed[s] /\ (read[s] \/ spend[s] \/ create[s])}
<1>1. \A s \in States : ~read[s]
  <2>1. ~Confirmed(NoLock)
    BY Zenon DEF NoLock, Confirmed
  <2> QED
    BY Zenon, <2>1
<1>2. \A s \in States : spend[s] = Confirmed(hb.spend[s])
  BY Zenon, <1>1 DEF Confirmed
<1>3. \A s \in States : create[s] = (Confirmed(hb.create[s]) /\ ~Confirmed(hb.spend[s]))
  BY Zenon, <1>1, <1>2 DEF Confirmed
<1>4. \A old, new \in LockMaps : \A wins :
         /\ KeepOld(old, new, wins) \in LockMaps
         /\ \A s \in States : KeepOld(old, new, wins)[s] =
                                 IF old[s] = NoLock /\ wins[s] THEN new[s] ELSE old[s]
  BY Zenon DEF KeepOld, LockMaps
<1> DEFINE c == KeepOld(G.create, hb.create, create)
           p == KeepOld(G.spend, hb.spend, spend)
           r == KeepOld(G.read, hb.read, read)
           v == G.visible \cup vis
<1>5. H = [G EXCEPT !.create = c, !.spend = p, !.read = r, !.visible = v]
  BY Zenon DEF ImportStatesAndLocks
<1>6. /\ hb.states \subseteq States /\ hb.create \in LockMaps /\ hb.spend \in LockMaps
      /\ hb.read \in LockMaps
  BY Zenon DEF Snapshots
<1>7. vis = {s \in hb.states : n \in Allowed[s]
                               /\ (Confirmed(hb.spend[s]) \/ Confirmed(hb.create[s]))}
  BY Zenon, <1>1, <1>2, <1>3, <1>6
<1> HIDE DEF read, spend, create, vis
<1>8. G.create \in LockMaps /\ G.spend \in LockMaps /\ G.read \in LockMaps
  BY Zenon DEF Graphers
<1>9. c \in LockMaps /\ p \in LockMaps /\ r \in LockMaps /\ v \in SUBSET States
  BY Zenon, <1>4, <1>6, <1>7, <1>8, GrapherFields
<1>10. \A s \in States :
          /\ c[s] = IF G.create[s] = NoLock /\ create[s] THEN hb.create[s] ELSE G.create[s]
          /\ p[s] = IF G.spend[s] = NoLock /\ spend[s] THEN hb.spend[s] ELSE G.spend[s]
          /\ r[s] = G.read[s]
  BY SMTT(40), <1>1, <1>4, <1>6, <1>8
<1> HIDE DEF c, p, r
<1>11. /\ H.create = c /\ H.spend = p /\ H.read = r /\ H.visible = v
       /\ H.known = G.known /\ H.minter = G.minter /\ H.links = G.links /\ H \in Graphers
  <2> HIDE DEF v
  <2> QED
    BY Zenon, <1>5, <1>9 DEF Graphers
<1> QED
  BY Zenon, <1>2, <1>3, <1>7, <1>10, <1>11

-----------------------------------------------------------------------------
(* What follows from the invariant in one state.                            *)

LEMMA TypeFacts ==
    ASSUME TypeOK
    PROVE  /\ coordinator \in Nodes /\ heartbeat.sent \in BOOLEAN
           /\ \A n \in Nodes : grapher[n] \in Graphers /\ indexed[n] \in Nat /\ indexed[n] <= height
           /\ \A t \in Txs : /\ minedAt[t] \in Nat /\ minedAt[t] <= height
                             /\ post[t] \in Assemblies
                             /\ post[t].in \subseteq States /\ post[t].read \subseteq States
                             /\ post[t].out \subseteq States
  BY DEF TypeOK, Assemblies, Snapshots

\* The transactions that count are the known and the confirmed ones.
LEMMA LiveFacts ==
    ASSUME TypeOK, PhaseInv, KnownInv
    PROVE  /\ \A u : u \in Live <=> \/ u \in grapher[coordinator].known
                                    \/ u \in Txs /\ minedAt[u] # 0
           /\ \A u : u \in Live <=> \/ u \in grapher[coordinator].known
                                    \/ u \in ConfirmedTxs
           /\ \A u \in ConfirmedTxs : u \in Txs /\ minedAt[u] # 0
           /\ Live \subseteq Txs
<1> USE TypeFacts
<1>1. grapher[coordinator].known \subseteq Txs
  BY Zenon, GrapherFields
<1>2. \A u : u \in Live <=> u \in grapher[coordinator].known \/ (u \in Txs /\ minedAt[u] # 0)
  BY Zenon DEF Live, MinedBy
<1>3. \A u \in Txs : phase[u] = "mined" => u \in grapher[coordinator].known
  BY Zenon DEF KnownInv, Processing
<1> QED
  BY Zenon, <1>1, <1>2, <1>3 DEF PhaseInv, ConfirmedTxs

\* A state spent ahead of chain has a spend lock, or was spent in a block that
\* is Tolerance old.
LEMMA SpentIsSeen ==
    ASSUME TypeOK, PhaseInv, KnownInv, LockInv, DisjointInputs,
           NEW H, H = ForgetConfirmedLocks(grapher[coordinator], indexed[coordinator]),
           NEW u \in Live, NEW s \in post[u].in
    PROVE  \/ H.spend[s] # NoLock
           \/ /\ u \in ConfirmedTxs
              /\ minedAt[u] # 0
              /\ minedAt[u] + Tolerance <= indexed[coordinator]
<1> DEFINE G == grapher[coordinator]
           h == indexed[coordinator]
<1>1. G \in Graphers /\ h \in Nat /\ u \in Txs /\ s \in States /\ G.spend[s] \in Locks
      /\ minedAt[u] \in Nat
  BY Zenon, TypeFacts, LiveFacts, GrapherFields
<1>2. H.spend[s] = IF Expired(G.spend[s], h) THEN NoLock ELSE G.spend[s]
  BY SMTT(40), <1>1, PruneFields
<1>3. CASE u \in G.known
  BY <1>1, <1>2, <1>3, TxsAssumption DEF LockInv, Owned, Expired, Confirmed, NoLock
<1>4. CASE u \in ConfirmedTxs
  <2>1. Confirmed(G.spend[s]) \/ minedAt[u] + Tolerance <= h
    BY <1>1, <1>4, BoundsAssumption DEF LockInv, Kept
  <2>2. CASE Confirmed(G.spend[s])
    <3>1. PICK w \in ConfirmedTxs : minedAt[w] = G.spend[s].at /\ s \in post[w].in
      BY Zenon, <2>2, <1>1, TypeFacts DEF LockInv, TrueLocks, TrueSpend
    <3>2. w = u
      BY Zenon, <3>1, LiveFacts DEF DisjointInputs
    <3> QED
      BY Zenon, <1>1, <1>2, <1>4, <2>2, <3>1, <3>2, LiveFacts, LockKinds, BoundsAssumption DEF Expired
  <2> QED
    BY Zenon, <2>1, <2>2, <1>4, LiveFacts
<1> QED
  BY Zenon, <1>3, <1>4, LiveFacts

\* A spend lock is on a state that is spent ahead of chain.
LEMMA LockedIsSpent ==
    ASSUME TypeOK, PhaseInv, KnownInv, LockInv,
           NEW H, H = ForgetConfirmedLocks(grapher[coordinator], indexed[coordinator]),
           NEW s \in States, H.spend[s] # NoLock
    PROVE  \E u \in Live : s \in post[u].in
<1> DEFINE G == grapher[coordinator]
           h == indexed[coordinator]
<1>1. G \in Graphers /\ h \in Nat /\ G.spend[s] \in Locks
  BY Zenon, TypeFacts, GrapherFields
<1>2. G.spend[s] # NoLock
  BY <1>1, PruneFields
<1>3. Held(G) /\ TrueSpend(G.spend)
  BY Zenon, TypeFacts DEF LockInv, TrueLocks
<1>4. CASE G.spend[s].tx # NoTx
  BY Zenon, <1>3, <1>4, LiveFacts DEF Held
<1>5. CASE Confirmed(G.spend[s])
  BY Zenon, <1>3, <1>5, LiveFacts DEF TrueSpend
<1> QED
  BY Zenon, <1>1, <1>2, <1>4, <1>5, LockKinds

\* A create lock is on a state that is created ahead of chain.
LEMMA CreateLocked ==
    ASSUME TypeOK, PhaseInv, KnownInv, LockInv,
           NEW H, H = ForgetConfirmedLocks(grapher[coordinator], indexed[coordinator]),
           NEW s \in States, H.create[s] # NoLock
    PROVE  \E u \in Live : /\ s \in post[u].out
                           /\ \/ u \in grapher[coordinator].known
                              \/ minedAt[u] + Tolerance > indexed[coordinator]
<1> DEFINE G == grapher[coordinator]
           h == indexed[coordinator]
<1>1. G \in Graphers /\ h \in Nat /\ G.create[s] \in Locks
  BY Zenon, TypeFacts, GrapherFields
<1>2. G.create[s] # NoLock /\ ~Expired(G.create[s], h)
  BY <1>1, PruneFields
<1>3. Held(G) /\ TrueCreate(G.create)
  BY Zenon, TypeFacts DEF LockInv, TrueLocks
<1>4. CASE G.create[s].tx # NoTx
  BY Zenon, <1>3, <1>4, LiveFacts DEF Held
<1>5. CASE Confirmed(G.create[s])
  <2>1. PICK u \in ConfirmedTxs : minedAt[u] = G.create[s].at /\ s \in post[u].out
    BY Zenon, <1>3, <1>5 DEF TrueCreate
  <2>2. minedAt[u] + Tolerance > h
    BY <1>1, <1>2, <1>5, <2>1, LockKinds, BoundsAssumption DEF Expired
  <2> QED
    BY Zenon, <2>1, <2>2, LiveFacts
<1> QED
  BY Zenon, <1>1, <1>2, <1>4, <1>5, LockKinds

\* No candidate is spent: it is on chain only when its create lock is there for
\* Tolerance blocks from then on, and it is spent in a later block.
LEMMA CandidatesUnspent ==
    ASSUME TypeOK, TxInv, KnownInv, LockInv, DisjointInputs,
           NEW H, H = ForgetConfirmedLocks(grapher[coordinator], indexed[coordinator]),
           NEW u \in Live, NEW s \in post[u].in,
           H.spend[s] = NoLock, H.create[s] # NoLock
    PROVE  FALSE
<1> USE DEF TxInv
<1>1. u \in Txs /\ s \in States
  BY Zenon, TypeFacts, LiveFacts
<1>2. u \in ConfirmedTxs /\ minedAt[u] # 0 /\ minedAt[u] + Tolerance <= indexed[coordinator]
  BY Zenon, SpentIsSeen
<1>3. PICK w \in Live : /\ s \in post[w].out
                        /\ \/ w \in grapher[coordinator].known
                           \/ minedAt[w] + Tolerance > indexed[coordinator]
  BY Zenon, <1>1, CreateLocked
<1>4. w \in Txs
  BY Zenon, LiveFacts
<1>5. minedAt[w] # 0 /\ minedAt[w] <= minedAt[u]
  <2>1. s \notin Genesis
    BY Zenon, <1>3, <1>4 DEF MintInv
  <2>2. s \in Needs(u)
    BY Zenon DEF Needs
  <2>3. PICK x \in Txs : minedAt[x] # 0 /\ minedAt[x] <= minedAt[u] /\ s \in post[x].out
    BY Zenon, <1>1, <1>2, <2>1, <2>2 DEF LedgerInv
  <2>4. x = w
    BY Zenon, <1>3, <1>4, <2>3 DEF MintInv
  <2> QED
    BY Zenon, <2>3, <2>4
<1>6. CASE w \in grapher[coordinator].known
  <2>1. phase[w] = "mined"
    BY Zenon, <1>4, <1>5, <1>6 DEF PhaseInv, KnownInv, Processing
  <2> QED
    BY Zenon, <1>1, <1>2, <1>3, <1>4, <2>1 DEF LedgerInv, ConfirmedTxs
<1>7. CASE minedAt[w] + Tolerance > indexed[coordinator]
  BY <1>1, <1>2, <1>4, <1>5, <1>7, TypeFacts, BoundsAssumption
<1> QED
  BY Zenon, <1>3, <1>6, <1>7

\* The inductive invariant makes the view exact.
LEMMA ExactView ==
    ASSUME IInv
    PROVE  ViewIsExact
<1> USE DEF IInv, TxInv, GrapherInv
<1> DEFINE G == grapher[coordinator]
           h == indexed[coordinator]
           H == ForgetConfirmedLocks(G, h)
<1>0. G \in Graphers /\ h \in Nat
  BY Zenon, TypeFacts
<1> SUFFICES ASSUME NEW n \in Nodes, indexed[n] - h \in -Tolerance .. Tolerance
             PROVE  Selectable(n, SnapshotView(H, n)) = Available(n)
  BY Zenon DEF ViewIsExact
<1> DEFINE v == SnapshotView(H, n)
<1>1. /\ indexed[n] \in Nat /\ indexed[n] <= height
      /\ \A m \in Nat : m + Tolerance <= h => m <= indexed[n]
  BY <1>0, TypeFacts, BoundsAssumption
<1>2. /\ H.visible = {s \in G.visible : ~Expired(G.create[s], h)}
      /\ \A s \in States :
            /\ H.create[s] = IF Expired(G.create[s], h) THEN NoLock ELSE G.create[s]
            /\ H.spend[s] = IF Expired(G.spend[s], h) THEN NoLock ELSE G.spend[s]
  BY <1>0, PruneFields
<1> HIDE DEF H
<1>3. /\ v.spent = {s \in States : H.spend[s] # NoLock}
      /\ v.candidates = {s \in H.visible : /\ n \in Allowed[s] /\ H.create[s] # NoLock
                                           /\ H.spend[s] = NoLock}
  BY Zenon DEF SnapshotView
<1>4. H.visible \subseteq States
  BY Zenon, <1>0, <1>2, GrapherFields
<1> DEFINE mine == MinedBy(indexed[n])
<1>5. /\ mine \subseteq Live
      /\ \A u \in Txs : minedAt[u] # 0 /\ minedAt[u] + Tolerance <= h => u \in mine
  BY Zenon, <1>1, TypeFacts, LiveFacts DEF MinedBy
<1> HIDE DEF v, mine
<1>6. ASSUME NEW s \in Selectable(n, v)
      PROVE  s \in Available(n)
  <2>1. CASE s \in DbAvailable(n) \ v.spent
    <3>1. /\ s \in Genesis \cup Outputs(mine) /\ n \in Allowed[s]
          /\ s \notin Inputs(mine) /\ s \notin v.spent
      BY Zenon, <2>1 DEF DbAvailable, mine
    <3>2. s \in Genesis \cup Outputs(Live)
      BY Zenon, <3>1, <1>5 DEF Outputs
    <3>3. s \in States
      BY Zenon, <3>2, TypeFacts, LiveFacts, StatesAssumption DEF Outputs
    <3>4. ASSUME NEW u \in Live, s \in post[u].in
          PROVE  FALSE
      <4>1. H.spend[s] = NoLock
        BY Zenon, <3>1, <3>3, <1>3
      <4>2. u \in ConfirmedTxs /\ minedAt[u] # 0 /\ minedAt[u] + Tolerance <= h
        BY Zenon, <3>4, <4>1, SpentIsSeen DEF H
      <4> QED
        BY Zenon, <3>1, <3>4, <4>2, <1>5, LiveFacts DEF Inputs
    <3> QED
      BY Zenon, <3>1, <3>2, <3>4 DEF Available, Inputs
  <2>2. CASE s \in v.candidates
    <3>1. s \in States /\ n \in Allowed[s] /\ H.create[s] # NoLock /\ H.spend[s] = NoLock
      BY Zenon, <2>2, <1>3, <1>4
    <3>2. s \in Outputs(Live)
      BY Zenon, <3>1, CreateLocked DEF H, Outputs
    <3>3. \A u \in Live : s \notin post[u].in
      BY Zenon, <3>1, CandidatesUnspent DEF H
    <3> QED
      BY Zenon, <3>1, <3>2, <3>3 DEF Available, Inputs
  <2> QED
    BY Zenon, <2>1, <2>2 DEF Selectable
<1>7. ASSUME NEW s \in Available(n)
      PROVE  s \in Selectable(n, v)
  <2>1. /\ s \in Genesis \cup Outputs(Live) /\ n \in Allowed[s]
        /\ \A u \in Live : s \notin post[u].in
    BY Zenon DEF Available, Inputs
  <2>2. s \in States
    BY Zenon, <2>1, TypeFacts, LiveFacts, StatesAssumption DEF Outputs
  <2>3. H.spend[s] = NoLock /\ s \notin v.spent
    BY Zenon, <2>1, <2>2, <1>3, LockedIsSpent DEF H
  <2>4. s \notin Inputs(mine)
    BY Zenon, <2>1, <1>5 DEF Inputs
  <2>5. s \in Genesis \cup Outputs(mine) => s \in Selectable(n, v)
    BY Zenon, <2>1, <2>3, <2>4 DEF Selectable, DbAvailable, mine
  <2>6. CASE s \in Genesis
    BY Zenon, <2>5, <2>6
  <2>7. ASSUME NEW u \in Live, s \in post[u].out
        PROVE  s \in Selectable(n, v)
    <3>1. CASE minedAt[u] # 0 /\ minedAt[u] + Tolerance <= h
      BY Zenon, <2>5, <2>7, <3>1, <1>5, LiveFacts DEF Outputs
    <3>2. ASSUME s \in G.visible, G.create[s] # NoLock, ~Expired(G.create[s], h)
          PROVE  s \in Selectable(n, v)
      BY <3>2, <2>1, <2>2, <2>3, <1>2, <1>3 DEF Selectable
    <3>3. CASE u \in G.known
      <4>1. G.create[s].tx = u /\ s \in G.visible /\ u # NoTx
        BY Zenon, <2>7, <3>3, LiveFacts, TxsAssumption DEF LockInv, Owned
      <4> QED
        BY <3>2, <4>1 DEF Expired, Confirmed, NoLock
    <3>4. CASE u \in ConfirmedTxs /\ minedAt[u] + Tolerance > h
      <4>1. s \in G.visible /\ Confirmed(G.create[s])
        BY Zenon, <2>1, <2>7, <3>4, LiveFacts DEF LockInv, Kept
      <4>2. PICK w \in ConfirmedTxs : minedAt[w] = G.create[s].at /\ s \in post[w].out
        BY Zenon, <4>1, <2>2, TypeFacts DEF LockInv, TrueLocks, TrueCreate
      <4>3. w = u
        BY Zenon, <2>7, <3>4, <4>2, LiveFacts DEF MintInv
      <4>4. ~Expired(G.create[s], h) /\ G.create[s] # NoLock
        BY <3>4, <4>1, <4>2, <4>3, <1>0, TypeFacts, LiveFacts, BoundsAssumption
        DEF Expired, Confirmed, NoLock
      <4> QED
        BY Zenon, <3>2, <4>1, <4>4
    <3>5. minedAt[u] \in Nat /\ Tolerance \in Nat
      BY Zenon, TypeFacts, LiveFacts, BoundsAssumption
    <3> QED
      BY <3>1, <3>3, <3>4, <3>5, <1>0, LiveFacts
  <2> QED
    BY Zenon, <2>1, <2>6, <2>7 DEF Outputs
<1> QED
  BY Zenon, <1>6, <1>7 DEF v

\* Whom a reset of t reaches depends on t or on another that is reset with it.
LEMMA ToldIsLinked ==
    ASSUME NEW t \in Txs, NEW d \in Told(t)
    PROVE  \E u \in {t} \cup Tells(Told(t)) : <<d, u>> \in grapher[coordinator].links
<1> DEFINE links == grapher[coordinator].links
           S == {e \in Told(t) : \E u \in {t} \cup Tells(Told(t)) : <<e, u>> \in links}
<1>1. Told(t) \subseteq Txs /\ S \in SUBSET Txs
  BY Zenon DEF Told
<1>2. Dependents({t}) \subseteq S
  BY Zenon DEF Told, Dependents
<1>3. Dependents(Tells(S)) \subseteq S
  <2> SUFFICES ASSUME NEW e \in Dependents(Tells(S))
               PROVE  e \in S
    BY Zenon
  <2>1. PICK u \in Tells(S) : e \in Txs /\ <<e, u>> \in links
    BY Zenon DEF Dependents
  <2>2. u \in Tells(Told(t))
    BY Zenon, <2>1 DEF Tells
  <2>3. ASSUME NEW Q \in SUBSET Txs, Dependents({t}) \subseteq Q, Dependents(Tells(Q)) \subseteq Q
        PROVE  e \in Q
    <3>1. u \in Q /\ u \in Tells(Q)
      BY Zenon, <2>2, <2>3 DEF Told, Tells
    <3> QED
      BY Zenon, <2>1, <2>3, <3>1 DEF Dependents
  <2>4. e \in Told(t)
    BY Zenon, <2>1, <2>3 DEF Told
  <2> QED
    BY Zenon, <2>1, <2>2, <2>4
<1>4. d \in S
  <2> HIDE DEF S
  <2> QED
    BY Zenon, <1>1, <1>2, <1>3 DEF Told
<1> QED
  BY Zenon, <1>4

-----------------------------------------------------------------------------
(* What a step leaves alone.                                                *)

LEMMA LiveNext ==
    ASSUME TypeOK'
    PROVE  \A u : u \in Live' <=> \/ u \in grapher'[coordinator'].known
                                  \/ u \in Txs /\ minedAt'[u] # 0
  BY DEF TypeOK, Live, MinedBy

LEMMA TxFrame ==
    ASSUME TxInv, UNCHANGED <<txVars, roleVars, minedAt>>
    PROVE  TxInv'
  BY Zenon DEF TxInv, PhaseInv, MintInv, LedgerInv, RoleInv, UnderAssembly, Needs, txVars, roleVars

\* Neither the assemblies nor the confirmed transactions change.
LEMMA LocksFrame ==
    ASSUME LockInv, UNCHANGED <<post, minedAt, coordinator, indexed, grapher>>,
           ConfirmedTxs' = ConfirmedTxs
    PROVE  LockInv'
<1>1. ASSUME NEW n \in Nodes PROVE TrueLocks(grapher[n])'
  <2>1. Linked(grapher[n]) /\ Held(grapher[n])
        /\ TrueSpend(grapher[n].spend) /\ TrueCreate(grapher[n].create)
    BY Zenon DEF LockInv, TrueLocks
  <2>2. Linked(grapher[n])'
    BY Zenon, <2>1 DEF Linked, Needs
  <2>3. Held(grapher[n])'
    BY Zenon, <2>1 DEF Held
  <2>4. TrueSpend(grapher[n].spend)'
    BY Zenon, <2>1 DEF TrueSpend
  <2>5. TrueCreate(grapher[n].create)'
    BY Zenon, <2>1 DEF TrueCreate
  <2> QED
    BY Zenon, <2>2, <2>3, <2>4, <2>5 DEF TrueLocks
<1>2. Owned(grapher[coordinator])'
  BY Zenon DEF LockInv, Owned
<1>3. Kept(grapher[coordinator].create, grapher[coordinator].spend,
           grapher[coordinator].visible, indexed[coordinator])'
  BY Zenon DEF LockInv, Kept
<1> QED
  BY Zenon, <1>1, <1>2, <1>3 DEF LockInv

LEMMA LockFrame ==
    ASSUME LockInv, HeartbeatInv, ReadInv, VisibleIsCreateLocked,
           UNCHANGED <<post, minedAt, coordinator, indexed, heartbeat, grapher>>,
           ConfirmedTxs' = ConfirmedTxs
    PROVE  LockInv' /\ HeartbeatInv' /\ ReadInv' /\ VisibleIsCreateLocked'
<1>1. LockInv'
  BY Zenon, LocksFrame
<1>2. HeartbeatInv'
  BY Zenon DEF HeartbeatInv, TrueSpend, TrueCreate, Kept
<1> QED
  BY Zenon, <1>1, <1>2 DEF ReadInv, VisibleIsCreateLocked

\* No transaction becomes live, and what is under assembly was.
LEMMA ViewFrame ==
    ASSUME TypeOK, DisjointInputs, ViewInv,
           Live' \subseteq Live, Live \subseteq Txs, view' = view,
           \A u \in Live' : post'[u].in = post[u].in,
           \A u \in Live : minedAt[u] # 0 => minedAt'[u] = minedAt[u],
           \A n \in Nodes : indexed'[n] \in Nat /\ indexed[n] <= indexed'[n],
           \A t \in UnderAssembly' : phase'[t] = phase[t] /\ post'[t] = post[t]
    PROVE  DisjointInputs' /\ ViewInv'
<1>1. DisjointInputs'
  BY Zenon DEF DisjointInputs
<1>2. ViewInv'
  <2> SUFFICES ASSUME NEW t \in Txs
               PROVE  ViewInv!(t)'
    BY Zenon DEF ViewInv
  <2>1. t \in UnderAssembly' <=> phase'[t] \in {"requested", "assembling", "answered"}
    BY Zenon DEF UnderAssembly
  <2>2. phase'[t] \in {"requested", "assembling"} =>
              \A u \in Live' : view'.candidates \cap post'[u].in = {}
    BY Zenon, <2>1 DEF ViewInv
  <2>3. phase'[t] = "requested" =>
              \A u \in Live' : \A s \in post'[u].in :
                  \/ s \in view'.spent
                  \/ minedAt'[u] # 0 /\ minedAt'[u] + Tolerance <= view'.height
    BY Zenon, <2>1 DEF ViewInv
  <2>4. phase'[t] = "assembling" =>
              \A u \in Live' : \A s \in post'[u].in :
                  \/ s \in view'.spent
                  \/ minedAt'[u] # 0 /\ minedAt'[u] <= indexed'[Origin[t]]
    <3> SUFFICES ASSUME phase'[t] = "assembling",
                        NEW u \in Live', NEW s \in post'[u].in, s \notin view'.spent
                 PROVE  minedAt'[u] # 0 /\ minedAt'[u] <= indexed'[Origin[t]]
      BY Zenon
    <3>1. minedAt[u] # 0 /\ minedAt[u] <= indexed[Origin[t]] /\ minedAt'[u] = minedAt[u]
      BY Zenon, <2>1 DEF ViewInv
    <3>2. minedAt[u] \in Nat /\ indexed[Origin[t]] \in Nat /\ Origin[t] \in Nodes
      BY Zenon, TypeFacts, TxsAssumption
    <3> QED
      BY <3>1, <3>2
  <2>5. phase'[t] = "answered" => \A u \in Live' : post'[t].in \cap post'[u].in = {}
    BY Zenon, <2>1 DEF ViewInv
  <2> QED
    BY Zenon, <2>2, <2>3, <2>4, <2>5
<1> QED
  BY Zenon, <1>1, <1>2

\* Expiry keeps the locks that matter.
LEMMA PruneStep ==
    ASSUME TypeOK, PhaseInv, MintInv, KnownInv, LockInv, ReadInv, VisibleIsCreateLocked,
           DisjointInputs, NEW n \in Nodes,
           grapher' = [grapher EXCEPT ![n] = ForgetConfirmedLocks(grapher[n], indexed[n])],
           UNCHANGED <<post, minedAt, coordinator, indexed, heartbeat>>,
           ConfirmedTxs' = ConfirmedTxs
    PROVE  /\ grapher' \in [Nodes -> Graphers]
           /\ \A m \in Nodes : grapher'[m].known = grapher[m].known
           /\ LockInv' /\ ReadInv' /\ VisibleIsCreateLocked'
<1> DEFINE G == grapher[n]
           h == indexed[n]
           H == grapher'[n]
<1>1. G \in Graphers /\ h \in Nat /\ H = ForgetConfirmedLocks(G, h)
      /\ \A m \in Nodes \ {n} : grapher'[m] = grapher[m]
  BY Zenon, TypeFacts DEF TypeOK
<1>2. /\ H \in Graphers
      /\ H.known = G.known /\ H.minter = G.minter /\ H.links = G.links
      /\ H.visible = {s \in G.visible : ~Expired(G.create[s], h)}
      /\ \A s \in States :
            /\ H.create[s] = IF Expired(G.create[s], h) THEN NoLock ELSE G.create[s]
            /\ H.spend[s] = IF Expired(G.spend[s], h) THEN NoLock ELSE G.spend[s]
            /\ H.read[s] = IF Expired(G.read[s], h) THEN NoLock ELSE G.read[s]
  BY <1>1, PruneFields
<1>3. NoLock.tx = NoTx /\ ~Confirmed(NoLock)
  BY Zenon DEF NoLock, Confirmed
<1>4. grapher' \in [Nodes -> Graphers]
  BY Zenon, <1>1, <1>2 DEF TypeOK
<1>5. Linked(grapher[n])'
  BY SMTT(40), <1>2 DEF LockInv, TrueLocks, Linked, Needs
<1>6. Held(grapher[n])' /\ TrueSpend(grapher[n].spend)' /\ TrueCreate(grapher[n].create)'
  <2>1. Held(G) /\ TrueSpend(G.spend) /\ TrueCreate(G.create)
    BY Zenon DEF LockInv, TrueLocks
  <2>2. Held(grapher[n])'
    BY SMTT(40), <1>2, <1>3, <2>1 DEF Held
  <2>3. TrueSpend(grapher[n].spend)'
    BY SMTT(40), <1>2, <1>3, <2>1 DEF TrueSpend
  <2>4. TrueCreate(grapher[n].create)'
    BY SMTT(40), <1>2, <1>3, <2>1 DEF TrueCreate
  <2> QED
    BY Zenon, <2>2, <2>3, <2>4
<1>7. ASSUME NEW m \in Nodes, m # n PROVE TrueLocks(grapher[m])'
  BY SMTT(40), <1>1, <1>7 DEF LockInv, TrueLocks, Linked, Held, TrueSpend, TrueCreate, Needs
<1>8. Owned(grapher[coordinator])'
  <2> SUFFICES ASSUME NEW t \in grapher[coordinator].known
               PROVE  /\ \A s \in post[t].in : grapher'[coordinator].spend[s].tx = t
                      /\ \A s \in post[t].out : /\ grapher'[coordinator].create[s].tx = t
                                                /\ s \in grapher'[coordinator].visible
    BY <1>1, <1>2, TypeFacts DEF Owned
  <2>1. t \in Txs /\ t # NoTx
    BY Zenon, TypeFacts, GrapherFields, TxsAssumption
  <2> QED
    BY SMTT(40), <1>1, <1>2, <2>1, TypeFacts DEF LockInv, Owned, Expired, Confirmed
<1>9. Kept(grapher[coordinator].create, grapher[coordinator].spend,
           grapher[coordinator].visible, indexed[coordinator])'
  <2>1. CASE n # coordinator
    BY SMTT(40), <1>1, <2>1, TypeFacts DEF LockInv, Kept
  <2>2. CASE n = coordinator
    <3> SUFFICES ASSUME NEW t \in ConfirmedTxs, minedAt[t] + Tolerance > h
                 PROVE  /\ \A s \in post[t].in : Confirmed(H.spend[s])
                        /\ \A s \in post[t].out :
                              \/ \E u \in ConfirmedTxs : s \in post[u].in
                              \/ s \in H.visible /\ Confirmed(H.create[s])
      BY Zenon, <2>2 DEF Kept
    <3>1. /\ \A s \in post[t].in : Confirmed(G.spend[s])
          /\ \A s \in post[t].out : \/ \E u \in ConfirmedTxs : s \in post[u].in
                                    \/ s \in G.visible /\ Confirmed(G.create[s])
      BY Zenon, <2>2 DEF LockInv, Kept
    <3>2. t \in Txs /\ t \in Live /\ minedAt[t] \in Nat
      BY Zenon, LiveFacts, TypeFacts
    <3>3. ASSUME NEW s \in post[t].in
          PROVE  Confirmed(H.spend[s])
      <4>1. s \in States /\ Confirmed(G.spend[s])
        BY Zenon, <3>1, <3>2, TypeFacts
      <4>2. PICK w \in ConfirmedTxs : minedAt[w] = G.spend[s].at /\ s \in post[w].in
        BY Zenon, <4>1 DEF LockInv, TrueLocks, TrueSpend
      <4>3. w = t
        BY Zenon, <3>2, <4>2, LiveFacts DEF DisjointInputs
      <4>4. ~Expired(G.spend[s], h)
        BY SMTT(40), <1>1, <3>2, <4>2, <4>3, BoundsAssumption DEF Expired
      <4> QED
        BY Zenon, <1>2, <4>1, <4>4
    <3>4. ASSUME NEW s \in post[t].out, s \in G.visible, Confirmed(G.create[s])
          PROVE  s \in H.visible /\ Confirmed(H.create[s])
      <4>1. s \in States
        BY Zenon, <3>2, TypeFacts
      <4>2. PICK w \in ConfirmedTxs : minedAt[w] = G.create[s].at /\ s \in post[w].out
        BY Zenon, <4>1, <3>4 DEF LockInv, TrueLocks, TrueCreate
      <4>3. w = t
        BY Zenon, <3>2, <4>2, LiveFacts DEF MintInv
      <4>4. ~Expired(G.create[s], h)
        BY SMTT(40), <1>1, <3>2, <4>2, <4>3, BoundsAssumption DEF Expired
      <4> QED
        BY Zenon, <1>2, <3>4, <4>1, <4>4
    <3> QED
      BY Zenon, <3>1, <3>3, <3>4
  <2> QED
    BY Zenon, <2>1, <2>2
<1>10. LockInv'
  BY Zenon, <1>5, <1>6, <1>7, <1>8, <1>9 DEF LockInv, TrueLocks
<1>11. ReadInv' /\ VisibleIsCreateLocked'
  BY <1>1, <1>2, GrapherFields DEF ReadInv, VisibleIsCreateLocked
<1> QED
  BY Zenon, <1>1, <1>2, <1>4, <1>10, <1>11

-----------------------------------------------------------------------------
(* Every step preserves the inductive invariant: the assembly.              *)

LEMMA InitInv == Init => IInv
<1> SUFFICES ASSUME Init PROVE IInv
  BY Zenon
<1>1. NoLock \in Locks /\ ~Confirmed(NoLock) /\ NoLock.tx = NoTx
  BY Zenon DEF Locks, NoLock, Confirmed
<1>2. NewGrapher \in Graphers /\ NoHeartbeat \in Snapshots /\ Nothing \in Assemblies
  BY Zenon, <1>1 DEF NewGrapher, Graphers, NoHeartbeat, Snapshots, LockMaps, Nothing, Assemblies
<1>3. TypeOK
  BY <1>2, NodesAssumption, StatesAssumption DEF Init, TypeOK, Phases
<1>4. TxInv
  BY Zenon DEF Init, TxInv, PhaseInv, MintInv, LedgerInv, RoleInv, UnderAssembly, Nothing, NoHeartbeat
<1>5. /\ \A n \in Nodes : grapher[n] = NewGrapher
      /\ \A t \in Txs : phase[t] = "pooled" /\ post[t] = Nothing /\ minedAt[t] = 0
      /\ coordinator \in Nodes /\ ~heartbeat.sent
  BY Zenon, NodesAssumption DEF Init, NoHeartbeat
<1>6. KnownInv
  BY <1>5, SMTT(40) DEF KnownInv, NewGrapher, Processing
<1>7. LockInv
  BY <1>1, <1>5, SMTT(40) DEF LockInv, TrueLocks, Linked, Held, TrueSpend, TrueCreate, Owned, Kept,
                    ConfirmedTxs, NewGrapher
<1>8. HeartbeatInv /\ ReadInv /\ VisibleIsCreateLocked
  BY Zenon, <1>5 DEF HeartbeatInv, ReadInv, VisibleIsCreateLocked, NewGrapher, Nothing, Init, NoHeartbeat
<1>9. DisjointInputs /\ ViewInv
  BY <1>5 DEF DisjointInputs, ViewInv, Live, MinedBy, NewGrapher
<1> QED
  BY Zenon, <1>3, <1>4, <1>6, <1>7, <1>8, <1>9 DEF IInv, GrapherInv

LEMMA RefreshStep ==
    ASSUME IInv, NEW n \in Nodes, RefreshBlockHeight(n)
    PROVE  IInv'
<1> USE DEF IInv, GrapherInv
<1>1. /\ grapher' = [grapher EXCEPT ![n] = ForgetConfirmedLocks(grapher[n], indexed[n])]
      /\ UNCHANGED <<phase, post, minted, view, coordinator, active, heartbeat,
                     height, indexed, minedAt>>
  BY Zenon DEF RefreshBlockHeight, txVars, roleVars, chainVars
<1>2. ConfirmedTxs' = ConfirmedTxs
  BY Zenon, <1>1 DEF ConfirmedTxs
<1>3. /\ grapher' \in [Nodes -> Graphers]
      /\ \A m \in Nodes : grapher'[m].known = grapher[m].known
      /\ LockInv' /\ ReadInv' /\ VisibleIsCreateLocked'
  BY Zenon, <1>1, <1>2, PruneStep DEF TxInv
<1>4. TypeOK'
  BY Zenon, <1>1, <1>3 DEF TypeOK
<1>5. TxInv'
  BY Zenon, <1>1, TxFrame DEF txVars, roleVars
<1>6. KnownInv'
  BY Zenon, <1>1, <1>3, TypeFacts DEF KnownInv, Dead, Needs
<1>7. HeartbeatInv'
  BY Zenon, <1>1, <1>2 DEF HeartbeatInv, TrueSpend, TrueCreate, Kept
<1>8. Live' = Live /\ Live \subseteq Txs
  BY Zenon, <1>1, <1>3, TypeFacts, LiveFacts DEF Live, MinedBy, TxInv
<1>9. DisjointInputs' /\ ViewInv'
  BY <1>1, <1>8, ViewFrame, TypeFacts DEF UnderAssembly
<1> QED
  BY Zenon, <1>3, <1>4, <1>5, <1>6, <1>7, <1>9

LEMMA SelectStep ==
    ASSUME IInv, NEW t \in Txs, Select(t)
    PROVE  IInv'
<1> USE DEF IInv, GrapherInv
<1> DEFINE G == grapher[coordinator]
           h == indexed[coordinator]
           H == ForgetConfirmedLocks(G, h)
<1>1. /\ active /\ phase[t] = "pooled" /\ UnderAssembly = {}
      /\ grapher' = [grapher EXCEPT ![coordinator] = H]
      /\ view'.candidates = SnapshotView(H, Origin[t]).candidates
      /\ view'.spent = SnapshotView(H, Origin[t]).spent
      /\ view'.height = h
      /\ view' = [candidates |-> SnapshotView(H, Origin[t]).candidates,
                  spent |-> SnapshotView(H, Origin[t]).spent, height |-> h]
      /\ phase' = [phase EXCEPT ![t] = "requested"]
      /\ UNCHANGED <<post, minted, coordinator, active, heartbeat, height, indexed, minedAt>>
  BY Zenon DEF Select, roleVars, chainVars
<1>2. ConfirmedTxs' = ConfirmedTxs
  BY Zenon, <1>1 DEF ConfirmedTxs, TypeOK
<1>3. /\ grapher' \in [Nodes -> Graphers]
      /\ \A m \in Nodes : grapher'[m].known = grapher[m].known
      /\ LockInv' /\ ReadInv' /\ VisibleIsCreateLocked'
  BY Zenon, <1>1, <1>2, PruneStep, TypeFacts DEF TxInv
<1> HIDE DEF H
<1>4. /\ view'.spent = {s \in States : H.spend[s] # NoLock}
      /\ view'.candidates = {s \in H.visible : /\ Origin[t] \in Allowed[s]
                                               /\ H.create[s] # NoLock
                                               /\ H.spend[s] = NoLock}
      /\ view'.height = h
      /\ H.visible \subseteq States
  <2>1. H \in Graphers
    BY Zenon, TypeFacts, PruneFields DEF H
  <2> QED
    BY Zenon, <1>1, <2>1, GrapherFields DEF SnapshotView
<1>5. TypeOK'
  <2>1. view' \in [candidates : SUBSET States, spent : SUBSET States, height : Nat]
    BY Zenon, <1>1, <1>4, TypeFacts
  <2> QED
    BY Zenon, <1>1, <1>3, <2>1 DEF TypeOK, Phases
<1>6. PhaseInv' /\ MintInv' /\ LedgerInv'
  BY <1>1 DEF TypeOK, TxInv, PhaseInv, MintInv, LedgerInv, Needs
<1>7. RoleInv'
  BY Zenon, <1>1 DEF TypeOK, TxInv, RoleInv, UnderAssembly
<1>8. KnownInv'
  BY SMTT(40), <1>1, <1>3, TypeFacts DEF TypeOK, KnownInv, Dead, Needs, Processing
<1>9. HeartbeatInv'
  BY Zenon, <1>1, <1>2 DEF HeartbeatInv, TrueSpend, TrueCreate, Kept
<1>10. Live' = Live /\ Live \subseteq Txs
  BY Zenon, <1>1, <1>3, TypeFacts, LiveFacts DEF Live, MinedBy, TxInv
<1>11. DisjointInputs'
  BY Zenon, <1>1, <1>10 DEF DisjointInputs
<1>12. \A u \in Live : view'.candidates \cap post[u].in = {}
  BY Zenon, <1>4, CandidatesUnspent DEF H
<1>13. \A u \in Live : \A s \in post[u].in :
          s \in view'.spent \/ (minedAt[u] # 0 /\ minedAt[u] + Tolerance <= view'.height)
  <2> SUFFICES ASSUME NEW u \in Live, NEW s \in post[u].in
               PROVE  s \in view'.spent
                         \/ (minedAt[u] # 0 /\ minedAt[u] + Tolerance <= view'.height)
    BY Zenon
  <2>1. s \in States
    BY Zenon, <1>10, TypeFacts
  <2> QED
    BY Zenon, <1>4, <2>1, SpentIsSeen DEF H, TxInv
<1>14. ViewInv'
  <2>1. \A x \in Txs \ {t} : phase'[x] \notin {"requested", "assembling", "answered"}
    BY Zenon, <1>1 DEF UnderAssembly, TypeOK
  <2>2. phase'[t] = "requested"
    BY Zenon, <1>1 DEF TypeOK
  <2> QED
    BY Zenon, <1>1, <1>10, <1>12, <1>13, <2>1, <2>2 DEF ViewInv
<1> QED
  BY Zenon, <1>3, <1>5, <1>6, <1>7, <1>8, <1>9, <1>11, <1>14 DEF TxInv

LEMMA StartAssemblyStep ==
    ASSUME IInv, NEW t \in Txs, StartAssembly(t)
    PROVE  IInv'
<1> USE DEF IInv, GrapherInv
<1>1. /\ phase[t] = "requested" /\ view.height - indexed[Origin[t]] <= Tolerance
      /\ phase' = [phase EXCEPT ![t] = "assembling"]
      /\ UNCHANGED <<post, minted, view, coordinator, active, heartbeat, grapher,
                     height, indexed, minedAt>>
  BY Zenon DEF StartAssembly, WithinTolerance, roleVars, chainVars
<1>2. TypeOK'
  BY Zenon, <1>1 DEF TypeOK, Phases
<1>3. PhaseInv' /\ MintInv' /\ LedgerInv'
  BY <1>1 DEF TypeOK, TxInv, PhaseInv, MintInv, LedgerInv, Needs
<1>4. RoleInv'
  BY Zenon, <1>1 DEF TypeOK, TxInv, RoleInv, UnderAssembly
<1>5. KnownInv'
  BY Zenon, <1>1, TypeFacts, GrapherFields DEF TypeOK, KnownInv, Dead, Needs, Processing
<1>6. ConfirmedTxs' = ConfirmedTxs
  BY Zenon, <1>1 DEF ConfirmedTxs, TypeOK
<1>7. LockInv' /\ HeartbeatInv' /\ ReadInv' /\ VisibleIsCreateLocked'
  BY Zenon, <1>1, <1>6, LockFrame
<1>8. Live' = Live /\ Live \subseteq Txs
  BY Zenon, <1>1, LiveFacts DEF Live, MinedBy, TxInv
<1>9. DisjointInputs'
  BY Zenon, <1>1, <1>8 DEF DisjointInputs
<1>10. ViewInv'
  <2>1. \A x \in Txs \ {t} : phase'[x] \notin {"requested", "assembling", "answered"}
    BY Zenon, <1>1 DEF UnderAssembly, TypeOK, TxInv, RoleInv
  <2>2. phase'[t] = "assembling"
    BY Zenon, <1>1 DEF TypeOK
  <2>3. ASSUME NEW u \in Live, NEW s \in post[u].in, s \notin view.spent
        PROVE  minedAt[u] # 0 /\ minedAt[u] <= indexed[Origin[t]]
    <3>1. minedAt[u] # 0 /\ minedAt[u] + Tolerance <= view.height
      BY Zenon, <1>1, <2>3 DEF ViewInv
    <3>2. /\ minedAt[u] \in Nat /\ indexed[Origin[t]] \in Nat /\ Tolerance \in Nat
          /\ view.height \in Nat
      BY Zenon, <1>8, TypeFacts, TxsAssumption, BoundsAssumption DEF TypeOK
    <3> QED
      BY <1>1, <3>1, <3>2
  <2>4. \A u \in Live : view.candidates \cap post[u].in = {}
    BY Zenon, <1>1 DEF ViewInv
  <2> QED
    BY Zenon, <1>1, <1>8, <2>1, <2>2, <2>3, <2>4 DEF ViewInv
<1> QED
  BY Zenon, <1>2, <1>3, <1>4, <1>5, <1>7, <1>9, <1>10 DEF TxInv

LEMMA AssembleStep ==
    ASSUME IInv, NEW t \in Txs, Assemble(t)
    PROVE  IInv'
<1> USE DEF IInv, GrapherInv
<1>1. PICK in, read, out \in SUBSET States :
          /\ in \cup read \subseteq Selectable(Origin[t], view)
          /\ Cardinality(read) \in ReadSizes
          /\ out \cap minted = {}
          /\ post' = [post EXCEPT ![t] = [in |-> in, read |-> read, out |-> out]]
          /\ minted' = minted \cup out
  BY Zenon DEF Assemble
<1>2. /\ phase[t] = "assembling"
      /\ phase' = [phase EXCEPT ![t] = "answered"]
      /\ UNCHANGED <<view, coordinator, active, heartbeat, grapher, height, indexed, minedAt>>
  BY Zenon DEF Assemble, roleVars, chainVars
<1>3. /\ phase'[t] = "answered" /\ \A u \in Txs \ {t} : phase'[u] = phase[u]
      /\ post'[t].in = in /\ post'[t].read = read /\ post'[t].out = out
      /\ \A u \in Txs \ {t} : post'[u] = post[u]
  BY Zenon, <1>1, <1>2 DEF TypeOK
<1>4. TypeOK'
  <2>1. [in |-> in, read |-> read, out |-> out] \in Assemblies
    BY Zenon DEF Assemblies
  <2> QED
    BY Zenon, <1>1, <1>2, <2>1 DEF TypeOK, Phases
<1>5. minedAt[t] = 0 /\ post[t].out = {} /\ post[t].in = {}
  BY <1>2 DEF TxInv, PhaseInv, Nothing
<1>6. PhaseInv'
  BY Zenon, <1>2, <1>3, <1>5 DEF TxInv, PhaseInv
<1>7. MintInv'
  <2>1. Genesis \subseteq minted' /\ out \subseteq minted' \ Genesis
    BY Zenon, <1>1 DEF TxInv, MintInv
  <2>2. \A u \in Txs \ {t} : post[u].out \subseteq minted \ Genesis /\ out \cap post[u].out = {}
    BY Zenon, <1>1 DEF TxInv, MintInv
  <2> QED
    BY <1>1, <1>3, <2>1, <2>2 DEF TxInv, MintInv
<1>8. LedgerInv'
  <2>1. \A u \in Txs : u # t => Needs(u)' = Needs(u)
    BY Zenon, <1>3 DEF Needs
  <2>2. ASSUME NEW x \in Txs, minedAt'[x] # 0, NEW s \in Needs(x)'
        PROVE  s \in Genesis \/ \E u \in Txs : /\ minedAt'[u] # 0 /\ minedAt'[u] <= minedAt'[x]
                                               /\ s \in post'[u].out
    <3>1. x # t /\ minedAt' = minedAt
      BY Zenon, <1>2, <1>5, <2>2
    <3>2. s \in Genesis \/ \E u \in Txs : /\ minedAt[u] # 0 /\ minedAt[u] <= minedAt[x]
                                          /\ s \in post[u].out
      BY Zenon, <2>1, <2>2, <3>1 DEF TxInv, LedgerInv
    <3> QED
      BY Zenon, <1>3, <1>5, <3>1, <3>2
  <2>3. \A x, u \in Txs : (phase'[x] = "confirmed" /\ phase'[u] = "mined")
                            => post'[u].out \cap post'[x].in = {}
    BY <1>3 DEF TxInv, LedgerInv
  <2> QED
    BY Zenon, <2>2, <2>3 DEF LedgerInv
<1>9. RoleInv'
  BY Zenon, <1>2 DEF TypeOK, TxInv, RoleInv, UnderAssembly
<1>10. t \notin grapher[coordinator].known /\ t \notin ConfirmedTxs
  BY Zenon, <1>2 DEF KnownInv, Processing, ConfirmedTxs
<1>11. ConfirmedTxs' = ConfirmedTxs
  BY Zenon, <1>2, <1>3 DEF ConfirmedTxs
<1>12. \A n \in Nodes : grapher[n].known \subseteq Txs \ {t}
  BY Zenon, <1>10, TypeFacts, GrapherFields DEF KnownInv
<1>13. KnownInv'
  <2>1. \A s : Dead(s) => Dead(s)'
    BY Zenon, <1>1, <1>3 DEF Dead
  <2>2. \A u \in Txs \ {t} : Needs(u)' = Needs(u)
    BY Zenon, <1>3 DEF Needs
  <2> QED
    BY <1>2, <1>3, <1>12, <2>1, <2>2, TypeFacts DEF KnownInv, Processing
<1>14. LockInv'
  <2>1. ASSUME NEW n \in Nodes PROVE TrueLocks(grapher[n])'
    <3>1. Linked(grapher[n])'
      BY SMTT(40), <1>2, <1>3, <1>12 DEF LockInv, TrueLocks, Linked, Needs
    <3>2. Held(grapher[n])' /\ TrueSpend(grapher[n].spend)' /\ TrueCreate(grapher[n].create)'
      BY <1>2, <1>3, <1>10, <1>11, <1>12
      DEF LockInv, TrueLocks, Held, TrueSpend, TrueCreate, ConfirmedTxs
    <3> QED
      BY Zenon, <3>1, <3>2 DEF TrueLocks
  <2>2. Owned(grapher[coordinator])'
    BY <1>2, <1>3, <1>12, TypeFacts DEF LockInv, Owned
  <2>3. Kept(grapher[coordinator].create, grapher[coordinator].spend,
             grapher[coordinator].visible, indexed[coordinator])'
    BY Zenon, <1>2, <1>3, <1>10, <1>11 DEF LockInv, Kept, ConfirmedTxs
  <2> QED
    BY Zenon, <2>1, <2>2, <2>3 DEF LockInv
<1>15. HeartbeatInv'
  <2>1. ~heartbeat.sent
    BY Zenon, <1>2 DEF TxInv, RoleInv, UnderAssembly
  <2> QED
    BY Zenon, <1>2, <2>1 DEF HeartbeatInv
<1>16. ReadInv' /\ VisibleIsCreateLocked'
  <2>1. NoReads => read = {}
    BY Zenon, <1>1 DEF NoReads
  <2> QED
    BY Zenon, <1>2, <1>3, <2>1 DEF ReadInv, VisibleIsCreateLocked
<1>17. Live' = Live /\ Live \subseteq Txs /\ t \notin Live
  BY Zenon, <1>2, <1>5, <1>10, LiveFacts DEF Live, MinedBy, TxInv
<1>18. DisjointInputs'
  BY Zenon, <1>3, <1>17 DEF DisjointInputs
<1>19. \A u \in Live : in \cap post[u].in = {}
  <2> SUFFICES ASSUME NEW u \in Live, NEW s \in in, s \in post[u].in
               PROVE  FALSE
    BY Zenon
  <2>1. s \notin view.candidates
    BY Zenon, <1>2 DEF ViewInv
  <2>2. s \in DbAvailable(Origin[t]) /\ s \notin view.spent
    BY Zenon, <1>1, <2>1 DEF Selectable
  <2>3. minedAt[u] # 0 /\ minedAt[u] <= indexed[Origin[t]]
    BY Zenon, <1>2, <2>2 DEF ViewInv
  <2> QED
    BY Zenon, <1>17, <2>2, <2>3 DEF DbAvailable, Inputs, MinedBy
<1>20. ViewInv'
  <2>1. \A x \in Txs \ {t} : phase'[x] \notin {"requested", "assembling", "answered"}
    BY Zenon, <1>2, <1>3 DEF UnderAssembly, TxInv, RoleInv
  <2>2. \A u \in Live : post'[u] = post[u]
    BY Zenon, <1>3, <1>17
  <2> QED
    BY Zenon, <1>3, <1>17, <1>19, <2>1, <2>2 DEF ViewInv
<1> QED
  BY Zenon, <1>4, <1>6, <1>7, <1>8, <1>9, <1>13, <1>14, <1>15, <1>16, <1>18, <1>20 DEF TxInv

LEMMA ApplyPostAssemblyStep ==
    ASSUME IInv, NEW t \in Txs, ApplyPostAssembly(t)
    PROVE  IInv'
<1> USE DEF IInv, GrapherInv
<1> DEFINE G == grapher[coordinator]
           H == grapher'[coordinator]
           p == post[t]
<1>1. /\ phase[t] = "answered" /\ phase' = [phase EXCEPT ![t] = "assembled"]
      /\ UNCHANGED <<post, minted, view, coordinator, active, heartbeat, height, indexed, minedAt>>
  BY Zenon DEF ApplyPostAssembly, roleVars, chainVars
<1>2. /\ H = LockMintsOnReadAndSpend(LockMintsOnCreate(AddMinter(G, t, p.out), t, p.out),
                                     t, p.read, p.in)
      /\ \A n \in Nodes \ {coordinator} : grapher'[n] = grapher[n]
      /\ grapher' = [grapher EXCEPT ![coordinator] = H]
  BY Zenon, TypeFacts DEF ApplyPostAssembly, TypeOK
<1>3. G \in Graphers /\ p \in Assemblies
  BY Zenon, TypeFacts
<1>4. /\ H \in Graphers
      /\ H.known = G.known \cup {t}
      /\ H.visible = G.visible \cup p.out
      /\ \A s \in States :
            /\ H.minter[s] = IF s \in p.out THEN t ELSE G.minter[s]
            /\ H.create[s] = IF s \in p.out THEN [tx |-> t, at |-> 0] ELSE G.create[s]
            /\ H.spend[s] = IF s \in p.in THEN [tx |-> t, at |-> 0] ELSE G.spend[s]
            /\ H.read[s] = IF s \in p.read THEN [tx |-> t, at |-> 0] ELSE G.read[s]
      /\ \A d, u \in Txs : <<d, u>> \in H.links =>
            \/ <<d, u>> \in G.links
            \/ d = t /\ \E s \in p.read \cup p.in : H.minter[s] = u
  <2> HIDE DEF G, H, p
  <2> QED
    BY <1>2, <1>3, AddFields
<1> HIDE DEF H
<1>5. /\ phase'[t] = "assembled" /\ \A u \in Txs \ {t} : phase'[u] = phase[u]
      /\ minedAt[t] = 0 /\ t # NoTx /\ t \notin G.known /\ t \notin ConfirmedTxs
      /\ active /\ ~heartbeat.sent /\ ConfirmedTxs' = ConfirmedTxs
  BY Zenon, <1>1, TxsAssumption
  DEF TypeOK, TxInv, PhaseInv, KnownInv, Processing, ConfirmedTxs, RoleInv, UnderAssembly
<1>6. p.in \subseteq States /\ p.read \subseteq States /\ p.out \subseteq States
  BY Zenon, TypeFacts
<1>7. TypeOK'
  BY Zenon, <1>1, <1>2, <1>4 DEF TypeOK, Phases
<1>8. PhaseInv' /\ MintInv' /\ LedgerInv'
  BY <1>1, <1>5 DEF TxInv, PhaseInv, MintInv, LedgerInv, Needs
<1>9. RoleInv'
  BY Zenon, <1>1, <1>5 DEF TxInv, RoleInv, UnderAssembly
<1>10. KnownInv'
  <2>1. coordinator' = coordinator /\ grapher'[coordinator] = H
    BY Zenon, <1>1, <1>2, TypeFacts DEF TypeOK
  <2>2. \A n \in Nodes : n # coordinator => grapher'[n].known = {}
    BY Zenon, <1>2 DEF KnownInv
  <2>3. \A u \in H.known : phase'[u] \in Processing
    <3>1. \A u \in G.known : u \in Txs /\ phase[u] \in Processing
      BY Zenon, <1>3, GrapherFields DEF KnownInv
    <3>2. H.known = G.known \cup {t}
      BY Zenon, <1>4
    <3> HIDE DEF IInv, GrapherInv, G
    <3> QED
      BY Zenon, <1>5, <3>1, <3>2 DEF Processing
  <2>4. \A u : Dead(u)' <=> Dead(u)
    BY Zenon, <1>1, <1>5 DEF Dead
  <2>5. ASSUME NEW u \in Txs, phase'[u] \in Processing
        PROVE  u \in H.known \/ (phase'[u] = "dispatched" /\ \E s \in Needs(u) : Dead(s))
    BY <1>4, <1>5, <2>5 DEF KnownInv
  <2>6. \A u : Needs(u)' = Needs(u)
    BY Zenon, <1>1 DEF Needs
  <2> QED
    BY Zenon, <2>1, <2>2, <2>3, <2>4, <2>5, <2>6 DEF KnownInv
<1>11. /\ \A u \in Live : p.in \cap post[u].in = {}
       /\ Live \subseteq Txs
       /\ \A u : u \in Live <=> u \in G.known \/ u \in ConfirmedTxs
  BY Zenon, <1>1, LiveFacts DEF ViewInv, TxInv
<1>12. \A u \in Txs : u # t => p.out \cap post[u].out = {}
  BY Zenon DEF TxInv, MintInv
<1>13. Linked(grapher[coordinator])'
  <2>1. Linked(G)
    BY Zenon, TypeFacts DEF LockInv, TrueLocks
  <2>2. ASSUME NEW d \in Txs, NEW u \in Txs, <<d, u>> \in H.links
        PROVE  d \in H.known /\ u \in H.known /\ Needs(d) \cap post[u].out # {}
    <3>1. CASE <<d, u>> \in G.links
      BY <3>1, <2>1, <1>4, SMTT(40) DEF Linked
    <3>2. ASSUME d = t, NEW s \in p.read \cup p.in, H.minter[s] = u
          PROVE  u \in H.known /\ s \in post[u].out /\ s \in Needs(d)
      BY SMTT(40), <3>2, <1>4, <1>6, <2>1, TxsAssumption DEF Linked, Needs
    <3> QED
      BY Zenon, <3>1, <3>2, <2>2, <1>4
  <2>3. \A s \in States : H.minter[s] # NoTx => H.minter[s] \in H.known
                                               /\ s \in post[H.minter[s]].out
    BY Zenon, <1>4, <2>1 DEF Linked
  <2> QED
    BY Zenon, <1>1, <2>2, <2>3 DEF Linked, Needs, H
<1>14. Held(grapher[coordinator])'
  <2>1. Held(G)
    BY Zenon, TypeFacts DEF LockInv, TrueLocks
  <2> QED
    BY SMTT(40), <1>1, <1>4, <2>1 DEF Held, H
<1>15. TrueSpend(grapher[coordinator].spend)' /\ TrueCreate(grapher[coordinator].create)'
  <2>1. TrueSpend(G.spend) /\ TrueCreate(G.create)
    BY Zenon, TypeFacts DEF LockInv, TrueLocks
  <2>2. ~Confirmed([tx |-> t, at |-> 0])
    BY Zenon, <1>5 DEF Confirmed
  <2> QED
    BY SMTT(40), <1>1, <1>4, <1>5, <2>1, <2>2 DEF TrueSpend, TrueCreate, H
<1>16. ASSUME NEW n \in Nodes, n # coordinator PROVE TrueLocks(grapher[n])'
  <2>1. grapher'[n] = grapher[n] /\ TrueLocks(grapher[n])
    BY Zenon, <1>2, <1>16 DEF LockInv
  <2> QED
    BY <1>1, <1>5, <2>1, ZenonT(60) DEF TrueLocks, Linked, Held, TrueSpend, TrueCreate, Needs
<1>17. Owned(grapher[coordinator])'
  <2> SUFFICES ASSUME NEW u \in G.known \cup {t}
               PROVE  /\ \A s \in post[u].in : H.spend[s].tx = u
                      /\ \A s \in post[u].out : H.create[s].tx = u /\ s \in H.visible
    BY SMTT(40), <1>1, <1>4 DEF Owned, H
  <2>1. CASE u = t
    BY <1>4, <1>6, <2>1
  <2>2. CASE u \in G.known
    <3>1. u \in Txs /\ u # t /\ p.in \cap post[u].in = {} /\ p.out \cap post[u].out = {}
      BY Zenon, <2>2, <1>5, <1>11, <1>12
    <3>2. post[u].in \subseteq States /\ post[u].out \subseteq States
      BY Zenon, <3>1, TypeFacts
    <3>3. /\ \A s \in post[u].in : G.spend[s].tx = u
          /\ \A s \in post[u].out : G.create[s].tx = u /\ s \in G.visible
      BY Zenon, <2>2 DEF LockInv, Owned
    <3> QED
      BY <3>1, <3>2, <3>3, <1>4
  <2> QED
    BY Zenon, <2>1, <2>2
<1>18. Kept(grapher[coordinator].create, grapher[coordinator].spend,
            grapher[coordinator].visible, indexed[coordinator])'
  <2> SUFFICES ASSUME NEW u \in ConfirmedTxs, minedAt[u] + Tolerance > indexed[coordinator]
               PROVE  /\ \A s \in post[u].in : Confirmed(H.spend[s])
                      /\ \A s \in post[u].out : \/ \E w \in ConfirmedTxs : s \in post[w].in
                                                \/ s \in H.visible /\ Confirmed(H.create[s])
    BY Zenon, <1>1, <1>5 DEF Kept, H
  <2>1. u \in Txs /\ u # t /\ p.in \cap post[u].in = {} /\ p.out \cap post[u].out = {}
    BY Zenon, <1>5, <1>11, <1>12
  <2>2. post[u].in \subseteq States /\ post[u].out \subseteq States
    BY Zenon, <2>1, TypeFacts
  <2>3. /\ \A s \in post[u].in : Confirmed(G.spend[s])
        /\ \A s \in post[u].out : \/ \E w \in ConfirmedTxs : s \in post[w].in
                                  \/ s \in G.visible /\ Confirmed(G.create[s])
    BY Zenon DEF LockInv, Kept
  <2> QED
    BY Zenon, <2>1, <2>2, <2>3, <1>4
<1>19. LockInv'
  BY Zenon, <1>1, <1>13, <1>14, <1>15, <1>16, <1>17, <1>18 DEF LockInv, TrueLocks
<1>20. HeartbeatInv'
  BY Zenon, <1>1, <1>5 DEF HeartbeatInv
<1>21. ReadInv'
  <2>1. SUFFICES ASSUME NoReads
                 PROVE  /\ \A n \in Nodes : \A s \in States : grapher'[n].read[s] = NoLock
                        /\ \A s \in States : heartbeat'.read[s] = NoLock
                        /\ \A u \in Txs : post'[u].read = {}
    BY Zenon DEF ReadInv
  <2>2. /\ \A n \in Nodes : \A s \in States : grapher[n].read[s] = NoLock
        /\ \A s \in States : heartbeat.read[s] = NoLock
        /\ \A u \in Txs : post[u].read = {}
    BY Zenon, <2>1 DEF ReadInv
  <2>3. \A s \in States : H.read[s] = NoLock
    <3>1. \A s \in States : H.read[s] = IF s \in p.read THEN [tx |-> t, at |-> 0] ELSE G.read[s]
      BY Zenon, <1>4
    <3>2. p.read = {} /\ \A s \in States : G.read[s] = NoLock
      BY Zenon, <2>2, TypeFacts
    <3> HIDE DEF IInv, GrapherInv, G, p
    <3> QED
      BY Zenon, <3>1, <3>2
  <2> HIDE DEF IInv, GrapherInv, G, p
  <2> QED
    BY <1>1, <1>2, <2>2, <2>3, SMTT(40) DEF H
<1>22. VisibleIsCreateLocked'
  <2>1. [tx |-> t, at |-> 0] # NoLock
    BY Zenon, <1>5 DEF NoLock
  <2>2. \A s \in H.visible : H.create[s] # NoLock
    BY SMTT(40), <1>3, <1>4, <1>6, <2>1, GrapherFields, TypeFacts DEF VisibleIsCreateLocked
  <2> QED
    BY Zenon, <1>2, <2>2 DEF VisibleIsCreateLocked, H
<1>23. \A u : u \in Live' <=> u \in Live \/ u = t
  BY Zenon, <1>1, <1>4, LiveNext, LiveFacts, <1>7 DEF H, TxInv
<1>24. DisjointInputs'
  BY Zenon, <1>1, <1>11, <1>23 DEF DisjointInputs
<1>25. ViewInv'
  <2>1. \A x \in Txs : phase'[x] \notin {"requested", "assembling", "answered"}
    BY <1>1, <1>5 DEF UnderAssembly, TxInv, RoleInv
  <2> QED
    BY Zenon, <2>1 DEF ViewInv
<1> QED
  BY Zenon, <1>7, <1>8, <1>9, <1>10, <1>19, <1>20, <1>21, <1>22, <1>24, <1>25 DEF TxInv

-----------------------------------------------------------------------------
(* Resets.                                                                  *)

\* The transactions in R lose their assemblies, and those in F are forgotten.
\* One that is forgotten and keeps its assembly needs a state of one that
\* lost it.
LEMMA ForgetStep ==
    ASSUME IInv, NEW R \in SUBSET Txs, NEW F,
           Forgets(grapher[coordinator], grapher'[coordinator], F),
           grapher' = [grapher EXCEPT ![coordinator] = grapher'[coordinator]],
           post' = [u \in Txs |-> IF u \in R THEN Nothing ELSE post[u]],
           phase' \in [Txs -> Phases],
           \A u \in R : phase'[u] \in {"pooled", "reverted"},
           \A u \in Txs \ R : phase'[u] = phase[u],
           \A u \in R : phase[u] \in {"requested", "assembling", "answered",
                                      "assembled", "dispatched"},
           \A u \in R : u \in grapher[coordinator].known => u \in F,
           \A u \in grapher[coordinator].known : u \in F /\ u \notin R =>
               phase[u] = "dispatched" /\ \E w \in R : Needs(u) \cap post[w].out # {},
           UNCHANGED <<minted, view, coordinator, heartbeat, chainVars>>,
           ~heartbeat.sent, active' \in BOOLEAN, RoleInv'
    PROVE  IInv'
<1> USE DEF IInv, GrapherInv
<1> DEFINE G == grapher[coordinator]
           H == grapher'[coordinator]
<1>1. G \in Graphers /\ H \in Graphers /\ \A n \in Nodes \ {coordinator} : grapher'[n] = grapher[n]
  BY TypeFacts DEF Forgets, TypeOK
<1>2. UNCHANGED <<minted, view, coordinator, heartbeat, height, indexed, minedAt>>
  BY Zenon DEF chainVars
<1>3. /\ \A u \in R : post'[u].in = {} /\ post'[u].out = {} /\ post'[u].read = {}
      /\ \A u \in R : post'[u] = Nothing
      /\ \A u \in Txs \ R : post'[u] = post[u]
  BY Zenon DEF Nothing
<1>4. TypeOK'
  <2>1. Nothing \in Assemblies
    BY Zenon DEF Nothing, Assemblies
  <2> QED
    BY Zenon, <1>1, <1>2, <2>1 DEF TypeOK
<1>5. /\ \A u \in R : minedAt[u] = 0 /\ u \notin ConfirmedTxs
      /\ ConfirmedTxs' = ConfirmedTxs
  BY Zenon DEF TxInv, PhaseInv, ConfirmedTxs
<1>6. PhaseInv'
  BY Zenon, <1>2, <1>3, <1>5 DEF TxInv, PhaseInv
<1>7. MintInv'
  BY Zenon, <1>2, <1>3 DEF TxInv, MintInv
<1>8. LedgerInv'
  <2>1. ASSUME NEW x \in Txs, minedAt'[x] # 0, NEW s \in Needs(x)'
        PROVE  s \in Genesis \/ \E u \in Txs : /\ minedAt'[u] # 0 /\ minedAt'[u] <= minedAt'[x]
                                               /\ s \in post'[u].out
    <3>1. x \notin R /\ s \in Needs(x) /\ minedAt[x] # 0
      BY Zenon, <2>1, <1>2, <1>3, <1>5 DEF Needs
    <3>2. s \in Genesis \/ \E u \in Txs : /\ minedAt[u] # 0 /\ minedAt[u] <= minedAt[x]
                                          /\ s \in post[u].out
      BY Zenon, <3>1 DEF TxInv, LedgerInv
    <3> QED
      BY Zenon, <1>2, <1>3, <1>5, <3>2
  <2>2. \A x, u \in Txs : (phase'[x] = "confirmed" /\ phase'[u] = "mined")
                            => post'[u].out \cap post'[x].in = {}
    BY <1>3 DEF TxInv, LedgerInv
  <2> QED
    BY Zenon, <2>1, <2>2 DEF LedgerInv
<1>9. H.known = G.known \ F /\ G.known \subseteq Txs /\ \A u \in H.known : u \notin R
  BY Zenon, <1>1, GrapherFields DEF Forgets
<1>10. KnownInv'
  <2>1. \A s : Dead(s) => Dead(s)'
    BY Zenon, <1>2, <1>3 DEF Dead
  <2>2. \A u \in Txs \ R : Needs(u)' = Needs(u)
    BY Zenon, <1>3 DEF Needs
  <2>3. \A n \in Nodes : n # coordinator => grapher'[n].known = {}
    BY Zenon, <1>1 DEF KnownInv
  <2>4. \A u \in H.known : phase'[u] \in Processing
    BY Zenon, <1>9 DEF KnownInv
  <2>5. ASSUME NEW u \in Txs, phase'[u] \in Processing, u \notin H.known
        PROVE  phase'[u] = "dispatched" /\ \E s \in Needs(u)' : Dead(s)'
    <3>1. u \notin R /\ phase'[u] = phase[u]
      BY Zenon, <2>5 DEF Processing
    <3>2. CASE u \notin G.known
      BY Zenon, <2>1, <2>2, <2>5, <3>1, <3>2 DEF KnownInv
    <3>3. CASE u \in G.known
      <4>1. PICK w \in R : phase[u] = "dispatched" /\ Needs(u) \cap post[w].out # {}
        BY Zenon, <2>5, <3>1, <3>3, <1>9
      <4>2. PICK s \in Needs(u) : s \in post[w].out
        BY Zenon, <4>1
      <4>3. Dead(s)'
        BY Zenon, <4>2, <1>2, <1>3 DEF Dead, TxInv, MintInv
      <4> QED
        BY Zenon, <3>1, <4>1, <4>2, <4>3, <2>2
    <3> QED
      BY Zenon, <3>2, <3>3
  <2> QED
    BY Zenon, <1>2, <2>3, <2>4, <2>5 DEF KnownInv
<1>11. \A s : /\ s \in SpentBy(G, F) <=> \E u \in G.known : u \in F /\ s \in post[u].in
              /\ s \in CreatedBy(G, F) <=> \E u \in G.known : u \in F /\ s \in post[u].out
  BY DEF SpentBy, CreatedBy
<1>12. \A s \in States :
         /\ H.minter[s] = IF G.minter[s] \in F THEN NoTx ELSE G.minter[s]
         /\ H.create[s] = IF s \in CreatedBy(G, F) THEN NoLock ELSE G.create[s]
         /\ H.spend[s] = IF s \in SpentBy(G, F) THEN NoLock ELSE G.spend[s]
  BY Zenon DEF Forgets
<1>13. NoLock.tx = NoTx /\ ~Confirmed(NoLock)
  BY Zenon DEF NoLock, Confirmed
<1>14. Linked(grapher[coordinator])'
  <2>1. Linked(G)
    BY Zenon, TypeFacts DEF LockInv, TrueLocks
  <2>2. \A d, u \in Txs : <<d, u>> \in H.links => <<d, u>> \in G.links /\ d \notin F /\ u \notin F
    BY Zenon DEF Forgets
  <2>3. \A d, u \in Txs : <<d, u>> \in H.links =>
           d \in H.known /\ u \in H.known /\ Needs(d)' \cap post'[u].out # {}
    BY Zenon, <2>1, <2>2, <1>3, <1>9 DEF Linked, Needs
  <2>4. \A s \in States : H.minter[s] # NoTx =>
           H.minter[s] \in H.known /\ s \in post'[H.minter[s]].out
    BY SMTT(40), <2>1, <1>3, <1>9, <1>12 DEF Linked
  <2> QED
    BY <1>2, <2>3, <2>4 DEF Linked
<1>15. Held(grapher[coordinator])'
  <2>1. Held(G)
    BY Zenon, TypeFacts DEF LockInv, TrueLocks
  <2> QED
    BY SMTT(40), <1>2, <1>3, <1>9, <1>11, <1>12, <1>13, <2>1 DEF Held
<1>16. TrueSpend(grapher[coordinator].spend)' /\ TrueCreate(grapher[coordinator].create)'
  <2>1. TrueSpend(G.spend) /\ TrueCreate(G.create)
    BY Zenon, TypeFacts DEF LockInv, TrueLocks
  <2>2. \A u \in ConfirmedTxs : post'[u] = post[u] /\ u \in Txs
    BY Zenon, <1>3, <1>5 DEF ConfirmedTxs
  <2>3. ASSUME NEW s \in States, Confirmed(H.spend[s])
        PROVE  \E u \in ConfirmedTxs : minedAt[u] = H.spend[s].at /\ s \in post'[u].in
    <3>1. H.spend[s] = G.spend[s]
      BY Zenon, <1>12, <1>13, <2>3
    <3> QED
      BY Zenon, <2>1, <2>2, <2>3, <3>1 DEF TrueSpend
  <2>4. ASSUME NEW s \in States, Confirmed(H.create[s])
        PROVE  \E u \in ConfirmedTxs : minedAt[u] = H.create[s].at /\ s \in post'[u].out
    <3>1. H.create[s] = G.create[s]
      BY Zenon, <1>12, <1>13, <2>4
    <3> QED
      BY Zenon, <2>1, <2>2, <2>4, <3>1 DEF TrueCreate
  <2>5. TrueSpend(grapher[coordinator].spend)'
    BY Zenon, <1>2, <1>5, <2>3 DEF TrueSpend
  <2>6. TrueCreate(grapher[coordinator].create)'
    BY Zenon, <1>2, <1>5, <2>4 DEF TrueCreate
  <2> QED
    BY Zenon, <2>5, <2>6
<1>17. ASSUME NEW n \in Nodes, n # coordinator PROVE TrueLocks(grapher[n])'
  <2>1. grapher'[n] = grapher[n] /\ TrueLocks(grapher[n]) /\ grapher[n].known = {}
    BY Zenon, <1>1, <1>17 DEF LockInv, KnownInv
  <2>2. \A u \in ConfirmedTxs : post'[u] = post[u] /\ u \in Txs
    BY Zenon, <1>3, <1>5 DEF ConfirmedTxs
  <2> QED
    BY SMTT(40), <1>2, <1>5, <2>1, <2>2 DEF TrueLocks, Linked, Held, TrueSpend, TrueCreate
<1>18. Owned(grapher[coordinator])'
  <2> SUFFICES ASSUME NEW u \in H.known
               PROVE  /\ \A s \in post[u].in : H.spend[s].tx = u
                      /\ \A s \in post[u].out : H.create[s].tx = u /\ s \in H.visible
    BY SMTT(40), <1>2, <1>3, <1>9 DEF Owned
  <2>1. u \in Txs /\ u \in G.known /\ u \notin F
    BY Zenon, <1>9
  <2>2. Owned(G)
    BY Zenon DEF LockInv
  <2>3. /\ \A s \in post[u].in : s \in States /\ s \notin SpentBy(G, F)
        /\ \A s \in post[u].out : s \in States /\ s \notin CreatedBy(G, F)
    BY SMTT(40), <1>11, <2>1, <2>2, TypeFacts DEF Owned
  <2>4. H.visible = G.visible \ CreatedBy(G, F)
    BY Zenon DEF Forgets
  <2> QED
    BY <1>12, <2>1, <2>2, <2>3, <2>4 DEF Owned
<1>19. Kept(grapher[coordinator].create, grapher[coordinator].spend,
            grapher[coordinator].visible, indexed[coordinator])'
  <2> SUFFICES ASSUME NEW u \in ConfirmedTxs, minedAt[u] + Tolerance > indexed[coordinator]
               PROVE  /\ \A s \in post[u].in : Confirmed(H.spend[s])
                      /\ \A s \in post[u].out : \/ \E w \in ConfirmedTxs : s \in post[w].in
                                                \/ s \in H.visible /\ Confirmed(H.create[s])
    <3>1. \A u \in ConfirmedTxs : post'[u] = post[u] /\ u \in Txs
      BY Zenon, <1>3, <1>5 DEF ConfirmedTxs
    <3> QED
      BY Zenon, <1>2, <1>5, <3>1 DEF Kept
  <2>1. u \in Txs /\ post[u].in \subseteq States /\ post[u].out \subseteq States
    BY Zenon, TypeFacts DEF ConfirmedTxs
  <2>2. /\ \A s \in post[u].in : Confirmed(G.spend[s])
        /\ \A s \in post[u].out : \/ \E w \in ConfirmedTxs : s \in post[w].in
                                  \/ s \in G.visible /\ Confirmed(G.create[s])
    BY Zenon DEF LockInv, Kept
  <2>3. \A w \in G.known : w # NoTx
    BY Zenon, <1>9, TxsAssumption
  <2>4. \A s \in States : /\ Confirmed(G.spend[s]) => s \notin SpentBy(G, F)
                          /\ Confirmed(G.create[s]) => s \notin CreatedBy(G, F)
    BY SMTT(40), <1>11, <2>3 DEF LockInv, Owned, Confirmed
  <2>5. H.visible = G.visible \ CreatedBy(G, F)
    BY Zenon DEF Forgets
  <2> QED
    BY Zenon, <1>12, <2>1, <2>2, <2>4, <2>5
<1>20. LockInv'
  BY Zenon, <1>2, <1>14, <1>15, <1>16, <1>17, <1>18, <1>19 DEF LockInv, TrueLocks
<1>21. HeartbeatInv'
  BY Zenon, <1>2 DEF HeartbeatInv
<1>22. ReadInv'
  <2>1. \A s \in States : H.read[s] = NoLock \/ H.read[s] = G.read[s]
    BY Zenon DEF Forgets
  <2> SUFFICES ASSUME NoReads
               PROVE  /\ \A n \in Nodes : \A s \in States : grapher'[n].read[s] = NoLock
                      /\ \A s \in States : heartbeat'.read[s] = NoLock
                      /\ \A t \in Txs : post'[t].read = {}
    BY Zenon DEF ReadInv
  <2>2. \A n \in Nodes : \A s \in States : grapher'[n].read[s] = NoLock
    BY <1>1, <2>1, TypeFacts DEF ReadInv
  <2>3. \A t \in Txs : post'[t].read = {}
    BY Zenon, <1>3 DEF ReadInv
  <2> QED
    BY Zenon, <1>2, <2>2, <2>3 DEF ReadInv
<1>23. VisibleIsCreateLocked'
  <2>1. \A s \in H.visible : H.create[s] # NoLock
    BY <1>1, GrapherFields, TypeFacts DEF Forgets, VisibleIsCreateLocked
  <2> QED
    BY <1>1, <2>1 DEF VisibleIsCreateLocked
<1>24. Live' \subseteq Live /\ Live \subseteq Txs /\ \A u \in Live' : u \notin R
  BY Zenon, <1>2, <1>4, <1>5, <1>9, LiveNext, LiveFacts DEF TxInv
<1>25. \A u \in UnderAssembly' : phase'[u] = phase[u] /\ post'[u] = post[u]
  BY Zenon, <1>3 DEF UnderAssembly
<1>26. DisjointInputs' /\ ViewInv'
  BY SMTT(40), <1>2, <1>3, <1>24, <1>25, ViewFrame, TypeFacts
<1> QED
  BY Zenon, <1>4, <1>6, <1>7, <1>8, <1>10, <1>20, <1>21, <1>22, <1>23, <1>26 DEF TxInv

LEMMA AssemblyEndsStep ==
    ASSUME IInv, NEW t \in Txs, AssemblyEnds(t)
    PROVE  IInv'
<1> USE DEF IInv, GrapherInv
<1> DEFINE R == {t}
           F == {}
<1>1. /\ t \in UnderAssembly
      /\ phase' = [phase EXCEPT ![t] = "pooled"]
      /\ post' = [post EXCEPT ![t] = Nothing]
      /\ UNCHANGED <<minted, view, coordinator, active, heartbeat, grapher, chainVars>>
  BY Zenon DEF AssemblyEnds, roleVars
<1>2. post' = [u \in Txs |-> IF u \in R THEN Nothing ELSE post[u]]
  BY Zenon, <1>1 DEF TypeOK
<1>3. phase' \in [Txs -> Phases]
  BY Zenon, <1>1 DEF TypeOK, Phases
<1>4. /\ \A u \in R : phase'[u] = "pooled"
      /\ \A u \in Txs \ R : phase'[u] = phase[u]
      /\ \A u \in R : phase[u] \in {"requested", "assembling", "answered"}
      /\ \A u \in R : u \notin grapher[coordinator].known
      /\ R \in SUBSET Txs
  BY Zenon, <1>1 DEF TypeOK, UnderAssembly, KnownInv, Processing
<1>5. Forgets(grapher[coordinator], grapher'[coordinator], F)
  BY Zenon, <1>1, TypeFacts, ForgetNothing
<1>6. ~heartbeat.sent /\ active' \in BOOLEAN
  BY Zenon, <1>1 DEF TypeOK, TxInv, RoleInv
<1>7. RoleInv'
  BY Zenon, <1>1, <1>4 DEF TxInv, RoleInv, UnderAssembly
<1>8. grapher' = [grapher EXCEPT ![coordinator] = grapher'[coordinator]]
  BY Zenon, <1>1 DEF TypeOK
<1>9. \A u : u \notin F
  BY Zenon
<1>10. UNCHANGED <<minted, view, coordinator, heartbeat, chainVars>>
  BY Zenon, <1>1
<1> HIDE DEF R, F
<1> QED
  BY Zenon, <1>2, <1>3, <1>4, <1>5, <1>6, <1>7, <1>8, <1>9, <1>10, ForgetStep

\* Unwind, of a transaction past assembly, those it tells, and an assembly in
\* progress.
LEMMA UnwindStep ==
    ASSUME IInv, NEW t \in Txs, NEW to \in {"pooled", "reverted"}, NEW T, NEW cancel \in BOOLEAN,
           T = Told(t) \/ T = {},
           (phase[t] = "assembled" /\ active) \/ phase[t] = "dispatched",
           Unwind(t, to, T, cancel)
    PROVE  IInv'
<1> USE DEF IInv, GrapherInv
<1> DEFINE G == grapher[coordinator]
           R == Tells(T) \cup (IF cancel THEN UnderAssembly ELSE {}) \cup {t}
           F == T \cup {t}
<1>1. /\ phase' = [u \in Txs |-> IF u = t THEN to
                                 ELSE IF u \in R THEN "pooled" ELSE phase[u]]
      /\ post' = [u \in Txs |-> IF u \in R THEN Nothing ELSE post[u]]
      /\ grapher' = [grapher EXCEPT ![coordinator] = ForgetTransactionAndLocks(G, F)]
      /\ UNCHANGED <<minted, view, coordinator, active, heartbeat, chainVars>>
  BY Zenon DEF Unwind, roleVars
<1>2. /\ Forgets(G, grapher'[coordinator], F)
      /\ grapher' = [grapher EXCEPT ![coordinator] = grapher'[coordinator]]
  BY Zenon, <1>1, TypeFacts, ForgetFields DEF TypeOK
<1>3. T \in SUBSET Txs /\ R \in SUBSET Txs
  BY Zenon DEF Told, Tells, UnderAssembly
<1>4. \A u \in R : phase[u] \in {"requested", "assembling", "answered", "assembled", "dispatched"}
  BY Zenon DEF Tells, UnderAssembly
<1>5. \A u \in R : u \in G.known => u \in F
  BY Zenon DEF KnownInv, Processing, UnderAssembly, Tells
<1>6. ASSUME NEW u \in G.known, u \in F, u \notin R
      PROVE  phase[u] = "dispatched" /\ \E w \in R : Needs(u) \cap post[w].out # {}
  <2>1. u \in T /\ u # t /\ u \in Txs /\ T = Told(t)
    BY Zenon, <1>3, <1>6
  <2>2. PICK w \in {t} \cup Tells(T) : <<u, w>> \in G.links
    BY Zenon, <2>1, ToldIsLinked
  <2>3. w \in R /\ w \in Txs /\ phase[w] \in {"assembled", "dispatched"}
    BY Zenon, <1>3 DEF Tells
  <2>4. PICK s \in Needs(u) : s \in post[w].out
    BY Zenon, <2>1, <2>2, <2>3, TypeFacts DEF LockInv, TrueLocks, Linked
  <2>5. phase[u] # "mined"
    <3> SUFFICES ASSUME phase[u] = "mined" PROVE FALSE
      BY Zenon
    <3>1. minedAt[u] # 0 /\ minedAt[w] = 0 /\ s \notin Genesis
      BY Zenon, <2>1, <2>3, <2>4 DEF TxInv, PhaseInv, MintInv
    <3>2. PICK x \in Txs : minedAt[x] # 0 /\ s \in post[x].out
      BY Zenon, <2>1, <2>4, <3>1 DEF TxInv, LedgerInv
    <3> QED
      BY Zenon, <2>3, <2>4, <3>1, <3>2 DEF TxInv, MintInv
  <2>6. phase[u] # "assembled"
    BY Zenon, <1>6, <2>1 DEF Tells
  <2> QED
    BY Zenon, <2>3, <2>4, <2>5, <2>6 DEF KnownInv, Processing
<1>7. ~heartbeat.sent
  BY Zenon DEF TxInv, RoleInv
<1>8. \A u \in R : phase'[u] \in {"pooled", "reverted"}
  BY Zenon, <1>1, <1>3
<1>9. \A u \in Txs \ R : phase'[u] = phase[u]
  BY Zenon, <1>1
<1>10. phase' \in [Txs -> Phases]
  BY Zenon, <1>1 DEF TypeOK, Phases
<1>11. RoleInv'
  <2>1. \A u \in UnderAssembly' : u \in UnderAssembly
    BY Zenon, <1>8, <1>9 DEF UnderAssembly
  <2>2. \A u \in Txs : phase'[u] = "assembled" => phase[u] = "assembled"
    BY Zenon, <1>8, <1>9
  <2> QED
    BY Zenon, <1>1, <1>7, <2>1, <2>2 DEF TxInv, RoleInv, UnderAssembly
<1>12. active' \in BOOLEAN
  BY Zenon, <1>1 DEF TypeOK
<1> HIDE DEF R, F
<1> QED
  BY Zenon, <1>1, <1>2, <1>3, <1>4, <1>5, <1>6, <1>7, <1>8, <1>9, <1>10, <1>11, <1>12, ForgetStep

LEMMA ResetStep ==
    ASSUME IInv, NEW t \in Txs, Reset(t)
    PROVE  IInv'
  BY Zenon, UnwindStep DEF Reset

LEMMA ConfirmedRevertedStep ==
    ASSUME IInv, NEW t \in Txs, ConfirmedReverted(t)
    PROVE  IInv'
  BY Zenon, UnwindStep DEF ConfirmedReverted

LEMMA StepDownStep ==
    ASSUME IInv, StepDown
    PROVE  IInv'
<1> USE DEF IInv, GrapherInv
<1> DEFINE G == grapher[coordinator]
           T == UnderAssembly \cup {t \in Txs : phase[t] = "assembled"}
<1>1. /\ active /\ active' = FALSE
      /\ phase' = [t \in Txs |-> IF t \in T THEN "pooled" ELSE phase[t]]
      /\ post' = [t \in Txs |-> IF t \in T THEN Nothing ELSE post[t]]
      /\ grapher' = [grapher EXCEPT ![coordinator] = ForgetTransactionAndLocks(G, T)]
      /\ UNCHANGED <<minted, view, coordinator, heartbeat, chainVars>>
  BY Zenon DEF StepDown
<1>2. /\ Forgets(G, grapher'[coordinator], T)
      /\ grapher' = [grapher EXCEPT ![coordinator] = grapher'[coordinator]]
  BY Zenon, <1>1, TypeFacts, ForgetFields DEF TypeOK
<1>3. T \in SUBSET Txs
  BY Zenon DEF UnderAssembly
<1>4. \A u \in T : phase[u] \in {"requested", "assembling", "answered", "assembled", "dispatched"}
  BY Zenon DEF UnderAssembly
<1>5. phase' \in [Txs -> Phases]
  BY Zenon, <1>1 DEF TypeOK, Phases
<1>6. \A u \in T : phase'[u] = "pooled"
  BY Zenon, <1>1, <1>3
<1>7. \A u \in Txs \ T : phase'[u] = phase[u]
  BY Zenon, <1>1
<1>8. ~heartbeat.sent
  BY Zenon, <1>1 DEF TxInv, RoleInv
<1>9. RoleInv'
  <2>1. \A u \in Txs : phase'[u] \notin {"requested", "assembling", "answered", "assembled"}
    BY Zenon, <1>6, <1>7 DEF UnderAssembly
  <2> QED
    BY Zenon, <1>1, <1>8, <2>1 DEF RoleInv, UnderAssembly
<1> HIDE DEF T
<1> QED
  BY Zenon, <1>1, <1>2, <1>3, <1>4, <1>5, <1>6, <1>7, <1>8, <1>9, ForgetStep

-----------------------------------------------------------------------------
(* The dispatch and the blocks of the base ledger.                          *)

LEMMA DispatchStep ==
    ASSUME IInv, NEW t \in Txs, Dispatch(t)
    PROVE  IInv'
<1> USE DEF IInv, GrapherInv
<1>1. /\ active /\ phase[t] = "assembled" /\ phase' = [phase EXCEPT ![t] = "dispatched"]
      /\ UNCHANGED <<post, minted, view, coordinator, active, heartbeat, grapher,
                     height, indexed, minedAt>>
  BY Zenon DEF Dispatch, roleVars, chainVars
<1>2. TypeOK'
  BY Zenon, <1>1 DEF TypeOK, Phases
<1>3. PhaseInv' /\ MintInv' /\ LedgerInv'
  BY <1>1 DEF TypeOK, TxInv, PhaseInv, MintInv, LedgerInv, Needs
<1>4. RoleInv'
  BY Zenon, <1>1 DEF TypeOK, TxInv, RoleInv, UnderAssembly
<1>5. KnownInv'
  BY Zenon, <1>1, TypeFacts, GrapherFields DEF TypeOK, KnownInv, Dead, Needs, Processing
<1>6. ConfirmedTxs' = ConfirmedTxs
  BY Zenon, <1>1 DEF ConfirmedTxs, TypeOK
<1>7. LockInv' /\ HeartbeatInv' /\ ReadInv' /\ VisibleIsCreateLocked'
  BY Zenon, <1>1, <1>6, LockFrame
<1>8. Live' = Live /\ Live \subseteq Txs
  BY Zenon, <1>1, LiveFacts DEF Live, MinedBy, TxInv
<1>9. \A u \in UnderAssembly' : phase'[u] = phase[u] /\ post'[u] = post[u]
  BY Zenon, <1>1 DEF UnderAssembly, TypeOK
<1>10. DisjointInputs' /\ ViewInv'
  BY <1>1, <1>8, <1>9, ViewFrame, TypeFacts
<1> QED
  BY Zenon, <1>2, <1>3, <1>4, <1>5, <1>7, <1>10 DEF TxInv

LEMMA IndexBlockStep ==
    ASSUME IInv, NEW n \in Nodes, IndexBlock(n)
    PROVE  IInv'
<1> USE DEF IInv, GrapherInv
<1>1. /\ indexed[n] < height /\ indexed' = [indexed EXCEPT ![n] = @ + 1]
      /\ UNCHANGED <<phase, post, minted, view, coordinator, active, heartbeat, grapher,
                     height, minedAt>>
  BY Zenon DEF IndexBlock, txVars, roleVars
<1>2. TypeOK'
  BY <1>1 DEF TypeOK
<1>3. \A m \in Nodes : indexed'[m] \in Nat /\ indexed[m] <= indexed'[m]
  BY <1>1, TypeFacts DEF TypeOK
<1>4. TxInv'
  BY Zenon, <1>1, TxFrame DEF txVars, roleVars
<1>5. KnownInv'
  BY Zenon, <1>1 DEF KnownInv, Dead, Needs
<1>6. ConfirmedTxs' = ConfirmedTxs
  BY Zenon, <1>1 DEF ConfirmedTxs
<1>7. \A u \in ConfirmedTxs : minedAt[u] + Tolerance > indexed'[coordinator]
                                 => minedAt[u] + Tolerance > indexed[coordinator]
  BY <1>3, TypeFacts, BoundsAssumption DEF ConfirmedTxs
<1>8. LockInv'
  <2>0. LockInv
    BY Zenon
  <2>1. \A m \in Nodes : TrueLocks(grapher[m])'
    <3> HIDE DEF IInv, GrapherInv
    <3>1. \A m \in Nodes : Linked(grapher[m])' /\ Held(grapher[m])'
      BY Zenon, <1>1, <2>0 DEF LockInv, TrueLocks, Linked, Held, Needs
    <3>2. \A m \in Nodes : TrueSpend(grapher[m].spend)' /\ TrueCreate(grapher[m].create)'
      BY Zenon, <1>1, <1>6, <2>0 DEF LockInv, TrueLocks, TrueSpend, TrueCreate
    <3> QED
      BY Zenon, <3>1, <3>2 DEF TrueLocks
  <2>2. Owned(grapher[coordinator])'
    <3> HIDE DEF IInv, GrapherInv
    <3> QED
      BY Zenon, <1>1, <2>0 DEF LockInv, Owned
  <2>3. Kept(grapher[coordinator].create, grapher[coordinator].spend,
             grapher[coordinator].visible, indexed[coordinator])'
    BY Zenon, <1>1, <1>6, <1>7 DEF LockInv, Kept
  <2> QED
    BY Zenon, <2>1, <2>2, <2>3 DEF LockInv
<1>9. HeartbeatInv'
  BY Zenon, <1>1, <1>6, <1>7 DEF HeartbeatInv, TrueSpend, TrueCreate, Kept
<1>10. ReadInv' /\ VisibleIsCreateLocked'
  BY Zenon, <1>1 DEF ReadInv, VisibleIsCreateLocked
<1>11. Live' = Live /\ Live \subseteq Txs
  BY Zenon, <1>1, LiveFacts DEF Live, MinedBy, TxInv
<1>12. DisjointInputs' /\ ViewInv'
  BY Zenon, <1>1, <1>3, <1>11, ViewFrame DEF UnderAssembly
<1> QED
  BY Zenon, <1>2, <1>4, <1>5, <1>8, <1>9, <1>10, <1>12

LEMMA NewBlockStep ==
    ASSUME IInv, NEW T \in SUBSET Txs, NewBlock(T)
    PROVE  IInv'
<1> USE DEF IInv, GrapherInv
<1> DEFINE G == grapher[coordinator]
<1>1. /\ \A t \in T : /\ phase[t] = "dispatched"
                      /\ Needs(t) \subseteq OnChain \cup Outputs(T)
      /\ height' = height + 1
      /\ minedAt' = [t \in Txs |-> IF t \in T THEN height + 1 ELSE minedAt[t]]
      /\ phase' = [t \in Txs |-> IF t \in T THEN "mined" ELSE phase[t]]
      /\ UNCHANGED <<post, minted, view, coordinator, active, heartbeat, grapher, indexed>>
  BY Zenon DEF NewBlock, Needs, txVars, roleVars
<1>2. /\ \A t \in T : phase'[t] = "mined" /\ minedAt'[t] = height + 1 /\ minedAt[t] = 0
      /\ \A t \in Txs \ T : phase'[t] = phase[t] /\ minedAt'[t] = minedAt[t]
      /\ height \in Nat
  BY Zenon, <1>1 DEF TxInv, PhaseInv, TypeOK
<1>3. TypeOK'
  <2>1. \A n \in Nodes : indexed'[n] \in 0 .. height'
    BY <1>1, <1>2, TypeFacts
  <2>2. \A t \in Txs : minedAt'[t] \in 0 .. height'
    BY <1>1, <1>2, TypeFacts
  <2>3. phase' \in [Txs -> Phases]
    BY Zenon, <1>1 DEF TypeOK, Phases
  <2>4. indexed' \in [Nodes -> 0 .. height'] /\ minedAt' \in [Txs -> 0 .. height']
    BY Zenon, <1>1, <2>1, <2>2 DEF TypeOK
  <2> QED
    BY <1>1, <1>2, <2>3, <2>4, SMTT(40) DEF TypeOK
<1>4. PhaseInv' /\ MintInv'
  BY <1>1, <1>2 DEF TxInv, PhaseInv, MintInv
<1>5. ASSUME NEW t \in T, NEW s \in Needs(t)
      PROVE  s \in Genesis \/ \E u \in Txs : minedAt'[u] # 0 /\ s \in post[u].out
                                             /\ minedAt'[u] <= height + 1
  <2>1. CASE s \in Genesis
    BY Zenon, <2>1
  <2>2. CASE s \in Outputs(MinedBy(height))
    <3>1. PICK u \in Txs : minedAt[u] # 0 /\ s \in post[u].out
      BY Zenon, <2>2 DEF Outputs, MinedBy
    <3>2. minedAt'[u] = minedAt[u] /\ minedAt[u] \in Nat /\ minedAt[u] <= height
      BY Zenon, <1>2, <3>1, TypeFacts
    <3> QED
      BY <1>2, <3>1, <3>2
  <2>3. CASE s \in Outputs(T)
    BY <1>2, <2>3, SMTT(40) DEF Outputs
  <2> QED
    BY Zenon, <1>1, <2>1, <2>2, <2>3 DEF OnChain
<1>6. LedgerInv'
  <2>1. ASSUME NEW x \in Txs, minedAt'[x] # 0, NEW s \in Needs(x)
        PROVE  s \in Genesis \/ \E u \in Txs : /\ minedAt'[u] # 0 /\ minedAt'[u] <= minedAt'[x]
                                               /\ s \in post[u].out
    <3>1. CASE x \in T
      BY Zenon, <1>2, <1>5, <3>1
    <3>2. CASE x \notin T
      <4>1. s \in Genesis \/ \E u \in Txs : /\ minedAt[u] # 0 /\ minedAt[u] <= minedAt[x]
                                            /\ s \in post[u].out
        BY Zenon, <1>2, <2>1, <3>2 DEF TxInv, LedgerInv
      <4> QED
        BY Zenon, <1>2, <3>2, <4>1
    <3> QED
      BY Zenon, <3>1, <3>2
  <2>2. ASSUME NEW x \in Txs, NEW u \in Txs, phase'[x] = "confirmed", phase'[u] = "mined",
               NEW s \in post[u].out, s \in post[x].in
        PROVE  FALSE
    <3>1. x \notin T /\ phase[x] = "confirmed" /\ minedAt[x] # 0
      BY Zenon, <1>2, <2>2 DEF TxInv, PhaseInv
    <3>2. CASE u \notin T
      BY Zenon, <1>2, <2>2, <3>1, <3>2 DEF TxInv, LedgerInv
    <3>3. CASE u \in T
      <4>1. s \notin Genesis /\ s \in Needs(x)
        BY Zenon, <2>2 DEF TxInv, MintInv, Needs
      <4>2. PICK w \in Txs : minedAt[w] # 0 /\ s \in post[w].out
        BY Zenon, <3>1, <4>1 DEF TxInv, LedgerInv
      <4>3. w = u
        BY Zenon, <2>2, <4>2 DEF TxInv, MintInv
      <4> QED
        BY Zenon, <1>2, <3>3, <4>2, <4>3
    <3> QED
      BY Zenon, <3>2, <3>3
  <2>3. \A x \in Txs : Needs(x)' = Needs(x)
    BY Zenon, <1>1 DEF Needs
  <2> HIDE DEF IInv, GrapherInv
  <2>4. \A x, u \in Txs : (phase'[x] = "confirmed" /\ phase'[u] = "mined")
                             => post[u].out \cap post[x].in = {}
    BY Zenon, <2>2
  <2> QED
    BY <1>1, <2>1, <2>3, <2>4 DEF LedgerInv
<1>7. RoleInv'
  <2>1. \A t \in Txs : t \in UnderAssembly' => t \in UnderAssembly
    BY Zenon, <1>2 DEF UnderAssembly
  <2>2. \A t \in Txs : phase'[t] = "assembled" => phase[t] = "assembled"
    BY Zenon, <1>2
  <2>3. heartbeat.sent => \A t \in Txs : phase'[t] \notin {"dispatched", "mined"}
    BY Zenon, <1>1, <1>2 DEF TxInv, RoleInv
  <2> QED
    BY Zenon, <1>1, <2>1, <2>2, <2>3 DEF TxInv, RoleInv, UnderAssembly
<1>8. \A t \in T : t \in G.known
  <2> SUFFICES ASSUME NEW t \in T, t \notin G.known
               PROVE  FALSE
    BY Zenon
  <2>1. PICK s \in Needs(t) : Dead(s)
    BY Zenon, <1>1 DEF KnownInv, Processing
  <2> QED
    BY Zenon, <1>5, <2>1 DEF Dead
<1>9. KnownInv'
  <2>1. \A s : Dead(s) => Dead(s)'
    BY Zenon, <1>1 DEF Dead
  <2>2. \A u \in Txs : Needs(u)' = Needs(u)
    BY Zenon, <1>1 DEF Needs
  <2>3. \A u \in G.known : phase'[u] \in Processing
    BY Zenon, <1>2, TypeFacts, GrapherFields DEF KnownInv, Processing
  <2>4. \A u \in Txs : phase'[u] \in Processing =>
           u \in G.known \/ (phase'[u] = "dispatched" /\ \E s \in Needs(u)' : Dead(s)')
    BY Zenon, <1>2, <1>8, <2>1, <2>2 DEF KnownInv
  <2> QED
    BY Zenon, <1>1, <2>3, <2>4 DEF KnownInv
<1>10. ConfirmedTxs' = ConfirmedTxs /\ \A u \in ConfirmedTxs : minedAt'[u] = minedAt[u]
  BY Zenon, <1>1, <1>2 DEF ConfirmedTxs
<1>11. LockInv'
  <2>1. ASSUME NEW m \in Nodes PROVE TrueLocks(grapher[m])'
    <3>1. TrueLocks(grapher[m])
      BY Zenon DEF LockInv
    <3>2. Linked(grapher[m])' /\ Held(grapher[m])'
      BY Zenon, <1>1, <3>1 DEF TrueLocks, Linked, Held, Needs
    <3>3. TrueSpend(grapher[m].spend)' /\ TrueCreate(grapher[m].create)'
      BY Zenon, <1>1, <1>10, <3>1 DEF TrueLocks, TrueSpend, TrueCreate
    <3> QED
      BY Zenon, <3>2, <3>3 DEF TrueLocks
  <2>2. Owned(grapher[coordinator])'
    BY Zenon, <1>1 DEF LockInv, Owned
  <2>3. Kept(grapher[coordinator].create, grapher[coordinator].spend,
             grapher[coordinator].visible, indexed[coordinator])'
    BY Zenon, <1>1, <1>10 DEF LockInv, Kept
  <2> QED
    BY Zenon, <2>1, <2>2, <2>3 DEF LockInv
<1>12. HeartbeatInv'
  BY Zenon, <1>1, <1>10 DEF HeartbeatInv, TrueSpend, TrueCreate, Kept
<1>13. ReadInv' /\ VisibleIsCreateLocked'
  BY Zenon, <1>1 DEF ReadInv, VisibleIsCreateLocked
<1>14. Live' \subseteq Live /\ Live \subseteq Txs
  BY Zenon, <1>1, <1>2, <1>3, <1>8, LiveNext, LiveFacts DEF TxInv
<1>15. \A u \in UnderAssembly' : phase'[u] = phase[u] /\ post'[u] = post[u]
  BY Zenon, <1>1, <1>2 DEF UnderAssembly
<1>16. \A u \in Live : minedAt[u] # 0 => minedAt'[u] = minedAt[u]
  BY Zenon, <1>2, <1>14
<1>17. DisjointInputs' /\ ViewInv'
  <2>1. \A n \in Nodes : indexed'[n] \in Nat /\ indexed[n] <= indexed'[n]
    BY <1>1, TypeFacts
  <2>3. TypeOK /\ DisjointInputs /\ ViewInv
    BY Zenon
  <2> HIDE DEF IInv, GrapherInv
  <2>2. view' = view /\ \A u \in Live' : post'[u].in = post[u].in
    BY Zenon, <1>1
  <2> QED
    BY Zenon, <1>14, <1>15, <1>16, <2>1, <2>2, <2>3, ViewFrame
<1> QED
  BY Zenon, <1>3, <1>4, <1>6, <1>7, <1>9, <1>11, <1>12, <1>13, <1>17 DEF TxInv

-----------------------------------------------------------------------------
(* Confirmation and the handover.                                          *)

LEMMA ConfirmedSuccessStep ==
    ASSUME IInv, NEW t \in Txs, ConfirmedSuccess(t)
    PROVE  IInv'
<1> USE DEF IInv, GrapherInv
<1> DEFINE G == grapher[coordinator]
           H == grapher'[coordinator]
           left == [tx |-> NoTx, at |-> minedAt[t]]
<1>1. /\ phase[t] = "mined" /\ phase' = [phase EXCEPT ![t] = "confirmed"]
      /\ \A u \in Txs : phase[u] = "mined" => ~Before(u, t)
      /\ grapher' = [grapher EXCEPT ![coordinator] =
                        IF t \in @.known THEN ForgetTransaction(@, t, minedAt[t]) ELSE @]
      /\ UNCHANGED <<post, minted, view, coordinator, active, heartbeat, height, indexed, minedAt>>
  BY Zenon DEF ConfirmedSuccess, roleVars, chainVars
<1>2. G \in Graphers /\ minedAt[t] \in Nat /\ t \in G.known /\ minedAt[t] # 0 /\ t # NoTx
      /\ ~heartbeat.sent
  BY Zenon, <1>1, TypeFacts, TxsAssumption DEF KnownInv, Processing, TxInv, PhaseInv, RoleInv
<1>3. /\ H = ForgetTransaction(G, t, minedAt[t])
      /\ grapher' = [grapher EXCEPT ![coordinator] = H]
      /\ \A n \in Nodes \ {coordinator} : grapher'[n] = grapher[n]
  BY Zenon, <1>1, <1>2, TypeFacts DEF TypeOK
<1>4. /\ H \in Graphers
      /\ H.known = G.known \ {t}
      /\ H.visible = G.visible
      /\ H.links = {l \in G.links : l[1] # t /\ l[2] # t}
      /\ \A s \in States :
            /\ H.minter[s] = IF G.minter[s] = t THEN NoTx ELSE G.minter[s]
            /\ H.create[s] = IF G.create[s].tx = t THEN left ELSE G.create[s]
            /\ H.spend[s] = IF G.spend[s].tx = t THEN left ELSE G.spend[s]
            /\ H.read[s] = IF G.read[s].tx = t THEN left ELSE G.read[s]
  BY <1>2, <1>3, ConfirmFields, SMTT(40)
<1>5. left.tx = NoTx /\ left.at = minedAt[t] /\ Confirmed(left) /\ left # NoLock
  BY Zenon, <1>2 DEF Confirmed, NoLock
<1> HIDE DEF left, H
<1>6. /\ phase'[t] = "confirmed" /\ \A u \in Txs \ {t} : phase'[u] = phase[u]
      /\ ConfirmedTxs' = ConfirmedTxs \cup {t}
  BY Zenon, <1>1 DEF TypeOK, ConfirmedTxs
<1>7. TypeOK'
  BY <1>1, <1>3, <1>4 DEF TypeOK, Phases
<1>8. PhaseInv' /\ MintInv'
  BY Zenon, <1>1, <1>2, <1>6 DEF TxInv, PhaseInv, MintInv
<1>9. LedgerInv'
  <2>1. ASSUME NEW u \in Txs, phase'[u] = "mined", NEW s \in post[u].out, s \in post[t].in
        PROVE  FALSE
    <3>1. u # t /\ phase[u] = "mined" /\ ~Before(u, t) /\ minedAt[u] # 0
      BY Zenon, <1>1, <1>6, <2>1 DEF TxInv, PhaseInv
    <3>2. s \notin Genesis /\ s \in Needs(t)
      BY Zenon, <2>1 DEF TxInv, MintInv, Needs
    <3>3. PICK w \in Txs : minedAt[w] <= minedAt[t] /\ s \in post[w].out
      BY Zenon, <1>2, <3>2 DEF TxInv, LedgerInv
    <3>4. w = u
      BY Zenon, <2>1, <3>3 DEF TxInv, MintInv
    <3>5. minedAt[u] < minedAt[t] \/ minedAt[u] = minedAt[t]
      BY <3>3, <3>4, TypeFacts
    <3> QED
      BY Zenon, <2>1, <3>1, <3>5 DEF Before
  <2>2. \A x, u \in Txs : (phase'[x] = "confirmed" /\ phase'[u] = "mined")
                            => post[u].out \cap post[x].in = {}
    BY <1>6, <2>1 DEF TxInv, LedgerInv
  <2> QED
    BY Zenon, <1>1, <2>2 DEF TxInv, LedgerInv, Needs
<1>10. RoleInv'
  BY Zenon, <1>1, <1>2, <1>6 DEF TxInv, RoleInv, UnderAssembly
<1>11. KnownInv'
  <2>1. \A n \in Nodes : n # coordinator => grapher'[n].known = {}
    BY Zenon, <1>3 DEF KnownInv
  <2>2. \A u \in H.known : phase'[u] \in Processing
    BY Zenon, <1>2, <1>4, <1>6, GrapherFields DEF KnownInv
  <2>3. \A u \in Txs : phase'[u] \in Processing =>
           u \in H.known \/ (phase'[u] = "dispatched" /\ \E s \in Needs(u) : Dead(s))
    BY Zenon, <1>4, <1>6 DEF KnownInv, Processing
  <2> QED
    BY Zenon, <1>1, <2>1, <2>2, <2>3 DEF KnownInv, Dead, Needs, H
<1>12. Linked(grapher[coordinator])'
  <2>1. Linked(G)
    BY Zenon, TypeFacts DEF LockInv, TrueLocks
  <2>2. \A d, u \in Txs : <<d, u>> \in H.links =>
           d \in H.known /\ u \in H.known /\ Needs(d) \cap post[u].out # {}
    BY Zenon, <2>1, <1>4 DEF Linked
  <2>3. \A s \in States : H.minter[s] # NoTx =>
           H.minter[s] \in H.known /\ s \in post[H.minter[s]].out
    BY Zenon, <2>1, <1>4 DEF Linked
  <2> QED
    BY Zenon, <1>1, <2>2, <2>3 DEF Linked, Needs, H
<1>13. Held(grapher[coordinator])'
  <2>1. Held(G)
    BY Zenon, TypeFacts DEF LockInv, TrueLocks
  <2>2. ASSUME NEW s \in States, H.spend[s].tx # NoTx
        PROVE  H.spend[s].tx \in H.known /\ s \in post[H.spend[s].tx].in
    <3>1. H.spend[s] = G.spend[s] /\ G.spend[s].tx # t
      BY Zenon, <1>4, <1>5, <2>2
    <3> QED
      BY Zenon, <1>4, <2>1, <2>2, <3>1 DEF Held
  <2>3. ASSUME NEW s \in States, H.create[s].tx # NoTx
        PROVE  H.create[s].tx \in H.known /\ s \in post[H.create[s].tx].out
    <3>1. H.create[s] = G.create[s] /\ G.create[s].tx # t
      BY Zenon, <1>4, <1>5, <2>3
    <3> QED
      BY Zenon, <1>4, <2>1, <2>3, <3>1 DEF Held
  <2> QED
    BY Zenon, <1>1, <2>2, <2>3 DEF Held, H
<1>14. TrueSpend(grapher[coordinator].spend)' /\ TrueCreate(grapher[coordinator].create)'
  <2>1. TrueSpend(G.spend) /\ TrueCreate(G.create) /\ Held(G)
    BY Zenon, TypeFacts DEF LockInv, TrueLocks
  <2>2. ASSUME NEW s \in States, Confirmed(H.spend[s])
        PROVE  \E u \in ConfirmedTxs \cup {t} : minedAt[u] = H.spend[s].at /\ s \in post[u].in
    <3>1. CASE G.spend[s].tx = t
      BY Zenon, <1>2, <1>4, <1>5, <2>1, <3>1 DEF Held
    <3>2. CASE G.spend[s].tx # t
      BY Zenon, <1>4, <2>1, <2>2, <3>2 DEF TrueSpend
    <3> QED
      BY Zenon, <3>1, <3>2
  <2>3. ASSUME NEW s \in States, Confirmed(H.create[s])
        PROVE  \E u \in ConfirmedTxs \cup {t} : minedAt[u] = H.create[s].at /\ s \in post[u].out
    <3>1. CASE G.create[s].tx = t
      BY Zenon, <1>2, <1>4, <1>5, <2>1, <3>1 DEF Held
    <3>2. CASE G.create[s].tx # t
      BY Zenon, <1>4, <2>1, <2>3, <3>2 DEF TrueCreate
    <3> QED
      BY Zenon, <3>1, <3>2
  <2> QED
    BY Zenon, <1>1, <1>6, <2>2, <2>3 DEF TrueSpend, TrueCreate, H
<1>15. ASSUME NEW n \in Nodes, n # coordinator PROVE TrueLocks(grapher[n])'
  <2>1. grapher'[n] = grapher[n] /\ TrueLocks(grapher[n])
    BY Zenon, <1>3, <1>15 DEF LockInv
  <2> QED
    BY ZenonT(60), <1>1, <1>6, <2>1 DEF TrueLocks, Linked, Held, TrueSpend, TrueCreate, Needs
<1>16. Owned(grapher[coordinator])'
  <2>1. \A u \in H.known : u # t /\ u \in G.known /\ u \in Txs
    BY Zenon, <1>2, <1>4, GrapherFields
  <2>2. \A u \in H.known :
           /\ \A s \in post[u].in : H.spend[s].tx = u
           /\ \A s \in post[u].out : H.create[s].tx = u /\ s \in H.visible
    BY <1>4, <2>1, TypeFacts, SMTT(40) DEF LockInv, Owned
  <2>3. grapher'[coordinator'] = H /\ post' = post
    BY Zenon, <1>1 DEF H
  <2> QED
    BY Zenon, <2>2, <2>3 DEF Owned
<1>17. Kept(grapher[coordinator].create, grapher[coordinator].spend,
            grapher[coordinator].visible, indexed[coordinator])'
  <2> SUFFICES ASSUME NEW u \in ConfirmedTxs \cup {t},
                      minedAt[u] + Tolerance > indexed[coordinator]
               PROVE  /\ \A s \in post[u].in : Confirmed(H.spend[s])
                      /\ \A s \in post[u].out :
                            \/ \E w \in ConfirmedTxs \cup {t} : s \in post[w].in
                            \/ s \in H.visible /\ Confirmed(H.create[s])
    BY Zenon, <1>1, <1>6 DEF Kept, H
  <2>1. u \in Txs /\ post[u].in \subseteq States /\ post[u].out \subseteq States
    BY Zenon, TypeFacts DEF ConfirmedTxs
  <2>2. CASE u = t
    BY <1>2, <1>4, <1>5, <2>1, <2>2 DEF LockInv, Owned
  <2>3. CASE u \in ConfirmedTxs
    <3>1. /\ \A s \in post[u].in : Confirmed(G.spend[s])
          /\ \A s \in post[u].out : \/ \E w \in ConfirmedTxs : s \in post[w].in
                                    \/ s \in G.visible /\ Confirmed(G.create[s])
      BY Zenon, <2>3 DEF LockInv, Kept
    <3> QED
      BY Zenon, <1>2, <1>4, <1>5, <2>1, <3>1 DEF Confirmed
  <2> QED
    BY Zenon, <2>2, <2>3
<1>18. LockInv'
  BY Zenon, <1>1, <1>12, <1>13, <1>14, <1>15, <1>16, <1>17 DEF LockInv, TrueLocks
<1>19. HeartbeatInv'
  BY Zenon, <1>1, <1>2 DEF HeartbeatInv
<1>20. ReadInv'
  <2>1. NoLock.tx # t
    BY Zenon, <1>2 DEF NoLock
  <2> QED
    BY <1>1, <1>3, <1>4, <2>1, TypeFacts DEF ReadInv, H
<1>21. VisibleIsCreateLocked'
  <2>1. \A s \in H.visible : H.create[s] # NoLock
    BY <1>2, <1>4, <1>5, GrapherFields, TypeFacts, SMTT(40) DEF VisibleIsCreateLocked
  <2> QED
    BY Zenon, <1>3, <2>1 DEF VisibleIsCreateLocked, H
<1>22. Live' \subseteq Live /\ Live \subseteq Txs
  BY Zenon, <1>1, <1>4, <1>7, LiveNext, LiveFacts DEF H, TxInv
<1>23. \A u \in UnderAssembly' : phase'[u] = phase[u] /\ post'[u] = post[u]
  BY Zenon, <1>1, <1>6 DEF UnderAssembly
<1>24. DisjointInputs' /\ ViewInv'
  BY <1>1, <1>22, <1>23, ViewFrame, TypeFacts
<1> QED
  BY Zenon, <1>7, <1>8, <1>9, <1>10, <1>11, <1>18, <1>19, <1>20, <1>21, <1>24 DEF TxInv

LEMMA SendHeartbeatStep ==
    ASSUME IInv, SendHeartbeatWithLocks
    PROVE  IInv'
<1> USE DEF IInv, GrapherInv
<1> DEFINE G == grapher[coordinator]
<1>1. /\ ~active /\ \A t \in Txs : phase[t] \notin {"dispatched", "mined"}
      /\ heartbeat' = ExportStatesAndLocks(G)
      /\ UNCHANGED <<phase, post, minted, view, coordinator, active, grapher,
                     height, indexed, minedAt>>
  BY Zenon DEF SendHeartbeatWithLocks, txVars, chainVars
<1>2. G \in Graphers
  BY Zenon, TypeFacts
<1>3. /\ heartbeat' \in Snapshots /\ heartbeat'.sent = TRUE
      /\ heartbeat'.create = G.create /\ heartbeat'.spend = G.spend /\ heartbeat'.read = G.read
      /\ heartbeat'.states = {s \in G.visible : G.spend[s] = NoLock}
  <2>1. /\ G.create \in LockMaps /\ G.spend \in LockMaps /\ G.read \in LockMaps
        /\ {s \in G.visible : G.spend[s] = NoLock} \in SUBSET States
    BY Zenon, <1>2 DEF Graphers
  <2> QED
    BY Zenon, <1>1, <2>1 DEF ExportStatesAndLocks, Snapshots
<1>4. TypeOK'
  BY Zenon, <1>1, <1>3 DEF TypeOK
<1>5. PhaseInv' /\ MintInv' /\ LedgerInv'
  BY Zenon, <1>1 DEF TxInv, PhaseInv, MintInv, LedgerInv, Needs
<1>6. RoleInv'
  BY Zenon, <1>1 DEF TxInv, RoleInv, UnderAssembly
<1>7. KnownInv'
  BY Zenon, <1>1 DEF KnownInv, Dead, Needs
<1>8. ConfirmedTxs' = ConfirmedTxs
  BY Zenon, <1>1 DEF ConfirmedTxs
<1>9. LockInv'
  BY Zenon, <1>1, <1>8, LocksFrame
<1>10. G.known = {}
  BY Zenon, <1>1, <1>2, GrapherFields DEF KnownInv, Processing, TxInv, RoleInv
<1>11. Held(G) /\ TrueSpend(G.spend) /\ TrueCreate(G.create)
       /\ Kept(G.create, G.spend, G.visible, indexed[coordinator])
  BY Zenon, TypeFacts DEF LockInv, TrueLocks
<1>12. \A s \in States : G.spend[s] = NoLock \/ \E u \in ConfirmedTxs : s \in post[u].in
  BY Zenon, <1>2, <1>10, <1>11, GrapherFields, LockKinds DEF Held, TrueSpend
<1>13. Kept(G.create, G.spend, heartbeat'.states, indexed[coordinator])
  <2> SUFFICES ASSUME NEW u \in ConfirmedTxs, minedAt[u] + Tolerance > indexed[coordinator]
               PROVE  /\ \A s \in post[u].in : Confirmed(G.spend[s])
                      /\ \A s \in post[u].out :
                            \/ \E w \in ConfirmedTxs : s \in post[w].in
                            \/ s \in heartbeat'.states /\ Confirmed(G.create[s])
    BY Zenon DEF Kept
  <2>1. post[u].out \subseteq States
    BY Zenon, TypeFacts DEF ConfirmedTxs
  <2>2. /\ \A s \in post[u].in : Confirmed(G.spend[s])
        /\ \A s \in post[u].out : \/ \E w \in ConfirmedTxs : s \in post[w].in
                                  \/ s \in G.visible /\ Confirmed(G.create[s])
    BY Zenon, <1>11 DEF Kept
  <2> QED
    BY Zenon, <1>3, <1>12, <2>1, <2>2
<1>14. HeartbeatInv'
  <2>1. Kept(heartbeat.create, heartbeat.spend, heartbeat.states, indexed[coordinator])'
    BY Zenon, <1>1, <1>3, <1>8, <1>13 DEF Kept
  <2>2. TrueSpend(heartbeat.spend)' /\ TrueCreate(heartbeat.create)'
    BY Zenon, <1>1, <1>3, <1>8, <1>11 DEF TrueSpend, TrueCreate
  <2> QED
    BY Zenon, <1>3, <2>1, <2>2 DEF HeartbeatInv
<1>15. ReadInv' /\ VisibleIsCreateLocked'
  BY <1>1, <1>3, TypeFacts DEF ReadInv, VisibleIsCreateLocked
<1>16. Live' = Live /\ Live \subseteq Txs
  BY Zenon, <1>1, LiveFacts DEF Live, MinedBy, TxInv
<1>17. DisjointInputs' /\ ViewInv'
  BY <1>1, <1>16, ViewFrame, TypeFacts DEF UnderAssembly
<1> QED
  BY Zenon, <1>4, <1>5, <1>6, <1>7, <1>9, <1>14, <1>15, <1>17 DEF TxInv

LEMMA TakeOverStep ==
    ASSUME IInv, HandoverSound, NEW n \in Coordinators, TakeOver(n)
    PROVE  IInv'
<1> USE DEF IInv, GrapherInv
<1> DEFINE G == grapher[n]
           H == grapher'[n]
           hb == heartbeat
<1>1. /\ heartbeat.sent /\ n # coordinator /\ coordinator' = n /\ active' = TRUE
      /\ heartbeat' = NoHeartbeat
      /\ indexed[n] + HandoverLag >= indexed[coordinator]
      /\ grapher' = [grapher EXCEPT ![n] = ImportStatesAndLocks(@, heartbeat, n)]
      /\ UNCHANGED <<phase, post, minted, view, height, indexed, minedAt>>
  BY Zenon DEF TakeOver, txVars, chainVars
<1>2. /\ HandoverLag = 0 /\ NoReads
      /\ \A s \in States : n \in Allowed[s]
  BY Zenon, <1>1 DEF HandoverSound, TxInv, PhaseInv
<1>3. n \in Nodes /\ G \in Graphers /\ hb \in Snapshots /\ G.known = {}
      /\ indexed[n] >= indexed[coordinator]
  BY <1>1, <1>2, NodesAssumption, TypeFacts DEF TypeOK, KnownInv
<1>4. \A s \in States : hb.read[s] = NoLock
  BY Zenon, <1>2 DEF ReadInv
<1>5. /\ H = ImportStatesAndLocks(G, hb, n)
      /\ grapher' = [grapher EXCEPT ![n] = H]
      /\ \A m \in Nodes \ {n} : grapher'[m] = grapher[m]
  BY Zenon, <1>1, <1>3 DEF TypeOK
<1>6. /\ H \in Graphers
      /\ H.known = G.known /\ H.minter = G.minter /\ H.links = G.links
      /\ \A s \in States :
            /\ H.read[s] = G.read[s]
            /\ H.spend[s] = IF G.spend[s] = NoLock /\ Confirmed(hb.spend[s])
                            THEN hb.spend[s] ELSE G.spend[s]
            /\ H.create[s] = IF /\ G.create[s] = NoLock
                                /\ Confirmed(hb.create[s]) /\ ~Confirmed(hb.spend[s])
                             THEN hb.create[s] ELSE G.create[s]
      /\ H.visible = G.visible \cup
            {s \in hb.states : n \in Allowed[s]
                               /\ (Confirmed(hb.spend[s]) \/ Confirmed(hb.create[s]))}
  <2> HIDE DEF G, H, hb
  <2> QED
    BY <1>3, <1>4, <1>5, ImportFields, SMTT(40)
<1> HIDE DEF H
<1>7. /\ ~active /\ \A t \in Txs : /\ phase[t] \notin Processing
                                   /\ t \notin UnderAssembly
      /\ grapher[coordinator].known = {}
  <2>1. ~active /\ \A t \in Txs : phase[t] \notin Processing /\ t \notin UnderAssembly
    BY Zenon, <1>1 DEF TxInv, RoleInv, Processing
  <2> QED
    BY Zenon, <2>1, TypeFacts, GrapherFields DEF KnownInv
<1>8. NoHeartbeat \in Snapshots /\ ~NoHeartbeat.sent /\ ~Confirmed(NoLock)
      /\ \A s \in States : NoHeartbeat.read[s] = NoLock
  BY Zenon DEF NoHeartbeat, Snapshots, LockMaps, Locks, NoLock, Confirmed
<1>9. TypeOK'
  BY SMTT(40), <1>1, <1>3, <1>5, <1>6, <1>8 DEF TypeOK
<1>10. PhaseInv' /\ MintInv' /\ LedgerInv'
  BY Zenon, <1>1 DEF TxInv, PhaseInv, MintInv, LedgerInv, Needs
<1>11. RoleInv'
  BY Zenon, <1>1, <1>8 DEF TxInv, RoleInv, UnderAssembly
<1>12. KnownInv'
  <2>1. \A m \in Nodes : grapher'[m].known = {}
    BY <1>3, <1>5, <1>6, <1>7 DEF KnownInv, H
  <2> QED
    BY Zenon, <1>1, <1>3, <1>7, <2>1 DEF KnownInv
<1>13. ConfirmedTxs' = ConfirmedTxs
  BY Zenon, <1>1 DEF ConfirmedTxs
<1>14. /\ TrueLocks(G)
       /\ TrueSpend(hb.spend) /\ TrueCreate(hb.create)
       /\ Kept(hb.create, hb.spend, hb.states, indexed[coordinator])
       /\ \A s \in hb.states : hb.spend[s] = NoLock
  BY Zenon, <1>1, <1>3 DEF LockInv, HeartbeatInv
<1>15. \A s \in States : /\ G.spend[s] = NoLock \/ Confirmed(G.spend[s])
                         /\ G.create[s] = NoLock \/ Confirmed(G.create[s])
  BY Zenon, <1>3, <1>14, GrapherFields, LockKinds DEF TrueLocks, Held
<1>16. TrueLocks(grapher[n])'
  <2>1. Linked(grapher[n])' /\ Held(grapher[n])'
    <3>1. \A s \in States : H.spend[s].tx = NoTx /\ H.create[s].tx = NoTx
      BY <1>6, <1>15, SMTT(40) DEF Confirmed, NoLock
    <3> QED
      BY Zenon, <1>1, <1>6, <1>14, <3>1 DEF TrueLocks, Linked, Held, Needs, H
  <2>2. TrueSpend(grapher[n].spend)'
    BY SMTT(40), <1>1, <1>6, <1>13, <1>14 DEF TrueLocks, TrueSpend, H
  <2>3. TrueCreate(grapher[n].create)'
    BY SMTT(40), <1>1, <1>6, <1>13, <1>14 DEF TrueLocks, TrueCreate, H
  <2> QED
    BY Zenon, <2>1, <2>2, <2>3 DEF TrueLocks
<1>17. ASSUME NEW m \in Nodes, m # n PROVE TrueLocks(grapher[m])'
  <2>1. grapher'[m] = grapher[m] /\ TrueLocks(grapher[m])
    BY Zenon, <1>5, <1>17 DEF LockInv
  <2> QED
    BY Zenon, <1>1, <1>13, <2>1 DEF TrueLocks, Linked, Held, TrueSpend, TrueCreate, Needs
<1>18. Kept(H.create, H.spend, H.visible, indexed[n])
  <2> SUFFICES ASSUME NEW u \in ConfirmedTxs, minedAt[u] + Tolerance > indexed[n]
               PROVE  /\ \A s \in post[u].in : Confirmed(H.spend[s])
                      /\ \A s \in post[u].out : \/ \E w \in ConfirmedTxs : s \in post[w].in
                                                \/ s \in H.visible /\ Confirmed(H.create[s])
    BY Zenon DEF Kept
  <2>1. /\ u \in Txs /\ post[u].in \subseteq States /\ post[u].out \subseteq States
        /\ minedAt[u] \in Nat /\ indexed[n] \in Nat /\ indexed[coordinator] \in Nat
    BY Zenon, <1>3, TypeFacts DEF ConfirmedTxs
  <2>2. minedAt[u] + Tolerance > indexed[coordinator]
    BY <1>3, <2>1, BoundsAssumption
  <2>3. /\ \A s \in post[u].in : Confirmed(hb.spend[s])
        /\ \A s \in post[u].out : \/ \E w \in ConfirmedTxs : s \in post[w].in
                                  \/ s \in hb.states /\ Confirmed(hb.create[s])
    BY Zenon, <1>14, <2>2 DEF Kept
  <2>4. \A s \in post[u].in : Confirmed(H.spend[s])
    BY Zenon, <1>6, <1>15, <2>1, <2>3
  <2>5. ASSUME NEW s \in post[u].out, s \in hb.states, Confirmed(hb.create[s])
        PROVE  s \in H.visible /\ Confirmed(H.create[s])
    <3>1. s \in States /\ ~Confirmed(hb.spend[s])
      BY Zenon, <1>8, <1>14, <2>1, <2>5
    <3> QED
      BY Zenon, <1>2, <1>6, <1>15, <2>5, <3>1
  <2> QED
    BY Zenon, <2>3, <2>4, <2>5
<1>19. LockInv'
  <2>1. Owned(grapher[coordinator])'
    BY Zenon, <1>1, <1>3, <1>6 DEF Owned, H
  <2>2. Kept(grapher[coordinator].create, grapher[coordinator].spend,
             grapher[coordinator].visible, indexed[coordinator])'
    BY Zenon, <1>1, <1>13, <1>18 DEF Kept, H
  <2> QED
    BY Zenon, <1>16, <1>17, <2>1, <2>2 DEF LockInv
<1>20. HeartbeatInv'
  BY Zenon, <1>1, <1>8 DEF HeartbeatInv
<1>21. ReadInv'
  BY <1>1, <1>3, <1>5, <1>6, <1>8 DEF ReadInv, H
<1>22. VisibleIsCreateLocked'
  <2>1. ASSUME NEW s \in H.visible PROVE H.create[s] # NoLock
    <3>1. s \in States
      BY Zenon, <1>6, GrapherFields
    <3>2. CASE s \in G.visible
      BY <1>3, <1>6, <1>8, <3>1, <3>2, SMTT(40) DEF VisibleIsCreateLocked
    <3>3. CASE s \in hb.states /\ (Confirmed(hb.spend[s]) \/ Confirmed(hb.create[s]))
      BY Zenon, <1>6, <1>8, <1>14, <3>1, <3>3
    <3> QED
      BY Zenon, <1>6, <3>2, <3>3
  <2> QED
    BY Zenon, <1>5, <2>1 DEF VisibleIsCreateLocked, H
<1>23. Live' \subseteq Live /\ Live \subseteq Txs
  <2>1. \A u : u \in Live' => u \in Txs /\ minedAt[u] # 0
    BY Zenon, <1>1, <1>3, <1>6, <1>9, LiveNext DEF H
  <2> QED
    BY Zenon, <2>1, LiveFacts DEF TxInv
<1>24. \A u \in UnderAssembly' : phase'[u] = phase[u] /\ post'[u] = post[u]
  BY Zenon, <1>1
<1>25. DisjointInputs' /\ ViewInv'
  BY <1>1, <1>23, <1>24, ViewFrame, TypeFacts
<1> QED
  BY Zenon, <1>9, <1>10, <1>11, <1>12, <1>19, <1>20, <1>21, <1>22, <1>25 DEF TxInv

-----------------------------------------------------------------------------
(* The theorems.                                                            *)

LEMMA StepInv ==
    ASSUME IInv, HandoverSound, [Next]_vars
    PROVE  IInv'
<1>1. CASE UNCHANGED vars
  <2>1. UNCHANGED <<phase, post, minted, view, coordinator, active, heartbeat, grapher,
                    height, indexed, minedAt>>
    BY Zenon, <1>1 DEF vars, txVars, roleVars, chainVars
  <2>2. TypeOK' /\ TxInv' /\ KnownInv' /\ Live' = Live /\ ConfirmedTxs' = ConfirmedTxs
    BY Zenon, <2>1, TxFrame DEF IInv, GrapherInv, TypeOK, KnownInv, Dead, Needs, Live, MinedBy,
                         ConfirmedTxs, txVars, roleVars
  <2>3. LockInv' /\ HeartbeatInv' /\ ReadInv' /\ VisibleIsCreateLocked'
    BY Zenon, <2>1, <2>2, LockFrame DEF IInv, GrapherInv
  <2>4. DisjointInputs' /\ ViewInv'
    BY Zenon, <2>1, <2>2 DEF IInv, DisjointInputs, ViewInv
  <2> QED
    BY Zenon, <2>2, <2>3, <2>4 DEF IInv, GrapherInv
<1>2. ASSUME NEW t \in Txs,
             \/ Select(t) \/ StartAssembly(t) \/ Assemble(t)
             \/ ApplyPostAssembly(t) \/ AssemblyEnds(t) \/ Reset(t) \/ Dispatch(t)
             \/ ConfirmedReverted(t) \/ ConfirmedSuccess(t)
      PROVE  IInv'
  BY Zenon, <1>2, SelectStep, StartAssemblyStep, AssembleStep, ApplyPostAssemblyStep,
     AssemblyEndsStep, ResetStep, DispatchStep, ConfirmedRevertedStep, ConfirmedSuccessStep
<1>3. ASSUME NEW n \in Coordinators, RefreshBlockHeight(n) \/ TakeOver(n)
      PROVE  IInv'
  BY Zenon, <1>3, NodesAssumption, RefreshStep, TakeOverStep
<1>4. ASSUME NEW n \in Nodes, IndexBlock(n)
      PROVE  IInv'
  BY Zenon, <1>4, IndexBlockStep
<1>5. ASSUME NEW T \in SUBSET Txs, NewBlock(T)
      PROVE  IInv'
  BY Zenon, <1>5, NewBlockStep
<1>6. CASE StepDown
  BY Zenon, <1>6, StepDownStep
<1>7. CASE SendHeartbeatWithLocks
  BY Zenon, <1>7, SendHeartbeatStep
<1> QED
  BY Zenon, <1>1, <1>2, <1>3, <1>4, <1>5, <1>6, <1>7 DEF Next

\* The inductive invariant holds in every reachable state.
THEOREM Invariance ==
    ASSUME HandoverSound
    PROVE  Spec => []IInv
<1>1. Init => IInv
  BY Zenon, InitInv
<1>2. IInv /\ [Next]_vars => IInv'
  BY Zenon, StepInv
<1> QED
  BY <1>1, <1>2, PTL DEF Spec

\* The types of the variables; no node indexes a block that does not exist.
THEOREM TypeCorrect ==
    ASSUME HandoverSound
    PROVE  Spec => []TypeOK
<1>1. IInv => TypeOK
  BY Zenon DEF IInv
<1> QED
  BY <1>1, Invariance, PTL

\* What an originator within the tolerance selects from is exactly what is
\* available ahead of chain, however many nodes, transactions, states and
\* blocks there are, and whatever Tolerance is.
THEOREM ExactViews ==
    ASSUME HandoverSound
    PROVE  Spec => []ViewIsExact
<1>1. IInv => ViewIsExact
  BY Zenon, ExactView
<1> QED
  BY <1>1, Invariance, PTL

\* No two transactions that are processed or mined spend the same state.
THEOREM NoDoubleSpend ==
    ASSUME HandoverSound
    PROVE  Spec => []DisjointInputs
<1>1. IInv => DisjointInputs
  BY Zenon DEF IInv
<1> QED
  BY <1>1, Invariance, PTL

\* Private data ahead of chain is held only under a create lock.
THEOREM DataUnderLock ==
    ASSUME HandoverSound
    PROVE  Spec => []VisibleIsCreateLocked
<1>1. IInv => VisibleIsCreateLocked
  BY Zenon DEF IInv, GrapherInv
<1> QED
  BY <1>1, Invariance, PTL
=============================================================================
