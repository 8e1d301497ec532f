---------------------- MODULE PublicTransactions_proofs ----------------------
(***************************************************************************)
(* The safety invariants of the public transaction manager, for any number *)
(* of rows, versions and transactions in flight.                           *)
(***************************************************************************)
EXTENDS PublicTransactions, FiniteSetTheorems, WellFoundedInduction, TLAPS

(* The shape of the state. *)
MaybeVersions == 0..MaxVersion
Updates ==
  [gas : {"keep", "set", "reset"}, hash : MaybeVersions, resetHash : BOOLEAN,
   submission : MaybeVersions, lastSubmit : BOOLEAN, confirmed : BOOLEAN]
Outcomes == {"none", "ok", "failed", "underpriced", "saved", "saveFailed"}
InMemory ==
  [ver : Versions, gas : BOOLEAN, hash : MaybeVersions, lastSubmit : BOOLEAN,
   confirmed : BOOLEAN, newStatus : BOOLEAN, update : MaybeVersions, stage : Stages,
   run : {"none", "action", "persist"}, out : Outcomes, result : Outcomes,
   signed : MaybeVersions, errored : BOOLEAN, elapsed : BOOLEAN, tosave : Updates]
Rows ==
  [written : BOOLEAN, ver : Versions, nonce : Nat, completed : BOOLEAN, subs : Seq(Versions)]
PolledRows == [tx : Txs, ver : Versions, hash : MaybeVersions]
Orchestrators ==
  [state : {"none", "new", "running", "stale", "idle", "stopped"}, cancelled : BOOLEAN,
   pc : {"init", "wait", "allocate", "process", "exit"}, next : Nat,
   list : SUBSET Txs, polled : SUBSET PolledRows, todo : SUBSET Txs, changed : BOOLEAN,
   updates : SUBSET (Txs \X Versions), quiet : BOOLEAN]
Strays == [tx : Txs, run : {"action", "persist"}, signed : MaybeVersions, tosave : Updates]

Types ==
  /\ rows \in [Txs -> Rows]
  /\ updating \subseteq Txs /\ \A t \in updating : rows[t].ver < MaxVersion
  /\ ptm \in [updates : SUBSET (Txs \X Versions), confirms : SUBSET Txs]
  /\ oc \in Orchestrators
  /\ mem \in [Txs -> InMemory]
  /\ stray \subseteq Strays
  /\ chain \in [pool : SUBSET Pool, mined : Seq(Pool), indexed : Nat]
  /\ faults \in Nat

(* A transaction that is submitted was recorded when it had been signed. *)
Recorded(m, subs) ==
  /\ m.stage = "submit" => m.signed \in subs
  /\ m.stage = "sign" => m.signed # None
  /\ m.stage = "sign" /\ m.result = "ok" =>
       /\ m.tosave.submission = m.signed
       /\ m.out = "saved" => m.signed \in subs
Records ==
  /\ \A t \in Txs : Recorded(mem[t], Range(rows[t].subs))
  /\ \A g \in stray : g.run = "action" => g.signed \in Range(rows[g.tx].subs)
  /\ RecordedBeforeSubmitted

(* The nonce of a row is its place among the rows, and nextNonce, once it   *)
(* has been read, is that of the first row without one.                     *)
Nonced(t) == rows[t].nonce # None
NonceOfRow ==
  /\ \A t \in Txs : rows[t].nonce \in {None, t}
  /\ \A s, t \in Txs : s < t => /\ Nonced(t) => Nonced(s)
                                /\ rows[t].written => rows[s].written
  /\ \A t \in Txs : /\ Nonced(t) => rows[t].written
                    /\ rows[t].completed => Nonced(t)
  /\ \A h \in chain.pool \cup Range(chain.mined) : Nonced(h.tx)
NextNonce ==
  Live /\ oc.pc \notin {"init", "exit"} =>
    IF oc.next = None THEN \A t \in Txs : ~Nonced(t)
    ELSE oc.next \in 1..(MaxTx + 1) /\ \A t \in Txs : Nonced(t) <=> t < oc.next

(* There is a place for every row that was polled, and none of them is in   *)
(* flight already; those without a nonce are the first ones.                *)
Places ==
  /\ PolledTxs \cap oc.list = {}
  /\ Cardinality(oc.list) + Cardinality(PolledTxs) <= MaxInFlight
  /\ Live => /\ \A t \in oc.list : Nonced(t)
             /\ \A t \in PolledTxs : /\ rows[t].written
                                     /\ \A s \in Txs : s < t => Nonced(s) \/ s \in PolledTxs
             /\ (oc.pc = "allocate" <=> oc.polled # {})
             /\ oc.pc = "process" => oc.todo # {}

(* The updates that are queued end with the latest one, and what is in      *)
(* flight, or was polled for it, is up to date if none is queued.           *)
Queued(t) == <<t, rows[t].ver>> \in ptm.updates \cup oc.updates
UpToDate(t) == IF mem[t].update = None THEN mem[t].ver = rows[t].ver
               ELSE mem[t].update = rows[t].ver
Current ==
  /\ \A u \in ptm.updates : u[2] <= rows[u[1]].ver /\ <<u[1], rows[u[1]].ver>> \in ptm.updates
  /\ \A u \in oc.updates : u[2] <= rows[u[1]].ver /\ Queued(u[1])
  /\ Live => /\ \A t \in oc.list : Queued(t) \/ UpToDate(t)
             /\ \A p \in oc.polled : Queued(p.tx) \/ p.ver = rows[p.tx].ver

IInv == Types /\ Records /\ NonceOfRow /\ NextNonce /\ Places /\ Current /\ StoppedIsQuiescent
-----------------------------------------------------------------------------
(* What the steps of the goroutines, of the timers and of the base ledger   *)
(* leave alone.                                                             *)
Ledger == chain.pool \cup Range(chain.mined)
SameRow(r, q) ==
  /\ r.nonce = q.nonce /\ r.ver = q.ver /\ r.written = q.written
  /\ Range(q.subs) \subseteq Range(r.subs)
  /\ r.completed => q.completed \/ q.nonce # None
SameQueue ==
  /\ oc'.state = oc.state /\ oc'.pc = oc.pc /\ oc'.next = oc.next /\ oc'.list = oc.list
  /\ oc'.polled = oc.polled /\ oc'.todo = oc.todo /\ oc'.updates = oc.updates
  /\ ptm'.updates = ptm.updates
SameContent(n, m) == n.ver = m.ver /\ n.update = m.update /\ n.run \in {"none", m.run}

(* What is polled and what is in flight are rows. *)
LEMMA PolledAreRows ==
  ASSUME Types
  PROVE  PolledTxs \in SUBSET Txs /\ oc.list \in SUBSET Txs
BY DEF Types, Orchestrators, PolledTxs, PolledRows

(* A step of a goroutine, a timer or the ledger preserves the invariant if  *)
(* what it does to the transaction and what it sends are recorded.          *)
LEMMA AsyncStep ==
  ASSUME IInv, Types', SameQueue, stray' \subseteq stray,
         \A t \in Txs : /\ SameRow(rows'[t], rows[t]) /\ SameContent(mem'[t], mem[t])
                        /\ Recorded(mem'[t], Range(rows'[t].subs)),
         \A h \in Ledger' : \/ h \in Ledger
                            \/ h \in Pool /\ Nonced(h.tx) /\ h.ver \in Range(rows'[h.tx].subs)
  PROVE  IInv'
<1>1. Live' = Live /\ PolledTxs' = PolledTxs
  BY Zenon DEF Live, PolledTxs, SameQueue
<1>2. \A t \in Txs : /\ Nonced(t)' = Nonced(t) /\ Queued(t)' = Queued(t)
                     /\ UpToDate(t)' = UpToDate(t) /\ Range(rows[t].subs) \subseteq Range(rows'[t].subs)
  BY Zenon DEF Nonced, Queued, UpToDate, SameRow, SameQueue, SameContent
<1>3. Ledger \subseteq Pool /\ \A h \in Pool : h.tx \in Txs
  BY DEF IInv, Types, Ledger, Range, Pool
<1>4. Records'
  <2>1. \A g \in stray' : g.run = "action" => g.signed \in Range(rows'[g.tx].subs)
    BY Zenon, <1>2 DEF IInv, Records, Types, Strays
  <2>2. RecordedBeforeSubmitted'
    BY Zenon, <1>2, <1>3 DEF IInv, Records, RecordedBeforeSubmitted, Ledger
  <2>3. QED
    BY Zenon, <2>1, <2>2 DEF Records
<1>5. NonceOfRow'
  <2>1. \A h \in Ledger' : Nonced(h.tx)'
    BY Zenon, <1>2, <1>3 DEF IInv, NonceOfRow, Ledger
  <2>2. QED
    BY Zenon, <1>2, <2>1 DEF IInv, NonceOfRow, SameRow, Ledger, Nonced
<1>6. NextNonce'
  BY Zenon, <1>1, <1>2 DEF IInv, NextNonce, SameQueue
<1>7. Places'
  <2>1. /\ PolledTxs \subseteq Txs /\ oc.list \subseteq Txs
        /\ \A t \in Txs : rows'[t].written = rows[t].written
    BY Zenon, PolledAreRows DEF IInv, SameRow
  <2>2. QED
    BY Zenon, <1>1, <1>2, <2>1 DEF IInv, Places, SameQueue
<1>8. Current'
  <2>1. \A u \in ptm.updates \cup oc.updates : u[1] \in Txs
    BY Zenon DEF IInv, Types, Orchestrators
  <2>2. (\A t \in oc.list : t \in Txs) /\ (\A p \in oc.polled : p.tx \in Txs)
    BY Zenon DEF IInv, Types, Orchestrators, PolledRows
  <2>3. QED
    BY Zenon, <1>1, <1>2, <2>1, <2>2 DEF IInv, Current, SameQueue, SameRow
<1>9. StoppedIsQuiescent'
  BY Zenon DEF IInv, StoppedIsQuiescent, Quiescent, SameQueue, SameContent
<1>10. QED
  BY Zenon, <1>4, <1>5, <1>6, <1>7, <1>8, <1>9 DEF IInv
-----------------------------------------------------------------------------
(* The in-memory state of a transaction. *)
Good(m, subs) == m \in InMemory /\ Recorded(m, subs)

(* There may be nothing to save. *)
LEMMA NothingToSave == NoUpdates \in Updates /\ NoUpdates.submission = None
BY BoundsAssumption DEF NoUpdates, Updates, MaybeVersions, None

(* Nothing is under way in a transaction without a stage. *)
LEMMA Cleared ==
  ASSUME NEW m \in InMemory, NEW subs
  PROVE  LET n == ClearRunningStageContext(m)
         IN  Good(n, subs) /\ n.ver = m.ver /\ n.update = m.update
<1>1. None \in MaybeVersions
  BY BoundsAssumption DEF MaybeVersions, None
<1>2. QED
  BY Zenon, <1>1, NothingToSave DEF ClearRunningStageContext, Good, Recorded, InMemory, Outcomes, Stages

(* TriggerNewStageRun: only what has been recorded goes on to be submitted. *)
LEMMA Triggered ==
  ASSUME NEW m \in InMemory, NEW stage \in Stages \ {"none"}, NEW subs,
         stage = "submit" => m.signed \in subs
  PROVE  LET n == TriggerNewStageRun(m, stage)
         IN  Good(n, subs) /\ n.ver = m.ver /\ n.update = m.update
<1> DEFINE c == ClearRunningStageContext(m)
           r == IF oc.cancelled THEN "none" ELSE IF stage = "status" THEN "persist" ELSE "action"
           v == IF stage = "submit" THEN m.signed ELSE IF stage = "sign" THEN m.ver ELSE None
           u == IF stage = "status" THEN [NoUpdates EXCEPT !.confirmed = TRUE] ELSE c.tosave
<1>1. c \in InMemory /\ c.ver = m.ver /\ c.update = m.update /\ c.result = "none"
  <2>1. c \in InMemory /\ c.ver = m.ver /\ c.update = m.update
    BY Zenon, Cleared DEF Good
  <2>2. c.result = "none"
    BY Zenon DEF ClearRunningStageContext, InMemory
  <2>3. QED
    BY Zenon, <2>1, <2>2
<1>2. TriggerNewStageRun(m, stage) = [c EXCEPT !.stage = stage, !.run = r, !.signed = v, !.tosave = u]
  BY Zenon DEF TriggerNewStageRun
<1> HIDE DEF c
<1>3. r \in {"none", "action", "persist"}
  BY Zenon
<1>4. v \in MaybeVersions
  BY BoundsAssumption DEF InMemory, MaybeVersions, Versions, None
<1>5. u \in Updates
  <2>1. c.tosave \in Updates
    BY Zenon, <1>1 DEF InMemory
  <2>2. [NoUpdates EXCEPT !.confirmed = TRUE] \in Updates
    BY Zenon, NothingToSave DEF Updates
  <2>3. QED
    BY Zenon, <2>1, <2>2
<1>6. (stage = "submit" => v \in subs) /\ (stage = "sign" => v # None)
  BY DEF InMemory, Versions, None
<1> HIDE DEF r, v, u
<1> DEFINE n == TriggerNewStageRun(m, stage)
<1>7. /\ n \in InMemory /\ n.ver = c.ver /\ n.update = c.update
      /\ n.stage = stage /\ n.signed = v /\ n.result = c.result
  BY <1>1, <1>2, <1>3, <1>4, <1>5, Zenon DEF InMemory
<1>8. QED
  BY Zenon, <1>1, <1>6, <1>7 DEF Good, Recorded

(* TriggerPersistTxState saves what is to be saved, again if need be. *)
LEMMA Persisting ==
  ASSUME NEW m, NEW subs, Good(m, subs)
  PROVE  LET n == TriggerPersistTxState(m)
         IN  Good(n, subs) /\ n.ver = m.ver /\ n.update = m.update
<1> DEFINE r == IF oc.cancelled THEN "none" ELSE "persist"
           n == [m EXCEPT !.run = r, !.out = "none", !.elapsed = FALSE]
<1>1. r \in {"none", "action", "persist"}
  BY Zenon
<1> HIDE DEF r
<1>2. /\ n \in InMemory /\ n.ver = m.ver /\ n.update = m.update /\ n.out = "none"
      /\ n.stage = m.stage /\ n.result = m.result /\ n.signed = m.signed /\ n.tosave = m.tosave
  BY Zenon, <1>1 DEF Good, InMemory, Outcomes
<1>3. TriggerPersistTxState(m) = n
  BY Zenon DEF TriggerPersistTxState, r
<1> HIDE DEF n
<1>4. QED
  BY Zenon, <1>2, <1>3 DEF Good, Recorded

(* The result of a stage is what is to be saved for it: of a signature, the *)
(* submission that will match it.                                           *)
LEMMA Resulting ==
  ASSUME NEW m, NEW subs, Good(m, subs), m.out \in {"ok", "failed", "underpriced"}
  PROVE  LET n == [m EXCEPT !.result = m.out, !.tosave = StageUpdates(m, m.out)]
         IN  Good(n, subs) /\ n.ver = m.ver /\ n.update = m.update
<1> DEFINE u == StageUpdates(m, m.out)
           o == m.out
           n == [m EXCEPT !.result = o, !.tosave = u]
<1>1. u \in Updates
  <2>1. m.signed \in MaybeVersions /\ None \in MaybeVersions
    BY BoundsAssumption DEF Good, InMemory, MaybeVersions, None
  <2> DEFINE h == IF m.hash = None THEN m.signed ELSE None
  <2>2. h \in MaybeVersions
    BY Zenon, <2>1
  <2> HIDE DEF h
  <2>3. /\ [NoUpdates EXCEPT !.gas = "set", !.resetHash = TRUE] \in Updates
        /\ [NoUpdates EXCEPT !.submission = m.signed, !.hash = m.signed] \in Updates
        /\ [NoUpdates EXCEPT !.lastSubmit = TRUE, !.hash = h] \in Updates
        /\ [NoUpdates EXCEPT !.lastSubmit = TRUE, !.gas = "reset"] \in Updates
        /\ [NoUpdates EXCEPT !.lastSubmit = TRUE] \in Updates
    BY Zenon, <2>1, <2>2, NothingToSave DEF Updates
  <2>4. QED
    BY Zenon, <2>3, NothingToSave DEF StageUpdates, h
<1>2. m.stage = "sign" /\ o = "ok" => u.submission = m.signed
  BY Zenon DEF StageUpdates, NoUpdates
<1>3. o \in Outcomes
  BY Zenon DEF Outcomes
<1> HIDE DEF u
<1>4. /\ n \in InMemory /\ n.ver = m.ver /\ n.update = m.update /\ n.out = m.out
      /\ n.stage = m.stage /\ n.result = o /\ n.signed = m.signed /\ n.tosave = u
  BY Zenon, <1>1, <1>3 DEF Good, InMemory
<1> HIDE DEF n
<1>5. Good(n, subs)
  BY Zenon, <1>2, <1>4 DEF Good, Recorded
<1>6. QED
  BY Zenon, <1>4, <1>5 DEF n, u

(* What follows the saving of a result: a signature that was saved may be   *)
(* submitted.                                                               *)
LEMMA Saved ==
  ASSUME NEW m, NEW subs, Good(m, subs), m.out = "saved"
  PROVE  LET n == StageSaved(m)
         IN  Good(n, subs) /\ n.ver = m.ver /\ n.update = m.update
<1>1. CASE m.stage = "status"
  <2> DEFINE c == ClearRunningStageContext(m)
             s == c.newStatus /\ ~m.confirmed
             n == [c EXCEPT !.newStatus = s]
  <2>1. Good(c, subs) /\ c.ver = m.ver /\ c.update = m.update
    BY Zenon, Cleared DEF Good
  <2>2. StageSaved(m) = n
    BY Zenon, <1>1 DEF StageSaved
  <2> HIDE DEF c
  <2>3. s \in BOOLEAN
    BY Zenon
  <2> HIDE DEF s
  <2>4. /\ n \in InMemory /\ n.ver = c.ver /\ n.update = c.update /\ n.out = c.out
        /\ n.stage = c.stage /\ n.result = c.result /\ n.signed = c.signed /\ n.tosave = c.tosave
    BY Zenon, <2>1, <2>3 DEF Good, InMemory
  <2> HIDE DEF n
  <2>5. Good(n, subs)
    BY Zenon, <2>1, <2>4 DEF Good, Recorded
  <2>6. QED
    BY Zenon, <2>1, <2>2, <2>4, <2>5
<1>2. CASE m.stage # "status" /\ m.result # "ok"
  <2> DEFINE n == [m EXCEPT !.errored = TRUE, !.out = "none"]
  <2>1. StageSaved(m) = n
    BY Zenon, <1>2 DEF StageSaved
  <2>2. /\ n \in InMemory /\ n.ver = m.ver /\ n.update = m.update /\ n.out = "none"
        /\ n.stage = m.stage /\ n.result = m.result /\ n.signed = m.signed /\ n.tosave = m.tosave
    BY Zenon DEF Good, InMemory, Outcomes
  <2> HIDE DEF n
  <2>3. Good(n, subs)
    BY Zenon, <2>2 DEF Good, Recorded
  <2>4. QED
    BY Zenon, <2>1, <2>2, <2>3
<1>3. CASE m.stage = "sign" /\ m.result = "ok"
  <2>1. StageSaved(m) = TriggerNewStageRun(m, "submit")
    BY Zenon, <1>3 DEF StageSaved
  <2>2. m \in InMemory /\ m.signed \in subs /\ "submit" \in Stages \ {"none"}
    BY Zenon, <1>3 DEF Good, Recorded, Stages
  <2>3. QED
    BY Zenon, <2>1, <2>2, Triggered
<1>4. CASE m.stage \notin {"status", "sign"} /\ m.result = "ok"
  <2>1. StageSaved(m) = ClearRunningStageContext(m)
    BY Zenon, <1>4 DEF StageSaved
  <2>2. QED
    BY Zenon, <2>1, Cleared DEF Good
<1>5. QED
  BY Zenon, <1>1, <1>2, <1>3, <1>4

(* processCurrentGenerationStageOutputs *)
LEMMA Processed ==
  ASSUME NEW m, NEW subs, Good(m, subs)
  PROVE  LET n == ProcessStageOutputs(m)
         IN  Good(n, subs) /\ n.ver = m.ver /\ n.update = m.update
<1> DEFINE r == [m EXCEPT !.result = m.out, !.tosave = StageUpdates(m, m.out)]
           n == CASE m.out = "none" -> m
                  [] m.out = "saveFailed" -> IF m.elapsed THEN TriggerPersistTxState(m) ELSE m
                  [] m.out = "saved" -> StageSaved(m)
                  [] OTHER -> TriggerPersistTxState(r)
           p == IF n.errored /\ n.elapsed THEN ClearRunningStageContext(n) ELSE n
<1>1. Good(n, subs) /\ n.ver = m.ver /\ n.update = m.update
  <2>1. CASE m.out = "none"
    BY Zenon, <2>1
  <2>2. CASE m.out = "saveFailed"
    BY Zenon, <2>2, Persisting
  <2>3. CASE m.out = "saved"
    BY Zenon, <2>3, Saved
  <2>4. CASE m.out \in {"ok", "failed", "underpriced"}
    <3>1. Good(r, subs) /\ r.ver = m.ver /\ r.update = m.update
      BY Zenon, <2>4, Resulting
    <3>2. n = TriggerPersistTxState(r)
      BY Zenon, <2>4
    <3> HIDE DEF r, n
    <3>3. QED
      BY Zenon, <3>1, <3>2, Persisting
  <2>5. QED
    BY Zenon, <2>1, <2>2, <2>3, <2>4 DEF Good, InMemory, Outcomes
<1>2. ProcessStageOutputs(m) = p
  BY Zenon DEF ProcessStageOutputs
<1> HIDE DEF n
<1>3. CASE n.errored /\ n.elapsed
  BY Zenon, <1>1, <1>2, <1>3, Cleared DEF Good
<1>4. CASE ~(n.errored /\ n.elapsed)
  BY Zenon, <1>1, <1>2, <1>4
<1>5. QED
  BY Zenon, <1>3, <1>4

(* startNewStage *)
LEMMA Started ==
  ASSUME NEW m, NEW subs, Good(m, subs)
  PROVE  LET n == StartNewStage(m)
         IN  Good(n, subs) /\ n.ver = m.ver /\ n.update = m.update
<1>1. ASSUME NEW stage \in {"status", "gas", "sign"}
      PROVE  LET n == TriggerNewStageRun(m, stage)
             IN  Good(n, subs) /\ n.ver = m.ver /\ n.update = m.update
  BY Zenon, Triggered DEF Good, Stages
<1>2. StartNewStage(m) \in {m} \cup {TriggerNewStageRun(m, stage) : stage \in {"status", "gas", "sign"}}
  BY Zenon DEF StartNewStage
<1>3. QED
  BY Zenon, <1>1, <1>2

(* A new generation takes the update, drops what was under way and keeps    *)
(* the record.                                                              *)
LEMMA Generated ==
  ASSUME NEW m, NEW subs, Good(m, subs)
  PROVE  LET n == NewGeneration(m)
         IN  /\ Good(n, subs) /\ n.update = None
             /\ n.ver = IF m.update = None THEN m.ver ELSE m.update
<1>1. CASE m.update = None
  BY Zenon, <1>1 DEF NewGeneration
<1>2. CASE m.update # None
  <2> DEFINE u == m.update
             n == [m EXCEPT !.ver = u, !.update = None, !.gas = FALSE, !.hash = None]
  <2>1. u \in Versions /\ None \in MaybeVersions
    BY <1>2, BoundsAssumption DEF Good, InMemory, MaybeVersions, Versions, None
  <2>2. NewGeneration(m) = ClearRunningStageContext(n)
    BY Zenon, <1>2 DEF NewGeneration
  <2> HIDE DEF u
  <2>3. n \in InMemory /\ n.ver = u /\ n.update = None
    BY Zenon, <2>1 DEF Good, InMemory
  <2> HIDE DEF n
  <2>4. QED
    BY <1>2, <2>2, <2>3, Cleared DEF u
<1>3. QED
  BY Zenon, <1>1, <1>2

(* ApplyInMemoryUpdates touches neither the content nor the stage. *)
LEMMA Applied ==
  ASSUME NEW m \in InMemory, NEW u \in Updates
  PROVE  LET n == ApplyInMemoryUpdates(m, u)
         IN  /\ n \in InMemory /\ n.ver = m.ver /\ n.update = m.update /\ n.run = m.run
             /\ n.stage = m.stage /\ n.result = m.result /\ n.out = m.out
             /\ n.signed = m.signed /\ n.tosave = m.tosave
<1> DEFINE g == (m.gas \/ u.gas = "set") /\ u.gas # "reset"
           h == IF u.resetHash THEN None ELSE IF u.hash # None THEN u.hash ELSE m.hash
           l == m.lastSubmit \/ u.lastSubmit
           c == m.confirmed \/ u.confirmed
<1>1. g \in BOOLEAN /\ l \in BOOLEAN /\ c \in BOOLEAN
  BY Zenon
<1>2. h \in MaybeVersions
  BY BoundsAssumption DEF InMemory, Updates, MaybeVersions, None
<1>3. ApplyInMemoryUpdates(m, u) =
        [m EXCEPT !.gas = g, !.hash = h, !.lastSubmit = l, !.confirmed = c]
  BY Zenon DEF ApplyInMemoryUpdates
<1> HIDE DEF g, h, l, c
<1>4. QED
  BY <1>1, <1>2, <1>3, ZenonT(60) DEF InMemory

-----------------------------------------------------------------------------
(* The steps. *)

(* The invariant, read for the in-memory state of one transaction. *)
LEMMA GoodMem ==
  ASSUME IInv
  PROVE  \A t \in Txs : Good(mem[t], Range(rows[t].subs)) /\ rows[t] \in Rows
BY Zenon DEF IInv, Types, Records, Good

(* A step that writes nothing keeps the rows as they are. *)
LEMMA UnchangedRows ==
  ASSUME rows' = rows
  PROVE  \A t \in Txs : SameRow(rows'[t], rows[t])
BY Zenon DEF SameRow

(* A step that sends nothing keeps the ledger as it is. *)
LEMMA UnchangedLedger ==
  ASSUME chain' = chain
  PROVE  Ledger' = Ledger
BY Zenon DEF Ledger

(* The goroutine of a stage ends with a result. *)
LEMMA StageOutputStep ==
  ASSUME IInv, NEW t \in Txs, mem[t].run \in {"action", "persist"}, NEW out \in Outcomes,
         out = "saved" => mem[t].stage # "sign", StageOutput(t, out)
  PROVE  /\ mem' \in [Txs -> InMemory]
         /\ \A x \in Txs : /\ SameContent(mem'[x], mem[x])
                           /\ Recorded(mem'[x], Range(rows[x].subs))
<1> DEFINE n == [mem[t] EXCEPT !.run = "none", !.out = out]
<1>1. mem \in [Txs -> InMemory] /\ \A x \in Txs : Recorded(mem[x], Range(rows[x].subs))
  BY Zenon DEF IInv, Types, Records
<1>2. mem[t] \in InMemory
  BY Zenon, <1>1
<1>3. /\ n \in InMemory /\ n.ver = mem[t].ver /\ n.update = mem[t].update /\ n.run = "none"
      /\ n.stage = mem[t].stage /\ n.result = mem[t].result /\ n.out = out
      /\ n.signed = mem[t].signed /\ n.tosave = mem[t].tosave
  BY Zenon, <1>2 DEF InMemory
<1>4. mem' = [mem EXCEPT ![t] = n]
  BY Zenon, <1>1, <1>2 DEF StageOutput, InMemory
<1> HIDE DEF n
<1>5. Recorded(n, Range(rows[t].subs))
  BY Zenon, <1>1, <1>3 DEF Recorded
<1>6. \A x \in Txs : mem'[x] = IF x = t THEN n ELSE mem[x]
  BY Zenon, <1>1, <1>4
<1>7. QED
  BY Zenon, <1>1, <1>3, <1>4, <1>5, <1>6 DEF SameContent

(* A result that saved nothing, of whatever stage. *)
LEMMA EndsStep ==
  ASSUME IInv, NEW t \in Txs, mem[t].run # "none", NEW out \in Outcomes \ {"saved"},
         StageOutput(t, out), UNCHANGED <<rows, updating, ptm, oc, stray, chain>>, faults' \in Nat
  PROVE  IInv'
<1>1. mem[t].run \in {"action", "persist"}
  BY Zenon, GoodMem DEF Good, InMemory
<1>2. /\ mem' \in [Txs -> InMemory]
      /\ \A x \in Txs : SameContent(mem'[x], mem[x]) /\ Recorded(mem'[x], Range(rows[x].subs))
  BY Zenon, <1>1, StageOutputStep
<1>3. Types'
  BY Zenon, <1>2 DEF IInv, Types
<1>4. SameQueue /\ stray' \subseteq stray
  BY Zenon DEF SameQueue
<1>5. QED
  BY Zenon, <1>2, <1>3, <1>4, UnchangedRows, UnchangedLedger, AsyncStep

(* eth_sendRawTransaction of what was recorded. *)
LEMMA SentFacts ==
  ASSUME IInv, NEW t \in Txs, NEW v \in Range(rows[t].subs), SendRawTransaction(t, v)
  PROVE  /\ chain' \in [pool : SUBSET Pool, mined : Seq(Pool), indexed : Nat]
         /\ \A h \in Ledger' : \/ h \in Ledger
                               \/ h \in Pool /\ Nonced(h.tx) /\ h.ver \in Range(rows[h.tx].subs)
<1> DEFINE s == [tx |-> t, ver |-> v]
           pool == {h \in chain.pool : h.tx # t} \cup {s}
<1>1. chain \in [pool : SUBSET Pool, mined : Seq(Pool), indexed : Nat] /\ rows[t] \in Rows
  BY Zenon DEF IInv, Types
<1>2. CASE rows[t].nonce <= Len(chain.mined)
  BY Zenon, <1>1, <1>2 DEF SendRawTransaction, Ledger
<1>3. CASE ~(rows[t].nonce <= Len(chain.mined))
  <2>1. Nonced(t)
    BY <1>1, <1>3 DEF Nonced, None
  <2>2. v \in Versions
    BY <1>1 DEF Rows, Range
  <2>3. s \in Pool /\ s.tx = t /\ s.ver = v
    BY <2>2 DEF Pool
  <2>4. chain' = [chain EXCEPT !.pool = pool]
    BY Zenon, <1>3 DEF SendRawTransaction
  <2>5. pool \subseteq Pool /\ pool \subseteq chain.pool \cup {s}
    BY Zenon, <1>1, <2>3
  <2> HIDE DEF pool
  <2>6. chain'.pool = pool /\ chain'.mined = chain.mined
        /\ chain' \in [pool : SUBSET Pool, mined : Seq(Pool), indexed : Nat]
    BY Zenon, <1>1, <2>4, <2>5
  <2> HIDE DEF s
  <2>7. QED
    BY Zenon, <2>1, <2>3, <2>5, <2>6 DEF Ledger
<1>4. QED
  BY Zenon, <1>2, <1>3

(* A submission, whether its answer comes or is lost. *)
LEMMA SubmitStep ==
  ASSUME IInv, NEW t \in Txs, TriggerSubmitTx(t) \/ SubmitResponseLost(t)
  PROVE  IInv'
<1>1. PICK out \in {"ok", "failed"} : StageOutput(t, out)
  BY Zenon DEF TriggerSubmitTx, SubmitResponseLost
<1>2. /\ mem[t].run = "action" /\ mem[t].stage = "submit" /\ SendRawTransaction(t, mem[t].signed)
      /\ UNCHANGED <<rows, updating, ptm, oc, stray>> /\ faults' \in Nat
  BY DEF TriggerSubmitTx, SubmitResponseLost, Fault, IInv, Types
<1>3. mem[t].signed \in Range(rows[t].subs)
  BY Zenon, <1>2, GoodMem DEF Good, Recorded
<1>4. /\ mem' \in [Txs -> InMemory]
      /\ \A x \in Txs : SameContent(mem'[x], mem[x]) /\ Recorded(mem'[x], Range(rows[x].subs))
  BY Zenon, <1>1, <1>2, StageOutputStep DEF Outcomes
<1>5. /\ chain' \in [pool : SUBSET Pool, mined : Seq(Pool), indexed : Nat]
      /\ \A h \in Ledger' : \/ h \in Ledger
                            \/ h \in Pool /\ Nonced(h.tx) /\ h.ver \in Range(rows[h.tx].subs)
  BY Zenon, <1>2, <1>3, SentFacts
<1>6. Types'
  BY Zenon, <1>2, <1>4, <1>5 DEF IInv, Types
<1>7. SameQueue /\ stray' \subseteq stray
  BY Zenon, <1>2 DEF SameQueue
<1>8. QED
  BY Zenon, <1>2, <1>4, <1>5, <1>6, <1>7, UnchangedRows, AsyncStep

(* The same of a superseded generation, or the end of such a goroutine. *)
LEMMA StrayEndsStep ==
  ASSUME IInv, NEW g \in stray, StraySubmits(g) \/ StrayCancelled(g)
  PROVE  IInv'
<1>1. /\ UNCHANGED <<rows, updating, ptm, oc, mem, faults>> /\ stray' \subseteq stray
      /\ g.tx \in Txs
  BY Zenon DEF StraySubmits, StrayCancelled, IInv, Types, Strays
<1>2. /\ chain' \in [pool : SUBSET Pool, mined : Seq(Pool), indexed : Nat]
      /\ \A h \in Ledger' : \/ h \in Ledger
                            \/ h \in Pool /\ Nonced(h.tx) /\ h.ver \in Range(rows[h.tx].subs)
  <2>1. CASE StraySubmits(g)
    <3>1. g.signed \in Range(rows[g.tx].subs) /\ SendRawTransaction(g.tx, g.signed)
      BY Zenon, <2>1 DEF StraySubmits, IInv, Records
    <3>2. QED
      BY Zenon, <1>1, <3>1, SentFacts
  <2>2. CASE StrayCancelled(g)
    BY Zenon, <2>2, UnchangedLedger DEF StrayCancelled, IInv, Types
  <2>3. QED
    BY Zenon, <2>1, <2>2
<1>3. Types'
  BY Zenon, <1>1, <1>2 DEF IInv, Types
<1>4. /\ SameQueue
      /\ \A t \in Txs : SameContent(mem'[t], mem[t]) /\ Recorded(mem'[t], Range(rows'[t].subs))
  BY Zenon, <1>1 DEF SameQueue, SameContent, IInv, Records
<1>5. QED
  BY Zenon, <1>1, <1>2, <1>3, <1>4, UnchangedRows, AsyncStep

(* The submission writer appends, and records nothing twice. *)
LEMMA WrittenRows ==
  ASSUME IInv, NEW t \in Txs, NEW v \in MaybeVersions, WriteSubmission(t, v)
  PROVE  /\ rows' \in [Txs -> Rows]
         /\ \A x \in Txs : SameRow(rows'[x], rows[x])
         /\ v # None => v \in Range(rows'[t].subs)
<1>1. rows \in [Txs -> Rows] /\ rows[t] \in Rows
  BY Zenon DEF IInv, Types
<1>2. CASE v = None \/ v \in Range(rows[t].subs)
  BY Zenon, <1>1, <1>2, UnchangedRows DEF WriteSubmission
<1>3. CASE ~(v = None \/ v \in Range(rows[t].subs))
  <2> DEFINE q == Append(rows[t].subs, v)
             r == [rows[t] EXCEPT !.subs = q]
  <2>1. v \in Versions /\ rows[t].subs \in Seq(Versions)
    BY <1>1, <1>3 DEF MaybeVersions, Versions, None, Rows
  <2>2. q \in Seq(Versions) /\ Range(rows[t].subs) \subseteq Range(q) /\ v \in Range(q)
    <3>1. q \in Seq(Versions) /\ Len(q) = Len(rows[t].subs) + 1 /\ q[Len(q)] = v
          /\ \A i \in 1..Len(rows[t].subs) : q[i] = rows[t].subs[i]
      BY <2>1
    <3> HIDE DEF q
    <3>2. Len(rows[t].subs) \in Nat /\ DOMAIN q = 1..Len(q)
          /\ DOMAIN rows[t].subs = 1..Len(rows[t].subs)
      BY <2>1, <3>1
    <3>3. QED
      BY <3>1, <3>2 DEF Range
  <2>3. rows' = [rows EXCEPT ![t] = r]
    BY Zenon, <1>1, <1>3 DEF WriteSubmission
  <2> HIDE DEF q
  <2>4. r \in Rows /\ SameRow(r, rows[t]) /\ r.subs = q
    BY Zenon, <1>1, <2>2 DEF Rows, SameRow
  <2> HIDE DEF r
  <2>5. rows' \in [Txs -> Rows] /\ \A x \in Txs : rows'[x] = IF x = t THEN r ELSE rows[x]
    BY Zenon, <1>1, <2>3, <2>4
  <2>6. QED
    BY Zenon, <2>2, <2>4, <2>5 DEF SameRow
<1>4. QED
  BY Zenon, <1>2, <1>3

(* PersistTxState: the record is in the database before the stage goes on. *)
LEMMA PersistStep ==
  ASSUME IInv, NEW t \in Txs, PersistTxState(t)
  PROVE  IInv'
<1> DEFINE m == mem[t]
           a == ApplyInMemoryUpdates(m, m.tosave)
           n == [a EXCEPT !.run = "none", !.out = "saved"]
           v == m.tosave.submission
<1>1. mem \in [Txs -> InMemory] /\ m \in InMemory /\ m.tosave \in Updates /\ v \in MaybeVersions
  <2>1. mem \in [Txs -> InMemory] /\ m \in InMemory
    BY Zenon DEF IInv, Types
  <2>2. m.tosave \in Updates
    BY Zenon, <2>1 DEF InMemory
  <2>3. QED
    BY Zenon, <2>1, <2>2 DEF Updates
<1>2. /\ rows' \in [Txs -> Rows] /\ \A x \in Txs : SameRow(rows'[x], rows[x])
      /\ v # None => v \in Range(rows'[t].subs)
  BY Zenon, <1>1, WrittenRows DEF PersistTxState
<1>3. /\ a \in InMemory /\ a.ver = m.ver /\ a.update = m.update /\ a.run = m.run
      /\ a.stage = m.stage /\ a.result = m.result /\ a.out = m.out
      /\ a.signed = m.signed /\ a.tosave = m.tosave
  BY Zenon, <1>1, Applied
<1>4. mem' = [mem EXCEPT ![t] = n]
  BY Zenon, <1>1 DEF PersistTxState
<1> HIDE DEF a
<1>5. /\ n \in InMemory /\ n.ver = a.ver /\ n.update = a.update /\ n.run = "none"
      /\ n.stage = a.stage /\ n.result = a.result /\ n.out = "saved"
      /\ n.signed = a.signed /\ n.tosave = a.tosave
  BY Zenon, <1>3 DEF InMemory, Outcomes
<1> HIDE DEF n
<1>6. Recorded(n, Range(rows'[t].subs))
  <2>1. Recorded(m, Range(rows[t].subs)) /\ Range(rows[t].subs) \subseteq Range(rows'[t].subs)
    BY Zenon, <1>2 DEF IInv, Records, SameRow
  <2>2. QED
    BY Zenon, <1>2, <1>3, <1>5, <2>1 DEF Recorded
<1>7. mem' \in [Txs -> InMemory] /\ \A x \in Txs : mem'[x] = IF x = t THEN n ELSE mem[x]
  BY Zenon, <1>1, <1>4, <1>5
<1>8. \A x \in Txs : SameContent(mem'[x], mem[x]) /\ Recorded(mem'[x], Range(rows'[x].subs))
  <2> SUFFICES ASSUME NEW x \in Txs
               PROVE  SameContent(mem'[x], mem[x]) /\ Recorded(mem'[x], Range(rows'[x].subs))
    BY Zenon
  <2>1. Recorded(mem[x], Range(rows[x].subs)) /\ Range(rows[x].subs) \subseteq Range(rows'[x].subs)
    BY Zenon, <1>2 DEF IInv, Records, SameRow
  <2>2. CASE x = t
    BY Zenon, <1>3, <1>5, <1>6, <1>7, <2>2 DEF SameContent
  <2>3. CASE x # t
    BY Zenon, <1>7, <2>1, <2>3 DEF SameContent, Recorded
  <2>4. QED
    BY Zenon, <2>2, <2>3
<1>9. Types'
  BY Zenon, <1>2, <1>7 DEF PersistTxState, IInv, Types, SameRow
<1>10. SameQueue /\ stray' \subseteq stray /\ Ledger' = Ledger
  BY Zenon, UnchangedLedger DEF PersistTxState, SameQueue
<1>11. QED
  BY Zenon, <1>2, <1>8, <1>9, <1>10, AsyncStep

(* One transaction changes, and the record only grows. *)
LEMMA OneChanges ==
  ASSUME IInv, NEW t \in Txs, NEW n, mem' = [mem EXCEPT ![t] = n],
         \A x \in Txs : SameRow(rows'[x], rows[x]),
         Good(n, Range(rows'[t].subs)), SameContent(n, mem[t])
  PROVE  /\ mem' \in [Txs -> InMemory]
         /\ \A x \in Txs : SameContent(mem'[x], mem[x]) /\ Recorded(mem'[x], Range(rows'[x].subs))
<1>1. mem \in [Txs -> InMemory]
  BY Zenon DEF IInv, Types
<1>2. mem' \in [Txs -> InMemory] /\ \A x \in Txs : mem'[x] = IF x = t THEN n ELSE mem[x]
  BY Zenon, <1>1 DEF Good
<1>3. SUFFICES ASSUME NEW x \in Txs
               PROVE  SameContent(mem'[x], mem[x]) /\ Recorded(mem'[x], Range(rows'[x].subs))
  BY Zenon, <1>2
<1>4. Recorded(mem[x], Range(rows[x].subs)) /\ Range(rows[x].subs) \subseteq Range(rows'[x].subs)
  BY Zenon DEF IInv, Records, SameRow
<1>5. CASE x = t
  BY Zenon, <1>2, <1>5 DEF Good
<1>6. CASE x # t
  BY Zenon, <1>2, <1>4, <1>6 DEF SameContent, Recorded
<1>7. QED
  BY Zenon, <1>5, <1>6

(* A goroutine of a superseded generation saves what it was about to save. *)
LEMMA StrayPersistStep ==
  ASSUME IInv, NEW g \in stray, StrayPersists(g)
  PROVE  IInv'
<1> DEFINE t == g.tx
           n == ApplyInMemoryUpdates(mem[t], g.tosave)
           v == g.tosave.submission
<1>1. t \in Txs /\ g.tosave \in Updates /\ v \in MaybeVersions
  BY Zenon DEF IInv, Types, Strays, Updates
<1>2. rows' \in [Txs -> Rows] /\ \A x \in Txs : SameRow(rows'[x], rows[x])
  BY Zenon, <1>1, WrittenRows DEF StrayPersists
<1>3. mem \in [Txs -> InMemory] /\ mem[t] \in InMemory
  BY Zenon, <1>1 DEF IInv, Types
<1>4. mem' = [mem EXCEPT ![t] = n]
  BY Zenon, <1>3 DEF StrayPersists
<1>5. /\ n \in InMemory /\ n.ver = mem[t].ver /\ n.update = mem[t].update /\ n.run = mem[t].run
      /\ n.stage = mem[t].stage /\ n.result = mem[t].result /\ n.out = mem[t].out
      /\ n.signed = mem[t].signed /\ n.tosave = mem[t].tosave
  BY Zenon, <1>1, <1>3, Applied
<1>6. Recorded(mem[t], Range(rows[t].subs)) /\ Range(rows[t].subs) \subseteq Range(rows'[t].subs)
  BY Zenon, <1>1, <1>2 DEF IInv, Records, SameRow
<1> HIDE DEF n
<1>7. Good(n, Range(rows'[t].subs)) /\ SameContent(n, mem[t])
  BY Zenon, <1>5, <1>6 DEF Good, Recorded, SameContent
<1>8. /\ mem' \in [Txs -> InMemory]
      /\ \A x \in Txs : SameContent(mem'[x], mem[x]) /\ Recorded(mem'[x], Range(rows'[x].subs))
  <2> HIDE DEF t
  <2>1. QED
    BY Zenon, <1>1, <1>2, <1>4, <1>7, OneChanges
<1>9. Types'
  BY Zenon, <1>2, <1>8 DEF StrayPersists, IInv, Types, SameRow
<1>10. SameQueue /\ stray' \subseteq stray /\ Ledger' = Ledger
  BY Zenon, UnchangedLedger DEF StrayPersists, SameQueue
<1>11. QED
  BY Zenon, <1>2, <1>8, <1>9, <1>10, AsyncStep

(* A timeout of one transaction, and the notification of its receipt. *)
LEMMA NotedStep ==
  ASSUME IInv, NEW t \in Txs, Elapse(t) \/ NotifyConfirmPersisted(t)
  PROVE  IInv'
<1> DEFINE m == mem[t]
<1>1. /\ UNCHANGED <<rows, updating, oc, stray, chain, faults>> /\ ptm'.updates = ptm.updates
      /\ ptm' \in [updates : SUBSET (Txs \X Versions), confirms : SUBSET Txs]
  BY Zenon DEF Elapse, NotifyConfirmPersisted, IInv, Types
<1>2. mem \in [Txs -> InMemory] /\ Good(m, Range(rows[t].subs)) /\ m \in InMemory
  BY Zenon, GoodMem DEF IInv, Types, Good
<1>3. PICK n \in {m, [m EXCEPT !.elapsed = TRUE], [m EXCEPT !.newStatus = TRUE]} :
        mem' = [mem EXCEPT ![t] = n]
  BY Zenon, <1>2 DEF Elapse, NotifyConfirmPersisted
<1>4. /\ n \in InMemory /\ n.ver = m.ver /\ n.update = m.update /\ n.run = m.run
      /\ n.stage = m.stage /\ n.result = m.result /\ n.out = m.out
      /\ n.signed = m.signed /\ n.tosave = m.tosave
  BY Zenon, <1>2 DEF InMemory
<1>5. Good(n, Range(rows'[t].subs)) /\ SameContent(n, m)
  BY Zenon, <1>1, <1>2, <1>4 DEF Good, Recorded, SameContent
<1>6. /\ mem' \in [Txs -> InMemory]
      /\ \A x \in Txs : SameContent(mem'[x], mem[x]) /\ Recorded(mem'[x], Range(rows'[x].subs))
  BY Zenon, <1>1, <1>3, <1>5, UnchangedRows, OneChanges
<1>7. Types'
  BY Zenon, <1>1, <1>6 DEF IInv, Types
<1>8. SameQueue /\ stray' \subseteq stray /\ Ledger' = Ledger
  BY Zenon, <1>1, UnchangedLedger DEF SameQueue
<1>9. QED
  BY Zenon, <1>1, <1>6, <1>7, <1>8, UnchangedRows, AsyncStep

(* Nothing in memory changes. *)
LEMMA UnchangedMem ==
  ASSUME IInv, mem' = mem, \A x \in Txs : SameRow(rows'[x], rows[x])
  PROVE  \A x \in Txs : SameContent(mem'[x], mem[x]) /\ Recorded(mem'[x], Range(rows'[x].subs))
BY Zenon DEF IInv, Records, SameContent, SameRow, Recorded

(* The completion check of UpdateTransaction, and the marks the engine and  *)
(* the timers leave on the orchestrator.                                    *)
LEMMA MarkStep ==
  ASSUME IInv,
         StopTimedOut \/ SwapOut \/ QueueQuiet \/ \E t \in Txs : CheckTransactionCompleted(t)
  PROVE  IInv'
<1>1. /\ UNCHANGED <<rows, ptm, mem, stray, chain>> /\ faults' \in Nat
      /\ updating' \subseteq Txs /\ \A t \in updating' : rows[t].ver < MaxVersion
  BY DEF StopTimedOut, SwapOut, QueueQuiet, CheckTransactionCompleted, Fault, IInv, Types
<1>2. oc' \in {oc, [oc EXCEPT !.cancelled = TRUE], [oc EXCEPT !.quiet = TRUE]} /\ oc \in Orchestrators
  BY Zenon DEF StopTimedOut, SwapOut, QueueQuiet, CheckTransactionCompleted, IInv, Types
<1>3. oc' \in Orchestrators /\ SameQueue
  <2>1. /\ oc' \in Orchestrators /\ oc'.state = oc.state /\ oc'.pc = oc.pc /\ oc'.next = oc.next
        /\ oc'.list = oc.list /\ oc'.polled = oc.polled /\ oc'.todo = oc.todo
        /\ oc'.updates = oc.updates
    BY Zenon, <1>2 DEF Orchestrators
  <2>2. QED
    BY Zenon, <1>1, <2>1 DEF SameQueue
<1>4. Types'
  BY Zenon, <1>1, <1>3 DEF IInv, Types
<1>5. stray' \subseteq stray /\ Ledger' = Ledger
  BY Zenon, <1>1, UnchangedLedger
<1>6. QED
  BY Zenon, <1>1, <1>3, <1>4, <1>5, UnchangedRows, UnchangedMem, AsyncStep

(* The pool loses a transaction, to a block or to the node's memory. *)
LEMMA PoolStep ==
  ASSUME IInv, NEW h \in Pool, Mine(h) \/ NodeDrops(h)
  PROVE  IInv'
<1>1. /\ UNCHANGED <<rows, updating, ptm, oc, mem, stray>> /\ faults' \in Nat /\ h \in chain.pool
      /\ chain \in [pool : SUBSET Pool, mined : Seq(Pool), indexed : Nat]
  BY DEF Mine, NodeDrops, Fault, IInv, Types
<1> DEFINE q == Append(chain.mined, h)
<1>2. q \in Seq(Pool) /\ Range(q) \subseteq Range(chain.mined) \cup {h}
  <2>1. /\ q \in Seq(Pool) /\ Len(q) = Len(chain.mined) + 1 /\ q[Len(q)] = h
        /\ \A i \in 1..Len(chain.mined) : q[i] = chain.mined[i]
    BY <1>1
  <2> HIDE DEF q
  <2>2. /\ Len(chain.mined) \in Nat /\ DOMAIN q = 1..Len(q)
        /\ DOMAIN chain.mined = 1..Len(chain.mined)
    BY <1>1, <2>1
  <2>3. QED
    BY <2>1, <2>2 DEF Range
<1>3. /\ chain'.pool \subseteq chain.pool /\ chain'.mined \in {chain.mined, q}
      /\ chain' \in [pool : SUBSET Pool, mined : Seq(Pool), indexed : Nat]
  <2> HIDE DEF q
  <2>1. chain' \in {[chain EXCEPT !.pool = @ \ {h}], [chain EXCEPT !.pool = @ \ {h}, !.mined = q]}
    BY Zenon DEF Mine, NodeDrops, q
  <2>2. QED
    BY Zenon, <1>1, <1>2, <2>1
<1> HIDE DEF q
<1>4. Ledger' \subseteq Ledger
  BY Zenon, <1>1, <1>2, <1>3 DEF Ledger
<1>5. Types'
  BY Zenon, <1>1, <1>3 DEF IInv, Types
<1>6. SameQueue /\ stray' \subseteq stray
  BY Zenon, <1>1 DEF SameQueue
<1>7. QED
  BY Zenon, <1>1, <1>4, <1>5, <1>6, UnchangedRows, UnchangedMem, AsyncStep

(* The block indexer completes a row whose transaction was mined. *)
LEMMA MatchStep ==
  ASSUME IInv, MatchUpdateConfirmedTransactions
  PROVE  IInv'
<1> DEFINE h == chain.mined[chain.indexed + 1]
           r == [rows[h.tx] EXCEPT !.completed = TRUE]
<1>1. h \in Range(chain.mined) /\ h \in Pool
  <2>1. chain.mined \in Seq(Pool) /\ chain.indexed \in Nat
    BY Zenon DEF IInv, Types
  <2>2. chain.indexed + 1 \in DOMAIN chain.mined
    BY <2>1 DEF MatchUpdateConfirmedTransactions
  <2>3. QED
    BY <2>1, <2>2 DEF Range
<1>2. h.tx \in Txs /\ Nonced(h.tx)
  <2> HIDE DEF h
  <2>1. QED
    BY <1>1 DEF Pool, IInv, NonceOfRow
<1>3. rows \in [Txs -> Rows] /\ r \in Rows /\ SameRow(r, rows[h.tx])
  BY <1>2, ZenonT(60) DEF IInv, Types, Rows, SameRow, Nonced
<1>4. rows' \in {rows, [rows EXCEPT ![h.tx] = r]}
  BY Zenon, <1>3 DEF MatchUpdateConfirmedTransactions
<1>5. /\ ptm' \in [updates : SUBSET (Txs \X Versions), confirms : SUBSET Txs]
      /\ ptm'.updates = ptm.updates
      /\ chain' \in [pool : SUBSET Pool, mined : Seq(Pool), indexed : Nat]
      /\ chain'.pool = chain.pool /\ chain'.mined = chain.mined
  <2>1. /\ ptm \in [updates : SUBSET (Txs \X Versions), confirms : SUBSET Txs]
        /\ chain \in [pool : SUBSET Pool, mined : Seq(Pool), indexed : Nat]
    BY Zenon DEF IInv, Types
  <2>2. chain' = [chain EXCEPT !.indexed = @ + 1]
    BY Zenon DEF MatchUpdateConfirmedTransactions
  <2>3. ptm' = ptm \/ ptm' = [ptm EXCEPT !.confirms = @ \cup {h.tx}]
    BY Zenon DEF MatchUpdateConfirmedTransactions
  <2> HIDE DEF h
  <2>4. /\ ptm' \in [updates : SUBSET (Txs \X Versions), confirms : SUBSET Txs]
        /\ ptm'.updates = ptm.updates
    <3> DEFINE c == ptm.confirms \cup {h.tx}
    <3>1. c \in SUBSET Txs /\ (ptm' = ptm \/ ptm' = [ptm EXCEPT !.confirms = c])
      BY Zenon, <1>2, <2>1, <2>3
    <3> HIDE DEF c
    <3>2. QED
      BY Zenon, <2>1, <3>1
  <2>5. /\ chain' \in [pool : SUBSET Pool, mined : Seq(Pool), indexed : Nat]
        /\ chain'.pool = chain.pool /\ chain'.mined = chain.mined
    <3> DEFINE n == chain.indexed + 1
    <3>1. n \in Nat /\ chain' = [chain EXCEPT !.indexed = n]
      BY <2>1, <2>2
    <3> HIDE DEF n
    <3>2. QED
      BY Zenon, <2>1, <3>1
  <2>6. QED
    BY Zenon, <2>4, <2>5
<1> HIDE DEF r, h
<1>6. rows' \in [Txs -> Rows] /\ \A x \in Txs : SameRow(rows'[x], rows[x])
  BY Zenon, <1>2, <1>3, <1>4 DEF SameRow
<1>7. Types'
  BY Zenon, <1>5, <1>6 DEF MatchUpdateConfirmedTransactions, IInv, Types, SameRow
<1>8. SameQueue /\ stray' \subseteq stray /\ Ledger' = Ledger /\ mem' = mem
  BY Zenon, <1>5 DEF MatchUpdateConfirmedTransactions, SameQueue, Ledger
<1>9. QED
  BY Zenon, <1>6, <1>7, <1>8, UnchangedMem, AsyncStep
-----------------------------------------------------------------------------
(* The database rows. *)

(* A new row follows the ones before it and has no nonce yet. *)
LEMMA WriteStep ==
  ASSUME IInv, NEW t \in Txs, WriteNewTransactions(t)
  PROVE  IInv'
<1> DEFINE r == [rows[t] EXCEPT !.written = TRUE]
<1>1. rows \in [Txs -> Rows] /\ rows[t] \in Rows
  BY Zenon DEF IInv, Types
<1>2. /\ r \in Rows /\ r.ver = rows[t].ver /\ r.nonce = rows[t].nonce /\ r.subs = rows[t].subs
      /\ r.completed = rows[t].completed /\ r.written
  BY Zenon, <1>1 DEF Rows
<1>3. rows' = [rows EXCEPT ![t] = r] /\ UNCHANGED <<updating, ptm, oc, mem, stray, chain, faults>>
  BY Zenon, <1>1 DEF WriteNewTransactions, Rows
<1> HIDE DEF r
<1>4. /\ rows' \in [Txs -> Rows]
      /\ \A x \in Txs : /\ rows'[x].ver = rows[x].ver /\ rows'[x].nonce = rows[x].nonce
                        /\ rows'[x].subs = rows[x].subs /\ rows'[x].completed = rows[x].completed
                        /\ (rows[x].written \/ x = t <=> rows'[x].written)
  BY Zenon, <1>1, <1>2, <1>3
<1>5. Types'
  BY Zenon, <1>3, <1>4 DEF IInv, Types
<1>6. \A h \in chain.pool \cup Range(chain.mined) : h.tx \in Txs
  BY DEF IInv, Types, Range, Pool
<1>7. Records'
  BY Zenon, <1>3, <1>4, <1>6 DEF IInv, Records, RecordedBeforeSubmitted, Types, Strays
<1>8. \A x \in Txs : Nonced(x)' = Nonced(x) /\ Queued(x)' = Queued(x) /\ UpToDate(x)' = UpToDate(x)
  BY Zenon, <1>3, <1>4 DEF Nonced, Queued, UpToDate
<1>9. \A s \in Txs : s < t => rows[s].written
  BY Zenon DEF WriteNewTransactions
<1>10. NonceOfRow'
  BY <1>3, <1>4, <1>6, <1>8, <1>9 DEF IInv, NonceOfRow, Nonced
<1>11. NextNonce' /\ Places'
  <2>1. PolledTxs \subseteq Txs /\ oc.list \subseteq Txs /\ PolledTxs' = PolledTxs /\ Live' = Live
    BY Zenon, <1>3, PolledAreRows DEF IInv, PolledTxs, Live
  <2>2. QED
    BY Zenon, <1>3, <1>4, <1>8, <2>1 DEF IInv, NextNonce, Places
<1>12. Current'
  <2>1. /\ \A u \in ptm.updates \cup oc.updates : u[1] \in Txs
        /\ (\A x \in oc.list : x \in Txs) /\ (\A p \in oc.polled : p.tx \in Txs)
    BY Zenon DEF IInv, Types, Orchestrators, PolledRows
  <2>2. QED
    BY <1>3, <1>4, <1>8, <2>1 DEF IInv, Current, Live
<1>13. StoppedIsQuiescent'
  BY Zenon, <1>3 DEF IInv, StoppedIsQuiescent, Quiescent
<1>14. QED
  BY Zenon, <1>5, <1>7, <1>10, <1>11, <1>12, <1>13 DEF IInv

(* UpdateTransaction: the new content is queued in the step that commits it. *)
LEMMA UpdateStep ==
  ASSUME IInv, NEW t \in Txs, UpdateTransaction(t)
  PROVE  IInv'
<1> DEFINE v == rows[t].ver + 1
           r == [rows[t] EXCEPT !.ver = v]
<1>1. rows \in [Txs -> Rows] /\ rows[t] \in Rows
  BY Zenon DEF IInv, Types
<1>2. v \in Versions
  BY <1>1, BoundsAssumption DEF UpdateTransaction, IInv, Types, Rows, Versions
<1>3. /\ rows' = [rows EXCEPT ![t] = r] /\ UNCHANGED <<oc, mem, stray, chain, faults>>
      /\ updating' = updating \ {t}
  BY Zenon, <1>1 DEF UpdateTransaction, Rows
<1>4. ptm' \in [updates : SUBSET (Txs \X Versions), confirms : SUBSET Txs]
      /\ ptm'.updates = ptm.updates \cup {<<t, v>>}
  BY <1>2 DEF UpdateTransaction, IInv, Types
<1>5. v > rows[t].ver
  BY <1>1 DEF Rows, Versions
<1> HIDE DEF v
<1>6. /\ r \in Rows /\ r.ver = v /\ r.nonce = rows[t].nonce /\ r.subs = rows[t].subs
      /\ r.completed = rows[t].completed /\ r.written = rows[t].written
  BY Zenon, <1>1, <1>2 DEF Rows
<1> HIDE DEF r
<1>7. /\ rows' \in [Txs -> Rows]
      /\ \A x \in Txs : /\ rows'[x].ver = IF x = t THEN v ELSE rows[x].ver
                        /\ rows'[x].nonce = rows[x].nonce
                        /\ rows'[x].subs = rows[x].subs /\ rows'[x].completed = rows[x].completed
                        /\ rows'[x].written = rows[x].written
  BY Zenon, <1>1, <1>3, <1>6
<1>8. Types'
  BY Zenon, <1>3, <1>4, <1>7 DEF IInv, Types
<1>9. \A h \in chain.pool \cup Range(chain.mined) : h.tx \in Txs
  BY DEF IInv, Types, Range, Pool
<1>10. Records'
  BY Zenon, <1>3, <1>7, <1>9 DEF IInv, Records, RecordedBeforeSubmitted, Types, Strays
<1>11. \A x \in Txs : Nonced(x)' = Nonced(x)
  BY Zenon, <1>7 DEF Nonced
<1>12. NonceOfRow'
  BY <1>3, <1>7, <1>9, <1>11 DEF IInv, NonceOfRow, Nonced
<1>13. NextNonce' /\ Places'
  <2>1. PolledTxs \subseteq Txs /\ oc.list \subseteq Txs /\ PolledTxs' = PolledTxs /\ Live' = Live
    BY Zenon, <1>3, PolledAreRows DEF IInv, PolledTxs, Live
  <2>2. QED
    BY Zenon, <1>3, <1>7, <1>11, <2>1 DEF IInv, NextNonce, Places
<1>14. Current'
  <2>1. /\ ptm.updates \subseteq Txs \X Versions /\ oc.updates \subseteq Txs \X Versions
        /\ (\A x \in oc.list : x \in Txs) /\ (\A p \in oc.polled : p.tx \in Txs)
    BY Zenon DEF IInv, Types, Orchestrators, PolledRows
  <2>2. \A x \in Txs : x = t \/ Queued(x) => Queued(x)'
    BY Zenon, <1>3, <1>4, <1>7 DEF Queued
  <2>3. \A x \in Txs : x # t /\ UpToDate(x) => UpToDate(x)'
    BY Zenon, <1>3, <1>7 DEF UpToDate
  <2>4. \A u \in ptm'.updates : u[2] <= rows'[u[1]].ver /\ <<u[1], rows'[u[1]].ver>> \in ptm'.updates
    <3> SUFFICES ASSUME NEW u \in ptm'.updates
                 PROVE  u[2] <= rows'[u[1]].ver /\ <<u[1], rows'[u[1]].ver>> \in ptm'.updates
      BY Zenon
    <3>1. CASE u = <<t, v>>
      BY <1>2, <1>4, <1>7, <3>1 DEF Versions
    <3>2. CASE u \in ptm.updates
      <4>1. /\ u[1] \in Txs /\ u[2] \in Versions /\ rows[u[1]].ver \in Versions
            /\ u[2] <= rows[u[1]].ver /\ <<u[1], rows[u[1]].ver>> \in ptm.updates
        BY Zenon, <1>1, <2>1, <3>2 DEF IInv, Current, Rows
      <4>2. QED
        BY <1>2, <1>4, <1>5, <1>7, <4>1 DEF Versions
    <3>3. QED
      BY Zenon, <1>4, <3>1, <3>2
  <2>5. \A u \in oc.updates : u[2] <= rows'[u[1]].ver /\ Queued(u[1])'
    <3> SUFFICES ASSUME NEW u \in oc.updates
                 PROVE  u[2] <= rows'[u[1]].ver /\ Queued(u[1])'
      BY Zenon
    <3>1. /\ u[1] \in Txs /\ u[2] \in Versions /\ rows[u[1]].ver \in Versions
          /\ u[2] <= rows[u[1]].ver /\ Queued(u[1])
      BY Zenon, <1>1, <2>1 DEF IInv, Current, Rows
    <3>2. QED
      BY <1>2, <1>5, <1>7, <2>2, <3>1 DEF Versions
  <2>6. Live' = Live
    BY Zenon, <1>3 DEF Live
  <2>7. Live => \A x \in oc.list : Queued(x)' \/ UpToDate(x)'
    BY Zenon, <2>1, <2>2, <2>3 DEF IInv, Current
  <2>8. Live => \A p \in oc.polled : Queued(p.tx)' \/ p.ver = rows'[p.tx].ver
    BY Zenon, <1>7, <2>1, <2>2 DEF IInv, Current
  <2>9. QED
    BY Zenon, <1>3, <2>4, <2>5, <2>6, <2>7, <2>8 DEF Current
<1>15. StoppedIsQuiescent'
  BY Zenon, <1>3 DEF IInv, StoppedIsQuiescent, Quiescent
<1>16. QED
  BY Zenon, <1>8, <1>10, <1>12, <1>13, <1>14, <1>15 DEF IInv
-----------------------------------------------------------------------------
(* The loops. *)

(* Sets of rows are finite. *)
LEMMA FiniteRows ==
  ASSUME NEW S \in SUBSET Txs
  PROVE  IsFiniteSet(S) /\ Cardinality(S) \in Nat
<1>1. IsFiniteSet(Txs)
  BY BoundsAssumption, FS_Interval DEF Txs
<1>2. IsFiniteSet(S)
  BY Zenon, <1>1, FS_Subset
<1>3. QED
  BY Zenon, <1>2, FS_CardinalityType

(* A set of naturals has a least element, which Min chooses ... *)
LEMMA MinOf ==
  ASSUME NEW S \in SUBSET Nat, S # {}
  PROVE  Min(S) \in S /\ \A y \in S : Min(S) <= y
<1>1. \E x \in S : \A y \in S : x <= y
  <2>1. PICK x \in S : \A y \in S : <<y, x>> \notin OpToRel(<, Nat)
    BY Zenon, NatLessThanWellFounded, WFMin
  <2>2. \A y \in S : ~(y < x)
    BY Zenon, <2>1 DEF OpToRel
  <2>3. QED
    BY <2>2
<1>2. QED
  BY Zenon, <1>1 DEF Min

(* ... and, below a bound, a greatest, which Max chooses. *)
LEMMA MaxOf ==
  ASSUME NEW k \in Nat, NEW S \in SUBSET (0..k), S # {}
  PROVE  Max(S) \in S /\ \A y \in S : y <= Max(S)
<1> DEFINE D == {k - x : x \in S}
<1>1. D \in SUBSET Nat /\ D # {}
  <2>1. \A x \in S : x \in Int /\ k - x \in Nat
    OBVIOUS
  <2>2. QED
    BY Zenon, <2>1
<1>2. PICK d \in D : \A e \in D : d <= e
  <2> HIDE DEF D
  <2>1. QED
    BY Zenon, <1>1, MinOf
<1>3. PICK x \in S : d = k - x
  BY Zenon, <1>2
<1>4. \A y \in S : x >= y
  <2> SUFFICES ASSUME NEW y \in S
               PROVE  x >= y
    BY Zenon
  <2>1. d <= k - y
    BY Zenon, <1>2
  <2>2. QED
    BY <1>3, <2>1
<1>5. QED
  BY Zenon, <1>4 DEF Max

(* A step that leaves the database and the chain alone. *)
LEMMA LoopStep ==
  ASSUME IInv, Types', UNCHANGED <<rows, chain>>,
         \A t \in Txs : Recorded(mem'[t], Range(rows[t].subs)),
         \A g \in stray' : g.run = "action" => g.signed \in Range(rows[g.tx].subs),
         NextNonce', Places', Current', StoppedIsQuiescent'
  PROVE  IInv'
<1>1. Records'
  BY Zenon DEF IInv, Records, RecordedBeforeSubmitted
<1>2. NonceOfRow'
  BY Zenon DEF IInv, NonceOfRow, Nonced
<1>3. QED
  BY Zenon, <1>1, <1>2 DEF IInv

(* An orchestrator that starts has everything to read from the database. *)
LEMMA FreshFacts ==
  /\ NoMem \in InMemory /\ NoMem.run = "none" /\ \A subs : Recorded(NoMem, subs)
  /\ NoOrchestrator \in Orchestrators
<1>1. 1 \in Versions /\ None \in MaybeVersions /\ None \in Nat
  BY BoundsAssumption DEF Versions, MaybeVersions, None
<1> DEFINE r == [ver |-> 1, hash |-> None]
           m == NewInMemoryTxStateManager(r)
<1>2. /\ m \in InMemory /\ m.run = "none" /\ m.stage = "none"
  <2>1. r.ver \in Versions /\ r.hash \in MaybeVersions /\ (r.hash # None) \in BOOLEAN
    BY Zenon, <1>1
  <2> HIDE DEF r
  <2>2. QED
    BY Zenon, <1>1, <2>1, NothingToSave DEF NewInMemoryTxStateManager, InMemory, Stages, Outcomes
<1>3. NoMem = m
  BY Zenon DEF NoMem
<1> HIDE DEF m
<1>4. NoOrchestrator \in Orchestrators
  BY Zenon, <1>1 DEF NoOrchestrator, Orchestrators
<1>5. QED
  BY Zenon, <1>2, <1>3, <1>4 DEF Recorded

(* An address without an orchestrator: nothing is in flight. *)
LEMMA FreshStep ==
  ASSUME IInv, UNCHANGED <<rows, chain>>, updating' \in {{}, updating}, faults' \in Nat,
         ptm' \in [updates : SUBSET (Txs \X Versions), confirms : SUBSET Txs], ptm'.updates = {},
         NEW state \in {"none", "new"}, oc' = [NoOrchestrator EXCEPT !.state = state],
         mem' = [t \in Txs |-> NoMem], stray' = {}
  PROVE  IInv'
<1>1. /\ oc' \in Orchestrators /\ oc'.state = state /\ oc'.pc = "init" /\ oc'.list = {}
      /\ oc'.polled = {} /\ oc'.updates = {}
  <2>1. NoOrchestrator \in Orchestrators
    BY Zenon, FreshFacts
  <2>2. oc' \in Orchestrators /\ oc'.state = state
    BY Zenon, <2>1 DEF Orchestrators
  <2>3. QED
    BY Zenon, <2>2 DEF NoOrchestrator
<1>2. mem' \in [Txs -> InMemory] /\ \A t \in Txs : mem'[t] = NoMem
  BY Zenon, FreshFacts
<1>3. Types'
  BY Zenon, <1>1, <1>2 DEF IInv, Types
<1>4. \A t \in Txs : Recorded(mem'[t], Range(rows[t].subs)) /\ mem'[t].run = "none"
  BY Zenon, <1>2, FreshFacts
<1>5. NextNonce' /\ Current'
  BY Zenon, <1>1 DEF NextNonce, Current
<1>6. Places'
  <2>1. PolledTxs' = {} /\ Cardinality({}) = 0
    BY Zenon, <1>1, FS_EmptySet DEF PolledTxs
  <2>2. QED
    BY <1>1, <2>1, BoundsAssumption DEF Places
<1>7. StoppedIsQuiescent'
  BY Zenon, <1>4 DEF StoppedIsQuiescent, Quiescent
<1>8. QED
  BY Zenon, <1>3, <1>4, <1>5, <1>6, <1>7, LoopStep

(* A restart keeps the database only. *)
LEMMA RestartStep ==
  ASSUME IInv, Restart
  PROVE  IInv'
<1>1. oc' = [NoOrchestrator EXCEPT !.state = "none"]
  <2>1. oc' = NoOrchestrator /\ NoOrchestrator \in Orchestrators /\ NoOrchestrator.state = "none"
    BY Zenon, FreshFacts DEF Restart, NoOrchestrator
  <2>2. QED
    BY Zenon, <2>1 DEF Orchestrators
<1>2. /\ ptm' \in [updates : SUBSET (Txs \X Versions), confirms : SUBSET Txs]
      /\ ptm'.updates = {} /\ faults' \in Nat
  BY DEF Restart, Fault, IInv, Types
<1>3. QED
  BY Zenon, <1>1, <1>2, FreshStep DEF Restart

(* The engine loop hands updates over, or starts an orchestrator where the  *)
(* last one has stopped with nothing under way.                             *)
LEMMA EngineStep ==
  ASSUME IInv, EngineLoop
  PROVE  IInv'
<1>1. /\ ptm' \in [updates : SUBSET (Txs \X Versions), confirms : SUBSET Txs]
      /\ ptm'.updates = {} /\ UNCHANGED <<rows, updating, stray, chain, faults>>
  BY Zenon DEF EngineLoop, IInv, Types
<1>2. CASE ~Live
  <2>1. PICK state \in {"none", "new"} : oc' = [NoOrchestrator EXCEPT !.state = state]
    BY Zenon, <1>2 DEF EngineLoop, Live
  <2>2. mem' = [t \in Txs |-> NoMem] /\ stray' = {}
    BY Zenon, <1>1, <1>2 DEF EngineLoop, Live, IInv, StoppedIsQuiescent, Quiescent
  <2>3. faults' \in Nat
    BY Zenon, <1>1 DEF IInv, Types
  <2>4. QED
    BY Zenon, <1>1, <2>1, <2>2, <2>3, FreshStep
<1>3. CASE Live
  <2> DEFINE us == oc.updates \cup ptm.updates
  <2>1. oc' = [oc EXCEPT !.updates = us] /\ mem' = mem /\ oc \in Orchestrators
        /\ us \subseteq Txs \X Versions
    BY Zenon, <1>3 DEF EngineLoop, Live, IInv, Types, Orchestrators
  <2> HIDE DEF us
  <2>2. /\ oc' \in Orchestrators /\ oc'.state = oc.state /\ oc'.pc = oc.pc /\ oc'.next = oc.next
        /\ oc'.list = oc.list /\ oc'.polled = oc.polled /\ oc'.todo = oc.todo
        /\ oc'.updates = us
    BY Zenon, <2>1 DEF Orchestrators
  <2>3. Types'
    BY Zenon, <1>1, <2>1, <2>2 DEF IInv, Types
  <2>4. Live' /\ PolledTxs' = PolledTxs
    BY Zenon, <1>3, <2>2 DEF Live, PolledTxs
  <2>5. NextNonce' /\ Places'
    BY Zenon, <1>1, <1>3, <2>2, <2>4 DEF IInv, NextNonce, Places, Nonced
  <2>6. \A t : Queued(t)' = Queued(t) /\ UpToDate(t)' = UpToDate(t)
    BY Zenon, <1>1, <2>1, <2>2 DEF Queued, UpToDate, us
  <2>7. Current'
    <3>1. \A u \in us : u[2] <= rows[u[1]].ver /\ Queued(u[1])
      BY Zenon DEF us, IInv, Current, Queued
    <3>2. QED
      BY Zenon, <1>1, <1>3, <2>2, <2>4, <2>6, <3>1 DEF IInv, Current
  <2>8. StoppedIsQuiescent'
    BY Zenon, <1>3, <2>2 DEF StoppedIsQuiescent, Live
  <2>9. QED
    BY Zenon, <1>1, <2>1, <2>3, <2>5, <2>7, <2>8, LoopStep DEF IInv, Records
<1>4. QED
  BY Zenon, <1>2, <1>3

(* InitNextNonceFromDB: the next nonce is that of the first row without one. *)
LEMMA InitNonceStep ==
  ASSUME IInv, InitNextNonceFromDB
  PROVE  IInv'
<1> DEFINE ns == {rows[t].nonce : t \in Txs}
           n == IF Nonces = {} THEN None ELSE HighestNonce(Txs) + 1
<1>1. /\ UNCHANGED <<rows, updating, ptm, mem, stray, chain, faults>> /\ Live /\ oc.pc = "init"
      /\ oc' = [oc EXCEPT !.pc = "wait", !.next = n] /\ oc \in Orchestrators
  BY Zenon DEF InitNextNonceFromDB, IInv, Types
<1>2. /\ n \in Nat
      /\ IF n = None THEN \A t \in Txs : ~Nonced(t)
         ELSE n \in 1..(MaxTx + 1) /\ \A t \in Txs : Nonced(t) <=> t < n
  <2>1. CASE Nonces = {}
    BY Zenon, <2>1 DEF Nonces, Nonced, None
  <2>2. CASE Nonces # {}
    <3>1. PICK x \in Txs : Nonced(x)
      BY Zenon, <2>2 DEF Nonces, Nonced
    <3>2. \A t \in Txs : t \in Nat /\ rows[t].nonce \in {None, t}
      BY DEF IInv, NonceOfRow, Txs
    <3>3. ns \in SUBSET (0..MaxTx) /\ ns # {} /\ MaxTx \in Nat
      BY <3>1, <3>2, BoundsAssumption DEF Txs, None
    <3> HIDE DEF ns
    <3>4. Max(ns) \in ns /\ \A y \in ns : y <= Max(ns)
      BY Zenon, <3>3, MaxOf
    <3>5. PICK s \in Txs : Max(ns) = rows[s].nonce
      BY Zenon, <3>4 DEF ns
    <3>6. \A t \in Txs : rows[t].nonce <= rows[s].nonce
      BY Zenon, <3>4, <3>5 DEF ns
    <3>7. rows[s].nonce = s /\ Nonced(s)
      BY <3>1, <3>2, <3>6 DEF Nonced, None
    <3>8. n = s + 1
      BY Zenon, <2>2, <3>3, <3>5, <3>7 DEF HighestNonce, ns
    <3> HIDE DEF n
    <3>9. \A t \in Txs : Nonced(t) <=> t < n
      <4> SUFFICES ASSUME NEW t \in Txs
                   PROVE  Nonced(t) <=> t < n
        BY Zenon
      <4>1. Nonced(t) => t <= s
        BY Zenon, <3>2, <3>6, <3>7 DEF Nonced
      <4>2. t < s => Nonced(t)
        BY Zenon, <3>7 DEF IInv, NonceOfRow
      <4>3. QED
        BY <3>2, <3>7, <3>8, <4>1, <4>2
    <3>10. n # None /\ n \in 1..(MaxTx + 1)
      BY <3>8, BoundsAssumption DEF Txs, None
    <3>11. QED
      BY <3>9, <3>10
  <2>3. QED
    BY Zenon, <2>1, <2>2
<1> HIDE DEF n
<1>3. /\ oc' \in Orchestrators /\ oc'.state = oc.state /\ oc'.pc = "wait" /\ oc'.next = n
      /\ oc'.list = oc.list /\ oc'.polled = oc.polled /\ oc'.updates = oc.updates
  BY Zenon, <1>1, <1>2 DEF Orchestrators
<1>4. Types'
  BY Zenon, <1>1, <1>3 DEF IInv, Types
<1>5. Live' /\ PolledTxs' = PolledTxs
  BY Zenon, <1>1, <1>3 DEF Live, PolledTxs
<1>6. \A t : Nonced(t)' = Nonced(t) /\ Queued(t)' = Queued(t) /\ UpToDate(t)' = UpToDate(t)
  BY Zenon, <1>1, <1>3 DEF Nonced, Queued, UpToDate
<1>7. NextNonce'
  BY Zenon, <1>2, <1>3, <1>6 DEF NextNonce
<1>8. Places'
  BY Zenon, <1>1, <1>3, <1>5, <1>6 DEF IInv, Places
<1>9. Current'
  BY Zenon, <1>1, <1>3, <1>5, <1>6 DEF IInv, Current
<1>10. StoppedIsQuiescent'
  BY Zenon, <1>5 DEF StoppedIsQuiescent, Live
<1>11. QED
  BY Zenon, <1>1, <1>4, <1>7, <1>8, <1>9, <1>10, LoopStep DEF IInv, Records

(* The loop ends, at once or after what it was polling. *)
LEMMA LoopEndsStep ==
  ASSUME IInv, PollCancelled \/ LoopCancelled \/ LoopExit
  PROVE  IInv'
<1>1. /\ UNCHANGED <<rows, updating, ptm, mem, stray, chain, faults>> /\ Live
      /\ oc \in Orchestrators
  BY Zenon DEF PollCancelled, LoopCancelled, LoopExit, IInv, Types
<1>2. \/ oc' = [oc EXCEPT !.polled = {}, !.pc = "exit"]
      \/ oc' = [oc EXCEPT !.polled = {}, !.pc = "wait"] /\ oc.pc = "allocate"
      \/ oc' = [oc EXCEPT !.pc = "exit"] /\ oc.pc = "wait"
      \/ oc' = [oc EXCEPT !.state = "stopped"] /\ Quiescent
  BY Zenon DEF PollCancelled, LoopCancelled, LoopExit
<1>3. /\ oc' \in Orchestrators /\ oc'.next = oc.next /\ oc'.list = oc.list
      /\ oc'.updates = oc.updates
      /\ \/ /\ oc'.state = oc.state
            /\ \/ oc'.polled = {} /\ oc'.pc = "exit"
               \/ oc'.polled = {} /\ oc'.pc = "wait" /\ oc.pc = "allocate"
               \/ oc'.polled = oc.polled /\ oc'.pc = "exit" /\ oc.pc = "wait"
         \/ oc'.state = "stopped" /\ oc'.polled = oc.polled /\ Quiescent
  BY Zenon, <1>1, <1>2 DEF Orchestrators
<1>4. Types'
  BY Zenon, <1>1, <1>3 DEF IInv, Types
<1>5. \A t : Nonced(t)' = Nonced(t) /\ Queued(t)' = Queued(t) /\ UpToDate(t)' = UpToDate(t)
  BY Zenon, <1>1, <1>3 DEF Nonced, Queued, UpToDate
<1>6. NextNonce'
  BY Zenon, <1>1, <1>3, <1>5 DEF IInv, NextNonce, Live
<1>7. Places'
  <2>1. /\ oc'.polled = {} => PolledTxs' = {}
        /\ oc'.polled = oc.polled => PolledTxs' = PolledTxs
    BY Zenon DEF PolledTxs
  <2>2. PolledTxs \in SUBSET Txs /\ oc.list \in SUBSET Txs
    BY Zenon, PolledAreRows DEF IInv
  <2>3. Cardinality(PolledTxs) \in Nat /\ Cardinality(oc.list) \in Nat /\ Cardinality({}) = 0
    BY Zenon, <2>2, FiniteRows, FS_EmptySet
  <2>4. /\ Live' => Live /\ oc'.pc # "process"
        /\ Live' => (oc'.pc = "allocate" <=> oc'.polled # {})
        /\ PolledTxs' = {} \/ PolledTxs' = PolledTxs
    BY Zenon, <1>1, <1>3, <2>1 DEF IInv, Places, Live
  <2>5. CASE PolledTxs' = {}
    BY <1>1, <1>3, <1>5, <2>3, <2>4, <2>5, BoundsAssumption DEF IInv, Places
  <2>6. CASE PolledTxs' = PolledTxs
    BY Zenon, <1>1, <1>3, <1>5, <2>4, <2>6 DEF IInv, Places
  <2>7. QED
    BY Zenon, <2>4, <2>5, <2>6
<1>8. Current'
  BY Zenon, <1>1, <1>3, <1>5 DEF IInv, Current, Live
<1>9. StoppedIsQuiescent'
  BY Zenon, <1>1, <1>3 DEF StoppedIsQuiescent, Live, Quiescent
<1>10. QED
  BY Zenon, <1>1, <1>4, <1>6, <1>7, <1>8, <1>9, LoopStep DEF IInv, Records
-----------------------------------------------------------------------------
(* PollDone: the last transaction of a poll sends the loop back to wait. *)
LEMMA PollDoneFacts ==
  ASSUME NEW o \in Orchestrators, o.state \notin {"none", "stopped"}, o.pc = "process"
  PROVE  LET p == PollDone(o)
         IN  /\ p \in Orchestrators /\ p.state \notin {"none", "stopped"}
             /\ p.list = o.list /\ p.polled = o.polled /\ p.next = o.next /\ p.updates = o.updates
             /\ p.pc = "wait" \/ (p.pc = "process" /\ o.todo # {} /\ p.todo = o.todo)
<1> DEFINE q == o.quiet /\ ~o.changed /\ o.list # {}
           s == NextState(o, q)
           p == [o EXCEPT !.pc = "wait", !.changed = FALSE, !.quiet = q, !.state = s]
<1>1. q \in BOOLEAN
  BY Zenon
<1> HIDE DEF q
<1>2. s \in {"idle", "stale", "running"}
  BY Zenon DEF NextState
<1>3. PollDone(o) = IF o.todo # {} THEN o ELSE p
  BY Zenon DEF PollDone, q
<1> HIDE DEF s
<1>4. /\ p \in Orchestrators /\ p.state = s /\ p.pc = "wait" /\ p.list = o.list
      /\ p.polled = o.polled /\ p.next = o.next /\ p.updates = o.updates
  BY Zenon, <1>1, <1>2 DEF Orchestrators
<1> HIDE DEF p
<1>5. QED
  BY Zenon, <1>2, <1>3, <1>4

(* ProduceLatestInFlightStageContext: the next stage of a transaction is    *)
(* started, on the content of a new generation if an update has come.       *)
LEMMA ProduceStep ==
  ASSUME IInv, ProduceLatestInFlightStageContext
  PROVE  IInv'
<1> DEFINE t == Min(oc.todo)
           g == NewGeneration(mem[t])
           m == ProcessStageOutputs(g)
           n == IF m.stage = "none" THEN StartNewStage(m) ELSE m
           o == [oc EXCEPT !.todo = oc.todo \ {t}]
           subs == Range(rows[t].subs)
<1>1. /\ Live /\ oc.pc = "process" /\ mem' = [mem EXCEPT ![t] = n]
      /\ stray' = stray \cup Abandoned(t) /\ oc' = PollDone(o)
      /\ UNCHANGED <<rows, updating, ptm, chain, faults>>
  BY Zenon DEF ProduceLatestInFlightStageContext
<1>2. t \in Txs
  <2>1. oc.todo \in SUBSET Nat /\ oc.todo # {} /\ oc.todo \subseteq Txs
    BY <1>1 DEF IInv, Types, Orchestrators, Txs, Places
  <2>2. QED
    BY Zenon, <2>1, MinOf
<1> HIDE DEF t
<1>3. Good(mem[t], subs) /\ mem \in [Txs -> InMemory]
  BY Zenon, <1>2, GoodMem DEF IInv, Types
<1>4. Good(g, subs) /\ g.update = None /\ g.ver = IF mem[t].update = None THEN mem[t].ver ELSE mem[t].update
  BY Zenon, <1>3, Generated
<1> HIDE DEF g
<1>5. Good(m, subs) /\ m.ver = g.ver /\ m.update = g.update
  BY Zenon, <1>4, Processed
<1> HIDE DEF m
<1>6. Good(n, subs) /\ n.ver = g.ver /\ n.update = g.update
  BY Zenon, <1>5, Started
<1> HIDE DEF n
<1>7. mem' \in [Txs -> InMemory] /\ \A x \in Txs : mem'[x] = IF x = t THEN n ELSE mem[x]
  BY Zenon, <1>1, <1>3, <1>6 DEF Good
<1>8. Abandoned(t) \subseteq Strays /\ \A a \in Abandoned(t) : a.run = "action" =>
                                          a.signed \in Range(rows[a.tx].subs)
  <2>1. Abandoned(t) \subseteq Strays
    BY <1>2, <1>3 DEF Abandoned, Strays, Good, InMemory
  <2>2. \A a \in Abandoned(t) : a.tx = t /\ a.signed = mem[t].signed
                                /\ (a.run = "action" => mem[t].stage = "submit")
    BY DEF Abandoned
  <2>3. QED
    BY Zenon, <1>3, <2>1, <2>2 DEF Good, Recorded
<1>9. /\ o \in Orchestrators /\ o.state = oc.state /\ o.pc = "process" /\ o.next = oc.next
      /\ o.list = oc.list /\ o.polled = oc.polled /\ o.updates = oc.updates
  BY Zenon, <1>1 DEF IInv, Types, Orchestrators
<1> HIDE DEF o
<1>10. /\ oc' \in Orchestrators /\ oc'.state \notin {"none", "stopped"}
       /\ oc'.list = oc.list /\ oc'.polled = oc.polled /\ oc'.next = oc.next
       /\ oc'.updates = oc.updates
       /\ oc'.pc = "wait" \/ (oc'.pc = "process" /\ oc'.todo # {})
  BY Zenon, <1>1, <1>9, PollDoneFacts DEF Live
<1>11. Types'
  BY Zenon, <1>1, <1>7, <1>8, <1>10 DEF IInv, Types
<1>12. \A x \in Txs : Nonced(x)' = Nonced(x) /\ Queued(x)' = Queued(x) /\ UpToDate(x)' = UpToDate(x)
  BY <1>1, <1>4, <1>6, <1>7, <1>10 DEF Nonced, Queued, UpToDate
<1>13. Live' /\ PolledTxs' = PolledTxs
  BY Zenon, <1>10 DEF Live, PolledTxs
<1>14. NextNonce'
  BY Zenon, <1>1, <1>10, <1>12, <1>13 DEF IInv, NextNonce
<1>15. /\ ptm.updates \subseteq Txs \X Versions /\ oc.updates \subseteq Txs \X Versions
       /\ (\A x \in oc.list : x \in Txs) /\ (\A p \in oc.polled : p.tx \in Txs)
  BY Zenon DEF IInv, Types, Orchestrators, PolledRows
<1>16. Places'
  BY Zenon, <1>1, <1>10, <1>12, <1>13, <1>15 DEF IInv, Places
<1>17. Current'
  BY <1>1, <1>10, <1>12, <1>13, <1>15 DEF IInv, Current
<1>18. StoppedIsQuiescent'
  BY Zenon, <1>10 DEF StoppedIsQuiescent
<1>19. \A x \in Txs : Recorded(mem'[x], Range(rows[x].subs))
  BY Zenon, <1>6, <1>7, GoodMem DEF Good
<1>20. \A a \in stray' : a.run = "action" => a.signed \in Range(rows[a.tx].subs)
  BY Zenon, <1>1, <1>8 DEF IInv, Records
<1>21. QED
  BY Zenon, <1>1, <1>11, <1>14, <1>16, <1>17, <1>18, <1>19, <1>20, LoopStep
-----------------------------------------------------------------------------
(* The poll. *)

(* The rank of a row among a set of rows. *)
Rank(S, t) == Cardinality({s \in S : s < t})

(* Of two rows of a set the greater has the greater rank. *)
LEMMA RankGrows ==
  ASSUME NEW S \in SUBSET Txs, NEW t \in S, NEW u \in S, t < u
  PROVE  Rank(S, t) \in Nat /\ Rank(S, u) \in Nat /\ Rank(S, t) < Rank(S, u)
<1> DEFINE A == {s \in S : s < t}
           B == {s \in S : s < u}
<1>1. /\ IsFiniteSet(A) /\ Cardinality(A) \in Nat /\ IsFiniteSet(B) /\ Cardinality(B) \in Nat
  BY Zenon, FiniteRows
<1>2. t \notin A /\ A \cup {t} \subseteq B
  <2>1. \A s \in S : s \in Int
    BY DEF Txs
  <2>2. t \notin A /\ t \in B /\ \A s \in A : s \in B
    BY <2>1
  <2>3. QED
    BY Zenon, <2>2
<1> HIDE DEF A, B
<1>3. Cardinality(A \cup {t}) = Cardinality(A) + 1
  BY Zenon, <1>1, <1>2, FS_AddElement
<1>4. Cardinality(A \cup {t}) <= Cardinality(B)
  BY Zenon, <1>1, <1>2, FS_Subset
<1>5. QED
  BY <1>1, <1>3, <1>4 DEF Rank, A, B

(* The query of pollAndProcess returns no more rows than it is limited to. *)
LEMMA FirstOfBounded ==
  ASSUME NEW S \in SUBSET Txs, NEW n \in Nat
  PROVE  FirstOf(S, n) \subseteq S /\ Cardinality(FirstOf(S, n)) <= n
<1> DEFINE F == FirstOf(S, n)
           f == [t \in F |-> Rank(S, t)]
<1>1. F \subseteq S /\ \A t \in F : Rank(S, t) \in 0..(n - 1)
  <2>1. \A t \in S : Rank(S, t) \in Nat
    BY Zenon, FiniteRows DEF Rank
  <2>2. QED
    BY <2>1 DEF FirstOf, Rank
<1>2. f \in Injection(F, 0..(n - 1))
  <2>1. f \in [F -> 0..(n - 1)]
    BY Zenon, <1>1
  <2>2. \A t, u \in F : f[t] = f[u] => t = u
    <3> SUFFICES ASSUME NEW t \in F, NEW u \in F, t # u
                 PROVE  Rank(S, t) # Rank(S, u)
      BY Zenon
    <3>1. t < u \/ u < t
      <4>1. t \in Txs /\ u \in Txs
        BY Zenon, <1>1
      <4>2. QED
        BY <4>1 DEF Txs
    <3>2. QED
      BY <1>1, <3>1, RankGrows
  <2>3. QED
    BY Zenon, <2>1, <2>2 DEF Injection, IsInjective
<1>3. IsFiniteSet(0..(n - 1)) /\ Cardinality(0..(n - 1)) = n
  BY FS_Interval
<1> HIDE DEF F, f
<1>4. Cardinality(F) <= Cardinality(0..(n - 1))
  BY Zenon, <1>2, <1>3, FS_Injection
<1>5. QED
  BY Zenon, <1>1, <1>3, <1>4 DEF F

(* The rows that are polled are not in flight, and there is a place for     *)
(* each of them.                                                            *)
LEMMA AdditionalFacts ==
  ASSUME IInv, Live, NEW keep \in SUBSET oc.list
  PROVE  LET add == Additional(keep)
             txs == {p.tx : p \in add}
         IN  /\ add \in SUBSET PolledRows /\ txs \in SUBSET Txs
             /\ txs \cap keep = {}
             /\ Cardinality(keep) + Cardinality(txs) <= MaxInFlight
             /\ \A p \in add : p.ver = rows[p.tx].ver
             /\ add # {} <=> txs # {}
             /\ \A t \in txs : /\ rows[t].written
                              /\ \A s \in Txs : s < t => Nonced(s) \/ s \in txs
<1> DEFINE above(t) == \/ keep = {}
                       \/ rows[t].nonce = None
                       \/ rows[t].nonce > HighestNonce(oc.list)
           found == {t \in Txs : rows[t].written /\ ~rows[t].completed /\ above(t)}
           n == MaxInFlight - Cardinality(keep)
           F == FirstOf(found, n)
           add == {Polled(t) : t \in F}
           txs == {p.tx : p \in add}
<1>1. Additional(keep) = add
  BY Zenon DEF Additional
<1>2. oc.list \in SUBSET Txs /\ keep \in SUBSET Txs
  BY Zenon DEF IInv, Types, Orchestrators
<1>3. n \in Nat /\ Cardinality(keep) \in Nat
  <2>1. IsFiniteSet(oc.list) /\ Cardinality(oc.list) \in Nat /\ Cardinality(keep) \in Nat
    BY Zenon, <1>2, FiniteRows
  <2>2. Cardinality(keep) <= Cardinality(oc.list)
    BY Zenon, <2>1, FS_Subset
  <2>3. PolledTxs \in SUBSET Txs
    BY Zenon, PolledAreRows DEF IInv
  <2>4. Cardinality(PolledTxs) \in Nat
    BY Zenon, <2>3, FiniteRows
  <2>5. Cardinality(oc.list) <= MaxInFlight
    BY <2>1, <2>4, BoundsAssumption DEF IInv, Places
  <2>6. QED
    BY <2>1, <2>2, <2>5, BoundsAssumption
<1>4. found \in SUBSET Txs /\ found \cap keep = {}
  <2>1. SUFFICES ASSUME NEW t \in found, t \in keep
                 PROVE  FALSE
    BY Zenon
  <2>2. t \in oc.list /\ t \in Txs /\ Nonced(t)
    BY Zenon, <2>1 DEF IInv, Places
  <2> DEFINE ns == {rows[s].nonce : s \in oc.list}
  <2>3. ns \in SUBSET (0..MaxTx) /\ rows[t].nonce \in ns /\ MaxTx \in Nat
    BY <1>2, <2>2, BoundsAssumption DEF IInv, NonceOfRow, Txs, None
  <2> HIDE DEF ns
  <2>4. rows[t].nonce <= Max(ns) /\ ns # {} /\ Max(ns) \in 0..MaxTx /\ rows[t].nonce \in 0..MaxTx
    BY Zenon, <2>3, MaxOf
  <2>5. rows[t].nonce > HighestNonce(oc.list)
    BY Zenon, <2>1, <2>2 DEF Nonced
  <2>6. HighestNonce(oc.list) = Max(ns)
    BY Zenon, <2>4 DEF HighestNonce, ns
  <2>7. QED
    BY <2>4, <2>5, <2>6
<1>5. /\ \A t \in found : rows[t].written
      /\ \A t \in found, s \in Txs : s < t => Nonced(s) \/ s \in found
  BY Zenon DEF IInv, NonceOfRow, Nonced
<1> HIDE DEF found, n
<1>6. F \subseteq found /\ Cardinality(F) <= n
  BY Zenon, <1>3, <1>4, FirstOfBounded
<1>7. \A t \in F : Polled(t) \in PolledRows /\ Polled(t).tx = t /\ Polled(t).ver = rows[t].ver
  <2> SUFFICES ASSUME NEW t \in F
               PROVE  Polled(t) \in PolledRows /\ Polled(t).tx = t /\ Polled(t).ver = rows[t].ver
    BY Zenon
  <2>1. t \in Txs /\ rows[t] \in Rows
    BY Zenon, <1>4, <1>6, GoodMem
  <2>2. rows[t].ver \in Versions /\ rows[t].subs \in Seq(Versions)
    BY Zenon, <2>1 DEF Rows
  <2>3. LastSubmission(t) \in MaybeVersions
    BY <2>2, BoundsAssumption DEF LastSubmission, MaybeVersions, Versions, None
  <2>4. QED
    BY Zenon, <2>1, <2>2, <2>3 DEF Polled, PolledRows
<1>8. \A t \in F, s \in found : s < t => s \in F
  <2> SUFFICES ASSUME NEW t \in F, NEW s \in found, s < t
               PROVE  s \in F
    BY Zenon
  <2>1. Rank(found, s) \in Nat /\ Rank(found, t) \in Nat /\ Rank(found, s) < Rank(found, t)
    BY Zenon, <1>4, <1>6, RankGrows
  <2>2. Rank(found, t) < n
    BY Zenon DEF FirstOf, Rank
  <2>3. Rank(found, s) < n
    BY <1>3, <2>1, <2>2
  <2>4. QED
    BY Zenon, <2>3 DEF FirstOf, Rank
<1> HIDE DEF F
<1>9. txs = F
  BY <1>7
<1>10. /\ add \in SUBSET PolledRows /\ (\A p \in add : p.ver = rows[p.tx].ver)
       /\ (add # {} <=> txs # {})
  BY <1>7
<1>11. F \in SUBSET Txs /\ F \cap keep = {}
  BY Zenon, <1>4, <1>6
<1>12. Cardinality(F) \in Nat
  BY Zenon, <1>11, FiniteRows
<1>13. Cardinality(keep) + Cardinality(F) <= MaxInFlight
  BY <1>3, <1>6, <1>12, BoundsAssumption DEF n
<1>14. \A t \in F : rows[t].written /\ \A s \in Txs : s < t => Nonced(s) \/ s \in F
  BY Zenon, <1>6, <1>5, <1>8
<1> HIDE DEF add
<1>15. QED
  BY Zenon, <1>1, <1>9, <1>10, <1>11, <1>13, <1>14

(* handleUpdates: after it, what is in flight has the latest of the updates *)
(* that were handed to the orchestrator.                                    *)
LEMMA UpdatedFacts ==
  ASSUME IInv, Live, NEW t \in Txs
  PROVE  LET n == Updated[t]
         IN  /\ Good(n, Range(rows[t].subs)) /\ n.ver = mem[t].ver
             /\ t \in oc.list => \/ <<t, rows[t].ver>> \in ptm.updates
                                 \/ n.update # None /\ n.update = rows[t].ver
                                 \/ n.update = None /\ n.ver = rows[t].ver
<1> DEFINE m == mem[t]
           vs == {v \in Versions : <<t, v>> \in oc.updates}
           n == [m EXCEPT !.update = Max(vs)]
<1>1. Updated[t] = IF vs # {} /\ t \in oc.list THEN n ELSE m
  BY Zenon DEF Updated, InFlight
<1>2. Good(m, Range(rows[t].subs)) /\ rows[t].ver \in Versions
  BY Zenon, GoodMem DEF Rows
<1>3. \A v \in vs : v <= rows[t].ver
  BY Zenon DEF IInv, Current
<1>4. vs # {} => Queued(t)
  BY Zenon DEF IInv, Current
<1>5. <<t, rows[t].ver>> \in oc.updates => rows[t].ver \in vs
  BY Zenon, <1>2
<1>6. vs \in SUBSET Versions /\ vs \in SUBSET (0..MaxVersion) /\ MaxVersion \in Nat
  BY BoundsAssumption DEF Versions
<1>7. t \in oc.list => Queued(t) \/ UpToDate(t)
  BY Zenon DEF IInv, Current
<1> HIDE DEF vs
<1>8. vs # {} => Max(vs) \in vs /\ \A v \in vs : v <= Max(vs)
  BY Zenon, <1>6, MaxOf
<1>9. CASE ~(vs # {} /\ t \in oc.list)
  BY Zenon, <1>1, <1>2, <1>5, <1>7, <1>9 DEF Queued, UpToDate
<1>10. CASE vs # {} /\ t \in oc.list
  <2> DEFINE x == Max(vs)
  <2>1. x \in vs /\ \A v \in vs : v <= x
    BY Zenon, <1>8, <1>10
  <2> HIDE DEF x
  <2>2. x \in Versions /\ x \in MaybeVersions /\ x # None
    BY <1>6, <2>1 DEF MaybeVersions, Versions, None
  <2>3. <<t, rows[t].ver>> \in oc.updates => x = rows[t].ver
    <3>1. x <= rows[t].ver /\ (rows[t].ver \in vs => rows[t].ver <= x)
      BY Zenon, <1>3, <2>1 DEF vs
    <3>2. QED
      BY <1>2, <1>5, <2>2, <3>1 DEF Versions
  <2>4. /\ n \in InMemory /\ n.ver = m.ver /\ n.update = x /\ n.out = m.out
        /\ n.stage = m.stage /\ n.result = m.result /\ n.signed = m.signed /\ n.tosave = m.tosave
    BY Zenon, <1>2, <2>2 DEF Good, InMemory, x
  <2>5. Updated[t] = n
    BY Zenon, <1>1, <1>10
  <2> HIDE DEF n
  <2>6. Good(n, Range(rows[t].subs))
    BY Zenon, <1>2, <2>4 DEF Good, Recorded
  <2>7. <<t, rows[t].ver>> \in ptm.updates \/ <<t, rows[t].ver>> \in oc.updates
    BY Zenon, <1>4, <1>10 DEF Queued
  <2>8. QED
    BY Zenon, <2>2, <2>3, <2>4, <2>5, <2>6, <2>7
<1>11. QED
  BY Zenon, <1>9, <1>10

(* pollAndProcess, up to the query: updates are taken over and the places   *)
(* of confirmed transactions are given to rows.                             *)
LEMMA PollStep ==
  ASSUME IInv, PollQuery
  PROVE  IInv'
<1> DEFINE keep == {t \in oc.list : ~mem[t].confirmed}
           add == Additional(keep)
           txs == {p.tx : p \in add}
           ch == keep # oc.list \/ add # {}
           o == [oc EXCEPT !.updates = {}, !.list = keep, !.polled = add, !.changed = ch]
           a == [o EXCEPT !.pc = "allocate"]
           b == [o EXCEPT !.todo = keep, !.pc = "process"]
<1>1. /\ Live /\ oc.pc = "wait" /\ UNCHANGED <<rows, updating, ptm, stray, chain, faults>>
      /\ oc' = IF add # {} THEN a ELSE PollDone(b)
      /\ mem' = [t \in Txs |-> IF mem[t].confirmed THEN NoMem ELSE Updated[t]]
  BY Zenon DEF PollQuery
<1>2. keep \in SUBSET oc.list /\ \A t \in keep : ~mem[t].confirmed
  BY Zenon
<1> HIDE DEF keep
<1>3. oc \in Orchestrators /\ keep \in SUBSET Txs /\ oc.list \in SUBSET Txs
  BY Zenon, <1>2, PolledAreRows DEF IInv, Types
<1>4. /\ add \in SUBSET PolledRows /\ txs \in SUBSET Txs
      /\ txs \cap keep = {}
      /\ Cardinality(keep) + Cardinality(txs) <= MaxInFlight
      /\ \A p \in add : p.ver = rows[p.tx].ver
      /\ add # {} <=> txs # {}
      /\ \A t \in txs : /\ rows[t].written
                        /\ \A s \in Txs : s < t => Nonced(s) \/ s \in txs
  BY Zenon, <1>1, <1>2, AdditionalFacts
<1> HIDE DEF add
<1>5. ch \in BOOLEAN
  BY Zenon
<1> HIDE DEF ch
<1>6. /\ a \in Orchestrators /\ a.state = oc.state /\ a.pc = "allocate" /\ a.list = keep
      /\ a.polled = add /\ a.next = oc.next /\ a.updates = {}
  BY Zenon, <1>3, <1>4, <1>5 DEF Orchestrators
<1>7. /\ b \in Orchestrators /\ b.state = oc.state /\ b.pc = "process" /\ b.list = keep
      /\ b.polled = add /\ b.next = oc.next /\ b.updates = {}
  BY Zenon, <1>3, <1>4, <1>5 DEF Orchestrators
<1> HIDE DEF a, b
<1>8. /\ oc' \in Orchestrators /\ Live' /\ oc'.list = keep /\ oc'.polled = add
      /\ oc'.next = oc.next /\ oc'.updates = {}
      /\ add # {} => oc'.pc = "allocate"
      /\ add = {} => oc'.pc = "wait" \/ (oc'.pc = "process" /\ oc'.todo # {})
  <2>1. CASE add # {}
    BY Zenon, <1>1, <1>6, <2>1 DEF Live
  <2>2. CASE add = {}
    <3>1. b.state \notin {"none", "stopped"}
      BY Zenon, <1>1, <1>7 DEF Live
    <3>2. oc' = PollDone(b)
      BY Zenon, <1>1, <2>2
    <3>3. QED
      BY Zenon, <1>7, <2>2, <3>1, <3>2, PollDoneFacts DEF Live
  <2>3. QED
    BY Zenon, <2>1, <2>2
<1>9. PolledTxs' = txs
  BY Zenon, <1>8 DEF PolledTxs
<1>10. mem' \in [Txs -> InMemory] /\ \A t \in Txs : Recorded(mem'[t], Range(rows[t].subs))
  <2>1. \A t \in Txs : Good(Updated[t], Range(rows[t].subs))
    BY Zenon, <1>1, UpdatedFacts
  <2>2. \A t \in Txs : mem'[t] = NoMem \/ mem'[t] = Updated[t]
    BY Zenon, <1>1
  <2>3. \A t \in Txs : mem'[t] \in InMemory /\ Recorded(mem'[t], Range(rows[t].subs))
    BY Zenon, <2>1, <2>2, FreshFacts DEF Good
  <2>4. QED
    BY Zenon, <1>1, <2>3
<1>11. Types'
  BY Zenon, <1>1, <1>8, <1>10 DEF IInv, Types
<1>12. NextNonce'
  BY Zenon, <1>1, <1>8 DEF IInv, NextNonce, Nonced
<1>13. Places'
  BY Zenon, <1>1, <1>2, <1>4, <1>8, <1>9 DEF IInv, Places, Nonced
<1>14. Current'
  <2>1. \A t \in keep : Queued(t)' \/ UpToDate(t)'
    <3> SUFFICES ASSUME NEW t \in keep
                 PROVE  Queued(t)' \/ UpToDate(t)'
      BY Zenon
    <3>1. t \in Txs /\ t \in oc.list /\ mem'[t] = Updated[t]
      BY Zenon, <1>1, <1>2, <1>3
    <3>2. \/ <<t, rows[t].ver>> \in ptm.updates
          \/ mem'[t].update # None /\ mem'[t].update = rows[t].ver
          \/ mem'[t].update = None /\ mem'[t].ver = rows[t].ver
      BY Zenon, <1>1, <3>1, UpdatedFacts
    <3>3. QED
      BY Zenon, <1>1, <3>2 DEF Queued, UpToDate
  <2>2. QED
    BY Zenon, <1>1, <1>4, <1>8, <2>1 DEF IInv, Current
<1>15. StoppedIsQuiescent'
  BY Zenon, <1>8 DEF StoppedIsQuiescent, Live
<1>16. QED
  BY Zenon, <1>1, <1>10, <1>11, <1>12, <1>13, <1>14, <1>15, LoopStep DEF IInv, Records

(* The rows to be given a nonce are consecutive, from the first without one. *)
LEMMA Consecutive ==
  ASSUME NEW S \in SUBSET Txs, NEW first \in Nat \ {0}, \A t \in S : first <= t,
         \A t \in S, s \in Txs : first <= s /\ s < t => s \in S
  PROVE  /\ \A t \in S : first + Rank(S, t) = t
         /\ S # {} => /\ first + Cardinality(S) \in 1..(MaxTx + 1)
                      /\ \A t \in Txs : t < first \/ t \in S <=> t < first + Cardinality(S)
<1>1. \A t \in Txs : t \in Nat /\ 1 <= t /\ t <= MaxTx
  BY DEF Txs
<1>2. ASSUME NEW t \in S
      PROVE  first + Rank(S, t) = t
  <2>1. {s \in S : s < t} = first..(t - 1)
    <3>1. \A s \in S : s \in Int
      BY <1>1
    <3>2. \A s \in first..(t - 1) : s \in S /\ s < t
      <4> SUFFICES ASSUME NEW s \in first..(t - 1)
                   PROVE  s \in S /\ s < t
        BY Zenon
      <4>1. t \in Txs /\ first <= s /\ s < t
        BY <1>1
      <4>2. s \in Txs
        BY <1>1, <4>1, BoundsAssumption DEF Txs
      <4>3. QED
        BY Zenon, <4>1, <4>2
    <3>3. \A s \in S : s < t => s \in first..(t - 1)
      BY <1>1, <3>1
    <3>4. QED
      BY Zenon, <3>2, <3>3
  <2>2. Cardinality(first..(t - 1)) = t - first
    <3>1. t \in Nat /\ first <= t
      BY Zenon, <1>1
    <3>2. QED
      BY <3>1, FS_Interval
  <2>3. Rank(S, t) = t - first /\ t \in Nat
    BY Zenon, <1>1, <2>1, <2>2 DEF Rank
  <2>4. QED
    BY <2>3
<1>3. ASSUME S # {}
      PROVE  /\ first + Cardinality(S) \in 1..(MaxTx + 1)
             /\ \A t \in Txs : t < first \/ t \in S <=> t < first + Cardinality(S)
  <2> DEFINE m == Max(S)
  <2>1. S \in SUBSET (0..MaxTx) /\ MaxTx \in Nat
    BY BoundsAssumption DEF Txs
  <2>2. m \in S /\ \A t \in S : t <= m
    BY Zenon, <1>3, <2>1, MaxOf
  <2> HIDE DEF m
  <2>3. m \in Nat /\ first <= m /\ m <= MaxTx
    BY Zenon, <1>1, <2>2
  <2>4. S = first..m
    <3>1. \A t \in S : t \in first..m
      BY <1>1, <2>2, <2>3
    <3>2. \A t \in first..m : t \in S
      <4> SUFFICES ASSUME NEW t \in first..m
                   PROVE  t \in S
        BY Zenon
      <4>1. t \in Txs
        BY <2>3, BoundsAssumption DEF Txs
      <4>2. CASE t < m
        BY <2>2, <4>1, <4>2
      <4>3. CASE t = m
        BY Zenon, <2>2, <4>3
      <4>4. QED
        BY <2>3, <4>2, <4>3
    <3>3. QED
      BY Zenon, <3>1, <3>2
  <2>5. Cardinality(S) = m - first + 1
    BY <2>3, <2>4, FS_Interval
  <2>6. first + Cardinality(S) = m + 1
    BY <2>3, <2>5
  <2>7. first + Cardinality(S) \in 1..(MaxTx + 1)
    BY <2>1, <2>3, <2>6
  <2>8. \A t \in Txs : t < first \/ t \in S <=> t < m + 1
    BY <1>1, <2>3, <2>4
  <2>9. QED
    BY Zenon, <2>6, <2>7, <2>8
<1>4. QED
  BY Zenon, <1>2, <1>3

(* What allocateNonces starts from: the rows without a nonce begin at       *)
(* nextNonce, or at the chain's count for the address if there is none yet. *)
LEMMA FirstNonce ==
  ASSUME IInv, Live, oc.pc = "allocate"
  PROVE  LET first == IF oc.next = None THEN Len(chain.mined) + 1 ELSE oc.next
         IN  first \in Nat \ {0} /\ \A t \in Txs : Nonced(t) <=> t < first
<1>1. CASE oc.next = None
  <2>1. \A t \in Txs : ~Nonced(t)
    BY Zenon, <1>1 DEF IInv, NextNonce
  <2>2. chain.mined \in Seq(Pool)
    BY Zenon DEF IInv, Types
  <2>3. Len(chain.mined) = 0
    <3> SUFFICES ASSUME Len(chain.mined) # 0
                 PROVE  FALSE
      BY Zenon
    <3>1. 1 \in DOMAIN chain.mined /\ chain.mined[1] \in Pool
      BY <2>2
    <3>2. chain.mined[1] \in Range(chain.mined)
      BY Zenon, <3>1 DEF Range
    <3>3. PICK h \in Pool : h \in Range(chain.mined)
      BY Zenon, <3>1, <3>2
    <3>4. h.tx \in Txs
      BY DEF Pool
    <3>5. QED
      BY Zenon, <2>1, <3>3, <3>4 DEF IInv, NonceOfRow
  <2>4. QED
    BY <1>1, <2>1, <2>3 DEF Txs
<1>2. CASE oc.next # None
  BY <1>2 DEF IInv, NextNonce
<1>3. QED
  BY Zenon, <1>1, <1>2

(* A row that was polled becomes an in-flight transaction. *)
LEMMA PolledRowFacts ==
  ASSUME IInv, NEW t \in PolledTxs
  PROVE  LET n == NewInMemoryTxStateManager(PolledRow(t))
         IN  /\ PolledRow(t) \in oc.polled /\ PolledRow(t).tx = t
             /\ n.ver = PolledRow(t).ver /\ n.update = None
             /\ \A subs : Good(n, subs)
<1> DEFINE r == PolledRow(t)
<1>1. r \in oc.polled /\ r.tx = t
  BY Zenon DEF PolledTxs, PolledRow
<1> HIDE DEF r
<1>2. r \in PolledRows
  BY Zenon, <1>1 DEF IInv, Types, Orchestrators
<1>3. r.ver \in Versions /\ r.hash \in MaybeVersions /\ (r.hash # None) \in BOOLEAN
      /\ None \in MaybeVersions
  BY <1>2, BoundsAssumption DEF PolledRows, MaybeVersions, None
<1> DEFINE n == NewInMemoryTxStateManager(r)
<1>4. n \in InMemory /\ n.stage = "none" /\ n.ver = r.ver /\ n.update = None
  BY Zenon, <1>3, NothingToSave DEF NewInMemoryTxStateManager, InMemory, Stages, Outcomes
<1> HIDE DEF n
<1>5. \A subs : Good(n, subs)
  BY Zenon, <1>4 DEF Good, Recorded
<1>6. QED
  BY Zenon, <1>1, <1>4, <1>5 DEF n, r

(* allocateNonces: the rows that were polled are given the nonces that      *)
(* follow, and join the list.                                               *)
LEMMA AllocateStep ==
  ASSUME IInv, AllocateNonces
  PROVE  IInv'
<1> DEFINE P == PolledTxs
           S == {t \in P : rows[t].nonce = None}
           first == IF oc.next = None THEN Len(chain.mined) + 1 ELSE oc.next
           next == IF S = {} THEN oc.next ELSE first + Cardinality(S)
           list == oc.list \cup P
<1>1. /\ Live /\ oc.pc = "allocate" /\ UNCHANGED <<updating, ptm, stray, chain, faults>>
      /\ rows' = [t \in Txs |-> IF t \in S THEN [rows[t] EXCEPT !.nonce = first + Rank(S, t)]
                                ELSE rows[t]]
      /\ oc' = [oc EXCEPT !.next = next, !.list = list, !.todo = list, !.polled = {},
                          !.pc = "process"]
      /\ mem' = [t \in Txs |-> IF t \in P THEN NewInMemoryTxStateManager(PolledRow(t)) ELSE mem[t]]
  BY Zenon DEF AllocateNonces, Rank
<1>2. oc \in Orchestrators /\ rows \in [Txs -> Rows] /\ P \in SUBSET Txs /\ oc.list \in SUBSET Txs
  BY Zenon, PolledAreRows DEF IInv, Types
<1>3. first \in Nat \ {0} /\ \A t \in Txs : Nonced(t) <=> t < first
  BY Zenon, <1>1, FirstNonce
<1>4. S \in SUBSET Txs /\ (\A t \in S : ~Nonced(t)) /\ (\A t \in P : t \in S \/ Nonced(t))
  BY Zenon, <1>2 DEF Nonced
<1>5. \A t \in P : /\ rows[t].written
                   /\ \A s \in Txs : s < t => Nonced(s) \/ s \in P
  BY Zenon, <1>1 DEF IInv, Places
<1>6. \A t \in S, s \in Txs : first <= s /\ s < t => s \in S
  <2>1. \A s \in Txs : s \in P /\ ~Nonced(s) => s \in S
    BY Zenon DEF Nonced
  <2>2. \A s \in Txs : first <= s => ~Nonced(s)
    BY <1>3 DEF Txs
  <2>3. QED
    BY Zenon, <1>5, <2>1, <2>2
<1>7. /\ oc.next = None => \A t \in Txs : ~Nonced(t)
      /\ oc.next # None => /\ oc.next \in 1..(MaxTx + 1)
                           /\ \A t \in Txs : Nonced(t) <=> t < oc.next
      /\ oc.next \in Nat
  BY Zenon, <1>1, <1>2 DEF IInv, NextNonce, Orchestrators
<1> HIDE DEF S, first, P
<1>8. \A t \in S : first <= t
  BY <1>3, <1>4 DEF Txs
<1>9. /\ \A t \in S : first + Rank(S, t) = t
      /\ S # {} => /\ first + Cardinality(S) \in 1..(MaxTx + 1)
                   /\ \A t \in Txs : t < first \/ t \in S <=> t < first + Cardinality(S)
  BY Zenon, <1>3, <1>4, <1>6, <1>8, Consecutive
<1>10. /\ rows' \in [Txs -> Rows]
       /\ \A t \in Txs : /\ rows'[t].nonce = IF t \in S THEN t ELSE rows[t].nonce
                         /\ rows'[t].ver = rows[t].ver /\ rows'[t].subs = rows[t].subs
                         /\ rows'[t].written = rows[t].written
                         /\ rows'[t].completed = rows[t].completed
  <2>1. \A t \in S : rows'[t] = [rows[t] EXCEPT !.nonce = t]
    BY Zenon, <1>1, <1>4, <1>9
  <2>2. \A t \in Txs : t \notin S => rows'[t] = rows[t]
    BY Zenon, <1>1
  <2>3. \A t \in Txs : rows[t] \in Rows /\ t \in Nat
    BY <1>2 DEF Txs
  <2>4. \A t \in Txs : rows'[t] \in Rows
    BY <2>1, <2>2, <2>3, ZenonT(60) DEF Rows
  <2>5. QED
    BY Zenon, <1>1, <2>1, <2>2, <2>3, <2>4 DEF Rows
<1>11. next \in Nat /\ list \in SUBSET Txs
  BY <1>2, <1>7, <1>9
<1>12. /\ IF next = None THEN \A t \in Txs : ~(Nonced(t) \/ t \in S)
          ELSE next \in 1..(MaxTx + 1) /\ \A t \in Txs : Nonced(t) \/ t \in S <=> t < next
  <2>1. CASE S = {}
    BY Zenon, <1>7, <2>1
  <2>2. CASE S # {}
    <3>1. next \in 1..(MaxTx + 1) /\ next # None
      BY <1>9, <2>2, BoundsAssumption DEF None
    <3>2. \A t \in Txs : Nonced(t) \/ t \in S <=> t < next
      BY Zenon, <1>3, <1>9, <2>2
    <3>3. QED
      BY Zenon, <3>1, <3>2
  <2>3. QED
    BY Zenon, <2>1, <2>2
<1> HIDE DEF next
<1>13. /\ oc' \in Orchestrators /\ oc'.state = oc.state /\ oc'.next = next /\ oc'.list = list
       /\ oc'.todo = list /\ oc'.polled = {} /\ oc'.pc = "process" /\ oc'.updates = oc.updates
  <2> HIDE DEF list
  <2>1. QED
    BY Zenon, <1>1, <1>2, <1>11 DEF Orchestrators
<1>14. Live' /\ PolledTxs' = {}
  BY Zenon, <1>1, <1>13 DEF Live, PolledTxs
<1>15. \A t \in Txs : Nonced(t)' <=> Nonced(t) \/ t \in S
  BY <1>10 DEF Nonced, Txs, None
<1>16. NextNonce'
  BY Zenon, <1>12, <1>13, <1>15 DEF NextNonce
<1>17. \A h \in chain.pool \cup Range(chain.mined) : h.tx \in Txs
  BY DEF IInv, Types, Range, Pool
<1>18. NonceOfRow'
  <2>1. \A t \in Txs : rows'[t].nonce \in {None, t}
    BY Zenon, <1>10 DEF IInv, NonceOfRow
  <2>2. \A s, t \in Txs : s < t /\ Nonced(t)' => Nonced(s)'
    BY <1>12, <1>15, <1>11 DEF Txs
  <2>3. \A t \in Txs : Nonced(t)' => rows'[t].written
    <3>1. \A t \in S : rows[t].written
      BY Zenon, <1>5 DEF S
    <3>2. QED
      BY Zenon, <1>10, <1>15, <3>1 DEF IInv, NonceOfRow
  <2>4. \A h \in chain.pool \cup Range(chain.mined) : Nonced(h.tx)'
    BY Zenon, <1>15, <1>17 DEF IInv, NonceOfRow
  <2>5. /\ \A s, t \in Txs : s < t => (rows'[t].written => rows'[s].written)
        /\ \A t \in Txs : rows'[t].completed => Nonced(t)'
    BY Zenon, <1>10, <1>15 DEF IInv, NonceOfRow
  <2>6. QED
    BY Zenon, <1>1, <2>1, <2>2, <2>3, <2>4, <2>5 DEF NonceOfRow
<1>19. Places'
  <2>1. \A t \in list : Nonced(t)'
    BY Zenon, <1>1, <1>2, <1>4, <1>15 DEF IInv, Places
  <2>2. Cardinality(list) <= MaxInFlight
    <3>1. /\ oc.list \cap P = {} /\ Cardinality(oc.list) + Cardinality(P) <= MaxInFlight
      BY Zenon, <1>1 DEF IInv, Places, P
    <3>2. /\ IsFiniteSet(oc.list) /\ IsFiniteSet(P) /\ Cardinality(oc.list) \in Nat
          /\ Cardinality(P) \in Nat /\ Cardinality({}) = 0
      BY Zenon, <1>2, FiniteRows, FS_EmptySet
    <3>3. Cardinality(list) = Cardinality(oc.list) + Cardinality(P)
      <4>1. Cardinality(list) =
              Cardinality(oc.list) + Cardinality(P) - Cardinality(oc.list \cap P)
        BY Zenon, <3>2, FS_Union
      <4>2. Cardinality(oc.list \cap P) = 0
        BY Zenon, <3>1, <3>2
      <4>3. QED
        BY <3>2, <4>1, <4>2
    <3>4. QED
      BY Zenon, <3>1, <3>3
  <2>3. list # {}
    BY Zenon, <1>1 DEF IInv, Places, P, PolledTxs
  <2>4. Cardinality({}) = 0 /\ Cardinality(list) \in Nat
    BY Zenon, <1>11, FS_EmptySet, FiniteRows
  <2> HIDE DEF list
  <2>5. QED
    BY <1>13, <1>14, <2>1, <2>2, <2>3, <2>4 DEF Places
<1>20. /\ mem' \in [Txs -> InMemory] /\ \A t \in Txs : Recorded(mem'[t], Range(rows'[t].subs))
  <2>1. \A t \in Txs : mem'[t] = IF t \in P THEN NewInMemoryTxStateManager(PolledRow(t)) ELSE mem[t]
    BY Zenon, <1>1
  <2>2. \A t \in Txs : Good(mem'[t], Range(rows[t].subs))
    BY Zenon, <2>1, GoodMem, PolledRowFacts DEF P
  <2>3. QED
    BY Zenon, <1>1, <1>10, <2>2 DEF Good
<1>21. Types'
  BY Zenon, <1>1, <1>10, <1>13, <1>20 DEF IInv, Types
<1>22. Records'
  <2>1. RecordedBeforeSubmitted'
    BY Zenon, <1>1, <1>10, <1>17 DEF IInv, Records, RecordedBeforeSubmitted
  <2>2. \A g \in stray' : g.run = "action" => g.signed \in Range(rows'[g.tx].subs)
    BY Zenon, <1>1, <1>10 DEF IInv, Records, Types, Strays
  <2>3. QED
    BY Zenon, <1>20, <2>1, <2>2 DEF Records
<1>23. Current'
  <2>1. \A t \in Txs : Queued(t)' = Queued(t)
    BY Zenon, <1>1, <1>10, <1>13 DEF Queued
  <2>2. \A t \in list : Queued(t)' \/ UpToDate(t)'
    <3> SUFFICES ASSUME NEW t \in list
                 PROVE  Queued(t)' \/ UpToDate(t)'
      BY Zenon
    <3>1. CASE t \in P
      <4>1. /\ PolledRow(t) \in oc.polled /\ PolledRow(t).tx = t
            /\ mem'[t].ver = PolledRow(t).ver /\ mem'[t].update = None /\ t \in Txs
        BY Zenon, <1>1, <1>2, <3>1, PolledRowFacts DEF P
      <4>2. Queued(t) \/ PolledRow(t).ver = rows[t].ver
        BY Zenon, <1>1, <4>1 DEF IInv, Current
      <4>3. QED
        BY Zenon, <1>10, <2>1, <4>1, <4>2 DEF UpToDate
    <3>2. CASE t \notin P
      <4>1. t \in oc.list /\ t \in Txs /\ mem'[t] = mem[t]
        BY Zenon, <1>1, <1>2, <3>2
      <4>2. Queued(t) \/ UpToDate(t)
        BY Zenon, <1>1, <4>1 DEF IInv, Current
      <4>3. QED
        BY Zenon, <1>10, <2>1, <4>1, <4>2 DEF UpToDate
    <3>3. QED
      BY Zenon, <3>1, <3>2
  <2>3. ptm.updates \subseteq Txs \X Versions /\ oc.updates \subseteq Txs \X Versions
    BY Zenon DEF IInv, Types, Orchestrators
  <2>4. QED
    BY <1>1, <1>10, <1>13, <2>1, <2>2, <2>3 DEF IInv, Current
<1>24. StoppedIsQuiescent'
  BY Zenon, <1>14 DEF StoppedIsQuiescent, Live
<1>25. QED
  BY Zenon, <1>16, <1>18, <1>19, <1>21, <1>22, <1>23, <1>24 DEF IInv
-----------------------------------------------------------------------------
(* The invariant. *)

(* Nothing has been written, polled or sent. *)
LEMMA InitIInv == Init => IInv
<1> SUFFICES ASSUME Init
             PROVE  IInv
  BY Zenon
<1> DEFINE r == [written |-> FALSE, ver |-> 1, nonce |-> None, completed |-> FALSE, subs |-> <<>>]
<1>1. r \in Rows
  BY BoundsAssumption DEF Rows, Versions, None
<1>2. /\ rows \in [Txs -> Rows]
      /\ \A t \in Txs : rows[t].nonce = None /\ ~rows[t].written /\ ~rows[t].completed
                        /\ ~Nonced(t)
  BY Zenon, <1>1 DEF Init, Nonced
<1>3. /\ oc \in Orchestrators /\ oc.state = "none" /\ ~Live /\ oc.updates = {}
      /\ oc.list = {} /\ oc.polled = {}
  BY Zenon, FreshFacts DEF Init, Live, NoOrchestrator
<1>4. /\ mem \in [Txs -> InMemory] /\ \A t \in Txs : mem[t] = NoMem
  BY Zenon, FreshFacts DEF Init
<1>5. chain.pool = {} /\ chain.mined = <<>> /\ Range(chain.mined) = {}
      /\ chain \in [pool : SUBSET Pool, mined : Seq(Pool), indexed : Nat]
  BY DEF Init, Range
<1>6. Types
  BY Zenon, <1>2, <1>3, <1>4, <1>5 DEF Init, Types
<1>7. Records
  BY Zenon, <1>4, <1>5, FreshFacts DEF Init, Records, RecordedBeforeSubmitted
<1>8. NonceOfRow
  BY Zenon, <1>2, <1>5 DEF NonceOfRow
<1>9. NextNonce /\ Current
  BY Zenon, <1>3 DEF Init, NextNonce, Current
<1>10. Places
  <2>1. PolledTxs = {} /\ Cardinality({}) = 0
    BY Zenon, <1>3, FS_EmptySet DEF PolledTxs
  <2>2. QED
    BY <1>3, <2>1, BoundsAssumption DEF Places
<1>11. StoppedIsQuiescent
  BY Zenon, <1>4, FreshFacts DEF Init, StoppedIsQuiescent, Quiescent
<1>12. QED
  BY Zenon, <1>6, <1>7, <1>8, <1>9, <1>10, <1>11 DEF IInv

(* Every step preserves the invariant. *)
LEMMA NextIInv == IInv /\ [Next]_vars => IInv'
<1> SUFFICES ASSUME IInv, [Next]_vars
             PROVE  IInv'
  BY Zenon
<1>1. CASE UNCHANGED vars
  <2>1. UNCHANGED <<rows, updating, ptm, oc, mem, stray, chain, faults>>
    BY Zenon, <1>1 DEF vars
  <2>2. Types' /\ SameQueue /\ stray' \subseteq stray /\ Ledger' = Ledger
    BY Zenon, <2>1, UnchangedLedger DEF IInv, Types, SameQueue
  <2>3. QED
    BY Zenon, <2>1, <2>2, UnchangedRows, UnchangedMem, AsyncStep
<1>2. CASE \E t \in Txs : WriteNewTransactions(t) \/ CheckTransactionCompleted(t) \/ UpdateTransaction(t)
  BY Zenon, <1>2, WriteStep, MarkStep, UpdateStep
<1>3. CASE EngineLoop \/ Loop
  BY Zenon, <1>3, EngineStep, InitNonceStep, PollStep, AllocateStep, LoopEndsStep, ProduceStep DEF Loop
<1>4. ASSUME NEW t \in Txs,
             \/ TriggerRetrieveGasPrice(t) \/ TriggerSignTx(t) \/ ActionCancelled(t)
             \/ ActionFails(t) \/ PersistFails(t)
      PROVE  IInv'
  <2>1. mem[t].run # "none" /\ UNCHANGED <<rows, updating, ptm, oc, stray, chain>> /\ faults' \in Nat
    BY <1>4, SMTT(40) DEF TriggerRetrieveGasPrice, TriggerSignTx, ActionCancelled, ActionFails, PersistFails,
                Fault, IInv, Types
  <2>2. PICK out \in Outcomes \ {"saved"} : StageOutput(t, out)
    BY Zenon, <1>4 DEF TriggerRetrieveGasPrice, TriggerSignTx, ActionCancelled, ActionFails, PersistFails,
                Outcomes
  <2>3. QED
    BY Zenon, <2>1, <2>2, EndsStep
<1>5. CASE Async
  BY Zenon, <1>4, <1>5, SubmitStep, PersistStep, StrayPersistStep, StrayEndsStep DEF Async
<1>6. CASE Failures
  BY Zenon, <1>4, <1>6, SubmitStep, PoolStep, MarkStep, RestartStep DEF Failures
<1>7. CASE Timers
  BY Zenon, <1>7, MarkStep, NotedStep DEF Timers
<1>8. CASE Indexer
  BY Zenon, <1>8, MatchStep, NotedStep DEF Indexer
<1>9. CASE \E h \in Pool : Mine(h)
  BY Zenon, <1>9, PoolStep
<1>10. QED
  BY Zenon, <1>1, <1>2, <1>3, <1>5, <1>6, <1>7, <1>8, <1>9 DEF Next

(* The invariant of the public transaction manager. *)
LEMMA Invariant == Spec => []IInv
BY InitIInv, NextIInv, PTL DEF Spec
-----------------------------------------------------------------------------
(* The theorems. *)

(* Rows, in-flight transactions, orchestrators and the ledger keep their    *)
(* types; no more transactions are in flight than maxInFlight, and no row   *)
(* is polled that is in flight already (pollAndProcess).                    *)
THEOREM TypeCorrect == Spec => []TypeOK
<1>1. IInv => TypeOK
  <2> SUFFICES ASSUME IInv
               PROVE  TypeOK
    BY Zenon
  <2>1. ASSUME NEW t \in Txs
        PROVE  /\ rows[t].ver \in Versions /\ rows[t].nonce \in 0..MaxTx
               /\ Range(rows[t].subs) \subseteq Versions
               /\ mem[t].stage \in Stages /\ mem[t].run \in {"none", "action", "persist"}
               /\ mem[t].hash \in 0..MaxVersion /\ mem[t].ver \in Versions
    <3>1. rows[t].nonce \in 0..MaxTx
      BY BoundsAssumption DEF IInv, NonceOfRow, Txs, None
    <3>2. rows[t] \in Rows /\ mem[t] \in InMemory
      BY Zenon, GoodMem DEF Good
    <3>3. rows[t].ver \in Versions /\ rows[t].subs \in Seq(Versions)
      BY Zenon, <3>2 DEF Rows
    <3>4. Range(rows[t].subs) \subseteq Versions
      BY <3>3 DEF Range
    <3>5. QED
      BY Zenon, <3>1, <3>2, <3>3, <3>4 DEF InMemory, MaybeVersions
  <2>2. /\ oc.state \in {"none", "new", "running", "stale", "idle", "stopped"}
        /\ oc.list \in SUBSET Txs /\ PolledTxs \in SUBSET Txs
    BY Zenon, PolledAreRows DEF IInv, Types, Orchestrators
  <2>3. chain.pool \subseteq Pool /\ Range(chain.mined) \subseteq Pool
    BY DEF IInv, Types, Range
  <2>4. Cardinality(oc.list) <= MaxInFlight /\ PolledTxs \subseteq Txs \ oc.list
    <3>1. Cardinality(oc.list) \in Nat /\ Cardinality(PolledTxs) \in Nat
      BY Zenon, <2>2, FiniteRows
    <3>2. QED
      BY <2>2, <3>1, BoundsAssumption DEF IInv, Places
  <2>5. QED
    BY Zenon, <2>1, <2>2, <2>3, <2>4 DEF TypeOK
<1>2. QED
  BY <1>1, Invariant, PTL

(* Whatever reached the base ledger has a submission record: nothing is     *)
(* sent before its record is in the database, by the stages of any          *)
(* generation (TriggerSubmitTx after addSigningResult was persisted).       *)
THEOREM RecordedBeforeSubmittedAlways == Spec => []RecordedBeforeSubmitted
<1>1. IInv => RecordedBeforeSubmitted
  BY Zenon DEF IInv, Records
<1>2. QED
  BY <1>1, Invariant, PTL

(* An update that was committed reaches the in-flight transaction, or is on *)
(* its way to it (UpdateTransaction, handleUpdates, NewGeneration).         *)
THEOREM UpdateNotLostAlways == Spec => []UpdateNotLost
<1>1. IInv => UpdateNotLost
  BY Zenon DEF IInv, Current, UpdateNotLost, InFlight, Queued, UpToDate
<1>2. QED
  BY <1>1, Invariant, PTL

(* An orchestrator that has stopped left no goroutine behind (the exit of   *)
(* orchestratorLoop).                                                       *)
THEOREM StoppedIsQuiescentAlways == Spec => []StoppedIsQuiescent
<1>1. IInv => StoppedIsQuiescent
  BY Zenon DEF IInv
<1>2. QED
  BY <1>1, Invariant, PTL

(* The nonces in the database have no gap and no duplicate and follow the   *)
(* order of the rows, whichever orchestrators allocated them                *)
(* (initNextNonceFromDB, allocateNonces).                                   *)
THEOREM NoncesFollowRowsAlways == Spec => []NoncesFollowRows
<1>1. IInv => NoncesFollowRows
  <2> SUFFICES ASSUME IInv, NEW t \in Txs, rows[t].nonce # None
               PROVE  /\ rows[t].nonce = Cardinality({s \in Txs : s <= t /\ rows[s].nonce # None})
                      /\ \A s \in Txs : s < t => rows[s].nonce # None
    BY Zenon DEF NoncesFollowRows
  <2>1. rows[t].nonce = t /\ \A s \in Txs : s < t => rows[s].nonce # None
    BY Zenon DEF IInv, NonceOfRow, Nonced
  <2>2. {s \in Txs : s <= t /\ rows[s].nonce # None} = 1..t
    <3>1. \A s \in Txs : s \in Int /\ 1 <= s /\ s <= MaxTx
      BY DEF Txs
    <3>2. \A s \in 1..t : s \in Txs /\ s <= t /\ rows[s].nonce # None
      <4> SUFFICES ASSUME NEW s \in 1..t
                   PROVE  s \in Txs /\ s <= t /\ rows[s].nonce # None
        BY Zenon
      <4>1. s \in Txs /\ (s < t \/ s = t)
        BY <3>1, BoundsAssumption DEF Txs
      <4>2. QED
        BY <2>1, <4>1
    <3>3. \A s \in Txs : s <= t => s \in 1..t
      BY <3>1
    <3>4. QED
      BY Zenon, <3>2, <3>3
  <2>3. Cardinality(1..t) = t
    BY FS_Interval DEF Txs
  <2>4. QED
    BY Zenon, <2>1, <2>2, <2>3
<1>2. QED
  BY <1>1, Invariant, PTL
=============================================================================
