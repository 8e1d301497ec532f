------------------------ MODULE EventStream_invariant ------------------------
(***************************************************************************)
(* The inductive invariant of the event streams, that it holds at first,   *)
(* and that the block indexer, starts, stops and crashes of a stream, and  *)
(* the detector preserve it.                                               *)
(*                                                                         *)
(* An event is, in this order, with the detector (out), in the channel     *)
(* (dispatch), in the batch of the dispatcher and delivered.  Each message *)
(* on its way makes a claim about the events that have to be ahead of it:  *)
(* all earlier ones and, if it ends a block, all of that block (Claims).   *)
(* The claims hold of what is settled and of the queues ahead of the       *)
(* message (Queued), the position of the detector makes the same claim of  *)
(* all the queues (Reached), and the checkpoint of the batch alone         *)
(* (Covered).  A message that moves on takes its claim along.              *)
(***************************************************************************)
EXTENDS EventStream, TLAPS, FiniteSetTheorems, WellFoundedInduction

-----------------------------------------------------------------------------
(* The inductive invariant.                                                 *)

Messages == [log : AllLogs \cup {NoLog}, block : Blocks, last : BOOLEAN]
Detectors == [pc : {"off", "checkpoint", "first", "highest", "loop"}, base : 0..MaxBlock,
              startup : 0..MaxBlock, upTo : 0..MaxBlock, last : AllLogs \cup {NoLog},
              out : Seq(Messages)]
Dispatchers == [pc : {"off", "receive", "run", "handled"}, batch : Seq(AllLogs),
                after : 0..MaxBlock]

\* A message about a block up to n: one of its logs, or that it is complete.
Proper(m, n) ==
    /\ m.block <= n
    /\ IF m.log = NoLog THEN m.last ELSE m.log[1] = m.block
AllProper(q, n) == \A i \in 1..Len(q) : Proper(q[i], n)

Types ==
    /\ setup \in Setups
    /\ indexed \in 0..MaxBlock /\ notified \in 0..indexed
    /\ persisted \in -1..indexed /\ checkpoint \in -1..indexed
    /\ delivered \subseteq AllLogs /\ discarded \subseteq AllLogs
    /\ blocks \in Seq(Blocks) /\ Len(blocks) <= QueueLength
    /\ dispatch \in Seq(Messages) /\ Len(dispatch) <= setup.batchSize
    /\ det \in Detectors /\ dis \in Dispatchers
    /\ origin \in 0..MaxBlock

\* What the detector and the dispatcher may hold.
DetectorShape ==
    /\ AllProper(det.out, indexed)
    /\ det.out # <<>> \/ CatchingUp => det.pc = "loop"
    /\ det.last # NoLog => CatchingUp
    /\ det.startup <= indexed /\ det.upTo <= indexed

DispatcherShape ==
    /\ AllProper(dispatch, indexed)
    /\ dis.after <= indexed
    /\ Len(dis.batch) <= setup.batchSize
    /\ dis.pc = "receive" => Len(dis.batch) < setup.batchSize
    /\ dis.pc = "off" => dis.batch = <<>>
    /\ dis.pc \in {"run", "handled"} => dis.batch # <<>>
    /\ dis.pc = "handled" => ToSet(dis.batch) \subseteq delivered

\* Notified blocks come in ascending order.
Ascending ==
    /\ \A i \in 1..Len(blocks) : blocks[i] <= notified
    /\ \A i, j \in 1..Len(blocks) : i < j => blocks[i] < blocks[j]

\* The first block of a stream from the latest one is found when it starts.
Origins ==
    /\ setup.fromBlock # Latest => origin = setup.fromBlock
    /\ det.pc = "first" => setup.fromBlock = Latest
    /\ setup.fromBlock = Latest =>
         origin <= notified /\ \A i \in 1..Len(blocks) : origin <= blocks[i]
    /\ origin = None =>
         /\ delivered = {} /\ dis.batch = <<>> /\ dispatch = <<>> /\ det.out = <<>>
         /\ persisted = -1 /\ det.pc \in {"off", "checkpoint", "first"}

Settled == delivered \cup discarded
Batched == Settled \cup ToSet(dis.batch)
LogsIn(q) == {q[i].log : i \in 1..Len(q)}
Ahead(q, i) == {q[j].log : j \in 1..(i - 1)}

\* What a message says of the events W if those of S are ahead of it.
Claims(W, m, S) ==
    /\ m.log # NoLog => \A e \in W : Earlier(e, m.log) => e \in S
    /\ m.last => \A e \in W : e[1] <= m.block => e \in S \cup {m.log}
Queued(W, q, S) == \A i \in 1..Len(q) : Claims(W, q[i], S \cup Ahead(q, i))

Covered(W) ==
    /\ \A f \in delivered : \A e \in W : Earlier(e, f) => e \in Settled
    /\ \A f \in ToSet(dis.batch) : \A e \in W : Earlier(e, f) => e \in Batched
    /\ dis.batch # <<>> => \A e \in W : e[1] <= dis.after => e \in Batched
    /\ \A e \in W : e[1] <= persisted => e \in Batched

Handed == Batched \cup LogsIn(dispatch) \cup LogsIn(det.out)
Reached(W) ==
    /\ det.pc \in {"highest", "loop"} => \A e \in W : e[1] <= det.base => e \in Handed
    /\ det.last # NoLog => \A e \in W : e = det.last \/ Earlier(e, det.last) => e \in Handed

Pipeline(W) ==
    /\ Covered(W)
    /\ Queued(W, dispatch, Batched)
    /\ Queued(W, det.out, Batched \cup LogsIn(dispatch))
    /\ Reached(W)

IInv == Types /\ DetectorShape /\ DispatcherShape /\ Ascending /\ Origins /\ Pipeline(Wanted)

-----------------------------------------------------------------------------
(* Logs: finitely many, in a total order.                                   *)

\* A log is a block and a position, and NoLog is not one.
LEMMA LogShape ==
    /\ NoLog \notin AllLogs
    /\ \A e \in AllLogs : /\ e[1] \in Blocks /\ e[2] \in 1..Len(Logs[e[1]])
                          /\ e = <<e[1], e[2]>>
    /\ \A b \in Blocks : \A e \in LogsOf(b) : e \in AllLogs /\ e[1] = b
    /\ \A e \in AllLogs : e \in LogsOf(e[1])
<1>1. \A b \in Blocks : Logs[b] \in Seq({"match", "other"}) /\ DOMAIN Logs[b] = 1..Len(Logs[b])
  BY SetupsAssumption
<1>2. ASSUME NEW e \in AllLogs
      PROVE  /\ e[1] \in Blocks /\ e[2] \in 1..Len(Logs[e[1]]) /\ e = <<e[1], e[2]>>
             /\ e \in LogsOf(e[1])
  <2>1. PICK b \in Blocks : e \in LogsOf(b)
    BY Zenon DEF AllLogs
  <2>2. PICK i \in 1..Len(Logs[b]) : e = <<b, i>>
    BY Zenon, <1>1, <2>1 DEF LogsOf
  <2>3. e[1] = b /\ e[2] = i
    BY Zenon, <2>2
  <2> QED
    BY Zenon, <2>1, <2>2, <2>3
<1>3. ASSUME NEW b \in Blocks, NEW e \in LogsOf(b)
      PROVE  e \in AllLogs /\ e[1] = b
  <2>1. e \in AllLogs
    BY Zenon DEF AllLogs
  <2>2. PICK i \in DOMAIN Logs[b] : e = <<b, i>>
    BY Zenon DEF LogsOf
  <2> QED
    BY Zenon, <2>1, <2>2
<1>4. NoLog \notin AllLogs
  <2> SUFFICES ASSUME NoLog \in AllLogs PROVE FALSE
    BY Zenon
  <2>1. NoLog[1] \in Blocks
    BY Zenon, <1>2
  <2> QED
    BY <2>1 DEF NoLog, None, Blocks
<1> QED
  BY Zenon, <1>2, <1>3, <1>4

\* Earlier orders them.
LEMMA LogOrder ==
    ASSUME NEW e \in AllLogs, NEW f \in AllLogs, NEW g \in AllLogs
    PROVE  /\ ~Earlier(e, e)
           /\ Earlier(e, f) => ~Earlier(f, e)
           /\ Earlier(e, f) /\ Earlier(f, g) => Earlier(e, g)
           /\ e = f \/ Earlier(e, f) \/ Earlier(f, e)
<1>1. /\ e[1] \in Int /\ e[2] \in Int /\ e = <<e[1], e[2]>>
      /\ f[1] \in Int /\ f[2] \in Int /\ f = <<f[1], f[2]>>
      /\ g[1] \in Int /\ g[2] \in Int
  BY LogShape DEF Blocks
<1> QED
  BY <1>1 DEF Earlier

\* The logs are finitely many, since each block has a sequence of them.
LEMMA FiniteLogs ==
    ASSUME NEW S \in SUBSET AllLogs
    PROVE  IsFiniteSet(S) /\ Cardinality(S) \in Nat
<1>1. ASSUME NEW b \in Blocks PROVE IsFiniteSet(LogsOf(b))
  <2> DEFINE D == DOMAIN Logs[b]
             f == [i \in D |-> <<b, i>>]
  <2>1. Logs[b] \in Seq({"match", "other"})
    BY Zenon, SetupsAssumption
  <2>2. D = 1..Len(Logs[b]) /\ Len(Logs[b]) \in Nat
    BY <2>1
  <2>3. IsFiniteSet(D)
    <3>1. 1 \in Int /\ Len(Logs[b]) \in Int
      BY <2>2
    <3>2. IsFiniteSet(1..Len(Logs[b]))
      BY Zenon, <3>1, FS_Interval
    <3> QED
      BY Zenon, <2>2, <3>2
  <2>4. f \in Surjection(D, LogsOf(b))
    BY Zenon DEF Surjection, LogsOf
  <2> QED
    BY Zenon, <2>3, <2>4, FS_Surjection
<1> DEFINE all == {LogsOf(b) : b \in Blocks}
           f == [b \in Blocks |-> LogsOf(b)]
<1>2. IsFiniteSet(Blocks)
  BY FS_Interval, SetupsAssumption DEF Blocks
<1>3. f \in Surjection(Blocks, all)
  BY Zenon DEF Surjection
<1>4. IsFiniteSet(all)
  BY Zenon, <1>2, <1>3, FS_Surjection
<1>5. IsFiniteSet(AllLogs)
  BY Zenon, <1>1, <1>4, FS_UNION DEF AllLogs
<1>6. IsFiniteSet(S)
  BY Zenon, <1>5, FS_Subset
<1> QED
  BY Zenon, <1>6, FS_CardinalityType

\* A non-empty set of naturals has a least element.
LEMMA LeastNat ==
    ASSUME NEW S \in SUBSET Nat, S # {}
    PROVE  \E x \in S : \A y \in S : x <= y
<1>1. PICK x \in S : \A y \in S : <<y, x>> \notin OpToRel(<, Nat)
  BY Zenon, NatLessThanWellFounded, WFMin
<1>2. \A y \in S : ~(y < x)
  BY Zenon, <1>1 DEF OpToRel
<1> QED
  BY <1>2

\* A set of logs has a last one: the one with the fewest logs after it ...
LEMMA LastLog ==
    ASSUME NEW S \in SUBSET AllLogs, S # {}
    PROVE  \E e \in S : \A f \in S : f = e \/ Earlier(f, e)
<1> DEFINE After(e) == {f \in S : Earlier(e, f)}
           N == {Cardinality(After(e)) : e \in S}
<1>1. \A e \in S : After(e) \in SUBSET AllLogs
  BY Zenon
<1>2. \A e \in S : IsFiniteSet(After(e)) /\ Cardinality(After(e)) \in Nat
  <2> HIDE DEF After
  <2> QED
    BY Zenon, <1>1, FiniteLogs
<1>3. PICK n \in N : \A k \in N : n <= k
  <2>1. N \in SUBSET Nat /\ N # {}
    BY Zenon, <1>2
  <2> HIDE DEF N
  <2> QED
    BY Zenon, <2>1, LeastNat
<1>4. PICK e \in S : n = Cardinality(After(e))
  BY Zenon, <1>3
<1>5. ASSUME NEW f \in S, Earlier(e, f) PROVE FALSE
  <2>1. f \in After(e) /\ f \notin After(f) /\ After(f) \subseteq After(e)
    BY Zenon, <1>5, LogOrder
  <2>2. Cardinality(After(e)) <= Cardinality(After(f))
    BY Zenon, <1>3, <1>4
  <2>3. After(f) \in SUBSET After(e)
    BY Zenon, <2>1
  <2> HIDE DEF After
  <2>4. /\ Cardinality(After(f)) <= Cardinality(After(e))
        /\ Cardinality(After(e)) = Cardinality(After(f)) => After(e) = After(f)
    BY Zenon, <1>2, <2>3, FS_Subset
  <2>5. Cardinality(After(e)) = Cardinality(After(f))
    BY <1>2, <2>2, <2>4
  <2> QED
    BY Zenon, <2>1, <2>4, <2>5
<1> QED
  BY Zenon, <1>5, LogOrder

\* ... and a first one.
LEMMA FirstLog ==
    ASSUME NEW S \in SUBSET AllLogs, S # {}
    PROVE  \E e \in S : \A f \in S : f = e \/ Earlier(e, f)
<1> DEFINE Sooner(e) == {f \in S : Earlier(f, e)}
           N == {Cardinality(Sooner(e)) : e \in S}
<1>1. \A e \in S : Sooner(e) \in SUBSET AllLogs
  BY Zenon
<1>2. \A e \in S : IsFiniteSet(Sooner(e)) /\ Cardinality(Sooner(e)) \in Nat
  <2> HIDE DEF Sooner
  <2> QED
    BY Zenon, <1>1, FiniteLogs
<1>3. PICK n \in N : \A k \in N : n <= k
  <2>1. N \in SUBSET Nat /\ N # {}
    BY Zenon, <1>2
  <2> HIDE DEF N
  <2> QED
    BY Zenon, <2>1, LeastNat
<1>4. PICK e \in S : n = Cardinality(Sooner(e))
  BY Zenon, <1>3
<1>5. ASSUME NEW f \in S, Earlier(f, e) PROVE FALSE
  <2>1. f \in Sooner(e) /\ f \notin Sooner(f) /\ Sooner(f) \subseteq Sooner(e)
    BY Zenon, <1>5, LogOrder
  <2>2. Cardinality(Sooner(e)) <= Cardinality(Sooner(f))
    BY Zenon, <1>3, <1>4
  <2>3. Sooner(f) \in SUBSET Sooner(e)
    BY Zenon, <2>1
  <2> HIDE DEF Sooner
  <2>4. /\ Cardinality(Sooner(f)) <= Cardinality(Sooner(e))
        /\ Cardinality(Sooner(e)) = Cardinality(Sooner(f)) => Sooner(e) = Sooner(f)
    BY Zenon, <1>2, <2>3, FS_Subset
  <2>5. Cardinality(Sooner(e)) = Cardinality(Sooner(f))
    BY <1>2, <2>2, <2>4
  <2> QED
    BY Zenon, <2>1, <2>4, <2>5
<1> QED
  BY Zenon, <1>5, LogOrder

-----------------------------------------------------------------------------
(* InChainOrder: what the CHOOSE finds.                                     *)

Ordered(s, S) ==
    /\ s \in [1..Cardinality(S) -> S]
    /\ \A i, j \in 1..Cardinality(S) : i < j => Earlier(s[i], s[j])

\* A set of logs can be put in order: its last log follows the others, which
\* are one less.
LEMMA CanBeOrdered ==
    ASSUME NEW S \in SUBSET AllLogs
    PROVE  \E s : Ordered(s, S)
<1> DEFINE Bad == {n \in Nat : \E T \in SUBSET AllLogs : Cardinality(T) = n /\ ~\E s : Ordered(s,
      T)}
<1> SUFFICES Bad = {}
  BY Zenon, FiniteLogs
<1> SUFFICES ASSUME Bad # {} PROVE FALSE
  BY Zenon
<1>1. PICK n \in Bad : \A k \in Bad : n <= k
  <2>1. Bad \in SUBSET Nat
    BY Zenon
  <2> HIDE DEF Bad
  <2> QED
    BY Zenon, <2>1, LeastNat
<1>2. PICK T \in SUBSET AllLogs : Cardinality(T) = n /\ ~\E s : Ordered(s, T)
  BY Zenon, <1>1
<1>3. n \in Nat /\ IsFiniteSet(T)
  BY Zenon, <1>2, FiniteLogs
<1>4. T # {}
  <2> SUFFICES ASSUME T = {} PROVE FALSE
    BY Zenon
  <2>1. Cardinality(T) = 0
    BY Zenon, FS_EmptySet
  <2>2. <<>> \in [1..0 -> T] /\ 1..0 = {}
    OBVIOUS
  <2>3. Ordered(<<>>, T)
    BY Zenon, <2>1, <2>2 DEF Ordered
  <2> QED
    BY Zenon, <1>2, <2>3
<1>5. PICK m \in T : \A f \in T : f = m \/ Earlier(f, m)
  BY Zenon, <1>4, LastLog
<1> DEFINE U == T \ {m}
<1>6. U \in SUBSET AllLogs /\ Cardinality(U) = n - 1
  BY Zenon, <1>2, <1>3, FS_RemoveElement
<1>7. Cardinality(U) \in Nat
  BY Zenon, <1>6, FiniteLogs
<1>8. n - 1 \notin Bad
  <2> HIDE DEF Bad
  <2>1. ~(n <= n - 1)
    BY <1>3
  <2> QED
    BY Zenon, <1>1, <2>1
<1>9. PICK s : Ordered(s, U)
  BY Zenon, <1>6, <1>7, <1>8
<1> HIDE DEF U
<1> DEFINE r == [i \in 1..n |-> IF i = n THEN m ELSE s[i]]
<1>10. s \in [1..(n - 1) -> U] /\ \A i, j \in 1..(n - 1) : i < j => Earlier(s[i], s[j])
  BY Zenon, <1>6, <1>9 DEF Ordered
<1>11. U \subseteq T /\ \A f \in U : Earlier(f, m)
  BY Zenon, <1>5 DEF U
<1>12. r \in [1..n -> T]
  BY <1>3, <1>10, <1>11
<1>13. ASSUME NEW i \in 1..n, NEW j \in 1..n, i < j
       PROVE  Earlier(r[i], r[j])
  <2>1. i \in 1..(n - 1) /\ i # n /\ (j = n \/ (j \in 1..(n - 1) /\ j # n))
    BY <1>3, <1>13
  <2>2. r[i] = s[i] /\ s[i] \in U
    BY Zenon, <1>10, <2>1
  <2>3. CASE j = n
    <3>1. r[j] = m
      BY Zenon, <2>3
    <3> QED
      BY Zenon, <1>11, <2>2, <3>1
  <2>4. CASE j \in 1..(n - 1) /\ j # n
    <3>1. r[j] = s[j]
      BY Zenon, <2>4
    <3> QED
      BY Zenon, <1>10, <1>13, <2>1, <2>2, <2>4, <3>1
  <2> QED
    BY Zenon, <2>1, <2>3, <2>4
<1>14. Ordered(r, T)
  <2> HIDE DEF r
  <2> QED
    BY Zenon, <1>2, <1>12, <1>13 DEF Ordered
<1> QED
  BY Zenon, <1>2, <1>14

\* InChainOrder is such an order, and has every log of the set.
LEMMA ChainOrder ==
    ASSUME NEW S \in SUBSET AllLogs
    PROVE  /\ Ordered(InChainOrder(S), S)
           /\ InChainOrder(S) \in Seq(S) /\ Len(InChainOrder(S)) = Cardinality(S)
           /\ \A e \in S : \E i \in 1..Cardinality(S) : InChainOrder(S)[i] = e
           /\ InChainOrder(S) = <<>> <=> S = {}
<1> DEFINE n == Cardinality(S)
           s == InChainOrder(S)
<1>1. \E r \in [1..n -> S] : \A i, j \in 1..n : i < j => Earlier(r[i], r[j])
  BY Zenon, CanBeOrdered DEF Ordered
<1>2. s \in [1..n -> S] /\ \A i, j \in 1..n : i < j => Earlier(s[i], s[j])
  BY Zenon, <1>1 DEF InChainOrder
<1>3. IsFiniteSet(S) /\ n \in Nat
  BY Zenon, FiniteLogs
<1>4. IsFiniteSet(1..n) /\ Cardinality(1..n) = n
  BY <1>3, FS_Interval
<1> HIDE DEF n, s
<1>5. s \in Injection(1..n, S)
  <2> SUFFICES ASSUME NEW i \in 1..n, NEW j \in 1..n, i # j PROVE s[i] # s[j]
    BY Zenon, <1>2 DEF Injection, IsInjective
  <2>1. i < j \/ j < i
    BY <1>3
  <2>2. s[i] \in AllLogs /\ s[j] \in AllLogs
    BY Zenon, <1>2
  <2> QED
    BY Zenon, <1>2, <2>1, <2>2, LogOrder
<1>6. s \in Surjection(1..n, S)
  BY Zenon, <1>3, <1>4, <1>5, FS_Injection DEF n
<1>7. \A e \in S : \E i \in 1..n : s[i] = e
  BY Zenon, <1>6 DEF Surjection
<1>8. s \in Seq(S) /\ Len(s) = n
  BY <1>2, <1>3
<1>9. s = <<>> <=> S = {}
  <2>1. s = <<>> <=> n = 0
    BY <1>3, <1>8
  <2> QED
    BY Zenon, <1>3, <2>1, FS_EmptySet DEF n
<1> QED
  BY Zenon, <1>2, <1>7, <1>8, <1>9 DEF Ordered, n, s

-----------------------------------------------------------------------------
(* Pages of the database.                                                   *)

\* A page is the beginning of what the query finds, and all of it unless the
\* page is full.
LEMMA PageIsPrefix ==
    ASSUME NEW S \in SUBSET AllLogs
    PROVE  /\ FirstPage(S) \subseteq S
           /\ \A e \in FirstPage(S) : \A f \in S : Earlier(f, e) => f \in FirstPage(S)
           /\ Cardinality(FirstPage(S)) < PageSize => FirstPage(S) = S
           /\ ~(Cardinality(FirstPage(S)) < PageSize) => FirstPage(S) # {}
<1> DEFINE P == FirstPage(S)
           Sooner(e) == {f \in S : Earlier(f, e)}
<1>1. P \subseteq S /\ \A e \in S : e \in P <=> Cardinality(Sooner(e)) < PageSize
  BY Zenon DEF FirstPage
<1>2. \A e \in S : Sooner(e) \in SUBSET AllLogs
  BY Zenon
<1>3. \A e, f \in S : Earlier(f, e) => Sooner(f) \in SUBSET Sooner(e)
  BY Zenon, LogOrder
<1>4. \A e \in S : \A f \in S : f \in Sooner(e) <=> Earlier(f, e)
  BY Zenon
<1>5. \A e \in S : Sooner(e) \subseteq S
  BY Zenon
<1> HIDE DEF P, Sooner
<1>6. \A e \in S : IsFiniteSet(Sooner(e)) /\ Cardinality(Sooner(e)) \in Nat
  BY Zenon, <1>2, FiniteLogs
<1>7. PageSize \in Nat \ {0}
  BY Zenon, SetupsAssumption
<1>8. IsFiniteSet(P) /\ Cardinality(P) \in Nat
  BY Zenon, <1>1, FiniteLogs
<1>9. ASSUME NEW e \in P, NEW f \in S, Earlier(f, e)
      PROVE  f \in P
  <2>1. Cardinality(Sooner(f)) <= Cardinality(Sooner(e)) /\ Cardinality(Sooner(e)) < PageSize
    BY Zenon, <1>1, <1>3, <1>6, <1>9, FS_Subset
  <2>2. e \in S
    BY Zenon, <1>1
  <2>3. Cardinality(Sooner(f)) < PageSize
    BY <1>6, <1>7, <2>1, <2>2
  <2> QED
    BY Zenon, <1>1, <2>3
<1>10. ASSUME Cardinality(P) < PageSize
       PROVE  P = S
  <2> SUFFICES ASSUME S \ P # {} PROVE FALSE
    BY Zenon, <1>1
  <2> DEFINE R == S \ P
  <2>1. R \in SUBSET AllLogs /\ R # {}
    BY Zenon
  <2>2. PICK e \in R : \A f \in R : f = e \/ Earlier(e, f)
    <3> HIDE DEF R
    <3> QED
      BY Zenon, <2>1, FirstLog
  <2>3. Sooner(e) \subseteq P
    <3> SUFFICES ASSUME NEW f \in Sooner(e), f \notin P PROVE FALSE
      BY Zenon
    <3>1. e \in S /\ f \in R /\ Earlier(f, e)
      BY Zenon, <1>4, <1>5
    <3>2. e \in AllLogs /\ f \in AllLogs
      BY Zenon, <2>1, <3>1
    <3> QED
      BY Zenon, <2>2, <3>1, <3>2, LogOrder
  <2>4. Cardinality(Sooner(e)) <= Cardinality(P)
    BY Zenon, <1>8, <2>3, FS_Subset
  <2>5. e \in S /\ ~(Cardinality(Sooner(e)) < PageSize)
    BY Zenon, <1>1, <2>2
  <2> QED
    BY <1>6, <1>7, <1>8, <1>10, <2>4, <2>5
<1>11. ASSUME ~(Cardinality(P) < PageSize), P = {}
       PROVE  FALSE
  <2>1. Cardinality(P) = 0
    BY Zenon, <1>11, FS_EmptySet
  <2> QED
    BY <1>7, <1>11, <2>1
<1> QED
  BY Zenon, <1>1, <1>9, <1>10, <1>11 DEF P

\* The position that a page ends at is that of its last log.
LEMMA LastOfPage ==
    ASSUME NEW P \in SUBSET AllLogs, P # {}
    PROVE  LastOf(P) \in P /\ \A f \in P : f = LastOf(P) \/ Earlier(f, LastOf(P))
  BY Zenon, LastLog DEF LastOf

-----------------------------------------------------------------------------
(* Queues of messages.                                                      *)

\* What is ahead of a place in a queue is in the queue.
LEMMA InQueue ==
    ASSUME NEW q, NEW i
    PROVE  /\ \A j \in 1..Len(q) : q[j].log \in LogsIn(q)
           /\ \A j \in 1..(i - 1) : q[j].log \in Ahead(q, i)
           /\ \A x \in LogsIn(q) : \E j \in 1..Len(q) : x = q[j].log
           /\ \A x \in Ahead(q, i) : \E j \in 1..(i - 1) : x = q[j].log
  BY Zenon DEF LogsIn, Ahead

\* The claims of a queue hold of fewer events, with more of them settled,
LEMMA QueueGrows ==
    ASSUME NEW W, NEW V \in SUBSET W, NEW q, NEW S, NEW T, \A e \in W : e \in S => e \in T,
           Queued(W, q, S)
    PROVE  Queued(V, q, T)
  BY Zenon DEF Queued, Claims

\* and of the same events.
LEMMA QueueMore ==
    ASSUME NEW W, NEW q, NEW S, NEW T, \A e \in W : e \in S => e \in T, Queued(W, q, S)
    PROVE  Queued(W, q, T)
  BY Zenon DEF Queued, Claims

\* A queue may follow another that holds what it claims.
LEMMA QueueConcat ==
    ASSUME NEW W, NEW q \in Seq(Messages), NEW r \in Seq(Messages), NEW S,
           Queued(W, q, S), Queued(W, r, S \cup LogsIn(q))
    PROVE  /\ q \o r \in Seq(Messages)
           /\ Queued(W, q \o r, S) /\ LogsIn(q \o r) = LogsIn(q) \cup LogsIn(r)
<1> DEFINE c == q \o r
           n == Len(q)
<1>1. /\ c \in Seq(Messages) /\ Len(c) = n + Len(r) /\ n \in Nat /\ Len(r) \in Nat
      /\ \A i \in 1..n : c[i] = q[i]
      /\ \A i \in 1..Len(r) : c[n + i] = r[i] /\ n + i \in 1..Len(c)
      /\ \A i \in 1..Len(c) : i \in 1..n \/ \E k \in 1..Len(r) : i = n + k
  <2>1. \A i \in 1..Len(c) : i \in 1..n \/ (i - n \in 1..Len(r) /\ i = n + (i - n))
    OBVIOUS
  <2>2. \A i \in 1..Len(c) : i \in 1..n \/ \E k \in 1..Len(r) : i = n + k
    BY Zenon, <2>1
  <2>3. /\ c \in Seq(Messages) /\ Len(c) = n + Len(r) /\ n \in Nat /\ Len(r) \in Nat
        /\ \A i \in 1..n : c[i] = q[i]
        /\ \A i \in 1..Len(r) : c[n + i] = r[i] /\ n + i \in 1..Len(c)
    OBVIOUS
  <2> QED
    BY Zenon, <2>2, <2>3
<1> HIDE DEF c, n
<1>2. 1..n \subseteq 1..Len(c)
  BY <1>1
<1>3. LogsIn(c) = LogsIn(q) \cup LogsIn(r)
  <2>1. LogsIn(q) = {q[i].log : i \in 1..n}
    BY Zenon DEF LogsIn, n
  <2>2. ASSUME NEW x \in LogsIn(c) PROVE x \in LogsIn(q) \cup LogsIn(r)
    <3>1. PICK i \in 1..Len(c) : x = c[i].log
      BY Zenon, <2>2 DEF LogsIn
    <3>2. CASE i \in 1..n
      BY Zenon, <1>1, <2>1, <3>1, <3>2
    <3>3. ASSUME NEW k \in 1..Len(r), i = n + k PROVE x \in LogsIn(r)
      BY Zenon, <1>1, <3>1, <3>3, InQueue
    <3> QED
      BY Zenon, <1>1, <3>2, <3>3
  <2>3. ASSUME NEW x \in LogsIn(q) PROVE x \in LogsIn(c)
    BY Zenon, <1>1, <1>2, <2>1, <2>3 DEF LogsIn
  <2>4. ASSUME NEW x \in LogsIn(r) PROVE x \in LogsIn(c)
    <3>1. PICK i \in 1..Len(r) : x = r[i].log
      BY Zenon, <2>4 DEF LogsIn
    <3> QED
      BY Zenon, <1>1, <3>1 DEF LogsIn
  <2> QED
    BY Zenon, <2>2, <2>3, <2>4
<1>4. ASSUME NEW i \in 1..n PROVE Claims(W, c[i], S \cup Ahead(c, i))
  <2>1. \A j \in 1..(i - 1) : c[j] = q[j]
    BY <1>1
  <2>2. Ahead(c, i) = Ahead(q, i)
    BY Zenon, <2>1 DEF Ahead
  <2> QED
    BY Zenon, <1>1, <2>2 DEF Queued, n
<1>5. ASSUME NEW k \in 1..Len(r) PROVE Claims(W, c[n + k], S \cup Ahead(c, n + k))
  <2>1. /\ \A j \in 1..n : j \in 1..((n + k) - 1)
        /\ \A j \in 1..(k - 1) : n + j \in 1..((n + k) - 1) /\ j \in 1..Len(r)
    BY <1>1
  <2>2. LogsIn(q) \subseteq Ahead(c, n + k)
    <3> SUFFICES ASSUME NEW x \in LogsIn(q) PROVE x \in Ahead(c, n + k)
      BY Zenon
    <3>1. PICK j \in 1..n : x = q[j].log
      BY Zenon DEF LogsIn, n
    <3>2. j \in 1..((n + k) - 1) /\ c[j] = q[j]
      BY Zenon, <1>1, <2>1
    <3>3. c[j].log \in Ahead(c, n + k)
      BY Zenon, <3>2 DEF Ahead
    <3> QED
      BY Zenon, <3>1, <3>2, <3>3
  <2>3. Ahead(r, k) \subseteq Ahead(c, n + k)
    <3> SUFFICES ASSUME NEW j \in 1..(k - 1) PROVE r[j].log \in Ahead(c, n + k)
      BY Zenon DEF Ahead
    <3>1. n + j \in 1..((n + k) - 1) /\ c[n + j] = r[j]
      BY Zenon, <1>1, <2>1
    <3>2. c[n + j].log \in Ahead(c, n + k)
      BY Zenon, <3>1 DEF Ahead
    <3> QED
      BY Zenon, <3>1, <3>2
  <2>4. Claims(W, r[k], (S \cup LogsIn(q)) \cup Ahead(r, k)) /\ c[n + k] = r[k]
    BY Zenon, <1>1 DEF Queued
  <2> QED
    BY Zenon, <2>2, <2>3, <2>4 DEF Claims
<1> QED
  BY Zenon, <1>1, <1>3, <1>4, <1>5 DEF Queued, c

\* A message may be sent after a queue that holds what it claims.
LEMMA QueueAppend ==
    ASSUME NEW W, NEW q \in Seq(Messages), NEW m \in Messages, NEW S,
           Queued(W, q, S), Claims(W, m, S \cup LogsIn(q))
    PROVE  /\ Append(q, m) \in Seq(Messages)
           /\ Queued(W, Append(q, m), S) /\ LogsIn(Append(q, m)) = LogsIn(q) \cup {m.log}
<1>1. <<m>> \in Seq(Messages) /\ Len(<<m>>) = 1 /\ <<m>>[1] = m /\ Append(q, m) = q \o <<m>>
      /\ \A i \in 1..1 : i = 1
  OBVIOUS
<1>2. LogsIn(<<m>>) = {m.log}
  <2>1. 1 \in 1..1
    OBVIOUS
  <2> QED
    BY Zenon, <1>1, <2>1 DEF LogsIn
<1>3. Queued(W, <<m>>, S \cup LogsIn(q))
  BY Zenon, <1>1 DEF Queued, Claims
<1>4. /\ q \o <<m>> \in Seq(Messages)
      /\ Queued(W, q \o <<m>>, S) /\ LogsIn(q \o <<m>>) = LogsIn(q) \cup LogsIn(<<m>>)
  BY Zenon, <1>1, <1>3, QueueConcat
<1> QED
  BY Zenon, <1>1, <1>2, <1>4

\* The first message leaves the queue, and settles its event for the rest.
LEMMA QueueTail ==
    ASSUME NEW W, NEW q \in Seq(Messages), q # <<>>, NEW S, Queued(W, q, S)
    PROVE  /\ Tail(q) \in Seq(Messages) /\ Head(q) = q[1] /\ q[1] \in Messages
           /\ Claims(W, Head(q), S)
           /\ Queued(W, Tail(q), S \cup {Head(q).log})
           /\ LogsIn(q) = LogsIn(Tail(q)) \cup {Head(q).log}
<1> DEFINE t == Tail(q)
<1>1. /\ t \in Seq(Messages) /\ Head(q) = q[1] /\ Len(q) \in Nat /\ Len(q) >= 1
      /\ Len(t) = Len(q) - 1 /\ q[1] \in Messages
      /\ \A i \in 1..Len(t) : t[i] = q[i + 1] /\ i + 1 \in 1..Len(q)
      /\ \A i \in 1..Len(q) : i = 1 \/ (i - 1 \in 1..Len(t) /\ q[i] = t[i - 1])
      /\ 1 \in 1..Len(q)
  OBVIOUS
<1> HIDE DEF t
<1>2. Claims(W, q[1], S)
  <2>1. 1..(1 - 1) = {}
    OBVIOUS
  <2>2. Ahead(q, 1) = {}
    BY Zenon, <2>1 DEF Ahead
  <2>3. Claims(W, q[1], S \cup Ahead(q, 1))
    BY Zenon, <1>1 DEF Queued
  <2> QED
    BY Zenon, <2>2, <2>3 DEF Claims
<1>3. LogsIn(q) = LogsIn(t) \cup {q[1].log}
  <2>1. ASSUME NEW x \in LogsIn(q) PROVE x \in LogsIn(t) \cup {q[1].log}
    <3>1. PICK i \in 1..Len(q) : x = q[i].log
      BY Zenon, <2>1, InQueue
    <3> QED
      BY Zenon, <1>1, <3>1, InQueue
  <2>2. ASSUME NEW x \in LogsIn(t) PROVE x \in LogsIn(q)
    <3>1. PICK i \in 1..Len(t) : x = t[i].log
      BY Zenon, <2>2, InQueue
    <3> QED
      BY Zenon, <1>1, <3>1, InQueue
  <2>3. q[1].log \in LogsIn(q)
    BY Zenon, <1>1, InQueue
  <2> QED
    BY Zenon, <2>1, <2>2, <2>3
<1>4. ASSUME NEW i \in 1..Len(t) PROVE Claims(W, t[i], (S \cup {q[1].log}) \cup Ahead(t, i))
  <2>1. \A j \in 1..((i + 1) - 1) : j = 1 \/ (j - 1 \in 1..(i - 1) /\ q[j] = t[j - 1])
    BY <1>1
  <2>2. Ahead(q, i + 1) \subseteq {q[1].log} \cup Ahead(t, i)
    <3> SUFFICES ASSUME NEW x \in Ahead(q, i + 1), x # q[1].log PROVE x \in Ahead(t, i)
      BY Zenon
    <3>1. PICK j \in 1..((i + 1) - 1) : x = q[j].log
      BY Zenon DEF Ahead
    <3>2. j - 1 \in 1..(i - 1) /\ q[j] = t[j - 1]
      BY Zenon, <2>1, <3>1
    <3>3. t[j - 1].log \in Ahead(t, i)
      BY Zenon, <3>2 DEF Ahead
    <3> QED
      BY Zenon, <3>1, <3>2, <3>3
  <2>3. Claims(W, q[i + 1], S \cup Ahead(q, i + 1)) /\ t[i] = q[i + 1]
    BY Zenon, <1>1 DEF Queued
  <2> QED
    BY Zenon, <2>2, <2>3 DEF Claims
<1> QED
  BY Zenon, <1>1, <1>2, <1>3, <1>4 DEF Queued, t

-----------------------------------------------------------------------------
(* The messages for a notified block and for a page.                        *)

\* Messages about the logs of S, in the order of the chain.
LEMMA EventQueue ==
    ASSUME NEW S \in SUBSET AllLogs, NEW q, Len(q) = Cardinality(S),
           \A i \in 1..Cardinality(S) : q[i].log = InChainOrder(S)[i]
    PROVE  /\ LogsIn(q) = S
           /\ \A i \in 1..Len(q) : \A e \in S : Earlier(e, q[i].log) => e \in Ahead(q, i)
<1> DEFINE n == Cardinality(S)
           o == InChainOrder(S)
<1>1. /\ o \in [1..n -> S] /\ \A i, j \in 1..n : i < j => Earlier(o[i], o[j])
      /\ \A e \in S : \E i \in 1..n : o[i] = e
      /\ n \in Nat
  BY Zenon, ChainOrder, FiniteLogs DEF Ordered
<1>2. Len(q) = n /\ \A i \in 1..n : q[i].log = o[i]
  BY Zenon
<1> HIDE DEF n, o
<1>3. LogsIn(q) = S
  <2>1. ASSUME NEW x \in LogsIn(q) PROVE x \in S
    <3>1. PICK i \in 1..n : x = q[i].log
      BY Zenon, <1>2, <2>1 DEF LogsIn
    <3> QED
      BY Zenon, <1>1, <1>2, <3>1
  <2>2. ASSUME NEW e \in S PROVE e \in LogsIn(q)
    <3>1. PICK i \in 1..n : o[i] = e
      BY Zenon, <1>1
    <3> QED
      BY Zenon, <1>2, <3>1, InQueue
  <2> QED
    BY Zenon, <2>1, <2>2
<1>4. ASSUME NEW i \in 1..n, NEW e \in S, Earlier(e, q[i].log)
      PROVE  e \in Ahead(q, i)
  <2>1. PICK j \in 1..n : o[j] = e
    BY Zenon, <1>1
  <2>2. o[i] \in AllLogs /\ e \in AllLogs /\ Earlier(e, o[i])
    BY Zenon, <1>1, <1>2, <1>4
  <2>3. ~(i < j) /\ i # j
    BY Zenon, <1>1, <2>1, <2>2, LogOrder
  <2>4. j \in 1..(i - 1)
    BY <1>1, <2>3
  <2> QED
    BY Zenon, <1>2, <2>1, <2>4, InQueue
<1> QED
  BY Zenon, <1>2, <1>3, <1>4

\* The message of an event of a block.
LEMMA EventMessage ==
    ASSUME NEW e \in AllLogs, NEW l \in BOOLEAN
    PROVE  /\ Event(e, l) \in Messages /\ Event(e, l).log = e
           /\ Event(e, l).block = e[1] /\ Event(e, l).last = l
  BY Zenon, LogShape DEF Event, Messages

\* The messages for a notified block, when what is wanted of earlier blocks
\* is ahead of them.
LEMMA NotifiedQueue ==
    ASSUME NEW b \in Blocks, NEW W \in SUBSET AllLogs, \A e \in W : Matches(e), NEW S,
           \A e \in W : e[1] < b => e \in S
    PROVE  /\ NotifiedBlock(b) \in Seq(Messages) /\ NotifiedBlock(b) # <<>>
           /\ \A i \in 1..Len(NotifiedBlock(b)) :
                LET m == NotifiedBlock(b)[i]
                IN m.block = b /\ IF m.log = NoLog THEN m.last ELSE m.log \in LogsOf(b)
           /\ Queued(W, NotifiedBlock(b), S)
           /\ \A e \in W : e[1] <= b => e \in S \cup LogsIn(NotifiedBlock(b))
<1> DEFINE M == {e \in LogsOf(b) : Matches(e)}
           o == InChainOrder(M)
           L(e) == e[2] = Len(Logs[b])
           q == NotifiedBlock(b)
<1>1. M \in SUBSET AllLogs /\ M \subseteq LogsOf(b)
  BY Zenon, LogShape
<1>2. \A e \in W : e[1] = b => e \in M
  BY Zenon, LogShape
<1>3. \A e \in W : e[1] \in Int /\ b \in Int /\ (e[1] <= b <=> e[1] < b \/ e[1] = b)
  <2>1. \A e \in W : e[1] \in Int /\ b \in Int
    BY LogShape DEF Blocks
  <2> QED
    BY <2>1
<1>4. CASE M = {}
  <2>1. o = <<>>
    BY Zenon, <1>1, <1>4, ChainOrder
  <2>2. q = <<Confirmed(b)>>
    BY Zenon, <2>1 DEF NotifiedBlock
  <2>3. Confirmed(b) \in Messages /\ Confirmed(b).log = NoLog /\ Confirmed(b).block = b
          /\ Confirmed(b).last
    BY Zenon DEF Confirmed, Messages
  <2>4. /\ q \in Seq(Messages) /\ Len(q) = 1 /\ q[1] = Confirmed(b) /\ q # <<>>
        /\ \A i \in 1..1 : i = 1
    BY <2>2, <2>3
  <2>5. \A e \in W : e[1] <= b => e \in S
    BY Zenon, <1>2, <1>3, <1>4
  <2>6. Queued(W, q, S)
    BY Zenon, <2>3, <2>4, <2>5 DEF Queued, Claims
  <2> HIDE DEF q
  <2> QED
    BY Zenon, <2>3, <2>4, <2>5, <2>6 DEF q
<1>5. CASE M # {}
  <2>1. o # <<>> /\ o \in Seq(M) /\ Len(o) = Cardinality(M) /\ DOMAIN o = 1..Cardinality(M)
        /\ \A i \in 1..Cardinality(M) : o[i] \in M
    <3> HIDE DEF M
    <3>1. Ordered(o, M) /\ o \in Seq(M) /\ Len(o) = Cardinality(M) /\ o # <<>>
      BY Zenon, <1>1, <1>5, ChainOrder
    <3>2. o \in [1..Cardinality(M) -> M]
      BY Zenon, <3>1 DEF Ordered
    <3> HIDE DEF o
    <3> QED
      BY Zenon, <3>1, <3>2
  <2>2. q = [j \in DOMAIN o |-> Event(o[j], L(o[j]))]
    BY Zenon, <2>1 DEF NotifiedBlock
  <2>3. \A i \in 1..Cardinality(M) : q[i] = Event(o[i], L(o[i])) /\ o[i][1] = b /\ o[i] \in AllLogs
    BY Zenon, <1>1, <2>1, <2>2, LogShape
  <2>4. \A i \in 1..Cardinality(M) : /\ q[i] \in Messages /\ q[i].log = o[i] /\ q[i].block = b
                                    /\ q[i].last = L(o[i])
    <3>1. \A e \in AllLogs : L(e) \in BOOLEAN
      BY Zenon
    <3> HIDE DEF L, q, o, M
    <3> TAKE i \in 1..Cardinality(M)
    <3>2. q[i] = Event(o[i], L(o[i])) /\ o[i] \in AllLogs /\ L(o[i]) \in BOOLEAN /\ o[i][1] = b
      BY Zenon, <2>3, <3>1
    <3>3. /\ Event(o[i], L(o[i])) \in Messages /\ Event(o[i], L(o[i])).log = o[i]
          /\ Event(o[i], L(o[i])).block = o[i][1] /\ Event(o[i], L(o[i])).last = L(o[i])
      BY Zenon, <3>2, EventMessage
    <3> QED
      BY Zenon, <3>2, <3>3
  <2>5. Cardinality(M) \in Nat
    BY Zenon, <1>1, FiniteLogs
  <2>6. DOMAIN q = 1..Cardinality(M)
    BY Zenon, <2>1, <2>2
  <2>7. q = [j \in 1..Cardinality(M) |-> q[j]]
    BY Zenon, <2>2, <2>6
  <2> HIDE DEF q, o, M, L
  <2>8. q \in Seq(Messages) /\ Len(q) = Cardinality(M)
    BY <2>4, <2>5, <2>7
  <2>9. q # <<>>
    BY <1>1, <1>5, <2>1, <2>8
  <2>10. LogsIn(q) = M /\ \A i \in 1..Len(q) : \A e \in M : Earlier(e, q[i].log) =>
           e \in Ahead(q, i)
    BY Zenon, <1>1, <2>4, <2>8, EventQueue DEF o
  <2>11. ASSUME NEW i \in 1..Len(q) PROVE Claims(W, q[i], S \cup Ahead(q, i))
    <3>1. q[i].log \in M /\ q[i].log \in AllLogs /\ q[i].block = b
      BY Zenon, <1>1, <2>1, <2>4, <2>8
    <3>2. q[i].log[1] = b
      <4>1. i \in 1..Cardinality(M)
        BY Zenon, <2>8
      <4> QED
        BY Zenon, <2>3, <2>4, <4>1
    <3>3. ASSUME NEW e \in W, Earlier(e, q[i].log) PROVE e \in S \cup Ahead(q, i)
      <4>1. e[1] < b \/ e[1] = b
        BY Zenon, <3>2, <3>3 DEF Earlier
      <4> QED
        BY Zenon, <1>2, <2>10, <3>3, <4>1
    <3>4. ASSUME q[i].last, NEW e \in W, e[1] <= b PROVE e \in (S \cup Ahead(q, i)) \cup {q[i].log}
      <4>1. CASE e[1] < b
        BY Zenon, <4>1
      <4>2. CASE e[1] = b
        <5>1. e \in M /\ e \in AllLogs /\ b \in Int
          BY Zenon, <1>2, <1>3, <4>2
        <5>2. q[i].log[2] = Len(Logs[b])
          BY Zenon, <2>4, <2>8, <3>4 DEF L
        <5>3. e[2] \in 1..Len(Logs[b]) /\ q[i].log[2] \in Int
          BY <3>1, <3>2, <4>2, <5>1, LogShape
        <5>4. ~Earlier(q[i].log, e)
          BY <3>2, <4>2, <5>1, <5>2, <5>3 DEF Earlier
        <5> QED
          BY Zenon, <2>10, <3>1, <5>1, <5>4, LogOrder
      <4> QED
        BY Zenon, <1>3, <3>4, <4>1, <4>2
    <3> QED
      BY Zenon, <3>1, <3>3, <3>4 DEF Claims
  <2>12. \A i \in 1..Len(q) : q[i].block = b /\ q[i].log \in LogsOf(b) /\ q[i].log # NoLog
    <3>1. \A i \in 1..Len(q) : q[i].block = b /\ q[i].log \in M
      BY Zenon, <2>1, <2>4, <2>8
    <3>2. \A x \in M : x \in LogsOf(b) /\ x # NoLog
      BY Zenon, <1>1, LogShape
    <3> QED
      BY Zenon, <3>1, <3>2
  <2>13. \A e \in W : e[1] <= b => e \in S \cup LogsIn(q)
    BY Zenon, <1>2, <1>3, <2>10
  <2> QED
    BY Zenon, <2>8, <2>9, <2>11, <2>12, <2>13 DEF q, Queued
<1> QED
  BY Zenon, <1>4, <1>5

\* The messages for a page P of the logs F that the query found, when what is
\* wanted up to the blocks of F, and not in F, is ahead of them.
LEMMA PageQueue ==
    ASSUME NEW F \in SUBSET AllLogs, NEW caughtUp \in BOOLEAN, NEW W \in SUBSET AllLogs,
           \A e \in W : Matches(e), NEW S,
           \A e \in W : \A f \in F : e[1] <= f[1] => e \in S \cup F,
           caughtUp => FirstPage(F) = F
    PROVE  LET q == PageEvents(FirstPage(F), caughtUp)
           IN /\ q \in Seq(Messages)
              /\ \A i \in 1..Len(q) : q[i].log \in FirstPage(F) /\ q[i].block = q[i].log[1]
              /\ Queued(W, q, S)
              /\ \A e \in W : e \in FirstPage(F) => e \in LogsIn(q)
<1> DEFINE P == FirstPage(F)
           M == {e \in P : Matches(e)}
           o == InChainOrder(M)
           L(e) == caughtUp /\ e = LastOf(P)
           q == PageEvents(P, caughtUp)
<1>1. P \subseteq F /\ \A e \in P : \A f \in F : Earlier(f, e) => f \in P
  BY Zenon, PageIsPrefix
<1>2. M \in SUBSET AllLogs /\ M \subseteq P /\ \A e \in W : e \in P => e \in M
  BY Zenon, <1>1
<1>3. o \in Seq(M) /\ Len(o) = Cardinality(M) /\ DOMAIN o = 1..Cardinality(M)
      /\ \A i \in 1..Cardinality(M) : o[i] \in M
  <2> HIDE DEF M
  <2>1. Ordered(o, M) /\ o \in Seq(M) /\ Len(o) = Cardinality(M)
    BY Zenon, <1>2, ChainOrder
  <2>2. o \in [1..Cardinality(M) -> M]
    BY Zenon, <2>1 DEF Ordered
  <2> HIDE DEF o
  <2> QED
    BY Zenon, <2>1, <2>2
<1>4. q = [j \in DOMAIN o |-> Event(o[j], L(o[j]))]
  BY Zenon DEF PageEvents
<1>5. \A i \in 1..Cardinality(M) : q[i] = Event(o[i], L(o[i])) /\ o[i][1] \in Blocks
        /\ o[i] \in AllLogs
  BY Zenon, <1>2, <1>3, <1>4, LogShape
<1>6. \A i \in 1..Cardinality(M) : /\ q[i] \in Messages /\ q[i].log = o[i] /\ q[i].block = o[i][1]
                                  /\ q[i].last = L(o[i])
  <2>1. \A e \in AllLogs : L(e) \in BOOLEAN
    BY Zenon
  <2> HIDE DEF L, q, o, M
  <2> TAKE i \in 1..Cardinality(M)
  <2>2. q[i] = Event(o[i], L(o[i])) /\ o[i] \in AllLogs /\ L(o[i]) \in BOOLEAN
    BY Zenon, <1>5, <2>1
  <2>3. /\ Event(o[i], L(o[i])) \in Messages /\ Event(o[i], L(o[i])).log = o[i]
        /\ Event(o[i], L(o[i])).block = o[i][1] /\ Event(o[i], L(o[i])).last = L(o[i])
    BY Zenon, <2>2, EventMessage
  <2> QED
    BY Zenon, <2>2, <2>3
<1>7. Cardinality(M) \in Nat
  BY Zenon, <1>2, FiniteLogs
<1>8. DOMAIN q = 1..Cardinality(M)
  BY Zenon, <1>3, <1>4
<1>9. q = [j \in 1..Cardinality(M) |-> q[j]]
  BY Zenon, <1>4, <1>8
<1> HIDE DEF q, o, M, L, P
<1>10. q \in Seq(Messages) /\ Len(q) = Cardinality(M)
  BY <1>6, <1>7, <1>9
<1>11. LogsIn(q) = M /\ \A i \in 1..Len(q) : \A e \in M : Earlier(e, q[i].log) => e \in Ahead(q, i)
  BY Zenon, <1>2, <1>6, <1>10, EventQueue DEF o
<1>12. ASSUME NEW i \in 1..Len(q) PROVE Claims(W, q[i], S \cup Ahead(q, i))
  <2> DEFINE x == q[i].log
  <2>1. x \in M /\ x \in P /\ x \in F /\ x \in AllLogs /\ q[i].block = x[1]
    BY Zenon, <1>1, <1>2, <1>3, <1>6, <1>10
  <2> HIDE DEF x
  <2>2. \A e \in W : e[1] \in Int /\ x[1] \in Int
    BY <2>1, LogShape DEF Blocks
  <2>3. ASSUME NEW e \in W, Earlier(e, x) PROVE e \in S \cup Ahead(q, i)
    <3>1. e[1] <= x[1]
      BY <2>2, <2>3 DEF Earlier
    <3>2. CASE e \in F
      BY Zenon, <1>1, <1>2, <1>11, <2>1, <2>3, <3>2 DEF x
    <3> QED
      BY Zenon, <2>1, <3>1, <3>2
  <2>4. ASSUME q[i].last, NEW e \in W, e[1] <= x[1] PROVE e \in (S \cup Ahead(q, i)) \cup {x}
    <3>1. CASE e \in F
      <4>1. caughtUp /\ x = LastOf(P)
        BY Zenon, <1>6, <1>10, <2>4 DEF x, L
      <4>2. P = F /\ e \in P /\ e \in M
        BY Zenon, <1>2, <3>1, <4>1 DEF P
      <4>3. P \in SUBSET AllLogs /\ P # {}
        BY Zenon, <4>2
      <4>4. e = x \/ Earlier(e, x)
        BY Zenon, <4>1, <4>2, <4>3, LastOfPage
      <4> QED
        BY Zenon, <1>11, <4>2, <4>4 DEF x
    <3> QED
      BY Zenon, <2>1, <2>4, <3>1
  <2> QED
    BY Zenon, <2>1, <2>3, <2>4 DEF Claims, x
<1>13. \A i \in 1..Len(q) : q[i].log \in P /\ q[i].block = q[i].log[1]
  BY Zenon, <1>2, <1>3, <1>6, <1>10
<1> QED
  BY Zenon, <1>2, <1>10, <1>11, <1>12, <1>13 DEF q, P, Queued


-----------------------------------------------------------------------------
(* Facts about one state.                                                   *)

\* The fields of the state of the detector and the dispatcher.
LEMMA Fields ==
    ASSUME Types
    PROVE  /\ det.pc \in {"off", "checkpoint", "first", "highest", "loop"}
           /\ det.base \in 0..MaxBlock /\ det.startup \in 0..MaxBlock /\ det.upTo \in 0..MaxBlock
           /\ det.last \in AllLogs \cup {NoLog} /\ det.out \in Seq(Messages)
           /\ dis.pc \in {"off", "receive", "run", "handled"}
           /\ dis.batch \in Seq(AllLogs) /\ dis.after \in 0..MaxBlock
           /\ MaxBlock \in Nat /\ indexed \in Nat /\ notified \in Nat /\ notified <= indexed
           /\ setup.batchSize \in Nat \ {0} /\ setup.fromBlock \in 0..MaxBlock
<1>1. /\ det.pc \in {"off", "checkpoint", "first", "highest", "loop"}
      /\ det.base \in 0..MaxBlock /\ det.startup \in 0..MaxBlock /\ det.upTo \in 0..MaxBlock
      /\ det.last \in AllLogs \cup {NoLog} /\ det.out \in Seq(Messages)
  BY Zenon DEF Types, Detectors
<1>2. /\ dis.pc \in {"off", "receive", "run", "handled"}
      /\ dis.batch \in Seq(AllLogs) /\ dis.after \in 0..MaxBlock
  BY Zenon DEF Types, Dispatchers
<1>3. /\ MaxBlock \in Nat /\ indexed \in Nat /\ notified \in Nat /\ notified <= indexed
      /\ setup.batchSize \in Nat \ {0} /\ setup.fromBlock \in 0..MaxBlock
  BY SetupsAssumption DEF Types, Latest, Blocks
<1> QED
  BY Zenon, <1>1, <1>2, <1>3

\* A detector or a dispatcher that is put together field by field.
LEMMA Typed ==
    /\ Off \in Detectors
    /\ \A p \in {"off", "receive", "run", "handled"} : Idle(p) \in Dispatchers
    /\ \A d \in Detectors : \A p \in {"off", "checkpoint", "first", "highest", "loop"} :
          \A b \in 0..MaxBlock : \A u \in 0..MaxBlock : \A v \in 0..MaxBlock :
             \A l \in AllLogs \cup {NoLog} : \A q \in Seq(Messages) :
                [d EXCEPT !.pc = p, !.base = b, !.startup = u, !.upTo = v, !.last = l, !.out = q]
                   \in Detectors
<1>1. 0 \in 0..MaxBlock
  BY SetupsAssumption
<1>2. <<>> \in Seq(Messages) /\ <<>> \in Seq(AllLogs)
  OBVIOUS
<1> QED
  BY <1>1, <1>2, ZenonT(60) DEF Off, Idle, Detectors, Dispatchers, None

\* The fields of a message.
LEMMA MessageFields ==
    ASSUME NEW q \in Seq(Messages), NEW i \in 1..Len(q)
    PROVE  /\ q[i] \in Messages /\ q[i].log \in AllLogs \cup {NoLog}
           /\ q[i].block \in Blocks /\ q[i].block \in Nat /\ q[i].last \in BOOLEAN
<1>1. q[i] \in Messages
  OBVIOUS
<1>2. q[i].log \in AllLogs \cup {NoLog} /\ q[i].block \in Blocks /\ q[i].last \in BOOLEAN
  BY Zenon, <1>1 DEF Messages
<1>3. Blocks \subseteq Nat
  BY DEF Blocks
<1> QED
  BY Zenon, <1>1, <1>2, <1>3

\* An event that the stream wants is a log of a block.
LEMMA WantedFacts ==
    /\ Wanted \in SUBSET AllLogs
    /\ \A e \in Wanted : Matches(e) /\ e \in AllLogs /\ e # NoLog /\ e[1] \in Blocks
                         /\ e[1] >= origin /\ origin # None
  BY Zenon, LogShape DEF Wanted

\* The same of the next state.
LEMMA WantedNext ==
    /\ Wanted' \in SUBSET AllLogs
    /\ \A e \in Wanted' : Matches(e) /\ e \in AllLogs /\ e # NoLog /\ e[1] \in Blocks
                          /\ e[1] >= origin' /\ origin' # None
  BY Zenon, LogShape DEF Wanted

\* What a stream wants depends on its origin.
LEMMA SameWanted ==
    ASSUME origin' = origin
    PROVE  Wanted' = Wanted
  BY Zenon DEF Wanted

\* An empty queue claims nothing.
LEMMA EmptyQueue ==
    /\ <<>> \in Seq(Messages) /\ LogsIn(<<>>) = {}
    /\ \A W, S : Queued(W, <<>>, S)
<1>1. Len(<<>>) = 0 /\ 1..0 = {} /\ <<>> \in Seq(Messages)
  OBVIOUS
<1> QED
  BY Zenon, <1>1 DEF LogsIn, Queued

\* The events of an empty batch, and of one with an event more.
LEMMA BatchSets ==
    /\ ToSet(<<>>) = {}
    /\ \A s \in Seq(AllLogs) : ToSet(s) \subseteq AllLogs
    /\ \A s \in Seq(AllLogs) : \A e \in AllLogs :
          /\ Append(s, e) \in Seq(AllLogs) /\ Len(Append(s, e)) = Len(s) + 1
          /\ ToSet(Append(s, e)) = ToSet(s) \cup {e} /\ Append(s, e) # <<>>
<1>1. ToSet(<<>>) = {}
  BY DEF ToSet
<1>2. ASSUME NEW s \in Seq(AllLogs), NEW e \in AllLogs
      PROVE  ToSet(Append(s, e)) = ToSet(s) \cup {e}
  <2> DEFINE a == Append(s, e)
  <2>1. /\ DOMAIN a = 1..(Len(s) + 1) /\ DOMAIN s = 1..Len(s) /\ a[Len(s) + 1] = e
        /\ \A i \in 1..Len(s) : a[i] = s[i] /\ i \in 1..(Len(s) + 1)
        /\ \A i \in 1..(Len(s) + 1) : i \in 1..Len(s) \/ i = Len(s) + 1
        /\ Len(s) + 1 \in 1..(Len(s) + 1)
    OBVIOUS
  <2> HIDE DEF a
  <2>2. \A x : x \in ToSet(a) <=> x \in ToSet(s) \cup {e}
    BY Zenon, <2>1 DEF ToSet
  <2> QED
    BY Zenon, <2>2 DEF a
<1>3. \A s \in Seq(AllLogs) : ToSet(s) \subseteq AllLogs
  BY DEF ToSet
<1>4. ASSUME NEW s \in Seq(AllLogs), NEW e \in AllLogs
      PROVE  Append(s, e) \in Seq(AllLogs) /\ Len(Append(s, e)) = Len(s) + 1 /\ Append(s, e) # <<>>
  <2>1. Append(s, e) \in Seq(AllLogs) /\ Len(Append(s, e)) = Len(s) + 1 /\ Len(s) \in Nat
    OBVIOUS
  <2>2. Len(<<>>) = 0
    BY Zenon
  <2> QED
    BY <2>1, <2>2
<1> QED
  BY Zenon, <1>1, <1>2, <1>3, <1>4

-----------------------------------------------------------------------------
(* What holds when little changes.                                          *)

\* Nothing moves between the parts of the stream.
LEMMA QuietPipeline ==
    ASSUME Pipeline(Wanted), UNCHANGED <<delivered, discarded, persisted, dispatch, origin>>,
           det'.out = det.out, dis'.batch = dis.batch, dis'.batch # <<>> => dis'.after = dis.after,
           Reached(Wanted)'
    PROVE  Pipeline(Wanted)'
<1>1. Wanted' = Wanted /\ Settled' = Settled /\ Batched' = Batched
  BY Zenon, SameWanted DEF Settled, Batched
<1>2. Covered(Wanted)'
  BY Zenon, <1>1 DEF Pipeline, Covered
<1>3. Queued(Wanted, dispatch, Batched)' /\ Queued(Wanted, det.out, Batched \cup LogsIn(dispatch))'
  BY Zenon, <1>1 DEF Pipeline
<1> QED
  BY Zenon, <1>2, <1>3 DEF Pipeline

\* Nothing is taken back, and the detector stays where it is.
LEMMA StillReached ==
    ASSUME Reached(Wanted), origin' = origin, \A e \in Wanted : e \in Handed => e \in Handed',
           det'.last # NoLog => det'.last = det.last,
           det'.pc \in {"highest", "loop"} => det.pc \in {"highest", "loop"} /\ det'.base = det.base
    PROVE  Reached(Wanted)'
<1>1. Wanted' = Wanted
  BY Zenon, SameWanted
<1> QED
  BY Zenon, <1>1 DEF Reached

\* A step that leaves the pipeline alone keeps the invariant.
LEMMA QuietStep ==
    ASSUME Pipeline(Wanted), UNCHANGED <<delivered, discarded, persisted, dispatch, origin>>,
           det'.out = det.out, dis'.batch = dis.batch, dis'.batch # <<>> => dis'.after = dis.after,
           det'.last # NoLog => det'.last = det.last,
           det'.pc \in {"highest", "loop"} => det.pc \in {"highest", "loop"} /\ det'.base = det.base
    PROVE  Pipeline(Wanted)'
<1>1. Handed' = Handed
  BY Zenon DEF Handed, Batched, Settled
<1>2. Reached(Wanted)'
  BY Zenon, <1>1, StillReached DEF Pipeline
<1> QED
  BY Zenon, <1>2, QuietPipeline

\* The shape of the detector depends on its state and the blocks indexed.
LEMMA SameDetector ==
    ASSUME DetectorShape, UNCHANGED <<det, indexed>>
    PROVE  DetectorShape'
  BY Zenon DEF DetectorShape, CatchingUp

\* The shape of the dispatcher depends on its state and the channel.
LEMMA SameDispatcher ==
    ASSUME DispatcherShape, UNCHANGED <<dis, dispatch, setup, indexed, delivered>>
    PROVE  DispatcherShape'
  BY Zenon DEF DispatcherShape

\* Proper messages that are sent, received or put together.
LEMMA StillProper ==
    ASSUME NEW q \in Seq(Messages), NEW n \in Nat, NEW k \in Nat, n <= k, AllProper(q, n)
    PROVE  AllProper(q, k)
<1>1. \A i \in 1..Len(q) : q[i].block <= k
  BY MessageFields DEF Proper, AllProper
<1> QED
  BY Zenon, <1>1 DEF Proper, AllProper

\* Messages about indexed blocks remain so as the first one leaves,
LEMMA ProperTail ==
    ASSUME NEW q \in Seq(Messages), q # <<>>, NEW n, AllProper(q, n)
    PROVE  Proper(Head(q), n) /\ AllProper(Tail(q), n)
<1>1. /\ Head(q) = q[1] /\ 1 \in 1..Len(q)
      /\ \A i \in 1..Len(Tail(q)) : i + 1 \in 1..Len(q) /\ Tail(q)[i] = q[i + 1]
  OBVIOUS
<1> QED
  BY Zenon, <1>1 DEF AllProper

\* as a queue follows another,
LEMMA ProperConcat ==
    ASSUME NEW q \in Seq(Messages), NEW r \in Seq(Messages), NEW n, AllProper(q, n), AllProper(r, n)
    PROVE  AllProper(q \o r, n)
<1>1. \A i \in 1..Len(q \o r) : \/ i \in 1..Len(q) /\ (q \o r)[i] = q[i]
                                \/ i - Len(q) \in 1..Len(r) /\ (q \o r)[i] = r[i - Len(q)]
  OBVIOUS
<1> QED
  BY Zenon, <1>1 DEF AllProper

\* and as one more is sent.
LEMMA ProperAppend ==
    ASSUME NEW q \in Seq(Messages), NEW m, NEW n, AllProper(q, n), Proper(m, n)
    PROVE  AllProper(Append(q, m), n)
<1>1. \A i \in 1..Len(Append(q, m)) : \/ i \in 1..Len(q) /\ Append(q, m)[i] = q[i]
                                      \/ Append(q, m)[i] = m
  OBVIOUS
<1> QED
  BY Zenon, <1>1 DEF AllProper

-----------------------------------------------------------------------------
(* The block indexer and the life of a stream.                              *)

\* The invariant holds before the first block.
LEMMA InitIInv ==
    ASSUME Init
    PROVE  IInv
<1>1. Types
  <2>1. 0 \in 0..MaxBlock /\ 0 \in 0..0 /\ -1 \in -1..0 /\ setup.fromBlock \in 0..MaxBlock
        /\ <<>> \in Seq(Blocks) /\ Len(<<>>) <= QueueLength /\ Len(<<>>) <= setup.batchSize
    BY SetupsAssumption DEF Init, Latest, Blocks
  <2> QED
    BY Zenon, <2>1, EmptyQueue, Typed DEF Init, Types, None
<1>2. DetectorShape /\ DispatcherShape /\ Ascending
  <2>1. Len(<<>>) = 0 /\ 1..0 = {} /\ 0 <= 0 /\ 0 <= setup.batchSize
    BY SetupsAssumption DEF Init
  <2> QED
    BY Zenon, <2>1 DEF Init, DetectorShape, DispatcherShape, AllProper, Ascending, CatchingUp, Off,
       Idle, None, NoLog
<1>3. Origins
  BY <1>2 DEF Init, Origins, Off, Idle, None, Latest
<1>4. Pipeline(Wanted)
  <2>1. delivered = {} /\ dis.batch = <<>> /\ dispatch = <<>> /\ det.out = <<>> /\ det.pc = "off"
        /\ det.last = NoLog /\ persisted = -1
    BY Zenon DEF Init, Off, Idle
  <2>2. ASSUME NEW e \in Wanted, e[1] <= persisted PROVE FALSE
    BY <2>1, <2>2, WantedFacts DEF Blocks
  <2>3. Covered(Wanted)
    BY Zenon, <2>1, <2>2, BatchSets DEF Covered
  <2>4. Reached(Wanted)
    BY Zenon, <2>1 DEF Reached
  <2> QED
    BY Zenon, <2>1, <2>3, <2>4, EmptyQueue DEF Pipeline
<1> QED
  BY Zenon, <1>1, <1>2, <1>3, <1>4 DEF IInv

LEMMA WriteBatchStep ==
    ASSUME IInv, WriteBatch
    PROVE  IInv'
<1> USE DEF IInv
<1>1. /\ indexed' \in 0..MaxBlock /\ indexed <= indexed'
      /\ UNCHANGED <<setup, notified, persisted, delivered, blocks, dispatch, checkpoint, det, dis,
         origin, discarded>>
  BY Fields, SetupsAssumption DEF WriteBatch
<1>2. Types'
  BY <1>1, Fields DEF Types
<1>3. AllProper(dispatch, indexed')
  <2>1. dispatch \in Seq(Messages) /\ indexed' \in Nat
    BY <1>1 DEF Types
  <2> QED
    BY Zenon, <1>1, <2>1, Fields, StillProper DEF DispatcherShape
<1>4. AllProper(det.out, indexed')
  <2>1. indexed' \in Nat
    BY <1>1
  <2> QED
    BY Zenon, <1>1, <2>1, Fields, StillProper DEF DetectorShape
<1>5. det.startup <= indexed' /\ det.upTo <= indexed' /\ dis.after <= indexed'
  BY <1>1, Fields DEF DetectorShape, DispatcherShape
<1>6. DetectorShape' /\ DispatcherShape'
  BY Zenon, <1>1, <1>3, <1>4, <1>5 DEF DetectorShape, DispatcherShape, CatchingUp
<1>7. Ascending' /\ Origins'
  BY Zenon, <1>1 DEF Ascending, Origins
<1>8. Pipeline(Wanted)'
  BY Zenon, <1>1, QuietStep
<1> QED
  BY Zenon, <1>2, <1>6, <1>7, <1>8

LEMMA NotifyStep ==
    ASSUME IInv, NotifyEventStreams
    PROVE  IInv'
<1> USE DEF IInv
<1>1. /\ notified < indexed /\ notified' = notified + 1
      /\ blocks' = IF Len(blocks) < QueueLength THEN Append(blocks, notified + 1) ELSE blocks
      /\ UNCHANGED <<setup, indexed, persisted, delivered, dispatch, checkpoint, det, dis, origin,
         discarded>>
  BY Zenon DEF NotifyEventStreams
<1>2. Types'
  <2>1. notified + 1 \in Blocks /\ notified + 1 \in 0..indexed
    BY <1>1, Fields DEF Blocks, Types
  <2>2. blocks' \in Seq(Blocks) /\ Len(blocks') <= QueueLength
    BY <1>1, <2>1, SetupsAssumption DEF Types
  <2> QED
    BY Zenon, <1>1, <2>1, <2>2 DEF Types
<1>3. DetectorShape' /\ DispatcherShape'
  BY Zenon, <1>1, SameDetector, SameDispatcher
<1>4. /\ \A i \in 1..Len(blocks') : \/ i \in 1..Len(blocks) /\ blocks'[i] = blocks[i]
                                    \/ i = Len(blocks) + 1 /\ blocks'[i] = notified + 1
      /\ \A i \in 1..Len(blocks) : blocks[i] \in Nat
  <2>1. blocks \in Seq(Blocks) /\ Blocks \subseteq Nat
    BY DEF Types, Blocks
  <2>2. \A i \in 1..Len(blocks) : blocks[i] \in Blocks
    BY <2>1
  <2>3. \A i \in 1..Len(blocks) : blocks[i] \in Nat
    BY Zenon, <2>1, <2>2
  <2> QED
    BY <1>1, <2>1, <2>3
<1>5. Ascending'
  <2>1. \A i \in 1..Len(blocks') : blocks'[i] <= notified'
    BY <1>1, <1>4, Fields DEF Ascending
  <2>2. Len(blocks) \in Nat
    BY DEF Types
  <2>3. ASSUME NEW i \in 1..Len(blocks'), NEW j \in 1..Len(blocks'), i < j
        PROVE  blocks'[i] < blocks'[j]
    <3>1. i \in 1..Len(blocks) /\ blocks'[i] = blocks[i] /\ blocks[i] \in Nat
      BY <1>4, <2>2, <2>3
    <3>2. CASE j \in 1..Len(blocks) /\ blocks'[j] = blocks[j]
      BY Zenon, <2>3, <3>1, <3>2 DEF Ascending
    <3>3. CASE blocks'[j] = notified + 1
      <4>1. blocks[i] <= notified
        BY Zenon, <3>1 DEF Ascending
      <4> QED
        BY <3>1, <3>3, <4>1, Fields
    <3> QED
      BY Zenon, <1>4, <3>2, <3>3
  <2> QED
    BY Zenon, <2>1, <2>3 DEF Ascending
<1>6. Origins'
  <2>1. setup.fromBlock = Latest =>
           origin <= notified' /\ \A i \in 1..Len(blocks') : origin <= blocks'[i]
    BY <1>1, <1>4, Fields, SMTT(40) DEF Origins, Types
  <2> QED
    BY Zenon, <1>1, <2>1 DEF Origins
<1>7. Pipeline(Wanted)'
  BY Zenon, <1>1, QuietStep
<1> QED
  BY Zenon, <1>2, <1>3, <1>5, <1>6, <1>7

LEMMA StartStep ==
    ASSUME IInv, Start
    PROVE  IInv'
<1> USE DEF IInv
<1>1. /\ det.pc = "off" /\ dis.pc = "off"
      /\ det' = [Off EXCEPT !.pc = "checkpoint"] /\ dis' = Idle("receive")
      /\ UNCHANGED <<setup, indexed, notified, persisted, delivered, blocks, dispatch, checkpoint,
         origin, discarded>>
  BY Zenon DEF Start
<1>2. det.out = <<>> /\ dis.batch = <<>>
  BY Zenon, <1>1 DEF DetectorShape, DispatcherShape
<1>3. /\ det'.pc = "checkpoint" /\ det'.base = None /\ det'.startup = None /\ det'.upTo = None
      /\ det'.last = NoLog /\ det'.out = <<>> /\ det' \in Detectors
      /\ dis'.pc = "receive" /\ dis'.batch = <<>> /\ dis'.after = 0 /\ dis' \in Dispatchers
  BY ZenonT(60), <1>1, Typed, EmptyQueue DEF Off, Idle, Detectors
<1>4. Types'
  BY Zenon, <1>1, <1>3 DEF Types
<1>5. DetectorShape' /\ DispatcherShape'
  <2>1. Len(<<>>) = 0 /\ 1..0 = {} /\ 0 <= indexed /\ 0 <= setup.batchSize /\ 0 < setup.batchSize
    BY Fields
  <2>2. DetectorShape'
    BY Zenon, <1>1, <1>3, <2>1 DEF DetectorShape, CatchingUp, None, AllProper
  <2> QED
    BY Zenon, <1>1, <1>3, <2>1, <2>2 DEF DispatcherShape
<1>6. Ascending' /\ Origins'
  BY Zenon, <1>1, <1>2, <1>3 DEF Ascending, Origins
<1>7. Pipeline(Wanted)'
  BY Zenon, <1>1, <1>2, <1>3, QuietStep
<1> QED
  BY Zenon, <1>4, <1>5, <1>6, <1>7

LEMMA StopStep ==
    ASSUME IInv, Stop
    PROVE  IInv'
<1> USE DEF IInv
<1>1. UNCHANGED <<setup, indexed, notified, persisted, delivered, blocks, dispatch, checkpoint, det,
        dis, origin, discarded>>
  BY Zenon DEF Stop
<1>2. Types' /\ Ascending' /\ Origins'
  BY Zenon, <1>1 DEF Types, Ascending, Origins
<1> QED
  BY Zenon, <1>1, <1>2, SameDetector, SameDispatcher, QuietStep

LEMMA DetectorDropsStep ==
    ASSUME IInv, DetectorDrops
    PROVE  IInv'
<1> USE DEF IInv
<1> DEFINE m == Head(det.out)
           S == Batched \cup LogsIn(dispatch)
<1>1. /\ det.out # <<>> /\ det' = [det EXCEPT !.out = Tail(@)]
      /\ discarded' = discarded \cup ({Head(det.out).log} \ {NoLog})
      /\ UNCHANGED <<setup, indexed, notified, persisted, delivered, blocks, dispatch, checkpoint,
         dis, origin>>
  BY Zenon DEF DetectorDrops
<1>2. /\ Tail(det.out) \in Seq(Messages) /\ m = det.out[1] /\ m \in Messages
      /\ Claims(Wanted, m, S) /\ Queued(Wanted, Tail(det.out), S \cup {m.log})
      /\ LogsIn(det.out) = LogsIn(Tail(det.out)) \cup {m.log}
  BY Zenon, <1>1, Fields, QueueTail DEF Pipeline
<1>3. /\ det'.pc = det.pc /\ det'.base = det.base /\ det'.startup = det.startup
         /\ det'.upTo = det.upTo
      /\ det'.last = det.last /\ det'.out = Tail(det.out) /\ det' \in Detectors
  BY Zenon, <1>1, <1>2 DEF Types, Detectors
<1>4. Types'
  <2>1. m.log \in AllLogs \cup {NoLog}
    BY Zenon, <1>2 DEF Messages
  <2>2. discarded' \subseteq AllLogs
    BY Zenon, <1>1, <2>1 DEF Types
  <2> QED
    BY Zenon, <1>1, <1>3, <2>2 DEF Types
<1>5. DetectorShape'
  <2>1. AllProper(Tail(det.out), indexed)
    BY Zenon, <1>1, Fields, ProperTail DEF DetectorShape
  <2> QED
    BY Zenon, <1>1, <1>3, <2>1 DEF DetectorShape, CatchingUp
<1>6. DispatcherShape' /\ Ascending' /\ Origins'
  BY Zenon, <1>1, <1>3, SameDispatcher DEF Ascending, Origins
<1>7. Wanted' = Wanted /\ Wanted' \in SUBSET Wanted /\ \A e \in Wanted : e # NoLog
  BY Zenon, <1>1, SameWanted, WantedFacts
<1>8. /\ \A e \in Wanted : e \in Settled => e \in Settled'
      /\ \A e \in Wanted : e \in Batched => e \in Batched'
      /\ \A e \in Wanted : e \in S \cup {m.log} => e \in Batched' \cup LogsIn(dispatch')
  BY Zenon, <1>1, <1>7 DEF Settled, Batched
<1>9. Covered(Wanted)'
  BY Zenon, <1>1, <1>7, <1>8 DEF Pipeline, Covered
<1>10. Queued(Wanted', dispatch', Batched')
  <2>1. Queued(Wanted, dispatch, Batched')
    BY Zenon, <1>8, QueueMore DEF Pipeline
  <2> QED
    BY Zenon, <1>1, <1>7, <2>1
<1>11. Queued(Wanted', det'.out, Batched' \cup LogsIn(dispatch'))
  <2> HIDE DEF m, S
  <2>1. Queued(Wanted, Tail(det.out), Batched' \cup LogsIn(dispatch'))
    BY Zenon, <1>2, <1>8, QueueMore
  <2> QED
    BY Zenon, <1>3, <1>7, <2>1
<1>12. Reached(Wanted)'
  <2>1. \A e \in Wanted : e \in Handed => e \in Handed'
    BY Zenon, <1>2, <1>3, <1>8 DEF Handed
  <2> QED
    BY Zenon, <1>1, <1>3, <2>1, StillReached DEF Pipeline
<1> QED
  BY Zenon, <1>4, <1>5, <1>6, <1>9, <1>10, <1>11, <1>12 DEF Pipeline

LEMMA DetectorExitsStep ==
    ASSUME IInv, DetectorExits
    PROVE  IInv'
<1> USE DEF IInv
<1>1. /\ det.out = <<>> /\ det' = Off
      /\ UNCHANGED <<setup, indexed, notified, persisted, delivered, blocks, dispatch, checkpoint,
         dis, origin, discarded>>
  BY Zenon DEF DetectorExits
<1>2. /\ det'.pc = "off" /\ det'.startup = None /\ det'.upTo = None
      /\ det'.last = NoLog /\ det'.out = <<>> /\ det' \in Detectors
  BY Zenon, <1>1, Typed DEF Off
<1>3. Types'
  BY Zenon, <1>1, <1>2 DEF Types
<1>4. DetectorShape'
  <2>1. Len(<<>>) = 0 /\ 1..0 = {} /\ 0 <= indexed
    BY Fields
  <2> QED
    BY Zenon, <1>1, <1>2, <2>1 DEF DetectorShape, CatchingUp, AllProper, None
<1>5. DispatcherShape' /\ Ascending' /\ Origins'
  BY Zenon, <1>1, <1>2, SameDispatcher DEF Ascending, Origins
<1>6. Pipeline(Wanted)'
  BY Zenon, <1>1, <1>2, QuietStep
<1> QED
  BY Zenon, <1>3, <1>4, <1>5, <1>6

\* A batch that is given up is settled.
LEMMA GivenUp ==
    ASSUME IInv, dis' = Idle("off"), discarded' = discarded \cup ToSet(dis.batch),
           UNCHANGED <<delivered, persisted, origin>>
    PROVE  /\ Settled' = Batched /\ Batched' = Batched /\ Wanted' = Wanted
           /\ Covered(Wanted)'
           /\ discarded' \subseteq AllLogs /\ dis' \in Dispatchers
           /\ dis'.pc = "off" /\ dis'.batch = <<>> /\ dis'.after = 0
<1> USE DEF IInv
<1>1. dis'.pc = "off" /\ dis'.batch = <<>> /\ dis'.after = 0 /\ dis' \in Dispatchers
  BY Zenon, Typed DEF Idle
<1>2. Settled' = Batched /\ Batched' = Batched /\ Wanted' = Wanted
  BY Zenon, <1>1, BatchSets, SameWanted DEF Settled, Batched
<1>3. discarded' \subseteq AllLogs
  BY Zenon, BatchSets, Fields DEF Types
<1>4. \A e \in Wanted : e \in Settled => e \in Batched
  BY Zenon DEF Batched
<1>5. Covered(Wanted)'
  BY Zenon, <1>1, <1>2, <1>4, BatchSets DEF Pipeline, Covered
<1> QED
  BY Zenon, <1>1, <1>2, <1>3, <1>5

\* A dispatcher that holds nothing.
LEMMA IdleShape ==
    ASSUME Types, AllProper(dispatch', indexed'), UNCHANGED <<setup, indexed>>,
           dis'.pc \in {"off", "receive"}, dis'.batch = <<>>, dis'.after = 0
    PROVE  DispatcherShape'
<1>1. Len(<<>>) = 0 /\ 0 <= indexed /\ 0 <= setup.batchSize /\ 0 < setup.batchSize
  BY Fields
<1> QED
  BY Zenon, <1>1 DEF DispatcherShape

LEMMA DispatcherExitsStep ==
    ASSUME IInv, DispatcherExits
    PROVE  IInv'
<1> USE DEF IInv
<1>1. /\ dis' = Idle("off") /\ discarded' = discarded \cup ToSet(dis.batch)
      /\ UNCHANGED <<setup, indexed, notified, persisted, delivered, blocks, dispatch, checkpoint,
         det, origin>>
  BY Zenon DEF DispatcherExits
<1>2. /\ Settled' = Batched /\ Batched' = Batched /\ Wanted' = Wanted
      /\ Covered(Wanted)'
      /\ discarded' \subseteq AllLogs /\ dis' \in Dispatchers
      /\ dis'.pc = "off" /\ dis'.batch = <<>> /\ dis'.after = 0
  BY Zenon, <1>1, GivenUp
<1>3. Types'
  BY Zenon, <1>1, <1>2 DEF Types
<1>4. DetectorShape' /\ DispatcherShape'
  BY Zenon, <1>1, <1>2, SameDetector, IdleShape DEF DispatcherShape
<1>5. Ascending' /\ Origins'
  BY Zenon, <1>1, <1>2 DEF Ascending, Origins
<1>6. Queued(Wanted, dispatch, Batched)' /\ Queued(Wanted, det.out, Batched \cup LogsIn(dispatch))'
  BY Zenon, <1>1, <1>2 DEF Pipeline
<1>7. Reached(Wanted)'
  <2>1. Handed' = Handed
    BY Zenon, <1>1, <1>2 DEF Handed
  <2> QED
    BY Zenon, <1>1, <2>1, StillReached DEF Pipeline
<1> QED
  BY Zenon, <1>2, <1>3, <1>4, <1>5, <1>6, <1>7 DEF Pipeline

LEMMA CrashStep ==
    ASSUME IInv, Crash
    PROVE  IInv'
<1> USE DEF IInv
<1>1. /\ notified' = indexed /\ blocks' = <<>> /\ dispatch' = <<>> /\ checkpoint' = -1
      /\ det' = Off /\ dis' = Idle("off") /\ discarded' = discarded \cup ToSet(dis.batch)
      /\ UNCHANGED <<setup, indexed, persisted, delivered, origin>>
  BY Zenon DEF Crash
<1>2. /\ Settled' = Batched /\ Batched' = Batched /\ Wanted' = Wanted
      /\ Covered(Wanted)'
      /\ discarded' \subseteq AllLogs /\ dis' \in Dispatchers
      /\ dis'.pc = "off" /\ dis'.batch = <<>> /\ dis'.after = 0
  BY Zenon, <1>1, GivenUp
<1>3. /\ det'.pc = "off" /\ det'.startup = None /\ det'.upTo = None
      /\ det'.last = NoLog /\ det'.out = <<>> /\ det' \in Detectors
  BY Zenon, <1>1, Typed DEF Off
<1>4. /\ Len(<<>>) = 0 /\ 1..0 = {} /\ 0 <= indexed /\ Len(<<>>) <= QueueLength
      /\ Len(<<>>) <= setup.batchSize /\ indexed \in 0..indexed /\ -1 \in -1..indexed
      /\ <<>> \in Seq(Blocks) /\ notified <= indexed
  BY Fields, SetupsAssumption
<1>5. Types'
  BY Zenon, <1>1, <1>2, <1>3, <1>4, EmptyQueue DEF Types
<1>6. DetectorShape'
  BY Zenon, <1>1, <1>3, <1>4 DEF DetectorShape, CatchingUp, AllProper, None
<1>7. DispatcherShape'
  <2>1. AllProper(dispatch', indexed')
    BY Zenon, <1>1, <1>4 DEF AllProper
  <2> QED
    BY Zenon, <1>1, <1>2, <2>1, IdleShape
<1>8. Ascending'
  BY Zenon, <1>1, <1>4 DEF Ascending
<1>9. Origins'
  <2>1. setup.fromBlock = Latest => origin <= indexed
    BY <1>4, Fields DEF Origins, Types
  <2> QED
    BY Zenon, <1>1, <1>2, <1>3, <1>4, <2>1 DEF Origins
<1>10. Queued(Wanted, dispatch, Batched)' /\ Queued(Wanted, det.out, Batched \cup LogsIn(dispatch))'
  BY Zenon, <1>1, <1>3, EmptyQueue
<1>11. Reached(Wanted)'
  BY Zenon, <1>3 DEF Reached
<1> QED
  BY Zenon, <1>2, <1>5, <1>6, <1>7, <1>8, <1>9, <1>10, <1>11 DEF Pipeline

-----------------------------------------------------------------------------
(* The detector.                                                            *)

LEMMA ReadDBCheckpointStep ==
    ASSUME IInv, ReadDBCheckpoint
    PROVE  IInv'
<1> USE DEF IInv
<1> DEFINE base == IF persisted >= 0 THEN persisted ELSE setup.fromBlock - 1
           pc == IF persisted < 0 /\ setup.fromBlock = Latest THEN "first" ELSE "highest"
           b == IF base < 0 THEN None ELSE base
<1>1. /\ det.pc = "checkpoint" /\ det' = [det EXCEPT !.pc = pc, !.base = b]
      /\ checkpoint' = IF persisted >= 0 THEN persisted ELSE checkpoint
      /\ UNCHANGED <<setup, indexed, notified, persisted, delivered, blocks, dispatch, dis, origin,
         discarded>>
  BY Zenon DEF ReadDBCheckpoint
<1>2. /\ b \in 0..MaxBlock /\ pc \in {"first", "highest"} /\ checkpoint' \in -1..indexed
      /\ persisted >= 0 => b = persisted
      /\ pc = "highest" /\ ~(persisted >= 0) =>
            setup.fromBlock # Latest /\ \A k \in Blocks : k <= b => ~(k >= setup.fromBlock)
      /\ pc = "first" => persisted < 0 /\ setup.fromBlock = Latest
  <2>1. /\ persisted \in -1..indexed /\ checkpoint \in -1..indexed /\ indexed \in 0..MaxBlock
        /\ setup.fromBlock \in 0..MaxBlock /\ MaxBlock \in Nat
    BY Zenon, Fields DEF Types
  <2>2. b \in 0..MaxBlock /\ (persisted >= 0 => b = persisted) /\ checkpoint' \in -1..indexed
    BY <1>1, <2>1 DEF None
  <2>3. ~(persisted >= 0) /\ setup.fromBlock # Latest =>
            \A k \in Blocks : k <= b => ~(k >= setup.fromBlock)
    BY <2>1 DEF None, Latest, Blocks
  <2>4. ~(persisted >= 0) => persisted < 0
    BY <2>1
  <2> HIDE DEF b, base
  <2> QED
    BY Zenon, <2>2, <2>3, <2>4
<1> HIDE DEF base, pc, b
<1>3. /\ det'.pc = pc /\ det'.base = b /\ det'.startup = det.startup /\ det'.upTo = det.upTo
      /\ det'.last = det.last /\ det'.out = det.out /\ det' \in Detectors
  BY <1>1, <1>2, Zenon DEF Types, Detectors
<1>4. Types'
  BY Zenon, <1>1, <1>2, <1>3 DEF Types
<1>5. DetectorShape'
  BY Zenon, <1>1, <1>3 DEF DetectorShape, CatchingUp
<1>6. DispatcherShape' /\ Ascending'
  BY Zenon, <1>1, SameDispatcher DEF Ascending
<1>7. Origins'
  <2>1. origin = None => pc = "first"
    <3>1. origin = None => persisted = -1 /\ ~(-1 >= 0)
      BY DEF Origins
    <3> QED
      BY Zenon, <1>2, <3>1 DEF Origins, None, Latest
  <2> QED
    BY Zenon, <1>1, <1>2, <1>3, <2>1 DEF Origins
<1>8. Reached(Wanted)'
  <2>1. Wanted' = Wanted /\ Handed' = Handed
    BY Zenon, <1>1, <1>3, SameWanted DEF Handed, Batched, Settled
  <2>2. ASSUME pc = "highest", NEW e \in Wanted, e[1] <= b PROVE e \in Handed
    <3>1. CASE persisted >= 0
      BY Zenon, <1>2, <2>2, <3>1 DEF Pipeline, Covered, Handed
    <3>2. CASE ~(persisted >= 0)
      BY Zenon, <1>2, <2>2, <3>2, WantedFacts DEF Origins
    <3> QED
      BY Zenon, <3>1, <3>2
  <2> QED
    BY Zenon, <1>2, <1>3, <2>1, <2>2 DEF Reached, Pipeline
<1>9. Pipeline(Wanted)'
  BY Zenon, <1>1, <1>3, <1>8, QuietPipeline
<1> QED
  BY Zenon, <1>4, <1>5, <1>6, <1>7, <1>9

LEMMA GetHighestIndexedBlockStep ==
    ASSUME IInv, GetHighestIndexedBlock
    PROVE  IInv'
<1> USE DEF IInv
<1>1. /\ det.pc = "highest" /\ det' = [det EXCEPT !.pc = "loop", !.startup = indexed]
      /\ UNCHANGED <<setup, indexed, notified, persisted, delivered, blocks, dispatch, checkpoint,
         dis, origin, discarded>>
  BY Zenon DEF GetHighestIndexedBlock
<1>2. /\ det'.pc = "loop" /\ det'.base = det.base /\ det'.startup = indexed /\ det'.upTo = det.upTo
      /\ det'.last = det.last /\ det'.out = det.out /\ det' \in Detectors
  BY Zenon, <1>1 DEF Types, Detectors
<1>3. Types'
  BY Zenon, <1>1, <1>2 DEF Types
<1>4. DetectorShape'
  <2>1. indexed <= indexed /\ det.last = NoLog
    BY <1>1, Fields DEF DetectorShape
  <2> QED
    BY Zenon, <1>1, <1>2, <2>1 DEF DetectorShape
<1>5. DispatcherShape' /\ Ascending' /\ Origins'
  BY Zenon, <1>1, <1>2, SameDispatcher DEF Ascending, Origins
<1>6. Pipeline(Wanted)'
  BY Zenon, <1>1, <1>2, QuietStep
<1> QED
  BY Zenon, <1>3, <1>4, <1>5, <1>6

LEMMA SendToDispatcherStep ==
    ASSUME IInv, SendToDispatcher
    PROVE  IInv'
<1> USE DEF IInv
<1> DEFINE m == Head(det.out)
<1>1. /\ det.out # <<>> /\ Len(dispatch) < setup.batchSize
      /\ dispatch' = Append(dispatch, m) /\ det' = [det EXCEPT !.out = Tail(@)]
      /\ UNCHANGED <<setup, indexed, notified, persisted, delivered, blocks, checkpoint, dis,
         origin, discarded>>
  BY Zenon DEF SendToDispatcher
<1>2. /\ Tail(det.out) \in Seq(Messages) /\ m \in Messages
      /\ Claims(Wanted, m, Batched \cup LogsIn(dispatch))
      /\ Queued(Wanted, Tail(det.out), (Batched \cup LogsIn(dispatch)) \cup {m.log})
      /\ LogsIn(det.out) = LogsIn(Tail(det.out)) \cup {m.log}
  BY Zenon, <1>1, Fields, QueueTail DEF Pipeline
<1>3. dispatch \in Seq(Messages)
  BY Zenon DEF Types
<1>4. /\ dispatch' \in Seq(Messages) /\ Queued(Wanted, dispatch', Batched)
      /\ LogsIn(dispatch') = LogsIn(dispatch) \cup {m.log}
  BY Zenon, <1>1, <1>2, <1>3, QueueAppend DEF Pipeline
<1>5. /\ det'.pc = det.pc /\ det'.base = det.base /\ det'.startup = det.startup
         /\ det'.upTo = det.upTo
      /\ det'.last = det.last /\ det'.out = Tail(det.out) /\ det' \in Detectors
  BY Zenon, <1>1, <1>2 DEF Types, Detectors
<1>6. Types'
  <2>1. Len(dispatch') <= setup.batchSize
    BY <1>1, <1>2, <1>3, Fields
  <2> QED
    BY Zenon, <1>1, <1>4, <1>5, <2>1 DEF Types
<1>7. Proper(m, indexed) /\ AllProper(Tail(det.out), indexed)
  BY Zenon, <1>1, Fields, ProperTail DEF DetectorShape
<1>8. AllProper(dispatch', indexed)
  BY Zenon, <1>1, <1>3, <1>7, ProperAppend DEF DispatcherShape
<1>9. DetectorShape' /\ DispatcherShape'
  BY Zenon, <1>1, <1>5, <1>7, <1>8 DEF DetectorShape, DispatcherShape, CatchingUp
<1>10. Ascending' /\ Origins'
  BY Zenon, <1>1, <1>5 DEF Ascending, Origins
<1>11. Wanted' = Wanted /\ Settled' = Settled /\ Batched' = Batched
  BY Zenon, <1>1, SameWanted DEF Settled, Batched
<1> HIDE DEF m
<1>12. Covered(Wanted)'
  BY Zenon, <1>1, <1>11 DEF Pipeline, Covered
<1>13. Queued(Wanted, det.out, Batched \cup LogsIn(dispatch))'
  <2>1. (Batched \cup LogsIn(dispatch)) \cup {m.log} = Batched' \cup LogsIn(dispatch')
    BY Zenon, <1>4, <1>11
  <2> QED
    BY Zenon, <1>2, <1>5, <1>11, <2>1
<1>14. Reached(Wanted)'
  <2>1. \A e \in Wanted : e \in Handed => e \in Handed'
    BY Zenon, <1>2, <1>4, <1>5, <1>11 DEF Handed
  <2> QED
    BY Zenon, <1>1, <1>5, <2>1, StillReached DEF Pipeline
<1> QED
  BY Zenon, <1>4, <1>6, <1>9, <1>10, <1>11, <1>12, <1>13, <1>14 DEF Pipeline

\* The first of the notified blocks, and the others.
LEMMA NextBlock ==
    ASSUME Types, Ascending, blocks # <<>>
    PROVE  /\ Head(blocks) \in Blocks /\ Head(blocks) <= indexed /\ Head(blocks) <= notified
           /\ Tail(blocks) \in Seq(Blocks) /\ Len(Tail(blocks)) <= QueueLength
           /\ \A i \in 1..Len(Tail(blocks)) : Tail(blocks)[i] <= notified
              /\ Head(blocks) <= Tail(blocks)[i]
           /\ \A i, j \in 1..Len(Tail(blocks)) : i < j => Tail(blocks)[i] < Tail(blocks)[j]
           /\ \A i \in 1..Len(Tail(blocks)) : \E j \in 1..Len(blocks) : Tail(blocks)[i] = blocks[j]
           /\ \E j \in 1..Len(blocks) : Head(blocks) = blocks[j]
<1> DEFINE t == Tail(blocks)
<1>1. blocks \in Seq(Blocks) /\ Len(blocks) <= QueueLength /\ QueueLength \in Nat
  BY Zenon, SetupsAssumption DEF Types
<1>2. /\ Head(blocks) = blocks[1] /\ t \in Seq(Blocks) /\ Len(t) = Len(blocks) - 1
      /\ Len(t) <= QueueLength /\ 1 \in 1..Len(blocks) /\ blocks[1] \in Blocks
      /\ \A i \in 1..Len(t) : i + 1 \in 1..Len(blocks) /\ t[i] = blocks[i + 1] /\ 1 < i + 1
      /\ \A i, j \in 1..Len(t) : i < j => i + 1 < j + 1
      /\ \A i \in 1..Len(t) : t[i] \in Blocks
  <2>1. Len(blocks) \in Nat \ {0}
    BY <1>1
  <2>2. Head(blocks) = blocks[1] /\ t \in Seq(Blocks) /\ Len(t) = Len(blocks) - 1
    BY <1>1, <2>1
  <2>3. \A i \in 1..Len(t) : t[i] = blocks[i + 1]
    BY <1>1, <2>1
  <2>4. (\A i \in 1..Len(t) : t[i] \in Blocks) /\ \A i \in 1..Len(blocks) : blocks[i] \in Blocks
    BY <1>1, <2>2
  <2> HIDE DEF t
  <2>5. /\ 1 \in 1..Len(blocks) /\ Len(t) <= QueueLength
        /\ \A i \in 1..Len(t) : i + 1 \in 1..Len(blocks) /\ 1 < i + 1
        /\ \A i, j \in 1..Len(t) : i < j => i + 1 < j + 1
    BY <1>1, <2>1, <2>2
  <2> QED
    BY Zenon, <2>2, <2>3, <2>4, <2>5
<1>3. Blocks \subseteq Nat /\ notified <= indexed /\ notified \in Nat /\ indexed \in Nat
  BY Fields DEF Blocks
<1> HIDE DEF t
<1>4. /\ blocks[1] <= notified
      /\ \A i \in 1..Len(t) : t[i] <= notified /\ blocks[1] < t[i]
      /\ \A i, j \in 1..Len(t) : i < j => t[i] < t[j]
  BY Zenon, <1>2 DEF Ascending
<1>5. blocks[1] <= indexed /\ \A i \in 1..Len(t) : blocks[1] <= t[i]
  <2>1. blocks[1] \in Nat /\ \A i \in 1..Len(t) : t[i] \in Nat
    BY Zenon, <1>2, <1>3
  <2>2. blocks[1] <= indexed
    BY <1>3, <1>4, <2>1
  <2>3. ASSUME NEW i \in 1..Len(t) PROVE blocks[1] <= t[i]
    BY <1>4, <2>1, <2>3
  <2> QED
    BY Zenon, <2>2, <2>3
<1> QED
  BY Zenon, <1>2, <1>4, <1>5 DEF t

\* The messages for a notified block are proper.
LEMMA NotifiedProper ==
    ASSUME NEW b \in Blocks, NEW n, b <= n
    PROVE  AllProper(NotifiedBlock(b), n)
<1> DEFINE q == NotifiedBlock(b)
<1>1. \A i \in 1..Len(q) :
        q[i].block = b /\ IF q[i].log = NoLog THEN q[i].last ELSE q[i].log \in LogsOf(b)
  <2>1. {} \in SUBSET AllLogs /\ (\A e \in {} : Matches(e)) /\ \A e \in {} : e[1] < b => e \in {}
    BY Zenon
  <2> QED
    BY Zenon, <2>1, NotifiedQueue
<1> HIDE DEF q
<1>2. \A e \in LogsOf(b) : e[1] = b
  BY Zenon, LogShape
<1>3. ASSUME NEW i \in 1..Len(q) PROVE Proper(q[i], n)
  <2>1. CASE q[i].log = NoLog
    BY Zenon, <1>1, <2>1 DEF Proper
  <2>2. CASE q[i].log # NoLog
    BY Zenon, <1>1, <1>2, <2>2 DEF Proper
  <2> QED
    BY Zenon, <2>1, <2>2
<1> QED
  BY Zenon, <1>3 DEF AllProper, q

LEMMA FirstBlockStep ==
    ASSUME IInv, FirstBlock
    PROVE  IInv'
<1> USE DEF IInv
<1> DEFINE b == Head(blocks)
           q == NotifiedBlock(b)
<1>1. /\ det.pc = "first" /\ blocks # <<>>
      /\ det' = [det EXCEPT !.pc = "loop", !.base = b, !.out = q]
      /\ blocks' = Tail(blocks) /\ origin' = b
      /\ UNCHANGED <<setup, indexed, notified, persisted, delivered, dispatch, checkpoint, dis,
         discarded>>
  BY Zenon DEF FirstBlock
<1>2. /\ b \in Blocks /\ b <= indexed /\ b <= notified
      /\ Tail(blocks) \in Seq(Blocks) /\ Len(Tail(blocks)) <= QueueLength
      /\ \A i \in 1..Len(Tail(blocks)) : Tail(blocks)[i] <= notified /\ b <= Tail(blocks)[i]
      /\ \A i, j \in 1..Len(Tail(blocks)) : i < j => Tail(blocks)[i] < Tail(blocks)[j]
      /\ \E j \in 1..Len(blocks) : b = blocks[j]
  BY Zenon, <1>1, NextBlock
<1>3. b \in 0..MaxBlock /\ b # None /\ b \in Nat
  BY <1>2, SetupsAssumption DEF Blocks, None
<1>4. setup.fromBlock = Latest /\ det.out = <<>> /\ det.last = NoLog /\ ~CatchingUp
  BY Zenon, <1>1 DEF Origins, DetectorShape
<1>5. AllProper(q, indexed)
  BY Zenon, <1>2, NotifiedProper
<1> DEFINE S == Batched \cup LogsIn(dispatch)
<1>6. /\ q \in Seq(Messages) /\ Queued(Wanted', q, S)
      /\ \A e \in Wanted' : e[1] <= b => e \in S \cup LogsIn(q)
  <2>1. \A e \in Wanted' : e[1] < b => e \in S
    <3>1. \A e \in Wanted' : e[1] \in Blocks /\ e[1] >= b
      BY Zenon, <1>1, WantedNext
    <3>2. \A e \in Wanted' : ~(e[1] < b)
      <4> HIDE DEF b
      <4> QED
        BY <1>3, <3>1 DEF Blocks
    <3> QED
      BY Zenon, <3>2
  <2>2. Wanted' \in SUBSET AllLogs /\ \A e \in Wanted' : Matches(e)
    BY Zenon, WantedNext
  <2> HIDE DEF b, S
  <2> QED
    BY Zenon, <1>2, <2>1, <2>2, NotifiedQueue DEF q
<1> HIDE DEF b, q, S
<1>7. /\ det'.pc = "loop" /\ det'.base = b /\ det'.startup = det.startup /\ det'.upTo = det.upTo
      /\ det'.last = det.last /\ det'.out = q /\ det' \in Detectors
  BY Zenon, <1>1, <1>3, <1>6 DEF Types, Detectors
<1>8. Types'
  BY Zenon, <1>1, <1>2, <1>3, <1>7 DEF Types
<1>9. DetectorShape' /\ DispatcherShape'
  BY Zenon, <1>1, <1>4, <1>5, <1>7, SameDispatcher DEF DetectorShape
<1>10. Ascending' /\ Origins'
  BY Zenon, <1>1, <1>2, <1>3, <1>4, <1>7 DEF Ascending, Origins
<1>11. Settled' = Settled /\ Batched' = Batched /\ Handed' = S \cup LogsIn(q)
  BY Zenon, <1>1, <1>7 DEF Settled, Batched, Handed, S
<1>12. Reached(Wanted)'
  BY Zenon, <1>4, <1>6, <1>7, <1>11 DEF Reached
<1>13. Covered(Wanted)' /\ Queued(Wanted', dispatch', Batched')
  <2>1. CASE origin = None
    <3>1. delivered = {} /\ dis.batch = <<>> /\ dispatch = <<>> /\ persisted = -1
      BY Zenon, <2>1 DEF Origins
    <3>2. ASSUME NEW e \in Wanted', e[1] <= persisted PROVE FALSE
      BY <3>1, <3>2, WantedNext DEF Blocks
    <3> QED
      BY Zenon, <1>1, <3>1, <3>2, EmptyQueue, BatchSets DEF Covered
  <2>2. CASE origin # None
    <3>1. origin <= b
      BY Zenon, <1>2, <1>4 DEF Origins
    <3>2. ASSUME NEW e \in Wanted' PROVE e \in Wanted
      <4>1. e \in AllLogs /\ Matches(e) /\ e[1] >= b /\ e[1] \in Blocks
        BY Zenon, <1>1, WantedNext
      <4>2. e[1] >= origin
        BY <1>3, <3>1, <4>1 DEF Types, Blocks
      <4> QED
        BY Zenon, <2>2, <4>1, <4>2 DEF Wanted
    <3>3. Covered(Wanted)'
      BY Zenon, <1>1, <1>11, <3>2 DEF Pipeline, Covered
    <3>4. Queued(Wanted', dispatch, Batched)
      BY Zenon, <3>2 DEF Pipeline, Queued, Claims
    <3> QED
      BY Zenon, <1>1, <1>11, <3>3, <3>4
  <2> QED
    BY Zenon, <2>1, <2>2
<1>14. Queued(Wanted', det'.out, Batched' \cup LogsIn(dispatch'))
  BY Zenon, <1>1, <1>6, <1>7, <1>11 DEF S
<1> QED
  BY Zenon, <1>8, <1>9, <1>10, <1>12, <1>13, <1>14 DEF Pipeline

LEMMA TakeBlockStep ==
    ASSUME IInv, TakeBlock
    PROVE  IInv'
<1> USE DEF IInv
<1> DEFINE b == Head(blocks)
           q == NotifiedBlock(b)
           S == Batched \cup LogsIn(dispatch)
<1>1. /\ det.pc = "loop" /\ det.out = <<>> /\ ~CatchingUp /\ blocks # <<>> /\ blocks' = Tail(blocks)
      /\ \/ b <= det.base /\ det' = det
         \/ b = det.base + 1 /\ det' = [det EXCEPT !.base = b, !.out = q]
         \/ b > det.base + 1 /\ det' = [det EXCEPT !.upTo = b]
      /\ UNCHANGED <<setup, indexed, notified, persisted, delivered, dispatch, checkpoint, dis,
         origin, discarded>>
  BY Zenon DEF TakeBlock
<1>2. /\ b \in Blocks /\ b <= indexed
      /\ Tail(blocks) \in Seq(Blocks) /\ Len(Tail(blocks)) <= QueueLength
      /\ \A i \in 1..Len(Tail(blocks)) : Tail(blocks)[i] <= notified
      /\ \A i, j \in 1..Len(Tail(blocks)) : i < j => Tail(blocks)[i] < Tail(blocks)[j]
      /\ \A i \in 1..Len(Tail(blocks)) : \E j \in 1..Len(blocks) : Tail(blocks)[i] = blocks[j]
  BY Zenon, <1>1, NextBlock
<1>3. b \in 0..MaxBlock
  BY <1>2 DEF Blocks
<1>4. det.last = NoLog /\ origin # None
  BY Zenon, <1>1 DEF DetectorShape, Origins
<1>5. AllProper(q, indexed)
  BY Zenon, <1>2, NotifiedProper
<1> HIDE DEF b
<1>6. ASSUME b = det.base + 1
      PROVE  /\ q \in Seq(Messages) /\ Queued(Wanted, q, S)
             /\ \A e \in Wanted : e[1] <= b => e \in S \cup LogsIn(q)
  <2>1. ASSUME NEW e \in Wanted, e[1] < b PROVE e \in S
    <3>1. e[1] <= det.base
      BY <1>6, <2>1, WantedFacts, Fields DEF Blocks
    <3>2. e \in Handed
      BY Zenon, <1>1, <3>1 DEF Pipeline, Reached
    <3> QED
      BY Zenon, <1>1, <3>2, EmptyQueue DEF Handed
  <2>2. Wanted \in SUBSET AllLogs /\ \A e \in Wanted : Matches(e)
    BY Zenon, WantedFacts
  <2> HIDE DEF S
  <2> QED
    BY Zenon, <1>2, <2>1, <2>2, NotifiedQueue DEF q
<1> HIDE DEF q, S
<1>7. Ascending'
  BY Zenon, <1>1, <1>2 DEF Ascending
<1>8. Origins'
  <2>1. det'.pc = "loop"
    BY <1>1, Zenon DEF Types, Detectors
  <2> QED
    BY Zenon, <1>1, <1>2, <1>4, <2>1 DEF Origins
<1>9. DispatcherShape'
  BY Zenon, <1>1, SameDispatcher
<1>10. ASSUME det' \in Detectors PROVE Types'
  BY Zenon, <1>1, <1>2, <1>10 DEF Types
<1>11. CASE det' = det
  <2>1. Types' /\ DetectorShape'
    BY Zenon, <1>1, <1>10, <1>11, SameDetector DEF Types
  <2>2. Pipeline(Wanted)'
    BY Zenon, <1>1, <1>11, QuietStep
  <2> QED
    BY Zenon, <1>7, <1>8, <1>9, <2>1, <2>2
<1>12. CASE b = det.base + 1 /\ det' = [det EXCEPT !.base = b, !.out = q]
  <2>1. /\ det'.pc = det.pc /\ det'.base = b /\ det'.startup = det.startup /\ det'.upTo = det.upTo
        /\ det'.last = det.last /\ det'.out = q /\ det' \in Detectors
    BY Zenon, <1>3, <1>6, <1>12 DEF Types, Detectors
  <2>2. DetectorShape'
    BY Zenon, <1>1, <1>5, <2>1 DEF DetectorShape, CatchingUp
  <2>3. /\ Wanted' = Wanted /\ Settled' = Settled /\ Batched' = Batched
           /\ Handed' = S \cup LogsIn(q)
        /\ Batched' \cup LogsIn(dispatch') = S
    BY Zenon, <1>1, <2>1, SameWanted DEF Settled, Batched, Handed, S
  <2>4. Covered(Wanted)'
    BY Zenon, <1>1, <2>3 DEF Pipeline, Covered
  <2>5. Queued(Wanted', dispatch', Batched') /\ Queued(Wanted', det'.out,
          Batched' \cup LogsIn(dispatch'))
    BY Zenon, <1>1, <1>6, <1>12, <2>1, <2>3 DEF Pipeline
  <2>6. Reached(Wanted)'
    BY Zenon, <1>4, <1>6, <1>12, <2>1, <2>3 DEF Reached
  <2> QED
    BY Zenon, <1>7, <1>8, <1>9, <1>10, <2>1, <2>2, <2>4, <2>5, <2>6 DEF Pipeline
<1>13. CASE det' = [det EXCEPT !.upTo = b]
  <2>1. /\ det'.pc = det.pc /\ det'.base = det.base /\ det'.startup = det.startup /\ det'.upTo = b
        /\ det'.last = det.last /\ det'.out = det.out /\ det' \in Detectors
    BY Zenon, <1>3, <1>13 DEF Types, Detectors
  <2>2. DetectorShape'
    BY Zenon, <1>1, <1>2, <1>4, <2>1 DEF DetectorShape
  <2>3. Pipeline(Wanted)'
    BY Zenon, <1>1, <2>1, QuietStep
  <2> QED
    BY Zenon, <1>7, <1>8, <1>9, <1>10, <2>1, <2>2, <2>3
<1> QED
  BY Zenon, <1>1, <1>11, <1>12, <1>13

LEMMA CatchupStep ==
    ASSUME IInv, ProcessCatchupEventPage
    PROVE  IInv'
<1> USE DEF IInv
<1> DEFINE to == IF det.startup # None THEN det.startup + 1 ELSE det.upTo
           after(e) == IF det.last = NoLog THEN e[1] > det.base ELSE Earlier(det.last, e)
           F == {e \in AllLogs : e[1] <= indexed /\ e[1] < to /\ after(e)}
           P == FirstPage(F)
           caughtUp == Cardinality(P) < PageSize
           q == PageEvents(P, caughtUp)
           S == Batched \cup LogsIn(dispatch)
<1>1. /\ det.pc = "loop" /\ det.out = <<>> /\ CatchingUp
      /\ det' = IF ~caughtUp THEN [det EXCEPT !.last = LastOf(P), !.out = q]
                ELSE IF det.startup = None
                THEN [det EXCEPT !.last = NoLog, !.out = q \o NotifiedBlock(det.upTo),
                                 !.base = det.upTo, !.upTo = None]
                ELSE [det EXCEPT !.last = NoLog, !.out = Append(q, Confirmed(to - 1)),
                                 !.base = det.startup, !.startup = None]
      /\ UNCHANGED <<setup, indexed, notified, persisted, delivered, blocks, dispatch, checkpoint,
         dis, origin, discarded>>
  BY Zenon DEF ProcessCatchupEventPage, Page
<1>2. /\ det.startup \in Nat /\ det.upTo \in Nat /\ det.base \in Nat /\ indexed \in Nat
         /\ to \in Nat
      /\ det.startup <= indexed /\ det.upTo <= indexed
      /\ det.startup # None => to - 1 = det.startup /\ det.startup \in Blocks
      /\ det.startup = None => to = det.upTo /\ det.upTo \in Blocks
  BY <1>1, Fields DEF DetectorShape, CatchingUp, None, Blocks
<1>3. F \in SUBSET AllLogs /\ \A f \in F : f \in AllLogs /\ f[1] <= indexed /\ f[1] < to
  BY Zenon
<1>4. ASSUME NEW e \in Wanted, e[1] <= indexed, e[1] < to PROVE e \in S \cup F
  <2>1. e \in AllLogs /\ e[1] \in Nat
    BY WantedFacts DEF Blocks
  <2>2. e \in Handed => e \in S
    BY Zenon, <1>1, EmptyQueue DEF Handed
  <2>3. CASE after(e)
    BY Zenon, <1>4, <2>1, <2>3
  <2>4. CASE ~after(e) /\ det.last = NoLog
    <3>1. e[1] <= det.base
      BY <1>2, <2>1, <2>4
    <3> QED
      BY Zenon, <1>1, <2>2, <3>1 DEF Pipeline, Reached
  <2>5. CASE ~after(e) /\ det.last # NoLog
    <3>1. det.last \in AllLogs
      BY Zenon, <2>5, Fields
    <3>2. e = det.last \/ Earlier(e, det.last)
      BY Zenon, <2>1, <2>5, <3>1, LogOrder
    <3> QED
      BY Zenon, <2>2, <2>5, <3>2 DEF Pipeline, Reached
  <2> QED
    BY Zenon, <2>3, <2>4, <2>5
<1> HIDE DEF F, to
<1>5. ASSUME NEW e \in Wanted, NEW f \in F, e[1] <= f[1] PROVE e \in S \cup F
  <2>1. e[1] \in Nat /\ f[1] \in Nat
    BY <1>3, WantedFacts, LogShape DEF Blocks
  <2>2. e[1] <= indexed /\ e[1] < to
    BY <1>2, <1>3, <1>5, <2>1
  <2> QED
    BY Zenon, <1>4, <2>2
<1>6. /\ P \subseteq F /\ \A e \in P : \A f \in F : Earlier(f, e) => f \in P
      /\ caughtUp => P = F
      /\ ~caughtUp => P # {}
  BY Zenon, <1>3, PageIsPrefix
<1>7. caughtUp \in BOOLEAN /\ Wanted \in SUBSET AllLogs /\ \A e \in Wanted : Matches(e)
  <2>1. P \in SUBSET AllLogs
    BY Zenon, <1>3, <1>6
  <2> HIDE DEF P
  <2>2. Cardinality(P) \in Nat /\ PageSize \in Nat
    BY Zenon, <2>1, FiniteLogs, SetupsAssumption
  <2>3. caughtUp \in BOOLEAN
    BY <2>2
  <2> QED
    BY Zenon, <2>3, WantedFacts
<1> HIDE DEF S, caughtUp
<1>8. /\ q \in Seq(Messages)
      /\ \A i \in 1..Len(q) : q[i].log \in P /\ q[i].block = q[i].log[1]
      /\ Queued(Wanted, q, S)
      /\ \A e \in Wanted : e \in P => e \in LogsIn(q)
  BY Zenon, <1>3, <1>5, <1>6, <1>7, PageQueue
<1> HIDE DEF P, q
<1>9. AllProper(q, indexed)
  <2>1. \A e \in P : e # NoLog /\ e[1] <= indexed
    BY Zenon, <1>3, <1>6, LogShape
  <2> QED
    BY Zenon, <1>8, <2>1 DEF AllProper, Proper
<1>10. origin # None
  BY Zenon, <1>1 DEF Origins
<1>11. ASSUME det'.pc = "loop" PROVE DispatcherShape' /\ Ascending' /\ Origins'
  BY Zenon, <1>1, <1>10, <1>11, SameDispatcher DEF Ascending, Origins
<1>12. ASSUME det' \in Detectors PROVE Types'
  BY Zenon, <1>1, <1>12 DEF Types
<1>13. /\ Wanted' = Wanted /\ Settled' = Settled /\ Batched' = Batched
       /\ Batched' \cup LogsIn(dispatch') = S /\ Handed' = S \cup LogsIn(det'.out)
       /\ \A e \in Handed : e \in S
  BY Zenon, <1>1, SameWanted, EmptyQueue DEF Settled, Batched, Handed, S
<1>14. Covered(Wanted)' /\ Queued(Wanted', dispatch', Batched')
  BY Zenon, <1>1, <1>13 DEF Pipeline, Covered
\* What the step has to show of the detector.
<1>15. ASSUME det' \in Detectors, det'.pc = "loop", DetectorShape',
              Queued(Wanted, det'.out, S),
              \A e \in Wanted : e[1] <= det'.base => e \in S \cup LogsIn(det'.out),
              det'.last # NoLog => \A e \in Wanted :
                 e = det'.last \/ Earlier(e, det'.last) => e \in S \cup LogsIn(det'.out)
       PROVE  IInv'
  <2>1. Reached(Wanted)'
    BY Zenon, <1>13, <1>15 DEF Reached
  <2> QED
    BY Zenon, <1>11, <1>12, <1>13, <1>14, <1>15, <2>1 DEF Pipeline
<1>16. CASE ~caughtUp
  <2> DEFINE l == LastOf(P)
  <2>1. l \in P /\ l \in AllLogs /\ l # NoLog /\ l \in F
    BY Zenon, <1>3, <1>6, <1>16, LastOfPage, LogShape
  <2>2. /\ det'.pc = "loop" /\ det'.base = det.base /\ det'.startup = det.startup
           /\ det'.upTo = det.upTo
        /\ det'.last = l /\ det'.out = q /\ det' \in Detectors
    BY Zenon, <1>1, <1>8, <1>16, <2>1 DEF Types, Detectors
  <2> HIDE DEF l
  <2>3. DetectorShape'
    BY Zenon, <1>1, <1>9, <2>2 DEF DetectorShape, CatchingUp
  <2>4. \A e \in Wanted : e[1] <= det.base => e \in S
    BY Zenon, <1>1, <1>13 DEF Pipeline, Reached
  <2>5. ASSUME NEW e \in Wanted, e = l \/ Earlier(e, l) PROVE e \in S \cup LogsIn(q)
    <3>1. e[1] <= l[1]
      BY <2>1, <2>5, WantedFacts, LogShape DEF Earlier, Blocks
    <3>2. e \in S \cup F
      BY Zenon, <1>5, <2>1, <3>1
    <3> QED
      BY Zenon, <1>6, <1>8, <2>1, <2>5, <3>2
  <2> QED
    BY Zenon, <1>8, <1>15, <2>2, <2>3, <2>4, <2>5
<1>17. ASSUME caughtUp, NEW e \in Wanted, e[1] < to PROVE e \in S \cup LogsIn(q)
  <2>1. e[1] <= indexed
    <3>1. e[1] \in Nat
      BY WantedFacts DEF Blocks
    <3> QED
      BY <1>2, <1>17, <3>1
  <2> QED
    BY Zenon, <1>4, <1>6, <1>8, <1>17, <2>1
<1>18. CASE caughtUp /\ det.startup = None
  <2> DEFINE b == det.upTo
             r == NotifiedBlock(b)
  <2>1. b \in Blocks /\ to = b /\ b <= indexed
    BY Zenon, <1>2, <1>18
  <2>2. \A e \in Wanted : e[1] < b => e \in S \cup LogsIn(q)
    BY Zenon, <1>17, <1>18, <2>1
  <2>3. /\ r \in Seq(Messages) /\ Queued(Wanted, r, S \cup LogsIn(q))
        /\ \A e \in Wanted : e[1] <= b => e \in (S \cup LogsIn(q)) \cup LogsIn(r)
    BY Zenon, <1>7, <2>1, <2>2, NotifiedQueue
  <2>4. AllProper(r, indexed)
    BY Zenon, <2>1, NotifiedProper
  <2> HIDE DEF r
  <2>5. /\ q \o r \in Seq(Messages) /\ Queued(Wanted, q \o r, S)
        /\ LogsIn(q \o r) = LogsIn(q) \cup LogsIn(r)
    <3>1. q \in Seq(Messages) /\ Queued(Wanted, q, S)
      BY Zenon, <1>8
    <3>2. r \in Seq(Messages) /\ Queued(Wanted, r, S \cup LogsIn(q))
      BY Zenon, <2>3
    <3> QED
      BY ZenonT(40), <3>1, <3>2, QueueConcat
  <2>6. AllProper(q \o r, indexed)
    BY Zenon, <1>8, <1>9, <2>3, <2>4, ProperConcat
  <2>7. det' = [det EXCEPT !.last = NoLog, !.out = q \o r, !.base = b, !.upTo = None]
    BY Zenon, <1>1, <1>18 DEF r
  <2>8. 0 \in 0..MaxBlock /\ 0 <= indexed
    BY <1>2, Fields
  <2>9. /\ det'.pc = "loop" /\ det'.base = b /\ det'.startup = det.startup /\ det'.upTo = None
        /\ det'.last = NoLog /\ det'.out = q \o r /\ det' \in Detectors
    BY Zenon, <1>1, <2>5, <2>7, <2>8, Fields DEF Types, Detectors, None
  <2>10. DetectorShape'
    BY Zenon, <1>1, <1>2, <2>6, <2>8, <2>9 DEF DetectorShape, None
  <2>11. \A e \in Wanted : e[1] <= det'.base => e \in S \cup LogsIn(det'.out)
    BY Zenon, <2>3, <2>5, <2>9
  <2> QED
    BY Zenon, <1>15, <2>5, <2>9, <2>10, <2>11
<1>19. CASE caughtUp /\ det.startup # None
  <2> DEFINE b == det.startup
             m == Confirmed(b)
             r == Append(q, m)
  <2>1. b \in Blocks /\ to - 1 = b /\ b <= indexed
    BY Zenon, <1>2, <1>19
  <2>2. \A e \in Wanted : e[1] <= b => e \in S \cup LogsIn(q)
    <3>1. \A e \in Wanted : e[1] <= b => e[1] < to
      BY <1>2, <2>1, WantedFacts DEF Blocks
    <3> QED
      BY Zenon, <1>17, <1>19, <3>1
  <2>3. m \in Messages /\ m.log = NoLog /\ m.block = b /\ m.last = TRUE
    BY <2>1 DEF Messages, Confirmed
  <2> HIDE DEF m
  <2>4. Claims(Wanted, m, S \cup LogsIn(q)) /\ Proper(m, indexed)
    BY Zenon, <2>1, <2>2, <2>3 DEF Claims, Proper
  <2>5. r \in Seq(Messages) /\ Queued(Wanted, r, S) /\ LogsIn(r) = LogsIn(q) \cup {m.log}
    BY Zenon, <1>8, <2>3, <2>4, QueueAppend
  <2>6. AllProper(r, indexed)
    BY Zenon, <1>8, <1>9, <2>4, ProperAppend
  <2>7. det' = [det EXCEPT !.last = NoLog, !.out = r, !.base = b, !.startup = None]
    BY Zenon, <1>1, <1>19, <2>1 DEF m
  <2> HIDE DEF r
  <2>8. 0 \in 0..MaxBlock /\ 0 <= indexed
    BY <1>2, Fields
  <2>9. /\ det'.pc = "loop" /\ det'.base = b /\ det'.startup = None /\ det'.upTo = det.upTo
        /\ det'.last = NoLog /\ det'.out = r /\ det' \in Detectors
    BY Zenon, <1>1, <2>5, <2>7, <2>8, Fields DEF Types, Detectors, None
  <2>10. DetectorShape'
    BY Zenon, <1>1, <1>2, <2>6, <2>8, <2>9 DEF DetectorShape, None
  <2>11. \A e \in Wanted : e[1] <= det'.base => e \in S \cup LogsIn(det'.out)
    BY Zenon, <2>2, <2>5, <2>9
  <2> QED
    BY Zenon, <1>15, <2>5, <2>9, <2>10, <2>11
<1> QED
  BY Zenon, <1>16, <1>18, <1>19
=============================================================================
