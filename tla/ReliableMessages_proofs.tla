----------------------- MODULE ReliableMessages_proofs -----------------------
(***************************************************************************)
(* Proofs about ReliableMessages, for any number of messages, any page,    *)
(* batch and transaction size, any kinds of messages and any faults.       *)
(***************************************************************************)
EXTENDS ReliableMessages, FiniteSetTheorems, TLAPS

-----------------------------------------------------------------------------
(* The pages of a scan.  The rank of a sequence counts those below it; the  *)
(* ranks of a set of n sequences are 0 .. n - 1.                            *)

Rank(S, s) == Cardinality({t \in S : t < s})

\* What is derived from finitely many messages is finite.
LEMMA FiniteSeqs ==
    ASSUME NEW S \in SUBSET Seqs
    PROVE  IsFiniteSet(S) /\ Cardinality(S) \in Nat
  <1>1. IsFiniteSet(Seqs)
    BY FS_Interval, BoundsAssumption DEF Seqs
  <1> QED
    BY Zenon, <1>1, FS_Subset, FS_CardinalityType

LEMMA RankOrder ==
    ASSUME NEW S \in SUBSET Seqs, NEW x \in S, NEW y \in S, x < y
    PROVE  Rank(S, x) < Rank(S, y)
  <1> DEFINE A == {t \in S : t < x}
             B == {t \in S : t < y}
  <1>0. \A t \in S : t \in Int
    BY BoundsAssumption DEF Seqs
  <1>1. A \in SUBSET Seqs /\ B \in SUBSET Seqs /\ x \notin A /\ A \cup {x} \in SUBSET B
    <2>1. x \notin A /\ x \in B
      BY <1>0
    <2>2. \A t \in A : t \in B
      BY <1>0
    <2> QED
      BY Zenon, <2>1, <2>2
  <1>2. IsFiniteSet(A) /\ IsFiniteSet(B) /\ Cardinality(A) \in Nat /\ Cardinality(B) \in Nat
    BY Zenon, <1>1, FiniteSeqs
  <1> HIDE DEF A, B
  <1>3. Cardinality(A \cup {x}) = Cardinality(A) + 1
    BY Zenon, <1>1, <1>2, FS_AddElement
  <1>4. Cardinality(A \cup {x}) <= Cardinality(B)
    BY Zenon, <1>1, <1>2, FS_Subset
  <1>5. Cardinality(A) < Cardinality(B)
    BY <1>2, <1>3, <1>4
  <1> QED
    BY Zenon, <1>5 DEF A, B, Rank

LEMMA RankRange ==
    ASSUME NEW S \in SUBSET Seqs, NEW x \in S
    PROVE  Rank(S, x) \in 0 .. (Cardinality(S) - 1)
  <1> DEFINE A == {t \in S : t < x}
  <1>0. x \notin A
    BY BoundsAssumption DEF Seqs
  <1>1. A \in SUBSET Seqs /\ A \in SUBSET (S \ {x}) /\ S \ {x} \in SUBSET Seqs
    BY Zenon, <1>0
  <1>2. Cardinality(A) \in Nat /\ IsFiniteSet(S \ {x}) /\ Cardinality(S \ {x}) = Cardinality(S) - 1
    BY Zenon, <1>1, FiniteSeqs, FS_RemoveElement
  <1>3. Cardinality(S) \in Nat
    BY Zenon, FiniteSeqs
  <1> HIDE DEF A
  <1>4. Cardinality(A) <= Cardinality(S \ {x})
    BY Zenon, <1>1, <1>2, FS_Subset
  <1>5. Cardinality(A) \in 0 .. (Cardinality(S) - 1)
    BY <1>2, <1>3, <1>4
  <1> QED
    BY Zenon, <1>5 DEF A, Rank

\* Every rank is taken: the ranks are an injection between sets of one size.
LEMMA RankOnto ==
    ASSUME NEW S \in SUBSET Seqs, NEW k \in 0 .. (Cardinality(S) - 1)
    PROVE  \E x \in S : Rank(S, x) = k
  <1> DEFINE n == Cardinality(S)
             T == 0 .. (n - 1)
             f == [x \in S |-> Rank(S, x)]
  <1>1. n \in Nat /\ IsFiniteSet(S)
    BY Zenon, FiniteSeqs
  <1>2. IsFiniteSet(T) /\ Cardinality(T) = n
    BY <1>1, FS_Interval
  <1>3. f \in [S -> T]
    BY Zenon, RankRange
  <1>4. ASSUME NEW x \in S, NEW y \in S, f[x] = f[y]
        PROVE  x = y
    <2>1. Rank(S, x) = Rank(S, y) /\ Rank(S, x) \in Int /\ x \in Int /\ y \in Int
      BY <1>4, <1>1, RankRange, BoundsAssumption DEF Seqs
    <2>2. CASE x < y
      BY <2>1, <2>2, RankOrder
    <2>3. CASE y < x
      BY <2>1, <2>3, RankOrder
    <2> QED
      BY <2>1, <2>2, <2>3
  <1>5. f \in Injection(S, T)
    BY Zenon, <1>3, <1>4 DEF Injection, IsInjective
  <1> HIDE DEF f, T, n
  <1>6. f \in Surjection(S, T)
    BY Zenon, <1>1, <1>2, <1>5, FS_Injection DEF n
  <1> QED
    BY Zenon, <1>6 DEF Surjection, f, T, n

\* Min and Max are the least and the greatest sequence of a set.
LEMMA MinMax ==
    ASSUME NEW S \in SUBSET Seqs, S # {}
    PROVE  /\ Min(S) \in S /\ \A t \in S : Min(S) <= t
           /\ Max(S) \in S /\ \A t \in S : Max(S) >= t
  <1>1. Cardinality(S) \in Nat /\ Cardinality(S) # 0 /\ S \subseteq Int
    BY FiniteSeqs, FS_EmptySet, BoundsAssumption DEF Seqs
  <1>2. PICK x \in S : Rank(S, x) = 0
    BY <1>1, RankOnto
  <1>3. \A t \in S : Rank(S, t) >= 0
    BY <1>1, RankRange
  <1>4. \A t \in S : x <= t
    BY <1>1, <1>2, <1>3, RankOrder, RankRange
  <1>5. PICK y \in S : Rank(S, y) = Cardinality(S) - 1
    BY <1>1, RankOnto
  <1>6. \A t \in S : y >= t
    BY <1>1, <1>5, RankOrder, RankRange
  <1> QED
    BY Zenon, <1>4, <1>6 DEF Min, Max

\* A page that leaves a sequence of the table out is a full one, and ends below
\* that sequence.
LEMMA FullPage ==
    ASSUME NEW S \in SUBSET Seqs, NEW s \in S, s \notin PageOf(S)
    PROVE  Cardinality(PageOf(S)) = PageSize /\ \A t \in PageOf(S) : t < s
  <1> DEFINE P == PageOf(S)
             T == 0 .. (PageSize - 1)
             g == [x \in P |-> Rank(S, x)]
  <1>1. /\ P \in SUBSET S /\ \A x \in P : Rank(S, x) < PageSize
        /\ \A x \in S : Rank(S, x) < PageSize => x \in P
        /\ ~(Rank(S, s) < PageSize) /\ S \subseteq Int /\ PageSize \in Nat
    BY BoundsAssumption DEF PageOf, Rank, Seqs
  <1>2. /\ Cardinality(S) \in Nat
        /\ \A x \in S : Rank(S, x) \in 0 .. (Cardinality(S) - 1)
    BY Zenon, FiniteSeqs, RankRange
  <1> HIDE DEF P
  <1>3. \A t \in P : t < s
    <2> SUFFICES ASSUME NEW t \in P, ~(t < s) PROVE FALSE
      BY Zenon
    <2>1. Rank(S, t) < PageSize /\ t \in S /\ t # s
      BY Zenon, <1>1
    <2>2. Rank(S, s) < Rank(S, t)
      BY <1>1, <2>1, RankOrder
    <2> QED
      BY <1>1, <1>2, <2>1, <2>2
  <1>4. PageSize <= Rank(S, s) /\ T \in SUBSET (0 .. (Cardinality(S) - 1))
    BY <1>1, <1>2
  <1>5. g \in [P -> T]
    BY <1>1, <1>2
  <1>6. \A x, y \in P : g[x] = g[y] => x = y
    BY <1>1, <1>2, RankOrder
  <1>7. \A k \in T : \E x \in P : g[x] = k
    BY <1>1, <1>4, RankOnto
  <1>8. g \in Bijection(P, T)
    BY Zenon, <1>5, <1>6, <1>7 DEF Bijection, Injection, Surjection, IsInjective
  <1>9. IsFiniteSet(P) /\ Cardinality(T) = PageSize
    <2>1. P \in SUBSET Seqs
      BY Zenon, <1>1
    <2>2. Cardinality(T) = PageSize
      BY <1>1, FS_Interval
    <2> QED
      BY Zenon, <2>1, <2>2, FiniteSeqs
  <1> HIDE DEF g, T
  <1>10. Cardinality(T) = Cardinality(P)
    BY Zenon, <1>8, <1>9, FS_Bijection DEF ExistsBijection
  <1> QED
    BY Zenon, <1>3, <1>9, <1>10 DEF P

-----------------------------------------------------------------------------
(* The inductive invariant.                                                 *)

\* An ack is on its way only for a message that is stored.
AnswersInv == \A a \in answers : a.ok => a.of \in applied

\* A transaction inserted rows with sequences that were handed out.
OpenInv == \A t \in open : t.hi <= lastSeq

\* Only a triggered scan takes the floor.
ScanInv == pc = "consume" => checkNew

\* Without faults the peer object that was given to a caller is the one in use,
\* and it is there from the first call on.
PeerInv ==
    faults = 0 =>
        /\ \A t \in open : t.current
        /\ \A h \in hooks : h.current
        /\ ~peer => open = {} /\ hooks = {} /\ rows = {}

IInv == TypeOK /\ AnswersInv /\ AckedIsApplied /\ OpenInv /\ ScanInv /\ PeerInv /\ NewIsNoticed

\* The inductive invariant holds initially.
LEMMA InitInv == Init => IInv
  <1> SUFFICES ASSUME Init PROVE IInv
    BY Zenon
  <1> USE BoundsAssumption DEF Init
  <1>1. TypeOK
    <2>1. peer \in BOOLEAN /\ token \in BOOLEAN /\ scanned \in BOOLEAN /\ checkNew \in BOOLEAN
          /\ more \in BOOLEAN
      BY Zenon
    <2>2. acks \in [Seqs -> {"none", "ack", "nack"}]
      BY Zenon
    <2>3. /\ kind \in KindChoices /\ lastSeq \in 0 .. MaxSeq /\ rows \subseteq 1 .. lastSeq
          /\ floor \in 1 .. NoSeq /\ errors \in Nat
          /\ pc \in {"stopped", "wait", "consume", "query", "send"} /\ after \in 0 .. MaxSeq
          /\ faults \in 0 .. MaxFaults
      BY DEF NoSeq
    <2> QED
      BY Zenon, <2>1, <2>2, <2>3 DEF TypeOK
  <1>2. AnswersInv /\ AckedIsApplied /\ OpenInv /\ ScanInv
    BY Zenon DEF AnswersInv, AckedIsApplied, OpenInv, ScanInv
  <1>3. PeerInv /\ NewIsNoticed
    BY Zenon DEF PeerInv, NewIsNoticed, Unacked
  <1> QED
    BY Zenon, <1>1, <1>2, <1>3 DEF IInv

-----------------------------------------------------------------------------
(* Types.                                                                   *)

\* The type invariant by parts: the database, the callers, the peer object, the
\* sender, the flags of both, and the rest.
DbType == /\ kind \in KindChoices /\ lastSeq \in 0 .. MaxSeq
          /\ rows \subseteq 1 .. lastSeq
AckType == acks \in [Seqs -> {"none", "ack", "nack"}]
CallType == open \subseteq Transactions /\ hooks \subseteq Notifications
ObjectType == floor \in 1 .. NoSeq /\ errors \in Nat
SenderType == /\ pc \in {"stopped", "wait", "consume", "query", "send"}
              /\ after \in 0 .. MaxSeq /\ page \subseteq Seqs
FlagType == /\ peer \in BOOLEAN /\ token \in BOOLEAN /\ scanned \in BOOLEAN
            /\ checkNew \in BOOLEAN /\ more \in BOOLEAN
FlightType == wire \subseteq Seqs /\ answers \subseteq Answers
RestType == /\ aged \subseteq Seqs /\ applied \subseteq Seqs /\ seen \subseteq Seqs
            /\ faults \in 0 .. MaxFaults

LEMMA TypeParts ==
    TypeOK <=> DbType /\ AckType /\ CallType /\ ObjectType /\ SenderType /\ FlagType
               /\ FlightType /\ RestType
  BY Zenon DEF TypeOK, DbType, AckType, CallType, ObjectType, SenderType, FlagType, FlightType, RestType

LEMMA TypePartsNext ==
    TypeOK' <=> DbType' /\ AckType' /\ CallType' /\ ObjectType' /\ SenderType' /\ FlagType'
                /\ FlightType' /\ RestType'
  BY Zenon DEF TypeOK, DbType, AckType, CallType, ObjectType, SenderType, FlagType, FlightType, RestType

\* A part whose variables do not change keeps its type.
LEMMA TypeUnchanged ==
    /\ DbType /\ UNCHANGED sendDb => DbType'
    /\ AckType /\ UNCHANGED acks => AckType'
    /\ CallType /\ UNCHANGED calls => CallType'
    /\ ObjectType /\ UNCHANGED object => ObjectType'
    /\ SenderType /\ UNCHANGED sender => SenderType'
    /\ FlightType /\ UNCHANGED flight => FlightType'
    /\ RestType /\ UNCHANGED <<aged, applied, seen, faults>> => RestType'
  BY Zenon DEF DbType, AckType, CallType, ObjectType, SenderType, FlightType, RestType,
         sendDb, calls, object, sender, flight

\* The ways the sender moves to another place.
LEMMA Enters ==
    EnterScan \/ EnterWait \/ EnterStopped => SenderType'
  BY BoundsAssumption DEF EnterScan, EnterWait, EnterStopped, SenderType

LEMMA PeerType ==
    /\ ObjectType /\ ConnectPeer => ObjectType'
    /\ ObjectType /\ SenderType /\ GetPeerForSend => ObjectType' /\ SenderType'
  <1>1. ObjectType /\ ConnectPeer => ObjectType'
    BY BoundsAssumption DEF ConnectPeer, ObjectType, NoSeq, object
  <1> QED
    BY Zenon, <1>1, Enters, TypeUnchanged DEF GetPeerForSend

LEMMA RetryType == SenderType /\ RetryScan => SenderType'
  <1>1. SenderType /\ checkNew /\ RetryScan => SenderType'
    BY Zenon DEF SenderType, RetryScan
  <1> QED
    BY Zenon, <1>1, Enters DEF RetryScan

LEMMA FaultType == ASSUME NEW f, faults \in 0 .. MaxFaults, Fault(f)
                   PROVE  faults' \in 0 .. MaxFaults /\ faults' # 0
  BY BoundsAssumption DEF Fault

\* The peer object and the flags of the sender hold Boolean values.
LEMMA FlagStep ==
    ASSUME FlagType, [Next]_vars
    PROVE  FlagType'
  <1> USE DEF FlagType
  <1>1. EnterScan \/ EnterWait \/ EnterStopped => checkNew' \in BOOLEAN /\ more' \in BOOLEAN
    BY Zenon DEF EnterScan, EnterWait, EnterStopped
  <1>2. ConnectPeer => peer' \in BOOLEAN /\ token' \in BOOLEAN /\ scanned' \in BOOLEAN
    BY Zenon DEF ConnectPeer, object
  <1>3. GetPeerForSend => FlagType'
    BY Zenon, <1>1, <1>2 DEF GetPeerForSend, sender
  <1>4. RetryScan => checkNew' \in BOOLEAN /\ more' \in BOOLEAN
    BY Zenon, <1>1 DEF RetryScan
  <1>5. CASE \E n \in 1 .. MaxTx : SendReliable(n)
    BY Zenon, <1>3, <1>5 DEF SendReliable
  <1>6. CASE \E t \in open : Commit(t) \/ Rollback(t)
    BY Zenon, <1>6 DEF Commit, Rollback, object, sender
  <1>7. CASE \E h \in hooks : NotifyPersistedMsgAvailable(h)
    BY Zenon, <1>7 DEF NotifyPersistedMsgAvailable, sender
  <1>8. CASE QueueFireAndForget
    BY Zenon, <1>3, <1>8 DEF QueueFireAndForget
  <1>9. CASE ConnectFails
    BY Zenon, <1>2, <1>9 DEF ConnectFails, sender
  <1>10. CASE ReapPeer
    BY Zenon, <1>1, <1>10 DEF ReapPeer
  <1>11. CASE ResendTimer
    BY Zenon, <1>1, <1>11 DEF ResendTimer, object
  <1>12. CASE TriggeredScan
    BY Zenon, <1>12 DEF TriggeredScan
  <1>13. CASE ConsumeFloor
    BY Zenon, <1>1, <1>13 DEF ConsumeFloor
  <1>14. CASE QueryPage
    BY Zenon, <1>14 DEF QueryPage, object
  <1>15. CASE Send
    BY Zenon, <1>15 DEF Send
  <1>16. CASE PageDone
    BY Zenon, <1>1, <1>16 DEF PageDone
  <1>17. CASE QueryFails
    BY Zenon, <1>1, <1>4, <1>17 DEF QueryFails, object
  <1>18. CASE SendFails
    BY Zenon, <1>1, <1>4, <1>18 DEF SendFails
  <1>19. CASE FireAndForgetFails
    BY Zenon, <1>1, <1>19 DEF FireAndForgetFails, sender
  <1>20. CASE \E x \in Seqs : Age(x)
    BY Zenon, <1>20 DEF Age, object, sender
  <1>21. CASE Lose
    BY Zenon, <1>21 DEF Lose, object, sender
  <1>22. CASE \E B \in Batches : HandleReliableMsgBatch(B) \/ BatchFails(B) \/ RestartReceiver(B)
    BY Zenon, <1>22 DEF HandleReliableMsgBatch, BatchFails, RestartReceiver, object, sender
  <1>23. CASE \E a \in answers : WriteAck(a)
    BY Zenon, <1>2, <1>23 DEF WriteAck, sender
  <1>24. CASE RestartSender
    BY Zenon, <1>1, <1>24 DEF RestartSender
  <1>25. CASE UNCHANGED vars
    BY Zenon, <1>25 DEF vars, object, sender
  <1> QED
    BY Zenon, <1>5, <1>6, <1>7, <1>8, <1>9, <1>10, <1>11, <1>12, <1>13, <1>14, <1>15, <1>16, <1>17,
       <1>18, <1>19, <1>20, <1>21, <1>22, <1>23, <1>24, <1>25, Zenon DEF Next

\* Every step keeps the types.
LEMMA TypeStep ==
    ASSUME TypeOK, OpenInv, [Next]_vars
    PROVE  TypeOK' /\ OpenInv'
  <1> DEFINE Parts == /\ DbType /\ AckType /\ CallType /\ ObjectType /\ SenderType
                      /\ FlightType /\ RestType /\ OpenInv
  <1>1. Parts /\ FlagType'
    BY Zenon, TypeParts, FlagStep
  <1> SUFFICES Parts'
    BY Zenon, <1>1, TypePartsNext
  <1> USE BoundsAssumption, TypeUnchanged
  <1>2. OpenInv /\ UNCHANGED <<open, lastSeq>> => OpenInv'
    BY Zenon DEF OpenInv
  <1>3. faults \in 0 .. MaxFaults /\ aged \subseteq Seqs /\ applied \subseteq Seqs /\ seen \subseteq Seqs
    BY Zenon, <1>1 DEF RestType
  <1>5. CASE \E n \in 1 .. MaxTx : SendReliable(n)
    <2>1. PICK n \in 1 .. MaxTx : SendReliable(n)
      BY Zenon, <1>5
    <2>2. DbType' /\ OpenInv'
      BY <1>1, <2>1 DEF SendReliable, DbType, CallType, OpenInv, Transactions, Seqs
    <2>3. CallType'
      <3>1. lastSeq + 1 \in Seqs /\ lastSeq + n \in Seqs
        BY <1>1, <2>1 DEF SendReliable, DbType, Seqs
      <3>2. [lo |-> lastSeq + 1, hi |-> lastSeq + n, current |-> TRUE] \in Transactions
        BY Zenon, <3>1 DEF Transactions
      <3> QED
        BY Zenon, <1>1, <2>1, <3>2 DEF SendReliable, CallType
    <2> QED
      BY Zenon, <1>1, <2>1, <2>2, <2>3, PeerType DEF SendReliable
  <1>6. CASE \E t \in open : Commit(t) \/ Rollback(t)
    <2>1. PICK t \in open : Commit(t) \/ Rollback(t)
      BY Zenon, <1>6
    <2>2. t \in Transactions /\ t.hi <= lastSeq
      BY Zenon, <1>1 DEF CallType, OpenInv
    <2>3. DbType'
      <3>1. t.lo \in 1 .. MaxSeq /\ t.hi \in 1 .. MaxSeq
        BY Zenon, <2>2 DEF Transactions, Seqs
      <3>2. CASE Commit(t)
        <4>1. lastSeq \in 0 .. MaxSeq /\ rows \subseteq 1 .. lastSeq /\ kind \in KindChoices
          BY Zenon, <1>1 DEF DbType
        <4>2. \A x \in t.lo .. t.hi : x \in 1 .. lastSeq
          BY <2>2, <3>1, <4>1
        <4>3. rows' = rows \cup (t.lo .. t.hi) /\ kind' = kind /\ lastSeq' = lastSeq
          BY Zenon, <3>2 DEF Commit
        <4> QED
          BY Zenon, <4>1, <4>2, <4>3 DEF DbType
      <3>3. CASE Rollback(t)
        BY Zenon, <1>1, <3>3 DEF Rollback
      <3> QED
        BY Zenon, <2>1, <3>2, <3>3
    <2>4. CallType'
      BY <1>1, <2>1, <2>2 DEF Commit, Rollback, CallType, Transactions, Notifications
    <2>5. OpenInv'
      BY Zenon, <1>1, <2>1 DEF Commit, Rollback, OpenInv, sendDb
    <2> QED
      BY Zenon, <1>1, <2>1, <2>3, <2>4, <2>5 DEF Commit, Rollback
  <1>7. CASE \E h \in hooks : NotifyPersistedMsgAvailable(h)
    <2>1. PICK h \in hooks : NotifyPersistedMsgAvailable(h)
      BY Zenon, <1>7
    <2>2. h.min \in Seqs /\ floor \in 1 .. NoSeq
      BY Zenon, <1>1 DEF CallType, Notifications, ObjectType
    <2>3. Min({floor, h.min}) \in {floor, h.min}
      BY <2>2 DEF Min, Seqs, NoSeq
    <2>4. ObjectType'
      BY <1>1, <2>1, <2>2, <2>3 DEF NotifyPersistedMsgAvailable, ObjectType, Seqs, NoSeq
    <2>5. CallType' /\ OpenInv'
      BY Zenon, <1>1, <2>1 DEF NotifyPersistedMsgAvailable, CallType, OpenInv, sendDb
    <2> QED
      BY Zenon, <1>1, <2>1, <2>4, <2>5 DEF NotifyPersistedMsgAvailable
  <1>8. CASE QueueFireAndForget
    BY Zenon, <1>1, <1>2, <1>8, PeerType DEF QueueFireAndForget, calls, sendDb
  <1>9. CASE ConnectFails
    <2>1. RestType'
      BY Zenon, <1>3, <1>9, FaultType DEF ConnectFails, RestType
    <2> QED
      BY Zenon, <1>1, <1>2, <1>9, <2>1, PeerType DEF ConnectFails, calls, sendDb
  <1>10. CASE ReapPeer
    <2>1. RestType' /\ ObjectType'
      BY <1>3, <1>10, FaultType DEF ReapPeer, RestType, ObjectType, NoSeq
    <2>2. CallType'
      BY Zenon, <1>1, <1>10 DEF ReapPeer, CallType, Transactions, Notifications
    <2>3. OpenInv'
      BY Zenon, <1>1, <1>10 DEF ReapPeer, OpenInv, sendDb, CallType, Transactions
    <2> QED
      BY Zenon, <1>1, <1>10, <2>1, <2>2, <2>3, Enters DEF ReapPeer
  <1>11. CASE ResendTimer
    BY Zenon, <1>1, <1>2, <1>11, Enters DEF ResendTimer, calls, sendDb
  <1>12. CASE TriggeredScan
    <2>1. ObjectType' /\ SenderType'
      BY Zenon, <1>1, <1>12 DEF TriggeredScan, ObjectType, SenderType
    <2> QED
      BY Zenon, <1>1, <1>2, <1>12, <2>1 DEF TriggeredScan, calls, sendDb
  <1>13. CASE ConsumeFloor
    <2>1. ObjectType'
      BY <1>1, <1>13 DEF ConsumeFloor, ObjectType, NoSeq
    <2>2. CASE floor = NoSeq
      BY Zenon, <1>1, <1>2, <1>13, <2>1, <2>2, Enters DEF ConsumeFloor, calls, sendDb
    <2>3. CASE floor # NoSeq
      <3>1. SenderType'
        BY <1>1, <1>13, <2>3 DEF ConsumeFloor, SenderType, ObjectType, NoSeq
      <3> QED
        BY Zenon, <1>1, <1>2, <1>13, <2>1, <3>1 DEF ConsumeFloor, calls, sendDb
    <2> QED
      BY Zenon, <2>2, <2>3
  <1>14. CASE QueryPage
    <2> DEFINE found == PageOf({x \in Unacked : x > after})
               selected == IF checkNew THEN found ELSE found \cap aged
               unsupported == {x \in selected : kind[x] = "prepared"}
    <2>1. found \in SUBSET Seqs /\ selected \in SUBSET found
      <3>1. \A x \in rows : x \in Seqs
        BY <1>1 DEF DbType, Seqs
      <3> QED
        BY Zenon, <3>1 DEF PageOf, Unacked
    <2>2. after \in 0 .. MaxSeq
      BY Zenon, <1>1 DEF SenderType
    <2>3. /\ acks' = [x \in Seqs |-> IF x \in unsupported THEN "nack" ELSE acks[x]]
          /\ page' = selected \ unsupported
          /\ after' = IF found = {} THEN after ELSE Max(found)
          /\ pc' = "send"
          /\ seen' = (seen \cup selected) \ unsupported
          /\ aged' = aged \ unsupported
          /\ UNCHANGED <<checkNew, sendDb, calls, object, flight, applied, faults>>
      BY Zenon, <1>14 DEF QueryPage
    <2> HIDE DEF found, selected, unsupported
    <2>4. after' \in 0 .. MaxSeq
      BY <2>1, <2>2, <2>3, MinMax DEF Seqs
    <2>5. SenderType'
      BY Zenon, <2>1, <2>3, <2>4 DEF SenderType
    <2>6. AckType'
      BY Zenon, <1>1, <2>3 DEF AckType
    <2>7. RestType'
      BY Zenon, <1>3, <2>1, <2>3 DEF RestType
    <2> QED
      BY Zenon, <1>1, <1>2, <2>3, <2>5, <2>6, <2>7 DEF calls, sendDb
  <1>15. CASE Send
    <2>1. page \in SUBSET Seqs /\ page # {}
      BY Zenon, <1>1, <1>15 DEF SenderType, Send
    <2>2. Min(page) \in Seqs
      BY Zenon, <2>1, MinMax
    <2>3. SenderType' /\ ObjectType' /\ FlightType'
      BY Zenon, <1>1, <1>15, <2>2 DEF Send, SenderType, ObjectType, FlightType
    <2> QED
      BY Zenon, <1>1, <1>2, <1>15, <2>3 DEF Send, calls, sendDb
  <1>16. CASE PageDone
    <2>1. SenderType'
      <3>1. CASE more
        BY Zenon, <1>1, <1>16, <3>1 DEF PageDone, SenderType
      <3>2. CASE ~more
        BY Zenon, <1>16, <3>2, Enters DEF PageDone
      <3> QED
        BY Zenon, <3>1, <3>2
    <2>2. ObjectType'
      BY Zenon, <1>1, <1>16 DEF PageDone, ObjectType
    <2> QED
      BY Zenon, <1>1, <1>2, <1>16, <2>1, <2>2 DEF PageDone, calls, sendDb
  <1>17. CASE QueryFails
    <2>1. RestType'
      BY Zenon, <1>3, <1>17, FaultType DEF QueryFails, RestType
    <2>2. SenderType'
      BY Zenon, <1>1, <1>17, RetryType, Enters DEF QueryFails
    <2> QED
      BY Zenon, <1>1, <1>2, <1>17, <2>1, <2>2 DEF QueryFails, calls, sendDb
  <1>18. CASE SendFails
    <2>1. RestType' /\ ObjectType'
      BY <1>1, <1>3, <1>18, FaultType DEF SendFails, RestType, ObjectType
    <2>2. SenderType'
      BY Zenon, <1>1, <1>18, RetryType, Enters DEF SendFails
    <2> QED
      BY Zenon, <1>1, <1>2, <1>18, <2>1, <2>2 DEF SendFails, calls, sendDb
  <1>19. CASE FireAndForgetFails
    <2>1. RestType' /\ ObjectType'
      BY <1>1, <1>3, <1>19, FaultType DEF FireAndForgetFails, RestType, ObjectType
    <2>2. SenderType'
      BY Zenon, <1>1, <1>19, Enters DEF FireAndForgetFails
    <2> QED
      BY Zenon, <1>1, <1>2, <1>19, <2>1, <2>2 DEF FireAndForgetFails, calls, sendDb
  <1>20. CASE \E x \in Seqs : Age(x)
    <2>1. RestType'
      BY Zenon, <1>3, <1>20 DEF Age, RestType
    <2> QED
      BY Zenon, <1>1, <1>2, <1>20, <2>1 DEF Age, calls, sendDb
  <1>21. CASE Lose
    <2>1. RestType'
      BY Zenon, <1>3, <1>21, FaultType DEF Lose, RestType
    <2>2. FlightType'
      BY Zenon, <1>1, <1>21 DEF Lose, FlightType
    <2> QED
      BY Zenon, <1>1, <1>2, <1>21, <2>1, <2>2 DEF Lose, calls, sendDb
  <1>22. CASE \E B \in Batches : HandleReliableMsgBatch(B) \/ BatchFails(B) \/ RestartReceiver(B)
    <2>1. PICK B \in Batches : HandleReliableMsgBatch(B) \/ BatchFails(B) \/ RestartReceiver(B)
      BY Zenon, <1>22
    <2>2. B \subseteq Seqs /\ Stored(B) \subseteq B
      BY Zenon, <1>1 DEF Batches, FlightType, Stored
    <2>3. CASE HandleReliableMsgBatch(B)
      <3>1. FlightType'
        <4>1. ASSUME NEW x \in B
              PROVE  [of |-> x, ok |-> x \in Stored(B)] \in Answers
          <5> DEFINE ok == x \in Stored(B)
          <5>0. ok \in BOOLEAN
            OBVIOUS
          <5>1. ok \in BOOLEAN /\ x \in Seqs
            BY Zenon, <2>2, <5>0
          <5> HIDE DEF ok
          <5>2. [of |-> x, ok |-> ok] \in Answers
            BY Zenon, <5>1 DEF Answers
          <5> QED
            BY Zenon, <5>2 DEF ok
        <4> QED
          BY Zenon, <1>1, <2>2, <2>3, <4>1 DEF HandleReliableMsgBatch, FlightType
      <3>2. RestType'
        BY Zenon, <1>3, <2>2, <2>3 DEF HandleReliableMsgBatch, RestType
      <3> QED
        BY Zenon, <1>1, <1>2, <2>3, <3>1, <3>2 DEF HandleReliableMsgBatch, calls, sendDb
    <2>4. CASE BatchFails(B) \/ RestartReceiver(B)
      <3>1. FlightType' /\ RestType'
        BY Zenon, <1>1, <1>3, <2>4, FaultType DEF BatchFails, RestartReceiver, FlightType, RestType
      <3> QED
        BY Zenon, <1>1, <1>2, <2>4, <3>1 DEF BatchFails, RestartReceiver, calls, sendDb
    <2> QED
      BY Zenon, <2>1, <2>3, <2>4
  <1>23. CASE \E a \in answers : WriteAck(a)
    <2>1. PICK a \in answers : WriteAck(a)
      BY Zenon, <1>23
    <2>2. a.of \in Seqs
      BY Zenon, <1>1 DEF FlightType, Answers
    <2>3. AckType'
      BY Zenon, <1>1, <2>1, <2>2 DEF WriteAck, AckType
    <2>4. FlightType' /\ RestType'
      BY Zenon, <1>1, <1>3, <2>1 DEF WriteAck, FlightType, RestType
    <2> QED
      BY Zenon, <1>1, <1>2, <2>1, <2>3, <2>4, PeerType DEF WriteAck, calls, sendDb
  <1>24. CASE RestartSender
    <2>1. RestType' /\ ObjectType'
      BY <1>3, <1>24, FaultType DEF RestartSender, RestType, ObjectType, NoSeq
    <2>2. CallType' /\ OpenInv'
      BY Zenon, <1>24 DEF RestartSender, CallType, OpenInv
    <2> QED
      BY Zenon, <1>1, <1>24, <2>1, <2>2, Enters DEF RestartSender
  <1>25. CASE UNCHANGED vars
    BY Zenon, <1>1, <1>2, <1>25 DEF vars, calls, sendDb
  <1> QED
    BY Zenon, <1>5, <1>6, <1>7, <1>8, <1>9, <1>10, <1>11, <1>12, <1>13, <1>14, <1>15, <1>16, <1>17,
       <1>18, <1>19, <1>20, <1>21, <1>22, <1>23, <1>24, <1>25, Zenon DEF Next

-----------------------------------------------------------------------------
(* Acks.                                                                    *)

\* A message is acknowledged only where the receiver has committed it.
LEMMA AckStep ==
    ASSUME TypeOK, AnswersInv, AckedIsApplied, [Next]_vars
    PROVE  AnswersInv' /\ AckedIsApplied'
  <1> USE DEF AnswersInv, AckedIsApplied
  <1>1. CASE \E B \in Batches : HandleReliableMsgBatch(B)
    <2>1. PICK B \in Batches : HandleReliableMsgBatch(B)
      BY Zenon, <1>1
    <2>2. AckedIsApplied'
      BY Zenon, <2>1 DEF HandleReliableMsgBatch
    <2>3. ASSUME NEW a \in answers', a.ok
          PROVE  a.of \in applied'
      <3>1. CASE a \in answers
        BY Zenon, <2>1, <2>3, <3>1 DEF HandleReliableMsgBatch
      <3>2. CASE a \in {[of |-> x, ok |-> x \in Stored(B)] : x \in B}
        <4>1. PICK x \in B : a = [of |-> x, ok |-> x \in Stored(B)]
          BY Zenon, <3>2
        <4> DEFINE stored == x \in Stored(B)
        <4>2. a = [of |-> x, ok |-> stored]
          BY Zenon, <4>1
        <4> HIDE DEF stored
        <4>3. a.of = x /\ stored
          BY Zenon, <2>3, <4>2
        <4>4. x \in Stored(B)
          BY Zenon, <4>3 DEF stored
        <4> QED
          BY Zenon, <2>1, <4>3, <4>4 DEF HandleReliableMsgBatch
      <3> QED
        BY Zenon, <2>1, <3>1, <3>2 DEF HandleReliableMsgBatch
    <2> QED
      BY Zenon, <2>2, <2>3
  <1>2. CASE \E a \in answers : WriteAck(a)
    <2>1. PICK a \in answers : WriteAck(a)
      BY Zenon, <1>2
    <2>2. AnswersInv'
      BY Zenon, <2>1 DEF WriteAck
    <2>3. ASSUME NEW x \in Seqs, acks'[x] = "ack"
          PROVE  x \in applied'
      <3>1. acks'[x] = IF x = a.of /\ x \in rows /\ acks[x] = "none"
                       THEN IF a.ok THEN "ack" ELSE "nack" ELSE acks[x]
        BY Zenon, <2>1 DEF WriteAck, TypeOK
      <3>2. applied' = applied
        BY Zenon, <2>1 DEF WriteAck
      <3> QED
        BY Zenon, <2>3, <3>1, <3>2
    <2> QED
      BY Zenon, <2>2, <2>3
  <1>3. CASE QueryPage
    <2>1. \A x \in Seqs : acks'[x] = "ack" => acks[x] = "ack"
      BY Zenon, <1>3 DEF QueryPage
    <2> QED
      BY Zenon, <1>3, <2>1 DEF QueryPage, flight
  <1>4. CASE Lose
    BY Zenon, <1>4 DEF Lose
  <1>5. CASE UNCHANGED <<answers, acks, applied>>
    BY Zenon, <1>5
  <1>6. \/ \E n \in 1 .. MaxTx : SendReliable(n)
        \/ \E t \in open : Commit(t) \/ Rollback(t)
        \/ \E h \in hooks : NotifyPersistedMsgAvailable(h)
        \/ \E x \in Seqs : Age(x)
        \/ \E B \in Batches : BatchFails(B) \/ RestartReceiver(B)
        \/ QueueFireAndForget \/ ConnectFails \/ ReapPeer \/ RestartSender
        => UNCHANGED <<answers, acks, applied>>
    BY Zenon DEF SendReliable, Commit, Rollback, NotifyPersistedMsgAvailable, Age, BatchFails,
           RestartReceiver, QueueFireAndForget, ConnectFails, ReapPeer, RestartSender, flight
  <1>7. \/ ResendTimer \/ TriggeredScan \/ ConsumeFloor \/ Send \/ PageDone
        \/ QueryFails \/ SendFails \/ FireAndForgetFails \/ UNCHANGED vars
        => UNCHANGED <<answers, acks, applied>>
    BY Zenon DEF ResendTimer, TriggeredScan, ConsumeFloor, Send, PageDone, QueryFails,
           SendFails, FireAndForgetFails, vars, flight
  <1> QED
    BY Zenon, <1>1, <1>2, <1>3, <1>4, <1>5, <1>6, <1>7 DEF Next

-----------------------------------------------------------------------------
(* New messages are noticed.                                                *)

\* What NewIsNoticed says of one message.
Noticed(s) ==
    \/ \E h \in hooks : h.min <= s
    \/ floor <= s /\ (token \/ pc = "consume")
    \/ checkNew /\ s > after /\ (pc = "query" \/ (pc = "send" /\ more))

\* Only a triggered scan takes the floor, after every step.
LEMMA ScanStep ==
    ASSUME ScanInv, [Next]_vars
    PROVE  ScanInv'
  <1> USE DEF ScanInv
  <1>1. EnterScan \/ EnterWait \/ EnterStopped => ScanInv'
    BY Zenon DEF EnterScan, EnterWait, EnterStopped
  <1>2. UNCHANGED sender => ScanInv'
    BY DEF sender
  <1>3. GetPeerForSend \/ RetryScan => ScanInv'
    BY Zenon, <1>1, <1>2 DEF GetPeerForSend, RetryScan
  <1>4. \/ \E n \in 1 .. MaxTx : SendReliable(n)
        \/ \E t \in open : Commit(t) \/ Rollback(t)
        \/ \E h \in hooks : NotifyPersistedMsgAvailable(h)
        \/ \E x \in Seqs : Age(x)
        \/ QueueFireAndForget \/ ConnectFails \/ ReapPeer \/ RestartSender
        => ScanInv'
    BY Zenon, <1>1, <1>2, <1>3 DEF SendReliable, Commit, Rollback, NotifyPersistedMsgAvailable,
       Age, QueueFireAndForget, ConnectFails, ReapPeer, RestartSender
  <1>5. \/ \E B \in Batches : HandleReliableMsgBatch(B) \/ BatchFails(B) \/ RestartReceiver(B)
        \/ \E a \in answers : WriteAck(a)
        \/ Lose \/ UNCHANGED vars
        => ScanInv'
    BY Zenon, <1>2 DEF HandleReliableMsgBatch, BatchFails, RestartReceiver, WriteAck, Lose, vars
  <1>6. ResendTimer \/ TriggeredScan \/ ConsumeFloor \/ QueryPage \/ Send \/ PageDone => ScanInv'
    <2>1. ResendTimer \/ TriggeredScan \/ QueryPage => ScanInv'
      BY Zenon, <1>1 DEF ResendTimer, TriggeredScan, QueryPage
    <2>2. ConsumeFloor => ScanInv'
      BY Zenon, <1>1 DEF ConsumeFloor
    <2>3. Send \/ PageDone => ScanInv'
      BY Zenon, <1>1 DEF Send, PageDone
    <2> QED
      BY Zenon, <2>1, <2>2, <2>3
  <1>7. QueryFails \/ SendFails \/ FireAndForgetFails => ScanInv'
    BY Zenon, <1>1, <1>2, <1>3 DEF QueryFails, SendFails, FireAndForgetFails
  <1> QED
    BY Zenon, <1>4, <1>5, <1>6, <1>7 DEF Next

\* A step after which there has been no fault is none, and there was none before.
LEMMA NoFaultStep ==
    ASSUME faults \in 0 .. MaxFaults, [Next]_vars, faults' = 0
    PROVE  /\ faults = 0
           /\ \/ \E n \in 1 .. MaxTx : SendReliable(n)
              \/ \E t \in open : Commit(t) \/ Rollback(t)
              \/ \E h \in hooks : NotifyPersistedMsgAvailable(h)
              \/ QueueFireAndForget
              \/ ResendTimer \/ TriggeredScan \/ ConsumeFloor \/ QueryPage \/ Send \/ PageDone
              \/ \E x \in Seqs : Age(x)
              \/ \E B \in Batches : HandleReliableMsgBatch(B)
              \/ \E a \in answers : WriteAck(a)
              \/ UNCHANGED vars
  <1>1. \A f : ~Fault(f)
    BY Zenon, FaultType
  <1>2. /\ ~ConnectFails /\ ~ReapPeer /\ ~QueryFails /\ ~SendFails /\ ~FireAndForgetFails
        /\ ~Lose /\ ~RestartSender /\ \A B : ~BatchFails(B) /\ ~RestartReceiver(B)
    BY Zenon, <1>1 DEF ConnectFails, ReapPeer, QueryFails, SendFails, FireAndForgetFails, Lose,
           RestartSender, BatchFails, RestartReceiver
  <1>3. \/ \E n \in 1 .. MaxTx : SendReliable(n)
        \/ \E t \in open : Commit(t) \/ Rollback(t)
        \/ \E h \in hooks : NotifyPersistedMsgAvailable(h)
        \/ QueueFireAndForget
        \/ ResendTimer \/ TriggeredScan \/ ConsumeFloor \/ QueryPage \/ Send \/ PageDone
        \/ \E x \in Seqs : Age(x)
        \/ \E B \in Batches : HandleReliableMsgBatch(B)
        \/ \E a \in answers : WriteAck(a)
        \/ UNCHANGED vars
    BY Zenon, <1>2 DEF Next
  <1>4. faults' = faults
    BY Zenon, <1>3 DEF SendReliable, Commit, Rollback, NotifyPersistedMsgAvailable,
           QueueFireAndForget, ResendTimer, TriggeredScan, ConsumeFloor, QueryPage, Send, PageDone,
           Age, HandleReliableMsgBatch, WriteAck, vars
  <1> QED
    BY Zenon, <1>3, <1>4

\* A committed message is on a page still to come, or a wake-up is pending.
LEMMA NoticeStep ==
    ASSUME IInv, [Next]_vars
    PROVE  PeerInv' /\ NewIsNoticed'
  <1> SUFFICES ASSUME faults' = 0
               PROVE  /\ (\A t \in open : t.current)' /\ (\A h \in hooks : h.current)'
                      /\ (~peer => open = {} /\ hooks = {} /\ rows = {})'
                      /\ \A s \in (Unacked \ seen)' : Noticed(s)'
    BY Zenon DEF PeerInv, NewIsNoticed, Noticed
  <1> DEFINE Goal == /\ (\A t \in open : t.current)' /\ (\A h \in hooks : h.current)'
                     /\ (~peer => open = {} /\ hooks = {} /\ rows = {})'
                     /\ \A s \in (Unacked \ seen)' : Noticed(s)'
  <1> SUFFICES Goal
    BY Zenon
  <1>1. /\ faults = 0
        /\ \/ \E n \in 1 .. MaxTx : SendReliable(n)
           \/ \E t \in open : Commit(t) \/ Rollback(t)
           \/ \E h \in hooks : NotifyPersistedMsgAvailable(h)
           \/ QueueFireAndForget
           \/ ResendTimer \/ TriggeredScan \/ ConsumeFloor \/ QueryPage \/ Send \/ PageDone
           \/ \E x \in Seqs : Age(x)
           \/ \E B \in Batches : HandleReliableMsgBatch(B)
           \/ \E a \in answers : WriteAck(a)
           \/ UNCHANGED vars
    BY Zenon, NoFaultStep DEF IInv, TypeOK
  <1>2. /\ \A t \in open : t.current
        /\ \A h \in hooks : h.current
        /\ ~peer => open = {} /\ hooks = {} /\ rows = {}
        /\ \A s \in Unacked \ seen : Noticed(s)
    BY Zenon, <1>1 DEF IInv, PeerInv, NewIsNoticed, Noticed
  <1>3. /\ floor \in 1 .. NoSeq /\ after \in 0 .. MaxSeq /\ rows \subseteq Seqs
        /\ \A h \in hooks : h.min \in Seqs
        /\ MaxSeq \in Nat
        /\ pc = "consume" => checkNew
    BY BoundsAssumption DEF IInv, TypeOK, ScanInv, Seqs, Notifications
  \* A sender that starts where there was none, or an object that is made.
  <1>4. ConnectPeer => peer' /\ (peer => UNCHANGED object)
    BY Zenon DEF ConnectPeer, object
  <1>5. GetPeerForSend /\ UNCHANGED <<rows, acks, seen, hooks>> => \A s \in (Unacked \ seen)' : Noticed(s)'
    <2> SUFFICES ASSUME GetPeerForSend, UNCHANGED <<rows, acks, seen, hooks>>,
                        NEW s \in Unacked \ seen
                 PROVE  Noticed(s)'
      BY Zenon DEF Unacked
    <2>1. peer /\ Noticed(s) /\ UNCHANGED object
      BY Zenon, <1>2, <1>4 DEF Unacked, GetPeerForSend
    <2>2. CASE pc # "stopped"
      BY Zenon, <2>1, <2>2 DEF GetPeerForSend, Noticed, object, sender
    <2>3. CASE pc = "stopped"
      BY Zenon, <2>1, <2>3 DEF GetPeerForSend, Noticed, object
    <2> QED
      BY Zenon, <2>2, <2>3
  <1>6. CASE \E n \in 1 .. MaxTx : SendReliable(n)
    <2>1. PICK n \in 1 .. MaxTx : SendReliable(n)
      BY Zenon, <1>6
    <2>2. \A s \in (Unacked \ seen)' : Noticed(s)'
      BY Zenon, <1>5, <2>1 DEF SendReliable
    <2>3. peer'
      BY Zenon, <1>4, <2>1 DEF SendReliable, GetPeerForSend
    <2> QED
      BY <1>2, <2>1, <2>2, <2>3 DEF SendReliable
  <1>7. CASE \E t \in open : Commit(t) \/ Rollback(t)
    <2>1. PICK t \in open : Commit(t) \/ Rollback(t)
      BY Zenon, <1>7
    <2>2. peer /\ t.current /\ t.lo \in Seqs /\ t.hi \in Seqs
      BY Zenon, <1>2, <2>1 DEF IInv, TypeOK, Transactions
    <2>3. CASE Rollback(t)
      BY Zenon, <1>2, <2>2, <2>3 DEF Rollback, Noticed, Unacked, object, sender, sendDb
    <2>4. CASE Commit(t)
      <3>1. ASSUME NEW s \in (Unacked \ seen)'
            PROVE  Noticed(s)'
        <4>1. CASE s \in rows
          BY Zenon, <1>2, <2>4, <4>1 DEF Commit, Noticed, Unacked, object, sender
        <4>2. CASE s \in t.lo .. t.hi
          <5>1. [min |-> t.lo, current |-> t.current] \in hooks' /\ t.lo <= s
            BY <2>2, <2>4, <4>2 DEF Commit, Seqs
          <5> QED
            BY Zenon, <5>1 DEF Noticed
        <4> QED
          BY Zenon, <2>4, <4>1, <4>2 DEF Commit, Unacked
      <3> QED
        BY <1>2, <2>2, <2>4, <3>1 DEF Commit, object
    <2> QED
      BY Zenon, <2>1, <2>3, <2>4
  <1>8. CASE \E h \in hooks : NotifyPersistedMsgAvailable(h)
    <2>1. PICK h \in hooks : NotifyPersistedMsgAvailable(h)
      BY Zenon, <1>8
    <2>2. h.current /\ h.min \in Seqs /\ peer
      BY Zenon, <1>2, <1>3
    <2>3. floor' = Min({floor, h.min}) /\ token' = TRUE /\ hooks' = hooks \ {h}
      BY Zenon, <2>1, <2>2 DEF NotifyPersistedMsgAvailable
    <2>4. Min({floor, h.min}) \in Int /\ Min({floor, h.min}) <= floor /\ Min({floor, h.min}) <= h.min
      BY <1>3, <2>2 DEF Min, Seqs, NoSeq
    <2>5. ASSUME NEW s \in Unacked \ seen
          PROVE  Noticed(s)'
      <3>1. Noticed(s) /\ s \in Int
        BY <1>2, <1>3 DEF Unacked, Seqs
      <3>2. CASE h.min <= s \/ floor <= s
        <4>1. floor' <= s
          BY <1>3, <2>2, <2>3, <2>4, <3>1, <3>2 DEF Seqs, NoSeq
        <4> QED
          BY Zenon, <2>3, <4>1 DEF Noticed
      <3>3. CASE ~(h.min <= s) /\ ~(floor <= s)
        <4>1. pc' = pc /\ checkNew' = checkNew /\ after' = after /\ more' = more
          BY Zenon, <2>1 DEF NotifyPersistedMsgAvailable, sender
        <4> QED
          BY Zenon, <2>3, <3>1, <3>3, <4>1 DEF Noticed
      <3> QED
        BY Zenon, <3>2, <3>3
    <2> QED
      BY Zenon, <1>2, <2>1, <2>2, <2>3, <2>5 DEF NotifyPersistedMsgAvailable, Unacked, sendDb
  <1>9. CASE QueueFireAndForget
    BY Zenon, <1>2, <1>4, <1>5, <1>9 DEF QueueFireAndForget, GetPeerForSend, calls, sendDb
  \* From here on the callers and the peer object stay.
  <1>10. ASSUME UNCHANGED <<rows, calls, peer>>
         PROVE  (\A s \in (Unacked \ seen)' : Noticed(s)') => Goal
    BY Zenon, <1>2, <1>10 DEF calls
  <1> HIDE DEF Goal
  <1>11. CASE ResendTimer
    <2>1. \A s \in (Unacked \ seen)' : Noticed(s)'
      BY Zenon, <1>2, <1>11 DEF ResendTimer, EnterScan, Noticed, Unacked, object, calls, sendDb
    <2> QED
      BY Zenon, <1>10, <1>11, <2>1 DEF ResendTimer, object, sendDb
  <1>12. CASE TriggeredScan
    <2>1. \A s \in (Unacked \ seen)' : Noticed(s)'
      BY Zenon, <1>2, <1>12 DEF TriggeredScan, Noticed, Unacked, calls, sendDb
    <2> QED
      BY Zenon, <1>10, <1>12, <2>1 DEF TriggeredScan, sendDb
  <1>13. CASE ConsumeFloor
    <2>1. ASSUME NEW s \in Unacked \ seen
          PROVE  Noticed(s)'
      <3>1. Noticed(s) /\ s \in Seqs /\ checkNew /\ hooks' = hooks
        BY Zenon, <1>2, <1>3, <1>13 DEF Unacked, ConsumeFloor, calls
      <3>2. CASE \E h \in hooks : h.min <= s
        BY Zenon, <3>1, <3>2 DEF Noticed
      <3>3. CASE floor <= s
        <4>1. floor # NoSeq /\ s > floor - 1
          BY <1>3, <3>1, <3>3 DEF Seqs, NoSeq
        <4>2. pc' = "query" /\ after' = floor - 1 /\ checkNew' = checkNew
          BY Zenon, <1>13, <4>1 DEF ConsumeFloor
        <4> QED
          BY Zenon, <3>1, <4>1, <4>2 DEF Noticed
      <3> QED
        BY Zenon, <1>13, <3>1, <3>2, <3>3 DEF Noticed, ConsumeFloor
    <2>2. \A s \in (Unacked \ seen)' : Noticed(s)'
      BY Zenon, <1>13, <2>1 DEF ConsumeFloor, Unacked, sendDb
    <2> QED
      BY Zenon, <1>10, <1>13, <2>2 DEF ConsumeFloor, sendDb
  <1>14. CASE QueryPage
    <2> DEFINE S == {x \in Unacked : x > after}
               found == PageOf(S)
               selected == IF checkNew THEN found ELSE found \cap aged
               unsupported == {x \in selected : kind[x] = "prepared"}
    <2>1. /\ acks' = [x \in Seqs |-> IF x \in unsupported THEN "nack" ELSE acks[x]]
          /\ after' = IF found = {} THEN after ELSE Max(found)
          /\ more' = (Cardinality(found) = PageSize)
          /\ pc = "query" /\ pc' = "send"
          /\ seen' = (seen \cup selected) \ unsupported
          /\ UNCHANGED <<checkNew, sendDb, calls, object>>
      BY Zenon, <1>14 DEF QueryPage
    <2>2. S \in SUBSET Seqs /\ found \subseteq S
      BY Zenon, <1>3 DEF Unacked, PageOf
    <2> HIDE DEF S, found, selected, unsupported
    <2>3. ASSUME NEW s \in (Unacked \ seen)'
          PROVE  Noticed(s)'
      <3>1. s \in Seqs /\ s \in rows /\ s \notin unsupported /\ acks[s] = "none"
        BY Zenon, <1>3, <2>1, <2>3 DEF Unacked, sendDb
      <3>2. s \in Unacked \ seen /\ s \notin selected
        BY Zenon, <2>1, <2>3, <3>1 DEF Unacked
      <3>3. Noticed(s) /\ floor' = floor /\ token' = token /\ hooks' = hooks /\ checkNew' = checkNew
        BY Zenon, <1>2, <2>1, <3>2 DEF object, calls
      <3>4. CASE \E h \in hooks : h.min <= s
        BY Zenon, <3>3, <3>4 DEF Noticed
      <3>5. CASE floor <= s /\ token
        BY Zenon, <3>3, <3>5 DEF Noticed
      <3>6. CASE checkNew /\ s > after
        <4>1. s \in S /\ s \notin found
          BY Zenon, <3>2, <3>6 DEF S, selected
        <4>2. Cardinality(found) = PageSize /\ \A t \in found : t < s
          BY Zenon, <2>2, <4>1, FullPage DEF found
        <4>3. found \in SUBSET Seqs
          BY Zenon, <2>2
        <4>4. after' < s
          BY Zenon, <1>3, <2>1, <3>1, <3>6, <4>2, <4>3, MinMax DEF Seqs
        <4>5. more' = TRUE
          BY Zenon, <2>1, <4>2
        <4>6. s > after'
          BY Zenon, <1>3, <2>1, <3>1, <3>6, <4>2, <4>3, MinMax DEF Seqs
        <4> QED
          BY <2>1, <3>3, <3>6, <4>5, <4>6 DEF Noticed
      <3> QED
        BY Zenon, <2>1, <3>3, <3>4, <3>5, <3>6 DEF Noticed
    <2> QED
      BY Zenon, <1>10, <2>1, <2>3 DEF object, sendDb
  <1>15. CASE Send
    <2>1. \A s \in (Unacked \ seen)' : Noticed(s)'
      BY Zenon, <1>2, <1>15 DEF Send, Noticed, Unacked, calls, sendDb
    <2> QED
      BY Zenon, <1>10, <1>15, <2>1 DEF Send, sendDb
  <1>16. CASE PageDone
    <2>1. CASE more
      <3>1. \A s \in (Unacked \ seen)' : Noticed(s)'
        BY Zenon, <1>2, <1>16, <2>1 DEF PageDone, Noticed, Unacked, calls, sendDb
      <3> QED
        BY Zenon, <1>10, <1>16, <3>1 DEF PageDone, sendDb
    <2>2. CASE ~more
      <3>1. \A s \in (Unacked \ seen)' : Noticed(s)'
        BY Zenon, <1>2, <1>16, <2>2 DEF PageDone, EnterWait, Noticed, Unacked, calls, sendDb
      <3> QED
        BY Zenon, <1>10, <1>16, <3>1 DEF PageDone, sendDb
    <2> QED
      BY Zenon, <2>1, <2>2
  <1>17. CASE \E x \in Seqs : Age(x)
    <2>1. UNCHANGED <<rows, acks, calls, object, sender, seen>>
      BY Zenon, <1>17 DEF Age, sendDb
    <2>2. \A s \in (Unacked \ seen)' : Noticed(s)'
      BY Zenon, <1>2, <2>1 DEF Noticed, Unacked, calls, object, sender
    <2> QED
      BY Zenon, <1>10, <2>1, <2>2 DEF object
  <1>18. CASE \E B \in Batches : HandleReliableMsgBatch(B)
    <2>1. UNCHANGED <<rows, acks, calls, object, sender, seen>>
      BY Zenon, <1>18 DEF HandleReliableMsgBatch, sendDb
    <2>2. \A s \in (Unacked \ seen)' : Noticed(s)'
      BY Zenon, <1>2, <2>1 DEF Noticed, Unacked, calls, object, sender
    <2> QED
      BY Zenon, <1>10, <2>1, <2>2 DEF object
  <1>19. CASE \E a \in answers : WriteAck(a)
    <2>1. PICK a \in answers : WriteAck(a)
      BY Zenon, <1>19
    <2>2. acks \in [Seqs -> {"none", "ack", "nack"}] /\ a.of \in Seqs
      BY Zenon DEF IInv, TypeOK, Answers
    <2>3. ASSUME NEW s \in (Unacked \ seen)'
          PROVE  Noticed(s)' /\ peer
      <3>1. s \in Unacked \ seen /\ s \in rows
        BY Zenon, <1>3, <2>1, <2>2 DEF WriteAck, Unacked, sendDb
      <3>2. Noticed(s) /\ peer
        BY Zenon, <1>2, <3>1
      <3> QED
        BY Zenon, <1>4, <2>1, <3>2 DEF WriteAck, Noticed, calls, object, sender
    <2>4. peer' /\ UNCHANGED calls
      BY Zenon, <1>4, <2>1 DEF WriteAck
    <2> QED
      BY Zenon, <1>2, <2>3, <2>4 DEF Goal, calls
  <1>20. CASE UNCHANGED vars
    <2>1. UNCHANGED <<rows, acks, calls, object, sender, seen>>
      BY Zenon, <1>20 DEF vars, sendDb
    <2>2. \A s \in (Unacked \ seen)' : Noticed(s)'
      BY Zenon, <1>2, <2>1 DEF Noticed, Unacked, calls, object, sender
    <2> QED
      BY Zenon, <1>10, <2>1, <2>2 DEF object
  <1> QED
    BY Zenon, <1>1, <1>6, <1>7, <1>8, <1>9, <1>11, <1>12, <1>13, <1>14, <1>15, <1>16, <1>17, <1>18,
       <1>19, <1>20, Zenon

-----------------------------------------------------------------------------
(* The theorems.                                                            *)

\* The inductive invariant holds in every state of the sender, the peer and the wire.
THEOREM Invariance == Spec => []IInv
  <1>1. IInv /\ [Next]_vars => IInv'
    BY Zenon, TypeStep, AckStep, ScanStep, NoticeStep DEF IInv
  <1> QED
    BY <1>1, InitInv, PTL DEF Spec

\* The type invariant (SendReliable, peer, reliableMessageScan).
THEOREM TypeCorrect == Spec => []TypeOK
  <1>1. IInv => TypeOK
    BY Zenon DEF IInv
  <1> QED
    BY <1>1, Invariance, PTL

\* A message that the sending node has recorded as acknowledged is stored by the
\* receiving node, for any number of messages, batches of any size and any
\* sequence of losses, failures and restarts (handleReliableMsgBatch).
THEOREM NoAckBeforeCommit == Spec => []AckedIsApplied
  <1>1. IInv => AckedIsApplied
    BY Zenon DEF IInv
  <1> QED
    BY <1>1, Invariance, PTL

\* Whatever the order in which transactions commit, their notifications run and
\* scans read their pages, no committed message is left to the resend interval
\* before the first fault (notifyPersistedMsgAvailableFromSeq, reliableMessageScan).
THEOREM NoMissedMessage == Spec => []NewIsNoticed
  <1>1. IInv => NewIsNoticed
    BY Zenon DEF IInv
  <1> QED
    BY <1>1, Invariance, PTL
=============================================================================
