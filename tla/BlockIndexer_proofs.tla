------------------------- MODULE BlockIndexer_proofs -------------------------
(***************************************************************************)
(* Proofs about BlockIndexer and BlockListener, for chains of any height,  *)
(* reorganisations of any depth and number, and any limits and faults.     *)
(***************************************************************************)
EXTENDS BlockIndexer, SequenceTheorems, WellFoundedInduction, TLAPS

-----------------------------------------------------------------------------
(* Chains of blocks.                                                        *)

\* The blocks that may have been in the node's chain when the chain is h.  A
\* reorganisation replaces at most the last MaxDepth blocks, and the chain never
\* gets shorter: what such a block has below its own last MaxDepth blocks is in
\* the chain for good.
Past(h) ==
  {b \in Seq(Int) : /\ Len(b) <= Len(h)
                    /\ \A i \in 1 .. Len(b) - MaxDepth : b[i] = h[i]}
Block == Past(head)

\* k is a chain of blocks that starts at number n: ViewIsLinked for a sequence,
\* and what follows from it along the chain, that each block begins with every
\* earlier one.
Linked(k, n) ==
  /\ \A i \in 1 .. Len(k) :
       /\ Number(k[i]) = n + i - 1
       /\ i > 1 => Parent(k[i]) = k[i - 1]
  /\ \A i, j \in 1 .. Len(k) : i < j => \A m \in 1 .. Len(k[i]) : k[j][m] = k[i][m]

\* A prefix of a sequence, down to the empty one.
LEMMA PrefixProperties ==
  ASSUME NEW S, NEW s \in Seq(S), NEW n \in Int, n <= Len(s)
  PROVE  /\ SubSeq(s, 1, n) \in Seq(S)
         /\ Len(SubSeq(s, 1, n)) = IF n >= 1 THEN n ELSE 0
         /\ \A i \in 1 .. n : SubSeq(s, 1, n)[i] = s[i]
<1>1. \A i \in 1 .. n : s[i] \in S
  OBVIOUS
<1>2. /\ SubSeq(s, 1, n) \in Seq(S)
      /\ Len(SubSeq(s, 1, n)) = IF 1 <= n THEN n - 1 + 1 ELSE 0
      /\ \A i \in 1 .. n - 1 + 1 : SubSeq(s, 1, n)[i] = s[1 + i - 1]
  BY <1>1, SubSeqProperties
<1> QED
  BY <1>2

\* A block is a sequence of choices.
LEMMA BlockType ==
  ASSUME NEW b \in Block
  PROVE  b \in Seq(Int) /\ Len(b) \in Nat
<1>1. b \in Seq(Int)
  BY Zenon DEF Block, Past
<1> QED
  BY <1>1

\* Every prefix of the chain is one of its blocks, the empty one included.
LEMMA PrefixInPast ==
  ASSUME NEW h \in Seq(Int), NEW n \in Int, n <= Len(h)
  PROVE  SubSeq(h, 1, n) \in Past(h)
<1> DEFINE b == SubSeq(h, 1, n)
<1>1. /\ b \in Seq(Int) /\ Len(b) = IF n >= 1 THEN n ELSE 0
      /\ \A i \in 1 .. n : b[i] = h[i]
  BY Zenon, PrefixProperties
<1> HIDE DEF b
<1>2. Len(h) \in Nat /\ MaxDepth \in Nat
  BY ListenerAssumption
<1>3. Len(b) <= Len(h) /\ \A i \in 1 .. Len(b) - MaxDepth : b[i] = h[i]
  BY <1>1, <1>2
<1>4. b \in Past(h)
  BY Zenon, <1>1, <1>3 DEF Past
<1> QED
  BY Zenon, <1>4 DEF b

LEMMA NoneInPast ==
  ASSUME NEW h \in Seq(Int)
  PROVE  None \in Past(h)
<1>1. None \in Seq(Int) /\ Len(None) = 0 /\ Len(h) \in Nat /\ MaxDepth \in Nat
  BY ListenerAssumption DEF None
<1>2. \A i \in 1 .. Len(None) - MaxDepth : FALSE
  BY <1>1
<1> QED
  BY <1>1, <1>2 DEF Past

\* What was a block of the chain remains one when the chain grows or its last
\* MaxDepth blocks are replaced.
LEMMA PastGrows ==
  ASSUME NEW g \in Seq(Int), NEW h \in Seq(Int), Len(g) <= Len(h),
         \A i \in 1 .. Len(g) - MaxDepth : g[i] = h[i]
  PROVE  Past(g) \subseteq Past(h)
<1> SUFFICES ASSUME NEW b \in Past(g) PROVE b \in Past(h)
  BY Zenon
<1>1. /\ b \in Seq(Int) /\ Len(b) <= Len(g)
      /\ \A i \in 1 .. Len(b) - MaxDepth : b[i] = g[i]
  BY Zenon DEF Past
<1>2. Len(b) \in Nat /\ Len(g) \in Nat /\ Len(h) \in Nat /\ MaxDepth \in Nat
  BY <1>1, ListenerAssumption
<1>3. \A i \in 1 .. Len(b) - MaxDepth : b[i] = h[i]
  BY <1>1, <1>2
<1> QED
  BY <1>1, <1>2, <1>3 DEF Past

\* A child of the last block, or a first block with the right number, extends a chain.
LEMMA LinkedAppend ==
  ASSUME NEW k \in Seq(Block), NEW b \in Block, NEW n \in Nat \ {0}, Linked(k, n),
         \/ k = <<>> /\ Number(b) = n
         \/ k # <<>> /\ Parent(b) = Last(k)
  PROVE  Linked(Append(k, b), n)
<1>1. Append(k, b) \in Seq(Block) /\ Len(Append(k, b)) = Len(k) + 1 /\ Append(k, b)[Len(k) + 1] = b
      /\ \A i \in 1 .. Len(k) : Append(k, b)[i] = k[i]
  OBVIOUS
<1>2. CASE k = <<>> /\ Number(b) = n
  BY <1>1, <1>2 DEF Linked
<1>3. CASE k # <<>> /\ Parent(b) = Last(k)
  <2>1. Len(k) \in Nat \ {0} /\ Last(k) = k[Len(k)] /\ Len(k[Len(k)]) = n + Len(k) - 1
    BY <1>3 DEF Last, Linked, Number
  <2>2. /\ Len(Parent(b)) = Len(b) - 1 \/ (Len(b) = 0 /\ Len(Parent(b)) = 0)
        /\ \A i \in 1 .. Len(b) - 1 : Parent(b)[i] = b[i]
    <3> DEFINE m == Len(b) - 1
    <3>1. Parent(b) = SubSeq(b, 1, m) /\ b \in Seq(Int) /\ Len(b) \in Nat
      BY Zenon, BlockType DEF Parent, Front
    <3>2. m \in Int /\ m <= Len(b)
      BY <3>1
    <3> HIDE DEF m
    <3>3. Len(Parent(b)) = (IF m >= 1 THEN m ELSE 0) /\ \A i \in 1 .. m : Parent(b)[i] = b[i]
      BY <3>1, <3>2, PrefixProperties
    <3>4. m = Len(b) - 1
      BY Zenon DEF m
    <3>5. CASE m >= 1
      BY Zenon, <3>2, <3>3, <3>4, <3>5
    <3>6. CASE ~(m >= 1)
      BY <3>1, <3>2, <3>3, <3>4, <3>6
    <3> QED
      BY Zenon, <3>5, <3>6
  <2>3. Len(b) = n + Len(k)
    BY <1>3, <2>1, <2>2, BlockType
  <2>4. \A i \in 1 .. Len(k) : Len(k[i]) = n + i - 1
    BY Zenon DEF Linked, Number
  <2>5. ASSUME NEW i \in 1 .. Len(k), NEW m \in 1 .. Len(k[i])
        PROVE  b[m] = k[i][m]
    <3>1. Len(k[i]) \in Nat /\ m \in 1 .. Len(b) - 1 /\ m \in 1 .. Len(k[Len(k)])
      BY <2>1, <2>3, <2>4
    <3>2. b[m] = k[Len(k)][m]
      BY Zenon, <1>3, <2>1, <2>2, <3>1
    <3>3. CASE i = Len(k)
      BY Zenon, <3>2, <3>3
    <3>4. CASE i < Len(k)
      BY <2>1, <3>2, <3>4 DEF Linked
    <3> QED
      BY <2>1, <3>3, <3>4
  <2>6. \A i \in 1 .. Len(k) + 1 :
          /\ Number(Append(k, b)[i]) = n + i - 1
          /\ i > 1 => Parent(Append(k, b)[i]) = Append(k, b)[i - 1]
    BY <1>1, <1>3, <2>1, <2>3 DEF Linked, Number
  <2>7. ASSUME NEW i \in 1 .. Len(k) + 1, NEW j \in 1 .. Len(k) + 1, i < j,
               NEW m \in 1 .. Len(Append(k, b)[i])
        PROVE  Append(k, b)[j][m] = Append(k, b)[i][m]
    <3>1. i \in 1 .. Len(k) /\ Append(k, b)[i] = k[i]
      BY <1>1, <2>1, <2>7
    <3>2. CASE j = Len(k) + 1
      BY Zenon, <1>1, <2>5, <3>1, <3>2
    <3>3. CASE j \in 1 .. Len(k)
      BY <1>1, <2>7, <3>1, <3>3 DEF Linked
    <3> QED
      BY <2>1, <3>2, <3>3
  <2> QED
    BY <1>1, <2>6, <2>7 DEF Linked
<1> QED
  BY Zenon, <1>2, <1>3

\* Every prefix of a chain is a chain from the same number.
LEMMA LinkedPrefix ==
  ASSUME NEW k \in Seq(Block), NEW n \in Nat \ {0}, Linked(k, n), NEW m \in 0 .. Len(k)
  PROVE  Linked(SubSeq(k, 1, m), n) /\ SubSeq(k, 1, m) \in Seq(Block) /\ Len(SubSeq(k, 1, m)) = m
<1>1. SubSeq(k, 1, m) \in Seq(Block) /\ Len(SubSeq(k, 1, m)) = m
      /\ \A i \in 1 .. m : SubSeq(k, 1, m)[i] = k[i]
  OBVIOUS
<1> DEFINE p == SubSeq(k, 1, m)
<1> HIDE DEF p
<1>2. \A i \in 1 .. m : Number(p[i]) = n + i - 1 /\ (i > 1 => Parent(p[i]) = p[i - 1])
  BY <1>1 DEF Linked, p
<1>3. ASSUME NEW i \in 1 .. m, NEW j \in 1 .. m, i < j, NEW l \in 1 .. Len(p[i])
      PROVE  p[j][l] = p[i][l]
  <2>1. p[i] = k[i] /\ p[j] = k[j] /\ i \in 1 .. Len(k) /\ j \in 1 .. Len(k)
    BY <1>1 DEF p
  <2> QED
    BY <1>3, <2>1 DEF Linked
<1> QED
  BY <1>1, <1>2, <1>3 DEF Linked, p

\* A chain without its first block starts one number later.
LEMMA LinkedTail ==
  ASSUME NEW k \in Seq(Block), k # <<>>, NEW n \in Nat \ {0}, Linked(k, n)
  PROVE  Linked(Tail(k), n + 1)
<1>1. Tail(k) \in Seq(Block) /\ Len(Tail(k)) = Len(k) - 1 /\ Len(k) \in Nat \ {0}
      /\ \A i \in 1 .. Len(k) - 1 : Tail(k)[i] = k[i + 1]
  OBVIOUS
<1> QED
  BY <1>1 DEF Linked, Number

\* A non-empty set of positions has a last one.
LEMMA LastPosition ==
  ASSUME NEW n \in Nat, NEW S \in SUBSET (1 .. n), S # {}
  PROVE  \E i \in S : \A j \in S : j <= i
<1> DEFINE T == {n - i : i \in S}
<1>1. T \subseteq Nat /\ T # {}
  <2>1. \A i \in S : n - i \in Nat
    OBVIOUS
  <2> QED
    BY Zenon, <2>1
<1>2. PICK x \in T : \A y \in T : ~(<<y, x>> \in OpToRel(<, Nat))
  BY Zenon, <1>1, NatLessThanWellFounded, WFMin
<1>3. \A y \in T : ~(y < x)
  BY Zenon, <1>1, <1>2 DEF OpToRel
<1>4. PICK i \in S : x = n - i
  BY Zenon
<1>5. \A j \in S : ~(n - j < n - i)
  BY Zenon, <1>3, <1>4
<1> QED
  BY <1>4, <1>5

-----------------------------------------------------------------------------
(* The listener: what it passes on are blocks, because it only looks at     *)
(* positions of its view that are there.                                    *)

Elements == [block : Block, first : BOOLEAN]
Places == {"poll", "hashes", "notify", "trim", "rebuild"}
Loops == [pc : Places, hashes : Seq(Block), pos : Block, at : Int, parent : Block, from : Int]

ListenerType ==
  /\ head \in Seq(Int) /\ Len(head) <= MaxHeight
  /\ filter \in [on : BOOLEAN, hashes : Seq(Block)]
  /\ chain \in Seq(Elements)
  /\ lis \in Loops
  /\ newBlocks \in Seq(Block) /\ Len(newBlocks) <= CacheLen

\* A block is being reconciled while the view is trimmed and rebuilt, and the
\* position of each is one of the view.
LoopInv ==
  /\ lis.pc \in {"trim", "rebuild"} => lis.hashes # <<>>
  /\ lis.pc = "trim" => chain # <<>> /\ lis.at \in 0 .. Len(chain)
  /\ lis.pc = "rebuild" => lis.from \in 0 .. Len(chain)

\* The types depend on the chain alone, and grow with it.
LEMMA SameListenerTypes ==
  ASSUME head' = head
  PROVE  Block' = Block /\ Elements' = Elements /\ Loops' = Loops
<1>1. Block' = Block
  BY Zenon DEF Block
<1> QED
  BY Zenon, <1>1 DEF Elements, Loops

LEMMA SeqGrows ==
  ASSUME NEW S, NEW T, S \subseteq T
  PROVE  Seq(S) \subseteq Seq(T)
<1> SUFFICES ASSUME NEW s \in Seq(S) PROVE s \in Seq(T)
  BY Zenon
<1>1. Len(s) \in Nat /\ s = [i \in 1 .. Len(s) |-> s[i]] /\ \A i \in 1 .. Len(s) : s[i] \in T
  BY Zenon, LenProperties, ElementOfSeq
<1> QED
  BY <1>1

LEMMA ListenerTypesGrow ==
  ASSUME Block \subseteq Block'
  PROVE  /\ Seq(Block) \subseteq Seq(Block') /\ Seq(Elements) \subseteq Seq(Elements')
         /\ Loops \subseteq Loops'
         /\ [on : BOOLEAN, hashes : Seq(Block)] \subseteq [on : BOOLEAN, hashes : Seq(Block')]
<1>1. Seq(Block) \subseteq Seq(Block')
  BY Zenon, SeqGrows
<1>2. Elements \subseteq Elements'
  BY Zenon DEF Elements
<1>3. Seq(Elements) \subseteq Seq(Elements')
  BY Zenon, <1>2, SeqGrows
<1>4. Loops \subseteq Loops'
  BY Zenon, <1>1 DEF Loops
<1> QED
  BY Zenon, <1>1, <1>3, <1>4

LEMMA ElementType == ASSUME NEW b \in Block PROVE Element(b) \in Elements
  BY Zenon DEF Element, Elements

LEMMA ListeningType ==
  ASSUME head \in Seq(Int), NEW pc \in Places, NEW h \in Seq(Block)
  PROVE  Listening(pc, h) \in Loops /\ Listening(pc, h).pc = pc
<1>1. None \in Block
  BY Zenon, NoneInPast DEF Block
<1> QED
  BY <1>1 DEF Listening, Loops

\* The fields of the loop that its steps change.
LEMMA TrimLoop ==
  ASSUME NEW l \in Loops, NEW m, NEW n \in Int, NEW pc \in Places,
         m = [l EXCEPT !.pc = pc, !.at = n]
  PROVE  m \in Loops /\ m.pc = pc /\ m.at = n /\ m.hashes = l.hashes
  BY Zenon DEF Loops

LEMMA TrimLoopAt ==
  ASSUME NEW l \in Loops, NEW m, NEW n \in Int, m = [l EXCEPT !.at = n]
  PROVE  m \in Loops /\ m.pc = l.pc /\ m.at = n /\ m.hashes = l.hashes
  BY Zenon DEF Loops

LEMMA RebuildLoop ==
  ASSUME NEW l \in Loops, NEW m, NEW n \in Int, NEW b \in Block,
         m = [l EXCEPT !.pc = "rebuild", !.at = n, !.parent = b, !.from = 0]
  PROVE  m \in Loops /\ m.pc = "rebuild" /\ m.from = 0 /\ m.hashes = l.hashes
<1>1. ASSUME NEW pc \in Places, NEW f \in Int
      PROVE  LET k == [l EXCEPT !.pc = pc, !.at = n, !.parent = b, !.from = f]
             IN k \in Loops /\ k.pc = pc /\ k.from = f /\ k.hashes = l.hashes
  BY Zenon DEF Loops
<1>2. "rebuild" \in Places /\ 0 \in Int
  BY DEF Places
<1> QED
  BY Zenon, <1>1, <1>2

LEMMA RebuildLoopAt ==
  ASSUME NEW l \in Loops, NEW m, NEW n \in Int, NEW b \in Block, NEW f \in Int,
         m = [l EXCEPT !.at = n, !.parent = b, !.from = f]
  PROVE  m \in Loops /\ m.pc = l.pc /\ m.from = f /\ m.hashes = l.hashes
  BY Zenon DEF Loops

\* The loop moves on to the next hash.
LEMMA NextHashType ==
  ASSUME ListenerType, lis.hashes # <<>>
  PROVE  NextHash \in Loops /\ NextHash.pc = "hashes"
<1> DEFINE h == Tail(lis.hashes)
<1>1. lis \in Loops /\ h \in Seq(Block)
  BY Zenon, HeadTailProperties DEF ListenerType, Loops
<1>2. NextHash = [lis EXCEPT !.pc = "hashes", !.hashes = h]
  BY Zenon DEF NextHash
<1> HIDE DEF h
<1> QED
  BY Zenon, <1>1, <1>2 DEF Loops, Places

\* The loop marks the element to notify from.
LEMMA NotifyFromType ==
  ASSUME ListenerType, lis.hashes # <<>>,
         NEW c \in Seq(Elements), NEW i \in 0 .. Len(c), NotifyFrom(c, i)
  PROVE  chain' \in Seq(Elements) /\ lis' \in Loops /\ lis'.pc = "hashes"
<1>1. NextHash \in Loops /\ NextHash.pc = "hashes"
  BY Zenon, NextHashType
<1>2. CASE i # 0 /\ (lis.pos = None \/ Number(c[i].block) <= Number(lis.pos))
  <2>1. c[i] \in Elements /\ c[i].block \in Block
    <3>1. c[i] \in Elements
      BY <1>2, ElementOfSeq
    <3> QED
      BY Zenon, <3>1 DEF Elements
  <2>2. chain' = [j \in DOMAIN c |-> [c[j] EXCEPT !.first = (j = i)]]
        /\ lis' = [NextHash EXCEPT !.pos = c[i].block]
    BY Zenon, <1>2 DEF NotifyFrom
  <2>3. ASSUME NEW j \in DOMAIN c
        PROVE  [c[j] EXCEPT !.first = (j = i)] \in Elements
    <3> DEFINE f == (j = i)
    <3>1. c[j] \in Elements /\ f \in BOOLEAN
      BY ElementOfSeq
    <3> HIDE DEF f
    <3>2. [c[j] EXCEPT !.first = f] \in Elements
      BY Zenon, <3>1 DEF Elements
    <3> QED
      BY Zenon, <3>2 DEF f
  <2>4. chain' \in Seq(Elements)
    BY <2>2, <2>3
  <2>5. lis' \in Loops /\ lis'.pc = "hashes"
    BY Zenon, <1>1, <2>1, <2>2 DEF Loops
  <2> QED
    BY <2>4, <2>5
<1>3. CASE ~(i # 0 /\ (lis.pos = None \/ Number(c[i].block) <= Number(lis.pos)))
  BY Zenon, <1>1, <1>3 DEF NotifyFrom
<1> QED
  BY Zenon, <1>2, <1>3

\* A block that follows an element of the view, or starts a new one, is added.
LEMMA AddAfterType ==
  ASSUME ListenerType, lis.hashes # <<>>, NEW b \in Block, NEW i \in 0 .. Len(chain), AddAfter(b, i)
  PROVE  chain' \in Seq(Elements) /\ lis' \in Loops /\ lis'.pc = "hashes"
<1> DEFINE c == Append(SubSeq(chain, 1, i), Element(b))
           lo == IF Len(c) > CacheLen THEN Len(c) - CacheLen + 1 ELSE 1
           d == SubSeq(c, lo, Len(c))
<1>1. SubSeq(chain, 1, i) \in Seq(Elements)
  BY PrefixProperties DEF ListenerType
<1>2. c \in Seq(Elements) /\ Len(c) \in Nat \ {0}
  BY <1>1, ElementType, AppendProperties
<1> HIDE DEF c
<1>3. lo \in Int /\ lo >= 1 /\ \A j \in lo .. Len(c) : c[j] \in Elements
  BY <1>2, ListenerAssumption
<1> HIDE DEF lo
<1>4. d \in Seq(Elements)
  BY <1>2, <1>3, SubSeqProperties
<1>5. NotifyFrom(d, Len(d))
  BY Zenon DEF AddAfter, d, c, lo
<1> HIDE DEF d
<1> QED
  BY <1>4, <1>5, NotifyFromType

\* The place of a block is a position of the view, or 0.
LEMMA PositionType ==
  ASSUME ListenerType, NEW b
  PROVE  Position(b) \in 0 .. Len(chain)
<1> DEFINE below == {i \in DOMAIN chain : Number(chain[i].block) <= Number(b)}
<1>1. Len(chain) \in Nat /\ below \in SUBSET (1 .. Len(chain))
  BY DEF ListenerType
<1>0. Position(b) = IF below = {} THEN 0 ELSE CHOOSE i \in below : \A j \in below : j <= i
  BY Zenon DEF Position
<1> HIDE DEF below
<1>2. CASE below = {}
  BY SMTT(40), <1>0, <1>1, <1>2
<1>3. CASE below # {}
  <2>1. Position(b) = CHOOSE i \in below : \A j \in below : j <= i
    BY Zenon, <1>0, <1>3
  <2>2. \E i \in below : \A j \in below : j <= i
    BY Zenon, <1>1, <1>3, LastPosition
  <2>3. Position(b) \in below
    BY Zenon, <2>1, <2>2
  <2>4. Position(b) \in 1 .. Len(chain)
    BY Zenon, <1>1, <2>3
  <2> QED
    BY <1>1, <2>4
<1> QED
  BY Zenon, <1>2, <1>3

\* The chain only grows, and keeps all but its last MaxDepth blocks.
Growing ==
  /\ head' \in Seq(Int) /\ Len(head) <= Len(head') /\ Len(head') <= MaxHeight
  /\ \A i \in 1 .. Len(head) - MaxDepth : head[i] = head'[i]
  /\ Past(head) \subseteq Past(head')

LEMMA ChainGrows ==
  ASSUME head \in Seq(Int), Len(head) <= MaxHeight, Mine \/ Reorg \/ head' = head
  PROVE  Growing
<1>1. Len(head) \in Nat /\ MaxDepth \in Nat /\ MaxHeight \in Nat
  BY ListenerAssumption
<1>2. SUFFICES /\ head' \in Seq(Int) /\ Len(head) <= Len(head') /\ Len(head') <= MaxHeight
               /\ \A i \in 1 .. Len(head) - MaxDepth : head[i] = head'[i]
  BY Zenon, PastGrows DEF Growing
<1>3. CASE Mine
  <2>1. head' = Append(head, 0) /\ Len(head) < MaxHeight
    BY Zenon, <1>3 DEF Mine, Number
  <2>2. head' \in Seq(Int) /\ Len(head') = Len(head) + 1 /\ \A i \in 1 .. Len(head) : head'[i] = head[i]
    BY <2>1, AppendProperties
  <2> QED
    BY <1>1, <2>1, <2>2
<1>4. CASE Reorg
  <2>1. PICK k \in 1 .. MaxDepth :
          k < Number(head) /\ head' = [head EXCEPT ![Number(head) - k + 1] = 1 - @]
    BY Zenon, <1>4 DEF Reorg
  <2> DEFINE p == Number(head) - k + 1
             x == 1 - head[p]
  <2>2. p \in 1 .. Len(head) /\ p > Len(head) - MaxDepth
    BY <1>1, <2>1 DEF Number
  <2>3. head' = [head EXCEPT ![p] = x]
    BY Zenon, <2>1
  <2>4. x \in Int
    <3>1. head[p] \in Int
      BY Zenon, <2>2, ElementOfSeq
    <3> QED
      BY <3>1
  <2> HIDE DEF p, x
  <2>5. head' \in Seq(Int) /\ Len(head') = Len(head) /\ \A i \in 1 .. Len(head) : i # p => head'[i] = head[i]
    BY <2>2, <2>3, <2>4
  <2> QED
    BY <1>1, <2>2, <2>5
<1>5. CASE head' = head
  BY <1>1, <1>5
<1> QED
  BY <1>3, <1>4, <1>5

\* The filter gets blocks of the new chain.
LEMMA NewHashes ==
  ASSUME head \in Seq(Int), Len(head) <= MaxHeight, Mine \/ Reorg
  PROVE  \E new \in Seq(Block') : filter' = Seen(new)
<1>1. head' \in Seq(Int) /\ Len(head) \in Nat /\ Len(head') \in Nat /\ Len(head) <= Len(head')
  BY ChainGrows DEF Growing
<1>2. ASSUME NEW n \in Int, n <= Len(head')
      PROVE  SubSeq(head', 1, n) \in Block'
  BY Zenon, <1>1, <1>2, PrefixInPast DEF Block
<1>3. CASE Mine
  <2>1. head' = SubSeq(head', 1, Len(head'))
    BY <1>1
  <2>2. head' \in Block'
    <3>1. SubSeq(head', 1, Len(head')) \in Block'
      BY <1>1, <1>2
    <3> QED
      BY Zenon, <2>1, <3>1
  <2>3. <<head'>> \in Seq(Block') /\ filter' = Seen(<<head'>>)
    BY <1>3, <2>2 DEF Mine
  <2> QED
    BY Zenon, <2>3
<1>4. CASE Reorg
  <2>1. PICK k \in 1 .. MaxDepth :
          /\ k < Number(head)
          /\ filter' = Seen([i \in 1 .. k |-> SubSeq(head', 1, Number(head) - k + i)])
    BY Zenon, <1>4 DEF Reorg
  <2>2. k \in Nat
    BY ListenerAssumption
  <2>3. ASSUME NEW i \in 1 .. k
        PROVE  SubSeq(head', 1, Number(head) - k + i) \in Block'
    <3> DEFINE n == Number(head) - k + i
    <3>1. n \in Int /\ n <= Len(head')
      BY <1>1, <2>2 DEF Number
    <3> HIDE DEF n
    <3>2. SubSeq(head', 1, n) \in Block'
      BY Zenon, <1>2, <3>1
    <3> QED
      BY Zenon, <3>2 DEF n
  <2>4. [i \in 1 .. k |-> SubSeq(head', 1, Number(head) - k + i)] \in Seq(Block')
    BY <2>2, <2>3
  <2> QED
    BY Zenon, <2>1, <2>4
<1> QED
  BY Zenon, <1>3, <1>4

\* The steps of the listener and of the node keep the types.
LEMMA ListenerStep ==
  ASSUME ListenerType, LoopInv, Node \/ ListenLoop \/ LookupFails
  PROVE  ListenerType' /\ LoopInv'
<1> USE DEF LoopInv
<1>0. head' = head => Block' = Block /\ Elements' = Elements /\ Loops' = Loops
  BY Zenon, SameListenerTypes
<1>1. /\ head \in Seq(Int) /\ Len(head) <= MaxHeight /\ chain \in Seq(Elements)
      /\ newBlocks \in Seq(Block) /\ Len(newBlocks) <= CacheLen
      /\ lis \in Loops /\ lis.hashes \in Seq(Block) /\ lis.pos \in Block /\ lis.at \in Int
      /\ lis.from \in Int /\ lis.parent \in Block
      /\ filter \in [on : BOOLEAN, hashes : Seq(Block)] /\ filter.hashes \in Seq(Block)
  BY Zenon DEF ListenerType, Loops
<1>2. <<>> \in Seq(Block) /\ Len(chain) \in Nat /\ Len(head) \in Nat
  BY <1>1
<1>4. CASE Mine \/ Reorg
  <2>1. Block \subseteq Block' /\ head' \in Seq(Int) /\ Len(head') <= MaxHeight
    BY Zenon, <1>1, <1>4, ChainGrows DEF Growing, Block
  <2>2. PICK new \in Seq(Block') : filter' = Seen(new)
    BY <1>1, <1>4, NewHashes
  <2>3. filter' \in [on : BOOLEAN, hashes : Seq(Block')]
    <3> DEFINE all == filter.hashes \o new
    <3>1. filter \in [on : BOOLEAN, hashes : Seq(Block')]
      BY <1>1, <2>1, ListenerTypesGrow, Zenon
    <3>2. all \in Seq(Block')
      BY Zenon, <2>2, <3>1, ConcatProperties
    <3>3. filter' = filter \/ filter' = [filter EXCEPT !.hashes = all]
      BY Zenon, <2>2, <3>1 DEF Seen
    <3> HIDE DEF all
    <3> QED
      BY Zenon, <3>1, <3>2, <3>3
  <2>4. UNCHANGED <<chain, lis, newBlocks>>
    BY Zenon, <1>4 DEF Mine, Reorg
  <2>5. chain' \in Seq(Elements') /\ lis' \in Loops' /\ newBlocks' \in Seq(Block')
    BY Zenon, <1>1, <2>1, <2>4, ListenerTypesGrow
  <2>6. LoopInv'
    BY <2>4
  <2> QED
    BY Zenon, <1>1, <2>1, <2>3, <2>4, <2>5, <2>6 DEF ListenerType
<1>6. CASE FilterLost
  BY <1>0, <1>1, <1>2, <1>6 DEF FilterLost, ListenerType
<1>7. CASE NewBlockFilter
  BY Zenon, <1>0, <1>1, <1>7 DEF NewBlockFilter, ListenerType
<1>8. CASE GetFilterChanges
  <2>1. lis' \in Loops /\ lis'.pc = "hashes"
    BY Zenon, <1>1, <1>8, ListeningType DEF GetFilterChanges, Places
  <2> QED
    BY Zenon, <1>0, <1>1, <1>2, <1>8, <2>1 DEF GetFilterChanges, ListenerType
<1>9. CASE BlockGone \/ LookupFails
  <2>1. lis' \in Loops /\ lis'.pc = "hashes"
    BY SMTT(40), <1>9, NextHashType DEF BlockGone, LookupFails
  <2> QED
    BY Zenon, <1>0, <1>1, <1>9, <2>1 DEF BlockGone, LookupFails, ListenerType
<1>10. CASE ReconcileCanonicalChain
  <2> DEFINE b == Head(lis.hashes)
             i == Position(b)
  <2>1. lis.hashes # <<>> /\ b \in Block /\ i \in 0 .. Len(chain)
    BY Zenon, <1>1, <1>10, HeadTailProperties, PositionType DEF ReconcileCanonicalChain
  <2> HIDE DEF b, i
  <2>2. \/ HandleNewBlock(b, 0)
        \/ lis' = NextHash /\ UNCHANGED chain
        \/ i # 0 /\ HandleNewBlock(b, i - 1)
        \/ i # 0 /\ HandleNewBlock(b, i)
    BY ZenonT(60), <1>10 DEF ReconcileCanonicalChain, b, i
  <2>3. UNCHANGED <<head, filter, newBlocks>>
    BY Zenon, <1>10 DEF ReconcileCanonicalChain
  <2>4. ASSUME NEW j \in 0 .. Len(chain), HandleNewBlock(b, j)
        PROVE  chain' \in Seq(Elements) /\ lis' \in Loops /\ LoopInv'
    <3>1. CASE j = 0 \/ chain[j].block = Parent(b)
      <4>1. AddAfter(b, j)
        BY SMTT(40), <2>4, <3>1 DEF HandleNewBlock
      <4> QED
        BY SMTT(40), <2>1, <4>1, AddAfterType
    <3>2. CASE ~(j = 0 \/ chain[j].block = Parent(b))
      <4>1. lis' = [lis EXCEPT !.pc = "trim", !.at = Len(chain)] /\ chain' = chain
        BY Zenon, <2>4, <3>2 DEF HandleNewBlock
      <4>2. lis' \in Loops /\ lis'.pc = "trim" /\ lis'.at = Len(chain) /\ lis'.hashes = lis.hashes
        <5>1. "trim" \in Places /\ Len(chain) \in Int
          BY SMTT(40), <1>2 DEF Places
        <5> QED
          BY <1>1, <4>1, <5>1, TrimLoop, ZenonT(60)
      <4> QED
        BY SMTT(40), <1>1, <1>2, <2>1, <3>2, <4>1, <4>2
    <3> QED
      BY Zenon, <3>1, <3>2
  <2>5. CASE lis' = NextHash /\ UNCHANGED chain
    BY Zenon, <1>0, <1>1, <2>1, <2>3, <2>5, NextHashType DEF ListenerType
  <2>6. CASE HandleNewBlock(b, 0) \/ (i # 0 /\ (HandleNewBlock(b, i - 1) \/ HandleNewBlock(b, i)))
    <3>1. \E j \in 0 .. Len(chain) : HandleNewBlock(b, j)
      BY SMTT(40), <1>2, <2>1, <2>6
    <3> QED
      BY Zenon, <1>0, <1>1, <2>3, <2>4, <3>1 DEF ListenerType
  <2> QED
    BY SMTT(40), <2>2, <2>5, <2>6
<1>11. CASE TrimToLastValidBlock
  <2> DEFINE b == chain[lis.at].block
  <2>1. lis.pc = "trim" /\ lis.at \in 1 .. Len(chain) /\ lis.hashes # <<>> /\ chain # <<>>
    BY <1>11 DEF TrimToLastValidBlock
  <2>2. b \in Block /\ Number(b) \in Nat
    <3>1. chain[lis.at] \in Elements
      BY Zenon, <1>1, <2>1, ElementOfSeq
    <3> QED
      BY Zenon, <3>1, BlockType DEF Elements, Number
  <2>3. UNCHANGED <<head, filter, newBlocks>>
    BY Zenon, <1>11 DEF TrimToLastValidBlock
  <2> HIDE DEF b
  <2>4. CASE Canonical(b)
    <3>1. lis' = [lis EXCEPT !.pc = "rebuild", !.at = Number(b) + 1, !.parent = b, !.from = 0]
          /\ chain' = IF lis.at < Len(chain) THEN RemoveAt(chain, lis.at) ELSE chain
      BY Zenon, <1>11, <2>4 DEF TrimToLastValidBlock, b
    <3>2. lis' \in Loops /\ lis'.pc = "rebuild" /\ lis'.from = 0 /\ lis'.hashes = lis.hashes
      <4>1. "rebuild" \in Places /\ Number(b) + 1 \in Int /\ 0 \in Int
        BY SMTT(40), <2>2 DEF Places
      <4> QED
        <5> HIDE DEF LoopInv
        <5> DEFINE n == Number(b) + 1
        <5>1. lis' = [lis EXCEPT !.pc = "rebuild", !.at = n, !.parent = b, !.from = 0] /\ n \in Int
          BY Zenon, <3>1, <4>1
        <5> HIDE DEF n
        <5> QED
          BY Zenon, <1>1, <2>2, <4>1, <5>1, RebuildLoop
    <3>3. RemoveAt(chain, lis.at) \in Seq(Elements)
      <4>1. SubSeq(chain, 1, lis.at - 1) \in Seq(Elements)
        BY SMTT(40), <1>1, <2>1, PrefixProperties
      <4>2. \A j \in lis.at + 1 .. Len(chain) : chain[j] \in Elements
        BY SMTT(40), <1>1, <2>1, ElementOfSeq
      <4>3. SubSeq(chain, lis.at + 1, Len(chain)) \in Seq(Elements)
        BY SMTT(40), <1>2, <2>1, <4>2, SubSeqProperties
      <4> QED
        BY Zenon, <4>1, <4>3, ConcatProperties DEF RemoveAt
    <3>4. chain' \in Seq(Elements) /\ Len(chain') \in Nat
      BY SMTT(40), <1>1, <3>1, <3>3
    <3> QED
      BY SMTT(40), <1>0, <1>1, <2>1, <2>3, <3>2, <3>4 DEF ListenerType
  <2>5. CASE ~Canonical(b)
    <3>1. lis' = [lis EXCEPT !.at = @ - 1] /\ chain' = chain
      BY Zenon, <1>11, <2>5 DEF TrimToLastValidBlock, b
    <3>2. lis' \in Loops /\ lis'.pc = lis.pc /\ lis'.at = lis.at - 1 /\ lis'.hashes = lis.hashes
      <4>1. lis' = [lis EXCEPT !.at = lis.at - 1] /\ lis.at - 1 \in Int
        BY <1>1, <3>1
      <4>2. "trim" \in Places
        BY Zenon DEF Places
      <4> QED
        BY Zenon, <1>1, <4>1, <4>2, TrimLoopAt
    <3> QED
      BY SMTT(40), <1>0, <1>1, <2>1, <2>3, <3>1, <3>2 DEF ListenerType
  <2> QED
    BY Zenon, <2>4, <2>5
<1>12. CASE ClearChain
  <2>1. lis.pc = "trim" /\ lis.hashes # <<>> /\ chain # <<>>
    BY Zenon, <1>12 DEF ClearChain
  <2>2. Number(chain[1].block) \in Nat
    <3>1. chain[1] \in Elements
      BY <1>1, <2>1, ElementOfSeq
    <3> QED
      BY Zenon, <3>1, BlockType DEF Elements, Number
  <2>3. None \in Block
    BY Zenon, <1>1, NoneInPast DEF Block
  <2>4. lis' = [lis EXCEPT !.pc = "rebuild", !.at = Number(chain[1].block), !.parent = None, !.from = 0]
        /\ chain' = <<>> /\ UNCHANGED <<head, filter, newBlocks>>
    BY Zenon, <1>12 DEF ClearChain
  <2>5. lis' \in Loops /\ lis'.pc = "rebuild" /\ lis'.from = 0 /\ lis'.hashes = lis.hashes
    <3>1. "rebuild" \in Places /\ Number(chain[1].block) \in Int /\ 0 \in Int
      BY SMTT(40), <2>2 DEF Places
    <3> QED
      <4> HIDE DEF LoopInv
      <4> DEFINE n == Number(chain[1].block)
      <4>1. lis' = [lis EXCEPT !.pc = "rebuild", !.at = n, !.parent = None, !.from = 0] /\ n \in Int
        BY Zenon, <2>4, <3>1
      <4> HIDE DEF n
      <4> QED
        BY Zenon, <1>1, <2>3, <3>1, <4>1, RebuildLoop
  <2> QED
    BY <1>0, <1>1, <2>1, <2>4, <2>5 DEF ListenerType
<1>13. CASE RebuildCanonicalChain
  <2> DEFINE b == BlockByNumber(lis.at)
  <2>1. lis.pc = "rebuild" /\ lis.hashes # <<>> /\ lis.from \in 0 .. Len(chain)
        /\ UNCHANGED <<head, filter, newBlocks>>
    BY Zenon, <1>13 DEF RebuildCanonicalChain
  <2>2. CASE lis.at <= Number(head) /\ (lis.parent = None \/ Parent(b) = lis.parent)
    <3>1. b \in Block
      BY <1>1, <2>2, PrefixInPast DEF Block, Number, BlockByNumber
    <3>2. /\ chain' = Append(chain, Element(b))
          /\ lis' = [lis EXCEPT !.at = @ + 1, !.parent = b,
                                !.from = IF @ = 0 THEN Len(chain) + 1 ELSE @]
      BY SMTT(40), <1>13, <2>2 DEF RebuildCanonicalChain
    <3> HIDE DEF b
    <3>3. chain' \in Seq(Elements) /\ Len(chain') = Len(chain) + 1
      BY SMTT(40), <1>1, <3>1, <3>2, ElementType, AppendProperties
    <3>4. /\ lis' \in Loops /\ lis'.pc = lis.pc /\ lis'.hashes = lis.hashes
          /\ lis'.from \in 0 .. Len(chain) + 1
      <4> DEFINE f == IF lis.from = 0 THEN Len(chain) + 1 ELSE lis.from
      <4>1. lis' = [lis EXCEPT !.at = lis.at + 1, !.parent = b, !.from = f]
        BY Zenon, <1>1, <3>2
      <4>2. f \in Int /\ f \in 0 .. Len(chain) + 1 /\ lis.at + 1 \in Int
        BY <1>1, <1>2, <2>1
      <4> HIDE DEF f
      <4>3. "rebuild" \in Places
        BY Zenon DEF Places
      <4> QED
        <5> HIDE DEF LoopInv
        <5> DEFINE n == lis.at + 1
        <5>1. lis' = [lis EXCEPT !.at = n, !.parent = b, !.from = f] /\ n \in Int
          BY Zenon, <4>1, <4>2
        <5> HIDE DEF n
        <5>2. /\ lis' \in Loops /\ lis'.pc = lis.pc /\ lis'.from = f
              /\ lis'.hashes = lis.hashes
          BY Zenon, <1>1, <3>1, <4>2, <5>1, RebuildLoopAt
        <5> QED
          BY Zenon, <4>2, <5>2
    <3> QED
      BY Zenon, <1>0, <1>1, <2>1, <3>3, <3>4 DEF ListenerType
  <2>3. CASE ~(lis.at <= Number(head) /\ (lis.parent = None \/ Parent(b) = lis.parent))
    <3>1. NotifyFrom(chain, lis.from)
      BY Zenon, <1>13, <2>3 DEF RebuildCanonicalChain
    <3>2. chain' \in Seq(Elements) /\ lis' \in Loops /\ lis'.pc = "hashes"
      BY <1>1, <2>1, <3>1, NotifyFromType
    <3> QED
      BY Zenon, <1>0, <1>1, <2>1, <3>2 DEF ListenerType
  <2> QED
    BY Zenon, <2>2, <2>3
<1>14. CASE HashesDone
  <2> DEFINE marked == {i \in DOMAIN chain : chain[i].first}
  <2>1. ToNotify \in Seq(Block)
    <3>1. CASE lis.pos = None
      BY Zenon, <1>2, <3>1 DEF ToNotify
    <3>2. CASE lis.pos # None /\ marked = {}
      BY <1>1, <3>2 DEF ToNotify
    <3>3. CASE lis.pos # None /\ marked # {}
      <4> DEFINE i == CHOOSE i \in marked : TRUE
      <4>1. i \in 1 .. Len(chain)
        BY <1>1, <3>3
      <4>2. ToNotify = [j \in 1 .. (Len(chain) - i + 1) |-> chain[i + j - 1].block]
        BY Zenon, <3>3 DEF ToNotify
      <4> HIDE DEF i
      <4>3. ASSUME NEW j \in 1 .. (Len(chain) - i + 1)
            PROVE  chain[i + j - 1].block \in Block
        <5>1. chain[i + j - 1] \in Elements
          BY SMTT(40), <1>1, <1>2, <4>1, ElementOfSeq
        <5> QED
          BY Zenon, <5>1 DEF Elements
      <4>4. Len(chain) - i + 1 \in Nat
        BY <1>2, <4>1
      <4> QED
        BY <4>2, <4>3, <4>4
    <3> QED
      BY <3>1, <3>2, <3>3
  <2>2. lis' \in Loops /\ lis'.pc = "notify"
    BY Zenon, <1>1, <1>14, <2>1, ListeningType DEF HashesDone, Places
  <2>3. chain' \in Seq(Elements)
    <3>1. \A j \in DOMAIN chain : Element(chain[j].block) \in Elements
      <4>1. \A j \in DOMAIN chain : chain[j] \in Elements
        BY <1>1, ElementOfSeq
      <4>2. \A j \in DOMAIN chain : chain[j].block \in Block
        BY Zenon, <4>1 DEF Elements
      <4> QED
        BY Zenon, <4>2, ElementType
    <3>2. chain' = [j \in DOMAIN chain |-> Element(chain[j].block)] /\ DOMAIN chain = 1 .. Len(chain)
      BY Zenon, <1>1, <1>14, LenProperties DEF HashesDone
    <3> QED
      BY <1>2, <3>1, <3>2
  <2> QED
    BY Zenon, <1>0, <1>1, <1>14, <2>2, <2>3 DEF HashesDone, ListenerType
<1>15. CASE NotifyBlock
  <2>1. Head(lis.hashes) \in Block /\ Tail(lis.hashes) \in Seq(Block) /\ lis.pc = "notify"
    BY <1>1, <1>15, HeadTailProperties DEF NotifyBlock
  <2>2. lis' \in Loops /\ lis'.pc = lis.pc
    BY Zenon, <1>1, <1>15, <2>1 DEF NotifyBlock, Loops
  <2>3. newBlocks' \in Seq(Block)
    BY <1>1, <1>15, <2>1, AppendProperties DEF NotifyBlock
  <2>4. Len(newBlocks') <= CacheLen /\ UNCHANGED <<head, filter, chain>>
    <3>1. Len(newBlocks') = Len(newBlocks) + 1 /\ Len(newBlocks) < CacheLen /\ Len(newBlocks) \in Nat
      BY <1>1, <1>15, <2>1, AppendProperties DEF NotifyBlock
    <3> QED
      BY <1>15, <3>1, ListenerAssumption DEF NotifyBlock
  <2>5. LoopInv'
    BY Zenon, <2>1, <2>2
  <2> QED
    BY Zenon, <1>0, <1>1, <2>2, <2>3, <2>4, <2>5 DEF ListenerType
<1>16. CASE NotifyDone
  <2>1. lis' \in Loops /\ lis'.pc = "poll"
    BY Zenon, <1>1, <1>2, <1>16, ListeningType DEF NotifyDone, Places
  <2> QED
    BY Zenon, <1>0, <1>1, <1>16, <2>1 DEF NotifyDone, ListenerType
<1> QED
  BY <1>4, <1>6, <1>7, <1>8, <1>9, <1>10, <1>11, <1>12, <1>13, <1>14, <1>15, <1>16
     DEF Node, ListenLoop

-----------------------------------------------------------------------------
(* Sequences of blocks that are moved from one list to another.             *)

\* Moving a block between the end of one list and the front of the next keeps the whole.
LEMMA Regroup ==
  ASSUME NEW k \in Seq(Block), NEW h \in Seq(Block)
  PROVE  /\ h # <<>> => Append(k, Head(h)) \o Tail(h) = k \o h
         /\ k # <<>> => Tail(k \o h) = Tail(k) \o h
         /\ SubSeq(k \o h, 1, Len(k)) = k
         /\ \A b \in Block : Append(k \o h, b) = k \o Append(h, b)
<1>0. k \o h \in Seq(Block) /\ Len(k \o h) = Len(k) + Len(h) /\ Len(k) \in Nat /\ Len(h) \in Nat
      /\ \A i \in 1 .. Len(k) + Len(h) : (k \o h)[i] = IF i <= Len(k) THEN k[i] ELSE h[i - Len(k)]
  BY ConcatProperties
<1>1. ASSUME h # <<>>
      PROVE  Append(k, Head(h)) \o Tail(h) = k \o h
  <2>1. Head(h) \in Block /\ Tail(h) \in Seq(Block) /\ <<Head(h)>> \in Seq(Block)
    BY <1>1, HeadTailProperties
  <2>2. Append(k, Head(h)) = k \o <<Head(h)>>
    BY Zenon, <2>1, AppendIsConcat
  <2>3. h = <<Head(h)>> \o Tail(h)
    BY <1>1
  <2> QED
    BY SMTT(40), <2>1, <2>2, <2>3, ConcatAssociative
<1>2. ASSUME k # <<>>
      PROVE  Tail(k \o h) = Tail(k) \o h
  <2> DEFINE s == Tail(k \o h)
             t == Tail(k) \o h
  <2>1. Len(k) > 0 /\ k \o h # <<>>
    BY <1>0, <1>2
  <2>2. s \in Seq(Block) /\ Len(s) = Len(k) + Len(h) - 1
        /\ \A i \in 1 .. Len(k) + Len(h) - 1 : s[i] = (k \o h)[i + 1]
    BY SMTT(40), <1>0, <2>1, HeadTailProperties
  <2>3. Tail(k) \in Seq(Block) /\ Len(Tail(k)) = Len(k) - 1
        /\ \A i \in 1 .. Len(k) - 1 : Tail(k)[i] = k[i + 1]
    BY Zenon, <1>2, HeadTailProperties
  <2>4. t \in Seq(Block) /\ Len(t) = Len(k) - 1 + Len(h)
        /\ \A i \in 1 .. Len(k) - 1 + Len(h) :
             t[i] = IF i <= Len(k) - 1 THEN Tail(k)[i] ELSE h[i - (Len(k) - 1)]
    BY SMTT(40), <2>3, ConcatProperties
  <2> HIDE DEF s, t
  <2>5. ASSUME NEW i \in 1 .. Len(s)
        PROVE  s[i] = t[i]
    <3>1. s[i] = (k \o h)[i + 1] /\ i + 1 \in 1 .. Len(k) + Len(h)
      BY SMTT(40), <1>0, <2>1, <2>2
    <3>2. CASE i <= Len(k) - 1
      BY SMTT(40), <1>0, <2>1, <2>2, <2>3, <2>4, <3>1, <3>2
    <3>3. CASE ~(i <= Len(k) - 1)
      BY <1>0, <2>1, <2>2, <2>4, <3>1, <3>3
    <3> QED
      BY Zenon, <3>2, <3>3
  <2>6. Len(s) = Len(t)
    BY <1>0, <2>2, <2>4
  <2>7. s = t
    BY Zenon, <2>2, <2>4, <2>5, <2>6, SeqEqual
  <2> QED
    BY Zenon, <2>7 DEF s, t
<1>3. SubSeq(k \o h, 1, Len(k)) = k
  <2> DEFINE s == SubSeq(k \o h, 1, Len(k))
  <2>1. s \in Seq(Block) /\ Len(s) = Len(k) /\ \A i \in 1 .. Len(k) : s[i] = (k \o h)[i]
    BY <1>0, PrefixProperties
  <2> HIDE DEF s
  <2>2. \A i \in 1 .. Len(s) : s[i] = k[i]
    BY <1>0, <2>1
  <2>3. s = k
    BY Zenon, <2>1, <2>2, SeqEqual
  <2> QED
    BY Zenon, <2>3 DEF s
<1>4. ASSUME NEW b \in Block
      PROVE  Append(k \o h, b) = k \o Append(h, b)
  <2>1. Append(k \o h, b) = (k \o h) \o <<b>> /\ Append(h, b) = h \o <<b>> /\ <<b>> \in Seq(Block)
    BY <1>0, AppendIsConcat
  <2> QED
    BY <2>1, ConcatAssociative
<1> QED
  BY Zenon, <1>1, <1>2, <1>3, <1>4

-----------------------------------------------------------------------------
(* The dispatcher's record.                                                 *)

Steps == {"read", "query", "attach", "confirm", "flush", "wait"}
Timers == {"none", "armed", "expired"}

Dispatchers ==
  [pc : Steps, found : BOOLEAN, lastFromNotification : BOOLEAN, timedOut : BOOLEAN,
   timer : Timers, number : Nat, fetched : Block, batch : Seq(Block)]

LEMMA SameTypes ==
  ASSUME head' = head
  PROVE  Block' = Block /\ Dispatchers' = Dispatchers
<1>1. Block' = Block
  BY Zenon DEF Block
<1> QED
  BY Zenon, <1>1 DEF Dispatchers

LEMMA DispatchersGrow ==
  ASSUME Block \subseteq Block'
  PROVE  Dispatchers \subseteq Dispatchers'
<1>1. Seq(Block) \subseteq Seq(Block')
  BY Zenon, SeqGrows
<1> QED
  BY Zenon, <1>1 DEF Dispatchers

\* A batch that is full is about to be written.
BatchFits(d) ==
  /\ Len(d.batch) <= CommitBatchSize
  /\ d.pc # "flush" => Len(d.batch) < CommitBatchSize

LEMMA NextIterationType ==
  ASSUME NEW d \in Dispatchers
  PROVE  /\ NextIteration(d) \in Dispatchers /\ NextIteration(d).pc \in {"read", "wait"}
         /\ NextIteration(d).batch = d.batch
<1> DEFINE p == IF d.found THEN "read" ELSE "wait"
           l == d.found /\ d.lastFromNotification
<1>1. p \in Steps /\ p \in {"read", "wait"} /\ l \in BOOLEAN
  BY Zenon DEF Steps
<1>2. NextIteration(d) = [d EXCEPT !.pc = p, !.timedOut = FALSE, !.lastFromNotification = l]
  BY Zenon DEF NextIteration, Dispatchers
<1> HIDE DEF p, l
<1> QED
  BY Zenon, <1>1, <1>2 DEF Dispatchers

LEMMA EndIterationType ==
  ASSUME NEW d \in Dispatchers, Len(d.batch) <= CommitBatchSize
  PROVE  /\ EndIteration(d) \in Dispatchers /\ EndIteration(d).pc \in {"read", "wait", "flush"}
         /\ EndIteration(d).batch = d.batch /\ BatchFits(EndIteration(d))
<1> DEFINE e == [d EXCEPT !.pc = "flush"]
<1>1. e \in Dispatchers /\ e.pc = "flush" /\ e.batch = d.batch
  BY Zenon DEF Dispatchers, Steps
<1>2. \/ EndIteration(d) = e
      \/ /\ EndIteration(d) = NextIteration(d)
         /\ d.batch = <<>> \/ ~(Len(d.batch) >= CommitBatchSize)
  BY Zenon DEF EndIteration
<1>3. Len(d.batch) \in Nat /\ Len(<<>>) = 0
  BY DEF Dispatchers
<1> HIDE DEF e
<1>4. CASE EndIteration(d) = e
  BY Zenon, <1>1, <1>4 DEF BatchFits
<1>5. CASE /\ EndIteration(d) = NextIteration(d)
           /\ d.batch = <<>> \/ ~(Len(d.batch) >= CommitBatchSize)
  <2>1. Len(d.batch) < CommitBatchSize
    BY <1>3, <1>5, IndexerAssumption
  <2> QED
    BY Zenon, <1>5, <2>1, NextIterationType DEF BatchFits
<1> QED
  BY Zenon, <1>2, <1>4, <1>5

-----------------------------------------------------------------------------
(* The inductive invariant.                                                 *)

IndexerType ==
  /\ view \in Seq(Block) /\ newHead \in Seq(Block) /\ indexed \in Seq(Block)
  /\ nextBlock \in Nat \ {0}
  /\ dsp \in Dispatchers

\* What the dispatcher asks the node for while the view is empty is the next
\* block, and what it gets has the number it asked for.
QueryInv ==
  /\ dsp.pc \in {"query", "attach"} => dsp.number >= 1 /\ (view = <<>> => dsp.number = nextBlock)
  /\ dsp.pc = "attach" => Number(dsp.fetched) = dsp.number

\* The index with the open batch has consecutive numbers, up to the checkpoint.
IndexHasNoGaps ==
  /\ \A i \in 1 .. Len(indexed \o dsp.batch) :
       Number((indexed \o dsp.batch)[i]) = FromBlock + i - 1
  /\ nextBlock = FromBlock + Len(indexed \o dsp.batch)

\* A block whose successors to the depth of a reorganisation are in the chain h.
Deep(b, h) == Len(b) + MaxDepth <= Len(h) /\ \A i \in 1 .. Len(b) : b[i] = h[i]

\* As long as the confirmations outlast the reorganisations, what is confirmed
\* is in the chain for good.
Settled ==
  MaxDepth <= RequiredConfirmations =>
    \A i \in 1 .. Len(indexed \o dsp.batch) : Deep((indexed \o dsp.batch)[i], head)

\* The list of notified blocks and the batch are within their limits.
Bounded == Len(newHead) <= NewHeadLimit + 1 /\ BatchFits(dsp)

IInv ==
  /\ ListenerType /\ LoopInv
  /\ IndexerType /\ QueryInv
  /\ Linked(view \o newHead, nextBlock)
  /\ IndexHasNoGaps /\ Settled /\ Bounded

\* What a step of the dispatcher or of the notifications has to show.
Goal ==
  /\ IndexerType' /\ QueryInv' /\ Linked(view \o newHead, nextBlock)'
  /\ IndexHasNoGaps' /\ Settled' /\ Bounded'

LEMMA Idle ==
  ASSUME head \in Seq(Int)
  PROVE  /\ Dispatching \in Dispatchers /\ Dispatching.pc = "read" /\ Dispatching.batch = <<>>
         /\ BatchFits(Dispatching)
<1>1. None \in Block /\ "read" \in Steps /\ "none" \in Timers /\ 0 \in Nat /\ <<>> \in Seq(Block)
  BY NoneInPast DEF Block, Steps, Timers
<1>2. Dispatching \in Dispatchers /\ Dispatching.pc = "read" /\ Dispatching.batch = <<>>
  BY Zenon, <1>1 DEF Dispatching, Dispatchers
<1>3. Len(<<>>) = 0
  BY Zenon
<1> QED
  BY <1>2, <1>3, IndexerAssumption DEF BatchFits

LEMMA LinkedEmpty == ASSUME NEW n PROVE Linked(<<>> \o <<>>, n)
<1>1. <<>> \o <<>> = <<>> /\ Len(<<>>) = 0
  BY Zenon, ConcatEmptySeq, EmptySeq
<1> QED
  BY <1>1 DEF Linked

\* An index that is left alone, with its batch and checkpoint, keeps its numbers.
LEMMA SameIndex ==
  ASSUME IInv, (indexed \o dsp.batch)' = indexed \o dsp.batch, nextBlock' = nextBlock, head' = head
  PROVE  IndexHasNoGaps' /\ Settled'
<1> DEFINE w == indexed \o dsp.batch
<1>1. w' = w
  BY Zenon
<1>2. IndexHasNoGaps'
  BY Zenon DEF IInv, IndexHasNoGaps
<1>3. Settled'
  BY Zenon DEF IInv, Settled
<1> QED
  BY Zenon, <1>2, <1>3

\* The checkpoint read back from the database is the number after the last block written.
LEMMA StartOrResetStep ==
  ASSUME IInv, StartOrReset, head' = head
  PROVE  Goal
<1> DEFINE w == indexed \o dsp.batch
<1>0. head \in Seq(Int) /\ Block' = Block /\ Dispatchers' = Dispatchers
  BY Zenon, SameTypes DEF IInv, ListenerType
<1>1. indexed \in Seq(Block) /\ dsp.batch \in Seq(Block) /\ Len(indexed) \in Nat
  BY DEF IInv, IndexerType, Dispatchers
<1>2. Len(w) = Len(indexed) + Len(dsp.batch) /\ Len(dsp.batch) \in Nat
      /\ \A i \in 1 .. Len(indexed) : w[i] = indexed[i]
  BY <1>1, ConcatProperties
<1>3. \A i \in 1 .. Len(w) : Number(w[i]) = FromBlock + i - 1
  BY Zenon DEF IInv, IndexHasNoGaps
<1>12. MaxDepth <= RequiredConfirmations => \A i \in 1 .. Len(w) : Deep(w[i], head)
  BY Zenon DEF IInv, Settled
<1> HIDE DEF w
<1>4. /\ \A i \in 1 .. Len(indexed) : Number(indexed[i]) = FromBlock + i - 1
      /\ MaxDepth <= RequiredConfirmations => \A i \in 1 .. Len(indexed) : Deep(indexed[i], head)
  BY <1>1, <1>2, <1>3, <1>12
<1>5. nextBlock' = RestoreCheckpoint /\ view' = <<>> /\ newHead' = <<>> /\ dsp' = Dispatching
      /\ indexed' = indexed
  BY Zenon DEF StartOrReset
<1>6. RestoreCheckpoint = FromBlock + Len(indexed)
  <2>1. CASE indexed = <<>>
    BY <2>1, IndexerAssumption DEF RestoreCheckpoint
  <2>2. CASE indexed # <<>>
    <3>1. Len(indexed) \in 1 .. Len(indexed) /\ Last(indexed) = indexed[Len(indexed)]
      BY <1>1, <2>2 DEF Last
    <3>2. Number(Last(indexed)) = FromBlock + Len(indexed) - 1
      BY Zenon, <1>4, <3>1
    <3> QED
      BY <1>1, <2>2, <3>2, IndexerAssumption DEF RestoreCheckpoint
  <2> QED
    BY Zenon, <2>1, <2>2
<1>7. <<>> \in Seq(Block) /\ indexed \o <<>> = indexed /\ Len(<<>>) = 0
  BY <1>1, ConcatEmptySeq
<1>8. IndexerType'
  BY <1>0, <1>1, <1>5, <1>6, <1>7, Idle, IndexerAssumption, SMTT(40) DEF IndexerType
<1>9. QueryInv' /\ Bounded'
  BY <1>0, <1>5, <1>7, Idle, IndexerAssumption DEF QueryInv, Bounded
<1>10. Linked(view \o newHead, nextBlock)'
  BY Zenon, <1>5, LinkedEmpty
<1>11. IndexHasNoGaps' /\ Settled'
  <2>1. (indexed \o dsp.batch)' = indexed
    BY Zenon, <1>0, <1>5, <1>7, Idle
  <2> QED
    BY <1>4, <1>5, <1>6, <2>1 DEF IndexHasNoGaps, Settled
<1> QED
  BY Zenon, <1>8, <1>9, <1>10, <1>11 DEF Goal

\* A block is taken from the notified ones into the view.
LEMMA PopStep ==
  ASSUME IInv, newHead # <<>>, Pop, UNCHANGED <<nextBlock, indexed, head>>, dsp.pc # "flush"
  PROVE  Goal
<1>0. Block' = Block /\ Dispatchers' = Dispatchers
  BY SameTypes
<1>1. Head(newHead) \in Block /\ Tail(newHead) \in Seq(Block) /\ view \in Seq(Block)
      /\ newHead \in Seq(Block)
  BY Zenon, HeadTailProperties DEF IInv, IndexerType
<1>2. dsp' \in Dispatchers /\ dsp'.pc = "confirm" /\ dsp'.batch = dsp.batch
  <2>1. dsp \in Dispatchers /\ dsp' = [dsp EXCEPT !.pc = "confirm", !.lastFromNotification = TRUE]
    BY DEF IInv, IndexerType, Pop
  <2> QED
    BY Zenon, <2>1 DEF Dispatchers, Steps
<1>3. view' \in Seq(Block) /\ newHead' \in Seq(Block)
  BY Zenon, <1>1, AppendProperties DEF Pop
<1>4. (view \o newHead)' = view \o newHead
  BY Zenon, <1>1, Regroup DEF Pop, IInv, IndexerType
<1>5. IndexerType'
  BY <1>0, <1>2, <1>3 DEF IInv, IndexerType
<1>6. QueryInv'
  BY Zenon, <1>2 DEF QueryInv
<1>7. Linked(view \o newHead, nextBlock)'
  BY Zenon, <1>4 DEF IInv
<1>8. IndexHasNoGaps' /\ Settled'
  BY <1>2, SameIndex
<1>9. Bounded'
  <2>1. Len(newHead') = Len(newHead) - 1 /\ Len(newHead) \in Nat
    BY <1>1, HeadTailProperties DEF Pop
  <2>2. Len(newHead) <= NewHeadLimit + 1 /\ BatchFits(dsp)
    BY Zenon DEF IInv, Bounded
  <2>3. BatchFits(dsp')
    BY Zenon, <1>2, <2>2 DEF BatchFits
  <2> QED
    BY <2>1, <2>2, <2>3, IndexerAssumption DEF Bounded
<1> QED
  BY Zenon, <1>5, <1>6, <1>7, <1>8, <1>9 DEF Goal

\* The dispatcher moves on without touching the lists.
LEMMA MoveStep ==
  ASSUME IInv, UNCHANGED <<nextBlock, view, newHead, indexed, head>>,
         dsp' \in Dispatchers, dsp'.batch = dsp.batch, BatchFits(dsp'), QueryInv'
  PROVE  Goal
<1>0. Block' = Block /\ Dispatchers' = Dispatchers
  BY Zenon, SameTypes
<1>1. IndexerType' /\ Linked(view \o newHead, nextBlock)'
  BY Zenon, <1>0 DEF IInv, IndexerType
<1>2. IndexHasNoGaps' /\ Settled'
  BY Zenon, SameIndex
<1>3. Bounded'
  BY Zenon DEF IInv, Bounded
<1> QED
  BY Zenon, <1>1, <1>2, <1>3 DEF Goal

\* The view that replaces the other one when there are no notified blocks.
LEMMA ViewStep ==
  ASSUME IInv, UNCHANGED <<nextBlock, indexed, head>>, newHead' = <<>>,
         view' \in Seq(Block), Linked(view', nextBlock),
         dsp' \in Dispatchers, dsp'.batch = dsp.batch, BatchFits(dsp'), QueryInv'
  PROVE  Goal
<1>0. Block' = Block /\ Dispatchers' = Dispatchers
  BY Zenon, SameTypes
<1>1. (view \o newHead)' = view' /\ <<>> \in Seq(Block) /\ Len(<<>>) = 0
  BY ConcatEmptySeq
<1>2. IndexerType' /\ Linked(view \o newHead, nextBlock)'
  BY Zenon, <1>0, <1>1 DEF IInv, IndexerType
<1>3. IndexHasNoGaps' /\ Settled'
  BY Zenon, SameIndex
<1>4. Bounded'
  BY <1>1, IndexerAssumption DEF Bounded
<1> QED
  BY Zenon, <1>2, <1>3, <1>4 DEF Goal

\* The view alone is linked too.
LEMMA ViewPart ==
  ASSUME IInv
  PROVE  Linked(view, nextBlock) /\ view \in Seq(Block) /\ Len(view) \in Nat
<1>1. view \in Seq(Block) /\ newHead \in Seq(Block) /\ nextBlock \in Nat \ {0}
      /\ Linked(view \o newHead, nextBlock)
  BY Zenon DEF IInv, IndexerType
<1>2. view \o newHead \in Seq(Block) /\ Len(view) \in 0 .. Len(view \o newHead)
  BY <1>1, ConcatProperties
<1>3. Linked(SubSeq(view \o newHead, 1, Len(view)), nextBlock)
  BY Zenon, <1>1, <1>2, LinkedPrefix
<1>4. SubSeq(view \o newHead, 1, Len(view)) = view
  BY Zenon, <1>1, Regroup
<1>5. Linked(view, nextBlock)
  BY Zenon, <1>3, <1>4
<1>6. Len(view) \in Nat
  BY <1>1
<1> QED
  BY Zenon, <1>1, <1>5, <1>6

-----------------------------------------------------------------------------
(* One lemma per action of the indexer.                                     *)

\* A notified block extends the newest one, or replaces the only block of the
\* view with its number; the view never becomes empty here, so that a query
\* under way still asks for the right block.
LEMMA NotificationStep ==
  ASSUME IInv, ProcessBlockNotification
  PROVE  Goal
<1> DEFINE b     == Head(newBlocks)
           heads == IF Len(newHead) > NewHeadLimit THEN <<>> ELSE newHead
           known == view \o heads
           same  == {i \in DOMAIN view : Number(view[i]) = Number(b)}
           i     == CHOOSE i \in same : \A j \in same : i <= j
           kept  == SubSeq(view, 1, i - 1)
           fits  == (known # <<>> /\ Parent(b) = Last(known)) \/ (known = <<>> /\ Number(b) = nextBlock)
<1>1. b \in Block
  BY Zenon, HeadTailProperties DEF ProcessBlockNotification, IInv, ListenerType
<1>2. /\ view \in Seq(Block) /\ newHead \in Seq(Block) /\ nextBlock \in Nat \ {0}
      /\ Linked(view \o newHead, nextBlock) /\ dsp \in Dispatchers /\ QueryInv
  BY DEF IInv, IndexerType
<1>3. nextBlock' = nextBlock /\ dsp' = dsp /\ indexed' = indexed /\ head' = head
  BY Zenon DEF ProcessBlockNotification
<1>0. Block' = Block /\ Dispatchers' = Dispatchers
  BY Zenon, <1>3, SameTypes
<1>11. Len(newHead) <= NewHeadLimit + 1 /\ BatchFits(dsp)
  BY Zenon DEF IInv, Bounded
<1>4. \/ view' = view /\ newHead' = newHead
      \/ fits /\ newHead' = Append(heads, b) /\ view' = view
      \/ newHead' = heads /\ view' = view
      \/ /\ same # {} /\ newHead' = <<>>
         /\ view' = IF i = 1 \/ Parent(b) = Last(kept) THEN Append(kept, b) ELSE kept
  BY Zenon DEF ProcessBlockNotification
<1>12. Len(heads) <= NewHeadLimit
  <2>1. Len(newHead) \in Nat /\ Len(<<>>) = 0 /\ NewHeadLimit \in Nat
    BY <1>2, IndexerAssumption
  <2> QED
    BY <2>1
<1>5. heads \in Seq(Block) /\ known \in Seq(Block) /\ Linked(known, nextBlock)
  <2>1. CASE heads = newHead
    BY Zenon, <1>2, <2>1, ConcatProperties
  <2>2. CASE heads = <<>>
    <3>1. <<>> \in Seq(Block) /\ view \o <<>> = view
      BY <1>2, ConcatEmptySeq
    <3> QED
      BY <1>2, <2>2, <3>1, ViewPart, Zenon
  <2> QED
    BY Zenon, <2>1, <2>2
<1> HIDE DEF heads, b
<1>6. SUFFICES /\ IndexerType' /\ QueryInv' /\ Linked(view \o newHead, nextBlock)'
               /\ Len(newHead') <= NewHeadLimit + 1
  <2>1. IndexHasNoGaps' /\ Settled'
    BY Zenon, <1>3, SameIndex
  <2>2. ASSUME Len(newHead') <= NewHeadLimit + 1
        PROVE  Bounded'
    BY Zenon, <1>3, <1>11, <2>2 DEF Bounded
  <2> QED
    BY Zenon, <2>1, <2>2 DEF Goal
<1>7. CASE view' = view /\ newHead' = newHead
  BY <1>0, <1>2, <1>3, <1>7, <1>11 DEF IInv, IndexerType, QueryInv
<1>8. CASE fits /\ newHead' = Append(heads, b) /\ view' = view
  <2>1. newHead' \in Seq(Block)
    BY Zenon, <1>1, <1>5, <1>8, AppendProperties
  <2>2. Linked(Append(known, b), nextBlock)
    <3> HIDE DEF known
    <3> QED
      BY Zenon, <1>1, <1>2, <1>5, <1>8, LinkedAppend
  <2>3. Append(known, b) = view \o Append(heads, b)
    BY <1>1, <1>2, <1>5, Regroup, Zenon
  <2>4. (view \o newHead)' = Append(known, b)
    BY Zenon, <1>8, <2>3
  <2>5. Len(newHead') <= NewHeadLimit + 1
    <3>1. Len(newHead') = Len(heads) + 1 /\ Len(heads) \in Nat
      BY <1>1, <1>5, <1>8, AppendProperties
    <3> QED
      BY <1>12, <3>1, IndexerAssumption
  <2> QED
    BY Zenon, <1>0, <1>2, <1>3, <1>8, <2>1, <2>2, <2>4, <2>5 DEF IInv, IndexerType, QueryInv
<1>9. CASE newHead' = heads /\ view' = view
  <2>1. Len(newHead') <= NewHeadLimit + 1
    BY <1>5, <1>9, <1>12, IndexerAssumption
  <2> QED
    BY Zenon, <1>0, <1>2, <1>3, <1>5, <1>9, <2>1 DEF IInv, IndexerType, QueryInv
<1>10. CASE /\ same # {} /\ newHead' = <<>>
            /\ view' = IF i = 1 \/ Parent(b) = Last(kept) THEN Append(kept, b) ELSE kept
  <2>1. Linked(view, nextBlock) /\ Len(view) \in Nat
    BY Zenon, ViewPart
  <2>2. \A j \in same : j \in 1 .. Len(view) /\ nextBlock + j - 1 = Number(b)
    BY <1>2, <2>1 DEF Linked
  <2>3. \E j \in same : \A l \in same : j <= l
    <3> HIDE DEF same
    <3>1. PICK j \in same : TRUE
      BY Zenon, <1>10
    <3>2. \A l \in same : j <= l
      BY <1>2, <2>1, <2>2
    <3> QED
      BY Zenon, <3>2
  <2> HIDE DEF same
  <2>4. i \in same
    BY Zenon, <2>3
  <2> HIDE DEF i
  <2>5. i \in 1 .. Len(view) /\ nextBlock + i - 1 = Number(b)
    BY Zenon, <2>2, <2>4
  <2>6. Linked(kept, nextBlock) /\ kept \in Seq(Block) /\ Len(kept) = i - 1
    <3>1. i - 1 \in 0 .. Len(view)
      BY <2>1, <2>5
    <3> QED
      BY <1>2, <2>1, <3>1, LinkedPrefix
  <2> HIDE DEF kept
  <2>7. view' \in Seq(Block) /\ view' # <<>> /\ Linked(view', nextBlock)
    <3>1. CASE i = 1 \/ Parent(b) = Last(kept)
      <4>1. view' = Append(kept, b)
        BY Zenon, <1>10, <3>1
      <4>2. \/ kept = <<>> /\ Number(b) = nextBlock
            \/ kept # <<>> /\ Parent(b) = Last(kept)
        <5>1. CASE i = 1
          BY <1>2, <2>5, <2>6, <5>1
        <5>2. CASE i # 1
          BY <2>1, <2>5, <2>6, <3>1, <5>2
        <5> QED
          BY Zenon, <5>1, <5>2
      <4>3. Linked(Append(kept, b), nextBlock)
        BY Zenon, <1>1, <1>2, <2>6, <4>2, LinkedAppend
      <4> QED
        BY <1>1, <2>6, <4>1, <4>3, AppendProperties
    <3>2. CASE ~(i = 1 \/ Parent(b) = Last(kept))
      BY <1>10, <2>1, <2>5, <2>6, <3>2
    <3> QED
      BY Zenon, <3>1, <3>2
  <2>8. view # <<>>
    BY <1>2, <2>1, <2>5
  <2>9. QueryInv'
    BY Zenon, <1>2, <1>3, <2>7, <2>8 DEF QueryInv
  <2>10. dsp' \in Dispatchers /\ dsp'.batch = dsp.batch
    BY <1>2, <1>3
  <2>11. Goal
    BY <1>3, <1>10, <1>11, <2>7, <2>9, <2>10, ViewStep
  <2> QED
    BY Zenon, <2>11 DEF Goal, Bounded
<1> QED
  BY Zenon, <1>4, <1>7, <1>8, <1>9, <1>10

\* The dispatcher's record after a field or two are set.
LEMMA SetPc ==
  ASSUME NEW d \in Dispatchers, NEW e, NEW pc \in Steps, e = [d EXCEPT !.pc = pc]
  PROVE  e \in Dispatchers /\ e.pc = pc /\ e.batch = d.batch /\ e.number = d.number
         /\ e.fetched = d.fetched
  BY DEF Dispatchers

LEMMA SetFound ==
  ASSUME NEW d \in Dispatchers
  PROVE  LET e == [d EXCEPT !.found = FALSE] IN e \in Dispatchers /\ e.batch = d.batch
  BY Zenon DEF Dispatchers

LEMMA ReadStep ==
  ASSUME IInv, ReadNextBlock
  PROVE  Goal
<1>1. /\ UNCHANGED <<nextBlock, indexed, head>> /\ dsp \in Dispatchers /\ nextBlock \in Nat \ {0}
      /\ dsp.pc = "read" /\ BatchFits(dsp) /\ Len(dsp.batch) <= CommitBatchSize
  BY DEF ReadNextBlock, IInv, IndexerType, Bounded, BatchFits, lvars
<1>2. CASE newHead # <<>> /\ Pop
  BY <1>1, <1>2, PopStep
<1>3. CASE dsp' = EndIteration([dsp EXCEPT !.found = FALSE]) /\ UNCHANGED <<view, newHead>>
  <2>1. /\ dsp' \in Dispatchers /\ dsp'.batch = dsp.batch /\ dsp'.pc \in {"read", "wait", "flush"}
        /\ BatchFits(dsp')
    BY <1>1, <1>3, SetFound, EndIterationType, Zenon
  <2>2. QueryInv'
    BY Zenon, <2>1 DEF QueryInv
  <2> QED
    BY Zenon, <1>1, <1>3, <2>1, <2>2, MoveStep
<1>4. CASE /\ dsp' = [dsp EXCEPT !.pc = "query",
                              !.number = IF view = <<>> THEN nextBlock ELSE Number(Last(view)) + 1]
           /\ UNCHANGED <<view, newHead>>
  <2> DEFINE n == IF view = <<>> THEN nextBlock ELSE Number(Last(view)) + 1
  <2>1. n \in Nat /\ n >= 1 /\ (view = <<>> => n = nextBlock)
    <3>1. CASE view = <<>>
      BY <1>1, <3>1
    <3>2. CASE view # <<>>
      <4>1. view \in Seq(Block) /\ Len(view) \in 1 .. Len(view) /\ Last(view) = view[Len(view)]
        BY <3>2, ViewPart DEF Last
      <4>2. Last(view) \in Block
        BY Zenon, <4>1, ElementOfSeq
      <4> QED
        BY <3>2, <4>2, BlockType DEF Number
    <3> QED
      BY <3>1, <3>2
  <2>2. dsp' = [dsp EXCEPT !.pc = "query", !.number = n]
    BY Zenon, <1>4
  <2> HIDE DEF n
  <2>3. dsp' \in Dispatchers /\ dsp'.batch = dsp.batch /\ dsp'.pc = "query" /\ dsp'.number = n
    BY <1>1, <2>1, <2>2, Zenon DEF Dispatchers, Steps
  <2>4. QueryInv'
    BY Zenon, <1>1, <1>4, <2>1, <2>3 DEF QueryInv
  <2>5. BatchFits(dsp')
    BY Zenon, <1>1, <2>3 DEF BatchFits
  <2> QED
    BY Zenon, <1>1, <1>4, <2>3, <2>4, <2>5, MoveStep
<1> QED
  BY Zenon, <1>2, <1>3, <1>4 DEF ReadNextBlock

LEMMA QueryStep ==
  ASSUME IInv, GetBlockInfoByNumber
  PROVE  Goal
<1>1. /\ UNCHANGED <<nextBlock, view, newHead, indexed, head>> /\ dsp \in Dispatchers
      /\ dsp.pc = "query" /\ BatchFits(dsp) /\ Len(dsp.batch) <= CommitBatchSize
  BY Zenon DEF GetBlockInfoByNumber, IInv, IndexerType, Bounded, BatchFits, lvars
<1>2. CASE dsp.number > Number(head)
  <2>1. dsp' = EndIteration([dsp EXCEPT !.found = FALSE])
    BY <1>2 DEF GetBlockInfoByNumber
  <2>2. /\ dsp' \in Dispatchers /\ dsp'.batch = dsp.batch /\ dsp'.pc \in {"read", "wait", "flush"}
        /\ BatchFits(dsp')
    BY <1>1, <2>1, SetFound, EndIterationType, Zenon
  <2>3. QueryInv'
    BY Zenon, <2>2 DEF QueryInv
  <2> QED
    BY Zenon, <1>1, <2>2, <2>3, MoveStep
<1>3. CASE ~(dsp.number > Number(head))
  <2> DEFINE b == BlockByNumber(dsp.number)
  <2>1. dsp.number \in Nat /\ dsp.number >= 1 /\ (view = <<>> => dsp.number = nextBlock)
    BY <1>1 DEF IInv, QueryInv, Dispatchers
  <2>2. b \in Block /\ Number(b) = dsp.number
    <3>1. head \in Seq(Int) /\ Len(head) \in Nat
      BY DEF IInv, ListenerType
    <3>2. dsp.number \in Int /\ dsp.number <= Len(head)
      BY <1>3, <2>1, <3>1 DEF Number
    <3>3. Len(SubSeq(head, 1, dsp.number)) = dsp.number
      BY Zenon, <2>1, <3>1, <3>2, PrefixProperties
    <3>4. SubSeq(head, 1, dsp.number) \in Past(head)
      BY Zenon, <3>1, <3>2, PrefixInPast
    <3> QED
      BY Zenon, <3>3, <3>4 DEF Number, Block, BlockByNumber
  <2>3. dsp' = [dsp EXCEPT !.pc = "attach", !.fetched = b]
    BY Zenon, <1>3 DEF GetBlockInfoByNumber
  <2> HIDE DEF b
  <2>4. /\ dsp' \in Dispatchers /\ dsp'.batch = dsp.batch /\ dsp'.pc = "attach"
        /\ dsp'.fetched = b /\ dsp'.number = dsp.number
    BY Zenon, <1>1, <2>2, <2>3 DEF Dispatchers, Steps
  <2>5. QueryInv'
    BY <1>1, <2>1, <2>2, <2>4 DEF QueryInv
  <2>6. BatchFits(dsp')
    BY Zenon, <1>1, <2>4 DEF BatchFits
  <2> QED
    BY Zenon, <1>1, <2>4, <2>5, <2>6, MoveStep
<1> QED
  BY <1>2, <1>3

\* The block from the node is checked against the view as it is now.
LEMMA AttachStep ==
  ASSUME IInv, AttachBlock
  PROVE  Goal
<1>1. /\ UNCHANGED <<nextBlock, indexed, head>> /\ dsp \in Dispatchers /\ nextBlock \in Nat \ {0}
      /\ dsp.pc = "attach" /\ BatchFits(dsp)
  BY Zenon DEF AttachBlock, IInv, IndexerType, Bounded, lvars
<1>2. CASE newHead # <<>> /\ Pop
  BY <1>1, <1>2, PopStep
<1>3. CASE /\ newHead = <<>>
           /\ view' = IF view # <<>> /\ Last(view) # Parent(dsp.fetched) THEN Front(view)
                      ELSE Append(view, dsp.fetched)
           /\ dsp' = [dsp EXCEPT !.pc = "confirm"]
           /\ UNCHANGED newHead
  <2>1. dsp' \in Dispatchers /\ dsp'.batch = dsp.batch /\ dsp'.pc = "confirm"
    <3>1. "confirm" \in Steps
      BY Zenon DEF Steps
    <3> QED
      BY <1>1, <1>3, <3>1, SetPc
  <2>2. QueryInv' /\ BatchFits(dsp')
    BY Zenon, <1>1, <2>1 DEF QueryInv, BatchFits
  <2>3. Linked(view, nextBlock) /\ view \in Seq(Block) /\ Len(view) \in Nat
    BY ViewPart
  <2>4. dsp.fetched \in Block /\ (view = <<>> => Number(dsp.fetched) = nextBlock)
    BY Zenon, <1>1 DEF IInv, QueryInv, Dispatchers
  <2>5. view' \in Seq(Block) /\ Linked(view', nextBlock)
    <3>1. CASE view # <<>> /\ Last(view) # Parent(dsp.fetched)
      <4>1. view' = SubSeq(view, 1, Len(view) - 1) /\ Len(view) - 1 \in 0 .. Len(view)
        BY <1>3, <2>3, <3>1 DEF Front
      <4> QED
        BY <1>1, <2>3, <4>1, LinkedPrefix
    <3>2. CASE ~(view # <<>> /\ Last(view) # Parent(dsp.fetched))
      <4>1. view' = Append(view, dsp.fetched)
        BY Zenon, <1>3, <3>2
      <4>2. Linked(Append(view, dsp.fetched), nextBlock)
        BY <1>1, <2>3, <2>4, <3>2, LinkedAppend
      <4>3. Append(view, dsp.fetched) \in Seq(Block)
        BY Zenon, <2>3, <2>4, AppendProperties
      <4> QED
        BY Zenon, <4>1, <4>2, <4>3
    <3> QED
      BY Zenon, <3>1, <3>2
  <2> QED
    BY <1>1, <1>3, <2>1, <2>2, <2>5, ViewStep
<1> QED
  BY Zenon, <1>2, <1>3 DEF AttachBlock

\* The first block of the view joins the batch, and the checkpoint moves with it.
LEMMA ConfirmStep ==
  ASSUME IInv, GetNextConfirmed
  PROVE  Goal
<1> DEFINE d == [dsp EXCEPT !.found = TRUE, !.fetched = None, !.number = 0]
           h == Head(view)
           a == Append(d.batch, h)
           e == [d EXCEPT !.batch = a, !.timer = "armed"]
<1>1. dsp \in Dispatchers /\ nextBlock \in Nat \ {0} /\ newHead \in Seq(Block) /\ indexed \in Seq(Block)
      /\ newHead' = newHead /\ indexed' = indexed /\ head' = head /\ head \in Seq(Int)
      /\ Len(newHead) <= NewHeadLimit + 1 /\ Len(dsp.batch) < CommitBatchSize
      /\ Block' = Block /\ Dispatchers' = Dispatchers
  <2>1. head' = head /\ dsp.pc = "confirm"
    BY Zenon DEF GetNextConfirmed, lvars
  <2> QED
    BY <2>1, SameTypes DEF GetNextConfirmed, IInv, IndexerType, ListenerType, Bounded, BatchFits
<1>2. d \in Dispatchers /\ d.batch = dsp.batch /\ d.batch \in Seq(Block)
      /\ Len(d.batch) <= CommitBatchSize /\ Len(dsp.batch) \in Nat
  <2>1. None \in Block
    BY Zenon, <1>1, NoneInPast DEF Block
  <2> HIDE DEF d
  <2>2. d = [dsp EXCEPT !.found = TRUE, !.fetched = None, !.number = 0]
    BY Zenon DEF d
  <2>3. d \in Dispatchers /\ d.batch = dsp.batch /\ d.batch \in Seq(Block)
    BY <1>1, <2>1, <2>2, Zenon DEF Dispatchers
  <2> QED
    BY <1>1, <2>3, IndexerAssumption
<1>3. \/ /\ Len(view) > RequiredConfirmations
         /\ view' = Tail(view) /\ nextBlock' = Number(h) + 1 /\ dsp' = EndIteration(e)
      \/ dsp' = EndIteration(d) /\ UNCHANGED <<view, nextBlock>>
  BY Zenon, <1>2 DEF GetNextConfirmed, Dispatchers
<1> HIDE DEF d
<1>4. CASE dsp' = EndIteration(d) /\ UNCHANGED <<view, nextBlock>>
  <2>1. /\ dsp' \in Dispatchers /\ dsp'.batch = dsp.batch /\ dsp'.pc \in {"read", "wait", "flush"}
        /\ BatchFits(dsp')
    BY <1>2, <1>4, EndIterationType
  <2>2. QueryInv'
    BY Zenon, <2>1 DEF QueryInv
  <2> QED
    BY Zenon, <1>1, <1>4, <2>1, <2>2, MoveStep
<1>5. CASE /\ Len(view) > RequiredConfirmations
           /\ view' = Tail(view) /\ nextBlock' = Number(h) + 1 /\ dsp' = EndIteration(e)
  <2>1. Linked(view, nextBlock) /\ view \in Seq(Block) /\ Len(view) \in Nat \ {0} /\ view # <<>>
    BY <1>5, ViewPart, IndexerAssumption
  <2>2. h \in Block /\ Tail(view) \in Seq(Block) /\ h = view[1]
    BY <2>1, HeadTailProperties
  <2>3. nextBlock' = nextBlock + 1 /\ Number(h) = nextBlock
    <3>1. 1 \in 1 .. Len(view)
      BY <2>1
    <3>2. Number(view[1]) = nextBlock + 1 - 1
      BY Zenon, <2>1, <3>1 DEF Linked
    <3>3. Number(h) = nextBlock + 1 - 1
      BY Zenon, <2>2, <3>2
    <3> QED
      BY <1>1, <1>5, <3>3
  <2>4. a \in Seq(Block) /\ Len(a) <= CommitBatchSize
    <3>1. a \in Seq(Block) /\ Len(a) = Len(dsp.batch) + 1
      BY <1>2, <2>2, AppendProperties
    <3> QED
      BY <1>1, <1>2, <3>1, IndexerAssumption
  <2>5. e \in Dispatchers /\ e.batch = a
    <3> HIDE DEF a
    <3>1. "armed" \in Timers
      BY Zenon DEF Timers
    <3> QED
      BY Zenon, <1>2, <2>4, <3>1 DEF Dispatchers
  <2> HIDE DEF e
  <2>6. /\ dsp' \in Dispatchers /\ dsp'.batch = a /\ dsp'.pc \in {"read", "wait", "flush"}
        /\ BatchFits(dsp')
    BY Zenon, <1>5, <2>4, <2>5, EndIterationType
  <2> HIDE DEF h, a
  <2>7. IndexerType'
    BY <1>1, <1>5, <2>2, <2>3, <2>6 DEF IndexerType
  <2>8. QueryInv' /\ Bounded'
    BY Zenon, <1>1, <2>6 DEF QueryInv, Bounded
  <2>9. Linked(view \o newHead, nextBlock)'
    <3>1. (view \o newHead)' = Tail(view \o newHead)
      BY Zenon, <1>1, <1>5, <2>1, Regroup
    <3>2. view \o newHead \in Seq(Block) /\ view \o newHead # <<>> /\ Linked(view \o newHead, nextBlock)
      <4>1. view \o newHead \in Seq(Block) /\ Len(view \o newHead) = Len(view) + Len(newHead)
            /\ Len(newHead) \in Nat
        BY <1>1, <2>1, ConcatProperties
      <4> QED
        BY <2>1, <4>1 DEF IInv
    <3>3. Linked(Tail(view \o newHead), nextBlock + 1)
      BY Zenon, <1>1, <3>2, LinkedTail
    <3> QED
      BY Zenon, <2>3, <3>1, <3>3
  <2>11. ASSUME MaxDepth <= RequiredConfirmations
         PROVE  Deep(h, head)
    <3> DEFINE v == view[1 + MaxDepth]
    <3>1. 1 + MaxDepth \in 1 .. Len(view) /\ 1 \in 1 .. Len(view) /\ MaxDepth \in Nat
      BY <1>5, <2>1, <2>11, ListenerAssumption, IndexerAssumption
    <3>2. v \in Block /\ Len(v) = Len(h) + MaxDepth /\ Len(h) \in Nat
      <4>1. v \in Block
        BY <2>1, <3>1, ElementOfSeq
      <4>2. Number(v) = nextBlock + (1 + MaxDepth) - 1
        BY Zenon, <2>1, <3>1 DEF Linked
      <4>3. Len(h) = nextBlock /\ nextBlock \in Nat
        BY Zenon, <1>1, <2>3 DEF Number
      <4> QED
        BY <3>1, <4>1, <4>2, <4>3 DEF Number
    <3>3. \A m \in 1 .. Len(h) : v[m] = h[m]
      <4>1. CASE MaxDepth = 0
        BY <2>2, <4>1
      <4>2. CASE MaxDepth # 0
        <5>1. 1 < 1 + MaxDepth
          BY <3>1, <4>2
        <5>2. \A m \in 1 .. Len(view[1]) : view[1 + MaxDepth][m] = view[1][m]
          BY <2>1, <3>1, <5>1, Zenon DEF Linked
        <5> QED
          BY Zenon, <2>2, <5>2
      <4> QED
        BY <4>1, <4>2
    <3> HIDE DEF v
    <3>4. Len(v) <= Len(head) /\ \A m \in 1 .. Len(v) - MaxDepth : v[m] = head[m]
      BY Zenon, <3>2 DEF Block, Past
    <3>5. Len(v) - MaxDepth = Len(h)
      BY <3>1, <3>2
    <3> QED
      BY Zenon, <3>2, <3>3, <3>4, <3>5 DEF Deep
  <2>10. IndexHasNoGaps' /\ Settled'
    <3> DEFINE w == indexed \o dsp.batch
    <3>1. w \in Seq(Block)
      BY Zenon, <1>1, <1>2, ConcatProperties
    <3>2. (indexed \o dsp.batch)' = Append(w, h)
      <4>1. (indexed \o dsp.batch)' = indexed \o Append(dsp.batch, h)
        BY Zenon, <1>1, <1>2, <2>6 DEF a
      <4>2. Append(indexed \o dsp.batch, h) = indexed \o Append(dsp.batch, h)
        <5>1. dsp.batch \in Seq(Block)
          BY Zenon, <1>2
        <5> QED
          BY <1>1, <2>2, <5>1, Regroup, Zenon
      <4> QED
        BY <4>1, <4>2
    <3>3. nextBlock = FromBlock + Len(w) /\ \A i \in 1 .. Len(w) : Number(w[i]) = FromBlock + i - 1
      BY Zenon DEF IInv, IndexHasNoGaps
    <3>8. MaxDepth <= RequiredConfirmations => \A i \in 1 .. Len(w) : Deep(w[i], head)
      BY DEF IInv, Settled
    <3> HIDE DEF w
    <3>4. Len(Append(w, h)) = Len(w) + 1 /\ Append(w, h)[Len(w) + 1] = h /\ Len(w) \in Nat
          /\ \A i \in 1 .. Len(w) : Append(w, h)[i] = w[i]
      BY <2>2, <3>1, AppendProperties
    <3>5. \A i \in 1 .. Len(w) + 1 : Number(Append(w, h)[i]) = FromBlock + i - 1
      BY <2>3, <3>3, <3>4, IndexerAssumption, SMTT(40)
    <3>6. nextBlock' = FromBlock + Len(Append(w, h))
      BY <2>3, <3>3, <3>4, IndexerAssumption
    <3>7. ASSUME MaxDepth <= RequiredConfirmations, NEW i \in 1 .. Len(w) + 1
          PROVE  Deep(Append(w, h)[i], head)
      <4>1. CASE i \in 1 .. Len(w)
        BY Zenon, <3>4, <3>7, <3>8, <4>1
      <4>2. CASE i = Len(w) + 1
        BY <2>11, <3>4, <3>7, <4>2
      <4> QED
        BY <3>4, <4>1, <4>2
    <3>9. IndexHasNoGaps'
      BY Zenon, <3>2, <3>4, <3>5, <3>6 DEF IndexHasNoGaps
    <3>10. Settled'
      BY <1>1, <3>2, <3>4, <3>7, SMTT(40) DEF Settled
    <3> QED
      BY <3>9, <3>10
  <2> QED
    BY Zenon, <2>7, <2>8, <2>9, <2>10 DEF Goal
<1> QED
  BY Zenon, <1>3, <1>4, <1>5

\* The batch joins the index.
LEMMA WriteStep ==
  ASSUME IInv, WriteBatch
  PROVE  Goal
<1> DEFINE t == IF dsp.timer = "armed" THEN "expired" ELSE dsp.timer
           d == [dsp EXCEPT !.batch = <<>>, !.timer = t]
<1>1. dsp \in Dispatchers /\ dsp.batch \in Seq(Block) /\ indexed \in Seq(Block)
      /\ UNCHANGED <<nextBlock, view, newHead, head>> /\ indexed' = indexed \o dsp.batch
      /\ Len(newHead) <= NewHeadLimit + 1
  BY Zenon DEF WriteBatch, IInv, IndexerType, Dispatchers, Bounded, lvars
<1>0. Block' = Block /\ Dispatchers' = Dispatchers
  BY <1>1, SameTypes
<1>2. d \in Dispatchers /\ d.batch = <<>>
  <2>1. t \in Timers /\ <<>> \in Seq(Block)
    BY <1>1 DEF Dispatchers, Timers
  <2> HIDE DEF t
  <2> QED
    BY Zenon, <1>1, <2>1 DEF Dispatchers
<1>3. dsp' = NextIteration(d)
  BY Zenon, <1>1 DEF WriteBatch, Dispatchers
<1> HIDE DEF d
<1>4. dsp' \in Dispatchers /\ dsp'.batch = <<>> /\ dsp'.pc \in {"read", "wait"}
  BY Zenon, <1>2, <1>3, NextIterationType
<1>5. indexed' \in Seq(Block) /\ (indexed \o dsp.batch)' = indexed \o dsp.batch
  <2>1. indexed \o dsp.batch \in Seq(Block)
    BY Zenon, <1>1, ConcatProperties
  <2>2. (indexed \o dsp.batch)' = (indexed \o dsp.batch) \o <<>>
    BY Zenon, <1>1, <1>4
  <2> QED
    BY Zenon, <1>1, <2>1, <2>2, ConcatEmptySeq
<1>6. IndexerType'
  BY <1>0, <1>1, <1>4, <1>5 DEF IInv, IndexerType
<1>7. QueryInv' /\ Bounded'
  <2>1. Len(<<>>) = 0
    BY Zenon
  <2> QED
    BY <1>1, <1>4, <2>1, IndexerAssumption DEF QueryInv, Bounded, BatchFits
<1>8. Linked(view \o newHead, nextBlock)'
  BY Zenon, <1>1 DEF IInv
<1>9. IndexHasNoGaps' /\ Settled'
  BY <1>1, <1>5, SameIndex
<1> QED
  BY Zenon, <1>6, <1>7, <1>8, <1>9 DEF Goal

LEMMA WaitStep ==
  ASSUME IInv, Wait
  PROVE  Goal
<1>1. /\ dsp \in Dispatchers /\ UNCHANGED <<nextBlock, view, newHead, indexed, head>>
      /\ dsp.pc = "wait" /\ BatchFits(dsp)
  BY Zenon DEF Wait, IInv, IndexerType, Bounded, lvars
<1>2. "read" \in Steps /\ "none" \in Timers
  BY DEF Steps, Timers
<1>3. \/ dsp' = [dsp EXCEPT !.pc = "read"]
      \/ dsp' = [dsp EXCEPT !.pc = "read", !.timedOut = TRUE, !.timer = "none"]
  BY Zenon DEF Wait
<1>4. dsp' \in Dispatchers /\ dsp'.batch = dsp.batch /\ dsp'.pc = "read"
  BY <1>1, <1>2, <1>3, Zenon DEF Dispatchers
<1>5. QueryInv' /\ BatchFits(dsp')
  BY <1>1, <1>4 DEF QueryInv, BatchFits
<1> QED
  BY Zenon, <1>1, <1>4, <1>5, MoveStep

\* The steps of the listener and of the node leave the indexer alone, and what
\* is deep in the chain stays there.
LEMMA OtherStep ==
  ASSUME IInv, UNCHANGED ivars, Mine \/ Reorg \/ head' = head
  PROVE  Goal
<1> DEFINE w == indexed \o dsp.batch
<1>1. UNCHANGED <<nextBlock, view, newHead, dsp, indexed>> /\ w' = w
  BY DEF ivars
<1>2. /\ Len(head) \in Nat /\ Len(head') \in Nat /\ Len(head) <= Len(head')
      /\ \A i \in 1 .. Len(head) - MaxDepth : head[i] = head'[i]
      /\ Block \subseteq Block'
  BY ChainGrows DEF Growing, IInv, ListenerType, Block
<1>3. IndexerType'
  <2>1. Dispatchers \subseteq Dispatchers' /\ Seq(Block) \subseteq Seq(Block')
    BY Zenon, <1>2, DispatchersGrow, SeqGrows
  <2> QED
    BY Zenon, <1>1, <2>1 DEF IInv, IndexerType
<1>4. QueryInv' /\ Linked(view \o newHead, nextBlock)' /\ IndexHasNoGaps' /\ Bounded'
  BY Zenon, <1>1 DEF IInv, QueryInv, IndexHasNoGaps, Bounded
<1>5. Settled'
  <2>1. w \in Seq(Block) /\ (MaxDepth <= RequiredConfirmations => \A i \in 1 .. Len(w) : Deep(w[i], head))
    BY Zenon, ConcatProperties DEF IInv, Settled, IndexerType, Dispatchers
  <2> HIDE DEF w
  <2>2. ASSUME NEW i \in 1 .. Len(w), Deep(w[i], head)
        PROVE  Deep(w[i], head')
    <3>1. w[i] \in Block
      BY Zenon, <2>1, ElementOfSeq
    <3>2. Len(w[i]) \in Nat /\ MaxDepth \in Nat
      BY Zenon, <3>1, BlockType, ListenerAssumption
    <3> QED
      BY <1>2, <2>2, <3>2 DEF Deep
  <2>3. MaxDepth <= RequiredConfirmations => \A i \in 1 .. Len(w) : Deep(w[i], head')
    BY Zenon, <2>1, <2>2
  <2>4. MaxDepth <= RequiredConfirmations => \A i \in 1 .. Len(w') : Deep(w'[i], head')
    BY Zenon, <1>1, <2>3
  <2> QED
    BY Zenon, <2>4 DEF Settled, w
<1> QED
  BY Zenon, <1>3, <1>4, <1>5 DEF Goal

\* The listener's part when only the channel is read, or nothing of it changes.
LEMMA ListenerSame ==
  ASSUME ListenerType, LoopInv, UNCHANGED <<head, filter, chain, lis>>,
         newBlocks' \in Seq(Block), Len(newBlocks') <= CacheLen
  PROVE  ListenerType' /\ LoopInv'
  BY SameListenerTypes DEF ListenerType, LoopInv

LEMMA ListenerRestartStep ==
  ASSUME ListenerType, ListenerRestarts
  PROVE  ListenerType' /\ LoopInv'
<1>0. head' = head /\ Block' = Block /\ Elements' = Elements /\ Loops' = Loops
  BY Zenon, SameListenerTypes DEF ListenerRestarts
<1>1. "poll" \in Places /\ <<>> \in Seq(Block) /\ <<>> \in Seq(Elements) /\ Len(<<>>) <= CacheLen
  BY ListenerAssumption DEF Places
<1>2. lis' \in Loops /\ lis'.pc = "poll"
  BY <1>1, ListeningType, Zenon DEF ListenerRestarts, ListenerType
<1> QED
  BY Zenon, <1>0, <1>1, <1>2 DEF ListenerRestarts, ListenerType, LoopInv

\* The inductive invariant holds initially.
LEMMA InitInv == Init => IInv
<1> SUFFICES ASSUME Init PROVE IInv
  BY Zenon
<1>1. /\ "poll" \in Places /\ <<>> \in Seq(Block) /\ <<>> \in Seq(Elements)
      /\ head \in Seq(Int) /\ Len(head) = 1 /\ Len(<<>>) = 0
  BY DEF Places, Init, LInit
<1>2. lis \in Loops /\ lis.pc = "poll"
  BY <1>1, ListeningType, Zenon DEF Init, LInit
<1>3. ListenerType /\ LoopInv
  BY <1>1, <1>2, ListenerAssumption DEF Init, LInit, ListenerType, LoopInv
<1>4. IndexerType /\ QueryInv /\ Bounded
  BY <1>1, Idle, IndexerAssumption DEF Init, IndexerType, QueryInv, Bounded
<1>5. Linked(view \o newHead, nextBlock)
  BY Zenon, LinkedEmpty DEF Init
<1>6. IndexHasNoGaps /\ Settled
  <2>1. indexed \o dsp.batch = <<>> /\ Len(<<>>) = 0
    BY Zenon, <1>1, Idle, ConcatEmptySeq, EmptySeq DEF Init
  <2> QED
    BY <2>1, IndexerAssumption DEF Init, IndexHasNoGaps, Settled
<1> QED
  BY Zenon, <1>3, <1>4, <1>5, <1>6 DEF IInv

\* Every step keeps the inductive invariant.
LEMMA NextInv == IInv /\ [Next]_vars => IInv'
<1> SUFFICES ASSUME IInv, [Next]_vars PROVE IInv'
  BY Zenon
<1>1. ListenerType /\ LoopInv /\ newBlocks \in Seq(Block) /\ Len(newBlocks) <= CacheLen
  BY Zenon DEF IInv, ListenerType
<1>2. SUFFICES ListenerType' /\ LoopInv' /\ Goal
  BY Zenon DEF IInv, Goal
<1>3. CASE (Node \/ ListenLoop \/ LookupFails) /\ UNCHANGED ivars
  <2>1. Mine \/ Reorg \/ head' = head
    BY Zenon, <1>3 DEF Node, FilterLost, ListenLoop, LookupFails, NewBlockFilter, GetFilterChanges, BlockGone,
                ReconcileCanonicalChain, TrimToLastValidBlock, ClearChain, RebuildCanonicalChain,
                HashesDone, NotifyBlock, NotifyDone
  <2> QED
    BY <1>1, <1>3, <2>1, ListenerStep, OtherStep
<1>4. CASE ProcessBlockNotification
  <2>1. newBlocks' \in Seq(Block) /\ Len(newBlocks') <= CacheLen
    <3>1. newBlocks' \in Seq(Block) /\ Len(newBlocks') = Len(newBlocks) - 1 /\ Len(newBlocks) \in Nat
      BY <1>1, <1>4, HeadTailProperties DEF ProcessBlockNotification
    <3> QED
      BY <1>1, <3>1, ListenerAssumption
  <2>2. ListenerType' /\ LoopInv'
    BY Zenon, <1>1, <1>4, <2>1, ListenerSame DEF ProcessBlockNotification
  <2> QED
    BY Zenon, <1>4, <2>2, NotificationStep
<1>5. CASE Dispatcher
  <2>1. Goal
    BY <1>5, ReadStep, QueryStep, AttachStep, ConfirmStep, WriteStep, WaitStep, SMTT(40) DEF Dispatcher
  <2>2. UNCHANGED <<head, filter, chain, lis, newBlocks>>
    BY Zenon, <1>5 DEF Dispatcher, ReadNextBlock, GetBlockInfoByNumber, AttachBlock, GetNextConfirmed,
                WriteBatch, Wait, lvars
  <2> QED
    BY Zenon, <1>1, <2>1, <2>2, ListenerSame
<1>6. CASE ReceiptsInvalid
  <2>1. Goal
    BY Zenon, <1>6, StartOrResetStep DEF ReceiptsInvalid
  <2> QED
    BY <1>1, <1>6, <2>1, ListenerSame DEF ReceiptsInvalid
<1>7. CASE Crash
  <2>1. Goal
    BY <1>7, StartOrResetStep DEF Crash, ListenerRestarts
  <2> QED
    BY Zenon, <1>1, <1>7, <2>1, ListenerRestartStep DEF Crash
<1>8. CASE UNCHANGED vars
  <2>1. UNCHANGED ivars /\ UNCHANGED <<head, filter, chain, lis, newBlocks>>
    BY Zenon, <1>8 DEF vars, lvars
  <2> QED
    BY <1>1, <2>1, OtherStep, ListenerSame
<1> QED
  BY Zenon, <1>3, <1>4, <1>5, <1>6, <1>7, <1>8 DEF Next

-----------------------------------------------------------------------------
\* The inductive invariant holds in every state of the indexer.
THEOREM Invariance == Spec => []IInv
  BY InitInv, NextInv, PTL DEF Spec

\* The blocks after the checkpoint, with those notified since, form a chain
\* that starts at the next block to index, whatever the processor of the
\* notifications does while the dispatcher queries the node, and after any
\* reset and restart (processBlockNotification, readNextBlock).
THEOREM LinkedView == Spec => []ViewIsLinked
<1>1. IInv => ViewIsLinked
  <2> SUFFICES ASSUME IInv PROVE ViewIsLinked
    OBVIOUS
  <2> DEFINE known == view \o newHead
  <2>1. known \in Seq(Block) /\ Linked(known, nextBlock)
    BY Zenon, ConcatProperties DEF IInv, IndexerType
  <2>2. DOMAIN known = 1 .. Len(known)
    BY Zenon, <2>1, LenProperties
  <2> HIDE DEF known
  <2>3. \A i \in DOMAIN known :
          /\ Number(known[i]) = nextBlock + i - 1
          /\ i > 1 => Parent(known[i]) = known[i - 1]
    BY <2>1, <2>2 DEF Linked
  <2> QED
    BY Zenon, <2>3 DEF ViewIsLinked, known
<1> QED
  BY <1>1, Invariance, PTL

\* The database, with the batch being collected, holds the blocks from the
\* first one on without gaps and duplicates, and the next block to confirm is
\* the one after them, for reorganisations of any depth, resets that throw a
\* batch away and restarts (getNextConfirmed, writeBatch, restoreCheckpoint).
THEOREM NoGaps == Spec => []IndexHasNoGaps
<1>1. IInv => IndexHasNoGaps
  BY Zenon DEF IInv
<1> QED
  BY <1>1, Invariance, PTL

\* The lists between the goroutines are within their limits, the batch within
\* its size, and the checkpoint within the chain, or where it started.
THEOREM TypeCorrect == Spec => []TypeOK
<1>1. IInv => TypeOK
  <2> SUFFICES ASSUME IInv PROVE TypeOK
    BY Zenon
  <2> DEFINE w == indexed \o dsp.batch
  <2>1. /\ Len(newBlocks) <= CacheLen /\ Len(newHead) <= NewHeadLimit + 1
        /\ Len(dsp.batch) <= CommitBatchSize /\ dsp.pc \in Steps /\ dsp.timer \in Timers
    BY DEF IInv, ListenerType, IndexerType, Bounded, BatchFits, Dispatchers
  <2>2. w \in Seq(Block) /\ nextBlock = FromBlock + Len(w)
        /\ \A i \in 1 .. Len(w) : Number(w[i]) = FromBlock + i - 1
    BY ConcatProperties DEF IInv, IndexerType, Dispatchers, IndexHasNoGaps
  <2> HIDE DEF w
  <2>3. Len(w) \in Nat /\ FromBlock \in Nat /\ MaxHeight \in Nat
    BY <2>2, ListenerAssumption, IndexerAssumption
  <2>4. nextBlock \in FromBlock .. Larger(FromBlock, MaxHeight + 1)
    <3>1. CASE Len(w) = 0
      BY <2>2, <2>3, <3>1 DEF Larger
    <3>2. CASE Len(w) > 0
      <4>1. Len(w) \in 1 .. Len(w)
        BY <2>3, <3>2
      <4>2. w[Len(w)] \in Block /\ Len(w[Len(w)]) = FromBlock + Len(w) - 1
        BY <2>2, <4>1, ElementOfSeq DEF Number
      <4>3. Len(w[Len(w)]) <= Len(head) /\ Len(head) <= MaxHeight /\ Len(head) \in Nat
        BY <4>2 DEF Block, Past, IInv, ListenerType
      <4> QED
        BY <2>2, <2>3, <4>2, <4>3 DEF Larger
    <3> QED
      BY <2>3, <3>1, <3>2
  <2> QED
    BY Zenon, <2>1, <2>4 DEF TypeOK, Steps, Timers
<1> QED
  BY <1>1, Invariance, PTL

\* What the code relies on where a block counts as final: a reorganisation
\* never reaches as deep as the confirmations asked for.
ConfirmationsSuffice == MaxDepth <= RequiredConfirmations

\* The database, with the batch being collected, holds blocks of the node's
\* chain from the first one on, whatever the node replaces, the listener misses
\* and the process loses, provided that the confirmations suffice.
THEOREM CanonicalIndex ==
  ASSUME ConfirmationsSuffice
  PROVE  Spec => []IndexedIsCanonical
<1>1. IInv => IndexedIsCanonical
  <2> SUFFICES ASSUME IInv PROVE IndexedIsCanonical
    BY Zenon
  <2> DEFINE w == indexed \o dsp.batch
  <2>1. w \in Seq(Block) /\ head \in Seq(Int)
    BY Zenon, ConcatProperties DEF IInv, IndexerType, ListenerType, Dispatchers
  <2>2. \A i \in 1 .. Len(w) : Number(w[i]) = FromBlock + i - 1 /\ Deep(w[i], head)
    BY Zenon DEF IInv, IndexHasNoGaps, Settled, ConfirmationsSuffice
  <2>3. DOMAIN w = 1 .. Len(w)
    BY Zenon, <2>1, LenProperties
  <2> HIDE DEF w
  <2>4. ASSUME NEW i \in 1 .. Len(w)
        PROVE  Canonical(w[i])
    <3> DEFINE b == w[i]
               p == SubSeq(b, 1, Len(b))
               q == SubSeq(head, 1, Len(b))
    <3>1. b \in Seq(Int) /\ Len(b) \in Nat /\ Len(head) \in Nat /\ MaxDepth \in Nat
      <4>1. b \in Block
        BY Zenon, <2>1, ElementOfSeq
      <4> QED
        BY <2>1, <4>1, BlockType, ListenerAssumption
    <3>2. Len(b) + MaxDepth <= Len(head) /\ \A m \in 1 .. Len(b) : b[m] = head[m]
      BY Zenon, <2>2 DEF Deep
    <3> HIDE DEF b
    <3>3. Len(b) <= Len(head) /\ Len(b) <= Len(b)
      BY <3>1, <3>2
    <3>4. /\ p \in Seq(Int) /\ Len(p) = Len(b) /\ \A m \in 1 .. Len(b) : p[m] = b[m]
          /\ q \in Seq(Int) /\ Len(q) = Len(b) /\ \A m \in 1 .. Len(b) : q[m] = head[m]
      BY <2>1, <3>1, <3>3, PrefixProperties
    <3> HIDE DEF p, q
    <3>5. p = q
      BY Zenon, <3>2, <3>4, SeqEqual
    <3>6. IsPrefix(b, head)
      BY Zenon, <3>3, <3>5 DEF IsPrefix, p, q
    <3> QED
      BY <3>6 DEF Canonical, b
  <2>5. \A i \in DOMAIN w : Number(w[i]) = FromBlock + i - 1 /\ Canonical(w[i])
    BY Zenon, <2>2, <2>3, <2>4
  <2> QED
    BY Zenon, <2>5 DEF IndexedIsCanonical, w
<1> QED
  BY <1>1, Invariance, PTL
=============================================================================
