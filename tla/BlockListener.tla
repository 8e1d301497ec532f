--------------------------- MODULE BlockListener ---------------------------
(***************************************************************************)
(* The block listener (core/go/pkg/blockindexer/block_listener.go): it     *)
(* polls a filter of the node for block hashes, reconciles each block with *)
(* its view of the head of the chain, rebuilding the view from the node    *)
(* where it does not fit, and passes on every block from the lowest point  *)
(* of change.  The node is external.                                       *)
(*                                                                         *)
(* A block is the sequence of choices that leads to it from the first      *)
(* block: its number is its length, its parent is its front, and two       *)
(* blocks have the same hash when they are equal.                          *)
(***************************************************************************)
EXTENDS Integers, Sequences, SequencesExt

CONSTANTS MaxHeight,     \* bound: height of the chain
          MaxDepth,      \* the blocks a reorganisation of the chain replaces at most
          MaxReorgs,     \* bound: reorganisations
          CacheLen,      \* chainHeadCacheLen
          Faults,        \* the faults that may happen
          MaxFaults      \* bound: how many of them in one behaviour

ASSUME ListenerAssumption ==
  /\ MaxHeight \in Nat \ {0} /\ MaxDepth \in Nat /\ MaxReorgs \in Nat
  /\ CacheLen \in Nat \ {0} /\ MaxFaults \in Nat
  /\ Faults \subseteq {"filter", "lookup", "receipts", "crash"}

VARIABLES
  head,       \* the last block of the node's canonical chain
  filter,     \* the node's filter: [on, hashes]
  chain,      \* canonicalChain: a sequence of [block, first], first marks notifyPos
  lis,        \* the loop: [pc, hashes, pos, at, parent, from], see Listening
  newBlocks,  \* the channel to the block indexer
  unseen,     \* the number of the last block that was lost to the listener, 0 if none
  reorgs,     \* reorganisations so far
  faults      \* faults so far

lvars == <<head, filter, chain, lis, newBlocks, unseen, reorgs, faults>>

None == <<>>               \* no block (block 0 is never notified)
Number(b) == Len(b)
Parent(b) == Front(b)
BlockByNumber(n) == SubSeq(head, 1, n)   \* for n <= Number(head)
Canonical(b) == IsPrefix(b, head)

(* Between polls, with the hashes of a poll, or with blocks to pass on.     *)
Listening(pc, hashes) ==
  [pc |-> pc, hashes |-> hashes, pos |-> None, at |-> 0, parent |-> None, from |-> 0]

LInit ==
  /\ head = <<0>> /\ filter = [on |-> TRUE, hashes |-> <<>>]
  /\ chain = <<>> /\ lis = Listening("poll", <<>>) /\ newBlocks = <<>>
  /\ unseen = 0 /\ reorgs = 0 /\ faults = 0

Larger(m, n) == IF m > n THEN m ELSE n

Fault(f) == f \in Faults /\ faults < MaxFaults /\ faults' = faults + 1

------------------------------------------------------------------------------
(* The node. *)

Seen(new) == [filter EXCEPT !.hashes = IF filter.on THEN @ \o new ELSE @]

Mine ==
  /\ Number(head) < MaxHeight
  /\ head' = Append(head, 0)
  /\ filter' = Seen(<<head'>>)
  /\ unseen' = IF filter.on THEN unseen ELSE Number(head')
  /\ UNCHANGED <<chain, lis, newBlocks, reorgs, faults>>

(* The last blocks are replaced by as many others. *)
Reorg ==
  /\ reorgs < MaxReorgs
  /\ \E k \in 1..MaxDepth :
       /\ k < Number(head)
       /\ LET base == Number(head) - k
          IN /\ head' = [head EXCEPT ![base + 1] = 1 - @]
             /\ filter' = Seen([i \in 1..k |-> SubSeq(head', 1, base + i)])
  /\ unseen' = IF filter.on THEN unseen ELSE Number(head')
  /\ reorgs' = reorgs + 1
  /\ UNCHANGED <<chain, lis, newBlocks, faults>>

(* The node forgets the filter. *)
FilterLost ==
  /\ filter.on
  /\ Fault("filter")
  /\ filter' = [on |-> FALSE, hashes |-> <<>>]
  /\ unseen' = IF filter.hashes = <<>> THEN unseen ELSE Number(Last(filter.hashes))
  /\ UNCHANGED <<head, chain, lis, newBlocks, reorgs>>

------------------------------------------------------------------------------
(* listenLoop. *)

NewBlockFilter ==
  /\ lis.pc = "poll" /\ ~filter.on
  /\ filter' = [filter EXCEPT !.on = TRUE]
  /\ UNCHANGED <<head, chain, lis, newBlocks, unseen, reorgs, faults>>

GetFilterChanges ==
  /\ lis.pc = "poll" /\ filter.on /\ filter.hashes # <<>>
  /\ lis' = Listening("hashes", filter.hashes)
  /\ filter' = [filter EXCEPT !.hashes = <<>>]
  /\ UNCHANGED <<head, chain, newBlocks, unseen, reorgs, faults>>

NextHash == [lis EXCEPT !.pc = "hashes", !.hashes = Tail(@)]

(* A block that was replaced may be gone, and a query may fail: both skip   *)
(* the block.                                                               *)
BlockGone ==
  /\ lis.pc = "hashes" /\ lis.hashes # <<>>
  /\ ~Canonical(Head(lis.hashes))
  /\ lis' = NextHash
  /\ UNCHANGED <<head, filter, chain, newBlocks, unseen, reorgs, faults>>

LookupFails ==
  /\ lis.pc = "hashes" /\ lis.hashes # <<>>
  /\ Fault("lookup")
  /\ lis' = NextHash
  /\ unseen' = Larger(unseen, Number(Head(lis.hashes)))
  /\ UNCHANGED <<head, filter, chain, newBlocks, reorgs>>

(* The loop keeps the lowest candidate to notify from: element i of c. *)
NotifyFrom(c, i) ==
  IF i # 0 /\ (lis.pos = None \/ Number(c[i].block) <= Number(lis.pos))
  THEN /\ chain' = [j \in DOMAIN c |-> [c[j] EXCEPT !.first = (j = i)]]
       /\ lis' = [NextHash EXCEPT !.pos = c[i].block]
  ELSE chain' = c /\ lis' = NextHash

Element(b) == [block |-> b, first |-> FALSE]

(* handleNewBlock: the block goes after an element that is its parent (or   *)
(* starts a new view) and everything after it is dropped.                   *)
AddAfter(b, i) ==
  LET c == Append(SubSeq(chain, 1, i), Element(b))
      d == SubSeq(c, IF Len(c) > CacheLen THEN Len(c) - CacheLen + 1 ELSE 1, Len(c))
  IN NotifyFrom(d, Len(d))

HandleNewBlock(b, i) ==
  IF i = 0 \/ chain[i].block = Parent(b) THEN AddAfter(b, i)
  ELSE lis' = [lis EXCEPT !.pc = "trim", !.at = Len(chain)] /\ UNCHANGED chain

(* The last element with a number not above that of b, 0 if there is none. *)
Position(b) ==
  LET below == {i \in DOMAIN chain : Number(chain[i].block) <= Number(b)}
  IN IF below = {} THEN 0 ELSE CHOOSE i \in below : \A j \in below : j <= i

ReconcileCanonicalChain ==
  /\ lis.pc = "hashes" /\ lis.hashes # <<>>
  /\ LET b == Head(lis.hashes)
         i == Position(b)
     IN IF i = 0 THEN HandleNewBlock(b, 0)
        ELSE IF chain[i].block = b THEN lis' = NextHash /\ UNCHANGED chain
        ELSE HandleNewBlock(b, IF Number(chain[i].block) = Number(b) THEN i - 1 ELSE i)
  /\ unseen' = IF Number(Head(lis.hashes)) > unseen THEN 0 ELSE unseen
  /\ UNCHANGED <<head, filter, newBlocks, reorgs, faults>>

(* trimToLastValidBlock looks for the last element that the node still has; *)
(* where there are elements after it, that element is the one removed.      *)
TrimToLastValidBlock ==
  /\ lis.pc = "trim" /\ lis.at > 0
  /\ LET b == chain[lis.at].block
     IN IF Canonical(b)
        THEN /\ lis' = [lis EXCEPT !.pc = "rebuild", !.at = Number(b) + 1, !.parent = b, !.from = 0]
             /\ chain' = IF lis.at < Len(chain) THEN RemoveAt(chain, lis.at) ELSE chain
        ELSE lis' = [lis EXCEPT !.at = @ - 1] /\ UNCHANGED chain
  /\ UNCHANGED <<head, filter, newBlocks, unseen, reorgs, faults>>

(* No element is valid: start from the number of the first one. *)
ClearChain ==
  /\ lis.pc = "trim" /\ lis.at = 0
  /\ lis' = [lis EXCEPT !.pc = "rebuild", !.at = Number(chain[1].block), !.parent = None, !.from = 0]
  /\ chain' = <<>>
  /\ UNCHANGED <<head, filter, newBlocks, unseen, reorgs, faults>>

(* rebuildCanonicalChain reads the node up to its head, or to a block that  *)
(* no longer follows the one before.                                        *)
RebuildCanonicalChain ==
  /\ lis.pc = "rebuild"
  /\ LET b == BlockByNumber(lis.at)
     IN IF lis.at <= Number(head) /\ (lis.parent = None \/ Parent(b) = lis.parent)
        THEN /\ chain' = Append(chain, Element(b))
             /\ lis' = [lis EXCEPT !.at = @ + 1, !.parent = b,
                                   !.from = IF @ = 0 THEN Len(chain) + 1 ELSE @]
        ELSE NotifyFrom(chain, lis.from)
  /\ UNCHANGED <<head, filter, newBlocks, unseen, reorgs, faults>>

(* All blocks from the lowest candidate on; just that one when it has been  *)
(* removed from the view in the meantime.                                   *)
ToNotify ==
  LET marked == {i \in DOMAIN chain : chain[i].first}
  IN IF lis.pos = None THEN <<>>
     ELSE IF marked = {} THEN <<lis.pos>>
     ELSE LET i == CHOOSE i \in marked : TRUE
          IN [j \in 1..(Len(chain) - i + 1) |-> chain[i + j - 1].block]

(* Blocks at the end of the view are not passed on. *)
LeftOut == lis.pos # None /\ Last(ToNotify) # Last(chain).block

HashesDone ==
  /\ lis.pc = "hashes" /\ lis.hashes = <<>>
  /\ lis' = Listening("notify", ToNotify)
  /\ chain' = [j \in DOMAIN chain |-> Element(chain[j].block)]
  /\ unseen' = IF LeftOut THEN Number(Last(chain).block) ELSE unseen
  /\ UNCHANGED <<head, filter, newBlocks, reorgs, faults>>

NotifyBlock ==
  /\ lis.pc = "notify" /\ lis.hashes # <<>> /\ Len(newBlocks) < CacheLen
  /\ newBlocks' = Append(newBlocks, Head(lis.hashes))
  /\ lis' = [lis EXCEPT !.hashes = Tail(@)]
  /\ UNCHANGED <<head, filter, chain, unseen, reorgs, faults>>

NotifyDone ==
  /\ lis.pc = "notify" /\ lis.hashes = <<>>
  /\ lis' = Listening("poll", <<>>)
  /\ UNCHANGED <<head, filter, chain, newBlocks, unseen, reorgs, faults>>

------------------------------------------------------------------------------
Node == Mine \/ Reorg \/ FilterLost

ListenLoop ==
  NewBlockFilter \/ GetFilterChanges \/ BlockGone \/ ReconcileCanonicalChain
  \/ TrimToLastValidBlock \/ ClearChain \/ RebuildCanonicalChain \/ HashesDone
  \/ NotifyBlock \/ NotifyDone

(* The listener of a process that starts again has a new filter. *)
ListenerRestarts ==
  /\ filter' = [on |-> TRUE, hashes |-> <<>>]
  /\ chain' = <<>> /\ lis' = Listening("poll", <<>>) /\ newBlocks' = <<>>
  /\ unseen' = 0
  /\ UNCHANGED <<head, reorgs>>

(* The comment in listenLoop: "We notify for all hashes from the point of   *)
(* change in the chain onwards".  When the hashes of a poll are reconciled, *)
(* the blocks to pass on reach to the end of the view.                      *)
NotifiesOnwards == lis.pc = "hashes" /\ lis.hashes = <<>> => ~LeftOut
=============================================================================
