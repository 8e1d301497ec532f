----------------------------- MODULE MCGrapher -----------------------------
(***************************************************************************)
(* Small instances of Grapher.                                             *)
(***************************************************************************)
EXTENDS Grapher, TLC

CONSTANTS n1, n2, n3, t1, t2, t3, g, s1, s2, s3

\* The first transaction is sent from the node of a coordinator, the others
\* from one that does not coordinate.
TwoOrigins == [t \in Txs |-> IF t = t1 THEN n1 ELSE n3]
\* Every state is distributed to every node.
Everyone == [s \in States |-> Nodes]

\* The states an assembly may produce can be exchanged, and so can the
\* transactions sent from the same node.
SymmetricStates == Permutations(States \ Genesis)
SymmetricStatesAndTxs ==
    SymmetricStates \cup Permutations(Txs \ {t1})
=============================================================================
