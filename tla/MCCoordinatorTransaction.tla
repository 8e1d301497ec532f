---------------------- MODULE MCCoordinatorTransaction ----------------------
(***************************************************************************)
(* Small plans for CoordinatorTransaction.                                 *)
(***************************************************************************)
EXTENDS CoordinatorTransaction, TLC

CONSTANTS p1, p2, p3

\* One endorsement by two of three parties, as in a privacy group.
TwoOfThree == [r \in Requirements |-> {p1, p2, p3}]
Two == [r \in Requirements |-> 2]

\* Endorsements of one party each, the threshold left unset.
OneEach == [r \in Requirements |-> IF r = "e1" THEN {p1} ELSE {p2}]
Unset == [r \in Requirements |-> 0]

\* Parties of a plan with one requirement may be exchanged.
SymmetricParties == Permutations(Parties)
=============================================================================
