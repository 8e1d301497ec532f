------------------------ MODULE MCPublicTransactions ------------------------
(***************************************************************************)
(* Small instances of PublicTransactions; every constant is a number or a  *)
(* set given by the configuration.                                         *)
(***************************************************************************)
EXTENDS PublicTransactions
=============================================================================
