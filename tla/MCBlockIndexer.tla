--------------------------- MODULE MCBlockIndexer ---------------------------
(* A chain of four blocks whose last two blocks may be replaced, two        *)
(* required confirmations, batches of two blocks.                           *)
EXTENDS BlockIndexer
=============================================================================
