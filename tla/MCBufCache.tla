----------------------------- MODULE MCBufCache -----------------------------
(* The buffer cache on a small instance: some blocks, the log's or indirect *)
(* ones, are held while another block is read.                              *)
EXTENDS BufCache

CONSTANT Outer

MCNested == Outer \X (Block \ Outer)

Symmetry == Permutations(Outer) \cup Permutations(Block \ Outer) \cup Permutations(Proc)
=============================================================================
