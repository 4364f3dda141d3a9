--------------------------- MODULE MCBufferQueue ---------------------------
(* The queue with its threads interchangeable. *)
EXTENDS BufferQueue, TLC

Symmetry == Permutations(Threads)
=============================================================================
