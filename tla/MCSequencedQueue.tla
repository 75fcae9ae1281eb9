-------------------------- MODULE MCSequencedQueue --------------------------
(* A queue of elements of two sizes, with a gap limit small enough to be hit. *)
EXTENDS SequencedQueue

MCSizes == {1, 3}
============================================================================
