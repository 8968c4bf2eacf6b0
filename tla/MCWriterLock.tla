--------------------------- MODULE MCWriterLock ---------------------------
(***************************************************************************)
(* WriterLock for TLC: process incarnations are interchangeable.           *)
(***************************************************************************)
EXTENDS WriterLock, TLC

ProcSymmetry == Permutations(Procs)

\* The invariants say nothing of what follows a slip.
NotSlipped == ~slipped
=============================================================================
