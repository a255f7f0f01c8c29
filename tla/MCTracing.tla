----------------------------- MODULE MCTracing -----------------------------
(***************************************************************************)
(* Small instances of Tracing for TLC.  Workers and conversations are      *)
(* interchangeable.                                                        *)
(***************************************************************************)
EXTENDS Tracing, TLC

Symmetry == Permutations(Worker) \cup Permutations(Thread)
=============================================================================
