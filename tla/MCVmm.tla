------------------------------- MODULE MCVmm --------------------------------
(***************************************************************************)
(* Page maps of three levels with two entries per table: eight pages, of   *)
(* which callers name three.  Pages 0 and 1 share their last table, page 6 *)
(* shares only the root with them.                                         *)
(***************************************************************************)
EXTENDS VirtualMemoryManager, TLC

\* The frames are interchangeable: no operation compares or orders them.
Interchangeable == Permutations(Tables)
=============================================================================
