---------------------------- MODULE MCFileService ----------------------------
(***************************************************************************)
(* FileService for TLC.  Requests are interchangeable: they carry no data  *)
(* of their own, and sessions and contents likewise.                       *)
(***************************************************************************)
EXTENDS FileService, TLC

RequestSymmetry == Permutations(Requests)
Symmetry == Permutations(Requests) \cup Permutations(Sessions) \cup Permutations(Contents)
==============================================================================
