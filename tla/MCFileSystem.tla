---------------------------- MODULE MCFileSystem ----------------------------
(***************************************************************************)
(* Two files on a disk of a few clusters.                                  *)
(***************************************************************************)
EXTENDS FileSystem, TLC

Symmetry == Permutations(Names)
=============================================================================
