------------------------------ MODULE MCMemory ------------------------------
(***************************************************************************)
(* Memory on a scaled-down machine: a 34-byte address space, 2-byte        *)
(* headers and a heap that starts at 4.  The map has a region cut by the   *)
(* heap base, a reserved one, one below the heap, a region touching the    *)
(* one before it, and a region cut by the end of the address space.        *)
(***************************************************************************)
EXTENDS Memory

MCDescriptors ==
  << [base |-> 0,  length |-> 3,  available |-> TRUE],
     [base |-> 3,  length |-> 11, available |-> TRUE],
     [base |-> 14, length |-> 4,  available |-> TRUE],
     [base |-> 18, length |-> 5,  available |-> FALSE],
     [base |-> 24, length |-> 16, available |-> TRUE] >>

MCRequestSizes == {0, 1, 3, 9}
=============================================================================
