----------------------------- MODULE Allocator -----------------------------
(***************************************************************************)
(* What malloc() and free() promise their callers: blocks of usable memory *)
(* are granted and taken back, and blocks granted at the same time do not  *)
(* overlap.  A call that grants nothing is a stuttering step.              *)
(***************************************************************************)
EXTENDS Integers

CONSTANTS Usable, (* the addresses of the bytes that may be handed out     *)
          Sizes   (* the sizes a block may have                            *)

VARIABLE granted  (* the sizes of the granted blocks, by first address     *)

Init == granted = [p \in {} |-> 0]

Grant(p, n) ==
  /\ n > 0
  /\ p .. p + n - 1 \subseteq Usable
  /\ \A q \in DOMAIN granted : p + n <= q \/ q + granted[q] <= p
  /\ granted' = [q \in DOMAIN granted \cup {p} |-> IF q = p THEN n ELSE granted[q]]

Reclaim(p) ==
  granted' = [q \in DOMAIN granted \ {p} |-> granted[q]]

Next == \/ \E p \in Usable, n \in Sizes : Grant(p, n)
        \/ \E p \in DOMAIN granted : Reclaim(p)

Spec == Init /\ [][Next]_granted
=============================================================================
