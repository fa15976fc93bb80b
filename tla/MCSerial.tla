------------------------------ MODULE MCSerial ------------------------------
(***************************************************************************)
(* Printing tasks a and b.  A queue that may hold one character is         *)
(* discarded like one of 1024.                                             *)
(***************************************************************************)
EXTENDS SerialPort

CONSTANTS a, b
=============================================================================
