---------------------------- MODULE MCExecution ----------------------------
(***************************************************************************)
(* Constants of Execution for TLC: a notebook of two code cells.           *)
(***************************************************************************)
EXTENDS Execution

CONSTANTS c1, c2

MCNotebook == <<c1, c2>>
=============================================================================
