------------------------------- MODULE MCWAL -------------------------------
(***************************************************************************)
(* Instances of WAL for TLC: a short and a long record, two short ones or  *)
(* one long one to a segment.                                              *)
(***************************************************************************)
EXTENDS WAL, TLC

CONSTANTS short, long

MCBodyLen == (short :> 1) @@ (long :> 2)
=============================================================================
