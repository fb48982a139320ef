-------------------------- MODULE MCRegistration --------------------------
(***************************************************************************)
(* Registration for TLC.  The limits stand for the 20 connections of the   *)
(* default, of which a fifth may stay idle, and for the 0 a malformed      *)
(* DATABASE_MAX_CONNECTIONS gives.                                          *)
(***************************************************************************)
EXTENDS Registration

MCSettings ==
  { [maxOpen |-> 0, password |-> TRUE, faults |-> 0],
    [maxOpen |-> 1, password |-> FALSE, faults |-> 2],
    [maxOpen |-> 2, password |-> TRUE, faults |-> 1] }
=============================================================================
