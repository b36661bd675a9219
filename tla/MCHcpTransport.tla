---------------------------- MODULE MCHcpTransport -----------------------------
(***************************************************************************)
(* Instances of HcpTransport for TLC.  An MTU of 16 leaves 2 payload bytes *)
(* per frame, so that packets of 1 to 4 bytes take one to three frames and *)
(* the empty last frame of a multiple of the payload size occurs.          *)
(***************************************************************************)
EXTENDS HcpTransport

MCOutcomes == {"OK", "FAIL"}
================================================================================
