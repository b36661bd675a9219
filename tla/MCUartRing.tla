----------------------------- MODULE MCUartRing --------------------------------
(***************************************************************************)
(* Instance of UartRing for TLC with the code's ring of 128 bytes; MCHal   *)
(* has a small one.                                                        *)
(***************************************************************************)
EXTENDS UartRing
================================================================================
