---------------------------- MODULE MCEmbeddedApp ------------------------------
(***************************************************************************)
(* Instances of EmbeddedApp for TLC.  Two presses let two enrollments, or  *)
(* an enrollment and an erase, follow each other; two samples per template *)
(* and two turns of each loop let every loop end both ways.                *)
(***************************************************************************)
EXTENDS EmbeddedApp
================================================================================
