------------------------------ MODULE MCSensorApi ------------------------------
(* Instance of SensorApi for TLC. *)
EXTENDS SensorApi
================================================================================
