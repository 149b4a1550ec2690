---- MODULE MCStreamProcessor ----
(* StreamProcessor for TLC. *)
EXTENDS StreamProcessor
====
