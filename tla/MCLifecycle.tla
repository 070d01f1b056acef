---- MODULE MCLifecycle ----
(* Constants of Lifecycle for TLC.  One unit of time stands for the initial
   delay of fifteen seconds; MCDelay doubles it up to the cap. *)
EXTENDS Lifecycle

MCDelay == [n \in 0 .. 9 |-> IF n = 0 THEN 1 ELSE 2]
====
