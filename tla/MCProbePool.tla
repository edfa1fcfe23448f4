---------------------------- MODULE MCProbePool ----------------------------
(* Two interchangeable workers and three jobs: a job is fed while others are *)
(* in progress, and one worker can probe twice while the other is stuck.     *)
EXTENDS ProbePool

CONSTANTS w1, w2

MCWorkers == {w1, w2}
=============================================================================
