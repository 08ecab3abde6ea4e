---------------------------- MODULE MCWorkerSession ----------------------------
(* Three messages, one session, and up to two crashes. *)
EXTENDS WorkerSession
MCCid == 1..3
==============================================================================
