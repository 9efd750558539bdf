----------------------------- MODULE MCJobQueue -----------------------------
(* JobQueue on a small instance, and the plausible bugs that its properties *)
(* must catch.                                                              *)
EXTENDS JobQueue
=============================================================================
