------------------------------ MODULE MCDaemon ------------------------------
(* Daemon on small instances. *)
EXTENDS Daemon

Off == [id |-> 1, label |-> "l1", target |-> "t1", session |-> "", profile |-> NoProfile]
On == [Off EXCEPT !.profile = 1]
Machine == [id |-> 1, label |-> "l1", target |-> "t1", session |-> ""]

\* What the daemon finds: one connection, disconnected or connected.
MCWorlds == {[store |-> <<Off>>, herdr |-> <<>>], [store |-> <<On>>, herdr |-> <<Machine>>]}
=============================================================================
