------------------------------- MODULE MCExec -------------------------------
(* Exec with a declined question of three pieces, the pattern its first two. *)
EXTENDS Exec

MCDeclined == <<"install the", "binary?", "[y/N]">>
MCPattern == <<"install the", "binary?">>
MCSecret == <<"password:">>
=============================================================================
