---------------------------- MODULE MCClientSync ----------------------------
(* ClientSync on small instances. *)
EXTENDS ClientSync

\* Subsequences by positions are those by a test.
ASSUME AtIsSelectSeq ==
    \A n \in 0 .. 4 : \A s \in [1 .. n -> 0 .. 2] :
        At(s, {i \in DOMAIN s : s[i] # 0}) = SelectSeq(s, LAMBDA x : x # 0)
=============================================================================
