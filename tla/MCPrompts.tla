----------------------------- MODULE MCPrompts ------------------------------
(* Prompts on small instances. *)
EXTENDS Prompts

Question(j, t) == [job |-> j, text |-> t]

Bounds(questions, popups, answers, breaks, lists) ==
    [questions |-> questions, popups |-> popups, answers |-> answers, breaks |-> breaks,
     lists |-> lists]

\* A job that asks the same twice, while an answer is under way; one that asks
\* two questions and loses its stream in between; two jobs that ask at a time; a
\* question whose popup is closed; and one whose events a list event crosses,
\* on a stream that may be lost.
MCBudgets ==
    {Bounds(<<Question(1, "password"), Question(1, "password")>>, 1, 1, 0, 0),
     Bounds(<<Question(1, "password"), Question(1, "trust")>>, 1, 0, 1, 0),
     Bounds(<<Question(1, "password"), Question(2, "password")>>, 1, 0, 0, 0),
     Bounds(<<Question(1, "password")>>, 2, 1, 0, 0),
     Bounds(<<Question(1, "password")>>, 1, 0, 1, 1)}
=============================================================================
