------------------------------ MODULE JobLanes ------------------------------
(***************************************************************************)
(* What the job queue promises, without its mechanism: jobs are numbered    *)
(* in the order they arrive, each belongs to one lane (a connection), a     *)
(* lane serves one job at a time and always the oldest it holds, and lanes  *)
(* do not hinder each other.  (docs/design.md 3.1: "Each job waits for its  *)
(* predecessor on that connection; different connections run in parallel.") *)
(***************************************************************************)
EXTENDS Naturals

CONSTANT Conns          \* the lanes

VARIABLES
    submitted,          \* how many jobs have arrived
    pending,            \* lane -> the jobs that wait for their turn
    serving             \* lane -> the job being served, as a set

laneVars == <<submitted, pending, serving>>

LInit ==
    /\ submitted = 0
    /\ pending = [c \in Conns |-> {}]
    /\ serving = [c \in Conns |-> {}]

Arrive(c) ==
    /\ submitted' = submitted + 1
    /\ pending' = [pending EXCEPT ![c] = @ \cup {submitted + 1}]
    /\ UNCHANGED serving

Serve(c) ==
    /\ serving[c] = {}
    /\ \E j \in pending[c] :
        /\ \A k \in pending[c] : j <= k
        /\ serving' = [serving EXCEPT ![c] = {j}]
        /\ pending' = [pending EXCEPT ![c] = @ \ {j}]
    /\ UNCHANGED submitted

Finish(c) ==
    /\ serving[c] # {}
    /\ serving' = [serving EXCEPT ![c] = {}]
    /\ UNCHANGED <<submitted, pending>>

LNext == \E c \in Conns : Arrive(c) \/ Serve(c) \/ Finish(c)

LSpec == LInit /\ [][LNext]_laneVars
=============================================================================
