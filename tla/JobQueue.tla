------------------------------ MODULE JobQueue ------------------------------
(***************************************************************************)
(* internal/jobs: the queue that runs every mutation of a connection.       *)
(*                                                                          *)
(* Submit starts one goroutine per job.  The goroutine waits for the done   *)
(* channel of the newest job the queue still keeps for that connection,     *)
(* runs the job and closes its own done channel.  Cancelling a job, or the  *)
(* queue's context, only marks a context: whoever runs reacts to it.  A     *)
(* finished job replaces the previously finished one of its connection.     *)
(*                                                                          *)
(* Every action is a critical section under q.mu, or one step of a job's    *)
(* goroutine.  The code that the job runs (Spec.Run) is arbitrary: it may   *)
(* ask, take answers and return whenever it likes, but returns once its     *)
(* context ended (exec.go kills the command; CLI calls use CommandContext). *)
(***************************************************************************)
EXTENDS Naturals

CONSTANTS
    Conns,              \* connection ids
    NoConn,             \* the lane of a job that does not exist yet
    Questions,          \* texts a command may stop on
    NoQuestion,         \* the empty prompt
    MaxJobs             \* bound on q.ids: how many jobs are ever submitted

ASSUME MaxJobsAssumption == MaxJobs \in Nat \ {0}
ASSUME NoConnAssumption == NoConn \notin Conns
ASSUME NoQuestionAssumption == NoQuestion \notin Questions

JobIds == 1 .. MaxJobs

Started == {"running", "awaiting_input", "succeeded", "failed", "cancelled"}
Active == {"running", "awaiting_input"}
Terminal == {"succeeded", "failed", "cancelled"}
States == {"none", "queued"} \cup Started

VARIABLES
    ids,                \* q.ids, the last id handed out
    jobs,               \* q.jobs, the jobs the queue keeps
    lane,               \* job -> the connection it belongs to (job.ConnID)
    state,              \* job -> job.State
    prompt,             \* job -> job.Prompt
    input,              \* the jobs whose input channel (capacity 1) is full
    cancelled,          \* the jobs whose own context was cancelled
    wait,               \* job -> the job whose done channel it waits for
    done,               \* the jobs whose done channel is closed
    down                \* the queue's context was cancelled

vars == <<ids, jobs, lane, state, prompt, input, cancelled, wait, done, down>>

Submitted == 1 .. ids

\* Mutant: job contexts that do not descend from the queue's.
CtxErrOwn(j) == j \in cancelled

\* st.ctx.Err() # nil: a job's context descends from the queue's.
CtxErr(j) == j \in cancelled \/ down

\* Mutant: a finished job is not waited for, though it may still be reporting.
NewestUnfinished(c) ==
    {j \in jobs : /\ lane[j] = c /\ state[j] \notin Terminal
                  /\ \A k \in jobs : lane[k] = c => k <= j}

\* Mutant: the scan runs forwards.
Oldest(c) ==
    {j \in jobs : lane[j] = c /\ \A k \in jobs : lane[k] = c => k >= j}

\* The newest job kept for connection c: what Submit finds scanning backwards.
Newest(c) ==
    {j \in jobs : lane[j] = c /\ \A k \in jobs : lane[k] = c => k <= j}

Init ==
    /\ ids = 0
    /\ jobs = {}
    /\ lane = [j \in JobIds |-> NoConn]
    /\ state = [j \in JobIds |-> "none"]
    /\ prompt = [j \in JobIds |-> NoQuestion]
    /\ input = {}
    /\ cancelled = {}
    /\ wait = [j \in JobIds |-> {}]
    /\ done = {}
    /\ down = FALSE

Submit(c) ==
    /\ ids < MaxJobs
    /\ ids' = ids + 1
    /\ jobs' = jobs \cup {ids + 1}
    /\ lane' = [lane EXCEPT ![ids + 1] = c]
    /\ state' = [state EXCEPT ![ids + 1] = "queued"]
    /\ wait' = [wait EXCEPT ![ids + 1] = Newest(c)]
    /\ UNCHANGED <<prompt, input, cancelled, done, down>>

\* Mutant: without "other != st" the job deletes itself.
ReplacedSelfToo(j) ==
    {k \in jobs : lane[k] = lane[j] /\ state'[k] \in Terminal}

\* What a terminal update drops: the other finished jobs of the connection.
Replaced(j) ==
    {k \in jobs : k # j /\ lane[k] = lane[j] /\ state'[k] \in Terminal}

\* Mutant: the question stays when the job goes on.
UpdateKeepsPrompt(j, phase, question) ==
    /\ state' = [state EXCEPT ![j] = phase]
    /\ prompt' = [prompt EXCEPT ![j] = IF question = NoQuestion THEN @ ELSE question]
    /\ jobs' = IF phase \in Terminal THEN jobs \ Replaced(j) ELSE jobs

\* q.update: state and prompt change together, and a terminal state prunes.
Update(j, phase, question) ==
    /\ state' = [state EXCEPT ![j] = phase]
    /\ prompt' = [prompt EXCEPT ![j] = question]
    /\ jobs' = IF phase \in Terminal THEN jobs \ Replaced(j) ELSE jobs

\* Its predecessor is done, but the context ended meanwhile: nothing runs.
Skip(j) ==
    /\ state[j] = "queued"
    /\ wait[j] \subseteq done
    /\ CtxErr(j)
    /\ Update(j, "cancelled", NoQuestion)
    /\ UNCHANGED <<ids, lane, input, cancelled, wait, done, down>>

Start(j) ==
    /\ state[j] = "queued"
    /\ wait[j] \subseteq done
    /\ ~CtxErr(j)
    /\ Update(j, "running", NoQuestion)
    /\ UNCHANGED <<ids, lane, input, cancelled, wait, done, down>>

\* Sink.Prompt(text): the command stopped on a question.
Ask(j, q) ==
    /\ state[j] = "running"
    /\ Update(j, "awaiting_input", q)
    /\ UNCHANGED <<ids, lane, input, cancelled, wait, done, down>>

\* Sink.Prompt(""): the command goes on.
Resume(j) ==
    /\ state[j] = "awaiting_input"
    /\ Update(j, "running", NoQuestion)
    /\ UNCHANGED <<ids, lane, input, cancelled, wait, done, down>>

\* q.Input: accepted for a waiting job whose channel has room, else an error
\* reaches the caller and nothing changes.
Input(j) ==
    /\ j \in jobs
    /\ state[j] = "awaiting_input"
    /\ j \notin input
    /\ input' = input \cup {j}
    /\ UNCHANGED <<ids, jobs, lane, state, prompt, cancelled, wait, done, down>>

\* The running command receives from Sink.Input, waiting or not.
Take(j) ==
    /\ state[j] \in Active
    /\ j \in input
    /\ input' = input \ {j}
    /\ UNCHANGED <<ids, jobs, lane, state, prompt, cancelled, wait, done, down>>

Outcome(j, ok) ==
    IF CtxErr(j) THEN "cancelled" ELSE IF ok THEN "succeeded" ELSE "failed"

\* Spec.Run returned, with or without an error.
Return(j, ok) ==
    /\ state[j] \in Active
    /\ Update(j, Outcome(j, ok), NoQuestion)
    /\ UNCHANGED <<ids, lane, input, cancelled, wait, done, down>>

\* Mutant: the early return of a skipped job forgets close(st.done).
CloseUnlessSkipped(j) ==
    /\ state[j] \in {"succeeded", "failed"}
    /\ j \notin done
    /\ cancelled' = cancelled \cup {j}
    /\ done' = done \cup {j}
    /\ UNCHANGED <<ids, jobs, lane, state, prompt, input, wait, down>>

\* The terminal hook returned: the deferred st.cancel runs and done is closed.
Close(j) ==
    /\ state[j] \in Terminal
    /\ j \notin done
    /\ cancelled' = cancelled \cup {j}
    /\ done' = done \cup {j}
    /\ UNCHANGED <<ids, jobs, lane, state, prompt, input, wait, down>>

\* q.Cancel: any job the queue keeps, whatever its state.
Cancel(j) ==
    /\ j \in jobs
    /\ cancelled' = cancelled \cup {j}
    /\ UNCHANGED <<ids, jobs, lane, state, prompt, input, wait, done, down>>

\* The daemon's context ends (shutdown request or signal).
Stop ==
    /\ down' = TRUE
    /\ UNCHANGED <<ids, jobs, lane, state, prompt, input, cancelled, wait, done>>

Next ==
    \/ \E c \in Conns : Submit(c)
    \/ \E j \in JobIds :
        \/ Skip(j) \/ Start(j) \/ Resume(j) \/ Input(j) \/ Take(j)
        \/ Close(j) \/ Cancel(j)
        \/ \E q \in Questions : Ask(j, q)
        \/ \E ok \in BOOLEAN : Return(j, ok)
    \/ Stop

(***************************************************************************)
(* The goroutine of a job is always scheduled again; a command whose        *)
(* context ended returns (SIGTERM, then SIGKILL after killGrace), unless it *)
(* closed its terminal before: see CancelEnds in module Exec.  Nothing is   *)
(* assumed of a command that was not cancelled, nor of the user.            *)
(***************************************************************************)
Fairness ==
    \A j \in JobIds :
        /\ WF_vars(Skip(j) \/ Start(j))
        /\ WF_vars(CtxErr(j) /\ \E ok \in BOOLEAN : Return(j, ok))
        /\ WF_vars(Close(j))

Spec == Init /\ [][Next]_vars

FairSpec == Spec /\ Fairness

-----------------------------------------------------------------------------
(* The type invariant.  A prompt is on display exactly while the job waits  *)
(* for input (queue.go:155-158 writes both in one critical section).        *)
TypeOK ==
    /\ ids \in 0 .. MaxJobs
    /\ jobs \subseteq Submitted
    /\ lane \in [JobIds -> Conns \cup {NoConn}]
    /\ state \in [JobIds -> States]
    /\ prompt \in [JobIds -> Questions \cup {NoQuestion}]
    /\ input \subseteq Submitted
    /\ cancelled \subseteq Submitted
    /\ wait \in [JobIds -> SUBSET JobIds]
    /\ done \subseteq Submitted
    /\ down \in BOOLEAN
    /\ \A j \in JobIds :
        /\ state[j] = "none" <=> j > ids
        /\ lane[j] = NoConn <=> j > ids
        /\ prompt[j] # NoQuestion <=> state[j] = "awaiting_input"

\* Jobs of one connection run one after the other in submission order: a job
\* that left "queued" has every earlier job of its connection behind it, its
\* terminal report (refresh included) made.  Submit waits for one job only, the
\* newest one kept, and update deletes jobs concurrently: this is what makes
\* that one channel enough.
SubmissionOrder ==
    \A j \in Submitted : state[j] \in Started =>
        \A i \in 1 .. j - 1 : lane[i] = lane[j] => i \in done

\* docs/design.md 5.3: the queue keeps every unfinished job plus the last
\* finished one of each connection, and nothing else (queue.go:161-165).
Retention ==
    \A j \in Submitted :
        j \in jobs <=>
            \/ state[j] \notin Terminal
            \/ \A k \in Submitted : (lane[k] = lane[j] /\ k > j) =>
                                        state[k] \notin Terminal

\* Cancelling every unfinished job of a lane up to j frees the lane: each of
\* them, waiting for an answer or not even started, is eventually done.
CancelFreesLane ==
    \A j \in JobIds :
        (j \in Submitted /\ \A i \in 1 .. j : lane[i] = lane[j] =>
                                                i \in cancelled \cup done)
            ~> j \in done

\* When the daemon's context ends, every job submitted so far comes to an end,
\* without having been cancelled one by one.
ShutdownDrains ==
    \A j \in JobIds : (down /\ j \in Submitted) ~> j \in done

-----------------------------------------------------------------------------
(* The queue implements JobLanes: a job is pending while "queued" and being *)
(* served until its done channel is closed.                                 *)
LanePending == [c \in Conns |->
    {j \in JobIds : lane[j] = c /\ state[j] = "queued"}]

LaneServing == [c \in Conns |->
    {j \in JobIds : lane[j] = c /\ state[j] \in Started /\ j \notin done}]

Lanes == INSTANCE JobLanes WITH
    submitted <- ids, pending <- LanePending, serving <- LaneServing

LanesSpec == Lanes!LSpec
=============================================================================
