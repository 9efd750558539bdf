--------------------------- MODULE JobQueueProofs ---------------------------
(***************************************************************************)
(* Theorems about JobQueue for every set of connections and every bound on  *)
(* the number of jobs.                                                      *)
(***************************************************************************)
EXTENDS JobQueue, TLAPS

\* A done channel is closed only after the job's terminal update.
DoneTerminal == \A j \in done : state[j] \in Terminal

\* A job waits for an earlier job of its own connection.
WaitsBack ==
    \A j \in Submitted : \A p \in wait[j] :
        p \in 1 .. j - 1 /\ lane[p] = lane[j]

\* Whatever earlier job of the connection is not done yet, the one waited for
\* is that job or a later one.
WaitCovers ==
    \A j \in Submitted : \A i \in 1 .. j - 1 :
        (lane[i] = lane[j] /\ i \notin done) => \E p \in wait[j] : i <= p

\* The newest job of a connection is never the one that pruning deletes.
HasNewest ==
    \A j \in jobs : \E m \in jobs :
        lane[m] = lane[j] /\ \A k \in jobs : lane[k] = lane[j] => k <= m

IInv ==
    /\ TypeOK
    /\ DoneTerminal
    /\ WaitsBack
    /\ WaitCovers
    /\ SubmissionOrder
    /\ Retention
    /\ HasNewest

\* Every step of a job's goroutine that reports a state.
Reports(j) ==
    \/ Skip(j) \/ Start(j) \/ Resume(j)
    \/ \E q \in Questions : Ask(j, q)
    \/ \E ok \in BOOLEAN : Return(j, ok)

USE DEF JobIds, Submitted, Started, Active, Terminal, States

-----------------------------------------------------------------------------
\* What a report of job j changes: its state and prompt, and the jobs kept.
LEMMA ReportUpdates ==
    ASSUME NEW j \in JobIds, Reports(j), TypeOK
    PROVE  \E ph \in Started, qu \in Questions \cup {NoQuestion} :
             /\ state' = [state EXCEPT ![j] = ph]
             /\ prompt' = [prompt EXCEPT ![j] = qu]
             /\ jobs' = IF ph \in Terminal THEN jobs \ Replaced(j) ELSE jobs
             /\ qu # NoQuestion <=> ph = "awaiting_input"
             /\ state[j] \in {"queued", "running", "awaiting_input"}
             /\ state[j] = "queued" => wait[j] \subseteq done
             /\ UNCHANGED <<ids, lane, input, cancelled, wait, done, down>>
<1>1. CASE Skip(j)
  BY <1>1 DEF Skip, Update
<1>2. CASE Start(j)
  BY <1>2 DEF Start, Update
<1>3. CASE Resume(j)
  BY <1>3 DEF Resume, Update
<1>4. CASE \E q \in Questions : Ask(j, q)
  BY <1>4, NoQuestionAssumption DEF Ask, Update
<1>5. CASE \E ok \in BOOLEAN : Return(j, ok)
  <2>1. PICK ok \in BOOLEAN : Return(j, ok)
    BY <1>5
  <2>2. Outcome(j, ok) \in Terminal
    BY DEF Outcome
  <2>3. QED
    BY <2>1, <2>2 DEF Return, Update
<1>6. QED
  BY <1>1, <1>2, <1>3, <1>4, <1>5 DEF Reports

LEMMA NextCases ==
    ASSUME [Next]_vars
    PROVE  \/ \E c \in Conns : Submit(c)
           \/ \E j \in JobIds : Reports(j)
           \/ \E j \in JobIds : Input(j) \/ Take(j) \/ Close(j) \/ Cancel(j)
           \/ Stop
           \/ UNCHANGED vars
  BY DEF Next, Reports

-----------------------------------------------------------------------------
LEMMA TypeStep == TypeOK /\ [Next]_vars => TypeOK'
<1> SUFFICES ASSUME TypeOK, [Next]_vars PROVE TypeOK'
  OBVIOUS
<1> USE MaxJobsAssumption, NoConnAssumption, NoQuestionAssumption
<1>1. ASSUME NEW c \in Conns, Submit(c) PROVE TypeOK'
  <2>1. /\ ids' = ids + 1
        /\ ids' \in 0 .. MaxJobs
        /\ ids + 1 \in JobIds
    BY <1>1 DEF TypeOK, Submit
  <2>2. Newest(c) \in SUBSET JobIds
    <3>1. jobs \subseteq JobIds
      BY DEF TypeOK
    <3>2. QED
      BY <3>1 DEF Newest
  <2>3. /\ lane' \in [JobIds -> Conns \cup {NoConn}]
        /\ state' \in [JobIds -> States]
        /\ wait' \in [JobIds -> SUBSET JobIds]
        /\ prompt' \in [JobIds -> Questions \cup {NoQuestion}]
    BY <1>1, <2>1, <2>2 DEF TypeOK, Submit
  <2>4. /\ jobs' \subseteq Submitted'
        /\ input' \subseteq Submitted'
        /\ cancelled' \subseteq Submitted'
        /\ done' \subseteq Submitted'
        /\ down' \in BOOLEAN
    BY <1>1, <2>1 DEF TypeOK, Submit
  <2>5. \A j \in JobIds :
          /\ state'[j] = "none" <=> j > ids'
          /\ lane'[j] = NoConn <=> j > ids'
          /\ prompt'[j] # NoQuestion <=> state'[j] = "awaiting_input"
    BY <1>1, <2>1 DEF TypeOK, Submit
  <2>6. QED
    BY <2>1, <2>3, <2>4, <2>5 DEF TypeOK
<1>2. ASSUME NEW j \in JobIds, Reports(j) PROVE TypeOK'
  <2>1. PICK ph \in Started, qu \in Questions \cup {NoQuestion} :
             /\ state' = [state EXCEPT ![j] = ph]
             /\ prompt' = [prompt EXCEPT ![j] = qu]
             /\ jobs' = IF ph \in Terminal THEN jobs \ Replaced(j) ELSE jobs
             /\ qu # NoQuestion <=> ph = "awaiting_input"
             /\ state[j] \in {"queued", "running", "awaiting_input"}
             /\ UNCHANGED <<ids, lane, input, cancelled, wait, done, down>>
    BY <1>2, ReportUpdates
  <2>2. jobs' \subseteq jobs
    BY <2>1
  <2>3. QED
    BY <2>1, <2>2 DEF TypeOK
<1>3. ASSUME NEW j \in JobIds, Input(j) \/ Take(j) \/ Close(j) \/ Cancel(j)
      PROVE  TypeOK'
  <2>1. j \in Submitted
    BY <1>3 DEF TypeOK, Input, Take, Close, Cancel
  <2>2. /\ UNCHANGED <<ids, jobs, lane, state, prompt, wait, down>>
        /\ input' \subseteq input \cup {j}
        /\ cancelled' \subseteq cancelled \cup {j}
        /\ done' \subseteq done \cup {j}
    BY <1>3 DEF Input, Take, Close, Cancel
  <2>3. QED
    BY <2>1, <2>2 DEF TypeOK
<1>4. CASE Stop
  BY <1>4 DEF TypeOK, Stop
<1>5. CASE UNCHANGED vars
  BY <1>5 DEF TypeOK, vars
<1>6. QED
  BY <1>1, <1>2, <1>3, <1>4, <1>5, NextCases

LEMMA TypeInit == Init => TypeOK
<1> SUFFICES ASSUME Init PROVE TypeOK
  OBVIOUS
<1> USE MaxJobsAssumption, NoConnAssumption, NoQuestionAssumption
<1>1. ids \in 0 .. MaxJobs /\ \A j \in JobIds : j > ids
  BY DEF Init
<1>2. /\ jobs \subseteq Submitted /\ input \subseteq Submitted
      /\ cancelled \subseteq Submitted /\ done \subseteq Submitted
      /\ down \in BOOLEAN
  BY DEF Init
<1>3. /\ lane \in [JobIds -> Conns \cup {NoConn}]
      /\ state \in [JobIds -> States]
      /\ prompt \in [JobIds -> Questions \cup {NoQuestion}]
      /\ wait \in [JobIds -> SUBSET JobIds]
  BY DEF Init
<1>4. \A j \in JobIds :
        /\ state[j] = "none" <=> j > ids
        /\ lane[j] = NoConn <=> j > ids
        /\ prompt[j] # NoQuestion <=> state[j] = "awaiting_input"
  BY <1>1 DEF Init
<1>5. QED
  BY <1>1, <1>2, <1>3, <1>4 DEF TypeOK

\* The variables keep their types, and a prompt is on display exactly while the
\* job waits for input, whatever the command and the callers do.
THEOREM TypeCorrect == Spec => []TypeOK
<1>1. Init => TypeOK
  BY TypeInit
<1>2. TypeOK /\ [Next]_vars => TypeOK'
  BY TypeStep
<1>3. QED
  BY <1>1, <1>2, PTL DEF Spec

-----------------------------------------------------------------------------
\* A job that is not done and not terminal has only queued jobs behind it.
LEMMA LaterJobsQueued ==
    ASSUME TypeOK, DoneTerminal, SubmissionOrder,
           NEW j \in Submitted, state[j] \notin Terminal,
           NEW k \in Submitted, k > j, lane[k] = lane[j]
    PROVE  state[k] = "queued"
<1>1. j \notin done
  BY DEF DoneTerminal
<1>2. j \in 1 .. k - 1 /\ k \in JobIds
  BY MaxJobsAssumption DEF TypeOK
<1>3. state[k] \notin Started
  BY <1>1, <1>2 DEF SubmissionOrder
<1>4. QED
  BY <1>2, <1>3 DEF TypeOK

\* The terminal jobs that stay in the queue keep every job not done in it.
LEMMA UnfinishedKept ==
    ASSUME TypeOK, SubmissionOrder, Retention,
           NEW j \in Submitted, j \notin done
    PROVE  j \in jobs
<1>1. ASSUME NEW k \in Submitted, lane[k] = lane[j], k > j
      PROVE  state[k] \notin Terminal
  <2>1. j \in 1 .. k - 1
    BY <1>1 DEF TypeOK
  <2>2. QED
    BY <1>1, <2>1 DEF SubmissionOrder
<1>2. QED
  BY <1>1 DEF Retention

LEMMA SubmitStep ==
    ASSUME IInv, NEW c \in Conns, Submit(c)
    PROVE  DoneTerminal' /\ WaitsBack' /\ WaitCovers' /\ SubmissionOrder'
           /\ Retention' /\ HasNewest'
<1> DEFINE n == ids + 1
<1>1. /\ n \in JobIds /\ ids \in Nat /\ n \notin Submitted
      /\ Submitted' = Submitted \cup {n}
      /\ Submitted \subseteq JobIds
  BY MaxJobsAssumption DEF IInv, TypeOK, Submit
<1>2. \A j \in Submitted :
        /\ lane'[j] = lane[j] /\ state'[j] = state[j] /\ wait'[j] = wait[j]
  BY <1>1 DEF IInv, TypeOK, Submit
<1>3. /\ lane'[n] = c /\ state'[n] = "queued" /\ wait'[n] = Newest(c)
      /\ jobs' = jobs \cup {n} /\ done' = done
      /\ jobs \subseteq Submitted /\ done \subseteq Submitted
  BY <1>1 DEF IInv, TypeOK, Submit
<1>4. DoneTerminal'
  BY <1>2, <1>3 DEF IInv, DoneTerminal
<1>5. WaitsBack'
  <2>1. \A p \in Newest(c) : p \in 1 .. n - 1 /\ lane[p] = c
    <3>1. \A p \in Newest(c) : p \in jobs /\ lane[p] = c
      BY DEF Newest
    <3>2. \A p \in jobs : p \in 1 .. ids
      BY <1>3
    <3>3. 1 .. n - 1 = 1 .. ids
      BY <1>1
    <3>4. QED
      BY <3>1, <3>2, <3>3
  <2>3. ASSUME NEW j \in Submitted, NEW p \in wait'[j]
        PROVE  p \in 1 .. j - 1 /\ lane'[p] = lane'[j]
    BY <1>1, <1>2, <2>3 DEF IInv, WaitsBack
  <2>4. ASSUME NEW p \in wait'[n]
        PROVE  p \in 1 .. n - 1 /\ lane'[p] = lane'[n]
    BY <1>1, <1>2, <1>3, <2>1, <2>4
  <2>5. QED
    BY <1>1, <2>3, <2>4 DEF WaitsBack
<1>6. WaitCovers'
  <2>1. ASSUME NEW j \in Submitted, NEW i \in 1 .. j - 1,
               lane'[i] = lane'[j], i \notin done'
        PROVE  \E p \in wait'[j] : i <= p
    <3>1. i \in Submitted
      BY <1>1
    <3>2. QED
      BY <1>1, <1>2, <1>3, <2>1, <3>1 DEF IInv, WaitCovers
  <2>2. ASSUME NEW i \in 1 .. n - 1, lane'[i] = lane'[n], i \notin done'
        PROVE  \E p \in wait'[n] : i <= p
    <3>1. i \in Submitted /\ lane[i] = c /\ i \notin done
      BY <1>1, <1>2, <1>3, <2>2
    <3>2. i \in jobs
      BY <3>1, UnfinishedKept DEF IInv
    <3>3. PICK m \in jobs :
            lane[m] = c /\ \A k \in jobs : lane[k] = c => k <= m
      BY <3>1, <3>2 DEF IInv, HasNewest
    <3>4. m \in Newest(c) /\ i <= m
      BY <3>1, <3>2, <3>3 DEF Newest
    <3>5. QED
      BY <1>3, <3>4
  <2>3. QED
    BY <1>1, <2>1, <2>2 DEF WaitCovers
<1>7. SubmissionOrder'
  <2>1. ASSUME NEW j \in Submitted, state'[j] \in Started,
               NEW i \in 1 .. j - 1, lane'[i] = lane'[j]
        PROVE  i \in done'
    <3>1. i \in Submitted
      BY <1>1
    <3>2. QED
      BY <1>2, <1>3, <2>1, <3>1 DEF IInv, SubmissionOrder
  <2>2. state'[n] \notin Started
    BY <1>3
  <2>3. QED
    BY <1>1, <2>1, <2>2 DEF SubmissionOrder
<1>8. Retention'
  BY <1>1, <1>2, <1>3 DEF IInv, Retention
<1>9. HasNewest'
  <2>1. ASSUME NEW j \in jobs', lane'[j] = c
        PROVE  /\ n \in jobs' /\ lane'[n] = lane'[j]
               /\ \A k \in jobs' : lane'[k] = lane'[j] => k <= n
    <3>1. \A k \in jobs' : k <= n
      BY <1>1, <1>3
    <3>2. QED
      BY <1>3, <2>1, <3>1
  <2>2. ASSUME NEW j \in jobs, lane[j] # c
        PROVE  \E m \in jobs' : lane'[m] = lane'[j]
                  /\ \A k \in jobs' : lane'[k] = lane'[j] => k <= m
    <3>1. PICK m \in jobs :
            lane[m] = lane[j] /\ \A k \in jobs : lane[k] = lane[j] => k <= m
      BY DEF IInv, HasNewest
    <3>2. \A k \in jobs : k \in Submitted /\ lane'[k] = lane[k]
      BY <1>2, <1>3
    <3>3. \A k \in jobs' : lane'[k] = lane[j] => k \in jobs /\ lane[k] = lane[j]
      BY <1>3, <2>2, <3>2
    <3>4. QED
      BY <1>3, <3>1, <3>2, <3>3
  <2>3. ASSUME NEW j \in jobs'
        PROVE  \E m \in jobs' : lane'[m] = lane'[j]
                  /\ \A k \in jobs' : lane'[k] = lane'[j] => k <= m
    <3>1. CASE lane'[j] = c
      BY <2>1, <3>1
    <3>2. CASE lane'[j] # c
      <4>1. j \in jobs /\ lane[j] # c
        BY <1>2, <1>3, <3>2
      <4>2. QED
        BY <2>2, <4>1
    <3>3. QED
      BY <3>1, <3>2
  <2>4. QED
    BY <2>3 DEF HasNewest
<1>10. QED
  BY <1>4, <1>5, <1>6, <1>7, <1>8, <1>9

\* A job that may run has every earlier job of its connection done.
LEMMA HeadIsAlone ==
    ASSUME TypeOK, DoneTerminal, WaitsBack, WaitCovers, SubmissionOrder,
           NEW j \in Submitted,
           state[j] \in Started \/ wait[j] \subseteq done,
           NEW i \in 1 .. j - 1, lane[i] = lane[j]
    PROVE  i \in done
<1>1. CASE state[j] \in Started
  BY <1>1 DEF SubmissionOrder
<1>2. ASSUME wait[j] \subseteq done, i \notin done PROVE FALSE
  <2>1. PICK p \in wait[j] : i <= p
    BY <1>2 DEF WaitCovers
  <2>2. p \in done /\ p \in Submitted /\ lane[p] = lane[j]
    BY <1>2, <2>1 DEF WaitsBack, TypeOK
  <2>3. state[p] \in Started
    BY <2>2 DEF DoneTerminal
  <2>4. i # p
    BY <1>2, <2>2
  <2>5. i \in 1 .. p - 1
    BY <2>1, <2>2, <2>4 DEF TypeOK
  <2>6. QED
    BY <1>2, <2>2, <2>3, <2>5 DEF SubmissionOrder
<1>3. QED
  BY <1>1, <1>2

LEMMA ReportStep ==
    ASSUME IInv, NEW j \in JobIds, Reports(j)
    PROVE  DoneTerminal' /\ WaitsBack' /\ WaitCovers' /\ SubmissionOrder'
           /\ Retention' /\ HasNewest'
<1>1. PICK ph \in Started, qu \in Questions \cup {NoQuestion} :
             /\ state' = [state EXCEPT ![j] = ph]
             /\ prompt' = [prompt EXCEPT ![j] = qu]
             /\ jobs' = IF ph \in Terminal THEN jobs \ Replaced(j) ELSE jobs
             /\ state[j] \in {"queued", "running", "awaiting_input"}
             /\ state[j] = "queued" => wait[j] \subseteq done
             /\ UNCHANGED <<ids, lane, input, cancelled, wait, done, down>>
  BY ReportUpdates DEF IInv
<1>2. /\ j \in Submitted /\ state'[j] = ph /\ state[j] \notin Terminal
      /\ \A k \in Submitted : k # j => state'[k] = state[k]
      /\ Submitted' = Submitted /\ ids \in Nat
      /\ jobs \subseteq Submitted /\ done \subseteq Submitted
  BY <1>1, MaxJobsAssumption DEF IInv, TypeOK
<1>3. \A i \in 1 .. j - 1 : lane[i] = lane[j] => i \in done
  BY <1>1, <1>2, HeadIsAlone DEF IInv
<1>4. \A k \in Submitted : (lane[k] = lane[j] /\ k > j) => state[k] = "queued"
  BY <1>2, LaterJobsQueued DEF IInv
<1>5. DoneTerminal'
  BY <1>1, <1>2 DEF IInv, DoneTerminal
<1>6. WaitsBack' /\ WaitCovers'
  BY <1>1 DEF IInv, WaitsBack, WaitCovers
<1>7. SubmissionOrder'
  <2>1. ASSUME NEW m \in Submitted, state'[m] \in Started,
               NEW i \in 1 .. m - 1, lane[i] = lane[m]
        PROVE  i \in done
    <3>1. CASE m = j
      BY <1>3, <2>1, <3>1
    <3>2. CASE m # j
      BY <1>2, <2>1, <3>2 DEF IInv, SubmissionOrder
    <3>3. QED
      BY <3>1, <3>2
  <2>2. QED
    BY <1>1, <1>2, <2>1 DEF SubmissionOrder
<1>8. CASE ph \notin Terminal
  <2>1. jobs' = jobs /\ \A k \in Submitted :
                            state'[k] \in Terminal <=> state[k] \in Terminal
    BY <1>1, <1>2, <1>8
  <2>2. Retention'
    BY <1>1, <1>2, <2>1 DEF IInv, Retention
  <2>3. HasNewest'
    BY <1>1, <2>1 DEF IInv, HasNewest
  <2>4. QED
    BY <1>5, <1>6, <1>7, <2>2, <2>3
<1>9. CASE ph \in Terminal
  <2>1. \A k \in jobs : k \in jobs' <=>
          (k = j \/ lane[k] # lane[j] \/ state[k] \notin Terminal)
    BY <1>1, <1>2, <1>9 DEF Replaced
  <2>2. jobs' \subseteq jobs /\ j \in jobs
    BY <1>1, <1>2 DEF IInv, Retention
  <2>3. Retention'
    <3>1. ASSUME NEW m \in Submitted
          PROVE  m \in jobs' <=>
                   \/ state'[m] \notin Terminal
                   \/ \A k \in Submitted : (lane[k] = lane[m] /\ k > m) =>
                                               state'[k] \notin Terminal
      <4>1. CASE m = j
        BY <1>2, <1>4, <2>1, <2>2, <4>1
      <4>2. CASE m # j /\ lane[m] # lane[j]
        <5>1. \A k \in Submitted : lane[k] = lane[m] => state'[k] = state[k]
          BY <1>2, <4>2
        <5>2. m \in jobs' <=> m \in jobs
          BY <2>1, <2>2, <4>2
        <5>3. QED
          BY <5>1, <5>2 DEF IInv, Retention
      <4>3. CASE m # j /\ lane[m] = lane[j] /\ state[m] \notin Terminal
        BY <1>2, <2>1, <2>2, <4>3 DEF IInv, Retention
      <4>4. CASE m # j /\ lane[m] = lane[j] /\ state[m] \in Terminal
        <5>1. m < j
          BY <1>2, <1>4, <4>4
        <5>2. m \notin jobs'
          BY <2>1, <2>2, <4>4
        <5>3. QED
          BY <1>2, <1>9, <4>4, <5>1, <5>2
      <4>5. QED
        BY <4>1, <4>2, <4>3, <4>4
    <3>2. QED
      BY <1>1, <1>2, <3>1 DEF Retention
  <2>4. HasNewest'
    <3>1. ASSUME NEW i \in jobs'
          PROVE  \E m \in jobs' : lane[m] = lane[i]
                    /\ \A k \in jobs' : lane[k] = lane[i] => k <= m
      <4>1. PICK m \in jobs :
              lane[m] = lane[i] /\ \A k \in jobs : lane[k] = lane[i] => k <= m
        BY <2>2, <3>1 DEF IInv, HasNewest
      <4>2. m \in jobs'
        <5>1. CASE lane[m] # lane[j]
          BY <2>1, <5>1
        <5>2. CASE lane[m] = lane[j]
          <6>1. m = j \/ m > j
            BY <1>2, <2>2, <4>1, <5>2
          <6>2. m = j \/ state[m] = "queued"
            BY <1>2, <1>4, <5>2, <6>1
          <6>3. QED
            BY <2>1, <6>2
        <5>3. QED
          BY <5>1, <5>2
      <4>3. QED
        BY <2>2, <4>1, <4>2
    <3>2. QED
      BY <1>1, <3>1 DEF HasNewest
  <2>5. QED
    BY <1>5, <1>6, <1>7, <2>3, <2>4
<1>10. QED
  BY <1>8, <1>9

\* The steps that touch only channels and contexts.
LEMMA OtherStep ==
    ASSUME IInv, NEW j \in JobIds, Input(j) \/ Take(j) \/ Close(j) \/ Cancel(j)
    PROVE  DoneTerminal' /\ WaitsBack' /\ WaitCovers' /\ SubmissionOrder'
           /\ Retention' /\ HasNewest'
<1>1. /\ UNCHANGED <<ids, jobs, lane, state, wait>>
      /\ done \subseteq done'
      /\ \A k \in done' : k \in done \/ state[k] \in Terminal
  BY DEF Input, Take, Close, Cancel
<1>2. QED
  BY <1>1 DEF IInv, DoneTerminal, WaitsBack, WaitCovers, SubmissionOrder,
              Retention, HasNewest

LEMMA InvariantStep == IInv /\ [Next]_vars => IInv'
<1> SUFFICES ASSUME IInv, [Next]_vars PROVE IInv'
  OBVIOUS
<1>1. TypeOK'
  BY TypeStep DEF IInv
<1>2. CASE \E c \in Conns : Submit(c)
  BY <1>1, <1>2, SubmitStep DEF IInv
<1>3. CASE \E j \in JobIds : Reports(j)
  BY <1>1, <1>3, ReportStep DEF IInv
<1>4. CASE \E j \in JobIds : Input(j) \/ Take(j) \/ Close(j) \/ Cancel(j)
  BY <1>1, <1>4, OtherStep DEF IInv
<1>5. CASE Stop \/ UNCHANGED vars
  BY <1>1, <1>5 DEF IInv, Stop, vars, DoneTerminal, WaitsBack, WaitCovers,
                    SubmissionOrder, Retention, HasNewest
<1>6. QED
  BY <1>2, <1>3, <1>4, <1>5, NextCases

LEMMA InvariantInit == Init => IInv
<1> SUFFICES ASSUME Init PROVE IInv
  OBVIOUS
<1>1. Submitted = {} /\ jobs = {} /\ done = {}
  BY DEF Init
<1>2. QED
  BY <1>1, TypeInit DEF IInv, DoneTerminal, WaitsBack, WaitCovers,
                        SubmissionOrder, Retention, HasNewest

\* The queue keeps its inductive invariant: one wait per job covers all the
\* earlier jobs of its lane.
THEOREM Invariance == Spec => []IInv
<1>1. Init => IInv
  BY InvariantInit
<1>2. IInv /\ [Next]_vars => IInv'
  BY InvariantStep
<1>3. QED
  BY <1>1, <1>2, PTL DEF Spec

\* One channel per job is enough: jobs of a connection run one after the other,
\* in the order they were submitted, whatever is pruned meanwhile.
THEOREM RunsInSubmissionOrder == Spec => []SubmissionOrder
<1>1. IInv => SubmissionOrder
  BY DEF IInv
<1>2. QED
  BY <1>1, Invariance, PTL

\* The queue keeps every unfinished job and the last finished job of each
\* connection, and no other: no job is lost and none accumulates.
THEOREM KeepsExactly == Spec => []Retention
<1>1. IInv => Retention
  BY DEF IInv
<1>2. QED
  BY <1>1, Invariance, PTL

-----------------------------------------------------------------------------
(* The queue implements JobLanes. *)

LEMMA LanesInit == Init => Lanes!LInit
<1> SUFFICES ASSUME Init PROVE Lanes!LInit
  OBVIOUS
<1>1. \A c \in Conns, j \in JobIds : lane[j] # c
  BY NoConnAssumption DEF Init
<1>2. LanePending = [c \in Conns |-> {}]
  BY <1>1 DEF LanePending
<1>3. LaneServing = [c \in Conns |-> {}]
  BY <1>1 DEF LaneServing
<1>4. QED
  BY <1>2, <1>3 DEF Init, Lanes!LInit

LEMMA LanesArrive ==
    ASSUME IInv, NEW c \in Conns, Submit(c)
    PROVE  Lanes!Arrive(c)
<1> DEFINE n == ids + 1
<1>1. /\ n \in JobIds /\ n \notin done
      /\ lane[n] = NoConn /\ state[n] = "none"
  BY MaxJobsAssumption DEF IInv, TypeOK, Submit
<1>2. /\ lane' = [lane EXCEPT ![n] = c] /\ state' = [state EXCEPT ![n] = "queued"]
      /\ done' = done /\ ids' = n
      /\ lane \in [JobIds -> Conns \cup {NoConn}] /\ state \in [JobIds -> States]
  BY DEF Submit, IInv, TypeOK
<1>3. \A j \in JobIds : j # n => lane'[j] = lane[j] /\ state'[j] = state[j]
  BY <1>2
<1>4. lane'[n] = c /\ state'[n] = "queued"
  BY <1>1, <1>2
<1>5. ASSUME NEW d \in Conns
      PROVE  {j \in JobIds : lane'[j] = d /\ state'[j] = "queued"}
               = IF d = c THEN LanePending[d] \cup {n} ELSE LanePending[d]
  BY <1>1, <1>3, <1>4, NoConnAssumption DEF LanePending
<1>6. ASSUME NEW d \in Conns
      PROVE  {j \in JobIds : lane'[j] = d /\ state'[j] \in Started /\ j \notin done'}
               = LaneServing[d]
  BY <1>1, <1>2, <1>3, <1>4, NoConnAssumption DEF LaneServing
<1>7. LanePending' = [LanePending EXCEPT ![c] = @ \cup {n}]
  BY <1>5 DEF LanePending
<1>8. LaneServing' = LaneServing
  BY <1>6 DEF LaneServing
<1>9. QED
  BY <1>2, <1>7, <1>8 DEF Lanes!Arrive

LEMMA LanesReport ==
    ASSUME IInv, NEW j \in JobIds, Reports(j)
    PROVE  \/ Lanes!Serve(lane[j]) /\ lane[j] \in Conns
           \/ UNCHANGED <<ids, LanePending, LaneServing>>
<1>1. PICK ph \in Started, qu \in Questions \cup {NoQuestion} :
             /\ state' = [state EXCEPT ![j] = ph]
             /\ state[j] \in {"queued", "running", "awaiting_input"}
             /\ state[j] = "queued" => wait[j] \subseteq done
             /\ UNCHANGED <<ids, lane, input, cancelled, wait, done, down>>
  BY ReportUpdates DEF IInv
<1>2. /\ j \in Submitted /\ state'[j] = ph /\ lane[j] \in Conns
      /\ \A k \in JobIds : k # j => state'[k] = state[k]
      /\ j \notin done
  BY <1>1, MaxJobsAssumption DEF IInv, TypeOK, DoneTerminal
<1>3. CASE state[j] # "queued"
  <2>1. \A k \in JobIds : /\ state'[k] = "queued" <=> state[k] = "queued"
                          /\ state'[k] \in Started <=> state[k] \in Started
    BY <1>1, <1>2, <1>3
  <2>2. LanePending' = LanePending /\ LaneServing' = LaneServing
    BY <1>1, <2>1 DEF LanePending, LaneServing
  <2>3. QED
    BY <1>1, <2>2
<1>4. CASE state[j] = "queued"
  <2> DEFINE c == lane[j]
  <2>1. \A k \in JobIds : (lane[k] = c /\ k \notin done) =>
            k >= j /\ k \in Submitted
    <3>1. SUFFICES ASSUME NEW k \in JobIds, lane[k] = c, k \notin done
                   PROVE  k >= j /\ k \in Submitted
      OBVIOUS
    <3>2. k \in Submitted
      BY <1>2, <3>1, NoConnAssumption DEF IInv, TypeOK
    <3>3. k \notin 1 .. j - 1
      BY <1>1, <1>2, <1>4, <3>1, HeadIsAlone DEF IInv
    <3>4. QED
      BY <1>2, <3>2, <3>3
  <2>2. \A k \in JobIds : (lane[k] = c /\ k \notin done /\ k # j) =>
            state[k] = "queued"
    <3>1. SUFFICES ASSUME NEW k \in JobIds, lane[k] = c, k \notin done, k # j
                   PROVE  state[k] = "queued"
      OBVIOUS
    <3>2. k > j /\ k \in Submitted
      BY <1>2, <2>1, <3>1
    <3>3. QED
      BY <1>2, <1>4, <3>1, <3>2, LaterJobsQueued DEF IInv
  <2>3. LaneServing[c] = {}
    BY <1>2, <1>4, <2>2 DEF LaneServing
  <2>4. j \in LanePending[c] /\ \A k \in LanePending[c] : j <= k
    <3>1. \A k \in JobIds : state[k] = "queued" => k \notin done
      BY DEF IInv, DoneTerminal
    <3>2. QED
      BY <1>2, <1>4, <2>1, <3>1 DEF LanePending
  <2>5. LanePending' = [LanePending EXCEPT ![c] = @ \ {j}]
    <3>1. \A d \in Conns :
            {k \in JobIds : lane'[k] = d /\ state'[k] = "queued"}
              = IF d = c THEN LanePending[d] \ {j} ELSE LanePending[d]
      BY <1>1, <1>2 DEF LanePending
    <3>2. QED
      BY <3>1 DEF LanePending
  <2>6. LaneServing' = [LaneServing EXCEPT ![c] = {j}]
    <3>1. \A d \in Conns :
            {k \in JobIds : lane'[k] = d /\ state'[k] \in Started /\ k \notin done'}
              = IF d = c THEN {j} ELSE LaneServing[d]
      BY <1>1, <1>2, <2>2 DEF LaneServing
    <3>2. QED
      BY <3>1 DEF LaneServing
  <2>7. QED
    BY <1>1, <1>2, <2>3, <2>4, <2>5, <2>6 DEF Lanes!Serve
<1>5. QED
  BY <1>3, <1>4

LEMMA LanesFinish ==
    ASSUME IInv, NEW j \in JobIds, Close(j)
    PROVE  Lanes!Finish(lane[j]) /\ lane[j] \in Conns
<1> DEFINE c == lane[j]
<1>1. /\ j \in Submitted /\ c \in Conns /\ state[j] \in Terminal /\ j \notin done
      /\ done' = done \cup {j} /\ UNCHANGED <<ids, lane, state>>
  BY MaxJobsAssumption DEF Close, IInv, TypeOK
<1>2. ASSUME NEW k \in JobIds, lane[k] = c, state[k] \in Started, k \notin done
      PROVE  k = j
  <2>1. k \in Submitted
    BY <1>2 DEF IInv, TypeOK
  <2>2. ~(k \in 1 .. j - 1) /\ ~(j \in 1 .. k - 1)
    BY <1>1, <1>2, <2>1 DEF IInv, SubmissionOrder
  <2>3. QED
    BY <1>1, <2>1, <2>2
<1>3. j \in LaneServing[c]
  BY <1>1 DEF LaneServing
<1>4. LanePending' = LanePending
  BY <1>1 DEF LanePending
<1>5. LaneServing' = [LaneServing EXCEPT ![c] = {}]
  <2>1. \A d \in Conns :
          {k \in JobIds : lane'[k] = d /\ state'[k] \in Started /\ k \notin done'}
            = IF d = c THEN {} ELSE LaneServing[d]
    BY <1>1, <1>2 DEF LaneServing
  <2>2. QED
    BY <2>1 DEF LaneServing
<1>6. QED
  BY <1>1, <1>3, <1>4, <1>5 DEF Lanes!Finish

LEMMA LanesStep == IInv /\ [Next]_vars => [Lanes!LNext]_(Lanes!laneVars)
<1> SUFFICES ASSUME IInv, [Next]_vars
             PROVE  [Lanes!LNext]_(Lanes!laneVars)
  OBVIOUS
<1> USE DEF Lanes!LNext, Lanes!laneVars
<1>1. CASE \E c \in Conns : Submit(c)
  BY <1>1, LanesArrive
<1>2. CASE \E j \in JobIds : Reports(j)
  BY <1>2, LanesReport
<1>3. ASSUME NEW j \in JobIds, Close(j) PROVE Lanes!LNext
  BY <1>3, LanesFinish
<1>4. CASE (\E j \in JobIds : Input(j) \/ Take(j) \/ Cancel(j)) \/ Stop
           \/ UNCHANGED vars
  <2>1. UNCHANGED <<ids, lane, state, done>>
    BY <1>4 DEF Input, Take, Cancel, Stop, vars
  <2>2. LanePending' = LanePending /\ LaneServing' = LaneServing
    BY <2>1 DEF LanePending, LaneServing
  <2>3. QED
    BY <2>1, <2>2
<1>5. QED
  BY <1>1, <1>2, <1>3, <1>4, NextCases

\* The queue serves every lane one job at a time, oldest first.
THEOREM ImplementsLanes == Spec => LanesSpec
<1>1. Init => Lanes!LInit
  BY LanesInit
<1>2. IInv /\ [Next]_vars => [Lanes!LNext]_(Lanes!laneVars)
  BY LanesStep
<1>3. QED
  BY <1>1, <1>2, Invariance, PTL DEF Spec, LanesSpec, Lanes!LSpec
=============================================================================
