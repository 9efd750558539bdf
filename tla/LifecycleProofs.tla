-------------------------- MODULE LifecycleProofs --------------------------
(***************************************************************************)
(* Theorems about Lifecycle for any number of starters, daemons, jobs,      *)
(* builds and faults.                                                       *)
(***************************************************************************)
EXTENDS Lifecycle, TLAPS

\* What starters and shutdown requests know of are jobs that were submitted, and
\* none of them is still unfinished, in any daemon.
KnownOver ==
    /\ \A d \in Daemons : jobs[d] \subseteq used /\ told[d] \subseteq used
    /\ \A s \in Starters : known[s] \subseteq used
    /\ \A d \in Daemons : told[d] \cap jobs[d] = {}
    /\ \A s \in Starters, d \in Daemons : known[s] \cap jobs[d] = {}

IInv == TypeOK /\ OwnSocket /\ KnownOver

USE DEF starterVars, daemonVars, Steps, Stages

-----------------------------------------------------------------------------
\* The lock separates daemons.
LEMMA LockSeparates ==
    ASSUME TypeOK
    PROVE  OneDaemon
BY NobodyAssumption DEF TypeOK, OneDaemon

\* The steps of a starter or of its popup.
LEMMA StarterSteps ==
    ASSUME NEW s \in Starters, Open(s) \/ Ensure(s) \/ Popup(s), TypeOK
    PROVE  TypeOK'
<1> USE NobodyAssumption DEF TypeOK
<1>1. CASE Open(s)
  BY <1>1 DEF Open, Goes
<1>2. CASE Ping(s)
  BY <1>2 DEF Ping, Goes, Answers
<1>3. CASE PingFails(s)
  BY <1>3 DEF PingFails, Goes
<1>4. CASE List(s)
  BY <1>4 DEF List, Goes, Answers
<1>5. CASE ListFails(s)
  BY <1>5 DEF ListFails, Goes, Leaves
<1>6. CASE Shutdown(s)
  BY <1>6 DEF Shutdown, Goes, Answers
<1>7. CASE WaitGone(s)
  BY <1>7 DEF WaitGone, Goes
<1>8. CASE Spawn(s)
  BY <1>8 DEF Spawn, Goes
<1>9. CASE Poll(s)
  BY <1>9 DEF Poll, Goes
<1>10. CASE PollFails(s)
  BY <1>10 DEF PollFails, Goes, Leaves
<1>11. CASE Done(s)
  BY <1>11 DEF Done, Goes, Leaves
<1>12. CASE Subscribe(s)
  BY <1>12 DEF Subscribe, Answers
<1>13. CASE Submit(s)
  BY <1>13 DEF Submit, Answers
<1>14. CASE Close(s)
  BY <1>14 DEF Close, Goes, Leaves
<1> QED
  BY <1>1, <1>2, <1>3, <1>4, <1>5, <1>6, <1>7, <1>8, <1>9, <1>10, <1>11, <1>12, <1>13, <1>14 DEF Ensure, Popup

\* The steps of a daemon.
LEMMA DaemonSteps ==
    ASSUME NEW d \in Daemons, TypeOK,
           Run(d) \/ JobEnds(d) \/ RunFails(d) \/ Signal(d) \/ Crash(d)
    PROVE  TypeOK'
<1> USE NobodyAssumption DEF TypeOK
<1>1. CASE Lock(d)
  BY <1>1 DEF Lock, Moves
<1>2. CASE Conflict(d)
  BY <1>2 DEF Conflict, Ends
<1>3. CASE RunFails(d)
  BY <1>3 DEF RunFails, Ends
<1>4. CASE Clear(d)
  BY <1>4 DEF Clear, Moves
<1>5. CASE Bind(d)
  <2>1. CASE file = Nobody
    BY <1>5, <2>1 DEF Bind, Moves
  <2>2. CASE file # Nobody
    <3>1. Ends(d) /\ UNCHANGED <<disk, step, own, known, file, faults, used, killed>>
      BY <1>5, <2>2 DEF Bind
    <3> QED
      BY <3>1 DEF Ends
  <2> QED
    BY <2>1, <2>2
<1>6. CASE Serve(d)
  BY <1>6 DEF Serve, Moves
<1>7. CASE JobEnds(d)
  BY <1>7 DEF JobEnds
<1>8. CASE Stop(d)
  BY <1>8 DEF Stop
<1>9. CASE Signal(d)
  BY <1>9 DEF Signal
<1>10. CASE CloseListener(d)
  BY <1>10 DEF CloseListener, Moves
<1>11. CASE CloseConns(d)
  BY <1>11 DEF CloseConns
<1>12. CASE Exit(d)
  BY <1>12 DEF Exit, Ends
<1>13. CASE Crash(d)
  BY <1>13 DEF Crash, Ends
<1> QED
  BY <1>1, <1>2, <1>3, <1>4, <1>5, <1>6, <1>7, <1>8, <1>9, <1>10, <1>11, <1>12, <1>13 DEF Run

-----------------------------------------------------------------------------
\* The path: only the daemon that holds the lock removes or binds it.
LEMMA SocketKept ==
    ASSUME TypeOK, OwnSocket, Next
    PROVE  OwnSocket'
<1> USE NobodyAssumption DEF TypeOK, OwnSocket
<1>1. ASSUME NEW s \in Starters, Open(s) \/ Ensure(s) \/ Popup(s)
      PROVE  OwnSocket'
  BY <1>1 DEF Ensure, Popup, Open, Ping, PingFails, List, ListFails, Shutdown, WaitGone, Spawn, Poll, PollFails, Done, Subscribe, Submit, Close
<1>2. ASSUME NEW d \in Daemons, Lock(d)
      PROVE  OwnSocket'
  BY <1>2 DEF Lock, Moves
<1>3. ASSUME NEW d \in Daemons, Conflict(d)
      PROVE  OwnSocket'
  BY <1>3 DEF Conflict, Ends
<1>4. ASSUME NEW d \in Daemons, RunFails(d)
      PROVE  OwnSocket'
  BY <1>4 DEF RunFails, Ends
<1>5. ASSUME NEW d \in Daemons, Clear(d)
      PROVE  OwnSocket'
  BY <1>5 DEF Clear, Moves
<1>6. ASSUME NEW d \in Daemons, Bind(d)
      PROVE  OwnSocket'
  BY <1>6 DEF Bind, Moves, Ends
<1>7. ASSUME NEW d \in Daemons, Serve(d)
      PROVE  OwnSocket'
  BY <1>7 DEF Serve, Moves
<1>8. ASSUME NEW d \in Daemons, JobEnds(d)
      PROVE  OwnSocket'
  BY <1>8 DEF JobEnds
<1>9. ASSUME NEW d \in Daemons, Stop(d)
      PROVE  OwnSocket'
  BY <1>9 DEF Stop
<1>10. ASSUME NEW d \in Daemons, Signal(d)
      PROVE  OwnSocket'
  BY <1>10 DEF Signal
<1>11. ASSUME NEW d \in Daemons, CloseListener(d)
      PROVE  OwnSocket'
  BY <1>11 DEF CloseListener, Moves
<1>12. ASSUME NEW d \in Daemons, CloseConns(d)
      PROVE  OwnSocket'
  BY <1>12 DEF CloseConns
<1>13. ASSUME NEW d \in Daemons, Exit(d)
      PROVE  OwnSocket'
  BY <1>13 DEF Exit, Ends
<1>14. ASSUME NEW d \in Daemons, Crash(d)
      PROVE  OwnSocket'
  BY <1>14 DEF Crash, Ends
<1>15. CASE Rebuild
  BY <1>15 DEF Rebuild
<1> QED
  BY <1>1, <1>2, <1>3, <1>4, <1>5, <1>6, <1>7, <1>8, <1>9, <1>10, <1>11, <1>12, <1>13, <1>14, <1>15 DEF Next, Run

-----------------------------------------------------------------------------
\* A list without unfinished jobs means that no job at all is unfinished: other
\* daemons have none.
LEMMA ListedIsAll ==
    ASSUME TypeOK, NEW d \in Daemons, Answers(d), jobs[d] = {}
    PROVE  \A e \in Daemons : jobs[e] = {}
BY NobodyAssumption DEF TypeOK, Answers

LEMMA KnownStaysOver ==
    ASSUME TypeOK, KnownOver, Next
    PROVE  KnownOver'
<1> USE NobodyAssumption DEF TypeOK, KnownOver
<1>1. ASSUME NEW s \in Starters, Open(s)
      PROVE  KnownOver'
  BY <1>1 DEF Open, Goes
<1>2. ASSUME NEW s \in Starters, Ping(s)
      PROVE  KnownOver'
  BY <1>2 DEF Ping, Goes, Answers
<1>3. ASSUME NEW s \in Starters, PingFails(s)
      PROVE  KnownOver'
  BY <1>3 DEF PingFails, Goes
<1>4. ASSUME NEW s \in Starters, List(s)
      PROVE  KnownOver'
  <2>1. PICK d \in Daemons :
            /\ Answers(d)
            /\ jobs[d] = {} \/ step'[s] = "ok"
    BY <1>4 DEF List, Goes
  <2>2. CASE jobs[d] = {}
    <3>1. \A e \in Daemons : jobs[e] = {}
      BY <2>1, <2>2, ListedIsAll
    <3> QED
      BY <1>4, <3>1 DEF List
  <2>3. CASE step'[s] = "ok"
    BY <1>4, <2>3 DEF List
  <2> QED
    BY <2>1, <2>2, <2>3
<1>5. ASSUME NEW s \in Starters, ListFails(s)
      PROVE  KnownOver'
  BY <1>5 DEF ListFails, Goes, Leaves
<1>6. ASSUME NEW s \in Starters, Shutdown(s)
      PROVE  KnownOver'
  BY <1>6 DEF Shutdown, Goes, Answers
<1>7. ASSUME NEW s \in Starters, WaitGone(s)
      PROVE  KnownOver'
  BY <1>7 DEF WaitGone, Goes
<1>8. ASSUME NEW s \in Starters, Spawn(s)
      PROVE  KnownOver'
  BY <1>8 DEF Spawn, Goes
<1>9. ASSUME NEW s \in Starters, Poll(s)
      PROVE  KnownOver'
  BY <1>9 DEF Poll, Goes
<1>10. ASSUME NEW s \in Starters, PollFails(s)
      PROVE  KnownOver'
  BY <1>10 DEF PollFails, Goes, Leaves
<1>11. ASSUME NEW s \in Starters, Done(s)
      PROVE  KnownOver'
  BY <1>11 DEF Done, Goes, Leaves
<1>12. ASSUME NEW s \in Starters, Subscribe(s)
      PROVE  KnownOver'
  BY <1>12 DEF Subscribe, Answers
<1>13. ASSUME NEW s \in Starters, Submit(s)
      PROVE  KnownOver'
  BY <1>13 DEF Submit, Answers
<1>14. ASSUME NEW s \in Starters, Close(s)
      PROVE  KnownOver'
  BY <1>14 DEF Close, Goes, Leaves
<1>15. ASSUME NEW d \in Daemons, Lock(d)
      PROVE  KnownOver'
  BY <1>15 DEF Lock, Moves
<1>16. ASSUME NEW d \in Daemons, Conflict(d)
      PROVE  KnownOver'
  BY <1>16 DEF Conflict, Ends
<1>17. ASSUME NEW d \in Daemons, RunFails(d)
      PROVE  KnownOver'
  BY <1>17 DEF RunFails, Ends
<1>18. ASSUME NEW d \in Daemons, Clear(d)
      PROVE  KnownOver'
  BY <1>18 DEF Clear, Moves
<1>19. ASSUME NEW d \in Daemons, Bind(d)
      PROVE  KnownOver'
  <2>1. CASE file = Nobody
    BY <1>19, <2>1 DEF Bind, Moves
  <2>2. CASE file # Nobody
    <3>1. Ends(d) /\ UNCHANGED <<disk, step, own, known, file, faults, used, killed>>
      BY <1>19, <2>2 DEF Bind
    <3> QED
      BY <3>1 DEF Ends
  <2> QED
    BY <2>1, <2>2
<1>20. ASSUME NEW d \in Daemons, Serve(d)
      PROVE  KnownOver'
  BY <1>20 DEF Serve, Moves
<1>21. ASSUME NEW d \in Daemons, JobEnds(d)
      PROVE  KnownOver'
  BY <1>21 DEF JobEnds
<1>22. ASSUME NEW d \in Daemons, Stop(d)
      PROVE  KnownOver'
  BY <1>22 DEF Stop
<1>23. ASSUME NEW d \in Daemons, Signal(d)
      PROVE  KnownOver'
  BY <1>23 DEF Signal
<1>24. ASSUME NEW d \in Daemons, CloseListener(d)
      PROVE  KnownOver'
  BY <1>24 DEF CloseListener, Moves
<1>25. ASSUME NEW d \in Daemons, CloseConns(d)
      PROVE  KnownOver'
  BY <1>25 DEF CloseConns
<1>26. ASSUME NEW d \in Daemons, Exit(d)
      PROVE  KnownOver'
  BY <1>26 DEF Exit, Ends
<1>27. ASSUME NEW d \in Daemons, Crash(d)
      PROVE  KnownOver'
  BY <1>27 DEF Crash, Ends
<1>28. CASE Rebuild
  BY <1>28 DEF Rebuild
<1> QED
  BY <1>1, <1>2, <1>3, <1>4, <1>5, <1>6, <1>7, <1>8, <1>9, <1>10, <1>11, <1>12, <1>13, <1>14,
     <1>15, <1>16, <1>17, <1>18, <1>19, <1>20, <1>21, <1>22, <1>23, <1>24, <1>25, <1>26, <1>27, <1>28
     DEF Next, Ensure, Popup, Run

-----------------------------------------------------------------------------
LEMMA Invariance == Spec => []IInv
<1>1. Init => IInv
  BY NobodyAssumption DEF Init, IInv, TypeOK, OwnSocket, KnownOver
<1>2. ASSUME IInv, [Next]_vars
      PROVE  IInv'
  <2>1. CASE Next
    <3>1. TypeOK'
      <4>1. ASSUME NEW s \in Starters, Open(s) \/ Ensure(s) \/ Popup(s)
            PROVE  TypeOK'
        BY <1>2, <4>1, StarterSteps DEF IInv
      <4>2. ASSUME NEW d \in Daemons,
                   Run(d) \/ JobEnds(d) \/ RunFails(d) \/ Signal(d) \/ Crash(d)
            PROVE  TypeOK'
        BY <1>2, <4>2, DaemonSteps DEF IInv
      <4>3. CASE Rebuild
        BY <1>2, <4>3 DEF Rebuild, IInv, TypeOK
      <4> QED
        BY <2>1, <4>1, <4>2, <4>3 DEF Next
    <3>2. OwnSocket'
      BY <1>2, <2>1, SocketKept DEF IInv
    <3>3. KnownOver'
      BY <1>2, <2>1, KnownStaysOver DEF IInv
    <3> QED
      BY <3>1, <3>2, <3>3 DEF IInv
  <2>2. CASE UNCHANGED vars
    BY <1>2, <2>2 DEF vars, IInv, TypeOK, OwnSocket, KnownOver
  <2> QED
    BY <1>2, <2>1, <2>2
<1> QED
  BY <1>1, <1>2, PTL DEF Spec

\* Every variable of a lifecycle stays in its type, and the lock stays with the
\* daemon that got past it.
THEOREM TypeCorrect == Spec => []TypeOK
<1>1. IInv => TypeOK
  BY DEF IInv
<1> QED
  BY <1>1, Invariance, PTL

\* A daemon that listens is reachable at its path for as long as it listens.
THEOREM SocketIsOwn == Spec => []OwnSocket
<1>1. IInv => OwnSocket
  BY DEF IInv
<1> QED
  BY <1>1, Invariance, PTL

\* At most one daemon is past the lock.
THEOREM SingleInstance == Spec => []OneDaemon
<1>1. IInv => OneDaemon
  BY LockSeparates DEF IInv
<1> QED
  BY <1>1, Invariance, PTL

\* A shutdown ends no job that had been submitted when its sender read the list.
THEOREM KnownJobsSpared == Spec => []SparesKnownJobs
<1>1. IInv => SparesKnownJobs
  BY DEF IInv, KnownOver, SparesKnownJobs
<1> QED
  BY <1>1, Invariance, PTL
=============================================================================
