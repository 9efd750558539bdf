---------------------------- MODULE DaemonProofs ----------------------------
(***************************************************************************)
(* Theorems about Daemon for any number of requests, connections, machines, *)
(* failures, changes by others and crashes: connects and disconnects are    *)
(* coalesced, no machine is shown twice, a reconnect removes the endpoint   *)
(* that it replaces, the store claims a machine once unless saves of one    *)
(* connection overlap or it is forgotten during one, and a refresh changes  *)
(* no setting unless a save overtakes it.                                   *)
(***************************************************************************)
EXTENDS Daemon, SequenceLemmas

IsHandler(r) == {"pc", "op", "conn", "previous"} \subseteq DOMAIN r

IsJob(r) == {"pc", "conn", "kind", "reconnect", "onlyIdle", "profile"} \subseteq DOMAIN r

\* Handlers and jobs are records, whatever their fields hold.
Records ==
    /\ req = [h \in Requests |-> req[h]]
    /\ \A h \in Requests : IsHandler(req[h])
    /\ job = [j \in Jobs |-> job[j]]
    /\ \A j \in Jobs : IsJob(job[j])

\* The handlers past their submission.
Past == {h \in Requests : req[h].pc \in {"refresh", "done"}}

\* A request submits at most one job, so job numbers never run out.
JobsNumbered ==
    /\ submitted \in Nat
    /\ submitted <= Cardinality(Past)

\* submitMu has one holder, and what it checked stays true.
LockHeld ==
    /\ \A g, h \in Requests : req[g].pc = "enqueue" /\ req[h].pc = "enqueue" => g = h
    /\ \A h \in Requests :
        req[h].pc = "enqueue" /\ OnlyIdle(h) => ~ Busy(req[h].conn.id)

IInv == Records /\ JobsNumbered /\ LockHeld /\ Coalesced

USE DEF queueVars, herdrVars, ghosts, budgets

-----------------------------------------------------------------------------
(* Jobs are numbered within bounds *)

LEMMA PastFinite ==
    /\ IsFiniteSet(Requests) /\ Cardinality(Requests) = MaxRequests
    /\ IsFiniteSet(Past) /\ Cardinality(Past) \in Nat
    /\ MaxRequests \in Nat
<1>1. MaxRequests \in Nat
  BY BoundsAssumption
<1>2. IsFiniteSet(1 .. MaxRequests) /\ Cardinality(1 .. MaxRequests) = MaxRequests
  BY <1>1, FS_Interval
<1>3. Past \subseteq Requests
  BY DEF Past
<1> QED
  BY <1>1, <1>2, <1>3, FS_Subset, FS_CardinalityType DEF Requests

\* Handlers never go back before their submission.
LEMMA PastGrows ==
    ASSUME JobsNumbered, submitted' = submitted, Past \subseteq Past', Past' \subseteq Requests
    PROVE  JobsNumbered'
<1>1. IsFiniteSet(Past')
  BY PastFinite, FS_Subset
<1>2. Cardinality(Past) <= Cardinality(Past') /\ Cardinality(Past') \in Nat
  BY <1>1, FS_Subset, FS_CardinalityType
<1>3. Cardinality(Past) \in Nat
  BY PastFinite
<1> QED
  BY <1>2, <1>3 DEF JobsNumbered

\* There is a number left for the job of a handler that did not submit it yet.
LEMMA NumberLeft ==
    ASSUME JobsNumbered, NEW h \in Requests, h \notin Past
    PROVE  submitted + 1 \in Jobs
<1>1. Past \subseteq Requests \ {h}
  BY DEF Past
<1>2. /\ IsFiniteSet(Requests \ {h})
      /\ Cardinality(Requests \ {h}) = MaxRequests - 1
  BY PastFinite, FS_RemoveElement
<1>3. Cardinality(Past) <= MaxRequests - 1
  BY <1>1, <1>2, FS_Subset
<1> QED
  BY <1>3, PastFinite DEF JobsNumbered, Jobs

LEMMA NumberedJobs ==
    ASSUME JobsNumbered
    PROVE  1 .. submitted \subseteq Jobs /\ submitted \in Nat
<1>1. Past \subseteq Requests
  BY DEF Past
<1>2. Cardinality(Past) <= MaxRequests
  BY <1>1, PastFinite, FS_Subset
<1> QED
  BY <1>2, PastFinite DEF JobsNumbered, Jobs

-----------------------------------------------------------------------------
(* Steps *)

\* A step in which no handler gets or changes what it holds submitMu for, and no
\* job goes back or changes its connection.
Harmless ==
    /\ Records'
    /\ submitted' = submitted
    /\ \A h \in Requests :
        /\ req'[h].pc = "enqueue" => req'[h] = req[h]
        /\ h \in Past => req'[h].pc \in {"refresh", "done"}
    /\ \A j \in 1 .. submitted :
        \/ job'[j].pc \in {"report", "closed"}
        \/ /\ ~ Terminal(j)
           /\ job'[j].conn = job[j].conn /\ job'[j].onlyIdle = job[j].onlyIdle

LEMMA HarmlessKeeps ==
    ASSUME IInv, Harmless
    PROVE  IInv'
<1> USE DEF IInv, Harmless
<1>1. 1 .. submitted \subseteq Jobs /\ submitted \in Nat
  BY NumberedJobs
<1>2. JobsNumbered'
  <2>1. Past \subseteq Past' /\ Past' \subseteq Requests
    BY DEF Past
  <2> QED
    BY <2>1, PastGrows
<1>3. ASSUME NEW id, Busy(id)' PROVE Busy(id)
  BY <1>1, <1>3 DEF Busy, Terminal
<1>4. LockHeld'
  <2>1. ASSUME NEW g \in Requests, NEW h \in Requests,
               req'[g].pc = "enqueue", req'[h].pc = "enqueue"
        PROVE  g = h
    BY <2>1 DEF LockHeld
  <2>2. ASSUME NEW h \in Requests, req'[h].pc = "enqueue", OnlyIdle(h)'
        PROVE  ~ Busy(req[h].conn.id)'
    <3>1. req'[h] = req[h] /\ OnlyIdle(h)
      BY <2>2 DEF OnlyIdle
    <3>2. ~ Busy(req[h].conn.id)
      BY <2>2, <3>1 DEF LockHeld
    <3> QED
      BY <1>3, <3>1, <3>2
  <2> QED
    BY <2>1, <2>2 DEF LockHeld
<1>5. Coalesced'
  BY <1>1 DEF Coalesced, Terminal
<1> QED
  BY <1>2, <1>4, <1>5

\* A handler goes on without submitMu.
LEMMA HandlerGoes ==
    ASSUME IInv, NEW h \in Requests, NEW r, IsHandler(r),
           req' = [req EXCEPT ![h] = r],
           r.pc # "enqueue",
           h \in Past => r.pc \in {"refresh", "done"},
           UNCHANGED <<submitted, job>>
    PROVE  Harmless
BY NumberedJobs DEF IInv, Records, Harmless, Past, Terminal, IsHandler

\* A job goes on.
LEMMA JobGoes ==
    ASSUME IInv, NEW j \in Jobs, NEW r, IsJob(r),
           job' = [job EXCEPT ![j] = r],
           \/ r.pc \in {"report", "closed"}
           \/ ~ Terminal(j) /\ r.conn = job[j].conn /\ r.onlyIdle = job[j].onlyIdle,
           UNCHANGED <<submitted, req>>
    PROVE  Harmless
BY NumberedJobs DEF IInv, Records, Harmless, Past, Terminal, IsJob

\* The handlers, up to their submission.
LEMMA HandlerSteps ==
    ASSUME IInv, NEW h \in Requests,
           \/ Request(h) \/ SaveGet(h) \/ SavePut(h) \/ SavePutFails(h)
           \/ ActGet(h) \/ ActSnapshot(h)
    PROVE  Harmless
<1>0. IsHandler(req[h]) /\ IsHandler(Replied)
  BY DEF IInv, Records, IsHandler, Replied, IdleRequest
<1>1. CASE Request(h)
  <2>1. PICK op, c : req' = [req EXCEPT ![h] = [@ EXCEPT !.pc = "get", !.op = op, !.conn = c]]
    BY <1>1 DEF Request
  <2>2. PICK r : /\ req' = [req EXCEPT ![h] = r]
                 /\ r = [req[h] EXCEPT !.pc = "get", !.op = op, !.conn = c]
    BY <2>1 DEF IInv, Records
  <2>3. IsHandler(r) /\ r.pc = "get"
    BY <1>0, <2>2 DEF IsHandler
  <2> QED
    BY <1>1, <2>2, <2>3, HandlerGoes DEF Request, Past
<1>2. CASE SaveGet(h)
  <2> DEFINE previous == Get(store, req[h].conn.id)
             r == IF Has(store, req[h].conn.id)
                  THEN [req[h] EXCEPT !.pc = "put", !.previous = <<previous>>,
                                      !.conn.profile = previous.profile]
                  ELSE [req[h] EXCEPT !.pc = "put"]
  <2>1. req' = [req EXCEPT ![h] = r]
    BY <1>2 DEF SaveGet, IInv, Records
  <2>2. IsHandler(r) /\ r.pc = "put"
    BY <1>0 DEF IsHandler
  <2> HIDE DEF r
  <2> QED
    BY <1>2, <2>1, <2>2, HandlerGoes DEF SaveGet, Past
<1>3. CASE SavePut(h)
  <2> DEFINE saved == WithId(req[h].conn)
             kind == SaveKind(req[h].previous, saved)
             r == [req[h] EXCEPT
                    !.pc = AfterKind(kind), !.conn = saved, !.kind = kind,
                    !.reconnect = Moves(req[h].previous, saved), !.previous = <<>>]
  <2>1. req' = [req EXCEPT ![h] = r]
    BY <1>3 DEF SavePut, IInv, Records
  <2>2. AfterKind(kind) \in {"refresh", "submit"}
    BY DEF AfterKind
  <2> HIDE DEF saved, kind
  <2>3. IsHandler(r) /\ r.pc \in {"refresh", "submit"}
    BY <1>0, <2>2 DEF IsHandler
  <2> HIDE DEF r
  <2> QED
    BY <1>3, <2>1, <2>3, HandlerGoes DEF SavePut, Past
<1>4. CASE SavePutFails(h)
  <2>1. Replied.pc = "done"
    BY DEF Replied, IdleRequest
  <2> QED
    BY <1>0, <1>4, <2>1, HandlerGoes DEF SavePutFails
<1>5. CASE ActGet(h)
  <2> DEFINE r == IF Has(store, req[h].conn.id)
                  THEN [req[h] EXCEPT !.pc = "snapshot", !.conn = Get(store, req[h].conn.id)]
                  ELSE Replied
  <2>1. req' = [req EXCEPT ![h] = r]
    BY <1>5 DEF ActGet, IInv, Records
  <2>2. IsHandler(r) /\ r.pc \in {"snapshot", "done"}
    BY <1>0 DEF IsHandler, Replied, IdleRequest
  <2> HIDE DEF r
  <2> QED
    BY <1>5, <2>1, <2>2, HandlerGoes DEF ActGet, Past
<1>6. CASE ActSnapshot(h)
  <2> DEFINE kind == ActKind(req[h].op, CachedActive(req[h].conn.id))
             r == [req[h] EXCEPT !.pc = AfterKind(kind), !.kind = kind]
  <2>1. req' = [req EXCEPT ![h] = r]
    BY <1>6 DEF ActSnapshot, IInv, Records
  <2>2. AfterKind(kind) \in {"refresh", "submit"}
    BY DEF AfterKind
  <2> HIDE DEF kind
  <2>3. IsHandler(r) /\ r.pc \in {"refresh", "submit"}
    BY <1>0, <2>2 DEF IsHandler
  <2> HIDE DEF r
  <2> QED
    BY <1>6, <2>1, <2>3, HandlerGoes DEF ActSnapshot, Past
<1> QED
  BY <1>1, <1>2, <1>3, <1>4, <1>5, <1>6

\* The jobs of the queue: each step sets where the job is, and the first one the
\* endpoint id it works on.
LEMMA JobSteps ==
    ASSUME IInv, NEW j \in Jobs, Job(j)
    PROVE  Harmless
<1>1. IsJob(job[j])
  BY DEF IInv, Records, IsJob
<1>2. \E pc, profile :
        job' = [job EXCEPT ![j] = [job[j] EXCEPT !.pc = pc, !.profile = profile]]
  <2>1. ASSUME NEW pc, job' = [job EXCEPT ![j].pc = pc]
        PROVE  job' = [job EXCEPT ![j] =
                        [job[j] EXCEPT !.pc = pc, !.profile = job[j].profile]]
    BY <1>1, <2>1 DEF IInv, Records, IsJob
  <2>2. CASE \E pc : JobStep(j, pc)
    BY <2>1, <2>2 DEF JobStep
  <2>3. CASE JobStart(j)
    BY <1>1, <2>3 DEF JobStart, IInv, Records, IsJob
  <2>4. CASE JobSkip(j)
    BY <2>1, <2>4 DEF JobSkip
  <2> QED
    BY <2>2, <2>3, <2>4 DEF Job, JobRemove, JobRemoveFails, JobAdd, JobRename,
        JobCommandFails, JobDelete, JobDeleteFails
<1>3. /\ UNCHANGED <<submitted, req>>
      /\ job[j].pc \in {"queued", "remove", "add", "rename", "delete"}
  BY DEF Job, JobStart, JobSkip, JobRemove, JobRemoveFails, JobAdd, JobRename,
        JobCommandFails, JobDelete, JobDeleteFails, JobStep, Queue!Serve
<1>4. PICK pc, profile :
        job' = [job EXCEPT ![j] = [job[j] EXCEPT !.pc = pc, !.profile = profile]]
  BY <1>2
<1>5. PICK r : job' = [job EXCEPT ![j] = r] /\ r = [job[j] EXCEPT !.pc = pc, !.profile = profile]
  BY <1>4
<1>6. IsJob(r) /\ r.conn = job[j].conn /\ r.onlyIdle = job[j].onlyIdle
  BY <1>1, <1>5 DEF IsJob
<1> QED
  BY <1>3, <1>5, <1>6, JobGoes DEF Terminal

\* Refreshes, other users of herdr, the end and the start of the daemon.
LEMMA OtherSteps ==
    ASSUME IInv,
           \/ \E by \in Owners : RefreshList(by) \/ RefreshListFails(by) \/ Refresh(by)
           \/ ExternalAdd \/ ExternalRemove \/ Crash \/ Start
    PROVE  Harmless
<1>1. ASSUME UNCHANGED <<submitted, req, job>> PROVE Harmless
  BY <1>1, NumberedJobs DEF IInv, Records, Harmless, Past, Terminal
<1>2. ASSUME NEW by \in Owners, RefreshPublish(by) PROVE Harmless
  <2>1. CASE by[1] = "req"
    <3>1. by[2] \in Requests
      BY <2>1 DEF Owners, Boot, Poll
    <3>2. IsHandler(Replied) /\ Replied.pc = "done"
      BY DEF IsHandler, Replied, IdleRequest
    <3> QED
      BY <1>2, <2>1, <3>1, <3>2, HandlerGoes DEF RefreshPublish
  <2>2. CASE by[1] = "job"
    <3>1. by[2] \in Jobs
      BY <2>2 DEF Owners, Boot, Poll
    <3>2. PICK r : /\ job' = [job EXCEPT ![by[2]] = r]
                   /\ r = [job[by[2]] EXCEPT !.pc = "closed"]
      BY <1>2, <2>2, <3>1 DEF RefreshPublish, IInv, Records
    <3>3. IsJob(r) /\ r.pc = "closed"
      BY <3>1, <3>2 DEF IsJob, IInv, Records
    <3>4. UNCHANGED <<submitted, req>>
      BY <1>2, <2>2 DEF RefreshPublish, Queue!Finish
    <3> QED
      BY <3>1, <3>2, <3>3, <3>4, JobGoes
  <2>3. CASE by[1] \notin {"req", "job"}
    BY <1>1, <1>2, <2>3 DEF RefreshPublish
  <2> QED
    BY <2>1, <2>2, <2>3
<1>3. ASSUME NEW by \in Owners,
             \/ RefreshList(by) \/ RefreshListFails(by)
             \/ RefreshLoad(by) \/ RefreshPut(by) \/ RefreshPutFails(by)
      PROVE  Harmless
  BY <1>1, <1>3 DEF RefreshList, RefreshListFails, RefreshLoad, RefreshPut, RefreshPutFails
<1>4. CASE ExternalAdd \/ ExternalRemove
  BY <1>1, <1>4 DEF ExternalAdd, ExternalRemove, External
<1>5. CASE Crash
  <2>1. IsHandler(IdleRequest) /\ IsHandler(Replied) /\ IdleRequest.pc = "idle" /\ Replied.pc = "done"
    BY DEF IsHandler, Replied, IdleRequest
  <2>2. PICK closed : closed = [NoJob EXCEPT !.pc = "closed"]
    OBVIOUS
  <2>3. IsJob(NoJob) /\ IsJob(closed) /\ closed.pc = "closed"
    BY <2>2 DEF IsJob, NoJob
  <2>4. submitted' = submitted
    BY <1>5 DEF Crash
  <2>5. req' = [h \in Requests |-> IF req[h].pc = "idle" THEN IdleRequest ELSE Replied]
    BY <1>5 DEF Crash
  <2>6. job' = [j \in Jobs |-> IF j <= submitted THEN closed ELSE NoJob]
    BY <1>5, <2>2 DEF Crash
  <2>7. Records'
    BY <2>1, <2>3, <2>5, <2>6 DEF Records
  <2>8. \A h \in Requests : /\ req'[h].pc # "enqueue"
                            /\ h \in Past => req'[h].pc \in {"refresh", "done"}
    BY <2>1, <2>5 DEF Past
  <2>9. \A j \in 1 .. submitted : job'[j].pc = "closed"
    BY <2>3, <2>6, NumberedJobs DEF IInv
  <2> QED
    BY <2>4, <2>7, <2>8, <2>9 DEF Harmless
<1>6. CASE Start
  BY <1>1, <1>6 DEF Start
<1> QED
  BY <1>2, <1>3, <1>4, <1>5, <1>6 DEF Refresh

-----------------------------------------------------------------------------
(* Submission *)

\* The check under submitMu is made when nobody holds it, and finds the
\* connection idle.
LEMMA CheckKeeps ==
    ASSUME IInv, NEW h \in Requests, SubmitCheck(h)
    PROVE  IInv'
<1> USE DEF IInv
<1>1. CASE OnlyIdle(h) /\ Busy(req[h].conn.id)
  <2>1. IsHandler(Replied) /\ Replied.pc = "done"
    BY DEF IsHandler, Replied, IdleRequest
  <2>2. req' = [req EXCEPT ![h] = Replied] /\ UNCHANGED <<submitted, job>>
    BY <1>1 DEF SubmitCheck, Records
  <2> QED
    BY <2>1, <2>2, HandlerGoes, HarmlessKeeps
<1>2. CASE ~ (OnlyIdle(h) /\ Busy(req[h].conn.id))
  <2>1. PICK r : req' = [req EXCEPT ![h] = r] /\ r = [req[h] EXCEPT !.pc = "enqueue"]
    BY <1>2 DEF SubmitCheck, Records
  <2>2. /\ IsHandler(r) /\ r.pc = "enqueue"
        /\ r.op = req[h].op /\ r.conn = req[h].conn
    BY <2>1 DEF IsHandler, Records
  <2>3. UNCHANGED <<submitted, job>> /\ req[h].pc = "submit"
    BY DEF SubmitCheck
  <2>4. \A g \in Requests : req[g].pc # "enqueue"
    BY DEF SubmitCheck, SubmitLockFree
  <2>5. Records'
    BY <2>1, <2>2, <2>3 DEF Records
  <2>6. JobsNumbered'
    <3>1. Past' = Past
      BY <2>1, <2>2, <2>3 DEF Past, Records
    <3> QED
      BY <3>1, <2>3 DEF JobsNumbered
  <2>7. LockHeld'
    <3>1. \A g \in Requests : req'[g].pc = "enqueue" => g = h
      BY <2>1, <2>2, <2>4 DEF Records
    <3>2. OnlyIdle(h)' => OnlyIdle(h)
      BY <2>1, <2>2 DEF OnlyIdle, Records
    <3>3. req'[h].conn.id = req[h].conn.id
      BY <2>1, <2>2 DEF Records
    <3>4. Busy(req[h].conn.id)' => Busy(req[h].conn.id)
      BY <2>3, <3>3 DEF Busy, Terminal
    <3> QED
      BY <1>2, <3>1, <3>2, <3>4 DEF LockHeld
  <2>8. Coalesced'
    BY <2>3 DEF Coalesced, Terminal
  <2> QED
    BY <2>5, <2>6, <2>7, <2>8
<1> QED
  BY <1>1, <1>2

\* The submission ends what submitMu is held for.
LEMMA EnqueueKeeps ==
    ASSUME IInv, NEW h \in Requests, Enqueue(h)
    PROVE  IInv'
<1> USE DEF IInv
<1> DEFINE n == submitted + 1
<1>1. /\ req[h].pc = "enqueue" /\ submitted' = n
      /\ submitted \in Nat /\ 1 .. submitted \subseteq Jobs /\ n \in Jobs
  <2>1. req[h].pc = "enqueue" /\ submitted' = n
    BY DEF Enqueue, Queue!Arrive
  <2> QED
    BY <2>1, NumberedJobs, NumberLeft DEF Past
<1>2. PICK r : req' = [req EXCEPT ![h] = r] /\ r = [IdleRequest EXCEPT !.pc = "refresh"]
  BY DEF Enqueue
<1>3. IsHandler(r) /\ r.pc = "refresh"
  BY <1>2 DEF IsHandler, IdleRequest
<1>4. PICK new : /\ job' = [job EXCEPT ![n] = new]
                 /\ new = [pc |-> "queued", kind |-> req[h].kind, conn |-> req[h].conn,
                           reconnect |-> req[h].reconnect, onlyIdle |-> OnlyIdle(h),
                           profile |-> NoProfile]
  BY DEF Enqueue
<1>5. /\ IsJob(new) /\ new.conn = req[h].conn
      /\ new.onlyIdle => OnlyIdle(h)
  BY <1>4 DEF IsJob
<1>6. Records'
  BY <1>1, <1>2, <1>3, <1>4, <1>5 DEF Records
<1>7. JobsNumbered'
  <2>1. Past' = Past \cup {h} /\ h \notin Past
    BY <1>1, <1>2, <1>3 DEF Past, Records
  <2>2. Cardinality(Past') = Cardinality(Past) + 1
    BY <2>1, PastFinite, FS_AddElement
  <2> QED
    BY <1>1, <2>2, PastFinite DEF JobsNumbered
<1>8. LockHeld'
  <2>1. \A g \in Requests : req'[g].pc # "enqueue"
    BY <1>1, <1>2, <1>3 DEF LockHeld, Records
  <2> QED
    BY <2>1 DEF LockHeld
<1>9. \A j \in 1 .. submitted : job'[j] = job[j] /\ job'[n] = new
  BY <1>1, <1>4 DEF Records
<1>10. Coalesced'
  <2>1. new.onlyIdle => ~ Busy(new.conn.id)
    BY <1>1, <1>5 DEF LockHeld
  <2>2. job'[n] = new
    BY <1>1, <1>4 DEF Records
  <2>3. 1 .. submitted' = 1 .. submitted \cup {n}
    BY <1>1
  <2>4. ASSUME NEW j \in 1 .. submitted', job'[j].onlyIdle, ~ Terminal(j)',
               NEW i \in 1 .. j - 1, job'[i].conn.id = job'[j].conn.id
        PROVE  Terminal(i)'
    <3>1. i \in 1 .. submitted /\ job'[i] = job[i]
      BY <1>1, <1>9, <2>3
    <3>2. CASE j = n
      BY <2>1, <2>2, <2>4, <3>1, <3>2 DEF Busy, Terminal
    <3>3. CASE j \in 1 .. submitted
      BY <1>9, <2>4, <3>1, <3>3 DEF Coalesced, Terminal
    <3> QED
      BY <2>3, <3>2, <3>3
  <2> QED
    BY <2>4 DEF Coalesced
<1> QED
  BY <1>6, <1>7, <1>8, <1>10

LEMMA NextKeeps ==
    ASSUME IInv, [Next]_vars
    PROVE  IInv'
<1>1. ASSUME NEW h \in Requests, Request(h) \/ Handler(h) PROVE IInv'
  BY <1>1, HandlerSteps, HarmlessKeeps, CheckKeeps, EnqueueKeeps DEF Handler
<1>2. ASSUME NEW j \in Jobs, Job(j) PROVE IInv'
  BY <1>2, JobSteps, HarmlessKeeps
<1>3. CASE \/ \E by \in Owners : RefreshList(by) \/ RefreshListFails(by) \/ Refresh(by)
           \/ ExternalAdd \/ ExternalRemove \/ Crash \/ Start
  BY <1>3, OtherSteps, HarmlessKeeps
<1>4. CASE UNCHANGED vars
  <2>1. UNCHANGED <<submitted, req, job>>
    BY <1>4 DEF vars
  <2> QED
    BY <2>1 DEF IInv, Records, JobsNumbered, Past, LockHeld, Busy, OnlyIdle, Coalesced, Terminal
<1> QED
  BY <1>1, <1>2, <1>3, <1>4 DEF Next

-----------------------------------------------------------------------------
(* What the daemon knows of connections and machines *)

Conn == [id : (Nat \ {0}) \cup {NoId}, label : Labels \cup {""}, target : Targets \cup {""},
         session : Sessions \cup {""}, profile : (Nat \ {0}) \cup {NoProfile}]

Endpoint == [id : Nat \ {0}, label : Labels \cup {""}, target : Targets \cup {""},
            session : Sessions \cup {""}]

Entry == [conn : Conn, active : BOOLEAN]

\* Endpoint ids that herdr gave out, and connection ids that the store assigned.
Given(profile) == profile # NoProfile => profile < nextMachine
Assigned(id) == id # NoId => id < nextConn

Known(conn) == conn \in Conn /\ Given(conn.profile) /\ Assigned(conn.id)

\* A list of herdr's machines, now or at an earlier time.
IsList(machines) ==
    /\ machines \in Seq(Endpoint)
    /\ \A n \in DOMAIN machines : machines[n].id < nextMachine
    /\ \A k, n \in DOMAIN machines : machines[k].id = machines[n].id => k = n

\* Records with ids, told apart by them.
IsStore(s) ==
    /\ s \in Seq(Conn)
    /\ \A i \in DOMAIN s : Known(s[i]) /\ s[i].id # NoId
    /\ \A i, k \in DOMAIN s : s[i].id = s[k].id => i = k

Counters == nextConn \in Nat \ {0} /\ nextMachine \in Nat \ {0}

Handlers ==
    \A h \in Requests :
        /\ Known(req[h].conn)
        /\ req[h].pc \in {"snapshot", "submit", "enqueue"} => req[h].conn.id # NoId

JobsKnown ==
    \A j \in Jobs :
        /\ Known(job[j].conn)
        /\ job[j].profile \in (Nat \ {0}) \cup {NoProfile} /\ Given(job[j].profile)
        /\ job[j].pc \notin {"none", "closed"} => job[j].conn.id # NoId

\* Claims of machines that clients are, or are about to be, shown.
Unique(entries) ==
    \A i, k \in DOMAIN entries :
        (i # k /\ entries[i].active /\ entries[k].active)
            => entries[i].conn.profile # entries[k].conn.profile

\* Writes of a refresh: what it adopts was not claimed, nor adopted twice.
Fresh(todo, entries) ==
    \A i \in DOMAIN todo : todo[i].id = NoId =>
        /\ \A k \in DOMAIN entries :
            entries[k].active => entries[k].conn.profile # todo[i].profile
        /\ \A k \in DOMAIN todo :
            i # k /\ todo[k].id = NoId => todo[k].profile # todo[i].profile

IsRefresh(r) ==
    /\ r = [step |-> r.step, actual |-> r.actual, todo |-> r.todo, out |-> r.out]
    /\ IsList(r.actual)
    /\ r.todo \in Seq(Conn) /\ \A i \in DOMAIN r.todo : Known(r.todo[i])
    /\ r.out \in Seq(Entry)
    /\ Unique(r.out) /\ Fresh(r.todo, r.out)

Refreshes ==
    /\ ref = [by \in Owners |-> ref[by]]
    /\ \A by \in Owners : IsRefresh(ref[by])

KInv ==
    /\ Counters /\ IsList(herdr) /\ IsStore(store)
    /\ Handlers /\ JobsKnown /\ Refreshes
    /\ CacheClaimsUnique /\ ReconnectReplaces

-----------------------------------------------------------------------------
(* Steps only add ids *)

Grows ==
    /\ nextConn' \in Nat \ {0} /\ nextConn <= nextConn'
    /\ nextMachine' \in Nat \ {0} /\ nextMachine <= nextMachine'

LEMMA Ids ==
    /\ NoProfile \notin Nat \ {0} /\ NoId \notin Nat \ {0}
BY IdsAssumption

\* What is known of ids stays true.
LEMMA Growth ==
    ASSUME Counters, Grows
    PROVE  /\ Counters'
           /\ \A c : Known(c) => Known(c)'
           /\ \A profile \in (Nat \ {0}) \cup {NoProfile} : Given(profile) => Given(profile)'
           /\ \A list : IsList(list) => IsList(list)'
           /\ \A s : IsStore(s) => IsStore(s)'
           /\ \A r : IsRefresh(r) => IsRefresh(r)'
<1>1. Counters'
  BY DEF Counters, Grows
<1>2. \A profile \in (Nat \ {0}) \cup {NoProfile} : Given(profile) => Given(profile)'
  BY DEF Counters, Grows, Given
<1>3. \A id \in (Nat \ {0}) \cup {NoId} : Assigned(id) => Assigned(id)'
  BY DEF Counters, Grows, Assigned
<1>4. ASSUME NEW c, Known(c) PROVE Known(c)'
  <2>1. c \in Conn
    BY <1>4 DEF Known
  <2>2. c.profile \in (Nat \ {0}) \cup {NoProfile} /\ c.id \in (Nat \ {0}) \cup {NoId}
    BY <2>1 DEF Conn
  <2> QED
    BY <1>2, <1>3, <1>4, <2>1, <2>2 DEF Known
<1>5. ASSUME NEW list, IsList(list) PROVE IsList(list)'
  <2>1. list \in Seq(Endpoint)
    BY <1>5 DEF IsList
  <2>2. ASSUME NEW n \in DOMAIN list PROVE list[n].id < nextMachine'
    <3>1. list[n] \in Endpoint
      BY <2>1, ElementOfSeq
    <3>2. list[n].id \in Nat
      BY <3>1 DEF Endpoint
    <3>3. list[n].id < nextMachine
      BY <1>5 DEF IsList
    <3> QED
      BY <3>2, <3>3 DEF Counters, Grows
  <2> QED
    BY <1>5, <2>2 DEF IsList
<1>6. \A s : IsStore(s) => IsStore(s)'
  BY <1>4 DEF IsStore
<1>7. \A r : IsRefresh(r) => IsRefresh(r)'
  BY <1>4, <1>5 DEF IsRefresh
<1> QED
  BY <1>1, <1>2, <1>4, <1>5, <1>6, <1>7

\* The parts that a step leaves alone.
LEMMA Untouched ==
    ASSUME KInv, Grows
    PROVE  /\ Counters'
           /\ herdr' = herdr => IsList(herdr)'
           /\ store' = store => IsStore(store)'
           /\ req' = req => Handlers'
           /\ job' = job => JobsKnown'
           /\ ref' = ref => Refreshes'
           /\ conns' = conns => CacheClaimsUnique'
           /\ job' = job /\ herdr' = herdr => ReconnectReplaces'
<1> USE DEF KInv
<1>1. Counters'
  BY Growth
<1>2. herdr' = herdr => IsList(herdr)'
  <2>1. PICK list : list = herdr
    OBVIOUS
  <2>2. IsList(list)'
    BY <2>1, Growth
  <2> QED
    BY <2>1, <2>2
<1>3. store' = store => IsStore(store)'
  <2>1. PICK s : s = store
    OBVIOUS
  <2>2. IsStore(s)'
    BY <2>1, Growth
  <2> QED
    BY <2>1, <2>2
<1>4. req' = req => Handlers'
  <2> SUFFICES ASSUME req' = req, NEW h \in Requests
               PROVE  /\ Known(req[h].conn)'
                      /\ req'[h].pc \in {"snapshot", "submit", "enqueue"} => req'[h].conn.id # NoId
    BY DEF Handlers
  <2>1. PICK c : c = req[h].conn
    OBVIOUS
  <2>2. Known(c)'
    BY <2>1, Growth DEF Handlers
  <2> QED
    BY <2>1, <2>2 DEF Handlers
<1>5. job' = job => JobsKnown'
  <2> SUFFICES ASSUME job' = job, NEW j \in Jobs
               PROVE  /\ Known(job[j].conn)'
                      /\ job'[j].profile \in (Nat \ {0}) \cup {NoProfile}
                      /\ Given(job[j].profile)'
                      /\ job'[j].pc \notin {"none", "closed"} => job'[j].conn.id # NoId
    BY DEF JobsKnown
  <2>1. PICK c, profile : c = job[j].conn /\ profile = job[j].profile
    OBVIOUS
  <2>2. Known(c)' /\ profile \in (Nat \ {0}) \cup {NoProfile} /\ Given(profile)'
    BY <2>1, Growth DEF JobsKnown
  <2> QED
    BY <2>1, <2>2 DEF JobsKnown
<1>6. ref' = ref => Refreshes'
  <2> SUFFICES ASSUME ref' = ref, NEW by \in Owners PROVE IsRefresh(ref[by])'
    BY DEF Refreshes
  <2>1. PICK r : r = ref[by]
    OBVIOUS
  <2>2. IsRefresh(r)'
    BY <2>1, Growth DEF Refreshes
  <2> QED
    BY <2>1, <2>2
<1>7. conns' = conns => CacheClaimsUnique'
  BY DEF CacheClaimsUnique
<1>8. job' = job /\ herdr' = herdr => ReconnectReplaces'
  BY DEF ReconnectReplaces, Held
<1> QED
  BY <1>1, <1>2, <1>3, <1>4, <1>5, <1>6, <1>7, <1>8

-----------------------------------------------------------------------------
(* The store *)

\* The record that Put stores.
LEMMA WithIdKnown ==
    ASSUME Counters, NEW conn, Known(conn), NEW saved, saved = WithId(conn)
    PROVE  /\ saved \in Conn /\ saved.id # NoId /\ Given(saved.profile)
           /\ saved.profile = conn.profile /\ saved.label = conn.label
           /\ saved.target = conn.target /\ saved.session = conn.session
           /\ saved.id = IF conn.id = NoId THEN nextConn ELSE conn.id
<1>1. conn \in Conn
  BY DEF Known
<1>2. CASE conn.id = NoId
  <2>1. saved = [conn EXCEPT !.id = nextConn]
    BY <1>2 DEF WithId
  <2>2. /\ saved.profile = conn.profile /\ saved.label = conn.label
        /\ saved.target = conn.target /\ saved.session = conn.session
        /\ saved.id = nextConn
    BY <1>1, <2>1 DEF Conn
  <2>3. saved \in Conn
    BY <1>1, <2>1 DEF Conn, Counters
  <2>4. nextConn # NoId
    BY Ids DEF Counters
  <2> QED
    BY <1>2, <2>2, <2>3, <2>4 DEF Known
<1>3. CASE conn.id # NoId
  BY <1>1, <1>3 DEF WithId, Known
<1> QED
  BY <1>2, <1>3

\* Writing a record keeps the store's ids apart.
LEMMA PutKeeps ==
    ASSUME Counters, IsStore(store), NEW conn, Known(conn), PutStore(conn),
           nextMachine' = nextMachine
    PROVE  /\ Grows /\ IsStore(store)'
           /\ \A saved : saved = WithId(conn) => Known(saved)' /\ saved.id # NoId
<1>1. PICK saved : saved = WithId(conn)
  OBVIOUS
<1>2. /\ saved \in Conn /\ saved.id # NoId /\ Given(saved.profile)
      /\ saved.id = IF conn.id = NoId THEN nextConn ELSE conn.id
  BY <1>1, WithIdKnown
<1>3. store' = Put(store, saved)
      /\ nextConn' = IF conn.id = NoId THEN nextConn + 1 ELSE nextConn
  BY <1>1 DEF PutStore
<1>4. Grows
  BY <1>3 DEF Grows, Counters
<1>5. Known(saved)'
  <2>1. saved.id < nextConn'
    BY <1>2, <1>3 DEF Counters, Known, Assigned
  <2>2. saved.profile \in (Nat \ {0}) \cup {NoProfile}
    BY <1>2 DEF Conn
  <2>3. Given(saved.profile)'
    BY <1>2, <1>4, <2>2, Growth
  <2> QED
    BY <1>2, <2>1, <2>3 DEF Known, Assigned
<1>6. PICK old : old = store
  OBVIOUS
<1>8. /\ store \in Seq(Conn) /\ DOMAIN store = 1 .. Len(store) /\ Len(store) \in Nat
      /\ \A i \in DOMAIN store : store[i].id # NoId
      /\ \A i, k \in DOMAIN store : store[i].id = store[k].id => i = k
  BY DEF IsStore
<1>9. \A i \in DOMAIN old : Known(old[i])'
  <2>1. \A i \in DOMAIN old : Known(old[i])
    BY <1>6 DEF IsStore
  <2>2. \A c : Known(c) => Known(c)'
    BY <1>4, Growth
  <2> QED
    BY <2>1, <2>2
<1>7. IsStore(store)'
  <2>1. CASE Has(store, saved.id)
    <3>1. store' = [i \in DOMAIN store |-> IF store[i].id = saved.id THEN saved ELSE store[i]]
      BY <1>3, <2>1 DEF Put
    <3>2. /\ DOMAIN store' = DOMAIN store
          /\ \A i \in DOMAIN store : /\ store'[i] = saved \/ store'[i] = store[i]
                                     /\ store'[i].id = store[i].id
      BY <3>1
    <3>3. store' \in [1 .. Len(store) -> Conn]
      <4>1. \A i \in DOMAIN store : store[i] \in Conn
        BY <1>8, ElementOfSeq
      <4> QED
        BY <1>2, <1>8, <3>1, <4>1
    <3>4. store' \in Seq(Conn)
      BY <1>8, <3>3, SeqDef
    <3>5. PICK s : s = store'
      OBVIOUS
    <3>6. \A i \in DOMAIN s : Known(s[i])' /\ s[i].id # NoId
      BY <1>2, <1>5, <1>6, <1>8, <1>9, <3>2, <3>5
    <3> QED
      BY <1>8, <3>2, <3>4, <3>5, <3>6 DEF IsStore
  <2>2. CASE ~ Has(store, saved.id)
    <3>1. store' = Append(store, saved)
      BY <1>3, <2>2 DEF Put
    <3>2. \A i \in DOMAIN store : store[i].id # saved.id
      BY <2>2 DEF Has, Named
    <3>3. /\ store' \in Seq(Conn) /\ Len(store') = Len(store) + 1
          /\ \A i \in 1 .. Len(store) : store'[i] = store[i]
          /\ store'[Len(store) + 1] = saved
      BY <1>2, <1>8, <3>1, AppendProperties
    <3>4. PICK s : s = store'
      OBVIOUS
    <3>5. DOMAIN s = DOMAIN store \cup {Len(store) + 1}
      BY <1>8, <3>3, <3>4
    <3>6. \A i \in DOMAIN s : (Known(s[i])' /\ s[i].id # NoId)
      BY <1>2, <1>5, <1>6, <1>8, <1>9, <3>3, <3>4, <3>5
    <3>7. \A i, k \in DOMAIN s : s[i].id = s[k].id => i = k
      BY <1>8, <3>2, <3>3, <3>4, <3>5
    <3> QED
      BY <3>3, <3>4, <3>6, <3>7 DEF IsStore
  <2> QED
    BY <2>1, <2>2
<1> QED
  BY <1>1, <1>2, <1>4, <1>5, <1>7

\* Deleting a record, too.
LEMMA DeleteKeeps ==
    ASSUME IsStore(store), NEW id, store' = Delete(store, id),
           UNCHANGED <<nextConn, nextMachine>>
    PROVE  IsStore(store)'
<1> DEFINE P == {i \in DOMAIN store : store[i].id # id}
<1>1. /\ store' = At(store, P) /\ P \subseteq DOMAIN store
      /\ store \in Seq(Conn)
      /\ \A i \in DOMAIN store : Known(store[i]) /\ store[i].id # NoId
      /\ \A i, k \in DOMAIN store : store[i].id = store[k].id => i = k
  BY DEF Delete, IsStore
<1> HIDE DEF P
<1>2. PICK s : s = At(store, P)
  OBVIOUS
<1>3. /\ s \in Seq(Conn)
      /\ \A n \in DOMAIN s : Nth(P, n) \in DOMAIN store /\ s[n] = store[Nth(P, n)]
      /\ \A k, n \in DOMAIN s : Nth(P, k) = Nth(P, n) => k = n
  BY <1>1, <1>2, AtKeeps
<1>4. \A i \in DOMAIN s : Known(s[i]) /\ s[i].id # NoId
  BY <1>1, <1>3
<1>5. \A i, k \in DOMAIN s : s[i].id = s[k].id => i = k
  BY <1>1, <1>3
<1>6. \A i \in DOMAIN s : Known(s[i])'
  BY <1>4 DEF Known, Given, Assigned
<1> QED
  BY <1>1, <1>2, <1>3, <1>4, <1>5, <1>6 DEF IsStore

\* What the store holds under an id.
LEMMA GetKnown ==
    ASSUME IsStore(store), NEW id, Has(store, id)
    PROVE  Known(Get(store, id)) /\ Get(store, id).id = id /\ id # NoId
BY DEF IsStore, Has, Named, Get

-----------------------------------------------------------------------------
(* Handlers *)

\* A step of a handler that touches only what the handler knows.
LEMMA HandlerKnows ==
    ASSUME Records, KInv, Grows, NEW h \in Requests, NEW r,
           req' = [req EXCEPT ![h] = r], Known(r.conn)',
           r.pc \in {"snapshot", "submit", "enqueue"} => r.conn.id # NoId
    PROVE  Handlers'
<1> SUFFICES ASSUME NEW g \in Requests
             PROVE  /\ Known(req[g].conn)'
                    /\ req'[g].pc \in {"snapshot", "submit", "enqueue"} => req'[g].conn.id # NoId
  BY DEF Handlers
<1>1. CASE g = h
  <2>1. req'[g] = r
    BY <1>1 DEF Records
  <2> QED
    BY <2>1
<1>2. CASE g # h
  <2>1. req'[g] = req[g]
    BY <1>2 DEF Records
  <2>2. PICK c : c = req[g].conn
    OBVIOUS
  <2>3. Known(c)'
    BY <2>2, Growth DEF KInv, Handlers
  <2> QED
    BY <2>1, <2>2, <2>3 DEF KInv, Handlers
<1> QED
  BY <1>1, <1>2

\* Nothing else is touched.
LEMMA HandlerOnly ==
    ASSUME KInv, Handlers',
           UNCHANGED <<store, nextConn, conns, ref, job, herdr, nextMachine>>
    PROVE  KInv'
<1>1. Grows
  BY DEF Grows, KInv, Counters
<1> QED
  BY <1>1, Untouched DEF KInv

\* What a client may name.
LEMMA RequestKnows ==
    ASSUME Records, KInv, NEW h \in Requests, Request(h)
    PROVE  KInv'
<1>1. PICK op \in Methods :
      \E c \in [id : 1 .. nextConn - 1 \cup (IF op = "save" THEN {NoId} ELSE {}),
                label : IF op = "save" THEN Labels ELSE {""},
                target : IF op = "save" THEN Targets ELSE {""},
                session : IF op = "save" THEN Sessions ELSE {""},
                profile : {NoProfile}] :
        req' = [req EXCEPT ![h] = [@ EXCEPT !.pc = "get", !.op = op, !.conn = c]]
  BY DEF Request
<1>2. PICK c : /\ c \in [id : 1 .. nextConn - 1 \cup {NoId}, label : Labels \cup {""},
                         target : Targets \cup {""}, session : Sessions \cup {""},
                         profile : {NoProfile}]
               /\ req' = [req EXCEPT ![h] = [@ EXCEPT !.pc = "get", !.op = op, !.conn = c]]
  BY <1>1
<1>3. UNCHANGED <<store, nextConn, conns, ref, job, herdr, nextMachine>>
  BY DEF Request
<1>4. PICK r : req' = [req EXCEPT ![h] = r]
               /\ r = [req[h] EXCEPT !.pc = "get", !.op = op, !.conn = c]
  BY <1>2 DEF Records
<1>5. r.pc = "get" /\ r.conn = c
  BY <1>4 DEF Records, IsHandler
<1>6. nextConn \in Nat /\ Grows
  BY <1>3 DEF KInv, Counters, Grows
<1>7. c.profile = NoProfile /\ c.id \in 1 .. nextConn - 1 \cup {NoId}
  BY <1>2
<1>8. c.id # NoId => c.id \in Nat \ {0} /\ c.id < nextConn
  BY <1>6, <1>7
<1>9. c \in Conn
  BY <1>2, <1>8 DEF Conn
<1>10. Known(c)'
  BY <1>3, <1>7, <1>8, <1>9 DEF Known, Given, Assigned
<1>11. Handlers'
  BY <1>4, <1>5, <1>6, <1>10, HandlerKnows
<1> QED
  BY <1>3, <1>11, HandlerOnly

LEMMA SaveGetKnows ==
    ASSUME Records, KInv, NEW h \in Requests, SaveGet(h)
    PROVE  KInv'
<1>1. UNCHANGED <<store, nextConn, conns, ref, job, herdr, nextMachine>>
  BY DEF SaveGet
<1>2. PICK known : known = req[h].conn
  OBVIOUS
<1>3. Known(known) /\ IsStore(store)
  BY <1>2 DEF KInv, Handlers
<1>4. Grows
  BY <1>1 DEF KInv, Counters, Grows
<1>5. CASE Has(store, known.id)
  <2>1. PICK previous : previous = Get(store, known.id)
    OBVIOUS
  <2>2. Known(previous)
    BY <1>3, <1>5, <2>1, GetKnown
  <2>3. PICK c : c = [known EXCEPT !.profile = previous.profile]
    OBVIOUS
  <2>4. PICK r : /\ req' = [req EXCEPT ![h] = r]
                 /\ r = [req[h] EXCEPT !.pc = "put", !.previous = <<previous>>, !.conn = c]
    BY <1>2, <1>5, <2>1, <2>3 DEF SaveGet, Records, IsHandler
  <2>5. r.pc = "put" /\ r.conn = c
    BY <2>4 DEF Records, IsHandler
  <2>6. c \in Conn /\ c.profile = previous.profile /\ c.id = known.id
    BY <1>3, <2>2, <2>3 DEF Known, Conn
  <2>7. Known(c)'
    BY <1>1, <1>3, <2>2, <2>6 DEF Known, Given, Assigned
  <2>8. Handlers'
    BY <1>4, <2>4, <2>5, <2>7, HandlerKnows
  <2> QED
    BY <1>1, <2>8, HandlerOnly
<1>6. CASE ~ Has(store, known.id)
  <2>1. PICK r : req' = [req EXCEPT ![h] = r] /\ r = [req[h] EXCEPT !.pc = "put"]
    BY <1>2, <1>6 DEF SaveGet, Records
  <2>2. r.pc = "put" /\ r.conn = known
    BY <1>2, <2>1 DEF Records, IsHandler
  <2>3. Known(known)'
    BY <1>1, <1>3 DEF Known, Given, Assigned
  <2>4. Handlers'
    BY <1>4, <2>1, <2>2, <2>3, HandlerKnows
  <2> QED
    BY <1>1, <2>4, HandlerOnly
<1> QED
  BY <1>5, <1>6

LEMMA SavePutKnows ==
    ASSUME Records, KInv, NEW h \in Requests, SavePut(h)
    PROVE  KInv'
<1>1. PICK conn : conn = req[h].conn
  OBVIOUS
<1>2. Known(conn) /\ IsStore(store) /\ Counters
  BY <1>1 DEF KInv, Handlers
<1>3. PutStore(conn) /\ UNCHANGED <<conns, ref, job, herdr, nextMachine>>
  BY <1>1 DEF SavePut
<1>4. PICK saved : saved = WithId(conn)
  OBVIOUS
<1>5. /\ Grows /\ IsStore(store)' /\ Known(saved)' /\ saved.id # NoId
  BY <1>2, <1>3, <1>4, PutKeeps
<1>6. PICK kind : kind = SaveKind(req[h].previous, saved)
  OBVIOUS
<1>7. PICK moves : moves = Moves(req[h].previous, saved)
  OBVIOUS
<1>8. PICK r : /\ req' = [req EXCEPT ![h] = r]
               /\ r = [req[h] EXCEPT !.pc = AfterKind(kind), !.conn = saved, !.kind = kind,
                                     !.reconnect = moves, !.previous = <<>>]
  BY <1>1, <1>4, <1>6, <1>7 DEF SavePut, Records
<1>9. r.conn = saved
  BY <1>8 DEF Records, IsHandler
<1>10. Handlers'
  BY <1>5, <1>8, <1>9, HandlerKnows
<1> QED
  BY <1>3, <1>5, <1>10, Untouched DEF KInv

LEMMA NoConnKnown == Known(NoConn) /\ Known(NoConn)'
<1>1. /\ NoConn.profile = NoProfile /\ NoConn.id = NoId /\ NoConn \in Conn
  BY DEF NoConn, Conn
<1> QED
  BY <1>1 DEF Known, Given, Assigned

LEMMA NoHandlerKnown ==
    /\ Replied.conn = NoConn /\ Replied.pc = "done"
    /\ IdleRequest.conn = NoConn /\ IdleRequest.pc = "idle"
BY DEF Replied, IdleRequest

LEMMA SavePutFailsKnows ==
    ASSUME Records, KInv, NEW h \in Requests, SavePutFails(h)
    PROVE  KInv'
<1>1. /\ req' = [req EXCEPT ![h] = Replied]
      /\ UNCHANGED <<store, nextConn, conns, ref, job, herdr, nextMachine>>
  BY DEF SavePutFails
<1>2. Grows
  BY <1>1 DEF KInv, Counters, Grows
<1>3. PICK r : r = Replied
  OBVIOUS
<1>4. r.conn = NoConn /\ r.pc = "done"
  BY <1>3, NoHandlerKnown
<1>5. Known(r.conn)'
  BY <1>4, NoConnKnown
<1>6. Handlers'
  BY <1>1, <1>2, <1>3, <1>4, <1>5, HandlerKnows
<1> QED
  BY <1>1, <1>6, HandlerOnly

LEMMA ActGetKnows ==
    ASSUME Records, KInv, NEW h \in Requests, ActGet(h)
    PROVE  KInv'
<1>1. UNCHANGED <<store, nextConn, conns, ref, job, herdr, nextMachine>>
  BY DEF ActGet
<1>2. Grows
  BY <1>1 DEF KInv, Counters, Grows
<1>3. PICK id : id = req[h].conn.id
  OBVIOUS
<1>4. CASE Has(store, id)
  <2>1. PICK c : c = Get(store, id)
    OBVIOUS
  <2>2. Known(c) /\ c.id # NoId
    BY <1>4, <2>1, GetKnown DEF KInv
  <2>3. PICK r : req' = [req EXCEPT ![h] = r]
                 /\ r = [req[h] EXCEPT !.pc = "snapshot", !.conn = c]
    BY <1>3, <1>4, <2>1 DEF ActGet, Records
  <2>4. r.conn = c
    BY <2>3 DEF Records, IsHandler
  <2>5. Known(c)'
    BY <1>1, <2>2 DEF Known, Given, Assigned
  <2>6. Handlers'
    BY <1>2, <2>2, <2>3, <2>4, <2>5, HandlerKnows
  <2> QED
    BY <1>1, <2>6, HandlerOnly
<1>5. CASE ~ Has(store, id)
  <2>1. PICK r : r = Replied /\ req' = [req EXCEPT ![h] = r]
    BY <1>3, <1>5 DEF ActGet, Records
  <2>2. r.conn = NoConn /\ r.pc = "done"
    BY <2>1, NoHandlerKnown
  <2>3. Known(r.conn)'
    BY <2>2, NoConnKnown
  <2>4. Handlers'
    BY <1>2, <2>1, <2>2, <2>3, HandlerKnows
  <2> QED
    BY <1>1, <2>4, HandlerOnly
<1> QED
  BY <1>4, <1>5

\* The steps up to the submission that keep the connection.
LEMMA ChecksKnow ==
    ASSUME Records, KInv, NEW h \in Requests, ActSnapshot(h) \/ SubmitCheck(h)
    PROVE  KInv'
<1>1. UNCHANGED <<store, nextConn, conns, ref, job, herdr, nextMachine>>
  BY DEF ActSnapshot, SubmitCheck
<1>2. Grows
  BY <1>1 DEF KInv, Counters, Grows
<1>3. PICK c : c = req[h].conn
  OBVIOUS
<1>4. Known(c)' /\ c.id # NoId
  BY <1>1, <1>3 DEF KInv, Handlers, Known, Given, Assigned, ActSnapshot, SubmitCheck
<1>5. \E r : /\ req' = [req EXCEPT ![h] = r]
             /\ \/ r.conn = c
                \/ r = Replied
  <2>1. CASE ActSnapshot(h)
    <3>1. PICK kind : kind = ActKind(req[h].op, CachedActive(req[h].conn.id))
      OBVIOUS
    <3>2. PICK r : /\ req' = [req EXCEPT ![h] = r]
                   /\ r = [req[h] EXCEPT !.pc = AfterKind(kind), !.kind = kind]
      BY <2>1, <3>1 DEF ActSnapshot, Records
    <3>3. r.conn = c
      BY <1>3, <3>2 DEF Records, IsHandler
    <3> QED
      BY <3>2, <3>3
  <2>2. CASE SubmitCheck(h) /\ OnlyIdle(h) /\ Busy(req[h].conn.id)
    BY <2>2 DEF SubmitCheck, Records
  <2>3. CASE SubmitCheck(h) /\ ~ (OnlyIdle(h) /\ Busy(req[h].conn.id))
    <3>1. PICK r : req' = [req EXCEPT ![h] = r] /\ r = [req[h] EXCEPT !.pc = "enqueue"]
      BY <2>3 DEF SubmitCheck, Records
    <3>2. r.conn = c
      BY <1>3, <3>1 DEF Records, IsHandler
    <3> QED
      BY <3>1, <3>2
  <2> QED
    BY <2>1, <2>2, <2>3
<1>6. PICK r : /\ req' = [req EXCEPT ![h] = r]
               /\ \/ r.conn = c
                  \/ r = Replied
  BY <1>5
<1>7. Known(r.conn)' /\ (r.pc \in {"snapshot", "submit", "enqueue"} => r.conn.id # NoId)
  <2>1. CASE r.conn = c
    BY <1>4, <2>1
  <2>2. CASE r = Replied
    <3>1. r.conn = NoConn /\ r.pc = "done"
      BY <2>2, NoHandlerKnown
    <3> QED
      BY <3>1, NoConnKnown
  <2> QED
    BY <1>6, <2>1, <2>2
<1>8. Handlers'
  BY <1>2, <1>6, <1>7, HandlerKnows
<1> QED
  BY <1>1, <1>8, HandlerOnly

-----------------------------------------------------------------------------
(* Jobs *)

\* A step of a job that touches only what the job knows.
LEMMA JobKnows ==
    ASSUME Records, KInv, Grows, NEW j \in Jobs, NEW r,
           job' = [job EXCEPT ![j] = r], Known(r.conn)',
           r.profile \in (Nat \ {0}) \cup {NoProfile}, Given(r.profile)',
           r.pc \notin {"none", "closed"} => r.conn.id # NoId
    PROVE  JobsKnown'
<1> SUFFICES ASSUME NEW i \in Jobs
             PROVE  /\ Known(job[i].conn)'
                    /\ job'[i].profile \in (Nat \ {0}) \cup {NoProfile}
                    /\ Given(job[i].profile)'
                    /\ job'[i].pc \notin {"none", "closed"} => job'[i].conn.id # NoId
  BY DEF JobsKnown
<1>1. CASE i = j
  <2>1. job'[i] = r
    BY <1>1 DEF Records
  <2> QED
    BY <2>1
<1>2. CASE i # j
  <2>1. job'[i] = job[i]
    BY <1>2 DEF Records
  <2>2. PICK c, profile : c = job[i].conn /\ profile = job[i].profile
    OBVIOUS
  <2>3. Known(c)' /\ profile \in (Nat \ {0}) \cup {NoProfile} /\ Given(profile)'
    BY <2>2, Growth DEF KInv, JobsKnown
  <2> QED
    BY <2>1, <2>2, <2>3 DEF KInv, JobsKnown
<1> QED
  BY <1>1, <1>2

\* Machines come with ids that nobody knew: no other job sees its endpoint
\* come back.
LEMMA ReplacesKeeps ==
    ASSUME Records, KInv, NEW j \in Jobs, NEW r, job' = [job EXCEPT ![j] = r],
           \A id : Held(id)' => Held(id) \/ id = nextMachine,
           r.pc = "add" /\ r.reconnect => ~ Held(r.profile)'
    PROVE  ReconnectReplaces'
<1> SUFFICES ASSUME NEW i \in Jobs, job'[i].pc = "add", job'[i].reconnect
             PROVE  ~ Held(job[i].profile)'
  BY DEF ReconnectReplaces
<1>1. CASE i = j
  <2>1. job'[i] = r
    BY <1>1 DEF Records
  <2> QED
    BY <2>1
<1>2. CASE i # j
  <2>1. job'[i] = job[i]
    BY <1>2 DEF Records
  <2>2. PICK profile : profile = job[i].profile
    OBVIOUS
  <2>3. ~ Held(profile)
    BY <2>1, <2>2 DEF KInv, ReconnectReplaces
  <2>4. profile # nextMachine
    BY <2>2, Ids DEF KInv, JobsKnown, Given, Counters
  <2>5. ~ Held(profile)'
    BY <2>3, <2>4
  <2> QED
    BY <2>1, <2>2, <2>5
<1> QED
  BY <1>1, <1>2

\* An endpoint id that a job read from the store.
LEMMA StoredProfile ==
    ASSUME IsStore(store), NEW id, NEW profile,
           profile = IF Has(store, id) THEN Get(store, id).profile ELSE NoProfile
    PROVE  profile \in (Nat \ {0}) \cup {NoProfile} /\ Given(profile)
<1>1. CASE Has(store, id)
  <2>1. PICK c : c = Get(store, id)
    OBVIOUS
  <2>2. Known(c)
    BY <1>1, <2>1, GetKnown
  <2> QED
    BY <1>1, <2>1, <2>2 DEF Known, Conn
<1>2. CASE ~ Has(store, id)
  BY <1>2 DEF Given
<1> QED
  BY <1>1, <1>2

\* Nobody holds an empty endpoint id.
LEMMA NobodyHolds ==
    ASSUME IsList(herdr)
    PROVE  /\ ~ Held(NoProfile)
           /\ \A id : Held(id) => id \in Nat \ {0} /\ id < nextMachine
<1>1. ASSUME NEW n \in DOMAIN herdr PROVE herdr[n].id \in Nat \ {0} /\ herdr[n].id < nextMachine
  <2>1. herdr[n] \in Endpoint
    BY ElementOfSeq DEF IsList
  <2> QED
    BY <2>1 DEF IsList, Endpoint
<1> QED
  BY <1>1, Ids DEF Held

\* Removing a machine.
LEMMA RemovedKeeps ==
    ASSUME Counters, IsList(herdr), NEW id, NEW machines, machines = Removed(id)
    PROVE  /\ IsList(machines)
           /\ \A n \in DOMAIN machines :
                machines[n].id # id /\ \E k \in DOMAIN herdr : machines[n] = herdr[k]
<1> DEFINE P == {n \in DOMAIN herdr : herdr[n].id # id}
<1>1. /\ machines = At(herdr, P) /\ P \subseteq DOMAIN herdr /\ herdr \in Seq(Endpoint)
      /\ \A n \in P : herdr[n].id # id
  BY DEF Removed, IsList
<1> HIDE DEF P
<1>2. /\ machines \in Seq(Endpoint)
      /\ \A n \in DOMAIN machines : Nth(P, n) \in P /\ machines[n] = herdr[Nth(P, n)]
      /\ \A k, n \in DOMAIN machines : Nth(P, k) = Nth(P, n) => k = n
  BY <1>1, AtKeeps
<1>3. \A n \in DOMAIN machines : Nth(P, n) \in DOMAIN herdr
  BY <1>1, <1>2
<1>4. /\ \A n \in DOMAIN machines : machines[n].id < nextMachine
      /\ \A k, n \in DOMAIN machines : machines[k].id = machines[n].id => k = n
  BY <1>2, <1>3 DEF IsList
<1> QED
  BY <1>1, <1>2, <1>3, <1>4 DEF IsList

\* The record of a job that goes on.
LEMMA JobMoved ==
    ASSUME Records, NEW j \in Jobs, NEW pc, job' = [job EXCEPT ![j].pc = pc]
    PROVE  \E r : /\ job' = [job EXCEPT ![j] = r]
                  /\ r.pc = pc /\ r.conn = job[j].conn
                  /\ r.profile = job[j].profile /\ r.reconnect = job[j].reconnect
<1>1. PICK r : job' = [job EXCEPT ![j] = r] /\ r = [job[j] EXCEPT !.pc = pc]
  BY DEF Records
<1>2. /\ r.pc = pc /\ r.conn = job[j].conn
      /\ r.profile = job[j].profile /\ r.reconnect = job[j].reconnect
  BY <1>1 DEF Records, IsJob
<1> QED
  BY <1>1, <1>2

\* A job goes on to its next command, after the last one changed the store or
\* herdr's list.
LEMMA JobMoves ==
    ASSUME Records, KInv, Grows, NEW j \in Jobs, NEW pc, NEW profile,
           job' = [job EXCEPT ![j].pc = pc], profile = job[j].profile,
           job[j].pc \notin {"none", "closed"},
           \A id : Held(id)' => Held(id) \/ id = nextMachine,
           pc = "add" /\ job[j].reconnect => ~ Held(profile)',
           IsList(herdr)', IsStore(store)', UNCHANGED <<req, ref, conns>>
    PROVE  KInv'
<1>1. PICK r : /\ job' = [job EXCEPT ![j] = r]
               /\ r.pc = pc /\ r.conn = job[j].conn
               /\ r.profile = job[j].profile /\ r.reconnect = job[j].reconnect
  BY JobMoved
<1>2. PICK c : c = job[j].conn
  OBVIOUS
<1>3. /\ Known(c) /\ c.id # NoId
      /\ profile \in (Nat \ {0}) \cup {NoProfile} /\ Given(profile)
  BY <1>2 DEF KInv, JobsKnown
<1>4. Counters
  BY DEF KInv
<1>5. Known(c)' /\ Given(profile)'
  BY <1>3, <1>4, Growth
<1>6. r.conn = c /\ r.profile = profile
  BY <1>1, <1>2
<1>7. Known(r.conn)' /\ Given(r.profile)'
  BY <1>5, <1>6
<1>8. JobsKnown'
  BY <1>1, <1>3, <1>6, <1>7, JobKnows
<1>9. r.pc = "add" /\ r.reconnect => ~ Held(r.profile)'
  BY <1>1, <1>6
<1>10. ReconnectReplaces'
  BY <1>1, <1>9, ReplacesKeeps
<1> QED
  BY <1>8, <1>10, Untouched DEF KInv

\* Its request submits a job.
LEMMA EnqueueKnows ==
    ASSUME Records, JobsNumbered, KInv, NEW h \in Requests, Enqueue(h)
    PROVE  KInv'
<1>1. /\ UNCHANGED <<store, nextConn, conns, ref, herdr, nextMachine>>
      /\ req[h].pc = "enqueue"
  BY DEF Enqueue
<1>2. PICK n : n = submitted + 1
  OBVIOUS
<1>3. n \in Jobs
  BY <1>1, <1>2, NumberLeft DEF Past
<1>4. PICK c : c = req[h].conn
  OBVIOUS
<1>5. Known(c) /\ c.id # NoId
  BY <1>1, <1>4 DEF KInv, Handlers
<1>6. Grows
  BY <1>1 DEF KInv, Counters, Grows
<1>7. Known(c)'
  BY <1>5, <1>6, Growth DEF KInv
<1>8. PICK idle : idle = OnlyIdle(h)
  OBVIOUS
<1>9. PICK r : /\ r = [pc |-> "queued", kind |-> req[h].kind, conn |-> c,
                       reconnect |-> req[h].reconnect, onlyIdle |-> idle,
                       profile |-> NoProfile]
               /\ job' = [job EXCEPT ![n] = r]
  BY <1>2, <1>4, <1>8 DEF Enqueue
<1>10. r.conn = c /\ r.profile = NoProfile /\ r.pc = "queued"
  BY <1>9
<1>11. Known(r.conn)' /\ Given(r.profile)'
  BY <1>7, <1>10 DEF Given
<1>12. JobsKnown'
  BY <1>3, <1>5, <1>6, <1>9, <1>10, <1>11, JobKnows
<1>13. ReconnectReplaces'
  BY <1>1, <1>3, <1>9, <1>10, ReplacesKeeps DEF Held
<1>14. PICK q : q = [IdleRequest EXCEPT !.pc = "refresh"] /\ req' = [req EXCEPT ![h] = q]
  BY DEF Enqueue
<1>15. q.conn = NoConn /\ q.pc = "refresh"
  BY <1>14 DEF IdleRequest
<1>16. Known(q.conn)'
  BY <1>15, NoConnKnown
<1>17. Handlers'
  BY <1>6, <1>14, <1>15, <1>16, HandlerKnows
<1> QED
  BY <1>1, <1>6, <1>12, <1>13, <1>17, Untouched DEF KInv

LEMMA JobStartKnows ==
    ASSUME Records, KInv, NEW j \in Jobs, JobStart(j)
    PROVE  KInv'
<1>1. /\ UNCHANGED <<store, nextConn, conns, ref, req, herdr, nextMachine>>
      /\ job[j].pc = "queued"
  BY DEF JobStart
<1>2. PICK c : c = job[j].conn
  OBVIOUS
<1>3. PICK profile : profile = IF Has(store, c.id) THEN Get(store, c.id).profile ELSE NoProfile
  OBVIOUS
<1>4. profile \in (Nat \ {0}) \cup {NoProfile} /\ Given(profile)
  BY <1>3, StoredProfile DEF KInv
<1>5. Known(c) /\ c.id # NoId
  BY <1>1, <1>2 DEF KInv, JobsKnown
<1>6. PICK pc : pc = FirstCommand(j, profile)
  OBVIOUS
<1>7. job' = [job EXCEPT ![j].pc = pc, ![j].profile = profile]
  BY <1>2, <1>3, <1>6 DEF JobStart
<1>8. PICK r : /\ job' = [job EXCEPT ![j] = r]
               /\ r = [job[j] EXCEPT !.pc = pc, !.profile = profile]
  BY <1>7 DEF Records
<1>9. /\ r.pc = pc /\ r.conn = c /\ r.profile = profile
      /\ r.reconnect = job[j].reconnect
  BY <1>2, <1>8 DEF Records, IsJob
<1>10. pc = "add" /\ job[j].reconnect => profile = NoProfile
  BY <1>6 DEF FirstCommand
<1>11. Grows
  BY <1>1 DEF KInv, Counters, Grows
<1>12. Known(r.conn)' /\ Given(r.profile)'
  BY <1>4, <1>5, <1>9, <1>11, Growth DEF KInv
<1>13. JobsKnown'
  BY <1>4, <1>5, <1>8, <1>9, <1>11, <1>12, JobKnows
<1>14. \A id : Held(id)' <=> Held(id)
  BY <1>1 DEF Held
<1>15. ~ Held(NoProfile)
  BY NobodyHolds DEF KInv
<1>16. r.pc = "add" /\ r.reconnect => ~ Held(r.profile)'
  BY <1>9, <1>10, <1>14, <1>15
<1>17. ReconnectReplaces'
  BY <1>8, <1>14, <1>16, ReplacesKeeps
<1> QED
  BY <1>1, <1>11, <1>13, <1>17, Untouched DEF KInv

\* Steps that change neither the store nor herdr's list, and never lead to
\* adding.
LEMMA IdleJobsKnow ==
    ASSUME Records, KInv, NEW j \in Jobs,
           JobSkip(j) \/ JobCommandFails(j) \/ JobDeleteFails(j)
    PROVE  KInv'
<1>1. /\ UNCHANGED <<store, nextConn, conns, ref, req, herdr, nextMachine>>
      /\ job[j].pc \in {"queued", "add", "rename", "delete"}
      /\ job' = [job EXCEPT ![j].pc = "report"]
  BY DEF JobSkip, JobCommandFails, JobDeleteFails, JobStep
<1>2. Grows
  BY <1>1 DEF KInv, Counters, Grows
<1>3. IsList(herdr)' /\ IsStore(store)'
  BY <1>1, <1>2, Untouched
<1>4. \A id : Held(id)' => Held(id) \/ id = nextMachine
  BY <1>1 DEF Held
<1> QED
  BY <1>1, <1>2, <1>3, <1>4, JobMoves

\* After a removal that succeeded the endpoint is gone, so what is added next
\* replaces it; after one that failed nothing is added.
LEMMA JobRemoveKnows ==
    ASSUME Records, KInv, NEW j \in Jobs, JobRemove(j) \/ JobRemoveFails(j)
    PROVE  KInv'
<1>1. UNCHANGED <<store, nextConn, conns, ref, req, nextMachine>> /\ job[j].pc = "remove"
  BY DEF JobRemove, JobRemoveFails, JobStep
<1>2. Grows
  BY <1>1 DEF KInv, Counters, Grows
<1>3. PICK profile : profile = job[j].profile
  OBVIOUS
<1>4. PICK machines : machines = Removed(profile)
  OBVIOUS
<1>5. /\ IsList(machines)
      /\ \A n \in DOMAIN machines :
            machines[n].id # profile /\ \E k \in DOMAIN herdr : machines[n] = herdr[k]
  BY <1>4, RemovedKeeps DEF KInv
<1>6. herdr' = machines \/ (herdr' = herdr /\ JobRemoveFails(j))
  BY <1>3, <1>4 DEF JobRemove, JobRemoveFails
<1>7. IsList(machines)'
  BY <1>2, <1>5, Growth DEF KInv
<1>8. IsList(herdr)' /\ IsStore(store)'
  BY <1>1, <1>2, <1>6, <1>7, Untouched
<1>9. \A id : Held(id)' => Held(id) \/ id = nextMachine
  BY <1>5, <1>6 DEF Held
<1>10. \E pc : /\ job' = [job EXCEPT ![j].pc = pc]
               /\ pc = "add" => herdr' = machines
  <2>1. CASE JobRemove(j)
    BY <1>3, <1>4, <2>1 DEF JobRemove, JobStep
  <2>2. CASE JobRemoveFails(j)
    <3>1. AfterRemove(j, FALSE) = "report"
      BY DEF AfterRemove
    <3> QED
      BY <2>2, <3>1 DEF JobRemoveFails, JobStep
  <2> QED
    BY <2>1, <2>2
<1>11. PICK pc : /\ job' = [job EXCEPT ![j].pc = pc]
                 /\ pc = "add" => herdr' = machines
  BY <1>10
<1>12. pc = "add" => ~ Held(profile)'
  BY <1>5, <1>11 DEF Held
<1> QED
  BY <1>1, <1>2, <1>3, <1>8, <1>9, <1>11, <1>12, JobMoves

\* A machine is appended to herdr's list under the next id.
LEMMA AddKeeps ==
    ASSUME KInv, NEW machine \in Endpoint, machine.id = nextMachine,
           herdr' = Append(herdr, machine), nextMachine' = nextMachine + 1,
           nextConn' = nextConn
    PROVE  /\ Grows /\ IsList(herdr)'
           /\ \A id : Held(id)' => Held(id) \/ id = nextMachine
<1>1. Grows
  BY DEF KInv, Counters, Grows
<1>2. /\ herdr \in Seq(Endpoint) /\ DOMAIN herdr = 1 .. Len(herdr) /\ Len(herdr) \in Nat
      /\ \A k, n \in DOMAIN herdr : herdr[k].id = herdr[n].id => k = n
      /\ nextMachine \in Nat
  BY DEF KInv, IsList, Counters
<1>3. \A n \in DOMAIN herdr : herdr[n].id \in Nat /\ herdr[n].id < nextMachine
  <2> TAKE n \in DOMAIN herdr
  <2>1. herdr[n] \in Endpoint
    BY <1>2, ElementOfSeq
  <2> QED
    BY <2>1 DEF KInv, IsList, Endpoint
<1>4. /\ herdr' \in Seq(Endpoint) /\ Len(herdr') = Len(herdr) + 1
      /\ \A n \in 1 .. Len(herdr) : herdr'[n] = herdr[n]
      /\ herdr'[Len(herdr) + 1] = machine
  BY <1>2, AppendProperties
<1>5. DOMAIN herdr' = DOMAIN herdr \cup {Len(herdr) + 1}
  BY <1>2, <1>4
<1>6. \A n \in DOMAIN herdr' : herdr'[n].id < nextMachine'
  BY <1>2, <1>3, <1>4, <1>5
<1>7. \A k, n \in DOMAIN herdr' : herdr'[k].id = herdr'[n].id => k = n
  BY <1>2, <1>3, <1>4, <1>5
<1>8. \A id : Held(id)' => Held(id) \/ id = nextMachine
  BY <1>2, <1>4, <1>5 DEF Held
<1> QED
  BY <1>1, <1>4, <1>6, <1>7, <1>8 DEF IsList

LEMMA JobAddKnows ==
    ASSUME Records, KInv, NEW j \in Jobs, JobAdd(j)
    PROVE  KInv'
<1>1. /\ UNCHANGED <<store, nextConn, conns, ref, req>> /\ job[j].pc = "add"
      /\ job' = [job EXCEPT ![j].pc = "report"] /\ nextMachine' = nextMachine + 1
  BY DEF JobAdd, JobStep
<1>2. PICK c : c = job[j].conn
  OBVIOUS
<1>3. PICK machine : machine = [id |-> nextMachine, label |-> c.label, target |-> c.target,
                                session |-> c.session]
  OBVIOUS
<1>4. c \in Conn
  BY <1>2 DEF KInv, JobsKnown, Known
<1>5. machine \in Endpoint /\ machine.id = nextMachine
  BY <1>3, <1>4 DEF Conn, Endpoint, KInv, Counters
<1>6. herdr' = Append(herdr, machine)
  BY <1>2, <1>3 DEF JobAdd
<1>7. /\ Grows /\ IsList(herdr)'
      /\ \A id : Held(id)' => Held(id) \/ id = nextMachine
  BY <1>1, <1>5, <1>6, AddKeeps
<1>8. IsStore(store)'
  BY <1>1, <1>7, Untouched
<1> QED
  BY <1>1, <1>7, <1>8, JobMoves

LEMMA JobRenameKnows ==
    ASSUME Records, KInv, NEW j \in Jobs, JobRename(j)
    PROVE  KInv'
<1>1. /\ UNCHANGED <<store, nextConn, conns, ref, req, nextMachine>> /\ job[j].pc = "rename"
      /\ job' = [job EXCEPT ![j].pc = "report"]
  BY DEF JobRename, JobStep
<1>2. Grows
  BY <1>1 DEF KInv, Counters, Grows
<1>3. PICK c : c = job[j].conn
  OBVIOUS
<1>4. PICK profile : profile = job[j].profile
  OBVIOUS
<1>5. c \in Conn
  BY <1>3 DEF KInv, JobsKnown, Known
<1>6. /\ herdr \in Seq(Endpoint) /\ DOMAIN herdr = 1 .. Len(herdr) /\ Len(herdr) \in Nat
      /\ \A n \in DOMAIN herdr : herdr[n].id < nextMachine
      /\ \A k, n \in DOMAIN herdr : herdr[k].id = herdr[n].id => k = n
  BY DEF KInv, IsList
<1>7. herdr' = [n \in DOMAIN herdr |-> IF herdr[n].id = profile
                                       THEN [herdr[n] EXCEPT !.label = c.label] ELSE herdr[n]]
  BY <1>3, <1>4 DEF JobRename
<1>8. \A n \in DOMAIN herdr : herdr'[n] \in Endpoint /\ herdr'[n].id = herdr[n].id
  <2> TAKE n \in DOMAIN herdr
  <2>1. herdr[n] \in Endpoint
    BY <1>6, ElementOfSeq
  <2>2. c.label \in Labels \cup {""}
    BY <1>5 DEF Conn
  <2> QED
    BY <1>7, <2>1, <2>2 DEF Endpoint
<1>9. herdr' \in Seq(Endpoint) /\ DOMAIN herdr' = DOMAIN herdr
  <2>1. DOMAIN herdr' = DOMAIN herdr /\ herdr' = [n \in 1 .. Len(herdr) |-> herdr'[n]]
    BY <1>6, <1>7
  <2>2. herdr' \in [1 .. Len(herdr) -> Endpoint]
    BY <1>6, <1>8, <2>1
  <2> QED
    BY <1>6, <2>1, <2>2, SeqDef
<1>10. IsList(herdr)'
  BY <1>1, <1>6, <1>8, <1>9 DEF IsList
<1>11. \A id : Held(id)' => Held(id) \/ id = nextMachine
  BY <1>8, <1>9 DEF Held
<1>12. IsStore(store)'
  BY <1>1, <1>2, Untouched
<1> QED
  BY <1>1, <1>2, <1>10, <1>11, <1>12, JobMoves

LEMMA JobDeleteKnows ==
    ASSUME Records, KInv, NEW j \in Jobs, JobDelete(j)
    PROVE  KInv'
<1>1. /\ UNCHANGED <<nextConn, conns, ref, req, herdr, nextMachine>> /\ job[j].pc = "delete"
      /\ job' = [job EXCEPT ![j].pc = "report"]
      /\ store' = Delete(store, job[j].conn.id)
  BY DEF JobDelete, JobStep
<1>2. Grows
  BY <1>1 DEF KInv, Counters, Grows
<1>3. IsStore(store)'
  BY <1>1, DeleteKeeps DEF KInv
<1>4. IsList(herdr)'
  BY <1>1, <1>2, Untouched
<1>5. \A id : Held(id)' => Held(id) \/ id = nextMachine
  BY <1>1 DEF Held
<1> QED
  BY <1>1, <1>2, <1>3, <1>4, <1>5, JobMoves

-----------------------------------------------------------------------------
(* Refreshes *)

Proofs == INSTANCE ReconcileProofs WITH connections <- store, machines <- herdr, before <- store,
                                       MaxMachines <- MaxConns

\* What is proved about Reconcile is about the matching that refreshes make.
LEMMA Matched ==
    ASSUME NEW s, NEW a
    PROVE  /\ Matching!Paired(s, a) = Proofs!Paired(s, a)
           /\ Matching!Corrections(s, a) = Proofs!Corrections(s, a)
           /\ Matching!Adoptions(s, a) = Proofs!Adoptions(s, a)
<1>1. Matching!Pairing(s, a) = Proofs!Pairing(s, a)
  BY Zenon DEF Matching!ById, Proofs!ById, Matching!Pairing, Proofs!Pairing,
        Matching!SameSetting, Proofs!SameSetting
<1>2. Matching!Paired(s, a) = Proofs!Paired(s, a)
  BY <1>1 DEF Matching!Paired, Proofs!Paired
<1>3. \A P : Matching!Cardinality(P) = Cardinality(P) /\ Proofs!Cardinality(P) = Cardinality(P)
  BY DEF Cardinality, Matching!Cardinality, Proofs!Cardinality,
        IsFiniteSet, Matching!IsFiniteSet, Proofs!IsFiniteSet
<1>4. \A P, n : Matching!Nth(P, n) = Nth(P, n) /\ Proofs!Nth(P, n) = Nth(P, n)
  BY <1>3 DEF Nth, Matching!Nth, Proofs!Nth
<1>5. \A t, P : Matching!At(t, P) = Proofs!At(t, P)
  BY <1>3, <1>4 DEF Matching!At, Proofs!At
<1> QED
  BY <1>2, <1>5 DEF Matching!Corrections, Proofs!Corrections,
        Matching!Adoptions, Proofs!Adoptions

\* A step of one refresh.
LEMMA RefreshKnows ==
    ASSUME KInv, Grows, NEW by \in Owners, NEW r, ref' = [ref EXCEPT ![by] = r],
           IsRefresh(r)'
    PROVE  Refreshes'
<1>1. ref' = [o \in Owners |-> ref'[o]]
  BY DEF KInv, Refreshes
<1>2. ASSUME NEW o \in Owners PROVE IsRefresh(ref[o])'
  <2>1. CASE o = by
    <3>1. ref'[o] = r
      BY <2>1 DEF KInv, Refreshes
    <3> QED
      BY <3>1
  <2>2. CASE o # by
    <3>1. ref'[o] = ref[o]
      BY <2>2 DEF KInv, Refreshes
    <3>2. PICK q : q = ref[o]
      OBVIOUS
    <3>3. IsRefresh(q)'
      BY <3>2, Growth DEF KInv, Refreshes
    <3> QED
      BY <3>1, <3>2, <3>3
  <2> QED
    BY <2>1, <2>2
<1> QED
  BY <1>1, <1>2 DEF Refreshes

\* Nothing else is touched.
LEMMA RefreshOnly ==
    ASSUME KInv, NEW by \in Owners, NEW r, ref' = [ref EXCEPT ![by] = r],
           IsRefresh(r),
           UNCHANGED <<store, nextConn, conns, req, job, herdr, nextMachine>>
    PROVE  KInv'
<1>1. Grows
  BY DEF Grows, KInv, Counters
<1>2. IsRefresh(r)'
  BY <1>1, Growth DEF KInv
<1>3. Refreshes'
  BY <1>1, <1>2, RefreshKnows
<1> QED
  BY <1>1, <1>3, Untouched DEF KInv

LEMMA NoRefreshKnown ==
    ASSUME NEW r, r = NoRefresh PROVE IsRefresh(r)
<1>1. /\ r = [step |-> "none", actual |-> <<>>, todo |-> <<>>, out |-> <<>>]
  BY DEF NoRefresh
<1>2. r.actual = <<>> /\ r.todo = <<>> /\ r.out = <<>> /\ r.step = "none"
  BY <1>1
<1> QED
  BY <1>1, <1>2 DEF IsRefresh, IsList, Unique, Fresh

LEMMA RefreshListKnows ==
    ASSUME KInv, NEW by \in Owners, RefreshList(by) \/ RefreshListFails(by)
    PROVE  KInv'
<1>1. UNCHANGED <<store, nextConn, conns, req, job, herdr, nextMachine>>
  BY DEF RefreshList, RefreshListFails
<1>2. PICK q : q = ref[by]
  OBVIOUS
<1>3. IsRefresh(q)
  BY <1>2 DEF KInv, Refreshes
<1>4. \E step, actual :
        /\ ref' = [ref EXCEPT ![by] = [q EXCEPT !.step = step, !.actual = actual]]
        /\ IsList(actual)
  <2>1. CASE RefreshList(by)
    <3>1. ref' = [ref EXCEPT ![by] = [q EXCEPT !.step = "load", !.actual = herdr]]
      BY <1>2, <2>1 DEF RefreshList, KInv, Refreshes
    <3> QED
      BY <3>1 DEF KInv
  <2>2. CASE RefreshListFails(by)
    <3>1. ref' = [ref EXCEPT ![by] = [q EXCEPT !.step = "failed"]]
      BY <1>2, <2>2 DEF RefreshListFails, KInv, Refreshes
    <3>2. [q EXCEPT !.step = "failed"] = [q EXCEPT !.step = "failed", !.actual = q.actual]
      BY <1>3 DEF IsRefresh
    <3> QED
      BY <1>3, <3>1, <3>2 DEF IsRefresh
  <2> QED
    BY <2>1, <2>2
<1>5. PICK step, actual :
        /\ ref' = [ref EXCEPT ![by] = [q EXCEPT !.step = step, !.actual = actual]]
        /\ IsList(actual)
  BY <1>4
<1>6. PICK r : r = [q EXCEPT !.step = step, !.actual = actual] /\ ref' = [ref EXCEPT ![by] = r]
  BY <1>5
<1>7. /\ r = [step |-> r.step, actual |-> r.actual, todo |-> r.todo, out |-> r.out]
      /\ r.actual = actual /\ r.todo = q.todo /\ r.out = q.out
  BY <1>3, <1>6 DEF IsRefresh
<1>8. IsRefresh(r)
  BY <1>3, <1>5, <1>7 DEF IsRefresh
<1> QED
  BY <1>1, <1>6, <1>8, RefreshOnly

\* The matching of the store with a list read earlier: what is known of its
\* results.
LEMMA LoadKnows ==
    ASSUME KInv, NEW actual, IsList(actual), NEW paired, NEW adopted, NEW corrected,
           paired = Matching!Paired(store, actual),
           corrected = Matching!Corrections(store, actual),
           adopted = Matching!Adoptions(store, actual)
    PROVE  /\ paired \in Seq(Conn)
           /\ \A i, k \in DOMAIN paired :
                paired[i].profile # NoProfile /\ paired[k].profile = paired[i].profile => i = k
           /\ corrected \in Seq(Conn)
           /\ \A n \in DOMAIN corrected : Known(corrected[n]) /\ corrected[n].id # NoId
           /\ adopted \in Seq(Conn)
           /\ \A a \in DOMAIN adopted :
                /\ Known(adopted[a]) /\ adopted[a].profile # NoProfile
                /\ \A i \in DOMAIN paired : paired[i].profile # adopted[a].profile
                /\ \A b \in DOMAIN adopted : adopted[a].profile = adopted[b].profile => a = b
<1>1. /\ store \in Seq(Conn) /\ actual \in Seq(Endpoint)
      /\ \A i \in DOMAIN store : Known(store[i]) /\ store[i].id # NoId
  BY DEF KInv, IsStore, IsList
<1>2. \A n \in DOMAIN actual :
        /\ actual[n] \in Endpoint /\ actual[n].id \in Nat \ {0}
        /\ actual[n].id # NoProfile /\ Given(actual[n].id)
  <2> TAKE n \in DOMAIN actual
  <2>1. actual[n] \in Endpoint
    BY <1>1, ElementOfSeq
  <2>2. actual[n].id \in Nat \ {0}
    BY <2>1 DEF Endpoint
  <2> QED
    BY <2>1, <2>2, Ids DEF IsList, Given
<1>3. Proofs!Distinct(actual)
  BY <1>2 DEF IsList, Proofs!Distinct
<1>4. Proofs!Records(store)
  BY <1>1 DEF Proofs!Records, Known, Conn
<1>bound. MaxConns \in Nat
  BY BoundsAssumption
<1>5. /\ paired = Proofs!Paired(store, actual)
      /\ corrected = Proofs!Corrections(store, actual)
      /\ adopted = Proofs!Adoptions(store, actual)
  BY Matched
<1>6. PICK R : R = {c \in Conn : Known(c) /\ c.id # NoId}
  OBVIOUS
<1>7. ASSUME NEW i \in DOMAIN store PROVE paired[i] \in R
  <2>1. PICK profile : /\ paired[i] = [store[i] EXCEPT !.profile = profile]
                       /\ profile = NoProfile \/ \E n \in DOMAIN actual : profile = actual[n].id
    <3>1. PICK q : q = Proofs!Paired(store, actual)[i]
      OBVIOUS
    <3>2. /\ q = [store[i] EXCEPT !.profile = q.profile]
          /\ q.profile = NoProfile \/ \E n \in DOMAIN actual : q.profile = actual[n].id
      BY <1>1, <1>3, <1>4, <3>1, <1>bound, IdsAssumption, Proofs!PairedRecord
    <3> QED
      BY <1>5, <3>1, <3>2
  <2>2. PICK c : c = store[i]
    OBVIOUS
  <2>3. c \in Conn /\ Known(c) /\ c.id # NoId
    BY <1>1, <2>2 DEF Known
  <2>4. profile \in (Nat \ {0}) \cup {NoProfile} /\ Given(profile)
    BY <1>2, <2>1 DEF Given
  <2>5. PICK p : p = [c EXCEPT !.profile = profile]
    OBVIOUS
  <2>6. p \in Conn /\ p.profile = profile /\ p.id = c.id
    BY <2>3, <2>4, <2>5 DEF Conn
  <2>7. p \in R
    BY <1>6, <2>3, <2>4, <2>6 DEF Known
  <2> QED
    BY <2>1, <2>2, <2>5, <2>7
<1>8. \A i \in DOMAIN store : Proofs!Paired(store, actual)[i] \in R
  BY <1>5, <1>7
<1>9. /\ paired \in Seq(R) /\ DOMAIN paired = DOMAIN store
      /\ corrected \in Seq(R)
  BY <1>1, <1>5, <1>8, <1>bound, IdsAssumption, Proofs!CorrectsPaired
<1>10. paired \in Seq(Conn) /\ corrected \in Seq(Conn)
  <2>1. R \subseteq Conn
    BY <1>6
  <2> QED
    BY <1>9, <2>1
<1>11. \A n \in DOMAIN corrected : Known(corrected[n]) /\ corrected[n].id # NoId
  <2> TAKE n \in DOMAIN corrected
  <2>1. corrected[n] \in R
    BY <1>9, ElementOfSeq
  <2> QED
    BY <1>6, <2>1
<1>12. ASSUME NEW i \in DOMAIN paired, NEW k \in DOMAIN paired,
              paired[i].profile # NoProfile, paired[k].profile = paired[i].profile
       PROVE  i = k
  BY <1>1, <1>3, <1>4, <1>5, <1>9, <1>12, <1>bound, IdsAssumption, Proofs!ClaimsExistOnce
<1>13. /\ DOMAIN adopted = 1 .. Len(adopted) /\ Len(adopted) \in Nat
       /\ \A a \in DOMAIN adopted :
            /\ \E n \in DOMAIN actual :
                adopted[a] = [id |-> NoId, label |-> actual[n].label,
                              target |-> actual[n].target, session |-> actual[n].session,
                              profile |-> actual[n].id]
            /\ \A i \in DOMAIN store : paired[i].profile # adopted[a].profile
            /\ \A b \in DOMAIN adopted : adopted[a].profile = adopted[b].profile => a = b
       /\ adopted = [a \in DOMAIN adopted |-> adopted[a]]
  <2>1. adopted = [a \in DOMAIN adopted |-> adopted[a]]
    BY <1>5 DEF Proofs!Adoptions
  <2>2. /\ DOMAIN adopted = 1 .. Len(adopted) /\ Len(adopted) \in Nat
        /\ \A a \in DOMAIN adopted :
            /\ \E n \in DOMAIN actual :
                adopted[a] = [id |-> NoId, label |-> actual[n].label,
                              target |-> actual[n].target, session |-> actual[n].session,
                              profile |-> actual[n].id]
            /\ \A i \in DOMAIN store : paired[i].profile # adopted[a].profile
            /\ \A b \in DOMAIN adopted : adopted[a].profile = adopted[b].profile => a = b
    <3>1. store \in Seq(Conn) /\ actual \in Seq(Endpoint)
      BY <1>1
    <3> QED
      BY <3>1, <1>3, <1>4, <1>5, <1>bound, IdsAssumption, Proofs!AdoptsUnclaimed
  <2> QED
    BY <2>1, <2>2
<1>14. ASSUME NEW a \in DOMAIN adopted
       PROVE  adopted[a] \in Conn /\ Known(adopted[a]) /\ adopted[a].profile # NoProfile
  <2>1. PICK n \in DOMAIN actual :
            adopted[a] = [id |-> NoId, label |-> actual[n].label,
                          target |-> actual[n].target, session |-> actual[n].session,
                          profile |-> actual[n].id]
    BY <1>13
  <2>2. PICK machine : machine = actual[n]
    OBVIOUS
  <2>3. /\ machine \in Endpoint /\ machine.id \in Nat \ {0}
        /\ machine.id # NoProfile /\ Given(machine.id)
    BY <1>2, <2>2
  <2>4. PICK c : c = [id |-> NoId, label |-> machine.label, target |-> machine.target,
                      session |-> machine.session, profile |-> machine.id]
    OBVIOUS
  <2>5. c \in Conn /\ c.id = NoId /\ c.profile = machine.id
    BY <2>3, <2>4 DEF Endpoint, Conn
  <2>6. Known(c)
    BY <2>3, <2>5 DEF Known, Assigned
  <2> QED
    BY <2>1, <2>2, <2>3, <2>4, <2>5, <2>6
<1>15. adopted \in Seq(Conn)
  <2>1. adopted \in [1 .. Len(adopted) -> Conn]
    BY <1>13, <1>14
  <2> QED
    BY <1>13, <2>1, SeqDef
<1> QED
  BY <1>9, <1>10, <1>11, <1>12, <1>13, <1>14, <1>15

LEMMA RefreshLoadKnows ==
    ASSUME KInv, NEW by \in Owners, RefreshLoad(by)
    PROVE  KInv'
<1>1. UNCHANGED <<store, nextConn, conns, req, job, herdr, nextMachine>>
  BY DEF RefreshLoad
<1>2. PICK actual : actual = ref[by].actual
  OBVIOUS
<1>3. IsList(actual)
  BY <1>2 DEF KInv, Refreshes, IsRefresh
<1>4. PICK paired, corrected, adopted :
        /\ paired = Matching!Paired(store, actual)
        /\ corrected = Matching!Corrections(store, actual)
        /\ adopted = Matching!Adoptions(store, actual)
  OBVIOUS
<1>5. /\ paired \in Seq(Conn)
      /\ \A i, k \in DOMAIN paired :
            paired[i].profile # NoProfile /\ paired[k].profile = paired[i].profile => i = k
      /\ corrected \in Seq(Conn)
      /\ \A n \in DOMAIN corrected : Known(corrected[n]) /\ corrected[n].id # NoId
      /\ adopted \in Seq(Conn)
      /\ \A a \in DOMAIN adopted :
            /\ Known(adopted[a]) /\ adopted[a].profile # NoProfile
            /\ \A i \in DOMAIN paired : paired[i].profile # adopted[a].profile
            /\ \A b \in DOMAIN adopted : adopted[a].profile = adopted[b].profile => a = b
  BY <1>3, <1>4, LoadKnows
<1>6. PICK todo, out :
        /\ todo = corrected \o adopted
        /\ out = [i \in DOMAIN paired |->
                    [conn |-> paired[i], active |-> paired[i].profile # NoProfile]]
  OBVIOUS
<1>7. PICK r : r = [step |-> "put", actual |-> <<>>, todo |-> todo, out |-> out]
               /\ ref' = [ref EXCEPT ![by] = r]
  BY <1>2, <1>4, <1>6 DEF RefreshLoad
<1>8. /\ DOMAIN paired = 1 .. Len(paired) /\ Len(paired) \in Nat
      /\ DOMAIN corrected = 1 .. Len(corrected) /\ Len(corrected) \in Nat
      /\ DOMAIN adopted = 1 .. Len(adopted) /\ Len(adopted) \in Nat
  BY <1>5
<1>9. /\ todo \in Seq(Conn) /\ Len(todo) = Len(corrected) + Len(adopted)
      /\ \A i \in 1 .. Len(corrected) : todo[i] = corrected[i]
      /\ \A i \in Len(corrected) + 1 .. Len(corrected) + Len(adopted) :
            todo[i] = adopted[i - Len(corrected)]
  <2>1. todo \in Seq(Conn)
    BY <1>5, <1>6, ConcatProperties
  <2> QED
    BY <1>5, <1>6, <2>1, ConcatProperties
<1>10. \A i \in DOMAIN todo :
          \/ i \in DOMAIN corrected /\ todo[i] = corrected[i]
          \/ i - Len(corrected) \in DOMAIN adopted /\ todo[i] = adopted[i - Len(corrected)]
  <2>1. DOMAIN todo = 1 .. Len(corrected) + Len(adopted)
    BY <1>9
  <2> QED
    BY <1>8, <1>9, <2>1
<1>11. \A i \in DOMAIN todo : Known(todo[i])
  BY <1>5, <1>10
<1>12. /\ DOMAIN out = DOMAIN paired
       /\ \A i \in DOMAIN out :
            /\ out[i] \in Entry
            /\ out[i].conn = paired[i] /\ out[i].active = (paired[i].profile # NoProfile)
  <2>1. DOMAIN out = DOMAIN paired
    BY <1>6
  <2>2. ASSUME NEW i \in DOMAIN paired
        PROVE  /\ out[i] \in Entry
               /\ out[i].conn = paired[i] /\ out[i].active = (paired[i].profile # NoProfile)
    <3>1. paired[i] \in Conn
      BY <1>5, ElementOfSeq
    <3>2. out[i] = [conn |-> paired[i], active |-> paired[i].profile # NoProfile]
      BY <1>6
    <3> QED
      BY <3>1, <3>2 DEF Entry
  <2> QED
    BY <2>1, <2>2
<1>13. out \in Seq(Entry)
  <2>1. out \in [1 .. Len(paired) -> Entry]
    BY <1>6, <1>8, <1>12
  <2> QED
    BY <1>8, <2>1, SeqDef
<1>14. Unique(out)
  <2> SUFFICES ASSUME NEW i \in DOMAIN out, NEW k \in DOMAIN out,
                      i # k, out[i].active, out[k].active
               PROVE  out[i].conn.profile # out[k].conn.profile
    BY DEF Unique
  <2>1. paired[i].profile # NoProfile
    BY <1>12
  <2>2. paired[i].profile # paired[k].profile
    BY <1>5, <1>12, <2>1
  <2> QED
    BY <1>12, <2>2
<1>15. Fresh(todo, out)
  <2> SUFFICES ASSUME NEW i \in DOMAIN todo, todo[i].id = NoId
               PROVE  /\ \A k \in DOMAIN out :
                            out[k].active => out[k].conn.profile # todo[i].profile
                      /\ \A k \in DOMAIN todo :
                            i # k /\ todo[k].id = NoId => todo[k].profile # todo[i].profile
    BY DEF Fresh
  <2>1. i - Len(corrected) \in DOMAIN adopted /\ todo[i] = adopted[i - Len(corrected)]
    BY <1>5, <1>10
  <2>2. \A k \in DOMAIN out : out[k].conn.profile # todo[i].profile
    BY <1>5, <1>12, <2>1
  <2>3. ASSUME NEW k \in DOMAIN todo, i # k, todo[k].id = NoId
        PROVE  todo[k].profile # todo[i].profile
    <3>1. k - Len(corrected) \in DOMAIN adopted /\ todo[k] = adopted[k - Len(corrected)]
      BY <1>5, <1>10, <2>3
    <3>2. i \in Nat /\ k \in Nat
      BY <1>9
    <3>3. i - Len(corrected) # k - Len(corrected)
      BY <1>8, <2>3, <3>2
    <3> QED
      BY <1>5, <2>1, <3>1, <3>3
  <2> QED
    BY <2>2, <2>3
<1>16. IsRefresh(r)
  <2>1. r.step = "put" /\ r.actual = <<>> /\ r.todo = todo /\ r.out = out
    BY <1>7
  <2>2. r = [step |-> r.step, actual |-> r.actual, todo |-> r.todo, out |-> r.out]
    BY <1>7
  <2>3. IsList(<<>>)
    BY DEF IsList
  <2> QED
    BY <1>9, <1>11, <1>13, <1>14, <1>15, <2>1, <2>2, <2>3 DEF IsRefresh
<1> QED
  BY <1>1, <1>7, <1>16, RefreshOnly

\* What is left to write after the first.
LEMMA RestKnown ==
    ASSUME NEW todo \in Seq(Conn), todo # <<>>, \A i \in DOMAIN todo : Known(todo[i]),
           NEW out, Fresh(todo, out)
    PROVE  /\ Head(todo) \in Conn /\ Known(Head(todo))
           /\ Tail(todo) \in Seq(Conn) /\ \A i \in DOMAIN Tail(todo) : Known(Tail(todo)[i])
           /\ Fresh(Tail(todo), out)
           /\ Head(todo).id = NoId =>
                /\ \A k \in DOMAIN out :
                    out[k].active => out[k].conn.profile # Head(todo).profile
                /\ \A k \in DOMAIN Tail(todo) :
                    Tail(todo)[k].id = NoId => Tail(todo)[k].profile # Head(todo).profile
<1>1. PICK conn, rest : conn = Head(todo) /\ rest = Tail(todo)
  OBVIOUS
<1>2. /\ conn = todo[1] /\ conn \in Conn /\ 1 \in DOMAIN todo
      /\ rest \in Seq(Conn)
      /\ \A i \in DOMAIN rest : i \in Nat \ {0} /\ i + 1 \in DOMAIN todo /\ rest[i] = todo[i + 1]
  BY <1>1, HeadTailProperties
<1>3. Fresh(rest, out)
  <2> SUFFICES ASSUME NEW i \in DOMAIN rest, rest[i].id = NoId
               PROVE  /\ \A k \in DOMAIN out :
                            out[k].active => out[k].conn.profile # rest[i].profile
                      /\ \A k \in DOMAIN rest :
                            i # k /\ rest[k].id = NoId => rest[k].profile # rest[i].profile
    BY DEF Fresh
  <2>1. i + 1 \in DOMAIN todo /\ todo[i + 1].id = NoId /\ rest[i] = todo[i + 1]
    BY <1>2
  <2>2. ASSUME NEW k \in DOMAIN rest, i # k, rest[k].id = NoId
        PROVE  rest[k].profile # rest[i].profile
    <3>1. /\ k + 1 \in DOMAIN todo /\ todo[k + 1].id = NoId /\ rest[k] = todo[k + 1]
          /\ i + 1 # k + 1
      BY <1>2, <2>2
    <3> QED
      BY <2>1, <3>1 DEF Fresh
  <2> QED
    BY <2>1, <2>2 DEF Fresh
<1>4. ASSUME conn.id = NoId
      PROVE  /\ \A k \in DOMAIN out : out[k].active => out[k].conn.profile # conn.profile
             /\ \A k \in DOMAIN rest : rest[k].id = NoId => rest[k].profile # conn.profile
  <2>1. \A k \in DOMAIN out : out[k].active => out[k].conn.profile # conn.profile
    BY <1>2, <1>4 DEF Fresh
  <2>2. ASSUME NEW k \in DOMAIN rest, rest[k].id = NoId PROVE rest[k].profile # conn.profile
    <3>1. /\ k + 1 \in DOMAIN todo /\ todo[k + 1].id = NoId /\ rest[k] = todo[k + 1]
          /\ 1 # k + 1
      BY <1>2, <2>2
    <3> QED
      BY <1>2, <1>4, <3>1 DEF Fresh
  <2> QED
    BY <2>1, <2>2
<1> QED
  BY <1>1, <1>2, <1>3, <1>4

\* An adopted connection is shown beside the others.
LEMMA ShownKnown ==
    ASSUME NEW out \in Seq(Entry), Unique(out), NEW entry \in Entry, NEW rest,
           Fresh(rest, out),
           \A k \in DOMAIN out : out[k].active => out[k].conn.profile # entry.conn.profile,
           \A k \in DOMAIN rest : rest[k].id = NoId => rest[k].profile # entry.conn.profile
    PROVE  /\ Append(out, entry) \in Seq(Entry)
           /\ Unique(Append(out, entry)) /\ Fresh(rest, Append(out, entry))
<1>1. PICK more : more = Append(out, entry)
  OBVIOUS
<1>2. /\ more \in Seq(Entry) /\ Len(out) \in Nat
      /\ DOMAIN more = DOMAIN out \cup {Len(out) + 1}
      /\ \A i \in DOMAIN out : more[i] = out[i]
      /\ more[Len(out) + 1] = entry
  BY <1>1, AppendProperties
<1>3. Unique(more)
  BY <1>2 DEF Unique
<1>4. Fresh(rest, more)
  BY <1>2 DEF Fresh
<1> QED
  BY <1>1, <1>2, <1>3, <1>4

\* A failed write only shortens what is left to write.
LEMMA RefreshPutFailsKnows ==
    ASSUME KInv, NEW by \in Owners, RefreshPutFails(by)
    PROVE  KInv'
<1>1. UNCHANGED <<store, nextConn, conns, req, job, herdr, nextMachine>>
  BY DEF RefreshPutFails
<1>2. PICK q : q = ref[by]
  OBVIOUS
<1>3. IsRefresh(q) /\ q.todo # <<>>
  BY <1>2 DEF KInv, Refreshes, RefreshPutFails
<1>4. PICK r : r = [q EXCEPT !.todo = Tail(q.todo)] /\ ref' = [ref EXCEPT ![by] = r]
  BY <1>2 DEF RefreshPutFails, KInv, Refreshes
<1>5. /\ r = [step |-> r.step, actual |-> r.actual, todo |-> r.todo, out |-> r.out]
      /\ r.actual = q.actual /\ r.todo = Tail(q.todo) /\ r.out = q.out
  BY <1>3, <1>4 DEF IsRefresh
<1>6. IsRefresh(r)
  BY <1>3, <1>5, RestKnown DEF IsRefresh
<1> QED
  BY <1>1, <1>4, <1>6, RefreshOnly

\* A correction or an adoption is written: the machine it claims is one that
\* nothing shown so far claims.
LEMMA RefreshPutKnows ==
    ASSUME KInv, NEW by \in Owners, RefreshPut(by)
    PROVE  KInv'
<1>1. UNCHANGED <<conns, req, job, herdr, nextMachine>>
  BY DEF RefreshPut
<1>2. PICK q : q = ref[by]
  OBVIOUS
<1>3. IsRefresh(q) /\ q.todo # <<>>
  BY <1>2 DEF KInv, Refreshes, RefreshPut
<1>4. PICK conn, rest : conn = Head(q.todo) /\ rest = Tail(q.todo)
  OBVIOUS
<1>5. PICK saved : saved = WithId(conn)
  OBVIOUS
<1>6. /\ conn \in Conn /\ Known(conn)
      /\ rest \in Seq(Conn) /\ \A i \in DOMAIN rest : Known(rest[i])
      /\ Fresh(rest, q.out)
      /\ conn.id = NoId =>
            /\ \A k \in DOMAIN q.out : q.out[k].active => q.out[k].conn.profile # conn.profile
            /\ \A k \in DOMAIN rest : rest[k].id = NoId => rest[k].profile # conn.profile
  BY <1>3, <1>4, RestKnown DEF IsRefresh
<1>7. PutStore(conn)
  BY <1>2, <1>4 DEF RefreshPut
<1>8. Counters /\ IsStore(store)
  BY DEF KInv
<1>9. Grows /\ IsStore(store)' /\ Known(saved)'
  BY <1>1, <1>5, <1>6, <1>7, <1>8, PutKeeps
<1>10. saved \in Conn /\ saved.profile = conn.profile
  BY <1>5, <1>6, <1>8, WithIdKnown
<1>11. PICK entry : entry = [conn |-> saved, active |-> TRUE]
  OBVIOUS
<1>12. entry \in Entry /\ entry.conn = saved /\ entry.active = TRUE
  BY <1>10, <1>11 DEF Entry
<1>13. PICK out : out = IF conn.id # NoId THEN q.out ELSE Append(q.out, entry)
  OBVIOUS
<1>14. out \in Seq(Entry) /\ Unique(out) /\ Fresh(rest, out)
  <2>1. CASE conn.id # NoId
    BY <1>3, <1>6, <1>13, <2>1 DEF IsRefresh
  <2>2. CASE conn.id = NoId
    BY <1>3, <1>6, <1>10, <1>12, <1>13, <2>2, ShownKnown DEF IsRefresh
  <2> QED
    BY <2>1, <2>2
<1>15. PICK r : r = [q EXCEPT !.todo = rest, !.out = out] /\ ref' = [ref EXCEPT ![by] = r]
  <2>1. ref' = [ref EXCEPT ![by] = [q EXCEPT !.todo = rest, !.out = out]]
    BY <1>2, <1>3, <1>4, <1>5, <1>11, <1>13 DEF RefreshPut, KInv, Refreshes, IsRefresh
  <2> QED
    BY <2>1
<1>16. /\ r = [step |-> r.step, actual |-> r.actual, todo |-> r.todo, out |-> r.out]
       /\ r.actual = q.actual /\ r.todo = rest /\ r.out = out
  BY <1>3, <1>15 DEF IsRefresh
<1>17. IsRefresh(r)
  BY <1>3, <1>6, <1>14, <1>16 DEF IsRefresh
<1>18. IsRefresh(r)'
  BY <1>8, <1>9, <1>17, Growth
<1>19. Refreshes'
  BY <1>9, <1>15, <1>18, RefreshKnows
<1> QED
  BY <1>1, <1>9, <1>19, Untouched DEF KInv

\* The refresh ends, and whoever made it goes on.
LEMMA RefreshPublishKnows ==
    ASSUME Records, KInv, NEW by \in Owners, RefreshPublish(by)
    PROVE  KInv'
<1>1. UNCHANGED <<store, nextConn, herdr, nextMachine>>
  BY DEF RefreshPublish
<1>2. Grows
  BY <1>1 DEF KInv, Counters, Grows
<1>3. PICK r : r = NoRefresh /\ ref' = [ref EXCEPT ![by] = r]
  BY DEF RefreshPublish
<1>4. IsRefresh(r)
  BY <1>3, NoRefreshKnown
<1>5. IsRefresh(r)'
  BY <1>2, <1>4, Growth DEF KInv
<1>6. Refreshes'
  BY <1>2, <1>3, <1>5, RefreshKnows
<1>7. CacheClaimsUnique'
  <2>1. CASE conns' = conns
    BY <1>2, <2>1, Untouched
  <2>2. CASE conns' = ref[by].out
    <3>1. Unique(ref[by].out)
      BY DEF KInv, Refreshes, IsRefresh
    <3> QED
      BY <2>2, <3>1 DEF Unique, CacheClaimsUnique
  <2> QED
    BY <2>1, <2>2 DEF RefreshPublish
<1>8. Handlers'
  <2>1. CASE by[1] = "req"
    <3>1. by[2] \in Requests
      BY <2>1 DEF Owners, Boot, Poll
    <3>2. PICK q : q = Replied /\ req' = [req EXCEPT ![by[2]] = q]
      BY <2>1 DEF RefreshPublish
    <3>3. q.conn = NoConn /\ q.pc = "done"
      BY <3>2, NoHandlerKnown
    <3>4. Known(q.conn)'
      BY <3>3, NoConnKnown
    <3> QED
      BY <1>2, <3>1, <3>2, <3>3, <3>4, HandlerKnows
  <2>2. CASE by[1] # "req"
    BY <1>2, <2>2, Untouched DEF RefreshPublish
  <2> QED
    BY <2>1, <2>2
<1>9. JobsKnown' /\ ReconnectReplaces'
  <2>1. CASE by[1] = "job"
    <3>1. PICK j \in Jobs : j = by[2]
      BY <2>1 DEF Owners, Boot, Poll
    <3>2. PICK pc : pc = "closed" /\ job' = [job EXCEPT ![j].pc = pc]
      BY <2>1, <3>1 DEF RefreshPublish
    <3>11. Records /\ j \in Jobs /\ job' = [job EXCEPT ![j].pc = pc]
      BY <3>1, <3>2
    <3>3. PICK r2 : /\ job' = [job EXCEPT ![j] = r2]
                    /\ r2.pc = pc /\ r2.conn = job[j].conn
                    /\ r2.profile = job[j].profile /\ r2.reconnect = job[j].reconnect
      BY <3>11, JobMoved
    <3>4. PICK c, profile : c = job[j].conn /\ profile = job[j].profile
      OBVIOUS
    <3>5. Known(c) /\ profile \in (Nat \ {0}) \cup {NoProfile} /\ Given(profile)
      BY <3>4 DEF KInv, JobsKnown
    <3>6. Known(c)' /\ Given(profile)'
      BY <1>2, <3>5, Growth DEF KInv
    <3>7. r2.conn = c /\ r2.profile = profile
      BY <3>3, <3>4
    <3>8. Known(r2.conn)' /\ Given(r2.profile)'
      BY <3>6, <3>7
    <3>9. JobsKnown'
      BY <1>2, <3>1, <3>2, <3>3, <3>5, <3>7, <3>8, JobKnows
    <3>10. ReconnectReplaces'
      BY <1>1, <3>1, <3>2, <3>3, ReplacesKeeps DEF Held
    <3> QED
      BY <3>9, <3>10
  <2>2. CASE by[1] # "job"
    BY <1>1, <1>2, <2>2, Untouched DEF RefreshPublish
  <2> QED
    BY <2>1, <2>2
<1> QED
  BY <1>1, <1>2, <1>6, <1>7, <1>8, <1>9, Untouched DEF KInv

-----------------------------------------------------------------------------
(* The environment *)

\* Other users of herdr: what they remove a job may have wanted to remove, what
\* they add is new to every job.
LEMMA ExternalKnows ==
    ASSUME KInv, ExternalAdd \/ ExternalRemove
    PROVE  KInv'
<1>1. UNCHANGED <<store, nextConn, conns, ref, req, job>>
  BY DEF ExternalAdd, ExternalRemove, External
<1>2. /\ Grows /\ IsList(herdr)'
      /\ \A id : Held(id)' => Held(id) \/ id = nextMachine
  <2>1. CASE ExternalAdd
    <3>1. PICK l \in Labels, t \in Targets, s \in Sessions :
            herdr' = Append(herdr, [id |-> nextMachine, label |-> l, target |-> t, session |-> s])
      BY <2>1 DEF ExternalAdd
    <3>2. PICK machine : machine = [id |-> nextMachine, label |-> l, target |-> t, session |-> s]
      OBVIOUS
    <3>3. machine \in Endpoint /\ machine.id = nextMachine
      BY <3>2 DEF Endpoint, KInv, Counters
    <3>4. herdr' = Append(herdr, machine) /\ nextMachine' = nextMachine + 1
      BY <2>1, <3>1, <3>2 DEF ExternalAdd
    <3> QED
      BY <1>1, <3>3, <3>4, AddKeeps
  <2>2. CASE ExternalRemove
    <3>1. PICK n \in DOMAIN herdr : herdr' = Removed(herdr[n].id)
      BY <2>2 DEF ExternalRemove
    <3>2. PICK id, machines : id = herdr[n].id /\ machines = Removed(id)
      OBVIOUS
    <3>3. /\ IsList(machines)
          /\ \A m \in DOMAIN machines : \E k \in DOMAIN herdr : machines[m] = herdr[k]
      BY <3>2, RemovedKeeps DEF KInv
    <3>4. nextMachine' = nextMachine /\ herdr' = machines
      BY <2>2, <3>1, <3>2 DEF ExternalRemove
    <3>5. Grows
      BY <1>1, <3>4 DEF KInv, Counters, Grows
    <3>6. IsList(machines)'
      BY <3>3, <3>5, Growth DEF KInv
    <3>7. \A i : Held(i)' => Held(i)
      BY <3>3, <3>4 DEF Held
    <3> QED
      BY <3>4, <3>5, <3>6, <3>7
  <2> QED
    BY <2>1, <2>2
<1>3. ReconnectReplaces'
  <2> SUFFICES ASSUME NEW j \in Jobs, job[j].pc = "add", job[j].reconnect
               PROVE  ~ Held(job[j].profile)'
    BY <1>1 DEF ReconnectReplaces
  <2>1. PICK profile : profile = job[j].profile
    OBVIOUS
  <2>2. ~ Held(profile) /\ profile # nextMachine
    BY <2>1, Ids DEF KInv, ReconnectReplaces, JobsKnown, Given, Counters
  <2>3. ~ Held(profile)'
    BY <1>2, <2>2
  <2> QED
    BY <1>1, <2>1, <2>3
<1> QED
  BY <1>1, <1>2, <1>3, Untouched DEF KInv

\* What survives a crash is known as before, and nothing else is.
LEMMA EndsKnow ==
    ASSUME Records, KInv, Crash \/ Start
    PROVE  KInv'
<1>1. UNCHANGED <<store, nextConn, herdr, nextMachine>>
  BY DEF Crash, Start
<1>2. Grows
  BY <1>1 DEF KInv, Counters, Grows
<1>3. CASE Start
  BY <1>1, <1>2, <1>3, Untouched DEF Start, KInv
<1>4. CASE Crash
  <2>1. conns' = <<>> /\ ref' = [by \in Owners |-> NoRefresh]
    BY <1>4 DEF Crash
  <2>2. CacheClaimsUnique'
    BY <2>1 DEF CacheClaimsUnique
  <2>3. Refreshes'
    <3>1. PICK r : r = NoRefresh
      OBVIOUS
    <3>2. IsRefresh(r)
      BY <3>1, NoRefreshKnown
    <3>3. IsRefresh(r)'
      BY <1>2, <3>2, Growth DEF KInv
    <3>4. ref' = [by \in Owners |-> r]
      BY <2>1, <3>1
    <3>5. ref' = [by \in Owners |-> ref'[by]] /\ \A by \in Owners : ref'[by] = r
      BY <3>4
    <3>6. \A by \in Owners : IsRefresh(ref[by])'
      BY <3>3, <3>5
    <3> QED
      BY <3>5, <3>6 DEF Refreshes
  <2>4. Handlers'
    <3> SUFFICES ASSUME NEW h \in Requests
                 PROVE  /\ Known(req[h].conn)'
                        /\ req'[h].pc \notin {"snapshot", "submit", "enqueue"}
      BY DEF Handlers
    <3>1. req'[h] = IdleRequest \/ req'[h] = Replied
      BY <1>4 DEF Crash
    <3>2. req'[h].conn = NoConn /\ req'[h].pc \in {"idle", "done"}
      BY <3>1, NoHandlerKnown
    <3> QED
      BY <3>2, NoConnKnown
  <2>5. \A j \in Jobs :
            /\ job'[j].conn = NoConn /\ job'[j].profile = NoProfile
            /\ job'[j].pc \in {"none", "closed"}
    <3>1. PICK closed : closed = [NoJob EXCEPT !.pc = "closed"]
      OBVIOUS
    <3>2. /\ closed.conn = NoConn /\ closed.profile = NoProfile /\ closed.pc = "closed"
          /\ NoJob.conn = NoConn /\ NoJob.profile = NoProfile /\ NoJob.pc = "none"
      BY <3>1 DEF NoJob
    <3>3. \A j \in Jobs : job'[j] = closed \/ job'[j] = NoJob
      BY <1>4, <3>1 DEF Crash
    <3> QED
      BY <3>2, <3>3
  <2>6. JobsKnown'
    <3> SUFFICES ASSUME NEW j \in Jobs
                 PROVE  /\ Known(job[j].conn)'
                        /\ job'[j].profile = NoProfile /\ Given(job[j].profile)'
                        /\ job'[j].pc \in {"none", "closed"}
      BY DEF JobsKnown
    <3> QED
      BY <2>5, NoConnKnown DEF Given
  <2>7. ReconnectReplaces'
    BY <2>5 DEF ReconnectReplaces
  <2> QED
    BY <1>1, <1>2, <2>2, <2>3, <2>4, <2>6, <2>7, Untouched DEF KInv
<1> QED
  BY <1>3, <1>4

LEMMA NextKnows ==
    ASSUME IInv, KInv, [Next]_vars
    PROVE  KInv'
<1>0. Records /\ JobsNumbered
  BY DEF IInv
<1>1. ASSUME NEW h \in Requests, Request(h) \/ Handler(h) PROVE KInv'
  BY <1>0, <1>1, RequestKnows, SaveGetKnows, SavePutKnows, SavePutFailsKnows, ActGetKnows,
     ChecksKnow, EnqueueKnows DEF Handler
<1>2. ASSUME NEW j \in Jobs, Job(j) PROVE KInv'
  BY <1>0, <1>2, JobStartKnows, IdleJobsKnow, JobRemoveKnows, JobAddKnows, JobRenameKnows,
     JobDeleteKnows DEF Job
<1>3. ASSUME NEW by \in Owners, RefreshList(by) \/ RefreshListFails(by) \/ Refresh(by)
      PROVE  KInv'
  BY <1>0, <1>3, RefreshListKnows, RefreshLoadKnows, RefreshPutKnows, RefreshPutFailsKnows,
     RefreshPublishKnows DEF Refresh
<1>4. CASE ExternalAdd \/ ExternalRemove
  BY <1>4, ExternalKnows
<1>5. CASE Crash \/ Start
  BY <1>0, <1>5, EndsKnow
<1>6. CASE UNCHANGED vars
  <2>1. UNCHANGED <<store, nextConn, conns, ref, req, job, herdr, nextMachine>>
    BY <1>6 DEF vars
  <2>2. Grows
    BY <2>1 DEF KInv, Counters, Grows
  <2> QED
    BY <2>1, <2>2, Untouched DEF KInv
<1> QED
  BY <1>1, <1>2, <1>3, <1>4, <1>5, <1>6 DEF Next

LEMMA InitKnows ==
    ASSUME Init
    PROVE  KInv
<1>1. PICK w \in Worlds :
        /\ store = w.store /\ nextConn = Len(w.store) + 1
        /\ herdr = w.herdr /\ nextMachine = Len(w.herdr) + 1
  BY DEF Init
<1>2. PICK S, M : S = w.store /\ M = w.herdr
  OBVIOUS
<1>3. PICK Q, E :
        /\ Q = [id : Nat \ {0}, label : Labels, target : Targets,
                session : Sessions, profile : (Nat \ {0}) \cup {NoProfile}]
        /\ E = [id : Nat \ {0}, label : Labels, target : Targets, session : Sessions]
  OBVIOUS
<1>4. /\ S \in Seq(Q) /\ M \in Seq(E)
      /\ \A i, k \in DOMAIN S : S[i].id = S[k].id => i = k
      /\ \A m, n \in DOMAIN M : M[m].id = M[n].id => m = n
      /\ \A i \in DOMAIN S :
            /\ S[i].id <= Len(S)
            /\ S[i].profile # NoProfile => S[i].profile <= Len(M)
      /\ \A n \in DOMAIN M : M[n].id <= Len(M)
  BY <1>2, <1>3, WorldsAssumption
<1>14. Q \subseteq Conn /\ E \subseteq Endpoint
  BY <1>3 DEF Conn, Endpoint
<1>5. S \in Seq(Conn) /\ M \in Seq(Endpoint) /\ Len(S) \in Nat /\ Len(M) \in Nat
  <2>1. \A i \in 1 .. Len(S) : S[i] \in Conn
    BY <1>4, <1>14, ElementOfSeq
  <2>2. \A i \in 1 .. Len(M) : M[i] \in Endpoint
    BY <1>4, <1>14, ElementOfSeq
  <2>3. S \in [1 .. Len(S) -> Conn] /\ M \in [1 .. Len(M) -> Endpoint]
        /\ Len(S) \in Nat /\ Len(M) \in Nat
    BY <1>4, <2>1, <2>2
  <2> QED
    BY <2>3, SeqDef
<1>6. /\ store = S /\ nextConn = Len(S) + 1 /\ herdr = M /\ nextMachine = Len(M) + 1
  BY <1>1, <1>2
<1>7. Counters
  BY <1>5, <1>6 DEF Counters
<1>8. IsList(herdr)
  <2>1. ASSUME NEW n \in DOMAIN M PROVE M[n].id < nextMachine
    <3>1. M[n] \in Endpoint
      BY <1>5, ElementOfSeq
    <3>2. M[n].id \in Nat
      BY <3>1 DEF Endpoint
    <3> QED
      BY <1>4, <1>5, <1>6, <3>2
  <2> QED
    BY <1>4, <1>5, <1>6, <2>1 DEF IsList
<1>9. IsStore(store)
  <2>1. ASSUME NEW i \in DOMAIN S PROVE Known(S[i]) /\ S[i].id # NoId
    <3>1. S[i] \in Conn /\ S[i] \in Q
      BY <1>4, <1>5, ElementOfSeq
    <3>2. S[i].id \in Nat \ {0} /\ S[i].profile \in (Nat \ {0}) \cup {NoProfile}
      BY <1>3, <3>1
    <3>3. Given(S[i].profile)
      BY <1>4, <1>5, <1>6, <3>2 DEF Given
    <3>4. Assigned(S[i].id)
      BY <1>4, <1>5, <1>6, <3>2 DEF Assigned
    <3> QED
      BY <3>1, <3>2, <3>3, <3>4, Ids DEF Known
  <2> QED
    BY <1>4, <1>5, <1>6, <2>1 DEF IsStore
<1>10. Handlers
  <2>1. \A h \in Requests : req[h] = IdleRequest
    BY DEF Init
  <2> QED
    BY <2>1, NoHandlerKnown, NoConnKnown DEF Handlers
<1>11. JobsKnown /\ ReconnectReplaces
  <2>1. \A j \in Jobs : job[j] = NoJob
    BY DEF Init
  <2>2. NoJob.conn = NoConn /\ NoJob.profile = NoProfile /\ NoJob.pc = "none"
    BY DEF NoJob
  <2>3. JobsKnown
    BY <2>1, <2>2, NoConnKnown DEF JobsKnown, Given
  <2>4. ReconnectReplaces
    BY <2>1, <2>2 DEF ReconnectReplaces
  <2> QED
    BY <2>3, <2>4
<1>12. Refreshes
  <2>1. ref = [by \in Owners |-> NoRefresh]
    BY DEF Init
  <2>2. IsRefresh(NoRefresh)
    BY NoRefreshKnown
  <2> QED
    BY <2>1, <2>2 DEF Refreshes
<1>13. CacheClaimsUnique
  BY DEF Init, CacheClaimsUnique
<1> QED
  BY <1>7, <1>8, <1>9, <1>10, <1>11, <1>12, <1>13 DEF KInv

LEMMA InitCoalesced == Init => IInv
<1>1. SUFFICES ASSUME Init PROVE IInv
  OBVIOUS
<1>2. IsHandler(IdleRequest) /\ IdleRequest.pc = "idle" /\ IsJob(NoJob)
  BY DEF IsHandler, IsJob, IdleRequest, NoJob
<1>3. /\ req = [h \in Requests |-> IdleRequest] /\ job = [j \in Jobs |-> NoJob]
      /\ submitted = 0
  BY <1>1 DEF Init, Queue!LInit
<1>4. Records /\ LockHeld /\ Coalesced
  BY <1>2, <1>3 DEF Records, LockHeld, Coalesced
<1>5. JobsNumbered
  BY <1>3, PastFinite DEF JobsNumbered
<1> QED
  BY <1>4, <1>5 DEF IInv

-----------------------------------------------------------------------------
(* Theorems *)

\* Repeated connects and disconnects of a connection are never queued beside work
\* that is unfinished: the check and the submission are one step for everybody
\* else, across refreshes, failures and crashes.
THEOREM SubmissionsCoalesce == Spec => []Coalesced
<1>1. Init => IInv
  BY InitCoalesced
<1>2. IInv /\ [Next]_vars => IInv'
  BY NextKeeps
<1>3. IInv => Coalesced
  BY DEF IInv
<1> QED
  BY <1>1, <1>2, <1>3, PTL DEF Spec

LEMMA Invariance == Spec => [](IInv /\ KInv)
<1>1. Init => IInv /\ KInv
  BY InitCoalesced, InitKnows
<1>2. (IInv /\ KInv) /\ [Next]_vars => (IInv /\ KInv)'
  BY NextKeeps, NextKnows
<1> QED
  BY <1>1, <1>2, PTL DEF Spec

\* Clients are never shown two active connections with the same machine, however
\* the writes of requests and jobs slip between those of a reconciliation and
\* whatever of them fails: a machine is adopted only if neither the store that
\* the reconciliation read nor an adoption before it claimed it.
THEOREM ShownClaimsUnique == Spec => []CacheClaimsUnique
<1>1. IInv /\ KInv => CacheClaimsUnique
  BY DEF KInv
<1> QED
  BY <1>1, Invariance, PTL

\* A job that reconnects a moved connection adds the new machine only while
\* herdr does not hold the old one, whoever removed it, and herdr never gives its
\* id again.
THEOREM RemovedBeforeAdded == Spec => []ReconnectReplaces
<1>1. IInv /\ KInv => ReconnectReplaces
  BY DEF KInv
<1> QED
  BY <1>1, Invariance, PTL

-----------------------------------------------------------------------------
(* The queue's lanes *)

\* A job is in its lane as far as its goroutine got, one at a time is served, and
\* only one that reports its end refreshes.
Lanes ==
    /\ pending \in [ConnIds -> SUBSET Jobs] /\ serving \in [ConnIds -> SUBSET Jobs]
    /\ \A c \in ConnIds : \A i, k \in serving[c] : i = k
    /\ \A j \in Jobs :
        /\ job[j].pc = "none" <=> j > submitted
        /\ ref[<<"job", j>>].step # "none" => job[j].pc = "report"
        /\ \A c \in ConnIds :
            /\ j \in pending[c] <=> job[j].pc = "queued" /\ job[j].conn.id = c
            /\ j \in serving[c] <=> /\ job[j].pc \notin {"none", "queued", "closed"}
                                    /\ job[j].conn.id = c

Up == up \in {"down", "starting", "serving"}

\* The lanes of the model are those of the first MaxConns connections.
Numbered == nextConn <= MaxConns + 1

LEMMA Laned ==
    ASSUME Lanes
    PROVE  /\ pending \in [ConnIds -> SUBSET Jobs] /\ serving \in [ConnIds -> SUBSET Jobs]
           /\ \A c \in ConnIds : pending[c] \subseteq Jobs /\ serving[c] \subseteq Jobs
           /\ \A c \in ConnIds : \A i, k \in serving[c] : i = k
           /\ \A j \in Jobs : job[j].pc = "none" <=> j > submitted
           /\ \A j \in Jobs : ref[<<"job", j>>].step # "none" => job[j].pc = "report"
           /\ \A j \in Jobs, c \in ConnIds :
                j \in pending[c] <=> (job[j].pc = "queued" /\ job[j].conn.id = c)
           /\ \A j \in Jobs, c \in ConnIds :
                j \in serving[c] <=> (/\ job[j].pc \notin {"none", "queued", "closed"}
                                     /\ job[j].conn.id = c)
<1>1. pending \in [ConnIds -> SUBSET Jobs] /\ serving \in [ConnIds -> SUBSET Jobs]
  BY DEF Lanes
<1>2. \A c \in ConnIds : pending[c] \subseteq Jobs /\ serving[c] \subseteq Jobs
  BY <1>1
<1> QED
  BY <1>1, <1>2 DEF Lanes

LEMMA LaneOf ==
    ASSUME KInv, Numbered, NEW c, Known(c), c.id # NoId
    PROVE  c.id \in ConnIds
<1>1. c.id \in Nat \ {0} /\ c.id < nextConn
  BY DEF Known, Conn, Assigned
<1>2. MaxConns \in Nat /\ nextConn \in Nat
  BY BoundsAssumption DEF KInv, Counters
<1> QED
  BY <1>1, <1>2 DEF Numbered, ConnIds

\* Nothing but a refresh starts, or ends.
LEMMA LanesStay ==
    ASSUME Lanes, UNCHANGED <<submitted, pending, serving, job>>,
           \A j \in Jobs : ref'[<<"job", j>>].step # "none" =>
                ref[<<"job", j>>].step # "none" \/ job[j].pc = "report"
    PROVE  Lanes'
BY DEF Lanes

\* A job goes on in its lane.
LEMMA LanesMove ==
    ASSUME Records, Lanes, NEW j \in Jobs, NEW r, job' = [job EXCEPT ![j] = r],
           job[j].pc \notin {"none", "queued", "closed", "report"},
           r.pc \notin {"none", "queued", "closed"}, r.conn = job[j].conn,
           UNCHANGED <<submitted, pending, serving, ref>>
    PROVE  Lanes'
<1>1. \A i \in Jobs : job'[i] = IF i = j THEN r ELSE job[i]
  BY DEF Records
<1> QED
  BY <1>1 DEF Lanes

LEMMA EnqueueLanes ==
    ASSUME Records, JobsNumbered, KInv, Numbered, Lanes, NEW h \in Requests, Enqueue(h)
    PROVE  Lanes'
<1>1. UNCHANGED ref /\ req[h].pc = "enqueue"
  BY DEF Enqueue
<1>2. PICK n : n = submitted + 1
  OBVIOUS
<1>3. n \in Jobs /\ submitted \in Nat
  BY <1>1, <1>2, NumberLeft DEF Past, JobsNumbered
<1>4. PICK c, l : c = req[h].conn /\ l = c.id
  OBVIOUS
<1>5. l \in ConnIds
  BY <1>1, <1>4, LaneOf DEF KInv, Handlers
<1>6. /\ submitted' = n /\ serving' = serving
      /\ pending' = [pending EXCEPT ![l] = @ \cup {n}]
  BY <1>2, <1>4 DEF Enqueue, Queue!Arrive
<1>7. PICK r : /\ r = [pc |-> "queued", kind |-> req[h].kind, conn |-> req[h].conn,
                       reconnect |-> req[h].reconnect, onlyIdle |-> OnlyIdle(h),
                       profile |-> NoProfile]
               /\ job' = [job EXCEPT ![n] = r]
  BY <1>2 DEF Enqueue
<1>8. r.pc = "queued" /\ r.conn.id = l
  BY <1>4, <1>7
<1>9. job'[n] = r /\ \A i \in Jobs : i # n => job'[i] = job[i]
  BY <1>3, <1>7 DEF Records
<1>10. job[n].pc = "none"
  BY <1>2, <1>3, Laned
<1>11. /\ pending[l] \subseteq Jobs /\ pending'[l] = pending[l] \cup {n}
       /\ \A d \in ConnIds : d # l => pending'[d] = pending[d]
  BY <1>5, <1>6, Laned
<1>12. pending' \in [ConnIds -> SUBSET Jobs] /\ serving' \in [ConnIds -> SUBSET Jobs]
  <2>1. pending[l] \cup {n} \in SUBSET Jobs
    BY <1>3, <1>11
  <2> QED
    BY <1>5, <1>6, <2>1, Laned
<1>13. ASSUME NEW j \in Jobs PROVE job'[j].pc = "none" <=> j > submitted'
  <2>1. j \in Nat
    BY DEF Jobs
  <2>2. job[j].pc = "none" <=> j > submitted
    BY Laned
  <2>3. CASE j = n
    BY <1>6, <1>8, <1>9, <2>1, <2>3
  <2>4. CASE j # n
    BY <1>2, <1>3, <1>6, <1>9, <2>1, <2>2, <2>4
  <2> QED
    BY <2>3, <2>4
<1>14. ASSUME NEW j \in Jobs, ref'[<<"job", j>>].step # "none" PROVE job'[j].pc = "report"
  <2>1. job[j].pc = "report"
    BY <1>1, <1>14, Laned
  <2> QED
    BY <1>9, <1>10, <2>1
<1>15. ASSUME NEW j \in Jobs, NEW d \in ConnIds
       PROVE  /\ j \in pending'[d] <=> (job'[j].pc = "queued" /\ job'[j].conn.id = d)
              /\ j \in serving'[d] <=> (/\ job'[j].pc \notin {"none", "queued", "closed"}
                                        /\ job'[j].conn.id = d)
  <2>1. /\ j \in pending[d] <=> (job[j].pc = "queued" /\ job[j].conn.id = d)
        /\ j \in serving[d] <=> (/\ job[j].pc \notin {"none", "queued", "closed"}
                                 /\ job[j].conn.id = d)
    BY Laned
  <2>2. CASE j = n
    BY <1>6, <1>8, <1>9, <1>10, <1>11, <2>1, <2>2
  <2>3. CASE j # n
    BY <1>6, <1>9, <1>11, <2>1, <2>3
  <2> QED
    BY <2>2, <2>3
<1>16. \A d \in ConnIds : \A i, k \in serving'[d] : i = k
  BY <1>6, Laned
<1> QED
  BY <1>12, <1>13, <1>14, <1>15, <1>16 DEF Lanes

\* Its lane's turn came.
LEMMA ServeLanes ==
    ASSUME Records, KInv, Numbered, Lanes, NEW j \in Jobs, JobStart(j) \/ JobSkip(j)
    PROVE  Lanes'
<1>1. /\ UNCHANGED ref /\ job[j].pc = "queued"
      /\ Queue!Serve(job[j].conn.id) /\ j \in serving'[job[j].conn.id]
  BY DEF JobStart, JobSkip
<1>2. PICK c, l : c = job[j].conn /\ l = c.id
  OBVIOUS
<1>3. l \in ConnIds
  BY <1>1, <1>2, LaneOf DEF KInv, JobsKnown
<1>4. /\ serving[l] = {} /\ submitted' = submitted
      /\ \E k \in pending[l] : /\ serving' = [serving EXCEPT ![l] = {k}]
                               /\ pending' = [pending EXCEPT ![l] = @ \ {k}]
      /\ j \in serving'[l]
  BY <1>1, <1>2 DEF Queue!Serve
<1>5. /\ serving' = [serving EXCEPT ![l] = {j}]
      /\ pending' = [pending EXCEPT ![l] = @ \ {j}]
  <2>1. PICK k \in pending[l] : /\ serving' = [serving EXCEPT ![l] = {k}]
                                /\ pending' = [pending EXCEPT ![l] = @ \ {k}]
    BY <1>4
  <2>2. serving'[l] = {k}
    BY <1>3, <2>1, Laned
  <2> QED
    BY <1>4, <2>1, <2>2
<1>6. /\ serving'[l] = {j} /\ pending'[l] = pending[l] \ {j}
      /\ \A d \in ConnIds : d # l => serving'[d] = serving[d] /\ pending'[d] = pending[d]
  BY <1>3, <1>5, Laned
<1>7. pending' \in [ConnIds -> SUBSET Jobs] /\ serving' \in [ConnIds -> SUBSET Jobs]
  <2>1. pending[l] \ {j} \in SUBSET Jobs /\ {j} \in SUBSET Jobs
    BY <1>3, Laned
  <2> QED
    BY <1>3, <1>5, <2>1, Laned
<1>8. \E pc, profile :
        /\ job' = [job EXCEPT ![j].pc = pc, ![j].profile = profile]
        /\ pc \notin {"none", "queued", "closed"}
  <2>1. CASE JobStart(j)
    <3>1. PICK profile :
            job' = [job EXCEPT ![j].pc = FirstCommand(j, profile), ![j].profile = profile]
      BY <2>1 DEF JobStart
    <3>2. PICK pc : pc = FirstCommand(j, profile)
      OBVIOUS
    <3>3. pc \in {"remove", "add", "report", "rename", "delete"}
      BY <3>2 DEF FirstCommand
    <3>4. job' = [job EXCEPT ![j].pc = pc, ![j].profile = profile]
      BY <3>1, <3>2
    <3>5. pc \notin {"none", "queued", "closed"}
      BY <3>3
    <3> QED
      BY <3>4, <3>5
  <2>2. CASE JobSkip(j)
    <3>1. PICK pc, profile : /\ pc = "report" /\ profile = job[j].profile
                             /\ job' = [job EXCEPT ![j].pc = pc]
      BY <2>2 DEF JobSkip
    <3>2. [job EXCEPT ![j].pc = pc] = [job EXCEPT ![j].pc = pc, ![j].profile = profile]
      BY <3>1 DEF Records, IsJob
    <3>3. job' = [job EXCEPT ![j].pc = pc, ![j].profile = profile]
      BY <3>1, <3>2
    <3>4. pc \notin {"none", "queued", "closed"}
      BY <3>1
    <3> QED
      BY <3>3, <3>4
  <2> QED
    BY <2>1, <2>2
<1>9. PICK pc, profile :
        /\ job' = [job EXCEPT ![j].pc = pc, ![j].profile = profile]
        /\ pc \notin {"none", "queued", "closed"}
  BY <1>8
<1>10. PICK r : /\ job' = [job EXCEPT ![j] = r]
                /\ r = [job[j] EXCEPT !.pc = pc, !.profile = profile]
  BY <1>9 DEF Records
<1>11. r.pc = pc /\ r.conn = c
  BY <1>2, <1>10 DEF Records, IsJob
<1>12. job'[j] = r /\ \A i \in Jobs : i # j => job'[i] = job[i]
  BY <1>10 DEF Records
<1>13. ASSUME NEW i \in Jobs PROVE job'[i].pc = "none" <=> i > submitted'
  <2>1. job[i].pc = "none" <=> i > submitted
    BY Laned
  <2>2. CASE i = j
    BY <1>1, <1>4, <1>9, <1>11, <1>12, <2>1, <2>2
  <2>3. CASE i # j
    BY <1>4, <1>12, <2>1, <2>3
  <2> QED
    BY <2>2, <2>3
<1>14. ASSUME NEW i \in Jobs, ref'[<<"job", i>>].step # "none" PROVE job'[i].pc = "report"
  <2>1. job[i].pc = "report"
    BY <1>1, <1>14, Laned
  <2> QED
    BY <1>1, <1>12, <2>1
<1>15. ASSUME NEW i \in Jobs, NEW d \in ConnIds
       PROVE  /\ i \in pending'[d] <=> (job'[i].pc = "queued" /\ job'[i].conn.id = d)
              /\ i \in serving'[d] <=> (/\ job'[i].pc \notin {"none", "queued", "closed"}
                                        /\ job'[i].conn.id = d)
  <2>1. /\ i \in pending[d] <=> (job[i].pc = "queued" /\ job[i].conn.id = d)
        /\ i \in serving[d] <=> (/\ job[i].pc \notin {"none", "queued", "closed"}
                                 /\ job[i].conn.id = d)
    BY Laned
  <2>2. CASE i = j
    BY <1>1, <1>2, <1>6, <1>9, <1>11, <1>12, <2>1, <2>2
  <2>3. CASE i # j /\ d = l
    BY <1>4, <1>6, <1>12, <2>1, <2>3
  <2>4. CASE i # j /\ d # l
    BY <1>6, <1>12, <2>1, <2>4
  <2> QED
    BY <2>2, <2>3, <2>4
<1>16. \A d \in ConnIds : \A i, k \in serving'[d] : i = k
  <2> TAKE d \in ConnIds
  <2>1. CASE d = l
    BY <1>6, <2>1
  <2>2. CASE d # l
    BY <1>6, <2>2, Laned
  <2> QED
    BY <2>1, <2>2
<1> QED
  BY <1>7, <1>13, <1>14, <1>15, <1>16 DEF Lanes

LEMMA CommandLanes ==
    ASSUME Records, Lanes, NEW j \in Jobs,
           \/ JobRemove(j) \/ JobRemoveFails(j) \/ JobAdd(j) \/ JobRename(j)
           \/ JobCommandFails(j) \/ JobDelete(j) \/ JobDeleteFails(j)
    PROVE  Lanes'
<1>1. UNCHANGED <<submitted, pending, serving, ref>>
  BY DEF JobRemove, JobRemoveFails, JobAdd, JobRename, JobCommandFails, JobDelete,
        JobDeleteFails, JobStep
<1>2. job[j].pc \notin {"none", "queued", "closed", "report"}
  BY DEF JobRemove, JobRemoveFails, JobAdd, JobRename, JobCommandFails, JobDelete,
        JobDeleteFails
<1>3. \E pc \in {"add", "delete", "report"} : job' = [job EXCEPT ![j].pc = pc]
  <2>1. \A ok : AfterRemove(j, ok) \in {"add", "delete", "report"}
    BY DEF AfterRemove
  <2> QED
    BY <2>1 DEF JobRemove, JobRemoveFails, JobAdd, JobRename, JobCommandFails, JobDelete,
        JobDeleteFails, JobStep
<1>4. PICK pc \in {"add", "delete", "report"} : job' = [job EXCEPT ![j].pc = pc]
  BY <1>3
<1>5. PICK r : /\ job' = [job EXCEPT ![j] = r]
               /\ r.pc = pc /\ r.conn = job[j].conn
               /\ r.profile = job[j].profile /\ r.reconnect = job[j].reconnect
  <2>1. Records /\ j \in Jobs /\ job' = [job EXCEPT ![j].pc = pc]
    BY <1>4
  <2> QED
    BY <2>1, JobMoved
<1> QED
  BY <1>1, <1>2, <1>4, <1>5, LanesMove

LEMMA RefreshLanes ==
    ASSUME Records, KInv, Numbered, Lanes, NEW by \in Owners,
           RefreshList(by) \/ RefreshListFails(by) \/ Refresh(by)
    PROVE  Lanes'
<1>1. \A o \in Owners : o # by => ref'[o] = ref[o]
  BY DEF KInv, Refreshes, RefreshList, RefreshListFails, Refresh, RefreshLoad, RefreshPut,
        RefreshPutFails, RefreshPublish
<1>2. \A j \in Jobs : <<"job", j>> \in Owners
  BY DEF Owners
<1>3. CASE RefreshList(by) \/ RefreshListFails(by)
  <2>1. ASSUME NEW j \in Jobs, by = <<"job", j>> PROVE job[j].pc = "report"
    BY <1>3, <2>1 DEF RefreshList, RefreshListFails, WantsRefresh
  <2>2. \A j \in Jobs : ref'[<<"job", j>>].step # "none" =>
            ref[<<"job", j>>].step # "none" \/ job[j].pc = "report"
    BY <1>1, <1>2, <2>1
  <2>3. UNCHANGED <<submitted, pending, serving, job>>
    BY <1>3 DEF RefreshList, RefreshListFails
  <2> QED
    BY <2>2, <2>3, LanesStay
<1>4. CASE RefreshLoad(by)
  <2>1. ref[by].step = "load" /\ UNCHANGED <<submitted, pending, serving, job>>
    BY <1>4 DEF RefreshLoad
  <2>2. \A j \in Jobs : ref'[<<"job", j>>].step # "none" =>
            ref[<<"job", j>>].step # "none" \/ job[j].pc = "report"
    BY <1>1, <1>2, <2>1
  <2> QED
    BY <2>1, <2>2, LanesStay
<1>5. CASE RefreshPut(by) \/ RefreshPutFails(by)
  <2>1. UNCHANGED <<submitted, pending, serving, job>>
    BY <1>5 DEF RefreshPut, RefreshPutFails
  <2>2. PICK q : q = ref[by] /\ IsRefresh(q)
    BY DEF KInv, Refreshes
  <2>3. ref'[by].step = q.step
    <3>1. CASE RefreshPut(by)
      <4>1. PICK todo, out : ref' = [ref EXCEPT ![by].todo = todo, ![by].out = out]
        BY <3>1 DEF RefreshPut, KInv, Refreshes
      <4>2. PICK r : ref' = [ref EXCEPT ![by] = r] /\ r = [q EXCEPT !.todo = todo, !.out = out]
        BY <2>2, <4>1 DEF KInv, Refreshes
      <4>3. r.step = q.step
        BY <2>2, <4>2 DEF IsRefresh
      <4> QED
        BY <4>2, <4>3 DEF KInv, Refreshes
    <3>2. CASE RefreshPutFails(by)
      <4>1. PICK r : ref' = [ref EXCEPT ![by] = r] /\ r = [q EXCEPT !.todo = Tail(q.todo)]
        BY <2>2, <3>2 DEF RefreshPutFails, KInv, Refreshes
      <4>2. r.step = q.step
        BY <2>2, <4>1 DEF IsRefresh
      <4> QED
        BY <4>1, <4>2 DEF KInv, Refreshes
    <3> QED
      BY <1>5, <3>1, <3>2
  <2>4. \A j \in Jobs : ref'[<<"job", j>>].step # "none" =>
            ref[<<"job", j>>].step # "none" \/ job[j].pc = "report"
    BY <1>1, <1>2, <2>2, <2>3
  <2> QED
    BY <2>1, <2>4, LanesStay
<1>6. CASE RefreshPublish(by)
  <2>1. ref'[by].step = "none" /\ ref[by].step # "none"
    <3>1. ref' = [ref EXCEPT ![by] = NoRefresh]
      BY <1>6 DEF RefreshPublish
    <3> QED
      BY <1>6, <3>1 DEF RefreshPublish, Ready, NoRefresh, KInv, Refreshes
  <2>2. CASE by[1] # "job"
    <3>1. UNCHANGED <<submitted, pending, serving, job>>
      BY <1>6, <2>2 DEF RefreshPublish
    <3>2. \A j \in Jobs : ref'[<<"job", j>>].step # "none" =>
            ref[<<"job", j>>].step # "none" \/ job[j].pc = "report"
      BY <1>1, <1>2, <2>1
    <3> QED
      BY <3>1, <3>2, LanesStay
  <2>3. CASE by[1] = "job"
    <3>1. PICK j \in Jobs : by = <<"job", j>>
      BY <2>3 DEF Owners, Boot, Poll
    <3>2. job[j].pc = "report"
      BY <2>1, <3>1, Laned
    <3>3. PICK l : l = job[j].conn.id
      OBVIOUS
    <3>4. l \in ConnIds
      BY <3>1, <3>2, <3>3, LaneOf DEF KInv, JobsKnown
    <3>5. j \in serving[l]
      BY <3>1, <3>2, <3>3, <3>4, Laned
    <3>6. /\ job' = [job EXCEPT ![j].pc = "closed"]
          /\ serving' = [serving EXCEPT ![l] = {}]
          /\ UNCHANGED <<submitted, pending>>
      BY <1>6, <3>1, <3>3 DEF RefreshPublish, Queue!Finish
    <3>7. PICK r : job' = [job EXCEPT ![j] = r] /\ r = [job[j] EXCEPT !.pc = "closed"]
      BY <3>1, <3>6 DEF Records
    <3>8. r.pc = "closed" /\ r.conn = job[j].conn
      BY <3>1, <3>7 DEF Records, IsJob
    <3>9. job'[j] = r /\ \A i \in Jobs : i # j => job'[i] = job[i]
      BY <3>1, <3>7 DEF Records
    <3>10. serving'[l] = {} /\ \A d \in ConnIds : d # l => serving'[d] = serving[d]
      BY <3>4, <3>6, Laned
    <3>11. pending' \in [ConnIds -> SUBSET Jobs] /\ serving' \in [ConnIds -> SUBSET Jobs]
      BY <3>6, Laned
    <3>12. ASSUME NEW i \in Jobs PROVE job'[i].pc = "none" <=> i > submitted'
      <4>1. job[i].pc = "none" <=> i > submitted
        BY Laned
      <4>2. CASE i = j
        BY <3>2, <3>6, <3>8, <3>9, <4>1, <4>2
      <4>3. CASE i # j
        BY <3>6, <3>9, <4>1, <4>3
      <4> QED
        BY <4>2, <4>3
    <3>13. ASSUME NEW i \in Jobs, ref'[<<"job", i>>].step # "none"
           PROVE  job'[i].pc = "report"
      <4>1. i # j
        BY <2>1, <3>1, <3>13
      <4>2. <<"job", i>> # by
        BY <3>1, <4>1
      <4>3. job[i].pc = "report"
        BY <1>1, <1>2, <3>13, <4>2, Laned
      <4> QED
        BY <3>9, <4>1, <4>3
    <3>14. ASSUME NEW i \in Jobs, NEW d \in ConnIds
           PROVE  /\ i \in pending'[d] <=> (job'[i].pc = "queued" /\ job'[i].conn.id = d)
                  /\ i \in serving'[d] <=> (/\ job'[i].pc \notin {"none", "queued", "closed"}
                                            /\ job'[i].conn.id = d)
      <4>1. /\ i \in pending[d] <=> (job[i].pc = "queued" /\ job[i].conn.id = d)
            /\ i \in serving[d] <=> (/\ job[i].pc \notin {"none", "queued", "closed"}
                                     /\ job[i].conn.id = d)
        BY Laned
      <4>2. CASE i = j
        BY <3>2, <3>3, <3>6, <3>8, <3>9, <3>10, <4>1, <4>2
      <4>3. CASE i # j /\ d = l
        <5>1. i \notin serving[l]
          BY <3>1, <3>4, <3>5, <4>3, Laned
        <5> QED
          BY <3>6, <3>9, <3>10, <4>1, <4>3, <5>1
      <4>4. CASE i # j /\ d # l
        BY <3>6, <3>9, <3>10, <4>1, <4>4
      <4> QED
        BY <4>2, <4>3, <4>4
    <3>15. \A d \in ConnIds : \A i, k \in serving'[d] : i = k
      <4> TAKE d \in ConnIds
      <4>1. CASE d = l
        BY <3>10, <4>1
      <4>2. CASE d # l
        BY <3>10, <4>2, Laned
      <4> QED
        BY <4>1, <4>2
    <3> QED
      BY <3>11, <3>12, <3>13, <3>14, <3>15 DEF Lanes
  <2> QED
    BY <2>2, <2>3
<1> QED
  BY <1>3, <1>4, <1>5, <1>6 DEF Refresh

\* After a crash nobody waits.
LEMMA CrashLanes ==
    ASSUME JobsNumbered, Crash
    PROVE  Lanes'
<1>1. PICK closed : closed = [NoJob EXCEPT !.pc = "closed"]
  OBVIOUS
<1>2. closed.pc = "closed" /\ NoJob.pc = "none" /\ NoRefresh.step = "none"
  BY <1>1 DEF NoJob, NoRefresh
<1>3. /\ submitted' = submitted /\ submitted \in Nat
      /\ job' = [j \in Jobs |-> IF j <= submitted THEN closed ELSE NoJob]
      /\ pending' = [c \in ConnIds |-> {}] /\ serving' = [c \in ConnIds |-> {}]
      /\ ref' = [by \in Owners |-> NoRefresh]
  BY <1>1 DEF Crash, JobsNumbered
<1>4. ASSUME NEW j \in Jobs
      PROVE  /\ job'[j].pc \in {"none", "closed"}
             /\ job'[j].pc = "none" <=> j > submitted'
             /\ ref'[<<"job", j>>].step = "none"
  <2>1. j \in Nat
    BY DEF Jobs
  <2>2. job'[j] = IF j <= submitted THEN closed ELSE NoJob
    BY <1>3
  <2>3. <<"job", j>> \in Owners
    BY DEF Owners
  <2>4. ref'[<<"job", j>>].step = "none"
    BY <1>2, <1>3, <2>3
  <2>5. CASE j <= submitted
    BY <1>2, <1>3, <2>1, <2>2, <2>4, <2>5
  <2>6. CASE j > submitted
    BY <1>2, <1>3, <2>1, <2>2, <2>4, <2>6
  <2> QED
    BY <1>3, <2>1, <2>5, <2>6
<1>5. \A c \in ConnIds : pending'[c] = {} /\ serving'[c] = {}
  BY <1>3
<1>6. pending' \in [ConnIds -> SUBSET Jobs] /\ serving' \in [ConnIds -> SUBSET Jobs]
  BY <1>3
<1> QED
  BY <1>4, <1>5, <1>6 DEF Lanes

LEMMA NextLanes ==
    ASSUME IInv, KInv, Numbered, Lanes, [Next]_vars
    PROVE  Lanes'
<1>0. Records /\ JobsNumbered
  BY DEF IInv
<1>1. ASSUME UNCHANGED <<submitted, pending, serving, job, ref>> PROVE Lanes'
  BY <1>1, LanesStay
<1>2. ASSUME NEW h \in Requests, Request(h) \/ Handler(h) PROVE Lanes'
  <2>1. CASE Enqueue(h)
    BY <1>0, <2>1, EnqueueLanes
  <2>2. CASE ~ Enqueue(h)
    BY <1>1, <1>2, <2>2 DEF Handler, Request, SaveGet, SavePut, SavePutFails, ActGet,
          ActSnapshot, SubmitCheck
  <2> QED
    BY <2>1, <2>2
<1>3. ASSUME NEW j \in Jobs, Job(j) PROVE Lanes'
  BY <1>0, <1>3, ServeLanes, CommandLanes DEF Job
<1>4. ASSUME NEW by \in Owners, RefreshList(by) \/ RefreshListFails(by) \/ Refresh(by)
      PROVE  Lanes'
  BY <1>0, <1>4, RefreshLanes
<1>5. CASE ExternalAdd \/ ExternalRemove \/ Start
  BY <1>1, <1>5 DEF ExternalAdd, ExternalRemove, External, Start
<1>6. CASE Crash
  BY <1>0, <1>6, CrashLanes
<1>7. CASE UNCHANGED vars
  BY <1>1, <1>7 DEF vars
<1> QED
  BY <1>2, <1>3, <1>4, <1>5, <1>6, <1>7 DEF Next

\* Connection ids are only ever added.
LEMMA NumberedBefore ==
    ASSUME KInv, [Next]_vars, Numbered'
    PROVE  Numbered
<1>1. nextConn \in Nat /\ MaxConns \in Nat
  BY BoundsAssumption DEF KInv, Counters
<1>2. nextConn' = nextConn \/ nextConn' = nextConn + 1
  BY DEF Next, Request, Handler, SaveGet, SavePut, SavePutFails, ActGet, ActSnapshot,
        SubmitCheck, Enqueue, Job, JobStart, JobSkip, JobRemove, JobRemoveFails, JobAdd,
        JobRename, JobCommandFails, JobDelete, JobDeleteFails, RefreshList, RefreshListFails,
        Refresh, RefreshLoad, RefreshPut, RefreshPutFails, RefreshPublish, PutStore,
        ExternalAdd, ExternalRemove, External, Crash, Start, vars
<1> QED
  BY <1>1, <1>2 DEF Numbered

LEMMA InitLanes ==
    ASSUME Init
    PROVE  Lanes
<1>1. /\ submitted = 0 /\ job = [j \in Jobs |-> NoJob]
      /\ pending = [c \in ConnIds |-> {}] /\ serving = [c \in ConnIds |-> {}]
      /\ ref = [by \in Owners |-> NoRefresh]
  BY DEF Init, Queue!LInit
<1>2. NoJob.pc = "none" /\ NoRefresh.step = "none"
  BY DEF NoJob, NoRefresh
<1>3. \A j \in Jobs : /\ job[j].pc = "none" /\ j > 0
                      /\ ref[<<"job", j>>].step = "none"
  BY <1>1, <1>2 DEF Jobs, Owners
<1>4. \A c \in ConnIds : pending[c] = {} /\ serving[c] = {}
  BY <1>1
<1>5. pending \in [ConnIds -> SUBSET Jobs] /\ serving \in [ConnIds -> SUBSET Jobs]
  BY <1>1
<1> QED
  BY <1>1, <1>3, <1>4, <1>5 DEF Lanes

LEMMA NextUp ==
    ASSUME Up, [Next]_vars
    PROVE  Up'
<1>1. ASSUME NEW h \in Requests, Request(h) \/ Handler(h) PROVE up' = up
  <2>1. CASE Request(h)
    BY <2>1 DEF Request
  <2>2. CASE SaveGet(h) \/ SavePut(h) \/ SavePutFails(h)
    BY <2>2 DEF SaveGet, SavePut, SavePutFails
  <2>3. CASE ActGet(h) \/ ActSnapshot(h) \/ SubmitCheck(h) \/ Enqueue(h)
    BY <2>3 DEF ActGet, ActSnapshot, SubmitCheck, Enqueue
  <2> QED
    BY <1>1, <2>1, <2>2, <2>3 DEF Handler
<1>2. ASSUME NEW j \in Jobs, Job(j) PROVE up' = up
  <2>1. CASE JobStart(j) \/ JobSkip(j)
    BY <2>1 DEF JobStart, JobSkip, JobStep
  <2>2. CASE JobRemove(j) \/ JobRemoveFails(j) \/ JobAdd(j)
    BY <2>2 DEF JobRemove, JobRemoveFails, JobAdd, JobStep
  <2>3. CASE JobRename(j) \/ JobCommandFails(j)
    BY <2>3 DEF JobRename, JobCommandFails, JobStep
  <2>4. CASE JobDelete(j) \/ JobDeleteFails(j)
    BY <2>4 DEF JobDelete, JobDeleteFails, JobStep
  <2> QED
    BY <1>2, <2>1, <2>2, <2>3, <2>4 DEF Job
<1>3. ASSUME NEW by \in Owners, RefreshList(by) \/ RefreshListFails(by) \/ Refresh(by)
      PROVE  Up'
  <2>1. CASE RefreshList(by) \/ RefreshListFails(by)
    BY <2>1 DEF Up, RefreshList, RefreshListFails
  <2>2. CASE RefreshLoad(by) \/ RefreshPut(by) \/ RefreshPutFails(by)
    BY <2>2 DEF Up, RefreshLoad, RefreshPut, RefreshPutFails
  <2>3. CASE RefreshPublish(by)
    BY <2>3 DEF Up, RefreshPublish
  <2> QED
    BY <1>3, <2>1, <2>2, <2>3 DEF Refresh
<1>4. CASE ExternalAdd \/ ExternalRemove
  BY <1>4 DEF Up, ExternalAdd, ExternalRemove, External
<1>5. CASE Crash \/ Start
  BY <1>5 DEF Up, Crash, Start
<1>6. CASE UNCHANGED vars
  BY <1>6 DEF Up, vars
<1> QED
  BY <1>1, <1>2, <1>3, <1>4, <1>5, <1>6 DEF Next, Up

\* What is known of a connection is its type.
LEMMA KnownConnection ==
    ASSUME KInv, Numbered, NEW c, Known(c)
    PROVE  c \in Connections
<1>1. c \in Conn /\ Given(c.profile)
  BY DEF Known
<1>2. c.id = NoId \/ c.id \in ConnIds
  BY LaneOf
<1>3. nextMachine \in Nat
  BY DEF KInv, Counters
<1>4. c.profile \in {NoProfile} \cup 1 .. nextMachine - 1
  <2>1. PICK profile : profile = c.profile
    OBVIOUS
  <2>2. profile = NoProfile \/ (profile \in Nat \ {0} /\ profile < nextMachine)
    BY <1>1, <2>1 DEF Conn, Given
  <2>3. profile = NoProfile \/ profile \in 1 .. nextMachine - 1
    BY <1>3, <2>2
  <2> QED
    BY <2>1, <2>3
<1> QED
  BY <1>1, <1>2, <1>4 DEF Conn, Connections

\* Everything has its type, ids in the store are distinct, and a job is in the
\* queue's lanes exactly as far as its goroutine got: as long as connections are
\* within the lanes that the model has.
THEOREM TypeCorrect == Spec => [](nextConn <= MaxConns + 1 => TypeOK)
<1> DEFINE Laning == Up /\ (Numbered => Lanes)
           Typing == nextConn <= MaxConns + 1 => TypeOK
<1>1. Init => Laning
  BY InitLanes DEF Init, Up
<1>2. (IInv /\ KInv) /\ Laning /\ [Next]_vars => Laning'
  BY NextLanes, NumberedBefore, NextUp
<1>3. IInv /\ KInv /\ Laning => Typing
  <2> SUFFICES ASSUME IInv, KInv, Up, Lanes, Numbered PROVE TypeOK
    BY DEF Numbered
  <2>1. up \in {"down", "starting", "serving"} /\ nextConn <= MaxConns + 1
    BY DEF Up, Numbered
  <2>2. ASSUME NEW i \in DOMAIN store PROVE store[i] \in Connections /\ store[i].id < nextConn
    BY KnownConnection DEF KInv, IsStore, Known, Assigned
  <2>3. \A i, k \in DOMAIN store : i # k => store[i].id # store[k].id
    BY DEF KInv, IsStore
  <2>4. \A h \in Requests : req[h].conn \in Connections
    BY KnownConnection DEF KInv, Handlers
  <2>5. \A j \in Jobs :
        /\ job[j].pc = "none" <=> j > submitted
        /\ \A c \in ConnIds :
            /\ j \in pending[c] <=> job[j].pc = "queued" /\ job[j].conn.id = c
            /\ j \in serving[c] <=> /\ job[j].pc \notin {"none", "queued", "closed"}
                                    /\ job[j].conn.id = c
    BY DEF Lanes
  <2> QED
    BY <2>1, <2>2, <2>3, <2>4, <2>5 DEF TypeOK
<1>4. (IInv /\ KInv) /\ [Next]_vars => (IInv /\ KInv)'
  BY NextKeeps, NextKnows
<1>5. Init => IInv /\ KInv
  BY InitCoalesced, InitKnows
<1> DEFINE Both == (IInv /\ KInv) /\ Laning
<1>6. Init => Both
  BY <1>1, <1>5
<1>7. Both /\ [Next]_vars => Both'
  BY <1>2, <1>4
<1>8. Both => Typing
  BY <1>3
<1> HIDE DEF Both, Typing
<1>9. Spec => []Typing
  BY <1>6, <1>7, <1>8, PTL DEF Spec
<1> QED
  BY <1>9 DEF Typing

-----------------------------------------------------------------------------
(* Claims of machines in the store *)

\* The save of a request that found its connection in the store.
Updating(h) == req[h].pc = "put" /\ req[h].previous # <<>>

\* No two saves of one connection are under way at a time.
SavesApart == \A g, h \in Requests :
    g # h /\ req[g].pc = "put" /\ req[h].pc = "put" /\ req[g].conn.id = req[h].conn.id
        => req[g].conn.id = NoId

\* Nothing is forgotten between the two halves of its save.
SavesStored == \A h \in Requests : Updating(h) => Has(store, req[h].conn.id)

\* The connection with this id claims this machine.
Claims(id, p) ==
    p # NoProfile /\ \E i \in DOMAIN store : store[i].id = id /\ store[i].profile = p

\* The machine is held, or was when a refresh in progress listed them.
Listed(r, p) ==
    /\ p # NoProfile
    /\ \/ \E n \in DOMAIN r.actual : r.actual[n].id = p
       \/ \E n \in DOMAIN r.todo : r.todo[n].profile = p

Live(p) == Held(p) \/ \E by \in Owners : Listed(ref[by], p)

\* A save about to write a claim it read earlier.
Saving(h) == req[h].pc = "put" /\ req[h].conn.profile # NoProfile

OneHolder == \A a, b, p : Claims(a, p) /\ Claims(b, p) => a = b

\* The claim is still stored, or a refresh replaced it as its machine is gone,
\* and nobody else writes it.
Saves ==
    /\ \A h \in Requests : req[h].pc = "get" => req[h].conn.profile = NoProfile
    /\ \A h \in Requests : Saving(h) =>
        /\ Updating(h)
        /\ \/ Claims(req[h].conn.id, req[h].conn.profile)
           \/ /\ ~ Live(req[h].conn.profile)
              /\ \A a : ~ Claims(a, req[h].conn.profile)
    /\ \A g, h \in Requests : Saving(g) /\ Saving(h) /\ g # h =>
        req[g].conn.profile # req[h].conn.profile

\* What a refresh has left to write: each record and each machine once.
Once(todo) ==
    \A m, n \in DOMAIN todo : m # n =>
        /\ todo[m].id # NoId => todo[m].id # todo[n].id
        /\ todo[m].profile # NoProfile => todo[m].profile # todo[n].profile

\* A machine to be written is not claimed by another, and a claim to be replaced
\* is of a machine that is gone.
Writes ==
    \A by \in Owners :
        /\ Once(ref[by].todo)
        /\ \A n \in DOMAIN ref[by].todo :
            /\ \A a : Claims(a, ref[by].todo[n].profile) => a = ref[by].todo[n].id
            /\ \A p : Claims(ref[by].todo[n].id, p) /\ p # ref[by].todo[n].profile
                            => ~ Live(p)

\* The list that was read still has the machines that are claimed and held.
Reads ==
    \A by \in Owners : ref[by].step = "load" =>
        \A a, p : Claims(a, p) /\ Held(p) =>
            \E n \in DOMAIN ref[by].actual : ref[by].actual[n].id = p

\* One refresh at a time holds the reload lock.
OneRefresh ==
    /\ \A a, b \in Owners : a # b => ref[a].step = "none" \/ ref[b].step = "none"
    /\ \A a \in Owners :
        /\ ref[a].step # "put" => ref[a].todo = <<>>
        /\ ref[a].step # "load" => ref[a].actual = <<>>

CInv == OneHolder /\ Saves /\ Writes /\ Reads /\ OneRefresh

\* Only assigned ids claim, and only machines that herdr gave out.
LEMMA ClaimsKnown ==
    ASSUME IsStore(store)
    PROVE  \A a, p : Claims(a, p) => /\ a # NoId /\ a \in Nat \ {0} /\ a < nextConn
                                     /\ p # NoProfile /\ p \in Nat \ {0} /\ p < nextMachine
<1> SUFFICES ASSUME NEW i \in DOMAIN store, store[i].profile # NoProfile
             PROVE  /\ store[i].id # NoId /\ store[i].id \in Nat \ {0} /\ store[i].id < nextConn
                    /\ store[i].profile \in Nat \ {0} /\ store[i].profile < nextMachine
  BY DEF Claims
<1>1. store[i] \in Conn /\ Known(store[i]) /\ store[i].id # NoId
  BY DEF IsStore, Known
<1>2. /\ store[i].id \in (Nat \ {0}) \cup {NoId}
      /\ store[i].profile \in (Nat \ {0}) \cup {NoProfile}
  BY <1>1 DEF Conn
<1> QED
  BY <1>1, <1>2 DEF Known, Given, Assigned

\* A connection claims one machine.
LEMMA ClaimsOne ==
    ASSUME IsStore(store)
    PROVE  \A a, p, q : Claims(a, p) /\ Claims(a, q) => p = q
BY DEF IsStore, Claims

\* A write of a record changes the claim of that record only.
LEMMA PutClaims ==
    ASSUME Counters, IsStore(store), NEW conn, Known(conn), PutStore(conn),
           NEW saved, saved = WithId(conn)
    PROVE  \A a, p : Claims(a, p)' <=>
                /\ p # NoProfile
                /\ IF a = saved.id THEN p = saved.profile ELSE Claims(a, p)
<1>1. store' = Put(store, saved)
  BY DEF PutStore
<1>2. CASE Has(store, saved.id)
  <2>1. store' = [i \in DOMAIN store |-> IF store[i].id = saved.id THEN saved ELSE store[i]]
    BY <1>1, <1>2 DEF Put
  <2>2. /\ DOMAIN store' = DOMAIN store
        /\ \A i \in DOMAIN store :
            store'[i] = IF store[i].id = saved.id THEN saved ELSE store[i]
    BY <2>1
  <2>3. PICK k \in DOMAIN store : store[k].id = saved.id
    BY <1>2 DEF Has, Named
  <2> QED
    BY <2>2, <2>3 DEF Claims
<1>3. CASE ~ Has(store, saved.id)
  <2>1. store' = Append(store, saved)
    BY <1>1, <1>3 DEF Put
  <2>2. \A i \in DOMAIN store : store[i].id # saved.id
    BY <1>3 DEF Has, Named
  <2>3. /\ saved \in Conn /\ store \in Seq(Conn) /\ Len(store) \in Nat
        /\ DOMAIN store = 1 .. Len(store)
    BY WithIdKnown DEF IsStore
  <2>4. /\ store' \in Seq(Conn) /\ Len(store') = Len(store) + 1
        /\ \A i \in 1 .. Len(store) : store'[i] = store[i]
        /\ store'[Len(store) + 1] = saved
    BY <2>1, <2>3, AppendProperties
  <2>5. DOMAIN store' = DOMAIN store \cup {Len(store) + 1} /\ Len(store) + 1 \notin DOMAIN store
    BY <2>3, <2>4
  <2>6. \A i \in DOMAIN store : store'[i] = store[i]
    BY <2>3, <2>4
  <2> QED
    BY <2>2, <2>4, <2>5, <2>6 DEF Claims
<1> QED
  BY <1>2, <1>3

\* Deleting one takes its claim away.
LEMMA DeleteClaims ==
    ASSUME IsStore(store), NEW id, store' = Delete(store, id)
    PROVE  /\ \A a, p : Claims(a, p)' => Claims(a, p)
           /\ \A a, p : Claims(a, p) /\ Has(store, a)' => Claims(a, p)'
<1> DEFINE P == {i \in DOMAIN store : store[i].id # id}
<1>1. /\ store' = At(store, P) /\ P \subseteq DOMAIN store /\ store \in Seq(Conn)
      /\ \A i, k \in DOMAIN store : store[i].id = store[k].id => i = k
  BY DEF Delete, IsStore
<1> HIDE DEF P
<1>2. \A n \in DOMAIN At(store, P) : Nth(P, n) \in P /\ At(store, P)[n] = store[Nth(P, n)]
  BY <1>1, AtKeeps
<1>3. \A n \in DOMAIN store' : \E i \in DOMAIN store : store'[n] = store[i]
  BY <1>1, <1>2
<1>4. \A a, p : Claims(a, p)' => Claims(a, p)
  BY <1>3 DEF Claims
<1>5. ASSUME NEW a, NEW p, Claims(a, p), Has(store, a)' PROVE Claims(a, p)'
  <2>1. PICK i \in DOMAIN store : store[i].id = a /\ store[i].profile = p /\ p # NoProfile
    BY <1>5 DEF Claims
  <2>2. PICK n \in DOMAIN store' : store'[n].id = a
    BY <1>5 DEF Has, Named
  <2>3. store'[n] = store[i]
    BY <1>1, <1>3, <2>1, <2>2
  <2> QED
    BY <2>1, <2>2, <2>3 DEF Claims
<1> QED
  BY <1>4, <1>5

\* A step that claims nothing and brings no machine back.
LEMMA ClaimsStay ==
    ASSUME CInv, KInv, ref' = ref,
           \A a, p : Claims(a, p)' => Claims(a, p),
           \A p : Held(p)' => Held(p) \/ p = nextMachine,
           \A h \in Requests : req'[h].pc = "get" => req'[h].conn.profile = NoProfile,
           \A h \in Requests : Saving(h)' =>
                /\ req'[h] = req[h]
                /\ \A p : Claims(req[h].conn.id, p) => Claims(req[h].conn.id, p)'
    PROVE  CInv'
<1> USE DEF CInv
<1>1. nextMachine \in Nat /\ IsStore(store)
  BY DEF KInv, Counters
<1>2. \A a, p : Claims(a, p) => p # nextMachine
  BY <1>1, ClaimsKnown
<1>3. ASSUME NEW p, p # nextMachine, Live(p)' PROVE Live(p)
  BY <1>3 DEF Live, Listed
<1>4. OneHolder'
  BY DEF OneHolder
<1>5. ASSUME NEW h \in Requests, Saving(h)'
      PROVE  /\ Saving(h) /\ Updating(h)' /\ req'[h] = req[h]
             /\ \/ Claims(req[h].conn.id, req[h].conn.profile)'
                \/ ~ Live(req[h].conn.profile)' /\ \A a : ~ Claims(a, req[h].conn.profile)'
  <2>1. req'[h] = req[h] /\ Saving(h)
    BY <1>5 DEF Saving
  <2>2. Updating(h)'
    BY <2>1 DEF Saves, Updating
  <2>3. PICK c : c = req[h].conn /\ c = req'[h].conn
    BY <2>1
  <2>4. Claims(c.id, c.profile) \/ (~ Live(c.profile) /\ \A a : ~ Claims(a, c.profile))
    BY <2>1, <2>3 DEF Saves
  <2>5. c.profile # nextMachine
    <3>1. Known(c) /\ c.profile # NoProfile
      BY <2>1, <2>3 DEF KInv, Handlers, Saving
    <3>2. c.profile < nextMachine /\ c.profile \in Nat
      BY <3>1 DEF Known, Given, Conn
    <3> QED
      BY <1>1, <3>2
  <2>6. Claims(c.id, c.profile) => Claims(c.id, c.profile)'
    BY <1>5, <2>3
  <2>7. Claims(c.id, c.profile)' \/ (~ Live(c.profile)' /\ \A a : ~ Claims(a, c.profile)')
    BY <1>3, <2>4, <2>5, <2>6
  <2> QED
    BY <2>1, <2>2, <2>3, <2>7
<1>6. Saves'
  <2>1. \A h \in Requests : Saving(h)' =>
            /\ Updating(h)'
            /\ \/ Claims(req[h].conn.id, req[h].conn.profile)'
               \/ ~ Live(req[h].conn.profile)' /\ \A a : ~ Claims(a, req[h].conn.profile)'
    BY <1>5
  <2>2. \A g, h \in Requests : Saving(g)' /\ Saving(h)' /\ g # h =>
            req'[g].conn.profile # req'[h].conn.profile
    BY <1>5 DEF Saves
  <2> QED
    BY <2>1, <2>2 DEF Saves
<1>7. Writes'
  <2> SUFFICES ASSUME NEW by \in Owners
               PROVE  /\ Once(ref[by].todo)
                      /\ \A n \in DOMAIN ref[by].todo :
                            /\ \A a : Claims(a, ref[by].todo[n].profile)'
                                        => a = ref[by].todo[n].id
                            /\ \A p : Claims(ref[by].todo[n].id, p)' /\ p # ref[by].todo[n].profile
                                        => ~ Live(p)'
    BY DEF Writes
  <2>1. \A n \in DOMAIN ref[by].todo : \A p :
            Claims(ref[by].todo[n].id, p)' /\ p # ref[by].todo[n].profile => ~ Live(p)'
    BY <1>2, <1>3 DEF Writes
  <2> QED
    BY <2>1 DEF Writes
<1>8. Reads'
  <2> SUFFICES ASSUME NEW by \in Owners, ref[by].step = "load",
                      NEW a, NEW p, Claims(a, p)', Held(p)'
               PROVE  \E n \in DOMAIN ref[by].actual : ref[by].actual[n].id = p
    BY DEF Reads
  <2>1. Claims(a, p) /\ Held(p)
    BY <1>2
  <2> QED
    BY <2>1 DEF Reads
<1>9. OneRefresh'
  BY DEF OneRefresh
<1> QED
  BY <1>4, <1>6, <1>7, <1>8, <1>9

\* A handler that writes nothing and does not come to write a claim.
LEMMA HandlerClaims ==
    ASSUME Records, CInv, KInv, NEW h \in Requests, NEW r, req' = [req EXCEPT ![h] = r],
           r.pc \in {"put", "get"} => r.conn.profile = NoProfile,
           UNCHANGED <<store, ref, herdr>>
    PROVE  CInv'
<1>1. \A g \in Requests : req'[g] = IF g = h THEN r ELSE req[g]
  BY DEF Records
<1>2. \A a, p : Claims(a, p)' <=> Claims(a, p)
  BY DEF Claims
<1>3. \A p : Held(p)' => Held(p) \/ p = nextMachine
  BY DEF Held
<1>4. \A g \in Requests : req'[g].pc = "get" => req'[g].conn.profile = NoProfile
  BY <1>1 DEF CInv, Saves
<1>5. \A g \in Requests : Saving(g)' =>
        /\ req'[g] = req[g]
        /\ \A p : Claims(req[g].conn.id, p) => Claims(req[g].conn.id, p)'
  BY <1>1, <1>2 DEF Saving
<1> QED
  BY <1>2, <1>3, <1>4, <1>5, ClaimsStay

\* The other steps of a handler neither bring it to its save nor back.
LEMMA HandlerMoves ==
    ASSUME Records, NEW h \in Requests,
           \/ SavePutFails(h) \/ ActGet(h) \/ ActSnapshot(h)
           \/ SubmitCheck(h) \/ Enqueue(h) \/ SavePut(h)
    PROVE  \E r : req' = [req EXCEPT ![h] = r] /\ r.pc \notin {"idle", "get", "put"}
<1>1. CASE SavePutFails(h)
  BY <1>1, NoHandlerKnown DEF SavePutFails
<1>2. CASE ActGet(h)
  <2>1. PICK r : /\ req' = [req EXCEPT ![h] = r]
                 /\ r = IF Has(store, req[h].conn.id)
                        THEN [req[h] EXCEPT !.pc = "snapshot",
                                            !.conn = Get(store, req[h].conn.id)]
                        ELSE Replied
    BY <1>2 DEF ActGet, Records
  <2>2. r.pc \in {"snapshot", "done"}
    BY <2>1, NoHandlerKnown DEF Records, IsHandler
  <2> QED
    BY <2>1, <2>2
<1>3. CASE ActSnapshot(h)
  <2>1. PICK kind : kind = ActKind(req[h].op, CachedActive(req[h].conn.id))
    OBVIOUS
  <2>2. PICK r : /\ req' = [req EXCEPT ![h] = r]
                 /\ r = [req[h] EXCEPT !.pc = AfterKind(kind), !.kind = kind]
    BY <1>3, <2>1 DEF ActSnapshot, Records
  <2>3. r.pc \in {"refresh", "submit"}
    BY <2>2 DEF Records, IsHandler, AfterKind
  <2> QED
    BY <2>2, <2>3
<1>4. CASE SubmitCheck(h)
  <2>1. PICK r : /\ req' = [req EXCEPT ![h] = r]
                 /\ r = Replied \/ r = [req[h] EXCEPT !.pc = "enqueue"]
    BY <1>4 DEF SubmitCheck, Records
  <2>2. r.pc \in {"done", "enqueue"}
    BY <2>1, NoHandlerKnown DEF Records, IsHandler
  <2> QED
    BY <2>1, <2>2
<1>5. CASE Enqueue(h)
  <2>1. PICK r : r = [IdleRequest EXCEPT !.pc = "refresh"] /\ req' = [req EXCEPT ![h] = r]
    BY <1>5 DEF Enqueue
  <2>2. r.pc = "refresh"
    BY <2>1 DEF IdleRequest
  <2> QED
    BY <2>1, <2>2
<1>6. CASE SavePut(h)
  <2>1. PICK saved, kind, reconnect :
          req' = [req EXCEPT ![h] = [@ EXCEPT !.pc = AfterKind(kind), !.conn = saved, !.kind = kind,
                                              !.reconnect = reconnect, !.previous = <<>>]]
    BY <1>6 DEF SavePut
  <2>2. PICK r : /\ req' = [req EXCEPT ![h] = r]
                 /\ r = [req[h] EXCEPT !.pc = AfterKind(kind), !.conn = saved, !.kind = kind,
                                       !.reconnect = reconnect, !.previous = <<>>]
    BY <2>1 DEF Records
  <2>3. r.pc \in {"refresh", "submit"}
    BY <2>2 DEF Records, IsHandler, AfterKind
  <2> QED
    BY <2>2, <2>3
<1> QED
  BY <1>1, <1>2, <1>3, <1>4, <1>5, <1>6

LEMMA HandlersClaim ==
    ASSUME Records, CInv, KInv, NEW h \in Requests,
           \/ Request(h) \/ SavePutFails(h) \/ ActGet(h) \/ ActSnapshot(h)
           \/ SubmitCheck(h) \/ Enqueue(h)
    PROVE  CInv'
<1>1. UNCHANGED <<store, ref, herdr>>
  BY DEF Request, SavePutFails, ActGet, ActSnapshot, SubmitCheck, Enqueue
<1>2. \E r : /\ req' = [req EXCEPT ![h] = r] /\ r.pc # "put"
             /\ r.pc = "get" => r.conn.profile = NoProfile
  <2>1. CASE Request(h)
    <3>1. PICK op, c : /\ req' = [req EXCEPT ![h] = [@ EXCEPT !.pc = "get", !.op = op, !.conn = c]]
                       /\ c.profile = NoProfile
      <4>1. PICK op \in Methods :
            \E c \in [id : 1 .. nextConn - 1 \cup (IF op = "save" THEN {NoId} ELSE {}),
                      label : IF op = "save" THEN Labels ELSE {""},
                      target : IF op = "save" THEN Targets ELSE {""},
                      session : IF op = "save" THEN Sessions ELSE {""},
                      profile : {NoProfile}] :
              req' = [req EXCEPT ![h] = [@ EXCEPT !.pc = "get", !.op = op, !.conn = c]]
        BY <2>1 DEF Request
      <4> QED
        BY <4>1
    <3>2. PICK r : /\ req' = [req EXCEPT ![h] = r]
                   /\ r = [req[h] EXCEPT !.pc = "get", !.op = op, !.conn = c]
      BY <3>1 DEF Records
    <3>3. r.pc = "get" /\ r.conn = c
      BY <3>2 DEF Records, IsHandler
    <3> QED
      BY <3>1, <3>2, <3>3
  <2>2. CASE ~ Request(h)
    BY <2>2, HandlerMoves
  <2> QED
    BY <2>1, <2>2
<1>3. PICK r : /\ req' = [req EXCEPT ![h] = r] /\ r.pc # "put"
               /\ r.pc = "get" => r.conn.profile = NoProfile
  BY <1>2
<1> QED
  BY <1>1, <1>3, HandlerClaims

\* The first half of a save reads a claim that stays its connection's own.
LEMMA SaveGetClaims ==
    ASSUME Records, CInv, KInv, SavesApart', NEW h \in Requests, SaveGet(h)
    PROVE  CInv'
<1>1. UNCHANGED <<store, ref, herdr>> /\ req[h].pc = "get"
  BY DEF SaveGet
<1>2. PICK known : known = req[h].conn
  OBVIOUS
<1>3. Known(known) /\ IsStore(store) /\ known.profile = NoProfile
  BY <1>1, <1>2 DEF KInv, Handlers, CInv, Saves
<1>4. CASE ~ Has(store, known.id)
  <2>1. PICK r : req' = [req EXCEPT ![h] = r] /\ r = [req[h] EXCEPT !.pc = "put"]
    BY <1>2, <1>4 DEF SaveGet, Records
  <2>2. r.pc = "put" /\ r.conn = known
    BY <1>2, <2>1 DEF Records, IsHandler
  <2> QED
    BY <1>1, <1>3, <2>1, <2>2, HandlerClaims
<1>5. CASE Has(store, known.id)
  <2>1. PICK previous : previous = Get(store, known.id)
    OBVIOUS
  <2>2. \E i \in DOMAIN store : previous = store[i] /\ store[i].id = known.id
    BY <1>5, <2>1 DEF Get, Has, Named
  <2>3. PICK c : c = [known EXCEPT !.profile = previous.profile]
    OBVIOUS
  <2>4. c.profile = previous.profile /\ c.id = known.id
    BY <1>3, <2>3 DEF Known, Conn
  <2>5. PICK r : /\ req' = [req EXCEPT ![h] = r]
                 /\ r = [req[h] EXCEPT !.pc = "put", !.previous = <<previous>>, !.conn = c]
    BY <1>2, <1>5, <2>1, <2>3 DEF SaveGet, Records, IsHandler
  <2>6. r.pc = "put" /\ r.conn = c /\ r.previous # <<>>
    BY <2>5 DEF Records, IsHandler
  <2>7. CASE c.profile = NoProfile
    BY <1>1, <2>5, <2>6, <2>7, HandlerClaims
  <2>8. CASE c.profile # NoProfile
    <3>1. Claims(c.id, c.profile)
      BY <2>2, <2>4, <2>8 DEF Claims
    <3>2. \A g \in Requests : req'[g] = IF g = h THEN r ELSE req[g]
      BY <2>5 DEF Records
    <3>3. /\ \A a, p : Claims(a, p)' <=> Claims(a, p)
          /\ \A p : Live(p)' <=> Live(p)
      BY <1>1 DEF Claims, Live, Held, Listed
    <3>4. ASSUME NEW g \in Requests, Saving(g)'
          PROVE  /\ Updating(g)'
                 /\ \/ Claims(req[g].conn.id, req[g].conn.profile)'
                    \/ ~ Live(req[g].conn.profile)' /\ \A a : ~ Claims(a, req[g].conn.profile)'
      <4>1. CASE g = h
        <5>1. req'[g].conn = c /\ Updating(g)'
          BY <2>6, <3>2, <4>1 DEF Updating
        <5>2. Claims(c.id, c.profile)'
          BY <3>1, <3>3
        <5> QED
          BY <5>1, <5>2
      <4>2. CASE g # h
        <5>1. PICK d : d = req[g].conn /\ req'[g] = req[g] /\ d = req'[g].conn
          BY <3>2, <4>2
        <5>2. Saving(g) /\ (Updating(g) => Updating(g)')
          BY <3>4, <5>1 DEF Saving, Updating
        <5>3. /\ Updating(g)
              /\ Claims(d.id, d.profile) \/ (~ Live(d.profile) /\ \A a : ~ Claims(a, d.profile))
          BY <5>1, <5>2 DEF CInv, Saves
        <5>4. Claims(d.id, d.profile)' \/ (~ Live(d.profile)' /\ \A a : ~ Claims(a, d.profile)')
          BY <3>3, <5>3
        <5> QED
          BY <5>1, <5>2, <5>3, <5>4
      <4> QED
        BY <4>1, <4>2
    <3>5. ASSUME NEW g \in Requests, g # h, Saving(g)'
          PROVE  req'[g].conn.profile # c.profile
      <4>1. PICK d : d = req[g].conn /\ d = req'[g].conn /\ req'[g].pc = "put" /\ req[g].pc = "put"
        BY <3>2, <3>5 DEF Saving
      <4>2. Saving(g)
        BY <3>5, <4>1 DEF Saving
      <4>3. Claims(d.id, d.profile) \/ \A a : ~ Claims(a, d.profile)
        BY <4>1, <4>2 DEF CInv, Saves
      <4>4. SUFFICES ASSUME d.profile = c.profile PROVE FALSE
        BY <4>1
      <4>5. d.id = c.id
        BY <3>1, <4>3, <4>4 DEF CInv, OneHolder
      <4>6. c.id # NoId
        BY <1>3, <3>1, ClaimsKnown
      <4>7. req'[h].pc = "put" /\ req'[h].conn = c
        BY <2>6, <3>2
      <4> QED
        BY <3>5, <4>1, <4>5, <4>6, <4>7 DEF SavesApart
    <3>6. \A a, b \in Requests : Saving(a)' /\ Saving(b)' /\ a # b =>
                req'[a].conn.profile # req'[b].conn.profile
      <4>1. ASSUME NEW a \in Requests, NEW b \in Requests, Saving(a)', Saving(b)', a # b
            PROVE  req'[a].conn.profile # req'[b].conn.profile
        <5>1. CASE a = h
          BY <2>6, <3>2, <3>5, <4>1, <5>1
        <5>2. CASE b = h
          BY <2>6, <3>2, <3>5, <4>1, <5>2
        <5>3. CASE a # h /\ b # h
          <6>1. req'[a] = req[a] /\ req'[b] = req[b]
            BY <3>2, <5>3
          <6>2. Saving(a) /\ Saving(b)
            BY <4>1, <6>1 DEF Saving
          <6> QED
            BY <4>1, <6>1, <6>2 DEF CInv, Saves
        <5> QED
          BY <5>1, <5>2, <5>3
      <4> QED
        BY <4>1
    <3>7. \A g \in Requests : req'[g].pc = "get" => req'[g].conn.profile = NoProfile
      BY <2>6, <3>2 DEF CInv, Saves
    <3>8. Saves'
      BY <3>4, <3>6, <3>7 DEF Saves
    <3>9. OneHolder' /\ OneRefresh'
      BY <1>1, <3>3 DEF CInv, OneHolder, OneRefresh
    <3>10. Writes' /\ Reads'
      BY <1>1, <3>3 DEF CInv, Writes, Reads, Held
    <3> QED
      BY <3>8, <3>9, <3>10 DEF CInv
  <2> QED
    BY <2>7, <2>8
<1> QED
  BY <1>4, <1>5

\* The second half writes a claim that the record still has, or one that nobody
\* else can come to have.
LEMMA SavePutClaims ==
    ASSUME Records, CInv, KInv, SavesApart, SavesStored, NEW h \in Requests, SavePut(h)
    PROVE  CInv'
<1>1. UNCHANGED <<ref, herdr>> /\ req[h].pc = "put"
  BY DEF SavePut
<1>2. PICK c, saved : c = req[h].conn /\ saved = WithId(c)
  OBVIOUS
<1>3. Known(c) /\ IsStore(store) /\ Counters
  BY <1>2 DEF KInv, Handlers
<1>4. /\ saved.profile = c.profile /\ saved.id # NoId
      /\ saved.id = IF c.id = NoId THEN nextConn ELSE c.id
  BY <1>2, <1>3, WithIdKnown
<1>5. \A a, p : Claims(a, p)' <=>
            /\ p # NoProfile
            /\ IF a = saved.id THEN p = c.profile ELSE Claims(a, p)
  <2>1. PutStore(c)
    BY <1>2 DEF SavePut
  <2>2. \A a, p : Claims(a, p)' <=>
            /\ p # NoProfile
            /\ IF a = saved.id THEN p = saved.profile ELSE Claims(a, p)
    BY <1>2, <1>3, <2>1, PutClaims
  <2> QED
    BY <1>4, <2>2
<1>6. PICK r : /\ req' = [req EXCEPT ![h] = r] /\ r.pc \in {"refresh", "submit"}
  <2>1. PICK kind : kind = SaveKind(req[h].previous, saved)
    OBVIOUS
  <2>2. PICK r : /\ req' = [req EXCEPT ![h] = r]
                 /\ r = [req[h] EXCEPT
                          !.pc = AfterKind(kind), !.conn = saved, !.kind = kind,
                          !.reconnect = Moves(req[h].previous, saved), !.previous = <<>>]
    BY <1>2, <2>1 DEF SavePut, Records
  <2>3. r.pc \in {"refresh", "submit"}
    BY <2>2 DEF Records, IsHandler, AfterKind
  <2> QED
    BY <2>2, <2>3
<1>7. \A g \in Requests : req'[g] = IF g = h THEN r ELSE req[g]
  BY <1>6 DEF Records
<1>8. \A g \in Requests : req'[g].pc = "get" => req'[g].conn.profile = NoProfile
  BY <1>6, <1>7 DEF CInv, Saves
<1>9. \A p : Live(p)' <=> Live(p)
  BY <1>1 DEF Live, Held, Listed
<1>10. ASSUME NEW g \in Requests, Saving(g)'
       PROVE  /\ g # h /\ Saving(g) /\ req'[g] = req[g] /\ Updating(g)
              /\ req[g].conn.id # saved.id
  <2>1. g # h /\ req'[g] = req[g] /\ Saving(g)
    BY <1>6, <1>7, <1>10 DEF Saving
  <2>2. Updating(g) /\ req[g].pc = "put"
    BY <2>1 DEF CInv, Saves, Saving
  <2>3. Has(store, req[g].conn.id)
    BY <2>2 DEF SavesStored
  <2>4. PICK i \in DOMAIN store : store[i].id = req[g].conn.id
    BY <2>3 DEF Has, Named
  <2>5. store[i].id # NoId /\ store[i] \in Conn /\ Assigned(store[i].id)
    BY <1>3 DEF IsStore, Known
  <2>6. store[i].id # nextConn
    <3>1. store[i].id \in (Nat \ {0}) \cup {NoId}
      BY <2>5 DEF Conn
    <3>2. store[i].id < nextConn /\ nextConn \in Nat
      BY <1>3, <2>5 DEF Assigned, Counters
    <3> QED
      BY <2>5, <3>1, <3>2
  <2>7. req[g].conn.id # c.id
    BY <1>1, <1>2, <2>1, <2>2, <2>4, <2>5 DEF SavesApart
  <2> QED
    BY <1>4, <2>1, <2>2, <2>4, <2>6, <2>7
<1>11. CASE c.profile = NoProfile \/ Claims(c.id, c.profile)
  <2>1. \A a, p : Claims(a, p)' => Claims(a, p)
    <3>1. Claims(c.id, c.profile) => saved.id = c.id
      BY <1>3, <1>4, ClaimsKnown
    <3> QED
      BY <1>5, <1>11, <3>1
  <2>2. \A p : Held(p)' => Held(p) \/ p = nextMachine
    BY <1>1 DEF Held
  <2>3. \A g \in Requests : Saving(g)' =>
            /\ req'[g] = req[g]
            /\ \A p : Claims(req[g].conn.id, p) => Claims(req[g].conn.id, p)'
    <3>1. ASSUME NEW g \in Requests, Saving(g)', NEW p, Claims(req[g].conn.id, p)
          PROVE  Claims(req[g].conn.id, p)'
      <4>1. PICK a : a = req[g].conn.id /\ a # saved.id /\ a = req'[g].conn.id
        BY <1>10, <3>1
      <4>2. Claims(a, p) /\ p # NoProfile
        BY <3>1, <4>1 DEF Claims
      <4>3. Claims(a, p)'
        BY <1>5, <4>1, <4>2
      <4> QED
        BY <4>1, <4>3
    <3>2. \A g \in Requests : Saving(g)' => req'[g] = req[g]
      BY <1>10
    <3> QED
      BY <3>1, <3>2
  <2> QED
    BY <1>1, <1>8, <2>1, <2>2, <2>3, ClaimsStay
<1>12. CASE c.profile # NoProfile /\ ~ Claims(c.id, c.profile)
  <2>1. Saving(h)
    BY <1>1, <1>2, <1>12 DEF Saving
  <2>2. ~ Live(c.profile) /\ \A a : ~ Claims(a, c.profile)
    BY <1>2, <1>12, <2>1 DEF CInv, Saves
  <2>3. saved.id = c.id
    <3>1. Has(store, c.id)
      BY <1>2, <2>1 DEF CInv, Saves, SavesStored
    <3>2. c.id # NoId
      BY <1>3, <3>1, GetKnown
    <3> QED
      BY <1>4, <3>2
  <2>4. OneHolder'
    <3>1. ASSUME NEW a, NEW b, NEW p, Claims(a, p)', Claims(b, p)' PROVE a = b
      BY <1>5, <2>2, <3>1 DEF CInv, OneHolder
    <3> QED
      BY <3>1 DEF OneHolder
  <2>5. ASSUME NEW g \in Requests, Saving(g)'
        PROVE  /\ Updating(g)'
               /\ \/ Claims(req[g].conn.id, req[g].conn.profile)'
                  \/ ~ Live(req[g].conn.profile)' /\ \A a : ~ Claims(a, req[g].conn.profile)'
    <3>1. PICK d : d = req[g].conn /\ d = req'[g].conn /\ d.id # saved.id
      BY <1>10, <2>5
    <3>2. Saving(g) /\ Updating(g) /\ Updating(g)' /\ g # h
      BY <1>10, <2>5 DEF Updating
    <3>3. d.profile # c.profile /\ d.profile # NoProfile
      BY <1>2, <2>1, <3>1, <3>2 DEF CInv, Saves, Saving
    <3>4. Claims(d.id, d.profile) \/ (~ Live(d.profile) /\ \A a : ~ Claims(a, d.profile))
      BY <3>1, <3>2 DEF CInv, Saves
    <3>5. Claims(d.id, d.profile)' \/ (~ Live(d.profile)' /\ \A a : ~ Claims(a, d.profile)')
      BY <1>5, <1>9, <3>1, <3>3, <3>4
    <3> QED
      BY <3>1, <3>2, <3>5
  <2>6. \A a, b \in Requests : Saving(a)' /\ Saving(b)' /\ a # b =>
            req'[a].conn.profile # req'[b].conn.profile
    BY <1>10 DEF CInv, Saves
  <2>7. Saves'
    BY <1>8, <2>5, <2>6 DEF Saves
  <2>8. Writes'
    <3> SUFFICES ASSUME NEW by \in Owners, NEW n \in DOMAIN ref[by].todo
                 PROVE  /\ \A a : Claims(a, ref[by].todo[n].profile)'
                                    => a = ref[by].todo[n].id
                        /\ \A p : Claims(ref[by].todo[n].id, p)' /\ p # ref[by].todo[n].profile
                                    => ~ Live(p)'
      BY <1>1 DEF CInv, Writes
    <3>1. PICK t : t = ref[by].todo[n] /\ t = ref'[by].todo[n]
      BY <1>1
    <3>2. /\ \A a : Claims(a, t.profile) => a = t.id
          /\ \A p : Claims(t.id, p) /\ p # t.profile => ~ Live(p)
      BY <3>1 DEF CInv, Writes
    <3>3. t.profile # NoProfile => Live(t.profile)
      BY <3>1 DEF Live, Listed
    <3>4. t.profile # NoProfile => t.profile # c.profile
      BY <2>2, <3>3
    <3>5. \A a : Claims(a, t.profile)' => a = t.id
      BY <1>5, <3>2, <3>4
    <3>6. \A p : Claims(t.id, p)' /\ p # t.profile => ~ Live(p)'
      BY <1>5, <1>9, <2>2, <3>2
    <3> QED
      BY <3>1, <3>5, <3>6
  <2>9. Reads'
    <3> SUFFICES ASSUME NEW by \in Owners, ref[by].step = "load",
                        NEW a, NEW p, Claims(a, p)', Held(p)'
                 PROVE  \E n \in DOMAIN ref[by].actual : ref[by].actual[n].id = p
      BY <1>1 DEF Reads
    <3>1. Held(p) /\ Live(p)
      BY <1>1 DEF Held, Live
    <3>2. Claims(a, p)
      BY <1>5, <2>2, <3>1
    <3> QED
      BY <3>1, <3>2 DEF CInv, Reads
  <2>10. OneRefresh'
    BY <1>1 DEF CInv, OneRefresh
  <2> QED
    BY <2>4, <2>7, <2>8, <2>9, <2>10 DEF CInv
<1> QED
  BY <1>11, <1>12

\* No step of a job or of another user of herdr brings a machine back.
LEMMA HerdrMoves ==
    ASSUME KInv,
           \/ \E j \in Jobs : Job(j)
           \/ ExternalAdd \/ ExternalRemove
    PROVE  \A p : Held(p)' => Held(p) \/ p = nextMachine
<1>1. ASSUME NEW id, herdr' = Removed(id)
      PROVE  \A p : Held(p)' => Held(p) \/ p = nextMachine
  <2>1. PICK machines : machines = Removed(id)
    OBVIOUS
  <2>2. \A n \in DOMAIN machines : \E k \in DOMAIN herdr : machines[n] = herdr[k]
    BY <2>1, RemovedKeeps DEF KInv
  <2> QED
    BY <1>1, <2>1, <2>2 DEF Held
<1>2. ASSUME NEW machine \in Endpoint, machine.id = nextMachine,
             herdr' = Append(herdr, machine), nextMachine' = nextMachine + 1, nextConn' = nextConn
      PROVE  \A p : Held(p)' => Held(p) \/ p = nextMachine
  BY <1>2, AddKeeps
<1>3. CASE herdr' = herdr
  BY <1>3 DEF Held
<1>4. ASSUME NEW j \in Jobs, Job(j) PROVE \A p : Held(p)' => Held(p) \/ p = nextMachine
  <2>1. CASE JobStart(j) \/ JobSkip(j) \/ JobCommandFails(j) \/ JobDelete(j) \/ JobDeleteFails(j)
    BY <1>3, <2>1 DEF JobStart, JobSkip, JobCommandFails, JobDelete, JobDeleteFails
  <2>2. CASE JobRemove(j) \/ JobRemoveFails(j)
    BY <1>1, <1>3, <2>2 DEF JobRemove, JobRemoveFails
  <2>3. CASE JobAdd(j)
    <3>1. PICK c : c = job[j].conn
      OBVIOUS
    <3>2. PICK machine : machine = [id |-> nextMachine, label |-> c.label, target |-> c.target,
                                    session |-> c.session]
      OBVIOUS
    <3>3. machine \in Endpoint /\ machine.id = nextMachine
      BY <3>1, <3>2 DEF KInv, Counters, JobsKnown, Known, Conn, Endpoint
    <3>4. /\ herdr' = Append(herdr, machine) /\ nextMachine' = nextMachine + 1
          /\ nextConn' = nextConn
      BY <2>3, <3>1, <3>2 DEF JobAdd
    <3> QED
      BY <1>2, <3>3, <3>4
  <2>4. CASE JobRename(j)
    <3>1. PICK profile, label :
            herdr' = [n \in DOMAIN herdr |-> IF herdr[n].id = profile
                                             THEN [herdr[n] EXCEPT !.label = label]
                                             ELSE herdr[n]]
      BY <2>4 DEF JobRename
    <3>2. \A n \in DOMAIN herdr : herdr'[n].id = herdr[n].id
      <4> TAKE n \in DOMAIN herdr
      <4>1. herdr[n] \in Endpoint
        BY ElementOfSeq DEF KInv, IsList
      <4> QED
        BY <3>1, <4>1 DEF Endpoint
    <3> QED
      BY <3>1, <3>2 DEF Held
  <2> QED
    BY <1>4, <2>1, <2>2, <2>3, <2>4 DEF Job
<1>5. CASE ExternalAdd
  <2>1. PICK l \in Labels, t \in Targets, s \in Sessions :
          herdr' = Append(herdr, [id |-> nextMachine, label |-> l, target |-> t, session |-> s])
    BY <1>5 DEF ExternalAdd
  <2>2. PICK machine : machine = [id |-> nextMachine, label |-> l, target |-> t, session |-> s]
    OBVIOUS
  <2>3. machine \in Endpoint /\ machine.id = nextMachine
    BY <2>2 DEF Endpoint, KInv, Counters
  <2>4. herdr' = Append(herdr, machine) /\ nextMachine' = nextMachine + 1 /\ nextConn' = nextConn
    BY <1>5, <2>1, <2>2 DEF ExternalAdd, External
  <2> QED
    BY <1>2, <2>3, <2>4
<1>6. CASE ExternalRemove
  BY <1>1, <1>6 DEF ExternalRemove
<1> QED
  BY <1>4, <1>5, <1>6

\* Jobs claim nothing: a forget takes a claim away that no save is about to
\* write.
LEMMA JobsClaim ==
    ASSUME CInv, KInv, SavesStored', NEW j \in Jobs, Job(j)
    PROVE  CInv'
<1>1. UNCHANGED <<req, ref>>
  BY DEF Job, JobStart, JobSkip, JobRemove, JobRemoveFails, JobAdd, JobRename,
     JobCommandFails, JobDelete, JobDeleteFails, JobStep
<1>2. \A p : Held(p)' => Held(p) \/ p = nextMachine
  BY HerdrMoves
<1>3. \A h \in Requests : Saving(h)' => req'[h] = req[h] /\ Updating(h)'
  BY <1>1 DEF CInv, Saves, Saving, Updating
<1>4. \A h \in Requests : req'[h].pc = "get" => req'[h].conn.profile = NoProfile
  BY <1>1 DEF CInv, Saves
<1>5. /\ \A a, p : Claims(a, p)' => Claims(a, p)
      /\ \A a, p : Claims(a, p) /\ Has(store, a)' => Claims(a, p)'
  <2>1. CASE JobDelete(j)
    <3>1. PICK id : id = job[j].conn.id
      OBVIOUS
    <3>2. store' = Delete(store, id)
      BY <2>1, <3>1 DEF JobDelete
    <3> QED
      BY <3>2, DeleteClaims DEF KInv
  <2>2. CASE ~ JobDelete(j)
    <3>1. store' = store
      BY <2>2 DEF Job, JobStart, JobSkip, JobRemove, JobRemoveFails, JobAdd, JobRename,
         JobCommandFails, JobDeleteFails, JobStep
    <3> QED
      BY <3>1 DEF Claims
  <2> QED
    BY <2>1, <2>2
<1>6. ASSUME NEW h \in Requests, Saving(h)', NEW p, Claims(req[h].conn.id, p)
      PROVE  Claims(req[h].conn.id, p)'
  <2>1. PICK a : a = req[h].conn.id /\ a = req'[h].conn.id
    BY <1>1
  <2>2. Has(store, a)'
    BY <1>3, <1>6, <2>1 DEF SavesStored
  <2>3. Claims(a, p)'
    BY <1>5, <1>6, <2>1, <2>2
  <2> QED
    BY <2>1, <2>3
<1> QED
  BY <1>1, <1>2, <1>3, <1>4, <1>5, <1>6, ClaimsStay

\* Neither do others, nor a start; a crash ends every save and every refresh.
LEMMA EndsClaim ==
    ASSUME CInv, KInv, ExternalAdd \/ ExternalRemove \/ Crash \/ Start
    PROVE  CInv'
<1>1. store' = store
  BY DEF ExternalAdd, ExternalRemove, External, Crash, Start
<1>2. \A a, p : Claims(a, p)' <=> Claims(a, p)
  BY <1>1 DEF Claims
<1>3. CASE ExternalAdd \/ ExternalRemove \/ Start
  <2>1. UNCHANGED <<req, ref>>
    BY <1>3 DEF ExternalAdd, ExternalRemove, External, Start
  <2>2. \A p : Held(p)' => Held(p) \/ p = nextMachine
    <3>1. CASE Start
      BY <3>1 DEF Start, Held
    <3> QED
      BY <1>3, <3>1, HerdrMoves
  <2>3. \A h \in Requests : req'[h].pc = "get" => req'[h].conn.profile = NoProfile
    BY <2>1 DEF CInv, Saves
  <2>4. \A h \in Requests : Saving(h)' =>
            /\ req'[h] = req[h]
            /\ \A p : Claims(req[h].conn.id, p) => Claims(req[h].conn.id, p)'
    BY <1>1, <2>1 DEF Claims
  <2> QED
    BY <1>2, <2>1, <2>2, <2>3, <2>4, ClaimsStay
<1>4. CASE Crash
  <2>1. \A h \in Requests : req'[h].pc \in {"idle", "done"}
    <3>1. \A h \in Requests : req'[h] = IdleRequest \/ req'[h] = Replied
      BY <1>4 DEF Crash
    <3> QED
      BY <3>1, NoHandlerKnown
  <2>2. \A by \in Owners : /\ ref'[by].step = "none"
                           /\ ref'[by].todo = <<>> /\ ref'[by].actual = <<>>
    BY <1>4 DEF Crash, NoRefresh
  <2>3. OneHolder'
    BY <1>2 DEF CInv, OneHolder
  <2>4. Saves'
    BY <2>1 DEF Saves, Saving
  <2>5. Writes'
    BY <2>2 DEF Writes, Once
  <2>6. Reads' /\ OneRefresh'
    BY <2>2 DEF Reads, OneRefresh
  <2> QED
    BY <2>3, <2>4, <2>5, <2>6 DEF CInv
<1> QED
  BY <1>3, <1>4

\* A step of a refresh that lists only what lives, and writes nothing.
LEMMA RefreshStays ==
    ASSUME CInv, KInv, NEW by \in Owners, NEW r, ref' = [ref EXCEPT ![by] = r],
           UNCHANGED <<store, herdr>>,
           \A h \in Requests : req'[h] = req[h] \/ req'[h].pc = "done",
           \A p : Listed(r, p) => Live(p),
           Once(r.todo),
           \A n \in DOMAIN r.todo :
                /\ \A a : Claims(a, r.todo[n].profile) => a = r.todo[n].id
                /\ \A p : Claims(r.todo[n].id, p) /\ p # r.todo[n].profile => ~ Live(p),
           r.step = "load" => \A a, p : Claims(a, p) /\ Held(p) =>
                                  \E n \in DOMAIN r.actual : r.actual[n].id = p,
           \A o \in Owners : o # by => ref[o].step = "none",
           r.step # "put" => r.todo = <<>>,
           r.step # "load" => r.actual = <<>>
    PROVE  CInv'
<1> USE DEF CInv
<1>1. \A o \in Owners : ref'[o] = IF o = by THEN r ELSE ref[o]
  BY DEF KInv, Refreshes
<1>2. \A a, p : Claims(a, p)' <=> Claims(a, p)
  BY DEF Claims
<1>3. \A p : Live(p)' => Live(p)
  <2>1. ASSUME NEW p, Live(p)' PROVE Live(p)
    <3>1. CASE Held(p)'
      BY <3>1 DEF Held, Live
    <3>2. ASSUME NEW o \in Owners, Listed(ref'[o], p) PROVE Live(p)
      BY <1>1, <3>2 DEF Live
    <3> QED
      BY <2>1, <3>1, <3>2 DEF Live, Listed
  <2> QED
    BY <2>1
<1>4. OneHolder'
  BY <1>2 DEF OneHolder
<1>5. ASSUME NEW h \in Requests, Saving(h)'
      PROVE  /\ Saving(h) /\ Updating(h)' /\ req'[h] = req[h]
             /\ \/ Claims(req[h].conn.id, req[h].conn.profile)'
                \/ ~ Live(req[h].conn.profile)' /\ \A a : ~ Claims(a, req[h].conn.profile)'
  <2>1. req'[h] = req[h] /\ Saving(h)
    BY <1>5 DEF Saving
  <2>2. Updating(h)'
    BY <2>1 DEF Saves, Updating
  <2>3. PICK c : c = req[h].conn /\ c = req'[h].conn
    BY <2>1
  <2>4. Claims(c.id, c.profile) \/ (~ Live(c.profile) /\ \A a : ~ Claims(a, c.profile))
    BY <2>1, <2>3 DEF Saves
  <2>5. Claims(c.id, c.profile)' \/ (~ Live(c.profile)' /\ \A a : ~ Claims(a, c.profile)')
    BY <1>2, <1>3, <2>4
  <2> QED
    BY <2>1, <2>2, <2>3, <2>5
<1>6. Saves'
  <2>1. \A h \in Requests : Saving(h)' =>
            /\ Updating(h)'
            /\ \/ Claims(req[h].conn.id, req[h].conn.profile)'
               \/ ~ Live(req[h].conn.profile)' /\ \A a : ~ Claims(a, req[h].conn.profile)'
    BY <1>5
  <2>2. \A g, h \in Requests : Saving(g)' /\ Saving(h)' /\ g # h =>
            req'[g].conn.profile # req'[h].conn.profile
    BY <1>5 DEF Saves
  <2>3. \A h \in Requests : req'[h].pc = "get" => req'[h].conn.profile = NoProfile
    BY DEF Saves
  <2> QED
    BY <2>1, <2>2, <2>3 DEF Saves
<1>7. Writes'
  <2> SUFFICES ASSUME NEW o \in Owners
               PROVE  /\ Once(ref'[o].todo)
                      /\ \A n \in DOMAIN ref'[o].todo :
                            /\ \A a : Claims(a, ref[o].todo[n].profile)'
                                        => a = ref'[o].todo[n].id
                            /\ \A p : Claims(ref[o].todo[n].id, p)' /\ p # ref'[o].todo[n].profile
                                        => ~ Live(p)'
    BY DEF Writes, Once
  <2>1. PICK todo : todo = ref'[o].todo
    OBVIOUS
  <2>2. /\ Once(todo)
        /\ \A n \in DOMAIN todo :
            /\ \A a : Claims(a, todo[n].profile) => a = todo[n].id
            /\ \A p : Claims(todo[n].id, p) /\ p # todo[n].profile => ~ Live(p)
    <3>1. CASE o = by
      <4>1. todo = r.todo
        BY <1>1, <2>1, <3>1
      <4> QED
        BY <4>1
    <3>2. CASE o # by
      <4>1. todo = ref[o].todo
        BY <1>1, <2>1, <3>2
      <4> QED
        BY <4>1 DEF Writes
    <3> QED
      BY <3>1, <3>2
  <2>3. \A n \in DOMAIN todo :
            /\ \A a : Claims(a, todo[n].profile)' => a = todo[n].id
            /\ \A p : Claims(todo[n].id, p)' /\ p # todo[n].profile => ~ Live(p)'
    BY <1>2, <1>3, <2>2
  <2> QED
    BY <2>1, <2>2, <2>3
<1>8. Reads'
  <2> SUFFICES ASSUME NEW o \in Owners, ref'[o].step = "load",
                      NEW a, NEW p, Claims(a, p), Held(p)
               PROVE  \E n \in DOMAIN ref'[o].actual : ref'[o].actual[n].id = p
    BY <1>2 DEF Reads, Held
  <2> QED
    BY <1>1
<1>9. OneRefresh'
  BY <1>1 DEF OneRefresh
<1> QED
  BY <1>4, <1>6, <1>7, <1>8, <1>9

\* The list is read.
LEMMA RefreshListClaims ==
    ASSUME CInv, KInv, NEW by \in Owners, RefreshList(by) \/ RefreshListFails(by)
    PROVE  CInv'
<1>1. UNCHANGED <<store, herdr, req>> /\ \A o \in Owners : ref[o].step = "none"
  BY DEF RefreshList, RefreshListFails, ReloadFree
<1>2. PICK q : q = ref[by]
  OBVIOUS
<1>3. /\ q = [step |-> q.step, actual |-> q.actual, todo |-> q.todo, out |-> q.out]
      /\ q.todo = <<>> /\ q.actual = <<>>
  BY <1>1, <1>2 DEF CInv, OneRefresh, KInv, Refreshes, IsRefresh
<1>4. CASE RefreshList(by)
  <2>1. PICK r : /\ ref' = [ref EXCEPT ![by] = r]
                 /\ r = [q EXCEPT !.step = "load", !.actual = herdr]
    BY <1>2, <1>4 DEF RefreshList, KInv, Refreshes
  <2>2. r.step = "load" /\ r.actual = herdr /\ r.todo = <<>>
    BY <1>3, <2>1
  <2>3. /\ \A p : Listed(r, p) => Live(p)
        /\ Once(r.todo)
        /\ \A p : Held(p) => \E n \in DOMAIN r.actual : r.actual[n].id = p
    BY <2>2 DEF Listed, Live, Held, Once
  <2>4. /\ ref' = [ref EXCEPT ![by] = r] /\ UNCHANGED <<store, herdr>>
        /\ \A h \in Requests : req'[h] = req[h] \/ req'[h].pc = "done"
        /\ \A n \in DOMAIN r.todo :
            /\ \A a : Claims(a, r.todo[n].profile) => a = r.todo[n].id
            /\ \A p : Claims(r.todo[n].id, p) /\ p # r.todo[n].profile => ~ Live(p)
        /\ r.step = "load" => \A a, p : Claims(a, p) /\ Held(p) =>
                                  \E n \in DOMAIN r.actual : r.actual[n].id = p
        /\ \A o \in Owners : o # by => ref[o].step = "none"
        /\ r.step # "put" => r.todo = <<>>
        /\ r.step # "load" => r.actual = <<>>
    BY <1>1, <2>1, <2>2, <2>3
  <2> HIDE DEF Listed, Once
  <2> QED
    BY <2>3, <2>4, RefreshStays
<1>5. CASE RefreshListFails(by)
  <2>1. PICK r : ref' = [ref EXCEPT ![by] = r] /\ r = [q EXCEPT !.step = "failed"]
    BY <1>2, <1>5 DEF RefreshListFails, KInv, Refreshes
  <2>2. r.step = "failed" /\ r.actual = <<>> /\ r.todo = <<>>
    BY <1>3, <2>1
  <2>3. (\A p : ~ Listed(r, p)) /\ Once(r.todo)
    BY <2>2 DEF Listed, Once
  <2>4. /\ UNCHANGED <<store, herdr>> /\ \A p : Listed(r, p) => Live(p)
        /\ \A n \in DOMAIN r.todo :
            /\ \A a : Claims(a, r.todo[n].profile) => a = r.todo[n].id
            /\ \A p : Claims(r.todo[n].id, p) /\ p # r.todo[n].profile => ~ Live(p)
        /\ r.step = "load" => \A a, p : Claims(a, p) /\ Held(p) =>
                                  \E n \in DOMAIN r.actual : r.actual[n].id = p
        /\ \A o \in Owners : o # by => ref[o].step = "none"
        /\ r.step # "put" => r.todo = <<>>
        /\ r.step # "load" => r.actual = <<>>
        /\ \A h \in Requests : req'[h] = req[h] \/ req'[h].pc = "done"
        /\ Once(r.todo) /\ ref' = [ref EXCEPT ![by] = r]
    BY <1>1, <2>1, <2>2, <2>3
  <2> QED
    BY <2>4, RefreshStays
<1> QED
  BY <1>4, <1>5

\* A write fails, or the refresh ends.
LEMMA RefreshEndsClaim ==
    ASSUME CInv, KInv, Records, NEW by \in Owners, RefreshPutFails(by) \/ RefreshPublish(by)
    PROVE  CInv'
<1>1. UNCHANGED <<store, herdr>>
  BY DEF RefreshPutFails, RefreshPublish
<1>2. PICK q : q = ref[by]
  OBVIOUS
<1>3. /\ q = [step |-> q.step, actual |-> q.actual, todo |-> q.todo, out |-> q.out]
      /\ q.todo \in Seq(Conn) /\ Once(q.todo)
      /\ \A n \in DOMAIN q.todo :
            /\ \A a : Claims(a, q.todo[n].profile) => a = q.todo[n].id
            /\ \A p : Claims(q.todo[n].id, p) /\ p # q.todo[n].profile => ~ Live(p)
  BY <1>2 DEF CInv, Writes, KInv, Refreshes, IsRefresh
<1>4. CASE RefreshPutFails(by)
  <2>1. q.todo # <<>>
    BY <1>2, <1>4 DEF RefreshPutFails
  <2>2. q.step = "put" /\ \A o \in Owners : o # by => ref[o].step = "none"
    BY <1>2, <2>1 DEF CInv, OneRefresh
  <2>3. PICK r : r = [q EXCEPT !.todo = Tail(q.todo)] /\ ref' = [ref EXCEPT ![by] = r]
    BY <1>2, <1>4 DEF RefreshPutFails, KInv, Refreshes
  <2>4. r.step = "put" /\ r.actual = <<>> /\ r.todo = Tail(q.todo)
    BY <1>2, <1>3, <2>2, <2>3 DEF CInv, OneRefresh
  <2>5. \A n \in DOMAIN r.todo : n \in Nat /\ n + 1 \in DOMAIN q.todo /\ r.todo[n] = q.todo[n + 1]
    BY <1>3, <2>1, <2>4, HeadTailProperties
  <2>6. Once(r.todo)
    <3> SUFFICES ASSUME NEW m \in DOMAIN r.todo, NEW n \in DOMAIN r.todo, m # n
                 PROVE  /\ r.todo[m].id # NoId => r.todo[m].id # r.todo[n].id
                        /\ r.todo[m].profile # NoProfile => r.todo[m].profile # r.todo[n].profile
      BY DEF Once
    <3>1. /\ m + 1 \in DOMAIN q.todo /\ n + 1 \in DOMAIN q.todo /\ m + 1 # n + 1
          /\ r.todo[m] = q.todo[m + 1] /\ r.todo[n] = q.todo[n + 1]
      BY <2>5
    <3> QED
      BY <1>3, <3>1 DEF Once
  <2>7. \A p : Listed(r, p) => Live(p)
    <3>1. ASSUME NEW p, Listed(r, p) PROVE Listed(q, p)
      BY <2>4, <2>5, <3>1 DEF Listed
    <3> QED
      BY <1>2, <3>1 DEF Live
  <2>8. \A n \in DOMAIN r.todo :
            /\ \A a : Claims(a, r.todo[n].profile) => a = r.todo[n].id
            /\ \A p : Claims(r.todo[n].id, p) /\ p # r.todo[n].profile => ~ Live(p)
    BY <1>3, <2>5
  <2>9. req' = req
    BY <1>4 DEF RefreshPutFails
  <2> QED
    BY <1>1, <2>2, <2>3, <2>4, <2>6, <2>7, <2>8, <2>9, RefreshStays
<1>5. CASE RefreshPublish(by)
  <2>1. q.step # "none" /\ \A o \in Owners : o # by => ref[o].step = "none"
    BY <1>2, <1>5 DEF RefreshPublish, Ready, CInv, OneRefresh
  <2>2. PICK r : r = NoRefresh /\ ref' = [ref EXCEPT ![by] = r]
    BY <1>5 DEF RefreshPublish
  <2>3. r.step = "none" /\ r.actual = <<>> /\ r.todo = <<>>
    BY <2>2 DEF NoRefresh
  <2>4. (\A p : ~ Listed(r, p)) /\ Once(r.todo)
    BY <2>3 DEF Listed, Once
  <2>6. /\ UNCHANGED <<store, herdr>> /\ \A p : Listed(r, p) => Live(p)
        /\ \A n \in DOMAIN r.todo :
            /\ \A a : Claims(a, r.todo[n].profile) => a = r.todo[n].id
            /\ \A p : Claims(r.todo[n].id, p) /\ p # r.todo[n].profile => ~ Live(p)
        /\ r.step = "load" => \A a, p : Claims(a, p) /\ Held(p) =>
                                  \E n \in DOMAIN r.actual : r.actual[n].id = p
        /\ \A o \in Owners : o # by => ref[o].step = "none"
        /\ r.step # "put" => r.todo = <<>>
        /\ r.step # "load" => r.actual = <<>>
        /\ Once(r.todo) /\ ref' = [ref EXCEPT ![by] = r]
    BY <1>1, <2>1, <2>2, <2>3, <2>4
  <2>5. \A h \in Requests : req'[h] = req[h] \/ req'[h].pc = "done"
    <3>1. req' = req \/ req' = [req EXCEPT ![by[2]] = Replied]
      BY <1>5 DEF RefreshPublish
    <3> QED
      BY <3>1, NoHandlerKnown DEF Records
  <2> QED
    BY <2>5, <2>6, RefreshStays
<1> QED
  BY <1>4, <1>5

\* The writes that the matching with a list decides on.
Todo(actual) == Matching!Corrections(store, actual) \o Matching!Adoptions(store, actual)

\* What the matching decides to write, of a store in which each machine is
\* claimed once: machines that it was shown, each once, and those that are
\* claimed only for the connection that claims them.
LEMMA LoadClaims ==
    ASSUME KInv, OneHolder, NEW actual, IsList(actual), NEW todo,
           todo = Todo(actual)
    PROVE  /\ \A n \in DOMAIN todo :
                todo[n].profile # NoProfile => \E m \in DOMAIN actual : actual[m].id = todo[n].profile
           /\ Once(todo)
           /\ \A n \in DOMAIN todo : \A a, p :
                Claims(a, p) /\ (\E m \in DOMAIN actual : actual[m].id = p)
                    => (todo[n].profile = p <=> todo[n].id = a)
<1>1. /\ store \in Seq(Conn) /\ actual \in Seq(Endpoint)
      /\ \A i \in DOMAIN store : Known(store[i]) /\ store[i].id # NoId
      /\ \A i, k \in DOMAIN store : store[i].id = store[k].id => i = k
  BY DEF KInv, IsStore, IsList
<1>2. Proofs!Distinct(actual)
  <2>1. \A n \in DOMAIN actual : actual[n].id # NoProfile
    <3> TAKE n \in DOMAIN actual
    <3>1. actual[n] \in Endpoint
      BY <1>1, ElementOfSeq
    <3> QED
      BY <3>1, Ids DEF Endpoint
  <2> QED
    BY <2>1 DEF IsList, Proofs!Distinct
<1>3. Proofs!Records(store)
  BY <1>1 DEF Proofs!Records, Known, Conn
<1>bound. MaxConns \in Nat
  BY BoundsAssumption
<1>4. PICK paired, corrected, adopted :
        /\ paired = Proofs!Paired(store, actual)
        /\ corrected = Proofs!Corrections(store, actual)
        /\ adopted = Proofs!Adoptions(store, actual)
  OBVIOUS
<1>5. ASSUME NEW i \in DOMAIN store
      PROVE  /\ paired[i] = [store[i] EXCEPT !.profile = paired[i].profile]
             /\ paired[i].profile # NoProfile =>
                    \E n \in DOMAIN actual : paired[i].profile = actual[n].id
  <2>1. PICK q : q = Proofs!Paired(store, actual)[i]
    OBVIOUS
  <2>2. /\ q = [store[i] EXCEPT !.profile = q.profile]
        /\ q.profile = NoProfile \/ \E n \in DOMAIN actual : q.profile = actual[n].id
    BY <1>1, <1>2, <1>3, <2>1, <1>bound, IdsAssumption, Proofs!PairedRecord
  <2> QED
    BY <1>4, <2>1, <2>2
<1>6. \A i \in DOMAIN store : paired[i].id = store[i].id
  <2> TAKE i \in DOMAIN store
  <2>1. store[i] \in Conn
    BY <1>1, ElementOfSeq
  <2> QED
    BY <1>5, <2>1 DEF Conn
<1>7. \A i, k \in DOMAIN store :
        paired[i].profile # NoProfile /\ paired[k].profile = paired[i].profile => i = k
  <2> TAKE i, k \in DOMAIN store
  <2> QED
    BY <1>1, <1>2, <1>3, <1>4, <1>bound, IdsAssumption, Proofs!ClaimsExistOnce
<1>8. PICK R : R = {paired[i] : i \in DOMAIN store}
  OBVIOUS
<1>9. /\ corrected \in Seq(R)
      /\ \A n \in DOMAIN corrected : \E i \in DOMAIN store : corrected[n] = paired[i]
  <2>1. \A i \in DOMAIN store : Proofs!Paired(store, actual)[i] \in R
    BY <1>4, <1>8
  <2>2. corrected \in Seq(R)
    BY <1>1, <1>4, <2>1, <1>bound, IdsAssumption, Proofs!CorrectsPaired
  <2>3. \A n \in DOMAIN corrected : \E i \in DOMAIN store : corrected[n] = paired[i]
    <3>1. corrected \in Seq(R) => \A n \in DOMAIN corrected : corrected[n] \in R
      BY ElementOfSeq
    <3> QED
      BY <1>8, <2>2, <3>1
  <2> QED
    BY <2>2, <2>3
<1>10. \A m, n \in DOMAIN corrected : corrected[m].id = corrected[n].id => m = n
  <2>1. /\ store \in Seq(Conn)
        /\ \A i, k \in DOMAIN store :
            Proofs!Paired(store, actual)[i].id = Proofs!Paired(store, actual)[k].id => i = k
    BY <1>1, <1>4, <1>6
  <2>2. \A m, n \in DOMAIN Proofs!Corrections(store, actual) :
            Proofs!Corrections(store, actual)[m].id = Proofs!Corrections(store, actual)[n].id
                => m = n
    BY <2>1, <1>bound, IdsAssumption, Proofs!CorrectsOnce
  <2> QED
    BY <1>4, <2>2
<1>11. /\ DOMAIN adopted = 1 .. Len(adopted) /\ Len(adopted) \in Nat
       /\ \A a \in DOMAIN adopted :
            /\ \E n \in DOMAIN actual :
                adopted[a] = [id |-> NoId, label |-> actual[n].label,
                              target |-> actual[n].target, session |-> actual[n].session,
                              profile |-> actual[n].id]
            /\ \A i \in DOMAIN store : paired[i].profile # adopted[a].profile
            /\ \A b \in DOMAIN adopted : adopted[a].profile = adopted[b].profile => a = b
  <2>1. store \in Seq(Conn) /\ actual \in Seq(Endpoint)
    BY <1>1
  <2>2. /\ DOMAIN adopted = 1 .. Len(adopted) /\ Len(adopted) \in Nat
        /\ \A a \in DOMAIN adopted :
            /\ \E n \in DOMAIN actual :
                adopted[a] = [id |-> NoId, label |-> actual[n].label,
                              target |-> actual[n].target, session |-> actual[n].session,
                              profile |-> actual[n].id]
            /\ \A i \in DOMAIN store : paired[i].profile # adopted[a].profile
            /\ \A b \in DOMAIN adopted : adopted[a].profile = adopted[b].profile => a = b
    BY <2>1, <1>2, <1>3, <1>4, <1>bound, IdsAssumption, Proofs!AdoptsUnclaimed
  <2> QED
    BY <2>2
<1>12. \A a \in DOMAIN adopted :
            /\ adopted[a].id = NoId
            /\ \E n \in DOMAIN actual : adopted[a].profile = actual[n].id
  BY <1>11
<1>13. todo = corrected \o adopted
  BY <1>4, Matched DEF Todo
<1>14. \A n \in DOMAIN todo :
          /\ n \in Nat
          /\ \/ n \in DOMAIN corrected /\ todo[n] = corrected[n]
             \/ n - Len(corrected) \in DOMAIN adopted /\ todo[n] = adopted[n - Len(corrected)]
  <2>1. corrected \in Seq(Conn) /\ adopted \in Seq(Conn)
    BY <1>4, Matched, LoadKnows
  <2>2. /\ DOMAIN corrected = 1 .. Len(corrected) /\ Len(corrected) \in Nat
        /\ DOMAIN adopted = 1 .. Len(adopted) /\ Len(adopted) \in Nat
    BY <2>1
  <2>3. /\ todo \in Seq(Conn) /\ Len(todo) = Len(corrected) + Len(adopted)
        /\ \A n \in 1 .. Len(corrected) : todo[n] = corrected[n]
        /\ \A n \in Len(corrected) + 1 .. Len(corrected) + Len(adopted) :
                todo[n] = adopted[n - Len(corrected)]
    <3>1. todo \in Seq(Conn)
      BY <1>13, <2>1, ConcatProperties
    <3> QED
      BY <1>13, <2>1, <3>1, ConcatProperties
  <2>4. DOMAIN todo = 1 .. Len(corrected) + Len(adopted)
    BY <2>3
  <2> QED
    BY <2>2, <2>3, <2>4
<1>15. Len(corrected) \in Nat
  BY <1>9
<1>16. \A n \in DOMAIN todo :
          todo[n].profile # NoProfile => \E m \in DOMAIN actual : actual[m].id = todo[n].profile
  <2> TAKE n \in DOMAIN todo
  <2>1. CASE n \in DOMAIN corrected /\ todo[n] = corrected[n]
    <3>1. PICK i \in DOMAIN store : todo[n] = paired[i]
      BY <1>9, <2>1
    <3> QED
      BY <1>5, <3>1
  <2>2. CASE n - Len(corrected) \in DOMAIN adopted /\ todo[n] = adopted[n - Len(corrected)]
    BY <1>12, <2>2
  <2> QED
    BY <1>14, <2>1, <2>2
<1>17. ASSUME NEW m \in DOMAIN todo, NEW n \in DOMAIN todo, m # n
       PROVE  /\ todo[m].id # NoId => todo[m].id # todo[n].id
              /\ todo[m].profile # NoProfile => todo[m].profile # todo[n].profile
  <2>1. CASE m \in DOMAIN corrected /\ todo[m] = corrected[m]
    <3>1. CASE n \in DOMAIN corrected /\ todo[n] = corrected[n]
      BY <1>7, <1>9, <1>10, <1>17, <2>1, <3>1
    <3>2. CASE n - Len(corrected) \in DOMAIN adopted /\ todo[n] = adopted[n - Len(corrected)]
      BY <1>9, <1>11, <1>12, <2>1, <3>2
    <3> QED
      BY <1>14, <3>1, <3>2
  <2>2. CASE m - Len(corrected) \in DOMAIN adopted /\ todo[m] = adopted[m - Len(corrected)]
    <3>1. CASE n \in DOMAIN corrected /\ todo[n] = corrected[n]
      <4>1. PICK i \in DOMAIN store : todo[n] = paired[i]
        BY <1>9, <3>1
      <4> QED
        BY <1>11, <1>12, <2>2, <4>1
    <3>2. CASE n - Len(corrected) \in DOMAIN adopted /\ todo[n] = adopted[n - Len(corrected)]
      <4>1. m - Len(corrected) # n - Len(corrected)
        BY <1>14, <1>15, <1>17
      <4> QED
        BY <1>11, <1>12, <2>2, <3>2, <4>1
    <3> QED
      BY <1>14, <3>1, <3>2
  <2> QED
    BY <1>14, <2>1, <2>2
<1>18. ASSUME NEW n \in DOMAIN todo, NEW a, NEW p, Claims(a, p),
              \E m \in DOMAIN actual : actual[m].id = p
       PROVE  todo[n].profile = p <=> todo[n].id = a
  <2>1. PICK i \in DOMAIN store : store[i].id = a /\ store[i].profile = p /\ p # NoProfile
    BY <1>18 DEF Claims
  <2>2. PICK m \in DOMAIN actual : actual[m].id = p
    BY <1>18
  <2>3. \A k \in 1 .. i - 1 : store[k].profile # store[i].profile
    <3> SUFFICES ASSUME NEW k \in 1 .. i - 1, store[k].profile = store[i].profile
                 PROVE  FALSE
      OBVIOUS
    <3>1. k \in DOMAIN store /\ k # i
      BY <1>1
    <3>2. Claims(store[k].id, p)
      BY <2>1, <3>1 DEF Claims
    <3>3. store[k].id = a
      BY <1>18, <3>2 DEF OneHolder
    <3> QED
      BY <1>1, <2>1, <3>1, <3>3
  <2>4. paired[i].profile = p /\ paired[i].id = a
    <3>1. store[i].profile = actual[m].id
      BY <2>1, <2>2
    <3>2. Proofs!Paired(store, actual)[i].profile = store[i].profile
      BY <1>1, <1>2, <1>3, <2>3, <3>1, <1>bound, IdsAssumption, Proofs!HolderKeeps
    <3> QED
      BY <1>4, <1>6, <2>1, <3>2
  <2>5. CASE n \in DOMAIN corrected /\ todo[n] = corrected[n]
    <3>1. PICK k \in DOMAIN store : todo[n] = paired[k]
      BY <1>9, <2>5
    <3> QED
      BY <1>1, <1>6, <1>7, <2>1, <2>4, <3>1
  <2>6. CASE n - Len(corrected) \in DOMAIN adopted /\ todo[n] = adopted[n - Len(corrected)]
    BY <1>1, <1>11, <1>12, <2>1, <2>4, <2>6
  <2> QED
    BY <1>14, <2>5, <2>6
<1> QED
  BY <1>16, <1>17, <1>18 DEF Once

\* The store is read: claims that the matching replaces are of machines gone.
LEMMA RefreshLoadClaims ==
    ASSUME CInv, KInv, NEW by \in Owners, RefreshLoad(by)
    PROVE  CInv'
<1>1. PICK actual, todo, out :
        /\ actual = ref[by].actual
        /\ todo = Todo(actual)
        /\ ref' = [ref EXCEPT ![by] =
                    [step |-> "put", actual |-> <<>>, todo |-> todo, out |-> out]]
  BY DEF RefreshLoad, Todo
<1>2. PICK r : /\ r = [step |-> "put", actual |-> <<>>, todo |-> todo, out |-> out]
               /\ ref' = [ref EXCEPT ![by] = r]
  BY <1>1
<1>3. r.step = "put" /\ r.actual = <<>> /\ r.todo = todo
  BY <1>2
<1>4. /\ ref[by].step = "load" /\ ref[by].todo = <<>>
      /\ \A o \in Owners : o # by => /\ ref[o].step = "none"
                                     /\ ref[o].todo = <<>> /\ ref[o].actual = <<>>
  BY DEF RefreshLoad, CInv, OneRefresh
<1>5. IsList(actual)
  BY <1>1 DEF KInv, Refreshes, IsRefresh
<1>6. OneHolder
  BY DEF CInv
<1>7. /\ \A n \in DOMAIN todo :
            todo[n].profile # NoProfile => \E m \in DOMAIN actual : actual[m].id = todo[n].profile
      /\ Once(todo)
      /\ \A n \in DOMAIN todo : \A a, p :
            Claims(a, p) /\ (\E m \in DOMAIN actual : actual[m].id = p)
                => (todo[n].profile = p <=> todo[n].id = a)
  BY <1>1, <1>5, <1>6, LoadClaims
<1>8. \A p : Listed(r, p) => Live(p)
  <2> SUFFICES ASSUME NEW p, Listed(r, p) PROVE Live(p)
    OBVIOUS
  <2>1. p # NoProfile /\ \E m \in DOMAIN actual : actual[m].id = p
    BY <1>3, <1>7 DEF Listed
  <2>2. Listed(ref[by], p)
    BY <1>1, <2>1 DEF Listed
  <2> QED
    BY <2>2 DEF Live
<1>9. ASSUME NEW n \in DOMAIN todo
      PROVE  /\ \A a : Claims(a, todo[n].profile) => a = todo[n].id
             /\ \A p : Claims(todo[n].id, p) /\ p # todo[n].profile => ~ Live(p)
  <2>1. \A a : Claims(a, todo[n].profile) => a = todo[n].id
    <3> SUFFICES ASSUME NEW a, Claims(a, todo[n].profile) PROVE a = todo[n].id
      OBVIOUS
    <3>1. todo[n].profile # NoProfile
      BY DEF Claims
    <3> QED
      BY <1>7, <3>1
  <2>2. ASSUME NEW p, Claims(todo[n].id, p), p # todo[n].profile PROVE ~ Live(p)
    <3>1. ~ \E m \in DOMAIN actual : actual[m].id = p
      BY <1>7, <2>2
    <3>2. ~ Held(p)
      BY <1>1, <1>4, <2>2, <3>1 DEF CInv, Reads
    <3>3. ASSUME NEW o \in Owners PROVE ~ Listed(ref[o], p)
      BY <1>1, <1>4, <3>1 DEF Listed
    <3> QED
      BY <3>2, <3>3 DEF Live
  <2> QED
    BY <2>1, <2>2
<1>10. /\ UNCHANGED <<store, herdr>> /\ req' = req
  BY DEF RefreshLoad
<1>11. /\ ref' = [ref EXCEPT ![by] = r]
       /\ UNCHANGED <<store, herdr>>
       /\ \A h \in Requests : req'[h] = req[h] \/ req'[h].pc = "done"
       /\ \A p : Listed(r, p) => Live(p)
       /\ Once(r.todo)
       /\ \A n \in DOMAIN r.todo :
            /\ \A a : Claims(a, r.todo[n].profile) => a = r.todo[n].id
            /\ \A p : Claims(r.todo[n].id, p) /\ p # r.todo[n].profile => ~ Live(p)
       /\ r.step = "load" => \A a, p : Claims(a, p) /\ Held(p) =>
                                  \E n \in DOMAIN r.actual : r.actual[n].id = p
       /\ \A o \in Owners : o # by => ref[o].step = "none"
       /\ r.step # "put" => r.todo = <<>>
       /\ r.step # "load" => r.actual = <<>>
  BY <1>2, <1>3, <1>4, <1>7, <1>8, <1>9, <1>10
<1> QED
  BY <1>11, RefreshStays

\* A refresh writes its next record: a claim of a machine that nobody else
\* claims, over one of a machine that is gone.
LEMMA RefreshPutClaims ==
    ASSUME CInv, KInv, NEW by \in Owners, RefreshPut(by)
    PROVE  CInv'
<1> USE DEF CInv
<1>1. PICK todo, conn, saved :
        todo = ref[by].todo /\ conn = Head(todo) /\ saved = WithId(conn)
  OBVIOUS
<1>2. /\ todo \in Seq(Conn) /\ todo # <<>>
      /\ \A n \in DOMAIN todo : Known(todo[n])
  BY <1>1 DEF RefreshPut, KInv, Refreshes, IsRefresh
<1>3. 1 \in DOMAIN todo /\ conn = todo[1] /\ Known(conn)
  BY <1>1, <1>2
<1>4. /\ ref[by].step = "put"
      /\ \A o \in Owners : o # by => /\ ref[o].step = "none"
                                     /\ ref[o].todo = <<>> /\ ref[o].actual = <<>>
  BY <1>1, <1>2 DEF OneRefresh
<1>5. UNCHANGED <<req, herdr>> /\ PutStore(conn)
  BY <1>1 DEF RefreshPut
<1>6. /\ \A o \in Owners : o # by => ref'[o] = ref[o]
      /\ ref'[by].step = "put" /\ ref'[by].actual = <<>> /\ ref'[by].todo = Tail(todo)
  <2>1. PICK q : q = ref[by]
    OBVIOUS
  <2>2. /\ q = [step |-> q.step, actual |-> q.actual, todo |-> q.todo, out |-> q.out]
        /\ q.step = "put" /\ q.actual = <<>> /\ q.todo = todo
    BY <1>1, <1>4, <2>1 DEF KInv, Refreshes, IsRefresh, OneRefresh
  <2>3. PICK out : ref' = [ref EXCEPT ![by] = [q EXCEPT !.todo = Tail(todo), !.out = out]]
    BY <2>1, <2>2 DEF RefreshPut, KInv, Refreshes
  <2>4. PICK r : /\ r = [q EXCEPT !.todo = Tail(todo), !.out = out]
                 /\ ref' = [ref EXCEPT ![by] = r]
    BY <2>3
  <2>5. r.step = "put" /\ r.actual = <<>> /\ r.todo = Tail(todo)
    BY <2>2, <2>4
  <2> QED
    BY <2>4, <2>5 DEF KInv, Refreshes
<1>7. \A n \in DOMAIN Tail(todo) :
        n \in Nat /\ n + 1 \in DOMAIN todo /\ n + 1 # 1 /\ Tail(todo)[n] = todo[n + 1]
  BY <1>2, HeadTailProperties
<1>8. Counters /\ IsStore(store) /\ nextConn \in Nat \ {0}
  BY DEF KInv, Counters
<1>9. \A a, p : Claims(a, p)' <=>
        /\ p # NoProfile
        /\ IF a = saved.id THEN p = saved.profile ELSE Claims(a, p)
  BY <1>1, <1>3, <1>5, <1>8, PutClaims
<1>10. \A a, p : Claims(a, p) => a # NoId /\ a # nextConn /\ p # NoProfile
  BY <1>8, ClaimsKnown
<1>11. /\ saved.profile = conn.profile
       /\ saved.id = IF conn.id = NoId THEN nextConn ELSE conn.id
  BY <1>1, <1>3 DEF WithId, Known, Conn
<1>12. /\ Once(todo)
       /\ \A n \in DOMAIN todo :
            /\ \A a : Claims(a, todo[n].profile) => a = todo[n].id
            /\ \A p : Claims(todo[n].id, p) /\ p # todo[n].profile => ~ Live(p)
  BY <1>1 DEF Writes
<1>13. \A a : Claims(a, saved.profile) => a = saved.id
  BY <1>3, <1>10, <1>11, <1>12
<1>14. \A p : Claims(saved.id, p) /\ p # saved.profile => ~ Live(p)
  BY <1>3, <1>10, <1>11, <1>12
<1>15. saved.profile # NoProfile => Live(saved.profile)
  BY <1>1, <1>3, <1>11 DEF Live, Listed
<1>16. \A p : Live(p)' => Live(p)
  <2>1. ASSUME NEW o \in Owners, NEW p, Listed(ref'[o], p) PROVE Live(p)
    <3>1. CASE o = by
      <4>1. PICK n \in DOMAIN Tail(todo) : Tail(todo)[n].profile = p /\ p # NoProfile
        <5>1. ref'[o].actual = <<>> /\ ref'[o].todo = Tail(todo)
          BY <1>6, <3>1
        <5>2. \E n \in DOMAIN ref'[o].todo : ref'[o].todo[n].profile = p /\ p # NoProfile
          BY <2>1, <5>1 DEF Listed
        <5> QED
          BY <5>1, <5>2
      <4>2. n + 1 \in DOMAIN ref[by].todo /\ ref[by].todo[n + 1].profile = p
        BY <1>1, <1>7, <4>1
      <4> QED
        BY <4>1, <4>2 DEF Live, Listed
    <3>2. CASE o # by
      BY <1>6, <2>1, <3>2 DEF Live
    <3> QED
      BY <3>1, <3>2
  <2>2. \A p : Held(p)' => Live(p)
    BY <1>5 DEF Held, Live
  <2>3. ASSUME NEW p, Live(p)' PROVE Live(p)
    <3>1. Held(p)' \/ \E o \in Owners : Listed(ref'[o], p)
      BY <2>3 DEF Live, Listed
    <3> QED
      BY <2>1, <2>2, <3>1
  <2> QED
    BY <2>3
<1>17. OneHolder'
  <2> SUFFICES ASSUME NEW a, NEW b, NEW p, Claims(a, p)', Claims(b, p)' PROVE a = b
    BY DEF OneHolder
  <2> QED
    BY <1>9, <1>13 DEF OneHolder
<1>18. ASSUME NEW h \in Requests, Saving(h)'
       PROVE  /\ Saving(h) /\ Updating(h)'
              /\ \/ Claims(req[h].conn.id, req[h].conn.profile)'
                 \/ ~ Live(req[h].conn.profile)' /\ \A a : ~ Claims(a, req[h].conn.profile)'
  <2>1. req'[h] = req[h] /\ Saving(h)
    BY <1>5, <1>18 DEF Saving
  <2>2. Updating(h)'
    BY <2>1 DEF Saves, Updating
  <2>3. PICK c : c = req[h].conn /\ c = req'[h].conn
    BY <2>1
  <2>4. c.profile # NoProfile
    BY <2>1, <2>3 DEF Saving
  <2>5. Claims(c.id, c.profile) \/ (~ Live(c.profile) /\ \A a : ~ Claims(a, c.profile))
    BY <2>1, <2>3 DEF Saves
  <2>6. CASE Claims(c.id, c.profile) /\ ~ Claims(c.id, c.profile)'
    <3>1. c.id = saved.id /\ c.profile # saved.profile
      BY <1>9, <2>4, <2>6
    <3>2. ~ Live(c.profile)
      BY <1>14, <2>6, <3>1
    <3>3. \A a : Claims(a, c.profile)' => Claims(a, c.profile) /\ a # saved.id
      BY <1>9, <3>1
    <3>4. \A a : ~ Claims(a, c.profile)'
      BY <2>6, <3>1, <3>3 DEF OneHolder
    <3> QED
      BY <1>16, <2>1, <2>2, <2>3, <3>2, <3>4
  <2>7. CASE Claims(c.id, c.profile)'
    BY <2>1, <2>2, <2>3, <2>7
  <2>8. CASE ~ Live(c.profile) /\ \A a : ~ Claims(a, c.profile)
    <3>1. c.profile # saved.profile
      BY <1>15, <2>4, <2>8
    <3>2. \A a : ~ Claims(a, c.profile)'
      BY <1>9, <2>8, <3>1
    <3> QED
      BY <1>16, <2>1, <2>2, <2>3, <2>8, <3>2
  <2> QED
    BY <2>5, <2>6, <2>7, <2>8
<1>19. Saves'
  <2>1. \A h \in Requests : Saving(h)' =>
            /\ Updating(h)'
            /\ \/ Claims(req[h].conn.id, req[h].conn.profile)'
               \/ ~ Live(req[h].conn.profile)' /\ \A a : ~ Claims(a, req[h].conn.profile)'
    BY <1>18
  <2>2. \A g, h \in Requests : Saving(g)' /\ Saving(h)' /\ g # h =>
            req'[g].conn.profile # req'[h].conn.profile
    BY <1>5, <1>18 DEF Saves
  <2>3. \A h \in Requests : req'[h].pc = "get" => req'[h].conn.profile = NoProfile
    BY <1>5 DEF Saves
  <2> QED
    BY <2>1, <2>2, <2>3 DEF Saves
<1>20. Writes'
  <2> SUFFICES ASSUME NEW o \in Owners
               PROVE  /\ Once(ref'[o].todo)
                      /\ \A n \in DOMAIN ref'[o].todo :
                            /\ \A a : Claims(a, ref[o].todo[n].profile)'
                                        => a = ref'[o].todo[n].id
                            /\ \A p : Claims(ref[o].todo[n].id, p)' /\ p # ref'[o].todo[n].profile
                                        => ~ Live(p)'
    BY DEF Writes, Once
  <2>1. CASE o # by
    <3>1. ref'[o].todo = <<>>
      BY <1>4, <1>6, <2>1
    <3> QED
      BY <3>1 DEF Once
  <2>2. CASE o = by
    <3>1. PICK rest : rest = Tail(todo) /\ rest = ref'[o].todo
      BY <1>6, <2>2
    <3>2. Once(rest)
      <4> SUFFICES ASSUME NEW m \in DOMAIN rest, NEW n \in DOMAIN rest, m # n
                   PROVE  /\ rest[m].id # NoId => rest[m].id # rest[n].id
                          /\ rest[m].profile # NoProfile => rest[m].profile # rest[n].profile
        BY DEF Once
      <4>1. /\ m + 1 \in DOMAIN todo /\ n + 1 \in DOMAIN todo /\ m + 1 # n + 1
            /\ rest[m] = todo[m + 1] /\ rest[n] = todo[n + 1]
        BY <1>7, <3>1
      <4> QED
        BY <1>12, <4>1 DEF Once
    <3>3. ASSUME NEW n \in DOMAIN rest
          PROVE  /\ \A a : Claims(a, rest[n].profile)' => a = rest[n].id
                 /\ \A p : Claims(rest[n].id, p)' /\ p # rest[n].profile => ~ Live(p)'
      <4>1. PICK t : t = rest[n] /\ t = todo[n + 1]
        BY <1>7, <3>1
      <4>2. n + 1 \in DOMAIN todo /\ n + 1 # 1 /\ Known(t)
        BY <1>2, <1>7, <3>1, <4>1
      <4>3. /\ \A a : Claims(a, t.profile) => a = t.id
            /\ \A p : Claims(t.id, p) /\ p # t.profile => ~ Live(p)
        BY <1>12, <4>1, <4>2
      <4>4. t.profile # NoProfile => t.profile # saved.profile
        BY <1>3, <1>11, <1>12, <4>1, <4>2 DEF Once
      <4>5. t.id # saved.id
        <5>1. CASE conn.id = NoId
          <6>1. t.id # nextConn
            <7>1. t.id \in (Nat \ {0}) \cup {NoId} /\ (t.id # NoId => t.id < nextConn)
              BY <4>2 DEF Known, Conn, Assigned
            <7>2. nextConn \in Nat \ {0} /\ NoId \notin Nat \ {0}
              BY <1>8, Ids
            <7> QED
              BY <7>1, <7>2
          <6> QED
            BY <1>11, <5>1, <6>1
        <5>2. CASE conn.id # NoId
          BY <1>3, <1>11, <1>12, <4>1, <4>2, <5>2 DEF Once
        <5> QED
          BY <5>1, <5>2
      <4>6. \A a : Claims(a, t.profile)' => a = t.id
        BY <1>9, <4>3, <4>4
      <4>7. \A p : Claims(t.id, p)' /\ p # t.profile => ~ Live(p)'
        BY <1>9, <1>16, <4>3, <4>5
      <4> QED
        BY <4>1, <4>6, <4>7
    <3> QED
      BY <3>1, <3>2, <3>3
  <2> QED
    BY <2>1, <2>2
<1>21. Reads' /\ OneRefresh'
  <2>1. \A o \in Owners : o # by => /\ ref'[o].step = "none"
                                    /\ ref'[o].todo = <<>> /\ ref'[o].actual = <<>>
    BY <1>4, <1>6
  <2>2. \A o \in Owners : ref'[o].step # "load"
    BY <1>6, <2>1
  <2> QED
    BY <1>6, <2>1, <2>2 DEF Reads, OneRefresh
<1> QED
  BY <1>17, <1>19, <1>20, <1>21

LEMMA NextClaims ==
    ASSUME IInv, KInv, CInv, SavesApart, SavesStored, SavesApart', SavesStored', [Next]_vars
    PROVE  CInv'
<1>0. Records
  BY DEF IInv
<1>1. ASSUME NEW h \in Requests, Request(h) \/ Handler(h) PROVE CInv'
  BY <1>0, <1>1, HandlersClaim, SaveGetClaims, SavePutClaims DEF Handler
<1>2. ASSUME NEW j \in Jobs, Job(j) PROVE CInv'
  BY <1>2, JobsClaim
<1>3. ASSUME NEW by \in Owners, RefreshList(by) \/ RefreshListFails(by) \/ Refresh(by)
      PROVE  CInv'
  BY <1>0, <1>3, RefreshListClaims, RefreshLoadClaims, RefreshPutClaims, RefreshEndsClaim
  DEF Refresh
<1>4. CASE ExternalAdd \/ ExternalRemove \/ Crash \/ Start
  BY <1>4, EndsClaim
<1>5. CASE UNCHANGED vars
  <2>1. UNCHANGED <<store, ref, req, herdr>>
    BY <1>5 DEF vars
  <2>2. /\ \A a, p : Claims(a, p)' <=> Claims(a, p)
        /\ \A p : Held(p)' => Held(p) \/ p = nextMachine
    BY <2>1 DEF Claims, Held
  <2>3. \A h \in Requests : req'[h].pc = "get" => req'[h].conn.profile = NoProfile
    BY <2>1 DEF CInv, Saves
  <2>4. \A h \in Requests : Saving(h)' =>
            /\ req'[h] = req[h]
            /\ \A p : Claims(req[h].conn.id, p) => Claims(req[h].conn.id, p)'
    BY <2>1 DEF Claims
  <2> QED
    BY <2>1, <2>2, <2>3, <2>4, ClaimsStay
<1> QED
  BY <1>1, <1>2, <1>3, <1>4, <1>5 DEF Next

LEMMA InitClaims ==
    ASSUME Init, StoreClaimsUnique
    PROVE  CInv
<1>1. \A by \in Owners : /\ ref[by].step = "none"
                         /\ ref[by].todo = <<>> /\ ref[by].actual = <<>>
  BY DEF Init, NoRefresh
<1>2. \A h \in Requests : req[h].pc = "idle"
  BY DEF Init, IdleRequest
<1>3. OneHolder
  BY DEF OneHolder, StoreClaimsUnique, Claims
<1>4. Saves
  BY <1>2 DEF Saves, Saving
<1>5. Writes
  BY <1>1 DEF Writes, Once
<1>6. Reads /\ OneRefresh
  BY <1>1 DEF Reads, OneRefresh
<1> QED
  BY <1>3, <1>4, <1>5, <1>6 DEF CInv

LEMMA ClaimedOnce ==
    ASSUME KInv, CInv
    PROVE  StoreClaimsUnique
<1> SUFFICES ASSUME NEW i \in DOMAIN store, NEW k \in DOMAIN store, i # k,
                    store[i].profile = store[k].profile, store[i].profile # NoProfile
             PROVE  FALSE
  BY DEF StoreClaimsUnique
<1>1. Claims(store[i].id, store[i].profile) /\ Claims(store[k].id, store[i].profile)
  BY DEF Claims
<1>2. store[i].id = store[k].id
  BY <1>1 DEF CInv, OneHolder
<1> QED
  BY <1>2 DEF KInv, IsStore

\* A machine belongs to one connection in the store, however the writes of
\* refreshes, saves, jobs, other users of herdr and failures interleave, as long
\* as no two saves of one connection are under way and no connection is
\* forgotten during a save of it.
THEOREM StoreClaimsOnce ==
    StoreClaimsUnique /\ Spec /\ [](SavesApart /\ SavesStored) => []StoreClaimsUnique
<1>1. Init /\ StoreClaimsUnique => CInv
  BY InitClaims
<1>2. (IInv /\ KInv) /\ CInv /\ (SavesApart /\ SavesStored) /\ (SavesApart /\ SavesStored)'
            /\ [Next]_vars => CInv'
  BY NextClaims
<1>3. (IInv /\ KInv) /\ CInv => StoreClaimsUnique
  BY ClaimedOnce
<1> QED
  BY <1>1, <1>2, <1>3, Invariance, PTL DEF Spec

\* A handler that has not submitted its job, or replied, yet.
Early(r) == r.pc \in {"get", "put", "snapshot", "submit", "enqueue"}

\* Nobody else is at work before a handler submits its job.
Patient ==
    /\ \A h \in Requests : Early(req[h]) =>
        /\ \A g \in Requests : g # h => req[g].pc \in {"idle", "done"}
        /\ \A j \in Jobs : job[j].pc \in {"none", "closed"}
    /\ \A j \in Jobs : j > submitted => job[j].pc \in {"none", "closed"}
    /\ \A h \in Requests : req[h].pc \in {"idle", "get"} => req[h].previous = <<>>
    /\ SavesStored

LEMMA PutHas ==
    ASSUME KInv, NEW conn, Known(conn), PutStore(conn)
    PROVE  \A id : Has(store, id) => Has(store, id)'
<1>1. IsStore(store) /\ Counters
  BY DEF KInv
<1>2. PICK saved : saved = WithId(conn)
  OBVIOUS
<1>3. store' = Put(store, saved)
  BY <1>2 DEF PutStore
<1>4. CASE Has(store, saved.id)
  <2>1. /\ DOMAIN store' = DOMAIN store
        /\ \A i \in DOMAIN store :
            store'[i] = IF store[i].id = saved.id THEN saved ELSE store[i]
    BY <1>3, <1>4 DEF Put
  <2> QED
    BY <2>1 DEF Has, Named
<1>5. CASE ~ Has(store, saved.id)
  <2>1. store' = Append(store, saved) /\ store \in Seq(Conn) /\ saved \in Conn
    BY <1>1, <1>2, <1>3, <1>5, WithIdKnown DEF Put, IsStore
  <2>2. \A i \in DOMAIN store : i \in DOMAIN store' /\ store'[i] = store[i]
    BY <2>1, AppendProperties
  <2> QED
    BY <2>2 DEF Has, Named
<1> QED
  BY <1>4, <1>5

\* Steps of nobody's handler or job, and replies.
LEMMA PatientStays ==
    ASSUME Patient, submitted' = submitted,
           \A h \in Requests :
                req'[h] = req[h] \/ (req'[h].pc \in {"idle", "done"} /\ req'[h].previous = <<>>),
           \A j \in Jobs : job'[j].pc = job[j].pc \/ job'[j].pc \in {"none", "closed"},
           \A id : Has(store, id) => Has(store, id)'
    PROVE  Patient'
<1>1. ASSUME NEW h \in Requests, Early(req'[h])
      PROVE  /\ \A g \in Requests : g # h => req'[g].pc \in {"idle", "done"}
             /\ \A j \in Jobs : job'[j].pc \in {"none", "closed"}
  <2>1. Early(req[h])
    BY <1>1 DEF Early
  <2> QED
    BY <2>1 DEF Patient
<1>2. \A j \in Jobs : j > submitted' => job'[j].pc \in {"none", "closed"}
  BY DEF Patient
<1>3. \A h \in Requests : req'[h].pc \in {"idle", "get"} => req'[h].previous = <<>>
  BY DEF Patient
<1>4. ASSUME NEW h \in Requests, Updating(h)' PROVE Has(store, req[h].conn.id)'
  <2>1. req'[h] = req[h] /\ Updating(h)
    BY <1>4 DEF Updating
  <2>2. PICK id : id = req[h].conn.id /\ id = req'[h].conn.id
    BY <2>1
  <2>3. Has(store, id)'
    BY <2>1, <2>2 DEF Patient, SavesStored
  <2> QED
    BY <2>2, <2>3
<1> QED
  BY <1>1, <1>2, <1>3, <1>4 DEF Patient, SavesStored, Early

\* A step of a handler at work.
LEMMA HandlerPatient ==
    ASSUME Records, Patient, NEW h \in Requests, Early(req[h]),
           NEW r, req' = [req EXCEPT ![h] = r], r.pc \notin {"idle", "get"},
           Early(r) => UNCHANGED job,
           \A j \in Jobs : j > submitted' => job'[j].pc \in {"none", "closed"},
           r.pc = "put" /\ r.previous # <<>> => Has(store, r.conn.id)'
    PROVE  Patient'
<1>1. \A g \in Requests : req'[g] = IF g = h THEN r ELSE req[g]
  BY DEF Records
<1>2. /\ \A g \in Requests : g # h => req[g].pc \in {"idle", "done"}
      /\ \A j \in Jobs : job[j].pc \in {"none", "closed"}
  BY DEF Patient
<1>3. ASSUME NEW k \in Requests, Early(req'[k])
      PROVE  /\ \A g \in Requests : g # k => req'[g].pc \in {"idle", "done"}
             /\ \A j \in Jobs : job'[j].pc \in {"none", "closed"}
  <2>1. k = h
    BY <1>1, <1>2, <1>3 DEF Early
  <2>2. Early(r)
    BY <1>1, <1>3, <2>1
  <2> QED
    BY <1>1, <1>2, <2>1, <2>2
<1>4. \A g \in Requests : req'[g].pc \in {"idle", "get"} => req'[g].previous = <<>>
  BY <1>1 DEF Patient
<1>5. ASSUME NEW k \in Requests, Updating(k)' PROVE Has(store, req[k].conn.id)'
  <2>1. k = h
    BY <1>1, <1>2, <1>5 DEF Updating
  <2>2. req'[k] = r
    BY <1>1, <2>1
  <2>3. Has(store, r.conn.id)'
    BY <1>5, <2>2 DEF Updating
  <2>4. PICK id : id = r.conn.id /\ id = req'[k].conn.id
    BY <2>2
  <2>5. Has(store, id)'
    BY <2>3, <2>4
  <2> QED
    BY <2>4, <2>5
<1> QED
  BY <1>3, <1>4, <1>5 DEF Patient, SavesStored, Early

\* One request or job is unfinished at a time, or there is one request in all.
OneAtATime == MaxOpen <= 1 \/ MaxRequests <= 1

\* A request comes when everything before it is finished.
LEMMA NobodyAtWork ==
    ASSUME OneAtATime, JobsNumbered, Unfinished < MaxOpen,
           NEW h \in Requests, req[h].pc = "idle"
    PROVE  /\ \A g \in Requests : req[g].pc \in {"idle", "done"}
           /\ \A j \in 1 .. submitted : Ended(j)
<1>1. MaxOpen \in Nat /\ MaxRequests \in Nat /\ submitted \in Nat
  BY BoundsAssumption DEF JobsNumbered
<1>2. CASE MaxOpen <= 1
  <2>1. PICK H, J : /\ H = {g \in Requests : req[g].pc \notin {"idle", "done"}}
                    /\ J = {j \in 1 .. submitted : ~ Ended(j)}
    OBVIOUS
  <2>2. IsFiniteSet(H) /\ IsFiniteSet(J)
    <3>1. H \subseteq Requests /\ J \subseteq 1 .. submitted
      BY <2>1
    <3>2. IsFiniteSet(1 .. submitted)
      BY <1>1, FS_Interval
    <3> QED
      BY <3>1, <3>2, PastFinite, FS_Subset
  <2>3. Cardinality(H) \in Nat /\ Cardinality(J) \in Nat
    BY <2>2, FS_CardinalityType
  <2>4. Cardinality(H) = 0 /\ Cardinality(J) = 0
    <3>1. Cardinality(H) + Cardinality(J) < MaxOpen
      BY <2>1 DEF Unfinished
    <3> QED
      BY <1>1, <1>2, <2>3, <3>1
  <2>5. H = {} /\ J = {}
    BY <2>2, <2>4, FS_EmptySet
  <2> QED
    BY <2>1, <2>5
<1>3. CASE MaxRequests <= 1
  <2>1. \A g \in Requests : g = h
    BY <1>1, <1>3 DEF Requests
  <2>2. Past = {}
    BY <2>1 DEF Past
  <2>3. submitted = 0
    BY <1>1, <2>2, FS_EmptySet DEF JobsNumbered
  <2> QED
    BY <2>1, <2>3
<1> QED
  BY <1>2, <1>3 DEF OneAtATime

LEMMA RequestPatient ==
    ASSUME OneAtATime, IInv, Patient, NEW h \in Requests, Request(h)
    PROVE  Patient'
<1>1. JobsNumbered /\ Records
  BY DEF IInv
<1>2. Unfinished < MaxOpen /\ UNCHANGED <<store, job, submitted>> /\ req[h].pc = "idle"
  BY DEF Request
<1>3. /\ \A g \in Requests : req[g].pc \in {"idle", "done"}
      /\ \A j \in 1 .. submitted : Ended(j)
  BY <1>1, <1>2, NobodyAtWork
<1>4. \A j \in Jobs : job[j].pc \in {"none", "closed"}
  <2>1. \A j \in Jobs : j > submitted \/ j \in 1 .. submitted
    BY <1>1 DEF JobsNumbered, Jobs
  <2> QED
    BY <1>3, <2>1 DEF Patient, Ended
<1>5. PICK op, c : req' = [req EXCEPT ![h] = [@ EXCEPT !.pc = "get", !.op = op, !.conn = c]]
  BY DEF Request
<1>6. PICK r : /\ req' = [req EXCEPT ![h] = r]
               /\ r = [req[h] EXCEPT !.pc = "get", !.op = op, !.conn = c]
  BY <1>5, <1>1 DEF Records
<1>7. r.pc = "get" /\ r.previous = <<>>
  BY <1>1, <1>2, <1>6 DEF Records, IsHandler, Patient
<1>8. \A g \in Requests : req'[g] = IF g = h THEN r ELSE req[g]
  BY <1>1, <1>6 DEF Records
<1>9. \A g \in Requests : req'[g].pc # "put"
  BY <1>3, <1>7, <1>8
<1> QED
  BY <1>2, <1>3, <1>4, <1>7, <1>8, <1>9 DEF Patient, SavesStored, Updating, Early

LEMMA HandlersPatient ==
    ASSUME IInv, KInv, Patient, NEW h \in Requests, Handler(h)
    PROVE  Patient'
<1>1. Records /\ JobsNumbered
  BY DEF IInv
<1>2. Early(req[h])
  BY DEF Early, Handler, SaveGet, SavePut, SavePutFails, ActGet, ActSnapshot, SubmitCheck,
     Enqueue
<1>3. CASE SaveGet(h)
  <2>1. PICK previous :
          /\ previous = Get(store, req[h].conn.id)
          /\ req' = [req EXCEPT ![h] =
                IF Has(store, req[h].conn.id)
                THEN [@ EXCEPT !.pc = "put", !.previous = <<previous>>,
                               !.conn.profile = previous.profile]
                ELSE [@ EXCEPT !.pc = "put"]]
    BY <1>3 DEF SaveGet
  <2>2. PICK r :
          /\ req' = [req EXCEPT ![h] = r]
          /\ r = IF Has(store, req[h].conn.id)
                 THEN [req[h] EXCEPT !.pc = "put", !.previous = <<previous>>,
                                     !.conn.profile = previous.profile]
                 ELSE [req[h] EXCEPT !.pc = "put"]
    BY <1>1, <2>1 DEF Records
  <2>3. UNCHANGED <<store, job, submitted>> /\ req[h].pc = "get"
    BY <1>3 DEF SaveGet
  <2>4. r.pc = "put"
    BY <1>1, <2>2 DEF Records, IsHandler
  <2>5. r.previous # <<>> => Has(store, r.conn.id)'
    <3>1. CASE Has(store, req[h].conn.id)
      <4>1. r.conn.id = req[h].conn.id
        <5>1. PICK c : c = req[h].conn
          OBVIOUS
        <5>2. c \in Conn
          BY <5>1 DEF KInv, Handlers, Known
        <5>3. r.conn = [c EXCEPT !.profile = previous.profile]
          BY <1>1, <2>2, <3>1, <5>1 DEF Records, IsHandler
        <5> QED
          BY <5>1, <5>2, <5>3 DEF Conn
      <4> QED
        BY <2>3, <3>1, <4>1 DEF Has, Named
    <3>2. CASE ~ Has(store, req[h].conn.id)
      BY <1>1, <2>2, <2>3, <3>2 DEF Records, IsHandler, Patient
    <3> QED
      BY <3>1, <3>2
  <2>6. \A j \in Jobs : j > submitted' => job'[j].pc \in {"none", "closed"}
    BY <2>3 DEF Patient
  <2> QED
    BY <1>1, <1>2, <2>2, <2>3, <2>4, <2>5, <2>6, HandlerPatient
<1>4. CASE ~ SaveGet(h)
  <2>1. PICK r : req' = [req EXCEPT ![h] = r] /\ r.pc \notin {"idle", "get", "put"}
    BY <1>1, <1>4, HandlerMoves DEF Handler
  <2>2. CASE Enqueue(h)
    <3>1. /\ submitted' = submitted + 1
          /\ \E new : job' = [job EXCEPT ![submitted + 1] = new]
          /\ req' = [req EXCEPT ![h] = [IdleRequest EXCEPT !.pc = "refresh"]]
      BY <2>2 DEF Enqueue, Queue!Arrive
    <3>2. \A j \in Jobs : j > submitted' => job'[j].pc \in {"none", "closed"}
      <4> SUFFICES ASSUME NEW j \in Jobs, j > submitted + 1
                   PROVE  job'[j].pc \in {"none", "closed"}
        BY <3>1
      <4>1. j > submitted /\ j # submitted + 1
        BY <1>1 DEF JobsNumbered, Jobs
      <4>2. job'[j] = job[j]
        BY <1>1, <3>1, <4>1 DEF Records
      <4> QED
        BY <4>1, <4>2 DEF Patient
    <3>3. PICK s : s = [IdleRequest EXCEPT !.pc = "refresh"]
      OBVIOUS
    <3>4. s.pc = "refresh"
      BY <3>3 DEF IdleRequest
    <3>5. ~ Early(s)
      BY <3>4 DEF Early
    <3>6. req' = [req EXCEPT ![h] = s]
      BY <3>1, <3>3
    <3> QED
      BY <1>1, <1>2, <3>2, <3>4, <3>5, <3>6, HandlerPatient
  <2>3. CASE ~ Enqueue(h)
    <3>1. UNCHANGED <<job, submitted>>
      BY <1>4, <2>3 DEF Handler, SavePut, SavePutFails, ActGet, ActSnapshot, SubmitCheck
    <3>2. \A j \in Jobs : j > submitted' => job'[j].pc \in {"none", "closed"}
      BY <3>1 DEF Patient
    <3> QED
      BY <1>1, <1>2, <2>1, <3>1, <3>2, HandlerPatient
  <2> QED
    BY <2>2, <2>3
<1> QED
  BY <1>3, <1>4

LEMMA JobsPatient ==
    ASSUME IInv, Patient, NEW j \in Jobs, Job(j)
    PROVE  Patient'
<1>1. Records /\ JobsNumbered
  BY DEF IInv
<1>2. job[j].pc \notin {"none", "closed"}
  BY DEF Job, JobStart, JobSkip, JobRemove, JobRemoveFails, JobAdd, JobRename,
     JobCommandFails, JobDelete, JobDeleteFails
<1>3. \A h \in Requests : ~ Early(req[h])
  BY <1>2 DEF Patient
<1>4. UNCHANGED <<req, submitted>>
  BY DEF Job, JobStart, JobSkip, JobRemove, JobRemoveFails, JobAdd, JobRename,
     JobCommandFails, JobDelete, JobDeleteFails, JobStep, Queue!Serve
<1>5. \A i \in Jobs : i # j => job'[i] = job[i]
  <2>1. \E new : job' = [job EXCEPT ![j] = new]
    BY <1>1 DEF Job, JobStart, JobSkip, JobRemove, JobRemoveFails, JobAdd, JobRename,
       JobCommandFails, JobDelete, JobDeleteFails, JobStep, Records
  <2> QED
    BY <1>1, <2>1 DEF Records
<1>6. ~ j > submitted
  BY <1>2 DEF Patient
<1>7. \A i \in Jobs : i > submitted' => job'[i].pc \in {"none", "closed"}
  BY <1>4, <1>5, <1>6 DEF Patient
<1>8. \A h \in Requests : ~ Early(req'[h]) /\ req'[h].pc # "put"
  BY <1>3, <1>4 DEF Early
<1> QED
  BY <1>4, <1>7, <1>8 DEF Patient, SavesStored, Updating, Early

LEMMA RefreshesPatient ==
    ASSUME IInv, KInv, Patient, NEW by \in Owners,
           RefreshList(by) \/ RefreshListFails(by) \/ Refresh(by)
    PROVE  Patient'
<1>1. Records
  BY DEF IInv
<1>2. CASE RefreshPut(by)
  <2>1. PICK conn : conn = Head(ref[by].todo)
    OBVIOUS
  <2>2. PutStore(conn) /\ UNCHANGED <<req, job, submitted>>
    BY <1>2, <2>1 DEF RefreshPut
  <2>3. Known(conn)
    <3>1. /\ ref[by].todo \in Seq(Conn) /\ ref[by].todo # <<>>
          /\ \A n \in DOMAIN ref[by].todo : Known(ref[by].todo[n])
      BY <1>2 DEF RefreshPut, KInv, Refreshes, IsRefresh
    <3> QED
      BY <2>1, <3>1
  <2>4. \A id : Has(store, id) => Has(store, id)'
    BY <2>2, <2>3, PutHas
  <2>5. /\ \A h \in Requests : req'[h] = req[h]
        /\ \A j \in Jobs : job'[j].pc = job[j].pc
    BY <2>2
  <2> QED
    BY <2>2, <2>4, <2>5, PatientStays
<1>3. CASE RefreshPublish(by)
  <2>1. /\ req' = req \/ req' = [req EXCEPT ![by[2]] = Replied]
        /\ job' = job \/ job' = [job EXCEPT ![by[2]].pc = "closed"]
        /\ UNCHANGED <<store, submitted>>
    BY <1>3 DEF RefreshPublish, Queue!Finish
  <2>2. Replied.pc = "done" /\ Replied.previous = <<>>
    BY DEF Replied, IdleRequest
  <2>3. \A h \in Requests :
          req'[h] = req[h] \/ (req'[h].pc \in {"idle", "done"} /\ req'[h].previous = <<>>)
    <3>1. CASE req' = req
      BY <3>1
    <3>2. CASE req' = [req EXCEPT ![by[2]] = Replied]
      <4> TAKE h \in Requests
      <4>1. req'[h] = req[h] \/ req'[h] = Replied
        BY <1>1, <3>2 DEF Records
      <4> QED
        BY <2>2, <4>1
    <3> QED
      BY <2>1, <3>1, <3>2
  <2>4. \A j \in Jobs : job'[j].pc = job[j].pc \/ job'[j].pc \in {"none", "closed"}
    BY <1>1, <2>1 DEF Records, IsJob
  <2>5. \A id : Has(store, id) => Has(store, id)'
    BY <2>1 DEF Has, Named
  <2> QED
    BY <2>1, <2>3, <2>4, <2>5, PatientStays
<1>4. CASE RefreshList(by) \/ RefreshListFails(by) \/ RefreshLoad(by) \/ RefreshPutFails(by)
  <2>1. UNCHANGED <<store, req, job, submitted>>
    BY <1>4 DEF RefreshList, RefreshListFails, RefreshLoad, RefreshPutFails
  <2>2. \A id : Has(store, id) => Has(store, id)'
    BY <2>1 DEF Has, Named
  <2>3. /\ \A h \in Requests : req'[h] = req[h]
        /\ \A j \in Jobs : job'[j].pc = job[j].pc
    BY <2>1
  <2> QED
    BY <2>1, <2>2, <2>3, PatientStays
<1> QED
  BY <1>2, <1>3, <1>4 DEF Refresh

LEMMA RestPatient ==
    ASSUME Patient, Records, ExternalAdd \/ ExternalRemove \/ Crash \/ Start \/ UNCHANGED vars
    PROVE  Patient'
<1>1. UNCHANGED <<store, submitted>>
  BY DEF ExternalAdd, ExternalRemove, External, Crash, Start, vars
<1>2. \A id : Has(store, id) => Has(store, id)'
  BY <1>1 DEF Has, Named
<1>3. CASE Crash
  <2>1. /\ Replied.pc = "done" /\ Replied.previous = <<>>
        /\ IdleRequest.pc = "idle" /\ IdleRequest.previous = <<>>
        /\ NoJob.pc = "none" /\ [NoJob EXCEPT !.pc = "closed"].pc = "closed"
    BY DEF Replied, IdleRequest, NoJob
  <2>2. \A h \in Requests : req'[h].pc \in {"idle", "done"} /\ req'[h].previous = <<>>
    BY <1>3, <2>1 DEF Crash
  <2>3. \A j \in Jobs : job'[j].pc \in {"none", "closed"}
    BY <1>3, <2>1 DEF Crash
  <2> QED
    BY <1>1, <1>2, <2>2, <2>3, PatientStays
<1>4. CASE ~ Crash
  <2>1. UNCHANGED <<req, job>>
    BY <1>4 DEF ExternalAdd, ExternalRemove, External, Start, vars
  <2>2. /\ \A h \in Requests : req'[h] = req[h]
        /\ \A j \in Jobs : job'[j].pc = job[j].pc
    BY <2>1
  <2> QED
    BY <1>1, <1>2, <2>2, PatientStays
<1> QED
  BY <1>3, <1>4

LEMMA NextPatient ==
    ASSUME OneAtATime, IInv, KInv, Patient, [Next]_vars
    PROVE  Patient'
<1>1. Records
  BY DEF IInv
<1> QED
  BY <1>1, RequestPatient, HandlersPatient, JobsPatient, RefreshesPatient, RestPatient DEF Next

LEMMA InitPatient ==
    ASSUME Init
    PROVE  Patient
<1>1. \A h \in Requests : req[h].pc = "idle" /\ req[h].previous = <<>>
  BY DEF Init, IdleRequest
<1>2. \A j \in Jobs : job[j].pc = "none"
  BY DEF Init, NoJob
<1> QED
  BY <1>1, <1>2 DEF Patient, Early, SavesStored, Updating

\* One request or job unfinished at a time, or one request in all: the store never
\* comes to claim a machine twice, whatever polls, starts and the job itself
\* interleave with it, whatever others do to herdr, whatever fails and whenever
\* the daemon dies.
THEOREM PatientClaimsOnce ==
    (MaxOpen <= 1 \/ MaxRequests <= 1) /\ StoreClaimsUnique /\ Spec => []StoreClaimsUnique
<1> SUFFICES ASSUME OneAtATime
             PROVE  StoreClaimsUnique /\ Spec => []StoreClaimsUnique
  BY DEF OneAtATime
<1>1. Init => Patient
  BY InitPatient
<1>2. (IInv /\ KInv) /\ Patient /\ [Next]_vars => Patient'
  BY NextPatient
<1>3. Patient => SavesApart /\ SavesStored
  BY DEF Patient, SavesApart, Early
<1> QED
  BY <1>1, <1>2, <1>3, Invariance, StoreClaimsOnce, PTL DEF Spec

-----------------------------------------------------------------------------
(* Settings in the store *)

\* They differ in the endpoint id at most.
SameSettings(a, b) == a.label = b.label /\ a.target = b.target /\ a.session = b.session

\* What refreshes still have to write has the settings that are stored, and if the
\* connection is forgotten meanwhile, the same settings whoever writes it first.
Aligned ==
    /\ \A by \in Owners : \A n \in DOMAIN ref[by].todo : \A i \in DOMAIN store :
        ref[by].todo[n].id = store[i].id => SameSettings(ref[by].todo[n], store[i])
    /\ \A by, o \in Owners : \A n \in DOMAIN ref[by].todo : \A m \in DOMAIN ref[o].todo :
        (ref[by].todo[n].id = ref[o].todo[m].id /\ ref[o].todo[m].id # NoId)
            => SameSettings(ref[by].todo[n], ref[o].todo[m])

\* A save of the connection is written while a refresh that read the connection
\* before has yet to write it.
Overtakes(h) ==
    /\ SavePut(h)
    /\ req[h].conn.id # NoId
    /\ \E by \in Owners : \E n \in DOMAIN ref[by].todo : ref[by].todo[n].id = req[h].conn.id

LEMMA PutElements ==
    ASSUME KInv, NEW conn, Known(conn), PutStore(conn)
    PROVE  \A k \in DOMAIN store' :
                store'[k] = WithId(conn) \/ \E i \in DOMAIN store : store'[k] = store[i]
<1>1. IsStore(store) /\ Counters
  BY DEF KInv
<1>2. PICK saved : saved = WithId(conn)
  OBVIOUS
<1>3. store' = Put(store, saved)
  BY <1>2 DEF PutStore
<1>4. CASE Has(store, saved.id)
  <2>1. /\ DOMAIN store' = DOMAIN store
        /\ \A i \in DOMAIN store :
            store'[i] = IF store[i].id = saved.id THEN saved ELSE store[i]
    BY <1>3, <1>4 DEF Put
  <2> QED
    BY <1>2, <2>1
<1>5. CASE ~ Has(store, saved.id)
  <2>1. store' = Append(store, saved) /\ store \in Seq(Conn) /\ saved \in Conn
    BY <1>1, <1>2, <1>3, <1>5, WithIdKnown DEF Put, IsStore
  <2>2. /\ Len(store) \in Nat /\ DOMAIN store = 1 .. Len(store)
        /\ store' \in Seq(Conn) /\ Len(store') = Len(store) + 1
        /\ \A i \in 1 .. Len(store) : store'[i] = store[i]
        /\ store'[Len(store) + 1] = saved
    BY <2>1, AppendProperties
  <2>3. \A k \in DOMAIN store' : k \in DOMAIN store \/ k = Len(store) + 1
    BY <2>2
  <2> QED
    BY <1>2, <2>2, <2>3
<1> QED
  BY <1>4, <1>5

\* What the matching corrects are stored records with other endpoint ids.
LEMMA LoadAligned ==
    ASSUME KInv, NEW actual, IsList(actual), NEW todo, todo = Todo(actual)
    PROVE  \A n \in DOMAIN todo : todo[n].id # NoId =>
                \E i \in DOMAIN store : store[i].id = todo[n].id /\ SameSettings(todo[n], store[i])
<1>1. /\ store \in Seq(Conn) /\ actual \in Seq(Endpoint)
      /\ \A i \in DOMAIN store : Known(store[i])
  BY DEF KInv, IsStore, IsList
<1>2. Proofs!Distinct(actual)
  <2>1. \A n \in DOMAIN actual : actual[n].id # NoProfile
    <3> TAKE n \in DOMAIN actual
    <3>1. actual[n] \in Endpoint
      BY <1>1, ElementOfSeq
    <3> QED
      BY <3>1, Ids DEF Endpoint
  <2> QED
    BY <2>1 DEF IsList, Proofs!Distinct
<1>3. Proofs!Records(store)
  BY <1>1 DEF Proofs!Records, Known, Conn
<1>bound. MaxConns \in Nat
  BY BoundsAssumption
<1>4. PICK paired, corrected, adopted :
        /\ paired = Proofs!Paired(store, actual)
        /\ corrected = Proofs!Corrections(store, actual)
        /\ adopted = Proofs!Adoptions(store, actual)
  OBVIOUS
<1>5. ASSUME NEW i \in DOMAIN store
      PROVE  paired[i].id = store[i].id /\ SameSettings(paired[i], store[i])
  <2>1. PICK q : q = Proofs!Paired(store, actual)[i]
    OBVIOUS
  <2>2. q = [store[i] EXCEPT !.profile = q.profile]
    BY <1>1, <1>2, <1>3, <2>1, <1>bound, IdsAssumption, Proofs!PairedRecord
  <2>3. PICK c : c = store[i] /\ c \in Conn
    BY <1>1, ElementOfSeq
  <2>4. q.id = c.id /\ q.label = c.label /\ q.target = c.target /\ q.session = c.session
    BY <2>2, <2>3 DEF Conn
  <2> QED
    BY <1>4, <2>1, <2>3, <2>4 DEF SameSettings
<1>6. PICK R : R = {paired[i] : i \in DOMAIN store}
  OBVIOUS
<1>7. \A n \in DOMAIN corrected : \E i \in DOMAIN store : corrected[n] = paired[i]
  <2>1. \A i \in DOMAIN store : Proofs!Paired(store, actual)[i] \in R
    BY <1>4, <1>6
  <2>2. corrected \in Seq(R)
    BY <1>1, <1>4, <2>1, <1>bound, IdsAssumption, Proofs!CorrectsPaired
  <2>3. corrected \in Seq(R) => \A n \in DOMAIN corrected : corrected[n] \in R
    BY ElementOfSeq
  <2> QED
    BY <1>6, <2>2, <2>3
<1>8. \A a \in DOMAIN adopted : adopted[a].id = NoId
  BY <1>4 DEF Proofs!Adoptions
<1>9. corrected \in Seq(Conn) /\ adopted \in Seq(Conn)
  BY <1>4, Matched, LoadKnows
<1>10. \A n \in DOMAIN todo :
          \/ n \in DOMAIN corrected /\ todo[n] = corrected[n]
          \/ n - Len(corrected) \in DOMAIN adopted /\ todo[n] = adopted[n - Len(corrected)]
  <2>1. todo = corrected \o adopted
    BY <1>4, Matched DEF Todo
  <2>2. /\ DOMAIN corrected = 1 .. Len(corrected) /\ Len(corrected) \in Nat
        /\ DOMAIN adopted = 1 .. Len(adopted) /\ Len(adopted) \in Nat
    BY <1>9
  <2>3. todo \in Seq(Conn)
    BY <1>9, <2>1, ConcatProperties
  <2>4. /\ Len(todo) = Len(corrected) + Len(adopted)
        /\ \A n \in 1 .. Len(corrected) : todo[n] = corrected[n]
        /\ \A n \in Len(corrected) + 1 .. Len(corrected) + Len(adopted) :
                todo[n] = adopted[n - Len(corrected)]
    BY <1>9, <2>1, <2>3, ConcatProperties
  <2>5. DOMAIN todo = 1 .. Len(corrected) + Len(adopted)
    BY <2>3, <2>4
  <2> QED
    BY <2>2, <2>4, <2>5
<1> SUFFICES ASSUME NEW n \in DOMAIN todo, todo[n].id # NoId
             PROVE  \E i \in DOMAIN store :
                        store[i].id = todo[n].id /\ SameSettings(todo[n], store[i])
  OBVIOUS
<1>11. n \in DOMAIN corrected /\ todo[n] = corrected[n]
  BY <1>8, <1>10
<1> QED
  BY <1>5, <1>7, <1>11

\* A step that leaves what refreshes have to write, or some of it, and writes only
\* records with the settings that they have.
LEMMA AlignedStays ==
    ASSUME Aligned,
           \A by \in Owners : \A n \in DOMAIN ref'[by].todo :
                \E m \in DOMAIN ref[by].todo : ref'[by].todo[n] = ref[by].todo[m],
           \A k \in DOMAIN store' :
                \/ \E i \in DOMAIN store : store'[k] = store[i]
                \/ \A by \in Owners : \A n \in DOMAIN ref[by].todo :
                     ref[by].todo[n].id = store'[k].id
                        => SameSettings(ref[by].todo[n], store'[k])
    PROVE  Aligned'
<1>1. ASSUME NEW by \in Owners, NEW n \in DOMAIN ref'[by].todo, NEW k \in DOMAIN store',
             ref'[by].todo[n].id = store'[k].id
      PROVE  SameSettings(ref'[by].todo[n], store'[k])
  <2>1. PICK m \in DOMAIN ref[by].todo : ref'[by].todo[n] = ref[by].todo[m]
    OBVIOUS
  <2>2. PICK t, c : t = ref[by].todo[m] /\ c = store'[k]
    OBVIOUS
  <2>3. t.id = c.id /\ t = ref'[by].todo[n]
    BY <1>1, <2>1, <2>2
  <2>4. CASE \E i \in DOMAIN store : c = store[i]
    BY <2>2, <2>3, <2>4 DEF Aligned
  <2>5. CASE \A o \in Owners : \A p \in DOMAIN ref[o].todo :
                ref[o].todo[p].id = c.id => SameSettings(ref[o].todo[p], c)
    BY <2>2, <2>3, <2>5
  <2>6. \/ \E i \in DOMAIN store : c = store[i]
        \/ \A o \in Owners : \A p \in DOMAIN ref[o].todo :
                ref[o].todo[p].id = c.id => SameSettings(ref[o].todo[p], c)
    BY <2>2
  <2> QED
    BY <2>4, <2>5, <2>6
<1>2. ASSUME NEW by \in Owners, NEW o \in Owners,
             NEW n \in DOMAIN ref'[by].todo, NEW m \in DOMAIN ref'[o].todo,
             ref'[by].todo[n].id = ref'[o].todo[m].id, ref'[o].todo[m].id # NoId
      PROVE  SameSettings(ref'[by].todo[n], ref'[o].todo[m])
  <2>1. PICK i \in DOMAIN ref[by].todo : ref'[by].todo[n] = ref[by].todo[i]
    OBVIOUS
  <2>2. PICK k \in DOMAIN ref[o].todo : ref'[o].todo[m] = ref[o].todo[k]
    OBVIOUS
  <2>3. PICK s, t : s = ref[by].todo[i] /\ t = ref[o].todo[k]
    OBVIOUS
  <2>4. s.id = t.id /\ t.id # NoId
    BY <1>2, <2>1, <2>2, <2>3
  <2>5. SameSettings(s, t)
    BY <2>3, <2>4 DEF Aligned
  <2> QED
    BY <2>1, <2>2, <2>3, <2>5
<1> QED
  BY <1>1, <1>2 DEF Aligned, SameSettings

\* Nothing is stored.
LEMMA AlignedKept ==
    ASSUME Aligned, store' = store,
           \A by \in Owners : \A n \in DOMAIN ref'[by].todo :
                \E m \in DOMAIN ref[by].todo : ref'[by].todo[n] = ref[by].todo[m]
    PROVE  Aligned'
<1>1. \A k \in DOMAIN store' : \E i \in DOMAIN store : store'[k] = store[i]
  OBVIOUS
<1> QED
  BY <1>1, AlignedStays

LEMMA HandlersAlign ==
    ASSUME Aligned, KInv, NEW h \in Requests, Request(h) \/ Handler(h), ~ Overtakes(h)
    PROVE  Aligned'
<1>1. ref' = ref
  BY DEF Request, Handler, SaveGet, SavePut, SavePutFails, ActGet, ActSnapshot, SubmitCheck,
     Enqueue
<1>2. \A by \in Owners : \A n \in DOMAIN ref'[by].todo :
        \E m \in DOMAIN ref[by].todo : ref'[by].todo[n] = ref[by].todo[m]
  BY <1>1
<1>3. CASE ~ SavePut(h)
  <2>1. store' = store
    BY <1>3 DEF Request, Handler, SaveGet, SavePutFails, ActGet, ActSnapshot, SubmitCheck,
       Enqueue
  <2> QED
    BY <1>2, <2>1, AlignedKept
<1>4. CASE SavePut(h)
  <2>1. PICK c, saved : c = req[h].conn /\ saved = WithId(c)
    OBVIOUS
  <2>2. Known(c) /\ PutStore(c)
    BY <1>4, <2>1 DEF SavePut, KInv, Handlers
  <2>3. saved.id = IF c.id = NoId THEN nextConn ELSE c.id
    BY <2>1, <2>2 DEF WithId, Known, Conn
  <2>4. ASSUME NEW by \in Owners, NEW n \in DOMAIN ref[by].todo
        PROVE  ref[by].todo[n].id # saved.id
    <3>1. PICK t : t = ref[by].todo[n] /\ Known(t)
      BY DEF KInv, Refreshes, IsRefresh
    <3>2. CASE c.id = NoId
      <4>1. t.id \in (Nat \ {0}) \cup {NoId} /\ (t.id # NoId => t.id < nextConn)
        BY <3>1 DEF Known, Conn, Assigned
      <4>2. nextConn \in Nat \ {0} /\ NoId \notin Nat \ {0}
        BY Ids DEF KInv, Counters
      <4> QED
        BY <2>3, <3>1, <3>2, <4>1, <4>2
    <3>3. CASE c.id # NoId
      BY <1>4, <2>1, <2>3, <3>3 DEF Overtakes
    <3> QED
      BY <3>2, <3>3
  <2>5. \A k \in DOMAIN store' :
            store'[k] = saved \/ \E i \in DOMAIN store : store'[k] = store[i]
    BY <2>1, <2>2, PutElements
  <2>6. \A k \in DOMAIN store' :
            \/ \E i \in DOMAIN store : store'[k] = store[i]
            \/ \A by \in Owners : \A n \in DOMAIN ref[by].todo :
                 ref[by].todo[n].id = store'[k].id
                    => SameSettings(ref[by].todo[n], store'[k])
    BY <2>4, <2>5
  <2> QED
    BY <1>2, <2>6, AlignedStays
<1> QED
  BY <1>3, <1>4

LEMMA JobsAlign ==
    ASSUME Aligned, KInv, NEW j \in Jobs, Job(j)
    PROVE  /\ Aligned'
           /\ \A k \in DOMAIN store' : \E i \in DOMAIN store : store'[k] = store[i]
<1>1. ref' = ref
  BY DEF Job, JobStart, JobSkip, JobRemove, JobRemoveFails, JobAdd, JobRename,
     JobCommandFails, JobDelete, JobDeleteFails, JobStep
<1>2. \A by \in Owners : \A n \in DOMAIN ref'[by].todo :
        \E m \in DOMAIN ref[by].todo : ref'[by].todo[n] = ref[by].todo[m]
  BY <1>1
<1>3. \A k \in DOMAIN store' : \E i \in DOMAIN store : store'[k] = store[i]
  <2>1. CASE JobDelete(j)
    <3>1. PICK P : store' = At(store, P) /\ P \subseteq DOMAIN store
      <4>1. PICK P : P = {i \in DOMAIN store : store[i].id # job[j].conn.id}
        OBVIOUS
      <4> QED
        BY <2>1, <4>1 DEF JobDelete, Delete
    <3>2. store \in Seq(Conn)
      BY DEF KInv, IsStore
    <3>3. \A n \in DOMAIN At(store, P) : Nth(P, n) \in P /\ At(store, P)[n] = store[Nth(P, n)]
      BY <3>1, <3>2, AtKeeps
    <3> QED
      BY <3>1, <3>3
  <2>2. CASE ~ JobDelete(j)
    BY <2>2 DEF Job, JobStart, JobSkip, JobRemove, JobRemoveFails, JobAdd, JobRename,
       JobCommandFails, JobDeleteFails, JobStep
  <2> QED
    BY <2>1, <2>2
<1>4. Aligned'
  BY <1>2, <1>3, AlignedStays
<1> QED
  BY <1>3, <1>4

\* What is left to write after a step of a refresh was left before.
LEMMA RestLeft ==
    ASSUME KInv, NEW by \in Owners,
           \/ RefreshList(by) \/ RefreshListFails(by) \/ RefreshPut(by) \/ RefreshPutFails(by)
           \/ RefreshPublish(by)
    PROVE  \A o \in Owners : \A n \in DOMAIN ref'[o].todo :
                \E m \in DOMAIN ref[o].todo : ref'[o].todo[n] = ref[o].todo[m]
<1>1. PICK q, todo : q = ref[by] /\ todo = q.todo
  OBVIOUS
<1>2. /\ q = [step |-> q.step, actual |-> q.actual, todo |-> q.todo, out |-> q.out]
      /\ todo \in Seq(Conn)
  BY <1>1 DEF KInv, Refreshes, IsRefresh
<1>3. \E r : /\ ref' = [ref EXCEPT ![by] = r]
             /\ r.todo \in {todo, <<>>} \/ (todo # <<>> /\ r.todo = Tail(todo))
  <2>1. CASE RefreshList(by)
    <3>1. PICK r : r = [q EXCEPT !.step = "load", !.actual = herdr] /\ ref' = [ref EXCEPT ![by] = r]
      BY <1>1, <2>1 DEF RefreshList, KInv, Refreshes
    <3>2. r.todo = todo
      BY <1>1, <1>2, <3>1
    <3> QED
      BY <3>1, <3>2
  <2>2. CASE RefreshListFails(by)
    <3>1. PICK r : r = [q EXCEPT !.step = "failed"] /\ ref' = [ref EXCEPT ![by] = r]
      BY <1>1, <2>2 DEF RefreshListFails, KInv, Refreshes
    <3>2. r.todo = todo
      BY <1>1, <1>2, <3>1
    <3> QED
      BY <3>1, <3>2
  <2>3. CASE RefreshPut(by)
    <3>1. PICK out : ref' = [ref EXCEPT ![by] = [q EXCEPT !.todo = Tail(todo), !.out = out]]
      BY <1>1, <1>2, <2>3 DEF RefreshPut, KInv, Refreshes
    <3>2. PICK r : r = [q EXCEPT !.todo = Tail(todo), !.out = out] /\ ref' = [ref EXCEPT ![by] = r]
      BY <3>1
    <3>3. r.todo = Tail(todo) /\ todo # <<>>
      BY <1>1, <1>2, <2>3, <3>2 DEF RefreshPut
    <3> QED
      BY <3>2, <3>3
  <2>4. CASE RefreshPutFails(by)
    <3>1. PICK r : r = [q EXCEPT !.todo = Tail(todo)] /\ ref' = [ref EXCEPT ![by] = r]
      BY <1>1, <2>4 DEF RefreshPutFails, KInv, Refreshes
    <3>2. r.todo = Tail(todo) /\ todo # <<>>
      BY <1>1, <1>2, <2>4, <3>1 DEF RefreshPutFails
    <3> QED
      BY <3>1, <3>2
  <2>5. CASE RefreshPublish(by)
    <3>1. PICK r : r = NoRefresh /\ ref' = [ref EXCEPT ![by] = r]
      BY <2>5 DEF RefreshPublish
    <3>2. r.todo = <<>>
      BY <3>1 DEF NoRefresh
    <3> QED
      BY <3>1, <3>2
  <2> QED
    BY <2>1, <2>2, <2>3, <2>4, <2>5
<1>4. PICK r : /\ ref' = [ref EXCEPT ![by] = r]
               /\ r.todo \in {todo, <<>>} \/ (todo # <<>> /\ r.todo = Tail(todo))
  BY <1>3
<1>5. \A o \in Owners : ref'[o] = IF o = by THEN r ELSE ref[o]
  BY <1>4 DEF KInv, Refreshes
<1>6. \A n \in DOMAIN r.todo : \E m \in DOMAIN todo : r.todo[n] = todo[m]
  <2>1. CASE todo # <<>> /\ r.todo = Tail(todo)
    BY <1>2, <2>1, HeadTailProperties
  <2>2. CASE r.todo \in {todo, <<>>}
    BY <2>2
  <2> QED
    BY <1>4, <2>1, <2>2
<1> SUFFICES ASSUME NEW o \in Owners, NEW n \in DOMAIN ref'[o].todo
             PROVE  \E m \in DOMAIN ref[o].todo : ref'[o].todo[n] = ref[o].todo[m]
  OBVIOUS
<1>7. CASE o = by
  <2>1. ref'[o] = r
    BY <1>5, <1>7
  <2> QED
    BY <1>1, <1>6, <1>7, <2>1
<1>8. CASE o # by
  <2>1. ref'[o] = ref[o]
    BY <1>5, <1>8
  <2> QED
    BY <2>1
<1> QED
  BY <1>7, <1>8

LEMMA LoadAligns ==
    ASSUME Aligned, KInv, NEW by \in Owners, RefreshLoad(by)
    PROVE  Aligned'
<1>1. PICK actual, todo, out :
        /\ actual = ref[by].actual /\ todo = Todo(actual)
        /\ ref' = [ref EXCEPT ![by] =
                    [step |-> "put", actual |-> <<>>, todo |-> todo, out |-> out]]
  BY DEF RefreshLoad, Todo
<1>2. PICK r : /\ r = [step |-> "put", actual |-> <<>>, todo |-> todo, out |-> out]
               /\ ref' = [ref EXCEPT ![by] = r]
  BY <1>1
<1>3. r.todo = todo
  BY <1>2
<1>4. \A o \in Owners : ref'[o].todo = IF o = by THEN todo ELSE ref[o].todo
  BY <1>2, <1>3 DEF KInv, Refreshes
<1>5. IsList(actual) /\ store' = store
  BY <1>1 DEF KInv, Refreshes, IsRefresh, RefreshLoad
<1>6. \A n \in DOMAIN todo : todo[n].id # NoId =>
        \E i \in DOMAIN store : store[i].id = todo[n].id /\ SameSettings(todo[n], store[i])
  <2>1. todo = Todo(actual)
    BY <1>1
  <2> QED
    BY <1>5, <2>1, LoadAligned
<1>7. \A i, k \in DOMAIN store : store[i].id # NoId /\ (store[i].id = store[k].id => i = k)
  BY DEF KInv, IsStore
<1>8. ASSUME NEW o \in Owners, NEW n \in DOMAIN ref'[o].todo, NEW i \in DOMAIN store,
             ref'[o].todo[n].id = store[i].id
      PROVE  SameSettings(ref'[o].todo[n], store[i])
  <2>1. CASE o = by
    <3>1. PICK t : t = ref'[o].todo[n] /\ t = todo[n] /\ n \in DOMAIN todo
      BY <1>4, <2>1
    <3>2. PICK k \in DOMAIN store : store[k].id = t.id /\ SameSettings(t, store[k])
      BY <1>6, <1>7, <1>8, <3>1
    <3>3. k = i
      BY <1>7, <1>8, <3>1, <3>2
    <3> QED
      BY <3>1, <3>2, <3>3
  <2>2. CASE o # by
    <3>1. PICK t : t = ref'[o].todo[n] /\ t = ref[o].todo[n] /\ n \in DOMAIN ref[o].todo
      BY <1>4, <2>2
    <3>2. SameSettings(t, store[i])
      BY <1>8, <3>1 DEF Aligned
    <3> QED
      BY <3>1, <3>2
  <2> QED
    BY <2>1, <2>2
<1>9. ASSUME NEW a \in Owners, NEW b \in Owners,
             NEW n \in DOMAIN ref'[a].todo, NEW m \in DOMAIN ref'[b].todo,
             ref'[a].todo[n].id = ref'[b].todo[m].id, ref'[b].todo[m].id # NoId
      PROVE  SameSettings(ref'[a].todo[n], ref'[b].todo[m])
  <2>1. PICK s, t : s = ref'[a].todo[n] /\ t = ref'[b].todo[m]
    OBVIOUS
  <2>2. CASE a # by /\ b # by
    <3>1. /\ n \in DOMAIN ref[a].todo /\ s = ref[a].todo[n]
          /\ m \in DOMAIN ref[b].todo /\ t = ref[b].todo[m]
      BY <1>4, <2>1, <2>2
    <3>2. SameSettings(s, t)
      BY <1>9, <2>1, <3>1 DEF Aligned
    <3> QED
      BY <2>1, <3>2
  <2>3. CASE a = by \/ b = by
    <3>1. \E i \in DOMAIN store : store[i].id = t.id
      <4>1. CASE a = by
        BY <1>4, <1>6, <1>9, <2>1, <4>1
      <4>2. CASE b = by
        BY <1>4, <1>6, <1>9, <2>1, <4>2
      <4> QED
        BY <2>3, <4>1, <4>2
    <3>2. PICK i \in DOMAIN store : store[i].id = t.id
      BY <3>1
    <3>3. SameSettings(s, store[i]) /\ SameSettings(t, store[i])
      BY <1>8, <1>9, <2>1, <3>2
    <3>4. SameSettings(s, t)
      BY <3>3 DEF SameSettings
    <3> QED
      BY <2>1, <3>4
  <2> QED
    BY <2>2, <2>3
<1>10. \A o \in Owners : \A n \in DOMAIN ref'[o].todo : \A i \in DOMAIN store' :
          ref'[o].todo[n].id = store'[i].id => SameSettings(ref'[o].todo[n], store'[i])
  BY <1>5, <1>8
<1> QED
  BY <1>9, <1>10 DEF Aligned, SameSettings

\* A write of a refresh: the settings of a record of this id are those stored.
LEMMA PutAligns ==
    ASSUME Aligned, KInv, NEW by \in Owners, RefreshPut(by)
    PROVE  /\ Aligned'
           /\ \A i \in DOMAIN store, k \in DOMAIN store' :
                store'[k].id = store[i].id => SameSettings(store'[k], store[i])
<1>1. PICK todo, conn, saved :
        todo = ref[by].todo /\ conn = Head(todo) /\ saved = WithId(conn)
  OBVIOUS
<1>2. /\ todo \in Seq(Conn) /\ todo # <<>>
      /\ \A n \in DOMAIN todo : Known(todo[n])
  BY <1>1 DEF RefreshPut, KInv, Refreshes, IsRefresh
<1>3. 1 \in DOMAIN todo /\ conn = todo[1] /\ Known(conn) /\ PutStore(conn)
  BY <1>1, <1>2 DEF RefreshPut
<1>4. /\ saved.id = IF conn.id = NoId THEN nextConn ELSE conn.id
      /\ conn.id # NoId => saved = conn
  BY <1>1, <1>3 DEF WithId, Known, Conn
<1>5. \A k \in DOMAIN store' :
        store'[k] = saved \/ \E i \in DOMAIN store : store'[k] = store[i]
  BY <1>1, <1>3, PutElements
<1>6. nextConn \in Nat \ {0} /\ NoId \notin Nat \ {0}
  BY Ids DEF KInv, Counters
<1>7. \A t : Known(t) => t.id # nextConn
  <2> SUFFICES ASSUME NEW t, Known(t) PROVE t.id # nextConn
    OBVIOUS
  <2>1. t.id \in (Nat \ {0}) \cup {NoId} /\ (t.id # NoId => t.id < nextConn)
    BY DEF Known, Conn, Assigned
  <2> QED
    BY <1>6, <2>1
<1>8. ASSUME NEW o \in Owners, NEW n \in DOMAIN ref[o].todo, ref[o].todo[n].id = saved.id
      PROVE  SameSettings(ref[o].todo[n], saved)
  <2>1. PICK t : t = ref[o].todo[n] /\ Known(t)
    BY DEF KInv, Refreshes, IsRefresh
  <2>2. conn.id # NoId
    BY <1>4, <1>7, <1>8, <2>1
  <2>3. saved = conn /\ t.id = conn.id /\ conn = ref[by].todo[1] /\ 1 \in DOMAIN ref[by].todo
    BY <1>1, <1>3, <1>4, <1>8, <2>1, <2>2
  <2>4. SameSettings(t, conn)
    BY <2>1, <2>2, <2>3 DEF Aligned
  <2> QED
    BY <2>1, <2>3, <2>4
<1>9. \A k \in DOMAIN store' :
        \/ \E i \in DOMAIN store : store'[k] = store[i]
        \/ \A o \in Owners : \A n \in DOMAIN ref[o].todo :
             ref[o].todo[n].id = store'[k].id => SameSettings(ref[o].todo[n], store'[k])
  BY <1>5, <1>8
<1>10. \A o \in Owners : \A n \in DOMAIN ref'[o].todo :
          \E m \in DOMAIN ref[o].todo : ref'[o].todo[n] = ref[o].todo[m]
  BY RestLeft
<1>11. Aligned'
  BY <1>9, <1>10, AlignedStays
<1>12. ASSUME NEW i \in DOMAIN store, NEW k \in DOMAIN store', store'[k].id = store[i].id
       PROVE  SameSettings(store'[k], store[i])
  <2>1. CASE \E l \in DOMAIN store : store'[k] = store[l]
    <3>1. PICK l \in DOMAIN store : store'[k] = store[l]
      BY <2>1
    <3>2. l = i
      BY <1>12, <3>1 DEF KInv, IsStore
    <3> QED
      BY <3>1, <3>2 DEF SameSettings
  <2>2. CASE store'[k] = saved
    <3>1. PICK c : c = store[i] /\ Known(c) /\ c.id = saved.id
      BY <1>12, <2>2 DEF KInv, IsStore
    <3>2. conn.id # NoId
      BY <1>4, <1>7, <3>1
    <3>3. saved = conn /\ conn = ref[by].todo[1] /\ 1 \in DOMAIN ref[by].todo /\ conn.id = c.id
      BY <1>1, <1>3, <1>4, <3>1, <3>2
    <3>4. SameSettings(conn, c)
      BY <3>1, <3>3 DEF Aligned
    <3> QED
      BY <2>2, <3>1, <3>3, <3>4
  <2> QED
    BY <1>5, <2>1, <2>2
<1> QED
  BY <1>11, <1>12

LEMMA NextAligns ==
    ASSUME KInv, Aligned, [Next]_vars, \A h \in Requests : ~ Overtakes(h)
    PROVE  Aligned'
<1>1. CASE \E h \in Requests : Request(h) \/ Handler(h)
  BY <1>1, HandlersAlign
<1>2. CASE \E j \in Jobs : Job(j)
  BY <1>2, JobsAlign
<1>3. ASSUME NEW by \in Owners, RefreshList(by) \/ RefreshListFails(by) \/ Refresh(by)
      PROVE  Aligned'
  <2>1. CASE RefreshLoad(by)
    BY <2>1, LoadAligns
  <2>2. CASE RefreshPut(by)
    BY <2>2, PutAligns
  <2>3. CASE RefreshList(by) \/ RefreshListFails(by) \/ RefreshPutFails(by) \/ RefreshPublish(by)
    <3>1. store' = store
      BY <2>3 DEF RefreshList, RefreshListFails, RefreshPutFails, RefreshPublish
    <3>2. \A o \in Owners : \A n \in DOMAIN ref'[o].todo :
              \E m \in DOMAIN ref[o].todo : ref'[o].todo[n] = ref[o].todo[m]
      BY <2>3, RestLeft
    <3> QED
      BY <3>1, <3>2, AlignedKept
  <2> QED
    BY <1>3, <2>1, <2>2, <2>3 DEF Refresh
<1>4. CASE ExternalAdd \/ ExternalRemove \/ Start \/ UNCHANGED vars
  <2>1. UNCHANGED <<store, ref>>
    BY <1>4 DEF ExternalAdd, ExternalRemove, External, Start, vars
  <2> QED
    BY <2>1, AlignedKept
<1>5. CASE Crash
  <2>1. store' = store /\ \A o \in Owners : ref'[o].todo = <<>>
    BY <1>5 DEF Crash, NoRefresh
  <2>2. \A o \in Owners : DOMAIN ref'[o].todo = {}
    BY <2>1
  <2> QED
    BY <2>1, <2>2, AlignedKept
<1> QED
  BY <1>1, <1>2, <1>3, <1>4, <1>5 DEF Next

\* A step changes no setting, unless it is the write of a save.
Keeps ==
    \A i \in DOMAIN store, k \in DOMAIN store' :
        store'[k].id = store[i].id =>
            \/ [store'[k] EXCEPT !.profile = store[i].profile] = store[i]
            \/ \E h \in Requests : SavePut(h)

LEMMA NextKeepsEdits ==
    ASSUME KInv, Aligned, [Next]_vars
    PROVE  Keeps
<1>1. CASE \E h \in Requests : SavePut(h)
  BY <1>1 DEF Keeps
<1>2. CASE ~ \E h \in Requests : SavePut(h)
  <2> SUFFICES ASSUME NEW i \in DOMAIN store, NEW k \in DOMAIN store', store'[k].id = store[i].id
               PROVE  [store'[k] EXCEPT !.profile = store[i].profile] = store[i]
    BY DEF Keeps
  <2>1. SameSettings(store'[k], store[i]) /\ store'[k] \in Conn
    <3>1. CASE \E by \in Owners : RefreshPut(by)
      <4>1. PICK by \in Owners : RefreshPut(by)
        BY <3>1
      <4>2. store' \in Seq(Conn)
        <5>1. KInv'
          BY <4>1, RefreshPutKnows
        <5> QED
          BY <5>1 DEF KInv, IsStore
      <4> QED
        BY <4>1, <4>2, PutAligns, ElementOfSeq
    <3>2. CASE ~ \E by \in Owners : RefreshPut(by)
      <4>1. \A n \in DOMAIN store' : \E l \in DOMAIN store : store'[n] = store[l]
        <5>1. CASE \E j \in Jobs : Job(j)
          BY <5>1, JobsAlign
        <5>2. CASE ~ \E j \in Jobs : Job(j)
          <6>1. store' = store
            BY <1>2, <3>2, <5>2 DEF Next, Request, Handler, SaveGet, SavePutFails, ActGet,
               ActSnapshot, SubmitCheck, Enqueue, RefreshList, RefreshListFails, Refresh,
               RefreshLoad, RefreshPutFails, RefreshPublish, ExternalAdd, ExternalRemove,
               External, Crash, Start, vars
          <6> QED
            BY <6>1
        <5> QED
          BY <5>1, <5>2
      <4>2. PICK l \in DOMAIN store : store'[k] = store[l]
        BY <4>1
      <4>3. l = i /\ store[i] \in Conn
        BY <4>2, ElementOfSeq DEF KInv, IsStore
      <4> QED
        BY <4>2, <4>3 DEF SameSettings
    <3> QED
      BY <3>1, <3>2
  <2>2. PICK a, b : a = store'[k] /\ b = store[i]
    OBVIOUS
  <2>3. a \in Conn /\ b \in Conn /\ a.id = b.id /\ SameSettings(a, b)
    BY <2>1, <2>2, ElementOfSeq DEF KInv, IsStore
  <2>4. [a EXCEPT !.profile = b.profile] = b
    BY <2>3 DEF Conn, SameSettings
  <2> QED
    BY <2>2, <2>4
<1> QED
  BY <1>1, <1>2

\* A refresh records and clears endpoint ids and changes nothing else, whatever
\* fails, dies or is changed by others: unless a save of a connection is
\* written between the read and the write of a refresh that corrects it.
THEOREM EditsKept ==
    Spec /\ [][\A h \in Requests : ~ Overtakes(h)]_vars => EditsStay
<1>1. Init => Aligned
  <2> SUFFICES ASSUME Init PROVE Aligned
    OBVIOUS
  <2>1. \A o \in Owners : ref[o].todo = <<>>
    BY DEF Init, NoRefresh
  <2>2. \A o \in Owners : DOMAIN ref[o].todo = {}
    BY <2>1
  <2> QED
    BY <2>2 DEF Aligned
<1>2. KInv /\ Aligned /\ [Next]_vars /\ [\A h \in Requests : ~ Overtakes(h)]_vars => Aligned'
  <2> SUFFICES ASSUME KInv, Aligned, [Next]_vars, [\A h \in Requests : ~ Overtakes(h)]_vars
               PROVE  Aligned'
    OBVIOUS
  <2>1. CASE UNCHANGED vars
    <3>1. UNCHANGED <<store, ref>>
      BY <2>1 DEF vars
    <3> QED
      BY <3>1, AlignedKept
  <2> QED
    BY <2>1, NextAligns
<1>3. KInv /\ Aligned /\ [Next]_vars => [Keeps]_vars
  BY NextKeepsEdits
<1>4. [][Keeps]_vars => EditsStay
  BY DEF EditsStay, Keeps
<1> QED
  BY <1>1, <1>2, <1>3, <1>4, Invariance, PTL DEF Spec
=============================================================================
