------------------------------- MODULE Daemon -------------------------------
(***************************************************************************)
(* internal/daemon: the requests, jobs and reconciliations that together    *)
(* keep the connection store and herdr's machine list in agreement.         *)
(*                                                                          *)
(* Three kinds of goroutines share the state: request handlers (save, act), *)
(* the jobs of the queue, and the refreshes made by the start-up, by the    *)
(* poll, by a handler before it replies and by a job's terminal hook.       *)
(* Every step below is one critical section (store.mu, queue.mu, d.mu) or   *)
(* one herdr command; between two steps any other goroutine may run.        *)
(*                                                                          *)
(* The queue is JobLanes, which JobQueue is proved to implement.  The       *)
(* matching itself is module Reconcile.  herdr is external: it keeps        *)
(* machines in a list, gives each a fresh id, and fails a command on an     *)
(* unknown id.                                                              *)
(***************************************************************************)
EXTENDS Naturals, Sequences, FiniteSets, Subsequences

CONSTANTS
    Labels, Targets, Sessions,
    NoProfile,          \* the empty endpoint id
    NoId,               \* the empty connection id
    Worlds,             \* records [store, herdr]: what the daemon may find
    Methods,            \* the methods clients call
    FaultKinds,         \* what may fail: "command", "list", "put"
    MaxConns,           \* bound: connection ids ever assigned
    MaxRequests,        \* bound: requests ever made
    MaxOpen,            \* bound: requests and jobs unfinished at a time
    MaxFaults,          \* bound: failures
    MaxExternal,        \* bound: changes made to herdr by others
    MaxCrashes          \* bound: crashes of the daemon

ASSUME BoundsAssumption ==
    /\ {MaxConns, MaxRequests, MaxOpen, MaxFaults, MaxExternal, MaxCrashes} \subseteq Nat
    /\ Methods \subseteq {"save", "connect", "disconnect", "forget"}
    /\ FaultKinds \subseteq {"command", "list", "put"}

\* An empty id is none that is ever assigned.
ASSUME IdsAssumption == NoProfile \notin Nat \ {0} /\ NoId \notin Nat \ {0}

\* What a daemon finds was written by earlier ones: both lists are numbered as
\* their records were added.
ASSUME WorldsAssumption == \A w \in Worlds :
    /\ w.store \in Seq([id : Nat \ {0}, label : Labels, target : Targets,
                        session : Sessions, profile : (Nat \ {0}) \cup {NoProfile}])
    /\ w.herdr \in Seq([id : Nat \ {0}, label : Labels, target : Targets,
                        session : Sessions])
    /\ \A i, k \in DOMAIN w.store : w.store[i].id = w.store[k].id => i = k
    /\ \A m, n \in DOMAIN w.herdr : w.herdr[m].id = w.herdr[n].id => m = n
    /\ \A i \in DOMAIN w.store :
        /\ w.store[i].id <= Len(w.store)
        /\ w.store[i].profile # NoProfile => w.store[i].profile <= Len(w.herdr)
    /\ \A n \in DOMAIN w.herdr : w.herdr[n].id <= Len(w.herdr)

ConnIds == 1 .. MaxConns
Requests == 1 .. MaxRequests
Jobs == 1 .. MaxRequests            \* a request submits at most one job

VARIABLES
    up,                 \* "down", "starting" (first refresh), "serving"
    store,              \* the connections file, a sequence of records
    nextConn,           \* the next id the store assigns (random in the code)
    conns,              \* d.conns: [conn, active], rebuilt by refreshes
    ref,                \* the refreshes in progress, by who makes them
    req,                \* request -> its handler
    job,                \* job -> its goroutine
    submitted, pending, serving,    \* the queue, see JobLanes
    herdr,              \* herdr's machines, a sequence of records
    nextMachine,        \* the next id herdr assigns
    faults, externals, crashes,     \* how many happened, see the bounds
    outside,            \* history: machines not added by a job
    forgotten           \* history: [id, profile] of connections forgotten

queueVars == <<submitted, pending, serving>>
herdrVars == <<herdr, nextMachine>>
ghosts == <<outside, forgotten>>
budgets == <<faults, externals, crashes>>
vars == <<up, store, nextConn, conns, ref, req, job, queueVars, herdrVars,
          budgets, ghosts>>

Matching == INSTANCE Reconcile
Queue == INSTANCE JobLanes WITH Conns <- ConnIds

-----------------------------------------------------------------------------
(* The store.  A write replaces the file by rename and only then memory, so *)
(* it happens or it does not (store.go:123-148).                            *)

Named(s, id) == {i \in DOMAIN s : s[i].id = id}
Has(s, id) == Named(s, id) # {}
Get(s, id) == s[CHOOSE i \in Named(s, id) : TRUE]

\* Mutant: every write appends.
PutAppends(s, conn) == Append(s, conn)

\* Put with an id replaces that record, or appends it if there is none.
Put(s, conn) ==
    IF Has(s, conn.id) THEN [i \in DOMAIN s |-> IF s[i].id = conn.id THEN conn ELSE s[i]]
    ELSE Append(s, conn)

Delete(s, id) == At(s, {i \in DOMAIN s : s[i].id # id})

\* The record that Put stores: an empty id is replaced by a fresh one.
WithId(conn) == IF conn.id = NoId THEN [conn EXCEPT !.id = nextConn] ELSE conn

PutStore(conn) ==
    /\ store' = Put(store, WithId(conn))
    /\ nextConn' = IF conn.id = NoId THEN nextConn + 1 ELSE nextConn

Fault(kind) ==
    /\ kind \in FaultKinds
    /\ faults < MaxFaults
    /\ faults' = faults + 1
    /\ UNCHANGED <<externals, crashes>>

-----------------------------------------------------------------------------
(* Handlers *)

NoConn == [id |-> NoId, label |-> "", target |-> "", session |-> "", profile |-> NoProfile]

IdleRequest == [pc |-> "idle", op |-> "", conn |-> NoConn, previous |-> <<>>,
                kind |-> "", reconnect |-> FALSE]
Replied == [IdleRequest EXCEPT !.pc = "done"]

NoJob == [pc |-> "none", kind |-> "", conn |-> NoConn, reconnect |-> FALSE,
          onlyIdle |-> FALSE, profile |-> NoProfile]
Ended(j) == job[j].pc = "closed"

\* The job reached a terminal state: its hook reports it, or already did.
Terminal(j) == job[j].pc \in {"report", "closed"}

Unfinished ==
    Cardinality({h \in Requests : req[h].pc \notin {"idle", "done"}})
    + Cardinality({j \in 1 .. submitted : ~ Ended(j)})

\* A request arrives: a save of a new or any earlier connection, or an action
\* on one.  Requests are numbered in order of arrival.
Request(h) ==
    /\ up = "serving"
    /\ req[h].pc = "idle"
    /\ h > 1 => req[h - 1].pc # "idle"
    /\ Unfinished < MaxOpen
    /\ \E op \in Methods :
       \E c \in [id : 1 .. nextConn - 1 \cup (IF op = "save" THEN {NoId} ELSE {}),
                 label : IF op = "save" THEN Labels ELSE {""},
                 target : IF op = "save" THEN Targets ELSE {""},
                 session : IF op = "save" THEN Sessions ELSE {""},
                 profile : {NoProfile}] :
        req' = [req EXCEPT ![h] = [@ EXCEPT !.pc = "get", !.op = op, !.conn = c]]
    /\ UNCHANGED <<up, store, nextConn, conns, ref, job, queueVars, herdrVars,
                   budgets, ghosts>>

\* save, first half: what is stored now decides the endpoint id to keep.
SaveGet(h) ==
    /\ req[h].pc = "get" /\ req[h].op = "save"
    /\ LET id == req[h].conn.id
           previous == Get(store, id)
       IN  req' = [req EXCEPT ![h] =
             IF Has(store, id)
             THEN [@ EXCEPT !.pc = "put", !.previous = <<previous>>,
                            !.conn.profile = previous.profile]
             ELSE [@ EXCEPT !.pc = "put"]]
    /\ UNCHANGED <<up, store, nextConn, conns, ref, job, queueVars, herdrVars,
                   budgets, ghosts>>

\* The job a save queues, given what was stored before.
SaveKind(previous, saved) ==
    IF previous = <<>> THEN "connect"
    ELSE IF saved.profile = NoProfile THEN ""
    ELSE IF previous[1].target # saved.target \/ previous[1].session # saved.session
         THEN "connect"
    ELSE IF previous[1].label # saved.label THEN "rename"
    ELSE ""

\* A connection that existed and moved: the endpoint is removed first.
Moves(previous, saved) ==
    /\ previous # <<>>
    /\ previous[1].target # saved.target \/ previous[1].session # saved.session

\* The next step of a handler: submit its job, or reply after a refresh.
AfterKind(kind) == IF kind = "" THEN "refresh" ELSE "submit"

SavePut(h) ==
    /\ req[h].pc = "put"
    /\ LET saved == WithId(req[h].conn)
           kind == SaveKind(req[h].previous, saved)
       IN  /\ PutStore(req[h].conn)
           /\ req' = [req EXCEPT ![h] = [@ EXCEPT
                !.pc = AfterKind(kind), !.conn = saved, !.kind = kind,
                !.reconnect = Moves(req[h].previous, saved), !.previous = <<>>]]
    /\ UNCHANGED <<up, conns, ref, job, queueVars, herdrVars, budgets, ghosts>>

\* The write failed: the caller gets an error and nothing is queued.
SavePutFails(h) ==
    /\ req[h].pc = "put"
    /\ Fault("put")
    /\ req' = [req EXCEPT ![h] = Replied]
    /\ UNCHANGED <<up, store, nextConn, conns, ref, job, queueVars, herdrVars, ghosts>>

\* act, first half: the stored connection, or an error.
ActGet(h) ==
    /\ req[h].pc = "get" /\ req[h].op # "save"
    /\ LET id == req[h].conn.id
       IN  req' = [req EXCEPT ![h] =
             IF Has(store, id)
             THEN [@ EXCEPT !.pc = "snapshot", !.conn = Get(store, id)]
             ELSE Replied]
    /\ UNCHANGED <<up, store, nextConn, conns, ref, job, queueVars, herdrVars,
                   budgets, ghosts>>

CachedActive(id) == \E i \in DOMAIN conns : conns[i].conn.id = id /\ conns[i].active

ActKind(op, active) ==
    CASE op = "connect" /\ ~ active -> "connect"
      [] op = "disconnect" /\ active -> "disconnect"
      [] op = "forget" -> "forget"
      [] OTHER -> ""

\* act, second half: whether it is active is read from the cache.
ActSnapshot(h) ==
    /\ req[h].pc = "snapshot"
    /\ LET kind == ActKind(req[h].op, CachedActive(req[h].conn.id))
       IN  req' = [req EXCEPT ![h] = [@ EXCEPT !.pc = AfterKind(kind), !.kind = kind]]
    /\ UNCHANGED <<up, store, nextConn, conns, ref, job, queueVars, herdrVars,
                   budgets, ghosts>>

OnlyIdle(h) == req[h].op \in {"connect", "disconnect"}

Busy(id) == \E j \in 1 .. submitted : job[j].conn.id = id /\ ~ Terminal(j)

\* Mutant: the check for unfinished work is made outside submitMu.
SubmitLockFreeAlways(h) == TRUE

\* submitMu is held from the check to the submission.
SubmitLockFree(h) == \A g \in Requests : req[g].pc # "enqueue"

\* A connect or disconnect while the connection is busy replies at once.
SubmitCheck(h) ==
    /\ req[h].pc = "submit"
    /\ SubmitLockFree(h)
    /\ req' = [req EXCEPT ![h] =
         IF OnlyIdle(h) /\ Busy(@.conn.id) THEN Replied
         ELSE [@ EXCEPT !.pc = "enqueue"]]
    /\ UNCHANGED <<up, store, nextConn, conns, ref, job, queueVars, herdrVars,
                   budgets, ghosts>>

Enqueue(h) ==
    /\ req[h].pc = "enqueue"
    /\ Queue!Arrive(req[h].conn.id)
    /\ job' = [job EXCEPT ![submitted + 1] =
         [pc |-> "queued", kind |-> req[h].kind, conn |-> req[h].conn,
          reconnect |-> req[h].reconnect, onlyIdle |-> OnlyIdle(h),
          profile |-> NoProfile]]
    /\ req' = [req EXCEPT ![h] = [IdleRequest EXCEPT !.pc = "refresh"]]
    /\ UNCHANGED <<up, store, nextConn, conns, ref, herdrVars, budgets, ghosts>>

-----------------------------------------------------------------------------
(* Jobs (jobspecs.go:16-50) *)

Held(id) == \E n \in DOMAIN herdr : herdr[n].id = id

\* The first command of a job whose connection now has this endpoint id.
FirstCommand(j, profile) ==
    CASE job[j].kind = "connect" ->
            IF job[j].reconnect /\ profile # NoProfile THEN "remove" ELSE "add"
      [] job[j].kind = "rename" ->
            IF profile = NoProfile THEN "report" ELSE "rename"
      [] OTHER ->
            IF profile # NoProfile THEN "remove"
            ELSE IF job[j].kind = "forget" THEN "delete" ELSE "report"

\* Mutant: the command after a failed removal runs all the same.
AfterRemoveAlways(j, ok) ==
    CASE job[j].kind = "connect" -> "add"
      [] job[j].kind = "forget" -> "delete"
      [] OTHER -> "report"

\* What follows machine remove: nothing when it failed.
AfterRemove(j, ok) ==
    CASE ok /\ job[j].kind = "connect" -> "add"
      [] ok /\ job[j].kind = "forget" -> "delete"
      [] OTHER -> "report"

\* The lane's turn came: the job reads the endpoint id of its connection now,
\* not the one known when it was submitted.
JobStart(j) ==
    /\ job[j].pc = "queued"
    /\ Queue!Serve(job[j].conn.id)
    /\ j \in serving'[job[j].conn.id]
    /\ LET id == job[j].conn.id
           profile == IF Has(store, id) THEN Get(store, id).profile ELSE NoProfile
       IN  job' = [job EXCEPT ![j].pc = FirstCommand(j, profile), ![j].profile = profile]
    /\ UNCHANGED <<up, store, nextConn, conns, ref, req, herdrVars, budgets, ghosts>>

\* It was cancelled while it waited.
JobSkip(j) ==
    /\ job[j].pc = "queued"
    /\ Queue!Serve(job[j].conn.id)
    /\ j \in serving'[job[j].conn.id]
    /\ Fault("command")
    /\ job' = [job EXCEPT ![j].pc = "report"]
    /\ UNCHANGED <<up, store, nextConn, conns, ref, req, herdrVars, ghosts>>

JobStep(j, pc) ==
    /\ job' = [job EXCEPT ![j].pc = pc]
    /\ UNCHANGED <<up, conns, ref, req, queueVars>>

Removed(id) == At(herdr, {n \in DOMAIN herdr : herdr[n].id # id})

JobRemove(j) ==
    /\ job[j].pc = "remove"
    /\ JobStep(j, AfterRemove(j, Held(job[j].profile)))
    /\ herdr' = Removed(job[j].profile)
    /\ UNCHANGED <<store, nextConn, nextMachine, budgets, ghosts>>

\* The command failed or was cancelled, before or after it took effect.
JobRemoveFails(j) ==
    /\ job[j].pc = "remove"
    /\ Fault("command")
    /\ JobStep(j, AfterRemove(j, FALSE))
    /\ herdr' \in {herdr, Removed(job[j].profile)}
    /\ UNCHANGED <<store, nextConn, nextMachine, ghosts>>

\* machine add under a PTY: it saves the machine last, or fails without.
JobAdd(j) ==
    /\ job[j].pc = "add"
    /\ JobStep(j, "report")
    /\ herdr' = Append(herdr, [id |-> nextMachine, label |-> job[j].conn.label,
                               target |-> job[j].conn.target,
                               session |-> job[j].conn.session])
    /\ nextMachine' = nextMachine + 1
    /\ UNCHANGED <<store, nextConn, budgets, ghosts>>

JobRename(j) ==
    /\ job[j].pc = "rename"
    /\ JobStep(j, "report")
    /\ herdr' = [n \in DOMAIN herdr |->
                    IF herdr[n].id = job[j].profile
                    THEN [herdr[n] EXCEPT !.label = job[j].conn.label] ELSE herdr[n]]
    /\ UNCHANGED <<store, nextConn, nextMachine, budgets, ghosts>>

JobCommandFails(j) ==
    /\ job[j].pc \in {"add", "rename"}
    /\ Fault("command")
    /\ JobStep(j, "report")
    /\ UNCHANGED <<store, nextConn, herdrVars, ghosts>>

JobDelete(j) ==
    /\ job[j].pc = "delete"
    /\ JobStep(j, "report")
    /\ store' = Delete(store, job[j].conn.id)
    /\ forgotten' = IF Has(store, job[j].conn.id)
                    THEN forgotten \cup {[id |-> job[j].conn.id, profile |-> job[j].profile]}
                    ELSE forgotten
    /\ UNCHANGED <<nextConn, herdrVars, budgets, outside>>

JobDeleteFails(j) ==
    /\ job[j].pc = "delete"
    /\ Fault("put")
    /\ JobStep(j, "report")
    /\ UNCHANGED <<store, nextConn, herdrVars, ghosts>>

-----------------------------------------------------------------------------
(* refresh, under the reload lock *)

Poll == <<"poll", 0>>
Boot == <<"boot", 0>>
Owners == {Boot, Poll} \cup {<<"req", h>> : h \in Requests} \cup {<<"job", j>> : j \in Jobs}

NoRefresh == [step |-> "none", actual |-> <<>>, todo |-> <<>>, out |-> <<>>]

\* Who is about to refresh.
WantsRefresh(by) ==
    /\ ref[by].step = "none"
    /\ CASE by[1] = "poll" -> up = "serving"
         [] by[1] = "boot" -> up = "starting"
         [] by[1] = "req" -> req[by[2]].pc = "refresh"
         [] by[1] = "job" -> job[by[2]].pc = "report"

\* Mutant: reconciliation is not serialized.
ReloadFreeAlways == TRUE

\* The reload lock: held from before the list is read until the cache is set.
ReloadFree == \A by \in Owners : ref[by].step = "none"

\* herdr's list is read.
RefreshList(by) ==
    /\ ReloadFree
    /\ WantsRefresh(by)
    /\ ref' = [ref EXCEPT ![by] = [@ EXCEPT !.step = "load", !.actual = herdr]]
    /\ UNCHANGED <<up, store, nextConn, conns, req, job, queueVars, herdrVars,
                   budgets, ghosts>>

\* machine list failed or took more than ten seconds: the cache stays.
RefreshListFails(by) ==
    /\ ReloadFree
    /\ WantsRefresh(by)
    /\ Fault("list")
    /\ ref' = [ref EXCEPT ![by] = [@ EXCEPT !.step = "failed"]]
    /\ UNCHANGED <<up, store, nextConn, conns, req, job, queueVars, herdrVars, ghosts>>

\* The store is read; from here on its later changes are not seen.
RefreshLoad(by) ==
    /\ ref[by].step = "load"
    /\ LET actual == ref[by].actual
           paired == Matching!Paired(store, actual)
       IN  ref' = [ref EXCEPT ![by] =
             [step |-> "put", actual |-> <<>>,
              todo |-> Matching!Corrections(store, actual)
                         \o Matching!Adoptions(store, actual),
              out |-> [i \in DOMAIN paired |->
                [conn |-> paired[i], active |-> paired[i].profile # NoProfile]]]]
    /\ UNCHANGED <<up, store, nextConn, conns, req, job, queueVars, herdrVars,
                   budgets, ghosts>>

\* The next write: a correction of a record, or an adoption.
RefreshPut(by) ==
    /\ ref[by].todo # <<>>
    /\ LET conn == Head(ref[by].todo)
       IN  /\ PutStore(conn)
           /\ ref' = [ref EXCEPT ![by].todo = Tail(@),
                ![by].out = IF conn.id # NoId THEN @
                            ELSE Append(@, [conn |-> WithId(conn), active |-> TRUE])]
    /\ UNCHANGED <<up, conns, req, job, queueVars, herdrVars, budgets, ghosts>>

\* A failed write is skipped: a correction is shown all the same, an adoption
\* is not.
RefreshPutFails(by) ==
    /\ ref[by].todo # <<>>
    /\ Fault("put")
    /\ ref' = [ref EXCEPT ![by].todo = Tail(@)]
    /\ UNCHANGED <<up, store, nextConn, conns, req, job, queueVars, herdrVars, ghosts>>

\* Mutant: a failed list returns without releasing the lock.
ReadyIfListed(by) == ref[by].step = "put" /\ ref[by].todo = <<>>

\* Nothing is left but to set the cache.
Ready(by) == ref[by].step = "failed" \/ (ref[by].step = "put" /\ ref[by].todo = <<>>)

\* The cache is replaced if herdr answered, the lock released, and whoever
\* refreshed goes on: a handler replies, a job's done channel is closed.
RefreshPublish(by) ==
    /\ Ready(by)
    /\ conns' = IF ref[by].step = "failed" THEN conns ELSE ref[by].out
    /\ ref' = [ref EXCEPT ![by] = NoRefresh]
    /\ up' = IF by = Boot THEN "serving" ELSE up
    /\ req' = IF by[1] = "req" THEN [req EXCEPT ![by[2]] = Replied] ELSE req
    /\ IF by[1] = "job"
       THEN /\ job' = [job EXCEPT ![by[2]].pc = "closed"]
            /\ Queue!Finish(job[by[2]].conn.id)
       ELSE UNCHANGED <<job, queueVars>>
    /\ UNCHANGED <<store, nextConn, herdrVars, budgets, ghosts>>

-----------------------------------------------------------------------------
(* The environment *)

External ==
    /\ externals < MaxExternal
    /\ externals' = externals + 1
    /\ UNCHANGED <<up, store, nextConn, conns, ref, req, job, queueVars, faults,
                   crashes, forgotten>>

\* Somebody runs herdr machine add or remove by hand.
ExternalAdd ==
    /\ External
    /\ \E l \in Labels, t \in Targets, s \in Sessions :
        herdr' = Append(herdr, [id |-> nextMachine, label |-> l, target |-> t, session |-> s])
    /\ outside' = outside \cup {nextMachine}
    /\ nextMachine' = nextMachine + 1

ExternalRemove ==
    /\ External
    /\ \E n \in DOMAIN herdr : herdr' = Removed(herdr[n].id)
    /\ UNCHANGED <<nextMachine, outside>>

\* Mutant: the store is only held in memory.
CrashLosesStore ==
    /\ up # "down"
    /\ crashes < MaxCrashes
    /\ crashes' = crashes + 1
    /\ up' = "down"
    /\ store' = <<>>
    /\ conns' = <<>>
    /\ ref' = [by \in Owners |-> NoRefresh]
    /\ req' = [h \in Requests |-> IF req[h].pc = "idle" THEN IdleRequest ELSE Replied]
    /\ job' = [j \in Jobs |-> IF j <= submitted THEN [NoJob EXCEPT !.pc = "closed"] ELSE NoJob]
    /\ pending' = [c \in ConnIds |-> {}]
    /\ serving' = [c \in ConnIds |-> {}]
    /\ UNCHANGED <<nextConn, submitted, herdrVars, faults, externals, ghosts>>

\* The daemon dies: only the file and herdr's own state survive.
Crash ==
    /\ up # "down"
    /\ crashes < MaxCrashes
    /\ crashes' = crashes + 1
    /\ up' = "down"
    /\ conns' = <<>>
    /\ ref' = [by \in Owners |-> NoRefresh]
    /\ req' = [h \in Requests |-> IF req[h].pc = "idle" THEN IdleRequest ELSE Replied]
    /\ job' = [j \in Jobs |-> IF j <= submitted THEN [NoJob EXCEPT !.pc = "closed"] ELSE NoJob]
    /\ pending' = [c \in ConnIds |-> {}]
    /\ serving' = [c \in ConnIds |-> {}]
    /\ UNCHANGED <<store, nextConn, submitted, herdrVars, faults, externals, ghosts>>

\* The next client, or herdr's start, spawns it again: it opens the store,
\* listens, and refreshes before it serves.
Start ==
    /\ up = "down"
    /\ up' = "starting"
    /\ UNCHANGED <<store, nextConn, conns, ref, req, job, queueVars, herdrVars,
                   budgets, ghosts>>

-----------------------------------------------------------------------------
Init ==
    /\ \E w \in Worlds :
        /\ store = w.store /\ nextConn = Len(w.store) + 1
        /\ herdr = w.herdr /\ nextMachine = Len(w.herdr) + 1
        /\ outside = {w.herdr[n].id : n \in DOMAIN w.herdr}
                        \ {w.store[i].profile : i \in DOMAIN w.store}
    /\ up = "down"
    /\ conns = <<>>
    /\ ref = [by \in Owners |-> NoRefresh]
    /\ req = [h \in Requests |-> IdleRequest]
    /\ job = [j \in Jobs |-> NoJob]
    /\ Queue!LInit
    /\ faults = 0 /\ externals = 0 /\ crashes = 0
    /\ forgotten = {}

Handler(h) ==
    \/ SaveGet(h) \/ SavePut(h) \/ SavePutFails(h)
    \/ ActGet(h) \/ ActSnapshot(h) \/ SubmitCheck(h) \/ Enqueue(h)

Job(j) ==
    \/ JobStart(j) \/ JobSkip(j) \/ JobRemove(j) \/ JobRemoveFails(j)
    \/ JobAdd(j) \/ JobRename(j) \/ JobCommandFails(j)
    \/ JobDelete(j) \/ JobDeleteFails(j)

Refresh(by) ==
    RefreshLoad(by) \/ RefreshPut(by) \/ RefreshPutFails(by) \/ RefreshPublish(by)

Next ==
    \/ \E h \in Requests : Request(h) \/ Handler(h)
    \/ \E j \in Jobs : Job(j)
    \/ \E by \in Owners : RefreshList(by) \/ RefreshListFails(by) \/ Refresh(by)
    \/ ExternalAdd \/ ExternalRemove
    \/ Crash \/ Start

(***************************************************************************)
(* Goroutines are scheduled, a dead daemon is started again, and the reload *)
(* mutex is starvation-free, so whoever keeps waiting for it gets it (SF).  *)
(* Nothing is assumed of clients, of herdr commands run by jobs, of         *)
(* failures or of other users of herdr.                                     *)
(***************************************************************************)
Fairness ==
    /\ \A h \in Requests : WF_vars(Handler(h))
    /\ \A j \in Jobs : WF_vars(JobStart(j)) /\ WF_vars(JobDelete(j))
    /\ \A by \in Owners :
        SF_vars(RefreshList(by) \/ RefreshListFails(by)) /\ WF_vars(Refresh(by))
    /\ WF_vars(Start)

Spec == Init /\ [][Next]_vars

FairSpec == Spec /\ Fairness

-----------------------------------------------------------------------------
Connections == [id : ConnIds \cup {NoId}, label : Labels \cup {""},
                target : Targets \cup {""}, session : Sessions \cup {""},
                profile : {NoProfile} \cup 1 .. nextMachine - 1]

\* Types, and the bookkeeping a type alone does not show: ids in the store are
\* distinct and assigned, the bound on them is never what stops a write, and a
\* job is in the queue's lanes exactly as far as its goroutine got.
TypeOK ==
    /\ up \in {"down", "starting", "serving"}
    /\ \A i \in DOMAIN store : store[i] \in Connections /\ store[i].id < nextConn
    /\ \A i, k \in DOMAIN store : i # k => store[i].id # store[k].id
    /\ nextConn <= MaxConns + 1
    /\ \A h \in Requests : req[h].conn \in Connections
    /\ \A j \in Jobs :
        /\ job[j].pc = "none" <=> j > submitted
        /\ \A c \in ConnIds :
            /\ j \in pending[c] <=> job[j].pc = "queued" /\ job[j].conn.id = c
            /\ j \in serving[c] <=> /\ job[j].pc \notin {"none", "queued", "closed"}
                                    /\ job[j].conn.id = c

\* No two connections shown as active claim the same machine, though writes of
\* requests and jobs slip between the writes of a reconciliation.
CacheClaimsUnique ==
    \A i, k \in DOMAIN conns :
        (i # k /\ conns[i].active /\ conns[k].active)
            => conns[i].conn.profile # conns[k].conn.profile

\* A machine belongs to one connection in the store too, however the writes of
\* refreshes interleave with those of requests (daemon.go:50-51).
StoreClaimsUnique ==
    \A i, k \in DOMAIN store :
        (i # k /\ store[i].profile = store[k].profile) => store[i].profile = NoProfile

\* A connect or disconnect requested from the list is only admitted when all
\* earlier jobs of its connection came to an end (daemon.go:53).
Coalesced ==
    \A j \in 1 .. submitted : job[j].onlyIdle /\ ~ Terminal(j) =>
        \A i \in 1 .. j - 1 : job[i].conn.id = job[j].conn.id => Terminal(i)

\* docs/design.md 3.1: a reconnect removes the old endpoint before adding the
\* new one; a failed removal stops the job.  So a moved connection is never
\* held twice by its own job.
ReconnectReplaces ==
    \A j \in Jobs :
        (job[j].pc = "add" /\ job[j].reconnect) => ~ Held(job[j].profile)

\* The store, herdr and the cache agree: every machine is claimed by exactly
\* one connection, every claim is of a machine herdr holds, and clients are
\* shown the store.
Settled ==
    /\ \A n \in DOMAIN herdr :
        Cardinality({i \in DOMAIN store : store[i].profile = herdr[n].id}) = 1
    /\ \A i \in DOMAIN store :
        store[i].profile # NoProfile => Held(store[i].profile)
    /\ conns = [i \in DOMAIN store |->
                    [conn |-> store[i], active |-> store[i].profile # NoProfile]]

\* Once requests, failures and other users of herdr come to rest, the three
\* agree and stay so, even with a machine add still waiting for an answer
\* (docs/design.md 2.1: "the two can never disagree").
Converges == <>[]Settled

\* Every request is answered, even if a job or its command never ends.
Answered == \A h \in Requests : (req[h].pc # "idle") ~> (req[h].pc = "done")

\* Only saving changes a label, target or session: reconciliation records and
\* clears endpoint ids, nothing else (docs/design.md 4).
EditsStay == [][
    \A i \in DOMAIN store, k \in DOMAIN store' :
        store'[k].id = store[i].id =>
            \/ [store'[k] EXCEPT !.profile = store[i].profile] = store[i]
            \/ \E h \in Requests : SavePut(h)]_vars

\* docs/design.md 3.2: forgetting removes a connection from herdr and from the
\* store.  It does not come back, under its own id or as an adopted one.
ForgottenStaysForgotten ==
    \A f \in forgotten : \A i \in DOMAIN store :
        /\ store[i].id # f.id
        /\ f.profile # NoProfile => store[i].profile # f.profile

\* docs/design.md 2.4: what is adopted is a machine added outside the plugin,
\* never one that a job of the plugin added for a stored connection, unless the
\* connection was forgotten since.  It takes a client that waits for its jobs, and
\* lists and writes that succeed: a failed list leaves the cache without endpoints
\* or the new machine unpaired, and the next connect or edit a machine too many.
AdoptsOnlyOutside == [][
    \A by \in Owners : RefreshPut(by) /\ Head(ref[by].todo).id = NoId
        => \/ Head(ref[by].todo).profile \in outside
           \/ \E f \in forgotten : f.profile = Head(ref[by].todo).profile]_vars
=============================================================================
