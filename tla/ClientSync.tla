----------------------------- MODULE ClientSync -----------------------------
(***************************************************************************)
(* How a client's view follows the daemon: internal/ipc/server.go           *)
(* (subscriptions), internal/daemon (snapshots, revisions, broadcasts) and  *)
(* internal/ui (stream, requests, applyList).                               *)
(*                                                                          *)
(* The client hears of changes twice.  The subscription delivers list and   *)
(* job events in the order they were broadcast; replies to requests travel  *)
(* on connections of their own and arrive at any time.  Broadcasts are made *)
(* after the locks under which the state changed were released.             *)
(*                                                                          *)
(* Connections are abstracted to a version of the daemon's cache, and the   *)
(* states of a job to whether it is finished.  All jobs are of one          *)
(* connection, so they run one after the other.                             *)
(***************************************************************************)
EXTENDS Naturals, Sequences, Subsequences

CONSTANTS
    Buffer,             \* subscriberBuffer: events kept for one subscriber
    MaxJobs, MaxChanges, MaxRequests, MaxBreaks     \* bounds

ASSUME BoundsAssumption ==
    /\ {MaxJobs, MaxChanges, MaxRequests, MaxBreaks} \subseteq Nat
    /\ Buffer \in Nat \ {0}

JobIds == 1 .. MaxJobs

VARIABLES
    revision, version,  \* d.revision, d.conns
    ids,                \* q.ids
    jobs,               \* q.jobs as [id, state], oldest first
    posting,            \* the job events whose hook was not run yet
    refresh,            \* a refresh that changed something: [step, snapshot]
    ch,                 \* the subscription: messages not processed yet
    open,               \* whether there is one
    calls,              \* requests in flight: [step, asked, reply]
    m,                  \* the client's model
    heard,              \* history: the last event received of each job
    submitted, changes, requests, losses, restarts      \* see the bounds

daemonVars == <<revision, version, ids, jobs, posting, refresh>>
budgets == <<submitted, changes, requests, losses, restarts>>
vars == <<daemonVars, ch, open, calls, m, heard, budgets>>

NoRefresh == [step |-> "none", snapshot |-> <<>>]

Snapshot == [revision |-> revision, version |-> version, jobs |-> jobs]

-----------------------------------------------------------------------------
(* The daemon *)

\* server.Broadcast: a subscriber whose buffer is full misses the event.
Broadcast(event) ==
    ch' = IF open /\ Len(ch) < Buffer THEN Append(ch, event) ELSE ch

Finished(job) == job.state = "done"

\* An update under q.mu; its hook runs later.
JobUpdate(job, list) ==
    /\ jobs' = list
    /\ posting' = posting \cup {job}
    /\ UNCHANGED <<revision, version, refresh, ch, open, calls, m, heard, changes,
                   requests, losses, restarts>>

JobSubmit ==
    /\ submitted < MaxJobs
    /\ submitted' = submitted + 1
    /\ ids' = ids + 1
    /\ LET job == [id |-> ids + 1, state |-> "unfinished"]
       IN  JobUpdate(job, Append(jobs, job))

Posted(id) == \A event \in posting : event.id # id

\* A job ends, after those before it, and replaces the finished ones.
JobFinish(id) ==
    /\ Posted(id)
    /\ \E i \in DOMAIN jobs : jobs[i].id = id /\ ~ Finished(jobs[i])
    /\ \A i \in DOMAIN jobs :
        jobs[i].id < id => Finished(jobs[i]) /\ Posted(jobs[i].id)
    /\ LET job == [id |-> id, state |-> "done"]
           kept == At(jobs, {i \in DOMAIN jobs : jobs[i].id = id \/ ~ Finished(jobs[i])})
       IN  JobUpdate(job, [i \in DOMAIN kept |-> IF kept[i].id = id THEN job ELSE kept[i]])
    /\ UNCHANGED <<ids, submitted>>

\* The update's hook, after q.mu was released.
JobPost(id) ==
    /\ \E event \in posting :
        /\ event.id = id
        /\ Broadcast([kind |-> "job", id |-> id, state |-> event.state])
        /\ posting' = posting \ {event}
    /\ UNCHANGED <<revision, version, ids, jobs, refresh, open, calls, m, heard, budgets>>

\* The reload lock is taken, and the cache set under d.mu.
Changed ==
    /\ refresh = NoRefresh
    /\ refresh' = [refresh EXCEPT !.step = "set"]
    /\ revision' = revision + 1

\* A refresh found a change.
RefreshSet ==
    /\ changes < MaxChanges /\ changes' = changes + 1
    /\ version' = changes + 1
    /\ Changed
    /\ UNCHANGED <<ids, jobs, posting, ch, open, calls, m, heard, submitted,
                   requests, losses, restarts>>

\* d.mu was released: the snapshot for the event is taken later.
RefreshSnapshot ==
    /\ refresh.step = "set"
    /\ refresh' = [step |-> "post", snapshot |-> <<Snapshot>>]
    /\ UNCHANGED <<revision, version, ids, jobs, posting, ch, open, calls, m, heard, budgets>>

\* And broadcast later still, before the reload lock is released.
RefreshPost ==
    /\ refresh.step = "post"
    /\ Broadcast([kind |-> "list", list |-> refresh.snapshot[1]])
    /\ refresh' = NoRefresh
    /\ calls' = {IF call.step = "refreshing" THEN [call EXCEPT !.step = "list"] ELSE call :
                    call \in calls}
    /\ UNCHANGED <<revision, version, ids, jobs, posting, open, m, heard, budgets>>

\* The daemon is replaced: jobs, revisions and job ids start again, calls that
\* got no reply fail.  Its first refresh may find other machines.
Restart ==
    /\ losses + restarts < MaxBreaks /\ restarts' = restarts + 1
    /\ revision' = 1 /\ version' \in {version, MaxChanges + restarts + 1}
    /\ ids' = 0 /\ jobs' = <<>> /\ posting' = {} /\ refresh' = NoRefresh
    /\ open' = FALSE /\ ch' = <<>>
    /\ calls' = {call \in calls : call.reply # <<>>}
    /\ UNCHANGED <<m, heard, submitted, changes, requests, losses>>

\* connections.refresh: a forced refresh first.
ServeRefresh(call) ==
    /\ call.step = "refresh"
    /\ Changed
    /\ calls' = (calls \ {call}) \cup {[call EXCEPT !.step = "refreshing"]}
    /\ UNCHANGED <<version, ids, jobs, posting, ch, open, m, heard, budgets>>

\* A handler takes the reply's snapshot.
Serve(call) ==
    /\ call.step = "list" /\ call.reply = <<>>
    /\ calls' = (calls \ {call}) \cup {[call EXCEPT !.reply = <<Snapshot>>]}
    /\ UNCHANGED <<daemonVars, ch, open, m, heard, budgets>>

-----------------------------------------------------------------------------
(* The client's stream *)

\* A subscription is accepted; the first message is the client's own.
Subscribe ==
    /\ ~ open
    /\ open' = TRUE
    /\ ch' = <<[kind |-> "reconnect"]>>
    /\ UNCHANGED <<daemonVars, calls, m, heard, budgets>>

Lose ==
    /\ open
    /\ losses + restarts < MaxBreaks /\ losses' = losses + 1
    /\ open' = FALSE /\ ch' = <<>>
    /\ UNCHANGED <<daemonVars, calls, m, heard, submitted, changes, requests, restarts>>

-----------------------------------------------------------------------------
(* The client's model *)

NewCall(step, asked) == [step |-> step, asked |-> asked, reply |-> <<>>]

\* The user asks for connections.refresh.
Ask ==
    /\ requests < MaxRequests /\ requests' = requests + 1
    /\ calls' = calls \cup {NewCall("refresh", m.received)}
    /\ UNCHANGED <<daemonVars, ch, open, m, heard, submitted, changes, losses, restarts>>

Known(list, id) == \E i \in DOMAIN list : list[i].id = id

\* Mutant: marks of jobs that are gone stay.
ForgetNothing(model) == model

\* forgetOutputs: what was noted about jobs that are gone is dropped.
Forget(model) ==
    [model EXCEPT !.jobSeen = [id \in JobIds |-> IF Known(model.jobs, id) THEN @[id] ELSE 0]]

\* Mutant: a job the list does not hold is kept, however old.
KeptForever(model, list, asked) ==
    At(model.jobs, {i \in DOMAIN model.jobs : ~ Known(list, model.jobs[i].id)})

\* Jobs the list does not hold, but whose event is newer than the list.
KeptJobs(model, list, asked) ==
    At(model.jobs, {i \in DOMAIN model.jobs :
        /\ model.jobSeen[model.jobs[i].id] > asked
        /\ ~ Known(list, model.jobs[i].id)})

\* Mutant: the list's jobs replace newer ones.
MergedBlindly(model, list, asked) == list

\* The list's jobs, except those with a newer event.
MergedJobs(model, list, asked) ==
    [i \in DOMAIN list |->
        IF model.jobSeen[list[i].id] > asked
           /\ Known(model.jobs, list[i].id)
        THEN CHOOSE job \in {model.jobs[k] : k \in DOMAIN model.jobs} : job.id = list[i].id
        ELSE list[i]]

ApplyList(model, list, asked) ==
    IF list.revision < model.revision THEN model
    ELSE Forget([model EXCEPT
            !.revision = list.revision,
            !.version = list.version,
            !.jobs = MergedJobs(model, list.jobs, asked)
                        \o KeptJobs(model, list.jobs, asked)])

MergeJob(model, job) ==
    Forget([model EXCEPT !.jobs =
        IF Known(@, job.id) THEN [i \in DOMAIN @ |-> IF @[i].id = job.id THEN job ELSE @[i]]
        ELSE Append(@, job)])

\* Mutant: the revision survives the subscription.
ReconnectKeepsRevision ==
    m' = [m EXCEPT !.received = @ + 1, !.listed = m.received + 1]

\* A new subscription: what was requested before is void, revisions start again.
Reconnect ==
    m' = [m EXCEPT !.received = @ + 1, !.listed = m.received + 1, !.revision = 0]

\* The next message of the subscription.
Receive ==
    /\ ch # <<>>
    /\ ch' = Tail(ch)
    /\ LET msg == Head(ch)
           counted == [m EXCEPT !.received = @ + 1]
       IN  CASE msg.kind = "reconnect" ->
                    /\ Reconnect
                    /\ calls' = calls \cup {NewCall("list", m.received + 1)}
             [] msg.kind = "list" ->
                    /\ m' = ApplyList([counted EXCEPT !.listed = m.received + 1],
                                      msg.list, m.received + 1)
                    /\ UNCHANGED calls
             [] msg.kind = "job" ->
                    /\ m' = MergeJob([counted EXCEPT !.jobSeen[msg.id] = m.received + 1],
                                     [id |-> msg.id, state |-> msg.state])
                    /\ UNCHANGED calls
    /\ heard' = IF Head(ch).kind = "job"
                THEN [heard EXCEPT ![Head(ch).id] = Head(ch).state] ELSE heard
    /\ UNCHANGED <<daemonVars, open, budgets>>

\* No list event arrived since the request was made.
InTime(call) == m.listed <= call.asked

Deliver(call) ==
    /\ call.reply # <<>>
    /\ calls' = calls \ {call}
    /\ m' = IF InTime(call) THEN ApplyList(m, call.reply[1], call.asked) ELSE m
    /\ UNCHANGED <<daemonVars, ch, open, heard, budgets>>

-----------------------------------------------------------------------------
NoModel == [received |-> 0, listed |-> 0, revision |-> 0, version |-> 0,
            jobs |-> <<>>, jobSeen |-> [id \in JobIds |-> 0]]

\* A client that starts, its first request under way (which counts as a loss of
\* its subscription), or one that has subscribed and read the list.
Init ==
    /\ revision = 1 /\ version = 0 /\ ids = 0 /\ jobs = <<>> /\ posting = {}
    /\ refresh = NoRefresh
    /\ ch = <<>>
    /\ \/ /\ open = FALSE /\ losses = 1 /\ MaxBreaks > 0
          /\ calls = {NewCall("list", 0)}
          /\ m = NoModel
       \/ /\ open = TRUE /\ losses = 0
          /\ calls = {}
          /\ m = [NoModel EXCEPT !.received = 1, !.listed = 1, !.revision = 1]
    /\ heard = [id \in JobIds |-> "none"]
    /\ submitted = 0 /\ changes = 0 /\ requests = 0 /\ restarts = 0

Next ==
    \/ JobSubmit
    \/ \E id \in JobIds : JobFinish(id) \/ JobPost(id)
    \/ RefreshSet \/ RefreshSnapshot \/ RefreshPost
    \/ Restart \/ Subscribe \/ Lose \/ Ask \/ Receive
    \/ \E call \in calls : ServeRefresh(call) \/ Serve(call) \/ Deliver(call)

(***************************************************************************)
(* The daemon's goroutines and the client's are scheduled, a lost stream is *)
(* opened again, and a request is answered.                                 *)
(***************************************************************************)
Fairness ==
    /\ \A id \in JobIds : WF_vars(JobPost(id))
    /\ WF_vars(RefreshSnapshot) /\ WF_vars(RefreshPost)
    /\ WF_vars(Subscribe) /\ WF_vars(Receive)
    /\ WF_vars(\E call \in calls : ServeRefresh(call) \/ Serve(call) \/ Deliver(call))

Spec == Init /\ [][Next]_vars

FairSpec == Spec /\ Fairness

-----------------------------------------------------------------------------
(* Types; and the client's marks lie in the past and are kept for the jobs  *)
(* it knows only, so they cannot outlive a daemon whose ids start again.    *)
TypeOK ==
    /\ open \in BOOLEAN /\ (~ open => ch = <<>>) /\ Len(ch) <= Buffer
    /\ m.listed <= m.received
    /\ \A id \in JobIds :
        /\ m.jobSeen[id] <= m.received
        /\ m.jobSeen[id] > 0 => Known(m.jobs, id)
    /\ \A i, k \in DOMAIN m.jobs : i # k => m.jobs[i].id # m.jobs[k].id

JobSet(list) == {list[i] : i \in DOMAIN list}

Rank(state) == CASE state = "none" -> 0 [] state = "unfinished" -> 1 [] state = "done" -> 2

\* model.go:91-94: a reply never undoes what arrived after it was requested.
\* Whatever order snapshots, events and replies took, applying a reply never
\* sets a job to an earlier state than an event reported, drops a job that an
\* event reported and the daemon keeps, or takes the connections to an earlier
\* version, as long as the daemon was not replaced.
ReplyNeverUndoes == [][
    (restarts = 0 /\ \E call \in calls : Deliver(call)) =>
        /\ m'.version >= m.version
        /\ \A i \in DOMAIN m'.jobs :
            m'.jobs[i] \in JobSet(m.jobs) \/ Rank(m'.jobs[i].state) >= Rank(heard[m'.jobs[i].id])
        /\ \A i \in DOMAIN m.jobs :
            heard[m.jobs[i].id] # "none" /\ Known(jobs, m.jobs[i].id)
                => Known(m'.jobs, m.jobs[i].id)]_vars

Quiet == ch = <<>> /\ open /\ posting = {} /\ refresh = NoRefresh

\* The client shows what the daemon would send.
Agree == m.version = version /\ JobSet(m.jobs) = JobSet(jobs)

\* docs/design.md 3.2: reading the list again makes up for anything missed: a
\* reply to a request made, and answered, while nothing else was under way
\* leaves the client with exactly the daemon's connections and jobs.
RereadAgrees == [][
    \A call \in calls :
        (/\ Deliver(call) /\ Quiet
         /\ call.asked = m.received /\ call.reply = <<Snapshot>>) => Agree']_vars

\* Without lost events the client's connections catch up with the daemon's,
\* through reconnections, restarts and late replies.
ConnectionsCatchUp == <>[](m.version = version)
=============================================================================
