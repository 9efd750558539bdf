------------------------------ MODULE Lifecycle ------------------------------
(***************************************************************************)
(* How the daemon is started, found, replaced and ended:                    *)
(* internal/daemon/spawn.go (Ensure, spawn), daemon.go (Run, shutdown),     *)
(* internal/ipc/server.go (Listen, Serve) and cmd/machine-manager/main.go.  *)
(*                                                                          *)
(* Starters are the short-lived processes that call Ensure: the "open"      *)
(* action and the panes, which stay as a popup when Ensure succeeds.        *)
(* Daemons are processes too; they share a lock file and the path of a      *)
(* socket.  A path is unlinked by name, whoever is bound to it.             *)
(*                                                                          *)
(* A request is one step: it is answered if the path leads to a daemon that *)
(* serves, and fails otherwise; waiting for a daemon that is not ready yet  *)
(* is the same as asking later.                                             *)
(***************************************************************************)
EXTENDS Naturals

CONSTANTS
    Starters,           \* processes that call Ensure, reused once they ended
    Daemons,            \* processes that run Run, reused once they ended
    Jobs,               \* jobs that may be submitted
    Nobody,
    MaxBuild,           \* bound: builds of the executable
    MaxFaults           \* bound: crashes, signals and failed starts

ASSUME NobodyAssumption == Nobody \notin Daemons

ASSUME LifecycleBounds == MaxBuild \in Nat /\ MaxFaults \in Nat

VARIABLES
    disk,               \* the build of the executable on disk
    step,               \* where each starter is in Ensure
    own,                \* the build of each starter (Version), 0 if no process
    sub,                \* the daemon a popup is subscribed to
    run,                \* where each daemon is in Run, "none" if no process
    build,              \* the build of each daemon, 0 if no process
    ended,              \* whether its context has ended
    asked,              \* whether a shutdown request was accepted
    jobs,               \* its unfinished jobs
    lock,               \* who holds manager.lock
    file,               \* who was bound to manager.sock, perhaps long dead
    faults,
    used,               \* history: jobs submitted so far
    known,              \* history: those submitted when a starter read the list
    told,               \* history: what the one who asked to shut down knew
    killed              \* history: jobs ended by a shutdown

starterVars == <<step, own, sub, known>>
daemonVars == <<run, build, ended, asked, jobs, told>>
vars == <<disk, starterVars, daemonVars, lock, file, faults, used, killed>>

\* A request to the socket reaches d and is answered.
Answers(d) == file = d /\ run[d] = "serving" /\ ~ ended[d]

Served == \E d \in Daemons : Answers(d)

-----------------------------------------------------------------------------
(* Ensure *)

Goes(s, from, to) ==
    /\ step[s] = from
    /\ step' = [step EXCEPT ![s] = to]

\* The process is over.
Leaves(s, from, to) ==
    /\ Goes(s, from, to)
    /\ own' = [own EXCEPT ![s] = 0]

\* The user, or a question, opens the manager: a new process of the build on
\* disk, whose first step is a ping.
Open(s) ==
    /\ \/ Goes(s, "idle", "ping")
       \/ Goes(s, "failed", "ping")
    /\ own' = [own EXCEPT ![s] = disk]
    /\ UNCHANGED <<disk, sub, known, daemonVars, lock, file, faults, used, killed>>

\* A daemon of the same build is all that is needed.
Ping(s) ==
    /\ \E d \in Daemons :
        /\ Answers(d)
        /\ IF build[d] = own[s] THEN Goes(s, "ping", "ok") ELSE Goes(s, "ping", "list")
    /\ UNCHANGED <<disk, own, sub, known, daemonVars, lock, file, faults, used, killed>>

PingFails(s) ==
    /\ ~ Served
    /\ Goes(s, "ping", "spawn")
    /\ UNCHANGED <<disk, own, sub, known, daemonVars, lock, file, faults, used, killed>>

\* Mutant: another build is replaced whatever it is doing.
ListIgnored(s) ==
    /\ \E d \in Daemons : Answers(d) /\ Goes(s, "list", "shutdown")
    /\ known' = [known EXCEPT ![s] = IF step'[s] = "shutdown" THEN used ELSE {}]
    /\ UNCHANGED <<disk, own, sub, daemonVars, lock, file, faults, used, killed>>

\* A daemon of another build is left alone while it has unfinished jobs.
List(s) ==
    /\ \E d \in Daemons :
        /\ Answers(d)
        /\ IF jobs[d] # {} THEN Goes(s, "list", "ok") ELSE Goes(s, "list", "shutdown")
    /\ known' = [known EXCEPT ![s] = IF step'[s] = "shutdown" THEN used ELSE {}]
    /\ UNCHANGED <<disk, own, sub, daemonVars, lock, file, faults, used, killed>>

ListFails(s) ==
    /\ ~ Served
    /\ Leaves(s, "list", "failed")
    /\ UNCHANGED <<disk, sub, known, daemonVars, lock, file, faults, used, killed>>

\* The request goes to whoever is bound by now, and its failure is ignored.
Shutdown(s) ==
    /\ Goes(s, "shutdown", "gone")
    /\ asked' = [d \in Daemons |-> asked[d] \/ Answers(d)]
    /\ told' = [d \in Daemons |-> IF Answers(d) /\ ~ asked[d] THEN known[s] ELSE told[d]]
    /\ known' = [known EXCEPT ![s] = {}]
    /\ UNCHANGED <<disk, own, sub, run, build, ended, jobs, lock, file, faults,
                   used, killed>>

\* waitGone: a ping failed, or two seconds passed.
WaitGone(s) ==
    /\ Goes(s, "gone", "spawn")
    /\ UNCHANGED <<disk, own, sub, known, daemonVars, lock, file, faults, used, killed>>

\* The executable on disk is run; a process that ended leaves its name.
Spawn(s) ==
    /\ Goes(s, "spawn", "poll")
    /\ \E d \in Daemons :
        /\ run[d] = "none"
        /\ run' = [run EXCEPT ![d] = "started"]
        /\ build' = [build EXCEPT ![d] = disk]
    /\ UNCHANGED <<disk, own, sub, known, ended, asked, jobs, told, lock, file, faults,
                   used, killed>>

\* Whoever answers will do.
Poll(s) ==
    /\ Served
    /\ Goes(s, "poll", "ok")
    /\ UNCHANGED <<disk, own, sub, known, daemonVars, lock, file, faults, used, killed>>

\* startTimeout passed without an answer.
PollFails(s) ==
    /\ ~ Served
    /\ Leaves(s, "poll", "failed")
    /\ UNCHANGED <<disk, sub, known, daemonVars, lock, file, faults, used, killed>>

-----------------------------------------------------------------------------
(* A popup.  It never starts a daemon again (docs/design.md 3.3). *)

\* Ensure succeeded.  An action is over, its pane is a process of its own; a
\* pane shows the manager, if herdr has no other popup open.
Done(s) ==
    /\ \/ Leaves(s, "ok", "idle")
       \/ /\ \A other \in Starters : step[other] # "popup"
          /\ Goes(s, "ok", "popup")
          /\ UNCHANGED own
    /\ UNCHANGED <<disk, sub, known, daemonVars, lock, file, faults, used, killed>>

Subscribe(s) ==
    /\ step[s] = "popup" /\ sub[s] = Nobody
    /\ \E d \in Daemons : Answers(d) /\ sub' = [sub EXCEPT ![s] = d]
    /\ UNCHANGED <<disk, step, own, known, daemonVars, lock, file, faults, used, killed>>

Submit(s) ==
    /\ step[s] = "popup"
    /\ \E d \in Daemons, j \in Jobs \ used :
        /\ Answers(d)
        /\ jobs' = [jobs EXCEPT ![d] = @ \cup {j}]
        /\ used' = used \cup {j}
    /\ UNCHANGED <<disk, starterVars, run, build, ended, asked, told, lock, file,
                   faults, killed>>

Close(s) ==
    /\ Leaves(s, "popup", "idle")
    /\ sub' = [sub EXCEPT ![s] = Nobody]
    /\ UNCHANGED <<disk, known, daemonVars, lock, file, faults, used, killed>>

-----------------------------------------------------------------------------
(* Run *)

Moves(d, from, to) ==
    /\ run[d] = from
    /\ run' = [run EXCEPT ![d] = to]

\* The process is over: the system drops its lock and its connections.
Ends(d) ==
    /\ run' = [run EXCEPT ![d] = "none"]
    /\ build' = [build EXCEPT ![d] = 0]
    /\ ended' = [ended EXCEPT ![d] = FALSE]
    /\ asked' = [asked EXCEPT ![d] = FALSE]
    /\ told' = [told EXCEPT ![d] = {}]
    /\ jobs' = [jobs EXCEPT ![d] = {}]
    /\ sub' = [s \in Starters |-> IF sub[s] = d THEN Nobody ELSE sub[s]]
    /\ lock' = IF lock = d THEN Nobody ELSE lock

\* Mutant: the lock is not taken.
LockIgnored(d) ==
    /\ Moves(d, "started", "locked")
    /\ UNCHANGED <<disk, starterVars, build, ended, asked, jobs, told, lock, file, faults,
                   used, killed>>

\* LOCK_NB: taken at once or not at all.
Lock(d) ==
    /\ lock = Nobody
    /\ lock' = d
    /\ Moves(d, "started", "locked")
    /\ UNCHANGED <<disk, starterVars, build, ended, asked, jobs, told, file, faults,
                   used, killed>>

\* "another instance is running"
Conflict(d) ==
    /\ run[d] = "started" /\ lock # Nobody
    /\ Ends(d)
    /\ UNCHANGED <<disk, step, own, known, file, faults, used, killed>>

\* The store cannot be opened.
RunFails(d) ==
    /\ run[d] = "locked"
    /\ faults < MaxFaults /\ faults' = faults + 1
    /\ Ends(d)
    /\ UNCHANGED <<disk, step, own, known, file, used, killed>>

\* Mutant: the socket of a dead daemon stays.
KeepsStale(d) ==
    /\ Moves(d, "locked", "cleared")
    /\ UNCHANGED <<disk, starterVars, build, ended, asked, jobs, told, lock, file, faults,
                   used, killed>>

\* Listen removes what is at the path ...
Clear(d) ==
    /\ Moves(d, "locked", "cleared")
    /\ file' = Nobody
    /\ UNCHANGED <<disk, starterVars, build, ended, asked, jobs, told, lock, faults,
                   used, killed>>

\* ... and binds it, which fails if something is there.
Bind(d) ==
    /\ run[d] = "cleared"
    /\ IF file = Nobody
       THEN /\ Moves(d, "cleared", "listening")
            /\ file' = d
            /\ UNCHANGED <<sub, build, ended, asked, jobs, told, lock>>
       ELSE /\ Ends(d)
            /\ UNCHANGED file
    /\ UNCHANGED <<disk, step, own, known, faults, used, killed>>

\* The first refresh is over.
Serve(d) ==
    /\ Moves(d, "listening", "serving")
    /\ UNCHANGED <<disk, starterVars, build, ended, asked, jobs, told, lock, file, faults,
                   used, killed>>

\* A job comes to an end by itself.
JobEnds(d) ==
    /\ \E j \in jobs[d] : jobs' = [jobs EXCEPT ![d] = @ \ {j}]
    /\ UNCHANGED <<disk, starterVars, run, build, ended, asked, told, lock, file, faults,
                   used, killed>>

\* Mutant: the lock is given up when the context ends.
StopUnlocks(d) ==
    /\ asked[d] /\ ~ ended[d]
    /\ ended' = [ended EXCEPT ![d] = TRUE]
    /\ killed' = killed \cup jobs[d]
    /\ jobs' = [jobs EXCEPT ![d] = {}]
    /\ lock' = Nobody
    /\ UNCHANGED <<disk, starterVars, run, build, asked, told, file, faults, used>>

\* 100 ms after the request the context ends, and with it the jobs.
Stop(d) ==
    /\ asked[d] /\ ~ ended[d]
    /\ ended' = [ended EXCEPT ![d] = TRUE]
    /\ killed' = killed \cup jobs[d]
    /\ jobs' = [jobs EXCEPT ![d] = {}]
    /\ UNCHANGED <<disk, starterVars, run, build, asked, told, lock, file, faults, used>>

\* A signal ends the context too.
Signal(d) ==
    /\ run[d] # "none" /\ ~ ended[d]
    /\ faults < MaxFaults /\ faults' = faults + 1
    /\ ended' = [ended EXCEPT ![d] = TRUE]
    /\ jobs' = [jobs EXCEPT ![d] = {}]
    /\ UNCHANGED <<disk, starterVars, run, build, asked, told, lock, file, used, killed>>

\* Serve: the end of the context closes the listener, which unlinks the path.
CloseListener(d) ==
    /\ ended[d]
    /\ Moves(d, "serving", "draining")
    /\ file' = Nobody
    /\ UNCHANGED <<disk, starterVars, build, ended, asked, jobs, told, lock, faults,
                   used, killed>>

\* Mutant: a connection lasts until its popup closes.
KeepConns(d) ==
    /\ ended[d]
    /\ \E s \in Starters :
        /\ sub[s] = d /\ step[s] # "popup"
        /\ sub' = [sub EXCEPT ![s] = Nobody]
    /\ UNCHANGED <<disk, step, own, known, daemonVars, lock, file, faults, used, killed>>

\* serveConn: the end of the context closes every connection.
CloseConns(d) ==
    /\ ended[d]
    /\ \E s \in Starters : sub[s] = d
    /\ sub' = [s \in Starters |-> IF sub[s] = d THEN Nobody ELSE sub[s]]
    /\ UNCHANGED <<disk, step, own, known, daemonVars, lock, file, faults, used, killed>>

\* Serve returns when no connection is left; Run gives up the lock last.
Exit(d) ==
    /\ run[d] = "draining"
    /\ \A s \in Starters : sub[s] # d
    /\ Ends(d)
    /\ UNCHANGED <<disk, step, own, known, file, faults, used, killed>>

\* Power off, SIGKILL: the socket file stays.
Crash(d) ==
    /\ run[d] # "none"
    /\ faults < MaxFaults /\ faults' = faults + 1
    /\ Ends(d)
    /\ UNCHANGED <<disk, step, own, known, file, used, killed>>

\* The plugin is rebuilt.
Rebuild ==
    /\ disk < MaxBuild /\ disk' = disk + 1
    /\ UNCHANGED <<starterVars, daemonVars, lock, file, faults, used, killed>>

-----------------------------------------------------------------------------
\* herdr was started, and its start-up hook runs a daemon, or it was running
\* already when the plugin was linked.  Either way an earlier daemon may have
\* left its socket.
Init ==
    /\ disk = 1
    /\ step = [s \in Starters |-> "idle"]
    /\ own = [s \in Starters |-> 0]
    /\ sub = [s \in Starters |-> Nobody]
    /\ \E hooked \in Daemons \cup {Nobody} :
        /\ run = [d \in Daemons |-> IF d = hooked THEN "started" ELSE "none"]
        /\ build = [d \in Daemons |-> IF d = hooked THEN 1 ELSE 0]
    /\ ended = [d \in Daemons |-> FALSE]
    /\ asked = [d \in Daemons |-> FALSE]
    /\ jobs = [d \in Daemons |-> {}]
    /\ lock = Nobody
    /\ file \in Daemons \cup {Nobody}
    /\ faults = 0
    /\ used = {} /\ killed = {}
    /\ known = [s \in Starters |-> {}]
    /\ told = [d \in Daemons |-> {}]

Ensure(s) ==
    \/ Ping(s) \/ PingFails(s) \/ List(s) \/ ListFails(s) \/ Shutdown(s)
    \/ WaitGone(s) \/ Spawn(s) \/ Poll(s) \/ PollFails(s) \/ Done(s)

Popup(s) == Subscribe(s) \/ Submit(s) \/ Close(s)

Run(d) ==
    \/ Lock(d) \/ Conflict(d) \/ Clear(d) \/ Bind(d) \/ Serve(d) \/ Stop(d)
    \/ CloseListener(d) \/ CloseConns(d) \/ Exit(d)

Next ==
    \/ \E s \in Starters : Open(s) \/ Ensure(s) \/ Popup(s)
    \/ \E d \in Daemons :
        Run(d) \/ JobEnds(d) \/ RunFails(d) \/ Signal(d) \/ Crash(d)
    \/ Rebuild

(***************************************************************************)
(* Processes are scheduled.  The rest is said of users: they open the       *)
(* manager again, which is the only retry there is, and see jobs to their   *)
(* end.  A popup may stay open forever.                                     *)
(***************************************************************************)
Fairness ==
    /\ \A s \in Starters :
        WF_vars(Ensure(s)) /\ WF_vars(Open(s))
    /\ \A d \in Daemons : WF_vars(Run(d)) /\ WF_vars(JobEnds(d))

Spec == Init /\ [][Next]_vars

FairSpec == Spec /\ Fairness

-----------------------------------------------------------------------------
Steps == {"idle", "ping", "list", "shutdown", "gone", "spawn", "poll", "ok",
          "popup", "failed"}

Stages == {"none", "started", "locked", "cleared", "listening", "serving", "draining"}

\* Types; the lock and the jobs are with the daemon that got past the lock, and
\* only a daemon that serves has jobs, is asked to stop or has subscribers.
TypeOK ==
    /\ disk \in Nat
    /\ step \in [Starters -> Steps]
    /\ own \in [Starters -> Nat]
    /\ sub \in [Starters -> Daemons \cup {Nobody}]
    /\ known \in [Starters -> SUBSET Jobs]
    /\ run \in [Daemons -> Stages]
    /\ build \in [Daemons -> Nat]
    /\ ended \in [Daemons -> BOOLEAN]
    /\ asked \in [Daemons -> BOOLEAN]
    /\ jobs \in [Daemons -> SUBSET Jobs]
    /\ told \in [Daemons -> SUBSET Jobs]
    /\ lock \in Daemons \cup {Nobody}
    /\ file \in Daemons \cup {Nobody}
    /\ faults \in Nat
    /\ used \in SUBSET Jobs
    /\ killed \in SUBSET Jobs
    /\ \A d \in Daemons :
        /\ lock = d <=> run[d] \notin {"none", "started"}
        /\ jobs[d] # {} => run[d] = "serving" /\ ~ ended[d]
        /\ asked[d] => run[d] \in {"serving", "draining"}
        /\ \A s \in Starters :
            sub[s] = d => step[s] = "popup" /\ run[d] \in {"serving", "draining"}

\* daemon.go:91: a daemon that listens can be reached at its path, however many
\* others start, fail, crash or end around it: nobody unlinks its socket or
\* binds the path over it.
OwnSocket == \A d \in Daemons : run[d] \in {"listening", "serving"} => file = d

\* Two daemons never touch the store or herdr at once: the jobs and the file
\* of connections have one owner, even while a daemon is being replaced.
OneDaemon ==
    \A d, e \in Daemons :
        (run[d] \notin {"none", "started"} /\ run[e] \notin {"none", "started"}) => d = e

\* docs/design.md 3.1: a shutdown never ends a job that its sender could know
\* of, even if it reaches another daemon than the one that was listed.
SparesKnownJobs == \A d \in Daemons : asked[d] => told[d] \cap jobs[d] = {}

\* README.md: "A rebuilt daemon takes over on the next open once all background
\* jobs have finished, so upgrades leave running commands alive."
UpgradeEndsNoJob == killed = {}

\* The first half of the same sentence: when builds and faults are over, a
\* daemon of the newest build serves for good, though a popup of an older build
\* stays open and though starts fail while the older daemon is still ending.
NewBuildTakesOver ==
    <>[](\E d \in Daemons : Answers(d) /\ build[d] = disk)
=============================================================================
