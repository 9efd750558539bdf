# Formal verification of herdr-machine-manager

herdr-machine-manager is a herdr plugin that manages SSH connections: a resident daemon owns a file
of connections and runs every change as a job, and popups (the TUI) are its clients.
This directory holds TLA+ models of the daemon, of its life as a process, and of the client's view
of it, the TLC configurations that check them, and proofs that hold for instances of any size.
`PROJECT.json` lists runs, mutants, the source lines that each definition models, findings, hazards
and theorems.

## 1. Inventory

| Component | State | Operations | Interacts with |
| --- | --- | --- | --- |
| Job queue, `internal/jobs/queue.go` | `ids`, `jobs`, and per job: state, prompt, input channel, context, done channel | `Submit`, `Input`, `Cancel`, `List`; a goroutine per job | the daemon submits; hooks call back into the daemon |
| PTY execution, `internal/jobs/exec.go` | pending line, waiting flag, timers, the command's process group | the select loop, the cancellation callback | reports lines and prompts to the queue, takes replies from it |
| Reconciliation, `internal/daemon/connections.go` | none of its own | match store and herdr's list, record ids, adopt | reads herdr, reads and writes the store |
| Daemon, `internal/daemon/daemon.go`, `jobspecs.go` | cached connections, revision, error; locks `reload`, `submitMu`, `mu` | one handler per request, refresh, poll every two seconds, job hooks | clients by requests and events, herdr by CLI commands |
| Store, `internal/store` | the connections file and its copy in memory | `List`, `Get`, `Put`, `Delete` | handlers, jobs, reconciliation |
| IPC server, `internal/ipc/server.go` | subscribers, each with a bounded buffer | `Broadcast`, subscription, one request per connection | daemon, clients |
| Client model, `internal/ui/model.go`, `ui.go`, `commands.go` | connections, jobs, output, message counters | `Update` for each message, stream, requests | daemon |
| Prompt dialog and pane, `internal/ui/prompt.go`, `internal/daemon/attention.go` | open dialog, dismissed questions; which questions opened a pane | `syncPrompt`, `keyPrompt`, `requestAttention` | client model, subscribers, herdr |
| Lifecycle, `internal/daemon/spawn.go`, `daemon.go` (`Run`, `shutdown`), `internal/ipc/server.go` (`Listen`, `Serve`) | socket, lock file, the build of each process | `Ensure`, `spawn`, shutdown request, listening and draining | actions, panes and daemons of different builds |
| Keys, `internal/ui/keys.go` | the overlay that has the focus | opening, answering, setting aside, typing, quitting | client model, dialog |
| Views, ssh configuration, plugin configuration, prompt classification, entry point | - | layout, parsing | - |

What is hard:

- **Concurrency.** Each request runs on a goroutine of its own, each job too, and refreshes are
  made by the poll, by handlers and by job hooks. The store, the queue, the cache and the reload
  step have separate locks, and almost every operation is several critical sections.
- **Two copies of the truth.** The store says what the user configured, herdr says what is
  active; they are matched by an id that `machine add` does not report.
- **Failure.** Commands, `machine list` and file writes fail; the daemon may die between a
  command and the write that records it, and a newer build replaces it.
- **Ordering at the client.** Events are dropped when a subscriber is slow, replies overtake
  events, and a replaced daemon starts its counters again.
- **A terminal as an interface.** Whether output is a question is decided from silence and from
  text that arrives in arbitrary pieces.

What makes each component correct:

- queue: order within a connection, exact retention, no lane that hangs;
- execution: questions are shown, declined questions are answered once and never shown, a prompt
  lives as long as its line, cancelling ends the command;
- reconciliation: one connection per machine, no machine taken from its holder or adopted beside a
  match, idempotence;
- daemon: the three copies (store, herdr, cache) agree once things settle, edits and deletions
  last, no duplicates, every request is answered;
- client: replies undo nothing, and the view catches up;
- dialog and pane: a waiting question reaches a dialog or a toast, drafts and the focus stay with the user,
  and the modal pane goes away when nothing is asked;
- lifecycle: one daemon at a time, reachable at its own socket, a new build takes over, and no job is lost
  to it.

## 2. Plan

Done, in this order: `JobLanes` and `JobQueue` with `JobQueueProofs`; `Reconcile`; `Daemon`, which
composes both; `Exec`; `ClientSync`; `Lifecycle` with `LifecycleProofs`; `Prompts`; then the proofs of the
older modules: `SequenceLemmas`, `ExecProofs`, `ReconcileProofs`, `DaemonProofs`, `PromptsProofs`, `ClientSyncProofs`.

Left, in order of what it would add:

1. an abstract execution (a command that asks, is answered and ends) that `Exec` implements, so that
   `JobQueue`'s job body is a promise of the same form as `JobLanes`;
2. that a client that waits never overtakes a refresh, from the bounds of `daemon_patient`: then `EditsStay` would follow
   for it from `EditsKept` as `StoreClaimsUnique` does in `PatientClaimsOnce`; and `AdoptsOnlyOutside` from the same bounds;
3. `ClientSync` and `Prompts` in one module. Today each reduces the other's messages to what its own properties
   read.

Not planned: `internal/sshconfig` and prompt classification as functions (section 8).

## 3. Modules

Operators called mutants in a comment are defective variants of the definition that follows them.
No specification uses them; they show that the properties notice such a defect.

### JobLanes, JobQueue, JobQueueProofs

`JobLanes` is the promise: jobs are numbered as they arrive, a lane serves one job at a time, the
oldest first, and lanes are independent. `JobQueue` is `internal/jobs/queue.go`: a job waits for the
`done` channel of the newest job that the queue *still keeps* for its connection, while finished jobs are
dropped from the same list.

| Code | Model |
| --- | --- |
| `q.ids`, `q.jobs` | `ids`, `jobs` (a set: ids grow, so the order of the slice is that of the ids) |
| `job.State`, `job.Prompt`, `job.ConnID` | `state`, `prompt`, `lane` |
| `st.input` (capacity 1) | `input`, the jobs whose channel is full |
| `st.cancel`, `q.ctx` | `cancelled`, `down`; `CtxErr` is `ctx.Err() != nil` |
| `previous` in `Submit` | `wait`, a set of at most one job |
| `close(st.done)` | `done`; it follows the terminal hook, so a job that is terminal but not done is still reporting |

`Submit`, `Input`, `Cancel` are the public methods; `Skip`, `Start`, `Ask`, `Resume`, `Take`, `Return`, `Close` are
the steps of a job's goroutine; `Stop` ends the daemon's context. The code that a job runs is arbitrary.

### Reconcile, Subsequences, MCReconcile, ReconcileProofs

`Pairing`, `Corrections` and `Adoptions` are `reconcile` as functions of two snapshots: first all
endpoint ids are reserved, then connections without a machine take the first free one with their target and
label. `MCReconcile` applies them to every store and list within its bounds, undisturbed. Loops that keep
some elements of a slice are `At` of `Subsequences`, here as in `Daemon` and `ClientSync`: a sequence by the positions
that are kept, which can be reasoned about, where a sequence by a test cannot (section 7).

### Daemon, DaemonProofs

Handlers (`req`), jobs (`job`) and refreshes (`ref`) with their program counters over the shared store,
cache, queue and herdr. One action is one critical section or one herdr command.

| Code | Model |
| --- | --- |
| `save` | `SaveGet`, `SavePut` (or `SavePutFails`), then `SubmitCheck`, `Enqueue` |
| `act` | `ActGet`, `ActSnapshot`, then `SubmitCheck`, `Enqueue` |
| `submitMu` | `SubmitLockFree`: held from `SubmitCheck` to `Enqueue` |
| `enqueue`'s `Run` | `JobStart` reads the endpoint id; `JobRemove`, `JobAdd`, `JobRename`, `JobDelete` and their failures |
| `refresh` | `RefreshList`, `RefreshLoad`, `RefreshPut` for each write, `RefreshPublish`; `reload` is `ReloadFree` |
| `onJobUpdate` | a job in `"report"` refreshes before its lane goes on |
| `Run` | `Start`, the refresh of `Boot` |
| herdr | a sequence of machines with fresh ids; `ExternalAdd`, `ExternalRemove` are other users |

The queue is `JobLanes`: that `JobQueue` implements it is proved, so the daemon is checked against the
promise, which keeps its state space small. `conns` is `d.conns`. Connection ids are random in the code
and fresh numbers here. `cacheErr`, `revision` and broadcasts are in `ClientSync`; notifications change no
state.

### Exec, ExecProofs

The select loop with the terminal and the command as environment. Text is a sequence of pieces: a newline,
progress, and the pieces of two questions (one that the specification's answers match, one for the user).
A read returns any number of pieces. The idle timer (`Idle`) may expire between any two reads, whether or not output
is waiting to be read: the loop knows of the chunks it took only. `killer` is the callback of the context: SIGTERM, then SIGKILL
unless `Exec` returned. Writing to a terminal that nobody holds may fail or succeed, as operating systems
differ.

### ClientSync, ClientSyncProofs

One client. The daemon's connections are a version number, a job is unfinished or done. `ch` is everything
between `Broadcast` and the client's `Update`. Snapshots, broadcasts and hooks are separate steps from the
changes they report, as in the code. `calls` are requests in flight, served and delivered in any order.
`Restart` replaces the daemon; `Lose` and `Subscribe` are the stream.

### Lifecycle, LifecycleProofs

Processes that come and go: starters, which call `Ensure` (the action, and the panes that stay as a popup),
and daemons. Both kinds of process are names that are used again after their process ended, so any number of
them may follow each other. An executable on disk has a build, which `Rebuild` replaces.

| Code | Model |
| --- | --- |
| `Ensure` | `Ping`/`PingFails`, `List`/`ListFails`, `Shutdown`, `WaitGone`, `Spawn`, `Poll`/`PollFails`: `step` |
| `instanceLock`, `syscall.Flock` | `Lock`, `Conflict`: `lock`, dropped by the system when the process ends |
| `Listen`: remove, then bind | `Clear`, `Bind`: `file`, who was bound to the path, perhaps dead |
| the context of `Run` | `ended`; `Stop` (100 ms after a shutdown request), `Signal` |
| `Serve` returning | `CloseListener`, `CloseConns`, `Exit` when no subscription is left |
| a popup | `Subscribe`, `Submit`, `Close` |

A request is one step. It is answered if the path leads to a daemon that serves; waiting for one that is
not ready is the same as asking later. `Crash` leaves the socket file, `RunFails` and `Conflict` do not
touch it. Which jobs a starter `known` of and which ones a request `told` of are history variables.

### Prompts, PromptsProofs

The questions of jobs on their way to the user, and the answers back: `requestAttention`, herdr's popup, the
dialog, its keys.

| Code | Model |
| --- | --- |
| `job.Prompt`, the hook of an update | `question`, `posting`: first the event, then `RequestAttention` |
| `d.attentionPrompts`, `d.attentionOpening` | `attention`, `opening` with the goroutine's steps |
| `PluginPaneOpen` | `PaneOpens`, or `PaneRefused` and its toast, since herdr shows one popup at a time |
| `HasSubscribers` | `subscribed`, or `lingering`: a closed popup whose connection the daemon still holds |
| `m.prompt`, `m.prompt.pending`, `m.dismissedPrompts`, overlays with text fields | `m.dialog`, `m.sending`, `m.dismissed`, `m.typing` |
| `syncPrompt`, `dismissPrompt`, `keyPrompt`, `promptReplyMsg` | `SyncPrompt`, `DismissPrompt`, `SetAside`/`Answer`, `InputReply` |
| `promptOnly` | `kind = "prompt"`; `Update` quits |
| `m.Update`: `listMsg`, `jobMsg`, `replyMsg`, `reconnectMsg` | `Listed`, `JobUpdated`, `Deliver`, `Reconnect`, with `applyList` as `ApplyList` |
| `refresh` that found a change: `d.revision`, the event's snapshot, the broadcast | `RefreshSet`, `RefreshSnapshot`, `RefreshPost`: `revision`, `listing` |
| a popup that ends | `Quit`: `pane` is `"closing"` if it quit by itself, `"left"` if the user closed it |

Questions are numbered as they come up, while the program knows a question by job and text (`promptKey`); so the
model sees when the program takes one question for another. A list is reduced to the questions in it, and a
request to the set of jobs that an event was `heard` of since, which is what the client's counters
decide. Routine notifications, the draft's text and the answers' text are left out, and so is the user's own
refresh (key `r`), which `ClientSync` has.

A list event replaces all jobs, and its snapshot may be older than job events that the popup received before it
(section 5, late snapshot). It then undoes them, and none of the properties below survives that. They hold of
everything else, and the history `late` says precisely what is excepted: the jobs whose state in the popup is that of a
list event which an event of theirs had overtaken, until the next event of the job or the next list reply. `aside`, what
an up-to-date user set aside, likewise loses the questions that a list event does not contain. The run has the race: without the
exceptions TLC finds each of the five properties violated in it.

## 4. Runs

| Run | Question | Bounds |
| --- | --- | --- |
| `job_queue` | order, retention, refinement, progress | 3 jobs, 2 connections: a lane with two predecessors, and a second lane |
| `reconcile` | what one reconciliation does | stores of 0-3 connections, lists of 0-3 machines, 2 labels, endpoint ids that are missing, dead or shared |
| `daemon_concurrent` | safety under interleaving | 2 requests of any kind, 2 labels, 2 targets, no failures |
| `daemon_patient` | safety with failures and a crash | 3 requests of any kind, one unfinished at a time, 1 failed command of a job, 1 crash; no failing list or write, no change by others |
| `daemon_settles` | convergence and answers | 1 request, 1 failure of any kind, 1 external change, 1 crash |
| `daemon_forget` | expected violation, section 5 | 1 request |
| `exec` | prompts and cancellation | 3 writes, 2 replies, lines of at most 4 pieces, a declined question of 3 |
| `client_sync` | the client's view | 1 job, 1 change, 1 forced refresh, 1 lost stream or replaced daemon |
| `lifecycle` | one daemon, its socket, its jobs, the hand-over | 2 starters, 2 daemons at a time, 1 job, 2 builds, 1 crash, signal or failed start |
| `lifecycle_upgrade` | expected violation, section 5 | the same |
| `prompts` | dialogs, drafts, the pane | 2 jobs; five scenarios of at most 2 questions with up to 2 popups, 1 answer, 1 lost stream, 1 list event (`MCBudgets`) |
| `prompts_lost` | expected violation, section 5 | the same |

All daemon runs start from a stopped daemon whose store holds one connection, connected or not. Each bound
is a named constant. They are the least for which the mutants and the expected violations show up, enlarged as far as a few
minutes allow: two actors racing for one connection, a machine or a lane appear in
every run that is about them, and a third job, connection or machine lets a second successor interfere. In
`exec` a line of four pieces cuts the beginning of a declined question that follows other text.
In `client_sync` the event buffer is never full; section 5 says what happens when it is. `MaxConns` of
`Daemon` is never reached (`TypeOK` says so). In `lifecycle` names are reused, so the bound is on how many
processes live at a time, never on how many there are: one
daemon can be ending while another starts and a third call of `Ensure` finds neither. In `prompts` each scenario is a way for one question to be mistaken for, hidden by or lost
behind another: the same job asking again, in the same words or not; two jobs at once; a popup that
closes or loses its stream while a question is open; a list event that events of the job cross.

Deadlock is checked except in `exec` (the command is over and `Exec` has returned), in `client_sync` (a client
in step with a daemon where nothing happens any more) and in the `prompts` runs (all questions over, the
popup closed).

Properties worth a word:

- `LanesSpec` is `JobLanes` as a property of `JobQueue`, under the mapping `LanePending`, `LaneServing`.
- `CacheClaimsUnique` holds with concurrent requests. `StoreClaimsUnique` is checked with one request only:
  with two, a save that races a forget can put a record back whose machine is claimed anew by then, and of two
  saves of one connection the later can undo what a refresh relied on when it adopted a machine; the
  next refresh repairs it. `StoreClaimsOnce` (section 7) proves that nothing else can do it.
- `AdoptsOnlyOutside` holds in `daemon_patient` for a client that makes a request only when nothing
  else is unfinished, whatever command of a job fails and wherever the daemon dies. It excepts machines whose connection
  was forgotten (`ForgottenStaysForgotten`, section 5). Two restrictions of the run are real ones: if a `machine list` fails,
  the cache may be empty, or a machine just added not paired yet, and a connect or an edit that follows leaves a machine
  that is adopted; a failed write does the same. With requests that overlap it fails without any fault (section 5).
- `EditsStay` there says that pairing writes endpoint ids and nothing else: no save comes between the read and the write of
  a refresh in that run. With concurrent requests it fails (section 5), and `EditsKept` (section 7) proves that nothing
  but a save that overtakes a refresh can break it.
- `QuestionShown` demands the question itself, not just any prompt, and excepts a line of which something was shown before the
  question came or was read: the code then keeps the older prompt (section 5).
- `Converges` says that even with a `machine add` waiting for an answer forever the rest settles.
- `CancelEnds` covers every cancellation before the end of the output, whatever the command does later.
- `ReplyNeverUndoes` is stated as long as the daemon was not replaced: a reply of the new daemon may well undo what
  the old one said.
- `SparesKnownJobs` is about jobs that the list of the one who asks to shut down could contain. A job submitted later
  is not protected: that is `UpgradeEndsNoJob`, which the code does not keep.
- `NewBuildTakesOver` holds although the hand-over regularly fails at first (section 5): it is the user who opens
  the manager again.
- `ShowsQuestions` speaks of a popup that has processed everything sent to it: it knows what each job asks that is
  not `late`, and shows one of the questions it knows unless all were set aside or the user types.
- `RequestIsSeen` is violated by a pane that closes by itself before its question was known to it and something is
  shown: only the user's closing it (`"left"`), the end of the question and a list event that set the job back are excepted.
- `FocusIsKept` excepts only `Recall`, the keys that ask for the dialog. That the *next* question opens in the
  place of one that ended is wanted (`prompt.go:61-64`) and therefore not excluded.

## 5. Where the code differs from what is said of it

Three runs show a violation each; the others were found with the same modules under the bounds given.

- `daemon_forget`: a refresh takes herdr's list before a forget job's `machine remove` and reads the store
  after its `Delete`. The machine is gone, pairs with nothing and is adopted: the connection is back.
- `lifecycle_upgrade`: `Ensure` lists the jobs, asks to shut down, and 100 ms later the context ends. A job
  that a popup submits in between is cancelled with the daemon.
- `prompts_lost`: a popup closes and a question comes up before the daemon has noticed. It counts as attended:
  no pane, no toast of `attention.go`, and no second attempt.
- Saves (`EditsStay` under the bounds of `daemon_concurrent`): a refresh reads the store, a save is written, and the refresh writes its older record
  back. Label, target and session of the save are lost, though it was accepted.
- Repeated connects (`AdoptsOnlyOutside` under the bounds of `daemon_concurrent`): a connect reads the cache while another one runs, and passes the check for unfinished
  work when that one has just ended. The machine is added twice and the second adopted. A waiting client gets there
  by a failed `machine list`, after which the cache says that nothing is connected.
- Full buffer (`ConnectionsCatchUp` of `client_sync` with `Buffer = 1`): a dropped list event is not noticed by the client, and nothing makes it read again.
- Late snapshot (`client_sync`: `RefreshSnapshot`, `JobFinish` and `JobPost`, then `RefreshPost`; `prompts`:
  `RefreshSnapshot`, `Broadcast`, `RefreshPost`): a list event can hold a job as it was before the job event that the client received
  already, and the client believes it. In a popup it hides a question that is asked, with its draft, forgets that it was set
  aside, or brings back one that is over; a prompt pane closes before it showed anything, or stays.
- A question on a line already shown (`exec`: `Idle` after progress without an end of line, then `CmdAsks` and `Reads`): the
  timer reports a line once (`exec.go:153`), so the prompt stays what it was and the question is never put to the user.
- Hand-over (`Lifecycle`: `WaitGone`, `Spawn`, `Conflict` before `Exit`): a closed listener is taken for the
  end of the old daemon, which still holds the lock while its connections drain. The new one exits, and `Ensure`
  fails after five seconds.
- Answers name their job only (`Prompts`: `Withdraw` and `Ask` between `Answer` and `ServeInput`): the next question
  of the job takes the answer, and the late reply sets aside a dialog that reads the same.

## 6. Fairness

- `JobQueue`: job goroutines are scheduled, and a job whose context ended returns. The latter is what `Exec`'s
  SIGKILL is for (`CancelEnds`); it does not hold for a command that closes its terminal and works
  on, after which a cancellation has no effect (`Eof`). Commands other than `machine add` run under
  `exec.CommandContext`, which kills them. Nothing is assumed of a command that is not cancelled, of
  answers or of users.
- `Daemon`: goroutines are scheduled, a dead daemon is started again (the next popup or action does), and
  whoever waits for the reload mutex gets it, though others keep taking it: Go's mutexes hand over to a waiter that starved for a
  millisecond, hence strong fairness. `machine list` ends within ten seconds by its timeout. Job
  commands need not end.
- `Exec`: its goroutines are scheduled and its timers expire; nothing is assumed of the command.
- `ClientSync`: both processes are scheduled, a lost stream is reopened every second, requests are answered.
- `Lifecycle`: processes are scheduled and the kernel answers or refuses a connection, so the steps of `Ensure` and
  `Run` happen. Of users it is assumed that they open the manager again after a failure and see jobs to
  their end; a popup may stay open forever. Crashes, signals and builds are bounded, so they come to an end.
- `Prompts`: the daemon's goroutines, the popup's and herdr run on. One condition on their disjunction is
  enough, since their steps come to an end when nobody asks or types. Nothing is assumed of users and commands.

## 7. Proofs

`JobQueueProofs` proves for any connections, questions and number of jobs, from the three named
assumptions of `JobQueue` (`MaxJobs` is a positive natural number, `NoConn` is not a connection, `NoQuestion` is not a
question):

- `TypeCorrect`: `[]TypeOK`
- `RunsInSubmissionOrder`: `[]SubmissionOrder`
- `KeepsExactly`: `[]Retention`
- `ImplementsLanes`: `Spec => LanesSpec`

All rest on `Invariance`, the inductive invariant `IInv`. `SubmissionOrder` alone is not inductive: a job
waits for one predecessor only, so that all earlier ones are done has to follow from what is known of
that one. `WaitCovers` says so: every earlier job of the lane is done, or is the awaited one, or comes before
it and so is covered by the order of the awaited one. That is true at submission because the newest job of a lane
is always kept (`HasNewest`), which needs `Retention`, since a terminal update deletes jobs, and
`DoneTerminal`, since a done job must have ended. `WaitsBack` says that a job waits for an earlier job of its own
lane. Each has a lemma per kind of action, and the refinement maps `Submit` to `Arrive`, `Skip` and `Start` to
`Serve`, `Close` to `Finish`, and everything else to stuttering.

`SequenceLemmas` holds what the proofs share. `HasLeast` takes the place of induction over a length or a number: every
non-empty set of naturals has a least element, which follows from the library's fact that finite sets are well
founded under inclusion. `NthExists` and `AtKeeps` say that `At` returns exactly the elements at the given positions, each
once; `MCClientSync` compares `At` with `SelectSeq`, which the provers do not expand, on all short sequences.

`LifecycleProofs` proves, for any number of starters, daemons, jobs, builds and faults, from `NobodyAssumption` (the
name for no process is none) and `LifecycleBounds` (the bounds are numbers): `TypeCorrect`
(`[]TypeOK`), `SocketIsOwn` (`[]OwnSocket`), `SingleInstance` (`[]OneDaemon`) and `KnownJobsSpared` (`[]SparesKnownJobs`). The
invariant ties the lock to the stage: exactly the daemons past the lock hold it, so at most one unlinks or binds the
path. That a request spares the jobs its sender knew of does not follow from the sender's list alone, since
another daemon may serve the request; `KnownOver` carries it: what a sender or a request knows of is unfinished in no
daemon.

`ExecProofs`, for any output, answers and size of reads, from `SizesAssumption` and `TextsAssumption`: `TypeCorrect`,
`ShowsOnlyOthers` (`[]OnlyOthersShown`) and `PromptFollowsLine` (`PromptLivesWithLine`). The invariant adds
`Unrecognized`: whenever the loop waits, neither its line nor what is shown contains a question that the
specification's answers match. `AnswersOnce` (`[]DeclinedOnce`) also needs `PatternAssumption`: what the answers match ends with
a piece that nothing but the question brings, as both patterns of `jobspecs.go` end with the question mark of their
question. `Counted` counts these pieces where they are: answered, in the terminal, or on the line while the loop waits
for output; together they are never more than the questions asked. `MarksJoin` and `MarksSplit` follow them through reads.

`ReconcileProofs`, for stores and lists of any length whose machines have distinct ids (`Distinct`): `PairsOneToOne`,
`ClaimsExistOnce`, `HolderKeeps`, `AdoptedIsStranger`, `ReconcilesOnce` and `AdoptsUnclaimed`, about the operators.
`PairingUnfolds` shows first that the recursion defines a matching; `FallbackIsExhaustive` that a connection is left
without a machine only if all that are alike were taken. From them follow, for any bounds, the four properties that the
run `reconcile` checks: `AgreesOneToOne` (`OneToOne`), `KeepsHolders` (`HoldersKeep`), `AdoptsStrangers`
(`AdoptsOnlyStrangers`), `SettlesOnce` (`Settles`). Their invariant is that a store that was reconciled agrees with the list
(`Claimed`), and `ClaimedStays` that such a store is left as it is. Assumed are `IdsAssumption` (an empty id is none that
is ever assigned) and that the bounds are numbers.

`DaemonProofs`, for any number of requests, connections, machines, failures, changes by others and crashes, from
`BoundsAssumption`, `IdsAssumption` and `WorldsAssumption` (what a daemon finds are two lists numbered as their records were
added):

- `SubmissionsCoalesce` (`[]Coalesced`). `submitMu` has one holder between `SubmitCheck` and `Enqueue`, and what it checked
  stays true there although refreshes and jobs go on (`LockHeld`). `JobsNumbered` shows that numbers of jobs do not run
  out: a handler submits at most once.
- `ShownClaimsUnique` (`[]CacheClaimsUnique`). The cache is what the last refresh had in hand, so the invariant `KInv`
  is about refreshes: what is to be shown and what is still to be adopted are claims of different machines
  (`Refreshes`), which the facts of `ReconcileProofs` give when the store is read, and no later write of others takes
  away.
- `RemovedBeforeAdded` (`[]ReconnectReplaces`). herdr assigns ids once (`IsList`, `Counters`), so an endpoint that a job knows and
  has removed is never held again.
- `StoreClaimsOnce`: `StoreClaimsUnique /\ Spec /\ [](SavesApart /\ SavesStored) => []StoreClaimsUnique`. A store that claims
  each machine once goes on to, as long as no two saves of one connection are about to write together (`SavesApart`) and
  no connection is forgotten between the two halves of a save of it (`SavesStored`). Neither hypothesis can be dropped: with two
  requests TLC finds a counterexample to each half alone. The invariant `CInv` follows a claim through everybody who
  has read it: what a refresh is about to write is claimed by nobody else, and the claim that it overwrites is of a
  machine that no list still has (`Writes`, `Live`); the list that it read has all machines that are claimed and held (`Reads`);
  what a save read is still stored, or its machine is gone for good (`Saves`). That the matching decides so when the
  store is read is `LoadClaims`, from `HolderKeeps`, `ClaimsExistOnce` and `AdoptsUnclaimed` of `ReconcileProofs`.
- `PatientClaimsOnce`: `(MaxOpen <= 1 \/ MaxRequests <= 1) /\ StoreClaimsUnique /\ Spec => []StoreClaimsUnique`. Where requests
  do not overlap the two hypotheses hold by themselves (`Patient`): nobody is at work before a handler submits its job.
  This covers the run `daemon_settles`, with any number of machines, failures, crashes and changes by others.
- `EditsKept`: `Spec /\ [][\A h \in Requests : ~ Overtakes(h)]_vars => EditsStay`, where `Overtakes(h)` is the write of a save
  of a connection that some refresh has read and has yet to correct. This is the one interleaving behind the
  counterexample of section 5. The invariant `Aligned` says that what refreshes still have to write has the settings that
  are stored, and, since a refresh can put back a connection that was forgotten under it, that two refreshes that have yet to write
  one connection agree on its settings.
- `TypeCorrect`: `[](nextConn <= MaxConns + 1 => TypeOK)`. `MaxConns` is a bound of the model, not of the code; that it
  is never reached is left to the runs. `Lanes` relates a job's program counter to the queue.

`PromptsProofs`, for any jobs, texts and budgets, from `BudgetsAssumption`: `TypeCorrect` and `Shown` (`[]ShowsQuestions`).
`ShowsQuestions` says what holds when all news arrived; the invariant says where the news are. Of each job that told its
last update to the popup, `Learns` says that its question is in the newest event of the subscription, or in the list to
be asked for, asked for or replied, unless an event came since the request, or else is known already, unless a list event
that the update had overtaken set the job back (`late`). That list event is followed from its snapshot on: `passed` are
the jobs whose events went past it.

`DraftKept` (`DraftSurvives`: of list events those in which the question is asked) and `FocusKept` (`FocusIsKept`: of
questions set aside those that no list event since lacked) need an invariant about the past: questions are not asked twice, so a question that a job still asks and the popup knows is in every reply that the
popup will believe (`Current`), and one that was set aside has no event under way (`Stays`).

`ClientSyncProofs`, for any number of jobs, changes, lost streams and restarts and any buffer that holds an event
(`BoundsAssumption`): `TypeCorrect` (`[]TypeOK`), `ReplyKept` (`ReplyNeverUndoes`) and `Rereads` (`RereadAgrees`). The invariant says
of every message and reply under way how it compares with the daemon: `News`, that what events tell is still so or
over by now; `Versions`, that a higher revision has the newer connections; `Revisions`, that once the client knows of a
reconnection it holds nothing newer than the daemon. For replies that the client will believe it says what they hold of jobs
that were heard of (`Holds`, `Passed`), unless an event came since the request. `Ordered` is needed because applying a
reply removes the mark of an event: an older reply that is still under way then is one that was overtaken.

Only model-checked:

- every liveness property (`Answered`, `Converges`, `CancelEnds`, `QuestionShown`, ...): fairness and `ENABLED` are beyond
  the prover;
- `AdoptsOnlyOutside`, which holds of the run that checks it and not of any bounds (sections 4 and 5), and that under
  those bounds no save overtakes a refresh, which `EditsKept` has as a hypothesis;
- that `MaxConns` is large enough (`TypeOK` of `Daemon`).

## 8. Not modelled

Output text and its retention, notifications, the error line and status line, cursor, forms and layout, the
wire format and its errors, the parsing of ssh and plugin configuration, and prompt classification: functions
of their input, sequential and without shared state, whose hard part is text that a model would have to
repeat character by character. A file write is
atomic by `rename` and taken as such. herdr is modelled by what the code relies on: a list of machines, fresh
ids, and an error for unknown ids.
