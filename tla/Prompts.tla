------------------------------- MODULE Prompts -------------------------------
(***************************************************************************)
(* How the questions of waiting jobs reach the user and their answers the   *)
(* jobs: internal/daemon/attention.go (opening the prompt pane),            *)
(* internal/ui/prompt.go (the dialog, the pane that shows questions only),  *)
(* model.go, keys.go and ui.go (what dialogs follow), jobs/queue.go (Input).*)
(*                                                                          *)
(* Questions are numbered in the order they are asked.  The program knows   *)
(* them by job and text only (promptKey); the number is what the model uses *)
(* to tell apart two questions that read the same.                          *)
(*                                                                          *)
(* Herdr shows one popup at a time: the manager or the prompt pane.  Lists  *)
(* and events are as in ClientSync, reduced to the questions; all jobs are  *)
(* in the list throughout, and its order is that of their numbers.          *)
(*                                                                          *)
(* A refresh that found a change takes the snapshot for its list event      *)
(* after the locks were released: a job's event may overtake it, and the    *)
(* list then sets the job back in a popup that takes it for the newest      *)
(* (model.go:34).  The properties hold except where that happened, which    *)
(* the history variable late tells.                                         *)
(***************************************************************************)
EXTENDS Naturals, Sequences

CONSTANTS
    Jobs,               \* numbers, in queue order
    Texts,              \* what a question may read
    Budgets             \* bounds: the questions that may come up, in order, and
                        \* how many popups, answers, lost streams and changes
                        \* of the connections there are

ASSUME BudgetsAssumption ==
    /\ Jobs \subseteq Nat \ {0}
    /\ \A b \in Budgets :
        /\ b.questions \in Seq([job : Jobs, text : Texts])
        /\ {b.popups, b.answers, b.breaks, b.lists} \subseteq Nat

\* The numbers of the questions.
Questions == UNION {DOMAIN b.questions : b \in Budgets}

VARIABLES
    budget,             \* what may still happen
    asked,              \* how many of the questions came up
    question,           \* the question each job waits on, 0 if it does not
    answer,             \* st.input: whether an answer is in the job's channel
    posting,            \* what is left of the hook of each job's last update
    revision,           \* d.revision
    listing,            \* a refresh that found a change: [step, list, passed]
    attention,          \* d.attentionPrompts: a set of at most one text per job
    opening,            \* d.attentionOpening, and its goroutine: [step, question]
    pane,               \* the popup: "none", "running", "closing", or "left" if the
                        \* user closed it
    kind,               \* "manager" or "prompt"
    subscribed,         \* the popup's subscription
    lingering,          \* that of a closed popup, not noticed by the daemon yet
    ch,                 \* messages of the subscription not processed yet
    call,               \* the list request in flight: [step, revision, list, heard]
    inputs,             \* answers in flight: [question, step, live]
    m,                  \* the popup's model
    aside,              \* history: questions set aside by a user who was up to date
    late                \* history: jobs whose state in the popup is that of a list
                        \* event that an event of theirs had overtaken

jobVars == <<asked, question, answer, posting, revision, listing>>
attentionVars == <<attention, opening>>
paneVars == <<pane, kind, subscribed, lingering>>
clientVars == <<ch, call, m>>
popupVars == <<paneVars, clientVars>>
history == <<aside, late>>
vars == <<budget, jobVars, attentionVars, popupVars, inputs, history>>

\* promptKey: a question as the program knows it.
Key(q) == budget.questions[q]

NoList == [j \in Jobs |-> 0]
NoCall == [step |-> "none", revision |-> 0, list |-> NoList, heard |-> {}]
NewCall == [NoCall EXCEPT !.step = "asked"]

\* Whose events were broadcast since the list's snapshot is passed, a history.
NoListing == [step |-> "none", list |-> NoList, passed |-> {}]

NotOpening == [step |-> "none", question |-> 0]

-----------------------------------------------------------------------------
(* The daemon: a job's questions *)

\* An update of the job, whose hook runs before the job goes on.
JobUpdate(j, q) ==
    /\ posting[j] = "none"
    /\ question' = [question EXCEPT ![j] = q]
    /\ posting' = [posting EXCEPT ![j] = "broadcast"]

\* Output stopped on a question.
Ask(j) ==
    /\ asked < Len(budget.questions) /\ Key(asked + 1).job = j
    /\ question[j] = 0
    /\ asked' = asked + 1
    /\ JobUpdate(j, asked + 1)
    /\ UNCHANGED <<budget, answer, revision, listing, attentionVars, popupVars, inputs, history>>

\* The question's line ended, or the job did.
Withdraw(j) ==
    /\ question[j] # 0
    /\ JobUpdate(j, 0)
    /\ UNCHANGED <<budget, asked, answer, revision, listing, attentionVars, popupVars, inputs,
                   history>>

\* The job writes the answer to its terminal, waiting or not.
TakeAnswer(j) ==
    /\ answer[j] /\ posting[j] = "none"
    /\ answer' = [answer EXCEPT ![j] = FALSE]
    /\ IF question[j] # 0 THEN JobUpdate(j, 0) ELSE UNCHANGED <<question, posting>>
    /\ UNCHANGED <<budget, asked, revision, listing, attentionVars, popupVars, inputs, history>>

\* onJobUpdate: the event first.
Broadcast(j) ==
    /\ posting[j] = "broadcast"
    /\ posting' = [posting EXCEPT ![j] = "attend"]
    /\ ch' = IF subscribed
             THEN Append(ch, [kind |-> "job", job |-> j, question |-> question[j]]) ELSE ch
    /\ listing' = IF listing.step = "post" THEN [listing EXCEPT !.passed = @ \cup {j}]
                  ELSE listing
    /\ UNCHANGED <<budget, asked, question, answer, revision, attentionVars, paneVars, call,
                   m, inputs, history>>

\* A refresh found a change, or was forced, and has the reload lock until its
\* event is out.
RefreshSet ==
    /\ listing.step = "none"
    /\ budget.lists > 0 /\ budget' = [budget EXCEPT !.lists = @ - 1]
    /\ revision' = revision + 1
    /\ listing' = [listing EXCEPT !.step = "set"]
    /\ UNCHANGED <<asked, question, answer, posting, attentionVars, popupVars, inputs, history>>

\* d.mu was released: the snapshot for the event is taken later.
RefreshSnapshot ==
    /\ listing.step = "set"
    /\ listing' = [step |-> "post", list |-> question, passed |-> {}]
    /\ UNCHANGED <<budget, asked, question, answer, posting, revision, attentionVars, popupVars,
                   inputs, history>>

\* And broadcast later still.
RefreshPost ==
    /\ listing.step = "post"
    /\ listing' = NoListing
    /\ ch' = IF subscribed
             THEN Append(ch, [kind |-> "list", revision |-> revision,
                              list |-> listing.list, passed |-> listing.passed]) ELSE ch
    /\ UNCHANGED <<budget, asked, question, answer, posting, revision, attentionVars, paneVars,
                   call, m, inputs, history>>

HasSubscribers == subscribed \/ lingering

\* requestAttention: at most one pane, and one attempt, for a question.
RequestAttention(j) ==
    /\ posting[j] = "attend"
    /\ posting' = [posting EXCEPT ![j] = "none"]
    /\ LET q == question[j]
           mark == IF q = 0 THEN {} ELSE {Key(q).text}
           attempt == mark # {} /\ mark # attention[j] /\ opening.step = "none" /\ ~ HasSubscribers
       IN  /\ attention' = [attention EXCEPT ![j] = mark]
           /\ opening' = IF attempt THEN [step |-> "open", question |-> q] ELSE opening
    /\ UNCHANGED <<budget, asked, question, answer, revision, listing, popupVars, inputs, history>>

\* The questions of a function from jobs.
Waiting(questions) == {questions[j] : j \in Jobs} \ {0}

\* A popup starts; Init's request is its first.
Starts(what) ==
    /\ pane = "none" /\ pane' = "running" /\ kind' = what
    /\ budget.popups > 0 /\ budget' = [budget EXCEPT !.popups = @ - 1]
    /\ call' = NewCall
    /\ aside' = {} /\ late' = {}

\* PluginPaneOpen succeeds: the prompt pane starts.
PaneOpens ==
    /\ opening.step = "open"
    /\ Starts("prompt")
    /\ opening' = [opening EXCEPT !.step = "opened"]
    /\ UNCHANGED <<jobVars, attention, subscribed, lingering, ch, m, inputs>>

\* It fails, as it must while there is a popup: a toast for all that wait.
PaneRefused ==
    /\ opening.step = "open"
    /\ opening' = [opening EXCEPT !.step = "refused"]
    /\ UNCHANGED <<budget, jobVars, attention, popupVars, inputs, history>>

\* The deferred end of the goroutine.
OpeningEnds ==
    /\ opening.step \in {"opened", "refused"}
    /\ opening' = NotOpening
    /\ UNCHANGED <<budget, jobVars, attention, popupVars, inputs, history>>

\* job.input: whatever the job asks by now takes the answer.
ServeInput(input) ==
    /\ input.step = "sent"
    /\ LET j == Key(input.question).job
           accepted == question[j] # 0 /\ ~ answer[j]
       IN  /\ answer' = [answer EXCEPT ![j] = @ \/ accepted]
           /\ inputs' = (inputs \ {input}) \cup
                 IF input.live THEN {[input EXCEPT !.step = IF accepted THEN "ok" ELSE "error"]}
                 ELSE {}
    /\ UNCHANGED <<budget, asked, question, posting, revision, listing, attentionVars, popupVars,
                   history>>

\* The daemon notices that a popup's connection is gone.
SubscriptionEnds ==
    /\ lingering
    /\ lingering' = FALSE
    /\ UNCHANGED <<budget, jobVars, attentionVars, pane, kind, subscribed, clientVars,
                   inputs, history>>

\* connections.list.
ServeList ==
    /\ call.step = "asked"
    /\ call' = [call EXCEPT !.step = "answered", !.revision = revision, !.list = question]
    /\ UNCHANGED <<budget, jobVars, attentionVars, paneVars, ch, m, inputs, history>>

-----------------------------------------------------------------------------
(* The popup's model *)

NoModel ==
    [revision |-> 0, loaded |-> FALSE, questions |-> NoList,
     dialog |-> 0, sending |-> FALSE, typing |-> FALSE, dismissed |-> {}]

\* The question of the job that is first in the queue.
First(questions) == CHOOSE q \in questions : \A r \in questions : Key(q).job <= Key(r).job

OpenPrompt(model, q) == [model EXCEPT !.dialog = q, !.sending = FALSE]

\* Mutant: the next question opens under the user's typing.
SyncUnderTyping(model) ==
    LET waiting == Waiting(model.questions)
        keys == {Key(q) : q \in waiting}
        next == {q \in waiting : Key(q) \notin model.dismissed}
        kept == [model EXCEPT !.dismissed = @ \cap keys]
    IN  IF model.dialog # 0 /\ Key(model.dialog) \in keys THEN kept
        ELSE IF next # {} THEN OpenPrompt(kept, First(next))
        ELSE [kept EXCEPT !.dialog = 0, !.sending = FALSE]

\* Mutant: what was set aside stays so when the question is gone.
SyncKeepsDismissed(model) ==
    LET waiting == Waiting(model.questions)
        next == {q \in waiting : Key(q) \notin model.dismissed}
    IN  IF model.dialog # 0 /\ Key(model.dialog) \in {Key(q) : q \in waiting} THEN model
        ELSE IF next # {} /\ ~ model.typing THEN OpenPrompt(model, First(next))
        ELSE [model EXCEPT !.dialog = 0, !.sending = FALSE]

\* syncPrompt: a dialog stays as long as its question is asked; otherwise the
\* first question that was not set aside is next, unless the user types.
SyncPrompt(model) ==
    LET waiting == Waiting(model.questions)
        keys == {Key(q) : q \in waiting}
        next == {q \in waiting : Key(q) \notin model.dismissed}
        kept == [model EXCEPT !.dismissed = @ \cap keys]
    IN  IF model.dialog # 0 /\ Key(model.dialog) \in keys THEN kept
        ELSE IF next # {} /\ ~ model.typing THEN OpenPrompt(kept, First(next))
        ELSE [kept EXCEPT !.dialog = 0, !.sending = FALSE]

\* dismissPrompt
DismissPrompt(model) ==
    SyncPrompt([model EXCEPT !.dismissed = @ \cup {Key(model.dialog)},
                             !.dialog = 0, !.sending = FALSE])

\* Mutant: the list's jobs replace newer ones.
ListReplaces(model, rev, list, heard) ==
    IF rev < model.revision THEN model
    ELSE SyncPrompt([model EXCEPT !.revision = rev, !.loaded = TRUE, !.questions = list])

\* applyList: a list of an earlier revision is dropped, and a job with an event
\* newer than the request keeps its state.
ApplyList(model, rev, list, heard) ==
    IF rev < model.revision THEN model
    ELSE SyncPrompt([model EXCEPT
            !.revision = rev, !.loaded = TRUE,
            !.questions = [j \in Jobs |-> IF j \in heard THEN @[j] ELSE list[j]]])

\* The process is over; the daemon and herdr notice in their own time.
Quit(state) ==
    /\ pane' = state
    /\ m' = NoModel /\ ch' = <<>> /\ call' = NoCall
    /\ subscribed' = FALSE /\ lingering' = (lingering \/ subscribed)
    /\ inputs' = {[input EXCEPT !.live = FALSE] : input \in {i \in inputs : i.step = "sent"}}
    /\ UNCHANGED <<jobVars, attentionVars, kind>>

\* Mutant: it quits before it knows what is asked.
UpdateUnloaded(model, messages, request, answers) ==
    IF kind = "prompt" /\ model.dialog = 0
    THEN Quit("closing")
    ELSE /\ m' = model /\ ch' = messages /\ call' = request /\ inputs' = answers
         /\ UNCHANGED <<jobVars, attentionVars, paneVars>>

\* Update: the prompt pane quits once it has nothing to show.
Update(model, messages, request, answers) ==
    IF kind = "prompt" /\ model.loaded /\ model.dialog = 0
    THEN Quit("closing")
    ELSE /\ m' = model /\ ch' = messages /\ call' = request /\ inputs' = answers
         /\ UNCHANGED <<jobVars, attentionVars, paneVars>>

-----------------------------------------------------------------------------
(* The popup's life *)

\* The user opens the manager.
OpenManager ==
    /\ Starts("manager")
    /\ UNCHANGED <<jobVars, attentionVars, subscribed, lingering, ch, m, inputs>>

Subscribe ==
    /\ pane = "running" /\ ~ subscribed
    /\ subscribed' = TRUE
    /\ ch' = <<[kind |-> "reconnect"]>>
    /\ UNCHANGED <<budget, jobVars, attentionVars, pane, kind, lingering, call, m,
                   inputs, history>>

Lose ==
    /\ subscribed
    /\ budget.breaks > 0 /\ budget' = [budget EXCEPT !.breaks = @ - 1]
    /\ subscribed' = FALSE /\ ch' = <<>>
    /\ UNCHANGED <<jobVars, attentionVars, pane, kind, lingering, call, m, inputs, history>>

\* The pane is gone for herdr.
PaneGone ==
    /\ pane \in {"closing", "left"}
    /\ pane' = "none"
    /\ UNCHANGED <<budget, jobVars, attentionVars, kind, subscribed, lingering, clientVars,
                   inputs, history>>

-----------------------------------------------------------------------------
(* Messages *)

\* Mutant: a new subscription does not read the list.
ReconnectUnread == Update([m EXCEPT !.revision = 0], Tail(ch), NoCall, inputs)

\* Mutant: a new subscription starts from nothing.
ReconnectForgets == Update([NoModel EXCEPT !.typing = m.typing], Tail(ch), NewCall, inputs)

\* A new subscription: the list is read again, the reply to a request made
\* before is void, and revisions start again.
Reconnect == Update([m EXCEPT !.revision = 0], Tail(ch), NewCall, inputs)

HeardOf(j) == IF call = NoCall THEN NoCall ELSE [call EXCEPT !.heard = @ \cup {j}]

\* Mutant: the dialog does not follow.
JobUpdatedQuietly(event) ==
    Update([m EXCEPT !.questions[event.job] = event.question],
           Tail(ch), HeardOf(event.job), inputs)

\* An event is newer than the list of a request made before it.
JobUpdated(event) ==
    Update(SyncPrompt([m EXCEPT !.questions[event.job] = event.question]),
           Tail(ch), HeardOf(event.job), inputs)

\* A list event is taken for newer than all that came before it: no job keeps
\* its state, and the reply to a request made before is void.
Listed(event) ==
    Update(ApplyList(m, event.revision, event.list, {}), Tail(ch), NoCall, inputs)

\* What the list event leaves of the history, unless it is dropped.
Overtaken(event) ==
    IF event.revision < m.revision THEN UNCHANGED history
    ELSE /\ late' = event.passed
         /\ aside' = {q \in aside : event.list[Key(q).job] = q}

Receive ==
    /\ ch # <<>>
    /\ LET event == Head(ch)
       IN  \/ event.kind = "reconnect" /\ Reconnect /\ UNCHANGED history
           \/ /\ event.kind = "job" /\ JobUpdated(event)
              /\ late' = late \ {event.job} /\ UNCHANGED aside
           \/ event.kind = "list" /\ Listed(event) /\ Overtaken(event)
    /\ UNCHANGED budget

\* No list event arrived since the request was made.
Deliver ==
    /\ call.step = "answered"
    /\ Update(ApplyList(m, call.revision, call.list, call.heard), ch, NoCall, inputs)
    /\ late' = {}
    /\ UNCHANGED <<budget, aside>>

\* promptReplyMsg: it is matched with the dialog by job and text.
InputReply(input) ==
    /\ input.step \in {"ok", "error"}
    /\ Update(IF m.dialog = 0 \/ Key(input.question) # Key(m.dialog) THEN m
              ELSE IF input.step = "ok" THEN DismissPrompt(m)
              ELSE [m EXCEPT !.sending = FALSE],
              ch, call, inputs \ {input})
    /\ UNCHANGED <<budget, history>>

-----------------------------------------------------------------------------
(* Keys *)

UpToDate ==
    /\ subscribed /\ ch = <<>> /\ call = NoCall
    /\ \A j \in Jobs : posting[j] # "broadcast"

\* ctrl+c at any time, esc where it closes the popup, or herdr closes it.
UserQuits ==
    /\ pane = "running"
    /\ Quit("left")
    /\ UNCHANGED <<budget, history>>

SetAside ==
    /\ pane = "running" /\ m.dialog # 0 /\ ~ m.sending
    /\ Update(DismissPrompt(m), ch, call, inputs)
    /\ aside' = IF UpToDate /\ Key(m.dialog).job \notin late
                THEN aside \cup {m.dialog} ELSE aside
    /\ UNCHANGED <<budget, late>>

Answer ==
    /\ pane = "running" /\ m.dialog # 0 /\ ~ m.sending
    /\ Update([m EXCEPT !.sending = TRUE], ch, call,
              inputs \cup {[question |-> m.dialog, step |-> "sent", live |-> TRUE]})
    /\ budget.answers > 0 /\ budget' = [budget EXCEPT !.answers = @ - 1]
    /\ UNCHANGED history

\* The picker or the form opens: keys "a" and "e".
StartTyping ==
    /\ pane = "running" /\ kind = "manager" /\ m.dialog = 0 /\ ~ m.typing
    /\ Update([m EXCEPT !.typing = TRUE], ch, call, inputs)
    /\ UNCHANGED <<budget, history>>

\* esc, or enter in the form.
StopTyping ==
    /\ pane = "running" /\ m.typing /\ m.dialog = 0
    /\ Update(SyncPrompt([m EXCEPT !.typing = FALSE]), ch, call, inputs)
    /\ UNCHANGED <<budget, history>>

\* ctrl+o opens the first question, enter that of the selected connection.
Recall ==
    /\ pane = "running" /\ kind = "manager" /\ m.dialog = 0
    /\ \E q \in Waiting(m.questions) :
        /\ m.typing => q = First(Waiting(m.questions))
        /\ Update(OpenPrompt(m, q), ch, call, inputs)
    /\ UNCHANGED <<budget, history>>

-----------------------------------------------------------------------------
Init ==
    /\ budget \in Budgets /\ asked = 0
    /\ question = [j \in Jobs |-> 0] /\ answer = [j \in Jobs |-> FALSE]
    /\ posting = [j \in Jobs |-> "none"] /\ attention = [j \in Jobs |-> {}]
    /\ opening = NotOpening
    /\ pane = "none" /\ kind = "manager"
    /\ subscribed = FALSE /\ lingering = FALSE
    /\ ch = <<>> /\ call = NoCall /\ inputs = {} /\ m = NoModel
    /\ revision = 1 /\ listing = NoListing
    /\ aside = {} /\ late = {}

Daemon ==
    \/ \E j \in Jobs : TakeAnswer(j) \/ Broadcast(j) \/ RequestAttention(j)
    \/ PaneOpens \/ PaneRefused \/ OpeningEnds \/ SubscriptionEnds
    \/ \E input \in inputs : ServeInput(input)
    \/ ServeList
    \/ RefreshSnapshot \/ RefreshPost

Popup ==
    \/ Subscribe \/ PaneGone \/ Receive
    \/ Deliver
    \/ \E input \in inputs : InputReply(input)

Keys == UserQuits \/ SetAside \/ Answer \/ StartTyping \/ StopTyping \/ Recall

Next ==
    \/ \E j \in Jobs : Ask(j) \/ Withdraw(j)
    \/ Daemon \/ RefreshSet \/ OpenManager \/ Lose \/ Popup \/ Keys

(***************************************************************************)
(* The daemon's goroutines, the popup's and the kernel run on.  Nothing is  *)
(* assumed of the user and of the commands.                                 *)
(***************************************************************************)
Fairness == WF_vars(Daemon \/ Popup)

Spec == Init /\ [][Next]_vars

FairSpec == Spec /\ Fairness

-----------------------------------------------------------------------------
(* Types; a dialog shows a question the popup believes is asked, and every  *)
(* question set aside is one of those.                                      *)
TypeOK ==
    /\ pane \in {"none", "running", "closing", "left"}
    /\ kind \in {"manager", "prompt"}
    /\ pane # "running" => m = NoModel /\ ~ subscribed
    /\ LET keys == {Key(q) : q \in Waiting(m.questions)}
       IN  /\ m.dismissed \subseteq keys
           /\ m.dialog # 0 => Key(m.dialog) \in keys
    /\ m.sending => m.dialog # 0 /\ \E input \in inputs : Key(input.question) = Key(m.dialog)

\* prompt.go:39-43, design.md:280-282: a popup that is up to date shows what the
\* jobs ask.  Whatever popups were opened and streams lost before, and whether
\* it heard of a question from a list or an event: it knows what each job asks,
\* its dialog shows one of these questions (TypeOK), without one every question
\* was set aside, or the user types, and a prompt pane is open for a question
\* only.  Except for a job that a list event set back (model.go:34 says these
\* are in order with the job events).
ShowsQuestions ==
    (pane = "running" /\ UpToDate) =>
        /\ \A j \in Jobs \ late : m.questions[j] = question[j]
        /\ m.dialog = 0 =>
            /\ kind = "manager"
            /\ m.typing \/ {Key(q) : q \in Waiting(m.questions)} \subseteq m.dismissed

Over(q) == question[Key(q).job] # q

\* The next message tells nothing of the question on display, or that it is
\* asked: a list event from before it came up may hide it.
Unrelated(message) ==
    LET j == Key(m.dialog).job
    IN  /\ message.kind = "job" => message.job # j
        /\ message.kind = "list" => message.list[j] = m.dialog

\* prompt.go:12-13: the draft survives background updates.  Replies to list
\* requests, however late, new subscriptions, events of other jobs and lists in
\* which it is asked never take away or replace the dialog of a question that is
\* still asked.
DraftSurvives == [][
    (/\ m.dialog # 0 /\ ~ Over(m.dialog)
     /\ Deliver \/ (Receive /\ Unrelated(Head(ch))))
    => m'.dialog = m.dialog]_vars

\* prompt.go:41-43 and 80-81, design.md:287: the focus stays with the user.  By
\* itself no dialog opens while the user types, and none for a question that
\* was set aside in this popup and is still asked, even over a lost stream; it
\* takes a list event from before the question to forget that.
FocusIsKept == [][
    (/\ m'.dialog \notin {0, m.dialog}
     /\ \/ m.typing /\ m'.typing
        \/ m'.dialog \in aside /\ ~ Over(m'.dialog))
    => Recall]_vars

\* attention.go:12-13, design.md:284-285: the prompt pane closes when nothing is
\* asked any more, without the user, unless a list event that was overtaken
\* brought an ended question back.
PromptPaneCloses ==
    (pane = "running" /\ kind = "prompt" /\ Waiting(question) = {})
        ~> \/ pane # "running" \/ Waiting(question) # {}
           \/ \E j \in late : m.questions[j] # 0

\* design.md:281-282: a pane that was requested for a question leads to a toast,
\* or to a prompt pane that knows the question and shows one, unless the user
\* closes that pane, the question is over, or its job was set back by a list
\* event: the pane never closes by itself before that.
RequestIsSeen ==
    \A q \in Questions :
        (opening = [step |-> "open", question |-> q]) ~>
            \/ opening.step = "refused"
            \/ kind = "prompt" /\ pane = "left" /\ opening.step # "open"
            \/ /\ q <= asked
               /\ \/ kind = "prompt" /\ m.dialog # 0 /\ m.questions[Key(q).job] = q
                  \/ Over(q) \/ Key(q).job \in late

-----------------------------------------------------------------------------
\* attention.go:12-13 and design.md:288-290: opening is attempted once for each
\* waiting question, and what comes up during a pane's startup is in its list.
\* A question that just came up leads to an attempt, or to a popup that is open.
NoneOverlooked ==
    \A q \in Questions :
        (q <= asked /\ ~ Over(q) /\ posting[Key(q).job] = "broadcast") ~>
            \/ opening # NotOpening \/ pane = "running"
            \/ q <= asked /\ Over(q)
=============================================================================
