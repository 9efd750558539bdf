---------------------------- MODULE PromptsProofs ----------------------------
(***************************************************************************)
(* Proofs about Prompts, for any number of jobs and questions: its type     *)
(* invariant, that a popup that is up to date shows what the jobs ask, that *)
(* drafts survive, and that nothing takes the focus from the user.          *)
(*                                                                          *)
(* The invariant says, of each job whose last update was broadcast, where   *)
(* the popup will learn it from: from the newest event in its subscription, *)
(* from the list that it is about to ask for, asks for or has the reply to, *)
(* or else from what it already knows, unless it is late because of a list  *)
(* event that the update had overtaken.                                     *)
(***************************************************************************)
EXTENDS Prompts, SequenceLemmas, SequenceTheorems

Numbers == 0 .. Len(budget.questions)

Lists == [Jobs -> Numbers]

Messages ==
    [kind : {"reconnect"}] \cup [kind : {"job"}, job : Jobs, question : Numbers]
    \cup [kind : {"list"}, revision : Nat, list : Lists, passed : SUBSET Jobs]

Requests ==
    [step : {"none", "asked", "answered"}, revision : Nat, list : Lists, heard : SUBSET Jobs]

Listings == [step : {"none", "set", "post"}, list : Lists, passed : SUBSET Jobs]

Answers ==
    [question : Numbers, step : {"sent", "ok", "error"}, live : BOOLEAN]

Model ==
    [revision : Nat, loaded : BOOLEAN, questions : Lists, dialog : Numbers,
     sending : BOOLEAN, typing : BOOLEAN, dismissed : SUBSET [job : Jobs, text : Texts]]

\* The jobs' side.
JobTypes ==
    /\ budget.questions \in Seq([job : Jobs, text : Texts])
    /\ asked \in Numbers
    /\ question \in Lists
    /\ posting \in [Jobs -> {"none", "broadcast", "attend"}]
    /\ revision \in Nat /\ listing \in Listings
    /\ subscribed \in BOOLEAN

KeysOf(model) == {Key(q) : q \in Waiting(model.questions)}

\* A model after syncPrompt, with the answers in flight.
Dialogs(model, answers) ==
    /\ model.dismissed \subseteq KeysOf(model)
    /\ model.dialog # 0 => Key(model.dialog) \in KeysOf(model)
    /\ model.dialog = 0 /\ ~ model.typing => KeysOf(model) \subseteq model.dismissed
    /\ model.sending =>
        /\ model.dialog # 0
        /\ \E input \in answers : input.live /\ Key(input.question) = Key(model.dialog)

\* The list will be asked for.
Reconnecting(messages) == messages # <<>> /\ messages[1].kind = "reconnect"

IsEvent(message, j) == message.kind = "job" /\ message.job = j

\* No event of j follows.
NoEvent(messages, j, first) == \A k \in DOMAIN messages : k > first => ~ IsEvent(messages[k], j)

\* Where the popup learns what job j asks.
Learns(model, messages, request, behind, j) ==
    /\ \A i \in DOMAIN messages :
        NoEvent(messages, j, i) =>
            /\ IsEvent(messages[i], j) => messages[i].question = question[j]
            /\ messages[i].kind = "list" /\ j \notin messages[i].passed
                => messages[i].list[j] = question[j]
    /\ NoEvent(messages, j, 0) /\ ~ Reconnecting(messages) =>
        /\ request.step = "answered" /\ j \notin request.heard => request.list[j] = question[j]
        /\ j \in request.heard => model.questions[j] = question[j]
        /\ request = NoCall => model.questions[j] = question[j] \/ j \in behind

Client(model, messages, request, answers, behind) ==
    /\ model \in Model
    /\ messages \in Seq(Messages)
    /\ \A i \in DOMAIN messages : messages[i].kind = "reconnect" => i = 1
    /\ request \in Requests /\ (request.step = "none" => request = NoCall)
    /\ answers \subseteq Answers /\ \A input \in answers : input.step # "sent" => input.live
    /\ Dialogs(model, answers)
    /\ request # NoCall => model.revision = 0
    /\ subscribed /\ request = NoCall => model.loaded \/ Reconnecting(messages)
    /\ \A j \in Jobs :
        subscribed /\ posting[j] # "broadcast" => Learns(model, messages, request, behind, j)

\* The list that is to be broadcast lacks what was broadcast since only.
Taken ==
    listing.step = "post" =>
        \A j \in Jobs \ listing.passed : posting[j] # "broadcast" => listing.list[j] = question[j]

\* What a popup that is over leaves.
Closed ==
    pane # "running" =>
        /\ m = NoModel /\ ch = <<>> /\ call = NoCall /\ ~ subscribed
        /\ \A input \in inputs : ~ input.live

IInv ==
    /\ JobTypes
    /\ Client(m, ch, call, inputs, late)
    /\ Taken
    /\ pane \in {"none", "running", "closing", "left"} /\ kind \in {"manager", "prompt"}
    /\ Closed
    /\ pane = "running" /\ kind = "prompt" /\ m.loaded => m.dialog # 0

-----------------------------------------------------------------------------
(* The dialog *)

\* There is a first question among those of known jobs.
LEMMA FirstExists ==
    ASSUME JobTypes, NEW Q, Q \subseteq Numbers \ {0}, Q # {}
    PROVE  First(Q) \in Q
<1> DEFINE N == {Key(q).job : q \in Q}
<1>1. ASSUME NEW q \in Q PROVE Key(q).job \in Nat
  <2>1. q \in 1 .. Len(budget.questions)
    BY DEF Numbers
  <2>2. Key(q) \in [job : Jobs, text : Texts]
    <3>1. budget.questions \in Seq([job : Jobs, text : Texts])
      BY DEF JobTypes
    <3>2. budget.questions[q] \in [job : Jobs, text : Texts]
      BY <2>1, <3>1, ElementOfSeq
    <3> QED
      BY <3>2 DEF Key
  <2>3. Jobs \subseteq Nat
    BY BudgetsAssumption
  <2> QED
    BY <2>2, <2>3
<1>2. N \subseteq Nat /\ N # {}
  BY <1>1
<1>3. PICK least \in N : \A k \in N : least <= k
  <2> HIDE DEF N
  <2> QED
    BY <1>2, HasLeast
<1>4. \E q \in Q : \A r \in Q : Key(q).job <= Key(r).job
  BY <1>3
<1> QED
  BY <1>4 DEF First

\* syncPrompt: what it leaves alone, and the dialog it settles on.
LEMMA SyncSettles ==
    ASSUME JobTypes, NEW model \in Model
    PROVE  LET s == SyncPrompt(model)
           IN  /\ s \in Model
               /\ s.loaded = model.loaded /\ s.questions = model.questions
               /\ s.typing = model.typing /\ s.revision = model.revision
               /\ s.dismissed \subseteq KeysOf(s)
               /\ s.dialog # 0 => Key(s.dialog) \in KeysOf(s)
               /\ s.dialog = 0 /\ ~ s.typing => KeysOf(s) \subseteq s.dismissed
               /\ s.sending => model.sending /\ s.dialog = model.dialog /\ s.dialog # 0
<1> DEFINE waiting == Waiting(model.questions)
           keys == {Key(q) : q \in waiting}
           next == {q \in waiting : Key(q) \notin model.dismissed}
           kept == [model EXCEPT !.dismissed = @ \cap keys]
           s == SyncPrompt(model)
<1>1. waiting \subseteq Numbers \ {0}
  BY DEF Waiting, Model, Lists
<1>2. /\ kept \in Model /\ kept.dismissed = model.dismissed \cap keys
      /\ kept.loaded = model.loaded /\ kept.questions = model.questions
      /\ kept.typing = model.typing /\ kept.dialog = model.dialog
      /\ kept.sending = model.sending /\ kept.revision = model.revision
  BY DEF Model
<1>3. \A q : Key(q) \in keys <=> Key(q) \in KeysOf(model)
  BY DEF KeysOf
<1>4. keys = KeysOf(model)
  BY DEF KeysOf
<1>5. CASE model.dialog # 0 /\ Key(model.dialog) \in keys
  <2>1. s = kept
    BY <1>5 DEF SyncPrompt
  <2> QED
    BY <1>2, <1>4, <1>5, <2>1 DEF KeysOf
<1>6. CASE ~ (model.dialog # 0 /\ Key(model.dialog) \in keys) /\ next # {} /\ ~ model.typing
  <2>1. s = OpenPrompt(kept, First(next))
    BY <1>6 DEF SyncPrompt
  <2>2. First(next) \in next
    BY <1>1, <1>6, FirstExists
  <2>3. /\ First(next) \in Numbers \ {0} /\ First(next) \in waiting
    BY <1>1, <2>2
  <2>4. /\ s.dialog = First(next) /\ ~ s.sending /\ s.dismissed = kept.dismissed
        /\ s.loaded = kept.loaded /\ s.questions = kept.questions /\ s.typing = kept.typing
        /\ s.revision = kept.revision /\ s \in Model
    <3> HIDE DEF kept, next
    <3> QED
      BY <1>2, <2>1, <2>3 DEF OpenPrompt, Model
  <2> QED
    BY <1>2, <1>4, <2>3, <2>4 DEF KeysOf
<1>7. CASE ~ (model.dialog # 0 /\ Key(model.dialog) \in keys) /\ ~ (next # {} /\ ~ model.typing)
  <2>1. s = [kept EXCEPT !.dialog = 0, !.sending = FALSE]
    BY <1>7 DEF SyncPrompt
  <2>2. /\ s.dialog = 0 /\ ~ s.sending /\ s.dismissed = kept.dismissed
        /\ s.loaded = kept.loaded /\ s.questions = kept.questions /\ s.typing = kept.typing
        /\ s.revision = kept.revision /\ s \in Model
    <3>1. 0 \in Numbers
      BY DEF JobTypes, Numbers
    <3> HIDE DEF kept
    <3> QED
      BY <1>2, <2>1, <3>1 DEF Model
  <2>3. ~ model.typing => keys \subseteq model.dismissed
    BY <1>7
  <2> QED
    BY <1>2, <1>4, <2>2, <2>3 DEF KeysOf
<1> QED
  BY <1>5, <1>6, <1>7

-----------------------------------------------------------------------------
(* What the popup's handlers do alike *)

\* A handler leaves the jobs alone.
Quiet ==
    /\ budget'.questions = budget.questions
    /\ UNCHANGED <<asked, question, posting, revision, listing>>

LEMMA QuietTypes ==
    ASSUME Quiet, JobTypes
    PROVE  /\ Numbers' = Numbers /\ Messages' = Messages /\ Requests' = Requests
           /\ Answers' = Answers /\ Model' = Model /\ Taken' = Taken
           /\ subscribed' \in BOOLEAN => JobTypes'
<1>1. Numbers' = Numbers
  BY DEF Quiet, Numbers
<1> QED
  BY <1>1 DEF Quiet, JobTypes, Messages, Requests, Answers, Model, Lists, Listings, Taken

LEMMA NothingKnown ==
    ASSUME JobTypes
    PROVE  /\ NoModel \in Model /\ NoCall \in Requests
           /\ KeysOf(NoModel) = {} /\ <<>> \in Seq(Messages)
<1>1. 0 \in Numbers
  BY DEF JobTypes, Numbers
<1>2. NoList \in Lists
  BY <1>1 DEF NoList, Lists
<1>3. Waiting(NoList) = {}
  BY DEF NoList, Waiting
<1>4. KeysOf(NoModel) = {}
  BY <1>3 DEF KeysOf, NoModel
<1>5. NoModel \in Model
  BY <1>1, <1>2 DEF NoModel, Model
<1>6. NoCall \in Requests
  BY <1>2 DEF NoCall, Requests
<1> QED
  BY <1>4, <1>5, <1>6

\* The client's invariant is about what the jobs and the client hold, so it
\* holds after a handler of what held before of the values it leaves.
LEMMA ClientKept ==
    ASSUME JobTypes, Quiet, UNCHANGED subscribed, Client(m', ch', call', inputs', late')
    PROVE  Client(m, ch, call, inputs, late)'
<1>1. NoCall' = NoCall
  BY DEF NoCall, NoList
<1>2. ASSUME NEW model PROVE KeysOf(m)' = KeysOf(m')
  BY DEF KeysOf, Key, Quiet, Waiting
<1> QED
  BY <1>1, <1>2, QuietTypes DEF Client, Dialogs, Learns, Quiet, Reconnecting, IsEvent, NoEvent, Key

LEMMA QuitKeeps ==
    ASSUME IInv, Quiet, NEW state \in {"closing", "left"}, Quit(state)
    PROVE  IInv'
<1> USE DEF IInv, Quiet, Quit
<1>1. JobTypes' /\ Model' = Model /\ Requests' = Requests /\ Messages' = Messages
      /\ Answers' = Answers
  BY QuietTypes
<1>2. m' \in Model /\ call' \in Requests /\ ch' \in Seq(Messages) /\ NoCall' = NoCall
      /\ NoModel' = NoModel
  BY NothingKnown DEF NoModel, NoCall, NoList
<1>3. inputs' \subseteq Answers /\ \A input \in inputs' : ~ input.live /\ input.step = "sent"
  BY DEF Client, Answers
<1>4. Dialogs(m, inputs)'
  <2>1. KeysOf(m)' = {}
    BY DEF KeysOf, NoModel, NoList, Waiting
  <2> QED
    BY <2>1 DEF Dialogs, NoModel
<1>5. Client(m, ch, call, inputs, late)'
  BY <1>1, <1>2, <1>3, <1>4 DEF Client
<1>6. Taken'
  BY QuietTypes
<1> QED
  BY <1>1, <1>2, <1>3, <1>5, <1>6 DEF Closed, NoModel

\* An update of the popup's model keeps the invariant if what it leaves is a
\* popup that knows as much.
LEMMA UpdateKeeps ==
    ASSUME IInv, Quiet, pane = "running",
           NEW model, NEW messages, NEW request, NEW answers,
           Update(model, messages, request, answers),
           Client(model, messages, request, answers, late')
    PROVE  IInv'
<1>1. CASE kind = "prompt" /\ model.loaded /\ model.dialog = 0
  BY <1>1, QuitKeeps DEF Update
<1>2. CASE ~ (kind = "prompt" /\ model.loaded /\ model.dialog = 0)
  <2>1. /\ m' = model /\ ch' = messages /\ call' = request /\ inputs' = answers
        /\ UNCHANGED paneVars
    BY <1>2 DEF Update
  <2>2. Client(m, ch, call, inputs, late)'
    BY <2>1, ClientKept DEF IInv, paneVars
  <2>3. JobTypes' /\ Taken'
    BY <2>1, QuietTypes DEF IInv, JobTypes, paneVars
  <2> QED
    BY <1>2, <2>1, <2>2, <2>3 DEF IInv, paneVars, Closed
<1> QED
  BY <1>1, <1>2

-----------------------------------------------------------------------------
(* The steps of the daemon *)

USE DEF jobVars, attentionVars, paneVars, clientVars, popupVars

\* The sets of values depend on the questions that may come up alone.
LEMMA SameTypes ==
    ASSUME budget'.questions = budget.questions
    PROVE  /\ Numbers' = Numbers /\ Messages' = Messages /\ Requests' = Requests
           /\ Answers' = Answers /\ Model' = Model /\ Listings' = Listings /\ Lists' = Lists
           /\ NoCall' = NoCall /\ NoModel' = NoModel
  BY DEF Numbers, Messages, Requests, Answers, Model, Lists, Listings, NoCall, NoModel, NoList

LEMMA SameDialogs ==
    ASSUME budget'.questions = budget.questions, UNCHANGED <<m, inputs>>, IInv
    PROVE  Dialogs(m, inputs)'
<1>1. KeysOf(m)' = KeysOf(m)
  BY DEF KeysOf, Waiting, Key
<1> QED
  BY <1>1 DEF IInv, Client, Dialogs, Key

\* What a job asks is news until it is told.
LEMMA JobUpdateKeeps ==
    ASSUME IInv, NEW j \in Jobs, NEW q \in Numbers, JobUpdate(j, q),
           asked' \in Numbers, UNCHANGED <<budget, revision, listing, popupVars, inputs, late>>
    PROVE  IInv'
<1>1. /\ Numbers' = Numbers /\ Messages' = Messages /\ Requests' = Requests
      /\ Answers' = Answers /\ Model' = Model /\ Listings' = Listings /\ Lists' = Lists
      /\ NoCall' = NoCall /\ NoModel' = NoModel
  BY SameTypes
<1>2. JobTypes'
  BY <1>1 DEF IInv, JobTypes, JobUpdate, Lists
<1>3. Dialogs(m, inputs)'
  BY SameDialogs
<1>4. ASSUME NEW k \in Jobs, posting'[k] # "broadcast"
      PROVE  question'[k] = question[k] /\ posting[k] # "broadcast"
  BY <1>4 DEF IInv, JobTypes, JobUpdate, Lists
<1>5. ASSUME NEW k \in Jobs, subscribed', posting'[k] # "broadcast"
      PROVE  Learns(m, ch, call, late, k)'
  <2>1. Learns(m, ch, call, late, k)
    BY <1>4, <1>5 DEF IInv, Client
  <2> QED
    BY <1>1, <1>4, <1>5, <2>1 DEF Learns, Reconnecting, IsEvent, NoEvent
<1>6. Client(m, ch, call, inputs, late)'
  BY <1>1, <1>3, <1>5 DEF IInv, Client, Reconnecting
<1>7. Taken'
  BY <1>4 DEF IInv, Taken
<1> QED
  BY <1>1, <1>2, <1>6, <1>7 DEF IInv, Closed

LEMMA AskKeeps ==
    ASSUME IInv, NEW j \in Jobs, Ask(j)
    PROVE  IInv'
<1>1. asked + 1 \in Numbers
  BY DEF Ask, IInv, JobTypes, Numbers
<1> QED
  BY <1>1, JobUpdateKeeps DEF Ask, history

LEMMA WithdrawKeeps ==
    ASSUME IInv, NEW j \in Jobs, Withdraw(j)
    PROVE  IInv'
<1>1. 0 \in Numbers /\ asked \in Numbers
  BY DEF IInv, JobTypes, Numbers
<1> QED
  BY <1>1, JobUpdateKeeps DEF Withdraw, history

\* A step that leaves the jobs' questions and the popup alone.
LEMMA AsideKeeps ==
    ASSUME IInv, Quiet, UNCHANGED <<pane, kind, subscribed, clientVars, inputs, late>>
    PROVE  IInv'
<1>1. Client(m, ch, call, inputs, late)'
  BY ClientKept DEF IInv
<1>2. JobTypes' /\ Taken' /\ NoModel' = NoModel /\ NoCall' = NoCall
  BY QuietTypes DEF IInv, JobTypes, NoModel, NoCall, NoList
<1> QED
  BY <1>1, <1>2 DEF IInv, Closed

LEMMA TakeAnswerKeeps ==
    ASSUME IInv, NEW j \in Jobs, TakeAnswer(j)
    PROVE  IInv'
<1>1. 0 \in Numbers /\ asked \in Numbers
  BY DEF IInv, JobTypes, Numbers
<1>2. CASE question[j] # 0
  BY <1>1, <1>2, JobUpdateKeeps DEF TakeAnswer, history
<1>3. CASE question[j] = 0
  BY <1>3, AsideKeeps DEF TakeAnswer, Quiet, history
<1> QED
  BY <1>2, <1>3

\* A message that joins the subscription.
LEMMA Joins ==
    ASSUME IInv, NEW event \in Messages, event.kind # "reconnect", ch' = Append(ch, event)
    PROVE  /\ ch' \in Seq(Messages)
           /\ Len(ch) \in Nat /\ DOMAIN ch = 1 .. Len(ch) /\ DOMAIN ch' = 1 .. Len(ch) + 1
           /\ \A i \in 1 .. Len(ch) : ch'[i] = ch[i]
           /\ ch'[Len(ch) + 1] = event
           /\ Reconnecting(ch) => Reconnecting(ch')
           /\ \A i \in DOMAIN ch' : ch'[i].kind = "reconnect" => i = 1
<1>1. ch \in Seq(Messages)
  BY DEF IInv, Client
<1>2. /\ ch' \in Seq(Messages)
      /\ Len(ch) \in Nat /\ DOMAIN ch = 1 .. Len(ch) /\ DOMAIN ch' = 1 .. Len(ch) + 1
      /\ \A i \in 1 .. Len(ch) : ch'[i] = ch[i]
      /\ ch'[Len(ch) + 1] = event
  BY <1>1
<1>3. Reconnecting(ch) => Reconnecting(ch')
  BY <1>1, <1>2 DEF Reconnecting
<1>4. \A i \in DOMAIN ch' : ch'[i].kind = "reconnect" => i = 1
  BY <1>2 DEF IInv, Client
<1> QED
  BY <1>2, <1>3, <1>4

\* What else is on the way is so after a message that is no event of j.
LEMMA JoinsQuietly ==
    ASSUME IInv, NEW event \in Messages, event.kind # "reconnect", ch' = Append(ch, event),
           NEW j \in Jobs, ~ IsEvent(event, j), question' = question,
           UNCHANGED <<m, call, late>>, NoCall' = NoCall, Learns(m, ch, call, late, j),
           event.kind = "list" /\ j \notin event.passed => event.list[j] = question[j]
    PROVE  Learns(m, ch, call, late, j)'
<1>1. /\ Len(ch) \in Nat /\ DOMAIN ch = 1 .. Len(ch) /\ DOMAIN ch' = 1 .. Len(ch) + 1
      /\ \A i \in 1 .. Len(ch) : ch'[i] = ch[i]
      /\ ch'[Len(ch) + 1] = event
      /\ Reconnecting(ch) => Reconnecting(ch')
  BY Joins
<1>2. ASSUME NEW first, NoEvent(ch', j, first) PROVE NoEvent(ch, j, first)
  BY <1>1, <1>2 DEF NoEvent
<1>3. ASSUME NEW i \in DOMAIN ch', NoEvent(ch', j, i)
      PROVE  /\ IsEvent(ch'[i], j) => ch'[i].question = question[j]
             /\ ch'[i].kind = "list" /\ j \notin ch'[i].passed => ch'[i].list[j] = question[j]
  <2>1. CASE i = Len(ch) + 1
    BY <1>1, <2>1
  <2>2. CASE i # Len(ch) + 1
    <3>1. i \in DOMAIN ch /\ ch'[i] = ch[i] /\ NoEvent(ch, j, i)
      BY <1>1, <1>2, <1>3, <2>2
    <3> QED
      BY <3>1 DEF Learns
  <2> QED
    BY <2>1, <2>2
<1>4. NoEvent(ch', j, 0) /\ ~ Reconnecting(ch') =>
        /\ call.step = "answered" /\ j \notin call.heard => call.list[j] = question[j]
        /\ j \in call.heard => m.questions[j] = question[j]
        /\ call = NoCall => m.questions[j] = question[j] \/ j \in late
  BY <1>1, <1>2 DEF Learns
<1> QED
  BY <1>3, <1>4 DEF Learns, NoEvent, IsEvent, Reconnecting

LEMMA BroadcastKeeps ==
    ASSUME IInv, NEW j \in Jobs, Broadcast(j)
    PROVE  IInv'
<1> DEFINE event == [kind |-> "job", job |-> j, question |-> question[j]]
<1>1. /\ Numbers' = Numbers /\ Messages' = Messages /\ Requests' = Requests
      /\ Answers' = Answers /\ Model' = Model /\ Listings' = Listings /\ Lists' = Lists
      /\ NoCall' = NoCall /\ NoModel' = NoModel
  BY SameTypes DEF Broadcast
<1>2. /\ UNCHANGED <<budget, asked, question, revision, paneVars, call, m, inputs, late>>
      /\ posting' = [posting EXCEPT ![j] = "attend"]
      /\ ch' = IF subscribed THEN Append(ch, event) ELSE ch
  BY DEF Broadcast, history
<1>3. /\ listing' \in Listings /\ listing'.step = listing.step /\ listing'.list = listing.list
      /\ listing.step = "post" => listing'.passed = listing.passed \cup {j}
  BY DEF Broadcast, IInv, JobTypes, Listings
<1>4. posting \in [Jobs -> {"none", "broadcast", "attend"}] /\ question \in Lists
  BY DEF IInv, JobTypes
<1>5. JobTypes'
  BY <1>1, <1>2, <1>3, <1>4 DEF IInv, JobTypes
<1>6. ASSUME NEW k \in Jobs, k # j, posting'[k] # "broadcast" PROVE posting[k] # "broadcast"
  BY <1>2, <1>4, <1>6
<1>7. Taken'
  BY <1>2, <1>3, <1>6 DEF IInv, Taken
<1>8. Dialogs(m, inputs)'
  BY <1>2, SameDialogs
<1>9. event \in Messages /\ event.kind = "job" /\ event.job = j /\ event.question = question[j]
  BY <1>4 DEF Messages, Lists
<1> HIDE DEF event
<1>10. CASE ~ subscribed
  <2>1. Client(m, ch, call, inputs, late)'
    BY <1>1, <1>2, <1>8, <1>10 DEF IInv, Client
  <2> QED
    BY <1>1, <1>2, <1>5, <1>7, <1>10, <2>1 DEF IInv, Closed
<1>11. CASE subscribed
  <2>1. ch' = Append(ch, event)
    BY <1>2, <1>11
  <2>2. /\ ch' \in Seq(Messages)
        /\ Len(ch) \in Nat /\ DOMAIN ch = 1 .. Len(ch) /\ DOMAIN ch' = 1 .. Len(ch) + 1
        /\ ch'[Len(ch) + 1] = event
        /\ Reconnecting(ch) => Reconnecting(ch')
        /\ \A i \in DOMAIN ch' : ch'[i].kind = "reconnect" => i = 1
    BY <1>9, <2>1, Joins
  <2>3. ASSUME NEW k \in Jobs, posting'[k] # "broadcast"
        PROVE  Learns(m, ch, call, late, k)'
    <3>1. CASE k = j
      <4>1. IsEvent(ch'[Len(ch) + 1], k) /\ Len(ch) + 1 \in DOMAIN ch' /\ Len(ch) + 1 > 0
        BY <1>9, <2>2, <3>1 DEF IsEvent
      <4>2. ~ NoEvent(ch', k, 0)
        BY <4>1 DEF NoEvent
      <4>3. ASSUME NEW i \in DOMAIN ch', NoEvent(ch', k, i) PROVE ch'[i] = event
        <5>1. i = Len(ch) + 1
          BY <2>2, <4>1, <4>3 DEF NoEvent
        <5> QED
          BY <2>2, <5>1
      <4>4. /\ \A i \in DOMAIN ch' : NoEvent(ch', k, i) =>
                 /\ IsEvent(ch'[i], k) => ch'[i].question = question[k]
                 /\ ch'[i].kind = "list" /\ k \notin ch'[i].passed => ch'[i].list[k] = question[k]
        BY <1>9, <3>1, <4>3
      <4> QED
        BY <1>2, <4>2, <4>4 DEF Learns, NoEvent, IsEvent
    <3>2. CASE k # j
      <4>1. Learns(m, ch, call, late, k)
        BY <1>6, <1>11, <2>3, <3>2 DEF IInv, Client
      <4>2. ~ IsEvent(event, k) /\ event.kind # "list"
        BY <1>9, <3>2 DEF IsEvent
      <4> QED
        BY <1>1, <1>2, <1>9, <2>1, <4>1, <4>2, JoinsQuietly
    <3> QED
      BY <3>1, <3>2
  <2>4. Client(m, ch, call, inputs, late)'
    BY <1>1, <1>2, <1>8, <2>2, <2>3 DEF IInv, Client, Reconnecting
  <2> QED
    BY <1>1, <1>2, <1>5, <1>7, <1>11, <2>4 DEF IInv, Closed
<1> QED
  BY <1>10, <1>11

\* A refresh that sets the revision or takes its snapshot tells nobody.
LEMMA RefreshKeeps ==
    ASSUME IInv, RefreshSet \/ RefreshSnapshot
    PROVE  IInv'
<1>1. /\ budget'.questions = budget.questions
      /\ UNCHANGED <<asked, question, posting, popupVars, inputs, late>>
  <2>1. CASE RefreshSet
    BY <2>1 DEF RefreshSet, history
  <2>2. CASE RefreshSnapshot
    BY <2>2 DEF RefreshSnapshot, history
  <2> QED
    BY <2>1, <2>2
<1>2. /\ Numbers' = Numbers /\ Messages' = Messages /\ Requests' = Requests
      /\ Answers' = Answers /\ Model' = Model /\ Listings' = Listings /\ Lists' = Lists
      /\ NoCall' = NoCall /\ NoModel' = NoModel
  BY <1>1, SameTypes
<1>3. question \in Lists /\ revision \in Nat /\ listing \in Listings
  BY DEF IInv, JobTypes
<1>4. revision' \in Nat /\ listing' \in Listings /\ Taken'
  <2>1. CASE RefreshSet
    BY <1>3, <2>1 DEF RefreshSet, Listings, Taken
  <2>2. CASE RefreshSnapshot
    BY <1>3, <2>2 DEF RefreshSnapshot, Listings, Taken
  <2> QED
    BY <2>1, <2>2
<1>5. JobTypes'
  BY <1>1, <1>2, <1>4 DEF IInv, JobTypes
<1>6. Dialogs(m, inputs)'
  BY <1>1, SameDialogs
<1>7. ASSUME NEW k \in Jobs, subscribed', posting'[k] # "broadcast"
      PROVE  Learns(m, ch, call, late, k)'
  <2>1. Learns(m, ch, call, late, k)
    BY <1>1, <1>7 DEF IInv, Client
  <2> QED
    BY <1>1, <1>2, <2>1 DEF Learns, Reconnecting, IsEvent, NoEvent
<1>8. Client(m, ch, call, inputs, late)'
  BY <1>1, <1>2, <1>6, <1>7 DEF IInv, Client, Reconnecting
<1> QED
  BY <1>1, <1>2, <1>4, <1>5, <1>8 DEF IInv, Closed

LEMMA RefreshPostKeeps ==
    ASSUME IInv, RefreshPost
    PROVE  IInv'
<1> DEFINE event == [kind |-> "list", revision |-> revision,
                     list |-> listing.list, passed |-> listing.passed]
<1>1. /\ UNCHANGED <<budget, asked, question, posting, revision, paneVars, call, m, inputs, late>>
      /\ listing.step = "post" /\ listing' = NoListing
      /\ ch' = IF subscribed THEN Append(ch, event) ELSE ch
  BY DEF RefreshPost, history
<1>2. /\ Numbers' = Numbers /\ Messages' = Messages /\ Requests' = Requests
      /\ Answers' = Answers /\ Model' = Model /\ Listings' = Listings /\ Lists' = Lists
      /\ NoCall' = NoCall /\ NoModel' = NoModel
  BY <1>1, SameTypes
<1>3. listing \in Listings /\ revision \in Nat
  BY DEF IInv, JobTypes
<1>4. listing' \in Listings /\ Taken'
  <2>1. NoList \in Lists
    BY DEF IInv, JobTypes, Numbers, NoList, Lists
  <2> QED
    BY <1>1, <2>1 DEF NoListing, Listings, Taken
<1>5. JobTypes'
  BY <1>1, <1>2, <1>4 DEF IInv, JobTypes
<1>6. Dialogs(m, inputs)'
  BY <1>1, SameDialogs
<1>7. /\ event \in Messages /\ event.kind = "list"
      /\ event.list = listing.list /\ event.passed = listing.passed
  BY <1>3 DEF Messages, Listings
<1> HIDE DEF event
<1>8. CASE ~ subscribed
  <2>1. Client(m, ch, call, inputs, late)'
    BY <1>1, <1>2, <1>6, <1>8 DEF IInv, Client
  <2> QED
    BY <1>1, <1>2, <1>4, <1>5, <1>8, <2>1 DEF IInv, Closed
<1>9. CASE subscribed
  <2>1. ch' = Append(ch, event)
    BY <1>1, <1>9
  <2>2. /\ ch' \in Seq(Messages)
        /\ Reconnecting(ch) => Reconnecting(ch')
        /\ \A i \in DOMAIN ch' : ch'[i].kind = "reconnect" => i = 1
    BY <1>7, <2>1, Joins
  <2>3. ASSUME NEW k \in Jobs, posting'[k] # "broadcast"
        PROVE  Learns(m, ch, call, late, k)'
    <3>1. posting[k] # "broadcast" /\ Learns(m, ch, call, late, k)
      BY <1>1, <1>9, <2>3 DEF IInv, Client
    <3>2. ~ IsEvent(event, k)
      BY <1>7 DEF IsEvent
    <3>3. k \notin event.passed => event.list[k] = question[k]
      BY <1>1, <1>7, <3>1 DEF IInv, Taken
    <3> QED
      BY <1>1, <1>2, <1>7, <2>1, <3>1, <3>2, <3>3, JoinsQuietly
  <2>4. Client(m, ch, call, inputs, late)'
    BY <1>1, <1>2, <1>6, <2>2, <2>3 DEF IInv, Client, Reconnecting
  <2> QED
    BY <1>1, <1>2, <1>4, <1>5, <1>9, <2>4 DEF IInv, Closed
<1> QED
  BY <1>8, <1>9

LEMMA RequestAttentionKeeps ==
    ASSUME IInv, NEW j \in Jobs, RequestAttention(j)
    PROVE  IInv'
<1>1. /\ UNCHANGED <<budget, asked, question, revision, listing, popupVars, inputs, late>>
      /\ posting' = [posting EXCEPT ![j] = "none"]
  BY DEF RequestAttention, history
<1>2. /\ Numbers' = Numbers /\ Messages' = Messages /\ Requests' = Requests
      /\ Answers' = Answers /\ Model' = Model /\ Listings' = Listings /\ Lists' = Lists
      /\ NoCall' = NoCall /\ NoModel' = NoModel
  BY <1>1, SameTypes
<1>3. JobTypes'
  BY <1>1, <1>2 DEF IInv, JobTypes
<1>4. ASSUME NEW k \in Jobs, posting'[k] # "broadcast" PROVE posting[k] # "broadcast"
  BY <1>4 DEF RequestAttention, IInv, JobTypes
<1>5. Dialogs(m, inputs)'
  BY <1>1, SameDialogs
<1>6. ASSUME NEW k \in Jobs, subscribed', posting'[k] # "broadcast"
      PROVE  Learns(m, ch, call, late, k)'
  <2>1. Learns(m, ch, call, late, k)
    BY <1>1, <1>4, <1>6 DEF IInv, Client
  <2> QED
    BY <1>1, <1>2, <2>1 DEF Learns, Reconnecting, IsEvent, NoEvent
<1>7. Client(m, ch, call, inputs, late)'
  BY <1>1, <1>2, <1>5, <1>6 DEF IInv, Client, Reconnecting
<1>8. Taken'
  BY <1>1, <1>4 DEF IInv, Taken
<1> QED
  BY <1>1, <1>2, <1>3, <1>7, <1>8 DEF IInv, Closed

LEMMA StartsKeeps ==
    ASSUME IInv, NEW what \in {"manager", "prompt"}, Starts(what),
           UNCHANGED <<jobVars, subscribed, ch, m, inputs>>
    PROVE  IInv'
<1>1. Quiet
  BY DEF Starts, Quiet
<1>2. /\ JobTypes' /\ Taken' /\ Model' = Model /\ Requests' = Requests /\ Messages' = Messages
      /\ Answers' = Answers /\ NoCall' = NoCall
  BY <1>1, QuietTypes DEF IInv, JobTypes, NoCall, NoList
<1>3. ~ subscribed /\ m = NoModel /\ m.revision = 0
  BY DEF IInv, Closed, Starts, NoModel
<1>4. NewCall \in Requests /\ NewCall.step = "asked"
  BY NothingKnown DEF IInv, NewCall, NoCall, Requests
<1>5. Dialogs(m, inputs)'
  BY <1>1, SameDialogs DEF Quiet
<1>6. Client(m, ch, call, inputs, late)'
  BY <1>2, <1>3, <1>4, <1>5 DEF IInv, Client, Starts
<1> QED
  BY <1>2, <1>3, <1>6 DEF IInv, Closed, Starts, NoModel

LEMMA ServeInputKeeps ==
    ASSUME IInv, NEW input \in inputs, ServeInput(input)
    PROVE  IInv'
<1> DEFINE accepted == question[Key(input.question).job] # 0 /\ ~ answer[Key(input.question).job]
           reply == [input EXCEPT !.step = IF accepted THEN "ok" ELSE "error"]
<1>1. Quiet /\ UNCHANGED <<subscribed, pane, kind, ch, call, m, late>>
  BY DEF ServeInput, Quiet, history
<1>2. input \in Answers
  BY DEF IInv, Client
<1>3. /\ reply \in Answers /\ reply.question = input.question /\ reply.live = input.live
  BY <1>2 DEF Answers
<1>4. inputs' = (inputs \ {input}) \cup IF input.live THEN {reply} ELSE {}
  BY DEF ServeInput
<1> HIDE DEF reply
<1>5. inputs' \subseteq Answers /\ \A i \in inputs' : i.step # "sent" => i.live
  BY <1>2, <1>3, <1>4 DEF IInv, Client
<1>6. Dialogs(m', inputs')
  BY <1>1, <1>3, <1>4 DEF IInv, Client, Dialogs
<1>7. Client(m', ch', call', inputs', late')
  BY <1>1, <1>5, <1>6 DEF IInv, Client
<1>8. Client(m, ch, call, inputs, late)'
  BY <1>1, <1>7, ClientKept DEF IInv
<1>9. JobTypes' /\ Taken' /\ NoModel' = NoModel /\ NoCall' = NoCall
  BY <1>1, QuietTypes DEF IInv, JobTypes, NoModel, NoCall, NoList
<1>10. (\A i \in inputs : ~ i.live) => \A i \in inputs' : ~ i.live
  BY <1>3, <1>4
<1> QED
  BY <1>1, <1>8, <1>9, <1>10 DEF IInv, Closed

LEMMA ServeListKeeps ==
    ASSUME IInv, ServeList
    PROVE  IInv'
<1>1. Quiet /\ UNCHANGED <<subscribed, pane, kind, ch, inputs, m, late>>
  BY DEF ServeList, Quiet, history
<1>2. /\ call \in Requests /\ call' \in Requests /\ call'.step = "answered"
      /\ call'.list = question /\ call'.heard = call.heard /\ call' # NoCall
      /\ call # NoCall
  <2>1. call \in Requests /\ question \in Lists /\ revision \in Nat
    BY DEF IInv, Client, JobTypes
  <2>2. /\ call.step = "asked"
        /\ call' = [call EXCEPT !.step = "answered", !.revision = revision, !.list = question]
    BY DEF ServeList
  <2>3. NoCall.step = "none"
    BY DEF NoCall
  <2> QED
    BY <2>1, <2>2, <2>3 DEF Requests
<1>3. ASSUME NEW j \in Jobs, subscribed, posting[j] # "broadcast"
      PROVE  Learns(m', ch', call', late', j)
  <2>1. Learns(m, ch, call, late, j)
    BY <1>3 DEF IInv, Client
  <2> QED
    BY <1>1, <1>2, <2>1 DEF Learns
<1>4. Client(m', ch', call', inputs', late')
  BY <1>1, <1>2, <1>3 DEF IInv, Client
<1>5. Client(m, ch, call, inputs, late)'
  BY <1>1, <1>4, ClientKept DEF IInv
<1>6. JobTypes' /\ Taken' /\ NoModel' = NoModel /\ NoCall' = NoCall
  BY <1>1, QuietTypes DEF IInv, JobTypes, NoModel, NoCall, NoList
<1>7. pane = "running"
  BY <1>2 DEF IInv, Closed
<1> QED
  BY <1>1, <1>5, <1>6, <1>7 DEF IInv, Closed

\* The subscription begins with an event that has the list read.
LEMMA SubscribeKeeps ==
    ASSUME IInv, Subscribe
    PROVE  IInv'
<1>1. Quiet /\ UNCHANGED <<pane, kind, call, inputs, m, late>> /\ subscribed' = TRUE
      /\ pane = "running" /\ ch' = <<[kind |-> "reconnect"]>>
  BY DEF Subscribe, Quiet, history
<1>2. /\ JobTypes' /\ Taken' /\ Model' = Model /\ Requests' = Requests /\ Messages' = Messages
      /\ Answers' = Answers /\ NoCall' = NoCall
  BY <1>1, QuietTypes DEF IInv, NoCall, NoList
<1>3. /\ ch' \in Seq(Messages) /\ DOMAIN ch' = {1} /\ ch'[1].kind = "reconnect"
      /\ ch' # <<>>
  BY <1>1 DEF Messages
<1>4. Reconnecting(ch)'
  BY <1>3 DEF Reconnecting
<1>5. \A j \in Jobs : Learns(m, ch, call, late, j)'
  BY <1>3, <1>4 DEF Learns, IsEvent, NoEvent
<1>6. Dialogs(m, inputs)'
  BY <1>1, SameDialogs DEF Quiet
<1>7. Client(m, ch, call, inputs, late)'
  BY <1>1, <1>2, <1>3, <1>4, <1>5, <1>6 DEF IInv, Client
<1> QED
  BY <1>1, <1>2, <1>7 DEF IInv, Closed

LEMMA LoseKeeps ==
    ASSUME IInv, Lose
    PROVE  IInv'
<1>1. Quiet /\ UNCHANGED <<pane, kind, call, inputs, m, late>> /\ ~ subscribed' /\ subscribed' = FALSE
      /\ ch' = <<>> /\ pane = "running"
  BY DEF Lose, Quiet, IInv, Closed, history
<1>2. /\ JobTypes' /\ Taken' /\ Model' = Model /\ Requests' = Requests /\ Messages' = Messages
      /\ Answers' = Answers /\ NoCall' = NoCall
  BY <1>1, QuietTypes DEF IInv, NoCall, NoList
<1>3. Dialogs(m, inputs)'
  BY <1>1, SameDialogs DEF Quiet
<1>4. Client(m, ch, call, inputs, late)'
  BY <1>1, <1>2, <1>3 DEF IInv, Client
<1> QED
  BY <1>1, <1>2, <1>4 DEF IInv, Closed

LEMMA PaneGoneKeeps ==
    ASSUME IInv, PaneGone
    PROVE  IInv'
<1>1. Quiet /\ UNCHANGED <<subscribed, kind, ch, call, inputs, m, late>> /\ pane' = "none"
      /\ pane # "running"
  BY DEF PaneGone, Quiet, history
<1>2. Client(m, ch, call, inputs, late)'
  BY <1>1, ClientKept DEF IInv
<1>3. JobTypes' /\ Taken' /\ NoModel' = NoModel /\ NoCall' = NoCall
  BY <1>1, QuietTypes DEF IInv, JobTypes, NoModel, NoCall, NoList
<1> QED
  BY <1>1, <1>2, <1>3 DEF IInv, Closed

-----------------------------------------------------------------------------
(* The popup's messages *)

\* What is left of the messages, when one is processed.
LEMMA TailFollows ==
    ASSUME IInv, ch # <<>>
    PROVE  /\ ch[1] = Head(ch) /\ ch[1] \in Messages /\ Tail(ch) \in Seq(Messages)
           /\ \A i \in DOMAIN Tail(ch) : Tail(ch)[i].kind # "reconnect"
           /\ ~ Reconnecting(Tail(ch))
           /\ \A j \in Jobs : NoEvent(Tail(ch), j, 0) => NoEvent(ch, j, 1)
           /\ \A j \in Jobs : subscribed /\ posting[j] # "broadcast" =>
                \A i \in DOMAIN Tail(ch) : NoEvent(Tail(ch), j, i) =>
                    /\ IsEvent(Tail(ch)[i], j) => Tail(ch)[i].question = question[j]
                    /\ Tail(ch)[i].kind = "list" /\ j \notin Tail(ch)[i].passed
                        => Tail(ch)[i].list[j] = question[j]
<1> DEFINE rest == Tail(ch)
<1>1. ch \in Seq(Messages)
  BY DEF IInv, Client
<1>2. /\ rest \in Seq(Messages) /\ ch[1] = Head(ch) /\ ch[1] \in Messages
      /\ DOMAIN ch = 1 .. Len(ch) /\ Len(ch) \in Nat \ {0} /\ DOMAIN rest = 1 .. Len(ch) - 1
      /\ \A i \in 1 .. Len(ch) - 1 : rest[i] = ch[i + 1]
  BY <1>1
<1> HIDE DEF rest
<1>3. \A i \in DOMAIN rest : i + 1 \in DOMAIN ch /\ i + 1 # 1 /\ rest[i] = ch[i + 1]
  BY <1>2
<1>4. \A i \in DOMAIN ch : i # 1 => i - 1 \in DOMAIN rest /\ rest[i - 1] = ch[i]
  BY <1>2
<1>5. \A i \in DOMAIN rest : rest[i].kind # "reconnect"
  BY <1>3 DEF IInv, Client
<1>6. ~ Reconnecting(rest)
  <2>1. rest # <<>> => 1 \in DOMAIN rest
    BY <1>2
  <2> QED
    BY <1>5, <2>1 DEF Reconnecting
<1>7. ASSUME NEW j, NEW i \in Nat, NoEvent(rest, j, i) PROVE NoEvent(ch, j, i + 1)
  <2>1. ASSUME NEW k \in DOMAIN ch, k > i + 1 PROVE ~ IsEvent(ch[k], j)
    <3>1. k # 1 /\ k - 1 > i
      BY <1>2, <2>1
    <3>2. k - 1 \in DOMAIN rest /\ rest[k - 1] = ch[k]
      BY <1>4, <3>1
    <3> QED
      BY <1>7, <3>1, <3>2 DEF NoEvent
  <2> QED
    BY <2>1 DEF NoEvent
<1>8. ASSUME NEW j \in Jobs, NoEvent(rest, j, 0) PROVE NoEvent(ch, j, 1)
  <2>1. NoEvent(ch, j, 0 + 1)
    BY <1>7, <1>8
  <2> QED
    BY <2>1
<1>9. ASSUME NEW j \in Jobs, subscribed, posting[j] # "broadcast", NEW i \in DOMAIN rest,
             NoEvent(rest, j, i)
      PROVE  /\ IsEvent(rest[i], j) => rest[i].question = question[j]
             /\ rest[i].kind = "list" /\ j \notin rest[i].passed => rest[i].list[j] = question[j]
  <2>1. Learns(m, ch, call, late, j)
    BY <1>9 DEF IInv, Client
  <2>2. i \in Nat
    BY <1>2
  <2>3. i + 1 \in DOMAIN ch /\ rest[i] = ch[i + 1] /\ NoEvent(ch, j, i + 1)
    BY <1>3, <1>7, <1>9, <2>2
  <2> QED
    BY <2>1, <2>3 DEF Learns
<1> QED
  BY <1>2, <1>5, <1>6, <1>8, <1>9 DEF rest

LEMMA OnlyRunning ==
    ASSUME IInv, ch # <<>> \/ call # NoCall \/ m # NoModel \/ \E input \in inputs : input.live
    PROVE  pane = "running"
  BY DEF IInv, Closed

\* A message of the subscription changes nothing of the daemon.
LEMMA ReceiveIsQuiet ==
    ASSUME IInv, Receive
    PROVE  ch # <<>> /\ pane = "running" /\ Quiet
<1>1. ch # <<>> /\ UNCHANGED budget
  BY DEF Receive
<1>2. UNCHANGED jobVars
  BY DEF Receive, Reconnect, JobUpdated, Listed, Update, Quit
<1> QED
  BY <1>1, <1>2, OnlyRunning DEF Quiet

\* The model before it takes up a new subscription.
Anew == [m EXCEPT !.revision = 0]

LEMMA AnewTypes ==
    ASSUME m \in Model
    PROVE  /\ Anew \in Model /\ Anew.revision = 0 /\ Anew.loaded = m.loaded
           /\ Anew.questions = m.questions /\ Anew.typing = m.typing
           /\ Anew.sending = m.sending /\ Anew.dialog = m.dialog
           /\ Anew.dismissed = m.dismissed
  BY DEF Anew, Model

LEMMA ReconnectKeeps ==
    ASSUME IInv, Receive, Head(ch).kind = "reconnect"
    PROVE  IInv'
<1>1. ch # <<>> /\ pane = "running" /\ Quiet
  BY ReceiveIsQuiet
<1>2. Update(Anew, Tail(ch), NewCall, inputs) /\ late' = late
  BY DEF Receive, Reconnect, Anew, history
<1>3. m \in Model /\ Dialogs(m, inputs)
  BY DEF IInv, Client
<1>4. /\ Anew \in Model /\ Anew.revision = 0 /\ Anew.loaded = m.loaded
      /\ Anew.questions = m.questions /\ Anew.typing = m.typing
      /\ Anew.sending = m.sending /\ Anew.dialog = m.dialog
      /\ Anew.dismissed = m.dismissed
  BY <1>3, AnewTypes
<1>5. Dialogs(Anew, inputs)
  BY <1>3, <1>4 DEF Dialogs, KeysOf
<1>6. NewCall \in Requests /\ NewCall.step = "asked" /\ NewCall # NoCall /\ NewCall.heard = {}
  BY NothingKnown DEF IInv, NewCall, NoCall, Requests
<1>7. ASSUME NEW j \in Jobs, subscribed, posting[j] # "broadcast"
      PROVE  Learns(Anew, Tail(ch), NewCall, late, j)
  BY <1>1, <1>6, <1>7, TailFollows DEF Learns
<1>8. Client(Anew, Tail(ch), NewCall, inputs, late)
  BY <1>1, <1>4, <1>5, <1>6, <1>7, TailFollows DEF IInv, Client
<1> QED
  BY <1>1, <1>2, <1>8, UpdateKeeps

LEMMA JobUpdatedKeeps ==
    ASSUME IInv, Receive, Head(ch).kind = "job"
    PROVE  IInv'
<1> DEFINE event == Head(ch)
           told == [m EXCEPT !.questions[event.job] = event.question]
           model == SyncPrompt(told)
           request == HeardOf(event.job)
<1>1. ch # <<>> /\ pane = "running" /\ Quiet
  BY ReceiveIsQuiet
<1>2. Update(model, Tail(ch), request, inputs) /\ late' = late \ {event.job}
  BY DEF Receive, JobUpdated
<1>3. /\ event \in Messages /\ event = ch[1] /\ event.kind = "job"
      /\ event.job \in Jobs /\ event.question \in Numbers
  <2>1. event \in Messages /\ event = ch[1] /\ event.kind = "job"
    BY <1>1, TailFollows
  <2> HIDE DEF event
  <2> QED
    BY <2>1 DEF Messages
<1>4. m \in Model /\ m.questions \in Lists /\ Dialogs(m, inputs) /\ JobTypes
  BY DEF IInv, Client, Model
<1>5. /\ told \in Model /\ told.loaded = m.loaded /\ told.typing = m.typing
      /\ told.sending = m.sending /\ told.dialog = m.dialog /\ told.revision = m.revision
      /\ told.questions = [m.questions EXCEPT ![event.job] = event.question]
  <2> HIDE DEF event
  <2> QED
    BY <1>3, <1>4 DEF Model, Lists
<1> HIDE DEF told
<1>6. /\ model \in Model /\ model.loaded = m.loaded /\ model.revision = m.revision
      /\ model.questions = [m.questions EXCEPT ![event.job] = event.question]
  BY <1>4, <1>5, SyncSettles
<1>7. Dialogs(model, inputs)
  BY <1>4, <1>5, SyncSettles DEF Dialogs
<1>8. /\ request \in Requests /\ request.step = call.step /\ request.list = call.list
      /\ call = NoCall => request = NoCall
      /\ call # NoCall => request.heard = call.heard \cup {event.job}
      /\ call = NoCall => request.heard = {} /\ call.heard = {}
      /\ request.step = "none" => call = NoCall
      /\ request = NoCall => call = NoCall
  <2>1. call \in Requests /\ (call.step = "none" => call = NoCall)
    BY DEF IInv, Client
  <2>2. NoCall.heard = {} /\ NoCall.step = "none"
    BY DEF NoCall
  <2> HIDE DEF event
  <2> QED
    BY <1>3, <2>1, <2>2 DEF HeardOf, Requests
<1> HIDE DEF model, request, event
<1>9. ~ Reconnecting(ch)
  BY <1>3 DEF Reconnecting
<1>10. ASSUME NEW j \in Jobs
       PROVE  model.questions[j] = IF j = event.job THEN event.question ELSE m.questions[j]
  BY <1>3, <1>4, <1>6 DEF Lists
<1>11. ASSUME NEW j \in Jobs, subscribed, posting[j] # "broadcast"
       PROVE  Learns(model, Tail(ch), request, late', j)
  <2>1. Learns(m, ch, call, late, j)
    BY <1>11 DEF IInv, Client
  <2>2. ASSUME NoEvent(Tail(ch), j, 0)
        PROVE  /\ request.step = "answered" /\ j \notin request.heard => request.list[j] = question[j]
               /\ j \in request.heard => model.questions[j] = question[j]
               /\ request = NoCall => model.questions[j] = question[j] \/ j \in late'
    <3>1. NoEvent(ch, j, 1)
      BY <1>1, <2>2, TailFollows
    <3>2. CASE j = event.job
      <4>1. 1 \in DOMAIN ch /\ IsEvent(ch[1], j)
        <5>1. ch \in Seq(Messages)
          BY DEF IInv, Client
        <5> QED
          BY <1>1, <1>3, <3>2, <5>1 DEF IsEvent
      <4>2. event.question = question[j]
        BY <1>3, <2>1, <3>1, <4>1 DEF Learns
      <4>3. request.step = "answered" => j \in request.heard
        <5>1. NoCall.step = "none"
          BY DEF NoCall
        <5> QED
          BY <1>8, <3>2, <5>1
      <4> QED
        BY <1>10, <3>2, <4>2, <4>3
    <3>3. CASE j # event.job
      <4>1. ~ IsEvent(ch[1], j)
        BY <1>3, <3>3 DEF IsEvent
      <4>2. NoEvent(ch, j, 0)
        <5>1. ASSUME NEW i \in DOMAIN ch, i > 0 PROVE i = 1 \/ i > 1
          <6>1. ch \in Seq(Messages)
            BY DEF IInv, Client
          <6> QED
            BY <6>1
        <5> QED
          BY <3>1, <4>1, <5>1 DEF NoEvent
      <4>3. j \in request.heard <=> j \in call.heard
        BY <1>8, <3>3
      <4>4. j \in late => j \in late'
        BY <1>2, <3>3
      <4>5. model.questions[j] = m.questions[j]
        BY <1>10, <3>3
      <4> QED
        BY <1>8, <1>9, <2>1, <4>2, <4>3, <4>4, <4>5 DEF Learns
    <3> QED
      BY <3>2, <3>3
  <2> QED
    BY <1>1, <1>11, <2>2, TailFollows DEF Learns
<1>12. subscribed /\ request = NoCall => model.loaded
  BY <1>6, <1>8, <1>9 DEF IInv, Client
<1>13. request # NoCall => model.revision = 0
  BY <1>6, <1>8 DEF IInv, Client
<1>14. Client(model, Tail(ch), request, inputs, late')
  <2>1. /\ Tail(ch) \in Seq(Messages)
        /\ \A i \in DOMAIN Tail(ch) : Tail(ch)[i].kind # "reconnect"
    BY <1>1, TailFollows
  <2>2. inputs \subseteq Answers /\ \A input \in inputs : input.step # "sent" => input.live
    BY DEF IInv, Client
  <2> QED
    BY <1>6, <1>7, <1>8, <1>11, <1>12, <1>13, <2>1, <2>2 DEF Client
<1> QED
  BY <1>1, <1>2, <1>14, UpdateKeeps

\* The model with a list, before it looks for questions.
Replaced(rev, list, heard) ==
    [m EXCEPT !.revision = rev, !.loaded = TRUE,
              !.questions = [j \in Jobs |-> IF j \in heard THEN @[j] ELSE list[j]]]

LEMMA ReplacedTypes ==
    ASSUME NEW rev \in Nat, NEW list \in Lists, NEW heard, m \in Model
    PROVE  LET told == Replaced(rev, list, heard)
           IN  /\ told \in Model /\ told.loaded /\ told.revision = rev
               /\ told.typing = m.typing /\ told.sending = m.sending
               /\ told.dialog = m.dialog /\ told.dismissed = m.dismissed
               /\ \A j \in Jobs :
                    told.questions[j] = IF j \in heard THEN m.questions[j] ELSE list[j]
  BY DEF Replaced, Model, Lists

\* A list is dropped, or replaces the questions.
LEMMA ListTaken ==
    ASSUME NEW rev \in Nat, NEW list \in Lists, NEW heard, IInv, rev >= m.revision
    PROVE  LET model == ApplyList(m, rev, list, heard)
           IN  /\ model = SyncPrompt(Replaced(rev, list, heard))
               /\ model \in Model /\ model.loaded /\ model.revision = rev
               /\ Dialogs(model, inputs)
               /\ \A j \in Jobs :
                    model.questions[j] = IF j \in heard THEN m.questions[j] ELSE list[j]
<1> DEFINE told == Replaced(rev, list, heard)
           model == SyncPrompt(told)
<1>1. m \in Model /\ m.revision \in Nat /\ Dialogs(m, inputs) /\ JobTypes
  BY DEF IInv, Client, Model
<1>2. ApplyList(m, rev, list, heard) = model
  BY <1>1 DEF ApplyList, Replaced
<1>3. /\ told \in Model /\ told.loaded /\ told.revision = rev
      /\ told.typing = m.typing /\ told.sending = m.sending /\ told.dialog = m.dialog
      /\ \A j \in Jobs : told.questions[j] = IF j \in heard THEN m.questions[j] ELSE list[j]
  BY <1>1, ReplacedTypes
<1> HIDE DEF told
<1>4. /\ model \in Model /\ model.loaded /\ model.revision = rev
      /\ model.questions = told.questions
  BY <1>1, <1>3, SyncSettles
<1>5. Dialogs(model, inputs)
  BY <1>1, <1>3, SyncSettles DEF Dialogs
<1> HIDE DEF model
<1> QED
  BY <1>2, <1>3, <1>4, <1>5 DEF model, told

LEMMA ListedKeeps ==
    ASSUME IInv, Receive, Head(ch).kind = "list"
    PROVE  IInv'
<1> DEFINE event == Head(ch)
           model == ApplyList(m, event.revision, event.list, {})
<1>1. ch # <<>> /\ pane = "running" /\ Quiet
  BY ReceiveIsQuiet
<1>2. /\ Update(model, Tail(ch), NoCall, inputs)
      /\ IF event.revision < m.revision THEN late' = late ELSE late' = event.passed
  BY DEF Receive, Listed, Overtaken, history
<1>3. /\ event \in Messages /\ event = ch[1] /\ event.kind = "list"
      /\ event.revision \in Nat /\ event.list \in Lists
  <2>1. event \in Messages /\ event = ch[1] /\ event.kind = "list"
    BY <1>1, TailFollows
  <2> HIDE DEF event
  <2> QED
    BY <2>1 DEF Messages
<1>4. /\ m \in Model /\ m.revision \in Nat /\ Dialogs(m, inputs) /\ ch \in Seq(Messages)
  BY DEF IInv, Client, Model
<1>5. NoCall \in Requests /\ NoCall.step = "none" /\ NoCall.heard = {}
  BY NothingKnown DEF IInv, NoCall
<1>6. ~ Reconnecting(ch)
  BY <1>3 DEF Reconnecting
<1>7. /\ Tail(ch) \in Seq(Messages)
      /\ \A i \in DOMAIN Tail(ch) : Tail(ch)[i].kind # "reconnect"
  BY <1>1, TailFollows
<1>8. inputs \subseteq Answers /\ \A input \in inputs : input.step # "sent" => input.live
  BY DEF IInv, Client
<1> HIDE DEF event
<1>9. CASE event.revision < m.revision
  <2>1. model = m /\ late' = late
    BY <1>2, <1>9 DEF ApplyList
  <2>2. call = NoCall
    BY <1>3, <1>4, <1>9 DEF IInv, Client
  <2>3. ASSUME NEW j \in Jobs, subscribed, posting[j] # "broadcast"
        PROVE  Learns(m, Tail(ch), NoCall, late, j)
    <3>1. Learns(m, ch, call, late, j)
      BY <2>3 DEF IInv, Client
    <3>2. ASSUME NoEvent(Tail(ch), j, 0)
          PROVE  m.questions[j] = question[j] \/ j \in late
      <4>1. NoEvent(ch, j, 1) /\ ~ IsEvent(ch[1], j)
        BY <1>1, <1>3, <3>2, TailFollows DEF IsEvent
      <4>2. NoEvent(ch, j, 0)
        <5>1. ASSUME NEW i \in DOMAIN ch, i > 0 PROVE i = 1 \/ i > 1
          BY <1>4
        <5> QED
          BY <4>1, <5>1 DEF NoEvent
      <4> QED
        BY <1>6, <2>2, <3>1, <4>2 DEF Learns
    <3> QED
      BY <1>1, <1>5, <2>3, <3>2, TailFollows DEF Learns
  <2>4. Client(m, Tail(ch), NoCall, inputs, late)
    BY <1>4, <1>5, <1>6, <1>7, <1>8, <2>2, <2>3 DEF IInv, Client
  <2> HIDE DEF model
  <2> QED
    BY <1>1, <1>2, <2>1, <2>4, UpdateKeeps
<1>10. CASE ~ (event.revision < m.revision)
  <2>1. /\ model \in Model /\ model.loaded /\ Dialogs(model, inputs)
        /\ \A j \in Jobs : model.questions[j] = event.list[j]
    <3>1. event.revision >= m.revision
      BY <1>3, <1>4, <1>10
    <3> QED
      BY <1>3, <3>1, ListTaken
  <2> HIDE DEF model
  <2>2. late' = event.passed
    BY <1>2, <1>10
  <2>3. ASSUME NEW j \in Jobs, subscribed, posting[j] # "broadcast"
        PROVE  Learns(model, Tail(ch), NoCall, late', j)
    <3>1. Learns(m, ch, call, late, j)
      BY <2>3 DEF IInv, Client
    <3>2. ASSUME NoEvent(Tail(ch), j, 0)
          PROVE  model.questions[j] = question[j] \/ j \in late'
      <4>1. NoEvent(ch, j, 1) /\ 1 \in DOMAIN ch
        BY <1>1, <1>4, <3>2, TailFollows
      <4> QED
        BY <1>3, <2>1, <2>2, <3>1, <4>1 DEF Learns
    <3> QED
      BY <1>1, <1>5, <2>3, <3>2, TailFollows DEF Learns
  <2>4. Client(model, Tail(ch), NoCall, inputs, late')
    BY <1>5, <1>7, <1>8, <2>1, <2>3 DEF Client
  <2> QED
    BY <1>1, <1>2, <2>4, UpdateKeeps
<1> QED
  BY <1>9, <1>10

LEMMA ReceiveKeeps ==
    ASSUME IInv, Receive
    PROVE  IInv'
  BY ReconnectKeeps, JobUpdatedKeeps, ListedKeeps DEF Receive

LEMMA DeliverKeeps ==
    ASSUME IInv, Deliver
    PROVE  IInv'
<1> DEFINE model == ApplyList(m, call.revision, call.list, call.heard)
<1>1. Update(model, ch, NoCall, inputs) /\ call.step = "answered" /\ late' = {}
  BY DEF Deliver
<1>2. Quiet
  <2>1. UNCHANGED budget
    BY DEF Deliver
  <2>2. UNCHANGED jobVars
    BY <1>1 DEF Update, Quit
  <2> QED
    BY <2>1, <2>2 DEF Quiet
<1>3. pane = "running" /\ call # NoCall
  BY <1>1, OnlyRunning DEF NoCall
<1>4. /\ call.revision \in Nat /\ call.list \in Lists
      /\ m.revision = 0 /\ call.revision >= m.revision
  BY <1>3 DEF IInv, Client, Requests
<1>5. /\ model \in Model /\ model.loaded /\ Dialogs(model, inputs)
      /\ \A j \in Jobs :
            model.questions[j] = IF j \in call.heard THEN m.questions[j] ELSE call.list[j]
  BY <1>4, ListTaken
<1>6. NoCall \in Requests /\ NoCall.step = "none" /\ NoCall.heard = {}
  BY NothingKnown DEF IInv, NoCall
<1> HIDE DEF model
<1>7. ASSUME NEW j \in Jobs, subscribed, posting[j] # "broadcast"
      PROVE  Learns(model, ch, NoCall, {}, j)
  <2>1. Learns(m, ch, call, late, j)
    BY <1>7 DEF IInv, Client
  <2> QED
    BY <1>1, <1>5, <1>6, <2>1 DEF Learns
<1>8. Client(model, ch, NoCall, inputs, {})
  BY <1>5, <1>6, <1>7 DEF IInv, Client
<1> QED
  BY <1>1, <1>2, <1>3, <1>8, UpdateKeeps

\* What a step does to the dialog alone.
LEMMA DialogKeeps ==
    ASSUME IInv, budget'.questions = budget.questions, pane = "running",
           NEW model \in Model, NEW answers,
           model.loaded = m.loaded, model.questions = m.questions,
           model.revision = m.revision, late' = late,
           answers \subseteq Answers, \A input \in answers : input.step # "sent" => input.live,
           Dialogs(model, answers),
           Update(model, ch, call, answers)
    PROVE  IInv'
<1>1. Quiet
  BY DEF Update, Quit, Quiet
<1>2. ASSUME NEW j \in Jobs, subscribed, posting[j] # "broadcast"
      PROVE  Learns(model, ch, call, late, j)
  <2>1. Learns(m, ch, call, late, j)
    BY <1>2 DEF IInv, Client
  <2> QED
    BY <2>1 DEF Learns
<1>3. Client(model, ch, call, answers, late)
  BY <1>2 DEF IInv, Client
<1> QED
  BY <1>1, <1>3, UpdateKeeps

\* dismissPrompt leaves a dialog of another question, or none.
LEMMA DismissSettles ==
    ASSUME JobTypes, NEW model \in Model, model.dialog # 0,
           Key(model.dialog) \in KeysOf(model), NEW answers
    PROVE  LET s == DismissPrompt(model)
           IN  /\ s \in Model /\ s.loaded = model.loaded /\ s.questions = model.questions
               /\ s.revision = model.revision /\ Dialogs(s, answers)
<1> DEFINE set == [model EXCEPT !.dismissed = @ \cup {Key(model.dialog)},
                               !.dialog = 0, !.sending = FALSE]
           s == SyncPrompt(set)
<1>1. Key(model.dialog) \in [job : Jobs, text : Texts]
  <2>1. PICK j \in Jobs : model.questions[j] # 0 /\ Key(model.dialog) = Key(model.questions[j])
    BY DEF KeysOf, Waiting
  <2>2. model.questions[j] \in 1 .. Len(budget.questions)
    BY <2>1 DEF Model, Lists, Numbers
  <2>3. budget.questions \in Seq([job : Jobs, text : Texts])
    BY DEF JobTypes
  <2>4. budget.questions[model.questions[j]] \in [job : Jobs, text : Texts]
    BY <2>2, <2>3, ElementOfSeq
  <2> QED
    BY <2>1, <2>4 DEF Key
<1>2. 0 \in Numbers
  BY DEF JobTypes, Numbers
<1>3. /\ set \in Model /\ set.loaded = model.loaded /\ set.questions = model.questions
      /\ ~ set.sending /\ set.revision = model.revision
  BY <1>1, <1>2 DEF Model
<1> HIDE DEF set
<1>4. /\ s \in Model /\ s.loaded = model.loaded /\ s.questions = model.questions
      /\ s.revision = model.revision
  BY <1>3, SyncSettles
<1>5. Dialogs(s, answers)
  BY <1>3, SyncSettles DEF Dialogs
<1> QED
  BY <1>4, <1>5 DEF DismissPrompt, set

LEMMA InputReplyKeeps ==
    ASSUME IInv, NEW input \in inputs, InputReply(input)
    PROVE  IInv'
<1> DEFINE answers == inputs \ {input}
           model == IF m.dialog = 0 \/ Key(input.question) # Key(m.dialog) THEN m
                    ELSE IF input.step = "ok" THEN DismissPrompt(m)
                    ELSE [m EXCEPT !.sending = FALSE]
<1>1. Update(model, ch, call, answers) /\ UNCHANGED <<budget, late>>
  BY DEF InputReply, history
<1>2. input.live /\ pane = "running"
  <2>1. input.live
    BY DEF InputReply, IInv, Client
  <2> QED
    BY <2>1, OnlyRunning
<1>3. m \in Model /\ Dialogs(m, inputs) /\ JobTypes
  BY DEF IInv, Client
<1>4. answers \subseteq Answers /\ \A i \in answers : i.step # "sent" => i.live
  BY DEF IInv, Client
<1>5. /\ model \in Model /\ model.loaded = m.loaded /\ model.questions = m.questions
      /\ model.revision = m.revision /\ Dialogs(model, answers)
  <2>1. CASE m.dialog = 0 \/ Key(input.question) # Key(m.dialog)
    BY <1>3, <2>1 DEF Dialogs
  <2>2. CASE ~ (m.dialog = 0 \/ Key(input.question) # Key(m.dialog)) /\ input.step = "ok"
    <3>1. m.dialog # 0 /\ Key(m.dialog) \in KeysOf(m)
      BY <1>3, <2>2 DEF Dialogs
    <3>2. model = DismissPrompt(m)
      BY <2>2
    <3> HIDE DEF model, answers
    <3> QED
      BY <1>3, <3>1, <3>2, DismissSettles
  <2>3. CASE ~ (m.dialog = 0 \/ Key(input.question) # Key(m.dialog)) /\ input.step # "ok"
    <3>1. /\ model \in Model /\ ~ model.sending /\ model.loaded = m.loaded
          /\ model.revision = m.revision
          /\ model.questions = m.questions /\ model.dialog = m.dialog
          /\ model.typing = m.typing /\ model.dismissed = m.dismissed
      BY <1>3, <2>3 DEF Model
    <3> HIDE DEF model
    <3> QED
      BY <1>3, <3>1 DEF Dialogs, KeysOf
  <2> QED
    BY <2>1, <2>2, <2>3
<1> HIDE DEF model, answers
<1> QED
  BY <1>1, <1>2, <1>4, <1>5, DialogKeeps

-----------------------------------------------------------------------------
(* The keys *)

LEMMA UserQuitsKeeps ==
    ASSUME IInv, UserQuits
    PROVE  IInv'
<1>1. Quiet /\ Quit("left")
  BY DEF UserQuits, Quit, Quiet
<1> QED
  BY <1>1, QuitKeeps

LEMMA SetAsideKeeps ==
    ASSUME IInv, SetAside
    PROVE  IInv'
<1>1. /\ Update(DismissPrompt(m), ch, call, inputs) /\ UNCHANGED <<budget, late>>
      /\ pane = "running" /\ m.dialog # 0
  BY DEF SetAside
<1>2. /\ JobTypes /\ m \in Model /\ Key(m.dialog) \in KeysOf(m)
      /\ inputs \subseteq Answers /\ \A i \in inputs : i.step # "sent" => i.live
  BY <1>1 DEF IInv, Client, Dialogs
<1> QED
  BY <1>1, <1>2, DismissSettles, DialogKeeps

LEMMA AnswerKeeps ==
    ASSUME IInv, Answer
    PROVE  IInv'
<1> DEFINE model == [m EXCEPT !.sending = TRUE]
           input == [question |-> m.dialog, step |-> "sent", live |-> TRUE]
           answers == inputs \cup {input}
<1>1. /\ Update(model, ch, call, answers) /\ budget'.questions = budget.questions
      /\ pane = "running" /\ m.dialog # 0 /\ late' = late
  BY DEF Answer, history
<1>2. m \in Model /\ Dialogs(m, inputs)
  BY DEF IInv, Client
<1>3. /\ input \in Answers /\ input.live /\ input.step = "sent" /\ input.question = m.dialog
  BY <1>2 DEF Model, Answers
<1>4. answers \subseteq Answers /\ \A i \in answers : i.step # "sent" => i.live
  BY <1>3 DEF IInv, Client
<1>5. /\ model \in Model /\ model.loaded = m.loaded /\ model.questions = m.questions
      /\ model.dialog = m.dialog /\ model.typing = m.typing /\ model.dismissed = m.dismissed
      /\ model.revision = m.revision
  BY <1>2 DEF Model
<1> HIDE DEF model, input
<1>6. Dialogs(model, answers)
  BY <1>1, <1>2, <1>3, <1>5 DEF Dialogs, KeysOf
<1> HIDE DEF answers
<1> QED
  BY <1>1, <1>4, <1>5, <1>6, DialogKeeps

LEMMA StartTypingKeeps ==
    ASSUME IInv, StartTyping
    PROVE  IInv'
<1> DEFINE model == [m EXCEPT !.typing = TRUE]
<1>1. /\ Update(model, ch, call, inputs) /\ UNCHANGED <<budget, late>>
      /\ pane = "running" /\ m.dialog = 0
  BY DEF StartTyping, history
<1>2. /\ m \in Model /\ Dialogs(m, inputs)
      /\ inputs \subseteq Answers /\ \A i \in inputs : i.step # "sent" => i.live
  BY DEF IInv, Client
<1>3. /\ model \in Model /\ model.loaded = m.loaded /\ model.questions = m.questions
      /\ model.dialog = m.dialog /\ model.typing /\ model.dismissed = m.dismissed
      /\ model.sending = m.sending /\ model.revision = m.revision
  BY <1>2 DEF Model
<1> HIDE DEF model
<1>4. Dialogs(model, inputs)
  BY <1>1, <1>2, <1>3 DEF Dialogs, KeysOf
<1> QED
  BY <1>1, <1>2, <1>3, <1>4, DialogKeeps

LEMMA StopTypingKeeps ==
    ASSUME IInv, StopTyping
    PROVE  IInv'
<1> DEFINE model == [m EXCEPT !.typing = FALSE]
<1>1. /\ Update(SyncPrompt(model), ch, call, inputs) /\ UNCHANGED <<budget, late>>
      /\ pane = "running" /\ m.dialog = 0
  BY DEF StopTyping, history
<1>2. /\ m \in Model /\ Dialogs(m, inputs) /\ JobTypes
      /\ inputs \subseteq Answers /\ \A i \in inputs : i.step # "sent" => i.live
  BY DEF IInv, Client
<1>3. /\ model \in Model /\ model.loaded = m.loaded /\ model.questions = m.questions
      /\ model.dialog = m.dialog /\ model.sending = m.sending
      /\ model.revision = m.revision
  BY <1>2 DEF Model
<1> HIDE DEF model
<1>4. /\ SyncPrompt(model) \in Model /\ SyncPrompt(model).loaded = m.loaded
      /\ SyncPrompt(model).questions = m.questions
      /\ SyncPrompt(model).revision = m.revision
  BY <1>2, <1>3, SyncSettles
<1>5. Dialogs(SyncPrompt(model), inputs)
  BY <1>2, <1>3, SyncSettles DEF Dialogs
<1> QED
  BY <1>1, <1>2, <1>4, <1>5, DialogKeeps

LEMMA RecallKeeps ==
    ASSUME IInv, Recall
    PROVE  IInv'
<1>1. PICK q \in Waiting(m.questions) : Update(OpenPrompt(m, q), ch, call, inputs)
  BY DEF Recall
<1>2. UNCHANGED <<budget, late>> /\ pane = "running"
  BY DEF Recall, history
<1>3. /\ m \in Model /\ Dialogs(m, inputs) /\ JobTypes
      /\ inputs \subseteq Answers /\ \A i \in inputs : i.step # "sent" => i.live
  BY DEF IInv, Client
<1>4. q \in Numbers \ {0} /\ Key(q) \in KeysOf(m)
  BY <1>3 DEF Waiting, Model, Lists, KeysOf
<1> DEFINE model == OpenPrompt(m, q)
<1>5. /\ model \in Model /\ model.loaded = m.loaded /\ model.questions = m.questions
      /\ model.dialog = q /\ ~ model.sending /\ model.dismissed = m.dismissed
      /\ model.revision = m.revision
  BY <1>3, <1>4 DEF Model, OpenPrompt
<1>6. Update(model, ch, call, inputs)
  BY <1>1
<1> HIDE DEF model
<1>7. Dialogs(model, inputs)
  BY <1>3, <1>4, <1>5 DEF Dialogs, KeysOf
<1> QED
  BY <1>2, <1>3, <1>5, <1>6, <1>7, DialogKeeps

-----------------------------------------------------------------------------
(* The theorems *)

LEMMA Initially ==
    ASSUME Init
    PROVE  IInv
<1>1. JobTypes
  <2>1. budget \in Budgets /\ budget.questions \in Seq([job : Jobs, text : Texts])
    BY BudgetsAssumption DEF Init
  <2>2. 0 \in Numbers
    BY <2>1 DEF Numbers
  <2>3. question \in Lists /\ NoList \in Lists
    BY <2>2 DEF Init, NoList, Lists
  <2>4. listing \in Listings
    BY <2>3 DEF Init, NoListing, Listings
  <2> QED
    BY <2>1, <2>2, <2>3, <2>4 DEF Init, JobTypes
<1>2. Dialogs(m, inputs)
  BY <1>1, NothingKnown DEF Init, Dialogs, NoModel
<1>3. NoCall.step = "none"
  BY DEF NoCall
<1>4. Client(m, ch, call, inputs, late)
  BY <1>1, <1>2, <1>3, NothingKnown DEF Init, Client
<1>5. Taken
  BY DEF Init, NoListing, Taken
<1> QED
  BY <1>1, <1>4, <1>5 DEF Init, IInv, Closed, NoModel

LEMMA StepKeeps ==
    ASSUME IInv, [Next]_vars
    PROVE  IInv'
<1>1. ASSUME NEW j \in Jobs, Ask(j) \/ Withdraw(j) PROVE IInv'
  BY <1>1, AskKeeps, WithdrawKeeps
<1>2. ASSUME NEW j \in Jobs, TakeAnswer(j) \/ Broadcast(j) \/ RequestAttention(j) PROVE IInv'
  BY <1>2, TakeAnswerKeeps, BroadcastKeeps, RequestAttentionKeeps
<1>3. CASE PaneOpens
  BY <1>3, StartsKeeps DEF PaneOpens
<1>4. CASE OpenManager
  BY <1>4, StartsKeeps DEF OpenManager
<1>5. CASE PaneRefused \/ OpeningEnds \/ SubscriptionEnds
  <2>1. Quiet /\ UNCHANGED <<pane, kind, subscribed, clientVars, inputs, late>>
    BY <1>5 DEF PaneRefused, OpeningEnds, SubscriptionEnds, Quiet, history
  <2> QED
    BY <2>1, AsideKeeps
<1>6. ASSUME NEW input \in inputs, ServeInput(input) \/ InputReply(input) PROVE IInv'
  BY <1>6, ServeInputKeeps, InputReplyKeeps
<1>7. CASE ServeList \/ Lose
  BY <1>7, ServeListKeeps, LoseKeeps
<1>8. CASE Subscribe \/ PaneGone \/ Receive \/ Deliver
  BY <1>8, SubscribeKeeps, PaneGoneKeeps, ReceiveKeeps, DeliverKeeps
<1>9. CASE Keys
  BY <1>9, UserQuitsKeeps, SetAsideKeeps, AnswerKeeps, StartTypingKeeps, StopTypingKeeps,
     RecallKeeps DEF Keys
<1>10. CASE RefreshSet \/ RefreshSnapshot \/ RefreshPost
  BY <1>10, RefreshKeeps, RefreshPostKeeps
<1>11. CASE UNCHANGED vars
  <2>1. Quiet /\ UNCHANGED <<pane, kind, subscribed, clientVars, inputs, late>>
    BY <1>11 DEF vars, Quiet, history
  <2> QED
    BY <2>1, AsideKeeps
<1> QED
  BY <1>1, <1>2, <1>3, <1>4, <1>5, <1>6, <1>7, <1>8, <1>9, <1>10, <1>11
     DEF Next, Daemon, Popup

\* Prompts keeps its inductive invariant: of every job, the popup knows what it
\* asks or is about to learn it.
THEOREM Invariance == Spec => []IInv
<1>1. Init => IInv
  BY Initially
<1>2. IInv /\ [Next]_vars => IInv'
  BY StepKeeps
<1> QED
  BY <1>1, <1>2, PTL DEF Spec

\* A dialog shows a question that the popup believes is asked, what was set
\* aside is asked, and an answer under way belongs to the dialog
\* (prompt.go:37-78, syncPrompt).
THEOREM TypeCorrect == Spec => []TypeOK
<1>1. IInv => TypeOK
  BY DEF IInv, Closed, Client, Dialogs, KeysOf, TypeOK
<1> QED
  BY <1>1, Invariance, PTL

\* All news arrived.
LEMMA UpToDateKnows ==
    ASSUME IInv, UpToDate, NEW j \in Jobs, j \notin late
    PROVE  m.questions[j] = question[j]
<1>1. Learns(m, ch, call, late, j)
  BY DEF UpToDate, IInv, Client
<1>2. ch = <<>> /\ call = NoCall
  BY DEF UpToDate
<1>3. DOMAIN ch = {} /\ ~ Reconnecting(ch)
  BY <1>2 DEF Reconnecting
<1>4. NoEvent(ch, j, 0)
  BY <1>3 DEF NoEvent
<1> QED
  BY <1>1, <1>2, <1>3, <1>4 DEF Learns

\* A popup that is up to date shows what the jobs ask, whatever popups were
\* opened, streams lost and lists crossed with events before, except for a job
\* that a list event set back: one whose snapshot an event of the job had
\* overtaken (prompt.go:39-43, model.go:133-136).
THEOREM Shown == Spec => []ShowsQuestions
<1>1. ASSUME IInv, UpToDate PROVE \A j \in Jobs \ late : m.questions[j] = question[j]
  BY <1>1, UpToDateKnows
<1>2. ASSUME IInv, pane = "running", UpToDate, m.dialog = 0
      PROVE  /\ kind = "manager"
             /\ m.typing \/ {Key(q) : q \in Waiting(m.questions)} \subseteq m.dismissed
  <2>1. m.loaded
    BY <1>2 DEF UpToDate, IInv, Client, Reconnecting
  <2>2. kind = "manager"
    BY <1>2, <2>1 DEF IInv
  <2>3. m.typing \/ KeysOf(m) \subseteq m.dismissed
    BY <1>2 DEF IInv, Client, Dialogs
  <2> QED
    BY <2>2, <2>3 DEF KeysOf
<1>3. IInv => ShowsQuestions
  BY <1>1, <1>2 DEF ShowsQuestions
<1> QED
  BY <1>3, Invariance, PTL

-----------------------------------------------------------------------------
(***************************************************************************)
(* What the steps may do to the dialog: a draft survives what happens in    *)
(* the background, and no dialog takes the focus by itself.                 *)
(*                                                                          *)
(* Both rest on the order in which news travel.  A question that a job      *)
(* still asks and that the popup knows cannot be missing from a later reply *)
(* of the daemon: the reply was made after the question was asked, or an    *)
(* event about the job came after the request.  A list event can lack it:   *)
(* then what was set aside is forgotten, and aside tells.                   *)
(***************************************************************************)

\* The questions of job j so far.
Own(j) == {q \in 0 .. asked : q # 0 => Key(q).job = j}

Owned(model, messages, request) ==
    /\ \A j \in Jobs : model.questions[j] \in Own(j) /\ request.list[j] \in Own(j)
    /\ \A i \in DOMAIN messages :
        /\ messages[i].kind = "job" => messages[i].question \in Own(messages[i].job)
        /\ messages[i].kind = "list" => \A j \in Jobs : messages[i].list[j] \in Own(j)
    /\ model.dialog \in 0 .. asked

\* A reply that will be believed holds the question that the popup knows.
Current(model, request) ==
    \A j \in Jobs :
        (/\ request.step = "answered" /\ j \notin request.heard
         /\ question[j] # 0 /\ question[j] \in {model.questions[j], model.dialog})
        => request.list[j] = question[j]

\* What was set aside stays known and set aside for as long as it is asked.
Stays(model, messages, set) ==
    \A j \in Jobs : question[j] \in set =>
        /\ posting[j] # "broadcast"
        /\ \A i \in DOMAIN messages : ~ IsEvent(messages[i], j)
        /\ model.questions[j] = question[j]
        /\ Key(question[j]) \in model.dismissed

PInv ==
    /\ IInv
    /\ \A j \in Jobs : question[j] \in Own(j) /\ listing.list[j] \in Own(j)
    /\ aside \subseteq 1 .. asked
    /\ Owned(m, ch, call) /\ Current(m, call)
    /\ pane = "running" => Stays(m, ch, aside)

-----------------------------------------------------------------------------
(* Numbers *)

LEMMA OwnJob ==
    ASSUME JobTypes, NEW q \in 1 .. asked
    PROVE  Key(q).job \in Jobs
<1>1. budget.questions \in Seq([job : Jobs, text : Texts]) /\ q \in 1 .. Len(budget.questions)
  BY DEF JobTypes, Numbers
<1>2. budget.questions[q] \in [job : Jobs, text : Texts]
  BY <1>1, ElementOfSeq
<1> QED
  BY <1>2 DEF Key

LEMMA NothingOwned ==
    ASSUME JobTypes
    PROVE  /\ asked \in Nat
           /\ \A j \in Jobs : 0 \in Own(j)
           /\ \A j \in Jobs : NoModel.questions[j] = 0 /\ NoCall.list[j] = 0
                              /\ NoListing.list[j] = 0
           /\ NoModel.dialog = 0 /\ NoCall.step = "none" /\ NoCall.heard = {}
<1>1. asked \in Nat
  BY DEF JobTypes, Numbers
<1> QED
  BY <1>1 DEF Own, NoModel, NoCall, NoListing, NoList

\* The popup's belief of a question is about the job that asked it.
LEMMA DialogOwned ==
    ASSUME PInv, m.dialog # 0
    PROVE  LET j == Key(m.dialog).job
           IN  j \in Jobs /\ m.questions[j] # 0 /\ Key(m.questions[j]) = Key(m.dialog)
<1>1. m.dialog \in 1 .. asked
  BY DEF PInv, Owned, IInv, JobTypes, Numbers
<1>2. Key(m.dialog) \in KeysOf(m)
  BY DEF PInv, IInv, Client, Dialogs
<1>3. PICK k \in Jobs : m.questions[k] # 0 /\ Key(m.questions[k]) = Key(m.dialog)
  BY <1>2 DEF KeysOf, Waiting
<1>4. Key(m.questions[k]).job = k
  BY <1>3 DEF PInv, Owned, Own
<1> QED
  BY <1>3, <1>4

-----------------------------------------------------------------------------
(* syncPrompt *)

\* A dialog whose question is known stays, and another opens only for a known
\* question that was not set aside while the user does not type.
LEMMA SyncChooses ==
    ASSUME JobTypes, NEW model \in Model
    PROVE  LET s == SyncPrompt(model)
           IN  /\ s.dismissed = model.dismissed \cap KeysOf(model)
               /\ model.dialog # 0 /\ Key(model.dialog) \in KeysOf(model) =>
                    s.dialog = model.dialog
               /\ s.dialog \notin {0, model.dialog} =>
                    /\ s.dialog \in Waiting(model.questions)
                    /\ Key(s.dialog) \notin model.dismissed
                    /\ ~ model.typing
<1> DEFINE waiting == Waiting(model.questions)
           keys == {Key(q) : q \in waiting}
           next == {q \in waiting : Key(q) \notin model.dismissed}
           kept == [model EXCEPT !.dismissed = @ \cap keys]
           s == SyncPrompt(model)
<1>1. waiting \subseteq Numbers \ {0}
  BY DEF Waiting, Model, Lists
<1>2. /\ kept \in Model /\ kept.dismissed = model.dismissed \cap keys
      /\ kept.dialog = model.dialog
  BY DEF Model
<1>3. keys = KeysOf(model)
  BY DEF KeysOf
<1>4. CASE model.dialog # 0 /\ Key(model.dialog) \in keys
  <2>1. s = kept
    BY <1>4 DEF SyncPrompt
  <2> QED
    BY <1>2, <1>3, <2>1
<1>5. CASE ~ (model.dialog # 0 /\ Key(model.dialog) \in keys) /\ next # {} /\ ~ model.typing
  <2>1. s = OpenPrompt(kept, First(next))
    BY <1>5 DEF SyncPrompt
  <2>2. First(next) \in next
    BY <1>1, <1>5, FirstExists
  <2>3. s.dialog = First(next) /\ s.dismissed = kept.dismissed
    <3> HIDE DEF kept, next
    <3> QED
      BY <1>2, <2>1 DEF OpenPrompt, Model
  <2> QED
    BY <1>2, <1>3, <1>5, <2>2, <2>3
<1>6. CASE ~ (model.dialog # 0 /\ Key(model.dialog) \in keys) /\ ~ (next # {} /\ ~ model.typing)
  <2>1. s = [kept EXCEPT !.dialog = 0, !.sending = FALSE]
    BY <1>6 DEF SyncPrompt
  <2>2. s.dialog = 0 /\ s.dismissed = kept.dismissed
    <3> HIDE DEF kept
    <3> QED
      BY <1>2, <2>1 DEF Model
  <2> QED
    BY <1>2, <1>3, <1>6, <2>2
<1> QED
  BY <1>4, <1>5, <1>6

LEMMA SyncKeeps ==
    ASSUME JobTypes, \A j \in Jobs : question[j] \in Own(j),
           NEW model \in Model, NEW messages, NEW request, NEW set,
           Owned(model, messages, request), Current(model, request),
           set \subseteq 1 .. asked, Stays(model, messages, set)
    PROVE  LET s == SyncPrompt(model)
           IN  Owned(s, messages, request) /\ Current(s, request) /\ Stays(s, messages, set)
<1> DEFINE s == SyncPrompt(model)
<1>1. s.questions = model.questions
  BY SyncSettles
<1>2. s.dialog \in {0, model.dialog} \/ \E k \in Jobs : s.dialog = model.questions[k]
  BY SyncChooses DEF Waiting
<1>3. s.dismissed = model.dismissed \cap KeysOf(model)
  BY SyncChooses
<1> HIDE DEF s
<1>4. asked \in Nat /\ \A j \in Jobs : Own(j) \subseteq 0 .. asked
  BY DEF JobTypes, Numbers, Own
<1>5. Owned(s, messages, request)
  BY <1>1, <1>2, <1>4 DEF Owned
<1>6. ASSUME NEW j \in Jobs, question[j] # 0, question[j] = s.dialog
      PROVE  question[j] \in {model.questions[j], model.dialog}
  <2>1. ASSUME NEW k \in Jobs, s.dialog = model.questions[k] PROVE k = j
    <3>1. question[j] \in Own(k) /\ question[j] \in Own(j)
      BY <1>6, <2>1 DEF Owned
    <3> QED
      BY <1>6, <3>1 DEF Own
  <2> QED
    BY <1>2, <1>6, <2>1
<1>7. Current(s, request)
  BY <1>1, <1>6 DEF Current
<1>8. ASSUME NEW j \in Jobs, question[j] \in set
      PROVE  Key(question[j]) \in s.dismissed
  <2>1. model.questions[j] = question[j] /\ question[j] # 0 /\ Key(question[j]) \in model.dismissed
    BY <1>8 DEF Stays
  <2>2. Key(question[j]) \in KeysOf(model)
    BY <2>1 DEF KeysOf, Waiting
  <2> QED
    BY <1>3, <2>1, <2>2
<1>9. Stays(s, messages, set)
  BY <1>1, <1>8 DEF Stays
<1> QED
  BY <1>5, <1>7, <1>9 DEF s

-----------------------------------------------------------------------------
(* The daemon's steps *)

\* Nothing that the popup knows or set aside changes.
LEMMA PAside ==
    ASSUME PInv, IInv', Quiet, UNCHANGED <<pane, m, ch, call, aside>>
    PROVE  PInv'
<1>1. \A j : Own(j)' = Own(j)
  BY DEF Own, Key, Quiet
<1>2. Owned(m, ch, call)' /\ Current(m, call)'
  BY <1>1 DEF PInv, Owned, Current, Quiet
<1>3. Stays(m, ch, aside) => Stays(m, ch, aside)'
  BY DEF Stays, IsEvent, Key, Quiet
<1> QED
  BY <1>1, <1>2, <1>3 DEF PInv, Quiet

\* A question that comes up is new; one that goes is not asked again.
LEMMA PJobUpdate ==
    ASSUME PInv, IInv', NEW j \in Jobs, NEW q, JobUpdate(j, q),
           \/ q = 0 /\ asked' = asked
           \/ q = asked + 1 /\ asked' = q /\ Key(q).job = j,
           UNCHANGED <<budget, revision, listing, popupVars, inputs, aside>>
    PROVE  PInv'
<1>1. asked \in Nat /\ asked' \in Nat /\ asked <= asked'
  BY NothingOwned DEF PInv, IInv
<1>2. \A k \in Jobs : Own(k) \subseteq Own(k)'
  BY <1>1 DEF Own, Key
<1>3. /\ question' = [question EXCEPT ![j] = q] /\ question \in [Jobs -> Numbers]
      /\ posting' = [posting EXCEPT ![j] = "broadcast"]
      /\ posting \in [Jobs -> {"none", "broadcast", "attend"}]
  BY DEF JobUpdate, PInv, IInv, JobTypes, Lists
<1>4. q \in Own(j)'
  BY <1>1 DEF Own, Key
<1>5. ASSUME NEW k \in Jobs PROVE question'[k] \in Own(k)' /\ listing'.list[k] \in Own(k)'
  <2>1. listing'.list[k] \in Own(k)'
    BY <1>2 DEF PInv
  <2> QED
    BY <1>2, <1>3, <1>4, <2>1 DEF PInv
<1>6. Owned(m, ch, call)'
  <2>1. \A k \in Jobs : m.questions[k] \in Own(k)' /\ call.list[k] \in Own(k)'
    BY <1>2 DEF PInv, Owned
  <2>2. ASSUME NEW i \in DOMAIN ch, ch[i].kind = "job"
        PROVE  ch[i].question \in Own(ch[i].job)'
    <3>1. ch[i] \in Messages
      BY DEF PInv, IInv, Client
    <3>2. ch[i].job \in Jobs
      BY <2>2, <3>1 DEF Messages
    <3> QED
      BY <1>2, <2>2, <3>2 DEF PInv, Owned
  <2>3. m.dialog \in 0 .. asked'
    BY <1>1 DEF PInv, Owned
  <2>4. m' = m /\ ch' = ch /\ call' = call
    OBVIOUS
  <2>5. ASSUME NEW i \in DOMAIN ch, ch[i].kind = "list", NEW k \in Jobs
        PROVE  ch[i].list[k] \in Own(k)'
    BY <1>2, <2>5 DEF PInv, Owned
  <2> QED
    BY <2>1, <2>2, <2>3, <2>4, <2>5 DEF Owned
<1>7. Current(m, call)'
  <2>1. ASSUME NEW k \in Jobs, question'[k] # 0, question'[k] \in {m.questions[k], m.dialog}
        PROVE  question'[k] = question[k]
    <3>1. m.questions[k] <= asked /\ m.dialog <= asked
      BY <1>1 DEF PInv, Owned, Own
    <3>2. CASE k = j
      BY <1>1, <1>3, <2>1, <3>1, <3>2
    <3>3. CASE k # j
      BY <1>3, <3>3
    <3> QED
      BY <3>2, <3>3
  <2> QED
    BY <2>1 DEF PInv, Current
<1>8. ASSUME Stays(m, ch, aside) PROVE Stays(m, ch, aside)'
  <2>1. ASSUME NEW k \in Jobs, question'[k] \in aside
        PROVE  question'[k] = question[k] /\ posting'[k] = posting[k]
    <3>1. question'[k] \in 1 .. asked
      BY <2>1 DEF PInv
    <3>2. k # j
      BY <1>1, <1>3, <3>1
    <3> QED
      BY <1>3, <3>2
  <2> QED
    BY <1>8, <2>1 DEF Stays, IsEvent, Key
<1>9. aside' \subseteq 1 .. asked'
  BY <1>1 DEF PInv
<1> QED
  BY <1>5, <1>6, <1>7, <1>8, <1>9 DEF PInv

LEMMA PAsk ==
    ASSUME PInv, IInv', NEW j \in Jobs, Ask(j)
    PROVE  PInv'
  BY PJobUpdate DEF Ask, history

LEMMA PWithdraw ==
    ASSUME PInv, IInv', NEW j \in Jobs, Withdraw(j)
    PROVE  PInv'
  BY PJobUpdate DEF Withdraw, history

LEMMA PTakeAnswer ==
    ASSUME PInv, IInv', NEW j \in Jobs, TakeAnswer(j)
    PROVE  PInv'
<1>1. CASE question[j] # 0
  BY <1>1, PJobUpdate DEF TakeAnswer, history
<1>2. CASE question[j] = 0
  BY <1>2, PAside DEF TakeAnswer, Quiet, history
<1> QED
  BY <1>1, <1>2

LEMMA PBroadcast ==
    ASSUME PInv, IInv', NEW j \in Jobs, Broadcast(j)
    PROVE  PInv'
<1> DEFINE event == [kind |-> "job", job |-> j, question |-> question[j]]
<1>1. /\ budget' = budget /\ asked' = asked /\ question' = question /\ pane' = pane
      /\ m' = m /\ call' = call /\ aside' = aside
      /\ posting' = [posting EXCEPT ![j] = "attend"] /\ posting[j] = "broadcast"
      /\ ch' \in {ch, Append(ch, event)}
  BY DEF Broadcast, history
<1>2. \A k : Own(k)' = Own(k)
  BY <1>1 DEF Own, Key
<1>3. ASSUME NEW i \in DOMAIN ch'
      PROVE  (i \in DOMAIN ch /\ ch'[i] = ch[i]) \/ ch'[i] = event
  <2>1. ch \in Seq(Messages) /\ event \in Messages
    BY DEF PInv, IInv, Client, JobTypes, Lists, Messages
  <2> HIDE DEF event
  <2> QED
    BY <1>1, <1>3, <2>1
<1>4. event.kind = "job" /\ event.job = j /\ event.question = question[j]
  OBVIOUS
<1> HIDE DEF event
<1>5. Owned(m, ch, call)'
  <2>1. \A i \in DOMAIN ch' :
            /\ ch'[i].kind = "job" => ch'[i].question \in Own(ch'[i].job)
            /\ ch'[i].kind = "list" => \A k \in Jobs : ch'[i].list[k] \in Own(k)
    BY <1>3, <1>4 DEF PInv, Owned
  <2> QED
    BY <1>1, <1>2, <2>1 DEF PInv, Owned
<1>6. Current(m, call)'
  BY <1>1 DEF PInv, Current
<1>7. ASSUME Stays(m, ch, aside) PROVE Stays(m, ch, aside)'
  <2>1. ASSUME NEW k \in Jobs, question[k] \in aside
        PROVE  /\ posting'[k] # "broadcast" /\ m.questions[k] = question[k]
               /\ Key(question[k]) \in m.dismissed
               /\ \A i \in DOMAIN ch' : ~ IsEvent(ch'[i], k)
    <3>1. k # j /\ posting[k] # "broadcast" /\ m.questions[k] = question[k]
          /\ Key(question[k]) \in m.dismissed /\ \A i \in DOMAIN ch : ~ IsEvent(ch[i], k)
      BY <1>1, <1>7, <2>1 DEF Stays
    <3>2. posting'[k] = posting[k]
      BY <1>1, <3>1 DEF PInv, IInv, JobTypes
    <3>3. \A i \in DOMAIN ch' : ~ IsEvent(ch'[i], k)
      BY <1>3, <1>4, <3>1 DEF IsEvent
    <3> QED
      BY <3>1, <3>2, <3>3
  <2> QED
    BY <1>1, <2>1 DEF Stays, IsEvent, Key
<1>8. listing'.list = listing.list
  BY DEF Broadcast, PInv, IInv, JobTypes, Listings
<1>9. \A k \in Jobs : listing'.list[k] \in Own(k)'
  BY <1>2, <1>8 DEF PInv
<1>10. \A k \in Jobs : question'[k] \in Own(k)'
  BY <1>1, <1>2 DEF PInv
<1> QED
  BY <1>1, <1>5, <1>6, <1>7, <1>9, <1>10 DEF PInv

\* What a refresh broadcasts was asked.
LEMMA PRefresh ==
    ASSUME PInv, IInv', RefreshSet \/ RefreshSnapshot \/ RefreshPost
    PROVE  PInv'
<1> DEFINE event == [kind |-> "list", revision |-> revision,
                     list |-> listing.list, passed |-> listing.passed]
<1>1. /\ budget'.questions = budget.questions /\ asked' = asked /\ question' = question
      /\ posting' = posting /\ pane' = pane /\ m' = m /\ call' = call /\ aside' = aside
      /\ ch' \in {ch, Append(ch, event)}
      /\ listing'.list \in {listing.list, question, NoListing.list}
  <2>1. listing \in Listings
    BY DEF PInv, IInv, JobTypes
  <2>2. CASE RefreshSet
    BY <2>1, <2>2 DEF RefreshSet, Listings, history
  <2>3. CASE RefreshSnapshot
    BY <2>3 DEF RefreshSnapshot, history
  <2>4. CASE RefreshPost
    BY <2>4 DEF RefreshPost, history
  <2> QED
    BY <2>2, <2>3, <2>4
<1>2. \A k : Own(k)' = Own(k)
  BY <1>1 DEF Own, Key
<1>3. ASSUME NEW k \in Jobs PROVE question'[k] \in Own(k)' /\ listing'.list[k] \in Own(k)'
  <2>1. NoListing.list[k] \in Own(k)
    BY NothingOwned DEF PInv, IInv
  <2> QED
    BY <1>1, <1>2, <2>1 DEF PInv
<1>4. ASSUME NEW i \in DOMAIN ch'
      PROVE  (i \in DOMAIN ch /\ ch'[i] = ch[i]) \/ ch'[i] = event
  <2>1. ch \in Seq(Messages) /\ event \in Messages
    BY DEF PInv, IInv, Client, JobTypes, Listings, Messages
  <2> HIDE DEF event
  <2> QED
    BY <1>1, <1>4, <2>1
<1>5. event.kind = "list" /\ \A k \in Jobs : event.list[k] \in Own(k)
  BY DEF PInv
<1> HIDE DEF event
<1>6. Owned(m, ch, call)'
  <2>1. \A i \in DOMAIN ch' :
            /\ ch'[i].kind = "job" => ch'[i].question \in Own(ch'[i].job)
            /\ ch'[i].kind = "list" => \A k \in Jobs : ch'[i].list[k] \in Own(k)
    BY <1>4, <1>5 DEF PInv, Owned
  <2> QED
    BY <1>1, <1>2, <2>1 DEF PInv, Owned
<1>7. Current(m, call)'
  BY <1>1 DEF PInv, Current
<1>8. ASSUME Stays(m, ch, aside) PROVE Stays(m, ch, aside)'
  <2>1. ASSUME NEW k \in Jobs, question[k] \in aside
        PROVE  \A i \in DOMAIN ch' : ~ IsEvent(ch'[i], k)
    BY <1>4, <1>5, <1>8, <2>1 DEF Stays, IsEvent
  <2> QED
    BY <1>1, <1>8, <2>1 DEF Stays, IsEvent, Key
<1> QED
  BY <1>1, <1>3, <1>6, <1>7, <1>8 DEF PInv

LEMMA PRequestAttention ==
    ASSUME PInv, IInv', NEW j \in Jobs, RequestAttention(j)
    PROVE  PInv'
<1>1. /\ budget' = budget /\ asked' = asked /\ question' = question /\ pane' = pane
      /\ m' = m /\ ch' = ch /\ call' = call /\ aside' = aside
      /\ posting' = [posting EXCEPT ![j] = "none"] /\ listing' = listing
  BY DEF RequestAttention, history
<1>2. \A k : Own(k)' = Own(k)
  BY <1>1 DEF Own, Key
<1>3. Owned(m, ch, call)' /\ Current(m, call)'
  BY <1>1, <1>2 DEF PInv, Owned, Current
<1>4. \A k \in Jobs : posting[k] # "broadcast" => posting'[k] # "broadcast"
  BY <1>1 DEF PInv, IInv, JobTypes
<1>5. Stays(m, ch, aside) => Stays(m, ch, aside)'
  BY <1>1, <1>4 DEF Stays, IsEvent, Key
<1> QED
  BY <1>1, <1>2, <1>3, <1>5 DEF PInv

LEMMA PStarts ==
    ASSUME PInv, IInv', NEW what \in {"manager", "prompt"}, Starts(what),
           UNCHANGED <<jobVars, subscribed, ch, m, inputs>>
    PROVE  PInv'
<1>1. Quiet /\ call' = NewCall /\ aside' = {} /\ m' = m /\ ch' = ch
  BY DEF Starts, Quiet
<1>2. \A j : Own(j)' = Own(j)
  BY <1>1 DEF Own, Key, Quiet
<1>3. NewCall.step = "asked" /\ NewCall.list = NoCall.list
  BY DEF NewCall, NoCall
<1>4. \A j \in Jobs : NewCall.list[j] \in Own(j)
  BY <1>3, NothingOwned DEF PInv, IInv
<1>5. Owned(m, ch, call)'
  BY <1>1, <1>2, <1>4 DEF PInv, Owned, Quiet
<1>6. Current(m, call)'
  BY <1>1, <1>3 DEF Current
<1>7. Stays(m, ch, aside)'
  BY <1>1 DEF Stays
<1> QED
  BY <1>1, <1>2, <1>5, <1>6, <1>7 DEF PInv, Quiet

LEMMA PServeList ==
    ASSUME PInv, IInv', ServeList
    PROVE  PInv'
<1>1. Quiet /\ UNCHANGED <<pane, m, ch, aside>>
  BY DEF ServeList, Quiet, history
<1>2. \A j : Own(j)' = Own(j)
  BY <1>1 DEF Own, Key, Quiet
<1>3. call'.list = question
  <2>1. call \in Requests
    BY DEF PInv, IInv, Client
  <2> QED
    BY <2>1 DEF ServeList, Requests
<1>4. Owned(m, ch, call)'
  BY <1>1, <1>2, <1>3 DEF PInv, Owned, Quiet
<1>5. Current(m, call)'
  BY <1>1, <1>3 DEF Current, Quiet
<1>6. Stays(m, ch, aside) => Stays(m, ch, aside)'
  BY <1>1 DEF Stays, IsEvent, Key, Quiet
<1> QED
  BY <1>1, <1>2, <1>4, <1>5, <1>6 DEF PInv, Quiet

\* A subscription begins and ends without events of jobs.
LEMMA PStream ==
    ASSUME PInv, IInv', Subscribe \/ Lose
    PROVE  PInv'
<1>1. Quiet /\ UNCHANGED <<pane, m, call, aside>> /\ ch' \in {<<>>, <<[kind |-> "reconnect"]>>}
  <2>1. CASE Subscribe
    BY <2>1 DEF Subscribe, Quiet, history
  <2>2. CASE Lose
    BY <2>2 DEF Lose, Quiet, history
  <2> QED
    BY <2>1, <2>2
<1>2. \A j : Own(j)' = Own(j)
  BY <1>1 DEF Own, Key, Quiet
<1>3. \A i \in DOMAIN ch' : ch'[i].kind = "reconnect"
  BY <1>1
<1>4. Owned(m, ch, call)' /\ Current(m, call)'
  BY <1>1, <1>2, <1>3 DEF PInv, Owned, Current, Quiet
<1>5. Stays(m, ch, aside) => Stays(m, ch, aside)'
  BY <1>1, <1>3 DEF Stays, IsEvent, Key, Quiet
<1> QED
  BY <1>1, <1>2, <1>4, <1>5 DEF PInv, Quiet

LEMMA PPaneGone ==
    ASSUME PInv, IInv', PaneGone
    PROVE  PInv'
<1>1. Quiet /\ UNCHANGED <<m, ch, call, aside>> /\ pane' = "none"
  BY DEF PaneGone, Quiet, history
<1>2. \A j : Own(j)' = Own(j)
  BY <1>1 DEF Own, Key, Quiet
<1>3. Owned(m, ch, call)' /\ Current(m, call)'
  BY <1>1, <1>2 DEF PInv, Owned, Current, Quiet
<1> QED
  BY <1>1, <1>2, <1>3 DEF PInv, Quiet

-----------------------------------------------------------------------------
(* The popup's handlers *)

LEMMA PUpdate ==
    ASSUME PInv, IInv', Quiet, pane = "running", NEW set, set \subseteq 1 .. asked, aside' = set,
           NEW model, NEW messages, NEW request, NEW answers,
           Update(model, messages, request, answers),
           Owned(model, messages, request), Current(model, request), Stays(model, messages, set)
    PROVE  PInv'
<1>1. \A j : Own(j)' = Own(j)
  BY DEF Own, Key, Quiet
<1>2. (\A j \in Jobs : question[j] \in Own(j) /\ listing.list[j] \in Own(j))' /\ aside' \subseteq 1 .. asked'
  BY <1>1 DEF PInv, Quiet
<1>3. CASE kind = "prompt" /\ model.loaded /\ model.dialog = 0
  <2>1. Quit("closing")
    BY <1>3 DEF Update
  <2>2. m' = NoModel /\ ch' = <<>> /\ call' = NoCall /\ pane' = "closing"
    BY <2>1 DEF Quit
  <2>3. Owned(m, ch, call)' /\ Current(m, call)'
    BY <1>1, <2>2, NothingOwned DEF PInv, IInv, Owned, Current, Quiet
  <2> QED
    BY <1>2, <2>2, <2>3 DEF PInv
<1>4. CASE ~ (kind = "prompt" /\ model.loaded /\ model.dialog = 0)
  <2>1. m' = model /\ ch' = messages /\ call' = request
    BY <1>4 DEF Update
  <2>2. Owned(m, ch, call)' /\ Current(m, call)'
    BY <1>1, <2>1 DEF Owned, Current, Quiet
  <2>3. Stays(m, ch, aside)'
    BY <2>1 DEF Stays, IsEvent, Key, Quiet
  <2> QED
    BY <1>2, <2>2, <2>3 DEF PInv
<1> QED
  BY <1>3, <1>4

LEMMA PQuits ==
    ASSUME PInv, IInv', UserQuits
    PROVE  PInv'
<1>1. Quiet /\ aside' = aside /\ m' = NoModel /\ ch' = <<>> /\ call' = NoCall /\ pane' = "left"
  BY DEF UserQuits, Quit, Quiet, history
<1>2. \A j : Own(j)' = Own(j)
  BY <1>1 DEF Own, Key, Quiet
<1>3. Owned(m, ch, call)' /\ Current(m, call)'
  BY <1>1, <1>2, NothingOwned DEF PInv, IInv, Owned, Current, Quiet
<1> QED
  BY <1>1, <1>2, <1>3 DEF PInv, Quiet

\* The model with an event's question.
Told(event) == [m EXCEPT !.questions[event.job] = event.question]

LEMMA ToldKeeps ==
    ASSUME PInv, ch # <<>>, Head(ch).kind = "job", pane = "running"
    PROVE  LET event == Head(ch)
               told == Told(event)
           IN  /\ event.job \in Jobs /\ ch[1] = event
               /\ told \in Model /\ told.dialog = m.dialog /\ told.typing = m.typing
               /\ told.dismissed = m.dismissed
               /\ told.questions = [m.questions EXCEPT ![event.job] = event.question]
               /\ Owned(told, Tail(ch), HeardOf(event.job))
               /\ Current(told, HeardOf(event.job))
               /\ Stays(told, Tail(ch), aside)
<1> DEFINE event == Head(ch)
           told == Told(event)
           rest == Tail(ch)
<1>1. /\ ch \in Seq(Messages) /\ m \in Model /\ call \in Requests
  BY DEF PInv, IInv, Client
<1>2. /\ rest \in Seq(Messages) /\ ch[1] = event /\ event \in Messages
      /\ \A i \in DOMAIN rest : i + 1 \in DOMAIN ch /\ rest[i] = ch[i + 1]
      /\ 1 \in DOMAIN ch
  BY <1>1
<1>3. event.kind = "job" /\ event.job \in Jobs /\ event.question \in Numbers
  <2>1. event.kind = "job"
    OBVIOUS
  <2> HIDE DEF event
  <2> QED
    BY <1>2, <2>1 DEF Messages
<1> HIDE DEF event, rest
<1>4. /\ told \in Model /\ told.dialog = m.dialog /\ told.typing = m.typing
      /\ told.dismissed = m.dismissed
      /\ told.questions = [m.questions EXCEPT ![event.job] = event.question]
      /\ m.questions \in [Jobs -> Numbers]
  BY <1>1, <1>3 DEF Model, Lists, Told
<1> HIDE DEF told
<1>5. /\ \A j \in Jobs : j # event.job => told.questions[j] = m.questions[j]
      /\ told.questions[event.job] = event.question
  BY <1>3, <1>4
<1>6. event.question \in Own(event.job)
  BY <1>2, <1>3 DEF PInv, Owned
<1>7. /\ HeardOf(event.job).list = call.list /\ HeardOf(event.job).step = call.step
      /\ call.step = "answered" => HeardOf(event.job).heard = call.heard \cup {event.job}
  <2>1. NoCall.step = "none"
    BY DEF NoCall
  <2> QED
    BY <1>1, <2>1 DEF HeardOf, Requests
<1>8. Owned(told, rest, HeardOf(event.job))
  BY <1>2, <1>4, <1>5, <1>6, <1>7 DEF PInv, Owned
<1>9. Current(told, HeardOf(event.job))
  BY <1>4, <1>5, <1>7 DEF PInv, Current
<1>10. ASSUME NEW j \in Jobs, question[j] \in aside
       PROVE  /\ posting[j] # "broadcast" /\ \A i \in DOMAIN rest : ~ IsEvent(rest[i], j)
              /\ told.questions[j] = question[j] /\ Key(question[j]) \in told.dismissed
  <2>1. /\ posting[j] # "broadcast" /\ \A i \in DOMAIN ch : ~ IsEvent(ch[i], j)
        /\ m.questions[j] = question[j] /\ Key(question[j]) \in m.dismissed
    BY <1>10 DEF PInv, Stays
  <2>2. j # event.job
    BY <1>2, <1>3, <2>1 DEF IsEvent
  <2> QED
    BY <1>2, <1>4, <1>5, <2>1, <2>2
<1>11. Stays(told, rest, aside)
  BY <1>10 DEF Stays
<1> QED
  BY <1>2, <1>3, <1>4, <1>8, <1>9, <1>11 DEF event, told, rest

\* The rest of the subscription loses nothing of what the model knows.
LEMMA TailOwned ==
    ASSUME PInv, ch # <<>>, pane = "running"
    PROVE  /\ Owned(m, Tail(ch), NoCall) /\ Stays(m, Tail(ch), aside)
           /\ \A j \in Jobs : NewCall.list[j] = NoCall.list[j]
<1>1. ch \in Seq(Messages)
  BY DEF PInv, IInv, Client
<1>2. \A i \in DOMAIN Tail(ch) : i + 1 \in DOMAIN ch /\ Tail(ch)[i] = ch[i + 1]
  BY <1>1
<1>3. \A j \in Jobs : NoCall.list[j] \in Own(j)
  BY NothingOwned DEF PInv, IInv
<1>4. Owned(m, Tail(ch), NoCall)
  BY <1>2, <1>3 DEF PInv, Owned
<1>5. Stays(m, Tail(ch), aside)
  BY <1>2 DEF PInv, Stays
<1> QED
  BY <1>4, <1>5 DEF NewCall, NoCall

LEMMA PReconnect ==
    ASSUME PInv, IInv', Receive, Head(ch).kind = "reconnect"
    PROVE  PInv'
<1>1. ch # <<>> /\ pane = "running" /\ Quiet
  BY ReceiveIsQuiet DEF PInv
<1>2. Update(Anew, Tail(ch), NewCall, inputs) /\ aside' = aside
  BY DEF Receive, Reconnect, Anew, history
<1>3. /\ Anew.questions = m.questions /\ Anew.dialog = m.dialog
      /\ Anew.dismissed = m.dismissed
  BY AnewTypes DEF PInv, IInv, Client
<1>4. /\ Owned(m, Tail(ch), NoCall) /\ Stays(m, Tail(ch), aside)
      /\ \A j \in Jobs : NewCall.list[j] = NoCall.list[j]
  BY <1>1, TailOwned
<1>5. Owned(Anew, Tail(ch), NewCall)
  BY <1>3, <1>4 DEF Owned
<1>6. Current(Anew, NewCall)
  BY DEF Current, NewCall, NoCall
<1>7. Stays(Anew, Tail(ch), aside)
  BY <1>3, <1>4 DEF Stays
<1>8. aside \subseteq 1 .. asked
  BY DEF PInv
<1> QED
  BY <1>1, <1>2, <1>5, <1>6, <1>7, <1>8, PUpdate

LEMMA PJobUpdated ==
    ASSUME PInv, IInv', Receive, Head(ch).kind = "job"
    PROVE  PInv'
<1> DEFINE event == Head(ch)
           request == HeardOf(event.job)
<1>1. ch # <<>> /\ pane = "running" /\ Quiet
  BY ReceiveIsQuiet DEF PInv
<1>2. Update(SyncPrompt(Told(event)), Tail(ch), request, inputs) /\ aside' = aside
  BY DEF Receive, JobUpdated, Told
<1>3. aside \subseteq 1 .. asked /\ JobTypes /\ \A j \in Jobs : question[j] \in Own(j)
  BY DEF PInv, IInv
<1>4. /\ Told(event) \in Model /\ Owned(Told(event), Tail(ch), request)
      /\ Current(Told(event), request) /\ Stays(Told(event), Tail(ch), aside)
  BY <1>1, ToldKeeps
<1> HIDE DEF event, request
<1>5. /\ Owned(SyncPrompt(Told(event)), Tail(ch), request)
      /\ Current(SyncPrompt(Told(event)), request)
      /\ Stays(SyncPrompt(Told(event)), Tail(ch), aside)
  BY <1>3, <1>4, SyncKeeps
<1> QED
  BY <1>1, <1>2, <1>3, <1>5, PUpdate

\* A list event leaves of what was set aside the questions that it holds.
LEMMA OverwrittenKeeps ==
    ASSUME PInv, NEW rev \in Nat, NEW list \in Lists, \A j \in Jobs : list[j] \in Own(j),
           NEW messages, Owned(m, messages, NoCall), Stays(m, messages, aside),
           NEW set, set = {q \in aside : list[Key(q).job] = q}
    PROVE  LET told == Replaced(rev, list, {})
           IN  Owned(told, messages, NoCall) /\ Current(told, NoCall) /\ Stays(told, messages, set)
<1> DEFINE told == Replaced(rev, list, {})
<1>1. /\ told \in Model /\ told.dialog = m.dialog /\ told.dismissed = m.dismissed
      /\ \A j \in Jobs : told.questions[j] = list[j]
  BY ReplacedTypes DEF PInv, IInv, Client
<1> HIDE DEF told
<1>2. Owned(told, messages, NoCall)
  BY <1>1 DEF Owned
<1>3. Current(told, NoCall)
  BY DEF Current, NoCall
<1>4. ASSUME NEW j \in Jobs, question[j] \in set PROVE told.questions[j] = question[j]
  <2>1. question[j] \in 1 .. asked /\ question[j] \in Own(j)
    BY <1>4 DEF PInv
  <2>2. Key(question[j]).job = j
    BY <2>1 DEF Own
  <2> QED
    BY <1>1, <1>4, <2>2
<1>5. Stays(told, messages, set)
  BY <1>1, <1>4 DEF Stays
<1> QED
  BY <1>2, <1>3, <1>5 DEF told

LEMMA PListed ==
    ASSUME PInv, IInv', Receive, Head(ch).kind = "list"
    PROVE  PInv'
<1> DEFINE event == Head(ch)
           model == ApplyList(m, event.revision, event.list, {})
           set == {q \in aside : event.list[Key(q).job] = q}
<1>1. ch # <<>> /\ pane = "running" /\ Quiet
  BY ReceiveIsQuiet DEF PInv
<1>2. /\ Update(model, Tail(ch), NoCall, inputs)
      /\ IF event.revision < m.revision THEN aside' = aside ELSE aside' = set
  BY DEF Receive, Listed, Overtaken, history
<1>3. /\ event \in Messages /\ event = ch[1] /\ event.kind = "list"
      /\ event.revision \in Nat /\ event.list \in Lists
  <2>1. event \in Messages /\ event = ch[1] /\ event.kind = "list"
    BY <1>1, TailFollows DEF PInv
  <2> HIDE DEF event
  <2> QED
    BY <2>1 DEF Messages
<1>4. /\ m \in Model /\ m.revision \in Nat /\ JobTypes /\ IInv
      /\ aside \subseteq 1 .. asked /\ \A j \in Jobs : question[j] \in Own(j)
  BY DEF PInv, IInv, Client, Model
<1>5. Owned(m, Tail(ch), NoCall) /\ Stays(m, Tail(ch), aside)
  BY <1>1, TailOwned
<1> HIDE DEF event
<1>6. CASE event.revision < m.revision
  <2>1. model = m /\ aside' = aside
    BY <1>2, <1>6 DEF ApplyList
  <2>2. Current(m, NoCall)
    BY DEF Current, NoCall
  <2> HIDE DEF model
  <2> QED
    BY <1>1, <1>2, <1>4, <1>5, <2>1, <2>2, PUpdate
<1>7. CASE ~ (event.revision < m.revision)
  <2> DEFINE told == Replaced(event.revision, event.list, {})
  <2>1. model = SyncPrompt(told)
    <3>1. event.revision >= m.revision
      BY <1>3, <1>4, <1>7
    <3> QED
      BY <1>3, <1>4, <3>1, ListTaken
  <2>2. \A j \in Jobs : event.list[j] \in Own(j)
    <3>1. 1 \in DOMAIN ch
      <4>1. ch \in Seq(Messages)
        BY DEF PInv, IInv, Client
      <4> QED
        BY <1>1, <4>1
    <3> QED
      BY <1>3, <3>1 DEF PInv, Owned
  <2>3. Owned(told, Tail(ch), NoCall) /\ Current(told, NoCall) /\ Stays(told, Tail(ch), set)
    BY <1>3, <1>5, <2>2, OverwrittenKeeps
  <2>4. told \in Model
    BY <1>3, <1>4, ReplacedTypes
  <2>5. aside' = set /\ set \subseteq 1 .. asked
    BY <1>2, <1>4, <1>7
  <2> HIDE DEF model, told, set
  <2>6. Owned(model, Tail(ch), NoCall) /\ Current(model, NoCall) /\ Stays(model, Tail(ch), set)
    BY <1>4, <2>1, <2>3, <2>4, <2>5, SyncKeeps
  <2> QED
    BY <1>1, <1>2, <2>5, <2>6, PUpdate
<1> QED
  BY <1>6, <1>7

LEMMA PReceive ==
    ASSUME PInv, IInv', Receive
    PROVE  PInv'
  BY PReconnect, PJobUpdated, PListed DEF Receive

\* The model with the reply's list.
Replied == Replaced(call.revision, call.list, call.heard)

LEMMA RepliedKeeps ==
    ASSUME PInv, call.step = "answered", pane = "running"
    PROVE  /\ ApplyList(m, call.revision, call.list, call.heard) = SyncPrompt(Replied)
           /\ Replied \in Model /\ Replied.dialog = m.dialog /\ Replied.typing = m.typing
           /\ Replied.dismissed = m.dismissed
           /\ \A j \in Jobs :
                Replied.questions[j] = IF j \in call.heard THEN m.questions[j] ELSE call.list[j]
           /\ Owned(Replied, ch, NoCall) /\ Current(Replied, NoCall) /\ Stays(Replied, ch, aside)
<1>1. m \in Model /\ call.revision \in Nat /\ call.list \in Lists /\ JobTypes
  BY DEF PInv, IInv, Client, Requests
<1>2. /\ Replied \in Model /\ Replied.dialog = m.dialog /\ Replied.typing = m.typing
      /\ Replied.dismissed = m.dismissed
      /\ \A j \in Jobs :
            Replied.questions[j] = IF j \in call.heard THEN m.questions[j] ELSE call.list[j]
  BY <1>1, ReplacedTypes DEF Replied
<1>3. Owned(Replied, ch, NoCall)
  BY <1>1, <1>2, NothingOwned DEF PInv, Owned
<1>4. Current(Replied, NoCall)
  BY <1>1, NothingOwned DEF Current
<1>5. ASSUME NEW j \in Jobs, question[j] \in aside PROVE Replied.questions[j] = question[j]
  <2>1. m.questions[j] = question[j] /\ question[j] # 0
    BY <1>5 DEF PInv, Stays
  <2> QED
    BY <1>2, <2>1 DEF PInv, Current
<1>6. Stays(Replied, ch, aside)
  BY <1>2, <1>5 DEF PInv, Stays
<1>7. ApplyList(m, call.revision, call.list, call.heard) = SyncPrompt(Replied)
  <2>1. call # NoCall
    BY DEF NoCall
  <2>2. call.revision >= m.revision
    BY <1>1, <2>1 DEF PInv, IInv, Client
  <2> QED
    BY <1>1, <2>2, ListTaken DEF PInv, Replied
<1> QED
  BY <1>2, <1>3, <1>4, <1>6, <1>7

LEMMA PDeliver ==
    ASSUME PInv, IInv', Deliver
    PROVE  PInv'
<1>1. /\ Update(ApplyList(m, call.revision, call.list, call.heard), ch, NoCall, inputs)
      /\ call.step = "answered" /\ aside' = aside
  BY DEF Deliver
<1>2. Quiet /\ pane = "running"
  <2>1. UNCHANGED budget
    BY DEF Deliver
  <2>2. UNCHANGED jobVars
    BY <1>1 DEF Update, Quit
  <2>3. call # NoCall
    BY <1>1 DEF NoCall
  <2> QED
    BY <2>1, <2>2, <2>3, OnlyRunning DEF Quiet, PInv
<1>3. aside \subseteq 1 .. asked /\ JobTypes /\ \A j \in Jobs : question[j] \in Own(j)
  BY DEF PInv, IInv
<1>4. /\ Replied \in Model /\ Owned(Replied, ch, NoCall)
      /\ Current(Replied, NoCall) /\ Stays(Replied, ch, aside)
      /\ ApplyList(m, call.revision, call.list, call.heard) = SyncPrompt(Replied)
  BY <1>1, <1>2, RepliedKeeps
<1>5. /\ Owned(SyncPrompt(Replied), ch, NoCall) /\ Current(SyncPrompt(Replied), NoCall)
      /\ Stays(SyncPrompt(Replied), ch, aside)
  BY <1>3, <1>4, SyncKeeps
<1> QED
  BY <1>1, <1>2, <1>3, <1>4, <1>5, PUpdate

-----------------------------------------------------------------------------
(* Replies and keys *)

\* Taking the dialog away, or marking a question as set aside, loses nothing.
LEMMA ModelKeeps ==
    ASSUME PInv, pane = "running", NEW model, model.questions = m.questions,
           model.dialog \in {0, m.dialog}, m.dismissed \subseteq model.dismissed
    PROVE  Owned(model, ch, call) /\ Current(model, call) /\ Stays(model, ch, aside)
<1>1. asked \in Nat
  BY NothingOwned DEF PInv, IInv
<1>2. Owned(model, ch, call)
  BY <1>1 DEF PInv, Owned
<1>3. Current(model, call)
  BY DEF PInv, Current
<1>4. Stays(model, ch, aside)
  BY DEF PInv, Stays
<1> QED
  BY <1>2, <1>3, <1>4

\* The model before dismissPrompt looks for the next question.
Dismissed ==
    [m EXCEPT !.dismissed = @ \cup {Key(m.dialog)}, !.dialog = 0, !.sending = FALSE]

LEMMA DismissedKeeps ==
    ASSUME PInv, pane = "running", m.dialog # 0
    PROVE  /\ Dismissed \in Model /\ Dismissed.dialog = 0 /\ Dismissed.typing = m.typing
           /\ Dismissed.dismissed = m.dismissed \cup {Key(m.dialog)}
           /\ Dismissed.questions = m.questions
           /\ Owned(Dismissed, ch, call) /\ Current(Dismissed, call)
           /\ Stays(Dismissed, ch, aside)
<1>1. m \in Model /\ JobTypes
  BY DEF PInv, IInv, Client
<1>2. 0 \in Numbers
  BY <1>1 DEF JobTypes, Numbers
<1>3. Key(m.dialog) \in [job : Jobs, text : Texts]
  <2>1. budget.questions \in Seq([job : Jobs, text : Texts])
        /\ m.dialog \in 1 .. Len(budget.questions)
    BY <1>1 DEF JobTypes, Model, Numbers
  <2>2. budget.questions[m.dialog] \in [job : Jobs, text : Texts]
    BY <2>1, ElementOfSeq
  <2> QED
    BY <2>2 DEF Key
<1>4. /\ Dismissed \in Model /\ Dismissed.dialog = 0 /\ Dismissed.typing = m.typing
      /\ Dismissed.dismissed = m.dismissed \cup {Key(m.dialog)}
      /\ Dismissed.questions = m.questions
  BY <1>1, <1>2, <1>3 DEF Model, Dismissed
<1> QED
  BY <1>4, ModelKeeps

LEMMA PInputReply ==
    ASSUME PInv, IInv', NEW input \in inputs, InputReply(input)
    PROVE  PInv'
<1> DEFINE model == IF m.dialog = 0 \/ Key(input.question) # Key(m.dialog) THEN m
                    ELSE IF input.step = "ok" THEN DismissPrompt(m)
                    ELSE [m EXCEPT !.sending = FALSE]
<1>1. Update(model, ch, call, inputs \ {input}) /\ UNCHANGED <<budget, aside>>
  BY DEF InputReply, history
<1>2. Quiet
  BY <1>1 DEF Update, Quit, Quiet
<1>3. pane = "running"
  <2>1. input.live
    BY DEF InputReply, PInv, IInv, Client
  <2> QED
    BY <2>1, OnlyRunning DEF PInv
<1>4. aside \subseteq 1 .. asked /\ JobTypes /\ m \in Model /\ \A j \in Jobs : question[j] \in Own(j)
  BY DEF PInv, IInv, Client
<1>5. Owned(model, ch, call) /\ Current(model, call) /\ Stays(model, ch, aside)
  <2>1. CASE m.dialog = 0 \/ Key(input.question) # Key(m.dialog)
    BY <1>3, <2>1, ModelKeeps
  <2>2. CASE ~ (m.dialog = 0 \/ Key(input.question) # Key(m.dialog)) /\ input.step = "ok"
    <3>1. model = SyncPrompt(Dismissed) /\ m.dialog # 0
      BY <2>2 DEF DismissPrompt, Dismissed
    <3> HIDE DEF model
    <3> QED
      BY <1>3, <1>4, <3>1, DismissedKeeps, SyncKeeps
  <2>3. CASE ~ (m.dialog = 0 \/ Key(input.question) # Key(m.dialog)) /\ input.step # "ok"
    <3>1. /\ model.questions = m.questions /\ model.dialog = m.dialog
          /\ model.dismissed = m.dismissed
      BY <1>4, <2>3 DEF Model
    <3> HIDE DEF model
    <3> QED
      BY <1>3, <3>1, ModelKeeps
  <2> QED
    BY <2>1, <2>2, <2>3
<1> HIDE DEF model
<1> QED
  BY <1>1, <1>2, <1>3, <1>4, <1>5, PUpdate

LEMMA PSetAside ==
    ASSUME PInv, IInv', SetAside
    PROVE  PInv'
<1>1. /\ Update(SyncPrompt(Dismissed), ch, call, inputs) /\ UNCHANGED budget
      /\ pane = "running" /\ m.dialog # 0
      /\ aside' = IF UpToDate /\ Key(m.dialog).job \notin late
                  THEN aside \cup {m.dialog} ELSE aside
  BY DEF SetAside, DismissPrompt, Dismissed
<1>2. Quiet
  BY <1>1 DEF Update, Quit, Quiet
<1>3. JobTypes /\ \A j \in Jobs : question[j] \in Own(j)
  BY DEF PInv, IInv
<1>4. aside' \subseteq 1 .. asked
  <2>1. aside \subseteq 1 .. asked /\ m.dialog \in 0 .. asked /\ asked \in Nat
    BY NothingOwned DEF PInv, IInv, Owned
  <2>2. m.dialog \in 1 .. asked
    BY <1>1, <2>1
  <2> QED
    BY <1>1, <2>1, <2>2
<1>5. /\ Dismissed \in Model /\ Dismissed.dismissed = m.dismissed \cup {Key(m.dialog)}
      /\ Dismissed.questions = m.questions
      /\ Owned(Dismissed, ch, call) /\ Current(Dismissed, call)
      /\ Stays(Dismissed, ch, aside)
  BY <1>1, DismissedKeeps
<1>6. ASSUME NEW j \in Jobs, question[j] = m.dialog, UpToDate, Key(m.dialog).job \notin late
      PROVE  /\ posting[j] # "broadcast"
             /\ \A i \in DOMAIN ch : ~ IsEvent(ch[i], j)
             /\ Dismissed.questions[j] = question[j]
             /\ Key(question[j]) \in Dismissed.dismissed
  <2>1. m.questions[j] = question[j]
    <3>1. question[j] \in Own(j) /\ question[j] # 0
      BY <1>1, <1>6 DEF PInv
    <3>2. j \notin late
      BY <1>6, <3>1 DEF Own
    <3> QED
      BY <1>6, <3>2, UpToDateKnows DEF PInv
  <2>2. ch = <<>> /\ posting[j] # "broadcast"
    BY <1>6 DEF UpToDate
  <2>3. DOMAIN ch = {}
    BY <2>2
  <2> QED
    BY <1>5, <1>6, <2>1, <2>2, <2>3
<1>7. Stays(Dismissed, ch, aside')
  BY <1>1, <1>5, <1>6 DEF Stays
<1>8. /\ Owned(SyncPrompt(Dismissed), ch, call) /\ Current(SyncPrompt(Dismissed), call)
      /\ Stays(SyncPrompt(Dismissed), ch, aside')
  BY <1>3, <1>4, <1>5, <1>7, SyncKeeps
<1> QED
  BY <1>1, <1>2, <1>4, <1>8, PUpdate

\* What the user sends or opens.
LEMMA PKeys ==
    ASSUME PInv, IInv', Answer \/ StartTyping \/ StopTyping
    PROVE  PInv'
<1>1. m \in Model /\ JobTypes /\ aside \subseteq 1 .. asked /\ \A j \in Jobs : question[j] \in Own(j)
  BY DEF PInv, IInv, Client
<1>2. pane = "running" /\ aside' = aside
  BY DEF Answer, StartTyping, StopTyping, history
<1>3. CASE Answer
  <2> DEFINE model == [m EXCEPT !.sending = TRUE]
             answers == inputs \cup {[question |-> m.dialog, step |-> "sent", live |-> TRUE]}
  <2>1. Update(model, ch, call, answers) /\ budget'.questions = budget.questions
    BY <1>3 DEF Answer
  <2>2. /\ model.questions = m.questions /\ model.dialog = m.dialog
        /\ model.dismissed = m.dismissed
    BY <1>1 DEF Model
  <2> HIDE DEF model, answers
  <2>3. Quiet
    BY <2>1 DEF Update, Quit, Quiet
  <2>4. Owned(model, ch, call) /\ Current(model, call) /\ Stays(model, ch, aside)
    BY <1>2, <2>2, ModelKeeps
  <2> QED
    BY <1>1, <1>2, <2>1, <2>3, <2>4, PUpdate
<1>4. CASE StartTyping
  <2> DEFINE model == [m EXCEPT !.typing = TRUE]
  <2>1. Update(model, ch, call, inputs) /\ UNCHANGED budget
    BY <1>4 DEF StartTyping
  <2>2. /\ model.questions = m.questions /\ model.dialog = m.dialog
        /\ model.dismissed = m.dismissed
    BY <1>1 DEF Model
  <2> HIDE DEF model
  <2>3. Quiet
    BY <2>1 DEF Update, Quit, Quiet
  <2>4. Owned(model, ch, call) /\ Current(model, call) /\ Stays(model, ch, aside)
    BY <1>2, <2>2, ModelKeeps
  <2> QED
    BY <1>1, <1>2, <2>1, <2>3, <2>4, PUpdate
<1>5. CASE StopTyping
  <2> DEFINE model == [m EXCEPT !.typing = FALSE]
  <2>1. Update(SyncPrompt(model), ch, call, inputs) /\ UNCHANGED budget
    BY <1>5 DEF StopTyping
  <2>2. /\ model \in Model /\ model.questions = m.questions /\ model.dialog = m.dialog
        /\ model.dismissed = m.dismissed
    BY <1>1 DEF Model
  <2> HIDE DEF model
  <2>3. Quiet
    BY <2>1 DEF Update, Quit, Quiet
  <2>4. Owned(model, ch, call) /\ Current(model, call) /\ Stays(model, ch, aside)
    BY <1>2, <2>2, ModelKeeps
  <2>5. /\ Owned(SyncPrompt(model), ch, call) /\ Current(SyncPrompt(model), call)
        /\ Stays(SyncPrompt(model), ch, aside)
    BY <1>1, <2>2, <2>4, SyncKeeps
  <2> QED
    BY <1>1, <1>2, <2>1, <2>3, <2>5, PUpdate
<1> QED
  BY <1>3, <1>4, <1>5

LEMMA PRecall ==
    ASSUME PInv, IInv', Recall
    PROVE  PInv'
<1>1. PICK k \in Jobs : m.questions[k] # 0 /\ Update(OpenPrompt(m, m.questions[k]), ch, call, inputs)
  BY DEF Recall, Waiting
<1>2. UNCHANGED <<budget, aside>> /\ pane = "running"
  BY DEF Recall, history
<1>3. m \in Model /\ JobTypes /\ aside \subseteq 1 .. asked
  BY DEF PInv, IInv, Client
<1> DEFINE model == OpenPrompt(m, m.questions[k])
<1>4. /\ model.questions = m.questions /\ model.dialog = m.questions[k]
      /\ model.dismissed = m.dismissed
  BY <1>3 DEF Model, OpenPrompt
<1>5. Update(model, ch, call, inputs)
  BY <1>1
<1> HIDE DEF model
<1>6. Quiet
  BY <1>2, <1>5 DEF Update, Quit, Quiet
<1>7. Owned(model, ch, call)
  BY <1>4 DEF PInv, Owned, Own
<1>8. ASSUME NEW j \in Jobs, question[j] # 0, question[j] = model.dialog
      PROVE  question[j] = m.questions[j]
  <2>1. question[j] \in Own(j) /\ question[j] \in Own(k)
    BY <1>4, <1>8 DEF PInv, Owned
  <2>2. j = k
    BY <1>8, <2>1 DEF Own
  <2> QED
    BY <1>4, <1>8, <2>2
<1>9. Current(model, call)
  BY <1>4, <1>8 DEF PInv, Current
<1>10. Stays(model, ch, aside)
  BY <1>2, <1>4 DEF PInv, Stays
<1> QED
  BY <1>2, <1>3, <1>5, <1>6, <1>7, <1>9, <1>10, PUpdate

-----------------------------------------------------------------------------
(* The theorems *)

LEMMA PInitially ==
    ASSUME Init
    PROVE  PInv
<1>1. IInv
  BY Initially
<1>2. \A j \in Jobs : 0 \in Own(j) /\ question[j] = 0 /\ NoModel.questions[j] = 0 /\ NoCall.list[j] = 0
                         /\ listing.list[j] = 0
  BY <1>1, NothingOwned DEF Init, IInv
<1>3. Owned(m, ch, call) /\ Current(m, call)
  BY <1>1, <1>2, NothingOwned DEF Init, IInv, Owned, Current
<1> QED
  BY <1>1, <1>2, <1>3 DEF Init, PInv

LEMMA PStep ==
    ASSUME PInv, [Next]_vars
    PROVE  PInv'
<1>0. IInv'
  BY StepKeeps DEF PInv
<1>1. ASSUME NEW j \in Jobs, Ask(j) \/ Withdraw(j) PROVE PInv'
  BY <1>0, <1>1, PAsk, PWithdraw
<1>2. ASSUME NEW j \in Jobs, TakeAnswer(j) \/ Broadcast(j) \/ RequestAttention(j) PROVE PInv'
  BY <1>0, <1>2, PTakeAnswer, PBroadcast, PRequestAttention
<1>3. CASE PaneOpens
  BY <1>0, <1>3, PStarts DEF PaneOpens
<1>4. CASE OpenManager
  BY <1>0, <1>4, PStarts DEF OpenManager
<1>5. CASE PaneRefused \/ OpeningEnds \/ SubscriptionEnds \/ UNCHANGED vars
  <2>1. Quiet /\ UNCHANGED <<pane, m, ch, call, aside>>
    BY <1>5 DEF PaneRefused, OpeningEnds, SubscriptionEnds, vars, Quiet, history
  <2> QED
    BY <1>0, <2>1, PAside
<1>6. ASSUME NEW input \in inputs, ServeInput(input) PROVE PInv'
  <2>1. Quiet /\ UNCHANGED <<pane, m, ch, call, aside>>
    BY <1>6 DEF ServeInput, Quiet, history
  <2> QED
    BY <1>0, <2>1, PAside
<1>7. ASSUME NEW input \in inputs, InputReply(input) PROVE PInv'
  BY <1>0, <1>7, PInputReply
<1>8. CASE ServeList
  BY <1>0, <1>8, PServeList
<1>9. CASE Subscribe \/ Lose
  BY <1>0, <1>9, PStream
<1>10. CASE PaneGone
  BY <1>0, <1>10, PPaneGone
<1>11. CASE Receive \/ Deliver
  BY <1>0, <1>11, PReceive, PDeliver
<1>12. CASE Keys
  BY <1>0, <1>12, PQuits, PSetAside, PKeys, PRecall DEF Keys
<1>13. CASE RefreshSet \/ RefreshSnapshot \/ RefreshPost
  BY <1>0, <1>13, PRefresh
<1> QED
  BY <1>1, <1>2, <1>3, <1>4, <1>5, <1>6, <1>7, <1>8, <1>9, <1>10, <1>11, <1>12, <1>13
     DEF Next, Daemon, Popup

\* Prompts keeps the invariant of its news: nothing that is still asked gets lost
\* from a popup that knew it.
THEOREM PInvariance == Spec => []PInv
<1>1. Init => PInv
  BY PInitially
<1>2. PInv /\ [Next]_vars => PInv'
  BY PStep
<1> QED
  BY <1>1, <1>2, PTL DEF Spec

\* Replies to list requests, however late, new subscriptions, events of other
\* jobs and list events in which it is asked never take away or replace the dialog
\* of a question that is still asked: the draft survives background updates
\* (prompt.go:12-13).
THEOREM DraftKept == Spec => DraftSurvives
<1> DEFINE Background ==
        /\ m.dialog # 0 /\ ~ Over(m.dialog)
        /\ Deliver \/ (Receive /\ Unrelated(Head(ch)))
<1>1. ASSUME PInv, Background PROVE m'.dialog = m.dialog
  <2> DEFINE j == Key(m.dialog).job
  <2>1. /\ j \in Jobs /\ question[j] = m.dialog /\ m.dialog # 0
        /\ m.questions[j] # 0 /\ Key(m.questions[j]) = Key(m.dialog)
    BY <1>1, DialogOwned DEF Over
  <2>2. m \in Model /\ JobTypes /\ Key(m.dialog) \in KeysOf(m)
    BY <1>1 DEF PInv, IInv, Client, Dialogs
  <2>3. ASSUME NEW model, model.dialog = m.dialog, NEW messages, NEW request, NEW answers,
               Update(model, messages, request, answers)
        PROVE  m'.dialog = m.dialog
    BY <2>1, <2>3 DEF Update
  <2>4. CASE Deliver
    <3>1. /\ Update(ApplyList(m, call.revision, call.list, call.heard), ch, NoCall, inputs)
          /\ call.step = "answered"
      BY <2>4 DEF Deliver
    <3>2. pane = "running"
      BY <1>1, <2>1, OnlyRunning DEF PInv, NoModel
    <3>3. /\ Replied \in Model /\ Replied.dialog = m.dialog
          /\ Replied.questions[j] = IF j \in call.heard THEN m.questions[j] ELSE call.list[j]
          /\ ApplyList(m, call.revision, call.list, call.heard) = SyncPrompt(Replied)
      BY <1>1, <2>1, <3>1, <3>2, RepliedKeeps
    <3>4. Replied.questions[j] # 0 /\ Key(Replied.questions[j]) = Key(m.dialog)
      BY <1>1, <2>1, <3>1, <3>3 DEF PInv, Current
    <3>5. Key(Replied.dialog) \in KeysOf(Replied)
      BY <2>1, <3>3, <3>4 DEF KeysOf, Waiting
    <3>6. SyncPrompt(Replied).dialog = m.dialog
      BY <2>1, <2>2, <3>3, <3>5, SyncChooses
    <3> QED
      BY <2>3, <3>1, <3>3, <3>6
  <2>5. CASE Receive /\ Head(ch).kind = "reconnect"
    <3>1. Update(Anew, Tail(ch), NewCall, inputs)
      BY <2>5 DEF Receive, Reconnect, Anew
    <3>2. Anew.dialog = m.dialog
      BY <2>2, AnewTypes
    <3> QED
      BY <2>3, <3>1, <3>2
  <2>6. CASE Receive /\ Head(ch).kind = "job" /\ Head(ch).job # j
    <3> DEFINE told == Told(Head(ch))
    <3>1. Update(SyncPrompt(told), Tail(ch), HeardOf(Head(ch).job), inputs)
      BY <2>6 DEF Receive, JobUpdated, Told
    <3>2. ch # <<>> /\ pane = "running"
      BY <1>1, <2>6, ReceiveIsQuiet DEF PInv
    <3>3. /\ told \in Model /\ told.dialog = m.dialog
          /\ told.questions = [m.questions EXCEPT ![Head(ch).job] = Head(ch).question]
          /\ Head(ch).job # j
      BY <1>1, <2>6, <3>2, ToldKeeps
    <3>4. told.questions[j] = m.questions[j]
      <4>1. m.questions \in [Jobs -> Numbers]
        BY <2>2 DEF Model, Lists
      <4> HIDE DEF told
      <4> QED
        BY <2>1, <3>3, <4>1
    <3> HIDE DEF told
    <3>5. Key(told.dialog) \in KeysOf(told)
      BY <2>1, <3>3, <3>4 DEF KeysOf, Waiting
    <3>6. SyncPrompt(told).dialog = m.dialog
      BY <2>1, <2>2, <3>3, <3>5, SyncChooses
    <3> QED
      BY <2>3, <3>1, <3>6
  <2>7. CASE Receive /\ Head(ch).kind = "list" /\ Head(ch).list[j] = m.dialog
    <3> DEFINE event == Head(ch)
               model == ApplyList(m, event.revision, event.list, {})
    <3>1. Update(model, Tail(ch), NoCall, inputs)
      BY <2>7 DEF Receive, Listed
    <3>2. event.revision \in Nat /\ event.list \in Lists /\ m.revision \in Nat /\ IInv
      <4>1. event \in Messages /\ event.kind = "list"
        BY <1>1, <2>7, TailFollows, ReceiveIsQuiet DEF PInv
      <4>2. m.revision \in Nat /\ IInv
        BY <1>1, <2>2 DEF PInv, Model
      <4> HIDE DEF event
      <4> QED
        BY <4>1, <4>2 DEF Messages
    <3>3. event.list[j] = m.dialog
      BY <2>7
    <3> HIDE DEF event
    <3>4. CASE event.revision < m.revision
      <4>1. model = m
        BY <3>4 DEF ApplyList
      <4> HIDE DEF model
      <4> QED
        BY <2>3, <3>1, <4>1
    <3>5. CASE ~ (event.revision < m.revision)
      <4> DEFINE told == Replaced(event.revision, event.list, {})
      <4>1. model = SyncPrompt(told)
        <5>1. event.revision >= m.revision
          BY <3>2, <3>5
        <5> QED
          BY <3>2, <5>1, ListTaken
      <4>2. told \in Model /\ told.dialog = m.dialog /\ told.questions[j] = m.dialog
        BY <2>1, <2>2, <3>2, <3>3, ReplacedTypes
      <4> HIDE DEF told, model
      <4>3. Key(told.dialog) \in KeysOf(told)
        BY <2>1, <4>2 DEF KeysOf, Waiting
      <4>4. SyncPrompt(told).dialog = m.dialog
        BY <2>1, <2>2, <4>2, <4>3, SyncChooses
      <4> QED
        BY <2>3, <3>1, <4>1, <4>4
    <3> QED
      BY <3>4, <3>5
  <2>8. Receive => Head(ch).kind \in {"reconnect", "job", "list"}
    BY DEF Receive
  <2> QED
    BY <1>1, <2>4, <2>5, <2>6, <2>7, <2>8 DEF Unrelated
<1>2. PInv => [Background => m'.dialog = m.dialog]_vars
  BY <1>1
<1>3. Spec => [][Background => m'.dialog = m.dialog]_vars
  <2> HIDE DEF Background
  <2> QED
    BY <1>2, PInvariance, PTL
<1> QED
  BY <1>3 DEF DraftSurvives

\* A step opens a dialog that it had better not.
Opens == m'.dialog \notin {0, m.dialog}

Unwanted ==
    \/ m.typing /\ m'.typing
    \/ m'.dialog \in aside /\ ~ Over(m'.dialog)

LEMMA SyncTakesNoFocus ==
    ASSUME PInv, NEW model \in Model, model.dialog \in {0, m.dialog},
           NEW messages, NEW set, Stays(model, messages, set),
           \A q \in aside : q \in Waiting(model.questions) => q \in set,
           NEW request, NEW answers,
           Update(SyncPrompt(model), messages, request, answers), Opens
    PROVE  ~ Unwanted
<1> DEFINE s == SyncPrompt(model)
<1>1. JobTypes
  BY DEF PInv, IInv
<1>2. m' = s
  <2>1. m' # NoModel
    BY DEF Opens, NoModel
  <2> QED
    BY <2>1 DEF Update, Quit
<1>3. s.dialog \notin {0, model.dialog} /\ s.typing = model.typing
  BY <1>1, <1>2, SyncSettles DEF Opens
<1>4. /\ ~ s.typing /\ Key(s.dialog) \notin model.dismissed
      /\ s.dialog \in Waiting(model.questions)
  BY <1>1, <1>3, SyncChooses
<1> HIDE DEF s
<1>5. ASSUME s.dialog \in aside, ~ Over(s.dialog) PROVE FALSE
  <2>1. s.dialog \in 1 .. asked
    BY <1>5 DEF PInv
  <2>2. Key(s.dialog).job \in Jobs /\ question[Key(s.dialog).job] = s.dialog
    BY <1>1, <1>5, <2>1, OwnJob DEF Over
  <2>3. Key(s.dialog) \in model.dismissed
    BY <1>4, <1>5, <2>2 DEF Stays
  <2> QED
    BY <1>4, <2>3
<1> QED
  BY <1>2, <1>4, <1>5 DEF Unwanted

\* A handler that keeps the dialog opens none.
LEMMA KeptOpensNothing ==
    ASSUME NEW model, model.dialog = m.dialog, NEW messages, NEW request, NEW answers,
           Update(model, messages, request, answers)
    PROVE  ~ Opens
<1>1. NoModel.dialog = 0
  BY DEF NoModel
<1> QED
  BY <1>1 DEF Update, Quit, Opens

\* A list event opens nothing that it holds and that was set aside.
LEMMA FocusOfLists ==
    ASSUME PInv, Receive, Head(ch).kind = "list", Opens
    PROVE  ~ Unwanted
<1> DEFINE event == Head(ch)
           model == ApplyList(m, event.revision, event.list, {})
<1>1. ch # <<>> /\ pane = "running"
  BY ReceiveIsQuiet DEF PInv
<1>2. Update(model, Tail(ch), NoCall, inputs)
  BY DEF Receive, Listed
<1>3. /\ event \in Messages /\ event = ch[1] /\ event.kind = "list"
      /\ event.revision \in Nat /\ event.list \in Lists
  <2>1. event \in Messages /\ event = ch[1] /\ event.kind = "list"
    BY <1>1, TailFollows DEF PInv
  <2> HIDE DEF event
  <2> QED
    BY <2>1 DEF Messages
<1>4. m \in Model /\ m.revision \in Nat /\ JobTypes /\ IInv /\ aside \subseteq 1 .. asked
  BY DEF PInv, IInv, Client, Model
<1> HIDE DEF event
<1>5. CASE event.revision < m.revision
  <2>1. model = m
    BY <1>5 DEF ApplyList
  <2> HIDE DEF model
  <2> QED
    BY <1>2, <2>1, KeptOpensNothing
<1>6. CASE ~ (event.revision < m.revision)
  <2> DEFINE told == Replaced(event.revision, event.list, {})
             set == {q \in aside : event.list[Key(q).job] = q}
  <2>1. model = SyncPrompt(told)
    <3>1. event.revision >= m.revision
      BY <1>3, <1>4, <1>6
    <3> QED
      BY <1>3, <1>4, <3>1, ListTaken
  <2>2. \A j \in Jobs : event.list[j] \in Own(j)
    <3>1. ch \in Seq(Messages)
      BY DEF PInv, IInv, Client
    <3>2. 1 \in DOMAIN ch
      BY <1>1, <3>1
    <3> QED
      BY <1>3, <3>2 DEF PInv, Owned
  <2>3. Owned(m, Tail(ch), NoCall) /\ Stays(m, Tail(ch), aside)
    BY <1>1, TailOwned
  <2>4. Stays(told, Tail(ch), set)
    BY <1>3, <2>2, <2>3, OverwrittenKeeps
  <2>5. /\ told \in Model /\ told.dialog = m.dialog
        /\ \A j \in Jobs : told.questions[j] = event.list[j]
    BY <1>3, <1>4, ReplacedTypes
  <2> HIDE DEF model, told
  <2>6. ASSUME NEW q \in aside, q \in Waiting(told.questions) PROVE q \in set
    <3>1. PICK j \in Jobs : q = event.list[j] /\ q # 0
      BY <2>5, <2>6 DEF Waiting
    <3>2. Key(q).job = j
      BY <2>2, <3>1 DEF Own
    <3> QED
      BY <2>6, <3>1, <3>2
  <2> HIDE DEF set
  <2> QED
    BY <1>2, <2>1, <2>4, <2>5, <2>6, SyncTakesNoFocus
<1> QED
  BY <1>5, <1>6

LEMMA FocusOfMessages ==
    ASSUME PInv, Receive \/ Deliver, Opens
    PROVE  ~ Unwanted
<1>1. pane = "running"
  <2>1. ch # <<>> \/ call # NoCall
    BY DEF Receive, Deliver, NoCall
  <2> QED
    BY <2>1, OnlyRunning DEF PInv
<1>2. CASE Deliver
  <2>1. /\ Update(ApplyList(m, call.revision, call.list, call.heard), ch, NoCall, inputs)
        /\ call.step = "answered"
    BY <1>2 DEF Deliver
  <2>2. /\ Replied \in Model /\ Replied.dialog = m.dialog /\ Stays(Replied, ch, aside)
        /\ ApplyList(m, call.revision, call.list, call.heard) = SyncPrompt(Replied)
    BY <1>1, <2>1, RepliedKeeps
  <2> QED
    BY <2>1, <2>2, SyncTakesNoFocus
<1>3. CASE Receive /\ Head(ch).kind = "reconnect"
  <2>1. Update(Anew, Tail(ch), NewCall, inputs)
    BY <1>3 DEF Receive, Reconnect, Anew
  <2>2. Anew.dialog = m.dialog
    BY AnewTypes DEF PInv, IInv, Client
  <2> QED
    BY <2>1, <2>2, KeptOpensNothing
<1>4. CASE Receive /\ Head(ch).kind = "job"
  <2> DEFINE told == Told(Head(ch))
  <2>1. Update(SyncPrompt(told), Tail(ch), HeardOf(Head(ch).job), inputs) /\ ch # <<>>
    BY <1>4 DEF Receive, JobUpdated, Told
  <2>2. told \in Model /\ told.dialog = m.dialog /\ Stays(told, Tail(ch), aside)
    BY <1>1, <1>4, <2>1, ToldKeeps
  <2> HIDE DEF told
  <2> QED
    BY <2>1, <2>2, SyncTakesNoFocus
<1>5. CASE Receive /\ Head(ch).kind = "list"
  BY <1>5, FocusOfLists
<1>6. Receive => Head(ch).kind \in {"reconnect", "job", "list"}
  BY DEF Receive
<1> QED
  BY <1>2, <1>3, <1>4, <1>5, <1>6

LEMMA FocusOfReplies ==
    ASSUME PInv, NEW input \in inputs, InputReply(input), Opens
    PROVE  ~ Unwanted
<1> DEFINE model == IF m.dialog = 0 \/ Key(input.question) # Key(m.dialog) THEN m
                    ELSE IF input.step = "ok" THEN DismissPrompt(m)
                    ELSE [m EXCEPT !.sending = FALSE]
<1>1. Update(model, ch, call, inputs \ {input})
  BY DEF InputReply
<1>2. pane = "running"
  <2>1. input.live
    BY DEF InputReply, PInv, IInv, Client
  <2> QED
    BY <2>1, OnlyRunning DEF PInv
<1>3. CASE m.dialog # 0 /\ Key(input.question) = Key(m.dialog) /\ input.step = "ok"
  <2>1. model = SyncPrompt(Dismissed)
    BY <1>3 DEF DismissPrompt, Dismissed
  <2>2. Dismissed \in Model /\ Dismissed.dialog = 0 /\ Stays(Dismissed, ch, aside)
    BY <1>2, <1>3, DismissedKeeps
  <2> HIDE DEF model
  <2> QED
    BY <1>1, <2>1, <2>2, SyncTakesNoFocus
<1>4. CASE ~ (m.dialog # 0 /\ Key(input.question) = Key(m.dialog) /\ input.step = "ok")
  <2>1. m \in Model
    BY DEF PInv, IInv, Client
  <2>2. model.dialog = m.dialog
    BY <1>4, <2>1 DEF Model
  <2> HIDE DEF model
  <2> QED
    BY <1>1, <2>2, KeptOpensNothing
<1> QED
  BY <1>3, <1>4

LEMMA FocusOfKeys ==
    ASSUME PInv, UserQuits \/ SetAside \/ Answer \/ StartTyping \/ StopTyping, Opens
    PROVE  ~ Unwanted
<1>1. m \in Model
  BY DEF PInv, IInv, Client
<1>2. CASE UserQuits
  BY <1>2 DEF UserQuits, Quit, Opens, NoModel
<1>3. CASE SetAside
  <2>1. Update(SyncPrompt(Dismissed), ch, call, inputs) /\ pane = "running" /\ m.dialog # 0
    BY <1>3 DEF SetAside, DismissPrompt, Dismissed
  <2>2. Dismissed \in Model /\ Dismissed.dialog = 0 /\ Stays(Dismissed, ch, aside)
    BY <2>1, DismissedKeeps
  <2> QED
    BY <2>1, <2>2, SyncTakesNoFocus
<1>4. CASE Answer
  <2> DEFINE model == [m EXCEPT !.sending = TRUE]
             answers == inputs \cup {[question |-> m.dialog, step |-> "sent", live |-> TRUE]}
  <2>1. Update(model, ch, call, answers) /\ model.dialog = m.dialog
    BY <1>1, <1>4 DEF Answer, Model
  <2> HIDE DEF model, answers
  <2> QED
    BY <2>1, KeptOpensNothing
<1>5. CASE StartTyping
  <2> DEFINE model == [m EXCEPT !.typing = TRUE]
  <2>1. Update(model, ch, call, inputs) /\ model.dialog = m.dialog
    BY <1>1, <1>5 DEF StartTyping, Model
  <2> HIDE DEF model
  <2> QED
    BY <2>1, KeptOpensNothing
<1>6. CASE StopTyping
  <2> DEFINE model == [m EXCEPT !.typing = FALSE]
  <2>1. Update(SyncPrompt(model), ch, call, inputs) /\ pane = "running"
    BY <1>6 DEF StopTyping
  <2>2. /\ model \in Model /\ model.questions = m.questions /\ model.dialog = m.dialog
        /\ model.dismissed = m.dismissed
    BY <1>1 DEF Model
  <2> HIDE DEF model
  <2>3. Stays(model, ch, aside)
    BY <2>1, <2>2, ModelKeeps
  <2> QED
    BY <2>1, <2>2, <2>3, SyncTakesNoFocus
<1> QED
  BY <1>2, <1>3, <1>4, <1>5, <1>6

\* By itself no dialog opens while the user types, and none for a question that
\* was set aside in this popup and is still asked, unless a list event came that
\* lacked it (prompt.go:41-43, 80-81).
THEOREM FocusKept == Spec => FocusIsKept
<1> DEFINE Grabs ==
        /\ m'.dialog \notin {0, m.dialog}
        /\ \/ m.typing /\ m'.typing
           \/ m'.dialog \in aside /\ ~ Over(m'.dialog)
<1>1. ASSUME PInv, [Next]_vars, Opens, Unwanted PROVE Recall
  <2>1. m' # m
    BY <1>1 DEF Opens
  <2>2. ~ UNCHANGED vars
    BY <2>1 DEF vars
  <2>3. ASSUME NEW j \in Jobs PROVE ~ (Ask(j) \/ Withdraw(j) \/ TakeAnswer(j))
    BY <2>1 DEF Ask, Withdraw, TakeAnswer
  <2>4. ASSUME NEW j \in Jobs PROVE ~ (Broadcast(j) \/ RequestAttention(j))
    BY <2>1 DEF Broadcast, RequestAttention
  <2>5. ~ (PaneOpens \/ PaneRefused \/ OpeningEnds \/ SubscriptionEnds \/ ServeList)
    BY <2>1 DEF PaneOpens, PaneRefused, OpeningEnds, SubscriptionEnds, ServeList
  <2>6. ASSUME NEW input \in inputs PROVE ~ ServeInput(input)
    BY <2>1 DEF ServeInput
  <2>7. ~ (OpenManager \/ Lose \/ Subscribe \/ PaneGone)
    BY <2>1 DEF OpenManager, Lose, Subscribe, PaneGone
  <2>11. ~ (RefreshSet \/ RefreshSnapshot \/ RefreshPost)
    BY <2>1 DEF RefreshSet, RefreshSnapshot, RefreshPost
  <2>8. ~ (Receive \/ Deliver)
    BY <1>1, FocusOfMessages
  <2>9. ASSUME NEW input \in inputs PROVE ~ InputReply(input)
    BY <1>1, FocusOfReplies
  <2>10. ~ (UserQuits \/ SetAside \/ Answer \/ StartTyping \/ StopTyping)
    BY <1>1, FocusOfKeys
  <2> QED
    BY <1>1, <2>2, <2>3, <2>4, <2>5, <2>6, <2>7, <2>8, <2>9, <2>10, <2>11 DEF Next, Daemon, Popup, Keys
<1>2. PInv /\ [Next]_vars => [Grabs => Recall]_vars
  BY <1>1 DEF Opens, Unwanted
<1>3. Spec => [][Grabs => Recall]_vars
  <2> HIDE DEF Grabs
  <2> QED
    BY <1>2, PInvariance, PTL DEF Spec
<1> QED
  BY <1>3 DEF FocusIsKept
=============================================================================
