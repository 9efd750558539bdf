-------------------------------- MODULE Exec --------------------------------
(***************************************************************************)
(* internal/jobs/exec.go: one command of a job, run under a pseudo terminal *)
(* that the daemon owns.                                                    *)
(*                                                                          *)
(* Exec's loop receives output chunks, the idle timer and the user's        *)
(* replies.  Unterminated output on which the command fell silent is shown  *)
(* as a prompt; some prompts are answered by the job's specification.       *)
(* Cancelling sends SIGTERM to the process group and, after killGrace,      *)
(* SIGKILL.                                                                 *)
(*                                                                          *)
(* The command and the terminal are external.  Text is abstracted to        *)
(* pieces: a newline, progress that does not end its line, and the pieces   *)
(* of the two kinds of question, one that the specification answers and one *)
(* left to the user.  A read returns any number of the pieces written.      *)
(***************************************************************************)
EXTENDS Naturals, Sequences

CONSTANTS
    Newline, Progress,  \* pieces
    Declined,           \* the question the specification answers, in pieces
    Pattern,            \* the part of it that answers match
    Secret,             \* a question for the user, not echoed, in pieces
    MaxPending,         \* maxPendingBytes, in pieces
    MaxTty,             \* bound: pieces written and not yet read
    MaxWrites,          \* bound: lines, progress and questions written
    MaxReplies          \* bound: replies of users

ASSUME SizesAssumption ==
    /\ {MaxPending, MaxTty, MaxWrites, MaxReplies} \subseteq Nat
    /\ Len(Declined) <= MaxPending /\ Len(Secret) <= MaxPending

ASSUME TextsAssumption ==
    \A text \in {Declined, Secret} :
        text # <<>> /\ text \in Seq({text[i] : i \in DOMAIN text})

\* What the answers match ends with a piece that nothing else brings, and the
\* question brings once.
ASSUME PatternAssumption ==
    /\ Pattern # <<>> /\ Pattern \in Seq({Pattern[i] : i \in DOMAIN Pattern})
    /\ Pattern[Len(Pattern)] \notin {Newline, Progress}
    /\ \A i \in DOMAIN Secret : Secret[i] # Pattern[Len(Pattern)]
    /\ \A i, k \in DOMAIN Declined :
        Declined[i] = Pattern[Len(Pattern)] /\ Declined[k] = Declined[i] => i = k

VARIABLES
    running,            \* the command: "running", or its status "ok", "failed"
    asks,               \* the question it waits on, or <<>>
    open,               \* whether it holds the terminal open
    tty,                \* its output that was not read yet
    typed,              \* how many replies it has not read yet
    pc,                 \* the loop: "select", "answer", "wait", "returned"
    pending,            \* the unterminated last line
    waiting,            \* Exec's own flag
    shown,              \* job.Prompt, <<>> unless the job awaits input
    input,              \* how many replies sink.Input holds
    cancelled,          \* the job's context
    killer,             \* the AfterFunc: "armed", "started", "term", "over"
    writes, replies,    \* how many happened, see the bounds
    line,               \* history: lines of output that ended
    asked, declined     \* history: questions Declined written, and answered

cmdVars == <<running, asks, open>>
loopVars == <<pc, pending, waiting, shown, line, declined>>
vars == <<cmdVars, tty, typed, loopVars, input, cancelled, killer, writes,
          replies, asked>>

-----------------------------------------------------------------------------
(* The command *)

Write(text) ==
    /\ open /\ running = "running" /\ asks = <<>>
    /\ writes < MaxWrites /\ writes' = writes + 1
    /\ Len(tty) + Len(text) <= MaxTty
    /\ tty' = tty \o text

CmdPrints ==
    /\ \E piece \in {Newline, Progress} : Write(<<piece>>)
    /\ UNCHANGED <<cmdVars, typed, loopVars, input, cancelled, killer, replies, asked>>

\* A question is written at once; reading may still cut it in pieces.
CmdAsks ==
    /\ \E question \in {Declined, Secret} :
        /\ Write(question)
        /\ asks' = question
        /\ asked' = IF question = Declined THEN asked + 1 ELSE asked
    /\ UNCHANGED <<running, open, typed, loopVars, input, cancelled, killer, replies>>

\* It reads a reply; a hidden one is followed by a newline of its own.
CmdReads ==
    /\ running = "running" /\ asks # <<>> /\ typed > 0
    /\ asks' = <<>>
    /\ typed' = typed - 1
    /\ tty' = IF asks = Secret THEN Append(tty, Newline) ELSE tty
    /\ UNCHANGED <<running, open, loopVars, input, cancelled, killer, writes,
                   replies, asked>>

\* It gives up on its question, and ends the line.
CmdMovesOn ==
    /\ running = "running" /\ open /\ asks # <<>>
    /\ asks' = <<>>
    /\ tty' = Append(tty, Newline)
    /\ UNCHANGED <<running, open, typed, loopVars, input, cancelled, killer,
                   writes, replies, asked>>

Exits(status) ==
    /\ running' = status
    /\ asks' = <<>>
    /\ open' = FALSE

CmdExits ==
    /\ running = "running"
    /\ \E status \in {"ok", "failed"} : Exits(status)
    /\ UNCHANGED <<tty, typed, loopVars, input, cancelled, killer, writes, replies, asked>>

\* It closes the terminal and works on.
CmdHangsUp ==
    /\ running = "running" /\ open
    /\ open' = FALSE
    /\ asks' = <<>>
    /\ UNCHANGED <<running, tty, typed, loopVars, input, cancelled, killer,
                   writes, replies, asked>>

-----------------------------------------------------------------------------
(* The loop of Exec *)

\* Mutant: a long line is kept whole.
Whole(s, n) == s

Suffix(s, n) == IF Len(s) <= n THEN s ELSE SubSeq(s, Len(s) - n + 1, Len(s))

\* What follows the last newline.
LastLine(text) ==
    LET ends == {i \in DOMAIN text : text[i] = Newline}
    IN  IF ends = {} THEN text
        ELSE SubSeq(text, 1 + (CHOOSE i \in ends : \A k \in ends : k <= i), Len(text))

\* Mutant: only the new chunk is matched, not the line it continues.
MatchesChunk(text, chunk) ==
    \E i \in DOMAIN chunk :
        /\ i + Len(Pattern) - 1 <= Len(chunk)
        /\ SubSeq(chunk, i, i + Len(Pattern) - 1) = Pattern

Matches(text, chunk) ==
    \E i \in DOMAIN text :
        /\ i + Len(Pattern) - 1 <= Len(text)
        /\ SubSeq(text, i, i + Len(Pattern) - 1) = Pattern

\* Mutant: any output withdraws the prompt.
ChunkWithdraws(chunk) ==
    LET ended == \E i \in DOMAIN chunk : chunk[i] = Newline
    IN  /\ pending' = Suffix(LastLine(pending \o chunk), MaxPending)
        /\ line' = IF ended THEN line + 1 ELSE line
        /\ waiting' = FALSE
        /\ shown' = <<>>
        /\ pc' = IF Matches(pending', chunk) THEN "answer" ELSE "select"

\* Mutant: the end of the line withdraws the prompt, but Exec still believes
\* to be waiting.
ChunkKeepsWaiting(chunk) ==
    LET ended == \E i \in DOMAIN chunk : chunk[i] = Newline
    IN  /\ pending' = Suffix(LastLine(pending \o chunk), MaxPending)
        /\ line' = IF ended THEN line + 1 ELSE line
        /\ waiting' = waiting
        /\ shown' = IF waiting /\ ended THEN <<>> ELSE shown
        /\ pc' = IF Matches(pending', chunk) THEN "answer" ELSE "select"

\* A chunk joins the line; the prompt is withdrawn when its line ended; a long
\* line loses its beginning; then the answers are tried on what is left.
Chunk(chunk) ==
    LET ended == \E i \in DOMAIN chunk : chunk[i] = Newline
    IN  /\ pending' = Suffix(LastLine(pending \o chunk), MaxPending)
        /\ line' = IF ended THEN line + 1 ELSE line
        /\ waiting' = (waiting /\ ~ ended)
        /\ shown' = IF waiting /\ ended THEN <<>> ELSE shown
        /\ pc' = IF Matches(pending', chunk) THEN "answer" ELSE "select"

Reads ==
    /\ pc = "select"
    /\ \E n \in 1 .. Len(tty) :
        /\ Chunk(SubSeq(tty, 1, n))
        /\ tty' = SubSeq(tty, n + 1, Len(tty))
    /\ declined' = IF pc' = "answer" THEN declined + 1 ELSE declined
    /\ UNCHANGED <<cmdVars, typed, input, cancelled, killer, writes, replies, asked>>

\* promptIdle passed since the last chunk or reply: what the loop has of the line
\* is a prompt, be there output that it did not read yet.
Idle ==
    /\ pc = "select"
    /\ pending # <<>> /\ ~ waiting
    /\ waiting' = TRUE
    /\ shown' = pending
    /\ UNCHANGED <<cmdVars, tty, typed, pc, pending, line, declined, input,
                   cancelled, killer, writes, replies, asked>>

\* A reply of the user is taken, whatever is on the line by now.
TakesReply ==
    /\ pc = "select"
    /\ input > 0
    /\ input' = input - 1
    /\ pc' = "answer"
    /\ UNCHANGED <<cmdVars, tty, typed, pending, waiting, shown, line, declined,
                   cancelled, killer, writes, replies, asked>>

\* Mutant: the line that was answered stays pending.
AnswerKeepsLine ==
    /\ pending' = pending
    /\ line' = line + 1
    /\ waiting' = FALSE
    /\ shown' = <<>>

\* The answered line is over: nothing of it is a prompt any more.
Answered ==
    /\ pending' = <<>>
    /\ line' = line + 1
    /\ waiting' = FALSE
    /\ shown' = <<>>

\* The reply is written and, unless hidden, echoed.  Some systems accept it
\* even when nobody holds the terminal.
Answers ==
    /\ pc = "answer"
    /\ Answered
    /\ typed' = typed + 1
    /\ tty' = IF open /\ asks # Secret THEN Append(tty, Newline) ELSE tty
    /\ pc' = "select"
    /\ UNCHANGED <<cmdVars, declined, input, cancelled, killer, writes, replies, asked>>

\* Returning withdraws the prompt (queue.go:152) and releases the AfterFunc.
Returns ==
    /\ pc' = "returned"
    /\ killer' = "over"
    /\ pending' = <<>>
    /\ waiting' = FALSE
    /\ shown' = <<>>

\* Nobody holds the terminal and the write fails: Exec returns at once, without
\* waiting for the command.
AnswerFails ==
    /\ pc = "answer"
    /\ ~ open
    /\ Returns
    /\ UNCHANGED <<cmdVars, tty, typed, line, declined, input, cancelled, writes,
                   replies, asked>>

\* The end of the output: cancelling no longer starts the AfterFunc.
Eof ==
    /\ pc = "select"
    /\ ~ open /\ tty = <<>>
    /\ pc' = "wait"
    /\ killer' = IF killer = "armed" THEN "over" ELSE killer
    /\ UNCHANGED <<cmdVars, tty, typed, pending, waiting, shown, line, declined,
                   input, cancelled, writes, replies, asked>>

\* cmd.Wait
Waited ==
    /\ pc = "wait"
    /\ running # "running"
    /\ Returns
    /\ UNCHANGED <<cmdVars, tty, typed, line, declined, input, cancelled, writes,
                   replies, asked>>

-----------------------------------------------------------------------------
(* The user and the context *)

\* q.Input, see JobQueue.
Reply ==
    /\ replies < MaxReplies /\ replies' = replies + 1
    /\ shown # <<>> /\ input = 0
    /\ input' = 1
    /\ UNCHANGED <<cmdVars, tty, typed, loopVars, cancelled, killer, writes, asked>>

Cancel ==
    /\ ~ cancelled
    /\ cancelled' = TRUE
    /\ killer' = IF killer = "armed" THEN "started" ELSE killer
    /\ UNCHANGED <<cmdVars, tty, typed, loopVars, input, writes, replies, asked>>

\* SIGTERM, which the command may ignore.
Terminate ==
    /\ killer = "started"
    /\ killer' = "term"
    /\ \/ UNCHANGED cmdVars
       \/ running = "running" /\ Exits("failed")
    /\ UNCHANGED <<tty, typed, loopVars, input, cancelled, writes, replies, asked>>

\* Mutant: no second signal.
KillNever ==
    /\ killer = "term"
    /\ killer' = "over"
    /\ UNCHANGED <<cmdVars, tty, typed, loopVars, input, cancelled, writes, replies, asked>>

\* killGrace passed before Exec returned: SIGKILL, which it cannot ignore.
Kill ==
    /\ killer = "term"
    /\ killer' = "over"
    /\ IF running = "running" THEN Exits("failed") ELSE UNCHANGED cmdVars
    /\ UNCHANGED <<tty, typed, loopVars, input, cancelled, writes, replies, asked>>

-----------------------------------------------------------------------------
Init ==
    /\ running = "running" /\ asks = <<>> /\ open = TRUE
    /\ tty = <<>> /\ typed = 0
    /\ pc = "select" /\ pending = <<>> /\ waiting = FALSE /\ shown = <<>>
    /\ input = 0
    /\ cancelled = FALSE /\ killer = "armed"
    /\ writes = 0 /\ replies = 0 /\ line = 0 /\ asked = 0 /\ declined = 0

Next ==
    \/ CmdPrints \/ CmdAsks \/ CmdReads \/ CmdMovesOn \/ CmdExits \/ CmdHangsUp
    \/ Reads \/ Idle \/ TakesReply \/ Answers \/ AnswerFails \/ Eof \/ Waited
    \/ Reply \/ Cancel \/ Terminate \/ Kill

(***************************************************************************)
(* The goroutines of Exec are scheduled and its timers expire.  Nothing is  *)
(* assumed of the command or of the user.                                   *)
(***************************************************************************)
Fairness ==
    /\ WF_vars(Reads) /\ WF_vars(Idle) /\ WF_vars(TakesReply)
    /\ WF_vars(Answers \/ AnswerFails) /\ WF_vars(Eof) /\ WF_vars(Waited)
    /\ WF_vars(Terminate) /\ WF_vars(Kill)

Spec == Init /\ [][Next]_vars

FairSpec == Spec /\ Fairness

-----------------------------------------------------------------------------
(* Types; the job awaits input exactly while Exec believes it waits, and    *)
(* then there is text on the line it can go on with; the line is bounded.   *)
TypeOK ==
    /\ running \in {"running", "ok", "failed"}
    /\ asks \in {<<>>, Declined, Secret}
    /\ pc \in {"select", "answer", "wait", "returned"}
    /\ killer \in {"armed", "started", "term", "over"}
    /\ Len(pending) <= MaxPending
    /\ waiting <=> shown # <<>>
    /\ waiting => pending # <<>>

\* docs/design.md 5.2: a question that the specification's answers recognize is
\* declined, and only other questions are put to the user, however reads cut
\* the text in chunks and whatever stands on the line before it.
OnlyOthersShown ==
    \A i \in DOMAIN shown : i + Len(Pattern) - 1 <= Len(shown) =>
        SubSeq(shown, i, i + Len(Pattern) - 1) # Pattern

\* Each such question is answered once: the reply is not typed again, ahead of
\* questions that are the user's to answer (README.md: "never answered on your
\* behalf"), when more output joins the line.
DeclinedOnce == declined <= asked

\* docs/design.md 5.2: text "stops being a prompt when that line ends, not when
\* any output arrives"; an answer ends the line too.
PromptLivesWithLine == [][
    (waiting /\ pc' # "returned") => (shown' = shown <=> line' = line)]_vars

\* docs/design.md 5.2: text that output stopped on is a prompt.  A question for
\* the user that the command waits on, with no reply left to read, is put to the
\* user, however many lines were shown and answered before: the question itself,
\* not just any text.  Except where text is shown already when it comes, or the
\* timer runs out before it is read: only one prompt is shown of a line
\* (exec.go:153).
QuestionShown ==
    (asks = Secret /\ typed = 0 /\ shown = <<>>) ~>
        \/ asks # Secret \/ typed > 0
        \/ shown # <<>> /\ (tty # <<>> \/ Suffix(shown, Len(Secret)) = Secret)

\* Cancelling ends a command that ignores SIGTERM, that waits for an answer or
\* that hangs up later, and so frees its connection (exec.go:24).
CancelEnds == (cancelled /\ pc \in {"select", "answer"}) ~> (pc = "returned")
=============================================================================
