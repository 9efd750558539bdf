----------------------------- MODULE ExecProofs -----------------------------
(***************************************************************************)
(* Theorems about Exec for questions of any length, terminals and lines of  *)
(* any size and any number of replies: what is shown, what withdraws it,    *)
(* and how often a question is answered.                                    *)
(***************************************************************************)
EXTENDS Exec, SequenceLemmas, TLAPS

\* All pieces there are.
Pieces ==
    {Newline, Progress} \cup {Declined[i] : i \in DOMAIN Declined}
                        \cup {Secret[i] : i \in DOMAIN Secret}

Texts ==
    /\ tty \in Seq(Pieces)
    /\ pending \in Seq(Pieces)
    /\ shown \in Seq(Pieces)
    /\ line \in Nat
    /\ waiting \in BOOLEAN

\* While Exec waits for output, what stands on the line was not recognized, nor
\* is what is shown of it.
Unrecognized ==
    /\ pc = "select" => ~ Matches(pending, <<>>)
    /\ ~ Matches(shown, <<>>)

IInv == TypeOK /\ Texts /\ Unrecognized

USE DEF cmdVars, loopVars

-----------------------------------------------------------------------------
(* Sequences *)

\* What Suffix keeps is bounded, and empty only if there is nothing to keep.
LEMMA SuffixBounded ==
    ASSUME NEW S, NEW s \in Seq(S), NEW n \in Nat \ {0}
    PROVE  /\ Suffix(s, n) \in Seq(S)
           /\ Len(Suffix(s, n)) <= n
           /\ Suffix(s, n) = <<>> => s = <<>>
<1>1. CASE Len(s) <= n
  BY <1>1 DEF Suffix
<1>2. CASE Len(s) > n
  <2>1. Len(s) - n + 1 \in 1 .. Len(s) /\ Len(s) \in Nat
    BY <1>2
  <2>2. SubSeq(s, Len(s) - n + 1, Len(s)) \in Seq(S)
    BY <2>1
  <2>3. Len(SubSeq(s, Len(s) - n + 1, Len(s))) = n
    BY <2>1
  <2>4. Suffix(s, n) = SubSeq(s, Len(s) - n + 1, Len(s))
    BY <1>2, <2>1 DEF Suffix
  <2>5. Len(Suffix(s, n)) = n
    BY <2>3, <2>4
  <2>6. Suffix(s, n) # <<>>
    BY <2>5
  <2> QED
    BY <2>2, <2>4, <2>5, <2>6
<1> QED
  BY <1>1, <1>2

\* The last newline of a text that has one.
LEMMA LastNewline ==
    ASSUME NEW S, NEW text \in Seq(S), NEW ends, ends \subseteq DOMAIN text, ends # {}
    PROVE  \E i \in ends : \A k \in ends : k <= i
<1> DEFINE T == {Len(text) - i : i \in ends}
<1>1. T \subseteq Nat /\ T # {}
  OBVIOUS
<1> HIDE DEF T
<1>2. PICK least \in T : \A k \in T : least <= k
  BY <1>1, HasLeast
<1>3. PICK i \in ends : least = Len(text) - i
  BY DEF T
<1>4. \A k \in ends : Len(text) - i <= Len(text) - k
  BY <1>2, <1>3 DEF T
<1> QED
  BY <1>4

LEMMA LastLineOfText ==
    ASSUME NEW S, NEW text \in Seq(S)
    PROVE  /\ LastLine(text) \in Seq(S)
           /\ LastLine(text) = <<>> => text = <<>> \/ text[Len(text)] = Newline
<1> DEFINE ends == {i \in DOMAIN text : text[i] = Newline}
           last == CHOOSE i \in ends : \A k \in ends : k <= i
<1>1. CASE ends = {}
  BY <1>1 DEF LastLine
<1>2. CASE ends # {}
  <2>1. \E i \in ends : \A k \in ends : k <= i
    BY <1>2, LastNewline
  <2>2. last \in ends
    BY <2>1
  <2>3. last \in 1 .. Len(text)
    BY <2>2
  <2> HIDE DEF last
  <2>4. SubSeq(text, 1 + last, Len(text)) \in Seq(S)
    BY <2>3
  <2>5. LastLine(text) = SubSeq(text, 1 + last, Len(text))
    BY <1>2 DEF LastLine, last
  <2>6. Len(LastLine(text)) = Len(text) - last
    BY <2>3, <2>5
  <2>7. LastLine(text) = <<>> => last = Len(text)
    BY <2>3, <2>6
  <2>8. text[last] = Newline
    BY <2>2
  <2> QED
    BY <2>4, <2>5, <2>7, <2>8
<1> QED
  BY <1>1, <1>2

-----------------------------------------------------------------------------
(* The loop *)

LEMMA PiecesWritten ==
    /\ Newline \in Pieces /\ Progress \in Pieces /\ <<>> \in Seq(Pieces)
    /\ Declined \in Seq(Pieces) /\ Secret \in Seq(Pieces)
    /\ MaxPending \in Nat \ {0}
<1>1. \A text \in {Declined, Secret} : Len(text) \in Nat \ {0}
  BY TextsAssumption
<1>2. Declined \in Seq(Pieces)
  BY TextsAssumption DEF Pieces
<1>3. Secret \in Seq(Pieces)
  BY TextsAssumption DEF Pieces
<1>4. MaxPending \in Nat \ {0}
  BY <1>1, SizesAssumption
<1>5. Newline \in Pieces /\ Progress \in Pieces
  BY DEF Pieces
<1> QED
  BY <1>2, <1>3, <1>4, <1>5

LEMMA NothingMatches == ~ Matches(<<>>, <<>>)
BY DEF Matches

LEMMA LineEnds ==
    ASSUME Texts
    PROVE  Append(tty, Newline) \in Seq(Pieces) /\ tty \in Seq(Pieces) /\ line + 1 \in Nat
BY PiecesWritten DEF Texts

\* What a chunk does to the line and to the prompt.
LEMMA ChunkJoins ==
    ASSUME IInv, NEW chunk \in Seq(Pieces), chunk # <<>>, Chunk(chunk)
    PROVE  /\ pending' \in Seq(Pieces) /\ Len(pending') <= MaxPending
           /\ pc' \in {"select", "answer"}
           /\ pc' = "select" => ~ Matches(pending', <<>>)
           /\ line' \in Nat /\ waiting' \in BOOLEAN
           /\ waiting' => waiting /\ pending' # <<>>
           /\ shown' = IF waiting /\ ~ waiting' THEN <<>> ELSE shown
           /\ waiting => (line' = line <=> waiting')
<1> DEFINE text == pending \o chunk
           ended == \E i \in DOMAIN chunk : chunk[i] = Newline
<1>1. /\ text \in Seq(Pieces) /\ text # <<>>
      /\ text[Len(text)] = chunk[Len(chunk)]
      /\ Len(chunk) \in DOMAIN chunk
  BY DEF IInv, Texts
<1>2. /\ LastLine(text) \in Seq(Pieces)
      /\ LastLine(text) = <<>> => ended
  BY <1>1, LastLineOfText
<1>3. /\ pending' \in Seq(Pieces) /\ Len(pending') <= MaxPending
      /\ pending' = <<>> => ended
  <2>1. pending' = Suffix(LastLine(text), MaxPending)
    BY DEF Chunk
  <2> QED
    BY <1>2, <2>1, SuffixBounded, PiecesWritten
<1>4. /\ waiting' = (waiting /\ ~ ended)
      /\ shown' = IF waiting /\ ended THEN <<>> ELSE shown
      /\ line' = IF ended THEN line + 1 ELSE line
      /\ pc' = IF Matches(pending', <<>>) THEN "answer" ELSE "select"
  BY DEF Chunk, Matches
<1>5. line \in Nat /\ waiting \in BOOLEAN
  BY DEF IInv, Texts
<1>6. ended \in BOOLEAN
  OBVIOUS
<1> HIDE DEF ended
<1>7. pc' \in {"select", "answer"} /\ (pc' = "select" => ~ Matches(pending', <<>>))
  BY <1>4, Zenon
<1>8. CASE ended
  <2>1. line' = line + 1 /\ waiting' = FALSE
    BY <1>4, <1>8
  <2>2. shown' = IF waiting /\ ~ waiting' THEN <<>> ELSE shown
    BY <1>4, <1>8, <2>1
  <2>3. line' \in Nat /\ line' # line
    BY <1>5, <2>1
  <2> QED
    BY <1>3, <1>7, <2>1, <2>2, <2>3
<1>9. CASE ~ ended
  <2>1. line' = line /\ waiting' = waiting /\ shown' = shown
    BY <1>4, <1>5, <1>9
  <2>2. pending' # <<>>
    BY <1>3, <1>9
  <2> QED
    BY <1>3, <1>5, <1>7, <2>1, <2>2
<1> QED
  BY <1>8, <1>9

\* The steps of the loop.
LEMMA LoopSteps ==
    ASSUME IInv,
           Reads \/ Idle \/ TakesReply \/ Answers \/ AnswerFails \/ Eof \/ Waited
    PROVE  IInv'
<1> USE PiecesWritten, NothingMatches DEF IInv, TypeOK, Texts, Unrecognized
<1>1. CASE Reads
  <2>1. PICK n \in 1 .. Len(tty) :
            Chunk(SubSeq(tty, 1, n)) /\ tty' = SubSeq(tty, n + 1, Len(tty))
    BY <1>1 DEF Reads
  <2> DEFINE chunk == SubSeq(tty, 1, n)
  <2>2. /\ chunk \in Seq(Pieces) /\ chunk # <<>>
        /\ tty' \in Seq(Pieces)
    <3>1. Len(tty) \in Nat /\ n \in 1 .. Len(tty)
      OBVIOUS
    <3>2. chunk \in Seq(Pieces) /\ Len(chunk) = n
      BY <3>1
    <3> HIDE DEF chunk
    <3>3. chunk # <<>>
      BY <3>1, <3>2
    <3>4. SubSeq(tty, n + 1, Len(tty)) \in Seq(Pieces)
      BY <3>1
    <3> QED
      BY <2>1, <3>2, <3>3, <3>4
  <2> HIDE DEF chunk
  <2>3. Chunk(chunk)
    BY <2>1 DEF chunk
  <2>4. UNCHANGED <<running, asks, killer>> /\ pc = "select"
    BY <1>1 DEF Reads
  <2>5. /\ pending' \in Seq(Pieces) /\ Len(pending') <= MaxPending
        /\ pc' \in {"select", "answer"}
        /\ pc' = "select" => ~ Matches(pending', <<>>)
        /\ line' \in Nat /\ waiting' \in BOOLEAN
        /\ waiting' => waiting /\ pending' # <<>>
        /\ shown' = IF waiting /\ ~ waiting' THEN <<>> ELSE shown
    BY <2>2, <2>3, ChunkJoins
  <2>6. TypeOK'
    BY <2>4, <2>5
  <2>7. Texts'
    BY <2>2, <2>5
  <2>8. Unrecognized'
    BY <2>5
  <2> QED
    BY <2>6, <2>7, <2>8
<1>2. CASE Idle
  BY <1>2 DEF Idle
<1>3. CASE TakesReply
  BY <1>3 DEF TakesReply
<1>4. CASE Answers
  <2>1. /\ UNCHANGED <<running, asks, killer>>
        /\ pc' = "select" /\ waiting' = FALSE /\ pending' = <<>> /\ shown' = <<>>
    BY <1>4 DEF Answers, Answered
  <2>2. line' \in Nat /\ tty' \in Seq(Pieces)
    BY <1>4, LineEnds DEF Answers, Answered
  <2>3. TypeOK'
    BY <2>1
  <2>4. Texts'
    BY <2>1, <2>2
  <2>5. Unrecognized'
    BY <2>1
  <2> QED
    BY <2>3, <2>4, <2>5
<1>5. CASE AnswerFails
  <2>1. /\ UNCHANGED <<running, asks, tty, line>>
      /\ pc' = "returned" /\ killer' = "over"
      /\ waiting' = FALSE /\ pending' = <<>> /\ shown' = <<>>
    BY <1>5 DEF AnswerFails, Returns
  <2>2. TypeOK'
    BY <2>1
  <2>3. Texts'
    BY <2>1
  <2>4. Unrecognized'
    BY <2>1, Zenon
  <2> QED
    BY <2>2, <2>3, <2>4
<1>6. CASE Eof
  BY <1>6 DEF Eof
<1>7. CASE Waited
  <2>1. /\ UNCHANGED <<running, asks, tty, line>>
      /\ pc' = "returned" /\ killer' = "over"
      /\ waiting' = FALSE /\ pending' = <<>> /\ shown' = <<>>
    BY <1>7 DEF Waited, Returns
  <2>2. TypeOK'
    BY <2>1
  <2>3. Texts'
    BY <2>1
  <2>4. Unrecognized'
    BY <2>1, Zenon
  <2> QED
    BY <2>2, <2>3, <2>4
<1> QED
  BY <1>1, <1>2, <1>3, <1>4, <1>5, <1>6, <1>7

\* The steps of the command.
LEMMA CommandSteps ==
    ASSUME IInv,
           CmdPrints \/ CmdAsks \/ CmdReads \/ CmdMovesOn \/ CmdExits \/ CmdHangsUp
    PROVE  IInv'
<1> USE PiecesWritten, NothingMatches DEF IInv, TypeOK, Texts, Unrecognized
<1>1. CASE CmdPrints
  BY <1>1 DEF CmdPrints, Write
<1>2. CASE CmdAsks
  BY <1>2 DEF CmdAsks, Write
<1>3. CASE CmdReads
  BY <1>3 DEF CmdReads
<1>4. CASE CmdMovesOn
  BY <1>4 DEF CmdMovesOn
<1>5. CASE CmdExits
  BY <1>5 DEF CmdExits, Exits
<1>6. CASE CmdHangsUp
  BY <1>6 DEF CmdHangsUp
<1> QED
  BY <1>1, <1>2, <1>3, <1>4, <1>5, <1>6

\* The steps of the user, of the context and of its callback.
LEMMA OutsideSteps ==
    ASSUME IInv, Reply \/ Cancel \/ Terminate \/ Kill
    PROVE  IInv'
<1> USE DEF IInv, TypeOK, Texts, Unrecognized
<1>1. CASE Reply
  BY <1>1 DEF Reply
<1>2. CASE Cancel
  BY <1>2 DEF Cancel
<1>3. CASE Terminate
  BY <1>3 DEF Terminate, Exits
<1>4. CASE Kill
  BY <1>4 DEF Kill, Exits
<1> QED
  BY <1>1, <1>2, <1>3, <1>4

LEMMA NextKeeps ==
    ASSUME IInv, [Next]_vars
    PROVE  IInv'
<1>1. CASE Next
  BY <1>1, LoopSteps, CommandSteps, OutsideSteps DEF Next
<1>2. CASE UNCHANGED vars
  BY <1>2 DEF vars, IInv, TypeOK, Texts, Unrecognized
<1> QED
  BY <1>1, <1>2

\* Exec keeps its inductive invariant: what is shown and what stands on the line
\* while it waits for output was not recognized.
THEOREM Invariance == Spec => []IInv
<1>1. Init => IInv
  <2>1. SUFFICES ASSUME Init PROVE IInv
    OBVIOUS
  <2>2. TypeOK
    BY <2>1, PiecesWritten DEF Init, TypeOK
  <2>3. Texts
    BY <2>1, PiecesWritten DEF Init, Texts
  <2>4. Unrecognized
    BY <2>1, NothingMatches DEF Init, Unrecognized
  <2> QED
    BY <2>2, <2>3, <2>4 DEF IInv
<1>2. IInv /\ [Next]_vars => IInv'
  BY NextKeeps
<1> QED
  BY <1>1, <1>2, PTL DEF Spec

\* The types of Exec; a job awaits input exactly while Exec believes it waits.
THEOREM TypeCorrect == Spec => []TypeOK
<1>1. IInv => TypeOK
  BY DEF IInv
<1> QED
  BY <1>1, Invariance, PTL

\* A question that the specification's answers recognize is never put to the user,
\* however reads cut the output and whatever else stands on its line.
THEOREM ShowsOnlyOthers == Spec => []OnlyOthersShown
<1>1. IInv => OnlyOthersShown
  BY DEF IInv, Unrecognized, Matches, OnlyOthersShown
<1> QED
  BY <1>1, Invariance, PTL

\* A prompt is withdrawn by the end of its line and by nothing else.
THEOREM PromptFollowsLine == Spec => PromptLivesWithLine
<1> DEFINE Lives == (waiting /\ pc' # "returned") => (shown' = shown <=> line' = line)
<1>1. ASSUME IInv, Next, waiting, pc' # "returned"
      PROVE  shown' = shown <=> line' = line
  <2> USE <1>1 DEF IInv, TypeOK, Texts
  <2>1. CASE Reads
    <3>1. PICK n \in 1 .. Len(tty) : Chunk(SubSeq(tty, 1, n))
      BY <2>1 DEF Reads
    <3> DEFINE chunk == SubSeq(tty, 1, n)
    <3>2. chunk \in Seq(Pieces) /\ Len(chunk) = n
      OBVIOUS
    <3> HIDE DEF chunk
    <3>3. chunk # <<>> /\ Chunk(chunk)
      BY <3>1, <3>2 DEF chunk
    <3>4. /\ shown' = IF waiting /\ ~ waiting' THEN <<>> ELSE shown
          /\ line' = line <=> waiting'
      BY <3>2, <3>3, ChunkJoins
    <3> QED
      BY <3>4
  <2>2. CASE Answers
    BY <2>2 DEF Answers, Answered
  <2>3. CASE Idle \/ TakesReply \/ AnswerFails \/ Eof \/ Waited
    BY <2>3 DEF Idle, TakesReply, AnswerFails, Eof, Waited, Returns
  <2>4. CASE CmdPrints \/ CmdAsks \/ CmdReads \/ CmdMovesOn \/ CmdExits \/ CmdHangsUp
    BY <2>4 DEF CmdPrints, CmdAsks, CmdReads, CmdMovesOn, CmdExits, CmdHangsUp
  <2>5. CASE Reply \/ Cancel \/ Terminate \/ Kill
    BY <2>5 DEF Reply, Cancel, Terminate, Kill
  <2> QED
    BY <2>1, <2>2, <2>3, <2>4, <2>5 DEF Next
<1>2. IInv /\ [Next]_vars => [Lives]_vars
  BY <1>1
<1> QED
  BY <1>2, Invariance, PTL DEF Spec, PromptLivesWithLine

-----------------------------------------------------------------------------
(* Answers are counted by the piece that ends what they match *)

Mark == Pattern[Len(Pattern)]

Marked(text) == {i \in DOMAIN text : text[i] = Mark}

Marks(text) == Cardinality(Marked(text))

\* Each answer took its mark off the line, so what was answered and what may still
\* be answered was asked.
Counted ==
    /\ declined \in Nat /\ asked \in Nat
    /\ declined + Marks(tty) + (IF pc = "select" THEN Marks(pending) ELSE 0) <= asked

\* As many numbers as before they were shifted.
LEMMA ShiftKeepsCount ==
    ASSUME NEW M, IsFiniteSet(M), M \subseteq Nat, NEW d \in Nat,
           NEW N, N = {i + d : i \in M}
    PROVE  IsFiniteSet(N) /\ Cardinality(N) = Cardinality(M)
<1>1. PICK f : f = [i \in M |-> i + d]
  OBVIOUS
<1>2. f \in [M -> N]
  BY <1>1
<1>3. \A i, k \in M : f[i] = f[k] => i = k
  BY <1>1
<1>4. \A n \in N : \E i \in M : f[i] = n
  BY <1>1
<1>5. f \in Bijection(M, N)
  BY <1>2, <1>3, <1>4 DEF Bijection, Injection, Surjection, IsInjective
<1> QED
  BY <1>5, FS_Bijection DEF ExistsBijection

LEMMA MarksType ==
    ASSUME NEW S, NEW s \in Seq(S)
    PROVE  IsFiniteSet(Marked(s)) /\ Marked(s) \subseteq 1 .. Len(s) /\ Marks(s) \in Nat
<1>1. Len(s) \in Nat /\ Marked(s) \subseteq 1 .. Len(s)
  BY DEF Marked
<1>2. IsFiniteSet(1 .. Len(s))
  BY <1>1, FS_Interval
<1>3. IsFiniteSet(Marked(s))
  BY <1>1, <1>2, FS_Subset
<1> QED
  BY <1>1, <1>3, FS_CardinalityType DEF Marks

\* Texts that are joined bring the marks of both.
LEMMA MarksJoin ==
    ASSUME NEW S, NEW s \in Seq(S), NEW t \in Seq(S)
    PROVE  Marks(s \o t) = Marks(s) + Marks(t)
<1>1. PICK m : m = Len(s)
  OBVIOUS
<1>2. PICK N : N = {i + m : i \in Marked(t)}
  OBVIOUS
<1>3. /\ m \in Nat
      /\ IsFiniteSet(Marked(s)) /\ Marked(s) \subseteq 1 .. m
      /\ IsFiniteSet(Marked(t)) /\ Marked(t) \subseteq 1 .. Len(t) /\ Len(t) \in Nat
  BY <1>1, MarksType
<1>4. IsFiniteSet(N) /\ Cardinality(N) = Cardinality(Marked(t))
  <2>1. Marked(t) \subseteq Nat
    BY <1>3
  <2> QED
    BY <1>2, <1>3, <2>1, ShiftKeepsCount
<1>5. PICK u : u = s \o t
  OBVIOUS
<1>6. /\ DOMAIN u = 1 .. m + Len(t)
      /\ \A i \in 1 .. m + Len(t) : u[i] = IF i <= m THEN s[i] ELSE t[i - m]
      /\ DOMAIN s = 1 .. m /\ DOMAIN t = 1 .. Len(t)
  BY <1>1, <1>5
<1>7. Marked(u) = Marked(s) \cup N
  <2>1. ASSUME NEW i \in Marked(u) PROVE i \in Marked(s) \cup N
    <3>1. i \in 1 .. m + Len(t) /\ u[i] = Mark
      BY <1>6 DEF Marked
    <3>2. CASE i <= m
      BY <1>3, <1>6, <3>1, <3>2 DEF Marked
    <3>3. CASE ~ (i <= m)
      <4>1. i - m \in 1 .. Len(t) /\ t[i - m] = Mark /\ i = (i - m) + m
        BY <1>3, <1>6, <3>1, <3>3
      <4>2. i - m \in Marked(t)
        BY <1>6, <4>1 DEF Marked
      <4> QED
        BY <1>2, <4>1, <4>2
    <3> QED
      BY <3>2, <3>3
  <2>2. ASSUME NEW i \in Marked(s) PROVE i \in Marked(u)
    BY <1>3, <1>6 DEF Marked
  <2>3. ASSUME NEW k \in Marked(t) PROVE k + m \in Marked(u)
    <3>1. k \in 1 .. Len(t) /\ t[k] = Mark
      BY <1>3 DEF Marked
    <3>2. k + m \in 1 .. m + Len(t) /\ ~ (k + m <= m) /\ (k + m) - m = k
      BY <1>3, <3>1
    <3>3. u[k + m] = t[k]
      BY <1>6, <3>2
    <3> QED
      BY <1>6, <3>1, <3>2, <3>3 DEF Marked
  <2> QED
    BY <1>2, <2>1, <2>2, <2>3
<1>8. Marked(s) \cap N = {}
  <2>1. \A k \in Marked(t) : k + m \notin 1 .. m
    BY <1>3
  <2> QED
    BY <1>2, <1>3, <2>1
<1>9. Cardinality(Marked(s) \cup N) = Cardinality(Marked(s)) + Cardinality(N)
  <2>1. /\ Cardinality(Marked(s)) \in Nat /\ Cardinality(N) \in Nat
        /\ Cardinality(Marked(s) \cap N) = 0
    BY <1>3, <1>4, <1>8, FS_CardinalityType, FS_EmptySet
  <2>2. IsFiniteSet(Marked(s)) /\ IsFiniteSet(N)
    BY <1>3, <1>4
  <2>3. Cardinality(Marked(s) \cup N) =
            Cardinality(Marked(s)) + Cardinality(N) - Cardinality(Marked(s) \cap N)
    BY <2>2, FS_Union
  <2> QED
    BY <2>1, <2>3
<1> QED
  BY <1>4, <1>5, <1>7, <1>9 DEF Marks

\* A text that is cut in two leaves the marks of both parts.
LEMMA MarksSplit ==
    ASSUME NEW S, NEW s \in Seq(S), NEW m \in 0 .. Len(s)
    PROVE  /\ SubSeq(s, 1, m) \in Seq(S) /\ SubSeq(s, m + 1, Len(s)) \in Seq(S)
           /\ Marks(s) = Marks(SubSeq(s, 1, m)) + Marks(SubSeq(s, m + 1, Len(s)))
           /\ Marks(SubSeq(s, m + 1, Len(s))) <= Marks(s)
<1>1. PICK a, b : a = SubSeq(s, 1, m) /\ b = SubSeq(s, m + 1, Len(s))
  OBVIOUS
<1>2. /\ a \in Seq(S) /\ b \in Seq(S)
      /\ Len(a) = m /\ Len(b) = Len(s) - m /\ m \in Nat /\ Len(s) \in Nat
  BY <1>1
<1>3. s = a \o b
  <2>1. /\ \A i \in 1 .. m : a[i] = s[i]
        /\ \A i \in 1 .. Len(s) - m : b[i] = s[m + i]
    BY <1>1
  <2>2. Len(a \o b) = Len(s) /\ a \o b \in Seq(S)
    BY <1>2
  <2>3. ASSUME NEW i \in 1 .. Len(s) PROVE (a \o b)[i] = s[i]
    <3>1. CASE i <= m
      BY <1>2, <2>1, <3>1
    <3>2. CASE ~ (i <= m)
      <4>1. i - m \in 1 .. Len(s) - m /\ m + (i - m) = i
        BY <1>2, <3>2
      <4>2. b[i - m] = s[i]
        BY <2>1, <4>1
      <4>3. (a \o b)[i] = b[i - m]
        BY <1>2, <3>2
      <4> QED
        BY <4>2, <4>3
    <3> QED
      BY <3>1, <3>2
  <2> QED
    BY <2>2, <2>3, SeqEqual
<1>4. Marks(s) = Marks(a) + Marks(b) /\ Marks(a) \in Nat /\ Marks(b) \in Nat
  BY <1>2, <1>3, MarksJoin, MarksType
<1>5. a \in Seq(S) /\ b \in Seq(S) /\ Marks(s) = Marks(a) + Marks(b) /\ Marks(b) <= Marks(s)
  BY <1>2, <1>4
<1> QED
  BY <1>1, <1>5

\* Of all that is written, only the question that is declined brings a mark.
LEMMA TextMarks ==
    /\ Marks(<<>>) = 0 /\ Marks(<<Newline>>) = 0 /\ Marks(<<Progress>>) = 0
    /\ Marks(Secret) = 0
    /\ Marks(Declined) <= 1
<1>1. Marked(<<>>) = {} /\ Marked(<<Newline>>) = {} /\ Marked(<<Progress>>) = {}
  BY PatternAssumption DEF Marked, Mark
<1>2. Marked(Secret) = {}
  BY PatternAssumption DEF Marked, Mark
<1>3. Marks(Declined) <= 1
  <2>1. CASE Marked(Declined) = {}
    BY <2>1, FS_EmptySet DEF Marks
  <2>2. CASE Marked(Declined) # {}
    <3>1. PICK i : i \in Marked(Declined)
      BY <2>2
    <3>2. Marked(Declined) = {i}
      BY <3>1, PatternAssumption DEF Marked, Mark
    <3>3. Cardinality({i}) = 1
      BY FS_Singleton
    <3> QED
      BY <3>2, <3>3 DEF Marks
  <2> QED
    BY <2>1, <2>2
<1> QED
  BY <1>1, <1>2, <1>3, FS_EmptySet DEF Marks

\* What the answers match brings a mark.
LEMMA MatchMarks ==
    ASSUME NEW S, NEW text \in Seq(S), NEW chunk, Matches(text, chunk)
    PROVE  Marks(text) >= 1
<1>1. PICK i \in DOMAIN text :
        /\ i + Len(Pattern) - 1 <= Len(text)
        /\ SubSeq(text, i, i + Len(Pattern) - 1) = Pattern
  BY DEF Matches
<1>2. Len(Pattern) \in Nat \ {0}
  BY PatternAssumption
<1>3. i \in 1 .. Len(text) /\ Len(text) \in Nat
  BY <1>1
<1>4. PICK last : last = i + Len(Pattern) - 1
  OBVIOUS
<1>5. last \in DOMAIN text
  BY <1>1, <1>2, <1>3, <1>4
<1>6. SubSeq(text, i, last)[Len(Pattern)] = text[last]
  BY <1>1, <1>2, <1>3, <1>4
<1>7. last \in Marked(text)
  BY <1>1, <1>4, <1>5, <1>6 DEF Marked, Mark
<1>8. Marks(text) \in Nat /\ Marks(text) # 0
  BY <1>7, MarksType, FS_EmptySet DEF Marks
<1> QED
  BY <1>8

\* What is kept of a line brings no mark that it did not have.
LEMMA SuffixMarks ==
    ASSUME NEW S, NEW s \in Seq(S), NEW n \in Nat \ {0}
    PROVE  Suffix(s, n) \in Seq(S) /\ Marks(Suffix(s, n)) <= Marks(s)
<1>1. CASE Len(s) <= n
  BY <1>1, MarksType DEF Suffix
<1>2. CASE Len(s) > n
  <2>1. PICK m : m = Len(s) - n
    OBVIOUS
  <2>2. m \in 0 .. Len(s) /\ Len(s) - n + 1 = m + 1
    BY <1>2, <2>1
  <2>3. Suffix(s, n) = SubSeq(s, m + 1, Len(s))
    BY <1>2, <2>2 DEF Suffix
  <2> QED
    BY <2>2, <2>3, MarksSplit
<1> QED
  BY <1>1, <1>2

LEMMA LastLineMarks ==
    ASSUME NEW S, NEW text \in Seq(S)
    PROVE  LastLine(text) \in Seq(S) /\ Marks(LastLine(text)) <= Marks(text)
<1> DEFINE ends == {i \in DOMAIN text : text[i] = Newline}
           last == CHOOSE i \in ends : \A k \in ends : k <= i
<1>1. CASE ends = {}
  BY <1>1, MarksType DEF LastLine
<1>2. CASE ends # {}
  <2>1. \E i \in ends : \A k \in ends : k <= i
    BY <1>2, LastNewline
  <2>2. last \in 1 .. Len(text)
    BY <2>1
  <2> HIDE DEF last
  <2>3. LastLine(text) = SubSeq(text, 1 + last, Len(text))
    BY <1>2 DEF LastLine, last
  <2>4. last \in 0 .. Len(text) /\ 1 + last = last + 1
    BY <2>2
  <2> QED
    BY <2>3, <2>4, MarksSplit
<1> QED
  BY <1>1, <1>2

\* Reading moves marks from the terminal to the line, and an answer is one less.
LEMMA ReadsCount ==
    ASSUME IInv, Counted, Reads
    PROVE  Counted'
<1>1. /\ tty \in Seq(Pieces) /\ pending \in Seq(Pieces)
      /\ pc = "select" /\ asked' = asked
      /\ declined' = IF pc' = "answer" THEN declined + 1 ELSE declined
  BY DEF IInv, Texts, Reads
<1>2. PICK n \in 1 .. Len(tty) :
        Chunk(SubSeq(tty, 1, n)) /\ tty' = SubSeq(tty, n + 1, Len(tty))
  BY DEF Reads
<1>3. PICK chunk, rest : chunk = SubSeq(tty, 1, n) /\ rest = SubSeq(tty, n + 1, Len(tty))
  OBVIOUS
<1>4. /\ chunk \in Seq(Pieces) /\ rest \in Seq(Pieces)
      /\ Marks(tty) = Marks(chunk) + Marks(rest)
  <2>1. n \in 0 .. Len(tty)
    BY <1>2
  <2> QED
    BY <1>1, <1>3, <2>1, MarksSplit
<1>5. PICK text : text = pending \o chunk
  OBVIOUS
<1>6. text \in Seq(Pieces) /\ Marks(text) = Marks(pending) + Marks(chunk)
  BY <1>1, <1>4, <1>5, MarksJoin
<1>7. PICK last : last = LastLine(text)
  OBVIOUS
<1>8. last \in Seq(Pieces) /\ Marks(last) <= Marks(text)
  BY <1>6, <1>7, LastLineMarks
<1>9. PICK tail : tail = Suffix(last, MaxPending)
  OBVIOUS
<1>10. tail \in Seq(Pieces) /\ Marks(tail) <= Marks(last)
  BY <1>8, <1>9, PiecesWritten, SuffixMarks
<1>11. /\ pending' = tail /\ tty' = rest
       /\ pc' = IF Matches(tail, chunk) THEN "answer" ELSE "select"
  BY <1>2, <1>3, <1>5, <1>7, <1>9 DEF Chunk
<1>12. /\ Marks(tty) \in Nat /\ Marks(pending) \in Nat /\ Marks(chunk) \in Nat
       /\ Marks(rest) \in Nat /\ Marks(text) \in Nat /\ Marks(last) \in Nat
       /\ Marks(tail) \in Nat
  BY <1>1, <1>4, <1>6, <1>8, <1>10, MarksType
<1>13. /\ declined \in Nat /\ asked \in Nat
       /\ declined + Marks(tty) + Marks(pending) <= asked
  BY <1>1 DEF Counted
<1>14. declined + Marks(rest) + Marks(tail) <= asked
  <2>1. /\ Marks(tty) = Marks(chunk) + Marks(rest)
        /\ Marks(text) = Marks(pending) + Marks(chunk)
        /\ Marks(last) <= Marks(text) /\ Marks(tail) <= Marks(last)
    BY <1>4, <1>6, <1>8, <1>10
  <2>2. PICK a, b, c, d, e, f, g :
            /\ a = Marks(tty) /\ b = Marks(pending) /\ c = Marks(chunk) /\ d = Marks(rest)
            /\ e = Marks(text) /\ f = Marks(last) /\ g = Marks(tail)
    OBVIOUS
  <2>3. {a, b, c, d, e, f, g} \subseteq Nat
    BY <1>12, <2>2
  <2>4. a = c + d /\ e = b + c /\ f <= e /\ g <= f /\ declined + a + b <= asked
    BY <1>13, <2>1, <2>2
  <2>5. declined + d + g <= asked
    <3>1. /\ a \in Nat /\ b \in Nat /\ c \in Nat /\ d \in Nat /\ e \in Nat
          /\ f \in Nat /\ g \in Nat /\ declined \in Nat /\ asked \in Nat
      BY <1>13, <2>3
    <3> QED
      BY <2>4, <3>1
  <2> QED
    BY <2>2, <2>5
<1>15. Marks(tty)' = Marks(rest) /\ Marks(pending)' = Marks(tail)
  BY <1>11 DEF Marks, Marked
<1>16. CASE Matches(tail, chunk)
  <2>1. Marks(tail) >= 1
    BY <1>10, <1>16, MatchMarks
  <2>2. pc' = "answer" /\ declined' = declined + 1
    BY <1>1, <1>11, <1>16
  <2>3. declined + 1 + Marks(rest) + 0 <= asked /\ declined + 1 \in Nat
    BY <1>12, <1>13, <1>14, <2>1, SMTT(30)
  <2> QED
    BY <1>1, <1>13, <1>15, <2>2, <2>3 DEF Counted
<1>17. CASE ~ Matches(tail, chunk)
  <2>1. pc' = "select" /\ declined' = declined
    BY <1>1, <1>11, <1>17
  <2> QED
    BY <1>1, <1>13, <1>14, <1>15, <2>1 DEF Counted
<1> QED
  BY <1>16, <1>17

\* Of the other steps, asking brings at most the mark of what it asks.
LEMMA WritesCount ==
    ASSUME IInv, Counted, CmdPrints \/ CmdAsks
    PROVE  Counted'
<1>1. tty \in Seq(Pieces) /\ declined \in Nat /\ asked \in Nat
  BY DEF IInv, Texts, Counted
<1>2. PICK text \in Seq(Pieces) :
        /\ tty' = tty \o text
        /\ UNCHANGED <<pc, pending, declined>>
        /\ asked' \in Nat /\ asked + Marks(text) <= asked'
  <2>1. CASE CmdPrints
    <3>1. PICK piece \in {Newline, Progress} : Write(<<piece>>)
      BY <2>1 DEF CmdPrints
    <3>2. <<piece>> \in Seq(Pieces) /\ Marks(<<piece>>) = 0
      BY PiecesWritten, TextMarks
    <3>3. tty' = tty \o <<piece>> /\ UNCHANGED <<pc, pending, declined, asked>>
      BY <2>1, <3>1 DEF CmdPrints, Write
    <3>4. PICK text : text = <<piece>>
      OBVIOUS
    <3>5. text \in Seq(Pieces) /\ Marks(text) = 0 /\ tty' = tty \o text
      BY <3>2, <3>3, <3>4
    <3>6. asked' \in Nat /\ asked + Marks(text) <= asked'
      BY <1>1, <3>3, <3>5
    <3> QED
      BY <3>3, <3>5, <3>6
  <2>2. CASE CmdAsks
    <3>1. PICK question \in {Declined, Secret} :
            Write(question) /\ asked' = IF question = Declined THEN asked + 1 ELSE asked
      BY <2>2 DEF CmdAsks
    <3>2. question \in Seq(Pieces)
      BY PiecesWritten
    <3>3. tty' = tty \o question /\ UNCHANGED <<pc, pending, declined>>
      BY <2>2, <3>1 DEF CmdAsks, Write
    <3>4. CASE question = Declined
      <4>1. Marks(question) \in Nat /\ Marks(question) <= 1
        BY <3>2, <3>4, TextMarks, MarksType
      <4>2. asked' = asked + 1
        BY <3>1, <3>4
      <4> QED
        BY <1>1, <3>2, <3>3, <4>1, <4>2
    <3>5. CASE question # Declined
      <4>1. Marks(question) = 0 /\ asked' = asked
        BY <3>1, <3>5, TextMarks
      <4> QED
        BY <1>1, <3>2, <3>3, <4>1
    <3> QED
      BY <3>4, <3>5
  <2> QED
    BY <2>1, <2>2
<1>3. /\ Marks(tty \o text) = Marks(tty) + Marks(text)
      /\ Marks(tty) \in Nat /\ Marks(text) \in Nat
  BY <1>1, MarksJoin, MarksType
<1>4. /\ Marks(tty)' = Marks(tty) + Marks(text)
      /\ Marks(pending)' = Marks(pending)
  BY <1>2, <1>3 DEF Marks, Marked
<1>5. Marks(pending) \in Nat
  BY MarksType DEF IInv, Texts
<1>6. PICK kept : kept = IF pc = "select" THEN Marks(pending) ELSE 0
  OBVIOUS
<1>7. kept \in Nat /\ declined + Marks(tty) + kept <= asked
  BY <1>5, <1>6 DEF Counted
<1>8. declined + (Marks(tty) + Marks(text)) + kept <= asked'
  BY <1>1, <1>2, <1>3, <1>7
<1>9. kept = IF pc' = "select" THEN Marks(pending)' ELSE 0
  BY <1>2, <1>4, <1>6
<1> QED
  BY <1>1, <1>2, <1>4, <1>8, <1>9 DEF Counted

\* A newline of the command or of an echo brings no mark, and the line only loses
\* what it had.
LEMMA OthersCount ==
    ASSUME IInv, Counted, [Next]_vars, ~ Reads, ~ CmdPrints, ~ CmdAsks
    PROVE  Counted'
<1>1. /\ tty \in Seq(Pieces) /\ pending \in Seq(Pieces)
      /\ declined \in Nat /\ asked \in Nat
  BY DEF IInv, Texts, Counted
<1>2. UNCHANGED <<declined, asked>> /\ tty' \in {tty, Append(tty, Newline)}
  <2>1. CASE CmdReads \/ CmdMovesOn \/ CmdExits \/ CmdHangsUp
    BY <2>1 DEF CmdReads, CmdMovesOn, CmdExits, CmdHangsUp
  <2>2. CASE Idle \/ TakesReply \/ Answers \/ AnswerFails \/ Eof \/ Waited
    BY <2>2 DEF Idle, TakesReply, Answers, AnswerFails, Eof, Waited
  <2>3. CASE Reply \/ Cancel \/ Terminate \/ Kill
    BY <2>3 DEF Reply, Cancel, Terminate, Kill
  <2>4. CASE UNCHANGED vars
    BY <2>4 DEF vars
  <2> QED
    BY <2>1, <2>2, <2>3, <2>4 DEF Next
<1>3. pc' = "select" => pending' = <<>> \/ (pc = "select" /\ pending' = pending)
  <2>1. CASE CmdReads \/ CmdMovesOn \/ CmdExits \/ CmdHangsUp
    BY <2>1 DEF CmdReads, CmdMovesOn, CmdExits, CmdHangsUp
  <2>2. CASE Idle \/ TakesReply \/ Answers \/ AnswerFails \/ Eof \/ Waited
    BY <2>2 DEF Idle, TakesReply, Answers, Answered, AnswerFails, Returns, Eof, Waited
  <2>3. CASE Reply \/ Cancel \/ Terminate \/ Kill
    BY <2>3 DEF Reply, Cancel, Terminate, Kill
  <2>4. CASE UNCHANGED vars
    BY <2>4 DEF vars
  <2> QED
    BY <2>1, <2>2, <2>3, <2>4 DEF Next
<1>4. Marks(tty)' = Marks(tty) /\ Marks(tty) \in Nat
  <2>1. <<Newline>> \in Seq(Pieces) /\ Append(tty, Newline) = tty \o <<Newline>>
    BY <1>1, PiecesWritten, AppendIsConcat
  <2>2. Marks(tty \o <<Newline>>) = Marks(tty) + Marks(<<Newline>>)
    BY <1>1, <2>1, MarksJoin
  <2>3. Marks(tty) \in Nat /\ Marks(Append(tty, Newline)) = Marks(tty)
    BY <1>1, <2>1, <2>2, TextMarks, MarksType
  <2>4. PICK t : t = tty' /\ Marks(t) = Marks(tty)
    BY <1>2, <2>3
  <2>5. Marks(tty)' = Marks(t)
    BY <2>4 DEF Marks, Marked
  <2> QED
    BY <2>3, <2>4, <2>5
<1>5. PICK kept, left : /\ kept = IF pc = "select" THEN Marks(pending) ELSE 0
                        /\ left = IF pc' = "select" THEN Marks(pending)' ELSE 0
  OBVIOUS
<1>6. kept \in Nat /\ left \in Nat /\ left <= kept
  <2>1. Marks(pending) \in Nat /\ kept \in Nat
    BY <1>1, <1>5, MarksType
  <2>2. CASE pc' = "select" /\ pending' = <<>>
    <3>1. Marks(pending)' = Marks(<<>>)
      BY <2>2 DEF Marks, Marked
    <3> QED
      BY <1>5, <2>1, <2>2, <3>1, TextMarks
  <2>3. CASE pc' = "select" /\ pending' # <<>>
    <3>1. Marks(pending)' = Marks(pending) /\ pc = "select"
      BY <1>3, <2>3 DEF Marks, Marked
    <3> QED
      BY <1>5, <2>1, <2>3, <3>1
  <2>4. CASE pc' # "select"
    BY <1>5, <2>1, <2>4
  <2> QED
    BY <2>2, <2>3, <2>4
<1>7. declined + Marks(tty) + kept <= asked
  BY <1>5 DEF Counted
<1>8. declined + Marks(tty) + left <= asked
  BY <1>1, <1>4, <1>6, <1>7
<1> QED
  BY <1>1, <1>2, <1>4, <1>5, <1>8 DEF Counted

\* A question that the specification answers is answered once, however the output is
\* cut, whatever joins its line and however many replies users type: nothing is ever
\* typed that no question asked for.
THEOREM AnswersOnce == Spec => []DeclinedOnce
<1>1. Init => Counted
  <2>1. SUFFICES ASSUME Init PROVE Counted
    OBVIOUS
  <2>2. /\ tty = <<>> /\ pending = <<>> /\ declined = 0 /\ asked = 0
    BY <2>1 DEF Init
  <2> QED
    BY <2>2, TextMarks DEF Counted
<1>2. IInv /\ Counted /\ [Next]_vars => Counted'
  <2>1. SUFFICES ASSUME IInv, Counted, [Next]_vars PROVE Counted'
    OBVIOUS
  <2>2. CASE Reads
    BY <2>1, <2>2, ReadsCount
  <2>3. CASE CmdPrints \/ CmdAsks
    BY <2>1, <2>3, WritesCount
  <2>4. CASE ~ Reads /\ ~ CmdPrints /\ ~ CmdAsks
    BY <2>1, <2>4, OthersCount
  <2> QED
    BY <2>2, <2>3, <2>4
<1>3. IInv /\ Counted => DeclinedOnce
  <2>1. SUFFICES ASSUME IInv, Counted PROVE declined <= asked
    BY DEF DeclinedOnce
  <2>2. Marks(tty) \in Nat /\ Marks(pending) \in Nat
    BY <2>1, MarksType DEF IInv, Texts
  <2>3. PICK kept : kept = IF pc = "select" THEN Marks(pending) ELSE 0
    OBVIOUS
  <2>4. kept \in Nat
    BY <2>2, <2>3
  <2>5. declined \in Nat /\ asked \in Nat /\ declined + Marks(tty) + kept <= asked
    BY <2>1, <2>3 DEF Counted
  <2> QED
    BY <2>2, <2>4, <2>5
<1> QED
  BY <1>1, <1>2, <1>3, Invariance, PTL DEF Spec
=============================================================================
