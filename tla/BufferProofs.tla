----------------------------- MODULE BufferProofs -----------------------------
(***************************************************************************)
(* What the text buffer of one editor promises, for any text, any command, *)
(* any cursors and any limits: undo and redo travel its versions, and      *)
(* several cursors edit as if at once and stay apart and in the text.      *)
(***************************************************************************)
EXTENDS BufferSafety, FiniteSetTheorems, SequenceTheorems, TLAPS

-----------------------------------------------------------------------------
(* Sequences of anything.                                                  *)

\* The stacks hold entries, and no proof asks which.
IsSequence(q) == q \in Seq(ToSet(q))

\* The empty sequence.
LEMMA EmptySequence == IsSequence(<<>>) /\ ToSet(<<>>) = {}
  BY DEF IsSequence, ToSet

\* Whatever a sequence ranges over, it ranges over what is in it.
LEMMA SeqIsSequence ==
  ASSUME NEW S, NEW q \in Seq(S)
  PROVE  IsSequence(q) /\ ToSet(q) \subseteq S
<1>1. ToSet(q) \subseteq S
  BY DEF ToSet
<1>2. q = [i \in 1 .. Len(q) |-> q[i]] /\ Len(q) \in Nat /\ DOMAIN q = 1 .. Len(q)
  OBVIOUS
<1>3. \A i \in 1 .. Len(q) : q[i] \in ToSet(q)
  BY <1>2 DEF ToSet
<1>4. [i \in 1 .. Len(q) |-> q[i]] \in Seq(ToSet(q))
  BY <1>2, <1>3
<1> QED
  BY <1>1, <1>2, <1>4 DEF IsSequence

\* Appending: the new element comes last and the others stay.
LEMMA AppendedSequence ==
  ASSUME NEW q, IsSequence(q), NEW m
  PROVE  /\ IsSequence(Append(q, m))
         /\ ToSet(Append(q, m)) = ToSet(q) \union {m}
         /\ Len(Append(q, m)) = Len(q) + 1 /\ Len(q) \in Nat
         /\ Append(q, m)[Len(q) + 1] = m
         /\ \A i \in 1 .. Len(q) : Append(q, m)[i] = q[i]
<1> DEFINE S == ToSet(q) \union {m}
<1>1. q \in Seq(S) /\ m \in S
  BY DEF IsSequence
<1>2. /\ Append(q, m) \in Seq(S) /\ Len(q) \in Nat /\ Len(Append(q, m)) = Len(q) + 1
      /\ Append(q, m)[Len(q) + 1] = m
      /\ \A i \in 1 .. Len(q) : Append(q, m)[i] = q[i]
      /\ DOMAIN q = 1 .. Len(q) /\ DOMAIN Append(q, m) = 1 .. Len(q) + 1
  BY <1>1
<1>3. ToSet(Append(q, m)) = S
  BY <1>2 DEF ToSet
<1> QED
  BY <1>2, <1>3, SeqIsSequence

\* The head was in the sequence and the tail is what is left.
LEMMA TailOfSequence ==
  ASSUME NEW q, IsSequence(q), q # <<>>
  PROVE  /\ IsSequence(Tail(q)) /\ Head(q) \in ToSet(q) /\ ToSet(Tail(q)) \subseteq ToSet(q)
         /\ Head(q) = q[1]
         /\ Len(q) \in Nat \ {0} /\ Len(Tail(q)) = Len(q) - 1
         /\ \A i \in 1 .. Len(Tail(q)) : Tail(q)[i] = q[i + 1]
<1>1. q \in Seq(ToSet(q))
  BY DEF IsSequence
<1>2. /\ Len(q) \in Nat \ {0} /\ Tail(q) \in Seq(ToSet(q)) /\ Head(q) \in ToSet(q)
      /\ Len(Tail(q)) = Len(q) - 1 /\ Head(q) = q[1]
      /\ \A i \in 1 .. Len(Tail(q)) : Tail(q)[i] = q[i + 1]
  BY <1>1
<1> QED
  BY <1>2, SeqIsSequence

\* The first elements of a sequence.
LEMMA FrontOfSequence ==
  ASSUME NEW q, IsSequence(q), NEW k \in 0 .. Len(q)
  PROVE  /\ IsSequence(SubSeq(q, 1, k)) /\ ToSet(SubSeq(q, 1, k)) \subseteq ToSet(q)
         /\ Len(SubSeq(q, 1, k)) = k
         /\ \A i \in 1 .. k : SubSeq(q, 1, k)[i] = q[i] /\ i \in 1 .. Len(q)
<1>1. q \in Seq(ToSet(q)) /\ Len(q) \in Nat
  BY DEF IsSequence
<1>2. /\ SubSeq(q, 1, k) \in Seq(ToSet(q)) /\ Len(SubSeq(q, 1, k)) = k
      /\ \A i \in 1 .. k : SubSeq(q, 1, k)[i] = q[i] /\ i \in 1 .. Len(q)
  BY <1>1
<1> QED
  BY <1>2, SeqIsSequence

\* One sequence behind another.
LEMMA JoinedSequences ==
  ASSUME NEW q, NEW r, IsSequence(q), IsSequence(r)
  PROVE  /\ IsSequence(q \o r) /\ ToSet(q \o r) = ToSet(q) \union ToSet(r)
         /\ Len(q \o r) = Len(q) + Len(r) /\ Len(q) \in Nat /\ Len(r) \in Nat
         /\ \A i \in 1 .. Len(q) : (q \o r)[i] = q[i]
         /\ \A i \in 1 .. Len(r) : (q \o r)[Len(q) + i] = r[i] /\ r[i] \in ToSet(r)
<1> DEFINE S == ToSet(q) \union ToSet(r)
<1>1. q \in Seq(S) /\ r \in Seq(S)
  BY DEF IsSequence
<1>2. /\ q \o r \in Seq(S) /\ Len(q) \in Nat /\ Len(r) \in Nat
      /\ Len(q \o r) = Len(q) + Len(r)
      /\ DOMAIN q = 1 .. Len(q) /\ DOMAIN r = 1 .. Len(r)
      /\ \A i \in 1 .. Len(q) : (q \o r)[i] = q[i]
      /\ \A i \in 1 .. Len(r) : (q \o r)[Len(q) + i] = r[i]
  BY <1>1
<1>3. ToSet(q \o r) \subseteq S
  BY <1>2, SeqIsSequence
<1>4. ToSet(q) \subseteq ToSet(q \o r)
  <2>1. \A i \in DOMAIN q : i \in DOMAIN (q \o r) /\ (q \o r)[i] = q[i]
    BY <1>2
  <2> QED
    BY <2>1 DEF ToSet
<1>5. ToSet(r) \subseteq ToSet(q \o r)
  <2>1. \A i \in DOMAIN r : Len(q) + i \in DOMAIN (q \o r) /\ (q \o r)[Len(q) + i] = r[i]
    BY <1>2
  <2> QED
    BY <2>1 DEF ToSet
<1>6. \A i \in 1 .. Len(r) : r[i] \in ToSet(r)
  BY <1>2 DEF ToSet
<1> QED
  BY <1>2, <1>3, <1>4, <1>5, <1>6, SeqIsSequence

-----------------------------------------------------------------------------
(* A push and a pop.                                                       *)

\* What undo and redo rely on, whatever the edits do to the text.
Stacks ==
    /\ IsSequence(undoStack) /\ IsSequence(redoStack)
    /\ limit \in (Nat \ {0}) \cup {NoLimit}
    /\ TypingRunIsNewest

stacks == <<undoStack, redoStack, lastTyping, limit>>

-----------------------------------------------------------------------------
\* A push adds the entry and, at the limit, loses the oldest one.
LEMMA PushedStack ==
  ASSUME NEW stack, IsSequence(stack), NEW entry, limit \in (Nat \ {0}) \cup {NoLimit}
  PROVE  /\ IsSequence(Pushed(stack, entry))
         /\ Pushed(stack, entry) # <<>>
         /\ Len(stack) \in Nat
         /\ \/ /\ Pushed(stack, entry) = Append(stack, entry)
               /\ Len(Pushed(stack, entry)) = Len(stack) + 1
               /\ limit # NoLimit => Len(stack) + 1 <= limit
            \/ /\ stack # <<>>
               /\ Pushed(stack, entry) = Append(Tail(stack), entry)
               /\ Len(Pushed(stack, entry)) = Len(stack)
<1>1. Len(stack) \in Nat
  BY AppendedSequence
<1>2. CASE limit # NoLimit /\ Len(stack) >= limit
  <2>1. Pushed(stack, entry) = Append(Tail(stack), entry)
    BY <1>2 DEF Pushed
  <2>2. stack # <<>>
    BY <1>1, <1>2
  <2>3. IsSequence(Tail(stack)) /\ Len(Tail(stack)) = Len(stack) - 1
    BY <2>2, TailOfSequence
  <2>4. /\ IsSequence(Append(Tail(stack), entry))
        /\ Len(Append(Tail(stack), entry)) = Len(stack)
    BY <2>3, <1>1, AppendedSequence
  <2>5. Append(Tail(stack), entry) # <<>>
    BY <2>2, <2>4, TailOfSequence
  <2> QED
    BY <1>1, <2>1, <2>2, <2>4, <2>5
<1>3. CASE ~(limit # NoLimit /\ Len(stack) >= limit)
  <2>1. Pushed(stack, entry) = Append(stack, entry)
    BY <1>3 DEF Pushed
  <2>2. /\ IsSequence(Append(stack, entry))
        /\ Len(Append(stack, entry)) = Len(stack) + 1
    BY AppendedSequence
  <2>3. Append(stack, entry) # <<>>
    BY <1>1, <2>2
  <2>4. limit # NoLimit => Len(stack) + 1 <= limit
    BY <1>1, <1>3
  <2> QED
    BY <1>1, <2>1, <2>2, <2>3, <2>4
<1> QED
  BY <1>2, <1>3

\* A pop leaves a stack and loses the newest entry.
LEMMA PoppedStack ==
  ASSUME NEW stack, IsSequence(stack), stack # <<>>
  PROVE  /\ IsSequence(Front(stack)) /\ Len(Front(stack)) = Len(stack) - 1
         /\ Len(stack) \in Nat \ {0}
         /\ \A i \in 1 .. Len(stack) - 1 : Front(stack)[i] = stack[i]
<1>1. Len(stack) \in Nat \ {0}
  BY TailOfSequence
<1>2. Len(stack) - 1 \in 0 .. Len(stack)
  BY <1>1
<1> QED
  BY <1>1, <1>2, FrontOfSequence DEF Front

-----------------------------------------------------------------------------
(* The kinds of steps.                                                     *)

\* An edit pushes, with coalescing or without.
Recorded == (PushUndo(TRUE) \/ PushUndo(FALSE)) /\ UNCHANGED limit

\* A call of PushUndo, coalescing or not, is a recorded step.
LEMMA PushIsRecorded ==
  ASSUME NEW coalesce \in BOOLEAN, PushUndo(coalesce), UNCHANGED limit
  PROVE  Recorded
<1>1. coalesce = TRUE \/ coalesce = FALSE
  OBVIOUS
<1> QED
  BY <1>1 DEF Recorded

\* Whether an edit coalesces is a truth value, for any text inserted.
LEMMA CoalescesIsBoolean == \A new : Coalesces(new) \in BOOLEAN
  BY DEF Coalesces

\* Every edit is recorded.
LEMMA EditsAreRecorded ==
  /\ \A new : Insert(new) => Recorded
  /\ \A lines : PastePerCursor(lines) => Recorded
  /\ \A command : Delete(command) => Recorded
  /\ Cut => Recorded
  /\ \A query, new, wholeWord : ReplaceCurrent(query, new, wholeWord) => Recorded
<1>1. ASSUME NEW new, Insert(new) PROVE Recorded
  BY <1>1, CoalescesIsBoolean, PushIsRecorded DEF Insert
<1>2. ASSUME NEW lines, PastePerCursor(lines) PROVE Recorded
  BY <1>2 DEF PastePerCursor, Recorded
<1>3. ASSUME NEW command, Delete(command) PROVE Recorded
  BY <1>3 DEF Delete, Recorded
<1>4. ASSUME Cut PROVE Recorded
  BY <1>4 DEF Cut, Recorded
<1>5. ASSUME NEW query, NEW new, NEW wholeWord, ReplaceCurrent(query, new, wholeWord)
      PROVE Recorded
  BY <1>5, CoalescesIsBoolean, PushIsRecorded DEF ReplaceCurrent
<1> QED
  BY <1>1, <1>2, <1>3, <1>4, <1>5

\* Placing cursors changes neither text nor stacks.
LEMMA PlacingKeepsText ==
  /\ \A direction, selecting : Move(direction, selecting) => UNCHANGED <<text, stacks>>
  /\ AddCursorAbove => UNCHANGED <<text, stacks>>
  /\ AddCursorBelow => UNCHANGED <<text, stacks>>
  /\ \A wholeWord : AddNextMatch(wholeWord) => UNCHANGED <<text, stacks>>
  /\ \A wholeWord : SelectMatches(wholeWord) => UNCHANGED <<text, stacks>>
  /\ \A query, wholeWord, backwards :
        FindStep(query, wholeWord, backwards) => UNCHANGED <<text, stacks>>
  /\ Collapse \/ SelectAll \/ Mouse => UNCHANGED <<text, stacks>>
<1>1. ASSUME NEW new, Place(new) PROVE UNCHANGED <<text, stacks>>
  BY <1>1 DEF Place, stacks
<1>2. \A direction, selecting : Move(direction, selecting) => UNCHANGED <<text, stacks>>
  BY <1>1 DEF Move
<1>3. AddCursorAbove \/ AddCursorBelow => UNCHANGED <<text, stacks>>
  BY <1>1 DEF AddCursorAbove, AddCursorBelow
<1>4. \A wholeWord : AddNextMatch(wholeWord) => UNCHANGED <<text, stacks>>
  BY <1>1 DEF AddNextMatch
<1>5. \A wholeWord : SelectMatches(wholeWord) => UNCHANGED <<text, stacks>>
  BY <1>1 DEF SelectMatches
<1>6. Collapse \/ SelectAll => UNCHANGED <<text, stacks>>
  BY <1>1 DEF Collapse, SelectAll
<1>7. Mouse => UNCHANGED <<text, stacks>>
  BY <1>1 DEF Mouse, ShiftDrag, DoubleClick, TripleClick, AltDoubleClick, Drag, AltDrag
<1>8. \A query, wholeWord, backwards :
        FindStep(query, wholeWord, backwards) => UNCHANGED <<text, stacks>>
  BY <1>1 DEF FindStep
<1> QED
  BY <1>2, <1>3, <1>4, <1>5, <1>6, <1>7, <1>8

\* A write that is not an edit leaves the stacks alone.
LEMMA UnrecordedKeepsStacks == Unrecorded => UNCHANGED stacks
  BY DEF Unrecorded, FormatterDone, ReplaceEvery, stacks

\* All steps are of these kinds.
LEMMA StepKinds ==
  ASSUME [Next]_vars
  PROVE  \/ Undo \/ Redo \/ Recorded
         \/ Unrecorded /\ UNCHANGED stacks
         \/ UNCHANGED <<text, stacks>>
         \/ SetLimit
<1>1. CASE UNCHANGED vars
  BY <1>1 DEF vars, stacks
<1>2. CASE Next
  <2>1. CASE Undo \/ Redo \/ SetLimit
    BY <2>1
  <2>2. CASE \/ \E new \in Inserts : Insert(new)
             \/ \E lines \in Pastes : PastePerCursor(lines)
             \/ \E command \in Deletions : Delete(command)
             \/ Cut
    BY <2>2, EditsAreRecorded
  <2>3. CASE \E query \in Queries, new \in Inserts \cup {<<>>}, wholeWord \in BOOLEAN :
               ReplaceCurrent(query, new, wholeWord) \/ ReplaceEvery(query, new, wholeWord)
    BY <2>3, EditsAreRecorded, UnrecordedKeepsStacks DEF Unrecorded
  <2>4. CASE FormatterDone
    BY <2>4, UnrecordedKeepsStacks DEF Unrecorded
  <2>5. CASE \/ \E direction \in Directions, selecting \in BOOLEAN : Move(direction, selecting)
             \/ AddCursorAbove \/ AddCursorBelow
             \/ \E wholeWord \in BOOLEAN : AddNextMatch(wholeWord) \/ SelectMatches(wholeWord)
             \/ \E query \in Queries, wholeWord, backwards \in BOOLEAN :
                 FindStep(query, wholeWord, backwards)
             \/ Collapse \/ SelectAll \/ Mouse
    BY <2>5, PlacingKeepsText
  <2> QED
    BY <1>2, <2>1, <2>2, <2>3, <2>4, <2>5 DEF Next
<1> QED
  BY <1>1, <1>2

-----------------------------------------------------------------------------
(* The stacks.                                                             *)

\* A limit stays a limit.
LEMMA SetLimitTyped ==
  ASSUME limit \in (Nat \ {0}) \cup {NoLimit}, SetLimit
  PROVE  limit' \in (Nat \ {0}) \cup {NoLimit}
<1>1. CASE limit = NoLimit
  BY <1>1, LimitsAssumption DEF SetLimit
<1>2. CASE limit # NoLimit
  BY <1>2, LimitsAssumption DEF SetLimit, Most, Lesser
<1> QED
  BY <1>1, <1>2

\* Stacks is inductive: it holds in a new tab, and every step keeps it.
LEMMA StacksInit == Init => Stacks
  BY LimitsAssumption, EmptySequence DEF Init, Stacks, TypingRunIsNewest

\* One case per kind of step that touches a stack, the limit or the typing run.
LEMMA StacksStep == Stacks /\ [Next]_vars => Stacks'
<1> SUFFICES ASSUME Stacks, [Next]_vars PROVE Stacks'
  OBVIOUS
<1> USE DEF Stacks, TypingRunIsNewest
<1>1. CASE Undo
  <2>1. IsSequence(undoStack') /\ IsSequence(redoStack')
    BY <1>1, PushedStack, PoppedStack DEF Undo
  <2> QED
    BY <1>1, <2>1 DEF Undo
<1>2. CASE Redo
  <2>1. IsSequence(undoStack') /\ IsSequence(redoStack')
    BY <1>2, PushedStack, PoppedStack DEF Redo
  <2> QED
    BY <1>2, <2>1 DEF Redo
<1>3. CASE Recorded
  <2>1. CASE PushUndo(TRUE) /\ lastTyping
    BY <1>3, <2>1 DEF PushUndo, Recorded
  <2>2. CASE PushUndo(FALSE) \/ ~lastTyping
    <3>1. undoStack' = Pushed(undoStack, Present) /\ redoStack' = <<>>
      BY <1>3, <2>2 DEF PushUndo, Recorded
    <3>2. IsSequence(undoStack') /\ undoStack' # <<>> /\ IsSequence(redoStack')
      BY <3>1, PushedStack, EmptySequence
    <3> QED
      BY <1>3, <3>1, <3>2 DEF Recorded
  <2> QED
    BY <1>3, <2>1, <2>2 DEF Recorded
<1>4. CASE UNCHANGED stacks
  BY <1>4 DEF stacks
<1>5. CASE SetLimit
  BY <1>5, SetLimitTyped DEF SetLimit
<1> QED
  BY <1>1, <1>2, <1>3, <1>4, <1>5, StepKinds DEF stacks

\* So it holds in every state.
LEMMA AlwaysStacks == Spec => []Stacks
  BY StacksInit, StacksStep, PTL DEF Spec

(* A typing run that may still coalesce can be undone and is the newest    *)
(* version, under any limits and any changes of them (2176-2242).          *)
THEOREM TypingRunAlwaysNewest == Spec => []TypingRunIsNewest
<1>1. Stacks => TypingRunIsNewest
  BY DEF Stacks
<1> QED
  BY <1>1, AlwaysStacks, PTL

(* No step of any behaviour makes a stack longer than the limit.           *)
THEOREM StacksAlwaysRespectLimit == Spec => StacksRespectLimit
<1> DEFINE Respects ==
        limit # NoLimit =>
            /\ Grows(undoStack, undoStack') => Len(undoStack') <= limit
            /\ Grows(redoStack, redoStack') => Len(redoStack') <= limit
<1>1. ASSUME Stacks, [Next]_vars PROVE Respects
  <2> USE DEF Stacks
  <2>1. ASSUME NEW stack, IsSequence(stack), NEW entry, limit # NoLimit
        PROVE  Grows(stack, Pushed(stack, entry)) => Len(Pushed(stack, entry)) <= limit
    BY <1>1, <2>1, PushedStack DEF Grows
  <2>2. ASSUME NEW stack, IsSequence(stack) PROVE ~Grows(stack, stack) /\ ~Grows(stack, <<>>)
    BY <2>2, AppendedSequence DEF Grows
  <2>3. ASSUME NEW stack, IsSequence(stack), stack # <<>> PROVE ~Grows(stack, Front(stack))
    BY <2>3, PoppedStack DEF Grows
  <2>4. CASE Undo
    BY <1>1, <2>1, <2>3, <2>4 DEF Undo
  <2>5. CASE Redo
    BY <1>1, <2>1, <2>3, <2>5 DEF Redo
  <2>6. CASE Recorded
    <3>1. CASE UNCHANGED <<undoStack, redoStack>>
      BY <1>1, <2>2, <3>1
    <3>2. CASE undoStack' = Pushed(undoStack, Present) /\ redoStack' = <<>>
      BY <1>1, <2>1, <2>2, <3>2
    <3> QED
      BY <2>6, <3>1, <3>2 DEF Recorded, PushUndo
  <2>7. CASE UNCHANGED <<undoStack, redoStack>>
    BY <1>1, <2>2, <2>7
  <2> QED
    BY <1>1, <2>4, <2>5, <2>6, <2>7, StepKinds DEF stacks, SetLimit
<1>2. Stacks /\ [Next]_vars => [Respects]_vars
  BY <1>1
<1> QED
  BY <1>2, AlwaysStacks, PTL DEF Spec, StacksRespectLimit

-----------------------------------------------------------------------------
(* The line in time.                                                       *)

\* Sequences of one length with the same elements are the same.
LEMMA SameSequence ==
  ASSUME NEW q, NEW r, IsSequence(q), IsSequence(r), Len(q) = Len(r),
         \A i \in 1 .. Len(q) : q[i] = r[i]
  PROVE  q = r
<1>1. q \in Seq(ToSet(q)) /\ r \in Seq(ToSet(r))
  BY DEF IsSequence
<1>2. /\ q = [i \in 1 .. Len(q) |-> q[i]] /\ r = [i \in 1 .. Len(r) |-> r[i]]
  BY <1>1
<1> QED
  BY <1>2

\* A function on 1 .. n is a sequence.
LEMMA FunctionIsSequence ==
  ASSUME NEW n \in Nat, NEW f, f = [i \in 1 .. n |-> f[i]]
  PROVE  IsSequence(f) /\ Len(f) = n
<1> DEFINE S == {f[i] : i \in 1 .. n}
<1>1. f \in [1 .. n -> S]
  OBVIOUS
<1>2. f \in Seq(S) /\ Len(f) = n
  BY <1>1
<1> QED
  BY <1>2, SeqIsSequence

\* The versions by their place on the line.
LEMMA VersionsAt ==
  ASSUME NEW past, NEW t, NEW future, IsSequence(past), IsSequence(future)
  PROVE  /\ IsSequence(Versions(past, t, future))
         /\ Len(past) \in Nat /\ Len(future) \in Nat
         /\ Len(Versions(past, t, future)) = Len(past) + 1 + Len(future)
         /\ \A i \in 1 .. Len(past) : Versions(past, t, future)[i] = past[i].text
         /\ Versions(past, t, future)[Len(past) + 1] = t
         /\ \A i \in 1 .. Len(future) :
               Versions(past, t, future)[Len(past) + 1 + i] = future[Len(future) - i + 1].text
<1> DEFINE P == TextsOf(past)
           F == TextsOf(future)
           R == Reverse(F)
<1>1. ASSUME NEW stack, IsSequence(stack)
      PROVE  /\ Len(stack) \in Nat /\ IsSequence(TextsOf(stack))
             /\ Len(TextsOf(stack)) = Len(stack)
             /\ \A i \in 1 .. Len(stack) : TextsOf(stack)[i] = stack[i].text
  <2>1. Len(stack) \in Nat /\ DOMAIN stack = 1 .. Len(stack)
    BY <1>1 DEF IsSequence
  <2>2. TextsOf(stack) = [i \in 1 .. Len(stack) |-> stack[i].text]
    BY <2>1 DEF TextsOf
  <2>3. \A i \in 1 .. Len(stack) : TextsOf(stack)[i] = stack[i].text
    BY <2>2
  <2>4. TextsOf(stack) = [i \in 1 .. Len(stack) |-> TextsOf(stack)[i]]
    BY <2>2
  <2> HIDE DEF IsSequence
  <2> QED
    BY <2>1, <2>3, <2>4, FunctionIsSequence
<1>2. /\ IsSequence(R) /\ Len(R) = Len(future)
      /\ \A i \in 1 .. Len(future) : R[i] = future[Len(future) - i + 1].text
  <2>1. Len(F) = Len(future) /\ Len(future) \in Nat
    BY <1>1
  <2>2. R = [i \in 1 .. Len(future) |-> F[(Len(future) - i) + 1]]
    BY <2>1 DEF Reverse
  <2>3. \A i \in 1 .. Len(future) : (Len(future) - i) + 1 \in 1 .. Len(future)
    BY <2>1
  <2>4. \A i \in 1 .. Len(future) : R[i] = future[Len(future) - i + 1].text
    BY <1>1, <2>2, <2>3
  <2>5. R = [i \in 1 .. Len(future) |-> R[i]]
    BY <2>2
  <2> QED
    BY <2>1, <2>4, <2>5, FunctionIsSequence
<1>3. /\ IsSequence(Append(P, t)) /\ Len(Append(P, t)) = Len(past) + 1
      /\ Append(P, t)[Len(past) + 1] = t
      /\ \A i \in 1 .. Len(past) : Append(P, t)[i] = past[i].text
  BY <1>1, AppendedSequence
<1>4. Versions(past, t, future) = Append(P, t) \o R
  BY DEF Versions
<1> DEFINE V == Append(P, t) \o R
<1>5. /\ IsSequence(V) /\ Len(V) = Len(Append(P, t)) + Len(R)
      /\ \A i \in 1 .. Len(Append(P, t)) : V[i] = Append(P, t)[i]
      /\ \A i \in 1 .. Len(R) : V[Len(Append(P, t)) + i] = R[i]
  <2> HIDE DEF P, F, R
  <2> DEFINE A == Append(P, t)
  <2>1. IsSequence(A) /\ IsSequence(R)
    BY <1>2, <1>3
  <2> HIDE DEF A
  <2>2. /\ IsSequence(A \o R) /\ Len(A \o R) = Len(A) + Len(R)
        /\ \A i \in 1 .. Len(A) : (A \o R)[i] = A[i]
        /\ \A i \in 1 .. Len(R) : (A \o R)[Len(A) + i] = R[i]
    BY <2>1, JoinedSequences
  <2> QED
    BY <2>2 DEF A
<1> HIDE DEF P, F, R, V
<1>6. Len(past) \in Nat /\ Len(future) \in Nat
  BY <1>1
<1>7. \A i \in 1 .. Len(past) : V[i] = past[i].text
  BY <1>3, <1>5, <1>6
<1>8. V[Len(past) + 1] = t
  BY <1>3, <1>5, <1>6
<1>9. \A i \in 1 .. Len(future) : V[Len(past) + 1 + i] = future[Len(future) - i + 1].text
  BY <1>2, <1>3, <1>5
<1> QED
  BY <1>2, <1>3, <1>4, <1>5, <1>6, <1>7, <1>8, <1>9 DEF V

\* A part of a sequence.
LEMMA PartOfSequence ==
  ASSUME NEW v, IsSequence(v), NEW m \in {1, 2}, NEW n \in Nat, m <= n, n <= Len(v)
  PROVE  /\ IsSequence(SubSeq(v, m, n)) /\ Len(SubSeq(v, m, n)) = n - m + 1
         /\ \A i \in 1 .. n - m + 1 : SubSeq(v, m, n)[i] = v[m + i - 1]
<1>1. v \in Seq(ToSet(v)) /\ Len(v) \in Nat
  BY DEF IsSequence
<1>2. /\ SubSeq(v, m, n) \in Seq(ToSet(v)) /\ Len(SubSeq(v, m, n)) = n - m + 1
      /\ \A i \in 1 .. n - m + 1 : SubSeq(v, m, n)[i] = v[m + i - 1]
  BY <1>1
<1> QED
  BY <1>2, SeqIsSequence

\* After an edit: what lies behind it, the oldest lost or not, and the new text.
LEMMA EditedVersions ==
  ASSUME NEW past, NEW future, IsSequence(past), IsSequence(future), NEW entry, NEW new
  PROVE  /\ Versions(Append(past, entry), new, <<>>) =
               Append(SubSeq(Versions(past, entry.text, future), 1, Len(past) + 1), new)
         /\ past # <<>> =>
               Versions(Append(Tail(past), entry), new, <<>>) =
               Append(SubSeq(Versions(past, entry.text, future), 2, Len(past) + 1), new)
<1> DEFINE t == entry.text
           v == Versions(past, t, future)
<1>10. t = entry.text
  OBVIOUS
<1> HIDE DEF t
<1>1. /\ IsSequence(v) /\ Len(past) \in Nat /\ Len(future) \in Nat
      /\ Len(v) = Len(past) + 1 + Len(future)
      /\ \A i \in 1 .. Len(past) : v[i] = past[i].text
      /\ v[Len(past) + 1] = t
  BY VersionsAt
<1>2. IsSequence(<<>>) /\ Len(<<>>) = 0
  BY EmptySequence
<1> HIDE DEF v
<1>3. ASSUME NEW m \in {1, 2}, NEW kept, IsSequence(kept), m <= Len(past) + 1,
             Len(kept) = Len(past) - m + 1,
             \A i \in 1 .. Len(kept) : kept[i] = past[m + i - 1]
      PROVE  Versions(Append(kept, entry), new, <<>>) =
             Append(SubSeq(v, m, Len(past) + 1), new)
  <2> DEFINE p == SubSeq(v, m, Len(past) + 1)
             q == Append(kept, entry)
             w == Versions(q, new, <<>>)
  <2>1. /\ IsSequence(p) /\ Len(p) = Len(past) + 2 - m
        /\ \A i \in 1 .. Len(past) + 2 - m : p[i] = v[m + i - 1]
    BY <1>1, <1>3, PartOfSequence
  <2>2. /\ IsSequence(q) /\ Len(q) = Len(kept) + 1
        /\ q[Len(kept) + 1] = entry /\ \A i \in 1 .. Len(kept) : q[i] = kept[i]
    BY <1>3, AppendedSequence
  <2> HIDE DEF p, q
  <2>3. /\ IsSequence(w) /\ Len(w) = Len(q) + 1
        /\ \A i \in 1 .. Len(q) : w[i] = q[i].text
        /\ w[Len(q) + 1] = new
    <3>1. /\ IsSequence(w) /\ Len(w) = Len(q) + 1 + Len(<<>>) /\ Len(q) \in Nat
          /\ \A i \in 1 .. Len(q) : w[i] = q[i].text
          /\ w[Len(q) + 1] = new
      BY <1>2, <2>2, VersionsAt
    <3> QED
      BY <1>2, <3>1
  <2>4. /\ IsSequence(Append(p, new)) /\ Len(Append(p, new)) = Len(p) + 1
        /\ Append(p, new)[Len(p) + 1] = new
        /\ \A i \in 1 .. Len(p) : Append(p, new)[i] = p[i]
    BY <2>1, AppendedSequence
  <2> HIDE DEF w
  <2>5. Len(w) = Len(Append(p, new)) /\ Len(q) = Len(p)
    BY <1>1, <1>3, <2>1, <2>2, <2>3, <2>4
  <2>6. ASSUME NEW i \in 1 .. Len(w) PROVE w[i] = Append(p, new)[i]
    <3>1. CASE i = Len(q) + 1
      BY <3>1, <2>3, <2>4, <2>5
    <3>2. CASE i = Len(q)
      <4>1. w[i] = t /\ i \in 1 .. Len(q)
        BY <3>2, <2>2, <2>3, <1>1, <1>3, <1>10
      <4>2. p[i] = v[Len(past) + 1]
        BY <3>2, <2>1, <2>2, <1>1, <1>3
      <4> QED
        BY <4>1, <4>2, <2>4, <2>5, <1>1
    <3>3. CASE i \in 1 .. Len(kept)
      <4>1. w[i] = past[m + i - 1].text /\ m + i - 1 \in 1 .. Len(past)
        <5>1. q[i] = kept[i] /\ kept[i] = past[m + i - 1]
          BY <3>3, <2>2, <1>3
        <5>2. i \in 1 .. Len(q) /\ m + i - 1 \in 1 .. Len(past)
          BY <3>3, <2>2, <1>1, <1>3
        <5> QED
          BY <5>1, <5>2, <2>3
      <4>2. Append(p, new)[i] = v[m + i - 1]
        BY <3>3, <2>1, <2>2, <2>4, <2>5, <1>1, <1>3
      <4> QED
        BY <4>1, <4>2, <1>1
    <3>4. Len(kept) \in Nat /\ Len(w) = Len(kept) + 2 /\ Len(q) = Len(kept) + 1
      BY <2>2, <2>3, <1>1, <1>3
    <3>5. i = Len(q) + 1 \/ i = Len(q) \/ i \in 1 .. Len(kept)
      BY <3>4
    <3> QED
      BY <3>1, <3>2, <3>3, <3>5
  <2> QED
    BY <2>3, <2>4, <2>5, <2>6, SameSequence DEF w, p, q
<1>4. Versions(Append(past, entry), new, <<>>) = Append(SubSeq(v, 1, Len(past) + 1), new)
  BY <1>1, <1>3
<1>5. ASSUME past # <<>>
      PROVE  Versions(Append(Tail(past), entry), new, <<>>) =
             Append(SubSeq(v, 2, Len(past) + 1), new)
  <2>1. /\ IsSequence(Tail(past)) /\ Len(Tail(past)) = Len(past) - 1 /\ Len(past) \in Nat \ {0}
        /\ \A i \in 1 .. Len(Tail(past)) : Tail(past)[i] = past[i + 1]
    BY <1>5, TailOfSequence
  <2> DEFINE kept == Tail(past)
  <2>2. \A i \in 1 .. Len(kept) : kept[i] = past[2 + i - 1]
    BY <2>1
  <2>3. IsSequence(kept) /\ Len(kept) = Len(past) - 2 + 1 /\ 2 <= Len(past) + 1 /\ 2 \in {1, 2}
    BY <2>1
  <2> HIDE DEF kept
  <2>4. Versions(Append(kept, entry), new, <<>>) = Append(SubSeq(v, 2, Len(past) + 1), new)
    BY <1>3, <2>2, <2>3
  <2> QED
    BY <2>4 DEF kept
<1> QED
  BY <1>4, <1>5 DEF v, t

\* What is left of a stack without its d oldest entries.
Retained(kept, d, stack) ==
    /\ IsSequence(kept) /\ Len(kept) = Len(stack) - d
    /\ \A i \in 1 .. Len(kept) : kept[i] = stack[d + i]

\* What is left of a stack after a push that drops its oldest entry, or none.
LEMMA KeptOfPush ==
  ASSUME NEW stack, IsSequence(stack)
  PROVE  /\ Retained(stack, 0, stack)
         /\ stack # <<>> => Retained(Tail(stack), 1, stack) /\ 1 <= Len(stack)
<1>1. Retained(stack, 0, stack)
  <2>1. Len(stack) \in Nat
    BY AppendedSequence
  <2> QED
    BY <2>1 DEF Retained
<1>2. ASSUME stack # <<>> PROVE Retained(Tail(stack), 1, stack) /\ 1 <= Len(stack)
  BY <1>2, TailOfSequence DEF Retained
<1> QED
  BY <1>1, <1>2

\* One step back: the same line, its newest version lost or not.
LEMMA UndoneVersions ==
  ASSUME NEW past, NEW future, IsSequence(past), IsSequence(future), past # <<>>, NEW entry,
         NEW d \in {0, 1}, NEW kept, Retained(kept, d, future)
  PROVE  LET v == Versions(past, entry.text, future)
         IN  Versions(Front(past), Last(past).text, Append(kept, entry)) =
             SubSeq(v, 1, Len(past) + 1 + Len(kept))
<1> USE DEF Retained
<1> DEFINE t == entry.text
           v == Versions(past, t, future)
           f == Front(past)
           q == Append(kept, entry)
           x == Last(past).text
           w == Versions(f, x, q)
           n == Len(past) + 1 + Len(kept)
           p == SubSeq(v, 1, n)
<1>10. t = entry.text
  OBVIOUS
<1> HIDE DEF t
<1>1. /\ IsSequence(v) /\ Len(past) \in Nat \ {0} /\ Len(future) \in Nat
      /\ Len(v) = Len(past) + 1 + Len(future)
      /\ \A i \in 1 .. Len(past) : v[i] = past[i].text
      /\ v[Len(past) + 1] = t
      /\ \A i \in 1 .. Len(future) : v[Len(past) + 1 + i] = future[Len(future) - i + 1].text
  BY VersionsAt, PoppedStack
<1>2. /\ IsSequence(f) /\ Len(f) = Len(past) - 1
      /\ \A i \in 1 .. Len(past) - 1 : f[i] = past[i]
  BY PoppedStack
<1>3. /\ IsSequence(q) /\ Len(q) = Len(kept) + 1 /\ Len(kept) \in Nat
      /\ q[Len(kept) + 1] = entry /\ \A i \in 1 .. Len(kept) : q[i] = kept[i]
  BY AppendedSequence
<1>0. x = past[Len(past)].text
  BY DEF Last
<1> HIDE DEF v, f, q, x
<1>4. /\ IsSequence(w) /\ Len(w) = Len(f) + 1 + Len(q)
      /\ \A i \in 1 .. Len(f) : w[i] = f[i].text
      /\ w[Len(f) + 1] = past[Len(past)].text
      /\ \A i \in 1 .. Len(q) : w[Len(f) + 1 + i] = q[Len(q) - i + 1].text
  <2> HIDE DEF w
  <2>1. IsSequence(f) /\ IsSequence(q)
    BY <1>2, <1>3
  <2>2. /\ IsSequence(Versions(f, x, q)) /\ Len(Versions(f, x, q)) = Len(f) + 1 + Len(q)
        /\ \A i \in 1 .. Len(f) : Versions(f, x, q)[i] = f[i].text
        /\ Versions(f, x, q)[Len(f) + 1] = x
        /\ \A i \in 1 .. Len(q) : Versions(f, x, q)[Len(f) + 1 + i] = q[Len(q) - i + 1].text
    BY <2>1, VersionsAt
  <2> QED
    BY <1>0, <2>2 DEF w
<1>5. n \in Nat /\ 1 <= n /\ n <= Len(v)
  BY <1>1, <1>3
<1>6. /\ IsSequence(p) /\ Len(p) = n /\ \A i \in 1 .. n : p[i] = v[i]
  BY <1>1, <1>5, PartOfSequence
<1> HIDE DEF w, p
<1>7. Len(w) = n
  BY <1>1, <1>2, <1>3, <1>4
<1>8. ASSUME NEW i \in 1 .. n PROVE w[i] = v[i]
  <2>1. CASE i \in 1 .. Len(past) - 1
    <3>1. i \in 1 .. Len(f) /\ f[i] = past[i]
      BY ONLY <2>1, <1>2
    <3>2. w[i] = past[i].text
      BY <1>4, <3>1
    <3>3. i \in 1 .. Len(past)
      BY ONLY <1>1, <2>1
    <3>4. v[i] = past[i].text
      BY <1>1, <3>3
    <3> QED
      BY <3>2, <3>4
  <2>2. CASE i = Len(past)
    <3>1. w[i] = past[i].text
      BY <2>2, <1>1, <1>2, <1>4
    <3> QED
      BY <3>1, <2>2, <1>1
  <2>3. CASE i = Len(past) + 1
    <3>1. w[i] = q[Len(q)].text
      <4>1. 1 \in 1 .. Len(q) /\ Len(f) + 1 + 1 = i /\ Len(q) - 1 + 1 = Len(q)
        BY <2>3, <1>1, <1>2, <1>3
      <4> QED
        BY <4>1, <1>4
    <3> QED
      BY <3>1, <2>3, <1>1, <1>3, <1>10
  <2>4. CASE i \in Len(past) + 2 .. n
    <3> DEFINE j == i - Len(past)
    <3>1. /\ j \in 2 .. Len(q) /\ Len(f) + 1 + j = i
          /\ Len(q) - j + 1 \in 1 .. Len(kept)
          /\ j - 1 \in 1 .. Len(future) /\ Len(past) + 1 + (j - 1) = i
          /\ d + (Len(q) - j + 1) = Len(future) - (j - 1) + 1
      BY <2>4, <1>1, <1>2, <1>3
    <3> HIDE DEF j
    <3>2. w[i] = q[Len(q) - j + 1].text
      <4>1. j \in 1 .. Len(q)
        BY <3>1, <1>3
      <4>2. w[Len(f) + 1 + j] = q[Len(q) - j + 1].text
        BY <4>1, <1>4
      <4> QED
        BY <4>2, <3>1
    <3>3. q[Len(q) - j + 1] = future[d + (Len(q) - j + 1)]
      BY <3>1, <1>3
    <3>4. v[i] = future[Len(future) - (j - 1) + 1].text
      BY <3>1, <1>1
    <3> QED
      BY <3>1, <3>2, <3>3, <3>4
  <2>5. \/ i \in 1 .. Len(past) - 1 \/ i = Len(past) \/ i = Len(past) + 1
        \/ i \in Len(past) + 2 .. n
    BY <1>1, <1>5
  <2> QED
    BY <2>1, <2>2, <2>3, <2>4, <2>5
<1>9. w = p
  <2>1. \A i \in 1 .. Len(w) : w[i] = p[i]
    BY <1>6, <1>7, <1>8
  <2> QED
    BY <1>4, <1>6, <1>7, <2>1, SameSequence
<1> QED
  BY <1>9 DEF w, p, v, f, q, x, t

\* One step forward: the same line, its oldest version lost or not.
LEMMA RedoneVersions ==
  ASSUME NEW past, NEW future, IsSequence(past), IsSequence(future), future # <<>>, NEW entry,
         NEW d \in {0, 1}, NEW kept, Retained(kept, d, past)
  PROVE  LET v == Versions(past, entry.text, future)
         IN  Versions(Append(kept, entry), Last(future).text, Front(future)) =
             SubSeq(v, 1 + d, Len(v))
<1> USE DEF Retained
<1> DEFINE t == entry.text
           v == Versions(past, t, future)
           f == Front(future)
           q == Append(kept, entry)
           x == Last(future).text
           w == Versions(q, x, f)
           p == SubSeq(v, 1 + d, Len(v))
<1>10. t = entry.text
  OBVIOUS
<1> HIDE DEF t
<1>1. /\ IsSequence(v) /\ Len(past) \in Nat /\ Len(future) \in Nat \ {0}
      /\ Len(v) = Len(past) + 1 + Len(future)
      /\ \A i \in 1 .. Len(past) : v[i] = past[i].text
      /\ v[Len(past) + 1] = t
      /\ \A i \in 1 .. Len(future) : v[Len(past) + 1 + i] = future[Len(future) - i + 1].text
  BY VersionsAt, PoppedStack
<1>2. /\ IsSequence(f) /\ Len(f) = Len(future) - 1
      /\ \A i \in 1 .. Len(future) - 1 : f[i] = future[i]
  BY PoppedStack
<1>3. /\ IsSequence(q) /\ Len(q) = Len(kept) + 1 /\ Len(kept) \in Nat
      /\ q[Len(kept) + 1] = entry /\ \A i \in 1 .. Len(kept) : q[i] = kept[i]
  BY AppendedSequence
<1>0. x = future[Len(future)].text
  BY DEF Last
<1> HIDE DEF v, f, q, x
<1>4. /\ IsSequence(w) /\ Len(w) = Len(q) + 1 + Len(f)
      /\ \A i \in 1 .. Len(q) : w[i] = q[i].text
      /\ w[Len(q) + 1] = future[Len(future)].text
      /\ \A i \in 1 .. Len(f) : w[Len(q) + 1 + i] = f[Len(f) - i + 1].text
  <2> HIDE DEF w
  <2>1. IsSequence(q) /\ IsSequence(f)
    BY <1>2, <1>3
  <2>2. /\ IsSequence(Versions(q, x, f)) /\ Len(Versions(q, x, f)) = Len(q) + 1 + Len(f)
        /\ \A i \in 1 .. Len(q) : Versions(q, x, f)[i] = q[i].text
        /\ Versions(q, x, f)[Len(q) + 1] = x
        /\ \A i \in 1 .. Len(f) : Versions(q, x, f)[Len(q) + 1 + i] = f[Len(f) - i + 1].text
    BY <2>1, VersionsAt
  <2> QED
    BY <1>0, <2>2 DEF w
<1>5. 1 + d \in {1, 2} /\ Len(v) \in Nat /\ 1 + d <= Len(v)
  BY <1>1
<1>6. /\ IsSequence(p) /\ Len(p) = Len(v) - d
      /\ \A i \in 1 .. Len(v) - d : p[i] = v[d + i]
  <2>1. /\ IsSequence(p) /\ Len(p) = Len(v) - (1 + d) + 1
        /\ \A i \in 1 .. Len(v) - (1 + d) + 1 : p[i] = v[1 + d + i - 1]
    BY <1>1, <1>5, PartOfSequence
  <2>2. Len(v) - (1 + d) + 1 = Len(v) - d /\ \A i \in Int : 1 + d + i - 1 = d + i
    BY <1>5
  <2> HIDE DEF p
  <2> QED
    BY <2>1, <2>2
<1> HIDE DEF w, p
<1>7. Len(w) = Len(v) - d
  BY <1>1, <1>2, <1>3, <1>4
<1>8. ASSUME NEW i \in 1 .. Len(v) - d PROVE w[i] = v[d + i]
  <2>1. CASE i \in 1 .. Len(kept)
    <3>1. w[i] = past[d + i].text /\ d + i \in 1 .. Len(past)
      <4>1. i \in 1 .. Len(q) /\ d + i \in 1 .. Len(past)
        BY <2>1, <1>1, <1>3
      <4>2. q[i] = past[d + i]
        BY <2>1, <1>3
      <4> QED
        BY <4>1, <4>2, <1>4
    <3> QED
      BY <3>1, <1>1
  <2>2. CASE i = Len(kept) + 1
    <3>1. w[i] = t /\ d + i = Len(past) + 1
      BY <2>2, <1>1, <1>3, <1>4, <1>10
    <3> QED
      BY <3>1, <1>1
  <2>3. CASE i = Len(kept) + 2
    <3>1. w[i] = future[Len(future)].text
      BY <2>3, <1>3, <1>4
    <3>2. d + i = Len(past) + 1 + 1 /\ 1 \in 1 .. Len(future) /\ Len(future) - 1 + 1 = Len(future)
      BY <2>3, <1>1, <1>3
    <3>3. v[d + i] = future[Len(future)].text
      BY <3>2, <1>1
    <3> QED
      BY <3>1, <3>3
  <2>4. CASE i \in Len(kept) + 3 .. Len(v) - d
    <3> DEFINE j == i - Len(kept) - 2
    <3>1. /\ j \in 1 .. Len(f) /\ Len(q) + 1 + j = i
          /\ Len(f) - j + 1 \in 1 .. Len(future) - 1
          /\ j + 1 \in 1 .. Len(future) /\ Len(past) + 1 + (j + 1) = d + i
          /\ Len(f) - j + 1 = Len(future) - (j + 1) + 1
      BY <2>4, <1>1, <1>2, <1>3
    <3> HIDE DEF j
    <3>2. w[i] = f[Len(f) - j + 1].text
      BY <3>1, <1>4
    <3>3. f[Len(f) - j + 1] = future[Len(f) - j + 1]
      BY <3>1, <1>2
    <3>4. v[d + i] = future[Len(future) - (j + 1) + 1].text
      BY <3>1, <1>1
    <3> QED
      BY <3>1, <3>2, <3>3, <3>4
  <2>5. \/ i \in 1 .. Len(kept) \/ i = Len(kept) + 1 \/ i = Len(kept) + 2
        \/ i \in Len(kept) + 3 .. Len(v) - d
    BY <1>1, <1>3
  <2> QED
    BY <2>1, <2>2, <2>3, <2>4, <2>5
<1>9. w = p
  <2>1. \A i \in 1 .. Len(w) : w[i] = p[i]
    BY <1>6, <1>7, <1>8
  <2> QED
    BY <1>4, <1>6, <1>7, <2>1, SameSequence
<1> QED
  BY <1>9 DEF w, p, v, f, q, x, t

\* Another present text changes that version only.
LEMMA RewrittenVersions ==
  ASSUME NEW past, NEW t, NEW future, IsSequence(past), IsSequence(future), NEW new
  PROVE  Versions(past, new, future) =
         [Versions(past, t, future) EXCEPT ![Len(past) + 1] = new]
<1> DEFINE v == Versions(past, t, future)
           w == Versions(past, new, future)
           e == [v EXCEPT ![Len(past) + 1] = new]
           n == Len(past) + 1 + Len(future)
<1>1. ASSUME NEW x
      PROVE  /\ IsSequence(Versions(past, x, future)) /\ Len(past) \in Nat /\ Len(future) \in Nat
             /\ Len(Versions(past, x, future)) = n
             /\ \A i \in 1 .. Len(past) : Versions(past, x, future)[i] = past[i].text
             /\ Versions(past, x, future)[Len(past) + 1] = x
             /\ \A i \in 1 .. Len(future) :
                   Versions(past, x, future)[Len(past) + 1 + i] = future[Len(future) - i + 1].text
  BY VersionsAt
<1>2. /\ IsSequence(v) /\ IsSequence(w) /\ Len(v) = n /\ Len(w) = n /\ n \in Nat
      /\ w[Len(past) + 1] = new
  BY <1>1
<1>3. ASSUME NEW i \in 1 .. n, i # Len(past) + 1 PROVE w[i] = v[i]
  <2>1. CASE i \in 1 .. Len(past)
    BY <1>1, <2>1
  <2>2. CASE i \in Len(past) + 2 .. n
    <3> DEFINE j == i - Len(past) - 1
    <3>1. j \in 1 .. Len(future) /\ Len(past) + 1 + j = i
      BY <1>1, <2>2
    <3> HIDE DEF j
    <3>2. /\ v[Len(past) + 1 + j] = future[Len(future) - j + 1].text
          /\ w[Len(past) + 1 + j] = future[Len(future) - j + 1].text
      BY <1>1, <3>1
    <3> QED
      BY <3>1, <3>2
  <2>3. i \in 1 .. Len(past) \/ i \in Len(past) + 2 .. n
    BY <1>1, <1>3
  <2> QED
    BY <2>1, <2>2, <2>3
<1> HIDE DEF v, w
<1>4. DOMAIN v = 1 .. n
  BY <1>2 DEF IsSequence
<1>5. e = [i \in 1 .. n |-> IF i = Len(past) + 1 THEN new ELSE v[i]]
  BY <1>4
<1>6. e = [i \in 1 .. n |-> e[i]] /\ \A i \in 1 .. n : e[i] = w[i]
  BY <1>2, <1>3, <1>5
<1> HIDE DEF e
<1>7. IsSequence(e) /\ Len(e) = n
  BY <1>2, <1>6, FunctionIsSequence
<1>8. w = e
  BY <1>2, <1>6, <1>7, SameSequence
<1> QED
  BY <1>8 DEF w, e, v

-----------------------------------------------------------------------------
(* The refinement, kind of step by kind of step.                           *)

\* An edit is an edit of the line in time, or goes on with the newest version.
LEMMA RecordedIsEdit ==
  ASSUME Stacks, Recorded
  PROVE  Timeline!Edit \/ Timeline!Continue
<1> USE DEF Stacks
<1>1. CASE UNCHANGED <<undoStack, redoStack>> /\ lastTyping
  <2>1. redoStack = <<>> /\ undoStack # <<>> /\ Len(redoStack) = 0 /\ Len(undoStack) \in Nat \ {0}
    BY <1>1, EmptySequence, TailOfSequence DEF TypingRunIsNewest
  <2>2. Len(Versions(undoStack, text, redoStack)) = Len(undoStack) + 1
    BY <2>1, VersionsAt
  <2>3. Versions(undoStack, text', redoStack) =
        [Versions(undoStack, text, redoStack) EXCEPT ![Len(undoStack) + 1] = text']
    BY RewrittenVersions
  <2>4. Versions(undoStack, text', redoStack)[Len(undoStack) + 1] = text'
    BY VersionsAt
  <2>5. Timeline!Rewritten
    BY <1>1, <2>3, <2>4 DEF Timeline!Rewritten
  <2> QED
    BY <2>1, <2>2, <2>5 DEF Timeline!Continue
<1>2. CASE undoStack' = Pushed(undoStack, Present) /\ redoStack' = <<>>
  <2> DEFINE v == Versions(undoStack, text, redoStack)
             w == Versions(undoStack', text', <<>>)
  <2>1. IsSequence(undoStack') /\ IsSequence(<<>>) /\ Len(<<>>) = 0 /\ Present.text = text
    BY <1>2, PushedStack, EmptySequence DEF Present
  <2>2. Len(undoStack') \in Nat /\ Len(w) = Len(undoStack') + 1 /\ w[Len(undoStack') + 1] = text'
    <3>1. /\ Len(undoStack') \in Nat /\ Len(w) = Len(undoStack') + 1 + Len(<<>>)
          /\ w[Len(undoStack') + 1] = text'
      BY <2>1, VersionsAt
    <3> QED
      BY <2>1, <3>1
  <2>3. \E first \in {1, 2} :
          first <= Len(undoStack) + 1 /\ w = Append(SubSeq(v, first, Len(undoStack) + 1), text')
    <3>1. CASE undoStack' = Append(undoStack, Present)
      <4>1. w = Append(SubSeq(v, 1, Len(undoStack) + 1), text')
        <5>1. Versions(Append(undoStack, Present), text', <<>>) =
              Append(SubSeq(Versions(undoStack, text, redoStack), 1, Len(undoStack) + 1), text')
          <6> DEFINE e == Present
          <6>1. e.text = text
            BY <2>1
          <6> HIDE DEF e
          <6>2. Versions(Append(undoStack, e), text', <<>>) =
                Append(SubSeq(Versions(undoStack, text, redoStack), 1, Len(undoStack) + 1), text')
            BY <6>1, EditedVersions
          <6> QED
            BY <6>2 DEF e
        <5> QED
          BY <3>1, <5>1
      <4>2. 1 <= Len(undoStack) + 1
        BY PushedStack
      <4> QED
        BY <4>1, <4>2
    <3>2. CASE undoStack # <<>> /\ undoStack' = Append(Tail(undoStack), Present)
      <4>1. w = Append(SubSeq(v, 2, Len(undoStack) + 1), text')
        <5>1. Versions(Append(Tail(undoStack), Present), text', <<>>) =
              Append(SubSeq(Versions(undoStack, text, redoStack), 2, Len(undoStack) + 1), text')
          BY <2>1, <3>2, EditedVersions
        <5> QED
          BY <3>2, <5>1
      <4>2. 2 <= Len(undoStack) + 1
        BY <3>2, TailOfSequence
      <4> QED
        BY <4>1, <4>2
    <3> QED
      BY <1>2, <3>1, <3>2, PushedStack
  <2>4. Timeline!Edit
    BY <1>2, <2>2, <2>3 DEF Timeline!Edit
  <2> QED
    BY <2>4
<1>3. \/ UNCHANGED <<undoStack, redoStack>> /\ lastTyping
      \/ undoStack' = Pushed(undoStack, Present) /\ redoStack' = <<>>
  BY DEF Recorded, PushUndo
<1> QED
  BY <1>1, <1>2, <1>3

\* One step back, the newest version lost if the redo stack is full.
LEMMA UndoIsUndo ==
  ASSUME Stacks, Undo
  PROVE  Timeline!Undo
<1> DEFINE v == Versions(undoStack, text, redoStack)
           w == Versions(undoStack', text', redoStack')
           e == Present
<1>1. /\ IsSequence(undoStack) /\ IsSequence(redoStack) /\ undoStack # <<>>
      /\ undoStack' = Front(undoStack) /\ text' = Last(undoStack).text
      /\ redoStack' = Pushed(redoStack, Present) /\ e.text = text
  BY DEF Stacks, Undo, Present
<1>2. /\ Len(undoStack) \in Nat \ {0} /\ Len(undoStack') = Len(undoStack) - 1
      /\ Len(redoStack) \in Nat
      /\ Len(v) = Len(undoStack) + 1 + Len(redoStack)
  BY <1>1, PoppedStack, VersionsAt
<1>3. \/ redoStack' = Append(redoStack, e)
      \/ redoStack # <<>> /\ redoStack' = Append(Tail(redoStack), e)
  BY <1>1, PushedStack DEF Stacks
<1> HIDE DEF e
<1>4. \E last \in {Len(v), Len(v) - 1} : last >= Len(undoStack) + 1 /\ w = SubSeq(v, 1, last)
  <2>1. CASE redoStack' = Append(redoStack, e)
    <3>1. Retained(redoStack, 0, redoStack) /\ 0 \in {0, 1}
      BY <1>1, KeptOfPush
    <3>2. Versions(Front(undoStack), Last(undoStack).text, Append(redoStack, e)) =
          SubSeq(v, 1, Len(undoStack) + 1 + Len(redoStack))
      BY <1>1, <3>1, UndoneVersions
    <3>3. w = SubSeq(v, 1, Len(v)) /\ Len(v) >= Len(undoStack) + 1
      BY <1>1, <1>2, <2>1, <3>2
    <3> HIDE DEF v, w
    <3> QED
      BY <3>3
  <2>2. CASE redoStack # <<>> /\ redoStack' = Append(Tail(redoStack), e)
    <3>1. Retained(Tail(redoStack), 1, redoStack) /\ 1 <= Len(redoStack) /\ 1 \in {0, 1}
      BY <1>1, <2>2, KeptOfPush
    <3>2. Versions(Front(undoStack), Last(undoStack).text, Append(Tail(redoStack), e)) =
          SubSeq(v, 1, Len(undoStack) + 1 + Len(Tail(redoStack)))
      BY <1>1, <3>1, UndoneVersions
    <3>3. /\ Len(undoStack) + 1 + Len(Tail(redoStack)) = Len(v) - 1
          /\ Len(v) - 1 >= Len(undoStack) + 1
      <4> DEFINE rest == Len(Tail(redoStack))
      <4>1. rest = Len(redoStack) - 1 /\ Len(redoStack) \in Nat \ {0}
        BY <1>1, <2>2, TailOfSequence
      <4> HIDE DEF rest, v
      <4>2. Len(undoStack) + 1 + rest = Len(v) - 1 /\ Len(v) - 1 >= Len(undoStack) + 1
        BY <1>2, <4>1
      <4> QED
        BY <4>2 DEF rest
    <3>4. w = SubSeq(v, 1, Len(v) - 1)
      BY <1>1, <2>2, <3>2, <3>3
    <3> HIDE DEF v, w
    <3> QED
      BY <3>3, <3>4
  <2> QED
    BY <1>3, <2>1, <2>2
<1> QED
  BY <1>2, <1>4 DEF Timeline!Undo

\* One step forward, the oldest version lost if the undo stack is full.
LEMMA RedoIsRedo ==
  ASSUME Stacks, Redo
  PROVE  Timeline!Redo
<1> DEFINE v == Versions(undoStack, text, redoStack)
           w == Versions(undoStack', text', redoStack')
           e == Present
<1>1. /\ IsSequence(undoStack) /\ IsSequence(redoStack) /\ redoStack # <<>>
      /\ redoStack' = Front(redoStack) /\ text' = Last(redoStack).text
      /\ undoStack' = Pushed(undoStack, Present) /\ e.text = text
  BY DEF Stacks, Redo, Present
<1>2. /\ Len(undoStack) \in Nat /\ Len(redoStack) \in Nat \ {0}
      /\ Len(v) = Len(undoStack) + 1 + Len(redoStack)
  BY <1>1, PoppedStack, VersionsAt
<1>3. \/ undoStack' = Append(undoStack, e) /\ Len(undoStack') = Len(undoStack) + 1
      \/ /\ undoStack # <<>> /\ undoStack' = Append(Tail(undoStack), e)
         /\ Len(undoStack') = Len(undoStack)
  BY <1>1, PushedStack DEF Stacks
<1> HIDE DEF e
<1>4. \E first \in {1, 2} :
        /\ first <= Len(undoStack) + 1
        /\ w = SubSeq(v, first, Len(v))
        /\ Len(undoStack') + 1 = Len(undoStack) + 1 + 2 - first
  <2>1. CASE undoStack' = Append(undoStack, e) /\ Len(undoStack') = Len(undoStack) + 1
    <3>1. Retained(undoStack, 0, undoStack)
      BY <1>1, KeptOfPush
    <3>2. Versions(Append(undoStack, e), Last(redoStack).text, Front(redoStack)) =
          SubSeq(v, 1 + 0, Len(v))
      BY <1>1, <3>1, RedoneVersions
    <3>3. /\ 1 + 0 = 1 /\ 1 <= Len(undoStack) + 1
          /\ Len(undoStack') + 1 = Len(undoStack) + 1 + 2 - 1
      BY <1>2, <2>1
    <3>4. w = SubSeq(v, 1, Len(v))
      BY <1>1, <2>1, <3>2, <3>3
    <3> HIDE DEF v, w
    <3> QED
      BY <3>3, <3>4
  <2>2. CASE /\ undoStack # <<>> /\ undoStack' = Append(Tail(undoStack), e)
             /\ Len(undoStack') = Len(undoStack)
    <3>1. Retained(Tail(undoStack), 1, undoStack) /\ 1 <= Len(undoStack)
      BY <1>1, <2>2, KeptOfPush
    <3>2. Versions(Append(Tail(undoStack), e), Last(redoStack).text, Front(redoStack)) =
          SubSeq(v, 1 + 1, Len(v))
      BY <1>1, <3>1, RedoneVersions
    <3>3. /\ 1 + 1 = 2 /\ 2 <= Len(undoStack) + 1
          /\ Len(undoStack') + 1 = Len(undoStack) + 1 + 2 - 2
      BY <1>2, <2>2, <3>1
    <3>4. w = SubSeq(v, 2, Len(v))
      BY <1>1, <2>2, <3>2, <3>3
    <3> HIDE DEF v, w
    <3> QED
      BY <3>3, <3>4
  <2> QED
    BY <1>3, <2>1, <2>2
<1>5. Len(undoStack) + 1 < Len(v)
  BY <1>2
<1> HIDE DEF v, w
<1>6. PICK first \in {1, 2} :
        /\ first <= Len(undoStack) + 1
        /\ w = SubSeq(v, first, Len(v))
        /\ Len(undoStack') + 1 = Len(undoStack) + 1 + 2 - first
  BY <1>4
<1> QED
  BY <1>5, <1>6 DEF Timeline!Redo, v, w

\* What is not recorded rewrites the present version and no other.
LEMMA UnrecordedIsRewritten ==
  ASSUME Stacks, UNCHANGED stacks
  PROVE  Timeline!Rewritten
<1>1. IsSequence(undoStack) /\ IsSequence(redoStack) /\ UNCHANGED <<undoStack, redoStack>>
  BY DEF Stacks, stacks
<1>2. Versions(undoStack, text', redoStack) =
      [Versions(undoStack, text, redoStack) EXCEPT ![Len(undoStack) + 1] = text']
  BY <1>1, RewrittenVersions
<1>3. Versions(undoStack, text', redoStack)[Len(undoStack) + 1] = text'
  BY <1>1, VersionsAt
<1> QED
  BY <1>1, <1>2, <1>3 DEF Timeline!Rewritten

\* A buffer starts with one version.
LEMMA TimelineInit == Init => Timeline!Init
<1> SUFFICES ASSUME Init PROVE Timeline!Init
  OBVIOUS
<1>1. undoStack = <<>> /\ redoStack = <<>> /\ IsSequence(<<>>) /\ Len(<<>>) = 0
  BY EmptySequence DEF Init
<1>2. ASSUME NEW past, NEW future, IsSequence(past), IsSequence(future), Len(past) = 0, Len(future) = 0
      PROVE  Len(Versions(past, text, future)) = 1
  <2>1. ASSUME NEW p, NEW f, IsSequence(p), IsSequence(f)
        PROVE  Len(Versions(p, text, f)) = Len(p) + 1 + Len(f)
    BY <2>1, VersionsAt
  <2>2. Len(Versions(past, text, future)) = Len(past) + 1 + Len(future)
    BY <1>2, <2>1, Zenon
  <2> QED
    BY <1>2, <2>2
<1>3. Len(Versions(undoStack, text, redoStack)) = 1
  BY <1>1, <1>2
<1> QED
  BY <1>1, <1>3 DEF Timeline!Init

(* Undo, redo and every edit implement the line in time of UndoTimeline,   *)
(* for all texts, inserts and limits and any changes of the limit; only    *)
(* what is not recorded rewrites the present (2176-2242).                  *)
THEOREM BufferImplementsTimeline == Spec => ImplementsUndoTimeline
<1> DEFINE Allowed == Timeline!Next \/ (Unrecorded /\ Timeline!Rewritten)
<1>1. ASSUME Stacks, [Next]_vars PROVE [Allowed]_(Timeline!timeline)
  <2>1. CASE Undo
    BY <1>1, <2>1, UndoIsUndo DEF Timeline!Next
  <2>2. CASE Redo
    BY <1>1, <2>2, RedoIsRedo DEF Timeline!Next
  <2>3. CASE Recorded
    BY <1>1, <2>3, RecordedIsEdit DEF Timeline!Next
  <2>4. CASE Unrecorded /\ UNCHANGED stacks
    BY <1>1, <2>4, UnrecordedIsRewritten
  <2>5. CASE UNCHANGED <<text, stacks>>
    BY <2>5 DEF Timeline!timeline, stacks
  <2>6. CASE SetLimit
    BY <2>6 DEF SetLimit, Timeline!timeline
  <2> QED
    BY <1>1, <2>1, <2>2, <2>3, <2>4, <2>5, <2>6, StepKinds
<1> QED
  BY <1>1, AlwaysStacks, TimelineInit, PTL DEF Spec, ImplementsUndoTimeline

-----------------------------------------------------------------------------
(* Several cursors.  First numbers and orders, then the merging of         *)
(* cursors, the ends of lines and words, a batch of edits, and the types;  *)
(* then what a batch leaves, and that it replaces all ranges at once.      *)

\* The merging of cursors, one by one, from left to right.
Merging == INSTANCE FoldFacts WITH Op <- LAMBDA k, merged, c : MergeInto(merged, c)

-----------------------------------------------------------------------------
(* Numbers.                                                                *)

\* A set of numbers that is not empty has a least one.
LEMMA FirstOf ==
  ASSUME NEW T, T \subseteq Nat, T # {}
  PROVE  \E x \in T : \A y \in T : x <= y
<1>1. PICK R : R = OpToRel(<, Nat)
  OBVIOUS
<1>2. IsWellFoundedOn(R, Nat)
  BY <1>1, NatLessThanWellFounded, Zenon
<1>3. \A x, y \in Nat : y < x => <<y, x>> \in R
  BY <1>1 DEF OpToRel
<1>4. PICK x \in T : \A y \in T : ~(<<y, x>> \in R)
  BY <1>2, WFMin
<1>5. \A y \in T : ~(y < x)
  BY <1>3, <1>4
<1> QED
  BY <1>5

\* And a greatest one, if it is bounded.
LEMMA LastOf ==
  ASSUME NEW n \in Nat, NEW T \in SUBSET (0 .. n), T # {}
  PROVE  \E x \in T : \A y \in T : x >= y
<1>1. PICK R : R = {n - x : x \in T}
  OBVIOUS
<1>2. R \subseteq Nat /\ R # {}
  <2>1. \A x \in T : n - x \in Nat
    <3>1. \A x \in T : x \in 0 .. n
      OBVIOUS
    <3> QED
      BY <3>1
  <2>2. PICK x : x \in T
    OBVIOUS
  <2> QED
    BY <1>1, <2>1, <2>2
<1>3. PICK r \in R : \A y \in R : r <= y
  BY <1>2, FirstOf
<1>4. PICK x \in T : r = n - x
  BY <1>1, <1>3
<1>5. ASSUME NEW y \in T PROVE x >= y
  <2>1. n - y \in R /\ x \in 0 .. n /\ y \in 0 .. n
    BY <1>1
  <2>2. n - x <= n - y
    BY <1>3, <1>4, <2>1
  <2> QED
    BY <2>1, <2>2
<1> QED
  BY <1>5

\* Max and Min of the community modules are these.
LEMMA MaxOf ==
  ASSUME NEW n \in Nat, NEW T \in SUBSET (0 .. n), T # {}
  PROVE  Max(T) \in T /\ \A y \in T : Max(T) >= y
BY LastOf DEF Max

\* A set of numbers that is not empty has its minimum, which is the least.
LEMMA LeastOf ==
  ASSUME NEW T \in SUBSET Nat, T # {}
  PROVE  Min(T) \in T /\ \A y \in T : Min(T) <= y
BY FirstOf DEF Min

-----------------------------------------------------------------------------
(* The order of cursors.                                                   *)

\* The stable order by a key, over the first numbers.
Comes(key, i, j) == key[i] < key[j] \/ (key[i] = key[j] /\ i < j)
Sorts(order, key, n) ==
    /\ order \in [1 .. n -> 1 .. n]
    /\ \A k, l \in 1 .. n : k < l => Comes(key, order[k], order[l])

\* By insertion there is one.
LEMMA OrderExists ==
  ASSUME NEW n \in Nat, NEW key, \A i \in 1 .. n : key[i] \in Nat
  PROVE  \E order : Sorts(order, key, n)
<1> DEFINE I == {m \in Nat : m <= n => \E order : Sorts(order, key, m)}
<1>1. 0 \in I
  <2>1. Sorts([k \in 1 .. 0 |-> k], key, 0)
    BY DEF Sorts
  <2> QED
    BY <2>1
<1>2. ASSUME NEW m \in Nat, m \in I PROVE m + 1 \in I
  <2> SUFFICES ASSUME m + 1 <= n PROVE \E order : Sorts(order, key, m + 1)
    OBVIOUS
  <2>1. PICK old : Sorts(old, key, m)
    BY <1>2
  <2> DEFINE Behind == {k \in 1 .. m : key[old[k]] > key[m + 1]} \cup {m + 1}
  <2>2. PICK p \in Behind : \A k \in Behind : p <= k
    <3>1. Behind \subseteq Nat /\ Behind # {}
      OBVIOUS
    <3> HIDE DEF Behind
    <3> QED
      BY <3>1, FirstOf
  <2>3. /\ p \in 1 .. m + 1
        /\ p # m + 1 => key[old[p]] > key[m + 1]
        /\ \A k \in 1 .. m : k < p => ~(key[old[k]] > key[m + 1])
    BY <2>2
  <2> HIDE DEF Behind
  <2>4. /\ \A k \in 1 .. m : old[k] \in 1 .. m /\ key[old[k]] \in Nat
        /\ key[m + 1] \in Nat
        /\ \A k, l \in 1 .. m : k < l => Comes(key, old[k], old[l])
    BY <2>1 DEF Sorts
  <2>5. PICK new : new = [k \in 1 .. m + 1 |-> IF k < p THEN old[k]
                                               ELSE IF k = p THEN m + 1 ELSE old[k - 1]]
    OBVIOUS
  <2>6. new \in [1 .. m + 1 -> 1 .. m + 1]
    <3>1. ASSUME NEW k \in 1 .. m + 1 PROVE new[k] \in 1 .. m + 1
      <4>1. CASE k < p
        <5>1. k \in 1 .. m
          BY <2>3, <4>1
        <5> QED
          BY <2>4, <2>5, <4>1, <5>1
      <4>2. CASE k = p
        BY <2>5, <4>2
      <4>3. CASE k > p
        <5>1. k - 1 \in 1 .. m
          BY <2>3, <4>3
        <5> QED
          BY <2>3, <2>4, <2>5, <4>3, <5>1
      <4> QED
        BY <2>3, <4>1, <4>2, <4>3
    <3> QED
      BY <2>5, <3>1
  <2>7. ASSUME NEW k \in 1 .. m + 1, NEW l \in 1 .. m + 1, k < l
        PROVE  Comes(key, new[k], new[l])
    <3>1. CASE l < p
      <4>1. k \in 1 .. m /\ l \in 1 .. m /\ new[k] = old[k] /\ new[l] = old[l]
        BY <2>3, <2>5, <2>7, <3>1
      <4> QED
        BY <2>4, <2>7, <4>1
    <3>2. CASE l = p
      <4>1. k \in 1 .. m /\ k < p /\ new[k] = old[k] /\ new[l] = m + 1
        BY <2>3, <2>5, <2>7, <3>2
      <4>2. ~(key[old[k]] > key[m + 1]) /\ old[k] < m + 1
        BY <2>3, <2>4, <4>1
      <4> QED
        BY <2>4, <4>1, <4>2 DEF Comes
    <3>3. CASE l > p
      <4>0. l - 1 \in 1 .. m /\ new[l] = old[l - 1]
        BY <2>3, <2>5, <2>7, <3>3
      <4>1. CASE k < p
        <5>1. k \in 1 .. m /\ k < l - 1 /\ new[k] = old[k]
          BY <2>3, <2>5, <2>7, <3>3, <4>1
        <5> QED
          BY <2>4, <4>0, <5>1
      <4>2. CASE k = p
        <5>1. new[k] = m + 1 /\ p \in 1 .. m /\ p <= l - 1
          BY <2>3, <2>5, <3>3, <4>2
        <5>2. key[old[p]] > key[m + 1]
          BY <2>3, <5>1
        <5>3. key[old[l - 1]] >= key[old[p]]
          <6>1. CASE p = l - 1
            BY <2>4, <4>0, <6>1
          <6>2. CASE p < l - 1
            <7>1. Comes(key, old[p], old[l - 1])
              BY <2>4, <4>0, <5>1, <6>2
            <7> QED
              BY <2>4, <4>0, <5>1, <7>1 DEF Comes
          <6> QED
            BY <5>1, <6>1, <6>2
        <5> QED
          BY <2>4, <4>0, <5>1, <5>2, <5>3 DEF Comes
      <4>3. CASE k > p
        <5>1. k - 1 \in 1 .. m /\ k - 1 < l - 1 /\ new[k] = old[k - 1]
          BY <2>3, <2>5, <2>7, <4>3
        <5> QED
          BY <2>4, <4>0, <5>1
      <4> QED
        BY <2>3, <4>1, <4>2, <4>3
    <3> QED
      BY <2>3, <3>1, <3>2, <3>3
  <2>8. Sorts(new, key, m + 1)
    BY <2>6, <2>7 DEF Sorts
  <2> QED
    BY <2>8
<1>3. Nat \subseteq I
  <2> HIDE DEF I
  <2> QED
    BY <1>1, <1>2, Merging!SetInduction
<1> QED
  BY <1>3

\* An order takes every number once.
LEMMA OrderIsWhole ==
  ASSUME NEW n \in Nat, NEW key, \A i \in 1 .. n : key[i] \in Nat,
         NEW order, Sorts(order, key, n)
  PROVE  /\ \A i \in 1 .. n : \E k \in 1 .. n : order[k] = i
         /\ \A k, l \in 1 .. n : order[k] = order[l] => k = l
<1>1. order \in [1 .. n -> 1 .. n]
  BY DEF Sorts
<1>2. ASSUME NEW k \in 1 .. n, NEW l \in 1 .. n, k < l PROVE order[k] # order[l]
  <2>1. Comes(key, order[k], order[l])
    BY <1>2 DEF Sorts
  <2>2. order[k] \in 1 .. n /\ key[order[k]] \in Nat
    BY <1>1
  <2> QED
    BY <2>1, <2>2 DEF Comes
<1>3. \A k, l \in 1 .. n : order[k] = order[l] => k = l
  BY <1>2
<1>4. order \in Injection(1 .. n, 1 .. n)
  BY <1>1, <1>3 DEF Injection, IsInjective
<1>5. IsFiniteSet(1 .. n)
  BY FS_Interval
<1>6. order \in Surjection(1 .. n, 1 .. n)
  BY <1>4, <1>5, FS_Injection
<1>7. \A i \in 1 .. n : \E k \in 1 .. n : order[k] = i
  BY <1>6 DEF Surjection
<1> QED
  BY <1>3, <1>7

\* CursorOrder is such an order, by where the cursors begin.
Beginnings(cs) == [i \in DOMAIN cs |-> Lo(cs[i])]
Cursors == Seq(CursorRecord)

\* What a cursor is, by its two places.
LEMMA CursorFacts ==
  ASSUME NEW c \in CursorRecord
  PROVE  /\ c.head \in Nat /\ c.tail \in Nat /\ Lo(c) \in Nat /\ Hi(c) \in Nat /\ Lo(c) <= Hi(c)
         /\ Lo(c) <= c.head /\ c.head <= Hi(c) /\ Lo(c) <= c.tail /\ c.tail <= Hi(c)
         /\ ~HasSel(c) => Lo(c) = c.head /\ Hi(c) = c.head /\ c.tail = c.head
         /\ Lo(c) = Hi(c) => ~HasSel(c)
         /\ HasSel(c) \in BOOLEAN
BY DEF CursorRecord, Lo, Hi, Lesser, Most, HasSel

\* CursorOrder goes through all cursors, from left to right.
LEMMA CursorsInOrder ==
  ASSUME NEW cs \in Cursors
  PROVE  Sorts(CursorOrder(cs), Beginnings(cs), Len(cs))
<1> DEFINE n == Len(cs)
           key == Beginnings(cs)
<1>1. n \in Nat /\ DOMAIN cs = 1 .. n /\ \A i \in 1 .. n : cs[i] \in CursorRecord
  BY DEF Cursors
<1>2. \A i \in 1 .. n : key[i] = Lo(cs[i]) /\ key[i] \in Nat
  BY <1>1, CursorFacts DEF Beginnings
<1>3. \A i, j \in 1 .. n : Comes(key, i, j) <=>
          (Lo(cs[i]) < Lo(cs[j]) \/ (Lo(cs[i]) = Lo(cs[j]) /\ i < j))
  BY <1>2 DEF Comes
<1> HIDE DEF key, n
<1>4. PICK order : Sorts(order, key, n)
  BY <1>1, <1>2, OrderExists
<1> DEFINE Good(o) == \A k, l \in DOMAIN cs : k < l =>
              (Lo(cs[o[k]]) < Lo(cs[o[l]]) \/ (Lo(cs[o[k]]) = Lo(cs[o[l]]) /\ o[k] < o[l]))
<1>5. order \in [DOMAIN cs -> DOMAIN cs] /\ Good(order)
  <2>1. order \in [1 .. n -> 1 .. n]
    BY <1>4 DEF Sorts
  <2>2. \A k \in 1 .. n : order[k] \in 1 .. n
    BY <2>1
  <2>3. \A k, l \in 1 .. n : k < l => Comes(key, order[k], order[l])
    BY <1>4 DEF Sorts
  <2> QED
    BY <1>1, <1>3, <2>1, <2>2, <2>3
<1>6. CursorOrder(cs) \in [DOMAIN cs -> DOMAIN cs] /\ Good(CursorOrder(cs))
  <2>1. CursorOrder(cs) = CHOOSE o \in [DOMAIN cs -> DOMAIN cs] : Good(o)
    BY DEF CursorOrder
  <2> HIDE DEF Good
  <2> QED
    BY <1>5, <2>1
<1>7. Sorts(CursorOrder(cs), key, n)
  <2> DEFINE o == CursorOrder(cs)
  <2>1. o \in [1 .. n -> 1 .. n] /\ \A k \in 1 .. n : o[k] \in 1 .. n
    BY <1>1, <1>6
  <2>2. \A k, l \in 1 .. n : k < l =>
          (Lo(cs[o[k]]) < Lo(cs[o[l]]) \/ (Lo(cs[o[k]]) = Lo(cs[o[l]]) /\ o[k] < o[l]))
    BY <1>1, <1>6
  <2> HIDE DEF o
  <2>3. \A k, l \in 1 .. n : k < l => Comes(key, o[k], o[l])
    BY <1>3, <2>1, <2>2
  <2>4. Sorts(o, key, n)
    BY <2>1, <2>3 DEF Sorts
  <2> QED
    BY <2>4 DEF o
<1> QED
  BY <1>7 DEF key, n

-----------------------------------------------------------------------------
(* What is left when cursors are merged.                                   *)

\* The cursors from left to right.
FromLeft(cs) == [k \in DOMAIN cs |-> cs[CursorOrder(cs)[k]]]

\* The cursors from left to right are the same cursors.
LEMMA FromLeftFacts ==
  ASSUME NEW cs \in Cursors
  PROVE  /\ FromLeft(cs) \in Cursors /\ Len(FromLeft(cs)) = Len(cs)
         /\ \A k \in 1 .. Len(cs) : CursorOrder(cs)[k] \in 1 .. Len(cs)
                                    /\ FromLeft(cs)[k] = cs[CursorOrder(cs)[k]]
         /\ \A i \in 1 .. Len(cs) : \E k \in 1 .. Len(cs) : CursorOrder(cs)[k] = i
         /\ \A k, l \in 1 .. Len(cs) : CursorOrder(cs)[k] = CursorOrder(cs)[l] => k = l
         /\ \A k, l \in 1 .. Len(cs) : k < l => Lo(FromLeft(cs)[k]) <= Lo(FromLeft(cs)[l])
<1> DEFINE o == CursorOrder(cs)
           n == Len(cs)
           key == Beginnings(cs)
<1>1. n \in Nat /\ DOMAIN cs = 1 .. n /\ \A i \in 1 .. n : cs[i] \in CursorRecord
  BY DEF Cursors
<1>2. \A i \in 1 .. n : key[i] = Lo(cs[i]) /\ key[i] \in Nat
  BY <1>1, CursorFacts DEF Beginnings
<1>3. Sorts(o, key, n)
  BY CursorsInOrder
<1> HIDE DEF o, key
<1>4. o \in [1 .. n -> 1 .. n] /\ \A k \in 1 .. n : o[k] \in 1 .. n
  BY <1>3 DEF Sorts
<1>5. /\ \A i \in 1 .. n : \E k \in 1 .. n : o[k] = i
      /\ \A k, l \in 1 .. n : o[k] = o[l] => k = l
  <2> HIDE DEF n
  <2> QED
    BY <1>1, <1>2, <1>3, OrderIsWhole
<1>6. FromLeft(cs) = [k \in 1 .. n |-> cs[o[k]]]
  BY <1>1 DEF FromLeft, o
<1>7. FromLeft(cs) \in Cursors /\ Len(FromLeft(cs)) = n
  BY <1>1, <1>4, <1>6 DEF Cursors
<1>8. ASSUME NEW k \in 1 .. n, NEW l \in 1 .. n, k < l
      PROVE  Lo(FromLeft(cs)[k]) <= Lo(FromLeft(cs)[l])
  <2>1. Comes(key, o[k], o[l])
    BY <1>3, <1>8 DEF Sorts
  <2>2. key[o[k]] <= key[o[l]]
    BY <1>2, <1>4, <2>1 DEF Comes
  <2> QED
    BY <1>2, <1>4, <1>6, <2>2
<1> QED
  BY <1>4, <1>5, <1>6, <1>7, <1>8 DEF o

\* The last of them takes over a head.
Stretched(merged, c) ==
    [merged EXCEPT ![Len(merged)] = Cursor(c.head, merged[Len(merged)].tail)]

\* Whether c begins within the last, and reaches further.
Meets(merged, c) == merged # <<>> /\ Lo(c) <= Hi(merged[Len(merged)])
Beyond(merged, c) == Hi(c) > Hi(merged[Len(merged)])

\* A cursor that meets the last one stretches it and leaves where it begins.
LEMMA LastIsStretched ==
  ASSUME NEW merged \in Cursors, merged # <<>>, NEW x \in CursorRecord
  PROVE  Append(Front(merged), x) = [merged EXCEPT ![Len(merged)] = x]
<1> DEFINE n == Len(merged)
           l == Append(Front(merged), x)
           r == [merged EXCEPT ![n] = x]
<1>1. n \in Nat \ {0} /\ merged \in Seq(CursorRecord)
  BY DEF Cursors
<1>2. Front(merged) \in Seq(CursorRecord) /\ Len(Front(merged)) = n - 1
      /\ \A i \in 1 .. n - 1 : Front(merged)[i] = merged[i]
  <2>1. Front(merged) = SubSeq(merged, 1, n - 1)
    BY DEF Front
  <2>2. PICK k : k = n - 1
    OBVIOUS
  <2>3. k \in Nat /\ k \in 1 - 1 .. Len(merged)
    BY <1>1, <2>2
  <2>4. PICK f : f = SubSeq(merged, 1, k)
    OBVIOUS
  <2>5. f \in Seq(CursorRecord) /\ Len(f) = k /\ \A i \in 1 .. k : f[i] = merged[i]
    BY <1>1, <2>3, <2>4, SubSeqProperties
  <2> QED
    BY <2>1, <2>2, <2>4, <2>5
<1>3. l \in Seq(CursorRecord) /\ Len(l) = n
      /\ \A i \in 1 .. n : l[i] = IF i = n THEN x ELSE merged[i]
  <2>1. l \in Seq(CursorRecord) /\ Len(l) = n
    BY <1>1, <1>2
  <2>2. \A i \in 1 .. n - 1 : l[i] = merged[i]
    BY <1>1, <1>2
  <2>3. l[n] = x
    BY <1>1, <1>2
  <2> HIDE DEF l
  <2> QED
    BY <1>1, <2>1, <2>2, <2>3
<1>4. r \in Seq(CursorRecord) /\ Len(r) = n
      /\ \A i \in 1 .. n : r[i] = IF i = n THEN x ELSE merged[i]
  BY <1>1
<1> HIDE DEF l, r
<1>5. l = r
  BY <1>1, <1>3, <1>4, SeqEqual
<1> QED
  BY <1>5 DEF l, r

\* Merging a cursor keeps the merged ones, stretches the last, or adds the cursor.
LEMMA MergeCases ==
  ASSUME NEW merged \in Cursors, NEW c \in CursorRecord
  PROVE  /\ ~Meets(merged, c) => MergeInto(merged, c) = Append(merged, c)
         /\ Meets(merged, c) /\ ~Beyond(merged, c) => MergeInto(merged, c) = merged
         /\ Meets(merged, c) /\ Beyond(merged, c) => MergeInto(merged, c) = Stretched(merged, c)
         /\ MergeInto(merged, c) \in Cursors /\ MergeInto(merged, c) # <<>>
<1>1. Last(merged) = merged[Len(merged)]
  BY DEF Last
<1>2. ~Meets(merged, c) => MergeInto(merged, c) = Append(merged, c)
  BY <1>1 DEF Meets, MergeInto
<1>3. Meets(merged, c) /\ ~Beyond(merged, c) => MergeInto(merged, c) = merged
  BY <1>1 DEF Meets, Beyond, MergeInto
<1>4. ASSUME Meets(merged, c), Beyond(merged, c)
      PROVE  MergeInto(merged, c) = Stretched(merged, c) /\ Stretched(merged, c) \in Cursors
             /\ Stretched(merged, c) # <<>>
  <2>1. merged # <<>> /\ Len(merged) \in Nat \ {0} /\ merged[Len(merged)] \in CursorRecord
    BY <1>4 DEF Meets, Cursors
  <2>2. Cursor(c.head, merged[Len(merged)].tail) \in CursorRecord
    BY <2>1 DEF CursorRecord, Cursor
  <2>3. MergeInto(merged, c) = Append(Front(merged), Cursor(c.head, merged[Len(merged)].tail))
    BY <1>1, <1>4 DEF Meets, Beyond, MergeInto
  <2>4. MergeInto(merged, c) = Stretched(merged, c)
    BY <2>1, <2>2, <2>3, LastIsStretched DEF Stretched
  <2>5. Stretched(merged, c) \in Cursors /\ Len(Stretched(merged, c)) = Len(merged)
    BY <2>1, <2>2 DEF Stretched, Cursors
  <2> QED
    BY <2>1, <2>4, <2>5 DEF Cursors
<1>5. Append(merged, c) \in Cursors /\ Append(merged, c) # <<>>
  <2>1. Append(merged, c) \in Seq(CursorRecord) /\ Len(Append(merged, c)) = Len(merged) + 1
        /\ Len(merged) \in Nat
    BY DEF Cursors
  <2> QED
    BY <2>1 DEF Cursors
<1> QED
  BY <1>2, <1>3, <1>4, <1>5 DEF Meets

\* The merging step by step: h[i] is what is left of the first i.
Merged(h, cs) ==
    /\ h[0] = <<>> /\ h[Len(cs)] = DedupCursors(cs)
    /\ \A i \in 1 .. Len(cs) : h[i] = MergeInto(h[i - 1], FromLeft(cs)[i])
    /\ \A i \in 0 .. Len(cs) : h[i] \in Cursors
    /\ \A i \in 1 .. Len(cs) : h[i] # <<>>

\* However far the merging has come, the merged cursors are apart.
LEMMA MergedInTurn ==
  ASSUME NEW cs \in Cursors
  PROVE  \E h : Merged(h, cs)
<1> DEFINE q == FromLeft(cs)
           n == Len(cs)
<1>1. q \in Cursors /\ Len(q) = n /\ n \in Nat
  BY FromLeftFacts DEF Cursors
<1>2. DedupCursors(cs) = Merging!Fold(0, <<>>, q)
  BY DEF DedupCursors, FromLeft, FoldLeft, MapThenFoldSet, Max,
         Merging!Fold, Merging!Iterates, Merging!Top
<1> HIDE DEF q
<1>3. PICK h : Merging!Trace(h, 0, <<>>, q)
  BY <1>1, Merging!FoldTrace DEF Cursors
<1>4. /\ h[0] = <<>> /\ h[n] = DedupCursors(cs)
      /\ \A i \in 1 .. n : h[i] = MergeInto(h[i - 1], q[i])
  BY <1>1, <1>2, <1>3 DEF Merging!Trace
<1> DEFINE I == {i \in Nat : i <= n => h[i] \in Cursors}
<1>5. 0 \in I
  <2>1. <<>> \in Cursors
    BY DEF Cursors
  <2> QED
    BY <1>4, <2>1
<1>6. ASSUME NEW i \in Nat, i \in I PROVE i + 1 \in I
  <2>1. CASE i + 1 <= n
    <3>1. i + 1 \in 1 .. n /\ (i + 1) - 1 = i /\ h[i] \in Cursors
      BY <1>1, <1>6, <2>1
    <3>2. q[i + 1] \in CursorRecord
      BY <1>1, <3>1 DEF Cursors
    <3>3. h[i + 1] = MergeInto(h[i], q[i + 1])
      BY <1>4, <3>1
    <3>4. h[i + 1] \in Cursors
      BY <3>1, <3>2, <3>3, MergeCases
    <3> QED
      BY <3>4
  <2>2. CASE ~(i + 1 <= n)
    BY <2>2
  <2> QED
    BY <2>1, <2>2
<1>7. Nat \subseteq I
  <2> HIDE DEF I
  <2> QED
    BY <1>5, <1>6, Merging!SetInduction
<1>8. \A i \in 0 .. n : h[i] \in Cursors
  BY <1>1, <1>7
<1>9. ASSUME NEW i \in 1 .. n PROVE h[i] # <<>>
  <2>1. i - 1 \in 0 .. n /\ q[i] \in CursorRecord
    BY <1>1 DEF Cursors
  <2> QED
    BY <1>4, <1>8, <2>1, MergeCases
<1>10. Merged(h, cs)
  BY <1>4, <1>8, <1>9 DEF Merged, q
<1> QED
  BY <1>10

\* Merging leaves cursors, and never none.
LEMMA DedupTyped ==
  ASSUME NEW cs \in Cursors
  PROVE  DedupCursors(cs) \in Cursors /\ (cs # <<>> => DedupCursors(cs) # <<>>)
<1>1. PICK h : Merged(h, cs)
  BY MergedInTurn
<1>2. Len(cs) \in Nat /\ (cs # <<>> => Len(cs) \in 1 .. Len(cs)) /\ Len(cs) \in 0 .. Len(cs)
  BY DEF Cursors
<1> QED
  BY <1>1, <1>2 DEF Merged

\* Carets that stand apart, from left to right.
Apart(q) ==
    /\ \A i \in 1 .. Len(q) : ~HasSel(q[i])
    /\ \A i, j \in 1 .. Len(q) : i < j => q[i].head < q[j].head

HeadsOf(d) == {d[j].head : j \in 1 .. Len(d)}
CaretsSoFar(m, q, i) ==
    /\ Apart(m) /\ HeadsOf(m) = {q[j].head : j \in 1 .. i}
    /\ i > 0 => m # <<>> /\ m[Len(m)].head = q[i].head
CaretsFromLeft(q) ==
    /\ \A j \in 1 .. Len(q) : ~HasSel(q[j])
    /\ \A j, k \in 1 .. Len(q) : j < k => Lo(q[j]) <= Lo(q[k])

\* One more caret.
LEMMA CaretMerges ==
  ASSUME NEW q \in Cursors, CaretsFromLeft(q), NEW i \in Nat, i + 1 \in 1 .. Len(q),
         NEW m \in Cursors, i = 0 => m = <<>>, CaretsSoFar(m, q, i)
  PROVE  CaretsSoFar(MergeInto(m, q[i + 1]), q, i + 1)
<1>1. PICK c : c = q[i + 1]
  OBVIOUS
<1>2. PICK l : l = Len(m)
  OBVIOUS
<1>3. c \in CursorRecord /\ l \in Nat /\ \A j \in 1 .. l : m[j] \in CursorRecord
  BY <1>1, <1>2 DEF Cursors
<1>4. c.head \in Nat /\ Lo(c) = c.head /\ Hi(c) = c.head /\ ~HasSel(c)
  BY <1>1, <1>3, CursorFacts DEF CaretsFromLeft
<1>5. \A j \in 1 .. l : ~HasSel(m[j]) /\ m[j].head \in Nat
  BY <1>2, <1>3, CursorFacts DEF CaretsSoFar, Apart
<1>6. PICK H : H = {q[j].head : j \in 1 .. i}
  OBVIOUS
<1>7. {q[j].head : j \in 1 .. i + 1} = H \cup {c.head}
  <2>1. 1 .. i + 1 = (1 .. i) \cup {i + 1}
    OBVIOUS
  <2> QED
    BY <1>1, <1>6, <2>1
<1>8. HeadsOf(m) = H
  BY <1>6 DEF CaretsSoFar
<1>9. CASE i > 0 /\ c.head = q[i].head
  <2>1. m # <<>> /\ m[l].head = c.head /\ l \in 1 .. l
    BY <1>2, <1>3, <1>9 DEF CaretsSoFar, Cursors
  <2>2. Hi(m[l]) = c.head
    BY <1>3, <1>5, <2>1, CursorFacts
  <2>3. Meets(m, c) /\ ~Beyond(m, c)
    BY <1>2, <1>4, <2>1, <2>2 DEF Meets, Beyond
  <2>4. MergeInto(m, c) = m
    BY <1>3, <2>3, MergeCases
  <2>5. c.head \in H
    BY <1>6, <1>9
  <2>6. HeadsOf(m) = {q[j].head : j \in 1 .. i + 1}
    BY <1>7, <1>8, <2>5
  <2>7. CaretsSoFar(m, q, i + 1)
    BY <1>1, <1>2, <2>1, <2>6 DEF CaretsSoFar
  <2> QED
    BY <1>1, <2>4, <2>7
<1>10. CASE i = 0 \/ c.head # q[i].head
  <2>1. i > 0 => /\ m # <<>> /\ l \in 1 .. l /\ m[l].head = q[i].head
                 /\ Hi(m[l]) = q[i].head /\ q[i].head \in Nat /\ q[i].head < c.head
    <3> SUFFICES ASSUME i > 0 PROVE /\ m # <<>> /\ l \in 1 .. l /\ m[l].head = q[i].head
                 /\ Hi(m[l]) = q[i].head /\ q[i].head \in Nat /\ q[i].head < c.head
      OBVIOUS
    <3>1. m # <<>> /\ l \in 1 .. l /\ m[l].head = q[i].head
      BY <1>2, <1>3 DEF CaretsSoFar, Cursors
    <3>2. Hi(m[l]) = q[i].head
      BY <1>3, <1>5, <3>1, CursorFacts
    <3>3. i \in 1 .. Len(q) /\ i < i + 1
      OBVIOUS
    <3>4. q[i] \in CursorRecord /\ ~HasSel(q[i])
      BY <3>3 DEF CaretsFromLeft, Cursors
    <3>5. Lo(q[i]) <= Lo(c)
      BY <1>1, <3>3 DEF CaretsFromLeft
    <3>6. q[i].head \in Nat /\ Lo(q[i]) = q[i].head
      BY <3>4, CursorFacts
    <3> QED
      BY <1>4, <1>10, <3>1, <3>2, <3>5, <3>6
  <2>2. ~Meets(m, c)
    BY <1>2, <1>4, <2>1 DEF Meets
  <2>3. PICK new : new = Append(m, c)
    OBVIOUS
  <2>4. MergeInto(m, c) = new
    BY <1>3, <2>2, <2>3, MergeCases
  <2>5. /\ Len(new) = l + 1 /\ new[l + 1] = c /\ \A j \in 1 .. l : new[j] = m[j]
        /\ new # <<>>
    BY <1>2, <1>3, <2>3 DEF Cursors
  <2>6. \A j \in 1 .. l : m[j].head < c.head
    <3> SUFFICES ASSUME NEW j \in 1 .. l PROVE m[j].head < c.head
      OBVIOUS
    <3>1. l > 0 /\ i > 0
      BY <1>2, <1>3
    <3>2. j < l => m[j].head < m[l].head
      BY <1>2, <2>1, <3>1 DEF CaretsSoFar, Apart
    <3>3. m[j].head \in Nat /\ m[l].head \in Nat
      BY <1>5, <2>1, <3>1
    <3> QED
      BY <1>3, <1>4, <2>1, <3>1, <3>2, <3>3
  <2>7. Apart(new)
    <3>1. ASSUME NEW j \in 1 .. l + 1 PROVE ~HasSel(new[j])
      <4>1. CASE j = l + 1
        BY <1>4, <2>5, <4>1
      <4>2. CASE j \in 1 .. l
        BY <1>5, <2>5, <4>2
      <4> QED
        BY <1>3, <4>1, <4>2
    <3>2. ASSUME NEW j \in 1 .. l + 1, NEW k \in 1 .. l + 1, j < k
          PROVE  new[j].head < new[k].head
      <4>1. j \in 1 .. l
        BY <1>3, <3>2
      <4>2. CASE k = l + 1
        BY <2>5, <2>6, <4>1, <4>2
      <4>3. CASE k \in 1 .. l
        BY <1>2, <2>5, <3>2, <4>1, <4>3 DEF CaretsSoFar, Apart
      <4> QED
        BY <1>3, <4>2, <4>3
    <3> QED
      BY <2>5, <3>1, <3>2 DEF Apart
  <2>8. HeadsOf(new) = HeadsOf(m) \cup {c.head}
    <3>1. 1 .. Len(new) = (1 .. l) \cup {l + 1}
      BY <1>3, <2>5
    <3>2. {new[j].head : j \in 1 .. l} = {m[j].head : j \in 1 .. l}
      BY <2>5
    <3> QED
      BY <1>2, <2>5, <3>1, <3>2 DEF HeadsOf
  <2>9. CaretsSoFar(new, q, i + 1)
    <3>1. HeadsOf(new) = {q[j].head : j \in 1 .. i + 1}
      BY <1>7, <1>8, <2>8
    <3> QED
      BY <1>1, <2>5, <2>7, <3>1 DEF CaretsSoFar
  <2> QED
    BY <1>1, <2>4, <2>9
<1> QED
  BY <1>9, <1>10

\* Merging carets only drops those that stand where another does.
LEMMA CaretsMerge ==
  ASSUME NEW cs \in Cursors, \A i \in 1 .. Len(cs) : ~HasSel(cs[i])
  PROVE  /\ Apart(DedupCursors(cs))
         /\ HeadsOf(DedupCursors(cs)) = HeadsOf(cs)
<1>1. PICK h : Merged(h, cs)
  BY MergedInTurn
<1>2. PICK n : n = Len(cs)
  OBVIOUS
<1>3. PICK q : q = FromLeft(cs)
  OBVIOUS
<1>4. PICK o : o = CursorOrder(cs)
  OBVIOUS
<1>5. /\ q \in Cursors /\ Len(q) = n /\ n \in Nat
      /\ \A k \in 1 .. n : o[k] \in 1 .. n /\ q[k] = cs[o[k]]
      /\ \A i \in 1 .. n : \E k \in 1 .. n : o[k] = i
      /\ \A k, l \in 1 .. n : k < l => Lo(q[k]) <= Lo(q[l])
  <2>1. q \in Cursors /\ Len(q) = n
    BY <1>2, <1>3, FromLeftFacts
  <2>2. /\ \A k \in 1 .. n : o[k] \in 1 .. n /\ q[k] = cs[o[k]]
        /\ \A i \in 1 .. n : \E k \in 1 .. n : o[k] = i
    BY <1>2, <1>3, <1>4, FromLeftFacts
  <2>3. \A k, l \in 1 .. n : k < l => Lo(q[k]) <= Lo(q[l])
    BY <1>2, <1>3, FromLeftFacts
  <2>4. n \in Nat
    BY <1>2 DEF Cursors
  <2> QED
    BY <2>1, <2>2, <2>3, <2>4
<1>6. CaretsFromLeft(q)
  <2>1. \A k \in 1 .. n : ~HasSel(q[k])
    BY <1>2, <1>5
  <2> QED
    BY <1>5, <2>1 DEF CaretsFromLeft
<1>7. /\ h[0] = <<>> /\ h[n] = DedupCursors(cs)
      /\ \A i \in 1 .. n : h[i] = MergeInto(h[i - 1], q[i])
      /\ \A i \in 0 .. n : h[i] \in Cursors
  BY <1>1, <1>2, <1>3 DEF Merged
<1>8. PICK I : I = {i \in Nat : i <= n => CaretsSoFar(h[i], q, i)}
  OBVIOUS
<1>9. 0 \in I
  <2>1. Apart(<<>>) /\ HeadsOf(<<>>) = {} /\ {q[j].head : j \in 1 .. 0} = {}
    BY DEF Apart, HeadsOf
  <2>2. CaretsSoFar(<<>>, q, 0)
    BY <2>1 DEF CaretsSoFar
  <2> QED
    BY <1>7, <1>8, <2>2
<1>10. ASSUME NEW i \in Nat, i \in I PROVE i + 1 \in I
  <2>1. CASE i + 1 <= n
    <3>1. i + 1 \in 1 .. n /\ (i + 1) - 1 = i /\ i \in 0 .. n /\ i <= n
      BY <1>5, <2>1
    <3>2. CaretsSoFar(h[i], q, i) /\ h[i] \in Cursors /\ (i = 0 => h[i] = <<>>)
      BY <1>7, <1>8, <1>10, <3>1
    <3>3. CaretsSoFar(MergeInto(h[i], q[i + 1]), q, i + 1)
      BY <1>5, <1>6, <3>1, <3>2, CaretMerges
    <3>4. h[i + 1] = MergeInto(h[i], q[i + 1])
      BY <1>7, <3>1
    <3> QED
      BY <1>8, <3>3, <3>4
  <2>2. CASE ~(i + 1 <= n)
    BY <1>8, <2>2
  <2> QED
    BY <2>1, <2>2
<1>11. Nat \subseteq I
  BY <1>9, <1>10, Merging!SetInduction
<1>12. CaretsSoFar(DedupCursors(cs), q, n)
  BY <1>5, <1>7, <1>8, <1>11
<1>13. {q[j].head : j \in 1 .. n} = HeadsOf(cs)
  <2>1. ASSUME NEW j \in 1 .. n PROVE q[j].head \in HeadsOf(cs)
    BY <1>2, <1>5 DEF HeadsOf
  <2>2. ASSUME NEW x \in HeadsOf(cs) PROVE x \in {q[j].head : j \in 1 .. n}
    <3>1. PICK i \in 1 .. n : x = cs[i].head
      BY <1>2, <2>2 DEF HeadsOf
    <3>2. PICK k \in 1 .. n : o[k] = i
      BY <1>5
    <3>3. q[k].head = x
      BY <1>5, <3>1, <3>2
    <3> QED
      BY <3>3
  <2> QED
    BY <2>1, <2>2
<1> QED
  BY <1>12, <1>13 DEF CaretsSoFar

-----------------------------------------------------------------------------
(* Where lines and words begin and end.                                    *)

\* The last place up to p with a character of K before it, and the first from
\* p on with one behind it.
LastIn(t, p, K)  == Max({0} \cup {q \in 1 .. p : t[q] \in K})
FirstIn(t, p, K) == Min({Len(t)} \cup {q \in p .. Len(t) - 1 : t[q + 1] \in K})

IsLastIn(r, t, p, K) ==
    r \in 0 .. p /\ (r = 0 \/ t[r] \in K) /\ \A q \in r + 1 .. p : t[q] \notin K
IsFirstIn(r, t, p, K) ==
    r \in p .. Len(t) /\ (r = Len(t) \/ t[r + 1] \in K) /\ \A q \in p .. r - 1 : t[q + 1] \notin K

\* What LastIn returns: the last place up to p behind such a character.
LEMMA LastInIs ==
  ASSUME NEW t, NEW p \in Nat, NEW K
  PROVE  IsLastIn(LastIn(t, p, K), t, p, K)
<1> DEFINE T == {0} \cup {q \in 1 .. p : t[q] \in K}
<1>1. T \in SUBSET (0 .. p) /\ T # {}
  OBVIOUS
<1>2. \A x \in T : x = 0 \/ t[x] \in K
  OBVIOUS
<1>3. \A q \in 1 .. p : t[q] \in K => q \in T
  OBVIOUS
<1>4. LastIn(t, p, K) = Max(T)
  BY DEF LastIn
<1> HIDE DEF T
<1>5. PICK m : m = Max(T)
  OBVIOUS
<1>6. m \in T /\ \A y \in T : m >= y
  BY <1>1, <1>5, MaxOf
<1>7. m \in 0 .. p
  BY <1>1, <1>6
<1>8. ASSUME NEW q \in m + 1 .. p PROVE t[q] \notin K
  <2>1. q \in 1 .. p /\ ~(m >= q)
    BY <1>7
  <2> QED
    BY <1>3, <1>6, <2>1
<1> QED
  BY <1>2, <1>4, <1>5, <1>6, <1>7, <1>8 DEF IsLastIn

\* What FirstIn returns: the first place from p on before such a character.
LEMMA FirstInIs ==
  ASSUME NEW t, Len(t) \in Nat, NEW p \in 0 .. Len(t), NEW K
  PROVE  IsFirstIn(FirstIn(t, p, K), t, p, K)
<1> DEFINE T == {Len(t)} \cup {q \in p .. Len(t) - 1 : t[q + 1] \in K}
<1>1. T \in SUBSET Nat /\ T # {} /\ \A x \in T : x \in p .. Len(t)
  OBVIOUS
<1>2. \A x \in T : x = Len(t) \/ t[x + 1] \in K
  OBVIOUS
<1>3. \A q \in p .. Len(t) - 1 : t[q + 1] \in K => q \in T
  OBVIOUS
<1>4. FirstIn(t, p, K) = Min(T)
  BY DEF FirstIn
<1> HIDE DEF T
<1>5. PICK m : m = Min(T)
  OBVIOUS
<1>6. m \in T /\ \A y \in T : m <= y
  BY <1>1, <1>5, LeastOf
<1>7. m \in p .. Len(t)
  BY <1>1, <1>6
<1>8. ASSUME NEW q \in p .. m - 1 PROVE t[q + 1] \notin K
  <2>1. q \in p .. Len(t) - 1 /\ ~(m <= q)
    BY <1>7
  <2> QED
    BY <1>3, <1>6, <2>1
<1> QED
  BY <1>2, <1>4, <1>5, <1>6, <1>7, <1>8 DEF IsFirstIn

\* There is only one such place.
LEMMA OneLastIn ==
  ASSUME NEW t, NEW p \in Nat, NEW K, NEW r, NEW s, IsLastIn(r, t, p, K), IsLastIn(s, t, p, K)
  PROVE  r = s
<1>1. r \in 0 .. p /\ s \in 0 .. p
  BY DEF IsLastIn
<1>2. CASE r < s
  <2>1. s \in r + 1 .. p /\ s # 0
    BY <1>1, <1>2
  <2> QED
    BY <2>1 DEF IsLastIn
<1>3. CASE s < r
  <2>1. r \in s + 1 .. p /\ r # 0
    BY <1>1, <1>3
  <2> QED
    BY <2>1 DEF IsLastIn
<1> QED
  BY <1>1, <1>2, <1>3

\* There is only one such first place.
LEMMA OneFirstIn ==
  ASSUME NEW t, Len(t) \in Nat, NEW p \in 0 .. Len(t), NEW K, NEW r, NEW s,
         IsFirstIn(r, t, p, K), IsFirstIn(s, t, p, K)
  PROVE  r = s
<1>1. r \in p .. Len(t) /\ s \in p .. Len(t)
  BY DEF IsFirstIn
<1>2. CASE r < s
  <2>1. r \in p .. s - 1 /\ r # Len(t)
    BY <1>1, <1>2
  <2> QED
    BY <2>1 DEF IsFirstIn
<1>3. CASE s < r
  <2>1. s \in p .. r - 1 /\ s # Len(t)
    BY <1>1, <1>3
  <2> QED
    BY <2>1 DEF IsFirstIn
<1> QED
  BY <1>1, <1>2, <1>3

\* The operators of lines and words are these.
LEMMA LinesAndWords ==
  ASSUME NEW t \in Text, NEW p \in 0 .. Len(t)
  PROVE  /\ LineStart(t, p) = LastIn(t, p, {"n"})
         /\ LineEnd(t, p) = FirstIn(t, p, {"n"})
         /\ WordBack(t, p) = LastIn(t, LastIn(t, p, {"w"}), Chars \ {"w"})
         /\ WordForward(t, p) = FirstIn(t, FirstIn(t, p, {"w"}), Chars \ {"w"})
<1>1. Len(t) \in Nat /\ \A q \in 1 .. Len(t) : t[q] \in Chars
  BY DEF Text
<1>2. {q \in 1 .. p : t[q] = "n"} = {q \in 1 .. p : t[q] \in {"n"}}
  OBVIOUS
<1>3. {q \in p .. Len(t) - 1 : t[q + 1] = "n"} = {q \in p .. Len(t) - 1 : t[q + 1] \in {"n"}}
  OBVIOUS
<1>4. {q \in 1 .. p : IsWord(t[q])} = {q \in 1 .. p : t[q] \in {"w"}}
  BY DEF IsWord
<1>5. {q \in p .. Len(t) - 1 : IsWord(t[q + 1])} = {q \in p .. Len(t) - 1 : t[q + 1] \in {"w"}}
  BY DEF IsWord
<1>6. PICK l : l = LastIn(t, p, {"w"})
  OBVIOUS
<1>7. PICK f : f = FirstIn(t, p, {"w"})
  OBVIOUS
<1>8. l \in 0 .. p /\ f \in p .. Len(t)
  BY <1>1, <1>6, <1>7, LastInIs, FirstInIs DEF IsLastIn, IsFirstIn
<1>9. {q \in 1 .. l : ~IsWord(t[q])} = {q \in 1 .. l : t[q] \in Chars \ {"w"}}
  BY <1>1, <1>8 DEF IsWord
<1>10. {q \in f .. Len(t) - 1 : ~IsWord(t[q + 1])}
          = {q \in f .. Len(t) - 1 : t[q + 1] \in Chars \ {"w"}}
  <2>1. \A q \in f .. Len(t) - 1 : q + 1 \in 1 .. Len(t)
    BY <1>1, <1>8
  <2> QED
    BY <1>1, <2>1 DEF IsWord
<1>11. LineStart(t, p) = LastIn(t, p, {"n"})
  BY <1>2 DEF LineStart, LastIn
<1>12. LineEnd(t, p) = FirstIn(t, p, {"n"})
  BY <1>3 DEF LineEnd, FirstIn
<1>13. WordBack(t, p) = LastIn(t, l, Chars \ {"w"})
  <2>1. Max({0} \cup {q \in 1 .. p : IsWord(t[q])}) = l
    BY <1>4, <1>6 DEF LastIn
  <2>2. WordBack(t, p) = Max({0} \cup {q \in 1 .. l : ~IsWord(t[q])})
    BY <2>1 DEF WordBack
  <2> QED
    BY <1>9, <2>2 DEF LastIn
<1>14. WordForward(t, p) = FirstIn(t, f, Chars \ {"w"})
  <2>1. Min({Len(t)} \cup {q \in p .. Len(t) - 1 : IsWord(t[q + 1])}) = f
    BY <1>5, <1>7 DEF FirstIn
  <2>2. WordForward(t, p) = Min({Len(t)} \cup {q \in f .. Len(t) - 1 : ~IsWord(t[q + 1])})
    BY <2>1 DEF WordForward
  <2> QED
    BY <1>10, <2>2 DEF FirstIn
<1> QED
  BY <1>6, <1>7, <1>11, <1>12, <1>13, <1>14

\* They are places of the text, on their side of p.
LEMMA PlacesOfText ==
  ASSUME NEW t \in Text, NEW p \in 0 .. Len(t)
  PROVE  /\ LineStart(t, p) \in 0 .. p /\ WordBack(t, p) \in 0 .. p
         /\ LineEnd(t, p) \in p .. Len(t) /\ WordForward(t, p) \in p .. Len(t)
<1>1. Len(t) \in Nat
  BY DEF Text
<1>2. \A K, q : q \in 0 .. Len(t) => LastIn(t, q, K) \in 0 .. q /\ FirstIn(t, q, K) \in q .. Len(t)
  BY <1>1, LastInIs, FirstInIs DEF IsLastIn, IsFirstIn
<1>3. PICK l : l = LastIn(t, p, {"w"})
  OBVIOUS
<1>4. PICK f : f = FirstIn(t, p, {"w"})
  OBVIOUS
<1>5. l \in 0 .. p /\ f \in p .. Len(t) /\ l \in 0 .. Len(t) /\ f \in 0 .. Len(t)
  BY <1>1, <1>2, <1>3, <1>4
<1>6. WordBack(t, p) \in 0 .. l /\ WordForward(t, p) \in f .. Len(t)
  BY <1>2, <1>3, <1>4, <1>5, LinesAndWords
<1>7. LineStart(t, p) \in 0 .. p /\ LineEnd(t, p) \in p .. Len(t)
  BY <1>2, LinesAndWords
<1> QED
  BY <1>1, <1>5, <1>6, <1>7

\* What a command removes at a place is a range around it.
LEMMA ReachTyped ==
  ASSUME NEW t \in Text, NEW p \in 0 .. Len(t), NEW command \in Commands
  PROVE  \E a \in 0 .. p, b \in p .. Len(t) : Reach(command, t, p) = <<a, b>>
<1>1. Len(t) \in Nat
  BY DEF Text
<1> USE DEF Reach, Commands, Deletions, Lesser, Most
<1>2. CASE command \in {"insert", "cut"}
  BY <1>1, <1>2
<1>3. CASE command = "backspace"
  <2>1. Most(p - 1, 0) \in 0 .. p
    BY <1>1
  <2> QED
    BY <1>1, <1>3, <2>1
<1>4. CASE command = "delete_fwd"
  <2>1. Lesser(p + 1, Len(t)) \in p .. Len(t)
    BY <1>1
  <2> QED
    BY <1>1, <1>4, <2>1
<1>5. CASE command = "delete_word_back"
  BY <1>1, <1>5, PlacesOfText
<1>6. CASE command = "delete_word_fwd"
  BY <1>1, <1>6, PlacesOfText
<1>7. CASE command = "delete_to_line_start"
  <2>1. (IF LineStart(t, p) < p THEN LineStart(t, p) ELSE Most(p - 1, 0)) \in 0 .. p
    BY <1>1, PlacesOfText
  <2> QED
    BY <1>1, <1>7, <2>1
<1>8. CASE command = "delete_to_line_end"
  <2>1. (IF LineEnd(t, p) > p THEN LineEnd(t, p) ELSE Lesser(p + 1, Len(t))) \in p .. Len(t)
    BY <1>1, PlacesOfText
  <2> QED
    BY <1>1, <1>8, <2>1
<1> QED
  BY <1>2, <1>3, <1>4, <1>5, <1>6, <1>7, <1>8

-----------------------------------------------------------------------------
(* A batch of edits, cursor by cursor.                                     *)

Batch == [text : Text, delta : Int, cursors : Cursors]

Editing == INSTANCE FoldFacts WITH
    Op <- LAMBDA k, batch, i :
              EditAt(k.command, batch, k.cs[k.order[i]], k.order[i], k.new[i])

BatchOf(command, cs, order, new, base, q) ==
    FoldLeft(LAMBDA batch, i : EditAt(command, batch, cs[order[i]], order[i], new[i]), base, q)

\* A batch is what its fold leaves after the last cursor.
LEMMA BatchFold ==
  ASSUME NEW k, NEW base, NEW q
  PROVE  BatchOf(k.command, k.cs, k.order, k.new, base, q) = Editing!Fold(k, base, q)
BY DEF BatchOf, FoldLeft, MapThenFoldSet, Max, Editing!Fold, Editing!Iterates, Editing!Top

\* A text with a part replaced is a text.
LEMMA SpliceTyped ==
  ASSUME NEW t \in Text, NEW a \in 0 .. Len(t), NEW b \in 0 .. Len(t), NEW new \in Text
  PROVE  /\ Splice(t, a, b, new) \in Text
         /\ Len(Splice(t, a, b, new)) = a + Len(new) + (Len(t) - b)
<1>1. t \in Seq(Chars) /\ new \in Seq(Chars) /\ Len(t) \in Nat /\ Len(new) \in Nat
  BY DEF Text
<1>2. PICK head : head = SubSeq(t, 1, a)
  OBVIOUS
<1>3. PICK tail : tail = SubSeq(t, b + 1, Len(t))
  OBVIOUS
<1>4. head \in Seq(Chars) /\ Len(head) = a
  BY <1>1, <1>2
<1>5. tail \in Seq(Chars) /\ Len(tail) = Len(t) - b
  BY <1>1, <1>3
<1>6. PICK begun : begun = head \o new
  OBVIOUS
<1>7. begun \in Seq(Chars) /\ Len(begun) = a + Len(new)
  BY <1>1, <1>4, <1>6, ConcatProperties
<1>8. PICK u : u = begun \o tail
  OBVIOUS
<1>9. u \in Seq(Chars) /\ Len(u) = a + Len(new) + (Len(t) - b)
  BY <1>1, <1>5, <1>7, <1>8, ConcatProperties
<1>10. Splice(t, a, b, new) = u
  BY <1>2, <1>3, <1>6, <1>8 DEF Splice
<1> QED
  BY <1>9, <1>10 DEF Text

\* Where an edit acts in the text as it is now.
RangeNow(command, batch, c) ==
    LET at(pos) == ApplyDelta(pos, batch.delta, Len(batch.text))
    IN  IF HasSel(c) THEN <<at(Lo(c)), at(Hi(c))>>
        ELSE Reach(command, batch.text, at(c.head))

\* The range of a cursor in the text as it is by then.
LEMMA RangeNowTyped ==
  ASSUME NEW command \in Commands, NEW batch \in Batch, NEW c \in CursorRecord
  PROVE  \E a, b \in 0 .. Len(batch.text) : a <= b /\ RangeNow(command, batch, c) = <<a, b>>
<1>1. PICK t \in Text, d \in Int : t = batch.text /\ d = batch.delta
  BY DEF Batch
<1>2. Len(t) \in Nat
  BY DEF Text
<1>3. Lo(c) \in Nat /\ Hi(c) \in Nat /\ Lo(c) <= Hi(c) /\ c.head \in Nat
  BY CursorFacts
<1>4. \A pos \in Nat : ApplyDelta(pos, d, Len(t)) \in 0 .. Len(t)
  BY <1>2 DEF ApplyDelta, Lesser, Most
<1>5. \A p, q \in Nat : p <= q => ApplyDelta(p, d, Len(t)) <= ApplyDelta(q, d, Len(t))
  BY <1>2 DEF ApplyDelta, Lesser, Most
<1>6. CASE HasSel(c)
  <2>1. RangeNow(command, batch, c) = <<ApplyDelta(Lo(c), d, Len(t)), ApplyDelta(Hi(c), d, Len(t))>>
    BY <1>1, <1>6 DEF RangeNow
  <2> QED
    BY <1>1, <1>3, <1>4, <1>5, <2>1
<1>7. CASE ~HasSel(c)
  <2>1. PICK p \in 0 .. Len(t) : p = ApplyDelta(c.head, d, Len(t))
    BY <1>3, <1>4
  <2>2. RangeNow(command, batch, c) = Reach(command, t, p)
    BY <1>1, <1>7, <2>1 DEF RangeNow
  <2>3. PICK a \in 0 .. p, b \in p .. Len(t) : Reach(command, t, p) = <<a, b>>
    BY ReachTyped
  <2>4. a \in 0 .. Len(t) /\ b \in 0 .. Len(t) /\ a <= b
    BY <1>2, <2>1
  <2> QED
    BY <1>1, <2>2, <2>3, <2>4
<1> QED
  BY <1>6, <1>7

\* One edit.
LEMMA EditAtCases ==
  ASSUME NEW command \in Commands, NEW batch \in Batch, NEW c \in CursorRecord,
         NEW i, NEW new \in Text, NEW a, NEW b, RangeNow(command, batch, c) = <<a, b>>
  PROVE  EditAt(command, batch, c, i, new) =
           IF Acts(command, c, <<a, b>>)
           THEN [text    |-> Splice(batch.text, a, b, new),
                 delta   |-> batch.delta - (b - a) + Len(new),
                 cursors |-> [batch.cursors EXCEPT ![i] = Caret(a + Len(new))]]
           ELSE batch
<1> DEFINE at(pos) == ApplyDelta(pos, batch.delta, Len(batch.text))
           range == IF HasSel(c) THEN <<at(Lo(c)), at(Hi(c))>>
                    ELSE Reach(command, batch.text, at(c.head))
<1>1. range = <<a, b>>
  BY DEF RangeNow
<1>2. EditAt(command, batch, c, i, new) =
        IF Acts(command, c, range)
        THEN [text    |-> Splice(batch.text, range[1], range[2], new),
              delta   |-> batch.delta - (range[2] - range[1]) + Len(new),
              cursors |-> [batch.cursors EXCEPT ![i] = Caret(range[1] + Len(new))]]
        ELSE batch
  BY DEF EditAt
<1> HIDE DEF range
<1> QED
  BY <1>1, <1>2

\* One edit of a batch keeps the types.
LEMMA EditAtTyped ==
  ASSUME NEW command \in Commands, NEW batch \in Batch, NEW c \in CursorRecord,
         NEW i \in 1 .. Len(batch.cursors), NEW new \in Text
  PROVE  /\ EditAt(command, batch, c, i, new) \in Batch
         /\ Len(EditAt(command, batch, c, i, new).cursors) = Len(batch.cursors)
<1>1. PICK a \in 0 .. Len(batch.text), b \in 0 .. Len(batch.text) :
         a <= b /\ RangeNow(command, batch, c) = <<a, b>>
  BY RangeNowTyped
<1>2. batch.text \in Text /\ batch.delta \in Int /\ batch.cursors \in Cursors
  BY DEF Batch
<1>3. Len(new) \in Nat /\ Len(batch.text) \in Nat
  BY <1>2 DEF Text
<1>4. PICK t \in Text : t = Splice(batch.text, a, b, new)
  BY <1>2, SpliceTyped
<1>5. PICK d \in Int : d = batch.delta - (b - a) + Len(new)
  BY <1>1, <1>2, <1>3
<1>6. Caret(a + Len(new)) \in CursorRecord
  BY <1>1, <1>3 DEF Caret, Cursor, CursorRecord
<1>7. PICK cs : cs = [batch.cursors EXCEPT ![i] = Caret(a + Len(new))]
  OBVIOUS
<1>8. cs \in Cursors /\ Len(cs) = Len(batch.cursors)
  BY <1>2, <1>6, <1>7 DEF Cursors
<1>9. EditAt(command, batch, c, i, new) =
         IF Acts(command, c, <<a, b>>) THEN [text |-> t, delta |-> d, cursors |-> cs] ELSE batch
  BY <1>1, <1>4, <1>5, <1>7, EditAtCases
<1>10. [text |-> t, delta |-> d, cursors |-> cs] \in Batch
  BY <1>8 DEF Batch
<1> QED
  BY <1>8, <1>9, <1>10

\* The batch step by step.
Edits(h, command, t, cs, new) ==
    /\ h[0] = [text |-> t, delta |-> 0, cursors |-> cs]
    /\ \A i \in 0 .. Len(cs) : h[i] \in Batch /\ Len(h[i].cursors) = Len(cs)
    /\ \A i \in 1 .. Len(cs) :
          h[i] = EditAt(command, h[i - 1], FromLeft(cs)[i], CursorOrder(cs)[i], new[i])
    /\ Edited(command, t, cs, new)
         = [text |-> h[Len(cs)].text, cursors |-> DedupCursors(h[Len(cs)].cursors)]

\* A batch of edits keeps the types, and has as many cursors as before.
LEMMA EditedInTurn ==
  ASSUME NEW command \in Commands, NEW t \in Text, NEW cs \in Cursors,
         NEW new, \A i \in 1 .. Len(cs) : new[i] \in Text
  PROVE  \E h : Edits(h, command, t, cs, new)
<1>1. PICK n : n = Len(cs)
  OBVIOUS
<1>2. n \in Nat /\ DOMAIN cs = 1 .. n
  BY <1>1 DEF Cursors
<1>3. PICK k : k = [command |-> command, cs |-> cs, order |-> CursorOrder(cs), new |-> new]
  OBVIOUS
<1>4. k.command = command /\ k.cs = cs /\ k.order = CursorOrder(cs) /\ k.new = new
  BY <1>3
<1>5. PICK base : base = [text |-> t, delta |-> 0, cursors |-> cs]
  OBVIOUS
<1>6. PICK q : q = [i \in DOMAIN cs |-> i]
  OBVIOUS
<1>7. q \in Seq(Nat) /\ Len(q) = n /\ \A i \in 1 .. n : q[i] = i
  BY <1>2, <1>6
<1>8. PICK done : done = BatchOf(command, cs, CursorOrder(cs), new, base, q)
  OBVIOUS
<1>9. done = Editing!Fold(k, base, q)
  <2>1. BatchOf(k.command, k.cs, k.order, k.new, base, q) = Editing!Fold(k, base, q)
    BY BatchFold
  <2> QED
    BY <1>4, <1>8, <2>1
<1>10. Edited(command, t, cs, new) = [text |-> done.text, cursors |-> DedupCursors(done.cursors)]
  BY <1>5, <1>6, <1>8 DEF Edited, BatchOf
<1>11. PICK h : Editing!Trace(h, k, base, q)
  BY <1>7, Editing!FoldTrace
<1>12. \A i \in 1 .. n : CursorOrder(cs)[i] \in 1 .. n /\ FromLeft(cs)[i] = cs[CursorOrder(cs)[i]]
                         /\ cs[CursorOrder(cs)[i]] \in CursorRecord
  <2>1. ASSUME NEW i \in 1 .. n
        PROVE  CursorOrder(cs)[i] \in 1 .. n /\ FromLeft(cs)[i] = cs[CursorOrder(cs)[i]]
    BY <1>1, FromLeftFacts
  <2>2. \A j \in 1 .. n : cs[j] \in CursorRecord
    BY <1>1, <1>2 DEF Cursors
  <2> QED
    BY <2>1, <2>2
<1>13. /\ h[0] = base /\ h[n] = done
       /\ \A i \in 1 .. n : h[i] = EditAt(command, h[i - 1], FromLeft(cs)[i], CursorOrder(cs)[i], new[i])
  <2>1. ASSUME NEW i \in 1 .. n
        PROVE  h[i] = EditAt(command, h[i - 1], FromLeft(cs)[i], CursorOrder(cs)[i], new[i])
    <3>1. h[i] = EditAt(k.command, h[i - 1], k.cs[k.order[q[i]]], k.order[q[i]], k.new[q[i]])
      BY <1>7, <1>11 DEF Editing!Trace
    <3> QED
      BY <1>4, <1>7, <1>12, <3>1
  <2> QED
    BY <1>7, <1>9, <1>11, <2>1 DEF Editing!Trace
<1>14. PICK I : I = {i \in Nat : i <= n => h[i] \in Batch /\ Len(h[i].cursors) = n}
  OBVIOUS
<1>15. 0 \in I
  <2>1. base \in Batch /\ base.cursors = cs
    BY <1>5 DEF Batch
  <2> QED
    BY <1>1, <1>13, <1>14, <2>1
<1>16. ASSUME NEW i \in Nat, i \in I PROVE i + 1 \in I
  <2>1. CASE i + 1 <= n
    <3>1. i + 1 \in 1 .. n /\ (i + 1) - 1 = i /\ i <= n
      BY <1>2, <2>1
    <3>2. h[i] \in Batch /\ Len(h[i].cursors) = n
      BY <1>14, <1>16, <3>1
    <3>3. h[i + 1] = EditAt(command, h[i], FromLeft(cs)[i + 1], CursorOrder(cs)[i + 1], new[i + 1])
      BY <1>13, <3>1
    <3>4. /\ FromLeft(cs)[i + 1] \in CursorRecord /\ CursorOrder(cs)[i + 1] \in 1 .. n
          /\ new[i + 1] \in Text
      BY <1>1, <1>12, <3>1
    <3>5. h[i + 1] \in Batch /\ Len(h[i + 1].cursors) = n
      BY <3>2, <3>3, <3>4, EditAtTyped
    <3> QED
      BY <1>14, <3>5
  <2>2. CASE ~(i + 1 <= n)
    BY <1>14, <2>2
  <2> QED
    BY <2>1, <2>2
<1>17. Nat \subseteq I
  BY <1>15, <1>16, Editing!SetInduction
<1>18. \A i \in 0 .. n : h[i] \in Batch /\ Len(h[i].cursors) = n
  BY <1>2, <1>14, <1>17
<1> QED
  BY <1>1, <1>5, <1>10, <1>13, <1>18 DEF Edits

\* Edits make a text and cursors.
LEMMA EditedTyped ==
  ASSUME NEW command \in Commands, NEW t \in Text, NEW cs \in Cursors,
         NEW new, \A i \in 1 .. Len(cs) : new[i] \in Text
  PROVE  /\ Edited(command, t, cs, new).text \in Text
         /\ Edited(command, t, cs, new).cursors \in Cursors
         /\ cs # <<>> => Edited(command, t, cs, new).cursors # <<>>
<1>1. PICK h : Edits(h, command, t, cs, new)
  BY EditedInTurn
<1>2. Len(cs) \in Nat
  BY DEF Cursors
<1>3. h[Len(cs)] \in Batch /\ Len(h[Len(cs)].cursors) = Len(cs)
  BY <1>1, <1>2 DEF Edits
<1>4. PICK d : d = h[Len(cs)].cursors
  OBVIOUS
<1>5. d \in Cursors /\ h[Len(cs)].text \in Text /\ (cs # <<>> => d # <<>>)
  BY <1>2, <1>3, <1>4 DEF Batch, Cursors
<1>6. DedupCursors(d) \in Cursors /\ (d # <<>> => DedupCursors(d) # <<>>)
  BY <1>5, DedupTyped
<1>7. Edited(command, t, cs, new) = [text |-> h[Len(cs)].text, cursors |-> DedupCursors(d)]
  BY <1>1, <1>4 DEF Edits
<1> QED
  BY <1>5, <1>6, <1>7

\* Every cursor that acts becomes a caret; the others were carets.
LEMMA EditedCarets ==
  ASSUME NEW command \in Commands, NEW t \in Text, NEW cs \in Cursors,
         NEW new, \A i \in 1 .. Len(cs) : new[i] \in Text,
         NEW h, Edits(h, command, t, cs, new)
  PROVE  \A i \in 1 .. Len(cs) : ~HasSel(h[Len(cs)].cursors[i])
<1>1. PICK n : n = Len(cs)
  OBVIOUS
<1>2. PICK o : o = CursorOrder(cs)
  OBVIOUS
<1>3. n \in Nat /\ cs \in Seq(CursorRecord)
  BY <1>1 DEF Cursors
<1>4. /\ \A k \in 1 .. n : o[k] \in 1 .. n /\ FromLeft(cs)[k] = cs[o[k]]
      /\ \A i \in 1 .. n : \E k \in 1 .. n : o[k] = i
  BY <1>1, <1>2, FromLeftFacts
\* The first i have been edited; the others are as they were.
<1>5. PICK I : I = {i \in Nat : i <= n =>
                      \A k \in 1 .. n : IF k <= i THEN ~HasSel(h[i].cursors[o[k]])
                                        ELSE h[i].cursors[o[k]] = cs[o[k]]}
  OBVIOUS
<1>6. 0 \in I
  <2>1. h[0].cursors = cs
    BY DEF Edits
  <2> QED
    BY <1>5, <2>1
<1>7. ASSUME NEW i \in Nat, i \in I PROVE i + 1 \in I
  <2>1. CASE i + 1 <= n
    <3>1. i + 1 \in 1 .. n /\ (i + 1) - 1 = i /\ i <= n /\ i \in 0 .. n
      BY <1>3, <2>1
    <3>2. PICK b : b = h[i]
      OBVIOUS
    <3>3. b \in Batch /\ Len(b.cursors) = n
      BY <1>1, <3>1, <3>2 DEF Edits
    <3>4. PICK c : c = cs[o[i + 1]]
      OBVIOUS
    <3>5. c \in CursorRecord /\ o[i + 1] \in 1 .. n /\ new[i + 1] \in Text
      <4>1. o[i + 1] \in 1 .. n
        BY <1>4, <3>1
      <4>2. new[i + 1] \in Text
        BY <1>1, <3>1
      <4>3. \A j \in 1 .. n : cs[j] \in CursorRecord
        BY <1>1, <1>3
      <4> QED
        BY <3>4, <4>1, <4>2, <4>3
    <3>6. h[i + 1] = EditAt(command, b, c, o[i + 1], new[i + 1])
      BY <1>1, <1>2, <1>4, <3>1, <3>2, <3>4 DEF Edits
    <3>7. PICK lo \in 0 .. Len(b.text), hi \in 0 .. Len(b.text) :
             lo <= hi /\ RangeNow(command, b, c) = <<lo, hi>>
      BY <3>3, <3>5, RangeNowTyped
    <3>8. \A k \in 1 .. n : IF k <= i THEN ~HasSel(b.cursors[o[k]]) ELSE b.cursors[o[k]] = cs[o[k]]
      BY <1>5, <1>7, <3>1, <3>2
    <3>9. \A k \in 1 .. n : k # i + 1 => o[k] # o[i + 1]
      BY <1>1, <1>2, <3>1, FromLeftFacts
    <3>10. CASE Acts(command, c, <<lo, hi>>)
      <4>1. h[i + 1].cursors = [b.cursors EXCEPT ![o[i + 1]] = Caret(lo + Len(new[i + 1]))]
        <5>1. PICK at : at = o[i + 1]
          OBVIOUS
        <5>2. PICK x \in Text : x = new[i + 1]
          BY <3>5
        <5>3. EditAt(command, b, c, at, x) =
                [text    |-> Splice(b.text, lo, hi, x),
                 delta   |-> b.delta - (hi - lo) + Len(x),
                 cursors |-> [b.cursors EXCEPT ![at] = Caret(lo + Len(x))]]
          BY <3>3, <3>5, <3>7, <3>10, <5>2, EditAtCases
        <5>4. EditAt(command, b, c, at, x).cursors = [b.cursors EXCEPT ![at] = Caret(lo + Len(x))]
          BY <5>3
        <5> QED
          BY <3>6, <5>1, <5>2, <5>4
      <4>2. ~HasSel(Caret(lo + Len(new[i + 1])))
        BY DEF HasSel, Caret, Cursor
      <4>3. b.cursors \in Seq(CursorRecord) /\ \A k \in 1 .. n : o[k] \in DOMAIN b.cursors
        BY <1>4, <3>3 DEF Batch, Cursors
      <4>4. h[i + 1].cursors[o[i + 1]] = Caret(lo + Len(new[i + 1]))
        BY <3>1, <4>1, <4>3
      <4>5. \A k \in 1 .. n : k # i + 1 => h[i + 1].cursors[o[k]] = b.cursors[o[k]]
        BY <3>9, <4>1, <4>3
      <4>6. \A k \in 1 .. n : IF k <= i + 1 THEN ~HasSel(h[i + 1].cursors[o[k]])
                              ELSE h[i + 1].cursors[o[k]] = cs[o[k]]
        <5>1. ASSUME NEW k \in 1 .. n
              PROVE  IF k <= i + 1 THEN ~HasSel(h[i + 1].cursors[o[k]])
                     ELSE h[i + 1].cursors[o[k]] = cs[o[k]]
          <6>1. CASE k = i + 1
            BY <4>2, <4>4, <6>1
          <6>2. CASE k # i + 1
            <7>1. k <= i + 1 <=> k <= i
              BY <6>2
            <7> QED
              BY <3>8, <4>5, <6>2, <7>1
          <6> QED
            BY <6>1, <6>2
        <5> QED
          BY <5>1
      <4> QED
        BY <1>5, <4>6
    <3>11. CASE ~Acts(command, c, <<lo, hi>>)
      <4>1. h[i + 1] = b
        BY <3>3, <3>5, <3>6, <3>7, <3>11, EditAtCases
      <4>2. ~HasSel(c)
        BY <3>11 DEF Acts
      <4>3. \A k \in 1 .. n : IF k <= i + 1 THEN ~HasSel(b.cursors[o[k]])
                              ELSE b.cursors[o[k]] = cs[o[k]]
        <5>1. ASSUME NEW k \in 1 .. n
              PROVE  IF k <= i + 1 THEN ~HasSel(b.cursors[o[k]]) ELSE b.cursors[o[k]] = cs[o[k]]
          <6>1. CASE k = i + 1
            <7>1. b.cursors[o[k]] = c
              BY <3>4, <3>8, <6>1
            <7> QED
              BY <4>2, <6>1, <7>1
          <6>2. CASE k # i + 1
            <7>1. k <= i + 1 <=> k <= i
              BY <6>2
            <7> QED
              BY <3>8, <7>1
          <6> QED
            BY <6>1, <6>2
        <5> QED
          BY <5>1
      <4> QED
        BY <1>5, <4>1, <4>3
    <3> QED
      BY <3>10, <3>11
  <2>2. CASE ~(i + 1 <= n)
    BY <1>5, <2>2
  <2> QED
    BY <2>1, <2>2
<1>8. Nat \subseteq I
  BY <1>6, <1>7, Editing!SetInduction
<1>9. \A k \in 1 .. n : ~HasSel(h[n].cursors[o[k]])
  BY <1>3, <1>5, <1>8
<1> QED
  BY <1>1, <1>4, <1>9

-----------------------------------------------------------------------------
(* Cursors are where a text has places.                                    *)

\* A line up there is a place for the head.
LEMMA HeadAboveTyped ==
  ASSUME NEW t \in Text, NEW p \in 0 .. Len(t)
  PROVE  HeadAbove(t, p) \in 0 .. p
<1>1. PICK start : start = LineStart(t, p)
  OBVIOUS
<1>2. start \in 0 .. p /\ Len(t) \in Nat
  BY <1>1, PlacesOfText DEF Text
<1>3. CASE start = 0
  <2>1. HeadAbove(t, p) = 0
    BY <1>1, <1>3 DEF HeadAbove
  <2> QED
    BY <1>2, <2>1
<1>4. CASE start # 0
  <2>1. start - 1 \in 0 .. Len(t)
    BY <1>2, <1>4
  <2>2. PICK above : above = LineStart(t, start - 1)
    OBVIOUS
  <2>3. above \in 0 .. start - 1
    BY <2>1, <2>2, PlacesOfText
  <2>4. HeadAbove(t, p) = above + Lesser(p - start, start - 1 - above)
    BY <1>1, <1>4, <2>2 DEF HeadAbove
  <2> QED
    BY <1>2, <2>3, <2>4 DEF Lesser
<1> QED
  BY <1>3, <1>4

\* A line down there is a place for the head.
LEMMA HeadBelowTyped ==
  ASSUME NEW t \in Text, NEW p \in 0 .. Len(t)
  PROVE  HeadBelow(t, p) \in p .. Len(t)
<1>1. PICK end : end = LineEnd(t, p)
  OBVIOUS
<1>2. end \in p .. Len(t) /\ Len(t) \in Nat
  BY <1>1, PlacesOfText DEF Text
<1>3. CASE OnLastLine(t, p)
  BY <1>2, <1>3 DEF HeadBelow
<1>4. CASE ~OnLastLine(t, p)
  <2>1. end + 1 \in 0 .. Len(t)
    BY <1>1, <1>2, <1>4 DEF OnLastLine
  <2>2. PICK after : after = LineEnd(t, end + 1)
    OBVIOUS
  <2>3. after \in end + 1 .. Len(t)
    BY <2>1, <2>2, PlacesOfText
  <2>4. PICK start : start = LineStart(t, p)
    OBVIOUS
  <2>5. start \in 0 .. p
    BY <2>4, PlacesOfText
  <2>6. HeadBelow(t, p) = (end + 1) + Lesser(p - start, after - (end + 1))
    BY <1>1, <1>4, <2>2, <2>4 DEF HeadBelow
  <2> QED
    BY <1>2, <2>3, <2>5, <2>6 DEF Lesser
<1> QED
  BY <1>3, <1>4

\* Every way of moving the head has a place for it.
LEMMA MovedHeadTyped ==
  ASSUME NEW t \in Text, NEW head \in Nat, NEW direction \in Directions
  PROVE  MovedHead(direction, t, head) \in Nat
<1>1. PICK p : p = Lesser(head, Len(t))
  OBVIOUS
<1>2. p \in 0 .. Len(t) /\ Len(t) \in Nat
  BY <1>1 DEF Text, Lesser
<1>3. /\ HeadAbove(t, p) \in Nat /\ HeadBelow(t, p) \in Nat /\ LineStart(t, p) \in Nat
      /\ LineEnd(t, p) \in Nat /\ WordBack(t, p) \in Nat /\ WordForward(t, p) \in Nat
  <2>1. HeadAbove(t, p) \in 0 .. p /\ HeadBelow(t, p) \in p .. Len(t)
    BY <1>2, HeadAboveTyped, HeadBelowTyped
  <2>2. /\ LineStart(t, p) \in 0 .. p /\ LineEnd(t, p) \in p .. Len(t)
        /\ WordBack(t, p) \in 0 .. p /\ WordForward(t, p) \in p .. Len(t)
    BY <1>2, PlacesOfText
  <2> QED
    BY <1>2, <2>1, <2>2
<1>4. PICK left, right : /\ left = Most(head - 1, 0)
                         /\ right = IF head < Len(t) THEN head + 1 ELSE head
  OBVIOUS
<1>5. left \in Nat /\ right \in Nat
  BY <1>4 DEF Most
<1>6. MovedHead(direction, t, head) =
        CASE direction = "left"       -> left
          [] direction = "right"      -> right
          [] direction = "up"         -> HeadAbove(t, p)
          [] direction = "down"       -> HeadBelow(t, p)
          [] direction = "home"       -> LineStart(t, p)
          [] direction = "end"        -> LineEnd(t, p)
          [] direction = "word_left"  -> WordBack(t, p)
          [] direction = "word_right" -> WordForward(t, p)
          [] direction = "doc_start"  -> 0
          [] direction = "doc_end"    -> Len(t)
  BY <1>1, <1>4 DEF MovedHead
<1> QED
  BY <1>2, <1>3, <1>5, <1>6 DEF Directions

\* Moving the cursors leaves cursors.
LEMMA MovedTyped ==
  ASSUME NEW t \in Text, NEW cs \in Cursors, cs # <<>>, NEW direction \in Directions,
         NEW selecting \in BOOLEAN
  PROVE  Moved(direction, t, cs, selecting) \in Cursors
         /\ Moved(direction, t, cs, selecting) # <<>>
<1>1. PICK n \in Nat \ {0} : n = Len(cs) /\ DOMAIN cs = 1 .. n
  BY DEF Cursors
<1>2. PICK there : there = [i \in DOMAIN cs |->
                              LET head == MovedHead(direction, t, cs[i].head)
                              IN  Cursor(head, IF selecting THEN cs[i].tail ELSE head)]
  OBVIOUS
<1>3. ASSUME NEW i \in 1 .. n PROVE there[i] \in CursorRecord
  <2>1. cs[i] \in CursorRecord
    BY <1>1 DEF Cursors
  <2>2. cs[i].head \in Nat /\ cs[i].tail \in Nat
    BY <2>1, CursorFacts
  <2>3. PICK head \in Nat : head = MovedHead(direction, t, cs[i].head)
    BY <2>2, MovedHeadTyped
  <2>4. there[i] = Cursor(head, IF selecting THEN cs[i].tail ELSE head)
    BY <1>1, <1>2, <2>3
  <2> QED
    BY <2>2, <2>3, <2>4 DEF Cursor, CursorRecord
<1>4. there = [i \in 1 .. n |-> there[i]]
  BY <1>1, <1>2
<1>5. there \in Cursors /\ there # <<>>
  <2>1. there \in Seq(CursorRecord) /\ Len(there) = n
    BY <1>3, <1>4
  <2> QED
    BY <1>1, <2>1 DEF Cursors
<1>6. Moved(direction, t, cs, selecting) = DedupCursors(there)
  BY <1>2 DEF Moved
<1> QED
  BY <1>5, <1>6, DedupTyped

\* Around a word.
LEMMA WordBoundsTyped ==
  ASSUME NEW t \in Text, NEW p \in 0 .. Len(t)
  PROVE  \E a \in 0 .. p, b \in p .. Len(t) : WordBounds(t, p) = <<a, b>>
<1>1. Len(t) \in Nat /\ \A q \in 1 .. Len(t) : t[q] \in Chars
  BY DEF Text
<1>2. PICK K : K = Chars \ {"w"}
  OBVIOUS
<1>3. {q \in 1 .. p : ~IsWord(t[q])} = {q \in 1 .. p : t[q] \in K}
  BY <1>1, <1>2 DEF IsWord
<1>4. {q \in p .. Len(t) - 1 : ~IsWord(t[q + 1])} = {q \in p .. Len(t) - 1 : t[q + 1] \in K}
  <2>1. \A q \in p .. Len(t) - 1 : q + 1 \in 1 .. Len(t)
    BY <1>1
  <2> QED
    BY <1>1, <1>2, <2>1 DEF IsWord
<1>5. PICK a : a = LastIn(t, p, K)
  OBVIOUS
<1>6. PICK b : b = FirstIn(t, p, K)
  OBVIOUS
<1>7. a \in 0 .. p /\ b \in p .. Len(t)
  BY <1>1, <1>5, <1>6, LastInIs, FirstInIs DEF IsLastIn, IsFirstIn
<1>8. WordBounds(t, p) = <<a, b>> \/ WordBounds(t, p) = <<p, p>>
  BY <1>3, <1>4, <1>5, <1>6 DEF WordBounds, LastIn, FirstIn
<1> QED
  BY <1>1, <1>7, <1>8

\* Matches are places of the text.
LEMMA MatchesTyped ==
  ASSUME NEW t \in Text, NEW query \in Text, NEW wholeWord
  PROVE  /\ FindMatches(t, query, wholeWord) \subseteq 0 .. Len(t)
         /\ \A p \in FindMatches(t, query, wholeWord) : p + Len(query) <= Len(t)
<1>1. Len(t) \in Nat /\ Len(query) \in Nat
  BY DEF Text
<1> QED
  BY <1>1 DEF FindMatches

\* The next match of a query is a place of the text.
LEMMA NextMatchTyped ==
  ASSUME NEW n \in Nat, NEW matches \in SUBSET (0 .. n), matches # {}, NEW p \in Nat
  PROVE  NextMatch(matches, p) \in matches /\ PreviousMatch(matches, p) \in matches
<1>1. PICK ahead : ahead = {m \in matches : m >= p}
  OBVIOUS
<1>2. PICK behind : behind = {m \in matches : m < p}
  OBVIOUS
<1>3. ahead # {} => Min(ahead) \in ahead
  <2>1. ahead \in SUBSET Nat
    <3>1. ahead \subseteq matches /\ matches \subseteq 0 .. n
      BY <1>1
    <3>2. 0 .. n \subseteq Nat
      OBVIOUS
    <3> QED
      BY <3>1, <3>2, Zenon
  <2> QED
    BY <2>1, LeastOf
<1>4. behind # {} => Max(behind) \in behind
  <2>1. behind \in SUBSET (0 .. n)
    BY <1>2
  <2> QED
    BY <2>1, MaxOf
<1>5. Min(matches) \in matches /\ Max(matches) \in matches
  <2>1. matches \in SUBSET Nat
    <3>1. \A m \in matches : m \in 0 .. n
      OBVIOUS
    <3> QED
      BY <3>1
  <2> QED
    BY <2>1, LeastOf, MaxOf
<1>6. NextMatch(matches, p) = IF ahead # {} THEN Min(ahead) ELSE Min(matches)
  BY <1>1 DEF NextMatch
<1>7. PreviousMatch(matches, p) = IF behind # {} THEN Max(behind) ELSE Max(matches)
  BY <1>2 DEF PreviousMatch
<1> QED
  BY <1>1, <1>2, <1>3, <1>4, <1>5, <1>6, <1>7

-----------------------------------------------------------------------------
(* The types of the buffer.                                                *)

Buffers == [text : Text, cursors : Cursors \ {<<>>}]

Typed ==
    /\ text \in Text /\ cursors \in Cursors /\ cursors # <<>>
    /\ undoStack \in Seq(Buffers) /\ redoStack \in Seq(Buffers)

Ascends == INSTANCE FoldFacts WITH
    Op <- LAMBDA matches, found, i : IF i - 1 \in matches THEN Append(found, i - 1) ELSE found

\* The matches in order.
LEMMA AscendingTyped ==
  ASSUME NEW t \in Text, NEW matches
  PROVE  Ascending(t, matches) \in Seq(matches)
<1>1. PICK q : q = [i \in DOMAIN t |-> i]
  OBVIOUS
<1>2. q \in Seq(Nat)
  BY <1>1 DEF Text
<1>3. Ascending(t, matches) = Ascends!Fold(matches, <<>>, q)
  BY <1>1 DEF Ascending, FoldLeftDomain, FoldLeft, MapThenFoldSet, Max,
              Ascends!Fold, Ascends!Iterates, Ascends!Top
<1>4. PICK V : V = Seq(matches)
  OBVIOUS
<1>5. <<>> \in V
  BY <1>4
<1>6. \A a \in V, i \in Nat : (IF i - 1 \in matches THEN Append(a, i - 1) ELSE a) \in V
  BY <1>4
<1>7. Ascends!Fold(matches, <<>>, q) \in V
  BY <1>2, <1>5, <1>6, Ascends!FoldKeeps
<1> QED
  BY <1>3, <1>4, <1>7

-----------------------------------------------------------------------------
\* A click with Alt takes away the cursor it hits.
Unclicked == INSTANCE FoldFacts WITH
    Op <- LAMBDA from, others, c : IF HasSel(c) \/ c.head # from THEN Append(others, c) ELSE others
Outside == INSTANCE FoldFacts WITH
    Op <- LAMBDA word, others, c : IF Hi(c) <= word[1] \/ Lo(c) >= word[2]
                                   THEN Append(others, c) ELSE others

OthersThan(from, cs) ==
    FoldLeft(LAMBDA others, c : IF HasSel(c) \/ c.head # from THEN Append(others, c) ELSE others,
             <<>>, cs)
OutsideOf(word, cs) ==
    FoldLeft(LAMBDA others, c : IF Hi(c) <= word[1] \/ Lo(c) >= word[2]
                                THEN Append(others, c) ELSE others, <<>>, cs)

\* Removing cursors at a click, or within the word of one, leaves cursors.
LEMMA FiltersTyped ==
  ASSUME NEW cs \in Cursors, NEW from, NEW word
  PROVE  OthersThan(from, cs) \in Cursors /\ OutsideOf(word, cs) \in Cursors
<1>1. OthersThan(from, cs) = Unclicked!Fold(from, <<>>, cs)
  BY DEF OthersThan, FoldLeft, MapThenFoldSet, Max,
         Unclicked!Fold, Unclicked!Iterates, Unclicked!Top
<1>2. OutsideOf(word, cs) = Outside!Fold(word, <<>>, cs)
  BY DEF OutsideOf, FoldLeft, MapThenFoldSet, Max,
         Outside!Fold, Outside!Iterates, Outside!Top
<1>3. <<>> \in Cursors /\ \A a \in Cursors, c \in CursorRecord : Append(a, c) \in Cursors
  BY DEF Cursors
<1>4. cs \in Seq(CursorRecord)
  BY DEF Cursors
<1>5. \A a \in Cursors, c \in CursorRecord :
         (IF HasSel(c) \/ c.head # from THEN Append(a, c) ELSE a) \in Cursors
  BY <1>3
<1>6. \A a \in Cursors, c \in CursorRecord :
         (IF Hi(c) <= word[1] \/ Lo(c) >= word[2] THEN Append(a, c) ELSE a) \in Cursors
  BY <1>3
<1>7. Unclicked!Fold(from, <<>>, cs) \in Cursors
  BY <1>3, <1>4, <1>5, Unclicked!FoldKeeps
<1>8. Outside!Fold(word, <<>>, cs) \in Cursors
  BY <1>3, <1>4, <1>6, Outside!FoldKeeps
<1> QED
  BY <1>1, <1>2, <1>7, <1>8

-----------------------------------------------------------------------------
(* Replace All: while every match fits, the text stays a text.             *)

Replacing == INSTANCE FoldFacts WITH
    Op <- LAMBDA k, done, p :
             [text |-> Splice(done.text, p, p + Len(k.query), k.new),
              fits |-> done.fits /\ p + Len(k.query) <= Len(done.text)]

AllReplaced(query, new, base, order) ==
    FoldLeft(LAMBDA done, p :
                [text |-> Splice(done.text, p, p + Len(query), new),
                 fits |-> done.fits /\ p + Len(query) <= Len(done.text)], base, order)

\* Replace-all is what its fold leaves after the last match.
LEMMA ReplacedFold ==
  ASSUME NEW k, NEW base, NEW order
  PROVE  AllReplaced(k.query, k.new, base, order) = Replacing!Fold(k, base, order)
BY DEF AllReplaced, FoldLeft, MapThenFoldSet, Max,
       Replacing!Fold, Replacing!Iterates, Replacing!Top

FitsTyped(done) == done.fits \in BOOLEAN /\ (done.fits => done.text \in Text)

\* Replace-all leaves a text.
LEMMA AllReplacedTyped ==
  ASSUME NEW t \in Text, NEW query \in Text, NEW new \in Text, NEW order \in Seq(Nat)
  PROVE  FitsTyped(AllReplaced(query, new, [text |-> t, fits |-> TRUE], order))
<1>1. PICK k : k = [query |-> query, new |-> new]
  OBVIOUS
<1>2. k.query = query /\ k.new = new
  BY <1>1
<1>3. PICK base : base = [text |-> t, fits |-> TRUE]
  OBVIOUS
<1>4. PICK done : done = AllReplaced(query, new, base, order)
  OBVIOUS
<1>5. done = Replacing!Fold(k, base, order)
  <2>1. AllReplaced(k.query, k.new, base, order) = Replacing!Fold(k, base, order)
    BY ReplacedFold
  <2> QED
    BY <1>2, <1>4, <2>1
<1>6. PICK h : Replacing!Trace(h, k, base, order)
  BY Replacing!FoldTrace
<1>7. PICK I : I = {i \in Nat : i <= Len(order) => FitsTyped(h[i])}
  OBVIOUS
<1>8. 0 \in I
  <2>1. FitsTyped(base)
    BY <1>3 DEF FitsTyped
  <2> QED
    BY <1>6, <1>7, <2>1 DEF Replacing!Trace
<1>9. ASSUME NEW i \in Nat, i \in I PROVE i + 1 \in I
  <2>1. CASE i + 1 <= Len(order)
    <3>1. i + 1 \in 1 .. Len(order) /\ (i + 1) - 1 = i /\ i <= Len(order)
      BY <2>1
    <3>2. PICK p \in Nat : p = order[i + 1]
      BY <3>1
    <3>3. PICK d : d = h[i]
      OBVIOUS
    <3>4. FitsTyped(d)
      BY <1>7, <1>9, <3>1, <3>3
    <3>5. h[i + 1] = [text |-> Splice(d.text, p, p + Len(query), new),
                      fits |-> d.fits /\ p + Len(query) <= Len(d.text)]
      <4>1. h[i + 1] = [text |-> Splice(d.text, p, p + Len(k.query), k.new),
                        fits |-> d.fits /\ p + Len(k.query) <= Len(d.text)]
        BY <1>6, <3>1, <3>2, <3>3 DEF Replacing!Trace
      <4> QED
        BY <1>2, <4>1
    <3>6. FitsTyped(h[i + 1])
      <4>1. PICK u : u = Splice(d.text, p, p + Len(query), new)
        OBVIOUS
      <4>2. PICK f : f = (d.fits /\ p + Len(query) <= Len(d.text))
        OBVIOUS
      <4>3. f \in BOOLEAN
        BY <3>4, <4>2 DEF FitsTyped
      <4>4. ASSUME f PROVE u \in Text
        <5>1. d.text \in Text /\ p + Len(query) <= Len(d.text)
          BY <3>4, <4>2, <4>4 DEF FitsTyped
        <5>2. Len(query) \in Nat /\ Len(d.text) \in Nat
          BY <5>1 DEF Text
        <5>3. p \in 0 .. Len(d.text) /\ p + Len(query) \in 0 .. Len(d.text)
          BY <5>1, <5>2
        <5> QED
          BY <4>1, <5>1, <5>3, SpliceTyped
      <4>5. h[i + 1] = [text |-> u, fits |-> f]
        BY <3>5, <4>1, <4>2
      <4> QED
        BY <4>3, <4>4, <4>5 DEF FitsTyped
    <3> QED
      BY <1>7, <3>6
  <2>2. CASE ~(i + 1 <= Len(order))
    BY <1>7, <2>2
  <2> QED
    BY <2>1, <2>2
<1>10. Nat \subseteq I
  BY <1>8, <1>9, Replacing!SetInduction
<1>11. FitsTyped(done)
  <2>1. Len(order) \in Nat
    OBVIOUS
  <2> QED
    BY <1>5, <1>6, <1>7, <1>10, <2>1 DEF Replacing!Trace
<1> QED
  BY <1>3, <1>4, <1>11

-----------------------------------------------------------------------------
(* Every step keeps the types.                                             *)

\* Some cursors, at least one.
SomeCursors(cs) == cs \in Cursors /\ cs # <<>>

\* One cursor is a sequence of cursors.
LEMMA OneCursor ==
  ASSUME NEW head \in Nat, NEW tail \in Nat
  PROVE  /\ Cursor(head, tail) \in CursorRecord /\ Caret(head) \in CursorRecord
         /\ SomeCursors(<<Cursor(head, tail)>>) /\ SomeCursors(<<Caret(head)>>)
<1>1. Cursor(head, tail) \in CursorRecord /\ Caret(head) \in CursorRecord
  BY DEF Cursor, Caret, CursorRecord
<1> QED
  BY <1>1 DEF SomeCursors, Cursors

\* One cursor more is a sequence of cursors.
LEMMA OneMoreCursor ==
  ASSUME NEW cs \in Cursors, NEW c \in CursorRecord
  PROVE  SomeCursors(Append(cs, c))
<1>1. cs \in Seq(CursorRecord) /\ Len(cs) \in Nat
  BY DEF Cursors
<1>2. Append(cs, c) \in Seq(CursorRecord) /\ Len(Append(cs, c)) = Len(cs) + 1
  BY <1>1
<1> QED
  BY <1>1, <1>2 DEF SomeCursors, Cursors

\* The primary cursor is one of them.
LEMMA PrimaryTyped ==
  ASSUME NEW cs, SomeCursors(cs)
  PROVE  /\ Last(cs) \in CursorRecord /\ Front(cs) \in Cursors
         /\ Len(Front(cs)) = Len(cs) - 1 /\ \A i \in 1 .. Len(cs) - 1 : Front(cs)[i] = cs[i]
<1>1. cs \in Seq(CursorRecord) /\ Len(cs) \in Nat \ {0}
  BY DEF SomeCursors, Cursors
<1>2. Last(cs) \in CursorRecord
  BY <1>1 DEF Last
<1>3. PICK k : k = Len(cs) - 1
  OBVIOUS
<1>4. /\ SubSeq(cs, 1, k) \in Seq(CursorRecord) /\ Len(SubSeq(cs, 1, k)) = k
      /\ \A i \in 1 .. k : SubSeq(cs, 1, k)[i] = cs[i]
  <2>1. k \in Int /\ \A i \in 1 .. k : cs[i] \in CursorRecord
    BY <1>1, <1>3
  <2> QED
    BY <1>1, <1>3, <2>1, SubSeqProperties
<1> QED
  BY <1>2, <1>3, <1>4 DEF Front, Cursors

\* Placing cursors keeps the types.
LEMMA PlacedTyped ==
  ASSUME Typed, NEW new, SomeCursors(new), Place(new)
  PROVE  Typed'
BY DEF Typed, Place, SomeCursors

\* The stacks.
LEMMA PushedTyped ==
  ASSUME Stacks, NEW stack \in Seq(Buffers), NEW entry \in Buffers
  PROVE  Pushed(stack, entry) \in Seq(Buffers)
<1>1. IsSequence(stack)
  BY SeqIsSequence
<1>2. \/ Pushed(stack, entry) = Append(stack, entry)
      \/ stack # <<>> /\ Pushed(stack, entry) = Append(Tail(stack), entry)
  BY <1>1, PushedStack DEF Stacks
<1>3. Append(stack, entry) \in Seq(Buffers)
  OBVIOUS
<1>4. stack # <<>> => Append(Tail(stack), entry) \in Seq(Buffers)
  OBVIOUS
<1> QED
  BY <1>2, <1>3, <1>4

\* What push_undo saves is a buffer.
LEMMA PresentTyped == Typed => Present \in Buffers
  BY DEF Typed, Present, Buffers

\* A push keeps the types of the stacks.
LEMMA PushUndoTyped ==
  ASSUME Typed, Stacks, NEW coalesce, PushUndo(coalesce)
  PROVE  undoStack' \in Seq(Buffers) /\ redoStack' \in Seq(Buffers)
<1>1. Pushed(undoStack, Present) \in Seq(Buffers)
  BY PresentTyped, PushedTyped DEF Typed
<1>2. undoStack \in Seq(Buffers) /\ redoStack \in Seq(Buffers) /\ <<>> \in Seq(Buffers)
  BY DEF Typed
<1>3. \/ undoStack' = undoStack /\ redoStack' = redoStack
      \/ undoStack' = Pushed(undoStack, Present) /\ redoStack' = <<>>
  BY DEF PushUndo
<1> QED
  BY <1>1, <1>2, <1>3

\* What is popped is a buffer, and what stays is a stack.
LEMMA PoppedTyped ==
  ASSUME NEW stack \in Seq(Buffers), stack # <<>>
  PROVE  /\ Front(stack) \in Seq(Buffers)
         /\ Last(stack).text \in Text /\ SomeCursors(Last(stack).cursors)
<1>1. Len(stack) \in Nat \ {0} /\ stack[Len(stack)] \in Buffers
  OBVIOUS
<1>2. PICK k : k = Len(stack) - 1
  OBVIOUS
<1>3. SubSeq(stack, 1, k) \in Seq(Buffers)
  <2>1. k \in Int /\ \A i \in 1 .. k : stack[i] \in Buffers
    BY <1>1, <1>2
  <2> QED
    BY <2>1, SubSeqProperties
<1>4. PICK e : e = stack[Len(stack)]
  OBVIOUS
<1>5. e.text \in Text /\ e.cursors \in Cursors \ {<<>>}
  BY <1>1, <1>4 DEF Buffers
<1> QED
  BY <1>2, <1>3, <1>4, <1>5 DEF Front, Last, SomeCursors

\* Undo keeps the types.
LEMMA UndoTyped == ASSUME Typed, Stacks, Undo PROVE Typed'
<1>1. Pushed(redoStack, Present) \in Seq(Buffers)
  BY PresentTyped, PushedTyped DEF Typed
<1>2. /\ Front(undoStack) \in Seq(Buffers)
      /\ Last(undoStack).text \in Text /\ SomeCursors(Last(undoStack).cursors)
  BY PoppedTyped DEF Typed, Undo
<1> QED
  BY <1>1, <1>2 DEF Undo, Typed, SomeCursors

\* Redo keeps the types.
LEMMA RedoTyped == ASSUME Typed, Stacks, Redo PROVE Typed'
<1>1. Pushed(undoStack, Present) \in Seq(Buffers)
  BY PresentTyped, PushedTyped DEF Typed
<1>2. /\ Front(redoStack) \in Seq(Buffers)
      /\ Last(redoStack).text \in Text /\ SomeCursors(Last(redoStack).cursors)
  BY PoppedTyped DEF Typed, Redo
<1> QED
  BY <1>1, <1>2 DEF Redo, Typed, SomeCursors

\* Edits.
LEMMA EverywhereTyped ==
  ASSUME Typed, NEW new \in Text
  PROVE  \A i \in 1 .. Len(cursors) : Everywhere(new)[i] \in Text
<1>1. DOMAIN cursors = 1 .. Len(cursors)
  BY DEF Typed, Cursors
<1> QED
  BY <1>1 DEF Everywhere

\* An edit that is recorded keeps the types.
LEMMA BecomeTyped ==
  ASSUME Typed, NEW command \in Commands, NEW new,
         \A i \in 1 .. Len(cursors) : new[i] \in Text
  PROVE  /\ Edited(command, text, cursors, new).text \in Text
         /\ SomeCursors(Edited(command, text, cursors, new).cursors)
<1>1. text \in Text /\ cursors \in Cursors /\ cursors # <<>>
  BY DEF Typed
<1>2. PICK t \in Text, cs \in Cursors : t = text /\ cs = cursors
  BY <1>1
<1>3. /\ Edited(command, t, cs, new).text \in Text
      /\ Edited(command, t, cs, new).cursors \in Cursors
      /\ Edited(command, t, cs, new).cursors # <<>>
  <2>1. \A i \in 1 .. Len(cs) : new[i] \in Text
    BY <1>2
  <2> QED
    BY <1>1, <1>2, <2>1, EditedTyped
<1> QED
  BY <1>2, <1>3 DEF SomeCursors

\* What is inserted is a text.
LEMMA InsertsTyped == <<>> \in Text /\ \A new \in Inserts : new \in Text
  BY TextsAssumption DEF Text

\* Typing keeps the types.
LEMMA InsertTyped ==
  ASSUME Typed, Stacks, NEW new \in Inserts, Insert(new) PROVE Typed'
<1>1. \A i \in 1 .. Len(cursors) : Everywhere(new)[i] \in Text
  BY InsertsTyped, EverywhereTyped
<1>2. text' \in Text /\ SomeCursors(cursors')
  BY <1>1, BecomeTyped DEF Insert, Become, Commands
<1>3. undoStack' \in Seq(Buffers) /\ redoStack' \in Seq(Buffers)
  BY PushUndoTyped DEF Insert
<1> QED
  BY <1>2, <1>3 DEF Typed, SomeCursors

\* Pasting keeps the types.
LEMMA PasteTyped ==
  ASSUME Typed, Stacks, NEW lines \in Pastes, PastePerCursor(lines) PROVE Typed'
<1>1. \A i \in 1 .. Len(cursors) : lines[i] \in Text
  <2>1. lines \in Seq(Text)
    BY TextsAssumption
  <2> QED
    BY <2>1 DEF PastePerCursor
<1>2. text' \in Text /\ SomeCursors(cursors')
  BY <1>1, BecomeTyped DEF PastePerCursor, Become, Commands
<1>3. undoStack' \in Seq(Buffers) /\ redoStack' \in Seq(Buffers)
  BY PushUndoTyped DEF PastePerCursor
<1> QED
  BY <1>2, <1>3 DEF Typed, SomeCursors

\* Deleting keeps the types.
LEMMA DeleteTyped ==
  ASSUME Typed, Stacks, NEW command \in Deletions, Delete(command) PROVE Typed'
<1>1. \A i \in 1 .. Len(cursors) : Everywhere(<<>>)[i] \in Text
  BY InsertsTyped, EverywhereTyped
<1>2. text' \in Text /\ SomeCursors(cursors')
  BY <1>1, BecomeTyped DEF Delete, Become, Commands
<1>3. undoStack' \in Seq(Buffers) /\ redoStack' \in Seq(Buffers)
  BY PushUndoTyped DEF Delete
<1> QED
  BY <1>2, <1>3 DEF Typed, SomeCursors

\* A cut keeps the types.
LEMMA CutTyped == ASSUME Typed, Stacks, Cut PROVE Typed'
<1>1. \A i \in 1 .. Len(cursors) : Everywhere(<<>>)[i] \in Text
  BY InsertsTyped, EverywhereTyped
<1>2. text' \in Text /\ SomeCursors(cursors')
  BY <1>1, BecomeTyped DEF Cut, Become, Commands
<1>3. undoStack' \in Seq(Buffers) /\ redoStack' \in Seq(Buffers)
  BY PushUndoTyped DEF Cut
<1> QED
  BY <1>2, <1>3 DEF Typed, SomeCursors

\* A search ends at a match, or where it was.
LEMMA SteppedTyped ==
  ASSUME NEW t \in Text, NEW from, SomeCursors(from), NEW query \in Text,
         NEW wholeWord, NEW backwards
  PROVE  SomeCursors(Stepped(t, from, query, wholeWord, backwards))
<1>1. PICK matches : matches = FindMatches(t, query, wholeWord)
  OBVIOUS
<1>2. matches \in SUBSET (0 .. Len(t)) /\ Len(t) \in Nat /\ Len(query) \in Nat
  BY <1>1, MatchesTyped DEF Text
<1>3. Lo(Last(from)) \in Nat /\ Hi(Last(from)) \in Nat
  BY PrimaryTyped, CursorFacts
<1>4. CASE matches = {}
  BY <1>1, <1>4 DEF Stepped
<1>5. CASE matches # {}
  <2>1. PICK m : m = IF backwards THEN PreviousMatch(matches, Lo(Last(from)))
                     ELSE NextMatch(matches, Hi(Last(from)))
    OBVIOUS
  <2>2. m \in matches
    <3>1. /\ PreviousMatch(matches, Lo(Last(from))) \in matches
          /\ NextMatch(matches, Hi(Last(from))) \in matches
      BY <1>2, <1>3, <1>5, NextMatchTyped
    <3> QED
      BY <2>1, <3>1
  <2>3. m \in Nat /\ m + Len(query) \in Nat
    <3>1. m \in 0 .. Len(t)
      BY <1>2, <2>2
    <3> QED
      BY <1>2, <3>1
  <2>4. Stepped(t, from, query, wholeWord, backwards) = <<Cursor(m + Len(query), m)>>
    BY <1>1, <1>5, <2>1 DEF Stepped, Select
  <2> QED
    BY <2>3, <2>4, OneCursor
<1> QED
  BY <1>4, <1>5

\* Replacing the current match keeps the types.
LEMMA ReplaceCurrentTyped ==
  ASSUME Typed, Stacks, NEW query \in Queries, NEW new \in Inserts \cup {<<>>},
         NEW wholeWord \in BOOLEAN, ReplaceCurrent(query, new, wholeWord)
  PROVE  Typed'
<1>1. \A i \in 1 .. Len(cursors) : Everywhere(new)[i] \in Text
  BY InsertsTyped, EverywhereTyped
<1>2. PICK done : done = Edited("insert", text, cursors, Everywhere(new))
  OBVIOUS
<1>3. done.text \in Text /\ SomeCursors(done.cursors)
  BY <1>1, <1>2, BecomeTyped DEF Commands
<1>4. text' = done.text /\ cursors' = Stepped(done.text, done.cursors, query, wholeWord, FALSE)
  BY <1>2 DEF ReplaceCurrent
<1>5. query \in Text
  BY TextsAssumption
<1>6. SomeCursors(cursors')
  BY <1>3, <1>4, <1>5, SteppedTyped
<1>7. undoStack' \in Seq(Buffers) /\ redoStack' \in Seq(Buffers)
  BY PushUndoTyped DEF ReplaceCurrent
<1> QED
  BY <1>3, <1>4, <1>6, <1>7 DEF Typed, SomeCursors

\* Replacing every match keeps the types.
LEMMA ReplaceEveryTyped ==
  ASSUME Typed, NEW query \in Queries, NEW new \in Inserts \cup {<<>>},
         NEW wholeWord \in BOOLEAN, ReplaceEvery(query, new, wholeWord)
  PROVE  Typed'
<1>1. query \in Text /\ new \in Text /\ text \in Text
  BY TextsAssumption, InsertsTyped DEF Typed
<1>2. PICK matches : matches = FindMatches(text, query, wholeWord)
  OBVIOUS
<1>3. PICK found : found = Ascending(text, matches)
  OBVIOUS
<1>4. found \in Seq(Nat)
  <2>1. matches \subseteq 0 .. Len(text) /\ Len(text) \in Nat
    BY <1>1, <1>2, MatchesTyped DEF Text
  <2>2. found \in Seq(matches)
    BY <1>1, <1>3, AscendingTyped
  <2>3. matches \subseteq Nat
    BY <2>1
  <2>4. Len(found) \in Nat /\ found = [i \in 1 .. Len(found) |-> found[i]]
        /\ \A i \in 1 .. Len(found) : found[i] \in matches
    BY <2>2
  <2>5. \A i \in 1 .. Len(found) : found[i] \in Nat
    BY <2>3, <2>4
  <2> QED
    BY <2>4, <2>5
<1>5. Reverse(found) \in Seq(Nat)
  BY <1>4 DEF Reverse
<1>6. PICK done : done = AllReplaced(query, new, [text |-> text, fits |-> TRUE], Reverse(found))
  OBVIOUS
<1>7. FitsTyped(done)
  BY <1>1, <1>5, <1>6, AllReplacedTyped
<1>8. done.fits /\ text' = done.text /\ cursors' = <<Caret(0)>>
      /\ UNCHANGED <<undoStack, redoStack>>
  BY <1>2, <1>3, <1>6 DEF ReplaceEvery, AllReplaced
<1>9. SomeCursors(cursors')
  BY <1>8, OneCursor
<1> QED
  BY <1>7, <1>8, <1>9 DEF Typed, SomeCursors, FitsTyped

-----------------------------------------------------------------------------
\* Cursors.
LEMMA CursorAboveTyped ==
  ASSUME Typed, AddCursorAbove \/ AddCursorBelow
  PROVE  Typed'
<1>1. text \in Text /\ SomeCursors(cursors) /\ Len(text) \in Nat
  BY DEF Typed, SomeCursors, Text
<1>2. PICK p : p = Lesser(Primary.head, Len(text))
  OBVIOUS
<1>3. p \in 0 .. Len(text)
  <2>1. Primary.head \in Nat
    BY <1>1, PrimaryTyped, CursorFacts DEF Primary
  <2> QED
    BY <1>1, <1>2, <2>1 DEF Lesser
<1>4. HeadAbove(text, p) \in Nat /\ HeadBelow(text, p) \in Nat
  <2>1. HeadAbove(text, p) \in 0 .. p /\ HeadBelow(text, p) \in p .. Len(text)
    BY <1>1, <1>3, HeadAboveTyped, HeadBelowTyped
  <2> QED
    BY <1>3, <2>1
<1>5. \A head \in Nat : SomeCursors(DedupCursors(Append(cursors, Caret(head))))
  <2>1. ASSUME NEW head \in Nat PROVE SomeCursors(DedupCursors(Append(cursors, Caret(head))))
    <3>1. SomeCursors(Append(cursors, Caret(head)))
      BY <1>1, OneCursor, OneMoreCursor DEF SomeCursors
    <3> QED
      BY <3>1, DedupTyped DEF SomeCursors
  <2> QED
    BY <2>1
<1>6. \/ Place(DedupCursors(Append(cursors, Caret(HeadAbove(text, p)))))
      \/ Place(DedupCursors(Append(cursors, Caret(HeadBelow(text, p)))))
  BY <1>2 DEF AddCursorAbove, AddCursorBelow
<1> QED
  BY <1>4, <1>5, <1>6, PlacedTyped

\* What Cmd+D works with.
LEMMA WordSelectedTyped ==
  ASSUME Typed
  PROVE  /\ WordSelected \in CursorRecord
         /\ WordSelected = Primary
            \/ (~HasSel(Primary) /\ WordSelected.tail < WordSelected.head
                /\ WordSelected.tail <= Primary.head
                /\ (Primary.head <= WordSelected.head \/ Primary.head > Len(text)))
<1>1. text \in Text /\ SomeCursors(cursors) /\ Len(text) \in Nat
  BY DEF Typed, SomeCursors, Text
<1>2. PICK p : p = Lesser(Primary.head, Len(text))
  OBVIOUS
<1>3. Primary \in CursorRecord /\ Primary.head \in Nat
  BY <1>1, PrimaryTyped, CursorFacts DEF Primary
<1>4. p \in 0 .. Len(text)
  BY <1>1, <1>2, <1>3 DEF Lesser
<1>5. PICK a \in 0 .. p, b \in p .. Len(text) : WordBounds(text, p) = <<a, b>>
  BY <1>1, <1>4, WordBoundsTyped
<1>6. WordSelected = IF HasSel(Primary) \/ a = b THEN Primary ELSE Cursor(b, a)
  BY <1>2, <1>5 DEF WordSelected
<1>7. Cursor(b, a) \in CursorRecord /\ Cursor(b, a).head = b /\ Cursor(b, a).tail = a
  BY <1>4, <1>5 DEF Cursor, CursorRecord
<1> QED
  BY <1>1, <1>2, <1>3, <1>4, <1>5, <1>6, <1>7 DEF Lesser

\* What is selected is a text.
LEMMA SelectedTyped ==
  ASSUME Typed, NEW c \in CursorRecord, Hi(c) <= Len(text)
  PROVE  Selected(c) \in Text /\ Len(Selected(c)) = Hi(c) - Lo(c)
<1>1. text \in Seq(Chars) /\ Len(text) \in Nat
  BY DEF Typed, Text
<1>2. Lo(c) \in Nat /\ Hi(c) \in Nat /\ Lo(c) <= Hi(c)
  BY CursorFacts
<1>3. PICK a : a = Lo(c) + 1
  OBVIOUS
<1>4. PICK b : b = Hi(c)
  OBVIOUS
<1>5. a \in Int /\ b \in Int /\ \A i \in a .. b : text[i] \in Chars
  BY <1>1, <1>2, <1>3, <1>4
<1>6. SubSeq(text, a, b) \in Seq(Chars) /\ Len(SubSeq(text, a, b)) = IF a <= b THEN b - a + 1 ELSE 0
  BY <1>5, SubSeqProperties
<1> QED
  BY <1>2, <1>3, <1>4, <1>6 DEF Selected, Text

\* Selecting the next match as well keeps the types.
LEMMA AddNextMatchTyped ==
  ASSUME Typed, NEW wholeWord \in BOOLEAN, AddNextMatch(wholeWord)
  PROVE  Typed'
<1>1. text \in Text /\ SomeCursors(cursors) /\ Len(text) \in Nat
  BY DEF Typed, SomeCursors, Text
<1>2. PICK primary : primary = WordSelected
  OBVIOUS
<1>3. primary \in CursorRecord
  BY <1>2, WordSelectedTyped
<1>4. PICK kept : kept = Append(Front(cursors), primary)
  OBVIOUS
<1>5. SomeCursors(kept)
  BY <1>1, <1>3, <1>4, PrimaryTyped, OneMoreCursor
<1>6. PICK query : query = Selected(primary)
  OBVIOUS
<1>7. Hi(primary) <= Len(text)
  BY <1>2 DEF AddNextMatch
<1>8. query \in Text
  BY <1>3, <1>6, <1>7, SelectedTyped
<1>9. PICK matches : matches = FindMatches(text, query, wholeWord)
  OBVIOUS
<1>10. PICK next : next = NextMatch(matches, Hi(primary))
  OBVIOUS
<1>11. Place(IF matches = {} \/ next = Lo(primary) THEN kept
             ELSE DedupCursors(Append(kept, Cursor(next + Len(query), next))))
  BY <1>2, <1>4, <1>6, <1>9, <1>10 DEF AddNextMatch
<1>12. CASE matches = {} \/ next = Lo(primary)
  BY <1>5, <1>11, <1>12, PlacedTyped
<1>13. CASE ~(matches = {} \/ next = Lo(primary))
  <2>1. matches \in SUBSET (0 .. Len(text)) /\ Hi(primary) \in Nat /\ Len(query) \in Nat
    BY <1>1, <1>3, <1>8, <1>9, MatchesTyped, CursorFacts DEF Text
  <2>2. next \in matches
    BY <1>1, <1>10, <1>13, <2>1, NextMatchTyped
  <2>3. next \in 0 .. Len(text)
    BY <2>1, <2>2
  <2>7. next \in Nat /\ next + Len(query) \in Nat
    BY <1>1, <2>1, <2>3
  <2>4. Cursor(next + Len(query), next) \in CursorRecord
    BY <2>7, OneCursor
  <2>5. SomeCursors(Append(kept, Cursor(next + Len(query), next)))
    BY <1>5, <2>4, OneMoreCursor DEF SomeCursors
  <2>6. SomeCursors(DedupCursors(Append(kept, Cursor(next + Len(query), next))))
    BY <2>5, DedupTyped DEF SomeCursors
  <2> QED
    BY <1>11, <1>13, <2>6, PlacedTyped
<1> QED
  BY <1>12, <1>13

\* Selecting all matches keeps the types.
LEMMA SelectMatchesTyped ==
  ASSUME Typed, NEW wholeWord \in BOOLEAN, SelectMatches(wholeWord)
  PROVE  Typed'
<1>1. text \in Text /\ SomeCursors(cursors) /\ Len(text) \in Nat
  BY DEF Typed, SomeCursors, Text
<1>2. PICK primary : primary = WordSelected
  OBVIOUS
<1>3. primary \in CursorRecord
  BY <1>2, WordSelectedTyped
<1>4. PICK query : query = Selected(primary)
  OBVIOUS
<1>5. Hi(primary) <= Len(text)
  BY <1>2 DEF SelectMatches
<1>6. query \in Text /\ Len(query) \in Nat
  BY <1>3, <1>4, <1>5, SelectedTyped DEF Text
<1>7. PICK matches : matches = FindMatches(text, query, wholeWord)
  OBVIOUS
<1>8. PICK order : order = Ascending(text, matches)
  OBVIOUS
<1>9. order \in Seq(matches) /\ matches \subseteq 0 .. Len(text)
  BY <1>1, <1>6, <1>7, <1>8, AscendingTyped, MatchesTyped
<1>10. PICK all : all = [k \in DOMAIN order |-> Cursor(order[k] + Len(query), order[k])]
  OBVIOUS
<1>11. Place(IF order = <<>> THEN Append(Front(cursors), primary) ELSE DedupCursors(all))
  BY <1>2, <1>4, <1>7, <1>8, <1>10 DEF SelectMatches
<1>12. CASE order = <<>>
  <2>1. SomeCursors(Append(Front(cursors), primary))
    BY <1>1, <1>3, PrimaryTyped, OneMoreCursor
  <2> QED
    BY <1>11, <1>12, <2>1, PlacedTyped
<1>13. CASE order # <<>>
  <2>1. PICK n \in Nat \ {0} : n = Len(order) /\ DOMAIN order = 1 .. n
    BY <1>9, <1>13
  <2>2. ASSUME NEW k \in 1 .. n PROVE all[k] \in CursorRecord
    <3>4. order[k] \in matches
      BY <1>9, <2>1
    <3>1. order[k] \in 0 .. Len(text)
      BY <1>9, <3>4
    <3>2. order[k] \in Nat /\ order[k] + Len(query) \in Nat
      BY <1>1, <1>6, <3>1
    <3>3. Cursor(order[k] + Len(query), order[k]) \in CursorRecord
      BY <3>2, OneCursor
    <3> QED
      BY <1>10, <2>1, <3>3
  <2>3. all = [k \in 1 .. n |-> all[k]]
    BY <1>10, <2>1
  <2>4. SomeCursors(all)
    <3>1. all \in Seq(CursorRecord) /\ Len(all) = n
      BY <2>2, <2>3
    <3> QED
      BY <2>1, <3>1 DEF SomeCursors, Cursors
  <2>5. SomeCursors(DedupCursors(all))
    BY <2>4, DedupTyped DEF SomeCursors
  <2> QED
    BY <1>11, <1>13, <2>5, PlacedTyped
<1> QED
  BY <1>12, <1>13

\* The mouse keeps the types.
LEMMA MouseTyped == ASSUME Typed, Mouse PROVE Typed'
<1>1. text \in Text /\ cursors \in Cursors /\ SomeCursors(cursors) /\ Len(text) \in Nat
  BY DEF Typed, SomeCursors, Text
<1>2. Primary.head \in Nat /\ Primary.tail \in Nat
  BY <1>1, PrimaryTyped, CursorFacts DEF Primary
<1>3. PICK pos \in 0 .. Len(text) :
        \/ ShiftDrag(pos) \/ DoubleClick(pos) \/ TripleClick(pos) \/ AltDoubleClick(pos)
        \/ \E to \in 0 .. Len(text) : Drag(pos, to) \/ AltDrag(pos, to)
  BY DEF Mouse
<1>4. PICK a \in 0 .. pos, b \in pos .. Len(text) : WordBounds(text, pos) = <<a, b>>
  BY <1>1, WordBoundsTyped
<1>5. a \in Nat /\ b \in Nat /\ pos \in Nat /\ \A to \in 0 .. Len(text) : to \in Nat
  BY <1>1, <1>4
<1>6. CASE ShiftDrag(pos)
  BY <1>2, <1>5, <1>6, OneCursor, PlacedTyped DEF ShiftDrag
<1>7. CASE DoubleClick(pos)
  <2>1. Place(<<Cursor(b, a)>>)
    BY <1>4, <1>7 DEF DoubleClick
  <2> QED
    BY <1>5, <2>1, OneCursor, PlacedTyped
<1>8. CASE TripleClick(pos)
  <2>1. LineStart(text, pos) \in 0 .. pos /\ LineEnd(text, pos) \in pos .. Len(text)
    BY <1>1, PlacesOfText
  <2>2. PICK s : s = LineStart(text, pos)
    OBVIOUS
  <2>3. PICK e : e = Lesser(LineEnd(text, pos) + 1, Len(text))
    OBVIOUS
  <2>4. s \in Nat /\ e \in Nat
    BY <1>1, <1>5, <2>1, <2>2, <2>3 DEF Lesser
  <2>5. Place(<<Cursor(e, s)>>)
    BY <1>8, <2>2, <2>3 DEF TripleClick
  <2> QED
    BY <2>4, <2>5, OneCursor, PlacedTyped
<1>9. CASE AltDoubleClick(pos)
  <2>1. Place(Append(OutsideOf(WordBounds(text, pos), cursors),
                     Cursor(WordBounds(text, pos)[2], WordBounds(text, pos)[1])))
    BY <1>9 DEF AltDoubleClick, OutsideOf
  <2>2. PICK others : others = OutsideOf(WordBounds(text, pos), cursors)
    OBVIOUS
  <2>3. others \in Cursors
    BY <1>1, <2>2, FiltersTyped
  <2>4. Place(Append(others, Cursor(b, a)))
    BY <1>4, <2>1, <2>2
  <2>5. SomeCursors(Append(others, Cursor(b, a)))
    BY <1>5, <2>3, OneCursor, OneMoreCursor
  <2> QED
    BY <2>4, <2>5, PlacedTyped
<1>10. ASSUME NEW to \in 0 .. Len(text), Drag(pos, to) \/ AltDrag(pos, to) PROVE Typed'
  <2>1. CASE Drag(pos, to)
    BY <1>5, <2>1, OneCursor, PlacedTyped DEF Drag
  <2>2. CASE AltDrag(pos, to)
    <3>1. Place(Append(OthersThan(pos, cursors), Cursor(to, pos)))
      BY <2>2 DEF AltDrag, OthersThan
    <3>2. SomeCursors(Append(OthersThan(pos, cursors), Cursor(to, pos)))
      BY <1>1, <1>5, FiltersTyped, OneCursor, OneMoreCursor
    <3> QED
      BY <3>1, <3>2, PlacedTyped
  <2> QED
    BY <1>10, <2>1, <2>2
<1> QED
  BY <1>3, <1>6, <1>7, <1>8, <1>9, <1>10

\* The buffer opens with a text and one cursor.
LEMMA TypedInit == Init => Typed
<1> SUFFICES ASSUME Init PROVE Typed
  OBVIOUS
<1>1. PICK start \in Starts : text = start.text /\ cursors = start.cursors
  BY DEF Init
<1> QED
  BY <1>1, TextsAssumption DEF Init, Typed, Cursors

\* Every step keeps the types.
LEMMA TypedStep == Stacks /\ Typed /\ [Next]_vars => Typed'
<1> SUFFICES ASSUME Stacks, Typed, [Next]_vars PROVE Typed'
  OBVIOUS
<1>1. CASE UNCHANGED vars
  BY <1>1 DEF vars, Typed
<1>2. CASE Undo \/ Redo
  BY <1>2, UndoTyped, RedoTyped
<1>3. CASE \/ \E new \in Inserts : Insert(new)
           \/ \E lines \in Pastes : PastePerCursor(lines)
           \/ \E command \in Deletions : Delete(command)
           \/ Cut
  BY <1>3, InsertTyped, PasteTyped, DeleteTyped, CutTyped
<1>4. CASE \E query \in Queries, new \in Inserts \cup {<<>>}, wholeWord \in BOOLEAN :
             ReplaceCurrent(query, new, wholeWord) \/ ReplaceEvery(query, new, wholeWord)
  BY <1>4, ReplaceCurrentTyped, ReplaceEveryTyped
<1>5. CASE FormatterDone
  BY <1>5, TextsAssumption DEF FormatterDone, Typed
<1>6. CASE \E direction \in Directions, selecting \in BOOLEAN : Move(direction, selecting)
  BY <1>6, MovedTyped, PlacedTyped DEF Move, Typed, SomeCursors
<1>7. CASE \/ AddCursorAbove \/ AddCursorBelow
           \/ \E wholeWord \in BOOLEAN : AddNextMatch(wholeWord) \/ SelectMatches(wholeWord)
  BY <1>7, CursorAboveTyped, AddNextMatchTyped, SelectMatchesTyped
<1>8. CASE \E query \in Queries, wholeWord, backwards \in BOOLEAN :
             FindStep(query, wholeWord, backwards)
  <2>1. PICK query \in Queries, wholeWord \in BOOLEAN, backwards \in BOOLEAN :
           Place(Stepped(text, cursors, query, wholeWord, backwards))
    BY <1>8 DEF FindStep
  <2>2. query \in Text /\ text \in Text /\ SomeCursors(cursors)
    BY TextsAssumption DEF Typed, SomeCursors
  <2>3. SomeCursors(Stepped(text, cursors, query, wholeWord, backwards))
    BY <2>2, SteppedTyped
  <2> QED
    BY <2>1, <2>3, PlacedTyped
<1>9. CASE Collapse \/ SelectAll
  <2>1. Primary.head \in Nat /\ Len(text) \in Nat
    BY PrimaryTyped, CursorFacts DEF Typed, SomeCursors, Primary, Text
  <2> QED
    BY <1>9, <2>1, OneCursor, PlacedTyped DEF Collapse, SelectAll
<1>10. CASE Mouse
  BY <1>10, MouseTyped
<1>11. CASE SetLimit
  BY <1>11 DEF SetLimit, Typed
<1> QED
  BY <1>1, <1>2, <1>3, <1>4, <1>5, <1>6, <1>7, <1>8, <1>9, <1>10, <1>11 DEF Next

(* Whatever is typed, deleted, undone, pasted, replaced or clicked, the    *)
(* text is a text, the stacks hold texts with their cursors, and there is  *)
(* a cursor: Tab::cursors is "always non-empty" (559), which primary falls *)
(* back from and primary_mut restores (609-618).                           *)
THEOREM BufferAlwaysTyped == Spec => []Typed
<1>1. Init => Typed /\ Stacks
  BY TypedInit, StacksInit
<1>2. (Typed /\ Stacks) /\ [Next]_vars => (Typed /\ Stacks)'
  BY TypedStep, StacksStep
<1> QED
  BY <1>1, <1>2, PTL DEF Spec

-----------------------------------------------------------------------------
(* Merging selects no less.                                                *)

Span(c) == Lo(c) + 1 .. Hi(c)

\* What the merging of the first i cursors has to keep.
Keeps(m, q, i) ==
    /\ \A j \in 1 .. Len(m) : m[j].tail <= m[j].head
    /\ \A j \in 1 .. i : Span(q[j]) \subseteq Covered(m)
    /\ IF i = 0 THEN m = <<>> ELSE m # <<>> /\ Lo(m[Len(m)]) <= Lo(q[i])

\* What is covered is what some cursor spans.
LEMMA CoveredIs ==
  ASSUME NEW m \in Cursors
  PROVE  \A p : p \in Covered(m) <=> \E j \in 1 .. Len(m) : p \in Span(m[j])
<1>1. DOMAIN m = 1 .. Len(m)
  BY DEF Cursors
<1> QED
  BY <1>1 DEF Covered, Span

\* A cursor that runs forwards spans from its tail to its head.
LEMMA ForwardSpan ==
  ASSUME NEW c \in CursorRecord, c.tail <= c.head
  PROVE  Lo(c) = c.tail /\ Hi(c) = c.head
BY DEF CursorRecord, Lo, Hi, Lesser, Most

\* Merging a cursor that runs forwards loses nothing that it or the others cover.
LEMMA MergeKeeps ==
  ASSUME NEW q \in Cursors, \A j \in 1 .. Len(q) : q[j].tail <= q[j].head,
         \A j, k \in 1 .. Len(q) : j < k => Lo(q[j]) <= Lo(q[k]),
         NEW i \in Nat, i + 1 \in 1 .. Len(q), NEW m \in Cursors, Keeps(m, q, i)
  PROVE  Keeps(MergeInto(m, q[i + 1]), q, i + 1)
<1>1. PICK c : c = q[i + 1]
  OBVIOUS
<1>2. PICK n : n = Len(m)
  OBVIOUS
<1>3. /\ c \in CursorRecord /\ c.tail <= c.head /\ n \in Nat
      /\ \A j \in 1 .. n : m[j] \in CursorRecord
  BY <1>1, <1>2 DEF Cursors
<1>4. Lo(c) = c.tail /\ Hi(c) = c.head /\ Lo(c) \in Nat /\ Hi(c) \in Nat /\ c.head \in Nat
  BY <1>3, ForwardSpan, CursorFacts
<1>5. \A j \in 1 .. n : m[j].tail <= m[j].head
  BY <1>2 DEF Keeps
<1>6. \A j \in 1 .. n : /\ Lo(m[j]) = m[j].tail /\ Hi(m[j]) = m[j].head
                        /\ Lo(m[j]) \in Nat /\ Hi(m[j]) \in Nat
  BY <1>3, <1>5, ForwardSpan, CursorFacts
<1>7. PICK new : new = MergeInto(m, c)
  OBVIOUS
<1>8. new \in Cursors /\ new # <<>>
  BY <1>3, <1>7, MergeCases
<1>9. m # <<>> => n \in 1 .. n /\ Lo(m[n]) <= Lo(c)
  <2> SUFFICES ASSUME m # <<>> PROVE n \in 1 .. n /\ Lo(m[n]) <= Lo(c)
    OBVIOUS
  <2>1. n \in 1 .. n
    BY <1>2, <1>3 DEF Cursors
  <2>2. i > 0 /\ i \in 1 .. Len(q) /\ i < i + 1
    BY DEF Keeps
  <2>3. Lo(m[n]) <= Lo(q[i]) /\ Lo(q[i]) <= Lo(c)
    BY <1>1, <1>2, <2>2 DEF Keeps
  <2>4. q[i] \in CursorRecord
    BY <2>2 DEF Cursors
  <2>5. Lo(q[i]) \in Nat
    BY <2>4, CursorFacts
  <2> QED
    BY <1>4, <1>6, <2>1, <2>3, <2>5
\* What is left to show.
<1>10. SUFFICES /\ \A j \in 1 .. Len(new) : new[j].tail <= new[j].head
                /\ \A j \in 1 .. n : Span(m[j]) \subseteq Covered(new)
                /\ Span(c) \subseteq Covered(new)
                /\ Lo(new[Len(new)]) <= Lo(c)
  <2> SUFFICES ASSUME \A j \in 1 .. Len(new) : new[j].tail <= new[j].head,
                      \A j \in 1 .. n : Span(m[j]) \subseteq Covered(new),
                      Span(c) \subseteq Covered(new), Lo(new[Len(new)]) <= Lo(c)
               PROVE  Keeps(new, q, i + 1)
    BY <1>1, <1>7
  <2>1. ASSUME NEW j \in 1 .. i + 1 PROVE Span(q[j]) \subseteq Covered(new)
    <3>1. CASE j = i + 1
      BY <1>1, <3>1
    <3>2. CASE j \in 1 .. i
      <4>1. Span(q[j]) \subseteq Covered(m)
        BY <3>2 DEF Keeps
      <4>2. Covered(m) \subseteq Covered(new)
        BY <1>2, CoveredIs
      <4> QED
        BY <4>1, <4>2
    <3> QED
      BY <3>1, <3>2
  <2> QED
    BY <1>1, <1>8, <2>1 DEF Keeps
<1>11. \A j \in 1 .. Len(new) : Span(new[j]) \subseteq Covered(new)
  BY <1>8, CoveredIs
<1>12. CASE ~Meets(m, c)
  <2>1. new = Append(m, c)
    BY <1>3, <1>7, <1>12, MergeCases
  <2>2. Len(new) = n + 1 /\ new[n + 1] = c /\ \A j \in 1 .. n : new[j] = m[j]
    BY <1>2, <1>3, <2>1 DEF Cursors
  <2>3. \A j \in 1 .. n + 1 : j = n + 1 \/ j \in 1 .. n
    BY <1>3
  <2>4. \A j \in 1 .. n : j \in 1 .. n + 1
    BY <1>3
  <2>5. n + 1 \in 1 .. n + 1
    BY <1>3
  <2>6. \A j \in 1 .. Len(new) : new[j].tail <= new[j].head
    BY <1>3, <1>5, <2>2, <2>3
  <2>7. \A j \in 1 .. n : Span(m[j]) \subseteq Covered(new)
    BY <1>11, <2>2, <2>4
  <2>8. Span(c) \subseteq Covered(new)
    BY <1>11, <2>2, <2>5
  <2>9. Lo(new[Len(new)]) <= Lo(c)
    BY <1>4, <2>2
  <2> QED
    BY <2>6, <2>7, <2>8, <2>9
<1>13. CASE Meets(m, c) /\ ~Beyond(m, c)
  <2>1. new = m
    BY <1>3, <1>7, <1>13, MergeCases
  <2>2. n \in 1 .. n /\ Lo(m[n]) <= Lo(c)
    BY <1>9, <1>13 DEF Meets
  <2>3. Hi(c) <= Hi(m[n])
    BY <1>2, <1>4, <1>6, <1>13, <2>2 DEF Beyond
  <2>4. Span(c) \subseteq Span(m[n])
    BY <1>4, <1>6, <2>2, <2>3 DEF Span
  <2> QED
    BY <1>2, <1>5, <1>11, <2>1, <2>2, <2>4
<1>14. CASE Meets(m, c) /\ Beyond(m, c)
  <2>1. new = Stretched(m, c)
    BY <1>3, <1>7, <1>14, MergeCases
  <2>2. n \in 1 .. n /\ Lo(m[n]) <= Lo(c)
    BY <1>9, <1>14 DEF Meets
  <2>3. PICK x : x = Cursor(c.head, m[n].tail)
    OBVIOUS
  <2>4. Len(new) = n /\ new[n] = x /\ \A j \in 1 .. n : j # n => new[j] = m[j]
    BY <1>2, <2>1, <2>2, <2>3 DEF Stretched, Cursors
  <2>5. Hi(c) > Hi(m[n])
    BY <1>2, <1>14 DEF Beyond
  <2>6. x.head = Hi(c) /\ x.tail = Lo(m[n])
    BY <1>4, <1>6, <2>2, <2>3 DEF Cursor
  <2>7. x \in CursorRecord /\ x.tail <= x.head
    <3>1. x = [head |-> Hi(c), tail |-> Lo(m[n])]
      BY <1>4, <1>6, <2>2, <2>3 DEF Cursor
    <3>2. Hi(c) \in Nat /\ Lo(m[n]) \in Nat
      BY <1>4, <1>6, <2>2
    <3> QED
      BY <1>3, <1>4, <1>6, <2>2, <2>6, <3>1, <3>2 DEF CursorRecord
  <2>8. Lo(x) = Lo(m[n]) /\ Hi(x) = Hi(c)
    BY <2>6, <2>7, ForwardSpan
  <2>9. Span(m[n]) \subseteq Span(x) /\ Span(c) \subseteq Span(x)
    <3>1. PICK lo \in Nat, hi \in Nat, from \in Nat, to \in Nat :
             lo = Lo(m[n]) /\ hi = Hi(m[n]) /\ from = Lo(c) /\ to = Hi(c)
      BY <1>4, <1>6, <2>2
    <3>2. lo <= from /\ hi < to
      BY <2>2, <2>5, <3>1
    <3>3. lo + 1 .. hi \subseteq lo + 1 .. to /\ from + 1 .. to \subseteq lo + 1 .. to
      BY <3>2
    <3>4. Span(m[n]) = lo + 1 .. hi /\ Span(c) = from + 1 .. to /\ Span(x) = lo + 1 .. to
      BY <2>8, <3>1 DEF Span
    <3> QED
      BY <3>3, <3>4
  <2>10. Span(x) \subseteq Covered(new)
    BY <1>11, <2>2, <2>4
  <2>11. \A j \in 1 .. n : Span(m[j]) \subseteq Covered(new)
    BY <1>11, <2>4, <2>9, <2>10
  <2>12. \A j \in 1 .. Len(new) : new[j].tail <= new[j].head
    BY <1>5, <2>4, <2>7
  <2> QED
    BY <2>2, <2>4, <2>8, <2>9, <2>10, <2>11, <2>12
<1> QED
  BY <1>12, <1>13, <1>14

\* dedup_cursors loses nothing that cursors running forwards cover.
LEMMA MergingKeepsCovered ==
  ASSUME NEW cs \in Cursors, Forward(cs)
  PROVE  Covered(cs) \subseteq Covered(DedupCursors(cs))
<1>1. PICK h : Merged(h, cs)
  BY MergedInTurn
<1>2. PICK n : n = Len(cs)
  OBVIOUS
<1>3. PICK q : q = FromLeft(cs)
  OBVIOUS
<1>4. PICK o : o = CursorOrder(cs)
  OBVIOUS
<1>5. n \in Nat /\ q \in Cursors /\ Len(q) = n /\ DOMAIN cs = 1 .. n
  BY <1>2, <1>3, FromLeftFacts DEF Cursors
<1>6. /\ \A k \in 1 .. n : o[k] \in 1 .. n /\ q[k] = cs[o[k]]
      /\ \A i \in 1 .. n : \E k \in 1 .. n : o[k] = i
  BY <1>2, <1>3, <1>4, FromLeftFacts
<1>7. \A j, k \in 1 .. Len(q) : j < k => Lo(q[j]) <= Lo(q[k])
  BY <1>2, <1>3, <1>5, FromLeftFacts
<1>8. \A j \in 1 .. Len(q) : q[j].tail <= q[j].head
  BY <1>5, <1>6 DEF Forward
<1>9. PICK I : I = {i \in Nat : i <= n => Keeps(h[i], q, i)}
  OBVIOUS
<1>10. 0 \in I
  <2>1. h[0] = <<>>
    BY <1>1 DEF Merged
  <2> QED
    BY <1>9, <2>1 DEF Keeps
<1>11. ASSUME NEW i \in Nat, i \in I PROVE i + 1 \in I
  <2>1. CASE i + 1 <= n
    <3>1. i + 1 \in 1 .. n /\ (i + 1) - 1 = i /\ i \in 0 .. n /\ i <= n
      BY <1>5, <2>1
    <3>2. Keeps(h[i], q, i)
      BY <1>9, <1>11, <3>1
    <3>3. h[i] \in Cursors /\ h[i + 1] = MergeInto(h[i], q[i + 1])
      BY <1>1, <1>2, <1>3, <3>1 DEF Merged
    <3>4. Keeps(MergeInto(h[i], q[i + 1]), q, i + 1)
      BY <1>5, <1>7, <1>8, <3>1, <3>2, <3>3, MergeKeeps
    <3> QED
      BY <1>9, <3>3, <3>4
  <2>2. CASE ~(i + 1 <= n)
    BY <1>9, <2>2
  <2> QED
    BY <2>1, <2>2
<1>12. Nat \subseteq I
  BY <1>10, <1>11, Merging!SetInduction
<1>13. Keeps(DedupCursors(cs), q, n)
  <2>1. h[n] = DedupCursors(cs)
    BY <1>1, <1>2 DEF Merged
  <2> QED
    BY <1>5, <1>9, <1>12, <2>1
<1>14. ASSUME NEW i \in 1 .. n PROVE Span(cs[i]) \subseteq Covered(DedupCursors(cs))
  BY <1>6, <1>13 DEF Keeps
<1> QED
  BY <1>2, <1>14, CoveredIs

-----------------------------------------------------------------------------
\* One more forward cursor, merged with the others.
LEMMA AddedKeepsCovered ==
  ASSUME NEW cs \in Cursors, Forward(cs), NEW c \in CursorRecord, c.tail <= c.head
  PROVE  Covered(cs) \subseteq Covered(DedupCursors(Append(cs, c)))
<1>1. PICK all : all = Append(cs, c)
  OBVIOUS
<1>2. PICK n : n = Len(cs)
  OBVIOUS
<1>3. /\ n \in Nat /\ all \in Cursors /\ Len(all) = n + 1 /\ all[n + 1] = c
      /\ \A i \in 1 .. n : all[i] = cs[i]
      /\ DOMAIN cs = 1 .. n /\ DOMAIN all = 1 .. n + 1
  BY <1>1, <1>2 DEF Cursors
<1>4. Forward(all)
  <2>1. ASSUME NEW i \in 1 .. n + 1 PROVE all[i].tail <= all[i].head
    <3>1. CASE i = n + 1
      BY <1>3, <3>1
    <3>2. CASE i \in 1 .. n
      BY <1>3, <3>2 DEF Forward
    <3> QED
      BY <1>3, <3>1, <3>2
  <2> QED
    BY <1>3, <2>1 DEF Forward
<1>5. Covered(cs) \subseteq Covered(all)
  <2>1. \A i \in 1 .. n : i \in 1 .. n + 1
    BY <1>3
  <2> QED
    BY <1>2, <1>3, <2>1, CoveredIs
<1>6. Covered(all) \subseteq Covered(DedupCursors(all))
  BY <1>3, <1>4, MergingKeepsCovered
<1> QED
  BY <1>1, <1>5, <1>6

\* Cmd+D: what it works with selects no less.
LEMMA KeptKeepsCovered ==
  ASSUME Typed, Forward(cursors), NEW kept, kept = Append(Front(cursors), WordSelected)
  PROVE  kept \in Cursors /\ Forward(kept) /\ Covered(cursors) \subseteq Covered(kept)
<1>1. SomeCursors(cursors) /\ cursors \in Cursors
  BY DEF Typed, SomeCursors
<1>2. PICK n \in Nat \ {0} : n = Len(cursors) /\ DOMAIN cursors = 1 .. n
  BY <1>1 DEF SomeCursors, Cursors
<1>3. PICK w \in CursorRecord : w = WordSelected
  BY WordSelectedTyped
<1>4. cursors[n] = Primary /\ cursors[n] \in CursorRecord
  BY <1>1, <1>2 DEF Primary, Last, Cursors
<1>5. w = Primary \/ (~HasSel(Primary) /\ w.tail < w.head)
  BY <1>3, WordSelectedTyped
<1>6. PICK f : f = Front(cursors)
  OBVIOUS
<1>7. f \in Cursors /\ Len(f) = n - 1 /\ \A i \in 1 .. n - 1 : f[i] = cursors[i]
  BY <1>1, <1>2, <1>6, PrimaryTyped
<1>8. /\ kept \in Cursors /\ Len(kept) = n /\ kept[n] = w
      /\ \A i \in 1 .. n - 1 : kept[i] = cursors[i]
      /\ DOMAIN kept = 1 .. n
  BY <1>2, <1>3, <1>6, <1>7 DEF Cursors
<1>9. Forward(kept)
  <2>1. \A i \in 1 .. n : cursors[i].tail <= cursors[i].head
    BY <1>2 DEF Forward
  <2>2. w.tail <= w.head
    <3>1. CASE w = Primary
      BY <1>2, <1>4, <2>1, <3>1
    <3>2. CASE w # Primary
      <4>1. w.tail \in Nat /\ w.head \in Nat
        BY CursorFacts
      <4> QED
        BY <1>5, <3>2, <4>1
    <3> QED
      BY <3>1, <3>2
  <2>3. ASSUME NEW i \in 1 .. n PROVE kept[i].tail <= kept[i].head
    <3>1. CASE i = n
      BY <1>8, <2>2, <3>1
    <3>2. CASE i \in 1 .. n - 1
      <4>1. kept[i] = cursors[i]
        BY <1>8, <3>2
      <4> QED
        BY <2>1, <4>1
    <3>3. i = n \/ i \in 1 .. n - 1
      BY <1>2
    <3> QED
      BY <3>1, <3>2, <3>3
  <2> QED
    BY <1>8, <2>3 DEF Forward
<1>10. ASSUME NEW p \in Covered(cursors) PROVE p \in Covered(kept)
  <2>1. PICK i \in 1 .. n : p \in Span(cursors[i])
    BY <1>1, <1>2, CoveredIs
  <2>2. CASE i \in 1 .. n - 1
    BY <1>8, <2>1, <2>2, CoveredIs
  <2>3. CASE i = n /\ w = Primary
    BY <1>4, <1>8, <2>1, <2>3, CoveredIs
  <2>4. CASE i = n /\ ~HasSel(Primary)
    <3>1. Lo(Primary) = Hi(Primary) /\ Lo(Primary) \in Nat
      BY <1>4, <2>4, CursorFacts
    <3>2. Span(Primary) = {}
      BY <3>1 DEF Span
    <3> QED
      BY <1>4, <2>1, <2>4, <3>2
  <2> QED
    BY <1>2, <1>5, <2>2, <2>3, <2>4
<1> QED
  BY <1>8, <1>9, <1>10

\* Adding a cursor deselects nothing.
LEMMA AddingStep ==
  ASSUME Typed, Forward(cursors),
         AddCursorAbove \/ AddCursorBelow \/ \E wholeWord \in BOOLEAN : AddNextMatch(wholeWord)
  PROVE  Covered(cursors) \subseteq Covered(cursors')
<1>1. text \in Text /\ SomeCursors(cursors) /\ cursors \in Cursors /\ Len(text) \in Nat
  BY DEF Typed, SomeCursors, Text
<1>2. CASE AddCursorAbove \/ AddCursorBelow
  <2>1. PICK p : p = Lesser(Primary.head, Len(text))
    OBVIOUS
  <2>2. p \in 0 .. Len(text)
    <3>1. Primary.head \in Nat
      BY <1>1, PrimaryTyped, CursorFacts DEF Primary
    <3> QED
      BY <1>1, <2>1, <3>1 DEF Lesser
  <2>3. HeadAbove(text, p) \in Nat /\ HeadBelow(text, p) \in Nat
    <3>1. HeadAbove(text, p) \in 0 .. p /\ HeadBelow(text, p) \in p .. Len(text)
      BY <1>1, <2>2, HeadAboveTyped, HeadBelowTyped
    <3> QED
      BY <2>2, <3>1
  <2>4. PICK head \in Nat : cursors' = DedupCursors(Append(cursors, Caret(head)))
    BY <1>2, <2>1, <2>3 DEF AddCursorAbove, AddCursorBelow, Place
  <2>5. Caret(head) \in CursorRecord /\ Caret(head).tail <= Caret(head).head
    <3>1. Caret(head).tail = head /\ Caret(head).head = head
      BY DEF Caret, Cursor
    <3>2. Caret(head) \in CursorRecord
      BY OneCursor
    <3>3. head <= head
      OBVIOUS
    <3> QED
      BY <3>1, <3>2, <3>3
  <2> QED
    BY <1>1, <2>4, <2>5, AddedKeepsCovered
<1>3. ASSUME NEW wholeWord \in BOOLEAN, AddNextMatch(wholeWord)
      PROVE  Covered(cursors) \subseteq Covered(cursors')
  <2>1. PICK primary : primary = WordSelected
    OBVIOUS
  <2>2. primary \in CursorRecord
    BY <2>1, WordSelectedTyped
  <2>3. PICK kept : kept = Append(Front(cursors), primary)
    OBVIOUS
  <2>4. kept \in Cursors /\ Forward(kept) /\ Covered(cursors) \subseteq Covered(kept)
    BY <2>1, <2>3, KeptKeepsCovered
  <2>5. PICK query : query = Selected(primary)
    OBVIOUS
  <2>6. Hi(primary) <= Len(text)
    BY <1>3, <2>1 DEF AddNextMatch
  <2>7. query \in Text /\ Len(query) \in Nat
    BY <2>2, <2>5, <2>6, SelectedTyped DEF Text
  <2>8. PICK matches : matches = FindMatches(text, query, wholeWord)
    OBVIOUS
  <2>9. PICK next : next = NextMatch(matches, Hi(primary))
    OBVIOUS
  <2>10. cursors' = IF matches = {} \/ next = Lo(primary) THEN kept
                    ELSE DedupCursors(Append(kept, Cursor(next + Len(query), next)))
    BY <1>3, <2>1, <2>3, <2>5, <2>8, <2>9 DEF AddNextMatch, Place
  <2>11. CASE matches = {} \/ next = Lo(primary)
    BY <2>4, <2>10, <2>11
  <2>12. CASE ~(matches = {} \/ next = Lo(primary))
    <3>1. matches \in SUBSET (0 .. Len(text)) /\ Hi(primary) \in Nat
      BY <1>1, <2>2, <2>7, <2>8, MatchesTyped, CursorFacts
    <3>2. next \in matches
      BY <1>1, <2>9, <2>12, <3>1, NextMatchTyped
    <3>3. next \in 0 .. Len(text)
      BY <3>1, <3>2
    <3>4. next \in Nat /\ next + Len(query) \in Nat /\ next <= next + Len(query)
      BY <1>1, <2>7, <3>3
    <3>5. PICK c : c = Cursor(next + Len(query), next)
      OBVIOUS
    <3>6. c \in CursorRecord /\ c.tail <= c.head
      BY <3>4, <3>5, OneCursor DEF Cursor
    <3>7. Covered(kept) \subseteq Covered(DedupCursors(Append(kept, c)))
      BY <2>4, <3>6, AddedKeepsCovered
    <3> QED
      BY <2>4, <2>10, <2>12, <3>5, <3>7
  <2> QED
    BY <2>11, <2>12
<1> QED
  BY <1>2, <1>3

(* Adding a cursor deselects nothing: not the one whose selection the new  *)
(* cursor meets, nor any other, in any text and with any search.           *)
THEOREM AddingAlwaysKeepsSelections == Spec => AddingKeepsSelections
<1>1. Typed /\ [Next]_vars =>
        [/\ AddCursorAbove \/ AddCursorBelow
            \/ \E wholeWord \in BOOLEAN : AddNextMatch(wholeWord)
         /\ Forward(cursors)
         => Covered(cursors) \subseteq Covered(cursors')]_vars
  BY AddingStep
<1> QED
  BY <1>1, BufferAlwaysTyped, PTL DEF Spec, AddingKeepsSelections

-----------------------------------------------------------------------------
(* A text whose first part has been edited: u begins with g and goes on    *)
(* like t behind the place b.                                              *)

GoesOn(u, g, t, b) == u = g \o SubSeq(t, b + 1, Len(t))

\* Part of a text is a text, as long as the part.
LEMMA PartTyped ==
  ASSUME NEW t \in Text, NEW m \in 0 .. Len(t), NEW n \in 0 .. Len(t), m <= n
  PROVE  /\ SubSeq(t, m + 1, n) \in Text /\ Len(SubSeq(t, m + 1, n)) = n - m
         /\ \A i \in 1 .. n - m : SubSeq(t, m + 1, n)[i] = t[m + i]
<1>1. t \in Seq(Chars) /\ Len(t) \in Nat
  BY DEF Text
<1>2. PICK k : k = m + 1
  OBVIOUS
<1>3. k \in Int /\ n \in Int /\ \A i \in k .. n : t[i] \in Chars
  BY <1>1, <1>2
<1>4. PICK s : s = SubSeq(t, k, n)
  OBVIOUS
<1>5. /\ s \in Seq(Chars) /\ Len(s) = IF k <= n THEN n - k + 1 ELSE 0
      /\ \A i \in 1 .. n - k + 1 : s[i] = t[k + i - 1]
  BY <1>3, <1>4, SubSeqProperties
<1>6. Len(s) = n - m /\ n - k + 1 = n - m
  BY <1>2, <1>5
<1>7. \A i \in 1 .. n - m : s[i] = t[m + i]
  BY <1>2, <1>5, <1>6
<1> QED
  BY <1>2, <1>4, <1>5, <1>6, <1>7 DEF Text

\* Two texts make one, as long as both.
LEMMA JoinTyped ==
  ASSUME NEW x \in Text, NEW y \in Text
  PROVE  /\ x \o y \in Text /\ Len(x \o y) = Len(x) + Len(y) /\ Len(x) \in Nat /\ Len(y) \in Nat
         /\ \A i \in 1 .. Len(x) : (x \o y)[i] = x[i]
         /\ \A i \in 1 .. Len(y) : (x \o y)[Len(x) + i] = y[i]
<1>1. x \in Seq(Chars) /\ y \in Seq(Chars) /\ Len(x) \in Nat /\ Len(y) \in Nat
  BY DEF Text
<1>2. PICK z : z = x \o y
  OBVIOUS
<1>3. /\ z \in Seq(Chars) /\ Len(z) = Len(x) + Len(y)
      /\ \A i \in 1 .. Len(x) + Len(y) : z[i] = IF i <= Len(x) THEN x[i] ELSE y[i - Len(x)]
  BY <1>1, <1>2, ConcatProperties
<1>4. \A i \in 1 .. Len(x) : z[i] = x[i]
  BY <1>1, <1>3
<1>5. ASSUME NEW i \in 1 .. Len(y) PROVE z[Len(x) + i] = y[i]
  <2>1. Len(x) + i \in 1 .. Len(x) + Len(y) /\ ~(Len(x) + i <= Len(x)) /\ (Len(x) + i) - Len(x) = i
    BY <1>1
  <2> QED
    BY <1>3, <2>1
<1> QED
  BY <1>1, <1>2, <1>3, <1>4, <1>5 DEF Text

\* Texts with the same characters are the same.
LEMMA SameText ==
  ASSUME NEW x \in Text, NEW y \in Text, Len(x) = Len(y), \A i \in 1 .. Len(x) : x[i] = y[i]
  PROVE  x = y
<1>1. x \in Seq(Chars) /\ y \in Seq(Chars)
  BY DEF Text
<1> QED
  BY <1>1, SeqEqual

\* Where its characters are.
LEMMA GoesOnFacts ==
  ASSUME NEW t \in Text, NEW g \in Text, NEW b \in 0 .. Len(t), NEW u, GoesOn(u, g, t, b)
  PROVE  /\ u \in Text /\ Len(u) = Len(g) + (Len(t) - b) /\ Len(g) \in Nat /\ Len(t) \in Nat
         /\ \A i \in 1 .. Len(g) : u[i] = g[i]
         /\ \A i \in b + 1 .. Len(t) : u[i + (Len(g) - b)] = t[i]
<1>1. Len(t) \in Nat /\ Len(t) \in 0 .. Len(t) /\ b <= Len(t)
  BY DEF Text
<1>2. PICK s : s = SubSeq(t, b + 1, Len(t))
  OBVIOUS
<1>3. s \in Text /\ Len(s) = Len(t) - b /\ \A i \in 1 .. Len(t) - b : s[i] = t[b + i]
  BY <1>1, <1>2, PartTyped
<1>4. u = g \o s
  BY <1>2 DEF GoesOn
<1>5. /\ u \in Text /\ Len(u) = Len(g) + Len(s) /\ Len(g) \in Nat
      /\ \A i \in 1 .. Len(g) : u[i] = g[i]
      /\ \A i \in 1 .. Len(s) : u[Len(g) + i] = s[i]
  BY <1>3, <1>4, JoinTyped
<1>6. ASSUME NEW i \in b + 1 .. Len(t) PROVE u[i + (Len(g) - b)] = t[i]
  <2>1. i - b \in 1 .. Len(s) /\ Len(g) + (i - b) = i + (Len(g) - b) /\ b + (i - b) = i
    BY <1>1, <1>3, <1>5
  <2>2. u[Len(g) + (i - b)] = s[i - b]
    BY <1>5, <2>1
  <2>3. s[i - b] = t[b + (i - b)]
    BY <1>3, <2>1
  <2> QED
    BY <2>1, <2>2, <2>3
<1> QED
  BY <1>1, <1>3, <1>5, <1>6

\* A place with a character of K before it, found behind b in t, is found there in u.
LEMMA LastInShifts ==
  ASSUME NEW t \in Text, NEW g \in Text, NEW b \in 0 .. Len(t), NEW u, GoesOn(u, g, t, b),
         NEW p \in b .. Len(t), NEW K, LastIn(t, p, K) > b
  PROVE  LastIn(u, p + (Len(g) - b), K) = LastIn(t, p, K) + (Len(g) - b)
<1>1. PICK d : d = Len(g) - b
  OBVIOUS
<1>2. PICK r : r = LastIn(t, p, K)
  OBVIOUS
<1>3. /\ Len(g) \in Nat /\ Len(t) \in Nat /\ d \in Int /\ b + d = Len(g)
      /\ \A i \in b + 1 .. Len(t) : u[i + d] = t[i]
  <2>1. /\ Len(g) \in Nat /\ Len(t) \in Nat
        /\ \A i \in b + 1 .. Len(t) : u[i + (Len(g) - b)] = t[i]
    BY GoesOnFacts
  <2> QED
    BY <1>1, <2>1
<1>4. p \in Nat /\ p + d \in Nat
  BY <1>1, <1>3
<1>5. r \in 0 .. p /\ r > b /\ t[r] \in K /\ \A q \in r + 1 .. p : t[q] \notin K
  BY <1>2, <1>4, LastInIs DEF IsLastIn
<1>6. IsLastIn(r + d, u, p + d, K)
  <2>1. r + d \in 0 .. p + d
    BY <1>3, <1>5
  <2>2. u[r + d] \in K
    <3>1. r \in b + 1 .. Len(t)
      BY <1>3, <1>5
    <3> QED
      BY <1>3, <1>5, <3>1
  <2>3. ASSUME NEW q \in r + d + 1 .. p + d PROVE u[q] \notin K
    <3>1. PICK i : i = q - d
      OBVIOUS
    <3>2. i \in r + 1 .. p /\ i \in b + 1 .. Len(t) /\ q = i + d
      BY <1>3, <1>5, <3>1
    <3> QED
      BY <1>3, <1>5, <3>2
  <2> QED
    BY <2>1, <2>2, <2>3 DEF IsLastIn
<1>7. IsLastIn(LastIn(u, p + d, K), u, p + d, K)
  BY <1>4, LastInIs
<1>8. LastIn(u, p + d, K) = r + d
  BY <1>4, <1>6, <1>7, OneLastIn
<1> QED
  BY <1>1, <1>2, <1>8

\* What is found from p on is always found there.
LEMMA FirstInShifts ==
  ASSUME NEW t \in Text, NEW g \in Text, NEW b \in 0 .. Len(t), NEW u, GoesOn(u, g, t, b),
         NEW p \in b .. Len(t), NEW K
  PROVE  FirstIn(u, p + (Len(g) - b), K) = FirstIn(t, p, K) + (Len(g) - b)
<1>1. PICK d : d = Len(g) - b
  OBVIOUS
<1>2. PICK r : r = FirstIn(t, p, K)
  OBVIOUS
<1>3. /\ Len(g) \in Nat /\ Len(t) \in Nat /\ d \in Int /\ b + d = Len(g)
      /\ Len(u) = Len(t) + d
      /\ \A i \in b + 1 .. Len(t) : u[i + d] = t[i]
  <2>1. /\ Len(g) \in Nat /\ Len(t) \in Nat /\ Len(u) = Len(g) + (Len(t) - b)
        /\ \A i \in b + 1 .. Len(t) : u[i + (Len(g) - b)] = t[i]
    BY GoesOnFacts
  <2> QED
    BY <1>1, <2>1
<1>4. p \in 0 .. Len(t) /\ p + d \in 0 .. Len(u) /\ Len(u) \in Nat
  BY <1>1, <1>3
<1>5. /\ r \in p .. Len(t) /\ (r = Len(t) \/ t[r + 1] \in K)
      /\ \A q \in p .. r - 1 : t[q + 1] \notin K
  BY <1>2, <1>3, <1>4, FirstInIs DEF IsFirstIn
<1>6. PICK x : x = r + d
  OBVIOUS
<1>7. PICK y : y = p + d
  OBVIOUS
<1>8. IsFirstIn(x, u, y, K)
  <2>1. x \in y .. Len(u)
    BY <1>3, <1>5, <1>6, <1>7
  <2>2. x = Len(u) \/ u[x + 1] \in K
    <3>1. CASE r = Len(t)
      BY <1>3, <1>6, <3>1
    <3>2. CASE r # Len(t)
      <4>1. r + 1 \in b + 1 .. Len(t) /\ (r + 1) + d = x + 1
        BY <1>3, <1>5, <1>6, <3>2
      <4> QED
        BY <1>3, <1>5, <3>2, <4>1
    <3> QED
      BY <3>1, <3>2
  <2>3. ASSUME NEW q \in y .. x - 1 PROVE u[q + 1] \notin K
    <3>1. PICK i : i = q - d
      OBVIOUS
    <3>2. i \in p .. r - 1 /\ i + 1 \in b + 1 .. Len(t) /\ q + 1 = (i + 1) + d
      BY <1>3, <1>5, <1>6, <1>7, <3>1
    <3> QED
      BY <1>3, <1>5, <3>2
  <2> QED
    BY <2>1, <2>2, <2>3 DEF IsFirstIn
<1>9. y \in 0 .. Len(u) /\ IsFirstIn(FirstIn(u, y, K), u, y, K)
  BY <1>4, <1>7, FirstInIs
<1>10. FirstIn(u, p + d, K) = r + d
  BY <1>4, <1>8, <1>9, <1>6, <1>7, OneFirstIn
<1> QED
  BY <1>1, <1>2, <1>10

\* The range of a command at a caret, where it only depends on what lies
\* behind b: it is the same one, moved.
LEMMA ReachShifts ==
  ASSUME NEW t \in Text, NEW g \in Text, NEW b \in 0 .. Len(t), NEW u, GoesOn(u, g, t, b),
         NEW p \in b .. Len(t), NEW command \in Commands,
         NEW lo, NEW hi, Reach(command, t, p) = <<lo, hi>>,
         command = "backspace" => p > b,
         command \in {"delete_word_back", "delete_to_line_start"} => lo > b
  PROVE  Reach(command, u, p + (Len(g) - b)) = <<lo + (Len(g) - b), hi + (Len(g) - b)>>
<1>1. PICK d : d = Len(g) - b
  OBVIOUS
<1>2. PICK x : x = p + d
  OBVIOUS
<1>3. /\ u \in Text /\ Len(g) \in Nat /\ Len(t) \in Nat /\ d \in Int /\ Len(u) = Len(t) + d
      /\ b + d = Len(g)
  <2>1. u \in Text /\ Len(u) = Len(g) + (Len(t) - b) /\ Len(g) \in Nat /\ Len(t) \in Nat
    BY GoesOnFacts
  <2> QED
    BY <1>1, <2>1
<1>4. p \in 0 .. Len(t) /\ x \in 0 .. Len(u) /\ x \in Nat /\ p \in Nat /\ x >= Len(g)
  BY <1>2, <1>3
<1>5. SUFFICES Reach(command, u, x) = <<lo + d, hi + d>>
  BY <1>1, <1>2
<1>6. CASE command \in {"insert", "cut"}
  <2>1. Reach(command, t, p) = <<p, p>> /\ Reach(command, u, x) = <<x, x>>
    BY <1>6 DEF Reach
  <2> QED
    BY <1>2, <2>1
<1>7. CASE command = "backspace"
  <2>1. Reach(command, t, p) = <<p - 1, p>> /\ Reach(command, u, x) = <<x - 1, x>>
    <3>1. p - 1 >= 0 /\ x - 1 >= 0
      BY <1>2, <1>3, <1>7
    <3>2. Most(p - 1, 0) = p - 1 /\ Most(x - 1, 0) = x - 1
      BY <3>1 DEF Most
    <3> QED
      BY <1>7, <3>2 DEF Reach
  <2> QED
    BY <1>2, <1>3, <1>4, <2>1
<1>8. CASE command = "delete_fwd"
  <2>1. Reach(command, t, p) = <<p, Lesser(p + 1, Len(t))>>
        /\ Reach(command, u, x) = <<x, Lesser(x + 1, Len(u))>>
    BY <1>8 DEF Reach
  <2>2. Lesser(x + 1, Len(u)) = Lesser(p + 1, Len(t)) + d
    BY <1>2, <1>3, <1>4 DEF Lesser
  <2> QED
    BY <1>2, <2>1, <2>2
<1>9. CASE command = "delete_word_back"
  <2>1. PICK e : e = LastIn(t, p, {"w"})
    OBVIOUS
  <2>2. PICK K : K = Chars \ {"w"}
    OBVIOUS
  <2>3. lo = LastIn(t, e, K) /\ hi = p
    <3>1. Reach(command, t, p) = <<WordBack(t, p), p>>
      BY <1>9 DEF Reach
    <3> QED
      BY <1>4, <2>1, <2>2, <3>1, LinesAndWords
  <2>4. e \in 0 .. p /\ lo \in 0 .. e
    <3>1. e \in 0 .. p
      BY <1>4, <2>1, LastInIs DEF IsLastIn
    <3>2. e \in Nat
      BY <1>4, <3>1
    <3> QED
      BY <2>3, <3>1, <3>2, LastInIs DEF IsLastIn
  <2>5. lo > b /\ e > b /\ e \in b .. Len(t)
    BY <1>3, <1>4, <1>9, <2>4
  <2>6. LastIn(u, x, {"w"}) = e + d
    BY <1>1, <1>2, <2>1, <2>5, LastInShifts
  <2>7. LastIn(u, e + d, K) = lo + d
    BY <1>1, <2>3, <2>5, LastInShifts
  <2>8. WordBack(u, x) = lo + d
    BY <1>3, <1>4, <2>2, <2>6, <2>7, LinesAndWords
  <2>9. Reach(command, u, x) = <<WordBack(u, x), x>>
    BY <1>9 DEF Reach
  <2> QED
    BY <1>2, <2>3, <2>8, <2>9
<1>10. CASE command = "delete_word_fwd"
  <2>1. PICK s : s = FirstIn(t, p, {"w"})
    OBVIOUS
  <2>2. PICK K : K = Chars \ {"w"}
    OBVIOUS
  <2>3. lo = p /\ hi = FirstIn(t, s, K)
    <3>1. Reach(command, t, p) = <<p, WordForward(t, p)>>
      BY <1>10 DEF Reach
    <3>2. WordForward(t, p) = FirstIn(t, s, K)
      BY <1>4, <2>1, <2>2, LinesAndWords
    <3> QED
      BY <3>1, <3>2
  <2>4. s \in b .. Len(t)
    <3>1. s \in p .. Len(t)
      BY <1>3, <1>4, <2>1, FirstInIs DEF IsFirstIn
    <3> QED
      BY <1>4, <3>1
  <2>5. FirstIn(u, x, {"w"}) = s + d
    BY <1>1, <1>2, <2>1, FirstInShifts
  <2>6. FirstIn(u, s + d, K) = hi + d
    BY <1>1, <2>3, <2>4, FirstInShifts
  <2>7. WordForward(u, x) = hi + d
    BY <1>3, <1>4, <2>2, <2>5, <2>6, LinesAndWords
  <2>8. Reach(command, u, x) = <<x, WordForward(u, x)>>
    BY <1>10 DEF Reach
  <2> QED
    BY <1>2, <2>3, <2>7, <2>8
<1>11. CASE command = "delete_to_line_start"
  <2>1. PICK s : s = LineStart(t, p)
    OBVIOUS
  <2>2. s = LastIn(t, p, {"n"}) /\ s \in 0 .. p
    BY <1>4, <2>1, LinesAndWords, PlacesOfText
  <2>3. lo = (IF s < p THEN s ELSE Most(p - 1, 0)) /\ hi = p
    BY <1>11, <2>1 DEF Reach
  <2>4. lo > b
    BY <1>11
  <2>5. s > b
    <3>1. CASE s < p
      BY <2>3, <2>4, <3>1
    <3>2. CASE ~(s < p)
      <4>1. s = p
        BY <1>4, <2>2, <3>2
      <4> QED
        BY <1>4, <2>3, <2>4, <4>1 DEF Most
    <3> QED
      BY <3>1, <3>2
  <2>6. LastIn(u, x, {"n"}) = s + d
    BY <1>1, <1>2, <2>2, <2>5, LastInShifts
  <2>7. LineStart(u, x) = s + d
    BY <1>3, <1>4, <2>6, LinesAndWords
  <2>8. Reach(command, u, x) = <<IF LineStart(u, x) < x THEN LineStart(u, x) ELSE Most(x - 1, 0), x>>
    BY <1>11 DEF Reach
  <2>9. (IF s + d < x THEN s + d ELSE Most(x - 1, 0)) = lo + d
    <3>1. CASE s < p
      BY <1>2, <1>3, <1>4, <2>2, <2>3, <3>1
    <3>2. CASE ~(s < p)
      <4>1. s = p
        BY <1>4, <2>2, <3>2
      <4>2. p - 1 >= 0 /\ x - 1 >= 0
        BY <1>2, <1>3, <1>4, <2>5, <4>1
      <4> QED
        BY <1>2, <1>3, <1>4, <2>3, <4>1, <4>2 DEF Most
    <3> QED
      BY <3>1, <3>2
  <2> QED
    BY <1>2, <2>3, <2>7, <2>8, <2>9
<1>12. CASE command = "delete_to_line_end"
  <2>1. PICK e : e = LineEnd(t, p)
    OBVIOUS
  <2>2. e = FirstIn(t, p, {"n"}) /\ e \in p .. Len(t)
    BY <1>4, <2>1, LinesAndWords, PlacesOfText
  <2>3. lo = p /\ hi = IF e > p THEN e ELSE Lesser(p + 1, Len(t))
    BY <1>12, <2>1 DEF Reach
  <2>4. FirstIn(u, x, {"n"}) = e + d
    BY <1>1, <1>2, <2>2, FirstInShifts
  <2>5. LineEnd(u, x) = e + d
    BY <1>3, <1>4, <2>4, LinesAndWords
  <2>6. Reach(command, u, x) = <<x, IF LineEnd(u, x) > x THEN LineEnd(u, x) ELSE Lesser(x + 1, Len(u))>>
    BY <1>12 DEF Reach
  <2>7. (IF e + d > x THEN e + d ELSE Lesser(x + 1, Len(u))) = hi + d
    <3>1. CASE e > p
      BY <1>2, <1>3, <1>4, <2>2, <2>3, <3>1
    <3>2. CASE ~(e > p)
      BY <1>2, <1>3, <1>4, <2>2, <2>3, <3>2 DEF Lesser
    <3> QED
      BY <3>1, <3>2
  <2> QED
    BY <1>2, <2>3, <2>5, <2>6, <2>7
<1> QED
  BY <1>6, <1>7, <1>8, <1>9, <1>10, <1>11, <1>12 DEF Commands, Deletions

-----------------------------------------------------------------------------
(* What the cursors remove, from left to right.                            *)

Backwards == {"backspace", "delete_word_back", "delete_to_line_start"}
Forwards  == {"delete_fwd", "delete_word_fwd", "delete_to_line_end"}

\* The range of a cursor reaches from it to one side, or is its selection.
Reaches(command, c, a, b) ==
    /\ a \in Nat /\ b \in Nat /\ a <= Lo(c) /\ Hi(c) <= b /\ b <= Len(text)
    /\ command \notin Forwards => b = Hi(c)
    /\ command \notin Backwards => a = Lo(c)
    /\ command = "backspace" => a + 1 >= Lo(c)
    /\ command = "delete_fwd" => b <= Hi(c) + 1

\* Where the range of a command at a cursor begins and ends.
LEMMA RangeFacts ==
  ASSUME Typed, NEW command \in Commands, NEW c \in CursorRecord, Within(c, Len(text))
  PROVE  \E a, b \in Nat : RangeOf(command, c) = <<a, b>> /\ Reaches(command, c, a, b)
<1>1. text \in Text /\ Len(text) \in Nat
  BY DEF Typed, Text
<1>2. /\ c.head \in Nat /\ c.tail \in Nat /\ Lo(c) \in Nat /\ Hi(c) \in Nat /\ Lo(c) <= Hi(c)
      /\ Lo(c) <= Len(text) /\ Hi(c) <= Len(text)
  <2>1. c.head \in Nat /\ c.tail \in Nat /\ c.head <= Len(text) /\ c.tail <= Len(text)
    BY CursorFacts DEF Within
  <2> QED
    BY <1>1, <2>1, CursorFacts DEF Lo, Hi, Lesser, Most
<1>3. CASE HasSel(c)
  <2>1. RangeOf(command, c) = <<Lo(c), Hi(c)>>
    BY <1>3 DEF RangeOf
  <2>2. Reaches(command, c, Lo(c), Hi(c))
    BY <1>1, <1>2 DEF Reaches
  <2> QED
    BY <1>2, <2>1, <2>2
<1>4. CASE ~HasSel(c)
  <2>1. PICK p : p = c.head
    OBVIOUS
  <2>2. p \in 0 .. Len(text) /\ Lo(c) = p /\ Hi(c) = p
    <3>1. Lo(c) = p /\ Hi(c) = p
      BY <1>4, <2>1, CursorFacts
    <3> QED
      BY <1>1, <1>2, <2>1, <3>1
  <2>3. RangeOf(command, c) = Reach(command, text, p)
    BY <1>4, <2>1 DEF RangeOf
  <2>4. PICK a \in 0 .. p, b \in p .. Len(text) : Reach(command, text, p) = <<a, b>>
    BY <1>1, <2>2, ReachTyped
  <2>5. command \notin Forwards => b = p
    BY <2>4 DEF Forwards, Reach, Commands, Deletions
  <2>6. command \notin Backwards => a = p
    BY <2>4 DEF Backwards, Reach, Commands, Deletions
  <2>7. command = "backspace" => a + 1 >= p
    BY <2>2, <2>4 DEF Reach, Most
  <2>8. command = "delete_fwd" => b <= p + 1
    BY <1>1, <2>2, <2>4 DEF Reach, Lesser
  <2>9. Reaches(command, c, a, b)
    BY <1>1, <2>2, <2>4, <2>5, <2>6, <2>7, <2>8 DEF Reaches
  <2> QED
    BY <1>1, <2>2, <2>3, <2>4, <2>9
<1> QED
  BY <1>3, <1>4

\* From left to right: no range begins before the one to its left ends.
InTurn(a, b, n, len) ==
    /\ a[0] = -1 /\ b[0] = 0
    /\ \A k \in 1 .. n : /\ a[k] \in Nat /\ b[k] \in Nat
                         /\ b[k - 1] <= a[k] /\ a[k] <= b[k] /\ b[k] <= len

\* The range that each of the cursors removes.
RangesAre(a, b, q, command) ==
    \A k \in 1 .. Len(q) : /\ RangeOf(command, q[k]) = <<a[k], b[k]>>
                           /\ Reaches(command, q[k], a[k], b[k])

\* How close the next one may be.
Spaced(a, b, q, command) ==
    \A k \in 1 .. Len(q) - 1 :
        /\ b[k] <= Lo(q[k + 1])
        /\ command = "backspace" => b[k] < Lo(q[k + 1])
        /\ command \in {"delete_word_back", "delete_to_line_start"} => b[k] < a[k + 1]
        /\ a[k] < a[k + 1] \/ (command = "backspace" /\ a[k] = b[k] /\ a[k] = a[k + 1])

\* From left to right, the ranges of independent cursors follow one another.
LEMMA RangesInTurn ==
  ASSUME Typed, NEW command \in Commands, InText(cursors, text), Independent(command)
  PROVE  \E a, b : /\ InTurn(a, b, Len(cursors), Len(text))
                   /\ RangesAre(a, b, FromLeft(cursors), command)
                   /\ Spaced(a, b, FromLeft(cursors), command)
<1>1. PICK n : n = Len(cursors)
  OBVIOUS
<1>2. PICK q : q = FromLeft(cursors)
  OBVIOUS
<1>3. PICK o : o = CursorOrder(cursors)
  OBVIOUS
<1>4. text \in Text /\ cursors \in Cursors /\ Len(text) \in Nat
  BY DEF Typed, Text
<1>5. n \in Nat /\ DOMAIN cursors = 1 .. n
  BY <1>1, <1>4 DEF Cursors
<1>6. q \in Cursors /\ Len(q) = n /\ \A k \in 1 .. n : q[k] \in CursorRecord
  <2>1. q \in Cursors /\ Len(q) = n
    BY <1>1, <1>2, <1>4, FromLeftFacts
  <2> QED
    BY <2>1 DEF Cursors
<1>7. \A k \in 1 .. n : o[k] \in 1 .. n /\ q[k] = cursors[o[k]]
  BY <1>1, <1>2, <1>3, <1>4, FromLeftFacts
<1>8. \A k, l \in 1 .. n : k < l => Lo(q[k]) <= Lo(q[l])
  BY <1>1, <1>2, <1>4, FromLeftFacts
<1>9. \A k, l \in 1 .. n : k < l => o[k] # o[l]
  <2>1. \A k, l \in 1 .. n : o[k] = o[l] => k = l
    BY <1>1, <1>3, <1>4, FromLeftFacts
  <2> QED
    BY <1>5, <2>1
<1>10. \A k \in 1 .. n : Lo(q[k]) \in Nat /\ Hi(q[k]) \in Nat /\ Lo(q[k]) <= Hi(q[k])
  BY <1>6, CursorFacts
<1>11. ASSUME NEW k \in 1 .. n, NEW l \in 1 .. n, k < l PROVE Hi(q[k]) < Lo(q[l])
  <2>1. Hi(q[k]) < Lo(q[l]) \/ Hi(q[l]) < Lo(q[k])
    BY <1>5, <1>7, <1>9, <1>11 DEF Independent, Separated
  <2> QED
    BY <1>8, <1>10, <1>11, <2>1
<1>12. PICK r : r = [k \in 1 .. n |-> RangeOf(command, q[k])]
  OBVIOUS
<1>13. PICK a : a = [k \in 0 .. n |-> IF k = 0 THEN -1 ELSE r[k][1]]
  OBVIOUS
<1>14. PICK b : b = [k \in 0 .. n |-> IF k = 0 THEN 0 ELSE r[k][2]]
  OBVIOUS
<1>15. ASSUME NEW k \in 1 .. n
       PROVE  RangeOf(command, q[k]) = <<a[k], b[k]>> /\ Reaches(command, q[k], a[k], b[k])
  <2>1. PICK x \in Nat, y \in Nat : RangeOf(command, q[k]) = <<x, y>> /\ Reaches(command, q[k], x, y)
    <3>1. Within(q[k], Len(text))
      BY <1>5, <1>7 DEF InText
    <3> QED
      BY <1>6, <3>1, RangeFacts
  <2>2. r[k] = <<x, y>>
    BY <1>12, <2>1
  <2>3. k \in 0 .. n /\ k # 0
    BY <1>5
  <2>4. a[k] = x /\ b[k] = y
    BY <1>13, <1>14, <2>2, <2>3
  <2> QED
    BY <2>1, <2>4
<1>16. \A k \in 1 .. n : /\ a[k] \in Nat /\ b[k] \in Nat /\ a[k] <= Lo(q[k]) /\ Hi(q[k]) <= b[k]
                         /\ b[k] <= Len(text)
  BY <1>15 DEF Reaches
<1>17. a[0] = -1 /\ b[0] = 0
  BY <1>5, <1>13, <1>14
<1>18. ASSUME NEW k \in 1 .. n, k + 1 \in 1 .. n
       PROVE  /\ b[k] <= Lo(q[k + 1]) /\ b[k] <= a[k + 1]
              /\ command = "backspace" => b[k] < Lo(q[k + 1])
              /\ command \in {"delete_word_back", "delete_to_line_start"} => b[k] < a[k + 1]
              /\ a[k] < a[k + 1] \/ (command = "backspace" /\ a[k] = b[k] /\ a[k] = a[k + 1])
  <2>1. Hi(q[k]) < Lo(q[k + 1])
    BY <1>5, <1>11, <1>18
  <2>2. /\ a[k] \in Nat /\ b[k] \in Nat /\ a[k + 1] \in Nat /\ b[k + 1] \in Nat
        /\ a[k] <= Lo(q[k]) /\ Hi(q[k]) <= b[k] /\ a[k + 1] <= Lo(q[k + 1])
        /\ Hi(q[k + 1]) <= b[k + 1]
    BY <1>16, <1>18
  <2>3. /\ Lo(q[k]) \in Nat /\ Hi(q[k]) \in Nat /\ Lo(q[k]) <= Hi(q[k])
        /\ Lo(q[k + 1]) \in Nat /\ Hi(q[k + 1]) \in Nat /\ Lo(q[k + 1]) <= Hi(q[k + 1])
    BY <1>10, <1>18
  <2>4. CASE command \in {"insert", "cut"}
    <3>1. b[k] = Hi(q[k]) /\ a[k + 1] = Lo(q[k + 1]) /\ a[k] = Lo(q[k])
      BY <1>15, <1>18, <2>4 DEF Reaches, Backwards, Forwards
    <3> QED
      BY <2>1, <2>2, <2>3, <2>4, <3>1
  <2>5. CASE command = "backspace"
    <3>1. b[k] = Hi(q[k]) /\ a[k + 1] + 1 >= Lo(q[k + 1])
      BY <1>15, <1>18, <2>5 DEF Reaches, Backwards, Forwards
    <3> QED
      BY <2>1, <2>2, <2>3, <2>5, <3>1
  <2>6. CASE command = "delete_fwd"
    <3>1. b[k] <= Hi(q[k]) + 1 /\ a[k + 1] = Lo(q[k + 1]) /\ a[k] = Lo(q[k])
      BY <1>15, <1>18, <2>6 DEF Reaches, Backwards, Forwards
    <3> QED
      BY <2>1, <2>2, <2>3, <2>6, <3>1
  <2>7. CASE command \in OnWordsOrLines
    <3>1. PICK x : x = <<a[k], b[k]>>
      OBVIOUS
    <3>2. PICK y : y = <<a[k + 1], b[k + 1]>>
      OBVIOUS
    <3>3. x \in Ranges(command) /\ y \in Ranges(command)
      BY <1>5, <1>7, <1>15, <1>18, <3>1, <3>2 DEF Ranges
    <3>4. \/ b[k] = Hi(q[k]) /\ b[k + 1] = Hi(q[k + 1])
          \/ a[k] = Lo(q[k]) /\ a[k + 1] = Lo(q[k + 1])
      BY <1>15, <1>18, <2>7 DEF Reaches, Backwards, Forwards, OnWordsOrLines
    <3>5. x # y
      BY <2>1, <2>2, <2>3, <3>1, <3>2, <3>4
    <3>6. b[k] < a[k + 1] \/ b[k + 1] < a[k]
      BY <2>7, <3>1, <3>2, <3>3, <3>5 DEF Independent, RangesApart
    <3>7. b[k] < a[k + 1]
      BY <2>1, <2>2, <2>3, <3>4, <3>6
    <3>8. command # "backspace"
      BY <2>7 DEF OnWordsOrLines
    <3> QED
      BY <2>1, <2>2, <2>3, <3>7, <3>8
  <2> QED
    BY <2>4, <2>5, <2>6, <2>7 DEF Commands, Deletions, OnWordsOrLines
<1>19. ASSUME NEW k \in 1 .. n
       PROVE  /\ a[k] \in Nat /\ b[k] \in Nat
              /\ b[k - 1] <= a[k] /\ a[k] <= b[k] /\ b[k] <= Len(text)
  <2>1. a[k] \in Nat /\ b[k] \in Nat /\ a[k] <= b[k] /\ b[k] <= Len(text)
    BY <1>10, <1>16
  <2>2. CASE k = 1
    BY <1>17, <2>1, <2>2
  <2>3. CASE k # 1
    <3>1. k - 1 \in 1 .. n /\ (k - 1) + 1 = k
      BY <1>5, <2>3
    <3>2. b[k - 1] <= a[(k - 1) + 1]
      BY <1>18, <3>1
    <3> QED
      BY <2>1, <3>1, <3>2
  <2> QED
    BY <2>2, <2>3
<1>20. InTurn(a, b, n, Len(text))
  BY <1>17, <1>19 DEF InTurn
<1>21. RangesAre(a, b, q, command)
  BY <1>6, <1>15 DEF RangesAre
<1>22. Spaced(a, b, q, command)
  <2>1. \A k \in 1 .. n - 1 : k \in 1 .. n /\ k + 1 \in 1 .. n
    BY <1>5
  <2> QED
    BY <1>6, <1>18, <2>1 DEF Spaced
<1> QED
  BY <1>1, <1>2, <1>20, <1>21, <1>22

-----------------------------------------------------------------------------
(* The batch goes over the text once.                                      *)

Growing == INSTANCE FoldFacts WITH
    Op <- LAMBDA k, g, i : (g \o SubSeq(k.text, k.b[i - 1] + 1, k.a[i])) \o k.new

\* g[i] is what the first i ranges, and what lies before and between them, become.
Built(g, t, a, b, new, n) ==
    /\ g[0] = <<>>
    /\ \A i \in 1 .. n : g[i] = (g[i - 1] \o SubSeq(t, b[i - 1] + 1, a[i])) \o new

\* What is to be built exists, for any ranges.
LEMMA BuiltExists ==
  ASSUME NEW t, NEW a, NEW b, NEW new, NEW n \in Nat
  PROVE  \E g : Built(g, t, a, b, new, n)
<1>1. PICK k : k = [text |-> t, a |-> a, b |-> b, new |-> new]
  OBVIOUS
<1>2. k.text = t /\ k.a = a /\ k.b = b /\ k.new = new
  BY <1>1
<1>3. PICK q : q = [i \in 1 .. n |-> i]
  OBVIOUS
<1>4. q \in Seq(Nat) /\ Len(q) = n /\ \A i \in 1 .. n : q[i] = i
  BY <1>3
<1>5. PICK g : Growing!Trace(g, k, <<>>, q)
  BY <1>4, Growing!FoldTrace
<1>6. ASSUME NEW i \in 1 .. n
      PROVE  g[i] = (g[i - 1] \o SubSeq(t, b[i - 1] + 1, a[i])) \o new
  <2>1. g[i] = (g[i - 1] \o SubSeq(k.text, k.b[q[i] - 1] + 1, k.a[q[i]])) \o k.new
    BY <1>4, <1>5 DEF Growing!Trace
  <2> QED
    BY <1>2, <1>4, <2>1
<1>7. g[0] = <<>>
  BY <1>5 DEF Growing!Trace
<1> QED
  BY <1>6, <1>7 DEF Built

\* One more range.
LEMMA GrownTyped ==
  ASSUME NEW t \in Text, NEW g \in Text, NEW new \in Text,
         NEW m \in 0 .. Len(t), NEW a \in 0 .. Len(t), m <= a,
         NEW next, next = (g \o SubSeq(t, m + 1, a)) \o new
  PROVE  next \in Text /\ Len(next) = Len(g) + (a - m) + Len(new)
<1>1. PICK s : s = SubSeq(t, m + 1, a)
  OBVIOUS
<1>2. s \in Text /\ Len(s) = a - m
  BY <1>1, PartTyped
<1>3. PICK x : x = g \o s
  OBVIOUS
<1>4. x \in Text /\ Len(x) = Len(g) + (a - m) /\ Len(g) \in Nat
  <2>1. x \in Text /\ Len(x) = Len(g) + Len(s) /\ Len(g) \in Nat
    BY <1>2, <1>3, JoinTyped
  <2> QED
    BY <1>2, <2>1
<1>5. PICK y : y = x \o new
  OBVIOUS
<1>6. y \in Text /\ Len(y) = Len(g) + (a - m) + Len(new)
  <2>1. y \in Text /\ Len(y) = Len(x) + Len(new)
    BY <1>4, <1>5, JoinTyped
  <2> QED
    BY <1>4, <2>1
<1> QED
  BY <1>1, <1>3, <1>4, <1>5, <1>6

\* What is built are texts.
LEMMA BuiltTyped ==
  ASSUME NEW t \in Text, NEW new \in Text, NEW n \in Nat, NEW a, NEW b, InTurn(a, b, n, Len(t)),
         NEW g, Built(g, t, a, b, new, n)
  PROVE  /\ \A i \in 0 .. n : g[i] \in Text
         /\ \A i \in 1 .. n : Len(g[i]) = Len(g[i - 1]) + (a[i] - b[i - 1]) + Len(new)
<1>1. Len(t) \in Nat
  BY DEF Text
<1>2. PICK I : I = {i \in Nat : i <= n => g[i] \in Text}
  OBVIOUS
<1>3. 0 \in I
  <2>1. g[0] = <<>> /\ <<>> \in Text
    BY DEF Built, Text
  <2> QED
    BY <1>2, <2>1
<1>4. ASSUME NEW i \in 1 .. n
      PROVE  a[i] \in 0 .. Len(t) /\ b[i - 1] \in 0 .. Len(t) /\ b[i - 1] <= a[i]
  <2>1. a[i] \in Nat /\ b[i] \in Nat /\ b[i - 1] <= a[i] /\ a[i] <= b[i] /\ b[i] <= Len(t)
    BY DEF InTurn
  <2>2. b[i - 1] \in Nat
    <3>1. CASE i = 1
      BY <3>1 DEF InTurn
    <3>2. CASE i # 1
      <4>1. i - 1 \in 1 .. n
        BY <3>2
      <4> QED
        BY <4>1 DEF InTurn
    <3> QED
      BY <3>1, <3>2
  <2> QED
    BY <1>1, <2>1, <2>2
<1>5. ASSUME NEW i \in Nat, i \in I PROVE i + 1 \in I
  <2>1. CASE i + 1 <= n
    <3>1. i + 1 \in 1 .. n /\ (i + 1) - 1 = i /\ i <= n
      BY <2>1
    <3>2. g[i + 1] = (g[i] \o SubSeq(t, b[i] + 1, a[i + 1])) \o new
      BY <3>1 DEF Built
    <3>3. a[i + 1] \in 0 .. Len(t) /\ b[i] \in 0 .. Len(t) /\ b[i] <= a[i + 1]
      BY <1>4, <3>1
    <3>4. g[i] \in Text
      BY <1>2, <1>5, <3>1
    <3>5. g[i + 1] \in Text
      <4>1. PICK x \in Text, lo \in 0 .. Len(t), hi \in 0 .. Len(t) :
               x = g[i] /\ lo = b[i] /\ hi = a[i + 1] /\ lo <= hi
        BY <3>3, <3>4
      <4>2. PICK y : y = g[i + 1]
        OBVIOUS
      <4>3. y = (x \o SubSeq(t, lo + 1, hi)) \o new
        BY <3>2, <4>1, <4>2
      <4>4. y \in Text
        BY <4>1, <4>3, GrownTyped
      <4> QED
        BY <4>2, <4>4
    <3> QED
      BY <1>2, <3>5
  <2>2. CASE ~(i + 1 <= n)
    BY <1>2, <2>2
  <2> QED
    BY <2>1, <2>2
<1>6. Nat \subseteq I
  BY <1>3, <1>5, Growing!SetInduction
<1>7. \A i \in 0 .. n : g[i] \in Text
  BY <1>2, <1>6
<1>8. ASSUME NEW i \in 1 .. n
      PROVE  Len(g[i]) = Len(g[i - 1]) + (a[i] - b[i - 1]) + Len(new)
  <2>1. g[i - 1] \in Text
    BY <1>7
  <2>2. g[i] = (g[i - 1] \o SubSeq(t, b[i - 1] + 1, a[i])) \o new
    BY DEF Built
  <2>3. PICK x \in Text, lo \in 0 .. Len(t), hi \in 0 .. Len(t) :
           x = g[i - 1] /\ lo = b[i - 1] /\ hi = a[i] /\ lo <= hi
    BY <1>4, <2>1
  <2>4. PICK y : y = g[i]
    OBVIOUS
  <2>5. y = (x \o SubSeq(t, lo + 1, hi)) \o new
    BY <2>2, <2>3, <2>4
  <2>6. Len(y) = Len(x) + (hi - lo) + Len(new)
    BY <2>3, <2>5, GrownTyped
  <2> QED
    BY <2>3, <2>4, <2>6
<1> QED
  BY <1>7, <1>8

\* Replacing the next range in what has been done so far.
LEMMA SplicedGoesOn ==
  ASSUME NEW t \in Text, NEW g \in Text, NEW new \in Text, NEW m \in 0 .. Len(t),
         NEW a \in 0 .. Len(t), NEW b \in 0 .. Len(t), m <= a, a <= b,
         NEW u, GoesOn(u, g, t, m)
  PROVE  GoesOn(Splice(u, a + (Len(g) - m), b + (Len(g) - m), new),
                (g \o SubSeq(t, m + 1, a)) \o new, t, b)
<1>1. PICK d : d = Len(g) - m
  OBVIOUS
<1>2. /\ u \in Text /\ Len(u) = Len(t) + d /\ Len(g) \in Nat /\ Len(t) \in Nat
      /\ \A i \in 1 .. Len(g) : u[i] = g[i]
      /\ \A i \in m + 1 .. Len(t) : u[i + d] = t[i]
  <2>1. /\ u \in Text /\ Len(u) = Len(g) + (Len(t) - m) /\ Len(g) \in Nat /\ Len(t) \in Nat
        /\ \A i \in 1 .. Len(g) : u[i] = g[i]
        /\ \A i \in m + 1 .. Len(t) : u[i + (Len(g) - m)] = t[i]
    BY GoesOnFacts
  <2> QED
    BY <1>1, <2>1
<1>3. d \in Int /\ a + d \in 0 .. Len(u) /\ b + d \in 0 .. Len(u) /\ Len(u) \in Nat
      /\ m + d = Len(g)
  BY <1>1, <1>2
<1>4. SubSeq(u, 1, a + d) = g \o SubSeq(t, m + 1, a)
  <2>1. PICK s : s = SubSeq(t, m + 1, a)
    OBVIOUS
  <2>2. s \in Text /\ Len(s) = a - m /\ \A i \in 1 .. a - m : s[i] = t[m + i]
    BY <2>1, PartTyped
  <2>3. PICK y : y = g \o s
    OBVIOUS
  <2>4. /\ y \in Text /\ Len(y) = a + d
        /\ \A i \in 1 .. Len(g) : y[i] = g[i]
        /\ \A i \in 1 .. Len(s) : y[Len(g) + i] = s[i]
    <3>1. y \in Text /\ Len(y) = Len(g) + Len(s)
      BY <2>2, <2>3, JoinTyped
    <3>2. /\ \A i \in 1 .. Len(g) : y[i] = g[i]
          /\ \A i \in 1 .. Len(s) : y[Len(g) + i] = s[i]
      BY <2>2, <2>3, JoinTyped
    <3>3. Len(y) = a + d
      <4>1. a \in Int /\ m \in Int /\ d \in Int /\ Len(g) = m + d
        BY <1>3
      <4>2. Len(y) = Len(g) + (a - m)
        BY <2>2, <3>1
      <4> QED
        BY <4>1, <4>2
    <3> QED
      BY <3>1, <3>2, <3>3
  <2>5. PICK x : x = SubSeq(u, 0 + 1, a + d)
    OBVIOUS
  <2>6. x \in Text /\ Len(x) = a + d /\ \A i \in 1 .. a + d : x[i] = u[i]
    <3>1. 0 \in 0 .. Len(u) /\ 0 <= a + d /\ (a + d) - 0 = a + d
      BY <1>3
    <3>2. x \in Text /\ Len(x) = (a + d) - 0 /\ \A i \in 1 .. (a + d) - 0 : x[i] = u[0 + i]
      BY <1>2, <1>3, <2>5, <3>1, PartTyped
    <3> QED
      BY <3>1, <3>2
  <2>7. ASSUME NEW i \in 1 .. a + d PROVE x[i] = y[i]
    <3>1. CASE i <= Len(g)
      <4>1. i \in 1 .. Len(g)
        BY <1>2, <3>1
      <4> QED
        BY <1>2, <2>4, <2>6, <4>1
    <3>2. CASE i > Len(g)
      <4>1. PICK j : j = i - Len(g)
        OBVIOUS
      <4>2. j \in 1 .. Len(s) /\ i = Len(g) + j /\ m + j \in m + 1 .. Len(t) /\ (m + j) + d = i
        <5>1. j \in Nat /\ j >= 1 /\ i = Len(g) + j /\ i <= a + d
          BY <1>2, <1>3, <3>2, <4>1
        <5>2. j <= a - m /\ (m + j) + d = i
          BY <1>2, <1>3, <5>1
        <5>3. m + j <= Len(t) /\ m + j \in Nat /\ Len(s) = a - m
          BY <1>2, <2>2, <5>1, <5>2
        <5> QED
          BY <1>2, <5>1, <5>2, <5>3
      <4>3. y[i] = t[m + j]
        BY <2>2, <2>4, <4>2
      <4>4. u[i] = t[m + j]
        BY <1>2, <4>2
      <4> QED
        BY <2>6, <4>3, <4>4
    <3> QED
      BY <1>2, <3>1, <3>2
  <2>8. x = y
    <3>1. Len(x) = Len(y) /\ \A i \in 1 .. Len(x) : x[i] = y[i]
      BY <2>4, <2>6, <2>7
    <3> QED
      BY <2>4, <2>6, <3>1, SameText
  <2>9. SubSeq(u, 1, a + d) = x
    BY <2>5
  <2> QED
    BY <2>1, <2>3, <2>8, <2>9
<1>5. SubSeq(u, (b + d) + 1, Len(u)) = SubSeq(t, b + 1, Len(t))
  <2>1. PICK x : x = SubSeq(u, (b + d) + 1, Len(u))
    OBVIOUS
  <2>2. PICK y : y = SubSeq(t, b + 1, Len(t))
    OBVIOUS
  <2>3. PICK l : l = Len(t) - b
    OBVIOUS
  <2>4. x \in Text /\ Len(x) = l /\ \A i \in 1 .. l : x[i] = u[(b + d) + i]
    <3>1. Len(u) \in 0 .. Len(u) /\ b + d <= Len(u) /\ Len(u) - (b + d) = l
      BY <1>2, <1>3, <2>3
    <3> QED
      BY <1>2, <1>3, <2>1, <3>1, PartTyped
  <2>5. y \in Text /\ Len(y) = l /\ \A i \in 1 .. l : y[i] = t[b + i]
    <3>1. Len(t) \in 0 .. Len(t) /\ b <= Len(t)
      BY <1>2
    <3> QED
      BY <2>2, <2>3, <3>1, PartTyped
  <2>6. ASSUME NEW i \in 1 .. l PROVE x[i] = y[i]
    <3>1. b + i \in m + 1 .. Len(t) /\ (b + i) + d = (b + d) + i
      BY <1>2, <1>3, <2>3
    <3> QED
      BY <1>2, <2>4, <2>5, <3>1
  <2>7. x = y
    BY <2>4, <2>5, <2>6, SameText
  <2> QED
    BY <2>1, <2>2, <2>7
<1>6. Splice(u, a + d, b + d, new) = ((g \o SubSeq(t, m + 1, a)) \o new) \o SubSeq(t, b + 1, Len(t))
  BY <1>4, <1>5 DEF Splice
<1> QED
  BY <1>1, <1>6 DEF GoesOn

\* One edit of the batch, of a cursor that acts or has nothing to do.
StepOf(command, t, g, new, m, a, b, batch, c, i, next, done) ==
    /\ command \in Commands /\ t \in Text /\ g \in Text /\ new \in Text
    /\ m \in 0 .. Len(t) /\ a \in 0 .. Len(t) /\ b \in 0 .. Len(t) /\ m <= a /\ a <= b
    /\ batch \in Batch /\ GoesOn(batch.text, g, t, m) /\ batch.delta = Len(g) - m
    /\ c \in CursorRecord /\ RangeNow(command, batch, c) = <<a + (Len(g) - m), b + (Len(g) - m)>>
    /\ ~Acts(command, c, <<a, b>>) => new = <<>>
    /\ next \in Text /\ next = (g \o SubSeq(t, m + 1, a)) \o new
    /\ Len(next) = Len(g) + (a - m) + Len(new)
    /\ done = EditAt(command, batch, c, i, new)

StepMade(command, t, a, b, batch, c, i, next, done) ==
    /\ GoesOn(done.text, next, t, b) /\ done.delta = Len(next) - b
    /\ done.cursors = IF Acts(command, c, <<a, b>>)
                      THEN [batch.cursors EXCEPT ![i] = Caret(Len(next))]
                      ELSE batch.cursors

\* One edit in the text as it is by then: what is built grows by its range.
LEMMA OneEdit ==
  ASSUME NEW command, NEW t, NEW g, NEW new, NEW m, NEW a, NEW b, NEW batch, NEW c, NEW i,
         NEW next, NEW done, StepOf(command, t, g, new, m, a, b, batch, c, i, next, done)
  PROVE  StepMade(command, t, a, b, batch, c, i, next, done)
<1>0. /\ command \in Commands /\ t \in Text /\ g \in Text /\ new \in Text
      /\ m \in 0 .. Len(t) /\ a \in 0 .. Len(t) /\ b \in 0 .. Len(t) /\ m <= a /\ a <= b
      /\ batch \in Batch /\ GoesOn(batch.text, g, t, m) /\ batch.delta = Len(g) - m
      /\ c \in CursorRecord /\ RangeNow(command, batch, c) = <<a + (Len(g) - m), b + (Len(g) - m)>>
      /\ ~Acts(command, c, <<a, b>>) => new = <<>>
      /\ next \in Text /\ next = (g \o SubSeq(t, m + 1, a)) \o new
      /\ Len(next) = Len(g) + (a - m) + Len(new)
      /\ done = EditAt(command, batch, c, i, new)
  BY DEF StepOf
<1> USE <1>0
<1>1. PICK d : d = Len(g) - m
  OBVIOUS
<1>2. Len(g) \in Nat /\ Len(t) \in Nat /\ Len(new) \in Nat /\ d \in Int
  BY <1>1 DEF Text
<1>3. next \in Text /\ Len(next) = Len(g) + (a - m) + Len(new)
  OBVIOUS
<1>4. Acts(command, c, <<a + d, b + d>>) <=> Acts(command, c, <<a, b>>)
  BY <1>2 DEF Acts
<1>5. done = IF Acts(command, c, <<a, b>>)
             THEN [text    |-> Splice(batch.text, a + d, b + d, new),
                   delta   |-> batch.delta - ((b + d) - (a + d)) + Len(new),
                   cursors |-> [batch.cursors EXCEPT ![i] = Caret(a + d + Len(new))]]
             ELSE batch
  <2>1. PICK x : x = a + d
    OBVIOUS
  <2>2. PICK y : y = b + d
    OBVIOUS
  <2>3. RangeNow(command, batch, c) = <<x, y>>
    BY <1>1, <2>1, <2>2
  <2>4. EditAt(command, batch, c, i, new) =
           IF Acts(command, c, <<x, y>>)
           THEN [text    |-> Splice(batch.text, x, y, new),
                 delta   |-> batch.delta - (y - x) + Len(new),
                 cursors |-> [batch.cursors EXCEPT ![i] = Caret(x + Len(new))]]
           ELSE batch
    BY <2>3, EditAtCases
  <2> QED
    BY <1>4, <2>1, <2>2, <2>4
<1>6. GoesOn(Splice(batch.text, a + d, b + d, new), next, t, b)
  BY <1>1, SplicedGoesOn
<1>7. CASE Acts(command, c, <<a, b>>)
  <2>1. done.text = Splice(batch.text, a + d, b + d, new)
    BY <1>5, <1>7
  <2>2. done.delta = batch.delta - ((b + d) - (a + d)) + Len(new)
    BY <1>5, <1>7
  <2>3. done.cursors = [batch.cursors EXCEPT ![i] = Caret(a + d + Len(new))]
    BY <1>5, <1>7
  <2>4. a + d + Len(new) = Len(next)
    BY <1>1, <1>2, <1>3
  <2>5. done.delta = Len(next) - b
    <3>1. batch.delta = d /\ d = Len(g) - m
      BY <1>1
    <3>2. done.delta = d - ((b + d) - (a + d)) + Len(new)
      BY <2>2, <3>1
    <3>3. a \in Int /\ b \in Int /\ m \in Int /\ Len(g) \in Int /\ Len(new) \in Int
      BY <1>2
    <3>4. done.delta = ((Len(g) - m) - (b - a)) + Len(new)
      BY <3>1, <3>2, <3>3
    <3>5. PICK x \in Int, y \in Int : x = Len(g) /\ y = Len(new)
      BY <3>3
    <3>6. Len(next) - b = (x + (a - m) + y) - b
      BY <1>3, <3>5
    <3>7. done.delta = ((x - m) - (b - a)) + y
      BY <3>4, <3>5
    <3> QED
      BY <3>3, <3>6, <3>7
  <2> QED
    BY <1>6, <1>7, <2>1, <2>3, <2>4, <2>5 DEF StepMade
<1>8. CASE ~Acts(command, c, <<a, b>>)
  <2>1. done = batch /\ new = <<>> /\ a = b
    BY <1>5, <1>8 DEF Acts
  <2>2. Splice(batch.text, a + d, b + d, new) = batch.text
    <3>1. PICK u : u = batch.text
      OBVIOUS
    <3>2. u \in Text /\ Len(u) = Len(t) + d
      <4>1. u \in Text /\ Len(u) = Len(g) + (Len(t) - m)
        <5>1. GoesOn(u, g, t, m)
          BY <3>1
        <5> QED
          BY <5>1, GoesOnFacts
      <4> QED
        BY <1>1, <1>2, <4>1
    <3>3. PICK x : x = a + d
      OBVIOUS
    <3>4. x \in 0 .. Len(u) /\ Len(u) \in 0 .. Len(u) /\ x <= Len(u) /\ 0 \in 0 .. Len(u) /\ 0 <= x
      BY <1>1, <1>2, <3>2, <3>3
    <3>5. PICK p : p = SubSeq(u, 1, x)
      OBVIOUS
    <3>6. p \in Text /\ Len(p) = x /\ \A j \in 1 .. x : p[j] = u[j]
      <4>1. /\ SubSeq(u, 0 + 1, x) \in Text /\ Len(SubSeq(u, 0 + 1, x)) = x - 0
            /\ \A j \in 1 .. x - 0 : SubSeq(u, 0 + 1, x)[j] = u[0 + j]
        BY <3>2, <3>4, PartTyped
      <4> QED
        BY <3>4, <3>5, <4>1
    <3>7. PICK r : r = SubSeq(u, x + 1, Len(u))
      OBVIOUS
    <3>8. r \in Text /\ Len(r) = Len(u) - x /\ \A j \in 1 .. Len(u) - x : r[j] = u[x + j]
      BY <3>2, <3>4, <3>7, PartTyped
    <3>9. p \o <<>> = p
      <4>1. p \in Seq(Chars)
        BY <3>6 DEF Text
      <4> QED
        BY <4>1, ConcatEmptySeq
    <3>10. PICK w : w = p \o r
      OBVIOUS
    <3>11. w \in Text /\ Len(w) = Len(u)
           /\ (\A j \in 1 .. x : w[j] = p[j]) /\ (\A j \in 1 .. Len(r) : w[x + j] = r[j])
      <4>1. /\ w \in Text /\ Len(w) = Len(p) + Len(r)
            /\ \A j \in 1 .. Len(p) : w[j] = p[j]
            /\ \A j \in 1 .. Len(r) : w[Len(p) + j] = r[j]
        <5>1. p \in Text /\ r \in Text
          BY <3>6, <3>8
        <5>2. /\ p \o r \in Text /\ Len(p \o r) = Len(p) + Len(r)
              /\ \A j \in 1 .. Len(p) : (p \o r)[j] = p[j]
              /\ \A j \in 1 .. Len(r) : (p \o r)[Len(p) + j] = r[j]
          BY <5>1, JoinTyped, Zenon
        <5> QED
          BY <3>10, <5>2
      <4> QED
        BY <3>4, <3>6, <3>8, <4>1
    <3>12. ASSUME NEW j \in 1 .. Len(u) PROVE w[j] = u[j]
      <4>1. CASE j <= x
        <5>1. j \in 1 .. x
          BY <3>4, <4>1
        <5> QED
          BY <3>6, <3>11, <5>1
      <4>2. CASE j > x
        <5>1. PICK k : k = j - x
          OBVIOUS
        <5>2. k \in 1 .. Len(r) /\ j = x + k
          BY <3>4, <3>8, <4>2, <5>1
        <5> QED
          BY <3>8, <3>11, <5>2
      <4> QED
        BY <3>4, <4>1, <4>2
    <3>13. w = u
      BY <3>2, <3>11, <3>12, SameText
    <3> QED
      BY <2>1, <3>1, <3>3, <3>5, <3>7, <3>9, <3>10, <3>13 DEF Splice
  <2>3. Len(new) = 0
    BY <2>1
  <2>4. done.delta = Len(next) - b
    BY <1>2, <1>3, <2>1, <2>3
  <2> QED
    BY <1>6, <1>8, <2>1, <2>2, <2>4 DEF StepMade
<1> QED
  BY <1>7, <1>8

\* Nothing has been done before the first range.
LEMMA NothingDone ==
  ASSUME NEW t \in Text, NEW u
  PROVE  /\ GoesOn(t, <<>>, t, 0)
         /\ GoesOn(u, <<>>, t, 0) => u = t
<1>1. t \in Seq(Chars) /\ Len(t) \in Nat
  BY DEF Text
<1>2. PICK s : s = SubSeq(t, 0 + 1, Len(t))
  OBVIOUS
<1>3. s \in Text /\ Len(s) = Len(t) /\ \A i \in 1 .. Len(t) : s[i] = t[i]
  <2>1. PICK z : z = 0
    OBVIOUS
  <2>2. z \in 0 .. Len(t) /\ Len(t) \in 0 .. Len(t) /\ z <= Len(t)
    BY <1>1, <2>1
  <2>3. s = SubSeq(t, z + 1, Len(t))
    BY <1>2, <2>1
  <2>4. s \in Text /\ Len(s) = Len(t) - z /\ \A i \in 1 .. Len(t) - z : s[i] = t[z + i]
    BY <1>1, <2>2, <2>3, PartTyped
  <2> QED
    BY <1>1, <2>1, <2>4
<1>4. s = t
  BY <1>3, SameText
<1>5. <<>> \o s = s
  BY <1>1, <1>4, ConcatEmptySeq
<1> QED
  BY <1>2, <1>4, <1>5 DEF GoesOn

\* Where a cursor acts after the edits to its left is where it would act in
\* the text as it was, moved by what they have added and removed.
LEMMA RangeMoves ==
  ASSUME text \in Text, NEW command \in Commands, NEW g \in Text, NEW m \in 0 .. Len(text),
         NEW batch \in Batch, GoesOn(batch.text, g, text, m), batch.delta = Len(g) - m,
         NEW c \in CursorRecord, Within(c, Len(text)), m <= Lo(c),
         NEW a, NEW b, RangeOf(command, c) = <<a, b>>,
         \/ g = <<>> /\ m = 0
         \/ /\ command = "backspace" => m < Lo(c)
            /\ command \in {"delete_word_back", "delete_to_line_start"} => m < a
  PROVE  RangeNow(command, batch, c) = <<a + (Len(g) - m), b + (Len(g) - m)>>
<1>1. PICK d : d = Len(g) - m
  OBVIOUS
<1>2. PICK u : u = batch.text
  OBVIOUS
<1>3. /\ Len(g) \in Nat /\ Len(text) \in Nat /\ d \in Int /\ Len(u) = Len(text) + d
      /\ m + d = Len(g) /\ Len(u) \in Nat
  <2>1. GoesOn(u, g, text, m)
    BY <1>2
  <2>2. u \in Text /\ Len(u) = Len(g) + (Len(text) - m) /\ Len(g) \in Nat /\ Len(text) \in Nat
    BY <2>1, GoesOnFacts
  <2>3. Len(u) \in Nat
    BY <2>2 DEF Text
  <2> QED
    BY <1>1, <2>2, <2>3
<1>4. /\ c.head \in Nat /\ c.tail \in Nat /\ Lo(c) \in Nat /\ Hi(c) \in Nat /\ Lo(c) <= Hi(c)
      /\ Lo(c) <= Len(text) /\ Hi(c) <= Len(text)
  <2>1. c.head \in Nat /\ c.tail \in Nat /\ c.head <= Len(text) /\ c.tail <= Len(text)
    BY CursorFacts DEF Within
  <2> QED
    BY <1>3, <2>1, CursorFacts DEF Lo, Hi, Lesser, Most
<1>5. ASSUME NEW pos \in m .. Len(text) PROVE ApplyDelta(pos, d, Len(u)) = pos + d
  <2>1. pos + d >= 0 /\ pos + d <= Len(u) /\ pos + d \in Int
    BY <1>3
  <2> QED
    BY <1>3, <2>1 DEF ApplyDelta, Lesser, Most
<1>6. Lo(c) \in m .. Len(text) /\ Hi(c) \in m .. Len(text)
  BY <1>3, <1>4
<1>7. CASE HasSel(c)
  <2>1. RangeNow(command, batch, c) = <<ApplyDelta(Lo(c), d, Len(u)), ApplyDelta(Hi(c), d, Len(u))>>
    BY <1>1, <1>2, <1>7 DEF RangeNow
  <2>2. RangeNow(command, batch, c) = <<Lo(c) + d, Hi(c) + d>>
    BY <1>5, <1>6, <2>1
  <2>3. a = Lo(c) /\ b = Hi(c)
    BY <1>7 DEF RangeOf
  <2> QED
    BY <1>1, <2>2, <2>3
<1>8. CASE ~HasSel(c)
  <2>1. PICK p : p = c.head
    OBVIOUS
  <2>2. p = Lo(c) /\ p \in m .. Len(text)
    <3>1. Lo(c) = p
      BY <1>8, <2>1, CursorFacts
    <3> QED
      BY <1>6, <3>1
  <2>3. Reach(command, text, p) = <<a, b>>
    BY <1>8, <2>1 DEF RangeOf
  <2>4. RangeNow(command, batch, c) = Reach(command, u, p + d)
    <3>1. RangeNow(command, batch, c) = Reach(command, u, ApplyDelta(p, d, Len(u)))
      BY <1>1, <1>2, <1>8, <2>1 DEF RangeNow
    <3> QED
      BY <1>5, <2>2, <3>1
  <2>5. CASE g = <<>> /\ m = 0
    <3>1. d = 0
      BY <1>1, <2>5
    <3>2. u = text
      BY <1>2, <2>5, NothingDone
    <3>3. p + d = p /\ p \in Nat
      BY <1>3, <2>2, <3>1
    <3>4. RangeNow(command, batch, c) = <<a, b>>
      BY <2>3, <2>4, <3>2, <3>3
    <3>5. PICK x \in Nat, y \in Nat : Reach(command, text, p) = <<x, y>>
      <4>1. p \in 0 .. Len(text)
        BY <1>3, <2>2
      <4>2. PICK x \in 0 .. p, y \in p .. Len(text) : Reach(command, text, p) = <<x, y>>
        BY <1>3, <4>1, ReachTyped
      <4>3. x \in Nat /\ y \in Nat
        BY <1>3, <3>3
      <4> QED
        BY <4>2, <4>3
    <3>6. a \in Nat /\ b \in Nat
      BY <2>3, <3>5
    <3>7. a + d = a /\ b + d = b
      BY <3>1, <3>6
    <3> QED
      BY <1>1, <3>4, <3>7
  <2>6. CASE /\ command = "backspace" => m < Lo(c)
             /\ command \in {"delete_word_back", "delete_to_line_start"} => m < a
    <3>1. GoesOn(u, g, text, m)
      BY <1>2
    <3>2. command = "backspace" => p > m
      BY <1>3, <2>2, <2>6
    <3>3. command \in {"delete_word_back", "delete_to_line_start"} => a > m
      BY <2>6
    <3>4. Reach(command, u, p + (Len(g) - m)) = <<a + (Len(g) - m), b + (Len(g) - m)>>
      BY <2>2, <2>3, <3>1, <3>2, <3>3, ReachShifts
    <3> QED
      BY <1>1, <2>4, <3>4
  <2> QED
    BY <2>5, <2>6
<1> QED
  BY <1>7, <1>8

\* The first i cursors from the left have been edited: their ranges are
\* replaced, the carets of those that acted are behind what replaced them, and
\* nothing else has changed.
Arrived(h, i, g, a, b, command) ==
    LET q == FromLeft(cursors)
        o == CursorOrder(cursors)
    IN  /\ GoesOn(h[i].text, g[i], text, b[i])
        /\ h[i].delta = Len(g[i]) - b[i]
        /\ \A k \in 1 .. Len(cursors) :
              h[i].cursors[o[k]] = IF k <= i /\ Acts(command, q[k], <<a[k], b[k]>>)
                                   THEN Caret(Len(g[k])) ELSE q[k]

\* However far the batch has come, its text is what is built so far, and then the
\* text as it was.
LEMMA BatchInTurn ==
  ASSUME Typed, NEW command \in Commands, InText(cursors, text),
         NEW new \in Text, command # "insert" => new = <<>>,
         NEW a, NEW b, InTurn(a, b, Len(cursors), Len(text)),
         RangesAre(a, b, FromLeft(cursors), command), Spaced(a, b, FromLeft(cursors), command),
         NEW g, Built(g, text, a, b, new, Len(cursors)),
         NEW h, Edits(h, command, text, cursors, Everywhere(new))
  PROVE  \A i \in 0 .. Len(cursors) : Arrived(h, i, g, a, b, command)
<1>1. PICK n : n = Len(cursors)
  OBVIOUS
<1>2. PICK q : q = FromLeft(cursors)
  OBVIOUS
<1>3. PICK o : o = CursorOrder(cursors)
  OBVIOUS
<1>4. text \in Text /\ cursors \in Cursors /\ Len(text) \in Nat
  BY DEF Typed, Text
<1>5. n \in Nat /\ DOMAIN cursors = 1 .. n
  BY <1>1, <1>4 DEF Cursors
<1>6. q \in Cursors /\ Len(q) = n /\ \A k \in 1 .. n : q[k] \in CursorRecord
  <2>1. q \in Cursors /\ Len(q) = n
    BY <1>1, <1>2, <1>4, FromLeftFacts
  <2> QED
    BY <2>1 DEF Cursors
<1>7. \A k \in 1 .. n : o[k] \in 1 .. n /\ q[k] = cursors[o[k]]
  BY <1>1, <1>2, <1>3, <1>4, FromLeftFacts
<1>8. \A k, l \in 1 .. n : k # l => o[k] # o[l]
  <2>1. \A k, l \in 1 .. n : o[k] = o[l] => k = l
    BY <1>1, <1>3, <1>4, FromLeftFacts
  <2> QED
    BY <2>1
<1>9. \A i \in 0 .. n : g[i] \in Text
  BY <1>1, <1>4, <1>5, BuiltTyped
<1>10. \A i \in 1 .. n : Len(g[i]) = Len(g[i - 1]) + (a[i] - b[i - 1]) + Len(new)
  BY <1>1, <1>4, <1>5, BuiltTyped
<1>11. g[0] = <<>> /\ b[0] = 0
  BY DEF Built, InTurn
<1>12. Len(g[0]) = 0
  BY <1>11
<1>13. PICK I : I = {i \in Nat : i <= n => Arrived(h, i, g, a, b, command)}
  OBVIOUS
<1>14. 0 \in I
  <2>1. h[0].text = text /\ h[0].delta = 0 /\ h[0].cursors = cursors
    BY DEF Edits
  <2>2. GoesOn(h[0].text, g[0], text, b[0])
    BY <1>4, <1>11, <2>1, NothingDone
  <2>3. h[0].delta = Len(g[0]) - b[0]
    BY <1>11, <1>12, <2>1
  <2>4. \A k \in 1 .. n : ~(k <= 0) /\ h[0].cursors[o[k]] = q[k]
    BY <1>5, <1>7, <2>1
  <2>5. Arrived(h, 0, g, a, b, command)
    BY <1>1, <1>2, <1>3, <2>2, <2>3, <2>4 DEF Arrived
  <2> QED
    BY <1>13, <2>5
<1>15. ASSUME NEW i \in Nat, i \in I PROVE i + 1 \in I
  <2>1. CASE i + 1 <= n
    <3>1. PICK j : j = i + 1
      OBVIOUS
    <3>2. j \in 1 .. n /\ j - 1 = i /\ i \in 0 .. n /\ j = i + 1 /\ i \in Nat
      BY <1>5, <2>1, <3>1
    <3>3. Arrived(h, i, g, a, b, command)
      BY <1>13, <1>15, <3>2
    <3>4. PICK batch \in Batch : batch = h[i] /\ Len(batch.cursors) = n
      BY <1>1, <3>2 DEF Edits
    <3>5. PICK c \in CursorRecord : c = q[j]
      BY <1>6, <3>2
    <3>6. PICK lo, hi, m : lo = a[j] /\ hi = b[j] /\ m = b[i]
      OBVIOUS
    <3>7. /\ lo \in 0 .. Len(text) /\ hi \in 0 .. Len(text) /\ m \in 0 .. Len(text)
          /\ m <= lo /\ lo <= hi
      <4>1. lo \in Nat /\ hi \in Nat /\ m <= lo /\ lo <= hi /\ hi <= Len(text)
        BY <1>1, <3>2, <3>6 DEF InTurn
      <4>2. m \in Nat
        <5>1. CASE i = 0
          BY <1>11, <3>6, <5>1
        <5>2. CASE i # 0
          <6>1. i \in 1 .. n
            BY <3>2, <5>2
          <6> QED
            BY <1>1, <3>6, <6>1 DEF InTurn
        <5> QED
          BY <5>1, <5>2
      <4> QED
        BY <1>4, <4>1, <4>2
    <3>8. PICK x \in Text : x = g[i]
      BY <1>9, <3>2
    <3>9. PICK y \in Text : y = g[j]
      BY <1>5, <1>9, <3>2
    <3>10. y = (x \o SubSeq(text, m + 1, lo)) \o new
      BY <1>1, <3>2, <3>6, <3>8, <3>9 DEF Built
    <3>11. Len(y) = Len(x) + (lo - m) + Len(new)
      BY <1>10, <3>2, <3>6, <3>8, <3>9
    <3>12. GoesOn(batch.text, x, text, m) /\ batch.delta = Len(x) - m
      BY <3>3, <3>4, <3>6, <3>8 DEF Arrived
    <3>13. RangeOf(command, c) = <<lo, hi>> /\ Reaches(command, c, lo, hi)
      BY <1>2, <1>6, <3>2, <3>5, <3>6 DEF RangesAre
    <3>14. Within(c, Len(text))
      BY <1>5, <1>7, <3>2, <3>5 DEF InText
    <3>15. /\ m <= Lo(c)
           /\ \/ x = <<>> /\ m = 0
              \/ /\ command = "backspace" => m < Lo(c)
                 /\ command \in {"delete_word_back", "delete_to_line_start"} => m < lo
      <4>1. CASE i = 0
        <5>1. x = <<>> /\ m = 0
          BY <1>11, <3>6, <3>8, <4>1
        <5>2. Lo(c) \in Nat
          BY CursorFacts
        <5> QED
          BY <5>1, <5>2
      <4>2. CASE i # 0
        <5>1. i \in 1 .. n - 1
          BY <1>5, <3>2, <4>2
        <5>2. /\ b[i] <= Lo(q[i + 1])
              /\ command = "backspace" => b[i] < Lo(q[i + 1])
              /\ command \in {"delete_word_back", "delete_to_line_start"} => b[i] < a[i + 1]
          BY <1>2, <1>6, <5>1 DEF Spaced
        <5> QED
          BY <3>2, <3>5, <3>6, <5>2
      <4> QED
        BY <4>1, <4>2
    <3>16. RangeNow(command, batch, c) = <<lo + (Len(x) - m), hi + (Len(x) - m)>>
      BY <1>4, <3>7, <3>12, <3>13, <3>14, <3>15, RangeMoves
    <3>17. ~Acts(command, c, <<lo, hi>>) => new = <<>>
      BY DEF Acts
    <3>18. PICK at : at = o[j]
      OBVIOUS
    <3>19. PICK done : done = h[j]
      OBVIOUS
    <3>20. done = EditAt(command, batch, c, at, new)
      <4>1. h[j] = EditAt(command, h[j - 1], q[j], o[j], Everywhere(new)[j])
        BY <1>1, <1>2, <1>3, <3>2 DEF Edits
      <4>2. Everywhere(new)[j] = new
        BY <1>5, <3>2 DEF Everywhere
      <4> QED
        BY <3>2, <3>4, <3>5, <3>18, <3>19, <4>1, <4>2
    <3>21. /\ GoesOn(done.text, y, text, hi) /\ done.delta = Len(y) - hi
           /\ done.cursors = IF Acts(command, c, <<lo, hi>>)
                             THEN [batch.cursors EXCEPT ![at] = Caret(Len(y))]
                             ELSE batch.cursors
      <4>1. StepOf(command, text, x, new, m, lo, hi, batch, c, at, y, done)
        BY <1>4, <3>4, <3>5, <3>7, <3>8, <3>9, <3>10, <3>11, <3>12, <3>16, <3>17, <3>20 DEF StepOf
      <4>2. StepMade(command, text, lo, hi, batch, c, at, y, done)
        BY <4>1, OneEdit
      <4> QED
        BY <4>2 DEF StepMade
    <3>22. batch.cursors \in Seq(CursorRecord) /\ DOMAIN batch.cursors = 1 .. n
      BY <1>5, <3>4 DEF Batch, Cursors
    <3>23. \A k \in 1 .. n :
              batch.cursors[o[k]] = IF k <= i /\ Acts(command, q[k], <<a[k], b[k]>>)
                                    THEN Caret(Len(g[k])) ELSE q[k]
      BY <1>1, <1>2, <1>3, <3>3, <3>4 DEF Arrived
    <3>24. ASSUME NEW k \in 1 .. n
           PROVE  done.cursors[o[k]] = IF k <= j /\ Acts(command, q[k], <<a[k], b[k]>>)
                                       THEN Caret(Len(g[k])) ELSE q[k]
      <4>1. CASE k = j
        <5>1. ~(k <= i) /\ k <= j
          BY <3>2, <4>1
        <5>2. batch.cursors[at] = q[k] /\ o[k] = at /\ at \in 1 .. n
          BY <1>7, <3>18, <3>23, <4>1, <5>1
        <5>3. Acts(command, q[k], <<a[k], b[k]>>) <=> Acts(command, c, <<lo, hi>>)
          BY <3>5, <3>6, <4>1
        <5>4. CASE Acts(command, c, <<lo, hi>>)
          <6>1. done.cursors[at] = Caret(Len(y))
            BY <3>21, <3>22, <5>2, <5>4
          <6> QED
            BY <3>9, <4>1, <5>1, <5>2, <5>3, <5>4, <6>1
        <5>5. CASE ~Acts(command, c, <<lo, hi>>)
          <6>1. done.cursors = batch.cursors
            BY <3>21, <5>5
          <6> QED
            BY <5>2, <5>3, <5>5, <6>1
        <5> QED
          BY <5>4, <5>5
      <4>2. CASE k # j
        <5>1. k <= j <=> k <= i
          BY <3>2, <4>2
        <5>2. o[k] # at /\ o[k] \in 1 .. n
          BY <1>7, <1>8, <3>2, <3>18, <4>2
        <5>3. done.cursors[o[k]] = batch.cursors[o[k]]
          BY <3>21, <3>22, <5>2
        <5> QED
          BY <3>23, <5>1, <5>3
      <4> QED
        BY <4>1, <4>2
    <3>25. Arrived(h, j, g, a, b, command)
      <4>1. GoesOn(h[j].text, g[j], text, b[j]) /\ h[j].delta = Len(g[j]) - b[j]
        BY <3>6, <3>9, <3>19, <3>21
      <4>2. \A k \in 1 .. n :
              h[j].cursors[o[k]] = IF k <= j /\ Acts(command, q[k], <<a[k], b[k]>>)
                                   THEN Caret(Len(g[k])) ELSE q[k]
        BY <3>19, <3>24
      <4> QED
        BY <1>1, <1>2, <1>3, <4>1, <4>2 DEF Arrived
    <3> QED
      BY <1>13, <3>1, <3>25
  <2>2. CASE ~(i + 1 <= n)
    BY <1>13, <2>2
  <2> QED
    BY <2>1, <2>2
<1>16. Nat \subseteq I
  BY <1>14, <1>15, Editing!SetInduction
<1> QED
  BY <1>1, <1>5, <1>13, <1>16

-----------------------------------------------------------------------------
(* The cursors that an edit leaves.                                        *)

\* However the cursors stood before.
LEMMA EditedApart ==
  ASSUME Typed, NEW command \in Commands, NEW new \in Text
  PROVE  Separated(Edited(command, text, cursors, Everywhere(new)).cursors)
<1>1. PICK t \in Text, cs \in Cursors : t = text /\ cs = cursors
  BY DEF Typed
<1>2. PICK ins : ins = Everywhere(new)
  OBVIOUS
<1>3. \A i \in 1 .. Len(cs) : ins[i] \in Text
  BY <1>1, <1>2, EverywhereTyped
<1>4. PICK h : Edits(h, command, t, cs, ins)
  BY <1>3, EditedInTurn
<1>5. Len(cs) \in Nat
  BY DEF Cursors
<1>6. h[Len(cs)] \in Batch /\ Len(h[Len(cs)].cursors) = Len(cs)
  BY <1>4, <1>5 DEF Edits
<1>7. PICK d \in Cursors : d = h[Len(cs)].cursors
  BY <1>6 DEF Batch
<1>8. \A i \in 1 .. Len(d) : ~HasSel(d[i])
  BY <1>3, <1>4, <1>6, <1>7, EditedCarets
<1>9. PICK e : e = DedupCursors(d)
  OBVIOUS
<1>10. e \in Cursors /\ Apart(e)
  BY <1>8, <1>9, CaretsMerge, DedupTyped
<1>11. Edited(command, t, cs, ins).cursors = e
  <2>1. Edited(command, t, cs, ins) = [text |-> h[Len(cs)].text, cursors |-> e]
    BY <1>4, <1>7, <1>9 DEF Edits
  <2> QED
    BY <2>1
<1>12. Len(e) \in Nat /\ DOMAIN e = 1 .. Len(e) /\ \A i \in 1 .. Len(e) : e[i] \in CursorRecord
  BY <1>10 DEF Cursors
<1>13. \A i \in 1 .. Len(e) : Lo(e[i]) = e[i].head /\ Hi(e[i]) = e[i].head
  BY <1>10, <1>12, CursorFacts DEF Apart
<1>14. ASSUME NEW i \in 1 .. Len(e), NEW j \in 1 .. Len(e), i # j
       PROVE  Hi(e[i]) < Lo(e[j]) \/ Hi(e[j]) < Lo(e[i])
  <2>1. i < j \/ j < i
    BY <1>12, <1>14
  <2> QED
    BY <1>10, <1>13, <2>1 DEF Apart
<1>15. Separated(e)
  BY <1>12, <1>14 DEF Separated
<1> QED
  BY <1>1, <1>2, <1>11, <1>15

\* Going backwards there is nothing to remove only at the start of the text.
LEMMA SkipsAtStart ==
  ASSUME NEW t \in Text, NEW p \in 0 .. Len(t), NEW command \in Backwards,
         NEW a, NEW b, Reach(command, t, p) = <<a, b>>, ~(a < b)
  PROVE  p = 0
<1>1. Len(t) \in Nat /\ p \in Nat
  BY DEF Text
<1>2. command \in Commands
  BY DEF Backwards, Commands, Deletions
<1>3. SUFFICES ASSUME p > 0 PROVE FALSE
  BY <1>1
<1>4. Most(p - 1, 0) = p - 1
  BY <1>1, <1>3 DEF Most
<1>5. CASE command = "backspace"
  <2>1. a = p - 1 /\ b = p
    BY <1>4, <1>5 DEF Reach
  <2> QED
    BY <1>1, <2>1
<1>6. CASE command = "delete_word_back"
  <2>1. PICK e : e = LastIn(t, p, {"w"})
    OBVIOUS
  <2>2. e \in 0 .. p /\ (e = 0 \/ t[e] = "w")
    BY <1>1, <2>1, LastInIs DEF IsLastIn
  <2>3. PICK K : K = Chars \ {"w"}
    OBVIOUS
  <2>4. PICK r : r = LastIn(t, e, K)
    OBVIOUS
  <2>5. r \in 0 .. e /\ (r = 0 \/ t[r] # "w")
    <3>1. e \in Nat
      BY <1>1, <2>2
    <3> QED
      BY <2>3, <2>4, <3>1, LastInIs DEF IsLastIn
  <2>6. r < p
    BY <1>1, <1>3, <2>2, <2>5
  <2>7. WordBack(t, p) = r
    BY <2>1, <2>3, <2>4, LinesAndWords
  <2>8. Reach(command, t, p) = <<WordBack(t, p), p>>
    BY <1>6 DEF Reach
  <2> QED
    BY <2>6, <2>7, <2>8
<1>7. CASE command = "delete_to_line_start"
  <2>1. PICK s : s = LineStart(t, p)
    OBVIOUS
  <2>2. Reach(command, t, p) = <<IF s < p THEN s ELSE p - 1, p>>
    BY <1>4, <1>7, <2>1 DEF Reach
  <2> QED
    BY <1>1, <2>2
<1> QED
  BY <1>5, <1>6, <1>7 DEF Backwards

\* The text does not get shorter from one range to the next.
LEMMA BuiltGrows ==
  ASSUME NEW t \in Text, NEW new \in Text, NEW n \in Nat, NEW a, NEW b, InTurn(a, b, n, Len(t)),
         NEW g, Built(g, t, a, b, new, n)
  PROVE  \A k, i \in 0 .. n : k <= i => Len(g[k]) <= Len(g[i])
<1>1. \A i \in 0 .. n : Len(g[i]) \in Nat
  <2>1. \A i \in 0 .. n : g[i] \in Text
    BY BuiltTyped
  <2> QED
    BY <2>1 DEF Text
<1>2. ASSUME NEW i \in 1 .. n PROVE Len(g[i - 1]) <= Len(g[i])
  <2>1. Len(g[i]) = Len(g[i - 1]) + (a[i] - b[i - 1]) + Len(new)
    BY BuiltTyped
  <2>2. a[i] \in Nat /\ b[i - 1] <= a[i]
    BY DEF InTurn
  <2>3. b[i - 1] \in Nat
    <3>1. CASE i = 1
      BY <3>1 DEF InTurn
    <3>2. CASE i # 1
      <4>1. i - 1 \in 1 .. n
        BY <3>2
      <4> QED
        BY <4>1 DEF InTurn
    <3> QED
      BY <3>1, <3>2
  <2>4. Len(new) \in Nat /\ Len(g[i - 1]) \in Nat
    <3>1. i - 1 \in 0 .. n
      OBVIOUS
    <3> QED
      BY <1>1, <3>1 DEF Text
  <2> QED
    BY <2>1, <2>2, <2>3, <2>4
<1>3. PICK I : I = {i \in Nat : i <= n => \A k \in 0 .. i : Len(g[k]) <= Len(g[i])}
  OBVIOUS
<1>4. 0 \in I
  <2>1. \A k \in 0 .. 0 : Len(g[k]) <= Len(g[0])
    <3>1. 0 .. 0 = {0} /\ 0 \in 0 .. n
      OBVIOUS
    <3> QED
      BY <1>1, <3>1
  <2> QED
    BY <1>3, <2>1
<1>5. ASSUME NEW i \in Nat, i \in I PROVE i + 1 \in I
  <2>1. CASE i + 1 <= n
    <3>1. i + 1 \in 1 .. n /\ (i + 1) - 1 = i /\ i <= n /\ i \in 0 .. n /\ i + 1 \in 0 .. n
      BY <2>1
    <3>2. Len(g[i]) <= Len(g[i + 1])
      BY <1>2, <3>1
    <3>3. ASSUME NEW k \in 0 .. i + 1 PROVE Len(g[k]) <= Len(g[i + 1])
      <4>1. CASE k = i + 1
        BY <1>1, <3>1, <4>1
      <4>2. CASE k # i + 1
        <5>1. k \in 0 .. i /\ k \in 0 .. n
          BY <3>1, <4>2
        <5>2. Len(g[k]) <= Len(g[i])
          BY <1>3, <1>5, <3>1, <5>1
        <5> QED
          BY <1>1, <3>1, <3>2, <5>1, <5>2
      <4> QED
        BY <4>1, <4>2
    <3> QED
      BY <1>3, <3>3
  <2>2. CASE ~(i + 1 <= n)
    BY <1>3, <2>2
  <2> QED
    BY <2>1, <2>2
<1>6. Nat \subseteq I
  BY <1>4, <1>5, Growing!SetInduction
<1> QED
  BY <1>3, <1>6

\* No edit puts a cursor behind the end of the text.
LEMMA EditedInText ==
  ASSUME Typed, NEW command \in Commands, InText(cursors, text), Independent(command),
         command \in MaySkip => AllAct(command),
         NEW new \in Text, command # "insert" => new = <<>>
  PROVE  InText(Edited(command, text, cursors, Everywhere(new)).cursors,
                Edited(command, text, cursors, Everywhere(new)).text)
<1>1. text \in Text /\ cursors \in Cursors /\ Len(text) \in Nat
  BY DEF Typed, Text
<1>2. PICK n : n = Len(cursors)
  OBVIOUS
<1>3. PICK q : q = FromLeft(cursors)
  OBVIOUS
<1>4. PICK o : o = CursorOrder(cursors)
  OBVIOUS
<1>5. n \in Nat /\ DOMAIN cursors = 1 .. n
  BY <1>1, <1>2 DEF Cursors
<1>6. Len(q) = n /\ \A k \in 1 .. n : q[k] \in CursorRecord
  <2>1. q \in Cursors /\ Len(q) = n
    BY <1>1, <1>2, <1>3, FromLeftFacts
  <2> QED
    BY <2>1 DEF Cursors
<1>7. /\ \A k \in 1 .. n : o[k] \in 1 .. n /\ q[k] = cursors[o[k]]
      /\ \A i \in 1 .. n : \E k \in 1 .. n : o[k] = i
  BY <1>1, <1>2, <1>3, <1>4, FromLeftFacts
<1>8. PICK a, b : InTurn(a, b, n, Len(text)) /\ RangesAre(a, b, q, command) /\ Spaced(a, b, q, command)
  BY <1>2, <1>3, RangesInTurn
<1>9. PICK g : Built(g, text, a, b, new, n)
  BY <1>5, BuiltExists
<1>10. PICK ins : ins = Everywhere(new)
  OBVIOUS
<1>11. PICK h : Edits(h, command, text, cursors, ins)
  <2>1. \A i \in 1 .. n : ins[i] \in Text
    BY <1>2, <1>10, EverywhereTyped
  <2> QED
    BY <1>1, <1>2, <2>1, EditedInTurn
<1>12. Arrived(h, n, g, a, b, command)
  <2>1. \A i \in 0 .. n : Arrived(h, i, g, a, b, command)
    BY <1>1, <1>2, <1>3, <1>8, <1>9, <1>10, <1>11, BatchInTurn
  <2> QED
    BY <1>5, <2>1
<1>13. h[n] \in Batch /\ Len(h[n].cursors) = n
  BY <1>2, <1>5, <1>11 DEF Edits
<1>14. PICK d \in Cursors, u \in Text : d = h[n].cursors /\ u = h[n].text
  BY <1>13 DEF Batch
<1>15. Len(d) = n /\ Len(u) \in Nat
  BY <1>13, <1>14 DEF Text
<1>16. \A k \in 0 .. n : g[k] \in Text /\ Len(g[k]) \in Nat
  <2>1. \A k \in 0 .. n : g[k] \in Text
    BY <1>1, <1>5, <1>8, <1>9, BuiltTyped
  <2> QED
    BY <2>1 DEF Text
<1>17. b[n] \in 0 .. Len(text)
  <2>1. CASE n = 0
    BY <1>1, <1>8, <2>1 DEF InTurn
  <2>2. CASE n # 0
    <3>1. n \in 1 .. n
      BY <1>5, <2>2
    <3> QED
      BY <1>1, <1>8, <3>1 DEF InTurn
  <2> QED
    BY <2>1, <2>2
<1>18. Len(g[n]) <= Len(u)
  <2>1. GoesOn(u, g[n], text, b[n])
    BY <1>12, <1>14 DEF Arrived
  <2>2. PICK x \in Text : x = g[n]
    BY <1>5, <1>16
  <2>3. PICK m \in 0 .. Len(text) : m = b[n]
    BY <1>17
  <2>4. GoesOn(u, x, text, m)
    BY <2>1, <2>2, <2>3
  <2>5. Len(u) = Len(x) + (Len(text) - m)
    BY <1>1, <2>4, GoesOnFacts
  <2> QED
    BY <1>1, <1>5, <1>16, <2>2, <2>5
<1>19. \A k \in 1 .. n : Len(g[k]) \in Nat /\ Len(g[k]) <= Len(u)
  <2>1. \A k, i \in 0 .. n : k <= i => Len(g[k]) <= Len(g[i])
    BY <1>1, <1>5, <1>8, <1>9, BuiltGrows
  <2>2. \A k \in 1 .. n : k \in 0 .. n /\ n \in 0 .. n /\ k <= n
    BY <1>5
  <2>3. \A k \in 1 .. n : Len(g[k]) <= Len(g[n])
    BY <2>1, <2>2
  <2> QED
    BY <1>5, <1>15, <1>16, <1>18, <2>2, <2>3
<1>20. ASSUME NEW k \in 1 .. n PROVE d[o[k]].head <= Len(u)
  <2>1. d[o[k]] = IF k <= n /\ Acts(command, q[k], <<a[k], b[k]>>) THEN Caret(Len(g[k])) ELSE q[k]
    BY <1>2, <1>3, <1>4, <1>12, <1>14 DEF Arrived
  <2>2. CASE Acts(command, q[k], <<a[k], b[k]>>)
    <3>1. d[o[k]] = Caret(Len(g[k]))
      BY <1>5, <2>1, <2>2
    <3>2. d[o[k]].head = Len(g[k])
      BY <3>1 DEF Caret, Cursor
    <3> QED
      BY <1>19, <3>2
  <2>3. CASE ~Acts(command, q[k], <<a[k], b[k]>>)
    <3>1. d[o[k]] = q[k]
      BY <2>1, <2>3
    <3>2. RangeOf(command, q[k]) = <<a[k], b[k]>>
      BY <1>6, <1>8 DEF RangesAre
    <3>3. ~HasSel(q[k]) /\ ~(a[k] < b[k]) /\ command # "insert"
      <4>1. PICK x, y : x = a[k] /\ y = b[k]
        OBVIOUS
      <4>2. ~Acts(command, q[k], <<x, y>>)
        BY <2>3, <4>1
      <4>3. ~HasSel(q[k]) /\ ~(x < y) /\ command # "insert"
        BY <4>2 DEF Acts
      <4> QED
        BY <4>1, <4>3
    <3>4. ~AllAct(command)
      <4>1. o[k] \in DOMAIN cursors /\ cursors[o[k]] = q[k]
        BY <1>5, <1>7
      <4>2. ~Acts(command, cursors[o[k]], RangeOf(command, cursors[o[k]]))
        BY <2>3, <3>2, <4>1
      <4> QED
        BY <4>1, <4>2 DEF AllAct
    <3>5. command \in Backwards
      BY <3>3, <3>4 DEF MaySkip, Backwards, Commands, Deletions
    <3>6. PICK p : p = q[k].head
      OBVIOUS
    <3>7. p \in 0 .. Len(text)
      <4>1. Within(q[k], Len(text))
        BY <1>5, <1>7 DEF InText
      <4>2. p \in Nat
        BY <1>6, <3>6, CursorFacts
      <4> QED
        BY <1>1, <3>6, <4>1, <4>2 DEF Within
    <3>8. Reach(command, text, p) = <<a[k], b[k]>>
      BY <3>2, <3>3, <3>6 DEF RangeOf
    <3>9. p = 0
      BY <1>1, <3>3, <3>5, <3>7, <3>8, SkipsAtStart
    <3> QED
      BY <1>15, <3>1, <3>6, <3>9
  <2> QED
    BY <2>2, <2>3
<1>21. \A i \in 1 .. n : d[i].head <= Len(u)
  BY <1>7, <1>20
<1>22. \A i \in 1 .. n : ~HasSel(d[i])
  <2>1. \A i \in 1 .. n : ins[i] \in Text
    BY <1>2, <1>10, EverywhereTyped
  <2>2. \A i \in 1 .. Len(cursors) : ~HasSel(h[Len(cursors)].cursors[i])
    BY <1>1, <1>2, <1>11, <2>1, EditedCarets
  <2> QED
    BY <1>2, <1>14, <2>2
<1>23. PICK e : e = DedupCursors(d)
  OBVIOUS
<1>24. e \in Cursors /\ Apart(e) /\ HeadsOf(e) = HeadsOf(d)
  BY <1>15, <1>22, <1>23, CaretsMerge, DedupTyped
<1>25. ASSUME NEW i \in DOMAIN e PROVE Within(e[i], Len(u))
  <2>1. i \in 1 .. Len(e) /\ e[i] \in CursorRecord
    BY <1>24 DEF Cursors
  <2>2. ~HasSel(e[i])
    BY <1>24, <2>1 DEF Apart
  <2>3. e[i].head \in HeadsOf(d)
    BY <1>24, <2>1 DEF HeadsOf
  <2>4. PICK j \in 1 .. n : e[i].head = d[j].head
    BY <1>15, <2>3 DEF HeadsOf
  <2>5. e[i].head <= Len(u) /\ e[i].tail = e[i].head
    BY <1>21, <2>1, <2>2, <2>4, CursorFacts
  <2> QED
    BY <2>5 DEF Within
<1>26. Edited(command, text, cursors, ins) = [text |-> u, cursors |-> e]
  BY <1>2, <1>11, <1>14, <1>23 DEF Edits
<1>27. PICK r : r = Edited(command, text, cursors, ins)
  OBVIOUS
<1>28. r.text = u /\ r.cursors = e
  BY <1>26, <1>27
<1> QED
  BY <1>10, <1>25, <1>27, <1>28 DEF InText

\* What the commands insert are texts.
LEMMA LettersTyped == <<"w">> \in Text /\ <<"w", "s">> \in Text /\ <<>> \in Text
<1>1. <<"w">> \in Seq(Chars)
  BY DEF Chars
<1>2. <<"w", "s">> \in Seq(Chars)
  BY DEF Chars
<1> QED
  BY <1>1, <1>2 DEF Text

\* Where the types are right, edits leave cursors apart and in the text.
LEMMA LeftSound == Typed => EditsLeaveCursorsSound
<1> SUFFICES ASSUME Typed PROVE EditsLeaveCursorsSound
  OBVIOUS
<1>1. EditsLeaveCursorsApart
  BY EditedApart, LettersTyped DEF EditsLeaveCursorsApart
<1>2. ASSUME NEW command \in Commands, InText(cursors, text), Independent(command),
             command \in MaySkip => AllAct(command),
             NEW new, new = IF command = "insert" THEN <<"w", "s">> ELSE <<>>
      PROVE  InText(Edited(command, text, cursors, Everywhere(new)).cursors,
                    Edited(command, text, cursors, Everywhere(new)).text)
  <2>1. new \in Text /\ (command # "insert" => new = <<>>)
    BY <1>2, LettersTyped
  <2> QED
    BY <1>2, <2>1, EditedInText
<1>3. EditsKeepCursorsInText
  BY <1>2 DEF EditsKeepCursorsInText
<1> QED
  BY <1>1, <1>3 DEF EditsLeaveCursorsSound

(* Typing, deleting and cutting (2252-2700) leave cursors that are apart   *)
(* and, for independent cursors, in the text: what each of them relies on  *)
(* when it slices the text is what the one before it left.  For any text,  *)
(* any cursors, any command.                                               *)
THEOREM EditsAlwaysLeaveCursorsSound == Spec => []EditsLeaveCursorsSound
BY BufferAlwaysTyped, LeftSound, PTL

-----------------------------------------------------------------------------
(* Replacing all ranges at once, place by place.                           *)

SimultaneousOf(ranges, new, t) ==
    LET removed(p) == \E r \in ranges : r[1] < p /\ p <= r[2]
        starts(p)  == \E r \in ranges : r[1] = p
    IN  FoldLeft(LAMBDA whole, k :
                     whole \o ((IF starts(k - 1) THEN new ELSE <<>>) \o
                               (IF k <= Len(t) /\ ~removed(k) THEN <<t[k]>> ELSE <<>>)),
                 <<>>, [k \in 1 .. Len(t) + 1 |-> k])

\* What comes to the place p, and what stays of the p-th character.
Put(ranges, new, p) == IF \E r \in ranges : r[1] = p THEN new ELSE <<>>
Stays(ranges, t, p) ==
    IF p <= Len(t) /\ ~(\E r \in ranges : r[1] < p /\ p <= r[2]) THEN <<t[p]>> ELSE <<>>

Placing == INSTANCE FoldFacts WITH
    Op <- LAMBDA k, whole, i :
              whole \o ((IF \E r \in k.ranges : r[1] = i - 1 THEN k.new ELSE <<>>) \o
                        (IF i <= Len(k.t) /\ ~(\E r \in k.ranges : r[1] < i /\ i <= r[2])
                         THEN <<k.t[i]>> ELSE <<>>))

\* Replacing at once is what its fold leaves behind the last place.
LEMMA PlacingFold ==
  ASSUME NEW k
  PROVE  SimultaneousOf(k.ranges, k.new, k.t)
            = Placing!Fold(k, <<>>, [i \in 1 .. Len(k.t) + 1 |-> i])
BY DEF SimultaneousOf, FoldLeft, MapThenFoldSet, Max, Placing!Fold, Placing!Iterates, Placing!Top

\* The text as it grows.
PlaceByPlace(s, ranges, new, t) ==
    /\ s[0] = <<>>
    /\ \A i \in 1 .. Len(t) + 1 : s[i] = s[i - 1] \o (Put(ranges, new, i - 1) \o Stays(ranges, t, i))

\* It goes through the text place by place.
LEMMA PlacedInTurn ==
  ASSUME NEW ranges, NEW new, NEW t \in Text
  PROVE  \E s : PlaceByPlace(s, ranges, new, t) /\ SimultaneousOf(ranges, new, t) = s[Len(t) + 1]
<1>1. PICK k : k = [ranges |-> ranges, new |-> new, t |-> t]
  OBVIOUS
<1>2. k.ranges = ranges /\ k.new = new /\ k.t = t
  BY <1>1
<1>3. PICK n \in Nat : n = Len(t) + 1
  BY DEF Text
<1>4. PICK q : q = [i \in 1 .. n |-> i]
  OBVIOUS
<1>5. q \in Seq(Nat) /\ Len(q) = n /\ \A i \in 1 .. n : q[i] = i
  BY <1>4
<1>6. SimultaneousOf(ranges, new, t) = Placing!Fold(k, <<>>, q)
  <2>1. SimultaneousOf(k.ranges, k.new, k.t) = Placing!Fold(k, <<>>, [i \in 1 .. Len(k.t) + 1 |-> i])
    BY PlacingFold
  <2>2. [i \in 1 .. Len(k.t) + 1 |-> i] = q
    BY <1>2, <1>3, <1>4
  <2> QED
    BY <1>2, <2>1, <2>2
<1>7. PICK s : Placing!Trace(s, k, <<>>, q) /\ Placing!Fold(k, <<>>, q) = s[n]
  <2>1. PICK s : Placing!Trace(s, k, <<>>, q)
    BY <1>5, Placing!FoldTrace
  <2> QED
    BY <1>5, <2>1 DEF Placing!Trace
<1>8. s[0] = <<>>
  BY <1>7 DEF Placing!Trace
<1>9. ASSUME NEW i \in 1 .. n
      PROVE  s[i] = s[i - 1] \o (Put(ranges, new, i - 1) \o Stays(ranges, t, i))
  <2>1. s[i] = s[i - 1] \o ((IF \E r \in k.ranges : r[1] = q[i] - 1 THEN k.new ELSE <<>>) \o
                        (IF q[i] <= Len(k.t) /\ ~(\E r \in k.ranges : r[1] < q[i] /\ q[i] <= r[2])
                         THEN <<k.t[q[i]]>> ELSE <<>>))
    BY <1>5, <1>7 DEF Placing!Trace
  <2>2. s[i] = s[i - 1] \o (Put(k.ranges, k.new, q[i] - 1) \o Stays(k.ranges, k.t, q[i]))
    BY <2>1 DEF Put, Stays
  <2> QED
    BY <1>2, <1>5, <2>2
<1> QED
  BY <1>3, <1>6, <1>7, <1>8, <1>9 DEF PlaceByPlace

\* SimultaneousOf the text is Simultaneous.
LEMMA AsOf == \A ranges, new : Simultaneous(ranges, new) = SimultaneousOf(ranges, new, text)
BY DEF Simultaneous, SimultaneousOf

\* All that is removed.
Removed(a, b, n) == {<<a[k], b[k]>> : k \in 1 .. n}

\* A range removes nothing of what is before it or behind it.
LEMMA RangesInOrder ==
  ASSUME Typed, NEW command, NEW a, NEW b, RangesAre(a, b, FromLeft(cursors), command)
  PROVE  Ranges(command) = Removed(a, b, Len(cursors))
<1>1. PICK n : n = Len(cursors)
  OBVIOUS
<1>2. PICK q : q = FromLeft(cursors)
  OBVIOUS
<1>3. PICK o : o = CursorOrder(cursors)
  OBVIOUS
<1>4. cursors \in Cursors /\ DOMAIN cursors = 1 .. n
  BY <1>1 DEF Typed, Cursors
<1>5. /\ Len(q) = n
      /\ \A k \in 1 .. n : o[k] \in 1 .. n /\ q[k] = cursors[o[k]]
      /\ \A i \in 1 .. n : \E k \in 1 .. n : o[k] = i
  BY <1>1, <1>2, <1>3, <1>4, FromLeftFacts
<1>6. \A k \in 1 .. n : RangeOf(command, q[k]) = <<a[k], b[k]>>
  BY <1>2, <1>5 DEF RangesAre
<1>7. ASSUME NEW i \in DOMAIN cursors PROVE RangeOf(command, cursors[i]) \in Removed(a, b, n)
  <2>1. PICK k \in 1 .. n : o[k] = i
    BY <1>4, <1>5
  <2>2. RangeOf(command, cursors[i]) = <<a[k], b[k]>>
    BY <1>5, <1>6, <2>1
  <2> QED
    BY <2>2 DEF Removed
<1>8. ASSUME NEW k \in 1 .. n PROVE <<a[k], b[k]>> \in Ranges(command)
  <2>1. o[k] \in DOMAIN cursors /\ <<a[k], b[k]>> = RangeOf(command, cursors[o[k]])
    BY <1>4, <1>5, <1>6
  <2> QED
    BY <2>1 DEF Ranges
<1>9. Ranges(command) \subseteq Removed(a, b, n)
  BY <1>7 DEF Ranges
<1>10. Removed(a, b, n) \subseteq Ranges(command)
  BY <1>8 DEF Removed
<1> QED
  BY <1>1, <1>9, <1>10

\* The ranges begin and end in their order.
LEMMA TurnsGoOn ==
  ASSUME NEW a, NEW b, NEW n \in Nat, NEW len \in Nat, InTurn(a, b, n, len)
  PROVE  /\ \A k \in 0 .. n : a[k] \in Int /\ b[k] \in Nat /\ b[k] <= len /\ a[k] <= b[k]
         /\ \A k \in 1 .. n : a[k] \in Nat
         /\ \A k, l \in 0 .. n : k < l => b[k] <= a[l]
<1>1. ASSUME NEW k \in 0 .. n
      PROVE  a[k] \in Int /\ b[k] \in Nat /\ b[k] <= len /\ a[k] <= b[k]
  <2>1. CASE k = 0
    BY <2>1 DEF InTurn
  <2>2. CASE k # 0
    <3>1. k \in 1 .. n
      BY <2>2
    <3> QED
      BY <3>1 DEF InTurn
  <2> QED
    BY <2>1, <2>2
<1>2. \A k \in 1 .. n : a[k] \in Nat
  BY DEF InTurn
<1>3. PICK I : I = {l \in Nat : l <= n => \A k \in 0 .. n : k < l => b[k] <= a[l]}
  OBVIOUS
<1>4. 0 \in I
  BY <1>3
<1>5. ASSUME NEW l \in Nat, l \in I PROVE l + 1 \in I
  <2>1. CASE l + 1 <= n
    <3>1. PICK j : j = l + 1
      OBVIOUS
    <3>2. j \in 1 .. n /\ j - 1 = l /\ l <= n /\ l \in 0 .. n /\ j \in 0 .. n /\ j = l + 1
      BY <2>1, <3>1
    <3>3. b[l] <= a[j]
      BY <3>2 DEF InTurn
    <3>4. ASSUME NEW k \in 0 .. n, k < j PROVE b[k] <= a[j]
      <4>1. CASE k = l
        BY <3>3, <4>1
      <4>2. CASE k # l
        <5>1. k < l
          BY <3>2, <3>4, <4>2
        <5>2. b[k] <= a[l]
          BY <1>3, <1>5, <3>2, <5>1
        <5>3. a[l] <= b[l] /\ a[l] \in Int /\ b[l] \in Nat /\ a[j] \in Int /\ b[k] \in Nat
          BY <1>1, <3>2
        <5> QED
          BY <3>3, <5>2, <5>3
      <4> QED
        BY <4>1, <4>2
    <3>5. \A k \in 0 .. n : k < j => b[k] <= a[j]
      BY <3>4
    <3> QED
      BY <1>3, <3>1, <3>2, <3>5
  <2>2. CASE ~(l + 1 <= n)
    BY <1>3, <2>2
  <2> QED
    BY <2>1, <2>2
<1>6. Nat \subseteq I
  BY <1>4, <1>5, Growing!SetInduction
<1>7. \A k, l \in 0 .. n : k < l => b[k] <= a[l]
  BY <1>3, <1>6
<1> QED
  BY <1>1, <1>2, <1>7

\* Two of them begin at one place only at the start of the text, where nothing
\* is left to remove for the first.
Twice(a, b, n, new) ==
    \A k, l \in 1 .. n : k < l /\ a[k] = a[l] => l = k + 1 /\ new = <<>> /\ a[k] = b[k]

\* Independent cursors begin no two ranges at one place where either puts
\* something in.
LEMMA TwiceAtStart ==
  ASSUME NEW command, NEW q \in Cursors, NEW a, NEW b, NEW len \in Nat, InTurn(a, b, Len(q), len),
         RangesAre(a, b, q, command), Spaced(a, b, q, command),
         NEW new, command # "insert" => new = <<>>
  PROVE  /\ Twice(a, b, Len(q), new)
         /\ \A k \in 1 .. Len(q) - 1 :
              a[k] < a[k + 1] \/ (~HasSel(q[k]) /\ a[k] = b[k] /\ command = "backspace")
<1>1. PICK n \in Nat : n = Len(q)
  BY DEF Cursors
<1>2. \A k \in 1 .. n : q[k] \in CursorRecord
  BY <1>1 DEF Cursors
<1>3. /\ \A k \in 0 .. n : a[k] \in Int /\ b[k] \in Nat /\ b[k] <= len /\ a[k] <= b[k]
      /\ \A k \in 1 .. n : a[k] \in Nat
      /\ \A k, l \in 0 .. n : k < l => b[k] <= a[l]
  BY <1>1, TurnsGoOn
<1>4. ASSUME NEW k \in 1 .. n, NEW l \in 1 .. n, k < l, a[k] = a[l]
      PROVE  a[k] = a[k + 1] /\ a[k] = b[k] /\ command = "backspace" /\ b[k] < Lo(q[k + 1])
  <2>1. PICK j : j = k + 1
    OBVIOUS
  <2>2. k \in 0 .. n /\ l \in 0 .. n /\ j \in 0 .. n /\ j \in 1 .. n /\ k < j /\ k \in 1 .. n - 1
    BY <1>1, <1>4, <2>1
  <2>3. a[k] <= b[k] /\ b[k] <= a[j] /\ a[k] \in Int /\ b[k] \in Nat /\ a[j] \in Int
        /\ a[l] \in Int /\ a[j] <= b[j] /\ b[j] \in Nat
    BY <1>3, <2>2
  <2>4. a[j] <= a[l]
    <3>1. CASE j = l
      BY <2>3, <3>1
    <3>2. CASE j # l
      <4>1. j < l
        BY <1>4, <2>1, <2>2, <3>2
      <4>2. b[j] <= a[l]
        BY <1>3, <2>2, <4>1
      <4> QED
        BY <2>3, <4>2
    <3> QED
      BY <3>1, <3>2
  <2>5. a[j] = a[k]
    BY <1>4, <2>3, <2>4
  <2>6. /\ command = "backspace" => b[k] < Lo(q[j])
        /\ a[k] < a[j] \/ (command = "backspace" /\ a[k] = b[k] /\ a[k] = a[j])
    BY <1>1, <2>1, <2>2 DEF Spaced
  <2> QED
    BY <2>1, <2>3, <2>5, <2>6
<1>5. ASSUME NEW k \in 1 .. n, NEW l \in 1 .. n, k < l, a[k] = a[l]
      PROVE  l = k + 1 /\ new = <<>> /\ a[k] = b[k]
  <2>1. a[k] = a[k + 1] /\ a[k] = b[k] /\ command = "backspace" /\ b[k] < Lo(q[k + 1])
    BY <1>4, <1>5
  <2>2. new = <<>>
    BY <2>1
  <2>3. SUFFICES ASSUME l # k + 1 PROVE FALSE
    BY <2>1, <2>2
  <2>4. PICK j : j = k + 1
    OBVIOUS
  <2>5. j \in 1 .. n /\ j < l
    BY <1>1, <1>5, <2>3, <2>4
  <2>6. a[j] = a[l]
    BY <1>5, <2>1, <2>4
  <2>7. a[j] = b[j]
    BY <1>4, <2>5, <2>6
  <2>8. Reaches(command, q[j], a[j], b[j])
    BY <1>1, <2>5 DEF RangesAre
  <2>9. Hi(q[j]) <= b[j] /\ Lo(q[j]) \in Nat /\ Hi(q[j]) \in Nat /\ Lo(q[j]) <= Hi(q[j])
        /\ b[j] \in Nat
    BY <1>2, <2>5, <2>8, CursorFacts DEF Reaches
  <2>10. b[k] < Lo(q[j]) /\ b[k] = b[j] /\ b[k] \in Int
    <3>1. b[k] < Lo(q[j]) /\ a[k] = a[j] /\ a[k] = b[k]
      BY <2>1, <2>4
    <3> QED
      BY <2>7, <2>9, <3>1
  <2> QED
    BY <2>9, <2>10
<1>6. Twice(a, b, n, new)
  BY <1>5 DEF Twice
<1>7. ASSUME NEW k \in 1 .. n - 1
      PROVE  a[k] < a[k + 1] \/ (~HasSel(q[k]) /\ a[k] = b[k] /\ command = "backspace")
  <2>1. k \in 1 .. n
    BY <1>1
  <2>2. a[k] < a[k + 1] \/ (command = "backspace" /\ a[k] = b[k])
    BY <1>1 DEF Spaced
  <2>3. CASE command = "backspace" /\ a[k] = b[k]
    <3>1. Reaches(command, q[k], a[k], b[k])
      BY <1>1, <2>1 DEF RangesAre
    <3>2. a[k] \in Nat /\ b[k] \in Nat /\ a[k] <= Lo(q[k]) /\ Hi(q[k]) <= b[k]
      BY <3>1 DEF Reaches
    <3>3. Lo(q[k]) \in Nat /\ Hi(q[k]) \in Nat /\ Lo(q[k]) <= Hi(q[k])
      BY <1>2, <2>1, CursorFacts
    <3>4. Lo(q[k]) = Hi(q[k])
      BY <2>3, <3>2, <3>3
    <3>5. ~HasSel(q[k])
      BY <1>2, <2>1, <3>4, CursorFacts
    <3> QED
      BY <2>3, <3>5
  <2> QED
    BY <2>2, <2>3
<1> QED
  BY <1>1, <1>6, <1>7

\* Ranges in turn, what the batch builds from them, and what replacing them at
\* once does.
BothWays(a, b, n, g, s, new, t) ==
    /\ t \in Text /\ new \in Text /\ n \in Nat /\ InTurn(a, b, n, Len(t))
    /\ Built(g, t, a, b, new, n) /\ Twice(a, b, n, new)
    /\ PlaceByPlace(s, Removed(a, b, n), new, t)

\* Both ways go through texts.
LEMMA WaysTyped ==
  ASSUME NEW a, NEW b, NEW n, NEW g, NEW s, NEW new, NEW t, BothWays(a, b, n, g, s, new, t)
  PROVE  /\ t \in Text /\ Len(t) \in Nat /\ new \in Text /\ n \in Nat
         /\ \A k \in 0 .. n : g[k] \in Text
         /\ \A k \in 0 .. n : a[k] \in Int /\ b[k] \in Nat /\ b[k] <= Len(t) /\ a[k] <= b[k]
         /\ \A k \in 1 .. n : a[k] \in Nat
         /\ \A k, l \in 0 .. n : k < l => b[k] <= a[l] /\ a[k] <= a[l]
         /\ a[0] = -1 /\ b[0] = 0 /\ g[0] = <<>> /\ s[0] = <<>>
<1>1. t \in Text /\ new \in Text /\ n \in Nat /\ InTurn(a, b, n, Len(t)) /\ Built(g, t, a, b, new, n)
      /\ PlaceByPlace(s, Removed(a, b, n), new, t)
  BY DEF BothWays
<1>2. Len(t) \in Nat
  BY <1>1 DEF Text
<1>3. \A k \in 0 .. n : g[k] \in Text
  BY <1>1, BuiltTyped
<1>4. /\ \A k \in 0 .. n : a[k] \in Int /\ b[k] \in Nat /\ b[k] <= Len(t) /\ a[k] <= b[k]
      /\ \A k \in 1 .. n : a[k] \in Nat
      /\ \A k, l \in 0 .. n : k < l => b[k] <= a[l]
  BY <1>1, <1>2, TurnsGoOn
<1>5. \A k, l \in 0 .. n : k < l => b[k] <= a[l] /\ a[k] <= a[l]
  BY <1>4
<1>6. a[0] = -1 /\ b[0] = 0 /\ g[0] = <<>> /\ s[0] = <<>>
  BY <1>1 DEF InTurn, Built, PlaceByPlace
<1> QED
  BY <1>1, <1>2, <1>3, <1>4, <1>5, <1>6

\* Ranges that begin at one place build the same.
LEMMA BuiltOnce ==
  ASSUME NEW a, NEW b, NEW n, NEW g, NEW s, NEW new, NEW t, BothWays(a, b, n, g, s, new, t),
         NEW k \in 1 .. n, NEW l \in 1 .. n, k < l, a[k] = a[l]
  PROVE  g[l] = g[k]
<1>1. l = k + 1 /\ new = <<>> /\ a[k] = b[k]
  BY DEF BothWays, Twice
<1>2. /\ t \in Text /\ Len(t) \in Nat /\ n \in Nat /\ g[k] \in Text
      /\ b[k] \in Nat /\ b[k] <= Len(t)
  BY WaysTyped
<1>3. l - 1 = k
  BY <1>1
<1>4. g[l] = (g[k] \o SubSeq(t, b[k] + 1, b[k])) \o <<>>
  <2>1. g[l] = (g[l - 1] \o SubSeq(t, b[l - 1] + 1, a[l])) \o new
    BY DEF BothWays, Built
  <2>2. a[l] = b[k]
    BY <1>1
  <2> QED
    BY <1>1, <1>3, <2>1, <2>2
<1>5. PICK m \in 0 .. Len(t) : m = b[k]
  BY <1>2
<1>6. SubSeq(t, m + 1, m) = <<>>
  <2>1. PICK x : x = SubSeq(t, m + 1, m)
    OBVIOUS
  <2>2. x \in Text /\ Len(x) = m - m
    <3>1. m <= m
      BY <1>2
    <3> QED
      BY <1>2, <2>1, <3>1, PartTyped
  <2>3. Len(x) = 0
    BY <1>2, <2>2
  <2> QED
    BY <2>1, <2>2, <2>3 DEF Text
<1>7. PICK x \in Text : x = g[k]
  BY <1>2
<1>8. x \o <<>> = x
  <2>1. x \in Seq(Chars)
    BY DEF Text
  <2> QED
    BY <2>1, ConcatEmptySeq
<1> QED
  BY <1>4, <1>5, <1>6, <1>7, <1>8

\* What is put in at a place, and which character stays behind it.
LEMMA PutAndStay ==
  ASSUME NEW t \in Text, NEW new \in Text, NEW R
  PROVE  /\ \A p : Put(R, new, p) \in Text
         /\ \A i \in 1 .. Len(t) + 1 : Stays(R, t, i) \in Text
<1>1. Len(t) \in Nat /\ <<>> \in Text
  BY DEF Text
<1>2. \A p : Put(R, new, p) \in Text
  BY <1>1 DEF Put
<1>3. ASSUME NEW i \in 1 .. Len(t) + 1 PROVE Stays(R, t, i) \in Text
  <2>1. CASE i <= Len(t) /\ ~(\E r \in R : r[1] < i /\ i <= r[2])
    <3>1. Stays(R, t, i) = <<t[i]>>
      BY <2>1 DEF Stays
    <3>2. t[i] \in Chars
      BY <1>1, <2>1 DEF Text
    <3> QED
      BY <3>1, <3>2 DEF Text
  <2>2. CASE ~(i <= Len(t) /\ ~(\E r \in R : r[1] < i /\ i <= r[2]))
    BY <1>1, <2>2 DEF Stays
  <2> QED
    BY <2>1, <2>2
<1> QED
  BY <1>2, <1>3

\* The texts in between.
LEMMA PlacedTexts ==
  ASSUME NEW a, NEW b, NEW n, NEW g, NEW s, NEW new, NEW t, BothWays(a, b, n, g, s, new, t)
  PROVE  \A i \in 0 .. Len(t) + 1 : s[i] \in Text
<1>1. t \in Text /\ Len(t) \in Nat /\ new \in Text /\ s[0] = <<>>
  BY WaysTyped
<1>2. PICK R : R = Removed(a, b, n)
  OBVIOUS
<1>3. \A i \in 1 .. Len(t) + 1 : s[i] = s[i - 1] \o (Put(R, new, i - 1) \o Stays(R, t, i))
  BY <1>2 DEF BothWays, PlaceByPlace
<1>4. <<>> \in Text
  BY DEF Text
<1>5. /\ \A p : Put(R, new, p) \in Text
      /\ \A i \in 1 .. Len(t) + 1 : Stays(R, t, i) \in Text
  BY <1>1, PutAndStay
<1>7. PICK I : I = {i \in Nat : i <= Len(t) + 1 => s[i] \in Text}
  OBVIOUS
<1>8. 0 \in I
  BY <1>1, <1>4, <1>7
<1>9. ASSUME NEW i \in Nat, i \in I PROVE i + 1 \in I
  <2>1. CASE i + 1 <= Len(t) + 1
    <3>1. i + 1 \in 1 .. Len(t) + 1 /\ (i + 1) - 1 = i /\ i <= Len(t) + 1
      BY <1>1, <2>1
    <3>2. PICK x : x = Put(R, new, i)
      OBVIOUS
    <3>3. PICK y : y = Stays(R, t, i + 1)
      OBVIOUS
    <3>4. x \in Text /\ y \in Text /\ s[i] \in Text
      BY <1>5, <1>7, <1>9, <3>1, <3>2, <3>3
    <3>5. s[i + 1] = s[i] \o (x \o y)
      BY <1>3, <3>1, <3>2, <3>3
    <3>6. x \o y \in Text
      BY <3>4, JoinTyped
    <3>7. s[i + 1] \in Text
      BY <3>4, <3>5, <3>6, JoinTyped
    <3> QED
      BY <1>7, <3>7
  <2>2. CASE ~(i + 1 <= Len(t) + 1)
    BY <1>7, <2>2
  <2> QED
    BY <2>1, <2>2
<1>10. Nat \subseteq I
  BY <1>8, <1>9, Growing!SetInduction
<1> QED
  BY <1>1, <1>7, <1>10

\* What of the text is removed at a place behind the begin of the j-th range.
LEMMA RemovedThere ==
  ASSUME NEW a, NEW b, NEW n, NEW g, NEW s, NEW new, NEW t, BothWays(a, b, n, g, s, new, t),
         NEW i \in 0 .. Len(t), NEW j \in 0 .. n, a[j] <= i, j < n => i + 1 <= a[j + 1]
  PROVE  (\E r \in Removed(a, b, n) : r[1] < i + 1 /\ i + 1 <= r[2]) <=> i < b[j]
<1>1. /\ n \in Nat /\ Len(t) \in Nat
      /\ \A k \in 0 .. n : a[k] \in Int /\ b[k] \in Nat
      /\ \A k, l \in 0 .. n : k < l => b[k] <= a[l] /\ a[k] <= a[l]
      /\ b[0] = 0
  BY WaysTyped
<1>2. i \in Nat
  BY <1>1
<1>3. ASSUME NEW k \in 1 .. n, a[k] < i + 1, i + 1 <= b[k] PROVE i < b[j]
  <2>1. k \in 0 .. n /\ a[k] \in Int /\ b[k] \in Nat
    BY <1>1
  <2>2. CASE k = j
    BY <1>2, <1>3, <2>1, <2>2
  <2>3. CASE k < j
    <3>1. b[k] <= a[j] /\ a[j] \in Int
      BY <1>1, <2>1, <2>3
    <3> QED
      BY <1>2, <1>3, <2>1, <3>1
  <2>4. CASE k > j
    <3>1. PICK l : l = j + 1
      OBVIOUS
    <3>2. l \in 0 .. n /\ j < n /\ (k = l \/ l < k)
      BY <1>1, <2>4, <3>1
    <3>3. a[l] <= a[k] /\ a[l] \in Int
      BY <1>1, <2>1, <3>2
    <3>4. i + 1 <= a[l]
      BY <3>1, <3>2
    <3> QED
      BY <1>2, <1>3, <2>1, <3>3, <3>4
  <2> QED
    BY <1>1, <2>2, <2>3, <2>4
<1>4. ASSUME NEW r \in Removed(a, b, n), r[1] < i + 1, i + 1 <= r[2] PROVE i < b[j]
  <2>1. PICK k \in 1 .. n : r = <<a[k], b[k]>>
    BY DEF Removed
  <2>2. r[1] = a[k] /\ r[2] = b[k]
    BY <2>1
  <2> QED
    BY <1>3, <1>4, <2>2
<1>5. ASSUME i < b[j] PROVE \E r \in Removed(a, b, n) : r[1] < i + 1 /\ i + 1 <= r[2]
  <2>1. j \in 1 .. n
    BY <1>1, <1>2, <1>5
  <2>2. PICK r : r = <<a[j], b[j]>>
    OBVIOUS
  <2>3. r \in Removed(a, b, n) /\ r[1] = a[j] /\ r[2] = b[j]
    BY <2>1, <2>2 DEF Removed
  <2>4. a[j] \in Int /\ b[j] \in Nat
    BY <1>1
  <2>5. a[j] < i + 1 /\ i + 1 <= b[j]
    BY <1>2, <1>5, <2>4
  <2> QED
    BY <2>3, <2>5
<1> QED
  BY <1>4, <1>5

\* Nothing, before or behind a text, changes nothing.
LEMMA NothingMore == ASSUME NEW x \in Text PROVE x \o <<>> = x /\ <<>> \o x = x
<1>1. x \in Seq(Chars)
  BY DEF Text
<1> QED
  BY <1>1, ConcatEmptySeq

\* The j-th range is the last that begins up to the place i.
LastBegun(a, n, i, j) == j \in 0 .. n /\ a[j] <= i /\ (j < n => i + 1 <= a[j + 1])

\* What has come up to the place i of the text: g, and the text from m on.
UpTo(x, g, t, m, i) == x = g \o SubSeq(t, m + 1, i)

\* One more character.
LEMMA StaysThere ==
  ASSUME NEW a, NEW b, NEW n, NEW g, NEW s, NEW new, NEW t, BothWays(a, b, n, g, s, new, t),
         NEW i \in 0 .. Len(t), NEW j, LastBegun(a, n, i, j),
         NEW x, UpTo(x, g[j], t, b[j], i), NEW next, next = i + 1
  PROVE  UpTo(x \o Stays(Removed(a, b, n), t, next), g[j], t, b[j], Lesser(next, Len(t)))
<1>0. j \in 0 .. n /\ a[j] <= i /\ (j < n => i + 1 <= a[j + 1])
  BY DEF LastBegun
<1> USE <1>0
<1>1. t \in Text /\ Len(t) \in Nat /\ g[j] \in Text /\ b[j] \in Nat /\ b[j] <= Len(t)
  BY WaysTyped
<1>2. PICK R : R = Removed(a, b, n)
  OBVIOUS
<1>3. (\E r \in R : r[1] < i + 1 /\ i + 1 <= r[2]) <=> i < b[j]
  BY <1>2, RemovedThere
<1>4. PICK G \in Text : G = g[j]
  BY <1>1
<1>5. PICK m \in 0 .. Len(t) : m = b[j]
  BY <1>1
<1>6. PICK len \in Nat : len = Len(t)
  BY <1>1
<1>7. PICK y : y = SubSeq(t, m + 1, i)
  OBVIOUS
<1>8. PICK z : z = Stays(R, t, i + 1)
  OBVIOUS
<1>9. PICK e : e = SubSeq(t, m + 1, Lesser(i + 1, len))
  OBVIOUS
<1>10. SUFFICES (G \o y) \o z = G \o e
  <2>1. x = G \o y
    BY <1>4, <1>5, <1>7 DEF UpTo
  <2> QED
    BY <1>2, <1>4, <1>5, <1>6, <1>8, <1>9, <2>1 DEF UpTo
<1>11. CASE i < m
  <2>1. z = <<>>
    BY <1>3, <1>5, <1>8, <1>11 DEF Stays
  <2>2. y = <<>>
    BY <1>1, <1>7, <1>11, SubSeqEmpty
  <2>3. e = <<>>
    <3>1. PICK l \in Nat : l = Lesser(i + 1, len) /\ l <= m
      BY <1>6, <1>11 DEF Lesser
    <3>2. SubSeq(t, m + 1, l) = <<>>
      BY <1>6, <3>1, SubSeqEmpty
    <3> QED
      BY <1>9, <3>1, <3>2
  <2> QED
    BY <2>1, <2>2, <2>3, NothingMore
<1>12. CASE ~(i < m) /\ i = len
  <2>1. z = <<>>
    <3>1. ~(i + 1 <= Len(t))
      BY <1>6, <1>12
    <3> QED
      BY <1>8, <3>1 DEF Stays
  <2>2. e = y
    <3>1. Lesser(i + 1, len) = i
      BY <1>12 DEF Lesser
    <3> QED
      BY <1>7, <1>9, <3>1
  <2>3. y \in Text
    <3>1. m <= i
      BY <1>6, <1>12
    <3> QED
      BY <1>1, <1>7, <3>1, PartTyped
  <2>4. G \o y \in Text
    BY <2>3, JoinTyped
  <2> QED
    BY <2>1, <2>2, <2>4, NothingMore
<1>13. CASE ~(i < m) /\ i # len
  <2>1. m <= i /\ i < len /\ m <= i + 1 /\ i \in Nat /\ m \in Nat
    BY <1>6, <1>13
  <2>2. z = <<t[i + 1]>>
    <3>1. i + 1 <= Len(t)
      BY <1>6, <2>1
    <3>2. ~(\E r \in R : r[1] < i + 1 /\ i + 1 <= r[2])
      BY <1>3, <1>5, <1>13
    <3> QED
      BY <1>8, <3>1, <3>2 DEF Stays
  <2>3. y \in Text /\ Len(y) = i - m /\ \A k \in 1 .. i - m : y[k] = t[m + k]
    BY <1>1, <1>7, <2>1, PartTyped
  <2>4. PICK l \in 0 .. Len(t) : l = i + 1
    BY <1>6, <2>1
  <2>5. Lesser(i + 1, len) = l
    BY <2>1, <2>4 DEF Lesser
  <2>6. e = SubSeq(t, m + 1, l)
    BY <1>9, <2>5
  <2>7. e \in Text /\ Len(e) = l - m /\ \A k \in 1 .. l - m : e[k] = t[m + k]
    <3>1. m <= l
      BY <2>1, <2>4
    <3> QED
      BY <1>1, <2>6, <3>1, PartTyped
  <2>8. z \in Text /\ Len(z) = 1 /\ z[1] = t[l]
    <3>1. t[l] \in Chars
      BY <1>1, <2>1, <2>4 DEF Text
    <3> QED
      BY <2>2, <2>4, <3>1 DEF Text
  <2>9. PICK w : w = y \o z
    OBVIOUS
  <2>10. w \in Text /\ Len(w) = Len(y) + Len(z)
    BY <2>3, <2>8, <2>9, JoinTyped
  <2>11. /\ \A k \in 1 .. Len(y) : w[k] = y[k]
         /\ \A k \in 1 .. Len(z) : w[Len(y) + k] = z[k]
    BY <2>3, <2>8, <2>9, JoinTyped
  <2>12. Len(w) = Len(e)
    BY <2>1, <2>3, <2>4, <2>7, <2>8, <2>10
  <2>13. ASSUME NEW k \in 1 .. Len(w) PROVE w[k] = e[k]
    <3>1. Len(w) = (i - m) + 1 /\ k \in 1 .. l - m
      BY <2>1, <2>3, <2>4, <2>7, <2>12
    <3>2. CASE k <= i - m
      <4>1. k \in 1 .. i - m
        BY <3>1, <3>2
      <4> QED
        BY <2>3, <2>7, <2>11, <3>1, <4>1
    <3>3. CASE ~(k <= i - m)
      <4>1. k = Len(y) + 1 /\ m + k = l
        BY <2>1, <2>3, <2>4, <3>1, <3>3
      <4>2. w[Len(y) + 1] = z[1]
        BY <2>8, <2>11
      <4> QED
        BY <2>7, <2>8, <3>1, <4>1, <4>2
    <3> QED
      BY <3>2, <3>3
  <2>14. w = e
    BY <2>7, <2>10, <2>12, <2>13, SameText
  <2>15. (G \o y) \o z = G \o (y \o z)
    <3>1. G \in Seq(Chars) /\ y \in Seq(Chars) /\ z \in Seq(Chars)
      BY <2>3, <2>8 DEF Text
    <3> QED
      BY ONLY <3>1, ConcatAssociative
  <2> QED
    BY <2>9, <2>14, <2>15
<1> QED
  BY <1>11, <1>12, <1>13

\* The first i places are done.
PlacesDone(s, i, a, b, n, g, t) ==
    \A j \in 0 .. n : a[j] < i /\ (j < n => i <= a[j + 1]) =>
        s[i] = g[j] \o SubSeq(t, b[j] + 1, Lesser(i, Len(t)))

\* What replaces the range that begins at a place.
LEMMA PutThere ==
  ASSUME NEW a, NEW b, NEW n, NEW g, NEW s, NEW new, NEW t, BothWays(a, b, n, g, s, new, t),
         NEW i \in 0 .. Len(t), NEW j, LastBegun(a, n, i, j),
         PlacesDone(s, i, a, b, n, g, t)
  PROVE  UpTo(s[i] \o Put(Removed(a, b, n), new, i), g[j], t, b[j], i)
<1>0. j \in 0 .. n /\ a[j] <= i /\ (j < n => i + 1 <= a[j + 1])
  BY DEF LastBegun
<1> USE <1>0
<1>1. /\ t \in Text /\ Len(t) \in Nat /\ n \in Nat
      /\ \A k \in 0 .. n : g[k] \in Text /\ a[k] \in Int /\ b[k] \in Nat /\ b[k] <= Len(t)
                           /\ a[k] <= b[k]
      /\ \A k, l \in 0 .. n : k < l => a[k] <= a[l]
      /\ a[0] = -1
  BY WaysTyped
<1>2. i \in Nat /\ Lesser(i, Len(t)) = i
  BY <1>1 DEF Lesser
<1>3. PICK R : R = Removed(a, b, n)
  OBVIOUS
<1>4. s[i] \in Text
  <2>1. i \in 0 .. Len(t) + 1
    BY <1>1
  <2> QED
    BY <2>1, PlacedTexts
<1>5. CASE a[j] # i
  <2>1. a[j] < i
    BY <1>1, <1>2, <1>5
  <2>2. j < n => i <= a[j + 1]
    <3> SUFFICES ASSUME j < n PROVE i <= a[j + 1]
      OBVIOUS
    <3>1. PICK l \in 0 .. n : l = j + 1
      BY <1>1
    <3>2. a[l] \in Int /\ i + 1 <= a[l]
      BY <1>1, <3>1
    <3> QED
      BY <1>2, <3>1, <3>2
  <2>3. s[i] = g[j] \o SubSeq(t, b[j] + 1, i)
    BY <1>2, <2>1, <2>2 DEF PlacesDone
  <2>4. ASSUME NEW k \in 1 .. n PROVE a[k] # i
    <3>1. k \in 0 .. n /\ a[k] \in Int
      BY <1>1
    <3>2. CASE k = j
      BY <1>5, <3>2
    <3>3. CASE k < j
      <4>1. a[k] <= a[j] /\ a[j] \in Int
        BY <1>1, <3>1, <3>3
      <4> QED
        BY <1>2, <2>1, <3>1, <4>1
    <3>4. CASE k > j
      <4>1. PICK l \in 0 .. n : l = j + 1
        BY <1>1, <3>1, <3>4
      <4>2. l = k \/ l < k
        BY <3>4, <4>1
      <4>3. a[l] <= a[k] /\ a[l] \in Int
        BY <1>1, <3>1, <4>2
      <4>4. i + 1 <= a[l]
        BY <1>1, <3>1, <3>4, <4>1
      <4> QED
        BY <1>2, <3>1, <4>3, <4>4
    <3> QED
      BY <3>2, <3>3, <3>4
  <2>5. Put(R, new, i) = <<>>
    <3>1. ASSUME NEW r \in R PROVE r[1] # i
      <4>1. PICK k \in 1 .. n : r = <<a[k], b[k]>>
        BY <1>3 DEF Removed
      <4> QED
        BY <2>4, <4>1
    <3> QED
      BY <3>1 DEF Put
  <2>6. s[i] \o <<>> = s[i]
    BY <1>4, NothingMore
  <2> QED
    BY <1>3, <2>3, <2>5, <2>6 DEF UpTo
<1>6. CASE a[j] = i
  <2>1. j \in 1 .. n
    BY <1>1, <1>2, <1>6
  <2>2. Put(R, new, i) = new
    <3>1. PICK r : r = <<a[j], b[j]>>
      OBVIOUS
    <3>2. r \in R /\ r[1] = i
      BY <1>3, <1>6, <2>1, <3>1 DEF Removed
    <3> QED
      BY <3>2 DEF Put
  <2>3. PICK l \in 1 .. n : a[l] = i /\ a[l - 1] < i /\ g[l] = g[j]
    <3>1. CASE \E k \in 1 .. n : k < j /\ a[k] = i
      <4>1. PICK k \in 1 .. n : k < j /\ a[k] = i
        BY <3>1
      <4>2. j = k + 1
        BY <1>6, <2>1, <4>1 DEF BothWays, Twice
      <4>3. g[k] = g[j]
        BY <1>6, <2>1, <4>1, BuiltOnce
      <4>4. a[k - 1] < i
        <5>1. CASE k = 1
          BY <1>1, <1>2, <5>1
        <5>2. CASE k # 1
          <6>1. PICK x \in 1 .. n : x = k - 1
            BY <1>1, <5>2
          <6>2. x \in 0 .. n /\ x < k /\ x < j /\ k \in 0 .. n
            BY <1>1, <4>1, <6>1
          <6>3. a[x] <= a[k] /\ a[x] \in Int
            BY <1>1, <6>2
          <6>4. a[x] # i
            <7>1. SUFFICES ASSUME a[x] = i PROVE FALSE
              OBVIOUS
            <7>2. j = x + 1
              BY <1>6, <2>1, <6>2, <7>1 DEF BothWays, Twice
            <7> QED
              BY <4>2, <6>1, <7>2
          <6> QED
            BY <1>2, <4>1, <6>1, <6>3, <6>4
        <5> QED
          BY <5>1, <5>2
      <4> QED
        BY <4>1, <4>3, <4>4
    <3>2. CASE ~(\E k \in 1 .. n : k < j /\ a[k] = i)
      <4>1. a[j - 1] < i
        <5>1. CASE j = 1
          BY <1>1, <1>2, <5>1
        <5>2. CASE j # 1
          <6>1. PICK x \in 1 .. n : x = j - 1
            BY <1>1, <2>1, <5>2
          <6>2. x \in 0 .. n /\ x < j
            BY <1>1, <6>1
          <6>3. a[x] <= a[j] /\ a[x] \in Int
            BY <1>1, <6>2
          <6>4. a[x] # i
            BY <3>2, <6>2
          <6> QED
            BY <1>2, <1>6, <6>1, <6>3, <6>4
        <5> QED
          BY <5>1, <5>2
      <4> QED
        BY <1>6, <2>1, <4>1
    <3> QED
      BY <3>1, <3>2
  <2>4. PICK k \in 0 .. n : k = l - 1
    BY <1>1
  <2>5. s[i] = g[k] \o SubSeq(t, b[k] + 1, i)
    <3>1. a[k] < i
      BY <2>3, <2>4
    <3>2. k < n => i <= a[k + 1]
      <4>1. k + 1 = l
        BY <2>4
      <4> QED
        BY <1>2, <2>3, <4>1
    <3> QED
      BY <1>2, <3>1, <3>2 DEF PlacesDone
  <2>6. g[l] = (g[k] \o SubSeq(t, b[k] + 1, i)) \o new
    <3>1. g[l] = (g[l - 1] \o SubSeq(t, b[l - 1] + 1, a[l])) \o new
      BY DEF BothWays, Built
    <3> QED
      BY <2>3, <2>4, <3>1
  <2>7. s[i] \o Put(R, new, i) = g[j]
    BY <2>2, <2>3, <2>5, <2>6
  <2>8. SubSeq(t, b[j] + 1, i) = <<>>
    <3>1. PICK m \in Nat : m = b[j] /\ i <= m
      BY <1>1, <1>6
    <3>2. SubSeq(t, m + 1, i) = <<>>
      BY <1>2, <3>1, SubSeqEmpty
    <3> QED
      BY <3>1, <3>2
  <2>9. g[j] \o <<>> = g[j]
    BY <1>1, NothingMore
  <2> QED
    BY <1>3, <2>7, <2>8, <2>9 DEF UpTo
<1> QED
  BY <1>5, <1>6

\* Place by place, replacing at once makes what the batch makes.
LEMMA BuiltPlaceByPlace ==
  ASSUME NEW a, NEW b, NEW n, NEW g, NEW s, NEW new, NEW t, BothWays(a, b, n, g, s, new, t)
  PROVE  \A i \in 0 .. Len(t) + 1 : PlacesDone(s, i, a, b, n, g, t)
<1>1. /\ t \in Text /\ Len(t) \in Nat /\ n \in Nat /\ new \in Text
      /\ \A k \in 1 .. n : a[k] \in Nat
      /\ \A k \in 0 .. n : a[k] \in Int
      /\ b[0] = 0 /\ g[0] = <<>> /\ s[0] = <<>>
  BY WaysTyped
<1>2. PICK R : R = Removed(a, b, n)
  OBVIOUS
<1>3. PICK I : I = {i \in Nat : i <= Len(t) + 1 => PlacesDone(s, i, a, b, n, g, t)}
  OBVIOUS
<1>4. 0 \in I
  <2>1. ASSUME NEW j \in 0 .. n, a[j] < 0 PROVE s[0] = g[j] \o SubSeq(t, b[j] + 1, Lesser(0, Len(t)))
    <3>1. j = 0
      <4>1. SUFFICES ASSUME j # 0 PROVE FALSE
        OBVIOUS
      <4>2. j \in 1 .. n
        BY <1>1, <4>1
      <4>3. a[j] \in Nat
        BY <1>1, <4>2
      <4> QED
        BY <2>1, <4>3
    <3>2. Lesser(0, Len(t)) = 0
      BY <1>1 DEF Lesser
    <3>3. SubSeq(t, 0 + 1, 0) = <<>>
      BY SubSeqEmpty
    <3>4. <<>> \in Text
      BY DEF Text
    <3>5. <<>> \o <<>> = <<>>
      BY <3>4, NothingMore
    <3> QED
      BY <1>1, <3>1, <3>2, <3>3, <3>5
  <2>2. PlacesDone(s, 0, a, b, n, g, t)
    BY <2>1 DEF PlacesDone
  <2> QED
    BY <1>3, <2>2
<1>5. ASSUME NEW i \in Nat, i \in I PROVE i + 1 \in I
  <2>1. CASE i + 1 <= Len(t) + 1
    <3>1. i \in 0 .. Len(t) /\ i + 1 \in 1 .. Len(t) + 1 /\ (i + 1) - 1 = i /\ i <= Len(t) + 1
      BY <1>1, <2>1
    <3>2. PlacesDone(s, i, a, b, n, g, t)
      BY <1>3, <1>5, <3>1
    <3>3. PICK p : p = Put(R, new, i)
      OBVIOUS
    <3>4. PICK z : z = Stays(R, t, i + 1)
      OBVIOUS
    <3>5. PICK x : x = s[i]
      OBVIOUS
    <3>6. p \in Text /\ z \in Text /\ x \in Text
      <4>1. i \in 0 .. Len(t) + 1
        BY <3>1
      <4>2. x \in Text
        BY <3>5, <4>1, PlacedTexts
      <4> QED
        BY <1>1, <3>1, <3>3, <3>4, <4>2, PutAndStay
    <3>7. s[i + 1] = (x \o p) \o z
      <4>1. s[i + 1] = x \o (p \o z)
        <5>1. s[i + 1] = s[(i + 1) - 1] \o (Put(R, new, (i + 1) - 1) \o Stays(R, t, i + 1))
          BY <1>2, <3>1 DEF BothWays, PlaceByPlace
        <5> QED
          BY <3>1, <3>3, <3>4, <3>5, <5>1
      <4>2. p \in Seq(Chars) /\ z \in Seq(Chars) /\ x \in Seq(Chars)
        BY <3>6 DEF Text
      <4>3. (x \o p) \o z = x \o (p \o z)
        BY <4>2, ConcatAssociative
      <4> QED
        BY <4>1, <4>3
    <3>8. ASSUME NEW j \in 0 .. n, a[j] < i + 1, j < n => i + 1 <= a[j + 1]
          PROVE  s[i + 1] = g[j] \o SubSeq(t, b[j] + 1, Lesser(i + 1, Len(t)))
      <4>1. a[j] <= i
        <5>1. a[j] \in Int
          BY <1>1
        <5> QED
          BY <3>8, <5>1
      <4>0. LastBegun(a, n, i, j)
        BY <3>8, <4>1 DEF LastBegun
      <4>2. UpTo(x \o p, g[j], t, b[j], i)
        <5>1. UpTo(s[i] \o Put(Removed(a, b, n), new, i), g[j], t, b[j], i)
          BY <3>1, <3>2, <4>0, PutThere
        <5> QED
          BY <1>2, <3>3, <3>5, <5>1
      <4>3. PICK next : next = i + 1
        OBVIOUS
      <4>4. UpTo((x \o p) \o Stays(Removed(a, b, n), t, next), g[j], t, b[j], Lesser(next, Len(t)))
        BY <3>1, <4>0, <4>2, <4>3, StaysThere
      <4>5. UpTo((x \o p) \o z, g[j], t, b[j], Lesser(i + 1, Len(t)))
        BY <1>2, <3>4, <4>3, <4>4
      <4> QED
        BY <3>7, <4>5 DEF UpTo
    <3>9. PlacesDone(s, i + 1, a, b, n, g, t)
      BY <3>8 DEF PlacesDone
    <3> QED
      BY <1>3, <3>9
  <2>2. CASE ~(i + 1 <= Len(t) + 1)
    BY <1>3, <2>2
  <2> QED
    BY <2>1, <2>2
<1>6. Nat \subseteq I
  BY <1>4, <1>5, Growing!SetInduction
<1> QED
  BY <1>1, <1>3, <1>6

\* To the end.
LEMMA BuiltAtOnce ==
  ASSUME NEW a, NEW b, NEW n, NEW g, NEW s, NEW new, NEW t, BothWays(a, b, n, g, s, new, t)
  PROVE  GoesOn(s[Len(t) + 1], g[n], t, b[n])
<1>1. /\ Len(t) \in Nat /\ n \in Nat
      /\ \A k \in 0 .. n : a[k] \in Int /\ b[k] \in Nat /\ b[k] <= Len(t) /\ a[k] <= b[k]
  BY WaysTyped
<1>2. PICK i \in Nat : i = Len(t) + 1
  BY <1>1
<1>3. PlacesDone(s, i, a, b, n, g, t)
  <2>1. i \in 0 .. Len(t) + 1
    BY <1>1, <1>2
  <2> QED
    BY <2>1, BuiltPlaceByPlace
<1>4. n \in 0 .. n /\ a[n] < i /\ ~(n < n)
  <2>1. n \in 0 .. n
    BY <1>1
  <2>2. a[n] \in Int /\ b[n] \in Nat /\ b[n] <= Len(t) /\ a[n] <= b[n]
    BY <1>1, <2>1
  <2> QED
    BY <1>1, <1>2, <2>1, <2>2
<1>5. s[i] = g[n] \o SubSeq(t, b[n] + 1, Lesser(i, Len(t)))
  BY <1>3, <1>4 DEF PlacesDone
<1>6. Lesser(i, Len(t)) = Len(t)
  BY <1>1, <1>2 DEF Lesser
<1> QED
  BY <1>2, <1>5, <1>6 DEF GoesOn

\* The characters up to p that stay, and the ranges that begin up to p.
KeptUpTo(R, p)  == {x \in 1 .. p : ~(\E r \in R : r[1] < x /\ x <= r[2])}
BegunUpTo(R, p) == {r \in R : r[1] <= p}

\* Where HeadBehind is: by the characters that stay and the ranges that begin.
LEMMA HeadBehindIs ==
  ASSUME NEW R, NEW new, NEW r
  PROVE  HeadBehind(r, R, new)
           = Cardinality(KeptUpTo(R, r[1])) + Len(new) * Cardinality(BegunUpTo(R, r[1]))
BY DEF HeadBehind, KeptUpTo, BegunUpTo

\* No two ranges begin at one place.
Onward(a, n) == \A k \in 1 .. n : k < n => a[k] < a[k + 1]

\* From one range to the next the text between them stays.
LEMMA KeptGrows ==
  ASSUME NEW a, NEW b, NEW n, NEW g, NEW s, NEW new, NEW t, BothWays(a, b, n, g, s, new, t),
         NEW k \in 0 .. n, NEW j \in 1 .. n, j = k + 1
  PROVE  /\ KeptUpTo(Removed(a, b, n), a[j])
              = KeptUpTo(Removed(a, b, n), a[k]) \cup (b[k] + 1 .. a[j])
         /\ KeptUpTo(Removed(a, b, n), a[k]) \cap (b[k] + 1 .. a[j]) = {}
<1>1. /\ n \in Nat /\ Len(t) \in Nat
      /\ \A l \in 0 .. n : a[l] \in Int /\ b[l] \in Nat /\ b[l] <= Len(t) /\ a[l] <= b[l]
      /\ \A l, m \in 0 .. n : l < m => b[l] <= a[m] /\ a[l] <= a[m]
  BY WaysTyped
<1>2. PICK R : R = Removed(a, b, n)
  OBVIOUS
<1>3. PICK x \in Int, y \in Int, z \in Nat : x = a[k] /\ y = a[j] /\ z = b[k]
  BY <1>1
<1>4. x <= z /\ z <= y /\ y <= Len(t)
  <2>1. j \in 0 .. n /\ k < j
    BY <1>1
  <2>2. b[k] <= a[j] /\ a[k] <= b[k] /\ a[j] <= b[j] /\ b[j] <= Len(t) /\ b[j] \in Nat
    BY <1>1, <2>1
  <2> QED
    BY <1>1, <1>3, <2>2
<1>5. ASSUME NEW p \in 1 .. y, x < p
      PROVE  (\E r \in R : r[1] < p /\ p <= r[2]) <=> p <= z
  <2>1. PICK i \in 0 .. Len(t) : p = i + 1
    <3>1. p - 1 \in 0 .. Len(t) /\ p = (p - 1) + 1
      BY <1>1, <1>4
    <3> QED
      BY <3>1
  <2>2. a[k] <= i
    BY <1>3, <1>5, <2>1
  <2>3. k < n => i + 1 <= a[k + 1]
    BY <1>3, <2>1
  <2>4. (\E r \in R : r[1] < i + 1 /\ i + 1 <= r[2]) <=> i < b[k]
    <3>1. (\E r \in Removed(a, b, n) : r[1] < i + 1 /\ i + 1 <= r[2]) <=> i < b[k]
      BY <2>2, <2>3, RemovedThere
    <3> QED
      BY <1>2, <3>1
  <2>5. i < b[k] <=> p <= z
    BY <1>3, <2>1
  <2> QED
    BY <2>1, <2>4, <2>5
<1>6. ASSUME NEW p \in Int
      PROVE  p \in KeptUpTo(R, y) <=> p \in KeptUpTo(R, x) \/ p \in z + 1 .. y
  <2>1. CASE p <= x
    <3>1. p \in 1 .. y <=> p \in 1 .. x
      BY <1>4, <2>1
    <3>2. ~(p \in z + 1 .. y)
      BY <1>4, <2>1
    <3> QED
      BY <3>1, <3>2 DEF KeptUpTo
  <2>2. CASE x < p
    <3>1. ~(p \in KeptUpTo(R, x))
      BY <2>2 DEF KeptUpTo
    <3>2. p \in z + 1 .. y <=> p \in 1 .. y /\ ~(p <= z)
      BY <1>3, <2>2
    <3>3. p \in 1 .. y => ((\E r \in R : r[1] < p /\ p <= r[2]) <=> p <= z)
      BY <1>5, <2>2
    <3> QED
      BY <3>1, <3>2, <3>3 DEF KeptUpTo
  <2> QED
    BY <2>1, <2>2
<1>7. KeptUpTo(R, y) \subseteq Int /\ KeptUpTo(R, x) \subseteq Int /\ z + 1 .. y \subseteq Int
  BY DEF KeptUpTo
<1>8. KeptUpTo(R, y) = KeptUpTo(R, x) \cup (z + 1 .. y)
  BY <1>6, <1>7
<1>9. KeptUpTo(R, x) \cap (z + 1 .. y) = {}
  <2>1. \A p \in KeptUpTo(R, x) : p \in 1 .. x
    BY DEF KeptUpTo
  <2> QED
    BY <1>4, <2>1
<1> QED
  BY <1>2, <1>3, <1>8, <1>9

\* And one more begins.
LEMMA OneMoreBegins ==
  ASSUME NEW a, NEW b, NEW n, NEW g, NEW s, NEW new, NEW t, BothWays(a, b, n, g, s, new, t),
         Onward(a, n), NEW k \in 0 .. n, NEW j \in 1 .. n, j = k + 1
  PROVE  /\ BegunUpTo(Removed(a, b, n), a[j])
              = BegunUpTo(Removed(a, b, n), a[k]) \cup {<<a[j], b[j]>>}
         /\ <<a[j], b[j]>> \notin BegunUpTo(Removed(a, b, n), a[k])
<1>1. /\ n \in Nat /\ a[0] = -1
      /\ \A l \in 0 .. n : a[l] \in Int
      /\ \A l \in 1 .. n : a[l] \in Nat
      /\ \A l, m \in 0 .. n : l < m => a[l] <= a[m]
  BY WaysTyped
<1>2. j \in 0 .. n
  BY <1>1
<1>3. a[k] < a[j]
  <2>1. CASE k = 0
    BY <1>1, <2>1
  <2>2. CASE k # 0
    <3>1. k \in 1 .. n /\ k < n
      BY <1>1, <2>2
    <3> QED
      BY <3>1 DEF Onward
  <2> QED
    BY <2>1, <2>2
<1>4. ASSUME NEW l \in 1 .. n PROVE a[l] <= a[j] <=> (a[l] <= a[k] \/ l = j)
  <2>1. l \in 0 .. n /\ a[l] \in Int /\ a[j] \in Int /\ a[k] \in Int
    BY <1>1, <1>2
  <2>2. CASE l = j
    BY <2>1, <2>2
  <2>3. CASE l < j
    <3>1. l = k \/ l < k
      BY <2>3
    <3>2. a[l] <= a[k]
      BY <1>1, <2>1, <3>1
    <3> QED
      BY <1>3, <2>1, <3>2
  <2>4. CASE l > j
    <3>1. PICK m \in 1 .. n : m = j + 1
      BY <1>1, <2>4
    <3>2. j < n
      BY <1>1, <2>4
    <3>3. a[j] < a[m]
      BY <3>1, <3>2 DEF Onward
    <3>4. m \in 0 .. n /\ (m = l \/ m < l)
      BY <1>1, <2>4, <3>1
    <3>5. a[m] <= a[l] /\ a[m] \in Int
      BY <1>1, <2>1, <3>4
    <3>6. a[j] < a[l]
      BY <2>1, <3>3, <3>5
    <3>7. l # j
      BY <2>4
    <3> QED
      BY <1>3, <2>1, <3>6, <3>7
  <2> QED
    BY <2>2, <2>3, <2>4
<1>5. PICK R : R = Removed(a, b, n)
  OBVIOUS
<1>6. PICK r : r = <<a[j], b[j]>>
  OBVIOUS
<1>7. r \in R /\ r[1] = a[j]
  BY <1>5, <1>6 DEF Removed
<1>8. ASSUME NEW c \in R PROVE c[1] <= a[j] <=> (c[1] <= a[k] \/ c = r)
  <2>1. PICK l \in 1 .. n : c = <<a[l], b[l]>>
    BY <1>5 DEF Removed
  <2>2. c[1] = a[l]
    BY <2>1
  <2>3. l = j => c = r
    BY <1>6, <2>1
  <2>4. c = r => a[l] = a[j]
    BY <1>7, <2>2
  <2>5. a[l] = a[j] => a[l] <= a[j]
    BY <1>1, <1>2
  <2> QED
    BY <1>4, <2>2, <2>3, <2>4, <2>5
<1>9. BegunUpTo(R, a[j]) = BegunUpTo(R, a[k]) \cup {r}
  BY <1>7, <1>8 DEF BegunUpTo
<1>10. r \notin BegunUpTo(R, a[k])
  <2>1. ~(a[j] <= a[k])
    BY <1>1, <1>2, <1>3
  <2> QED
    BY <1>7, <2>1 DEF BegunUpTo
<1> QED
  BY <1>5, <1>6, <1>9, <1>10

\* Where the carets end up is behind what stays and all that came.
Counted(a, b, n, g, new, k) ==
    LET R == Removed(a, b, n)
    IN  /\ IsFiniteSet(KeptUpTo(R, a[k])) /\ IsFiniteSet(BegunUpTo(R, a[k]))
        /\ Cardinality(BegunUpTo(R, a[k])) = k
        /\ Len(g[k]) = Cardinality(KeptUpTo(R, a[k])) + Len(new) * k

\* What is built up to a range is as long as HeadBehind counts.
LEMMA HeadsCounted ==
  ASSUME NEW a, NEW b, NEW n, NEW g, NEW s, NEW new, NEW t, BothWays(a, b, n, g, s, new, t),
         Onward(a, n)
  PROVE  \A k \in 0 .. n : Counted(a, b, n, g, new, k)
<1>1. /\ n \in Nat /\ a[0] = -1 /\ b[0] = 0 /\ g[0] = <<>> /\ new \in Text
      /\ \A l \in 0 .. n : a[l] \in Int /\ b[l] \in Nat /\ g[l] \in Text
      /\ \A l \in 1 .. n : a[l] \in Nat
      /\ \A l, m \in 0 .. n : l < m => b[l] <= a[m]
  BY WaysTyped
<1>2. Len(new) \in Nat /\ \A l \in 0 .. n : Len(g[l]) \in Nat
  BY <1>1 DEF Text
<1>3. PICK R : R = Removed(a, b, n)
  OBVIOUS
<1>4. PICK I : I = {k \in Nat : k <= n => Counted(a, b, n, g, new, k)}
  OBVIOUS
<1>5. 0 \in I
  <2>1. KeptUpTo(R, -1) = {}
    BY DEF KeptUpTo
  <2>2. BegunUpTo(R, -1) = {}
    <3>1. ASSUME NEW r \in R PROVE ~(r[1] <= -1)
      <4>1. PICK l \in 1 .. n : r = <<a[l], b[l]>>
        BY <1>3 DEF Removed
      <4>2. r[1] \in Nat
        BY <1>1, <4>1
      <4> QED
        BY <4>2
    <3> QED
      BY <3>1 DEF BegunUpTo
  <2>3. IsFiniteSet({}) /\ Cardinality({}) = 0
    BY FS_EmptySet
  <2>4. Len(g[0]) = 0 /\ Len(new) * 0 = 0
    BY <1>1, <1>2
  <2>5. Counted(a, b, n, g, new, 0)
    <3>1. KeptUpTo(R, a[0]) = {} /\ BegunUpTo(R, a[0]) = {}
      BY <1>1, <2>1, <2>2
    <3>2. Len(g[0]) = Cardinality({}) + Len(new) * 0
      <4>1. PICK L \in Nat, c \in Nat : L = Len(new) /\ c = Cardinality({}) /\ c = 0
        BY <1>2, <2>3
      <4>2. 0 = c + L * 0
        BY <4>1
      <4> QED
        BY <2>4, <4>1, <4>2
    <3> QED
      BY <1>3, <2>3, <3>1, <3>2 DEF Counted
  <2> QED
    BY <1>4, <2>5
<1>6. ASSUME NEW k \in Nat, k \in I PROVE k + 1 \in I
  <2>1. CASE k + 1 <= n
    <3>1. PICK j : j = k + 1
      OBVIOUS
    <3>2. j \in 1 .. n /\ k \in 0 .. n /\ k <= n /\ j - 1 = k /\ j = k + 1 /\ j \in 0 .. n
      BY <1>1, <2>1, <3>1
    <3>3. /\ IsFiniteSet(KeptUpTo(R, a[k])) /\ IsFiniteSet(BegunUpTo(R, a[k]))
          /\ Cardinality(BegunUpTo(R, a[k])) = k
          /\ Len(g[k]) = Cardinality(KeptUpTo(R, a[k])) + Len(new) * k
      BY <1>3, <1>4, <1>6, <3>2 DEF Counted
    <3>4. PICK A : A = KeptUpTo(R, a[k])
      OBVIOUS
    <3>5. PICK B : B = b[k] + 1 .. a[j]
      OBVIOUS
    <3>6. PICK x \in Nat, y \in Nat : x = b[k] /\ y = a[j] /\ x <= y
      BY <1>1, <3>2
    <3>7. IsFiniteSet(B) /\ Cardinality(B) = y - x
      <4>1. B = x + 1 .. y
        BY <3>5, <3>6
      <4>2. IsFiniteSet(x + 1 .. y)
            /\ Cardinality(x + 1 .. y) = IF x + 1 > y THEN 0 ELSE y - (x + 1) + 1
        BY FS_Interval
      <4> QED
        BY <3>6, <4>1, <4>2
    <3>8. KeptUpTo(R, a[j]) = A \cup B /\ A \cap B = {}
      BY <1>3, <3>2, <3>4, <3>5, KeptGrows
    <3>9. /\ IsFiniteSet(A \cup B)
          /\ Cardinality(A \cup B) = Cardinality(A) + Cardinality(B) - Cardinality(A \cap B)
      BY <3>3, <3>4, <3>7, FS_Union
    <3>10. Cardinality(A) \in Nat /\ Cardinality(A \cap B) = 0
      BY <3>3, <3>4, <3>8, FS_CardinalityType, FS_EmptySet
    <3>11. Cardinality(KeptUpTo(R, a[j])) = Cardinality(A) + (y - x)
      BY <3>6, <3>7, <3>8, <3>9, <3>10
    <3>12. PICK C : C = BegunUpTo(R, a[k])
      OBVIOUS
    <3>13. PICK r : r = <<a[j], b[j]>>
      OBVIOUS
    <3>14. BegunUpTo(R, a[j]) = C \cup {r} /\ r \notin C
      BY <1>3, <3>2, <3>12, <3>13, OneMoreBegins
    <3>15. IsFiniteSet(C \cup {r}) /\ Cardinality(C \cup {r}) = k + 1
      <4>1. IsFiniteSet(C) /\ Cardinality(C) = k
        BY <3>3, <3>12
      <4>2. IsFiniteSet(C \cup {r})
            /\ Cardinality(C \cup {r}) = IF r \in C THEN Cardinality(C) ELSE Cardinality(C) + 1
        BY <4>1, FS_AddElement
      <4> QED
        BY <3>14, <4>1, <4>2
    <3>16. Len(g[j]) = Len(g[k]) + (y - x) + Len(new)
      <4>1. /\ t \in Text /\ new \in Text /\ n \in Nat /\ InTurn(a, b, n, Len(t))
            /\ Built(g, t, a, b, new, n)
        BY DEF BothWays
      <4>2. \A l \in 1 .. n : Len(g[l]) = Len(g[l - 1]) + (a[l] - b[l - 1]) + Len(new)
        BY ONLY <4>1, BuiltTyped
      <4>3. Len(g[j]) = Len(g[k]) + (a[j] - b[k]) + Len(new)
        BY <3>2, <4>2
      <4> QED
        BY <3>6, <4>3
    <3>17. Len(new) * j = Len(new) * k + Len(new)
      <4>1. PICK L \in Nat : L = Len(new)
        BY <1>2
      <4>2. L * (k + 1) = L * k + L
        OBVIOUS
      <4> QED
        BY <3>1, <4>1, <4>2
    <3>18. Len(new) * k \in Nat
      <4>1. PICK L \in Nat : L = Len(new)
        BY <1>2
      <4>2. L * k \in Nat
        OBVIOUS
      <4> QED
        BY <4>1, <4>2
    <3>19. Len(g[j]) = Cardinality(KeptUpTo(R, a[j])) + Len(new) * j
      <4>1. PICK L \in Nat, M \in Nat, N \in Nat, c \in Nat :
               L = Len(new) /\ M = Len(new) * k /\ N = Len(g[k]) /\ c = Cardinality(A)
        BY <1>2, <3>2, <3>10, <3>18
      <4>2. N = c + M
        BY <3>3, <3>4, <4>1
      <4>3. Len(g[j]) = N + (y - x) + L /\ Cardinality(KeptUpTo(R, a[j])) = c + (y - x)
            /\ Len(new) * j = M + L
        BY <3>11, <3>16, <3>17, <4>1
      <4> QED
        BY <3>6, <4>2, <4>3
    <3>20. Counted(a, b, n, g, new, j)
      BY <1>3, <3>1, <3>8, <3>9, <3>14, <3>15, <3>19 DEF Counted
    <3> QED
      BY <1>4, <3>1, <3>20
  <2>2. CASE ~(k + 1 <= n)
    BY <1>4, <2>2
  <2> QED
    BY <2>1, <2>2
<1>7. Nat \subseteq I
  BY <1>5, <1>6, Growing!SetInduction
<1> QED
  BY <1>1, <1>4, <1>7

\* Every cursor then is behind what replaced its range.
LEMMA HeadsAtOnce ==
  ASSUME NEW a, NEW b, NEW n, NEW g, NEW s, NEW new, NEW t, BothWays(a, b, n, g, s, new, t),
         Onward(a, n)
  PROVE  {HeadBehind(r, Removed(a, b, n), new) : r \in Removed(a, b, n)} = {Len(g[k]) : k \in 1 .. n}
<1>1. PICK R : R = Removed(a, b, n)
  OBVIOUS
<1>2. n \in Nat
  BY WaysTyped
<1>3. ASSUME NEW k \in 1 .. n PROVE HeadBehind(<<a[k], b[k]>>, R, new) = Len(g[k])
  <2>1. Counted(a, b, n, g, new, k)
    <3>1. k \in 0 .. n
      BY <1>2
    <3> QED
      BY <3>1, HeadsCounted
  <2>2. /\ Cardinality(BegunUpTo(R, a[k])) = k
        /\ Len(g[k]) = Cardinality(KeptUpTo(R, a[k])) + Len(new) * k
    BY <1>1, <2>1 DEF Counted
  <2>3. PICK r : r = <<a[k], b[k]>>
    OBVIOUS
  <2>4. r[1] = a[k]
    BY <2>3
  <2>5. HeadBehind(r, R, new)
           = Cardinality(KeptUpTo(R, r[1])) + Len(new) * Cardinality(BegunUpTo(R, r[1]))
    BY HeadBehindIs
  <2> QED
    BY <2>2, <2>3, <2>4, <2>5
<1>4. ASSUME NEW r \in R PROVE HeadBehind(r, R, new) \in {Len(g[k]) : k \in 1 .. n}
  <2>1. PICK k \in 1 .. n : r = <<a[k], b[k]>>
    BY <1>1 DEF Removed
  <2> QED
    BY <1>3, <2>1
<1>5. ASSUME NEW k \in 1 .. n PROVE \E r \in R : HeadBehind(r, R, new) = Len(g[k])
  <2>1. <<a[k], b[k]>> \in R
    BY <1>1 DEF Removed
  <2> QED
    BY <1>3, <2>1
<1>6. {HeadBehind(r, R, new) : r \in R} = {Len(g[k]) : k \in 1 .. n}
  BY <1>4, <1>5
<1> QED
  BY <1>1, <1>6

\* A batch of edits replaces all ranges at once.
LEMMA EditedAtOnce ==
  ASSUME Typed, NEW command \in Commands, InText(cursors, text), Independent(command),
         NEW new \in Text, command # "insert" => new = <<>>,
         NEW done, done = Edited(command, text, cursors, Everywhere(new))
  PROVE  /\ done.text = Simultaneous(Ranges(command), new)
         /\ AllAct(command) =>
               {c.head : c \in ToSet(done.cursors)} =
               {HeadBehind(r, Ranges(command), new) : r \in Ranges(command)}
<1>1. text \in Text /\ cursors \in Cursors /\ Len(text) \in Nat
  BY DEF Typed, Text
<1>2. PICK n : n = Len(cursors)
  OBVIOUS
<1>3. PICK q : q = FromLeft(cursors)
  OBVIOUS
<1>4. PICK o : o = CursorOrder(cursors)
  OBVIOUS
<1>5. n \in Nat /\ DOMAIN cursors = 1 .. n
  BY <1>1, <1>2 DEF Cursors
<1>6. q \in Cursors /\ Len(q) = n
  BY <1>1, <1>2, <1>3, FromLeftFacts
<1>7. /\ \A k \in 1 .. n : o[k] \in 1 .. n /\ q[k] = cursors[o[k]]
      /\ \A i \in 1 .. n : \E k \in 1 .. n : o[k] = i
  BY <1>1, <1>2, <1>3, <1>4, FromLeftFacts
<1>8. PICK a, b : InTurn(a, b, n, Len(text)) /\ RangesAre(a, b, q, command) /\ Spaced(a, b, q, command)
  BY <1>2, <1>3, RangesInTurn
<1>9. PICK g : Built(g, text, a, b, new, n)
  BY <1>5, BuiltExists
<1>10. PICK ins : ins = Everywhere(new)
  OBVIOUS
<1>11. PICK h : Edits(h, command, text, cursors, ins)
  <2>1. \A i \in 1 .. n : ins[i] \in Text
    BY <1>2, <1>10, EverywhereTyped
  <2> QED
    BY <1>1, <1>2, <2>1, EditedInTurn
<1>12. Arrived(h, n, g, a, b, command)
  <2>1. \A i \in 0 .. n : Arrived(h, i, g, a, b, command)
    BY <1>1, <1>2, <1>3, <1>8, <1>9, <1>10, <1>11, BatchInTurn
  <2> QED
    BY <1>5, <2>1
<1>13. PICK R : R = Removed(a, b, n)
  OBVIOUS
<1>14. Ranges(command) = R
  BY <1>2, <1>3, <1>8, <1>13, RangesInOrder
<1>15. PICK s : PlaceByPlace(s, R, new, text) /\ SimultaneousOf(R, new, text) = s[Len(text) + 1]
  BY <1>1, PlacedInTurn
<1>16. /\ Twice(a, b, n, new)
       /\ \A k \in 1 .. n - 1 :
              a[k] < a[k + 1] \/ (~HasSel(q[k]) /\ a[k] = b[k] /\ command = "backspace")
  <2>1. PICK len \in Nat : len = Len(text)
    BY <1>1
  <2>2. InTurn(a, b, Len(q), len)
    BY <1>6, <1>8, <2>1
  <2>3. /\ Twice(a, b, Len(q), new)
        /\ \A k \in 1 .. Len(q) - 1 :
              a[k] < a[k + 1] \/ (~HasSel(q[k]) /\ a[k] = b[k] /\ command = "backspace")
    BY <1>6, <1>8, <2>2, TwiceAtStart
  <2> QED
    BY <1>6, <2>3
<1>17. BothWays(a, b, n, g, s, new, text)
  BY <1>1, <1>5, <1>8, <1>9, <1>13, <1>15, <1>16 DEF BothWays
<1>18. PICK d \in Cursors, u \in Text : d = h[n].cursors /\ u = h[n].text /\ Len(d) = n
  <2>1. h[n] \in Batch /\ Len(h[n].cursors) = n
    BY <1>2, <1>5, <1>11 DEF Edits
  <2> QED
    BY <2>1 DEF Batch
<1>19. u = Simultaneous(R, new)
  <2>1. GoesOn(s[Len(text) + 1], g[n], text, b[n])
    BY <1>17, BuiltAtOnce
  <2>2. GoesOn(u, g[n], text, b[n])
    BY <1>12, <1>18 DEF Arrived
  <2>3. u = s[Len(text) + 1]
    BY <2>1, <2>2 DEF GoesOn
  <2> QED
    BY <1>15, <2>3, AsOf
<1>20. PICK e : e = DedupCursors(d)
  OBVIOUS
<1>21. done.text = u /\ done.cursors = e
  <2>1. done = [text |-> u, cursors |-> e]
    BY <1>2, <1>10, <1>11, <1>18, <1>20 DEF Edits
  <2> QED
    BY <2>1
<1>22. ASSUME AllAct(command)
       PROVE  {c.head : c \in ToSet(e)} = {HeadBehind(r, R, new) : r \in R}
  <2>1. ASSUME NEW k \in 1 .. n PROVE Acts(command, q[k], <<a[k], b[k]>>)
    <3>1. o[k] \in DOMAIN cursors /\ cursors[o[k]] = q[k]
      BY <1>5, <1>7
    <3>2. RangeOf(command, q[k]) = <<a[k], b[k]>>
      BY <1>6, <1>8 DEF RangesAre
    <3> QED
      BY <1>22, <3>1, <3>2 DEF AllAct
  <2>2. Onward(a, n)
    <3>1. ASSUME NEW k \in 1 .. n, k < n PROVE a[k] < a[k + 1]
      <4>1. k \in 1 .. n - 1
        BY <1>5, <3>1
      <4>2. a[k] < a[k + 1] \/ (~HasSel(q[k]) /\ a[k] = b[k] /\ command = "backspace")
        BY <1>16, <4>1
      <4>3. CASE ~HasSel(q[k]) /\ a[k] = b[k] /\ command = "backspace"
        <5>1. PICK x, y : x = a[k] /\ y = b[k]
          OBVIOUS
        <5>2. Acts(command, q[k], <<x, y>>)
          BY <2>1, <5>1
        <5>3. x < y
          BY <4>3, <5>2 DEF Acts
        <5>4. x \in Nat /\ x = y
          BY <1>8, <4>3, <5>1 DEF InTurn
        <5> QED
          BY <5>3, <5>4
      <4> QED
        BY <4>2, <4>3
    <3> QED
      BY <3>1 DEF Onward
  <2>3. ASSUME NEW k \in 1 .. n PROVE d[o[k]] = Caret(Len(g[k]))
    <3>1. d[o[k]] = IF k <= n /\ Acts(command, q[k], <<a[k], b[k]>>) THEN Caret(Len(g[k])) ELSE q[k]
      BY <1>2, <1>3, <1>4, <1>12, <1>18 DEF Arrived
    <3>2. k <= n
      BY <1>5
    <3> QED
      BY <2>1, <3>1, <3>2
  <2>4. \A k \in 1 .. n : ~HasSel(d[o[k]]) /\ d[o[k]].head = Len(g[k])
    <3>1. ASSUME NEW k \in 1 .. n PROVE ~HasSel(d[o[k]]) /\ d[o[k]].head = Len(g[k])
      <4>1. PICK x, c : x = Len(g[k]) /\ c = d[o[k]]
        OBVIOUS
      <4>2. c = Caret(x)
        BY <2>3, <4>1
      <4>3. ~HasSel(c) /\ c.head = x
        BY <4>2 DEF Caret, Cursor, HasSel
      <4> QED
        BY <4>1, <4>3
    <3> QED
      BY <3>1
  <2>5. \A i \in 1 .. n : ~HasSel(d[i])
    BY <1>7, <2>4
  <2>6. e \in Cursors /\ HeadsOf(e) = HeadsOf(d)
    BY <1>18, <1>20, <2>5, CaretsMerge, DedupTyped
  <2>7. HeadsOf(d) = {Len(g[k]) : k \in 1 .. n}
    <3>1. ASSUME NEW x \in HeadsOf(d) PROVE x \in {Len(g[k]) : k \in 1 .. n}
      <4>1. PICK i \in 1 .. n : x = d[i].head
        BY <1>18, <3>1 DEF HeadsOf
      <4>2. PICK k \in 1 .. n : o[k] = i
        BY <1>7
      <4> QED
        BY <2>4, <4>1, <4>2
    <3>2. ASSUME NEW k \in 1 .. n PROVE Len(g[k]) \in HeadsOf(d)
      <4>1. o[k] \in 1 .. Len(d) /\ d[o[k]].head = Len(g[k])
        BY <1>7, <1>18, <2>4
      <4> QED
        BY <4>1 DEF HeadsOf
    <3> QED
      BY <3>1, <3>2
  <2>8. {c.head : c \in ToSet(e)} = HeadsOf(e)
    <3>1. DOMAIN e = 1 .. Len(e)
      BY <2>6 DEF Cursors
    <3> QED
      BY <3>1 DEF HeadsOf, ToSet
  <2>9. {HeadBehind(r, R, new) : r \in R} = {Len(g[k]) : k \in 1 .. n}
    BY <1>13, <1>17, <2>2, HeadsAtOnce
  <2> QED
    BY <2>6, <2>7, <2>8, <2>9
<1> QED
  BY <1>14, <1>19, <1>21, <1>22

\* Where the types are right, a batch does what replacing all ranges at once does.
LEMMA AtOnceSound == Typed => EditsAreSimultaneous
<1> SUFFICES ASSUME Typed PROVE EditsAreSimultaneous
  OBVIOUS
<1>1. ASSUME NEW command \in Commands, InText(cursors, text), Independent(command)
      PROVE  LET ranges == Ranges(command)
                 new    == IF command = "insert" THEN <<"w", "s">> ELSE <<>>
                 done   == Edited(command, text, cursors, Everywhere(new))
             IN  /\ done.text = Simultaneous(ranges, new)
                 /\ AllAct(command) =>
                      {c.head : c \in ToSet(done.cursors)} =
                      {HeadBehind(r, ranges, new) : r \in ranges}
  <2>1. PICK new : new = IF command = "insert" THEN <<"w", "s">> ELSE <<>>
    OBVIOUS
  <2>2. new \in Text /\ (command # "insert" => new = <<>>)
    BY <2>1, LettersTyped
  <2>3. PICK done : done = Edited(command, text, cursors, Everywhere(new))
    OBVIOUS
  <2>4. /\ done.text = Simultaneous(Ranges(command), new)
        /\ AllAct(command) =>
             {c.head : c \in ToSet(done.cursors)} =
             {HeadBehind(r, Ranges(command), new) : r \in Ranges(command)}
    BY <1>1, <2>2, <2>3, EditedAtOnce
  <2> QED
    BY <2>1, <2>3, <2>4
<1> QED
  BY ONLY <1>1 DEF EditsAreSimultaneous

(* The running delta by which a batch of edits shifts each cursor by what  *)
(* those to the left of it did (2252-2268 and its copies) comes to what    *)
(* replacing every cursor's range at once would: the same text and the     *)
(* same carets.  For any text, any number of independent cursors, any      *)
(* command.                                                                *)
THEOREM EditsAreAlwaysSimultaneous == Spec => []EditsAreSimultaneous
BY BufferAlwaysTyped, AtOnceSound, PTL
=============================================================================
