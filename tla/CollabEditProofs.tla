---------------------------- MODULE CollabEditProofs ----------------------------
(***************************************************************************)
(* What becomes of documents, in-flight edits and cursors in a             *)
(* collaborative session, for any number of connections, any tabs and any  *)
(* texts.                                                                  *)
(***************************************************************************)
EXTENDS CollabProofs, TextOpsProofs

\* An edit on its way: its author, the author's clock, the tab and the operations.
EditFrame(m) == /\ m.site \in Nodes /\ m.clock \in Nat
                /\ m.path \in Files /\ m.ops \in Compound(Chars)

\* What the two ends rely on in the frames about documents.
HostDoc(s, m) == m.type = "Op" => EditFrame(m) /\ m.site = s
GuestDoc(m) ==
    /\ m.type = "Op" => EditFrame(m)
    /\ m.type = "Ack" => m.clock \in Nat /\ m.path \in Files
    /\ m.type = "Welcome" => m.doc \in Seq(Chars)
    /\ m.type = "FileSaved" => m.path \in Files /\ m.content \in Seq(Chars)

HostDocs(q)  == \A s \in Sites : \A m \in ToSet(q[s]) : HostDoc(s, m)
GuestDocs(q) == \A s \in Sites : \A m \in ToSet(q[s]) : GuestDoc(m)
OutDocs(q)   == \A m \in ToSet(q) : m.type = "Op" => EditFrame(m) /\ m.site = Host

\* The tabs of every node hold texts, wherever those came from.
Tabs ==
    /\ text \in [Nodes -> [Files -> Seq(Chars)]]
    /\ cursor \in [Nodes -> [Files -> Nat]]
    /\ snapshot \in [Nodes -> Seq(Seq(Chars))]
    /\ undoStack \in Seq(Seq(Chars))
    /\ inflight \in [Nodes -> [Files -> Entries(Chars)]]

Documents == Tabs /\ HostDocs(toHost) /\ GuestDocs(toGuest) /\ OutDocs(hostOut)

-----------------------------------------------------------------------------
(* retain, by the lemmas of FoldFacts.                                     *)

Retaining == INSTANCE FoldFacts WITH
    Op <- LAMBDA clock, kept, entry : IF entry.clock > clock THEN Append(kept, entry) ELSE kept

\* The Ack arm's filter is a fold the lemmas are about.
LEMMA RetainingFolds ==
  ASSUME NEW queue, NEW clock
  PROVE  Unacked(queue, clock) = Retaining!Fold(clock, <<>>, queue)
  BY DEF Unacked, FoldLeft, MapThenFoldSet, Max,
         Retaining!Fold, Retaining!Iterates, Retaining!Top

\* What it keeps of a queue is a queue.
LEMMA UnackedEntries ==
  ASSUME NEW S, NEW queue \in Entries(S), NEW clock
  PROVE  Unacked(queue, clock) \in Entries(S)
<1> DEFINE E == [clock : Nat, ops : Compound(S)]
<1>1. queue \in Seq(E) /\ <<>> \in Seq(E)
  BY DEF Entries
<1> HIDE DEF E
<1>2. \A kept \in Seq(E), entry \in E :
        (IF entry.clock > clock THEN Append(kept, entry) ELSE kept) \in Seq(E)
  OBVIOUS
<1>3. Retaining!Fold(clock, <<>>, queue) \in Seq(E)
  BY <1>1, <1>2, Retaining!FoldKeeps
<1> QED
  BY <1>3, RetainingFolds DEF E, Entries

-----------------------------------------------------------------------------
\* A frame sent to some guests is on the channels of no others, and nothing
\* else is on any channel that was not there before.
LEMMA SendAdds ==
  ASSUME NEW q, GuestChannels(q), NEW to, NEW m, NEW s \in Sites
  PROVE  /\ ToSet(Send(q, to, m)[s]) \subseteq ToSet(q[s]) \union {m}
         /\ ToSet(Broadcast(q, to, m)[s]) \subseteq ToSet(q[s]) \union {m}
<1>1. Channel(q[s])
  BY DEF GuestChannels
<1>2. ToSet(Append(q[s], m)) = ToSet(q[s]) \union {m}
  BY <1>1, SendFrame
<1>3. ASSUME NEW sites PROVE ToSet(Send(q, sites, m)[s]) \subseteq ToSet(q[s]) \union {m}
  <2>1. Send(q, sites, m)[s] = q[s] \/ Send(q, sites, m)[s] = Append(q[s], m)
    BY DEF Send
  <2> QED
    BY <1>2, <2>1
<1>4. ToSet(Send(q, to, m)[s]) \subseteq ToSet(q[s]) \union {m}
  BY <1>3
<1>5. ToSet(Send(q, Sites \ to, m)[s]) \subseteq ToSet(q[s]) \union {m}
  BY <1>3
<1> QED
  BY <1>4, <1>5 DEF Broadcast

\* Sending a sound frame keeps the channels sound.
LEMMA SendDocs ==
  ASSUME NEW q, GuestChannels(q), GuestDocs(q), NEW to, NEW m, GuestDoc(m)
  PROVE  GuestDocs(Send(q, to, m)) /\ GuestDocs(Broadcast(q, to, m))
<1> SUFFICES ASSUME NEW s \in Sites
             PROVE  /\ \A x \in ToSet(Send(q, to, m)[s]) : GuestDoc(x)
                    /\ \A x \in ToSet(Broadcast(q, to, m)[s]) : GuestDoc(x)
  BY DEF GuestDocs
<1>1. /\ ToSet(Send(q, to, m)[s]) \subseteq ToSet(q[s]) \union {m}
      /\ ToSet(Broadcast(q, to, m)[s]) \subseteq ToSet(q[s]) \union {m}
  BY SendAdds
<1>2. \A x \in ToSet(q[s]) \union {m} : GuestDoc(x)
  BY DEF GuestDocs
<1> QED
  BY <1>1, <1>2

\* Receiving keeps them sound, and what is received is sound.
LEMMA HostGetsDocs ==
  ASSUME Typed, Documents, NEW s \in Sites, NEW type, HostGets(s, type)
  PROVE  HostDocs(toHost') /\ HostDoc(s, Head(toHost[s]))
<1>1. Channel(toHost[s]) /\ toHost[s] # <<>> /\ toHost' = [toHost EXCEPT ![s] = Tail(@)]
  BY DEF Typed, HostChannels, HostGets
<1>2. Head(toHost[s]) \in ToSet(toHost[s]) /\ ToSet(Tail(toHost[s])) \subseteq ToSet(toHost[s])
  BY <1>1, ReceiveFrame
<1> QED
  BY <1>1, <1>2 DEF Documents, HostDocs, Typed, HostChannels

\* The same for a guest.
LEMMA GuestGetsDocs ==
  ASSUME Typed, Documents, NEW s \in Sites, toGuest[s] # <<>>,
         toGuest' = [toGuest EXCEPT ![s] = Tail(@)]
  PROVE  GuestDocs(toGuest') /\ GuestDoc(Head(toGuest[s]))
<1>1. Channel(toGuest[s])
  BY DEF Typed, GuestChannels
<1>2. Head(toGuest[s]) \in ToSet(toGuest[s]) /\ ToSet(Tail(toGuest[s])) \subseteq ToSet(toGuest[s])
  BY <1>1, ReceiveFrame
<1> QED
  BY <1>2 DEF Documents, GuestDocs, Typed, GuestChannels

\* At first the tabs hold what was on disk, and nothing is on its way.
LEMMA InitDocuments == ASSUME Init PROVE Documents
<1>1. HostDocs(toHost) /\ GuestDocs(toGuest) /\ OutDocs(hostOut)
  BY EmptyChannel DEF Init, HostDocs, GuestDocs, OutDocs
<1>2. /\ text \in [Nodes -> [Files -> Seq(Chars)]]
      /\ cursor \in [Nodes -> [Files -> Nat]]
  BY ConstantsAssumption DEF Init
<1>3. snapshot \in [Nodes -> Seq(Seq(Chars))]
  BY DEF Init
<1>4. undoStack \in Seq(Seq(Chars))
  BY ConstantsAssumption DEF Init
<1>5. inflight \in [Nodes -> [Files -> Entries(Chars)]]
  <2>1. <<>> \in Entries(Chars)
    BY DEF Entries
  <2> HIDE DEF Entries
  <2> QED
    BY <2>1 DEF Init
<1> QED
  BY <1>1, <1>2, <1>3, <1>4, <1>5 DEF Documents, Tabs

-----------------------------------------------------------------------------
(* Local input.                                                            *)

\* An edit of node n's tab in front under its next clock: as a frame, and as
\* what it does to the queue of edits in flight.
EditOf(n, ops) == [type |-> "Op", site |-> n, clock |-> localClock[n] + 1, ops |-> ops,
                   path |-> active[n]]
Queues(n, ops) ==
    /\ localClock' = [localClock EXCEPT ![n] = localClock[n] + 1]
    /\ inflight' = [inflight EXCEPT ![n][active[n]] =
                       Append(@, [clock |-> localClock[n] + 1, ops |-> ops])]

\* What a key event puts on the way: at most one edit, which it queues, and then
\* at most one cursor.
Emits(n, edits, moves) ==
    /\ Sends(n, edits \o moves) /\ Channel(edits) /\ Channel(moves)
    /\ \A m \in ToSet(moves) : m.type = "CursorUpdate"
    /\ \/ edits = <<>> /\ inflight' = inflight /\ localClock' = localClock
       \/ \E ops \in Compound(Chars) : edits = <<EditOf(n, ops)>> /\ Queues(n, ops)

\* That is all a key event on sound documents sends.
LEMMA KeyEventEmits ==
  ASSUME Typed, Documents, NEW n \in Nodes, NEW t \in Seq(Chars), NEW c \in Nat,
         NEW capture \in Seq(Seq(Chars)), NEW kind, KeyEvent(n, t, c, capture, kind)
  PROVE  \E edits, moves : Emits(n, edits, moves)
<1> DEFINE f       == active[n]
           ops     == ExtractOps(capture[1], t, n)
           changes == capture # <<>> /\ ops # <<>>
           clock   == localClock[n] + 1
           op      == [type |-> "Op", site |-> n, clock |-> clock, ops |-> ops, path |-> f]
           moved   == [type |-> "CursorUpdate", site |-> n, pos |-> c, path |-> f]
           edits   == IF changes THEN <<op>> ELSE <<>>
           second(sent) == IF sent # {} THEN <<moved>> ELSE <<>>
<1>1. PICK sent \in SUBSET {"cursors"} :
        /\ hostOut' = IF n = Host THEN hostOut \o (edits \o second(sent)) ELSE hostOut
        /\ toHost' = IF n \in linkUp THEN [toHost EXCEPT ![n] = @ \o (edits \o second(sent))]
                     ELSE toHost
  BY Zenon DEF KeyEvent
<1>2. /\ op.type = "Op" /\ op.site = n
      /\ moved.type = "CursorUpdate" /\ moved.site = n
  OBVIOUS
<1>3. op = EditOf(n, ops)
  BY DEF EditOf
<1>4. changes => ops \in Compound(Chars)
  <2> SUFFICES ASSUME capture # <<>> PROVE ops \in Compound(Chars)
    OBVIOUS
  <2>1. capture[1] \in Seq(Chars)
    OBVIOUS
  <2>2. n \in Nat
    BY DEF Nodes
  <2> QED
    BY <2>1, <2>2, ExtractedCompound
<1>5. IF changes THEN Queues(n, ops) ELSE inflight' = inflight /\ localClock' = localClock
  BY Zenon DEF KeyEvent, Queues
<1> HIDE DEF op, moved, changes, ops
<1>6. Channel(edits) /\ ToSet(edits) \subseteq {op}
  BY EmptyChannel, OneFrame
<1>7. Channel(second(sent)) /\ ToSet(second(sent)) \subseteq {moved}
  BY EmptyChannel, OneFrame
<1>8. edits = IF changes THEN <<op>> ELSE <<>>
  OBVIOUS
<1> HIDE DEF edits, second
<1>9. Channel(edits \o second(sent)) /\ ToSet(edits \o second(sent)) \subseteq {op, moved}
  BY <1>6, <1>7, JoinChannels
<1>10. Sends(n, edits \o second(sent))
  BY <1>1, <1>2, <1>9 DEF Sends
<1>11. Emits(n, edits, second(sent))
  <2>1. CASE changes
    BY <1>2, <1>3, <1>4, <1>5, <1>6, <1>7, <1>8, <1>10, <2>1 DEF Emits
  <2>2. CASE ~changes
    BY <1>2, <1>5, <1>6, <1>7, <1>8, <1>10, <2>2 DEF Emits
  <2> QED
    BY <2>1, <2>2
<1> QED
  BY <1>11
\* Key events keep the tabs texts and the channels sound.
LEMMA KeyEventDocuments ==
  ASSUME Typed, Documents, NEW n \in Nodes, NEW t \in Seq(Chars), NEW c \in Nat,
         NEW capture \in Seq(Seq(Chars)), NEW kind, KeyEvent(n, t, c, capture, kind),
         GuestDocs(toGuest'), undoStack' \in Seq(Seq(Chars))
  PROVE  Documents'
<1>0. active[n] \in Files /\ localClock[n] \in Nat
  BY DEF Typed, TypeOK
<1>1. PICK edits, moves : Emits(n, edits, moves)
  BY KeyEventEmits
<1>2. ASSUME NEW m \in ToSet(edits \o moves), m.type = "Op" PROVE EditFrame(m) /\ m.site = n
  <2>1. Channel(edits) /\ Channel(moves) /\ \A x \in ToSet(moves) : x.type # "Op"
    BY <1>1 DEF Emits
  <2>2. ToSet(edits \o moves) = ToSet(edits) \union ToSet(moves)
    BY <2>1, JoinChannels
  <2>3. m \in ToSet(edits)
    BY <1>2, <2>1, <2>2
  <2>4. edits # <<>>
    BY <2>3, EmptyChannel
  <2>5. PICK ops \in Compound(Chars) : edits = <<EditOf(n, ops)>>
    BY <1>1, <2>4 DEF Emits
  <2>6. m = EditOf(n, ops)
    BY <2>3, <2>5, OneFrame
  <2> QED
    BY <1>0, <2>6 DEF EditOf, EditFrame
<1>3. HostDocs(toHost')
  <2>1. CASE n \in linkUp
    <3>1. n \in Sites
      BY <2>1, NodesAndSites DEF Typed, TypeOK, Sites
    <3>2. Channel(toHost[n]) /\ Channel(edits \o moves)
      BY <1>1, <3>1 DEF Typed, HostChannels, Emits, Sends
    <3>3. ToSet(toHost[n] \o (edits \o moves)) = ToSet(toHost[n]) \union ToSet(edits \o moves)
      BY <3>2, JoinChannels
    <3>4. toHost' = [toHost EXCEPT ![n] = @ \o (edits \o moves)]
      BY <1>1, <2>1 DEF Emits, Sends
    <3>5. \A m \in ToSet(toHost'[n]) : HostDoc(n, m)
      <4>1. toHost'[n] = toHost[n] \o (edits \o moves)
        BY <3>1, <3>4 DEF Typed, HostChannels
      <4> QED
        BY <1>2, <3>1, <3>3, <4>1 DEF Documents, HostDocs, HostDoc
    <3> QED
      BY <3>1, <3>4, <3>5 DEF Documents, HostDocs, Typed, HostChannels
  <2>2. CASE n \notin linkUp
    BY <1>1, <2>2 DEF Emits, Sends, Documents, HostDocs
  <2> QED
    BY <2>1, <2>2
<1>4. OutDocs(hostOut')
  <2>1. CASE n = Host
    <3>1. Channel(hostOut) /\ Channel(edits \o moves)
      BY <1>1 DEF Typed, Outgoing, Emits, Sends
    <3>2. ToSet(hostOut \o (edits \o moves)) = ToSet(hostOut) \union ToSet(edits \o moves)
      BY <3>1, JoinChannels
    <3>3. hostOut' = hostOut \o (edits \o moves)
      BY <1>1, <2>1 DEF Emits, Sends
    <3> QED
      BY <1>2, <2>1, <3>2, <3>3 DEF Documents, OutDocs
  <2>2. CASE n # Host
    BY <1>1, <2>2 DEF Emits, Sends, Documents, OutDocs
  <2> QED
    BY <2>1, <2>2
<1>5. /\ text' \in [Nodes -> [Files -> Seq(Chars)]]
      /\ cursor' \in [Nodes -> [Files -> Nat]]
      /\ snapshot' \in [Nodes -> Seq(Seq(Chars))]
  <2>1. /\ text' = [text EXCEPT ![n][active[n]] = t]
        /\ cursor' = [cursor EXCEPT ![n][active[n]] = c]
        /\ snapshot' = [snapshot EXCEPT ![n] = <<>>]
    BY DEF KeyEvent
  <2> QED
    BY <1>0, <2>1 DEF Documents, Tabs
<1>6. inflight' \in [Nodes -> [Files -> Entries(Chars)]]
  <2>1. CASE inflight' = inflight
    BY <2>1 DEF Documents, Tabs
  <2>2. CASE \E ops \in Compound(Chars) : Queues(n, ops)
    <3>1. PICK ops \in Compound(Chars) : Queues(n, ops)
      BY <2>2
    <3> DEFINE entry == [clock |-> localClock[n] + 1, ops |-> ops]
    <3>2. inflight[n][active[n]] \in Entries(Chars)
      BY <1>0 DEF Documents, Tabs
    <3>3. entry \in [clock : Nat, ops : Compound(Chars)]
      BY <1>0
    <3> HIDE DEF entry
    <3>4. Append(inflight[n][active[n]], entry) \in Entries(Chars)
      BY <3>2, <3>3 DEF Entries
    <3>5. inflight' = [inflight EXCEPT ![n][active[n]] = Append(@, entry)]
      BY <3>1 DEF Queues, entry
    <3> HIDE DEF Entries
    <3> QED
      BY <1>0, <3>4, <3>5 DEF Documents, Tabs
  <2> QED
    BY <1>1, <2>1, <2>2 DEF Emits
<1> QED
  BY <1>3, <1>4, <1>5, <1>6 DEF Documents, Tabs, HostDocs, HostDoc, GuestDocs, GuestDoc,
     OutDocs, EditFrame

\* One edit command turns a text into a text, with the cursor behind what it typed.
LEMMA EditsOfTexts ==
  ASSUME Typed, Documents, NEW n \in Nodes, NEW e \in EditsOf(n)
  PROVE  e.text \in Seq(Chars) /\ e.cursor \in Nat
<1> DEFINE t == text[n][active[n]]
<1>1. t \in Seq(Chars) /\ Len(t) \in Nat
  BY DEF Typed, TypeOK, Documents, Tabs
<1>2. /\ n \in Chars /\ <<n>> \in Seq(Chars) /\ <<>> \in Seq(Chars)
      /\ Len(<<n>>) = 1 /\ Len(<<>>) = 0
  BY ConstantsAssumption DEF Nodes
<1> DEFINE Edited(lo, selected, new) ==
              [text |-> SubSeq(t, 1, lo) \o new \o SubSeq(t, lo + selected + 1, Len(t)),
               cursor |-> lo + Len(new)]
<1>3. PICK lo \in 0 .. Len(t), selected \in {0, 1}, new \in {<<>>, <<n>>} :
        e = Edited(lo, selected, new)
  <2>1. EditsOf(n) = {Edited(lo, selected, new) :
                 lo \in 0 .. Len(t), selected \in {0, 1}, new \in {<<>>, <<n>>}}
    BY DEF EditsOf
  <2> HIDE DEF Edited
  <2> QED
    BY <2>1
<1> HIDE DEF t
<1>4. new \in Seq(Chars) /\ Len(new) \in Nat
  BY <1>2
<1>5. SubSeq(t, 1, lo) \in Seq(Chars)
  BY <1>1
<1>6. SubSeq(t, lo + selected + 1, Len(t)) \in Seq(Chars)
  <2>1. lo + selected + 1 \in Nat \ {0} /\ t \in Seq(Chars)
    BY <1>1
  <2>2. ASSUME NEW k \in Nat \ {0} PROVE SubSeq(t, k, Len(t)) \in Seq(Chars)
    BY <1>1
  <2> QED
    BY <2>1, <2>2
<1> QED
  BY <1>1, <1>3, <1>4, <1>5, <1>6

\* What push_undo captures is a text.
LEMMA CapturedText ==
  ASSUME Typed, Documents, NEW n \in Nodes
  PROVE  Captured(n) \in Seq(Seq(Chars)) /\ snapshot[n] \in Seq(Seq(Chars))
<1>1. text[n][active[n]] \in Seq(Chars)
  BY DEF Typed, TypeOK, Documents, Tabs
<1>2. <<text[n][active[n]]>> \in Seq(Seq(Chars))
  BY <1>1
<1> QED
  BY <1>2 DEF Captured, Documents, Tabs

\* Whatever a user does keeps documents documents.
LEMMA UserActionDocuments == ASSUME Typed, Documents, UserAction PROVE Documents'
<1>0. /\ GuestDocs(toGuest) /\ GuestChannels(toGuest) /\ undoStack \in Seq(Seq(Chars))
      /\ \A n \in Nodes : /\ text[n][active[n]] \in Seq(Chars)
                           /\ cursor[n][active[n]] \in Nat /\ active[n] \in Files
  BY DEF Typed, TypeOK, Documents, Tabs
<1>1. ASSUME NEW n \in Nodes, Edit(n) PROVE Documents'
  <2>1. PICK e \in EditsOf(n) : /\ KeyEvent(n, e.text, e.cursor, Captured(n), "edits")
                                /\ UNCHANGED <<toGuest, undoStack>>
    BY <1>1 DEF Edit
  <2>2. /\ e.text \in Seq(Chars) /\ e.cursor \in Nat
        /\ Captured(n) \in Seq(Seq(Chars))
    BY EditsOfTexts, CapturedText
  <2> QED
    BY <1>0, <2>1, <2>2, KeyEventDocuments
<1>2. ASSUME NEW n \in Nodes, Move(n) PROVE Documents'
  <2>1. PICK c \in {0, Len(text[n][active[n]])} :
          /\ KeyEvent(n, text[n][active[n]], c, snapshot[n], "moves")
          /\ UNCHANGED <<toGuest, undoStack>>
    BY <1>2 DEF Move
  <2>2. c \in Nat /\ snapshot[n] \in Seq(Seq(Chars))
    BY <1>0, CapturedText
  <2> QED
    BY <1>0, <2>1, <2>2, KeyEventDocuments
<1>3. ASSUME NEW n \in Nodes, DeferredEdit(n) PROVE Documents'
  <2>1. PICK e \in EditsOf(n) :
          /\ text' = [text EXCEPT ![n][active[n]] = e.text]
          /\ \E c \in 0 .. Len(e.text) : cursor' = [cursor EXCEPT ![n][active[n]] = c]
    BY <1>3 DEF DeferredEdit
  <2>2. e.text \in Seq(Chars) /\ Len(e.text) \in Nat
    BY EditsOfTexts
  <2>3. snapshot' = [snapshot EXCEPT ![n] = Captured(n)] /\ Captured(n) \in Seq(Seq(Chars))
    BY <1>3, CapturedText DEF DeferredEdit
  <2>4. Tabs'
    <3>1. text' \in [Nodes -> [Files -> Seq(Chars)]]
      BY <1>0, <2>1, <2>2 DEF Documents, Tabs
    <3>2. cursor' \in [Nodes -> [Files -> Nat]]
      <4>1. PICK c \in 0 .. Len(e.text) : cursor' = [cursor EXCEPT ![n][active[n]] = c]
        BY <2>1
      <4>2. c \in Nat
        BY <2>2
      <4> QED
        BY <1>0, <4>1, <4>2 DEF Documents, Tabs
    <3>3. snapshot' \in [Nodes -> Seq(Seq(Chars))]
      BY <2>3 DEF Documents, Tabs
    <3>4. UNCHANGED <<undoStack, inflight>>
      BY <1>3 DEF DeferredEdit, opVars
    <3> QED
      BY <3>1, <3>2, <3>3, <3>4 DEF Documents, Tabs
  <2>5. UNCHANGED <<toHost, toGuest, hostOut>>
    BY <1>3 DEF DeferredEdit, netVars
  <2> QED
    BY <2>4, <2>5 DEF Documents, HostDocs, HostDoc, GuestDocs, GuestDoc, OutDocs, EditFrame
<1>4. ASSUME NEW n \in Nodes, SwitchTab(n) PROVE Documents'
  BY <1>4 DEF SwitchTab, netVars, opVars, Documents, Tabs, HostDocs, HostDoc, GuestDocs,
     GuestDoc, OutDocs, EditFrame
<1>5. ASSUME NEW n \in Nodes, Save(n) PROVE Documents'
  <2> DEFINE saved == [type |-> "FileSaved", path |-> active[n], content |-> text[n][active[n]]]
  <2>1. /\ KeyEvent(n, text[n][active[n]], cursor[n][active[n]], snapshot[n], "saves")
        /\ toGuest' = IF n = Host THEN Broadcast(toGuest, {}, saved) ELSE toGuest
        /\ UNCHANGED undoStack
    BY <1>5 DEF Save
  <2>2. GuestDoc(saved)
    BY <1>0 DEF GuestDoc
  <2>3. GuestDocs(toGuest')
    BY <1>0, <2>1, <2>2, SendDocs
  <2>4. snapshot[n] \in Seq(Seq(Chars))
    BY CapturedText
  <2> QED
    BY <1>0, <2>1, <2>3, <2>4, KeyEventDocuments
<1>6. ASSUME Undo PROVE Documents'
  <2>1. /\ KeyEvent(Host, Head(undoStack), 0, snapshot[Host], "undos")
        /\ undoStack # <<>> /\ undoStack' = Tail(undoStack) /\ UNCHANGED toGuest
    BY <1>6 DEF Undo
  <2>2. Head(undoStack) \in Seq(Chars) /\ Tail(undoStack) \in Seq(Seq(Chars))
    <3> DEFINE Texts == Seq(Chars)
    <3>1. undoStack \in Seq(Texts)
      BY <1>0
    <3> HIDE DEF Texts
    <3>2. Head(undoStack) \in Texts /\ Tail(undoStack) \in Seq(Texts)
      BY <2>1, <3>1
    <3> QED
      BY <3>2 DEF Texts
  <2>3. snapshot[Host] \in Seq(Seq(Chars)) /\ Host \in Nodes
    BY CapturedText, NodesAndSites
  <2>4. GuestDocs(toGuest') /\ undoStack' \in Seq(Seq(Chars)) /\ 0 \in Nat
    BY <1>0, <2>1, <2>2
  <2> QED
    BY <2>1, <2>2, <2>3, <2>4, KeyEventDocuments
<1>7. ASSUME NEW role, NEW perm, TogglePerm(role, perm) PROVE Documents'
  <2>1. GuestDoc([type |-> "RoleConfig", perms |-> settings'])
    BY DEF GuestDoc
  <2>2. GuestDocs(toGuest')
    BY <1>0, <1>7, <2>1, SendDocs DEF TogglePerm
  <2>3. UNCHANGED <<toHost, hostOut, text, cursor, snapshot, undoStack, inflight>>
    BY <1>7 DEF TogglePerm, tabVars, opVars
  <2> QED
    BY <2>2, <2>3 DEF Documents, Tabs, HostDocs, HostDoc, OutDocs, EditFrame, GuestDocs, GuestDoc
<1>8. ASSUME NEW s \in Sites, RequestRole(s) PROVE Documents'
  <2>1. PICK target \in Sites, role \in Roles :
          toHost' = FromGuest(s, [type |-> "RoleChangeRequest", target |-> target, role |-> role])
    BY <1>8 DEF RequestRole
  <2> DEFINE m == [type |-> "RoleChangeRequest", target |-> target, role |-> role]
  <2>2. HostDoc(s, m)
    BY DEF HostDoc
  <2>3. Channel(toHost[s]) /\ \A x \in ToSet(toHost[s]) : HostDoc(s, x)
    BY DEF Typed, HostChannels, Documents, HostDocs
  <2> HIDE DEF m
  <2>4. ToSet(Append(toHost[s], m)) = ToSet(toHost[s]) \union {m}
    BY <2>3, SendFrame
  <2>5. toHost' = toHost \/ toHost' = [toHost EXCEPT ![s] = Append(@, m)]
    BY <2>1 DEF FromGuest, m
  <2>6. HostDocs(toHost')
    BY <2>2, <2>3, <2>4, <2>5 DEF Typed, HostChannels, Documents, HostDocs
  <2>7. UNCHANGED <<toGuest, hostOut, text, cursor, snapshot, undoStack, inflight>>
    BY <1>8 DEF RequestRole, tabVars, opVars
  <2> QED
    BY <2>6, <2>7 DEF Documents, Tabs, HostDocs, HostDoc, OutDocs, EditFrame, GuestDocs, GuestDoc
<1> QED
  BY <1>1, <1>2, <1>3, <1>4, <1>5, <1>6, <1>7, <1>8 DEF UserAction

-----------------------------------------------------------------------------
(* Connections and the two main loops.                                     *)

\* What an action that leaves the tabs and the queues alone has to show.
LEMMA FramesDocuments ==
  ASSUME Typed, Documents, UNCHANGED <<text, cursor, snapshot, undoStack, inflight>>,
         HostDocs(toHost'), GuestDocs(toGuest'), OutDocs(hostOut')
  PROVE  Documents'
  BY DEF Documents, Tabs, HostDocs, HostDoc, GuestDocs, GuestDoc, OutDocs, EditFrame

\* Connections come, break and end without touching a document.
LEMMA ConnectionDocuments ==
  ASSUME Typed, Documents,
         Connect \/ HostWriter \/ \E s \in Sites : ReaderEof(s) \/ GuestExit(s) \/ ConnectionLost(s)
  PROVE  Documents'
<1>0. /\ HostDocs(toHost) /\ GuestDocs(toGuest) /\ OutDocs(hostOut)
      /\ GuestChannels(toGuest) /\ DOMAIN toHost = Sites /\ DOMAIN toGuest = Sites
      /\ \A s \in Sites : Channel(toHost[s]) /\ Channel(toGuest[s])
  BY DEF Documents, Typed, GuestChannels, HostChannels
<1>1. CASE Connect
  <2> DEFINE join == <<[type |-> "Join"]>>
  <2>1. \A m \in ToSet(join) : m.type # "Op"
    BY OneFrame
  <2> HIDE DEF join
  <2>2. toHost' = [toHost EXCEPT ![nextSiteId] = join]
    BY <1>1 DEF Connect, join
  <2>3. HostDocs(toHost')
    BY <1>0, <2>1, <2>2 DEF HostDocs, HostDoc
  <2>4. UNCHANGED <<text, cursor, snapshot, undoStack, inflight, toGuest, hostOut>>
    BY <1>1 DEF Connect, opVars
  <2> QED
    BY <1>0, <2>3, <2>4, FramesDocuments
<1>2. CASE HostWriter
  <2>1. Channel(hostOut) /\ hostOut # <<>> /\ hostOut' = Tail(hostOut)
    BY <1>2 DEF HostWriter, Typed, Outgoing
  <2>2. Head(hostOut) \in ToSet(hostOut) /\ ToSet(Tail(hostOut)) \subseteq ToSet(hostOut)
    BY <2>1, ReceiveFrame
  <2>3. GuestDoc(Head(hostOut)) /\ OutDocs(hostOut')
    BY <1>0, <2>1, <2>2 DEF OutDocs, GuestDoc, Typed, Outgoing
  <2>4. GuestDocs(toGuest')
    BY <1>0, <1>2, <2>3, SendDocs DEF HostWriter
  <2>5. UNCHANGED <<text, cursor, snapshot, undoStack, inflight, toHost>>
    BY <1>2 DEF HostWriter, tabVars, opVars
  <2> QED
    BY <1>0, <2>3, <2>4, <2>5, FramesDocuments
<1>3. ASSUME NEW s \in Sites, ReaderEof(s) PROVE Documents'
  <2> DEFINE left == [type |-> "Left"]
  <2>1. ToSet(Append(toHost[s], left)) = ToSet(toHost[s]) \union {left}
    BY <1>0, SendFrame
  <2>2. HostDocs(toHost')
    BY <1>0, <1>3, <2>1 DEF ReaderEof, HostDocs, HostDoc
  <2>3. UNCHANGED <<text, cursor, snapshot, undoStack, inflight, toGuest, hostOut>>
    BY <1>3 DEF ReaderEof, tabVars, opVars
  <2> QED
    BY <1>0, <2>2, <2>3, FramesDocuments
<1>4. ASSUME NEW s \in Sites, GuestExit(s) PROVE Documents'
  <2>1. GuestDocs(toGuest')
    BY <1>0, <1>4, EmptyChannel DEF GuestExit, GuestDocs
  <2>2. UNCHANGED <<text, cursor, snapshot, undoStack, inflight, toHost, hostOut>>
    BY <1>4 DEF GuestExit, tabVars, opVars
  <2> QED
    BY <1>0, <2>1, <2>2, FramesDocuments
<1>5. ASSUME NEW s \in Sites, ConnectionLost(s) PROVE Documents'
  <2> DEFINE end == [type |-> "Disconnected"]
  <2>1. PICK i \in 0 .. Len(toHost[s]), j \in 0 .. Len(toGuest[s]) :
          /\ toHost' = [toHost EXCEPT ![s] = SubSeq(@, 1, i)]
          /\ toGuest' = [toGuest EXCEPT ![s] = Append(SubSeq(@, 1, j), end)]
    BY <1>5 DEF ConnectionLost
  <2>2. /\ ToSet(SubSeq(toHost[s], 1, i)) \subseteq ToSet(toHost[s])
        /\ ToSet(SubSeq(toGuest[s], 1, j)) \subseteq ToSet(toGuest[s])
        /\ Channel(SubSeq(toGuest[s], 1, j))
    BY <1>0, LoseFrames
  <2>3. ToSet(Append(SubSeq(toGuest[s], 1, j), end)) = ToSet(SubSeq(toGuest[s], 1, j)) \union {end}
    BY <2>2, SendFrame
  <2>4. GuestDoc(end)
    BY DEF GuestDoc
  <2>5. HostDocs(toHost')
    BY <1>0, <2>1, <2>2 DEF HostDocs
  <2>6. GuestDocs(toGuest')
    BY <1>0, <2>1, <2>2, <2>3, <2>4 DEF GuestDocs
  <2>7. UNCHANGED <<text, cursor, snapshot, undoStack, inflight, hostOut>>
    BY <1>5 DEF ConnectionLost, tabVars, opVars
  <2> QED
    BY <1>0, <2>5, <2>6, <2>7, FramesDocuments
<1> QED
  BY <1>1, <1>2, <1>3, <1>4, <1>5

\* Applying an operation turns the text of its tab into a text, and a cursor of
\* the tab in front that was in its document stays in it.
LEMMA RemoteApplied ==
  ASSUME Typed, Documents, NEW n \in Nodes, NEW m, m.path \in Files,
         NEW ops \in Compound(Chars), ApplyRemote(n, m, ops)
  PROVE  /\ text' \in [Nodes -> [Files -> Seq(Chars)]]
         /\ cursor' \in [Nodes -> [Files -> Nat]]
         /\ UNCHANGED <<active, snapshot, undoStack>>
         /\ \A k \in Nodes : LET f == active[k] IN
               cursor[k][f] <= Len(text[k][f]) => cursor'[k][f] <= Len(text'[k][f])
<1> DEFINE f == m.path
           after == ApplyOps(text[n][f], ops)
           moved == AdjustCursor(cursor[n][f], ops, n)
<1>1. /\ text \in [Nodes -> [Files -> Seq(Chars)]] /\ cursor \in [Nodes -> [Files -> Nat]]
      /\ text[n][f] \in Seq(Chars) /\ cursor[n][f] \in Nat /\ n \in Nat
      /\ Len(text[n][f]) \in Nat /\ f \in Files
  <2>1. text \in [Nodes -> [Files -> Seq(Chars)]] /\ cursor \in [Nodes -> [Files -> Nat]]
    BY DEF Documents, Tabs
  <2>2. text[n][f] \in Seq(Chars) /\ cursor[n][f] \in Nat
    BY <2>1
  <2>3. n \in Nat
    BY DEF Nodes
  <2> QED
    BY <2>1, <2>2, <2>3
<1>2. moved \in Nat
  BY <1>1, AdjustedCursor
<1>3. after \in Seq(Chars)
  <2>1. 0 \in 0 .. Len(text[n][f]) /\ ops \in Seq(TextOperation(Chars))
    BY <1>1 DEF Compound
  <2> QED
    BY <1>1, <2>1, OperationsApplied
<1>4. cursor[n][f] <= Len(text[n][f]) => moved <= Len(after)
  <2> SUFFICES ASSUME cursor[n][f] <= Len(text[n][f]) PROVE moved <= Len(after)
    OBVIOUS
  <2>1. cursor[n][f] \in 0 .. Len(text[n][f]) /\ ops \in Seq(TextOperation(Chars))
    BY <1>1 DEF Compound
  <2>2. moved \in 0 .. Len(after)
    BY <1>1, <2>1, OperationsApplied
  <2>3. Len(after) \in Nat
    BY <1>3
  <2> QED
    BY <2>2, <2>3
<1>5. /\ text' = text \/ text' = [text EXCEPT ![n][f] = after]
      /\ UNCHANGED <<active, snapshot, undoStack>>
      /\ \/ cursor' = cursor /\ (text' = text \/ active[n] # f)
         \/ cursor' = [cursor EXCEPT ![n][f] = moved] /\ text' = [text EXCEPT ![n][f] = after]
  BY DEF ApplyRemote
<1> HIDE DEF after, moved, f
<1>6. text' \in [Nodes -> [Files -> Seq(Chars)]] /\ cursor' \in [Nodes -> [Files -> Nat]]
  <2>1. [text EXCEPT ![n][f] = after] \in [Nodes -> [Files -> Seq(Chars)]]
    BY <1>1, <1>3
  <2>2. [cursor EXCEPT ![n][f] = moved] \in [Nodes -> [Files -> Nat]]
    BY <1>1, <1>2
  <2> QED
    BY <1>1, <1>5, <2>1, <2>2
<1>7. ASSUME NEW k \in Nodes, cursor[k][active[k]] <= Len(text[k][active[k]])
      PROVE  cursor'[k][active[k]] <= Len(text'[k][active[k]])
  <2>1. active[k] \in Files
    BY DEF Typed, TypeOK
  <2>2. CASE k = n /\ active[n] = f
    <3>1. CASE text' = text
      BY <1>1, <1>5, <1>7, <2>2, <3>1, <1>4
    <3>2. CASE text' # text
      <4>1. cursor' = [cursor EXCEPT ![n][f] = moved] /\ text' = [text EXCEPT ![n][f] = after]
        BY <1>5, <2>2, <3>2
      <4>2. cursor'[n][f] = moved /\ text'[n][f] = after
        BY <1>1, <4>1
      <4> QED
        BY <1>4, <1>7, <2>2, <4>2
    <3> QED
      BY <3>1, <3>2
  <2>3. CASE k # n \/ active[n] # f
    <3>1. text'[k][active[k]] = text[k][active[k]] /\ cursor'[k][active[k]] = cursor[k][active[k]]
      <4>1. [text EXCEPT ![n][f] = after][k][active[k]] = text[k][active[k]]
        BY <1>1, <2>1, <2>3
      <4>2. [cursor EXCEPT ![n][f] = moved][k][active[k]] = cursor[k][active[k]]
        BY <1>1, <2>1, <2>3
      <4> QED
        BY <1>5, <4>1, <4>2
    <3> QED
      BY <1>7, <3>1
  <2> QED
    BY <2>2, <2>3
<1> QED
  BY <1>5, <1>6, <1>7

\* The host's main loop.
LEMMA HostEventDocuments ==
  ASSUME Typed, Documents, NEW s \in Sites, HostEvent(s)
  PROVE  Documents'
<1>0. /\ GuestDocs(toGuest) /\ OutDocs(hostOut) /\ GuestChannels(toGuest)
      /\ Host \in Nodes
  BY NodesAndSites DEF Documents, Typed
<1>1. CASE HostJoin(s)
  <2> DEFINE doc     == IF DocFile = Untitled THEN <<>> ELSE text[Host][DocFile]
             welcome == [type |-> "Welcome", doc |-> doc, clock |-> serverClock[Host],
                         peers |-> peers[Host], role |-> DefaultRole, perms |-> rolePerms[Host]]
             joined  == [type |-> "PeerJoined", site |-> s, role |-> DefaultRole]
  <2>1. HostDocs(toHost')
    BY <1>1, HostGetsDocs DEF HostJoin
  <2>2. doc \in Seq(Chars)
    BY <1>0, ConstantsAssumption DEF Documents, Tabs
  <2>3. GuestDoc(welcome) /\ GuestDoc(joined)
    BY <2>2 DEF GuestDoc
  <2>4. GuestFrame(welcome)
    BY NodesAndSites DEF GuestFrame, Typed, TypeOK
  <2>5. toGuest' = Broadcast(Send(toGuest, {s}, welcome), {s}, joined)
    BY <1>1 DEF HostJoin
  <2> HIDE DEF welcome, joined
  <2>6. GuestDocs(Send(toGuest, {s}, welcome)) /\ GuestChannels(Send(toGuest, {s}, welcome))
    BY <1>0, <2>3, <2>4, SendDocs, SendTyped
  <2>7. GuestDocs(toGuest')
    BY <2>3, <2>5, <2>6, SendDocs
  <2>8. UNCHANGED <<text, cursor, snapshot, undoStack, inflight, hostOut>>
    BY <1>1 DEF HostJoin, tabVars, opVars
  <2> QED
    BY <1>0, <2>1, <2>7, <2>8, FramesDocuments
<1>2. CASE HostOp(s)
  <2> DEFINE m   == Head(toHost[s])
             ack == [type |-> "Ack", clock |-> m.clock, path |-> m.path]
  <2>1. HostDocs(toHost') /\ HostDoc(s, m) /\ m.type = "Op"
    BY <1>2, HostGetsDocs DEF HostOp, HostGets
  <2>2. EditFrame(m)
    BY <2>1 DEF HostDoc
  <2>3. GuestDoc(m) /\ GuestDoc(ack) /\ GuestFrame(m)
    BY <2>1, <2>2 DEF GuestDoc, EditFrame, GuestFrame
  <2>4. toGuest' = toGuest \/ toGuest' = Send(Broadcast(toGuest, {m.site}, m), {m.site}, ack)
    BY <1>2 DEF HostOp
  <2>5. GuestDocs(Send(Broadcast(toGuest, {m.site}, m), {m.site}, ack))
    <3>1. GuestDocs(Broadcast(toGuest, {m.site}, m)) /\ GuestChannels(Broadcast(toGuest, {m.site}, m))
      BY <1>0, <2>3, SendDocs, SendTyped
    <3> HIDE DEF m, ack
    <3> QED
      BY <2>3, <3>1, SendDocs
  <2>6. GuestDocs(toGuest')
    BY <1>0, <2>4, <2>5
  <2>7. ApplyRemote(Host, m, m.ops)
    BY <1>2 DEF HostOp
  <2>8. /\ text' \in [Nodes -> [Files -> Seq(Chars)]]
        /\ cursor' \in [Nodes -> [Files -> Nat]]
        /\ UNCHANGED <<snapshot, undoStack>>
    BY <1>0, <2>2, <2>7, RemoteApplied DEF EditFrame
  <2>9. UNCHANGED <<inflight, hostOut>>
    BY <1>2 DEF HostOp
  <2>10. Tabs'
    BY <2>8, <2>9 DEF Documents, Tabs
  <2>11. OutDocs(hostOut')
    BY <1>0, <2>9
  <2> QED
    BY <2>1, <2>6, <2>10, <2>11
       DEF Documents, HostDocs, HostDoc, GuestDocs, GuestDoc, OutDocs, EditFrame
<1>3. CASE HostCursor(s)
  <2>1. HostDocs(toHost')
    BY <1>3, HostGetsDocs DEF HostCursor
  <2>2. UNCHANGED <<text, cursor, snapshot, undoStack, inflight, hostOut, toGuest>>
    BY <1>3 DEF HostCursor, tabVars
  <2> QED
    BY <1>0, <2>1, <2>2, FramesDocuments
<1>4. CASE HostRoleRequest(s)
  <2> DEFINE m       == Head(toHost[s])
             changed == [type |-> "PeerRoleChanged", site |-> m.target, role |-> m.role]
  <2>1. HostDocs(toHost')
    BY <1>4, HostGetsDocs DEF HostRoleRequest
  <2>2. GuestDoc(changed)
    BY DEF GuestDoc
  <2>3. toGuest' = toGuest \/ toGuest' = Broadcast(toGuest, {}, changed)
    BY <1>4 DEF HostRoleRequest
  <2>4. GuestDocs(toGuest')
    BY <1>0, <2>2, <2>3, SendDocs
  <2>5. UNCHANGED <<text, cursor, snapshot, undoStack, inflight, hostOut>>
    BY <1>4 DEF HostRoleRequest, tabVars, opVars
  <2> QED
    BY <1>0, <2>1, <2>4, <2>5, FramesDocuments
<1>5. CASE HostLeft(s)
  <2>1. HostDocs(toHost')
    BY <1>5, HostGetsDocs DEF HostLeft
  <2>2. GuestDoc([type |-> "PeerLeft", site |-> s])
    BY DEF GuestDoc
  <2>3. GuestDocs(toGuest')
    BY <1>0, <1>5, <2>2, SendDocs DEF HostLeft
  <2>4. UNCHANGED <<text, cursor, snapshot, undoStack, inflight, hostOut>>
    BY <1>5 DEF HostLeft, tabVars
  <2> QED
    BY <1>0, <2>1, <2>3, <2>4, FramesDocuments
<1> QED
  BY <1>1, <1>2, <1>3, <1>4, <1>5 DEF HostEvent

\* What a guest makes of a remote edit and of its own queue.
LEMMA GuestOpRebased ==
  ASSUME Typed, Documents, NEW s \in Sites, GuestOp(s)
  PROVE  LET m == Head(toGuest[s])
             r == IntegrateRemoteAgainstInflight(m.ops, inflight[s][m.path])
         IN  /\ m.type = "Op" /\ EditFrame(m)
             /\ r.remote \in Compound(Chars) /\ r.inflight \in Entries(Chars)
             /\ SameClocks(r.inflight, inflight[s][m.path])
             /\ ApplyRemote(s, m, r.remote)
             /\ inflight' = [inflight EXCEPT ![s][m.path] = r.inflight]
<1> DEFINE m == Head(toGuest[s])
           r == IntegrateRemoteAgainstInflight(m.ops, inflight[s][m.path])
<1>1. /\ toGuest[s] # <<>> /\ toGuest' = [toGuest EXCEPT ![s] = Tail(@)] /\ m.type = "Op"
  BY DEF GuestOp, GuestGets
<1>2. EditFrame(m)
  BY <1>1, GuestGetsDocs DEF GuestDoc
<1>3. m.ops \in Compound(Chars) /\ inflight[s][m.path] \in Entries(Chars)
  BY <1>2, NodesAndSites DEF EditFrame, Documents, Tabs
<1>4. /\ r.remote \in Compound(Chars) /\ r.inflight \in Entries(Chars)
      /\ SameClocks(r.inflight, inflight[s][m.path])
  BY <1>3, IntegratedCompound
<1> QED
  BY <1>1, <1>2, <1>4 DEF GuestOp

\* A guest's main loop.
LEMMA GuestEventDocuments ==
  ASSUME Typed, Documents, NEW s \in Sites, GuestEvent(s)
  PROVE  Documents'
<1> DEFINE m == Head(toGuest[s])
<1>0. /\ toGuest[s] # <<>> /\ toGuest' = [toGuest EXCEPT ![s] = Tail(@)]
      /\ UNCHANGED <<toHost, hostOut>>
  BY GuestEventFrame
<1>1. GuestDocs(toGuest') /\ GuestDoc(m) /\ s \in Nodes
  BY <1>0, GuestGetsDocs, NodesAndSites
<1>2. ASSUME Tabs' PROVE Documents'
  BY <1>0, <1>1, <1>2 DEF Documents, HostDocs, HostDoc, GuestDocs, GuestDoc, OutDocs, EditFrame
<1>3. Tabs
  BY DEF Documents
<1>4. CASE GuestWelcome(s)
  <2>1. m.type = "Welcome"
    BY <1>4 DEF GuestWelcome, GuestGets
  <2>2. m.doc \in Seq(Chars) /\ active[s] \in Files
    BY <1>1, <2>1 DEF GuestDoc, Typed, TypeOK
  <2>3. text' = text \/ text' = [text EXCEPT ![s][active[s]] = m.doc]
    BY <1>4 DEF GuestWelcome
  <2>4. text' \in [Nodes -> [Files -> Seq(Chars)]]
    <3> HIDE DEF m
    <3>1. [text EXCEPT ![s][active[s]] = m.doc] \in [Nodes -> [Files -> Seq(Chars)]]
      BY <1>1, <1>3, <2>2 DEF Tabs
    <3> QED
      BY <1>3, <2>3, <3>1 DEF Tabs
  <2>5. UNCHANGED <<cursor, snapshot, undoStack, inflight>>
    BY <1>4 DEF GuestWelcome
  <2> QED
    BY <1>2, <1>3, <2>4, <2>5 DEF Tabs
<1>5. CASE GuestSkips(s) \/ GuestCursor(s) \/ GuestRoster(s)
  <2>1. UNCHANGED <<text, cursor, snapshot, undoStack, inflight>>
    BY <1>5 DEF GuestSkips, GuestCursor, GuestRoster, tabVars, opVars
  <2> QED
    BY <1>2, <1>3, <2>1 DEF Tabs
<1>6. CASE GuestOp(s)
  <2> DEFINE r == IntegrateRemoteAgainstInflight(m.ops, inflight[s][m.path])
  <2>1. /\ EditFrame(m) /\ r.remote \in Compound(Chars) /\ r.inflight \in Entries(Chars)
        /\ ApplyRemote(s, m, r.remote)
        /\ inflight' = [inflight EXCEPT ![s][m.path] = r.inflight]
    BY <1>6, GuestOpRebased
  <2> HIDE DEF r, m
  <2>2. /\ text' \in [Nodes -> [Files -> Seq(Chars)]]
        /\ cursor' \in [Nodes -> [Files -> Nat]]
        /\ UNCHANGED <<snapshot, undoStack>>
    BY <1>1, <2>1, RemoteApplied DEF EditFrame
  <2>3. inflight' \in [Nodes -> [Files -> Entries(Chars)]]
    <3> HIDE DEF Entries
    <3> QED
      BY <1>1, <1>3, <2>1 DEF Tabs, EditFrame
  <2> QED
    BY <1>2, <1>3, <2>2, <2>3 DEF Tabs
<1>7. CASE GuestAck(s)
  <2>1. m.type = "Ack"
    BY <1>7 DEF GuestAck, GuestGets
  <2>2. m.clock \in Nat /\ m.path \in Files
    BY <1>1, <2>1 DEF GuestDoc
  <2>3. inflight' = [inflight EXCEPT ![s][m.path] = Unacked(inflight[s][m.path], m.clock)]
    BY <1>7 DEF GuestAck
  <2>4. inflight[s][m.path] \in Entries(Chars)
    BY <1>1, <1>3, <2>2 DEF Tabs
  <2>5. Unacked(inflight[s][m.path], m.clock) \in Entries(Chars)
    BY <2>2, <2>4, UnackedEntries
  <2>6. inflight' \in [Nodes -> [Files -> Entries(Chars)]]
    <3> HIDE DEF Entries
    <3> QED
      BY <1>1, <1>3, <2>2, <2>3, <2>5 DEF Tabs
  <2>7. UNCHANGED <<text, cursor, snapshot, undoStack>>
    BY <1>7 DEF GuestAck, tabVars
  <2> QED
    BY <1>2, <1>3, <2>6, <2>7 DEF Tabs
<1>8. CASE GuestFileSaved(s)
  <2>1. m.type = "FileSaved"
    BY <1>8 DEF GuestFileSaved, GuestGets
  <2>2. m.content \in Seq(Chars) /\ m.path \in Files
    BY <1>1, <2>1 DEF GuestDoc
  <2>3. text' = text \/ text' = [text EXCEPT ![s][m.path] = m.content]
    BY <1>8 DEF GuestFileSaved
  <2>4. text' \in [Nodes -> [Files -> Seq(Chars)]]
    <3> HIDE DEF m
    <3>1. [text EXCEPT ![s][m.path] = m.content] \in [Nodes -> [Files -> Seq(Chars)]]
      BY <1>1, <1>3, <2>2 DEF Tabs
    <3> QED
      BY <1>3, <2>3, <3>1 DEF Tabs
  <2>5. UNCHANGED <<cursor, snapshot, undoStack, inflight>>
    BY <1>8 DEF GuestFileSaved, opVars
  <2> QED
    BY <1>2, <1>3, <2>4, <2>5 DEF Tabs
<1>9. CASE GuestDisconnected(s)
  <2>1. snapshot' = [snapshot EXCEPT ![s] = <<>>] /\ <<>> \in Seq(Seq(Chars))
    BY <1>9 DEF GuestDisconnected
  <2>2. UNCHANGED <<text, cursor, undoStack, inflight>>
    BY <1>9 DEF GuestDisconnected, opVars
  <2>3. snapshot' \in [Nodes -> Seq(Seq(Chars))]
    BY <1>3, <2>1 DEF Tabs
  <2> QED
    BY <1>2, <1>3, <2>2, <2>3 DEF Tabs
<1> QED
  BY <1>4, <1>5, <1>6, <1>7, <1>8, <1>9 DEF GuestEvent

-----------------------------------------------------------------------------
\* Documents is inductive.
LEMMA StepDocuments == ASSUME Typed, Documents, [Next]_vars PROVE Documents'
<1>1. CASE UNCHANGED vars
  <2>1. UNCHANGED <<text, cursor, snapshot, undoStack, inflight, toHost, toGuest, hostOut>>
    BY <1>1 DEF vars, netVars, tabVars, opVars
  <2> QED
    BY <2>1 DEF Documents, Tabs, HostDocs, HostDoc, GuestDocs, GuestDoc, OutDocs, EditFrame
<1>2. CASE Next
  BY <1>2, ConnectionDocuments, UserActionDocuments, HostEventDocuments, GuestEventDocuments
     DEF Next
<1> QED
  BY <1>1, <1>2

\* Documents always holds.
LEMMA AlwaysDocuments == Spec => [](Typed /\ Documents)
<1>1. Init => Typed /\ Documents
  BY InitTyped, InitDocuments
<1>2. (Typed /\ Documents) /\ [Next]_vars => (Typed /\ Documents)'
  BY StepTyped, StepDocuments
<1> QED
  BY <1>1, <1>2, PTL DEF Spec

\* A peer's edit, at the host as it arrives and at a guest after it was rebased
\* over what the guest has in flight, leaves a cursor that was in the document of
\* its tab in the document, whatever the edit's author saw (apply_ops_to_rope and
\* adjust_cursor clamp alike).
THEOREM CursorsAlwaysStayInDocument == Spec => CursorsStayInDocument
<1>1. ASSUME Typed, Documents, [Next]_vars, NEW s \in Sites, HostOp(s) \/ GuestOp(s),
             NEW k \in Nodes, cursor[k][active[k]] <= Len(text[k][active[k]])
      PROVE  cursor'[k][active[k]] <= Len(text'[k][active[k]])
  <2>1. CASE HostOp(s)
    <3> DEFINE m == Head(toHost[s])
    <3>1. EditFrame(m) /\ ApplyRemote(Host, m, m.ops) /\ Host \in Nodes
      BY <1>1, <2>1, HostGetsDocs, NodesAndSites DEF HostOp, HostGets, HostDoc
    <3> HIDE DEF m
    <3> QED
      BY <1>1, <3>1, RemoteApplied DEF EditFrame
  <2>2. CASE GuestOp(s)
    <3> DEFINE m == Head(toGuest[s])
               r == IntegrateRemoteAgainstInflight(m.ops, inflight[s][m.path])
    <3>1. EditFrame(m) /\ r.remote \in Compound(Chars) /\ ApplyRemote(s, m, r.remote) /\ s \in Nodes
      BY <1>1, <2>2, GuestOpRebased, NodesAndSites
    <3> HIDE DEF m, r
    <3> QED
      BY <1>1, <3>1, RemoteApplied DEF EditFrame
  <2> QED
    BY <1>1, <2>1, <2>2
<1>2. Typed /\ Documents /\ [Next]_vars =>
        [\A s \in Sites : HostOp(s) \/ GuestOp(s) =>
            \A n \in Nodes : LET f == active[n] IN
                cursor[n][f] <= Len(text[n][f]) => cursor'[n][f] <= Len(text'[n][f])]_vars
  BY <1>1
<1> QED
  BY <1>2, AlwaysDocuments, PTL DEF Spec, CursorsStayInDocument
-----------------------------------------------------------------------------
(* Edits and acknowledgements on the wire: a guest's queue is the acks on   *)
(* their way followed by the edits on theirs.                              *)

Wired == INSTANCE FoldFacts WITH
    Op <- LAMBDA k, clocks, m : IF m.type = k[1] /\ m.path = k[2] THEN Append(clocks, m.clock)
                                ELSE clocks

\* The clocks on the wire are a fold the lemmas are about.
LEMMA WireFolds ==
  ASSUME NEW q, NEW type, NEW f
  PROVE  OnWire(q, type, f) = Wired!Fold(<<type, f>>, <<>>, q)
  BY DEF OnWire, FoldLeft, MapThenFoldSet, Max, Wired!Fold, Wired!Iterates, Wired!Top

\* The frames of one type on a channel have clocks.
Timed(q, type) == Channel(q) /\ \A m \in ToSet(q) : m.type = type => m.clock \in Nat
Belongs(m, type, f) == m.type = type /\ m.path = f
\* Two stretches of a channel one after the other.
Stretches(q, r, type, f) ==
    /\ OnWire(q, type, f) \in Seq(Nat)
    /\ OnWire(q \o r, type, f) = OnWire(q, type, f) \o OnWire(r, type, f)

\* The clocks of two stretches are one after the other as well.
LEMMA WireJoin ==
  ASSUME NEW q, NEW r, NEW type, Timed(q, type), Timed(r, type), NEW f
  PROVE  Stretches(q, r, type, f)
<1> DEFINE S == ToSet(q) \union ToSet(r)
           K == {m \in S : Belongs(m, type, f)}
           F == [m \in S |-> m.clock]
           k == <<type, f>>
<1>1. q \in Seq(S) /\ r \in Seq(S) /\ <<>> \in Seq(Nat)
  BY DEF Timed, Channel
<1>2. \A m \in S : m.type = type => m.clock \in Nat
  BY DEF Timed
<1>3. Wired!Collects(k, S, K, F, Nat)
  BY <1>2 DEF Wired!Collects, Belongs
<1> HIDE DEF S, K, F, k
<1>4. /\ Wired!Fold(k, <<>>, q) \in Seq(Nat)
  BY <1>1, <1>3, Wired!CollectionAppends
<1>5. Wired!Fold(k, <<>>, q \o r) = Wired!Fold(k, Wired!Fold(k, <<>>, q), r)
  BY <1>1, Wired!FoldConcat
<1>6. Wired!Fold(k, Wired!Fold(k, <<>>, q), r) = Wired!Fold(k, <<>>, q) \o Wired!Fold(k, <<>>, r)
  BY <1>1, <1>3, <1>4, Wired!CollectionAppends
<1> QED
  BY <1>4, <1>5, <1>6, WireFolds DEF Stretches, k

\* Nothing on a channel, no clock.
LEMMA WireEmpty == ASSUME NEW type, NEW f PROVE OnWire(<<>>, type, f) = <<>>
  BY WireFolds, Wired!FoldEmpty

\* A frame that is sent puts its clock behind the others.
LEMMA WireSend ==
  ASSUME NEW q, Channel(q), NEW m, NEW type, NEW f
  PROVE  OnWire(Append(q, m), type, f) =
             IF Belongs(m, type, f) THEN Append(OnWire(q, type, f), m.clock)
             ELSE OnWire(q, type, f)
<1> DEFINE S == ToSet(q) \union {m}
<1>1. q \in Seq(S) /\ m \in S
  BY DEF Channel
<1> HIDE DEF S
<1>2. Wired!Fold(<<type, f>>, <<>>, Append(q, m)) =
        IF m.type = type /\ m.path = f
        THEN Append(Wired!Fold(<<type, f>>, <<>>, q), m.clock)
        ELSE Wired!Fold(<<type, f>>, <<>>, q)
  <2> DEFINE k == <<type, f>>
  <2>1. k[1] = type /\ k[2] = f
    OBVIOUS
  <2> HIDE DEF k
  <2>2. Wired!Fold(k, <<>>, Append(q, m)) =
        IF m.type = k[1] /\ m.path = k[2]
        THEN Append(Wired!Fold(k, <<>>, q), m.clock)
        ELSE Wired!Fold(k, <<>>, q)
    BY <1>1, Wired!FoldAppend
  <2> QED
    BY <2>1, <2>2 DEF k
<1> QED
  BY <1>2, WireFolds DEF Belongs

\* One frame alone.
LEMMA WireOne ==
  ASSUME NEW m, NEW type, NEW f
  PROVE  OnWire(<<m>>, type, f) = IF Belongs(m, type, f) THEN <<m.clock>> ELSE <<>>
<1> DEFINE none == <<>>
<1>1. <<m>> = Append(none, m) /\ Append(none, m.clock) = <<m.clock>>
  OBVIOUS
<1>2. Channel(none) /\ OnWire(none, type, f) = none
  BY EmptyChannel, WireEmpty
<1> HIDE DEF none
<1>3. OnWire(Append(none, m), type, f) =
        IF Belongs(m, type, f) THEN Append(none, m.clock) ELSE none
  BY <1>2, WireSend
<1>4. OnWire(<<m>>, type, f) = IF Belongs(m, type, f) THEN <<m.clock>> ELSE none
  BY <1>1, <1>3
<1> QED
  BY <1>4 DEF none

\* A frame that is received takes its clock from the front.
LEMMA WireReceive ==
  ASSUME NEW q, NEW type, Timed(q, type), q # <<>>, NEW f
  PROVE  /\ OnWire(Tail(q), type, f) \in Seq(Nat)
         /\ OnWire(q, type, f) =
             IF Belongs(Head(q), type, f)
             THEN <<Head(q).clock>> \o OnWire(Tail(q), type, f)
             ELSE OnWire(Tail(q), type, f)
<1> DEFINE h   == Head(q)
           t   == Tail(q)
           one == <<h>>
<1>1. q = one \o t /\ Channel(t) /\ h \in ToSet(q) /\ ToSet(t) \subseteq ToSet(q)
  BY ReceiveFrame DEF Timed, Channel
<1>2. Timed(one, type) /\ Timed(t, type) /\ Timed(<<>>, type)
  BY <1>1, OneFrame, EmptyChannel DEF Timed
<1>6. OnWire(one, type, f) = IF Belongs(h, type, f) THEN <<h.clock>> ELSE <<>>
  BY WireOne
<1> HIDE DEF h, t, one
<1>3. OnWire(q, type, f) = OnWire(one, type, f) \o OnWire(t, type, f)
  BY <1>1, <1>2, WireJoin DEF Stretches
<1>4. OnWire(t, type, f) \in Seq(Nat)
  BY <1>2, WireJoin DEF Stretches
<1>5. <<>> \o OnWire(t, type, f) = OnWire(t, type, f)
  BY <1>4
<1> QED
  BY <1>3, <1>4, <1>5, <1>6 DEF h, t

\* What is left of a channel without such frames has none.
LEMMA WirePrefix ==
  ASSUME NEW q, NEW type, Timed(q, type), NEW i \in 0 .. Len(q), NEW f,
         OnWire(q, type, f) = <<>>
  PROVE  OnWire(SubSeq(q, 1, i), type, f) = <<>>
<1> DEFINE a == SubSeq(q, 1, i)
           b == SubSeq(q, i + 1, Len(q))
<1>1. q = a \o b /\ Channel(a) /\ Channel(b) /\ ToSet(a) \subseteq ToSet(q)
      /\ ToSet(b) \subseteq ToSet(q)
  <2>1. q \in Seq(ToSet(q)) /\ a \in Seq(ToSet(q)) /\ b \in Seq(ToSet(q)) /\ Len(q) \in Nat
    BY DEF Timed, Channel
  <2>2. q = a \o b
    <3>1. /\ 1 \in 1 .. Len(q) + 1 /\ i \in 1 - 1 .. Len(q) /\ Len(q) \in i .. Len(q)
      BY <2>1
    <3>2. a \o b = SubSeq(q, 1, Len(q))
      BY <2>1, <3>1, ConcatAdjacentSubSeq
    <3>3. SubSeq(q, 1, Len(q)) = q
      BY <2>1, SubSeqFull
    <3> QED
      BY <3>2, <3>3
  <2> HIDE DEF a, b
  <2> QED
    BY <2>1, <2>2, SeqIsChannel
<1>2. Timed(a, type) /\ Timed(b, type)
  BY <1>1 DEF Timed
<1> HIDE DEF a, b
<1>3. /\ OnWire(a, type, f) \in Seq(Nat) /\ OnWire(b, type, f) \in Seq(Nat)
      /\ OnWire(a, type, f) \o OnWire(b, type, f) = <<>>
  BY <1>1, <1>2, WireJoin DEF Stretches
<1>4. ASSUME NEW x \in Seq(Nat), NEW y \in Seq(Nat), x \o y = <<>> PROVE x = <<>>
  BY <1>4
<1>5. OnWire(a, type, f) = <<>>
  BY <1>3, <1>4
<1> QED
  BY <1>5 DEF a

-----------------------------------------------------------------------------
\* Clocks of a queue that grows behind, or shrinks in front.
LEMMA ClocksOfQueue ==
  ASSUME NEW E, NEW q \in Seq(E), \A e \in E : e.clock \in Nat
  PROVE  /\ Clocks(q) \in Seq(Nat) /\ Len(Clocks(q)) = Len(q)
         /\ \A i \in 1 .. Len(q) : Clocks(q)[i] = q[i].clock
<1>1. DOMAIN q = 1 .. Len(q) /\ Len(q) \in Nat /\ \A i \in 1 .. Len(q) : q[i].clock \in Nat
  OBVIOUS
<1>2. Clocks(q) = [i \in 1 .. Len(q) |-> q[i].clock]
  BY <1>1 DEF Clocks
<1> QED
  BY <1>1, <1>2

\* A new entry behind the others.
LEMMA ClocksAppend ==
  ASSUME NEW E, NEW q \in Seq(E), \A e \in E : e.clock \in Nat, NEW e \in E
  PROVE  Clocks(Append(q, e)) = Append(Clocks(q), e.clock)
<1> DEFINE r == Append(q, e)
           l == Clocks(r)
           c == Append(Clocks(q), e.clock)
<1>1. r \in Seq(E) /\ Len(r) = Len(q) + 1 /\ r[Len(q) + 1] = e /\ Len(q) \in Nat
      /\ \A i \in 1 .. Len(q) : r[i] = q[i]
  BY AppendProperties
<1> HIDE DEF r
<1>2. l \in Seq(Nat) /\ Len(l) = Len(r) /\ \A i \in 1 .. Len(r) : l[i] = r[i].clock
  BY <1>1, ClocksOfQueue
<1>3. /\ Clocks(q) \in Seq(Nat) /\ Len(Clocks(q)) = Len(q)
      /\ \A i \in 1 .. Len(q) : Clocks(q)[i] = q[i].clock
  BY ClocksOfQueue
<1>4. c \in Seq(Nat) /\ Len(c) = Len(Clocks(q)) + 1 /\ c[Len(Clocks(q)) + 1] = e.clock
      /\ \A i \in 1 .. Len(Clocks(q)) : c[i] = Clocks(q)[i]
  BY <1>3, AppendProperties
<1> HIDE DEF l, c
<1>5. ASSUME NEW i \in 1 .. Len(l) PROVE l[i] = c[i]
  <2>1. i \in 1 .. Len(q) \/ i = Len(q) + 1
    BY <1>1, <1>2
  <2>2. l[i] = r[i].clock
    BY <1>2
  <2>3. CASE i \in 1 .. Len(q)
    <3>1. r[i] = q[i] /\ c[i] = Clocks(q)[i] /\ Clocks(q)[i] = q[i].clock
      BY <1>1, <1>3, <1>4, <2>3
    <3> QED
      BY <2>2, <3>1
  <2>4. CASE i = Len(q) + 1
    BY <1>1, <1>3, <1>4, <2>2, <2>4
  <2> QED
    BY <2>1, <2>3, <2>4
<1>6. l = c
  BY <1>1, <1>2, <1>3, <1>4, <1>5, SeqEqual
<1> QED
  BY <1>6 DEF l, c, r

\* The first entry gone.
LEMMA ClocksTail ==
  ASSUME NEW E, NEW q \in Seq(E), \A e \in E : e.clock \in Nat, q # <<>>
  PROVE  Clocks(Tail(q)) = Tail(Clocks(q))
<1> DEFINE r == Tail(q)
           k == Clocks(q)
           l == Clocks(r)
           c == Tail(k)
<1>1. r \in Seq(E) /\ Len(r) = Len(q) - 1 /\ Len(q) \in Nat \ {0}
      /\ \A i \in 1 .. Len(r) : r[i] = q[i + 1]
  BY HeadTailProperties
<1> HIDE DEF r
<1>2. l \in Seq(Nat) /\ Len(l) = Len(r) /\ \A i \in 1 .. Len(r) : l[i] = r[i].clock
  BY <1>1, ClocksOfQueue
<1>3. k \in Seq(Nat) /\ Len(k) = Len(q) /\ \A i \in 1 .. Len(q) : k[i] = q[i].clock
  BY ClocksOfQueue
<1> HIDE DEF k
<1>4. k # <<>>
  BY <1>1, <1>3
<1>5. c \in Seq(Nat) /\ Len(c) = Len(k) - 1 /\ \A i \in 1 .. Len(c) : c[i] = k[i + 1]
  BY <1>3, <1>4, HeadTailProperties
<1> HIDE DEF l, c
<1>6. ASSUME NEW i \in 1 .. Len(l) PROVE l[i] = c[i]
  <2>1. i \in 1 .. Len(r) /\ i + 1 \in 1 .. Len(q) /\ i \in 1 .. Len(c)
    BY <1>1, <1>2, <1>3, <1>5
  <2>2. l[i] = r[i].clock /\ r[i] = q[i + 1]
    BY <1>1, <1>2, <2>1
  <2>3. c[i] = k[i + 1] /\ k[i + 1] = q[i + 1].clock
    BY <1>3, <1>5, <2>1
  <2> QED
    BY <2>2, <2>3
<1>7. l = c
  BY <1>1, <1>2, <1>3, <1>5, <1>6, SeqEqual
<1> QED
  BY <1>7 DEF l, c, r, k

\* A queue in the order of its clocks, none of them above the latest.
Rising(q, latest) ==
    \A i \in 1 .. Len(q) : /\ q[i].clock <= latest
                           /\ \A j \in 1 .. Len(q) : i < j => q[i].clock < q[j].clock

\* Acknowledging the first entry of such a queue removes that entry and no other.
LEMMA UnackedHead ==
  ASSUME NEW S, NEW q \in Entries(S), q # <<>>, NEW latest, Rising(q, latest)
  PROVE  Unacked(q, q[1].clock) = Tail(q) /\ Rising(Tail(q), latest) /\ Tail(q) \in Entries(S)
<1> DEFINE E == [clock : Nat, ops : Compound(S)]
           c == q[1].clock
           r == Tail(q)
<1>1. q \in Seq(E) /\ \A e \in E : e.clock \in Nat
  BY DEF Entries
<1> HIDE DEF E
<1>2. r \in Seq(E) /\ Len(r) = Len(q) - 1 /\ Len(q) \in Nat \ {0} /\ Head(q) = q[1]
      /\ q[1] \in E /\ \A i \in 1 .. Len(r) : r[i] = q[i + 1]
  BY <1>1
<1>3. ASSUME NEW i \in 1 .. Len(r) PROVE r[i].clock > c
  BY <1>1, <1>2 DEF Rising
<1>4. ~(c > c)
  BY <1>1, <1>2
<1>5. Rising(r, latest)
  <2> SUFFICES ASSUME NEW i \in 1 .. Len(r)
               PROVE  /\ r[i].clock <= latest
                      /\ \A j \in 1 .. Len(r) : i < j => r[i].clock < r[j].clock
    BY DEF Rising
  <2>1. i + 1 \in 1 .. Len(q) /\ \A j \in 1 .. Len(r) : j + 1 \in 1 .. Len(q)
    BY <1>2
  <2>2. \A j \in 1 .. Len(r) : i < j => i + 1 < j + 1
    OBVIOUS
  <2> QED
    BY <1>2, <2>1, <2>2 DEF Rising
<1> HIDE DEF r
<1>6. Retaining!Copies(c, r)
  BY <1>3 DEF Retaining!Copies
<1>7. Retaining!Fold(c, <<>>, r) = r
  BY <1>2, <1>6, Retaining!CopyIsWhole
<1>8. Retaining!Fold(c, <<>>, q) = Retaining!Fold(c, <<>>, r)
  <2> DEFINE none == <<>>
  <2>1. Head(q).clock = c
    BY <1>2
  <2> HIDE DEF none, c
  <2>2. Retaining!Fold(c, none, q)
          = Retaining!Fold(c, IF Head(q).clock > c THEN Append(none, Head(q)) ELSE none, Tail(q))
    BY <1>1, Retaining!FoldHead
  <2>3. Retaining!Fold(c, none, q) = Retaining!Fold(c, none, r)
    BY <1>4, <2>1, <2>2 DEF r
  <2> QED
    BY <2>3 DEF none
<1> QED
  BY <1>2, <1>5, <1>7, <1>8, RetainingFolds DEF r, E, Entries
-----------------------------------------------------------------------------
(* InflightMatchesWire is not inductive: it needs that clocks rise in a     *)
(* queue, that a guest starts with an empty one, and that no write is       *)
(* refused (the host neither relays nor acknowledges a write it refuses).   *)

\* Every role may write every tab.
EveryoneMayWrite ==
    \A role \in Roles, f \in Files :
        (IF f \in HiddenFiles THEN "WRITE_HIDDEN" ELSE "WRITE_FILES") \in InitialPerms[role]

Unused(s, f) == /\ inflight[s][f] = <<>>
                /\ OnWire(toGuest[s], "Ack", f) = <<>> /\ OnWire(toHost[s], "Op", f) = <<>>
Flown(s, f)  == /\ Clocks(inflight[s][f]) =
                       OnWire(toGuest[s], "Ack", f) \o OnWire(toHost[s], "Op", f)
                /\ Rising(inflight[s][f], localClock[s])
FlightOf(s)  == /\ s >= nextSiteId => phase[s] = "idle"
                /\ phase[s] \in {"idle", "connecting"} => \A f \in Files : Unused(s, f)
                /\ Live(s) => \A f \in Files : Flown(s, f)
HostRoles == /\ DOMAIN rolePerms = Nodes /\ rolePerms[Host] = InitialPerms
             /\ \A t \in DOMAIN peers[Host] : peers[Host][t] \in Roles
Flight == HostRoles /\ \A s \in Sites : FlightOf(s)

\* Sessions whose frames are in order have clocks on the wire.
LEMMA FramesTimed ==
  ASSUME Typed, Documents, NEW s \in Sites
  PROVE  /\ Timed(toHost[s], "Op") /\ Timed(toGuest[s], "Ack")
         /\ inflight[s] \in [Files -> Entries(Chars)] /\ localClock[s] \in Nat
         /\ s \in Nodes /\ s # Host /\ s \in Nat
<1>1. Channel(toHost[s]) /\ Channel(toGuest[s])
  BY DEF Typed, HostChannels, GuestChannels
<1>2. Timed(toHost[s], "Op") /\ Timed(toGuest[s], "Ack")
  BY <1>1 DEF Timed, Documents, HostDocs, HostDoc, GuestDocs, GuestDoc, EditFrame
<1>3. s \in Nodes /\ s # Host /\ s \in Nat
  BY NodesAndSites DEF Sites
<1> QED
  BY <1>2, <1>3 DEF Documents, Tabs, Typed, TypeOK

\* How the phase of a guest moves on.
PhaseStep(s) ==
    \/ phase'[s] = phase[s]
    \/ ~(s >= nextSiteId) /\ phase'[s] \in {"detached", "closed"}
    \/ phase[s] = "connecting" /\ phase'[s] = "joined"

\* Steps that leave a guest's queues and the clocks on its wires alone.
LEMMA FlightKept ==
  ASSUME Typed, Documents, NEW s \in Sites, FlightOf(s),
         inflight'[s] = inflight[s], localClock'[s] = localClock[s],
         \A f \in Files : /\ OnWire(toGuest'[s], "Ack", f) = OnWire(toGuest[s], "Ack", f)
                          /\ OnWire(toHost'[s], "Op", f) = OnWire(toHost[s], "Op", f),
         s >= nextSiteId' => s >= nextSiteId, s \in linkUp' => s \in linkUp, PhaseStep(s)
  PROVE  FlightOf(s)'
<1>1. s >= nextSiteId' => phase'[s] = "idle"
  BY DEF FlightOf, PhaseStep
<1>2. phase'[s] \in {"idle", "connecting"} => \A f \in Files : Unused(s, f)'
  BY DEF FlightOf, PhaseStep, Unused
<1>3. ASSUME Live(s)', NEW f \in Files PROVE Flown(s, f)'
  <2>1. CASE phase[s] = "joined"
    <3>1. Flown(s, f)
      BY <1>3, <2>1 DEF FlightOf, Live
    <3> QED
      BY <3>1 DEF Flown
  <2>2. CASE phase[s] = "connecting"
    <3>1. Unused(s, f)
      BY <2>2 DEF FlightOf
    <3>2. Clocks(<<>>) = <<>> /\ Rising(<<>>, localClock[s])
      BY DEF Clocks, Rising
    <3> DEFINE none == <<>>
    <3>3. none \o none = none
      OBVIOUS
    <3> QED
      BY <3>1, <3>2, <3>3 DEF Flown, Unused
  <2> QED
    BY <1>3, <2>1, <2>2 DEF Live, PhaseStep
<1> QED
  BY <1>1, <1>2, <1>3 DEF FlightOf

\* A frame of another type on a channel carries none of these clocks.
LEMMA SendKeepsWire ==
  ASSUME NEW q, GuestChannels(q), NEW to, NEW m, NEW s \in Sites, NEW type, m.type # type, NEW f
  PROVE  /\ OnWire(Send(q, to, m)[s], type, f) = OnWire(q[s], type, f)
         /\ OnWire(Broadcast(q, to, m)[s], type, f) = OnWire(q[s], type, f)
<1>1. OnWire(Append(q[s], m), type, f) = OnWire(q[s], type, f)
  BY WireSend DEF GuestChannels, Belongs
<1>2. ASSUME NEW sites PROVE OnWire(Send(q, sites, m)[s], type, f) = OnWire(q[s], type, f)
  <2>1. Send(q, sites, m)[s] = q[s] \/ Send(q, sites, m)[s] = Append(q[s], m)
    BY DEF Send
  <2> QED
    BY <1>1, <2>1
<1> QED
  BY <1>2 DEF Broadcast

\* Nor does receiving one take any of them.
LEMMA TailKeepsWire ==
  ASSUME NEW q, NEW type, Timed(q, type), q # <<>>, Head(q).type # type, NEW f
  PROVE  OnWire(Tail(q), type, f) = OnWire(q, type, f)
  BY WireReceive DEF Belongs

-----------------------------------------------------------------------------
\* Nothing is in flight at first.
LEMMA InitFlight == ASSUME Init PROVE Flight
<1>1. HostRoles
  BY NodesAndSites DEF Init, HostRoles, EmptyMap
<1>2. ASSUME NEW s \in Sites PROVE FlightOf(s)
  <2>1. phase[s] = "idle" /\ toHost[s] = <<>> /\ toGuest[s] = <<>>
    BY DEF Init
  <2>2. \A f \in Files : inflight[s][f] = <<>>
    BY NodesAndSites DEF Init
  <2>3. \A f \in Files : Unused(s, f)
    BY <2>1, <2>2, WireEmpty DEF Unused
  <2> QED
    BY <2>1, <2>3 DEF FlightOf, Live
<1> QED
  BY <1>1, <1>2 DEF Flight

\* Connections come, break and end with every clock where it was, or unread.
LEMMA ConnectionFlight ==
  ASSUME Typed, Documents, Membership, Flight,
         Connect \/ HostWriter \/ \E s \in Sites : ReaderEof(s) \/ GuestExit(s) \/ ConnectionLost(s)
  PROVE  \A s \in Sites : FlightOf(s)'
<1>0. /\ \A s \in Sites : /\ FlightOf(s) /\ MembershipOf(s)
                          /\ Timed(toHost[s], "Op") /\ Timed(toGuest[s], "Ack") /\ s \in Nat
      /\ DOMAIN toHost = Sites /\ DOMAIN toGuest = Sites /\ GuestChannels(toGuest)
      /\ nextSiteId \in Nat /\ DOMAIN phase = Sites
      /\ \A s \in Sites : s \in guestTxs => ~(s >= nextSiteId)
      /\ linkUp \subseteq guestTxs
  BY FramesTimed, NodesAndSites DEF Flight, Membership, Typed, HostChannels, GuestChannels, TypeOK
<1>1. ASSUME Connect, NEW s \in Sites PROVE FlightOf(s)'
  <2> DEFINE join == <<[type |-> "Join"]>>
  <2>1. /\ toHost' = [toHost EXCEPT ![nextSiteId] = join]
        /\ linkUp' = linkUp \union {nextSiteId} /\ nextSiteId' = nextSiteId + 1
        /\ phase' = [phase EXCEPT ![nextSiteId] = "connecting"]
        /\ UNCHANGED <<toGuest, inflight, localClock>>
    BY <1>1 DEF Connect, opVars
  <2>2. CASE s = nextSiteId
    <3>1. toGuest[s] = <<>> /\ phase[s] = "idle" /\ \A f \in Files : inflight[s][f] = <<>>
      BY <1>0, <2>2 DEF MembershipOf, FreshSite, FlightOf, Unused
    <3>2. toHost'[s] = join /\ phase'[s] = "connecting" /\ ~(s >= nextSiteId')
      BY <1>0, <2>1, <2>2
    <3>3. \A f \in Files : OnWire(join, "Op", f) = <<>>
      <4> DEFINE m == [type |-> "Join"]
      <4>1. m.type # "Op"
        OBVIOUS
      <4> HIDE DEF m
      <4>2. \A f \in Files : OnWire(<<m>>, "Op", f) = <<>>
        BY <4>1, WireOne DEF Belongs
      <4> QED
        BY <4>2 DEF m
    <3>4. \A f \in Files : Unused(s, f)'
      BY <2>1, <3>1, <3>2, <3>3, WireEmpty DEF Unused
    <3> QED
      BY <3>2, <3>4 DEF FlightOf, Live
  <2>3. CASE s # nextSiteId
    <3>1. toHost'[s] = toHost[s] /\ phase'[s] = phase[s] /\ (s \in linkUp' => s \in linkUp)
          /\ (s >= nextSiteId' => s >= nextSiteId)
      BY <1>0, <2>1, <2>3
    <3> QED
      BY <1>0, <2>1, <3>1, FlightKept DEF PhaseStep
  <2> QED
    BY <2>2, <2>3
<1>2. ASSUME HostWriter, NEW s \in Sites PROVE FlightOf(s)'
  <2>1. /\ UNCHANGED <<nextSiteId, linkUp, toHost, phase, inflight, localClock>>
        /\ toGuest' = Broadcast(toGuest, {}, Head(hostOut))
    BY <1>2 DEF HostWriter, memberVars, opVars
  <2>2. Head(hostOut).type # "Ack"
    BY <1>2, ReceiveFrame DEF HostWriter, Typed, Outgoing
  <2>3. \A f \in Files : OnWire(toGuest'[s], "Ack", f) = OnWire(toGuest[s], "Ack", f)
    BY <1>0, <2>1, <2>2, SendKeepsWire
  <2> QED
    BY <1>0, <2>1, <2>3, FlightKept DEF PhaseStep
<1>3. ASSUME NEW x \in Sites, ReaderEof(x), NEW s \in Sites PROVE FlightOf(s)'
  <2> DEFINE left == [type |-> "Left"]
  <2>1. /\ UNCHANGED <<nextSiteId, linkUp, toGuest, phase, inflight, localClock>>
        /\ toHost' = [toHost EXCEPT ![x] = Append(@, left)]
    BY <1>3 DEF ReaderEof, memberVars, opVars
  <2>2. left.type # "Op"
    OBVIOUS
  <2> HIDE DEF left
  <2>3. \A f \in Files : OnWire(Append(toHost[s], left), "Op", f) = OnWire(toHost[s], "Op", f)
    BY <1>0, <2>2, WireSend DEF Belongs, Timed
  <2>4. toHost'[s] = toHost[s] \/ toHost'[s] = Append(toHost[s], left)
    BY <1>0, <2>1
  <2>5. \A f \in Files : OnWire(toHost'[s], "Op", f) = OnWire(toHost[s], "Op", f)
    BY <2>3, <2>4
  <2> QED
    BY <1>0, <2>1, <2>5, FlightKept DEF PhaseStep
<1>4. ASSUME NEW x \in Sites, GuestExit(x), NEW s \in Sites PROVE FlightOf(s)'
  <2>1. /\ phase[x] \in {"connecting", "joined", "detached"} /\ linkUp' = linkUp \ {x}
        /\ phase' = [phase EXCEPT ![x] = "closed"] /\ toGuest' = [toGuest EXCEPT ![x] = <<>>]
        /\ UNCHANGED <<nextSiteId, toHost, inflight, localClock>>
    BY <1>4 DEF GuestExit, opVars
  <2>2. CASE s = x
    <3>1. phase'[s] = "closed" /\ ~(s >= nextSiteId)
      BY <1>0, <2>1, <2>2 DEF FlightOf
    <3> QED
      BY <2>1, <3>1 DEF FlightOf, Live
  <2>3. CASE s # x
    <3>1. toGuest'[s] = toGuest[s] /\ phase'[s] = phase[s]
      BY <1>0, <2>1, <2>3
    <3> QED
      BY <1>0, <2>1, <3>1, FlightKept DEF PhaseStep
  <2> QED
    BY <2>2, <2>3
<1>5. ASSUME NEW x \in Sites, ConnectionLost(x), NEW s \in Sites PROVE FlightOf(s)'
  <2> DEFINE end == [type |-> "Disconnected"]
  <2>1. PICK i \in 0 .. Len(toHost[x]), j \in 0 .. Len(toGuest[x]) :
          /\ toHost' = [toHost EXCEPT ![x] = SubSeq(@, 1, i)]
          /\ toGuest' = [toGuest EXCEPT ![x] = Append(SubSeq(@, 1, j), end)]
    BY <1>5 DEF ConnectionLost
  <2>2. /\ x \in linkUp /\ linkUp' = linkUp \ {x}
        /\ UNCHANGED <<nextSiteId, phase, inflight, localClock>>
    BY <1>5 DEF ConnectionLost, memberVars, opVars
  <2>3. CASE s = x
    <3>1. ASSUME NEW f \in Files, Unused(s, f) PROVE Unused(s, f)'
      <4>1. OnWire(SubSeq(toHost[x], 1, i), "Op", f) = <<>>
        BY <1>0, <2>3, <3>1, WirePrefix DEF Unused
      <4>2. OnWire(SubSeq(toGuest[x], 1, j), "Ack", f) = <<>>
        BY <1>0, <2>3, <3>1, WirePrefix DEF Unused
      <4>3. Channel(SubSeq(toGuest[x], 1, j)) /\ end.type # "Ack"
        BY <1>0, LoseFrames DEF Timed
      <4> HIDE DEF end
      <4>4. OnWire(Append(SubSeq(toGuest[x], 1, j), end), "Ack", f) = <<>>
        BY <4>2, <4>3, WireSend DEF Belongs
      <4>5. /\ toHost'[x] = SubSeq(toHost[x], 1, i)
            /\ toGuest'[x] = Append(SubSeq(toGuest[x], 1, j), end)
        BY <1>0, <2>1
      <4> QED
        BY <2>2, <2>3, <3>1, <4>1, <4>4, <4>5 DEF Unused
    <3>2. ~(s >= nextSiteId')
      BY <1>0, <2>2, <2>3
    <3>3. phase[s] \in {"idle", "connecting"} => \A f \in Files : Unused(s, f)
      BY <1>0 DEF FlightOf
    <3>4. ~Live(s)'
      BY <2>2, <2>3 DEF Live
    <3>5. phase'[s] \in {"idle", "connecting"} => \A f \in Files : Unused(s, f)'
      BY <2>2, <3>1, <3>3
    <3> QED
      BY <3>2, <3>4, <3>5 DEF FlightOf
  <2>4. CASE s # x
    <3>1. toGuest'[s] = toGuest[s] /\ toHost'[s] = toHost[s]
      BY <1>0, <2>1, <2>4
    <3> QED
      BY <1>0, <2>2, <3>1, FlightKept DEF PhaseStep
  <2> QED
    BY <2>3, <2>4
<1> QED
  BY <1>1, <1>2, <1>3, <1>4, <1>5
-----------------------------------------------------------------------------
\* A channel without frames of a type has no clocks of that type.
LEMMA WireAbsent ==
  ASSUME NEW q, Channel(q), NEW type, \A m \in ToSet(q) : m.type # type, NEW f
  PROVE  OnWire(q, type, f) = <<>>
<1> DEFINE none == <<>>
           k == <<type, f>>
<1>1. q \in Seq(ToSet(q)) /\ none \in {none} /\ k[1] = type
  BY DEF Channel
<1> HIDE DEF none, k
<1>2. \A a \in {none}, m \in ToSet(q) :
        (IF m.type = k[1] /\ m.path = k[2] THEN Append(a, m.clock) ELSE a) \in {none}
  BY <1>1
<1>3. Wired!Fold(k, none, q) \in {none}
  BY <1>1, <1>2, Wired!FoldKeeps
<1>4. Wired!Fold(k, none, q) = none
  BY <1>3
<1> QED
  BY <1>4, WireFolds DEF none, k

\* A new edit under a later clock keeps a queue in order.
LEMMA RisingAppend ==
  ASSUME NEW E, NEW q \in Seq(E), \A e \in E : e.clock \in Nat, NEW e \in E,
         NEW latest \in Nat, Rising(q, latest), e.clock = latest + 1
  PROVE  Rising(Append(q, e), latest + 1)
<1> DEFINE r == Append(q, e)
<1>1. Len(r) = Len(q) + 1 /\ r[Len(q) + 1] = e /\ Len(q) \in Nat
      /\ \A i \in 1 .. Len(q) : r[i] = q[i] /\ q[i] \in E
  BY AppendProperties
<1> HIDE DEF r
<1>2. ASSUME NEW i \in 1 .. Len(q) PROVE r[i].clock <= latest /\ r[i].clock \in Nat
  BY <1>1 DEF Rising
<1>3. ASSUME NEW i \in 1 .. Len(r), NEW j \in 1 .. Len(r), i < j
      PROVE  r[i].clock < r[j].clock
  <2>1. i \in 1 .. Len(q) /\ (j \in 1 .. Len(q) \/ j = Len(q) + 1)
    BY <1>1, <1>3
  <2>2. CASE j \in 1 .. Len(q)
    BY <1>1, <1>3, <2>1, <2>2 DEF Rising
  <2>3. CASE j = Len(q) + 1
    <3>1. r[j].clock = latest + 1
      BY <1>1, <2>3
    <3> QED
      BY <1>2, <2>1, <3>1
  <2> QED
    BY <2>1, <2>2, <2>3
<1>4. ASSUME NEW i \in 1 .. Len(r) PROVE r[i].clock <= latest + 1
  <2>1. i \in 1 .. Len(q) \/ i = Len(q) + 1
    BY <1>1
  <2>2. CASE i \in 1 .. Len(q)
    BY <1>2, <2>2
  <2>3. CASE i = Len(q) + 1
    BY <1>1, <2>3
  <2> QED
    BY <2>1, <2>2, <2>3
<1> QED
  BY <1>3, <1>4 DEF Rising, r

\* A key event queues the edit it sends.
LEMMA KeyActionFlight ==
  ASSUME Typed, Documents, Flight, NEW n \in Nodes, NEW t \in Seq(Chars), NEW c \in Nat,
         NEW capture \in Seq(Seq(Chars)), NEW kind, KeyEvent(n, t, c, capture, kind),
         \A s \in Sites, f \in Files :
            OnWire(toGuest'[s], "Ack", f) = OnWire(toGuest[s], "Ack", f)
  PROVE  \A s \in Sites : FlightOf(s)'
<1>1. PICK edits, moves : Emits(n, edits, moves)
  BY KeyEventEmits
<1> DEFINE out == edits \o moves
<1>2. /\ HasSession(n) /\ UNCHANGED <<nextSiteId, linkUp, phase>>
  BY DEF KeyEvent, memberVars
<1>3. /\ toHost' = IF n \in linkUp THEN [toHost EXCEPT ![n] = @ \o out] ELSE toHost
      /\ Channel(edits) /\ Channel(moves) /\ \A m \in ToSet(moves) : m.type = "CursorUpdate"
      /\ \/ edits = <<>> /\ inflight' = inflight /\ localClock' = localClock
         \/ \E ops \in Compound(Chars) : edits = <<EditOf(n, ops)>> /\ Queues(n, ops)
  BY <1>1 DEF Emits, Sends
<1>4. /\ DOMAIN toHost = Sites /\ inflight \in [Nodes -> [Files -> Entries(Chars)]]
      /\ localClock \in [Nodes -> Nat] /\ active[n] \in Files /\ Sites \subseteq Nodes
      /\ nextSiteId \in Nat
  BY NodesAndSites DEF Typed, TypeOK, HostChannels, Documents, Tabs
<1>5. ASSUME NEW s \in Sites, s # n PROVE FlightOf(s)'
  <2>1. toHost'[s] = toHost[s]
    BY <1>3, <1>4, <1>5
  <2>2. inflight'[s] = inflight[s] /\ localClock'[s] = localClock[s]
    BY <1>3, <1>4, <1>5 DEF Queues
  <2> QED
    BY <1>2, <2>1, <2>2, FlightKept DEF PhaseStep, Flight
<1>6. ASSUME n \in Sites PROVE FlightOf(n)'
  <2>1. phase[n] = "joined" /\ FlightOf(n) /\ n # Host
    BY <1>2, <1>6, NodesAndSites DEF HasSession, Flight
  <2>2. /\ Timed(toHost[n], "Op") /\ Timed(toGuest[n], "Ack")
    BY <1>6, FramesTimed
  <2>3. ~(n >= nextSiteId')
    BY <1>2, <2>1 DEF FlightOf
  <2>4. ASSUME Live(n), NEW g \in Files PROVE Flown(n, g)'
    <3> DEFINE A == OnWire(toGuest[n], "Ack", g)
               B == OnWire(toHost[n], "Op", g)
               q == inflight[n][g]
               E == [clock : Nat, ops : Compound(Chars)]
    <3>1. Clocks(q) = A \o B /\ Rising(q, localClock[n])
      BY <2>1, <2>4 DEF FlightOf, Flown
    <3>2. A \in Seq(Nat) /\ B \in Seq(Nat)
      <4>1. Timed(<<>>, "Op") /\ Timed(<<>>, "Ack")
        BY EmptyChannel DEF Timed
      <4> QED
        BY <2>2, <4>1, WireJoin DEF Stretches
    <3>3. toHost'[n] = toHost[n] \o out
      BY <1>3, <1>4, <1>6, <2>4 DEF Live
    <3>4. /\ Timed(moves, "Op") /\ OnWire(moves, "Op", g) = <<>>
      <4>1. \A m \in ToSet(moves) : m.type # "Op"
        BY <1>3
      <4> QED
        BY <1>3, <4>1, WireAbsent DEF Timed
    <3>5. q \in Seq(E) /\ \A e \in E : e.clock \in Nat
      BY <1>4, <1>6 DEF Entries
    <3>6. OnWire(toGuest'[n], "Ack", g) = A
      BY <1>6
    <3> HIDE DEF E
    <3>7. CASE edits = <<>> /\ inflight' = inflight /\ localClock' = localClock
      <4>1. out = moves
        <5>1. moves \in Seq(ToSet(moves))
          BY <1>3 DEF Channel
        <5> QED
          BY <3>7, <5>1
      <4> HIDE DEF out, A, B, q
      <4>2. OnWire(toHost[n] \o moves, "Op", g) = B \o OnWire(moves, "Op", g)
        BY <2>2, <3>4, WireJoin DEF Stretches, B
      <4>3. B \o <<>> = B
        BY <3>2
      <4>4. OnWire(toHost'[n], "Op", g) = B
        BY <3>3, <3>4, <4>1, <4>2, <4>3
      <4> QED
        BY <3>1, <3>6, <3>7, <4>4 DEF Flown, q
    <3>8. CASE \E ops \in Compound(Chars) : edits = <<EditOf(n, ops)>> /\ Queues(n, ops)
      <4>1. PICK ops \in Compound(Chars) : edits = <<EditOf(n, ops)>> /\ Queues(n, ops)
        BY <3>8
      <4> DEFINE clock == localClock[n] + 1
                 entry == [clock |-> clock, ops |-> ops]
                 new   == IF active[n] = g THEN <<clock>> ELSE <<>>
      <4>2. clock \in Nat /\ entry \in E /\ entry.clock = clock /\ localClock'[n] = clock
        BY <1>4, <1>6, <4>1 DEF Queues, E
      <4>3. inflight'[n][g] = IF active[n] = g THEN Append(q, entry) ELSE q
        BY <1>4, <1>6, <4>1 DEF Queues
      <4>4. OnWire(edits, "Op", g) = new /\ Timed(edits, "Op")
        <5> DEFINE op == EditOf(n, ops)
        <5>1. op.type = "Op" /\ op.clock = clock /\ op.path = active[n]
          BY DEF EditOf
        <5> HIDE DEF op, clock
        <5>2. OnWire(<<op>>, "Op", g) = new
          BY <5>1, WireOne DEF Belongs
        <5>3. Timed(<<op>>, "Op")
          BY <4>2, <5>1, OneFrame DEF Timed
        <5> QED
          BY <4>1, <5>2, <5>3 DEF op
      <4>5. OnWire(toHost'[n], "Op", g) = B \o new
        <5>1. OnWire(out, "Op", g) = new \o <<>>
          <6>1. Stretches(edits, moves, "Op", g)
            BY <3>4, <4>4, WireJoin
          <6>2. OnWire(edits \o moves, "Op", g) =
                    OnWire(edits, "Op", g) \o OnWire(moves, "Op", g)
            BY <6>1 DEF Stretches
          <6> HIDE DEF new
          <6> QED
            BY <3>4, <4>4, <6>2
        <5>2. new \in Seq(Nat)
          BY <4>2
        <5> HIDE DEF new
        <5>3. new \o <<>> = new
          BY <5>2
        <5>4. Timed(out, "Op")
          BY <1>3, <3>4, <4>4, JoinChannels DEF Timed
        <5> HIDE DEF out, new
        <5>5. Stretches(toHost[n], out, "Op", g)
          BY <2>2, <5>4, WireJoin
        <5> QED
          BY <3>3, <5>1, <5>3, <5>5 DEF Stretches
      <4>6. Clocks(inflight'[n][g]) = A \o (B \o new)
        <5> HIDE DEF A, B, clock, q
        <5>1. CASE active[n] = g
          <6>1. Clocks(Append(q, entry)) = Append(Clocks(q), entry.clock)
            BY <3>5, <4>2, ClocksAppend
          <6>2. Append(A \o B, clock) = A \o Append(B, clock)
            <7>1. Wired!Joins(A, B, clock)
              BY <3>2, <4>2, Wired!AppendToJoin
            <7> QED
              BY <7>1 DEF Wired!Joins
          <6>3. Append(B, clock) = B \o <<clock>>
            BY <3>2, <4>2, AppendIsConcat
          <6> QED
            BY <3>1, <4>2, <4>3, <5>1, <6>1, <6>2, <6>3
        <5>2. CASE active[n] # g
          <6>1. B \o <<>> = B
            BY <3>2
          <6> QED
            BY <3>1, <4>3, <5>2, <6>1
        <5> QED
          BY <5>1, <5>2
      <4>7. Rising(inflight'[n][g], clock)
        <5>1. Rising(Append(q, entry), clock)
          BY <1>4, <3>1, <3>5, <4>2, RisingAppend
        <5>2. Rising(q, clock)
          <6>1. \A i \in 1 .. Len(q) : q[i].clock \in Nat
            BY <3>5
          <6>2. localClock[n] \in Nat
            BY <1>4, <1>6
          <6> QED
            BY <3>1, <6>1, <6>2 DEF Rising
        <5> HIDE DEF entry, q, clock
        <5> QED
          BY <4>3, <5>1, <5>2
      <4> HIDE DEF A, B, clock, new, q
      <4> QED
        BY <3>6, <4>2, <4>5, <4>6, <4>7 DEF Flown
    <3> QED
      BY <1>3, <3>7, <3>8
  <2>5. Live(n)' <=> Live(n)
    BY <1>2 DEF Live
  <2> QED
    BY <1>2, <2>1, <2>3, <2>4, <2>5 DEF FlightOf
<1> QED
  BY <1>5, <1>6

\* Whatever a user does keeps the queues and the wires together.
LEMMA UserActionFlight ==
  ASSUME Typed, Documents, Flight, UserAction
  PROVE  \A s \in Sites : FlightOf(s)'
<1>0. /\ GuestChannels(toGuest) /\ \A s \in Sites : FlightOf(s)
      /\ \A n \in Nodes : /\ text[n][active[n]] \in Seq(Chars)
                           /\ cursor[n][active[n]] \in Nat
      /\ nextSiteId \in Nat
  BY NodesAndSites DEF Typed, TypeOK, Documents, Tabs, Flight
<1> DEFINE Calm == \A s \in Sites, f \in Files :
                      OnWire(toGuest'[s], "Ack", f) = OnWire(toGuest[s], "Ack", f)
<1>1. UNCHANGED toGuest => Calm
  OBVIOUS
<1>2. ASSUME NEW m, m.type # "Ack", toGuest' = Broadcast(toGuest, {}, m) PROVE Calm
  BY <1>0, <1>2, SendKeepsWire
<1>3. ASSUME NEW n \in Nodes, Edit(n) PROVE \A s \in Sites : FlightOf(s)'
  <2>1. PICK e \in EditsOf(n) : /\ KeyEvent(n, e.text, e.cursor, Captured(n), "edits")
                                /\ UNCHANGED toGuest
    BY <1>3 DEF Edit
  <2>2. e.text \in Seq(Chars) /\ e.cursor \in Nat /\ Captured(n) \in Seq(Seq(Chars))
    BY EditsOfTexts, CapturedText
  <2> QED
    BY <1>1, <2>1, <2>2, KeyActionFlight
<1>4. ASSUME NEW n \in Nodes, Move(n) PROVE \A s \in Sites : FlightOf(s)'
  <2>1. PICK c \in {0, Len(text[n][active[n]])} :
          KeyEvent(n, text[n][active[n]], c, snapshot[n], "moves") /\ UNCHANGED toGuest
    BY <1>4 DEF Move
  <2>2. c \in Nat /\ snapshot[n] \in Seq(Seq(Chars))
    BY <1>0, CapturedText
  <2> QED
    BY <1>0, <1>1, <2>1, <2>2, KeyActionFlight
<1>5. ASSUME NEW n \in Nodes, DeferredEdit(n) \/ SwitchTab(n) PROVE \A s \in Sites : FlightOf(s)'
  <2>1. UNCHANGED <<nextSiteId, linkUp, toHost, toGuest, phase, inflight, localClock>>
    BY <1>5 DEF DeferredEdit, SwitchTab, netVars, memberVars, opVars
  <2> QED
    BY <1>0, <2>1, FlightKept DEF PhaseStep
<1>6. ASSUME NEW n \in Nodes, Save(n) PROVE \A s \in Sites : FlightOf(s)'
  <2> DEFINE saved == [type |-> "FileSaved", path |-> active[n], content |-> text[n][active[n]]]
  <2>1. /\ KeyEvent(n, text[n][active[n]], cursor[n][active[n]], snapshot[n], "saves")
        /\ toGuest' = IF n = Host THEN Broadcast(toGuest, {}, saved) ELSE toGuest
    BY <1>6 DEF Save
  <2>2. Calm
    BY <1>1, <1>2, <2>1
  <2>3. snapshot[n] \in Seq(Seq(Chars))
    BY CapturedText
  <2> HIDE DEF saved
  <2> QED
    BY <1>0, <2>1, <2>2, <2>3, KeyActionFlight
<1>7. ASSUME Undo PROVE \A s \in Sites : FlightOf(s)'
  <2>1. /\ KeyEvent(Host, Head(undoStack), 0, snapshot[Host], "undos")
        /\ undoStack # <<>> /\ UNCHANGED toGuest
    BY <1>7 DEF Undo
  <2>2. Head(undoStack) \in Seq(Chars) /\ 0 \in Nat
    <3> DEFINE Texts == Seq(Chars)
    <3>1. undoStack \in Seq(Texts)
      BY DEF Documents, Tabs
    <3> HIDE DEF Texts
    <3>2. Head(undoStack) \in Texts
      BY <2>1, <3>1
    <3> QED
      BY <3>2 DEF Texts
  <2>3. snapshot[Host] \in Seq(Seq(Chars)) /\ Host \in Nodes
    BY CapturedText, NodesAndSites
  <2> QED
    BY <1>1, <2>1, <2>2, <2>3, KeyActionFlight
<1>8. ASSUME NEW role, NEW perm, TogglePerm(role, perm) PROVE \A s \in Sites : FlightOf(s)'
  <2>1. Calm
    BY <1>2, <1>8 DEF TogglePerm
  <2>2. UNCHANGED <<nextSiteId, linkUp, toHost, phase, inflight, localClock>>
    BY <1>8 DEF TogglePerm, opVars
  <2> QED
    BY <1>0, <2>1, <2>2, FlightKept DEF PhaseStep
<1>9. ASSUME NEW x \in Sites, RequestRole(x) PROVE \A s \in Sites : FlightOf(s)'
  <2>1. PICK target \in Sites, role \in Roles :
          toHost' = FromGuest(x, [type |-> "RoleChangeRequest", target |-> target, role |-> role])
    BY <1>9 DEF RequestRole
  <2> DEFINE m == [type |-> "RoleChangeRequest", target |-> target, role |-> role]
  <2>2. UNCHANGED <<nextSiteId, linkUp, toGuest, phase, inflight, localClock>>
    BY <1>9 DEF RequestRole, memberVars, opVars
  <2>3. m.type # "Op"
    OBVIOUS
  <2>4. toHost' = FromGuest(x, m)
    BY <2>1
  <2> HIDE DEF m
  <2>5. ASSUME NEW s \in Sites, NEW f \in Files
        PROVE  OnWire(toHost'[s], "Op", f) = OnWire(toHost[s], "Op", f)
    <3>1. OnWire(Append(toHost[s], m), "Op", f) = OnWire(toHost[s], "Op", f)
      BY <2>3, WireSend DEF Belongs, Typed, HostChannels
    <3>2. toHost'[s] = toHost[s] \/ toHost'[s] = Append(toHost[s], m)
      BY <2>4 DEF FromGuest, Typed, HostChannels
    <3> QED
      BY <3>1, <3>2
  <2> QED
    BY <1>0, <2>2, <2>5, FlightKept DEF PhaseStep
<1> QED
  BY <1>3, <1>4, <1>5, <1>6, <1>7, <1>8, <1>9 DEF UserAction
\* The host sequences an edit: its clock leaves the one wire and comes onto the other.
LEMMA HostEventFlight ==
  ASSUME Typed, Documents, Membership, Flight, EveryoneMayWrite, NEW x \in Sites, HostEvent(x)
  PROVE  \A s \in Sites : FlightOf(s)'
<1> DEFINE m == Head(toHost[x])
           q == toHost[x]
<1>0. /\ GuestChannels(toGuest) /\ \A s \in Sites : FlightOf(s)
      /\ DOMAIN toHost = Sites /\ nextSiteId \in Nat
      /\ \A s \in Sites : Channel(toGuest[s])
  BY NodesAndSites DEF Typed, TypeOK, Flight, GuestChannels, HostChannels
<1>1. /\ q # <<>> /\ toHost' = [toHost EXCEPT ![x] = Tail(@)]
      /\ UNCHANGED <<nextSiteId, guestTxs, linkUp, phase, inflight, localClock>>
  BY DEF HostEvent, HostJoin, HostOp, HostCursor, HostRoleRequest, HostLeft, HostGets,
         memberVars, opVars
<1>2. Timed(q, "Op") /\ Timed(toGuest[x], "Ack")
  BY FramesTimed
<1>3. ASSUME NEW s \in Sites, s # x,
             \A f \in Files : OnWire(toGuest'[s], "Ack", f) = OnWire(toGuest[s], "Ack", f)
      PROVE  FlightOf(s)'
  <2>1. toHost'[s] = toHost[s]
    BY <1>0, <1>1, <1>3
  <2> QED
    BY <1>0, <1>1, <1>3, <2>1, FlightKept DEF PhaseStep
<1>4. ASSUME m.type # "Op",
             \A s \in Sites, f \in Files :
                OnWire(toGuest'[s], "Ack", f) = OnWire(toGuest[s], "Ack", f)
      PROVE  \A s \in Sites : FlightOf(s)'
  <2>1. \A f \in Files : OnWire(toHost'[x], "Op", f) = OnWire(toHost[x], "Op", f)
    BY <1>0, <1>1, <1>2, <1>4, TailKeepsWire
  <2>2. FlightOf(x)'
    BY <1>0, <1>1, <1>4, <2>1, FlightKept DEF PhaseStep
  <2> QED
    BY <1>3, <1>4, <2>2
<1>5. CASE HostJoin(x)
  <2> DEFINE doc     == IF DocFile = Untitled THEN <<>> ELSE text[Host][DocFile]
             welcome == [type |-> "Welcome", doc |-> doc, clock |-> serverClock[Host],
                         peers |-> peers[Host], role |-> DefaultRole, perms |-> rolePerms[Host]]
             joined  == [type |-> "PeerJoined", site |-> x, role |-> DefaultRole]
             sent    == Send(toGuest, {x}, welcome)
  <2>1. m.type = "Join" /\ toGuest' = Broadcast(sent, {x}, joined)
    BY <1>5 DEF HostJoin, HostGets
  <2>2. GuestFrame(welcome)
    BY NodesAndSites DEF GuestFrame, Typed, TypeOK
  <2>3. welcome.type # "Ack" /\ joined.type # "Ack"
    OBVIOUS
  <2> HIDE DEF welcome, joined
  <2>4. GuestChannels(sent)
    BY <1>0, <2>2, SendTyped
  <2>5. \A s \in Sites, f \in Files : OnWire(sent[s], "Ack", f) = OnWire(toGuest[s], "Ack", f)
    BY <1>0, <2>3, SendKeepsWire
  <2> HIDE DEF sent
  <2>6. \A s \in Sites, f \in Files : OnWire(toGuest'[s], "Ack", f) = OnWire(sent[s], "Ack", f)
    BY <2>1, <2>3, <2>4, SendKeepsWire
  <2> QED
    BY <1>4, <2>1, <2>5, <2>6
<1>6. CASE HostCursor(x)
  <2>1. m.type = "CursorUpdate" /\ toGuest' = toGuest
    BY <1>6 DEF HostCursor, HostGets
  <2> QED
    BY <1>4, <2>1
<1>7. CASE HostRoleRequest(x)
  <2> DEFINE changed == [type |-> "PeerRoleChanged", site |-> m.target, role |-> m.role]
  <2>1. m.type = "RoleChangeRequest" /\ toGuest' \in {toGuest, Broadcast(toGuest, {}, changed)}
    BY <1>7 DEF HostRoleRequest, HostGets
  <2>2. changed.type # "Ack"
    OBVIOUS
  <2> HIDE DEF changed
  <2>3. \A s \in Sites, f \in Files : OnWire(toGuest'[s], "Ack", f) = OnWire(toGuest[s], "Ack", f)
    BY <1>0, <2>1, <2>2, SendKeepsWire
  <2> QED
    BY <1>4, <2>1, <2>3
<1>8. CASE HostLeft(x)
  <2> DEFINE left == [type |-> "PeerLeft", site |-> x]
  <2>1. m.type = "Left" /\ toGuest' = Broadcast(toGuest, {}, left)
    BY <1>8 DEF HostLeft, HostGets
  <2>2. left.type # "Ack"
    OBVIOUS
  <2> HIDE DEF left
  <2>3. \A s \in Sites, f \in Files : OnWire(toGuest'[s], "Ack", f) = OnWire(toGuest[s], "Ack", f)
    BY <1>0, <2>1, <2>2, SendKeepsWire
  <2> QED
    BY <1>4, <2>1, <2>3
<1>9. CASE HostOp(x)
  <2> DEFINE ack == [type |-> "Ack", clock |-> m.clock, path |-> m.path]
             b   == Broadcast(toGuest, {x}, m)
  <2>1. m.type = "Op" /\ m.site = x /\ m.path \in Files /\ m.clock \in Nat /\ m \in ToSet(q)
    BY <1>9, HostGetsDocs, HostGetsTyped DEF HostOp, HostGets, HostDoc, EditFrame
  <2>2. CanWrite(x, m.path)
    <3>1. x \in DOMAIN peers[Host]
      BY <2>1 DEF Membership, MembershipOf, AskersAreIn, Requests, Member
    <3>2. peers[Host][x] \in Roles /\ rolePerms[Host] = InitialPerms
      BY <3>1 DEF Flight, HostRoles
    <3> QED
      BY <2>1, <3>1, <3>2 DEF CanWrite, PeerPerms, EveryoneMayWrite
  <2>3. toGuest' = Send(b, {x}, ack)
    BY <1>9, <2>1, <2>2 DEF HostOp
  <2>4. \A s \in Sites : s # x => toGuest'[s] = b[s]
    BY <2>3 DEF Send
  <2>5. \A s \in Sites, f \in Files : OnWire(b[s], "Ack", f) = OnWire(toGuest[s], "Ack", f)
    BY <1>0, <2>1, SendKeepsWire
  <2>6. \A s \in Sites : s # x => FlightOf(s)'
    BY <1>3, <2>4, <2>5
  <2>7. FlightOf(x)'
    <3>1. phase[x] \notin {"idle", "connecting"}
      <4> SUFFICES ASSUME Unused(x, m.path) PROVE FALSE
        BY <1>0, <2>1 DEF FlightOf
      <4> DEFINE r == OnWire(Tail(q), "Op", m.path)
      <4>1. r \in Seq(Nat) /\ OnWire(q, "Op", m.path) = <<m.clock>> \o r
        BY <1>1, <1>2, <2>1, WireReceive DEF Belongs
      <4> HIDE DEF r
      <4>2. Len(<<m.clock>> \o r) = 1 + Len(r) /\ Len(r) \in Nat
        BY <2>1, <4>1
      <4>3. <<m.clock>> \o r = <<>>
        BY <4>1 DEF Unused
      <4> QED
        BY <4>2, <4>3
    <3>2. ~(x >= nextSiteId')
      BY <1>0, <1>1, <3>1 DEF FlightOf
    <3>3. ASSUME Live(x), NEW f \in Files PROVE Flown(x, f)'
      <4> DEFINE A == OnWire(toGuest[x], "Ack", f)
                 B == OnWire(Tail(q), "Op", f)
                 c == m.clock
      <4>1. x \in guestTxs /\ x \in linkUp
        BY <3>3 DEF Live, Typed, TypeOK
      <4>2. toGuest'[x] = Append(toGuest[x], ack)
        BY <2>3, <4>1 DEF Send, Broadcast
      <4>3. Flown(x, f)
        BY <1>0, <3>3 DEF FlightOf
      <4>4. B \in Seq(Nat) /\ OnWire(q, "Op", f) = IF m.path = f THEN <<c>> \o B ELSE B
        BY <1>1, <1>2, <2>1, WireReceive DEF Belongs
      <4>5. A \in Seq(Nat)
        <5>1. Timed(<<>>, "Ack")
          BY EmptyChannel DEF Timed
        <5> QED
          BY <1>2, <5>1, WireJoin DEF Stretches
      <4>6. OnWire(toGuest'[x], "Ack", f) = IF m.path = f THEN Append(A, c) ELSE A
        <5>1. ack.type = "Ack" /\ ack.path = m.path /\ ack.clock = c
          OBVIOUS
        <5> HIDE DEF ack
        <5>2. OnWire(Append(toGuest[x], ack), "Ack", f) =
                IF Belongs(ack, "Ack", f) THEN Append(A, ack.clock) ELSE A
          BY <1>0, WireSend DEF GuestChannels
        <5> HIDE DEF A
        <5> QED
          BY <4>2, <5>1, <5>2 DEF Belongs
      <4>7. toHost'[x] = Tail(q)
        BY <1>0, <1>1
      <4>8. A \o (<<c>> \o B) = Append(A, c) \o B
        <5> DEFINE one == <<c>>
        <5>1. one \in Seq(Nat) /\ Append(A, c) = A \o one
          BY <2>1, <4>5, AppendIsConcat
        <5> HIDE DEF one, A, B, c
        <5>2. A \o (one \o B) = (A \o one) \o B
          <6>1. A \in Seq(Nat) /\ B \in Seq(Nat)
            BY <4>4, <4>5
          <6> QED
            BY ONLY <5>1, <6>1, ConcatAssociative, SMTT(30)
        <5>3. A \o (one \o B) = Append(A, c) \o B
          BY <5>1, <5>2
        <5> QED
          BY <5>3 DEF one
      <4> HIDE DEF A, B, c
      <4> QED
        BY <1>1, <4>3, <4>4, <4>6, <4>7, <4>8 DEF Flown, A, B
    <3> QED
      BY <1>1, <3>1, <3>2, <3>3 DEF FlightOf, Live
  <2> QED
    BY <2>6, <2>7
<1> QED
  BY <1>5, <1>6, <1>7, <1>8, <1>9 DEF HostEvent

\* A guest removes from its queue what it is acknowledged, and nothing else.
LEMMA GuestEventFlight ==
  ASSUME Typed, Documents, Membership, Flight, NEW x \in Sites, GuestEvent(x)
  PROVE  \A s \in Sites : FlightOf(s)'
<1> DEFINE q == toGuest[x]
           m == Head(q)
<1>0. /\ \A s \in Sites : FlightOf(s)
      /\ x \in Nodes /\ nextSiteId \in Nat
      /\ Timed(q, "Ack") /\ inflight \in [Nodes -> [Files -> Entries(Chars)]]
      /\ DOMAIN toGuest = Sites /\ DOMAIN phase = Sites
      /\ localClock[x] \in Nat
  <2>1. x \in Nodes /\ Timed(q, "Ack") /\ localClock[x] \in Nat /\ nextSiteId \in Nat
    BY FramesTimed, NodesAndSites DEF Typed, TypeOK
  <2> QED
    BY <2>1 DEF Flight, Typed, TypeOK, GuestChannels, Documents, Tabs
<1>1. /\ q # <<>> /\ toGuest' = [toGuest EXCEPT ![x] = Tail(@)]
      /\ UNCHANGED <<nextSiteId, guestTxs, linkUp, toHost, localClock>>
  BY GuestEventFrame
<1>2. /\ phase' = phase \/ \E p : phase' = [phase EXCEPT ![x] = p]
      /\ inflight' = inflight \/ \E r : inflight' = [inflight EXCEPT ![x] = r]
  <2>1. phase' = phase \/ \E p : phase' = [phase EXCEPT ![x] = p]
    BY DEF GuestEvent, GuestWelcome, GuestSkips, GuestOp, GuestAck, GuestCursor, GuestRoster,
           GuestFileSaved, GuestDisconnected, memberVars
  <2>2. inflight' = inflight \/ \E r : inflight' = [inflight EXCEPT ![x] = r]
    <3>1. CASE GuestOp(x)
      <4>1. inflight' = [inflight EXCEPT ![x][m.path] =
                IntegrateRemoteAgainstInflight(m.ops, inflight[x][m.path]).inflight]
        BY <3>1 DEF GuestOp
      <4> QED
        BY <4>1
    <3>2. CASE GuestAck(x)
      <4>1. inflight' = [inflight EXCEPT ![x][m.path] = Unacked(inflight[x][m.path], m.clock)]
        BY <3>2 DEF GuestAck
      <4> QED
        BY <4>1
    <3>3. CASE ~GuestOp(x) /\ ~GuestAck(x)
      BY <3>3 DEF GuestEvent, GuestWelcome, GuestSkips, GuestCursor, GuestRoster,
         GuestFileSaved, GuestDisconnected, opVars
    <3> QED
      BY <3>1, <3>2, <3>3
  <2> QED
    BY <2>1, <2>2
<1>3. ASSUME NEW s \in Sites, s # x PROVE FlightOf(s)'
  <2>1. toGuest'[s] = toGuest[s]
    BY <1>0, <1>1, <1>3
  <2>2. phase'[s] = phase[s]
    BY <1>0, <1>2, <1>3
  <2>3. inflight'[s] = inflight[s]
    BY <1>0, <1>2, <1>3, NodesAndSites
  <2> QED
    BY <1>0, <1>1, <1>3, <2>1, <2>2, <2>3, FlightKept DEF PhaseStep
<1>4. m \in ToSet(q) /\ GuestDoc(m) /\ toGuest'[x] = Tail(q)
  BY <1>0, <1>1, GuestGetsDocs, GuestGetsTyped
<1>5. ~(x >= nextSiteId)
  BY <1>0, <1>1 DEF Membership, MembershipOf, FreshSite
<1>6. ASSUME m.type # "Ack", UNCHANGED inflight, PhaseStep(x) PROVE FlightOf(x)'
  <2>1. \A f \in Files : OnWire(toGuest'[x], "Ack", f) = OnWire(toGuest[x], "Ack", f)
    BY <1>0, <1>1, <1>4, <1>6, TailKeepsWire
  <2> QED
    BY <1>0, <1>1, <1>6, <2>1, FlightKept
<1>7. ASSUME GuestWelcome(x) PROVE FlightOf(x)'
  <2>1. m.type = "Welcome" /\ UNCHANGED inflight /\ phase[x] = "connecting"
        /\ phase'[x] \in {"joined", "detached"}
    BY <1>0, <1>7 DEF GuestWelcome, GuestGets
  <2> QED
    BY <1>5, <1>6, <2>1 DEF PhaseStep
<1>8. ASSUME GuestSkips(x) PROVE FlightOf(x)'
  <2>1. UNCHANGED <<inflight, phase>>
    BY <1>8 DEF GuestSkips, memberVars, opVars
  <2>2. CASE phase[x] = "connecting"
    <3>1. ASSUME m.type = "Ack" PROVE FALSE
      <4> DEFINE r == OnWire(Tail(q), "Ack", m.path)
      <4>1. m.clock \in Nat /\ m.path \in Files
        BY <1>4, <3>1 DEF GuestDoc
      <4>2. r \in Seq(Nat) /\ OnWire(q, "Ack", m.path) = <<m.clock>> \o r
        BY <1>0, <1>1, <3>1, WireReceive DEF Belongs
      <4> HIDE DEF r
      <4>3. Len(<<m.clock>> \o r) = 1 + Len(r) /\ Len(r) \in Nat
        BY <4>1, <4>2
      <4>4. <<m.clock>> \o r = <<>>
        BY <1>0, <2>2, <4>1, <4>2 DEF FlightOf, Unused
      <4> QED
        BY <4>3, <4>4
    <3> QED
      BY <1>6, <2>1, <3>1 DEF PhaseStep
  <2>3. CASE phase[x] = "detached"
    BY <1>1, <1>5, <2>1, <2>3 DEF FlightOf, Live
  <2> QED
    BY <1>8, <2>2, <2>3 DEF GuestSkips
<1>9. ASSUME GuestCursor(x) \/ GuestRoster(x) \/ GuestFileSaved(x) PROVE FlightOf(x)'
  <2>1. m.type # "Ack" /\ UNCHANGED <<inflight, phase>>
    BY <1>9 DEF GuestCursor, GuestRoster, GuestFileSaved, GuestGets, memberVars, opVars
  <2> QED
    BY <1>6, <2>1 DEF PhaseStep
<1>10. ASSUME GuestDisconnected(x) PROVE FlightOf(x)'
  <2>1. m.type = "Disconnected" /\ UNCHANGED inflight /\ phase'[x] = "closed"
    BY <1>0, <1>10 DEF GuestDisconnected, GuestGets, opVars
  <2> QED
    BY <1>5, <1>6, <2>1 DEF PhaseStep
<1>11. ASSUME GuestOp(x) PROVE FlightOf(x)'
  <2> DEFINE f == m.path
             r == IntegrateRemoteAgainstInflight(m.ops, inflight[x][f])
  <2>1. phase[x] = "joined" /\ UNCHANGED phase
    BY <1>11 DEF GuestOp, memberVars
  <2>2. /\ m.type = "Op" /\ f \in Files /\ r.inflight \in Entries(Chars)
        /\ SameClocks(r.inflight, inflight[x][f])
        /\ inflight' = [inflight EXCEPT ![x][f] = r.inflight]
    BY <1>11, GuestOpRebased DEF EditFrame
  <2> HIDE DEF r
  <2>3. ASSUME Live(x), NEW g \in Files PROVE Flown(x, g)'
    <3>1. Flown(x, g)
      BY <1>0, <2>3 DEF FlightOf
    <3>2. OnWire(toGuest'[x], "Ack", g) = OnWire(toGuest[x], "Ack", g)
      BY <1>0, <1>1, <1>4, <2>2, TailKeepsWire
    <3>3. /\ Clocks(inflight'[x][g]) = Clocks(inflight[x][g])
          /\ Rising(inflight[x][g], localClock[x]) => Rising(inflight'[x][g], localClock[x])
      <4>1. CASE g = f
        <5> DEFINE new == r.inflight
                   old == inflight[x][f]
                   E   == [clock : Nat, ops : Compound(Chars)]
        <5>1. new \in Seq(E) /\ old \in Seq(E) /\ SameClocks(new, old)
              /\ \A e \in E : e.clock \in Nat
          BY <1>0, <2>2 DEF Entries
        <5>2. inflight'[x][g] = new
          BY <1>0, <2>2, <4>1
        <5> HIDE DEF new, old, E
        <5>3. /\ Clocks(new) \in Seq(Nat) /\ Len(Clocks(new)) = Len(new)
              /\ \A i \in 1 .. Len(new) : Clocks(new)[i] = new[i].clock
              /\ Clocks(old) \in Seq(Nat) /\ Len(Clocks(old)) = Len(old)
              /\ \A i \in 1 .. Len(old) : Clocks(old)[i] = old[i].clock
          BY <5>1, ClocksOfQueue
        <5>4. Clocks(new) = Clocks(old)
          <6>1. Len(new) = Len(old) /\ \A i \in 1 .. Len(new) : new[i].clock = old[i].clock
            BY <5>1 DEF SameClocks
          <6>2. /\ Len(Clocks(new)) = Len(Clocks(old))
                /\ \A i \in 1 .. Len(Clocks(new)) : Clocks(new)[i] = Clocks(old)[i]
            BY <5>3, <6>1
          <6> QED
            BY ONLY <5>3, <6>2, SeqEqual
        <5>5. Rising(old, localClock[x]) => Rising(new, localClock[x])
          BY <5>1 DEF SameClocks, Rising
        <5> QED
          BY <4>1, <5>2, <5>4, <5>5 DEF old
      <4>2. CASE g # f
        BY <1>0, <2>2, <4>2
      <4> QED
        BY <4>1, <4>2
    <3> QED
      BY <1>1, <3>1, <3>2, <3>3 DEF Flown
  <2> QED
    BY <1>1, <1>5, <2>1, <2>3 DEF FlightOf, Live
<1>12. ASSUME GuestAck(x) PROVE FlightOf(x)'
  <2> DEFINE f == m.path
             c == m.clock
             old == inflight[x][f]
  <2>1. /\ phase[x] = "joined" /\ UNCHANGED phase /\ m.type = "Ack"
        /\ inflight' = [inflight EXCEPT ![x][f] = Unacked(old, c)]
    BY <1>12 DEF GuestAck, GuestGets, memberVars
  <2>2. f \in Files /\ c \in Nat
    BY <1>4, <2>1 DEF GuestDoc
  <2>3. ASSUME Live(x), NEW g \in Files PROVE Flown(x, g)'
    <3> DEFINE A == OnWire(Tail(q), "Ack", g)
               B == OnWire(toHost[x], "Op", g)
    <3>1. Flown(x, g)
      BY <1>0, <2>3 DEF FlightOf
    <3>2. A \in Seq(Nat) /\ OnWire(q, "Ack", g) = IF f = g THEN <<c>> \o A ELSE A
      BY <1>0, <1>1, <2>1, WireReceive DEF Belongs
    <3>3. B \in Seq(Nat)
      <4>1. Timed(<<>>, "Op")
        BY EmptyChannel DEF Timed
      <4> QED
        BY <4>1, FramesTimed, WireJoin DEF Stretches
    <3>4. CASE g = f
      <4> DEFINE E == [clock : Nat, ops : Compound(Chars)]
      <4>1. old \in Entries(Chars) /\ Entries(Chars) = Seq(E) /\ \A e \in E : e.clock \in Nat
        BY <1>0, <2>2 DEF Entries
      <4>2. Clocks(old) = (<<c>> \o A) \o B /\ Rising(old, localClock[x])
        BY <3>1, <3>2, <3>4 DEF Flown
      <4>3. (<<c>> \o A) \o B = <<c>> \o (A \o B)
        <5> DEFINE one == <<c>>
        <5>1. one \in Seq(Nat)
          BY <2>2
        <5> HIDE DEF one, A, B
        <5>2. (one \o A) \o B = one \o (A \o B)
          BY <3>2, <3>3, <5>1, ConcatAssociative, SMTT(30)
        <5> QED
          BY <5>2 DEF one
      <4> DEFINE rest == A \o B
      <4>4. rest \in Seq(Nat)
        <5> HIDE DEF A, B
        <5> QED
          BY <3>2, <3>3
      <4>5. Clocks(old) = <<c>> \o rest
        BY <4>2, <4>3
      <4> HIDE DEF rest, A, B, E
      <4>6. Len(Clocks(old)) = 1 + Len(rest) /\ Clocks(old)[1] = c /\ Tail(Clocks(old)) = rest
            /\ Len(rest) \in Nat
        <5>1. /\ Len(<<c>> \o rest) = 1 + Len(rest) /\ (<<c>> \o rest)[1] = c
              /\ Tail(<<c>> \o rest) = rest
          BY <2>2, <4>4
        <5> QED
          BY <4>4, <4>5, <5>1
      <4>7. Len(Clocks(old)) = Len(old) /\ \A i \in 1 .. Len(old) : Clocks(old)[i] = old[i].clock
        BY <4>1, ClocksOfQueue
      <4>8. old # <<>> /\ old[1].clock = c
        <5>1. Len(old) = 1 + Len(rest) /\ Len(rest) \in Nat
          BY <4>6, <4>7
        <5>2. Len(old) # 0 /\ 1 \in 1 .. Len(old)
          BY ONLY <5>1
        <5>3. Clocks(old)[1] = old[1].clock
          BY <4>7, <5>2
        <5>4. Len(<<>>) = 0
          OBVIOUS
        <5> QED
          BY <4>6, <5>2, <5>3, <5>4
      <4>9. Unacked(old, c) = Tail(old) /\ Rising(Tail(old), localClock[x])
        BY <4>1, <4>2, <4>8, UnackedHead
      <4>10. Clocks(Tail(old)) = Tail(Clocks(old))
        BY <4>1, <4>8, ClocksTail
      <4>11. inflight'[x][g] = Tail(old)
        BY <1>0, <2>1, <2>2, <3>4, <4>9
      <4> QED
        BY <1>1, <1>4, <3>4, <4>6, <4>9, <4>10, <4>11 DEF Flown, rest, A, B
    <3>5. CASE g # f
      <4>1. inflight'[x][g] = inflight[x][g]
        BY <1>0, <2>1, <2>2, <3>5
      <4> QED
        BY <1>1, <1>4, <3>1, <3>2, <3>5, <4>1 DEF Flown
    <3> QED
      BY <3>4, <3>5
  <2> QED
    BY <1>1, <1>5, <2>1, <2>3 DEF FlightOf, Live
<1>13. FlightOf(x)'
  BY <1>7, <1>8, <1>9, <1>10, <1>11, <1>12 DEF GuestEvent
<1> QED
  BY <1>3, <1>13

-----------------------------------------------------------------------------
\* The host's own permissions stay the configured ones, and peers have roles.
LEMMA StepHostRoles == ASSUME Typed, HostRoles, [Next]_vars PROVE HostRoles'
<1>1. Host \in Nodes /\ Host \notin Sites /\ Host \in DOMAIN peers /\ DefaultRole \in Roles
  BY NodesAndSites, ConstantsAssumption DEF Typed, TypeOK
<1>2. CASE UNCHANGED <<peers, rolePerms>>
  BY <1>2 DEF HostRoles
<1>3. ASSUME NEW s \in Sites, HostJoin(s) PROVE HostRoles'
  <2>1. rolePerms' = rolePerms /\ peers'[Host] = Put(peers[Host], s, DefaultRole)
    BY <1>1, <1>3 DEF HostJoin
  <2> QED
    BY <1>1, <2>1 DEF HostRoles, Put
<1>4. ASSUME NEW s \in Sites, HostRoleRequest(s) PROVE HostRoles'
  <2> DEFINE m == Head(toHost[s])
  <2>1. m.role \in Roles
    BY <1>4, HostGetsTyped DEF HostRoleRequest, HostGets, HostFrame
  <2>2. rolePerms' = rolePerms
        /\ (peers' = peers \/ peers' = [peers EXCEPT ![Host][m.target] = m.role])
    BY <1>4 DEF HostRoleRequest
  <2> HIDE DEF m
  <2> QED
    BY <1>1, <2>1, <2>2 DEF HostRoles
<1>5. ASSUME NEW s \in Sites, HostLeft(s) PROVE HostRoles'
  <2>1. rolePerms' = rolePerms /\ peers'[Host] = Restrict(peers[Host], DOMAIN peers[Host] \ {s})
    BY <1>1, <1>5 DEF HostLeft
  <2> QED
    BY <2>1 DEF HostRoles, Restrict
<1>6. ASSUME NEW s \in Sites, GuestEvent(s) PROVE HostRoles'
  <2>1. s # Host
    BY <1>1
  <2>2. /\ rolePerms' = rolePerms \/ \E p : rolePerms' = [rolePerms EXCEPT ![s] = p]
        /\ peers' = peers \/ \E p : peers' = [peers EXCEPT ![s] = p]
    BY <1>6 DEF GuestEvent, GuestWelcome, GuestSkips, GuestOp, GuestAck, GuestCursor, GuestRoster,
                GuestFileSaved, GuestDisconnected, memberVars
  <2> QED
    BY <1>1, <2>1, <2>2 DEF HostRoles
<1>7. ASSUME UserAction PROVE UNCHANGED <<peers, rolePerms>>
  <2>1. ASSUME NEW n, NEW u, NEW c, NEW capture, NEW kind, KeyEvent(n, u, c, capture, kind)
        PROVE  UNCHANGED <<peers, rolePerms>>
    BY <2>1 DEF KeyEvent, memberVars
  <2>2. ASSUME NEW n \in Nodes, Edit(n) \/ Move(n) \/ DeferredEdit(n) \/ SwitchTab(n) \/ Save(n)
        PROVE  UNCHANGED <<peers, rolePerms>>
    BY <2>1, <2>2 DEF Edit, Move, DeferredEdit, SwitchTab, Save, memberVars
  <2> QED
    BY <1>7, <2>1, <2>2 DEF UserAction, Undo, TogglePerm, RequestRole, memberVars
<1>8. ASSUME NEW s \in Sites, HostOp(s) \/ HostCursor(s) \/ ReaderEof(s) \/ GuestExit(s) \/
             ConnectionLost(s)
      PROVE UNCHANGED <<peers, rolePerms>>
  BY <1>8 DEF HostOp, HostCursor, ReaderEof, GuestExit, ConnectionLost, memberVars
<1>9. Connect \/ HostWriter \/ UNCHANGED vars => UNCHANGED <<peers, rolePerms>>
  BY DEF Connect, HostWriter, memberVars, vars
<1>10. ASSUME NEW s \in Sites, HostEvent(s) PROVE HostRoles'
  BY <1>2, <1>3, <1>4, <1>5, <1>8, <1>10 DEF HostEvent
<1>11. ASSUME NEW s \in Sites, ReaderEof(s) \/ GuestExit(s) \/ ConnectionLost(s) PROVE HostRoles'
  BY <1>2, <1>8, <1>11
<1> HIDE DEF HostRoles
<1> QED
  BY <1>2, <1>6, <1>7, <1>9, <1>10, <1>11 DEF Next

\* The queues and the wires stay in step.
LEMMA StepFlight ==
  ASSUME EveryoneMayWrite, Typed, Documents, Membership, Flight, [Next]_vars
  PROVE  Flight'
<1>1. HostRoles'
  BY StepHostRoles DEF Flight
<1>2. CASE UNCHANGED vars
  <2>1. ASSUME NEW s \in Sites PROVE FlightOf(s)'
    <3>1. /\ inflight' = inflight /\ localClock' = localClock /\ toGuest' = toGuest
          /\ toHost' = toHost /\ nextSiteId' = nextSiteId /\ linkUp' = linkUp /\ phase' = phase
      BY <1>2 DEF vars, netVars, memberVars, opVars
    <3>2. FlightOf(s) /\ PhaseStep(s)
      BY <3>1 DEF Flight, PhaseStep
    <3> QED
      BY <3>1, <3>2, FlightKept
  <2> QED
    BY <1>1, <2>1 DEF Flight
<1>3. ASSUME Next PROVE \A s \in Sites : FlightOf(s)'
  BY <1>3, ConnectionFlight, UserActionFlight, HostEventFlight, GuestEventFlight DEF Next
<1> QED
  BY <1>1, <1>2, <1>3 DEF Flight

\* What a joined guest has in flight is, entry for entry, what the acks on their
\* way to it and the edits on their way to the host account for: the retain of
\* the Ack arm only ever drops the acknowledged edit.  A role that may not write
\* is left out: its refused writes are neither relayed nor acknowledged.
THEOREM InflightAlwaysMatchesWire ==
  ASSUME EveryoneMayWrite
  PROVE  Spec => []InflightMatchesWire
<1> DEFINE I == Typed /\ Documents /\ Membership /\ Flight
<1>1. Init => I
  BY InitTyped, InitDocuments, InitMembership, InitFlight
<1>2. I /\ [Next]_vars => I'
  BY StepTyped, StepDocuments, StepMembership, StepFlight
<1>3. I => InflightMatchesWire
  BY DEF Flight, FlightOf, Flown, InflightMatchesWire
<1> QED
  BY <1>1, <1>2, <1>3, PTL DEF Spec
-----------------------------------------------------------------------------
(* The guests' edits: the host's log, and what a channel delivers of it.    *)

Delivers(m) == m.type = "Ack" \/ (m.type = "Op" /\ m.site # Host)
Item(s, m)  == <<IF m.type = "Ack" THEN s ELSE m.site, m.clock>>
Deliveries(s, q) ==
    FoldLeft(LAMBDA got, m : IF Delivers(m) THEN Append(got, Item(s, m)) ELSE got, <<>>, q)
Edits == Nodes \X Nat

Delivering == INSTANCE FoldFacts WITH
    Op <- LAMBDA s, got, m : IF Delivers(m) THEN Append(got, Item(s, m)) ELSE got
Choosing == INSTANCE FoldFacts WITH
    Op <- LAMBDA k, kept, e : IF e[1] # k THEN Append(kept, e) ELSE kept

\* Both are folds the lemmas are about.
LEMMA DeliveriesFold ==
  ASSUME NEW s, NEW q
  PROVE  Deliveries(s, q) = Delivering!Fold(s, <<>>, q)
  BY DEF Deliveries, FoldLeft, MapThenFoldSet, Max,
         Delivering!Fold, Delivering!Iterates, Delivering!Top

\* The guests' part of a log.
LEMMA ByGuestsFolds == ASSUME NEW q PROVE ByGuests(q) = Choosing!Fold(Host, <<>>, q)
  BY DEF ByGuests, FoldLeft, MapThenFoldSet, Max,
         Choosing!Fold, Choosing!Iterates, Choosing!Top

\* An entry of the log that is the host's is not in the guests' part, any other is.
LEMMA ByGuestsAppend ==
  ASSUME NEW q \in Seq(Edits), NEW e \in Edits
  PROVE  ByGuests(Append(q, e)) = IF e[1] # Host THEN Append(ByGuests(q), e) ELSE ByGuests(q)
  BY ByGuestsFolds, Choosing!FoldAppend

\* The guests' part is a log, and empty for an empty log.
LEMMA ByGuestsTyped ==
  /\ ByGuests(<<>>) = <<>>
  /\ \A q \in Seq(Edits) : ByGuests(q) \in Seq(Edits)
<1>1. ByGuests(<<>>) = <<>>
  BY ByGuestsFolds, Choosing!FoldEmpty
<1>2. ASSUME NEW q \in Seq(Edits) PROVE ByGuests(q) \in Seq(Edits)
  <2>1. <<>> \in Seq(Edits)
    OBVIOUS
  <2>2. \A kept \in Seq(Edits), e \in Edits :
            (IF e[1] # Host THEN Append(kept, e) ELSE kept) \in Seq(Edits)
    OBVIOUS
  <2>3. Choosing!Fold(Host, <<>>, q) \in Seq(Edits)
    BY <1>2, <2>1, <2>2, Choosing!FoldKeeps
  <2> QED
    BY <2>3, ByGuestsFolds
<1> QED
  BY <1>1, <1>2

\* Channels whose edits and acknowledgements are what they should be.
Deliverable(q) ==
    Channel(q) /\ \A m \in ToSet(q) : Delivers(m) =>
        m.clock \in Nat /\ (m.type = "Op" => m.site \in Nodes)
Joined(s, q, r) ==
    /\ Deliveries(s, q) \in Seq(Edits)
    /\ Deliveries(s, q \o r) = Deliveries(s, q) \o Deliveries(s, r)
Collection(s, S) ==
    Delivering!Collects(s, S, {m \in S : Delivers(m)}, [m \in S |-> Item(s, m)], Edits)

\* Deliveries collect.
LEMMA DeliveriesCollect ==
  ASSUME NEW s \in Sites, NEW S,
         \A m \in S : Delivers(m) => m.clock \in Nat /\ (m.type = "Op" => m.site \in Nodes)
  PROVE  Collection(s, S)
<1>1. s \in Nodes
  BY NodesAndSites
<1>2. ASSUME NEW m \in S, Delivers(m) PROVE Item(s, m) \in Edits
  BY <1>1, <1>2 DEF Item, Edits, Delivers
<1> QED
  BY <1>2 DEF Collection, Delivering!Collects

\* One stretch of a channel delivers after the other.
LEMMA DeliveriesJoin ==
  ASSUME NEW s \in Sites, NEW q, NEW r, Deliverable(q), Deliverable(r)
  PROVE  Joined(s, q, r)
<1> DEFINE S == ToSet(q) \union ToSet(r)
           K == {m \in S : Delivers(m)}
           F == [m \in S |-> Item(s, m)]
<1>1. q \in Seq(S) /\ r \in Seq(S) /\ <<>> \in Seq(Edits)
  BY DEF Deliverable, Channel
<1>2. Delivering!Collects(s, S, K, F, Edits)
  BY DeliveriesCollect DEF Deliverable, Collection
<1> HIDE DEF S, K, F
<1>3. Delivering!Fold(s, <<>>, q) \in Seq(Edits)
  BY <1>1, <1>2, Delivering!CollectionAppends
<1>4. Delivering!Fold(s, <<>>, q \o r) = Delivering!Fold(s, Delivering!Fold(s, <<>>, q), r)
  BY <1>1, Delivering!FoldConcat
<1>5. Delivering!Fold(s, Delivering!Fold(s, <<>>, q), r) =
         Delivering!Fold(s, <<>>, q) \o Delivering!Fold(s, <<>>, r)
  BY <1>1, <1>2, <1>3, Delivering!CollectionAppends
<1> QED
  BY <1>3, <1>4, <1>5, DeliveriesFold DEF Joined

\* What a frame adds to the deliveries.
LEMMA DeliveriesSend ==
  ASSUME NEW s, NEW q, Channel(q), NEW m
  PROVE  Deliveries(s, Append(q, m)) =
            IF Delivers(m) THEN Append(Deliveries(s, q), Item(s, m)) ELSE Deliveries(s, q)
<1> DEFINE S == ToSet(q) \union {m}
<1>1. q \in Seq(S) /\ m \in S
  BY DEF Channel
<1> HIDE DEF S
<1>2. Delivering!Fold(s, <<>>, Append(q, m)) =
         IF Delivers(m) THEN Append(Delivering!Fold(s, <<>>, q), Item(s, m))
         ELSE Delivering!Fold(s, <<>>, q)
  BY <1>1, Delivering!FoldAppend
<1> QED
  BY <1>2, DeliveriesFold

\* Nothing is delivered by an empty channel.
LEMMA DeliveriesEmpty == ASSUME NEW s PROVE Deliveries(s, <<>>) = <<>>
  BY DeliveriesFold, Delivering!FoldEmpty

\* What receiving a frame takes from the deliveries.
LEMMA DeliveriesReceive ==
  ASSUME NEW s \in Sites, NEW q, Deliverable(q), q # <<>>
  PROVE  /\ Deliveries(s, Tail(q)) \in Seq(Edits)
         /\ Deliveries(s, q) = IF Delivers(Head(q))
                               THEN <<Item(s, Head(q))>> \o Deliveries(s, Tail(q))
                               ELSE Deliveries(s, Tail(q))
<1> DEFINE S == ToSet(q)
           K == {m \in S : Delivers(m)}
           F == [m \in S |-> Item(s, m)]
           none == <<>>
           first == IF Delivers(Head(q)) THEN Append(none, Item(s, Head(q))) ELSE none
<1>1. q \in Seq(S) /\ Tail(q) \in Seq(S) /\ Head(q) \in S /\ none \in Seq(Edits)
  <2>1. q \in Seq(S)
    BY DEF Deliverable, Channel
  <2> HIDE DEF S
  <2> QED
    BY <2>1
<1>2. Delivering!Collects(s, S, K, F, Edits)
  BY DeliveriesCollect DEF Deliverable, Collection
<1>3. Delivers(Head(q)) => Item(s, Head(q)) \in Edits
  BY <1>1, <1>2 DEF Delivering!Collects
<1>4. first \in Seq(Edits)
  <2> HIDE DEF none
  <2> QED
    BY <1>1, <1>3
<1>5. Append(none, Item(s, Head(q))) = <<Item(s, Head(q))>>
  OBVIOUS
<1> HIDE DEF S, K, F, none
<1>6. Delivering!Fold(s, none, q) = Delivering!Fold(s, first, Tail(q))
  BY <1>1, Delivering!FoldHead
<1> HIDE DEF first
<1>7. /\ Delivering!Fold(s, <<>>, Tail(q)) \in Seq(Edits)
      /\ Delivering!Fold(s, first, Tail(q)) = first \o Delivering!Fold(s, <<>>, Tail(q))
  <2> DEFINE r == Tail(q)
  <2>1. r \in Seq(S)
    BY <1>1
  <2> HIDE DEF r
  <2>2. /\ Delivering!Fold(s, <<>>, r) \in Seq(Edits)
        /\ Delivering!Fold(s, first, r) = first \o Delivering!Fold(s, <<>>, r)
    BY <2>1, <1>2, <1>4, Delivering!CollectionAppends
  <2> QED
    BY <2>2 DEF r
<1>8. none \o Deliveries(s, Tail(q)) = Deliveries(s, Tail(q))
  BY <1>7, DeliveriesFold DEF none
<1>9. Deliveries(s, q) = first \o Deliveries(s, Tail(q))
  BY <1>6, <1>7, DeliveriesFold DEF none
<1> QED
  BY <1>5, <1>7, <1>8, <1>9, DeliveriesFold DEF first

-----------------------------------------------------------------------------
\* What a guest was and will be given continues the order from where it entered,
\* to its end as long as the connection lasts.
Follows(order, up, at, got) ==
    /\ at \in Nat /\ at + Len(got) <= Len(order)
    /\ \A i \in 1 .. Len(got) : got[i] = order[at + i]
    /\ up => at + Len(got) = Len(order)

\* Entering at the end of the order.
LEMMA FollowsFromEnd ==
  ASSUME NEW order \in Seq(Edits), NEW up
  PROVE  Follows(order, up, Len(order), <<>>)
<1> DEFINE none == <<>>
<1>1. Len(order) \in Nat /\ Len(none) = 0
  OBVIOUS
<1> HIDE DEF none
<1>2. Follows(order, up, Len(order), none)
  BY <1>1 DEF Follows
<1> QED
  BY <1>2 DEF none

\* A new edit, delivered.
LEMMA FollowsDelivered ==
  ASSUME NEW order \in Seq(Edits), NEW at, NEW got \in Seq(Edits), Follows(order, TRUE, at, got),
         NEW e \in Edits, NEW up
  PROVE  Follows(Append(order, e), up, at, Append(got, e))
<1> DEFINE o == Append(order, e)
           g == Append(got, e)
<1>1. /\ Len(o) = Len(order) + 1 /\ o[Len(order) + 1] = e /\ Len(order) \in Nat
      /\ \A i \in 1 .. Len(order) : o[i] = order[i]
      /\ Len(g) = Len(got) + 1 /\ g[Len(got) + 1] = e /\ Len(got) \in Nat
      /\ \A i \in 1 .. Len(got) : g[i] = got[i]
  OBVIOUS
<1> HIDE DEF o, g
<1>2. at \in Nat /\ at + Len(got) = Len(order) /\ \A i \in 1 .. Len(got) : got[i] = order[at + i]
  BY DEF Follows
<1>3. ASSUME NEW i \in 1 .. Len(g) PROVE g[i] = o[at + i]
  <2>1. Len(got) \in Nat /\ Len(g) = Len(got) + 1
    BY <1>1
  <2>2. i = Len(got) + 1 \/ i \in 1 .. Len(got)
    BY <2>1
  <2>3. CASE i = Len(got) + 1
    <3>1. at + i = Len(order) + 1
      BY ONLY <1>2, <2>1, <2>3
    <3> QED
      BY <1>1, <2>3, <3>1
  <2>4. CASE i \in 1 .. Len(got)
    <3>1. at + i \in 1 .. Len(order)
      BY <1>1, <1>2, <2>4
    <3> QED
      BY <1>1, <1>2, <2>4, <3>1
  <2> QED
    BY <2>2, <2>3, <2>4
<1>4. at + Len(g) = Len(o)
  BY <1>1, <1>2
<1>5. Len(o) \in Nat
  BY <1>1
<1>6. Follows(o, up, at, g)
  BY <1>2, <1>3, <1>4, <1>5 DEF Follows
<1> QED
  BY <1>6 DEF o, g

\* A new edit that a broken connection does not carry.
LEMMA FollowsBehind ==
  ASSUME NEW order \in Seq(Edits), NEW up, NEW at, NEW got \in Seq(Edits),
         Follows(order, up, at, got), NEW e \in Edits
  PROVE  Follows(Append(order, e), FALSE, at, got)
<1> DEFINE o == Append(order, e)
<1>1. /\ Len(o) = Len(order) + 1 /\ Len(order) \in Nat /\ Len(got) \in Nat
      /\ \A i \in 1 .. Len(order) : o[i] = order[i]
  OBVIOUS
<1> HIDE DEF o
<1>2. at \in Nat /\ at + Len(got) <= Len(order)
      /\ \A i \in 1 .. Len(got) : got[i] = order[at + i]
  BY DEF Follows
<1>3. ASSUME NEW i \in 1 .. Len(got) PROVE got[i] = o[at + i]
  <2>1. at + i \in 1 .. Len(order)
    BY <1>1, <1>2
  <2> QED
    BY <1>1, <1>2, <2>1
<1>4. at + Len(got) <= Len(o)
  BY <1>1, <1>2
<1>5. Follows(o, FALSE, at, got)
  BY <1>2, <1>3, <1>4 DEF Follows
<1> QED
  BY <1>5 DEF o

\* A part of it that a broken connection still carries.
LEMMA FollowsCut ==
  ASSUME NEW order \in Seq(Edits), NEW up, NEW at, NEW a \in Seq(Edits), NEW b \in Seq(Edits),
         Follows(order, up, at, a \o b)
  PROVE  Follows(order, FALSE, at, a)
<1> DEFINE both == a \o b
<1>1. /\ Len(both) = Len(a) + Len(b) /\ Len(a) \in Nat /\ Len(b) \in Nat /\ Len(order) \in Nat
      /\ \A i \in 1 .. Len(a) : both[i] = a[i]
  OBVIOUS
<1>2. at \in Nat /\ at + Len(both) <= Len(order)
      /\ \A i \in 1 .. Len(both) : both[i] = order[at + i]
  BY DEF Follows
<1> HIDE DEF both
<1>3. \A i \in 1 .. Len(a) : a[i] = order[at + i]
  <2>1. \A i \in 1 .. Len(a) : i \in 1 .. Len(both)
    BY <1>1
  <2> QED
    BY <1>1, <1>2, <2>1
<1>4. at + Len(a) <= Len(order)
  BY <1>1, <1>2
<1> QED
  BY <1>2, <1>3, <1>4 DEF Follows

\* A step that only ends connections.
LEMMA FollowsLonger ==
  ASSUME NEW order, NEW up, NEW at, NEW got, Follows(order, up, at, got), NEW still, still => up
  PROVE  Follows(order, still, at, got)
  BY DEF Follows

\* The next edit a guest is given is the next one of the order.
LEMMA FollowsNext ==
  ASSUME NEW order \in Seq(Edits), NEW up, NEW at, NEW got \in Seq(Edits), NEW e \in Edits,
         NEW rest \in Seq(Edits), Follows(order, up, at, got \o (<<e>> \o rest))
  PROVE  /\ Follows(order, up, at, Append(got, e) \o rest)
         /\ at + Len(got) < Len(order) /\ order[at + Len(got) + 1] = e
<1> DEFINE one  == <<e>>
           tail == one \o rest
           all  == got \o tail
<1>1. one \in Seq(Edits) /\ Len(one) = 1 /\ one[1] = e /\ Append(got, e) = got \o one
  BY AppendIsConcat
<1> HIDE DEF one
<1>2. tail \in Seq(Edits) /\ Len(tail) = 1 + Len(rest) /\ tail[1] = e /\ Len(rest) \in Nat
  BY <1>1
<1>3. all = Append(got, e) \o rest
  BY <1>1, ConcatAssociative, SMTT(30)
<1> HIDE DEF tail
<1>4. /\ Len(all) = Len(got) + Len(tail) /\ Len(got) \in Nat /\ Len(order) \in Nat
      /\ all[Len(got) + 1] = tail[1]
  <2>0. ASSUME NEW b \in Seq(Edits)
        PROVE  /\ Len(got \o b) = Len(got) + Len(b)
               /\ \A i \in 1 .. Len(got) + Len(b) : (got \o b)[i] =
                     IF i <= Len(got) THEN got[i] ELSE b[i - Len(got)]
    BY ConcatProperties
  <2>1. /\ Len(all) = Len(got) + Len(tail)
        /\ \A i \in 1 .. Len(got) + Len(tail) : all[i] =
               IF i <= Len(got) THEN got[i] ELSE tail[i - Len(got)]
    BY <1>2, <2>0
  <2>2. Len(got) \in Nat /\ Len(order) \in Nat
    OBVIOUS
  <2>3. Len(got) + 1 \in 1 .. Len(got) + Len(tail) /\ ~(Len(got) + 1 <= Len(got))
        /\ Len(got) + 1 - Len(got) = 1
    BY <1>2, <2>2
  <2> HIDE DEF all
  <2> QED
    BY <2>1, <2>2, <2>3
<1>5. /\ at \in Nat /\ at + Len(all) <= Len(order)
      /\ \A i \in 1 .. Len(all) : all[i] = order[at + i]
  BY DEF Follows, one, tail
<1>6. Follows(order, up, at, all)
  BY DEF one, tail
<1> HIDE DEF all
<1>7. Len(got) + 1 \in 1 .. Len(all) /\ at + (Len(got) + 1) = at + Len(got) + 1
  BY <1>2, <1>4, <1>5
<1>8. at + Len(got) < Len(order)
  BY <1>2, <1>4, <1>5
<1>9. order[at + Len(got) + 1] = e
  BY <1>2, <1>4, <1>5, <1>7
<1> QED
  BY <1>3, <1>6, <1>8, <1>9

-----------------------------------------------------------------------------
(* Every guest follows the host's order.                                   *)

EntryOf(s, w) == IF w = 0 THEN serverClock[s] ELSE toGuest[s][w].clock
GivenTo(s, w) == IF w = 0 THEN ByGuests(seen[s]) ELSE <<>>
Tracks(s) ==
    \A w \in Starts(s) :
        Follows(ByGuests(log), s \in linkUp, EntryOf(s, w),
                GivenTo(s, w) \o Deliveries(s, After(toGuest[s], w)))
Entered(s) ==
    /\ s >= nextSiteId => phase[s] = "idle"
    /\ phase[s] \in {"idle", "connecting"} => serverClock[s] = NoSession /\ seen[s] = <<>>
    /\ phase[s] = "joined" => serverClock[s] \in Nat
Logs == /\ log \in Seq(Edits) /\ seen \in [Sites -> Seq(Edits)]
        /\ serverClock[Host] = Len(ByGuests(log))
Ordered == Logs /\ \A s \in Sites : Entered(s) /\ Tracks(s)

\* What is on a guest's channel can be delivered, from wherever it starts.
LEMMA OrderFacts ==
  ASSUME Typed, Documents, Logs, NEW s \in Sites
  PROVE  /\ Channel(toGuest[s]) /\ Deliverable(toGuest[s])
         /\ ByGuests(log) \in Seq(Edits) /\ ByGuests(seen[s]) \in Seq(Edits)
         /\ s \in Nodes /\ s # Host
         /\ \A w \in Starts(s) :
                /\ Channel(After(toGuest[s], w)) /\ Deliverable(After(toGuest[s], w))
                /\ GivenTo(s, w) \in Seq(Edits)
                /\ Deliveries(s, After(toGuest[s], w)) \in Seq(Edits)
<1>1. Channel(toGuest[s]) /\ Deliverable(toGuest[s])
  BY DEF Typed, GuestChannels, Documents, GuestDocs, GuestDoc, EditFrame, Deliverable, Delivers
<1>2. ByGuests(log) \in Seq(Edits) /\ ByGuests(seen[s]) \in Seq(Edits)
  BY ByGuestsTyped DEF Logs
<1>3. s \in Nodes /\ s # Host
  BY NodesAndSites
<1>4. ASSUME NEW w \in Starts(s)
      PROVE  /\ Channel(After(toGuest[s], w)) /\ Deliverable(After(toGuest[s], w))
             /\ GivenTo(s, w) \in Seq(Edits)
             /\ Deliveries(s, After(toGuest[s], w)) \in Seq(Edits)
  <2> DEFINE q == toGuest[s]
             S == ToSet(q)
             r == After(q, w)
  <2>1. q \in Seq(S) /\ w \in 0 .. Len(q)
    BY <1>1 DEF Channel, Starts
  <2>2. r \in Seq(S)
    <3> HIDE DEF q, S
    <3> QED
      BY <2>1, AfterFrames
  <2> HIDE DEF r
  <2>3. Channel(r) /\ ToSet(r) \subseteq S
    BY <2>2, SeqIsChannel
  <2>4. Deliverable(r)
    BY <1>1, <2>3 DEF Deliverable
  <2>5. GivenTo(s, w) \in Seq(Edits)
    <3>1. <<>> \in Seq(Edits)
      OBVIOUS
    <3> QED
      BY <1>2, <3>1 DEF GivenTo
  <2>6. Deliveries(s, r) \in Seq(Edits)
    BY <2>4, DeliveriesJoin DEF Joined
  <2> QED
    BY <2>3, <2>4, <2>5, <2>6 DEF r
<1> QED
  BY <1>1, <1>2, <1>3, <1>4

\* A guest that a step leaves alone.
LEMMA TracksKept ==
  ASSUME NEW s, Tracks(s), ByGuests(log') = ByGuests(log), ByGuests(seen'[s]) = ByGuests(seen[s]),
         serverClock'[s] = serverClock[s], phase'[s] = phase[s], toGuest'[s] = toGuest[s],
         s \in linkUp' => s \in linkUp
  PROVE  Tracks(s)'
<1>1. Starts(s)' = Starts(s)
  BY DEF Starts
<1>2. ASSUME NEW w \in Starts(s)
      PROVE  EntryOf(s, w)' = EntryOf(s, w) /\ GivenTo(s, w)' = GivenTo(s, w)
  BY DEF EntryOf, GivenTo
<1>3. ASSUME NEW w \in Starts(s)
      PROVE  Follows(ByGuests(log'), s \in linkUp', EntryOf(s, w)',
                     GivenTo(s, w)' \o Deliveries(s, After(toGuest'[s], w)))
  <2>1. Follows(ByGuests(log), s \in linkUp, EntryOf(s, w),
                GivenTo(s, w) \o Deliveries(s, After(toGuest[s], w)))
    BY DEF Tracks
  <2>2. Follows(ByGuests(log), s \in linkUp', EntryOf(s, w),
                GivenTo(s, w) \o Deliveries(s, After(toGuest[s], w)))
    BY <2>1 DEF Follows
  <2> QED
    BY <1>2, <2>2
<1> QED
  BY <1>1, <1>3 DEF Tracks

\* A guest that is not, or no longer, in the session.
LEMMA TracksNothing ==
  ASSUME NEW s, phase'[s] \notin {"connecting", "joined"}
  PROVE  Tracks(s)'
  BY DEF Tracks, Starts

\* A guest that is sent a frame that carries no edit of a guest.
LEMMA TracksSend ==
  ASSUME Typed, Documents, Logs, NEW s \in Sites, Tracks(s), NEW m, ~Delivers(m),
         m.type = "Welcome" => m.clock = Len(ByGuests(log)),
         toGuest'[s] = Append(toGuest[s], m),
         ByGuests(log') = ByGuests(log), ByGuests(seen'[s]) = ByGuests(seen[s]),
         serverClock'[s] = serverClock[s], phase'[s] = phase[s], s \in linkUp' => s \in linkUp
  PROVE  Tracks(s)'
<1> DEFINE order == ByGuests(log)
<1>0. Channel(toGuest[s]) /\ order \in Seq(Edits)
  BY OrderFacts
<1>1. ASSUME NEW w \in Starts(s)'
      PROVE  Follows(order, s \in linkUp', EntryOf(s, w)',
                     GivenTo(s, w)' \o Deliveries(s, After(toGuest'[s], w)))
  <2>1. SentStart(s, m, w)
    BY <1>0, StartsSend
  <2>2. CASE /\ w \in Starts(s) /\ (w # 0 => toGuest'[s][w] = toGuest[s][w])
             /\ After(toGuest'[s], w) = Append(After(toGuest[s], w), m)
    <3>1. Channel(After(toGuest[s], w))
      BY <2>2, OrderFacts
    <3>2. Deliveries(s, Append(After(toGuest[s], w), m)) = Deliveries(s, After(toGuest[s], w))
      BY <3>1, DeliveriesSend
    <3>3. Follows(order, s \in linkUp, EntryOf(s, w),
                  GivenTo(s, w) \o Deliveries(s, After(toGuest[s], w)))
      BY <2>2 DEF Tracks
    <3>4. EntryOf(s, w)' = EntryOf(s, w) /\ GivenTo(s, w)' = GivenTo(s, w)
      BY <2>2 DEF EntryOf, GivenTo
    <3> QED
      BY <2>2, <3>2, <3>3, <3>4, FollowsLonger
  <2>3. CASE /\ w # 0 /\ m.type = "Welcome" /\ toGuest'[s][w] = m
             /\ After(toGuest'[s], w) = <<>>
    <3> DEFINE none == <<>>
    <3>1. EntryOf(s, w)' = Len(order) /\ GivenTo(s, w)' = none
      BY <2>3 DEF EntryOf, GivenTo
    <3>2. none \o none = none
      OBVIOUS
    <3> HIDE DEF none, order
    <3>3. Deliveries(s, After(toGuest'[s], w)) = none
      BY <2>3, DeliveriesEmpty DEF none
    <3>4. Follows(order, s \in linkUp', Len(order), none)
      BY <1>0, FollowsFromEnd DEF none
    <3> QED
      BY <3>1, <3>2, <3>3, <3>4
  <2> QED
    BY <2>1, <2>2, <2>3 DEF SentStart
<1> QED
  BY <1>1 DEF Tracks

\* A guest when the host takes another edit into the order: it is sent it (its
\* own as an acknowledgement), unless its connection is gone.
LEMMA TracksEdit ==
  ASSUME Typed, Documents, Logs, NEW s \in Sites, Tracks(s), NEW m, Delivers(m), m.type # "Welcome",
         NEW e \in Edits, Item(s, m) = e, ByGuests(log') = Append(ByGuests(log), e),
         toGuest'[s] = IF s \in linkUp THEN Append(toGuest[s], m) ELSE toGuest[s],
         seen'[s] = seen[s], serverClock'[s] = serverClock[s], phase'[s] = phase[s],
         linkUp' = linkUp
  PROVE  Tracks(s)'
<1> DEFINE order == ByGuests(log)
           given(w) == GivenTo(s, w) \o Deliveries(s, After(toGuest[s], w))
<1>0. Channel(toGuest[s]) /\ order \in Seq(Edits)
  BY OrderFacts
<1>1. ASSUME NEW w \in Starts(s)
      PROVE  /\ given(w) \in Seq(Edits) /\ GivenTo(s, w) \in Seq(Edits)
             /\ Deliveries(s, After(toGuest[s], w)) \in Seq(Edits)
             /\ Follows(order, s \in linkUp, EntryOf(s, w), given(w))
             /\ EntryOf(s, w)' = IF w = 0 THEN EntryOf(s, w) ELSE toGuest'[s][w].clock
             /\ GivenTo(s, w)' = GivenTo(s, w)
  <2>1. GivenTo(s, w) \in Seq(Edits) /\ Deliveries(s, After(toGuest[s], w)) \in Seq(Edits)
    BY OrderFacts
  <2>2. given(w) \in Seq(Edits)
    BY <2>1
  <2> QED
    BY <2>1, <2>2 DEF Tracks, EntryOf, GivenTo
<1> HIDE DEF order
<1>2. CASE s \in linkUp
  <2>1. ASSUME NEW w \in Starts(s)'
        PROVE  Follows(Append(order, e), s \in linkUp', EntryOf(s, w)',
                       GivenTo(s, w)' \o Deliveries(s, After(toGuest'[s], w)))
    <3>1. SentStart(s, m, w)
      BY <1>0, <1>2, StartsSend
    <3>2. /\ w \in Starts(s) /\ (w # 0 => toGuest'[s][w] = toGuest[s][w])
          /\ After(toGuest'[s], w) = Append(After(toGuest[s], w), m)
      BY <3>1 DEF SentStart
    <3>3. Deliveries(s, After(toGuest'[s], w)) = Append(Deliveries(s, After(toGuest[s], w)), e)
      <4>1. Channel(After(toGuest[s], w))
        BY <3>2, OrderFacts
      <4> QED
        BY <3>2, <4>1, DeliveriesSend
    <3>4. GivenTo(s, w) \o Append(Deliveries(s, After(toGuest[s], w)), e) = Append(given(w), e)
      <4> DEFINE a == GivenTo(s, w)
                 b == Deliveries(s, After(toGuest[s], w))
                 one == <<e>>
      <4>1. a \in Seq(Edits) /\ b \in Seq(Edits)
        BY <1>1, <3>2
      <4> HIDE DEF a, b
      <4>2. one \in Seq(Edits) /\ a \o b \in Seq(Edits)
        BY <4>1
      <4>3. Append(b, e) = b \o one /\ Append(a \o b, e) = (a \o b) \o one
        BY <4>1, <4>2, AppendIsConcat
      <4> HIDE DEF one
      <4>4. (a \o b) \o one = a \o (b \o one)
        BY <4>1, <4>2, ConcatAssociative, SMTT(30)
      <4> QED
        BY <4>3, <4>4 DEF a, b
    <3>5. EntryOf(s, w)' = EntryOf(s, w)
      BY <1>1, <3>2 DEF EntryOf
    <3>6. Follows(order, TRUE, EntryOf(s, w), given(w)) /\ given(w) \in Seq(Edits)
      BY <1>1, <1>2, <3>2 DEF Follows
    <3> HIDE DEF given
    <3>7. Follows(Append(order, e), s \in linkUp', EntryOf(s, w), Append(given(w), e))
      BY <1>0, <3>6, FollowsDelivered
    <3>8. GivenTo(s, w)' = GivenTo(s, w)
      BY <1>1, <3>2
    <3> QED
      BY <3>3, <3>4, <3>5, <3>7, <3>8
  <2> QED
    BY <2>1 DEF Tracks, order
<1>3. CASE s \notin linkUp
  <2>1. Starts(s)' = Starts(s) /\ toGuest'[s] = toGuest[s]
    BY <1>3 DEF Starts
  <2>2. ASSUME NEW w \in Starts(s)
        PROVE  Follows(Append(order, e), s \in linkUp', EntryOf(s, w)',
                       GivenTo(s, w)' \o Deliveries(s, After(toGuest'[s], w)))
    <3>1. EntryOf(s, w)' = EntryOf(s, w) /\ GivenTo(s, w)' = GivenTo(s, w)
      BY <1>1, <2>1 DEF EntryOf
    <3>2. Follows(order, s \in linkUp, EntryOf(s, w), given(w)) /\ given(w) \in Seq(Edits)
      BY <1>1
    <3> DEFINE g == given(w)
    <3>3. given(w) = GivenTo(s, w)' \o Deliveries(s, After(toGuest'[s], w))
      BY <2>1, <3>1
    <3> HIDE DEF given
    <3>4. Follows(Append(order, e), FALSE, EntryOf(s, w), g)
      BY <1>0, <3>2, FollowsBehind
    <3>5. Follows(Append(order, e), s \in linkUp', EntryOf(s, w), g)
      BY <1>3, <3>4 DEF Follows
    <3> QED
      BY <3>1, <3>3, <3>5
  <2> QED
    BY <2>1, <2>2 DEF Tracks, order
<1> QED
  BY <1>2, <1>3

\* A guest whose connection breaks keeps following as far as its channel goes.
LEMMA TracksLost ==
  ASSUME Typed, Documents, Logs, NEW s \in Sites, Tracks(s), NEW j \in 0 .. Len(toGuest[s]),
         NEW end, end.type = "Disconnected",
         toGuest'[s] = Append(SubSeq(toGuest[s], 1, j), end),
         log' = log, seen'[s] = seen[s],
         serverClock'[s] = serverClock[s], phase'[s] = phase[s], s \notin linkUp'
  PROVE  Tracks(s)'
<1> DEFINE order == ByGuests(log)
<1>0. Channel(toGuest[s]) /\ order \in Seq(Edits) /\ ~Delivers(end)
  BY OrderFacts DEF Delivers
<1>1. ASSUME NEW w \in Starts(s)'
      PROVE  Follows(order, FALSE, EntryOf(s, w)',
                     GivenTo(s, w)' \o Deliveries(s, After(toGuest'[s], w)))
  <2>1. w \in Starts(s) /\ (w # 0 => toGuest'[s][w] = toGuest[s][w])
    BY <1>0, StartsLost
  <2>0. CutShort(s, end, w)
    BY <1>0, StartsLost
  <2>2. PICK kept, lost : /\ Channel(kept) /\ Channel(lost)
                          /\ ToSet(kept) \subseteq ToSet(toGuest[s])
                          /\ ToSet(lost) \subseteq ToSet(toGuest[s])
                          /\ After(toGuest[s], w) = kept \o lost
                          /\ After(toGuest'[s], w) = Append(kept, end)
    BY <2>0 DEF CutShort
  <2>3. Deliverable(kept) /\ Deliverable(lost)
    BY <2>2, OrderFacts DEF Deliverable
  <2>4. /\ Deliveries(s, kept) \in Seq(Edits) /\ Deliveries(s, lost) \in Seq(Edits)
        /\ Deliveries(s, kept \o lost) = Deliveries(s, kept) \o Deliveries(s, lost)
    BY <2>3, DeliveriesJoin DEF Joined
  <2>5. Deliveries(s, After(toGuest'[s], w)) = Deliveries(s, kept)
    <3>1. Deliveries(s, Append(kept, end)) = Deliveries(s, kept)
      BY <1>0, <2>2, DeliveriesSend
    <3> QED
      BY <2>2, <3>1
  <2>6. EntryOf(s, w)' = EntryOf(s, w) /\ GivenTo(s, w)' = GivenTo(s, w)
        /\ GivenTo(s, w) \in Seq(Edits)
    BY <2>1, OrderFacts DEF EntryOf, GivenTo
  <2> DEFINE g == GivenTo(s, w)
             a == Deliveries(s, kept)
             b == Deliveries(s, lost)
  <2>7. Follows(order, s \in linkUp, EntryOf(s, w), g \o (a \o b))
    BY <2>1, <2>2, <2>4 DEF Tracks
  <2>8. g \in Seq(Edits) /\ a \in Seq(Edits) /\ b \in Seq(Edits)
    BY <2>4, <2>6
  <2> HIDE DEF g, a, b, order
  <2>9. g \o (a \o b) = (g \o a) \o b /\ g \o a \in Seq(Edits)
    <3>1. (g \o a) \o b = g \o (a \o b)
      BY ONLY <2>8, ConcatAssociative, SMTT(30)
    <3>2. g \o a \in Seq(Edits)
      BY <2>8
    <3> QED
      BY <3>1, <3>2
  <2>10. Follows(order, FALSE, EntryOf(s, w), g \o a)
    BY <1>0, <2>7, <2>8, <2>9, FollowsCut
  <2> QED
    BY <2>5, <2>6, <2>10 DEF g, a
<1> QED
  BY <1>1 DEF Tracks, Follows

\* A connecting guest that skips a frame.
LEMMA TracksSkip ==
  ASSUME Typed, Documents, Logs, NEW s \in Sites, Tracks(s), toGuest[s] # <<>>,
         toGuest'[s] = Tail(toGuest[s]), phase[s] = "connecting", phase'[s] = "connecting",
         log' = log, linkUp' = linkUp
  PROVE  Tracks(s)'
<1>0. Channel(toGuest[s])
  BY OrderFacts
<1>1. ASSUME NEW w \in Starts(s)'
      PROVE  Follows(ByGuests(log), s \in linkUp, EntryOf(s, w)',
                     GivenTo(s, w)' \o Deliveries(s, After(toGuest'[s], w)))
  <2>1. /\ w # 0 /\ w + 1 # 0 /\ w + 1 \in Starts(s)
        /\ toGuest'[s][w] = toGuest[s][w + 1]
        /\ After(toGuest'[s], w) = After(toGuest[s], w + 1)
    BY <1>0, StartsSkip
  <2>2. EntryOf(s, w)' = EntryOf(s, w + 1) /\ GivenTo(s, w)' = GivenTo(s, w + 1)
    BY <2>1 DEF EntryOf, GivenTo
  <2> QED
    BY <2>1, <2>2 DEF Tracks
<1> QED
  BY <1>1 DEF Tracks

\* A guest that reads its Welcome starts where that Welcome was sent.
LEMMA TracksWelcome ==
  ASSUME Typed, Documents, Logs, NEW s \in Sites, Tracks(s), toGuest[s] # <<>>,
         toGuest'[s] = Tail(toGuest[s]), phase[s] = "connecting", phase'[s] = "joined",
         Head(toGuest[s]).type = "Welcome", serverClock'[s] = Head(toGuest[s]).clock,
         seen[s] = <<>>, seen' = seen, log' = log, linkUp' = linkUp
  PROVE  Tracks(s)'
         /\ (Starts(s)' # {} =>
                /\ serverClock'[s] \in Nat /\ serverClock'[s] <= Len(ByGuests(log)))
<1>0. Channel(toGuest[s])
  BY OrderFacts
<1>1. ASSUME NEW w \in Starts(s)'
      PROVE  /\ Follows(ByGuests(log), s \in linkUp, EntryOf(s, w)',
                        GivenTo(s, w)' \o Deliveries(s, After(toGuest'[s], w)))
             /\ serverClock'[s] \in Nat /\ serverClock'[s] <= Len(ByGuests(log))
  <2>1. /\ w = 0 /\ 1 \in Starts(s) /\ toGuest[s][1] = Head(toGuest[s])
        /\ After(toGuest'[s], 0) = After(toGuest[s], 1)
    BY <1>0, StartsWelcome
  <2>2. EntryOf(s, w)' = EntryOf(s, 1) /\ GivenTo(s, w)' = GivenTo(s, 1)
        /\ serverClock'[s] = EntryOf(s, 1)
    BY <2>1, ByGuestsTyped DEF EntryOf, GivenTo
  <2> DEFINE g == GivenTo(s, 1) \o Deliveries(s, After(toGuest[s], 1))
  <2>3. Follows(ByGuests(log), s \in linkUp, EntryOf(s, 1), g)
    BY <2>1 DEF Tracks
  <2>4. Len(g) \in Nat /\ Len(ByGuests(log)) \in Nat
    <3>1. g \in Seq(Edits) /\ ByGuests(log) \in Seq(Edits)
      BY <2>1, OrderFacts
    <3> HIDE DEF g
    <3> QED
      BY <3>1
  <2> HIDE DEF g
  <2>5. EntryOf(s, 1) \in Nat /\ EntryOf(s, 1) <= Len(ByGuests(log))
    BY <2>3, <2>4 DEF Follows
  <2> QED
    BY <2>1, <2>2, <2>3, <2>5 DEF g
<1> QED
  BY <1>1 DEF Tracks

\* A joined guest that handles a frame: an edit it is given is the next one.
LEMMA TracksHandle ==
  ASSUME Typed, Documents, Logs, NEW s \in Sites, Tracks(s), toGuest[s] # <<>>,
         toGuest'[s] = Tail(toGuest[s]), phase[s] = "joined", phase'[s] = "joined",
         ByGuests(seen'[s]) = IF Delivers(Head(toGuest[s]))
                              THEN Append(ByGuests(seen[s]), Item(s, Head(toGuest[s])))
                              ELSE ByGuests(seen[s]),
         log' = log, linkUp' = linkUp, serverClock'[s] = serverClock[s]
  PROVE  /\ Tracks(s)'
         /\ Delivers(Head(toGuest[s])) =>
               LET at == serverClock[s] + Len(ByGuests(seen[s]))
               IN  at < Len(ByGuests(log)) /\ ByGuests(log)[at + 1] = Item(s, Head(toGuest[s]))
<1> DEFINE order == ByGuests(log)
           q     == toGuest[s]
           e     == Item(s, Head(q))
           got   == ByGuests(seen[s])
           rest  == Deliveries(s, Tail(q))
<1>0. /\ Channel(q) /\ Deliverable(q) /\ order \in Seq(Edits) /\ got \in Seq(Edits)
      /\ rest \in Seq(Edits)
      /\ Deliveries(s, q) = IF Delivers(Head(q)) THEN <<e>> \o rest ELSE rest
  <2>1. Channel(q) /\ Deliverable(q) /\ order \in Seq(Edits) /\ got \in Seq(Edits)
    BY OrderFacts
  <2> QED
    BY <2>1, DeliveriesReceive
<1>1. 0 \in Starts(s) /\ After(q, 0) = q
  <2> DEFINE S == ToSet(q)
  <2>1. q \in Seq(S)
    BY <1>0 DEF Channel
  <2>2. After(q, 0) = q
    BY <2>1, AfterEnds
  <2> HIDE DEF S
  <2>3. 0 \in 0 .. Len(q)
    BY <2>1
  <2> QED
    BY <2>2, <2>3 DEF Starts
<1>2. Follows(order, s \in linkUp, serverClock[s], got \o Deliveries(s, q))
  BY <1>1 DEF Tracks, EntryOf, GivenTo
<1>3. \A w \in Starts(s)' : w = 0 /\ After(toGuest'[s], 0) = Tail(q)
  BY <1>0, StartsHandle
<1>4. CASE Delivers(Head(q))
  <2>1. e \in Edits
    <3>1. Head(q) \in ToSet(q) /\ s \in Nodes
      BY <1>0, ReceiveFrame, NodesAndSites
    <3> QED
      BY <1>0, <1>4, <3>1 DEF Deliverable, Item, Edits, Delivers
  <2>2. Follows(order, s \in linkUp, serverClock[s], got \o (<<e>> \o rest))
    BY <1>0, <1>2, <1>4
  <2> DEFINE up == s \in linkUp
             at == serverClock[s]
  <2> HIDE DEF order, e, got, rest, up, at
  <2>3. /\ Follows(order, up, at, Append(got, e) \o rest)
        /\ at + Len(got) < Len(order) /\ order[at + Len(got) + 1] = e
    <3>1. Follows(order, up, at, got \o (<<e>> \o rest))
      BY <2>2 DEF up, at
    <3> QED
      BY <1>0, <2>1, <3>1, FollowsNext
  <2>4. Tracks(s)'
    BY <1>3, <1>4, <2>3 DEF Tracks, EntryOf, GivenTo, order, e, got, rest, up, at
  <2> QED
    BY <2>3, <2>4 DEF order, e, got, at
<1>5. CASE ~Delivers(Head(q))
  <2>1. Follows(order, s \in linkUp, serverClock[s], got \o rest)
    BY <1>0, <1>2, <1>5
  <2> HIDE DEF rest, order
  <2>2. Tracks(s)'
    BY <1>3, <1>5, <2>1 DEF Tracks, EntryOf, GivenTo, rest, order
  <2> QED
    BY <1>5, <2>2
<1> QED
  BY <1>4, <1>5

-----------------------------------------------------------------------------
(* Every step keeps the order, or is a step of the order authority.         *)

OrderStep == [Authority!Next]_(Authority!vars)

\* Steps the order does not see.
LEMMA OrderUnseen ==
  ASSUME ByGuests(log') = ByGuests(log),
         \A s \in Sites : serverClock'[s] = serverClock[s] /\ ByGuests(seen'[s]) = ByGuests(seen[s])
  PROVE  OrderStep
<1>1. /\ [s \in Sites |-> serverClock[s]]' = [s \in Sites |-> serverClock[s]]
      /\ [s \in Sites |-> ByGuests(seen[s])]' = [s \in Sites |-> ByGuests(seen[s])]
  OBVIOUS
<1> QED
  BY <1>1 DEF OrderStep, Authority!vars

\* What a step that sends a frame without a guest's edit has to leave alone.
Undisturbed ==
    /\ log' \in Seq(Edits) /\ ByGuests(log') = ByGuests(log) /\ seen' = seen
    /\ serverClock' = serverClock /\ phase' = phase /\ linkUp' \subseteq linkUp
    /\ nextSiteId' = nextSiteId

\* Such steps keep everything.
LEMMA OrderUndisturbed ==
  ASSUME Typed, Documents, Ordered, Undisturbed,
         toGuest' = toGuest \/ \E m, to : /\ ~Delivers(m) /\ m.type # "Welcome"
                                          /\ toGuest' = Send(toGuest, to, m)
  PROVE  Ordered' /\ OrderStep
<1>1. Logs' /\ OrderStep
  BY OrderUnseen DEF Ordered, Logs, Undisturbed
<1>2. ASSUME NEW s \in Sites PROVE Entered(s)' /\ Tracks(s)'
  <2>1. Entered(s)'
    BY DEF Ordered, Entered, Undisturbed
  <2>2. CASE toGuest'[s] = toGuest[s]
    <3>1. Tracks(s)'
      BY <2>2, TracksKept DEF Ordered, Undisturbed
    <3> QED
      BY <2>1, <3>1
  <2>3. CASE toGuest'[s] # toGuest[s]
    <3>1. PICK m, to : /\ ~Delivers(m) /\ m.type # "Welcome"
                       /\ toGuest' = Send(toGuest, to, m)
      BY <2>3
    <3>2. toGuest'[s] = Append(toGuest[s], m)
      BY <2>3, <3>1 DEF Send
    <3>3. Tracks(s)'
      BY <3>1, <3>2, TracksSend DEF Ordered, Undisturbed
    <3> QED
      BY <2>1, <3>3
  <2> QED
    BY <2>2, <2>3
<1> QED
  BY <1>1, <1>2 DEF Ordered

\* At first the order is empty and nobody is in it.
LEMMA InitOrdered == ASSUME Init PROVE Ordered /\ Authority!Init
<1>1. /\ log = <<>> /\ seen = [s \in Sites |-> <<>>] /\ phase = [s \in Sites |-> "idle"]
      /\ serverClock = [n \in Nodes |-> IF n = Host THEN 0 ELSE NoSession]
  BY DEF Init
<1>2. \A s \in Sites : serverClock[s] = NoSession /\ seen[s] = <<>> /\ phase[s] = "idle"
  BY <1>1, NodesAndSites
<1>3. serverClock[Host] = 0 /\ log = <<>> /\ ByGuests(log) = <<>>
  BY <1>1, NodesAndSites, ByGuestsTyped
<1>4. Logs
  BY <1>1, <1>3 DEF Logs
<1>5. \A s \in Sites : Entered(s) /\ Tracks(s)
  BY <1>2 DEF Entered, Tracks, Starts
<1>6. /\ [s \in Sites |-> serverClock[s]] = [s \in Sites |-> NoSession]
      /\ [s \in Sites |-> ByGuests(seen[s])] = [s \in Sites |-> <<>>]
  BY <1>2, ByGuestsTyped
<1> QED
  BY <1>3, <1>4, <1>5, <1>6 DEF Ordered, Authority!Init

\* Connections and the writer thread.
LEMMA ConnectionOrdered ==
  ASSUME Typed, Documents, Membership, Ordered,
         Connect \/ HostWriter \/ \E s \in Sites : ReaderEof(s) \/ GuestExit(s) \/ ConnectionLost(s)
  PROVE  Ordered' /\ OrderStep
<1>0. Logs /\ \A s \in Sites : Entered(s) /\ Tracks(s)
  BY DEF Ordered
<1>1. CASE Connect
  <2> DEFINE new == nextSiteId
  <2>1. /\ new \in Sites /\ new \in Nat /\ nextSiteId' = new + 1
        /\ linkUp' = linkUp \union {new}
        /\ phase' = [phase EXCEPT ![new] = "connecting"]
        /\ UNCHANGED <<toGuest, log, seen, serverClock>>
    BY <1>1, NodesAndSites DEF Connect, Typed, TypeOK, Sites, opVars, histVars
  <2>2. Logs' /\ OrderStep
    BY <1>0, <2>1, OrderUnseen DEF Logs
  <2>3. ASSUME NEW s \in Sites PROVE Entered(s)' /\ Tracks(s)'
    <3>0. s \in Nat /\ DOMAIN phase = Sites
      BY NodesAndSites DEF Sites, Typed, TypeOK
    <3>1. CASE s = new
      <4>1. toGuest'[s] = <<>> /\ phase'[s] = "connecting" /\ phase[s] = "idle"
        BY <1>0, <2>1, <3>0, <3>1 DEF Membership, MembershipOf, FreshSite, Entered
      <4>2. Starts(s)' = {}
        <5>1. Len(toGuest'[s]) = 0
          BY <4>1
        <5> QED
          BY <4>1, <5>1 DEF Starts
      <4> QED
        BY <1>0, <2>1, <3>0, <3>1, <4>1, <4>2 DEF Tracks, Entered
    <3>2. CASE s # new
      <4>1. phase'[s] = phase[s] /\ (s \in linkUp' => s \in linkUp)
        BY <2>1, <3>0, <3>2
      <4>2. Tracks(s)'
        BY <1>0, <2>1, <4>1, TracksKept
      <4>3. Entered(s)'
        BY <1>0, <2>1, <3>0, <4>1 DEF Entered
      <4> QED
        BY <4>2, <4>3
    <3> QED
      BY <3>1, <3>2
  <2> QED
    BY <2>2, <2>3 DEF Ordered
<1>2. CASE HostWriter
  <2> DEFINE m == Head(hostOut)
  <2>1. m \in ToSet(hostOut)
    BY <1>2, ReceiveFrame DEF HostWriter, Typed, Outgoing
  <2>2. ~Delivers(m) /\ m.type # "Welcome"
    BY <2>1 DEF Typed, Outgoing, Documents, OutDocs, Delivers
  <2>3. toGuest' = Send(toGuest, Sites \ {}, m)
    BY <1>2 DEF HostWriter, Broadcast
  <2>4. Undisturbed
    BY <1>2 DEF HostWriter, Undisturbed, Ordered, Logs, memberVars, opVars, histVars
  <2> HIDE DEF m
  <2> QED
    BY <2>2, <2>3, <2>4, OrderUndisturbed
<1>3. ASSUME NEW x \in Sites, ReaderEof(x) PROVE Ordered' /\ OrderStep
  <2>1. Undisturbed /\ toGuest' = toGuest
    BY <1>3 DEF ReaderEof, Undisturbed, Ordered, Logs, memberVars, opVars, histVars
  <2> QED
    BY <2>1, OrderUndisturbed
<1>4. ASSUME NEW x \in Sites, GuestExit(x) PROVE Ordered' /\ OrderStep
  <2>1. /\ phase' = [phase EXCEPT ![x] = "closed"] /\ linkUp' = linkUp \ {x}
        /\ toGuest' = [toGuest EXCEPT ![x] = <<>>]
        /\ phase[x] # "idle"
        /\ UNCHANGED <<nextSiteId, log, seen, serverClock>>
    BY <1>4 DEF GuestExit, opVars, histVars
  <2>2. Logs' /\ OrderStep
    BY <1>0, <2>1, OrderUnseen DEF Logs
  <2>3. ASSUME NEW s \in Sites PROVE Entered(s)' /\ Tracks(s)'
    <3>0. DOMAIN phase = Sites /\ DOMAIN toGuest = Sites
      BY DEF Typed, TypeOK, GuestChannels
    <3>1. CASE s = x
      <4>1. phase'[s] = "closed"
        BY <2>1, <3>0, <3>1
      <4> QED
        BY <1>0, <2>1, <3>1, <4>1, TracksNothing DEF Entered
    <3>2. CASE s # x
      <4>1. phase'[s] = phase[s] /\ toGuest'[s] = toGuest[s]
        BY <2>1, <3>0, <3>2
      <4>2. Tracks(s)'
        BY <1>0, <2>1, <4>1, TracksKept
      <4> QED
        BY <1>0, <2>1, <4>1, <4>2 DEF Entered
    <3> QED
      BY <3>1, <3>2
  <2> QED
    BY <2>2, <2>3 DEF Ordered
<1>5. ASSUME NEW x \in Sites, ConnectionLost(x) PROVE Ordered' /\ OrderStep
  <2> DEFINE end == [type |-> "Disconnected"]
  <2>1. PICK j \in 0 .. Len(toGuest[x]) :
            toGuest' = [toGuest EXCEPT ![x] = Append(SubSeq(toGuest[x], 1, j), end)]
    BY <1>5 DEF ConnectionLost
  <2>2. /\ linkUp' = linkUp \ {x}
        /\ UNCHANGED <<nextSiteId, phase, log, seen, serverClock>>
    BY <1>5 DEF ConnectionLost, memberVars, opVars, histVars
  <2>3. Logs' /\ OrderStep
    BY <1>0, <2>2, OrderUnseen DEF Logs
  <2>4. end.type = "Disconnected"
    OBVIOUS
  <2> HIDE DEF end
  <2>5. ASSUME NEW s \in Sites PROVE Entered(s)' /\ Tracks(s)'
    <3>0. DOMAIN toGuest = Sites
      BY DEF Typed, TypeOK, GuestChannels
    <3>1. Entered(s)'
      BY <1>0, <2>2 DEF Entered
    <3>2. CASE s = x
      <4>1. toGuest'[s] = Append(SubSeq(toGuest[s], 1, j), end) /\ s \notin linkUp'
            /\ j \in 0 .. Len(toGuest[s])
        BY <2>1, <2>2, <3>0, <3>2
      <4>2. Tracks(s)'
        BY <1>0, <2>2, <2>4, <4>1, TracksLost
      <4> QED
        BY <3>1, <4>2
    <3>3. CASE s # x
      <4>1. toGuest'[s] = toGuest[s] /\ (s \in linkUp' => s \in linkUp)
        BY <2>1, <2>2, <3>0, <3>3
      <4>2. Tracks(s)'
        BY <1>0, <2>2, <4>1, TracksKept
      <4> QED
        BY <3>1, <4>2
    <3> QED
      BY <3>2, <3>3
  <2> QED
    BY <2>3, <2>5 DEF Ordered
<1> QED
  BY <1>1, <1>2, <1>3, <1>4, <1>5

\* What users do: the host's own edits are in the log and not in the guests' part.
LEMMA UserActionOrdered ==
  ASSUME Typed, Documents, Ordered, UserAction
  PROVE  Ordered' /\ OrderStep
<1>0. log \in Seq(Edits)
  BY DEF Ordered, Logs
<1>1. ASSUME NEW n \in Nodes, NEW t, NEW c, NEW capture, NEW kind,
             KeyEvent(n, t, c, capture, kind)
      PROVE  Undisturbed
  <2> DEFINE e == <<Host, localClock[n] + 1>>
  <2>1. /\ log' = log \/ log' = Append(log, e)
        /\ UNCHANGED <<nextSiteId, linkUp, seen, serverClock, phase>>
    BY <1>1 DEF KeyEvent, memberVars
  <2>2. e \in Edits /\ e[1] = Host
    BY NodesAndSites DEF Edits, Typed, TypeOK
  <2> HIDE DEF e
  <2>3. Append(log, e) \in Seq(Edits) /\ ByGuests(Append(log, e)) = ByGuests(log)
    BY <1>0, <2>2, ByGuestsAppend
  <2>4. log' \in Seq(Edits) /\ ByGuests(log') = ByGuests(log)
    BY <1>0, <2>1, <2>3
  <2> QED
    BY <2>1, <2>4 DEF Undisturbed
<1>2. ASSUME NEW n \in Nodes, Edit(n) \/ Move(n) PROVE Undisturbed /\ toGuest' = toGuest
  BY <1>1, <1>2 DEF Edit, Move
<1>3. ASSUME Undo PROVE Undisturbed /\ toGuest' = toGuest
  BY <1>1, <1>3, NodesAndSites DEF Undo
<1>4. ASSUME NEW n \in Nodes, Save(n) PROVE Ordered' /\ OrderStep
  <2> DEFINE m == [type |-> "FileSaved", path |-> active[n], content |-> text[n][active[n]]]
  <2>1. Undisturbed /\ (toGuest' = toGuest \/ toGuest' = Send(toGuest, Sites \ {}, m))
    BY <1>1, <1>4 DEF Save, Broadcast
  <2>2. ~Delivers(m) /\ m.type # "Welcome"
    BY DEF Delivers
  <2> HIDE DEF m
  <2> QED
    BY <2>1, <2>2, OrderUndisturbed
<1>5. ASSUME NEW n \in Nodes, DeferredEdit(n) \/ SwitchTab(n) PROVE Undisturbed /\ toGuest' = toGuest
  BY <1>0, <1>5 DEF DeferredEdit, SwitchTab, Undisturbed, netVars, memberVars, opVars, histVars
<1>6. ASSUME NEW role, NEW perm, TogglePerm(role, perm) PROVE Ordered' /\ OrderStep
  <2> DEFINE m == [type |-> "RoleConfig", perms |-> settings']
  <2>1. toGuest' = Send(toGuest, Sites \ {}, m)
    BY <1>6 DEF TogglePerm, Broadcast
  <2>2. Undisturbed
    BY <1>0, <1>6 DEF TogglePerm, Undisturbed, opVars, histVars
  <2>3. ~Delivers(m) /\ m.type # "Welcome"
    BY DEF Delivers
  <2> HIDE DEF m
  <2> QED
    BY <2>1, <2>2, <2>3, OrderUndisturbed
<1>7. ASSUME NEW s \in Sites, RequestRole(s) PROVE Undisturbed /\ toGuest' = toGuest
  BY <1>0, <1>7 DEF RequestRole, Undisturbed, memberVars, opVars, histVars
<1> QED
  BY <1>2, <1>3, <1>4, <1>5, <1>6, <1>7, OrderUndisturbed DEF UserAction

\* An edit of a guest that the host accepts is the next one of the order.
LEMMA HostOpOrdered ==
  ASSUME Typed, Documents, Ordered, NEW x \in Sites, HostOp(x)
  PROVE  Ordered' /\ OrderStep
<1> DEFINE m   == Head(toHost[x])
           e   == <<m.site, m.clock>>
           ack == [type |-> "Ack", clock |-> m.clock, path |-> m.path]
<1>0. Logs /\ \A s \in Sites : Entered(s) /\ Tracks(s)
  BY DEF Ordered
<1>1. m.type = "Op" /\ m.site = x /\ m.clock \in Nat /\ x \in Nodes /\ x # Host
  BY HostGetsDocs, HostGetsTyped, NodesAndSites DEF HostOp, HostGets, HostDoc, EditFrame
<1>2. UNCHANGED <<nextSiteId, linkUp, phase, seen>>
  BY DEF HostOp, memberVars
<1>3. CASE ~CanWrite(m.site, m.path)
  <2>1. Undisturbed /\ toGuest' = toGuest
    BY <1>0, <1>2, <1>3 DEF HostOp, Undisturbed, Logs
  <2> QED
    BY <2>1, OrderUndisturbed
<1>4. CASE CanWrite(m.site, m.path)
  <2>1. /\ serverClock' = [serverClock EXCEPT ![Host] = serverClock[Host] + 1]
        /\ toGuest' = Send(Broadcast(toGuest, {x}, m), {x}, ack)
        /\ log' = Append(log, e)
    BY <1>1, <1>4 DEF HostOp
  <2>2. e \in Edits /\ e[1] # Host
    BY <1>1 DEF Edits
  <2>3. ack.type = "Ack" /\ ack.clock = m.clock
    OBVIOUS
  <2> HIDE DEF e, ack
  <2>4. /\ log' \in Seq(Edits) /\ ByGuests(log') = Append(ByGuests(log), e)
        /\ ByGuests(log) \in Seq(Edits)
    BY <1>0, <2>1, <2>2, ByGuestsAppend, ByGuestsTyped DEF Logs
  <2>5. Len(Append(ByGuests(log), e)) = Len(ByGuests(log)) + 1
        /\ Append(ByGuests(log), e)[Len(ByGuests(log)) + 1] = e
        /\ Append(ByGuests(log), e) # ByGuests(log)
    <3>1. ASSUME NEW o \in Seq(Edits)
          PROVE  /\ Len(Append(o, e)) = Len(o) + 1 /\ Append(o, e)[Len(o) + 1] = e
                 /\ Len(o) \in Nat
      BY <2>2, AppendProperties
    <3> QED
      BY <2>4, <3>1
  <2>6. serverClock'[Host] = serverClock[Host] + 1
        /\ \A s \in Sites : serverClock'[s] = serverClock[s]
    BY <2>1, NodesAndSites DEF Typed, TypeOK
  <2>7. Logs'
    BY <1>0, <1>2, <2>4, <2>5, <2>6 DEF Logs
  <2>8. OrderStep
    <3> DEFINE o == ByGuests(log')
    <3>1. o[Len(o)] = e /\ o # ByGuests(log)
      BY <2>4, <2>5
    <3>2. /\ [s \in Sites |-> serverClock[s]]' = [s \in Sites |-> serverClock[s]]
          /\ [s \in Sites |-> ByGuests(seen[s])]' = [s \in Sites |-> ByGuests(seen[s])]
      BY <1>2, <2>6
    <3>3. Authority!Sequence(o[Len(o)])
      BY <2>4, <3>1, <3>2 DEF Authority!Sequence
    <3> QED
      BY <3>1, <3>3 DEF OrderStep, Authority!Next
  <2>9. ASSUME NEW s \in Sites PROVE Entered(s)' /\ Tracks(s)'
    <3>1. Entered(s)'
      BY <1>0, <1>2, <2>6 DEF Entered
    <3>2. s \in linkUp => s \in guestTxs
      BY DEF Typed, TypeOK
    <3>3. CASE s = x
      <4>1. toGuest'[s] = IF s \in linkUp THEN Append(toGuest[s], ack) ELSE toGuest[s]
        BY <2>1, <3>2, <3>3 DEF Send, Broadcast
      <4>2. Item(s, ack) = e /\ Delivers(ack) /\ ack.type # "Welcome"
        BY <1>1, <2>3, <3>3 DEF Item, Delivers, e
      <4>3. Tracks(s)'
        BY <1>0, <1>2, <2>2, <2>4, <2>6, <4>1, <4>2, TracksEdit
      <4> QED
        BY <3>1, <4>3
    <3>4. CASE s # x
      <4>1. toGuest'[s] = IF s \in linkUp THEN Append(toGuest[s], m) ELSE toGuest[s]
        BY <2>1, <3>2, <3>4 DEF Send, Broadcast
      <4>2. Item(s, m) = e /\ Delivers(m) /\ m.type # "Welcome"
        BY <1>1 DEF Item, Delivers, e
      <4> HIDE DEF m
      <4>3. Tracks(s)'
        BY <1>0, <1>2, <2>2, <2>4, <2>6, <4>1, <4>2, TracksEdit
      <4> QED
        BY <3>1, <4>3
    <3> QED
      BY <3>3, <3>4
  <2> QED
    BY <2>7, <2>8, <2>9 DEF Ordered
<1> QED
  BY <1>3, <1>4

\* A guest that joins is welcomed at the end of the order.
LEMMA HostJoinOrdered ==
  ASSUME Typed, Documents, Ordered, NEW x \in Sites, HostJoin(x)
  PROVE  Ordered' /\ OrderStep
<1> DEFINE doc     == IF DocFile = Untitled THEN <<>> ELSE text[Host][DocFile]
           welcome == [type |-> "Welcome", doc |-> doc, clock |-> serverClock[Host],
                       peers |-> peers[Host], role |-> DefaultRole, perms |-> rolePerms[Host]]
           joined  == [type |-> "PeerJoined", site |-> x, role |-> DefaultRole]
<1>0. Logs /\ \A s \in Sites : Entered(s) /\ Tracks(s)
  BY DEF Ordered
<1>1. /\ toGuest' = Send(Send(toGuest, {x}, welcome), Sites \ {x}, joined)
      /\ UNCHANGED <<nextSiteId, linkUp, phase, log, seen, serverClock>>
  BY DEF HostJoin, Broadcast, opVars
<1>2. /\ ~Delivers(welcome) /\ welcome.clock = Len(ByGuests(log))
      /\ ~Delivers(joined) /\ joined.type # "Welcome"
  BY <1>0 DEF Delivers, Logs
<1> HIDE DEF welcome, joined
<1>3. Logs' /\ OrderStep
  BY <1>0, <1>1, OrderUnseen DEF Logs
<1>4. ASSUME NEW s \in Sites PROVE Entered(s)' /\ Tracks(s)'
  <2>1. Entered(s)'
    BY <1>0, <1>1 DEF Entered
  <2>2. \/ toGuest'[s] = toGuest[s] \/ toGuest'[s] = Append(toGuest[s], welcome)
        \/ toGuest'[s] = Append(toGuest[s], joined)
    BY <1>1 DEF Send
  <2>3. CASE toGuest'[s] = toGuest[s]
    <3>1. Tracks(s)'
      BY <1>0, <1>1, <2>3, TracksKept
    <3> QED
      BY <2>1, <3>1
  <2>4. CASE toGuest'[s] = Append(toGuest[s], welcome)
    <3>1. Tracks(s)'
      BY <1>0, <1>1, <1>2, <2>4, TracksSend
    <3> QED
      BY <2>1, <3>1
  <2>5. CASE toGuest'[s] = Append(toGuest[s], joined)
    <3>1. Tracks(s)'
      BY <1>0, <1>1, <1>2, <2>5, TracksSend
    <3> QED
      BY <2>1, <3>1
  <2> QED
    BY <2>2, <2>3, <2>4, <2>5
<1> QED
  BY <1>3, <1>4 DEF Ordered

\* The host's main loop.
LEMMA HostEventOrdered ==
  ASSUME Typed, Documents, Ordered, NEW x \in Sites, HostEvent(x)
  PROVE  Ordered' /\ OrderStep
<1>0. Logs
  BY DEF Ordered
<1>1. ASSUME HostCursor(x) PROVE Ordered' /\ OrderStep
  <2>1. Undisturbed /\ toGuest' = toGuest
    BY <1>0, <1>1 DEF HostCursor, Undisturbed, Logs, memberVars, histVars
  <2> QED
    BY <2>1, OrderUndisturbed
<1>2. ASSUME HostRoleRequest(x) PROVE Ordered' /\ OrderStep
  <2> DEFINE h == Head(toHost[x])
             m == [type |-> "PeerRoleChanged", site |-> h.target, role |-> h.role]
  <2>1. Undisturbed /\ (toGuest' = toGuest \/ toGuest' = Send(toGuest, Sites \ {}, m))
    BY <1>0, <1>2 DEF HostRoleRequest, Undisturbed, Logs, opVars, histVars, Broadcast
  <2>2. ~Delivers(m) /\ m.type # "Welcome"
    BY DEF Delivers
  <2> HIDE DEF m
  <2> QED
    BY <2>1, <2>2, OrderUndisturbed
<1>3. ASSUME HostLeft(x) PROVE Ordered' /\ OrderStep
  <2> DEFINE m == [type |-> "PeerLeft", site |-> x]
  <2>1. Undisturbed /\ toGuest' = Send(toGuest, Sites \ {}, m)
    BY <1>0, <1>3 DEF HostLeft, Undisturbed, Logs, histVars, Broadcast
  <2>2. ~Delivers(m) /\ m.type # "Welcome"
    BY DEF Delivers
  <2> HIDE DEF m
  <2> QED
    BY <2>1, <2>2, OrderUndisturbed
<1> QED
  BY <1>1, <1>2, <1>3, HostOpOrdered, HostJoinOrdered DEF HostEvent

\* What an event of one guest needs to show about that guest only.
LEMMA OrderOfOthers ==
  ASSUME Typed, Documents, Ordered, NEW x \in Sites, GuestEvent(x),
         log' = log, seen' \in [Sites -> Seq(Edits)],
         \A s \in Sites : s # x => /\ seen'[s] = seen[s] /\ serverClock'[s] = serverClock[s]
                                   /\ phase'[s] = phase[s],
         serverClock'[Host] = serverClock[Host], Entered(x)', Tracks(x)'
  PROVE  Ordered'
<1>1. /\ toGuest' = [toGuest EXCEPT ![x] = Tail(@)] /\ UNCHANGED <<nextSiteId, linkUp>>
  BY GuestEventFrame
<1>2. ASSUME NEW s \in Sites, s # x PROVE Entered(s)' /\ Tracks(s)'
  <2>1. toGuest'[s] = toGuest[s]
    BY <1>1, <1>2 DEF Typed, GuestChannels
  <2>2. Tracks(s)'
    BY <1>1, <1>2, <2>1, TracksKept DEF Ordered
  <2> QED
    BY <1>1, <1>2, <2>2 DEF Ordered, Entered
<1>3. Logs'
  BY DEF Ordered, Logs
<1> QED
  BY <1>2, <1>3 DEF Ordered

\* A guest's main loop: it enters the order where it was welcomed, and is given
\* the order's edits one after the other.
LEMMA GuestEventOrdered ==
  ASSUME Typed, Membership, Documents, Ordered, NEW x \in Sites, GuestEvent(x)
  PROVE  Ordered' /\ OrderStep
<1> DEFINE q == toGuest[x]
           m == Head(q)
<1>0. /\ Logs /\ Entered(x) /\ Tracks(x) /\ log \in Seq(Edits) /\ seen \in [Sites -> Seq(Edits)]
      /\ \A s \in Sites : ByGuests(seen[s]) \in Seq(Edits)
      /\ x \in Nodes /\ x # Host /\ x \in Nat
      /\ DOMAIN phase = Sites /\ DOMAIN serverClock = Nodes
  <2>1. /\ Logs /\ Entered(x) /\ Tracks(x) /\ log \in Seq(Edits) /\ seen \in [Sites -> Seq(Edits)]
    BY DEF Ordered, Logs
  <2>2. \A s \in Sites : ByGuests(seen[s]) \in Seq(Edits)
    BY <2>1, ByGuestsTyped
  <2>3. x \in Nodes /\ x # Host /\ x \in Nat
    BY NodesAndSites DEF Sites
  <2>4. DOMAIN phase = Sites /\ DOMAIN serverClock = Nodes
    BY DEF Typed, TypeOK
  <2> QED
    BY <2>1, <2>2, <2>3, <2>4
<1>1. /\ q # <<>> /\ toGuest' = [toGuest EXCEPT ![x] = Tail(q)] /\ toGuest'[x] = Tail(q)
      /\ UNCHANGED <<nextSiteId, linkUp>>
  <2>1. q # <<>> /\ toGuest' = [toGuest EXCEPT ![x] = Tail(q)] /\ UNCHANGED <<nextSiteId, linkUp>>
    BY GuestEventFrame
  <2> QED
    BY <2>1 DEF Typed, GuestChannels
<1>2. ~(x >= nextSiteId)
  BY <1>1 DEF Membership, MembershipOf, FreshSite
<1>3. ASSUME GuestWelcome(x), phase' = [phase EXCEPT ![x] = "joined"] PROVE Ordered' /\ OrderStep
  <2>1. /\ phase[x] = "connecting" /\ m.type = "Welcome" /\ phase'[x] = "joined"
        /\ serverClock' = [serverClock EXCEPT ![x] = m.clock]
        /\ UNCHANGED <<log, seen>>
    BY <1>0, <1>3 DEF GuestWelcome, GuestGets
  <2>2. serverClock'[x] = m.clock /\ serverClock[x] = NoSession /\ seen[x] = <<>>
    BY <1>0, <2>1 DEF Entered
  <2>3. Tracks(x)' /\ (Starts(x)' # {} =>
            serverClock'[x] \in Nat /\ serverClock'[x] <= Len(ByGuests(log)))
    BY <1>0, <1>1, <2>1, <2>2, TracksWelcome
  <2>4. 0 \in Starts(x)'
    <3>1. Len(toGuest'[x]) \in Nat
      BY <1>1, ReceiveFrame DEF Typed, GuestChannels
    <3> QED
      BY <2>1, <3>1 DEF Starts
  <2>5. Len(ByGuests(log)) \in Nat /\ m.clock \in 0 .. Len(ByGuests(log))
    <3>1. ByGuests(log) \in Seq(Edits)
      BY <1>0, ByGuestsTyped
    <3> QED
      BY <2>2, <2>3, <2>4, <3>1
  <2>6. Entered(x)'
    BY <1>2, <1>1, <2>1, <2>2, <2>5 DEF Entered
  <2>7. Ordered'
    BY <1>0, <1>3, <2>1, <2>3, <2>6, OrderOfOthers
  <2>8. Authority!Enter(x)
    <3> DEFINE entry == [s \in Sites |-> serverClock[s]]
    <3>1. entry[x] = NoSession
      BY <2>2
    <3>2. [s \in Sites |-> serverClock'[s]] = [entry EXCEPT ![x] = m.clock]
      BY <1>0, <2>1, NodesAndSites
    <3>3. [s \in Sites |-> ByGuests(seen[s])]' = [s \in Sites |-> ByGuests(seen[s])]
      BY <2>1
    <3> QED
      BY <2>1, <2>5, <3>1, <3>2, <3>3 DEF Authority!Enter
  <2> QED
    BY <2>7, <2>8 DEF OrderStep, Authority!Next
<1>4. ASSUME phase' = [phase EXCEPT ![x] = "detached"] \/ phase' = [phase EXCEPT ![x] = "closed"],
             UNCHANGED <<log, seen, serverClock>>
      PROVE  Ordered' /\ OrderStep
  <2>1. phase'[x] \in {"detached", "closed"} /\ \A s \in Sites : s # x => phase'[s] = phase[s]
    BY <1>0, <1>4
  <2>2. Tracks(x)' /\ Entered(x)'
    BY <1>1, <1>2, <2>1, TracksNothing DEF Entered
  <2> QED
    BY <1>0, <1>4, <2>1, <2>2, OrderOfOthers, OrderUnseen
<1>5. ASSUME phase' = phase, phase[x] = "connecting", UNCHANGED <<log, seen, serverClock>>
      PROVE  Ordered' /\ OrderStep
  <2>1. Tracks(x)' /\ Entered(x)'
    BY <1>0, <1>1, <1>5, TracksSkip DEF Entered
  <2> QED
    BY <1>0, <1>5, <2>1, OrderOfOthers, OrderUnseen
<1>6. ASSUME phase' = phase, phase[x] = "detached", UNCHANGED <<log, seen, serverClock>>
      PROVE  Ordered' /\ OrderStep
  <2>1. Tracks(x)' /\ Entered(x)'
    BY <1>0, <1>1, <1>6, TracksNothing DEF Entered
  <2> QED
    BY <1>0, <1>6, <2>1, OrderOfOthers, OrderUnseen
<1>7. ASSUME phase' = phase, phase[x] = "joined", ~Delivers(m), UNCHANGED <<log, serverClock>>,
             seen' = seen \/ \E c \in Nat : seen' = [seen EXCEPT ![x] = Append(@, <<Host, c>>)]
      PROVE  Ordered' /\ OrderStep
  <2>1. /\ seen' \in [Sites -> Seq(Edits)] /\ ByGuests(seen'[x]) = ByGuests(seen[x])
        /\ \A s \in Sites : s # x => seen'[s] = seen[s]
    <3>1. CASE seen' = seen
      BY <1>0, <3>1
    <3>2. ASSUME NEW c \in Nat, seen' = [seen EXCEPT ![x] = Append(@, <<Host, c>>)]
          PROVE  /\ seen' \in [Sites -> Seq(Edits)] /\ ByGuests(seen'[x]) = ByGuests(seen[x])
                 /\ \A s \in Sites : s # x => seen'[s] = seen[s]
      <4> DEFINE e == <<Host, c>>
      <4>1. e \in Edits /\ e[1] = Host
        BY NodesAndSites DEF Edits
      <4> HIDE DEF e
      <4>2. seen[x] \in Seq(Edits) /\ Append(seen[x], e) \in Seq(Edits)
        BY <1>0, <4>1
      <4>3. ByGuests(Append(seen[x], e)) = ByGuests(seen[x])
        BY <4>1, <4>2, ByGuestsAppend
      <4>4. seen' = [seen EXCEPT ![x] = Append(seen[x], e)]
        BY <3>2 DEF e
      <4> QED
        BY <1>0, <4>2, <4>3, <4>4
    <3> QED
      BY <1>7, <3>1, <3>2
  <2>2. Tracks(x)'
    BY <1>0, <1>1, <1>7, <2>1, TracksHandle
  <2>3. Entered(x)'
    BY <1>0, <1>1, <1>7, <2>1 DEF Entered
  <2>4. OrderStep
    BY <1>7, <2>1, OrderUnseen
  <2> QED
    BY <1>7, <2>1, <2>2, <2>3, <2>4, OrderOfOthers
<1>8. ASSUME phase' = phase, phase[x] = "joined", Delivers(m), UNCHANGED <<log, serverClock>>,
             seen' = [seen EXCEPT ![x] = Append(@, Item(x, m))]
      PROVE  Ordered' /\ OrderStep
  <2> DEFINE e == Item(x, m)
  <2>1. e \in Edits /\ e[1] # Host
    <3>1. Deliverable(q) /\ m \in ToSet(q)
      BY <1>0, <1>1, OrderFacts, ReceiveFrame DEF Deliverable
    <3> QED
      BY <1>0, <1>8, <3>1 DEF Deliverable, Item, Edits, Delivers
  <2> HIDE DEF e
  <2>2. seen[x] \in Seq(Edits) /\ Append(seen[x], e) \in Seq(Edits)
    BY <1>0, <2>1
  <2>3. ByGuests(Append(seen[x], e)) = Append(ByGuests(seen[x]), e)
    BY <2>1, <2>2, ByGuestsAppend
  <2>4. seen' = [seen EXCEPT ![x] = Append(seen[x], e)]
    BY <1>8 DEF e
  <2>5. /\ seen' \in [Sites -> Seq(Edits)] /\ ByGuests(seen'[x]) = Append(ByGuests(seen[x]), e)
        /\ \A s \in Sites : s # x => seen'[s] = seen[s]
    BY <1>0, <2>2, <2>3, <2>4
  <2> DEFINE at == serverClock[x] + Len(ByGuests(seen[x]))
  <2>6. Tracks(x)' /\ at < Len(ByGuests(log)) /\ ByGuests(log)[at + 1] = e
    BY <1>0, <1>1, <1>8, <2>5, TracksHandle DEF e
  <2>7. Entered(x)'
    BY <1>0, <1>1, <1>8 DEF Entered
  <2>8. Ordered'
    BY <1>8, <2>5, <2>6, <2>7, OrderOfOthers
  <2>9. Authority!Deliver(x)
    <3> DEFINE entry    == [s \in Sites |-> serverClock[s]]
               received == [s \in Sites |-> ByGuests(seen[s])]
    <3>1. entry[x] # NoSession
      BY <1>0, <1>8 DEF Entered, NoSession
    <3>2. entry[x] = serverClock[x] /\ received[x] = ByGuests(seen[x])
      OBVIOUS
    <3>3. [s \in Sites |-> ByGuests(seen'[s])] = [received EXCEPT ![x] = Append(received[x], e)]
      BY <2>5
    <3>4. [s \in Sites |-> serverClock[s]]' = entry
      BY <1>8
    <3>5. ByGuests(log') = ByGuests(log)
      BY <1>8
    <3> QED
      BY <2>6, <3>1, <3>2, <3>3, <3>4, <3>5 DEF Authority!Deliver
  <2> QED
    BY <2>8, <2>9 DEF OrderStep, Authority!Next
<1>9. CASE GuestWelcome(x)
  BY <1>3, <1>4, <1>9 DEF GuestWelcome
<1>10. CASE GuestSkips(x)
  BY <1>5, <1>6, <1>10 DEF GuestSkips, memberVars, opVars, histVars
<1>11. CASE GuestOp(x)
  <2>1. /\ phase' = phase /\ phase[x] = "joined" /\ m.type = "Op"
        /\ UNCHANGED <<log, serverClock>> /\ seen' = [seen EXCEPT ![x] = Append(@, <<m.site, m.clock>>)]
    BY <1>11 DEF GuestOp, GuestGets, memberVars
  <2>2. m.clock \in Nat
    BY <1>1, GuestGetsDocs, <2>1 DEF GuestDoc, EditFrame
  <2>3. CASE m.site = Host
    BY <1>7, <2>1, <2>2, <2>3 DEF Delivers
  <2>4. CASE m.site # Host
    BY <1>8, <2>1, <2>4 DEF Delivers, Item
  <2> QED
    BY <2>3, <2>4
<1>12. CASE GuestAck(x)
  <2>1. /\ phase' = phase /\ phase[x] = "joined" /\ m.type = "Ack"
        /\ UNCHANGED <<log, serverClock>> /\ seen' = [seen EXCEPT ![x] = Append(@, <<x, m.clock>>)]
    BY <1>12 DEF GuestAck, GuestGets, memberVars
  <2> QED
    BY <1>8, <2>1 DEF Delivers, Item
<1>13. CASE GuestCursor(x)
  <2>1. /\ phase' = phase /\ phase[x] = "joined" /\ m.type = "CursorUpdate"
        /\ UNCHANGED <<log, serverClock, seen>>
    BY <1>13 DEF GuestCursor, GuestGets, memberVars, histVars
  <2> QED
    BY <1>7, <2>1 DEF Delivers
<1>14. CASE GuestRoster(x)
  <2>1. /\ phase' = phase /\ phase[x] = "joined"
        /\ m.type \in {"PeerJoined", "PeerLeft", "PeerRoleChanged", "RoleConfig"}
        /\ UNCHANGED <<log, serverClock, seen>>
    BY <1>14 DEF GuestRoster, GuestGets, histVars
  <2> QED
    BY <1>7, <2>1 DEF Delivers
<1>15. CASE GuestFileSaved(x)
  <2>1. /\ phase' = phase /\ phase[x] \in {"joined", "detached"} /\ m.type = "FileSaved"
        /\ UNCHANGED <<log, serverClock, seen>>
    BY <1>15 DEF GuestFileSaved, GuestGets, memberVars, opVars, histVars
  <2> QED
    BY <1>6, <1>7, <2>1 DEF Delivers
<1>16. CASE GuestDisconnected(x)
  BY <1>4, <1>16 DEF GuestDisconnected, opVars, histVars
<1> QED
  BY <1>9, <1>10, <1>11, <1>12, <1>13, <1>14, <1>15, <1>16 DEF GuestEvent

\* Every step of the session is a step of the order authority, or none of its business.
LEMMA StepOrdered ==
  ASSUME Typed, Documents, Membership, Ordered, [Next]_vars
  PROVE  Ordered' /\ OrderStep
<1>1. CASE UNCHANGED vars
  <2>1. Undisturbed /\ toGuest' = toGuest
    BY <1>1 DEF vars, netVars, memberVars, opVars, histVars, Undisturbed, Ordered, Logs
  <2> QED
    BY <2>1, OrderUndisturbed
<1>2. CASE Next
  BY <1>2, ConnectionOrdered, UserActionOrdered, HostEventOrdered, GuestEventOrdered DEF Next
<1> QED
  BY <1>1, <1>2

\* The host is the order authority of the guests' edits: whoever joins, leaves
\* or loses its connection, and however frames are interleaved, a guest enters
\* the order at the server_clock of its Welcome and is then given every later
\* edit once and in order, its own as acknowledgements.
THEOREM SessionImplementsOrderAuthority == Spec => ImplementsOrderAuthority
<1> DEFINE I == Typed /\ Documents /\ Membership /\ Ordered
<1>1. Init => I /\ Authority!Init
  BY InitTyped, InitDocuments, InitMembership, InitOrdered
<1>2. I /\ [Next]_vars => I' /\ [Authority!Next]_(Authority!vars)
  BY StepTyped, StepDocuments, StepMembership, StepOrdered DEF OrderStep
<1> QED
  BY <1>1, <1>2, PTL DEF Spec, ImplementsOrderAuthority, Authority!Spec
=============================================================================
