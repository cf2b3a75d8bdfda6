----------------------------- MODULE CollabProofs -----------------------------
(***************************************************************************)
(* Who is in a collaborative session and what its frames say, for any      *)
(* number of connections, any tabs, any documents and any limits.  Then    *)
(* two editors alone: the edits both make at once meet in one text, for    *)
(* any document, any edits and any number of them in flight.               *)
(***************************************************************************)
EXTENDS CollabSafety, ConcurrentEdits, TextOpsProofs, FiniteSetTheorems, SequenceTheorems

\* What a guest relies on in the frames it is sent.
GuestFrame(m) ==
    /\ m.type = "Welcome" => /\ m.clock \in Nat \union {NoSession}
                             /\ DOMAIN m.peers \subseteq Sites
    /\ m.type = "PeerJoined" => m.site \in Sites
GuestChannels(q) ==
    /\ DOMAIN q = Sites
    /\ \A s \in Sites : Channel(q[s]) /\ \A m \in ToSet(q[s]) : GuestFrame(m)

\* What the host relies on in the frames guest s sends.
HostFrame(s, m) ==
    /\ m.type \in HostFrames
    /\ m.type = "CursorUpdate" => m.site = s
    /\ m.type = "RoleChangeRequest" => m.role \in Roles
HostChannels(q) ==
    /\ DOMAIN q = Sites
    /\ \A s \in Sites : Channel(q[s]) /\ \A m \in ToSet(q[s]) : HostFrame(s, m)

Outgoing(q) == Channel(q) /\ \A m \in ToSet(q) : m.type \in {"Op", "CursorUpdate"}

\* TypeOK with the channels it needs to be inductive.
Typed ==
    /\ TypeOK
    /\ DOMAIN remoteCursors = Nodes
    /\ HostChannels(toHost) /\ GuestChannels(toGuest) /\ Outgoing(hostOut)

-----------------------------------------------------------------------------
\* Node 0 is a node and no site, sites are nodes.
LEMMA NodesAndSites == /\ Host \in Nodes /\ Sites \subseteq Nodes /\ Host \notin Sites
                       /\ MaxSites \in Nat \ {0}
  BY ConstantsAssumption DEF Host, Sites, Nodes

\* Spending stays within the limits.
LEMMA SpendAllTyped ==
  ASSUME NEW kinds, IsFiniteSet(kinds), budget \in [LimitKinds -> Nat], SpendAll(kinds)
  PROVE  budget' \in [LimitKinds -> Nat]
<1>1. Cardinality(kinds) \in Nat
  BY FS_CardinalityType
<1>2. \A k \in LimitKinds : budget[k] \in Nat
  OBVIOUS
<1>3. "total" \in LimitKinds
  BY DEF LimitKinds
<1> QED
  BY <1>1, <1>2, <1>3 DEF SpendAll

\* One kind of action, spent, stays within the limits.
LEMMA SpendTyped ==
  ASSUME NEW kind, budget \in [LimitKinds -> Nat], Spend(kind)
  PROVE  budget' \in [LimitKinds -> Nat]
  BY SpendAllTyped, FS_Singleton DEF Spend

\* Sending a frame to some guests keeps their channels in order.
LEMMA SendTyped ==
  ASSUME NEW q, GuestChannels(q), NEW sites, NEW m, GuestFrame(m)
  PROVE  /\ GuestChannels(Send(q, sites, m)) /\ GuestChannels(Broadcast(q, sites, m))
<1>1. ASSUME NEW to PROVE GuestChannels(Send(q, to, m))
  <2> SUFFICES ASSUME NEW s \in Sites
               PROVE  /\ Channel(Send(q, to, m)[s])
                      /\ \A x \in ToSet(Send(q, to, m)[s]) : GuestFrame(x)
    BY DEF GuestChannels, Send
  <2>1. Send(q, to, m)[s] \in {q[s], Append(q[s], m)}
    BY DEF Send
  <2>2. Channel(q[s]) /\ \A x \in ToSet(q[s]) : GuestFrame(x)
    BY DEF GuestChannels
  <2>3. /\ Channel(Append(q[s], m))
        /\ \A x \in ToSet(Append(q[s], m)) : GuestFrame(x)
    BY <2>2, SendFrame
  <2>4. CASE Send(q, to, m)[s] = q[s]
    BY <2>4, <2>2
  <2>5. CASE Send(q, to, m)[s] = Append(q[s], m)
    BY <2>5, <2>3
  <2> QED
    BY <2>1, <2>4, <2>5
<1> QED
  BY <1>1 DEF Broadcast

\* Receiving a frame keeps the channels in order, and the frame is as expected.
LEMMA HostGetsTyped ==
  ASSUME Typed, NEW s \in Sites, NEW type, HostGets(s, type)
  PROVE  /\ HostChannels(toHost') /\ HostFrame(s, Head(toHost[s]))
         /\ Head(toHost[s]).type = type /\ Head(toHost[s]) \in ToSet(toHost[s])
<1>1. Channel(toHost[s]) /\ \A m \in ToSet(toHost[s]) : HostFrame(s, m)
  BY DEF Typed, HostChannels
<1>2. toHost' = [toHost EXCEPT ![s] = Tail(@)] /\ toHost[s] # <<>>
  BY DEF HostGets
<1>3. Channel(Tail(toHost[s])) /\ ToSet(Tail(toHost[s])) \subseteq ToSet(toHost[s])
  BY <1>1, <1>2, ReceiveFrame
<1>4. HostChannels(toHost')
  BY <1>1, <1>2, <1>3 DEF Typed, HostChannels
<1> QED
  BY <1>1, <1>2, <1>4, ReceiveFrame DEF HostGets

\* The same for a guest.
LEMMA GuestGetsTyped ==
  ASSUME Typed, NEW s \in Sites, toGuest[s] # <<>>,
         toGuest' = [toGuest EXCEPT ![s] = Tail(@)]
  PROVE  /\ GuestChannels(toGuest') /\ GuestFrame(Head(toGuest[s]))
         /\ Head(toGuest[s]) \in ToSet(toGuest[s])
<1>1. Channel(toGuest[s]) /\ \A m \in ToSet(toGuest[s]) : GuestFrame(m)
  BY DEF Typed, GuestChannels
<1>2. Channel(Tail(toGuest[s])) /\ ToSet(Tail(toGuest[s])) \subseteq ToSet(toGuest[s])
  BY <1>1, ReceiveFrame
<1>3. GuestChannels(toGuest')
  BY <1>1, <1>2 DEF Typed, GuestChannels
<1> QED
  BY <1>1, <1>3, ReceiveFrame

-----------------------------------------------------------------------------
\* Every initial state is typed.
LEMMA InitTyped == Init => Typed
<1> SUFFICES ASSUME Init PROVE Typed
  OBVIOUS
<1>1. TypeOK
  <2>1. guestTxs = {} /\ linkUp = {} /\ nextSiteId = 1 /\ nextSiteId \in 1 .. MaxSites + 1
    BY NodesAndSites DEF Init
  <2>2. phase \in [Sites -> {"idle", "connecting", "joined", "detached", "closed"}]
    BY DEF Init
  <2>3. /\ active \in [Nodes -> Files]
        /\ localClock \in [Nodes -> Nat]
        /\ serverClock \in [Nodes -> Nat \union {NoSession}]
        /\ settings \in [Roles -> SUBSET Perms]
        /\ budget \in [LimitKinds -> Nat]
    BY ConstantsAssumption DEF Init
  <2>4. /\ DOMAIN peers = Nodes /\ DOMAIN snapshot = Nodes
        /\ \A n \in Nodes : DOMAIN peers[n] \subseteq Sites /\ Len(snapshot[n]) <= 1
    BY DEF Init, EmptyMap
  <2>5. \A s \in Sites : \A m \in ToSet(toHost[s]) : m.type \in HostFrames
    BY EmptyChannel DEF Init
  <2> QED
    BY <2>1, <2>2, <2>3, <2>4, <2>5 DEF TypeOK
<1>2. HostChannels(toHost) /\ GuestChannels(toGuest) /\ Outgoing(hostOut)
  BY EmptyChannel DEF Init, HostChannels, GuestChannels, Outgoing
<1>3. DOMAIN remoteCursors = Nodes
  BY DEF Init
<1> QED
  BY <1>1, <1>2, <1>3 DEF Typed
-----------------------------------------------------------------------------
(* Every step keeps Typed: connections.                                    *)

\* The accept loop's new connection has an empty channel to the guest and one Join.
LEMMA ConnectTyped == ASSUME Typed, Connect PROVE Typed'
<1>1. nextSiteId \in Sites /\ nextSiteId' \in 1 .. MaxSites + 1
  BY NodesAndSites DEF Typed, TypeOK, Connect, Sites
<1>2. HostChannels(toHost')
  <2> DEFINE join == <<[type |-> "Join"]>>
  <2>1. Channel(join) /\ \A m \in ToSet(join) : m = [type |-> "Join"]
    BY OneFrame
  <2>2. HostFrame(nextSiteId, [type |-> "Join"])
    BY DEF HostFrame, HostFrames
  <2>3. toHost' = [toHost EXCEPT ![nextSiteId] = join]
    BY DEF Connect
  <2> HIDE DEF join
  <2>4. /\ DOMAIN toHost' = Sites
        /\ \A s \in Sites : toHost'[s] = IF s = nextSiteId THEN join ELSE toHost[s]
    BY <1>1, <2>3 DEF Typed, HostChannels
  <2>5. \A m \in ToSet(join) : HostFrame(nextSiteId, m)
    BY <2>1, <2>2
  <2> QED
    BY <1>1, <2>1, <2>4, <2>5 DEF Typed, HostChannels
<1>3. /\ guestTxs' \subseteq 1 .. nextSiteId' - 1 /\ linkUp' \subseteq guestTxs'
      /\ phase' \in [Sites -> {"idle", "connecting", "joined", "detached", "closed"}]
      /\ active' \in [Nodes -> Files]
  BY <1>1, NodesAndSites DEF Typed, TypeOK, Connect, Sites
<1> QED
  BY <1>1, <1>2, <1>3 DEF Typed, TypeOK, Connect, opVars, HostChannels, HostFrame

\* A guest that ends takes its channel from the host with it.
LEMMA GuestExitTyped == ASSUME Typed, NEW s \in Sites, GuestExit(s) PROVE Typed'
<1>1. GuestChannels(toGuest')
  BY EmptyChannel DEF Typed, GuestExit, GuestChannels
<1>2. budget' \in [LimitKinds -> Nat]
  BY SpendTyped DEF Typed, TypeOK, GuestExit
<1>3. phase' \in [Sites -> {"idle", "connecting", "joined", "detached", "closed"}]
  BY DEF Typed, TypeOK, GuestExit
<1> QED
  BY <1>1, <1>2, <1>3 DEF Typed, TypeOK, GuestExit, tabVars, opVars

\* What a lost connection leaves is a prefix of each direction.
LEMMA ConnectionLostTyped == ASSUME Typed, NEW s \in Sites, ConnectionLost(s) PROVE Typed'
<1>1. PICK i \in 0 .. Len(toHost[s]), j \in 0 .. Len(toGuest[s]) :
        /\ toHost' = [toHost EXCEPT ![s] = SubSeq(@, 1, i)]
        /\ toGuest' = [toGuest EXCEPT ![s] = Append(SubSeq(@, 1, j), [type |-> "Disconnected"])]
  BY DEF ConnectionLost
<1>2. HostChannels(toHost')
  <2>1. Channel(toHost[s]) /\ \A m \in ToSet(toHost[s]) : HostFrame(s, m)
    BY DEF Typed, HostChannels
  <2>2. Channel(SubSeq(toHost[s], 1, i)) /\ ToSet(SubSeq(toHost[s], 1, i)) \subseteq ToSet(toHost[s])
    BY <2>1, LoseFrames
  <2> QED
    BY <1>1, <2>1, <2>2 DEF Typed, HostChannels
<1>3. GuestChannels(toGuest')
  <2> DEFINE kept == SubSeq(toGuest[s], 1, j)
             end  == [type |-> "Disconnected"]
  <2>1. Channel(toGuest[s]) /\ \A m \in ToSet(toGuest[s]) : GuestFrame(m)
    BY DEF Typed, GuestChannels
  <2>2. Channel(kept) /\ ToSet(kept) \subseteq ToSet(toGuest[s])
    BY <2>1, LoseFrames
  <2>3. Channel(Append(kept, end)) /\ ToSet(Append(kept, end)) = ToSet(kept) \union {end}
    BY <2>2, SendFrame
  <2>4. GuestFrame(end)
    BY DEF GuestFrame
  <2> QED
    BY <1>1, <2>1, <2>2, <2>3, <2>4 DEF Typed, GuestChannels
<1>4. budget' \in [LimitKinds -> Nat]
  BY SpendTyped DEF Typed, TypeOK, ConnectionLost
<1> QED
  BY <1>2, <1>3, <1>4
     DEF Typed, TypeOK, ConnectionLost, memberVars, tabVars, opVars, HostChannels, HostFrame

\* The reader thread's end appends one Left.
LEMMA ReaderEofTyped == ASSUME Typed, NEW s \in Sites, ReaderEof(s) PROVE Typed'
<1> DEFINE left == [type |-> "Left"]
<1>1. Channel(toHost[s]) /\ \A m \in ToSet(toHost[s]) : HostFrame(s, m)
  BY DEF Typed, HostChannels
<1>2. Channel(Append(toHost[s], left)) /\ ToSet(Append(toHost[s], left)) = ToSet(toHost[s]) \union {left}
  BY <1>1, SendFrame
<1>3. HostFrame(s, left)
  BY DEF HostFrame, HostFrames
<1>4. HostChannels(toHost')
  BY <1>1, <1>2, <1>3 DEF Typed, HostChannels, ReaderEof
<1> QED
  BY <1>4 DEF Typed, TypeOK, ReaderEof, memberVars, tabVars, opVars, HostChannels, HostFrame

\* The writer thread forwards operations and cursors only.
LEMMA HostWriterTyped == ASSUME Typed, HostWriter PROVE Typed'
<1>1. Channel(hostOut) /\ hostOut # <<>>
  BY DEF Typed, Outgoing, HostWriter
<1>2. GuestFrame(Head(hostOut)) /\ Outgoing(hostOut')
  BY <1>1, ReceiveFrame DEF Typed, Outgoing, HostWriter, GuestFrame
<1>3. GuestChannels(toGuest')
  BY <1>2, SendTyped DEF Typed, HostWriter
<1> QED
  BY <1>2, <1>3 DEF Typed, TypeOK, HostWriter, memberVars, tabVars, opVars
-----------------------------------------------------------------------------
(* Local input.                                                            *)

\* What the common tail of a key event puts on the way.
Sends(n, out) ==
    /\ Channel(out)
    /\ \A m \in ToSet(out) : m.type \in {"Op", "CursorUpdate"} /\ m.site = n
    /\ hostOut' = IF n = Host THEN hostOut \o out ELSE hostOut
    /\ toHost' = IF n \in linkUp THEN [toHost EXCEPT ![n] = @ \o out] ELSE toHost

\* A key event appends operations and cursors of its node, and nothing else.
LEMMA KeyEventSends ==
  ASSUME NEW n \in Nodes, NEW t, NEW c, NEW capture, NEW kind, KeyEvent(n, t, c, capture, kind)
  PROVE  \E out : Sends(n, out)
<1> DEFINE f       == active[n]
           ops     == ExtractOps(capture[1], t, n)
           changes == capture # <<>> /\ ops # <<>>
           clock   == localClock[n] + 1
           op      == [type |-> "Op", site |-> n, clock |-> clock, ops |-> ops, path |-> f]
           moved   == [type |-> "CursorUpdate", site |-> n, pos |-> c, path |-> f]
           first   == IF changes THEN <<op>> ELSE <<>>
           second(sent) == IF sent # {} THEN <<moved>> ELSE <<>>
<1>1. PICK sent \in SUBSET {"cursors"} :
        /\ hostOut' = IF n = Host THEN hostOut \o (first \o second(sent)) ELSE hostOut
        /\ toHost' = IF n \in linkUp THEN [toHost EXCEPT ![n] = @ \o (first \o second(sent))]
                     ELSE toHost
  BY Zenon DEF KeyEvent
<1>2. /\ op.type = "Op" /\ op.site = n
      /\ moved.type = "CursorUpdate" /\ moved.site = n
  OBVIOUS
<1> HIDE DEF op, moved, changes
<1>3. Channel(first) /\ ToSet(first) \subseteq {op}
  BY EmptyChannel, OneFrame
<1>4. Channel(second(sent)) /\ ToSet(second(sent)) \subseteq {moved}
  BY EmptyChannel, OneFrame
<1> HIDE DEF first, second
<1>5. Channel(first \o second(sent)) /\ ToSet(first \o second(sent)) \subseteq {op, moved}
  BY <1>3, <1>4, JoinChannels
<1>6. Sends(n, first \o second(sent))
  BY <1>1, <1>2, <1>5 DEF Sends
<1> QED
  BY <1>6

\* What a key event changes stays typed, and it leaves the membership alone.
LEMMA KeyEventTyped ==
  ASSUME Typed, NEW n \in Nodes, NEW t, NEW c, NEW capture, NEW kind,
         KeyEvent(n, t, c, capture, kind)
  PROVE  /\ HostChannels(toHost') /\ Outgoing(hostOut')
         /\ budget' \in [LimitKinds -> Nat] /\ localClock' \in [Nodes -> Nat]
         /\ DOMAIN snapshot' = Nodes /\ \A k \in Nodes : Len(snapshot'[k]) <= 1
         /\ UNCHANGED <<nextSiteId, guestTxs, linkUp, memberVars, active, serverClock,
                        remoteCursors>>
<1>1. PICK out : Sends(n, out)
  BY KeyEventSends
<1>2. HostChannels(toHost')
  <2>1. CASE n \in linkUp
    <3>1. n \in Sites
      BY <2>1, NodesAndSites DEF Typed, TypeOK, Sites
    <3>2. Channel(toHost[n]) /\ \A m \in ToSet(toHost[n]) : HostFrame(n, m)
      BY <3>1 DEF Typed, HostChannels
    <3>3. Channel(toHost[n] \o out) /\ ToSet(toHost[n] \o out) = ToSet(toHost[n]) \union ToSet(out)
      BY <1>1, <3>2, JoinChannels DEF Sends
    <3>4. \A m \in ToSet(out) : HostFrame(n, m)
      BY <1>1 DEF Sends, HostFrame, HostFrames
    <3> QED
      BY <1>1, <2>1, <3>1, <3>2, <3>3, <3>4 DEF Typed, HostChannels, Sends
  <2>2. CASE n \notin linkUp
    BY <1>1, <2>2 DEF Typed, Sends
  <2> QED
    BY <2>1, <2>2
<1>3. Outgoing(hostOut')
  BY <1>1, JoinChannels DEF Typed, Outgoing, Sends
<1>4. budget' \in [LimitKinds -> Nat]
  <2>1. PICK sent \in SUBSET {"cursors"} : SpendAll(sent \union {kind})
    BY DEF KeyEvent
  <2>2. IsFiniteSet(sent \union {kind})
    BY FS_Singleton, FS_Subset, FS_Union
  <2> QED
    BY <2>1, <2>2, SpendAllTyped DEF Typed, TypeOK
<1>5. localClock' \in [Nodes -> Nat]
  <2>1. localClock' \in {localClock, [localClock EXCEPT ![n] = localClock[n] + 1]}
    BY Zenon DEF KeyEvent
  <2>2. localClock \in [Nodes -> Nat]
    BY DEF Typed, TypeOK
  <2>3. [localClock EXCEPT ![n] = localClock[n] + 1] \in [Nodes -> Nat]
    BY <2>2
  <2> QED
    BY <2>1, <2>2, <2>3
<1>6. snapshot' = [snapshot EXCEPT ![n] = <<>>] /\ Len(<<>>) = 0
  BY DEF KeyEvent
<1>7. DOMAIN snapshot' = Nodes /\ \A k \in Nodes : Len(snapshot'[k]) <= 1
  BY <1>6 DEF Typed, TypeOK
<1>8. UNCHANGED <<nextSiteId, guestTxs, linkUp, memberVars, active, serverClock, remoteCursors>>
  BY DEF KeyEvent
<1> QED
  BY <1>2, <1>3, <1>4, <1>5, <1>7, <1>8

\* A key event keeps Typed when the rest of the action leaves the guests'
\* channels typed.
LEMMA KeyActionTyped ==
  ASSUME Typed, NEW n \in Nodes, NEW t, NEW c, NEW capture, NEW kind,
         KeyEvent(n, t, c, capture, kind), GuestChannels(toGuest')
  PROVE  Typed'
<1>1. /\ HostChannels(toHost') /\ Outgoing(hostOut')
      /\ budget' \in [LimitKinds -> Nat] /\ localClock' \in [Nodes -> Nat]
      /\ DOMAIN snapshot' = Nodes /\ \A k \in Nodes : Len(snapshot'[k]) <= 1
      /\ UNCHANGED <<nextSiteId, guestTxs, linkUp, memberVars, active, serverClock,
                     remoteCursors>>
  BY KeyEventTyped
<1> QED
  BY <1>1 DEF Typed, TypeOK, memberVars, HostChannels, HostFrame
\* Every user action is typed.
LEMMA UserActionTyped == ASSUME Typed, UserAction PROVE Typed'
<1>1. GuestChannels(toGuest)
  BY DEF Typed
<1>2. ASSUME NEW n \in Nodes, Edit(n) PROVE Typed'
  <2>1. PICK e : KeyEvent(n, e.text, e.cursor, Captured(n), "edits") /\ UNCHANGED toGuest
    BY <1>2 DEF Edit
  <2> QED
    BY <1>1, <2>1, KeyActionTyped
<1>3. ASSUME NEW n \in Nodes, Move(n) PROVE Typed'
  <2>1. PICK c : KeyEvent(n, text[n][active[n]], c, snapshot[n], "moves") /\ UNCHANGED toGuest
    BY <1>3 DEF Move
  <2> QED
    BY <1>1, <2>1, KeyActionTyped
<1>4. ASSUME NEW n \in Nodes, DeferredEdit(n) PROVE Typed'
  <2>1. budget' \in [LimitKinds -> Nat]
    BY <1>4, SpendTyped DEF DeferredEdit, Typed, TypeOK
  <2>2. /\ DOMAIN snapshot' = Nodes
        /\ \A k \in Nodes : Len(snapshot'[k]) <= 1
    <3>1. Len(<<text[n][active[n]]>>) = 1
      OBVIOUS
    <3>2. snapshot' = [snapshot EXCEPT ![n] = Captured(n)]
      BY <1>4 DEF DeferredEdit
    <3>3. Len(Captured(n)) <= 1
      BY <3>1 DEF Captured, Typed, TypeOK
    <3> QED
      BY <3>2, <3>3 DEF Typed, TypeOK
  <2>3. UNCHANGED <<netVars, memberVars, active, opVars>>
    BY <1>4 DEF DeferredEdit
  <2> QED
    BY <2>1, <2>2, <2>3 DEF Typed, TypeOK, netVars, memberVars, opVars
<1>5. ASSUME NEW n \in Nodes, SwitchTab(n) PROVE Typed'
  <2>1. budget' \in [LimitKinds -> Nat]
    BY <1>5, SpendTyped DEF SwitchTab, Typed, TypeOK
  <2>2. active' \in [Nodes -> Files]
    BY <1>5 DEF SwitchTab, Typed, TypeOK
  <2>3. UNCHANGED <<netVars, memberVars, snapshot, opVars>>
    BY <1>5 DEF SwitchTab
  <2> QED
    BY <2>1, <2>2, <2>3 DEF Typed, TypeOK, netVars, memberVars, opVars
<1>6. ASSUME NEW n \in Nodes, Save(n) PROVE Typed'
  <2> DEFINE saved == [type |-> "FileSaved", path |-> active[n], content |-> text[n][active[n]]]
  <2>1. /\ KeyEvent(n, text[n][active[n]], cursor[n][active[n]], snapshot[n], "saves")
        /\ toGuest' = IF n = Host THEN Broadcast(toGuest, {}, saved) ELSE toGuest
    BY <1>6 DEF Save
  <2>2. GuestFrame(saved)
    BY DEF GuestFrame
  <2>3. GuestChannels(toGuest')
    BY <1>1, <2>1, <2>2, SendTyped
  <2> QED
    BY <2>1, <2>3, KeyActionTyped
<1>7. ASSUME Undo PROVE Typed'
  BY <1>1, <1>7, KeyActionTyped, NodesAndSites DEF Undo
<1>8. ASSUME NEW role, NEW perm, <<role, perm>> \in Roles \X Perms, TogglePerm(role, perm)
      PROVE  Typed'
  <2>1. budget' \in [LimitKinds -> Nat]
    BY <1>8, SpendTyped DEF TogglePerm, Typed, TypeOK
  <2>2. settings' \in [Roles -> SUBSET Perms]
    <3>1. settings \in [Roles -> SUBSET Perms] /\ role \in Roles /\ perm \in Perms
      BY <1>8 DEF Typed, TypeOK
    <3>2. settings' = [settings EXCEPT ![role] =
                          IF perm \in settings[role] THEN settings[role] \ {perm}
                          ELSE settings[role] \union {perm}]
      BY <1>8 DEF TogglePerm
    <3> QED
      BY <3>1, <3>2
  <2>3. GuestFrame([type |-> "RoleConfig", perms |-> settings'])
    BY DEF GuestFrame
  <2>4. GuestChannels(toGuest')
    BY <1>1, <1>8, <2>3, SendTyped DEF TogglePerm
  <2>5. UNCHANGED <<nextSiteId, guestTxs, linkUp, toHost, hostOut, phase, peers, tabVars, opVars>>
    BY <1>8 DEF TogglePerm
  <2> QED
    BY <2>1, <2>2, <2>4, <2>5 DEF Typed, TypeOK, tabVars, opVars
<1>9. ASSUME NEW s \in Sites, RequestRole(s) PROVE Typed'
  <2>1. PICK target \in Sites, role \in Roles :
          toHost' = FromGuest(s, [type |-> "RoleChangeRequest", target |-> target, role |-> role])
    BY <1>9 DEF RequestRole
  <2> DEFINE m == [type |-> "RoleChangeRequest", target |-> target, role |-> role]
  <2>2. HostFrame(s, m)
    BY DEF HostFrame, HostFrames
  <2>3. Channel(toHost[s]) /\ \A x \in ToSet(toHost[s]) : HostFrame(s, x)
    BY DEF Typed, HostChannels
  <2>4. Channel(Append(toHost[s], m)) /\ ToSet(Append(toHost[s], m)) = ToSet(toHost[s]) \union {m}
    BY <2>3, SendFrame
  <2>5. HostChannels(toHost')
    BY <2>1, <2>2, <2>3, <2>4 DEF FromGuest, Typed, HostChannels
  <2>6. budget' \in [LimitKinds -> Nat]
    BY <1>9, SpendTyped DEF RequestRole, Typed, TypeOK
  <2>7. UNCHANGED <<nextSiteId, guestTxs, linkUp, toGuest, hostOut, memberVars, tabVars, opVars>>
    BY <1>9 DEF RequestRole
  <2> QED
    BY <2>5, <2>6, <2>7 DEF Typed, TypeOK, memberVars, tabVars, opVars, HostChannels, HostFrame
<1> QED
  <2>1. \A cell \in Toggles : <<cell[1], cell[2]>> \in Roles \X Perms
    BY ConstantsAssumption
  <2> QED
    BY <2>1, <1>2, <1>3, <1>4, <1>5, <1>6, <1>7, <1>8, <1>9 DEF UserAction
-----------------------------------------------------------------------------
(* The host's main loop.                                                   *)

\* Applying an operation adds no entry to any map.
LEMMA ApplyRemoteKeeps ==
  ASSUME Typed, NEW n, NEW m, NEW ops, ApplyRemote(n, m, ops)
  PROVE  /\ DOMAIN remoteCursors' = Nodes
         /\ \A k \in Nodes : DOMAIN remoteCursors'[k] = DOMAIN remoteCursors[k]
         /\ UNCHANGED <<active, snapshot>>
<1>1. \/ remoteCursors' = remoteCursors
      \/ /\ m.site \in DOMAIN remoteCursors[n]
         /\ remoteCursors' =
              [remoteCursors EXCEPT ![n] =
                 [remoteCursors[n] EXCEPT ![m.site] =
                    [remoteCursors[n][m.site] EXCEPT
                       !.pos = AdjustCursor(remoteCursors[n][m.site].pos, ops, 0)]]]
  BY DEF ApplyRemote
<1> QED
  BY <1>1 DEF ApplyRemote, Typed

\* Welcome carries the peers the host knows, all of them sites.
LEMMA HostJoinTyped == ASSUME Typed, NEW s \in Sites, HostJoin(s) PROVE Typed'
<1> DEFINE doc     == IF DocFile = Untitled THEN <<>> ELSE text[Host][DocFile]
           welcome == [type |-> "Welcome", doc |-> doc, clock |-> serverClock[Host],
                       peers |-> peers[Host], role |-> DefaultRole, perms |-> rolePerms[Host]]
           joined  == [type |-> "PeerJoined", site |-> s, role |-> DefaultRole]
<1>1. HostChannels(toHost')
  BY HostGetsTyped DEF HostJoin
<1>2. GuestFrame(welcome) /\ GuestFrame(joined)
  BY NodesAndSites DEF GuestFrame, Typed, TypeOK
<1>3. toGuest' = Broadcast(Send(toGuest, {s}, welcome), {s}, joined)
  BY DEF HostJoin
<1>4. GuestChannels(toGuest')
  BY <1>2, <1>3, SendTyped DEF Typed
<1>5. peers' = [peers EXCEPT ![Host] = Put(peers[Host], s, DefaultRole)]
  BY DEF HostJoin
<1>6. DOMAIN peers' = Nodes /\ \A n \in Nodes : DOMAIN peers'[n] \subseteq Sites
  <2>1. DOMAIN Put(peers[Host], s, DefaultRole) = {s} \union DOMAIN peers[Host]
    BY DEF Put
  <2> QED
    BY <1>5, <2>1, NodesAndSites DEF Typed, TypeOK
<1>7. UNCHANGED <<nextSiteId, guestTxs, linkUp, hostOut, phase, settings, tabVars, opVars, budget>>
  BY DEF HostJoin
<1> QED
  BY <1>1, <1>4, <1>6, <1>7 DEF Typed, TypeOK, tabVars, opVars, HostChannels, HostFrame

\* An operation is relayed or dropped; only its sender's channel shrinks.
LEMMA HostOpTyped == ASSUME Typed, NEW s \in Sites, HostOp(s) PROVE Typed'
<1> DEFINE m   == Head(toHost[s])
           ack == [type |-> "Ack", clock |-> m.clock, path |-> m.path]
<1>1. HostChannels(toHost') /\ m.type = "Op"
  BY HostGetsTyped DEF HostOp
<1>2. GuestFrame(m) /\ GuestFrame(ack)
  BY <1>1 DEF GuestFrame
<1>3. /\ toGuest' \in {toGuest, Send(Broadcast(toGuest, {m.site}, m), {m.site}, ack)}
      /\ serverClock' \in {serverClock, [serverClock EXCEPT ![Host] = @ + 1]}
  BY DEF HostOp
<1>4. GuestChannels(toGuest')
  <2>1. GuestChannels(Send(Broadcast(toGuest, {m.site}, m), {m.site}, ack))
    BY <1>2, SendTyped DEF Typed
  <2> QED
    BY <1>3, <2>1 DEF Typed
<1>5. serverClock' \in [Nodes -> Nat \union {NoSession}]
  <2>1. serverClock \in [Nodes -> Nat \union {NoSession}]
    BY DEF Typed, TypeOK
  <2>2. serverClock[Host] + 1 \in Nat \union {NoSession}
    BY <2>1, NodesAndSites DEF NoSession
  <2>3. [serverClock EXCEPT ![Host] = @ + 1] \in [Nodes -> Nat \union {NoSession}]
    BY <2>1, <2>2
  <2> QED
    BY <1>3, <2>1, <2>3
<1>6. DOMAIN remoteCursors' = Nodes /\ UNCHANGED <<active, snapshot>>
  <2>1. ApplyRemote(Host, m, m.ops)
    BY DEF HostOp
  <2> QED
    BY <2>1, ApplyRemoteKeeps
<1>7. UNCHANGED <<nextSiteId, guestTxs, linkUp, hostOut, memberVars, localClock, budget>>
  BY DEF HostOp
<1> QED
  BY <1>1, <1>4, <1>5, <1>6, <1>7 DEF Typed, TypeOK, memberVars, HostChannels, HostFrame

\* A cursor is stored for its sender, a site.
LEMMA HostCursorTyped == ASSUME Typed, NEW s \in Sites, HostCursor(s) PROVE Typed'
<1>1. HostChannels(toHost')
  BY HostGetsTyped DEF HostCursor
<1>2. DOMAIN remoteCursors' = Nodes
  BY DEF HostCursor, Typed
<1>3. UNCHANGED <<nextSiteId, guestTxs, linkUp, toGuest, hostOut, memberVars, tabVars, localClock,
                  serverClock, budget>>
  BY DEF HostCursor
<1> QED
  BY <1>1, <1>2, <1>3 DEF Typed, TypeOK, memberVars, tabVars, HostChannels, HostFrame

\* A role request carries a role, so a granted one assigns a role.
LEMMA HostRoleRequestTyped == ASSUME Typed, NEW s \in Sites, HostRoleRequest(s) PROVE Typed'
<1> DEFINE m       == Head(toHost[s])
           changed == [type |-> "PeerRoleChanged", site |-> m.target, role |-> m.role]
<1>1. HostChannels(toHost')
  BY HostGetsTyped DEF HostRoleRequest
<1>2. GuestFrame(changed)
  BY DEF GuestFrame
<1>3. toGuest' \in {toGuest, Broadcast(toGuest, {}, changed)}
  BY DEF HostRoleRequest
<1>4. GuestChannels(toGuest')
  BY <1>2, <1>3, SendTyped DEF Typed
<1>5. peers' \in {peers, [peers EXCEPT ![Host] = [peers[Host] EXCEPT ![m.target] = m.role]]}
  BY DEF HostRoleRequest
<1>6. DOMAIN peers' = Nodes /\ \A n \in Nodes : DOMAIN peers'[n] = DOMAIN peers[n]
  BY <1>5 DEF Typed, TypeOK
<1>7. UNCHANGED <<nextSiteId, guestTxs, linkUp, hostOut, phase, settings, tabVars, opVars, budget>>
  BY DEF HostRoleRequest
<1> QED
  BY <1>1, <1>4, <1>6, <1>7 DEF Typed, TypeOK, tabVars, opVars, HostChannels, HostFrame

\* A peer that left is dropped from both maps.
LEMMA HostLeftTyped == ASSUME Typed, NEW s \in Sites, HostLeft(s) PROVE Typed'
<1> DEFINE left == [type |-> "PeerLeft", site |-> s]
<1>1. HostChannels(toHost')
  BY HostGetsTyped DEF HostLeft
<1>2. GuestFrame(left)
  BY DEF GuestFrame
<1>3. GuestChannels(toGuest')
  BY <1>2, SendTyped DEF Typed, HostLeft
<1>4. peers' = [peers EXCEPT ![Host] = Restrict(peers[Host], DOMAIN peers[Host] \ {s})]
  BY DEF HostLeft
<1>5. DOMAIN peers' = Nodes /\ \A n \in Nodes : DOMAIN peers'[n] \subseteq DOMAIN peers[n]
  BY <1>4 DEF Typed, TypeOK, Restrict
<1>6. DOMAIN remoteCursors' = Nodes
  BY DEF HostLeft, Typed
<1>7. UNCHANGED <<nextSiteId, guestTxs, linkUp, hostOut, phase, settings, tabVars, localClock,
                  serverClock, budget>>
  BY DEF HostLeft
<1> QED
  BY <1>1, <1>3, <1>5, <1>6, <1>7 DEF Typed, TypeOK, tabVars, HostChannels, HostFrame
-----------------------------------------------------------------------------
(* A guest's main loop.                                                    *)

\* What every event of a guest leaves alone.
LEMMA GuestEventFrame ==
  ASSUME NEW s \in Sites, GuestEvent(s)
  PROVE  /\ toGuest[s] # <<>> /\ toGuest' = [toGuest EXCEPT ![s] = Tail(@)]
         /\ UNCHANGED <<nextSiteId, guestTxs, linkUp, toHost, hostOut, settings, active,
                        localClock, budget>>
<1>1. CASE GuestWelcome(s)
  BY <1>1 DEF GuestWelcome, GuestGets
<1>2. CASE GuestSkips(s)
  BY <1>2 DEF GuestSkips, memberVars, tabVars, opVars
<1>3. CASE GuestOp(s)
  BY <1>3 DEF GuestOp, GuestGets, memberVars, ApplyRemote
<1>4. CASE GuestAck(s)
  BY <1>4 DEF GuestAck, GuestGets, memberVars, tabVars
<1>5. CASE GuestCursor(s)
  BY <1>5 DEF GuestCursor, GuestGets, memberVars, tabVars
<1>6. CASE GuestRoster(s)
  BY <1>6 DEF GuestRoster, GuestGets, tabVars
<1>7. CASE GuestFileSaved(s)
  BY <1>7 DEF GuestFileSaved, GuestGets, memberVars, opVars
<1>8. CASE GuestDisconnected(s)
  BY <1>8 DEF GuestDisconnected, GuestGets, opVars
<1> QED
  BY <1>1, <1>2, <1>3, <1>4, <1>5, <1>6, <1>7, <1>8 DEF GuestEvent

\* What some of them change stays typed.
LEMMA GuestEventChanges ==
  ASSUME Typed, NEW s \in Sites, GuestEvent(s)
  PROVE  /\ phase' \in [Sites -> {"idle", "connecting", "joined", "detached", "closed"}]
         /\ serverClock' \in [Nodes -> Nat \union {NoSession}]
         /\ DOMAIN peers' = Nodes /\ \A n \in Nodes : DOMAIN peers'[n] \subseteq Sites
         /\ DOMAIN snapshot' = Nodes /\ \A n \in Nodes : Len(snapshot'[n]) <= 1
         /\ DOMAIN remoteCursors' = Nodes
<1> DEFINE m == Head(toGuest[s])
<1>0. GuestFrame(m) /\ s \in Nodes
  BY GuestEventFrame, GuestGetsTyped, NodesAndSites
<1>1. CASE GuestWelcome(s)
  <2>1. m.type = "Welcome"
    BY <1>1 DEF GuestWelcome, GuestGets
  <2>2. m.clock \in Nat \union {NoSession} /\ DOMAIN m.peers \subseteq Sites
    BY <1>0, <2>1 DEF GuestFrame
  <2>3. phase' \in [Sites -> {"idle", "connecting", "joined", "detached", "closed"}]
    BY <1>1 DEF GuestWelcome, Typed, TypeOK
  <2>4. /\ serverClock' \in {serverClock, [serverClock EXCEPT ![s] = m.clock]}
        /\ peers' \in {peers, [peers EXCEPT ![s] = m.peers]}
        /\ UNCHANGED <<snapshot, remoteCursors>>
    BY <1>1 DEF GuestWelcome
  <2>5. serverClock \in [Nodes -> Nat \union {NoSession}]
    BY DEF Typed, TypeOK
  <2>6. [serverClock EXCEPT ![s] = m.clock] \in [Nodes -> Nat \union {NoSession}]
    BY <2>2, <2>5
  <2>7. serverClock' \in [Nodes -> Nat \union {NoSession}]
    BY <2>4, <2>5, <2>6
  <2>8. DOMAIN peers' = Nodes /\ \A n \in Nodes : DOMAIN peers'[n] \subseteq Sites
    BY <2>2, <2>4 DEF Typed, TypeOK
  <2> QED
    BY <2>3, <2>4, <2>7, <2>8 DEF Typed, TypeOK
<1>2. CASE GuestSkips(s)
  BY <1>2 DEF GuestSkips, memberVars, tabVars, opVars, Typed, TypeOK
<1>3. CASE GuestOp(s)
  <2>1. PICK ops : ApplyRemote(s, m, ops)
    BY <1>3 DEF GuestOp
  <2>2. DOMAIN remoteCursors' = Nodes /\ UNCHANGED snapshot
    BY <2>1, ApplyRemoteKeeps
  <2> QED
    BY <1>3, <2>2 DEF GuestOp, memberVars, Typed, TypeOK
<1>4. CASE GuestAck(s)
  BY <1>4 DEF GuestAck, memberVars, tabVars, Typed, TypeOK
<1>5. CASE GuestCursor(s)
  BY <1>5 DEF GuestCursor, memberVars, tabVars, Typed, TypeOK
<1>6. CASE GuestRoster(s)
  <2>1. DOMAIN RosterAfter(peers[s], m) \subseteq Sites
    <3>1. DOMAIN peers[s] \subseteq Sites
      BY <1>0 DEF Typed, TypeOK
    <3>2. CASE m.type = "PeerJoined"
      BY <1>0, <3>1, <3>2 DEF RosterAfter, Put, GuestFrame
    <3>3. CASE m.type = "PeerLeft"
      BY <3>1, <3>3 DEF RosterAfter, Restrict
    <3>4. CASE m.type \notin {"PeerJoined", "PeerLeft"}
      BY <3>1, <3>4 DEF RosterAfter
    <3> QED
      BY <3>2, <3>3, <3>4
  <2>2. peers' = [peers EXCEPT ![s] = RosterAfter(peers[s], m)]
    BY <1>6 DEF GuestRoster
  <2>3. DOMAIN peers' = Nodes /\ \A n \in Nodes : DOMAIN peers'[n] \subseteq Sites
    BY <2>1, <2>2 DEF Typed, TypeOK
  <2>4. DOMAIN remoteCursors' = Nodes
    BY <1>6 DEF GuestRoster, Typed
  <2> QED
    BY <1>6, <2>3, <2>4 DEF GuestRoster, tabVars, Typed, TypeOK
<1>7. CASE GuestFileSaved(s)
  BY <1>7 DEF GuestFileSaved, memberVars, opVars, Typed, TypeOK
<1>8. CASE GuestDisconnected(s)
  <2>1. /\ phase' = [phase EXCEPT ![s] = "closed"]
        /\ snapshot' = [snapshot EXCEPT ![s] = <<>>] /\ Len(<<>>) = 0
    BY <1>8 DEF GuestDisconnected
  <2> QED
    BY <1>8, <2>1 DEF GuestDisconnected, opVars, Typed, TypeOK
<1> QED
  BY <1>1, <1>2, <1>3, <1>4, <1>5, <1>6, <1>7, <1>8 DEF GuestEvent

\* Every event of a guest is typed.
LEMMA GuestEventTyped == ASSUME Typed, NEW s \in Sites, GuestEvent(s) PROVE Typed'
<1>1. /\ toGuest[s] # <<>> /\ toGuest' = [toGuest EXCEPT ![s] = Tail(@)]
      /\ UNCHANGED <<nextSiteId, guestTxs, linkUp, toHost, hostOut, settings, active,
                     localClock, budget>>
  BY GuestEventFrame
<1>2. GuestChannels(toGuest')
  BY <1>1, GuestGetsTyped
<1>3. /\ phase' \in [Sites -> {"idle", "connecting", "joined", "detached", "closed"}]
      /\ serverClock' \in [Nodes -> Nat \union {NoSession}]
      /\ DOMAIN peers' = Nodes /\ \A n \in Nodes : DOMAIN peers'[n] \subseteq Sites
      /\ DOMAIN snapshot' = Nodes /\ \A n \in Nodes : Len(snapshot'[n]) <= 1
      /\ DOMAIN remoteCursors' = Nodes
  BY GuestEventChanges
<1> QED
  BY <1>1, <1>2, <1>3 DEF Typed, TypeOK, HostChannels, HostFrame

-----------------------------------------------------------------------------
\* Typed is inductive.
LEMMA StepTyped == ASSUME Typed, [Next]_vars PROVE Typed'
<1>1. CASE Connect
  BY <1>1, ConnectTyped
<1>2. CASE HostWriter
  BY <1>2, HostWriterTyped
<1>3. ASSUME NEW s \in Sites, HostEvent(s) PROVE Typed'
  BY <1>3, HostJoinTyped, HostOpTyped, HostCursorTyped, HostRoleRequestTyped, HostLeftTyped
     DEF HostEvent
<1>4. ASSUME NEW s \in Sites,
             GuestEvent(s) \/ ReaderEof(s) \/ GuestExit(s) \/ ConnectionLost(s)
      PROVE  Typed'
  BY <1>4, GuestEventTyped, ReaderEofTyped, GuestExitTyped, ConnectionLostTyped
<1>5. CASE UserAction
  BY <1>5, UserActionTyped
<1>6. CASE UNCHANGED vars
  BY <1>6 DEF vars, netVars, memberVars, tabVars, opVars, Typed, TypeOK, HostChannels, HostFrame
<1> QED
  BY <1>1, <1>2, <1>3, <1>4, <1>5, <1>6 DEF Next

\* Typed always holds.
LEMMA AlwaysTyped == Spec => []Typed
  BY InitTyped, StepTyped, PTL DEF Spec

\* The control state of the session keeps its types: the frames on the channels
\* are of the kinds the two main loops expect, and a link that works belongs to
\* a registered connection (start_host, handle_guest, handle_collab_msg).
THEOREM SessionTypeCorrect == Spec => []TypeOK
<1>1. Typed => TypeOK
  BY DEF Typed
<1> QED
  BY <1>1, AlwaysTyped, PTL
-----------------------------------------------------------------------------
(* Membership.  SendersAreMembers is not inductive: that what a guest sends *)
(* finds it in the peer list depends on where Join and Left stand in its   *)
(* channel, and on Welcome being sent to members only.                     *)

Requests == {"Op", "CursorUpdate", "RoleChangeRequest"}
Member(s) == s \in DOMAIN peers[Host]

FreshSite(s)      == s >= nextSiteId =>
                        toHost[s] = <<>> /\ toGuest[s] = <<>> /\ ~Member(s)
JoinComesFirst(s) == \A i \in 1 .. Len(toHost[s]) :
                        toHost[s][i].type = "Join" => i = 1 /\ ~Member(s)
LeftComesLast(s)  == \A i \in 1 .. Len(toHost[s]) :
                        toHost[s][i].type = "Left" => i = Len(toHost[s]) /\ s \notin guestTxs
AskersAreIn(s)    == \A m \in ToSet(toHost[s]) : m.type \in Requests => Member(s)
WelcomedAreIn(s)  == s \in linkUp /\ (phase[s] = "joined" \/ Carries(toGuest[s], "Welcome"))
                        => Member(s)

MembershipOf(s) == /\ FreshSite(s) /\ JoinComesFirst(s) /\ LeftComesLast(s)
                   /\ AskersAreIn(s) /\ WelcomedAreIn(s)
CursorsOfMembers == DOMAIN remoteCursors[Host] \subseteq DOMAIN peers[Host]
Membership == CursorsOfMembers /\ \A s \in Sites : MembershipOf(s)
\* What a step may do to a guest's channel without promising it membership.
Unpromising(q, s) ==
    /\ toGuest[s] = <<>> /\ s \notin guestTxs => q[s] = <<>>
    /\ Carries(q[s], "Welcome") => Carries(toGuest[s], "Welcome")

\* A frame other than Welcome promises nobody membership.
LEMMA SendUnpromising ==
  ASSUME Typed, NEW s \in Sites, NEW sites, NEW m, m.type # "Welcome"
  PROVE  /\ Unpromising(Send(toGuest, sites, m), s) /\ Unpromising(Broadcast(toGuest, sites, m), s)
<1>1. ASSUME NEW to PROVE Unpromising(Send(toGuest, to, m), s)
  <2>1. Send(toGuest, to, m)[s] = IF s \in to \cap guestTxs \cap linkUp
                                  THEN Append(toGuest[s], m) ELSE toGuest[s]
    BY DEF Send
  <2>2. Channel(toGuest[s])
    BY DEF Typed, GuestChannels
  <2>3. ToSet(Append(toGuest[s], m)) = ToSet(toGuest[s]) \union {m}
    BY <2>2, SendFrame
  <2> QED
    BY <2>1, <2>3 DEF Unpromising, Carries
<1> QED
  BY <1>1 DEF Broadcast

\* A site whose channel to the host and whose membership a step leaves alone.
LEMMA MembershipKept ==
  ASSUME Typed, NEW s \in Sites, MembershipOf(s),
         toHost'[s] = toHost[s], Member(s)' <=> Member(s),
         nextSiteId' \in Nat, nextSiteId' >= nextSiteId,
         s \in guestTxs' => s \in guestTxs, s \in linkUp' => s \in linkUp,
         toGuest[s] = <<>> /\ s \notin guestTxs => toGuest'[s] = <<>>,
         s \in linkUp' /\ (phase'[s] = "joined" \/ Carries(toGuest'[s], "Welcome"))
            => phase[s] = "joined" \/ Carries(toGuest[s], "Welcome")
  PROVE  MembershipOf(s)'
<1>1. s \in Nat /\ nextSiteId \in Nat /\ (s >= nextSiteId => s \notin guestTxs)
  BY NodesAndSites DEF Typed, TypeOK, Sites
<1>2. FreshSite(s)'
  BY <1>1 DEF MembershipOf, FreshSite, Member
<1>3. JoinComesFirst(s)' /\ LeftComesLast(s)' /\ AskersAreIn(s)'
  BY DEF MembershipOf, JoinComesFirst, LeftComesLast, AskersAreIn, Member
<1>4. WelcomedAreIn(s)'
  BY DEF MembershipOf, WelcomedAreIn, Carries, Member
<1> QED
  BY <1>2, <1>3, <1>4 DEF MembershipOf

\* A joined guest sends requests.
LEMMA MembershipSending ==
  ASSUME Typed, NEW s \in Sites, MembershipOf(s), NEW out, Channel(out),
         \A m \in ToSet(out) : m.type \in Requests,
         s \in linkUp, phase[s] = "joined", toHost'[s] = toHost[s] \o out,
         UNCHANGED <<nextSiteId, guestTxs, linkUp, phase, peers>>
  PROVE  MembershipOf(s)'
<1> DEFINE q == toHost[s]
<1>1. s \in Nat /\ nextSiteId \in Nat /\ s \in guestTxs /\ ~(s >= nextSiteId)
  BY NodesAndSites DEF Typed, TypeOK, Sites
<1>2. Member(s) /\ Member(s)'
  BY DEF MembershipOf, WelcomedAreIn, Member
<1>3. /\ Channel(q) /\ Len(q) \in Nat /\ Len(out) \in Nat /\ Len(q \o out) = Len(q) + Len(out)
      /\ ToSet(q \o out) = ToSet(q) \union ToSet(out)
      /\ \A i \in 1 .. Len(q) : (q \o out)[i] = q[i]
      /\ \A i \in 1 .. Len(out) : (q \o out)[Len(q) + i] = out[i] /\ out[i] \in ToSet(out)
  <2>1. Channel(q)
    BY DEF Typed, HostChannels
  <2> QED
    BY <2>1, JoinChannels
<1>4. ASSUME NEW i \in 1 .. Len(q \o out)
      PROVE  (q \o out)[i].type \notin {"Join", "Left"}
  <2>1. CASE i \in 1 .. Len(q)
    BY <1>1, <1>2, <1>3, <2>1 DEF MembershipOf, JoinComesFirst, LeftComesLast
  <2>2. CASE i \notin 1 .. Len(q)
    <3>1. i - Len(q) \in 1 .. Len(out) /\ i = Len(q) + (i - Len(q))
      BY <1>3, <2>2
    <3>2. (q \o out)[i] \in ToSet(out)
      BY <1>3, <3>1
    <3> QED
      BY <3>2 DEF Requests
  <2> QED
    BY <2>1, <2>2
<1>5. FreshSite(s)'
  BY <1>1 DEF FreshSite
<1>6. JoinComesFirst(s)' /\ LeftComesLast(s)'
  BY <1>4 DEF JoinComesFirst, LeftComesLast
<1>7. AskersAreIn(s)' /\ WelcomedAreIn(s)'
  BY <1>2 DEF AskersAreIn, WelcomedAreIn
<1> QED
  BY <1>5, <1>6, <1>7 DEF MembershipOf
\* The host handles a request: the rest of its channel stays in order.
LEMMA MembershipHandling ==
  ASSUME Typed, NEW s \in Sites, MembershipOf(s), toHost[s] # <<>>,
         Head(toHost[s]).type \in Requests, toHost' = [toHost EXCEPT ![s] = Tail(@)],
         Member(s)' <=> Member(s), UNCHANGED <<nextSiteId, guestTxs>>
  PROVE  MembershipOf(s)'
<1> DEFINE q == toHost[s]
<1>1. Channel(q) /\ toHost'[s] = Tail(q)
  BY DEF Typed, HostChannels
<1>2. /\ Head(q) \in ToSet(q) /\ ToSet(Tail(q)) \subseteq ToSet(q)
      /\ Len(q) \in Nat \ {0} /\ Len(Tail(q)) = Len(q) - 1
      /\ \A i \in 1 .. Len(Tail(q)) : Tail(q)[i] = q[i + 1]
  BY <1>1, ReceiveFrame
<1>3. Member(s) /\ Member(s)'
  BY <1>2 DEF MembershipOf, AskersAreIn
<1>4. FreshSite(s)'
  BY DEF MembershipOf, FreshSite
<1>5. JoinComesFirst(s)'
  BY <1>1, <1>2 DEF MembershipOf, JoinComesFirst
<1>6. LeftComesLast(s)'
  BY <1>1, <1>2 DEF MembershipOf, LeftComesLast
<1>7. AskersAreIn(s)' /\ WelcomedAreIn(s)'
  BY <1>3 DEF AskersAreIn, WelcomedAreIn
<1> QED
  BY <1>4, <1>5, <1>6, <1>7 DEF MembershipOf

-----------------------------------------------------------------------------
\* Nobody is connected at first, and no channel promises anything.
LEMMA InitMembership == Init => Membership
<1> SUFFICES ASSUME Init PROVE Membership
  OBVIOUS
<1>1. CursorsOfMembers
  BY NodesAndSites DEF Init, CursorsOfMembers, EmptyMap
<1>2. ASSUME NEW s \in Sites PROVE MembershipOf(s)
  <2>1. toHost[s] = <<>> /\ toGuest[s] = <<>> /\ ~Member(s) /\ Len(<<>>) = 0 /\ s \notin linkUp
    BY NodesAndSites DEF Init, Member, EmptyMap
  <2> QED
    BY <2>1, EmptyChannel
       DEF MembershipOf, FreshSite, JoinComesFirst, LeftComesLast, AskersAreIn, WelcomedAreIn
<1> QED
  BY <1>1, <1>2 DEF Membership

\* A new connection is not a member and its only frame is its Join.
LEMMA ConnectMembership == ASSUME Typed, Membership, Connect PROVE Membership'
<1> DEFINE new  == nextSiteId
           join == <<[type |-> "Join"]>>
<1>1. /\ new \in Sites /\ new \in Nat /\ nextSiteId' = new + 1
      /\ guestTxs' = guestTxs \union {new} /\ linkUp' = linkUp \union {new}
      /\ toHost' = [toHost EXCEPT ![new] = join]
      /\ phase' = [phase EXCEPT ![new] = "connecting"]
      /\ UNCHANGED <<toGuest, peers, remoteCursors>>
  BY NodesAndSites DEF Connect, Typed, TypeOK, Sites, opVars
<1>2. CursorsOfMembers'
  BY <1>1 DEF Membership, CursorsOfMembers
<1>3. ASSUME NEW s \in Sites PROVE MembershipOf(s)'
  <2>1. CASE s # new
    <3>1. toHost'[s] = toHost[s] /\ (Member(s)' <=> Member(s)) /\ phase'[s] = phase[s]
      BY <1>1, <2>1 DEF Typed, TypeOK, HostChannels, Member
    <3> QED
      BY <1>1, <2>1, <3>1, MembershipKept DEF Membership
  <2>2. CASE s = new
    <3>1. toGuest'[s] = <<>> /\ ~Member(s)'
      BY <1>1, <2>2 DEF Membership, MembershipOf, FreshSite, Member
    <3>2. toHost'[s] = join /\ phase'[s] = "connecting"
      BY <1>1, <2>2 DEF Typed, TypeOK, HostChannels
    <3>3. ToSet(join) = {[type |-> "Join"]} /\ Len(join) = 1 /\ join[1] = [type |-> "Join"]
      BY OneFrame
    <3>4. FreshSite(s)'
      BY <1>1, <2>2 DEF FreshSite
    <3>5. JoinComesFirst(s)' /\ LeftComesLast(s)'
      BY <3>1, <3>2, <3>3 DEF JoinComesFirst, LeftComesLast
    <3>6. AskersAreIn(s)'
      BY <3>2, <3>3 DEF AskersAreIn, Requests
    <3>7. WelcomedAreIn(s)'
      BY <3>1, <3>2, EmptyChannel DEF WelcomedAreIn, Carries
    <3> QED
      BY <3>4, <3>5, <3>6, <3>7 DEF MembershipOf
  <2> QED
    BY <2>1, <2>2
<1> QED
  BY <1>2, <1>3 DEF Membership

\* The Left a reader thread appends is the last frame of its channel.
LEMMA ReaderEofMembership ==
  ASSUME Typed, Membership, NEW x \in Sites, ReaderEof(x) PROVE Membership'
<1> DEFINE left == [type |-> "Left"]
           q    == toHost[x]
<1>1. /\ x \in guestTxs /\ x \notin linkUp /\ guestTxs' = guestTxs \ {x}
      /\ toHost' = [toHost EXCEPT ![x] = Append(q, left)]
      /\ UNCHANGED <<nextSiteId, linkUp, toGuest, phase, peers, remoteCursors>>
  BY DEF ReaderEof, memberVars, opVars
<1>2. CursorsOfMembers'
  BY <1>1 DEF Membership, CursorsOfMembers
<1>3. nextSiteId \in Nat /\ nextSiteId >= nextSiteId /\ ~(x >= nextSiteId)
  BY <1>1, NodesAndSites DEF Typed, TypeOK, Sites
<1>4. ASSUME NEW s \in Sites, s # x PROVE MembershipOf(s)'
  <2>1. toHost'[s] = toHost[s] /\ (Member(s)' <=> Member(s))
    BY <1>1, <1>4 DEF Typed, HostChannels, Member
  <2> QED
    BY <1>1, <1>3, <2>1, MembershipKept DEF Membership
<1>5. MembershipOf(x)'
  <2>1. Channel(q) /\ toHost'[x] = Append(q, left) /\ MembershipOf(x)
    BY <1>1 DEF Typed, HostChannels, Membership
  <2>2. /\ ToSet(Append(q, left)) = ToSet(q) \union {left}
        /\ Len(Append(q, left)) = Len(q) + 1 /\ Len(q) \in Nat
        /\ Append(q, left)[Len(q) + 1] = left
        /\ \A i \in 1 .. Len(q) : Append(q, left)[i] = q[i]
    BY <2>1, SendFrame
  <2>3. \A i \in 1 .. Len(q) + 1 : i \in 1 .. Len(q) \/ i = Len(q) + 1
    BY <2>2
  <2>4. FreshSite(x)'
    BY <1>1, <1>3 DEF FreshSite
  <2>5. JoinComesFirst(x)'
    BY <1>1, <2>1, <2>2, <2>3 DEF MembershipOf, JoinComesFirst, Member
  <2>6. LeftComesLast(x)'
    BY <1>1, <2>1, <2>2, <2>3 DEF MembershipOf, LeftComesLast
  <2>7. AskersAreIn(x)'
    BY <1>1, <2>1, <2>2 DEF MembershipOf, AskersAreIn, Requests, Member
  <2>8. WelcomedAreIn(x)'
    BY <1>1 DEF WelcomedAreIn
  <2> QED
    BY <2>4, <2>5, <2>6, <2>7, <2>8 DEF MembershipOf
<1> QED
  BY <1>2, <1>4, <1>5 DEF Membership
\* Steps that neither touch what guests have sent nor who is a member.
LEMMA MembershipQuiet ==
  ASSUME Typed, Membership, UNCHANGED <<nextSiteId, guestTxs, toHost>>,
         linkUp' \subseteq linkUp,
         \A s \in Sites : Member(s)' <=> Member(s),
         \A s \in Sites : s \in linkUp' /\ phase'[s] = "joined"
                            => phase[s] = "joined" \/ Carries(toGuest[s], "Welcome"),
         \A s \in Sites : toGuest[s] = <<>> /\ s \notin guestTxs => toGuest'[s] = <<>>,
         \A s \in Sites : s \in linkUp' /\ Carries(toGuest'[s], "Welcome")
                            => Carries(toGuest[s], "Welcome"),
         CursorsOfMembers'
  PROVE  Membership'
<1>1. nextSiteId \in Nat /\ nextSiteId >= nextSiteId
  BY NodesAndSites DEF Typed, TypeOK
<1>2. ASSUME NEW s \in Sites PROVE MembershipOf(s)'
  BY <1>1, MembershipKept DEF Membership
<1> QED
  BY <1>2 DEF Membership

\* The writer thread touches the guests' channels only.
LEMMA HostWriterMembership == ASSUME Typed, Membership, HostWriter PROVE Membership'
<1>1. Head(hostOut).type # "Welcome"
  <2>1. Head(hostOut) \in ToSet(hostOut)
    BY ReceiveFrame DEF HostWriter, Typed, Outgoing
  <2> QED
    BY <2>1 DEF Typed, Outgoing
<1>2. /\ UNCHANGED <<nextSiteId, guestTxs, linkUp, toHost, phase, peers, remoteCursors>>
      /\ toGuest' = Broadcast(toGuest, {}, Head(hostOut))
  BY DEF HostWriter, memberVars, opVars
<1>3. \A s \in Sites : Unpromising(toGuest', s)
  BY <1>1, <1>2, SendUnpromising
<1> QED
  BY <1>2, <1>3, MembershipQuiet DEF Unpromising, Member, Membership, CursorsOfMembers

\* A connection that goes down keeps a prefix of what its guest sent.
LEMMA LinkDownMembership ==
  ASSUME Typed, Membership, NEW x \in Sites, GuestExit(x) \/ ConnectionLost(x) PROVE Membership'
<1> USE DEF Typed
<1>1. /\ UNCHANGED <<nextSiteId, guestTxs, peers, remoteCursors>> /\ linkUp' = linkUp \ {x}
      /\ \A s \in Sites : phase'[s] = "joined" => phase[s] = "joined"
  <2>1. CASE GuestExit(x)
    BY <2>1 DEF GuestExit, opVars, TypeOK
  <2>2. CASE ConnectionLost(x)
    BY <2>2 DEF ConnectionLost, memberVars, opVars
  <2> QED
    BY <2>1, <2>2
<1>2. x \in guestTxs \/ toGuest'[x] = <<>>
  BY DEF GuestExit, ConnectionLost, TypeOK, GuestChannels
<1>3. \A s \in Sites \ {x} : toHost'[s] = toHost[s] /\ toGuest'[s] = toGuest[s]
  BY DEF GuestExit, ConnectionLost, HostChannels, GuestChannels
<1>4. CursorsOfMembers'
  BY <1>1 DEF Membership, CursorsOfMembers
<1>5. nextSiteId \in Nat /\ nextSiteId >= nextSiteId
  BY NodesAndSites DEF TypeOK
<1>6. ASSUME NEW s \in Sites \ {x} PROVE MembershipOf(s)'
  BY <1>1, <1>3, <1>5, MembershipKept DEF Membership, Member
<1>7. MembershipOf(x)'
  <2>1. CASE GuestExit(x)
    <3>1. toHost'[x] = toHost[x] /\ x \notin linkUp' /\ toGuest'[x] = <<>>
      BY <2>1 DEF GuestExit, GuestChannels
    <3> QED
      BY <1>1, <1>5, <3>1, MembershipKept DEF Membership, Member
  <2>2. CASE ConnectionLost(x)
    <3> DEFINE q == toHost[x]
    <3>1. PICK i \in 0 .. Len(q) : toHost' = [toHost EXCEPT ![x] = SubSeq(@, 1, i)]
      BY <2>2 DEF ConnectionLost
    <3>2. /\ Channel(q) /\ toHost'[x] = SubSeq(q, 1, i) /\ MembershipOf(x)
          /\ x \in guestTxs /\ ~(x >= nextSiteId)
      BY <2>2, <3>1, <1>5, NodesAndSites DEF ConnectionLost, HostChannels, Membership, TypeOK, Sites
    <3>3. /\ ToSet(SubSeq(q, 1, i)) \subseteq ToSet(q) /\ Len(SubSeq(q, 1, i)) = i
          /\ \A j \in 1 .. i : SubSeq(q, 1, i)[j] = q[j] /\ j \in 1 .. Len(q)
      BY <3>2, LoseFrames
    <3>4. FreshSite(x)'
      BY <1>1, <3>2 DEF FreshSite
    <3>5. JoinComesFirst(x)' /\ LeftComesLast(x)'
      BY <1>1, <3>2, <3>3 DEF MembershipOf, JoinComesFirst, LeftComesLast, Member
    <3>6. AskersAreIn(x)' /\ WelcomedAreIn(x)'
      BY <1>1, <3>2, <3>3 DEF MembershipOf, AskersAreIn, WelcomedAreIn, Member
    <3> QED
      BY <3>4, <3>5, <3>6 DEF MembershipOf
  <2> QED
    BY <2>1, <2>2
<1> QED
  BY <1>4, <1>6, <1>7 DEF Membership

\* A key event, whatever else the action does to the guests' channels.
LEMMA KeyActionMembership ==
  ASSUME Typed, Membership, NEW n \in Nodes, NEW t, NEW c, NEW capture, NEW kind,
         KeyEvent(n, t, c, capture, kind),
         \A s \in Sites : Unpromising(toGuest', s)
  PROVE  Membership'
<1>1. /\ HasSession(n)
      /\ UNCHANGED <<nextSiteId, guestTxs, linkUp, memberVars, active, serverClock, remoteCursors>>
  BY DEF KeyEvent
<1>2. UNCHANGED <<phase, peers>>
  BY <1>1 DEF memberVars
<1>3. PICK out : Sends(n, out)
  BY KeyEventSends
<1>4. CursorsOfMembers'
  BY <1>1, <1>2 DEF Membership, CursorsOfMembers
<1>5. nextSiteId \in Nat /\ nextSiteId >= nextSiteId
  BY NodesAndSites DEF Typed, TypeOK
<1>6. ASSUME NEW s \in Sites PROVE MembershipOf(s)'
  <2>1. CASE s = n /\ s \in linkUp
    <3>1. phase[s] = "joined"
      BY <1>1, <2>1, NodesAndSites DEF HasSession
    <3>2. toHost'[s] = toHost[s] \o out /\ Channel(out)
      BY <1>3, <2>1 DEF Sends, Typed, HostChannels
    <3>3. \A m \in ToSet(out) : m.type \in Requests
      BY <1>3 DEF Sends, Requests
    <3> QED
      BY <1>1, <1>2, <2>1, <3>1, <3>2, <3>3, MembershipSending DEF Membership
  <2>2. CASE ~(s = n /\ s \in linkUp)
    <3>1. toHost'[s] = toHost[s]
      BY <1>3, <2>2 DEF Sends, Typed, HostChannels
    <3> QED
      BY <1>1, <1>2, <1>5, <3>1, MembershipKept DEF Membership, Member, Unpromising
  <2> QED
    BY <2>1, <2>2
<1> QED
  BY <1>4, <1>6 DEF Membership
\* Users send operations, cursors and role requests, in sessions only.
LEMMA UserActionMembership == ASSUME Typed, Membership, UserAction PROVE Membership'
<1> DEFINE Calm == \A s \in Sites : Unpromising(toGuest', s)
<1>1. UNCHANGED toGuest => Calm
  BY DEF Unpromising
<1>2. ASSUME NEW m, m.type # "Welcome", toGuest' = Broadcast(toGuest, {}, m) PROVE Calm
  BY <1>2, SendUnpromising
<1>3. ASSUME NEW n \in Nodes, Edit(n) PROVE Membership'
  <2>1. PICK e : KeyEvent(n, e.text, e.cursor, Captured(n), "edits") /\ UNCHANGED toGuest
    BY <1>3 DEF Edit
  <2> QED
    BY <1>1, <2>1, KeyActionMembership
<1>4. ASSUME NEW n \in Nodes, Move(n) PROVE Membership'
  <2>1. PICK c : KeyEvent(n, text[n][active[n]], c, snapshot[n], "moves") /\ UNCHANGED toGuest
    BY <1>4 DEF Move
  <2> QED
    BY <1>1, <2>1, KeyActionMembership
<1>5. ASSUME NEW n \in Nodes, DeferredEdit(n) \/ SwitchTab(n) PROVE Membership'
  <2>1. UNCHANGED <<netVars, memberVars, opVars>>
    BY <1>5 DEF DeferredEdit, SwitchTab
  <2> QED
    BY <2>1, MembershipQuiet DEF netVars, memberVars, opVars, Member, Membership, CursorsOfMembers
<1>6. ASSUME NEW n \in Nodes, Save(n) PROVE Membership'
  <2> DEFINE saved == [type |-> "FileSaved", path |-> active[n], content |-> text[n][active[n]]]
  <2>1. /\ KeyEvent(n, text[n][active[n]], cursor[n][active[n]], snapshot[n], "saves")
        /\ toGuest' = IF n = Host THEN Broadcast(toGuest, {}, saved) ELSE toGuest
    BY <1>6 DEF Save
  <2>2. Calm
    BY <1>1, <1>2, <2>1
  <2> QED
    BY <2>1, <2>2, KeyActionMembership
<1>7. ASSUME Undo PROVE Membership'
  BY <1>1, <1>7, KeyActionMembership, NodesAndSites DEF Undo
<1>8. ASSUME NEW role, NEW perm, TogglePerm(role, perm) PROVE Membership'
  <2>1. Calm
    BY <1>2, <1>8 DEF TogglePerm
  <2>2. UNCHANGED <<nextSiteId, guestTxs, linkUp, toHost, phase, peers, remoteCursors>>
    BY <1>8 DEF TogglePerm, opVars
  <2> QED
    BY <2>1, <2>2, MembershipQuiet DEF Unpromising, Member, Membership, CursorsOfMembers
<1>9. ASSUME NEW x \in Sites, RequestRole(x) PROVE Membership'
  <2>1. PICK target \in Sites, role \in Roles :
          toHost' = FromGuest(x, [type |-> "RoleChangeRequest", target |-> target, role |-> role])
    BY <1>9 DEF RequestRole
  <2> DEFINE m   == [type |-> "RoleChangeRequest", target |-> target, role |-> role]
             out == <<m>>
  <2>2. /\ phase[x] = "joined"
        /\ UNCHANGED <<nextSiteId, guestTxs, linkUp, toGuest, phase, peers, remoteCursors>>
    BY <1>9 DEF RequestRole, memberVars, opVars
  <2>3. Channel(out) /\ ToSet(out) = {m} /\ m.type \in Requests
    BY OneFrame DEF Requests
  <2>4. nextSiteId \in Nat /\ nextSiteId >= nextSiteId /\ DOMAIN toHost = Sites
    BY NodesAndSites DEF Typed, TypeOK, HostChannels
  <2>5. ASSUME NEW s \in Sites PROVE MembershipOf(s)'
    <3>1. CASE s = x /\ x \in linkUp
      <4>1. toHost'[x] = Append(toHost[x], m)
        BY <2>1, <2>4, <3>1 DEF FromGuest
      <4>2. Append(toHost[x], m) = toHost[x] \o out
        <5>1. toHost[x] \in Seq(ToSet(toHost[x]) \union {m})
          BY DEF Typed, HostChannels, Channel
        <5> QED
          BY <5>1
      <4> HIDE DEF m, out
      <4>3. toHost'[s] = toHost[s] \o out
        BY <3>1, <4>1, <4>2
      <4> QED
        BY <2>2, <2>3, <3>1, <4>3, MembershipSending DEF Membership
    <3>2. CASE ~(s = x /\ x \in linkUp)
      <4>1. toHost'[s] = toHost[s]
        BY <2>1, <2>4, <3>2 DEF FromGuest
      <4> QED
        BY <2>2, <2>4, <4>1, MembershipKept DEF Membership, Member
    <3> QED
      BY <3>1, <3>2
  <2> QED
    BY <2>2, <2>5 DEF Membership, CursorsOfMembers
<1> QED
  BY <1>3, <1>4, <1>5, <1>6, <1>7, <1>8, <1>9 DEF UserAction

\* Another guest's channel to the host is not touched, its own may get frames.
LEMMA MembershipOthers ==
  ASSUME Typed, Membership, NEW x \in Sites, NEW s \in Sites, s # x,
         toHost' = [toHost EXCEPT ![x] = Tail(@)],
         UNCHANGED <<nextSiteId, guestTxs, linkUp, phase>>,
         Member(s)' <=> Member(s), Unpromising(toGuest', s)
  PROVE  MembershipOf(s)'
<1>1. nextSiteId \in Nat /\ nextSiteId >= nextSiteId
  BY NodesAndSites DEF Typed, TypeOK
<1>2. toHost'[s] = toHost[s]
  BY DEF Typed, HostChannels
<1> QED
  BY <1>1, <1>2, MembershipKept DEF Membership, Unpromising

\* Operations, cursors and role requests come from members and add none.
LEMMA HostRequestMembership ==
  ASSUME Typed, Membership, NEW x \in Sites, HostOp(x) \/ HostCursor(x) \/ HostRoleRequest(x)
  PROVE  Membership'
<1> DEFINE m == Head(toHost[x])
<1>1. /\ toHost[x] # <<>> /\ toHost' = [toHost EXCEPT ![x] = Tail(@)]
      /\ m.type \in Requests
      /\ UNCHANGED <<nextSiteId, guestTxs, linkUp, phase>>
  BY DEF HostOp, HostCursor, HostRoleRequest, HostGets, Requests, memberVars
<1>2. \A s \in Sites : Member(s)' <=> Member(s)
  <2>1. \/ peers' = peers
        \/ peers' = [peers EXCEPT ![Host] = [peers[Host] EXCEPT ![m.target] = m.role]]
    BY DEF HostOp, HostCursor, HostRoleRequest, memberVars
  <2> QED
    BY <2>1, NodesAndSites DEF Member, Typed, TypeOK
<1>3. \A s \in Sites : Unpromising(toGuest', s)
  <2>1. CASE HostOp(x)
    <3> DEFINE ack == [type |-> "Ack", clock |-> m.clock, path |-> m.path]
    <3>1. m.type = "Op" /\ toGuest' \in {toGuest,
              Send(Broadcast(toGuest, {m.site}, m), {m.site}, ack)}
      BY <2>1 DEF HostOp, HostGets
    <3>2. ASSUME NEW s \in Sites
          PROVE  Unpromising(Send(Broadcast(toGuest, {m.site}, m), {m.site}, ack), s)
      <4> DEFINE b == Broadcast(toGuest, {m.site}, m)
      <4>1. Unpromising(b, s) /\ Channel(b[s])
        BY <3>1, SendUnpromising, SendTyped DEF Typed, GuestChannels, GuestFrame
      <4>2. Send(b, {m.site}, ack)[s] = IF s \in {m.site} \cap guestTxs \cap linkUp
                                        THEN Append(b[s], ack) ELSE b[s]
        BY DEF Send
      <4>3. ToSet(Append(b[s], ack)) = ToSet(b[s]) \union {ack} /\ ack.type # "Welcome"
        BY <4>1, SendFrame
      <4> DEFINE r == Send(b, {m.site}, ack)[s]
      <4>4. Carries(r, "Welcome") => Carries(b[s], "Welcome")
        <5> HIDE DEF b, ack
        <5>1. CASE r = b[s]
          BY <5>1
        <5>2. CASE r = Append(b[s], ack)
          BY <4>3, <5>2 DEF Carries
        <5> QED
          BY <4>2, <5>1, <5>2
      <4>5. s \notin guestTxs => r = b[s]
        BY <4>2
      <4> HIDE DEF b, r
      <4>6. Unpromising(b, s) => (toGuest[s] = <<>> /\ s \notin guestTxs => r = <<>>)
        BY <4>5 DEF Unpromising
      <4>7. Carries(r, "Welcome") => Carries(toGuest[s], "Welcome")
        BY <4>1, <4>4 DEF Unpromising
      <4> QED
        BY <4>1, <4>6, <4>7 DEF Unpromising, b, r
    <3> QED
      BY <3>1, <3>2 DEF Unpromising
  <2>2. CASE HostCursor(x)
    BY <2>2 DEF HostCursor, Unpromising
  <2>3. CASE HostRoleRequest(x)
    <3>1. \/ toGuest' = toGuest
          \/ toGuest' = Broadcast(toGuest, {}, [type |-> "PeerRoleChanged", site |-> m.target,
                                                role |-> m.role])
      BY <2>3 DEF HostRoleRequest
    <3> QED
      BY <3>1, SendUnpromising DEF Unpromising
  <2> QED
    BY <2>1, <2>2, <2>3
<1>4. \A s \in Sites : MembershipOf(s)'
  BY <1>1, <1>2, <1>3, MembershipHandling, MembershipOthers DEF Membership
<1>5. CursorsOfMembers'
  <2>1. DOMAIN peers'[Host] = DOMAIN peers[Host]
    <3>1. \/ peers' = peers
          \/ peers' = [peers EXCEPT ![Host] = [peers[Host] EXCEPT ![m.target] = m.role]]
      BY DEF HostOp, HostCursor, HostRoleRequest, memberVars
    <3> QED
      BY <3>1, NodesAndSites DEF Typed, TypeOK
  <2>2. CASE HostOp(x)
    <3>1. ApplyRemote(Host, m, m.ops)
      BY <2>2 DEF HostOp
    <3>2. DOMAIN remoteCursors'[Host] = DOMAIN remoteCursors[Host]
      BY <3>1, ApplyRemoteKeeps, NodesAndSites
    <3> QED
      BY <2>1, <3>2 DEF Membership, CursorsOfMembers
  <2>3. CASE HostCursor(x)
    <3>1. m \in ToSet(toHost[x]) /\ m.type = "CursorUpdate" /\ m.site = x
      BY <2>3, HostGetsTyped DEF HostCursor, HostFrame
    <3>2. x \in DOMAIN peers[Host]
      BY <3>1 DEF Membership, MembershipOf, AskersAreIn, Requests, Member
    <3>3. remoteCursors' = [remoteCursors EXCEPT ![Host] =
                               Put(remoteCursors[Host], m.site, [path |-> m.path, pos |-> m.pos])]
      BY <2>3 DEF HostCursor
    <3>4. DOMAIN remoteCursors'[Host] = DOMAIN remoteCursors[Host] \union {x}
      BY <3>1, <3>3, NodesAndSites DEF Typed, Put
    <3> QED
      BY <2>1, <3>2, <3>4 DEF Membership, CursorsOfMembers
  <2>4. CASE HostRoleRequest(x)
    BY <2>1, <2>4 DEF HostRoleRequest, opVars, Membership, CursorsOfMembers
  <2> QED
    BY <2>2, <2>3, <2>4
<1> QED
  BY <1>4, <1>5 DEF Membership
\* Handling Join makes the sender a member, and it is never sent twice.
LEMMA HostJoinMembership ==
  ASSUME Typed, Membership, NEW x \in Sites, HostJoin(x) PROVE ~Member(x) /\ Membership'
<1> DEFINE q       == toHost[x]
           welcome == [type |-> "Welcome",
                       doc |-> IF DocFile = Untitled THEN <<>> ELSE text[Host][DocFile],
                       clock |-> serverClock[Host], peers |-> peers[Host],
                       role |-> DefaultRole, perms |-> rolePerms[Host]]
           joined  == [type |-> "PeerJoined", site |-> x, role |-> DefaultRole]
           sent    == Send(toGuest, {x}, welcome)
<1>1. /\ q # <<>> /\ Head(q).type = "Join" /\ toHost' = [toHost EXCEPT ![x] = Tail(@)]
      /\ peers' = [peers EXCEPT ![Host] = Put(peers[Host], x, DefaultRole)]
      /\ toGuest' = Broadcast(sent, {x}, joined)
      /\ UNCHANGED <<nextSiteId, guestTxs, linkUp, phase, remoteCursors>>
  BY DEF HostJoin, HostGets, opVars
<1>2. /\ Channel(q) /\ toHost'[x] = Tail(q) /\ MembershipOf(x)
      /\ Head(q) = q[1] /\ ToSet(Tail(q)) \subseteq ToSet(q)
      /\ Len(q) \in Nat \ {0} /\ Len(Tail(q)) = Len(q) - 1
      /\ \A i \in 1 .. Len(Tail(q)) : Tail(q)[i] = q[i + 1]
  BY <1>1, ReceiveFrame DEF Typed, HostChannels, Membership
<1>3. ~Member(x)
  BY <1>1, <1>2 DEF MembershipOf, JoinComesFirst
<1>4. DOMAIN peers'[Host] = DOMAIN peers[Host] \union {x}
  BY <1>1, NodesAndSites DEF Put, Typed, TypeOK
<1>5. MembershipOf(x)'
  <2>1. FreshSite(x)'
    BY <1>1, <1>2 DEF MembershipOf, FreshSite
  <2>2. JoinComesFirst(x)'
    BY <1>2 DEF MembershipOf, JoinComesFirst
  <2>3. LeftComesLast(x)'
    BY <1>1, <1>2 DEF MembershipOf, LeftComesLast
  <2>4. AskersAreIn(x)' /\ WelcomedAreIn(x)'
    BY <1>4 DEF AskersAreIn, WelcomedAreIn, Member
  <2> QED
    BY <2>1, <2>2, <2>3, <2>4 DEF MembershipOf
<1>6. ASSUME NEW s \in Sites, s # x PROVE MembershipOf(s)'
  <2>1. sent[s] = toGuest[s]
    BY <1>6 DEF Send
  <2>2. toGuest'[s] = Broadcast(toGuest, {x}, joined)[s]
    <3> HIDE DEF sent, joined
    <3> QED
      BY <1>1, <2>1 DEF Broadcast, Send
  <2>3. Unpromising(Broadcast(toGuest, {x}, joined), s)
    BY SendUnpromising
  <2>4. Unpromising(toGuest', s)
    BY <2>2, <2>3 DEF Unpromising
  <2>5. Member(s)' <=> Member(s)
    BY <1>4, <1>6 DEF Member
  <2> QED
    BY <1>1, <1>6, <2>4, <2>5, MembershipOthers
<1>7. CursorsOfMembers'
  BY <1>1, <1>4 DEF Membership, CursorsOfMembers
<1> QED
  BY <1>3, <1>5, <1>6, <1>7 DEF Membership

\* Handling Left removes the sender, whose channel is then empty for good.
LEMMA HostLeftMembership ==
  ASSUME Typed, Membership, NEW x \in Sites, HostLeft(x) PROVE Membership'
<1> DEFINE q == toHost[x]
<1>1. /\ q # <<>> /\ Head(q).type = "Left" /\ toHost' = [toHost EXCEPT ![x] = Tail(@)]
      /\ peers' = [peers EXCEPT ![Host] = Restrict(peers[Host], DOMAIN peers[Host] \ {x})]
      /\ remoteCursors' = [remoteCursors EXCEPT ![Host] =
                              Restrict(remoteCursors[Host], DOMAIN remoteCursors[Host] \ {x})]
      /\ toGuest' = Broadcast(toGuest, {}, [type |-> "PeerLeft", site |-> x])
      /\ UNCHANGED <<nextSiteId, guestTxs, linkUp, phase>>
  BY DEF HostLeft, HostGets
<1>2. /\ Channel(q) /\ toHost'[x] = Tail(q) /\ MembershipOf(x)
      /\ Head(q) = q[1] /\ Len(q) \in Nat \ {0} /\ Len(Tail(q)) = Len(q) - 1
  BY <1>1, ReceiveFrame DEF Typed, HostChannels, Membership
<1>3. Len(q) = 1 /\ x \notin guestTxs
  <2>1. q[1].type = "Left" /\ 1 \in 1 .. Len(q)
    BY <1>1, <1>2
  <2>2. LeftComesLast(x)
    BY <1>2 DEF MembershipOf
  <2> QED
    BY <2>1, <2>2 DEF LeftComesLast
<1>4. ToSet(toHost'[x]) = {} /\ Len(toHost'[x]) = 0 /\ x \notin linkUp
  <2>1. ToSet(Tail(q)) = {} /\ Len(Tail(q)) = 0
    BY <1>1, <1>2, <1>3, OnlyFrame
  <2> QED
    BY <1>2, <1>3, <2>1 DEF Typed, TypeOK
<1>5. /\ DOMAIN peers'[Host] = DOMAIN peers[Host] \ {x}
      /\ DOMAIN remoteCursors'[Host] = DOMAIN remoteCursors[Host] \ {x}
  BY <1>1, NodesAndSites DEF Restrict, Typed, TypeOK
<1>6. MembershipOf(x)'
  <2>1. ~Member(x)'
    BY <1>5 DEF Member
  <2>2. FreshSite(x)'
    BY <1>1, <1>2 DEF MembershipOf, FreshSite
  <2>3. JoinComesFirst(x)' /\ LeftComesLast(x)'
    BY <1>4 DEF JoinComesFirst, LeftComesLast
  <2>4. AskersAreIn(x)' /\ WelcomedAreIn(x)'
    BY <1>1, <1>4 DEF AskersAreIn, WelcomedAreIn
  <2> QED
    BY <2>2, <2>3, <2>4 DEF MembershipOf
<1>7. ASSUME NEW s \in Sites, s # x PROVE MembershipOf(s)'
  <2>1. Unpromising(toGuest', s)
    BY <1>1, SendUnpromising DEF Unpromising
  <2>2. Member(s)' <=> Member(s)
    BY <1>5, <1>7 DEF Member
  <2> QED
    BY <1>1, <1>7, <2>1, <2>2, MembershipOthers
<1>8. CursorsOfMembers'
  BY <1>5 DEF Membership, CursorsOfMembers
<1> QED
  BY <1>6, <1>7, <1>8 DEF Membership

\* A guest joins only after the host has handled its Join.
LEMMA GuestEventMembership ==
  ASSUME Typed, Membership, NEW x \in Sites, GuestEvent(x) PROVE Membership'
<1> DEFINE m == Head(toGuest[x])
<1>1. /\ toGuest[x] # <<>> /\ toGuest' = [toGuest EXCEPT ![x] = Tail(@)]
      /\ UNCHANGED <<nextSiteId, guestTxs, linkUp, toHost>>
  BY GuestEventFrame
<1>2. m \in ToSet(toGuest[x]) /\ ToSet(Tail(toGuest[x])) \subseteq ToSet(toGuest[x])
  BY <1>1, ReceiveFrame DEF Typed, GuestChannels
<1>3. \A s \in Sites : /\ toGuest[s] = <<>> => toGuest'[s] = <<>>
                       /\ Carries(toGuest'[s], "Welcome") => Carries(toGuest[s], "Welcome")
  <2> TAKE s \in Sites
  <2>1. CASE s # x
    <3>1. toGuest'[s] = toGuest[s]
      BY <1>1, <2>1 DEF Typed, GuestChannels
    <3> QED
      BY <3>1
  <2>2. CASE s = x
    <3>1. toGuest'[x] = Tail(toGuest[x])
      BY <1>1 DEF Typed, GuestChannels
    <3> QED
      BY <1>1, <1>2, <2>2, <3>1 DEF Carries
  <2> QED
    BY <2>1, <2>2
<1>4. \A s \in Sites : phase'[s] = "joined" => phase[s] = "joined" \/ Carries(toGuest[s], "Welcome")
  <2>1. CASE GuestWelcome(x)
    <3>0. m.type = "Welcome"
      BY <2>1 DEF GuestWelcome, GuestGets
    <3>1. Carries(toGuest[x], "Welcome")
      BY <1>2, <3>0 DEF Carries
    <3>2. \A s \in Sites \ {x} : phase'[s] = phase[s]
      BY <2>1 DEF GuestWelcome, Typed, TypeOK
    <3> QED
      BY <3>1, <3>2
  <2>2. CASE GuestDisconnected(x)
    BY <2>2 DEF GuestDisconnected, Typed, TypeOK
  <2>3. CASE ~GuestWelcome(x) /\ ~GuestDisconnected(x)
    <3>1. phase' = phase
      BY <2>3 DEF GuestEvent, GuestSkips, GuestOp, GuestAck, GuestCursor, GuestRoster,
                  GuestFileSaved, memberVars
    <3> QED
      BY <3>1
  <2> QED
    BY <2>1, <2>2, <2>3
<1>5. peers'[Host] = peers[Host]
  <2>1. \/ peers' = peers
        \/ \E roster : peers' = [peers EXCEPT ![x] = roster]
    BY DEF GuestEvent, GuestWelcome, GuestSkips, GuestOp, GuestAck, GuestCursor, GuestRoster,
           GuestFileSaved, GuestDisconnected, memberVars
  <2> QED
    BY <2>1, NodesAndSites DEF Typed, TypeOK
<1>6. DOMAIN remoteCursors'[Host] = DOMAIN remoteCursors[Host]
  <2>1. CASE GuestOp(x)
    <3>1. PICK ops : ApplyRemote(x, m, ops)
      BY <2>1 DEF GuestOp
    <3> QED
      BY <3>1, ApplyRemoteKeeps, NodesAndSites
  <2>2. CASE ~GuestOp(x)
    <3>1. \/ remoteCursors' = remoteCursors
          \/ \E map : remoteCursors' = [remoteCursors EXCEPT ![x] = map]
      BY <2>2 DEF GuestEvent, GuestWelcome, GuestSkips, GuestAck, GuestCursor, GuestRoster,
                  GuestFileSaved, GuestDisconnected, opVars
    <3> QED
      BY <3>1, NodesAndSites DEF Typed
  <2> QED
    BY <2>1, <2>2
<1> QED
  BY <1>1, <1>3, <1>4, <1>5, <1>6, MembershipQuiet DEF Member, Membership, CursorsOfMembers
-----------------------------------------------------------------------------
\* Membership is inductive relative to Typed.
LEMMA StepMembership == ASSUME Typed, Membership, [Next]_vars PROVE Membership'
<1>1. CASE Connect
  BY <1>1, ConnectMembership
<1>2. CASE HostWriter
  BY <1>2, HostWriterMembership
<1>3. ASSUME NEW s \in Sites, HostEvent(s) PROVE Membership'
  BY <1>3, HostJoinMembership, HostRequestMembership, HostLeftMembership DEF HostEvent
<1>4. ASSUME NEW s \in Sites,
             GuestEvent(s) \/ ReaderEof(s) \/ GuestExit(s) \/ ConnectionLost(s)
      PROVE  Membership'
  BY <1>4, GuestEventMembership, ReaderEofMembership, LinkDownMembership
<1>5. CASE UserAction
  BY <1>5, UserActionMembership
<1>6. CASE UNCHANGED vars
  <2>1. UNCHANGED <<nextSiteId, guestTxs, linkUp, toHost, toGuest, phase, peers, remoteCursors>>
    BY <1>6 DEF vars, netVars, memberVars, opVars
  <2> QED
    BY <2>1, MembershipQuiet DEF Member, Membership, CursorsOfMembers
<1> QED
  BY <1>1, <1>2, <1>3, <1>4, <1>5, <1>6 DEF Next

\* Both invariants always hold.
LEMMA AlwaysMembership == Spec => [](Typed /\ Membership)
<1>1. Init => Typed /\ Membership
  BY InitTyped, InitMembership
<1>2. Typed /\ Membership /\ [Next]_vars => (Typed /\ Membership)'
  BY StepTyped, StepMembership
<1> QED
  BY <1>1, <1>2, PTL DEF Spec

\* Only members speak: the host never judges an edit, a cursor or a role request
\* of a guest it does not have in its peer list (with the empty permissions
\* peer_perms then answers), however joins, edits, failures and exits interleave,
\* and the cursors it shows belong to members.
THEOREM SendersAlwaysMembers == Spec => []SendersAreMembers
<1>1. Membership => SendersAreMembers
  BY DEF Membership, MembershipOf, AskersAreIn, CursorsOfMembers, SendersAreMembers, Carries,
         Requests, Member
<1> QED
  BY <1>1, AlwaysMembership, PTL

-----------------------------------------------------------------------------
\* The steps that leave the roles of the host's peers alone.
LEMMA RolesKept ==
  ASSUME Typed, Membership, [Next]_vars, \A s \in Sites : ~HostRoleRequest(s)
  PROVE  \A t \in DOMAIN peers[Host] \cap DOMAIN peers'[Host] : peers'[Host][t] = peers[Host][t]
<1> DEFINE Still == \A t \in DOMAIN peers[Host] \cap DOMAIN peers'[Host] :
                        peers'[Host][t] = peers[Host][t]
<1>1. UNCHANGED peers => Still
  OBVIOUS
<1>2. CASE Connect
  BY <1>1, <1>2 DEF Connect
<1>3. CASE HostWriter
  BY <1>1, <1>3 DEF HostWriter, memberVars
<1>4. ASSUME NEW s \in Sites, HostEvent(s) PROVE Still
  <2>1. CASE HostJoin(s)
    <3>1. s \notin DOMAIN peers[Host]
      BY <2>1, HostJoinMembership DEF Member
    <3>2. peers'[Host] = Put(peers[Host], s, DefaultRole)
      BY <2>1, NodesAndSites DEF HostJoin, Typed, TypeOK
    <3> QED
      BY <3>1, <3>2 DEF Put
  <2>2. CASE HostLeft(s)
    <3>1. peers'[Host] = Restrict(peers[Host], DOMAIN peers[Host] \ {s})
      BY <2>2, NodesAndSites DEF HostLeft, Typed, TypeOK
    <3> QED
      BY <3>1 DEF Restrict
  <2>3. CASE HostOp(s) \/ HostCursor(s)
    BY <1>1, <2>3 DEF HostOp, HostCursor, memberVars
  <2> QED
    BY <1>4, <2>1, <2>2, <2>3 DEF HostEvent
<1>5. ASSUME NEW s \in Sites, GuestEvent(s) PROVE Still
  <2>1. \/ peers' = peers
        \/ \E roster : peers' = [peers EXCEPT ![s] = roster]
    BY <1>5 DEF GuestEvent, GuestWelcome, GuestSkips, GuestOp, GuestAck, GuestCursor, GuestRoster,
                GuestFileSaved, GuestDisconnected, memberVars
  <2> QED
    BY <2>1, NodesAndSites DEF Typed, TypeOK
<1>6. ASSUME NEW s \in Sites, ReaderEof(s) \/ GuestExit(s) \/ ConnectionLost(s) PROVE Still
  BY <1>1, <1>6 DEF ReaderEof, GuestExit, ConnectionLost, memberVars
<1>7. CASE UserAction
  <2>0. \A n, t, c, capture, kind : KeyEvent(n, t, c, capture, kind) => UNCHANGED memberVars
    BY DEF KeyEvent
  <2>1. \A n \in Nodes : Edit(n) \/ Move(n) \/ Save(n) => UNCHANGED memberVars
    <3> TAKE n \in Nodes
    <3>1. CASE Edit(n)
      BY <2>0, <3>1 DEF Edit
    <3>2. CASE Move(n)
      BY <2>0, <3>2 DEF Move
    <3>3. CASE Save(n)
      BY <2>0, <3>3 DEF Save
    <3> QED
      BY <3>1, <3>2, <3>3
  <2>2. \A n \in Nodes : DeferredEdit(n) \/ SwitchTab(n) => UNCHANGED memberVars
    BY DEF DeferredEdit, SwitchTab
  <2>3. Undo => UNCHANGED memberVars
    BY <2>0 DEF Undo
  <2>4. \A role, perm : TogglePerm(role, perm) => UNCHANGED peers
    BY DEF TogglePerm
  <2>5. \A s \in Sites : RequestRole(s) => UNCHANGED memberVars
    BY DEF RequestRole
  <2> QED
    BY <1>1, <1>7, <2>1, <2>2, <2>3, <2>4, <2>5 DEF UserAction, memberVars
<1>8. CASE UNCHANGED vars
  BY <1>1, <1>8 DEF vars, memberVars
<1> QED
  BY <1>2, <1>3, <1>4, <1>5, <1>6, <1>7, <1>8 DEF Next

\* Roles change only by request of a member that may manage roles at the moment
\* the host decides, and never to SystemAccess or Moderator (RoleChangeRequest);
\* in particular no rejoin or late Join frame resets a role.
THEOREM RolesOnlyChangedByManagers == Spec => RolesChangeByManagers
<1> DEFINE A == \A t \in DOMAIN peers[Host] \cap DOMAIN peers'[Host] :
                  peers'[Host][t] # peers[Host][t] =>
                    /\ peers'[Host][t] \in {"Viewer", "Contributor"}
                    /\ \E s \in Sites : /\ toHost[s] # <<>> /\ toHost'[s] = Tail(toHost[s])
                                       /\ "MANAGE_ROLES" \in PeerPerms(s)
<1>1. ASSUME Typed, Membership, [Next]_vars PROVE A
  <2>1. CASE \A s \in Sites : ~HostRoleRequest(s)
    BY <1>1, <2>1, RolesKept
  <2>2. ASSUME NEW s \in Sites, HostRoleRequest(s) PROVE A
    <3> DEFINE m == Head(toHost[s])
    <3>1. /\ toHost[s] # <<>> /\ toHost'[s] = Tail(toHost[s])
          /\ m.role \in Roles
      BY <1>1, <2>2, HostGetsTyped
         DEF HostRoleRequest, HostGets, HostFrame, Typed, HostChannels
    <3>2. CASE Grants(s, m.role)
      <4>1. "MANAGE_ROLES" \in PeerPerms(s) /\ m.role \in {"Viewer", "Contributor"}
        BY <3>1, <3>2 DEF Grants, Roles
      <4>2. \/ peers' = peers
            \/ peers' = [peers EXCEPT ![Host] = [peers[Host] EXCEPT ![m.target] = m.role]]
        BY <2>2 DEF HostRoleRequest
      <4>3. \A t \in DOMAIN peers[Host] : peers'[Host][t] \in {peers[Host][t], m.role}
        BY <1>1, <4>2, NodesAndSites DEF Typed, TypeOK
      <4> QED
        BY <3>1, <4>1, <4>3
    <3>3. CASE ~Grants(s, m.role)
      BY <2>2, <3>3 DEF HostRoleRequest
    <3> QED
      BY <3>2, <3>3
  <2> QED
    BY <2>1, <2>2
<1>2. Spec => [][A]_vars
  <2>1. Typed /\ Membership /\ [Next]_vars => [A]_vars
    BY <1>1
  <2> QED
    BY <2>1, AlwaysMembership, PTL DEF Spec
<1> QED
  BY <1>2 DEF RolesChangeByManagers
-----------------------------------------------------------------------------
(* What a guest will make of its channel depends on where it starts: where *)
(* it is (0), or at a Welcome it has not read yet.                         *)

After(q, w) == SubSeq(q, w + 1, Len(q))
Starts(s) == {w \in 0 .. Len(toGuest[s]) :
                IF w = 0 THEN phase[s] = "joined"
                ELSE phase[s] = "connecting" /\ toGuest[s][w].type = "Welcome"}

\* What is behind a place of a channel.
LEMMA AfterFrames ==
  ASSUME NEW S, NEW q \in Seq(S), NEW w \in 0 .. Len(q)
  PROVE  /\ After(q, w) \in Seq(S) /\ Len(After(q, w)) = Len(q) - w /\ Len(q) \in Nat
         /\ \A i \in 1 .. Len(q) - w : After(q, w)[i] = q[w + i]
<1>1. Len(q) \in Nat /\ \A i \in w + 1 .. Len(q) : q[i] \in S
  OBVIOUS
<1>2. \A i \in 1 .. Len(q) - (w + 1) + 1 : (w + 1) + i - 1 = w + i
  BY <1>1
<1> QED
  BY <1>1, <1>2, SubSeqProperties DEF After

\* Behind the last frame there is nothing, behind no frame everything.
LEMMA AfterEnds ==
  ASSUME NEW S, NEW q \in Seq(S)
  PROVE  After(q, Len(q)) = <<>> /\ After(q, 0) = q
  BY SubSeqFull, SubSeqEmpty DEF After

\* A frame that is sent is behind every place.
LEMMA AfterSend ==
  ASSUME NEW S, NEW q \in Seq(S), NEW m \in S, NEW w \in 0 .. Len(q)
  PROVE  After(Append(q, m), w) = Append(After(q, w), m)
<1> DEFINE r == Append(q, m)
           l == After(r, w)
           c == Append(After(q, w), m)
<1>1. /\ r \in Seq(S) /\ Len(r) = Len(q) + 1 /\ Len(q) \in Nat
      /\ r[Len(q) + 1] = m
      /\ \A i \in 1 .. Len(q) : r[i] = q[i]
  OBVIOUS
<1> HIDE DEF r
<1>2. /\ l \in Seq(S) /\ Len(l) = Len(q) + 1 - w
      /\ \A i \in 1 .. Len(q) + 1 - w : l[i] = r[w + i]
  <2>1. w \in 0 .. Len(r)
    BY <1>1
  <2>2. l \in Seq(S) /\ Len(l) = Len(r) - w /\ \A i \in 1 .. Len(r) - w : l[i] = r[w + i]
    BY <1>1, <2>1, AfterFrames
  <2> QED
    BY <1>1, <2>2
<1>3. /\ c \in Seq(S) /\ Len(c) = Len(q) - w + 1 /\ c[Len(q) - w + 1] = m
      /\ \A i \in 1 .. Len(q) - w : c[i] = q[w + i]
  <2>1. /\ After(q, w) \in Seq(S) /\ Len(After(q, w)) = Len(q) - w
        /\ \A i \in 1 .. Len(q) - w : After(q, w)[i] = q[w + i]
    BY AfterFrames
  <2> QED
    BY <2>1, AppendProperties
<1> HIDE DEF l, c, r
<1>4. ASSUME NEW i \in 1 .. Len(l) PROVE l[i] = c[i]
  <2>1. i \in Nat /\ (i = Len(q) + 1 - w \/ i \in 1 .. Len(q) - w)
    <3>1. Len(q) \in Nat /\ Len(l) = Len(q) + 1 - w /\ w \in Nat
      BY <1>1, <1>2
    <3> QED
      BY <3>1
  <2>2. CASE i = Len(q) + 1 - w
    BY <1>1, <1>2, <1>3, <2>2
  <2>3. CASE i \in 1 .. Len(q) - w
    <3>1. w + i \in 1 .. Len(q)
      BY <1>1, <2>3
    <3> QED
      BY <1>1, <1>2, <1>3, <2>3, <3>1
  <2> QED
    BY <2>1, <2>2, <2>3
<1>5. Len(l) = Len(c)
  BY <1>1, <1>2, <1>3
<1> QED
  BY <1>2, <1>3, <1>4, <1>5, SeqEqual DEF l, c, r

\* Places move up by one when a frame is received.
LEMMA AfterReceive ==
  ASSUME NEW S, NEW q \in Seq(S), q # <<>>, NEW w \in 0 .. Len(Tail(q))
  PROVE  /\ After(Tail(q), w) = After(q, w + 1) /\ w + 1 \in 0 .. Len(q)
         /\ w # 0 => Tail(q)[w] = q[w + 1]
<1> DEFINE r == Tail(q)
           l == After(r, w)
           c == After(q, w + 1)
<1>1. /\ r \in Seq(S) /\ Len(r) = Len(q) - 1 /\ Len(q) \in Nat
      /\ \A i \in 1 .. Len(r) : r[i] = q[i + 1]
  BY HeadTailProperties
<1>0. w \in 0 .. Len(r)
  OBVIOUS
<1> HIDE DEF r
<1>2. w + 1 \in 0 .. Len(q) /\ w \in Nat
  BY <1>0, <1>1
<1>3. /\ l \in Seq(S) /\ Len(l) = Len(q) - 1 - w
      /\ \A i \in 1 .. Len(q) - 1 - w : l[i] = r[w + i]
  <2>0. r \in Seq(S)
    BY <1>1
  <2>1. /\ l \in Seq(S) /\ Len(l) = Len(r) - w
        /\ \A i \in 1 .. Len(r) - w : l[i] = r[w + i]
    BY <1>0, <2>0, AfterFrames
  <2> QED
    BY <1>1, <2>1
<1>4. /\ c \in Seq(S) /\ Len(c) = Len(q) - (w + 1)
      /\ \A i \in 1 .. Len(q) - (w + 1) : c[i] = q[w + 1 + i]
  BY <1>1, <1>2, AfterFrames
<1> HIDE DEF l, c, r
<1>5. ASSUME NEW i \in 1 .. Len(l) PROVE l[i] = c[i]
  <2>1. i \in 1 .. Len(q) - 1 - w /\ i \in 1 .. Len(q) - (w + 1) /\ w + i \in 1 .. Len(r)
        /\ (w + i) + 1 = w + 1 + i
    <3>1. PICK m, v : m = Len(q) /\ v = w
      OBVIOUS
    <3>2. m \in Nat /\ v \in Nat /\ Len(r) = m - 1 /\ i \in 1 .. m - 1 - v
      BY <1>1, <1>2, <1>3, <3>1
    <3>3. i \in 1 .. m - (v + 1) /\ v + i \in 1 .. m - 1 /\ (v + i) + 1 = v + 1 + i
      BY <3>2
    <3> QED
      BY <3>1, <3>2, <3>3
  <2> QED
    BY <1>1, <1>3, <1>4, <2>1
<1>6. Len(l) = Len(c)
  BY <1>1, <1>2, <1>3, <1>4
<1>7. l = c
  BY <1>3, <1>4, <1>5, <1>6, SeqEqual
<1> QED
  BY <1>0, <1>1, <1>2, <1>7 DEF l, c, r

\* What is left behind a place when the end of the channel is lost.
LEMMA AfterLost ==
  ASSUME NEW S, NEW q \in Seq(S), NEW j \in 0 .. Len(q), NEW w \in 0 .. j
  PROVE  /\ After(q, w) = After(SubSeq(q, 1, j), w) \o After(q, j)
         /\ After(SubSeq(q, 1, j), w) \in Seq(S) /\ w \in 0 .. Len(q)
         /\ SubSeq(q, 1, j) \in Seq(S) /\ Len(SubSeq(q, 1, j)) = j
         /\ w # 0 => SubSeq(q, 1, j)[w] = q[w]
<1> DEFINE p == SubSeq(q, 1, j)
           l == After(p, w)
           c == SubSeq(q, w + 1, j)
<1>1. /\ Len(q) \in Nat /\ p \in Seq(S) /\ Len(p) = j /\ \A i \in 1 .. j : p[i] = q[i]
  OBVIOUS
<1>2. /\ l \in Seq(S) /\ Len(l) = j - w /\ \A i \in 1 .. j - w : l[i] = p[w + i]
  <2>1. w \in 0 .. Len(p)
    BY <1>1
  <2> QED
    BY <1>1, <2>1, AfterFrames
<1>3. /\ c \in Seq(S) /\ Len(c) = j - w /\ \A i \in 1 .. j - w : c[i] = q[w + i]
  <2>1. \A i \in w + 1 .. j : q[i] \in S
    BY <1>1
  <2>2. \A i \in 1 .. j - (w + 1) + 1 : (w + 1) + i - 1 = w + i
    OBVIOUS
  <2> QED
    BY <1>1, <2>1, <2>2, SubSeqProperties
<1>4. w + 1 \in 1 .. Len(q) + 1 /\ j \in (w + 1) - 1 .. Len(q) /\ Len(q) \in j .. Len(q)
  BY <1>1
<1>5. c \o After(q, j) = After(q, w)
  BY <1>4, ConcatAdjacentSubSeq DEF After
<1> HIDE DEF p, l, c
<1>6. ASSUME NEW i \in 1 .. Len(l) PROVE l[i] = c[i]
  <2>1. i \in 1 .. j - w /\ w + i \in 1 .. j
    BY <1>2
  <2> QED
    BY <1>1, <1>2, <1>3, <2>1
<1>7. l = c
  BY <1>2, <1>3, <1>6, SeqEqual
<1> QED
  BY <1>1, <1>2, <1>4, <1>5, <1>7 DEF p, l

\* Where a guest may start once one more frame has been sent to it.
SentStart(s, m, w) ==
    \/ /\ w \in Starts(s) /\ (w # 0 => toGuest'[s][w] = toGuest[s][w])
       /\ After(toGuest'[s], w) = Append(After(toGuest[s], w), m)
    \/ /\ w # 0 /\ m.type = "Welcome" /\ phase[s] = "connecting" /\ toGuest'[s][w] = m
       /\ After(toGuest'[s], w) = <<>>

\* At the places it could start at before, or at a Welcome just sent.
LEMMA StartsSend ==
  ASSUME NEW s, NEW m, Channel(toGuest[s]), toGuest'[s] = Append(toGuest[s], m),
         phase'[s] = phase[s], NEW w \in Starts(s)'
  PROVE  SentStart(s, m, w)
<1> DEFINE q == toGuest[s]
           r == Append(q, m)
           S == ToSet(q) \union {m}
<1>1. /\ q \in Seq(S) /\ m \in S /\ r \in Seq(S) /\ Len(r) = Len(q) + 1 /\ Len(q) \in Nat
      /\ r[Len(q) + 1] = m /\ \A i \in 1 .. Len(q) : r[i] = q[i]
  <2>1. q \in Seq(S) /\ m \in S
    BY DEF Channel
  <2> HIDE DEF S, q
  <2> QED
    BY <2>1
<1> HIDE DEF S
<1>2. /\ w \in 0 .. Len(r)
      /\ IF w = 0 THEN phase[s] = "joined" ELSE phase[s] = "connecting" /\ r[w].type = "Welcome"
  BY DEF Starts
<1> HIDE DEF q, r
<1>3. CASE w \in 0 .. Len(q)
  <2>1. After(r, w) = Append(After(q, w), m)
    BY <1>1, <1>3, AfterSend DEF r
  <2>2. w # 0 => r[w] = q[w]
    BY <1>1, <1>3
  <2>3. w \in Starts(s)
    BY <1>2, <1>3, <2>2 DEF Starts, q
  <2> QED
    BY <2>1, <2>2, <2>3 DEF SentStart, q, r
<1>4. CASE w \notin 0 .. Len(q)
  <2>1. w = Len(r) /\ w # 0 /\ r[w] = m
    BY <1>1, <1>2, <1>4
  <2>2. After(r, w) = <<>>
    BY <1>1, <2>1, AfterEnds
  <2> QED
    BY <1>2, <2>1, <2>2 DEF SentStart, q, r
<1> QED
  BY <1>3, <1>4

\* A frame a connecting guest skips moves its starts, and nothing else.
LEMMA StartsSkip ==
  ASSUME NEW s, Channel(toGuest[s]), toGuest[s] # <<>>, toGuest'[s] = Tail(toGuest[s]),
         phase[s] = "connecting", phase'[s] = "connecting", NEW w \in Starts(s)'
  PROVE  /\ w # 0 /\ w + 1 # 0 /\ w + 1 \in Starts(s)
         /\ toGuest'[s][w] = toGuest[s][w + 1]
         /\ After(toGuest'[s], w) = After(toGuest[s], w + 1)
<1> DEFINE q == toGuest[s]
           S == ToSet(q)
<1>1. q \in Seq(S) /\ q # <<>>
  BY DEF Channel
<1>2. w # 0 /\ w \in 0 .. Len(Tail(q)) /\ Tail(q)[w].type = "Welcome"
  BY DEF Starts
<1> HIDE DEF S, q
<1>3. /\ After(Tail(q), w) = After(q, w + 1) /\ w + 1 \in 0 .. Len(q) /\ Tail(q)[w] = q[w + 1]
  BY <1>1, <1>2, AfterReceive
<1>4. w + 1 # 0
  BY <1>2
<1> QED
  BY <1>2, <1>3, <1>4 DEF Starts, q

\* A guest that reads its Welcome has started there.
LEMMA StartsWelcome ==
  ASSUME NEW s, Channel(toGuest[s]), toGuest[s] # <<>>, toGuest'[s] = Tail(toGuest[s]),
         phase[s] = "connecting", phase'[s] = "joined", Head(toGuest[s]).type = "Welcome",
         NEW w \in Starts(s)'
  PROVE  /\ w = 0 /\ 1 \in Starts(s) /\ toGuest[s][1] = Head(toGuest[s])
         /\ After(toGuest'[s], 0) = After(toGuest[s], 1)
<1> DEFINE q == toGuest[s]
           S == ToSet(q)
<1>1. q \in Seq(S) /\ q # <<>>
  BY DEF Channel
<1>2. w = 0 /\ w \in 0 .. Len(Tail(q))
  BY DEF Starts
<1> HIDE DEF S, q
<1>3. After(Tail(q), 0) = After(q, 1) /\ 1 \in 0 .. Len(q)
  <2>1. 0 + 1 = 1
    OBVIOUS
  <2> QED
    BY <1>1, <1>2, <2>1, AfterReceive
<1>4. q[1] = Head(q)
  BY <1>1
<1> QED
  BY <1>2, <1>3, <1>4 DEF Starts, q

\* A joined guest starts where it is, and handles one frame after the other.
LEMMA StartsHandle ==
  ASSUME NEW s, Channel(toGuest[s]), toGuest[s] # <<>>, toGuest'[s] = Tail(toGuest[s]),
         phase[s] = "joined", phase'[s] = "joined", NEW w \in Starts(s)'
  PROVE  /\ w = 0 /\ 0 \in Starts(s)
         /\ After(toGuest'[s], 0) = Tail(toGuest[s]) /\ After(toGuest[s], 0) = toGuest[s]
<1> DEFINE q == toGuest[s]
           S == ToSet(q)
<1>1. q \in Seq(S) /\ Tail(q) \in Seq(S) /\ 0 \in 0 .. Len(q)
  <2>1. q \in Seq(S)
    BY DEF Channel
  <2> HIDE DEF S, q
  <2> QED
    BY <2>1 DEF q
<1>2. After(Tail(q), 0) = Tail(q) /\ After(q, 0) = q
  BY <1>1, AfterEnds
<1> QED
  BY <1>1, <1>2 DEF Starts

\* What is behind a start when the end of the channel is lost.
CutShort(s, end, w) ==
    \E kept, lost : /\ Channel(kept) /\ Channel(lost)
                    /\ ToSet(kept) \subseteq ToSet(toGuest[s])
                    /\ ToSet(lost) \subseteq ToSet(toGuest[s])
                    /\ After(toGuest[s], w) = kept \o lost
                    /\ After(toGuest'[s], w) = Append(kept, end)

\* When a connection breaks, what is behind a start is cut short.
LEMMA StartsLost ==
  ASSUME NEW s, Channel(toGuest[s]), NEW j \in 0 .. Len(toGuest[s]),
         NEW end, end.type = "Disconnected",
         toGuest'[s] = Append(SubSeq(toGuest[s], 1, j), end),
         phase'[s] = phase[s], NEW w \in Starts(s)'
  PROVE  /\ w \in Starts(s) /\ (w # 0 => toGuest'[s][w] = toGuest[s][w])
         /\ CutShort(s, end, w)
<1> DEFINE q == toGuest[s]
           p == SubSeq(q, 1, j)
           r == Append(p, end)
           S == ToSet(q)
           T == S \union {end}
           kept == After(p, w)
           lost == After(q, j)
<1>1. q \in Seq(S)
  BY DEF Channel
<1>2. w \in 0 .. Len(r)
      /\ IF w = 0 THEN phase[s] = "joined" ELSE phase[s] = "connecting" /\ r[w].type = "Welcome"
  BY DEF Starts
<1> HIDE DEF S, q
<1>3. p \in Seq(S) /\ Len(p) = j /\ j \in 0 .. Len(q) /\ \A i \in 1 .. j : p[i] = q[i]
  BY <1>1 DEF q
<1> HIDE DEF p
<1>4. /\ r \in Seq(T) /\ Len(r) = j + 1 /\ r[j + 1] = end /\ \A i \in 1 .. j : r[i] = p[i]
      /\ p \in Seq(T) /\ end \in T
  BY <1>3
<1> HIDE DEF r
<1>5. w \in 0 .. j
  BY <1>2, <1>3, <1>4
<1>6. /\ After(q, w) = kept \o lost /\ kept \in Seq(S) /\ w \in 0 .. Len(q)
      /\ w # 0 => p[w] = q[w]
  <2>1. j \in 0 .. Len(q)
    BY <1>3
  <2>2. /\ After(q, w) = After(SubSeq(q, 1, j), w) \o After(q, j)
        /\ After(SubSeq(q, 1, j), w) \in Seq(S) /\ w \in 0 .. Len(q)
        /\ w # 0 => SubSeq(q, 1, j)[w] = q[w]
    BY <1>1, <1>5, <2>1, AfterLost
  <2> QED
    BY <2>2 DEF p
<1>7. w # 0 => r[w] = q[w]
  BY <1>3, <1>4, <1>5
<1>8. After(r, w) = Append(kept, end)
  BY <1>3, <1>4, <1>5, AfterSend DEF r
<1>9. lost \in Seq(S)
  BY <1>1, <1>3, AfterFrames
<1> HIDE DEF kept, lost
<1>10. /\ Channel(kept) /\ ToSet(kept) \subseteq S /\ Channel(lost) /\ ToSet(lost) \subseteq S
  BY <1>6, <1>9, SeqIsChannel
<1>11. w \in Starts(s)
  BY <1>2, <1>6, <1>7 DEF Starts, q
<1> QED
  <2>1. CutShort(s, end, w)
    BY <1>6, <1>8, <1>10 DEF CutShort, S, q, r, p
  <2> QED
    BY <1>7, <1>11, <2>1 DEF q, r, p

-----------------------------------------------------------------------------
(* A guest's roster.  RostersCatchUp speaks of the guests that have joined; *)
(* that it holds when a guest does join takes a Welcome that is still on   *)
(* its way, with the frames behind it.                                     *)

RoleAfter(s, role, m) == IF m.type = "PeerRoleChanged" /\ m.site = s THEN m.role ELSE role

Rostering == INSTANCE FoldFacts WITH Op <- LAMBDA k, roster, m : RosterAfter(roster, m)
Promoting == INSTANCE FoldFacts WITH Op <- RoleAfter

RosterFrom(s, w) == IF w = 0 THEN peers[s] ELSE toGuest[s][w].peers
RoleFrom(s, w)   == IF w = 0 THEN myRole[s] ELSE toGuest[s][w].role
Others(s)        == Restrict(peers[Host], DOMAIN peers[Host] \ {s})

CatchesUp(s, w) ==
    /\ Rostering!Fold(0, RosterFrom(s, w), After(toGuest[s], w)) = Others(s)
    /\ Promoting!Fold(s, RoleFrom(s, w), After(toGuest[s], w)) = peers[Host][s]
RosterOf(s)    == s \in linkUp => \A w \in Starts(s) : CatchesUp(s, w)
NotToldOff(s)  == \A m \in ToSet(toGuest[s]) : m.type = "PeerLeft" => m.site # s
RosterTypes    == /\ peers[Host] = [t \in DOMAIN peers[Host] |-> peers[Host][t]]
                  /\ DOMAIN myRole = Sites
Rosters        == RosterTypes /\ \A s \in Sites : RosterOf(s) /\ NotToldOff(s)

\* Frames that are no news of the peers.
Neutral(m)   == m.type \notin {"Welcome", "PeerJoined", "PeerLeft", "PeerRoleChanged"}
NeutralTo(s) == \/ toGuest'[s] = toGuest[s]
                \/ \E m : Neutral(m) /\ toGuest'[s] = Append(toGuest[s], m)

\* The property's fold is the one the lemmas are about.
LEMMA RosterFolds ==
  ASSUME NEW roster, NEW q
  PROVE  FoldLeft(RosterAfter, roster, q) = Rostering!Fold(0, roster, q)
  BY DEF FoldLeft, MapThenFoldSet, Max,
         Rostering!Fold, Rostering!Iterates, Rostering!Top

\* A frame changes a roster's entry for a guest as it changes the guest's role,
\* if it does not tell that the guest has left.
LEMMA RosterShowsRoleStep ==
  ASSUME NEW s, NEW roster, s \in DOMAIN roster, NEW m, m.type = "PeerLeft" => m.site # s
  PROVE  /\ s \in DOMAIN RosterAfter(roster, m)
         /\ RosterAfter(roster, m)[s] = RoleAfter(s, roster[s], m)
<1>1. CASE m.type = "PeerJoined" /\ m.site \notin DOMAIN roster
  <2>1. RosterAfter(roster, m) = Put(roster, m.site, m.role)
    BY <1>1 DEF RosterAfter
  <2> QED
    BY <1>1, <2>1 DEF Put, RoleAfter
<1>2. CASE m.type = "PeerLeft"
  <2>1. RosterAfter(roster, m) = Restrict(roster, DOMAIN roster \ {m.site})
    BY <1>2 DEF RosterAfter
  <2> QED
    BY <1>2, <2>1 DEF Restrict, RoleAfter
<1>3. CASE m.type = "PeerRoleChanged" /\ m.site \in DOMAIN roster
  <2>1. RosterAfter(roster, m) = [roster EXCEPT ![m.site] = m.role]
    BY <1>3 DEF RosterAfter
  <2> QED
    BY <1>3, <2>1 DEF RoleAfter
<1>4. CASE /\ ~(m.type = "PeerJoined" /\ m.site \notin DOMAIN roster) /\ m.type # "PeerLeft"
           /\ ~(m.type = "PeerRoleChanged" /\ m.site \in DOMAIN roster)
  <2>1. RosterAfter(roster, m) = roster
    BY <1>4 DEF RosterAfter
  <2> QED
    BY <1>4, <2>1 DEF RoleAfter
<1> QED
  BY <1>1, <1>2, <1>3, <1>4

\* So the roster a channel leads to shows the role it leads to.
LEMMA RosterShowsRole ==
  ASSUME NEW s, NEW roster, s \in DOMAIN roster, NEW q, Channel(q),
         \A m \in ToSet(q) : m.type = "PeerLeft" => m.site # s
  PROVE  Rostering!Fold(0, roster, q)[s] = Promoting!Fold(s, roster[s], q)
<1> DEFINE S == ToSet(q)
           n == Len(q)
<1>1. q \in Seq(S) /\ n \in Nat /\ \A i \in 1 .. n : q[i] \in S
  <2>1. q \in Seq(S)
    BY DEF Channel
  <2> HIDE DEF S
  <2> QED
    BY <2>1
<1> HIDE DEF S
<1>2. PICK g : Rostering!Trace(g, 0, roster, q)
  BY <1>1, Rostering!FoldTrace
<1>3. PICK h : Promoting!Trace(h, s, roster[s], q)
  BY <1>1, Promoting!FoldTrace
<1>4. /\ g[0] = roster /\ \A i \in 1 .. n : g[i] = RosterAfter(g[i - 1], q[i])
      /\ Rostering!Fold(0, roster, q) = g[n]
  BY <1>2 DEF Rostering!Trace
<1>5. /\ h[0] = roster[s] /\ \A i \in 1 .. n : h[i] = RoleAfter(s, h[i - 1], q[i])
      /\ Promoting!Fold(s, roster[s], q) = h[n]
  BY <1>3 DEF Promoting!Trace
<1> HIDE DEF n
<1> DEFINE Same == {i \in Nat : i <= n => s \in DOMAIN g[i] /\ g[i][s] = h[i]}
<1>6. 0 \in Same
  BY <1>4, <1>5
<1>7. ASSUME NEW i \in Nat, i \in Same PROVE i + 1 \in Same
  <2>1. CASE ~(i + 1 <= n)
    BY <2>1
  <2>2. CASE i + 1 <= n
    <3>1. i + 1 \in 1 .. n /\ i <= n /\ (i + 1) - 1 = i
      BY <1>1, <2>2
    <3>2. s \in DOMAIN g[i] /\ g[i][s] = h[i]
      BY <1>7, <3>1
    <3>3. g[i + 1] = RosterAfter(g[i], q[i + 1]) /\ h[i + 1] = RoleAfter(s, h[i], q[i + 1])
      BY <1>4, <1>5, <3>1
    <3>4. q[i + 1].type = "PeerLeft" => q[i + 1].site # s
      BY <1>1, <3>1 DEF S
    <3>5. s \in DOMAIN g[i + 1] /\ g[i + 1][s] = h[i + 1]
      BY <3>2, <3>3, <3>4, RosterShowsRoleStep
    <3> QED
      BY <3>5
  <2> QED
    BY <2>1, <2>2
<1>8. n \in Same
  <2> HIDE DEF Same
  <2> QED
    BY <1>1, <1>6, <1>7, Rostering!SetInduction
<1> QED
  BY <1>1, <1>4, <1>5, <1>8

-----------------------------------------------------------------------------
\* What the host tells a guest of a step that changes its peer list is what the
\* step makes of the list and of the guest's own entry in it.
Told(s, m) ==
    /\ RosterAfter(Others(s), m) = Others(s)'
    /\ RoleAfter(s, peers[Host][s], m) = peers'[Host][s]

\* A guest that has a start and a connection is in the host's list.
LEMMA StarterIsMember ==
  ASSUME Typed, Membership, NEW s \in Sites, s \in linkUp, NEW w \in Starts(s)
  PROVE  Member(s)
<1>1. Channel(toGuest[s]) /\ w \in 0 .. Len(toGuest[s])
  BY DEF Typed, GuestChannels, Starts
<1>2. CASE w = 0
  BY <1>2 DEF Starts, Membership, MembershipOf, WelcomedAreIn
<1>3. CASE w # 0
  <2>1. toGuest[s][w].type = "Welcome"
    BY <1>3 DEF Starts
  <2>2. toGuest[s][w] \in ToSet(toGuest[s])
    <3> DEFINE q == toGuest[s]
               S == ToSet(q)
    <3>1. q \in Seq(S) /\ w \in 1 .. Len(q)
      BY <1>1, <1>3 DEF Channel
    <3> HIDE DEF S, q
    <3>2. q[w] \in S
      BY <3>1
    <3> QED
      BY <3>2 DEF S, q
  <2> QED
    BY <2>1, <2>2 DEF Carries, Membership, MembershipOf, WelcomedAreIn
<1> QED
  BY <1>2, <1>3

\* A guest that a step leaves alone.
LEMMA RosterKept ==
  ASSUME NEW s, RosterOf(s), NotToldOff(s),
         s \in linkUp' => /\ s \in linkUp /\ phase'[s] = phase[s] /\ peers'[s] = peers[s]
                          /\ myRole'[s] = myRole[s]
                          /\ Others(s)' = Others(s) /\ peers'[Host][s] = peers[Host][s],
         toGuest'[s] = toGuest[s]
  PROVE  RosterOf(s)' /\ NotToldOff(s)'
<1>1. NotToldOff(s)'
  BY DEF NotToldOff
<1>2. ASSUME s \in linkUp', NEW w \in Starts(s)' PROVE CatchesUp(s, w)'
  <2>1. w \in Starts(s)
    BY <1>2 DEF Starts
  <2>2. CatchesUp(s, w)
    BY <1>2, <2>1 DEF RosterOf
  <2>3. RosterFrom(s, w)' = RosterFrom(s, w) /\ RoleFrom(s, w)' = RoleFrom(s, w)
    BY <1>2 DEF RosterFrom, RoleFrom
  <2> QED
    BY <1>2, <2>2, <2>3 DEF CatchesUp
<1> QED
  BY <1>1, <1>2 DEF RosterOf

\* A guest that is told what has happened to the list.
LEMMA RosterSend ==
  ASSUME Typed, Membership, NEW s \in Sites, RosterOf(s), NotToldOff(s), NEW m,
         m.type # "Welcome", m.type = "PeerLeft" => m.site # s,
         s \in linkUp' => s \in linkUp, phase'[s] = phase[s], peers'[s] = peers[s],
         myRole'[s] = myRole[s], s \in linkUp /\ Member(s) => Told(s, m),
         toGuest'[s] = Append(toGuest[s], m)
  PROVE  RosterOf(s)' /\ NotToldOff(s)'
<1>0. Channel(toGuest[s])
  BY DEF Typed, GuestChannels
<1>1. NotToldOff(s)'
  BY <1>0, SendFrame DEF NotToldOff
<1>2. ASSUME s \in linkUp', NEW w \in Starts(s)' PROVE CatchesUp(s, w)'
  <2>1. SentStart(s, m, w)
    BY <1>0, <1>2, StartsSend
  <2>2. /\ w \in Starts(s) /\ (w # 0 => toGuest'[s][w] = toGuest[s][w])
        /\ After(toGuest'[s], w) = Append(After(toGuest[s], w), m)
    BY <2>1 DEF SentStart
  <2>3. CatchesUp(s, w) /\ Told(s, m)
    BY <1>2, <2>2, StarterIsMember DEF RosterOf
  <2>4. RosterFrom(s, w)' = RosterFrom(s, w) /\ RoleFrom(s, w)' = RoleFrom(s, w)
    BY <2>2 DEF RosterFrom, RoleFrom
  <2> DEFINE q == toGuest[s]
             S == ToSet(q) \union {m}
             r == After(q, w)
  <2>5. q \in Seq(S) /\ w \in 0 .. Len(q)
    BY <1>0, <2>2 DEF Channel, Starts
  <2> HIDE DEF q
  <2>6. r \in Seq(S) /\ m \in S
    <3> HIDE DEF S
    <3>1. r \in Seq(S)
      BY <2>5, AfterFrames
    <3> QED
      BY <3>1 DEF S
  <2> HIDE DEF r, S
  <2>7. ASSUME NEW a PROVE Rostering!Fold(0, a, Append(r, m)) = RosterAfter(Rostering!Fold(0, a, r), m)
    BY <2>6, Rostering!FoldAppend
  <2>8. ASSUME NEW a PROVE Promoting!Fold(s, a, Append(r, m)) = RoleAfter(s, Promoting!Fold(s, a, r), m)
    BY <2>6, Promoting!FoldAppend
  <2>9. CatchesUp(s, w)' <=>
            /\ Rostering!Fold(0, RosterFrom(s, w), Append(r, m)) = Others(s)'
            /\ Promoting!Fold(s, RoleFrom(s, w), Append(r, m)) = peers'[Host][s]
    BY <2>2, <2>4 DEF CatchesUp, r, q
  <2>10. /\ Rostering!Fold(0, RosterFrom(s, w), r) = Others(s)
         /\ Promoting!Fold(s, RoleFrom(s, w), r) = peers[Host][s]
    BY <2>3 DEF CatchesUp, r, q
  <2> QED
    BY <2>3, <2>7, <2>8, <2>9, <2>10 DEF Told
<1> QED
  BY <1>1, <1>2 DEF RosterOf

\* Steps that neither change who is in the session nor tell anybody of it.
LEMMA RostersQuiet ==
  ASSUME Typed, Membership, Rosters, UNCHANGED <<peers, myRole, phase>>, linkUp' \subseteq linkUp,
         \A s \in Sites : NeutralTo(s)
  PROVE  Rosters'
<1>1. RosterTypes'
  BY DEF Rosters, RosterTypes
<1>2. ASSUME NEW s \in Sites PROVE RosterOf(s)' /\ NotToldOff(s)'
  <2>1. Others(s)' = Others(s)
    BY DEF Others
  <2>2. CASE toGuest'[s] = toGuest[s]
    BY <2>1, <2>2, RosterKept DEF Rosters
  <2>3. ASSUME NEW m, Neutral(m), toGuest'[s] = Append(toGuest[s], m)
        PROVE  RosterOf(s)' /\ NotToldOff(s)'
    <3>1. RosterAfter(Others(s), m) = Others(s) /\ RoleAfter(s, peers[Host][s], m) = peers[Host][s]
      BY <2>3 DEF Neutral, RosterAfter, RoleAfter
    <3>2. Told(s, m)
      BY <2>1, <3>1 DEF Told
    <3> QED
      BY <2>3, <3>2, RosterSend DEF Rosters, Neutral
  <2> QED
    BY <2>2, <2>3 DEF NeutralTo
<1> QED
  BY <1>1, <1>2 DEF Rosters

-----------------------------------------------------------------------------
\* Nobody is connected at first.
LEMMA InitRosters == ASSUME Init PROVE Rosters
<1>1. peers[Host] = EmptyMap /\ linkUp = {} /\ \A s \in Sites : toGuest[s] = <<>>
  BY NodesAndSites DEF Init
<1>2. RosterTypes
  BY <1>1, NodesAndSites DEF RosterTypes, EmptyMap, Init
<1>3. \A s \in Sites : RosterOf(s) /\ NotToldOff(s)
  BY <1>1, EmptyChannel DEF RosterOf, NotToldOff
<1> QED
  BY <1>2, <1>3 DEF Rosters

\* Connections: a new one has no start, one that ends is not asked for.
LEMMA ConnectionRosters ==
  ASSUME Typed, Membership, Rosters,
         Connect \/ HostWriter \/ \E s \in Sites : ReaderEof(s) \/ GuestExit(s) \/ ConnectionLost(s)
  PROVE  Rosters'
<1>1. CASE Connect
  <2> DEFINE new == nextSiteId
  <2>1. /\ new \in Sites /\ linkUp' = linkUp \union {new}
        /\ phase' = [phase EXCEPT ![new] = "connecting"]
        /\ UNCHANGED <<toGuest, peers, myRole>>
    BY <1>1, NodesAndSites DEF Connect, Typed, TypeOK, Sites
  <2>2. RosterTypes'
    BY <2>1 DEF Rosters, RosterTypes
  <2>3. ASSUME NEW s \in Sites PROVE RosterOf(s)' /\ NotToldOff(s)'
    <3>0. s \in Nat /\ nextSiteId \in Nat /\ DOMAIN phase = Sites
      BY NodesAndSites DEF Sites, Typed, TypeOK
    <3>1. CASE s = new
      <4>1. toGuest'[s] = <<>> /\ phase'[s] = "connecting"
        BY <2>1, <3>0, <3>1 DEF Membership, MembershipOf, FreshSite
      <4>2. Starts(s)' = {}
        <5>1. Len(toGuest'[s]) = 0
          BY <4>1
        <5> QED
          BY <4>1, <5>1 DEF Starts
      <4> QED
        BY <4>1, <4>2, EmptyChannel DEF RosterOf, NotToldOff
    <3>2. CASE s # new
      <4>1. /\ phase'[s] = phase[s] /\ (s \in linkUp' => s \in linkUp)
            /\ Others(s)' = Others(s) /\ peers'[s] = peers[s] /\ myRole'[s] = myRole[s]
            /\ peers'[Host][s] = peers[Host][s] /\ toGuest'[s] = toGuest[s]
        BY <2>1, <3>0, <3>2 DEF Others
      <4> QED
        BY <4>1, RosterKept DEF Rosters
    <3> QED
      BY <3>1, <3>2
  <2> QED
    BY <2>2, <2>3 DEF Rosters
<1>2. CASE HostWriter
  <2> DEFINE m == Head(hostOut)
  <2>1. m \in ToSet(hostOut)
    BY <1>2, ReceiveFrame DEF HostWriter, Typed, Outgoing
  <2>2. Neutral(m)
    BY <2>1 DEF Typed, Outgoing, Neutral
  <2>3. toGuest' = Send(toGuest, Sites \ {}, m) /\ UNCHANGED <<peers, myRole, phase, linkUp>>
    BY <1>2 DEF HostWriter, Broadcast, memberVars
  <2> HIDE DEF m
  <2>4. \A s \in Sites : NeutralTo(s)
    BY <2>2, <2>3 DEF NeutralTo, Send
  <2> QED
    BY <2>3, <2>4, RostersQuiet
<1>3. ASSUME NEW x \in Sites, ReaderEof(x) PROVE Rosters'
  <2>1. UNCHANGED <<peers, myRole, phase, linkUp, toGuest>>
    BY <1>3 DEF ReaderEof, memberVars
  <2> QED
    BY <2>1, RostersQuiet DEF NeutralTo
<1>4. ASSUME NEW x \in Sites, GuestExit(x) \/ ConnectionLost(x) PROVE Rosters'
  <2>1. /\ linkUp' = linkUp \ {x} /\ UNCHANGED <<peers, myRole>>
        /\ \A s \in Sites \ {x} : phase'[s] = phase[s] /\ toGuest'[s] = toGuest[s]
    <3>1. CASE GuestExit(x)
      BY <3>1 DEF GuestExit, Typed, TypeOK, GuestChannels
    <3>2. CASE ConnectionLost(x)
      BY <3>2 DEF ConnectionLost, memberVars, Typed, TypeOK, GuestChannels
    <3> QED
      BY <1>4, <3>1, <3>2
  <2>2. RosterTypes'
    BY <2>1 DEF Rosters, RosterTypes
  <2>3. ASSUME NEW s \in Sites, s # x PROVE RosterOf(s)' /\ NotToldOff(s)'
    <3>1. /\ phase'[s] = phase[s] /\ (s \in linkUp' => s \in linkUp)
          /\ Others(s)' = Others(s) /\ peers'[s] = peers[s] /\ myRole'[s] = myRole[s]
          /\ peers'[Host][s] = peers[Host][s] /\ toGuest'[s] = toGuest[s]
      BY <2>1, <2>3 DEF Others
    <3> QED
      BY <3>1, RosterKept DEF Rosters
  <2>4. NotToldOff(x)'
    <3> DEFINE end == [type |-> "Disconnected"]
    <3>0. Channel(toGuest[x]) /\ DOMAIN toGuest = Sites /\ NotToldOff(x)
      BY DEF Typed, GuestChannels, Rosters
    <3>1. CASE GuestExit(x)
      <4>1. toGuest'[x] = <<>>
        BY <3>0, <3>1 DEF GuestExit
      <4> QED
        BY <4>1, EmptyChannel DEF NotToldOff
    <3>2. CASE ConnectionLost(x)
      <4>1. PICK j \in 0 .. Len(toGuest[x]) :
                toGuest' = [toGuest EXCEPT ![x] = Append(SubSeq(toGuest[x], 1, j), end)]
        BY <3>2 DEF ConnectionLost
      <4> DEFINE kept == SubSeq(toGuest[x], 1, j)
      <4>2. Channel(kept) /\ ToSet(kept) \subseteq ToSet(toGuest[x])
        BY <3>0, LoseFrames
      <4> HIDE DEF kept
      <4>3. toGuest'[x] = Append(kept, end)
        BY <3>0, <4>1 DEF kept
      <4>4. ToSet(Append(kept, end)) = ToSet(kept) \union {end}
        BY <4>2, SendFrame
      <4> QED
        BY <3>0, <4>2, <4>3, <4>4 DEF NotToldOff
    <3> QED
      BY <1>4, <3>1, <3>2
  <2> QED
    BY <2>1, <2>2, <2>3, <2>4 DEF Rosters, RosterOf
<1> QED
  BY <1>1, <1>2, <1>3, <1>4

\* What users do is no news of the peers.
LEMMA UserActionRosters ==
  ASSUME Typed, Membership, Rosters, UserAction PROVE Rosters'
<1> DEFINE Calm == UNCHANGED <<peers, myRole, phase, linkUp>>
<1>1. ASSUME Calm, toGuest' = toGuest PROVE Rosters'
  BY <1>1, RostersQuiet DEF NeutralTo
<1>2. ASSUME NEW m, Neutral(m), Calm, toGuest' = Send(toGuest, Sites \ {}, m) PROVE Rosters'
  <2>1. \A s \in Sites : NeutralTo(s)
    BY <1>2 DEF NeutralTo, Send
  <2> QED
    BY <1>2, <2>1, RostersQuiet
<1>3. \A n, t, c, capture, kind : KeyEvent(n, t, c, capture, kind) => Calm
  BY DEF KeyEvent, memberVars
<1>4. ASSUME NEW n \in Nodes, Edit(n) \/ Move(n) PROVE Rosters'
  <2>1. Calm /\ toGuest' = toGuest
    BY <1>3, <1>4 DEF Edit, Move
  <2> QED
    BY <1>1, <2>1
<1>5. ASSUME Undo PROVE Rosters'
  <2>1. Calm /\ toGuest' = toGuest
    BY <1>3, <1>5 DEF Undo
  <2> QED
    BY <1>1, <2>1
<1>6. ASSUME NEW n \in Nodes, Save(n) PROVE Rosters'
  <2> DEFINE m == [type |-> "FileSaved", path |-> active[n], content |-> text[n][active[n]]]
  <2>1. Calm /\ (toGuest' = toGuest \/ toGuest' = Send(toGuest, Sites \ {}, m))
    BY <1>3, <1>6 DEF Save, Broadcast
  <2>2. Neutral(m)
    BY DEF Neutral
  <2> HIDE DEF m
  <2> QED
    BY <1>1, <1>2, <2>1, <2>2
<1>7. ASSUME NEW n \in Nodes, DeferredEdit(n) \/ SwitchTab(n) PROVE Rosters'
  <2>1. Calm /\ toGuest' = toGuest
    BY <1>7 DEF DeferredEdit, SwitchTab, netVars, memberVars
  <2> QED
    BY <1>1, <2>1
<1>8. ASSUME NEW role, NEW perm, TogglePerm(role, perm) PROVE Rosters'
  <2> DEFINE m == [type |-> "RoleConfig", perms |-> settings']
  <2>1. Calm /\ toGuest' = Send(toGuest, Sites \ {}, m)
    BY <1>8 DEF TogglePerm, Broadcast
  <2>2. Neutral(m)
    BY DEF Neutral
  <2> HIDE DEF m
  <2> QED
    BY <1>2, <2>1, <2>2
<1>9. ASSUME NEW s \in Sites, RequestRole(s) PROVE Rosters'
  <2>1. Calm /\ toGuest' = toGuest
    BY <1>9 DEF RequestRole, memberVars
  <2> QED
    BY <1>1, <2>1
<1> HIDE DEF Calm
<1> QED
  BY <1>4, <1>5, <1>6, <1>7, <1>8, <1>9 DEF UserAction

\* A guest that joins gets the list it is put into; the others are told of it.
LEMMA HostJoinRosters ==
  ASSUME Typed, Membership, Rosters, NEW x \in Sites, HostJoin(x) PROVE Rosters'
<1> DEFINE doc     == IF DocFile = Untitled THEN <<>> ELSE text[Host][DocFile]
           welcome == [type |-> "Welcome", doc |-> doc, clock |-> serverClock[Host],
                       peers |-> peers[Host], role |-> DefaultRole, perms |-> rolePerms[Host]]
           joined  == [type |-> "PeerJoined", site |-> x, role |-> DefaultRole]
<1>1. /\ toGuest' = Send(Send(toGuest, {x}, welcome), Sites \ {x}, joined)
      /\ peers' = [peers EXCEPT ![Host] = Put(peers[Host], x, DefaultRole)]
      /\ UNCHANGED <<nextSiteId, guestTxs, linkUp, phase, myRole>>
  BY DEF HostJoin, Broadcast
<1>2. /\ welcome.type = "Welcome" /\ welcome.peers = peers[Host] /\ welcome.role = DefaultRole
      /\ joined.type = "PeerJoined" /\ joined.site = x /\ joined.role = DefaultRole
  OBVIOUS
<1> HIDE DEF welcome, joined
<1>3. ~Member(x)
  BY HostJoinMembership
<1>4. /\ peers'[Host] = Put(peers[Host], x, DefaultRole)
      /\ \A s \in Sites : peers'[s] = peers[s]
  BY <1>1, NodesAndSites DEF Typed, TypeOK
<1>5. RosterTypes'
  BY <1>1, <1>4 DEF Rosters, RosterTypes, Put
<1>6. /\ DOMAIN peers'[Host] = DOMAIN peers[Host] \union {x}
      /\ \A t \in DOMAIN peers'[Host] : peers'[Host][t] = IF t = x THEN DefaultRole ELSE peers[Host][t]
  BY <1>4 DEF Put
<1>7. ASSUME NEW s \in Sites, s # x PROVE RosterOf(s)' /\ NotToldOff(s)'
  <2>1. RosterAfter(Others(s), joined) = Others(s)'
    <3>1. x \notin DOMAIN Others(s)
      BY <1>3 DEF Others, Restrict, Member
    <3>2. RosterAfter(Others(s), joined) = Put(Others(s), x, DefaultRole)
      BY <1>2, <3>1 DEF RosterAfter
    <3>3. Others(s) = [t \in DOMAIN peers[Host] \ {s} |-> peers[Host][t]]
      BY DEF Others, Restrict
    <3>4. Others(s)' = [t \in DOMAIN peers'[Host] \ {s} |-> peers'[Host][t]]
      BY DEF Others, Restrict
    <3>5. Put(Others(s), x, DefaultRole) =
             [t \in (DOMAIN peers[Host] \ {s}) \union {x} |->
                 IF t = x THEN DefaultRole ELSE peers[Host][t]]
      BY <3>3 DEF Put
    <3>6. DOMAIN peers'[Host] \ {s} = (DOMAIN peers[Host] \ {s}) \union {x}
      BY <1>6, <1>7
    <3> QED
      BY <1>6, <3>2, <3>4, <3>5, <3>6
  <2>2. ASSUME Member(s) PROVE Told(s, joined)
    BY <1>2, <1>6, <1>7, <2>1, <2>2 DEF Told, RoleAfter, Member
  <2>3. s \in linkUp => s \in guestTxs
    BY DEF Typed, TypeOK
  <2>4. CASE s \in linkUp
    <3>1. toGuest'[s] = Append(toGuest[s], joined)
      BY <1>1, <1>7, <2>3, <2>4 DEF Send
    <3> QED
      BY <1>1, <1>2, <1>4, <2>2, <3>1, RosterSend DEF Rosters
  <2>5. CASE s \notin linkUp
    <3>1. toGuest'[s] = toGuest[s]
      BY <1>1, <2>5 DEF Send
    <3> QED
      BY <1>1, <2>5, <3>1, RosterKept DEF Rosters
  <2> QED
    BY <2>4, <2>5
<1>8. RosterOf(x)' /\ NotToldOff(x)'
  <2>0. Channel(toGuest[x]) /\ NotToldOff(x) /\ (x \in linkUp => x \in guestTxs)
    BY DEF Typed, TypeOK, GuestChannels, Rosters
  <2>1. CASE x \notin linkUp
    <3>1. toGuest'[x] = toGuest[x]
      BY <1>1, <2>1 DEF Send
    <3> QED
      BY <1>1, <2>0, <2>1, <3>1 DEF RosterOf, NotToldOff
  <2>2. CASE x \in linkUp
    <3>1. toGuest'[x] = Append(toGuest[x], welcome)
      BY <1>1, <2>0, <2>2 DEF Send
    <3>2. NotToldOff(x)'
      BY <1>2, <2>0, <3>1, SendFrame DEF NotToldOff
    <3>3. ASSUME NEW w \in Starts(x)' PROVE CatchesUp(x, w)'
      <4>1. SentStart(x, welcome, w)
        BY <1>1, <2>0, <3>1, <3>3, StartsSend
      <4>2. w \notin Starts(x)
        BY <1>3, <2>2, StarterIsMember
      <4>3. w # 0 /\ toGuest'[x][w] = welcome /\ After(toGuest'[x], w) = <<>>
        BY <4>1, <4>2 DEF SentStart
      <4>4. RosterFrom(x, w)' = peers[Host] /\ RoleFrom(x, w)' = DefaultRole
        BY <1>2, <4>3 DEF RosterFrom, RoleFrom
      <4>5. Others(x)' = peers[Host]
        <5>1. Others(x)' = [t \in DOMAIN peers'[Host] \ {x} |-> peers'[Host][t]]
          BY DEF Others, Restrict
        <5>2. DOMAIN peers'[Host] \ {x} = DOMAIN peers[Host]
          BY <1>3, <1>6 DEF Member
        <5>3. \A t \in DOMAIN peers[Host] : peers'[Host][t] = peers[Host][t]
          BY <1>3, <1>6 DEF Member
        <5>4. peers[Host] = [t \in DOMAIN peers[Host] |-> peers[Host][t]]
          BY DEF Rosters, RosterTypes
        <5> QED
          BY <5>1, <5>2, <5>3, <5>4
      <4>6. peers'[Host][x] = DefaultRole
        BY <1>6
      <4>7. /\ Rostering!Fold(0, peers[Host], <<>>) = peers[Host]
            /\ Promoting!Fold(x, DefaultRole, <<>>) = DefaultRole
        BY Rostering!FoldEmpty, Promoting!FoldEmpty
      <4> QED
        BY <4>3, <4>4, <4>5, <4>6, <4>7 DEF CatchesUp
    <3> QED
      BY <3>2, <3>3 DEF RosterOf
  <2> QED
    BY <2>1, <2>2
<1> QED
  BY <1>5, <1>7, <1>8 DEF Rosters

\* A peer that left is taken off every list but its own.
LEMMA HostLeftRosters ==
  ASSUME Typed, Membership, Rosters, NEW x \in Sites, HostLeft(x) PROVE Rosters'
<1> DEFINE m == [type |-> "PeerLeft", site |-> x]
           q == toHost[x]
<1>1. /\ toGuest' = Send(toGuest, Sites \ {}, m)
      /\ peers' = [peers EXCEPT ![Host] = Restrict(peers[Host], DOMAIN peers[Host] \ {x})]
      /\ UNCHANGED <<linkUp, phase, myRole>>
      /\ q # <<>> /\ Head(q).type = "Left"
  BY DEF HostLeft, Broadcast, HostGets
<1>2. m.type = "PeerLeft" /\ m.site = x
  OBVIOUS
<1> HIDE DEF m
<1>3. x \notin linkUp
  <2>1. Head(q) = q[1] /\ 1 \in 1 .. Len(q)
    BY <1>1, ReceiveFrame DEF Typed, HostChannels
  <2>2. x \notin guestTxs
    BY <1>1, <2>1 DEF Membership, MembershipOf, LeftComesLast
  <2> QED
    BY <2>2 DEF Typed, TypeOK
<1>4. /\ peers'[Host] = Restrict(peers[Host], DOMAIN peers[Host] \ {x})
      /\ \A s \in Sites : peers'[s] = peers[s]
  BY <1>1, NodesAndSites DEF Typed, TypeOK
<1>5. RosterTypes'
  <2>1. peers'[Host] = [t \in DOMAIN peers[Host] \ {x} |-> peers[Host][t]]
    BY <1>4 DEF Restrict
  <2>2. peers'[Host] = [t \in DOMAIN peers'[Host] |-> peers'[Host][t]]
    BY <2>1
  <2> QED
    BY <1>1, <2>2 DEF Rosters, RosterTypes
<1>6. /\ DOMAIN peers'[Host] = DOMAIN peers[Host] \ {x}
      /\ \A t \in DOMAIN peers'[Host] : peers'[Host][t] = peers[Host][t]
  BY <1>4 DEF Restrict
<1>7. ASSUME NEW s \in Sites, s \in linkUp PROVE RosterOf(s)' /\ NotToldOff(s)'
  <2>0. s # x
    BY <1>3, <1>7
  <2>1. RosterAfter(Others(s), m) = Others(s)'
    <3>1. RosterAfter(Others(s), m) = Restrict(Others(s), DOMAIN Others(s) \ {x})
      BY <1>2 DEF RosterAfter
    <3>2. Others(s) = [t \in DOMAIN peers[Host] \ {s} |-> peers[Host][t]]
      BY DEF Others, Restrict
    <3>3. Others(s)' = [t \in DOMAIN peers'[Host] \ {s} |-> peers'[Host][t]]
      BY DEF Others, Restrict
    <3>4. Restrict(Others(s), DOMAIN Others(s) \ {x}) =
              [t \in (DOMAIN peers[Host] \ {s}) \ {x} |-> peers[Host][t]]
      BY <3>2 DEF Restrict
    <3>5. DOMAIN peers'[Host] \ {s} = (DOMAIN peers[Host] \ {s}) \ {x}
      BY <1>6
    <3> QED
      BY <1>6, <3>1, <3>3, <3>4, <3>5
  <2>2. ASSUME Member(s) PROVE Told(s, m)
    BY <1>2, <1>6, <2>0, <2>1, <2>2 DEF Told, RoleAfter, Member
  <2>3. s \in guestTxs
    BY <1>7 DEF Typed, TypeOK
  <2>4. toGuest'[s] = Append(toGuest[s], m)
    BY <1>1, <1>7, <2>3 DEF Send
  <2> QED
    BY <1>1, <1>2, <1>4, <2>0, <2>2, <2>4, RosterSend DEF Rosters
<1>8. ASSUME NEW s \in Sites, s \notin linkUp PROVE RosterOf(s)' /\ NotToldOff(s)'
  <2>1. toGuest'[s] = toGuest[s]
    BY <1>1, <1>8 DEF Send
  <2> QED
    BY <1>1, <1>8, <2>1, RosterKept DEF Rosters
<1> QED
  BY <1>5, <1>7, <1>8 DEF Rosters

\* A role that changes is broadcast, to the guest it is about as well.
LEMMA HostRoleRequestRosters ==
  ASSUME Typed, Membership, Rosters, NEW x \in Sites, HostRoleRequest(x) PROVE Rosters'
<1> DEFINE h == Head(toHost[x])
           m == [type |-> "PeerRoleChanged", site |-> h.target, role |-> h.role]
<1>1. UNCHANGED <<linkUp, phase, myRole>>
  BY DEF HostRoleRequest
<1>2. CASE ~Grants(x, h.role)
  <2>1. peers' = peers /\ toGuest' = toGuest
    BY <1>2 DEF HostRoleRequest
  <2> QED
    BY <1>1, <2>1, RostersQuiet DEF NeutralTo
<1>3. CASE Grants(x, h.role)
  <2>1. /\ toGuest' = Send(toGuest, Sites \ {}, m)
        /\ peers' = IF h.target \in DOMAIN peers[Host]
                    THEN [peers EXCEPT ![Host] = [peers[Host] EXCEPT ![h.target] = h.role]]
                    ELSE peers
    BY <1>3 DEF HostRoleRequest, Broadcast
  <2>2. m.type = "PeerRoleChanged" /\ m.site = h.target /\ m.role = h.role
    OBVIOUS
  <2> HIDE DEF m, h
  <2>3. \A s \in Sites : peers'[s] = peers[s]
    BY <2>1, NodesAndSites DEF Typed, TypeOK
  <2>4. /\ DOMAIN peers'[Host] = DOMAIN peers[Host]
        /\ \A t \in DOMAIN peers[Host] :
               peers'[Host][t] = IF t = h.target THEN h.role ELSE peers[Host][t]
    BY <2>1, NodesAndSites DEF Typed, TypeOK
  <2>5. RosterTypes'
    BY <1>1, <2>1, NodesAndSites DEF Rosters, RosterTypes, Typed, TypeOK
  <2>6. ASSUME NEW s \in Sites, Member(s) PROVE Told(s, m)
    <3>1. RosterAfter(Others(s), m) = Others(s)'
      <4>2. Others(s) = [t \in DOMAIN peers[Host] \ {s} |-> peers[Host][t]]
        BY DEF Others, Restrict
      <4>3. Others(s)' = [t \in DOMAIN peers'[Host] \ {s} |-> peers'[Host][t]]
        BY DEF Others, Restrict
      <4>4. CASE h.target \in DOMAIN Others(s)
        <5>1. RosterAfter(Others(s), m) = [Others(s) EXCEPT ![h.target] = h.role]
          BY <2>2, <4>4 DEF RosterAfter
        <5>2. [Others(s) EXCEPT ![h.target] = h.role] =
                 [t \in DOMAIN peers[Host] \ {s} |->
                     IF t = h.target THEN h.role ELSE peers[Host][t]]
          BY <4>2
        <5>3. Others(s)' = [t \in DOMAIN peers[Host] \ {s} |->
                               IF t = h.target THEN h.role ELSE peers[Host][t]]
          BY <2>4, <4>3
        <5> QED
          BY <5>1, <5>2, <5>3
      <4>5. CASE h.target \notin DOMAIN Others(s)
        <5>1. RosterAfter(Others(s), m) = Others(s)
          BY <2>2, <4>5 DEF RosterAfter
        <5>2. \A t \in DOMAIN peers[Host] \ {s} : t # h.target
          BY <4>2, <4>5
        <5> QED
          BY <2>4, <4>2, <4>3, <5>1, <5>2
      <4> QED
        BY <4>4, <4>5
    <3>2. RoleAfter(s, peers[Host][s], m) = peers'[Host][s]
      BY <2>2, <2>4, <2>6 DEF RoleAfter, Member
    <3> QED
      BY <3>1, <3>2 DEF Told
  <2>7. ASSUME NEW s \in Sites, s \in linkUp PROVE RosterOf(s)' /\ NotToldOff(s)'
    <3>1. s \in guestTxs
      BY <2>7 DEF Typed, TypeOK
    <3>2. toGuest'[s] = Append(toGuest[s], m)
      BY <2>1, <2>7, <3>1 DEF Send
    <3> QED
      BY <1>1, <2>2, <2>3, <2>6, <3>2, RosterSend DEF Rosters
  <2>8. ASSUME NEW s \in Sites, s \notin linkUp PROVE RosterOf(s)' /\ NotToldOff(s)'
    <3>1. toGuest'[s] = toGuest[s]
      BY <2>1, <2>8 DEF Send
    <3> QED
      BY <1>1, <2>8, <3>1, RosterKept DEF Rosters
  <2> QED
    BY <2>5, <2>7, <2>8 DEF Rosters
<1> QED
  BY <1>2, <1>3

\* Edits and cursors are no news of the peers.
LEMMA HostRequestRosters ==
  ASSUME Typed, Membership, Rosters, NEW x \in Sites, HostOp(x) \/ HostCursor(x) PROVE Rosters'
<1>1. CASE HostCursor(x)
  <2>1. UNCHANGED <<peers, myRole, phase, linkUp, toGuest>>
    BY <1>1 DEF HostCursor, memberVars
  <2> QED
    BY <2>1, RostersQuiet DEF NeutralTo
<1>2. CASE HostOp(x)
  <2> DEFINE m   == Head(toHost[x])
             ack == [type |-> "Ack", clock |-> m.clock, path |-> m.path]
  <2>1. /\ UNCHANGED <<peers, myRole, phase, linkUp>>
        /\ \/ toGuest' = toGuest
           \/ toGuest' = Send(Send(toGuest, Sites \ {m.site}, m), {m.site}, ack)
        /\ m.type = "Op"
    <3>1. m.type = "Op"
      BY <1>2 DEF HostOp, HostGets
    <3>2. UNCHANGED <<peers, myRole, phase, linkUp>>
      BY <1>2 DEF HostOp, memberVars
    <3>3. \/ toGuest' = toGuest
          \/ toGuest' = Send(Send(toGuest, Sites \ {m.site}, m), {m.site}, ack)
      <4>1. CASE CanWrite(m.site, m.path)
        BY <1>2, <4>1 DEF HostOp, Broadcast
      <4>2. CASE ~CanWrite(m.site, m.path)
        BY <1>2, <4>2 DEF HostOp
      <4> QED
        BY <4>1, <4>2
    <3> QED
      BY <3>1, <3>2, <3>3
  <2>2. Neutral(m) /\ Neutral(ack)
    BY <2>1 DEF Neutral
  <2> HIDE DEF m, ack
  <2>3. ASSUME NEW s \in Sites PROVE NeutralTo(s)
    <3>1. \/ toGuest'[s] = toGuest[s] \/ toGuest'[s] = Append(toGuest[s], m)
          \/ toGuest'[s] = Append(toGuest[s], ack)
      BY <2>1 DEF Send
    <3> QED
      BY <2>2, <3>1 DEF NeutralTo
  <2> QED
    BY <2>1, <2>3, RostersQuiet
<1> QED
  BY <1>1, <1>2
\* The host's main loop.
LEMMA HostEventRosters ==
  ASSUME Typed, Membership, Rosters, NEW x \in Sites, HostEvent(x) PROVE Rosters'
  BY HostJoinRosters, HostLeftRosters, HostRoleRequestRosters, HostRequestRosters DEF HostEvent

\* What a guest makes of the first frame of its channel it will not make again.
LEMMA RosterHandles ==
  ASSUME Typed, Rosters, NEW x \in Sites, toGuest[x] # <<>>, toGuest'[x] = Tail(toGuest[x]),
         phase[x] = "joined", phase'[x] = "joined", linkUp' = linkUp,
         peers'[Host] = peers[Host],
         peers'[x] = RosterAfter(peers[x], Head(toGuest[x])),
         myRole'[x] = RoleAfter(x, myRole[x], Head(toGuest[x]))
  PROVE  RosterOf(x)'
<1> DEFINE q == toGuest[x]
           S == ToSet(q)
<1>0. Channel(q) /\ q \in Seq(S) /\ q # <<>>
  BY DEF Typed, GuestChannels, Channel
<1>1. ASSUME x \in linkUp, NEW w \in Starts(x)' PROVE CatchesUp(x, w)'
  <2>1. /\ w = 0 /\ 0 \in Starts(x)
        /\ After(toGuest'[x], 0) = Tail(q) /\ After(q, 0) = q
    BY <1>0, <1>1, StartsHandle
  <2>2. CatchesUp(x, 0)
    BY <1>1, <2>1 DEF Rosters, RosterOf
  <2>3. Others(x)' = Others(x)
    BY DEF Others
  <2> HIDE DEF S, q
  <2>4. ASSUME NEW a
        PROVE  Rostering!Fold(0, a, q) = Rostering!Fold(0, RosterAfter(a, Head(q)), Tail(q))
    BY <1>0, Rostering!FoldHead
  <2>5. ASSUME NEW a
        PROVE  Promoting!Fold(x, a, q) = Promoting!Fold(x, RoleAfter(x, a, Head(q)), Tail(q))
    BY <1>0, Promoting!FoldHead
  <2>6. /\ Rostering!Fold(0, peers[x], q) = Others(x)
        /\ Promoting!Fold(x, myRole[x], q) = peers[Host][x]
    BY <2>1, <2>2 DEF CatchesUp, RosterFrom, RoleFrom, q
  <2>7. /\ Rostering!Fold(0, peers'[x], Tail(q)) = Others(x)
        /\ Promoting!Fold(x, myRole'[x], Tail(q)) = peers[Host][x]
    BY <2>4, <2>5, <2>6 DEF q
  <2> QED
    BY <2>1, <2>3, <2>7 DEF CatchesUp, RosterFrom, RoleFrom
<1> QED
  BY <1>1 DEF RosterOf

\* A guest's main loop: the list it enters with is the Welcome's, and every
\* frame does to it what it did to the host's.
LEMMA GuestEventRosters ==
  ASSUME Typed, Membership, Rosters, NEW x \in Sites, GuestEvent(x) PROVE Rosters'
<1> DEFINE q == toGuest[x]
           m == Head(q)
<1>0. /\ x \in Nodes /\ x # Host /\ RosterOf(x) /\ NotToldOff(x)
      /\ DOMAIN phase = Sites /\ DOMAIN peers = Nodes
  BY NodesAndSites DEF Rosters, Typed, TypeOK
<1>1. /\ q # <<>> /\ toGuest' = [toGuest EXCEPT ![x] = Tail(q)] /\ toGuest'[x] = Tail(q)
      /\ UNCHANGED <<nextSiteId, linkUp>> /\ Channel(q)
  <2>1. q # <<>> /\ toGuest' = [toGuest EXCEPT ![x] = Tail(q)] /\ UNCHANGED <<nextSiteId, linkUp>>
    BY GuestEventFrame
  <2> QED
    BY <2>1 DEF Typed, GuestChannels
<1>2. NotToldOff(x)'
  BY <1>0, <1>1, ReceiveFrame DEF NotToldOff
<1>3. ASSUME peers'[Host] = peers[Host], DOMAIN myRole' = DOMAIN myRole,
             \A s \in Sites : s # x => /\ phase'[s] = phase[s] /\ peers'[s] = peers[s]
                                       /\ myRole'[s] = myRole[s],
             RosterOf(x)'
      PROVE  Rosters'
  <2>1. RosterTypes'
    BY <1>3 DEF Rosters, RosterTypes
  <2>2. ASSUME NEW s \in Sites, s # x PROVE RosterOf(s)' /\ NotToldOff(s)'
    <3>1. toGuest'[s] = toGuest[s] /\ Others(s)' = Others(s)
      BY <1>1, <1>3, <2>2 DEF Typed, GuestChannels, Others
    <3> QED
      BY <1>1, <1>3, <2>2, <3>1, RosterKept DEF Rosters
  <2> QED
    BY <1>2, <1>3, <2>1, <2>2 DEF Rosters
<1>4. ASSUME phase'[x] \notin {"connecting", "joined"} PROVE RosterOf(x)'
  BY <1>4 DEF RosterOf, Starts
<1>5. CASE GuestWelcome(x)
  <2>0. phase[x] = "connecting" /\ m.type = "Welcome"
    BY <1>5 DEF GuestWelcome, GuestGets
  <2>1. CASE phase' = [phase EXCEPT ![x] = "joined"]
    <3>1. /\ phase'[x] = "joined" /\ peers' = [peers EXCEPT ![x] = m.peers]
          /\ myRole' = [myRole EXCEPT ![x] = m.role]
      <4>1. phase'[x] = "joined"
        BY <1>0, <2>1
      <4>2. phase' # [phase EXCEPT ![x] = "detached"]
        BY <1>0, <4>1
      <4> QED
        BY <1>5, <4>1, <4>2 DEF GuestWelcome
    <3>2. peers'[Host] = peers[Host] /\ peers'[x] = m.peers
      BY <1>0, <3>1, NodesAndSites
    <3>4. ASSUME x \in linkUp, NEW w \in Starts(x)' PROVE CatchesUp(x, w)'
      <4>1. /\ w = 0 /\ 1 \in Starts(x) /\ q[1] = m /\ After(toGuest'[x], 0) = After(q, 1)
        BY <1>1, <2>0, <3>1, <3>4, StartsWelcome
      <4>2. CatchesUp(x, 1)
        BY <1>0, <3>4, <4>1 DEF RosterOf
      <4>3. RosterFrom(x, 1) = m.peers /\ RoleFrom(x, 1) = m.role
        BY <4>1 DEF RosterFrom, RoleFrom
      <4>4. RosterFrom(x, w)' = m.peers /\ RoleFrom(x, w)' = myRole'[x]
        BY <3>2, <4>1 DEF RosterFrom, RoleFrom
      <4>5. myRole'[x] = m.role
        BY <3>1 DEF Rosters, RosterTypes
      <4> QED
        BY <3>2, <4>1, <4>2, <4>3, <4>4, <4>5 DEF CatchesUp, Others
    <3>5. RosterOf(x)'
      BY <1>1, <3>4 DEF RosterOf
    <3>6. \A s \in Sites : s # x => /\ phase'[s] = phase[s] /\ peers'[s] = peers[s]
                                    /\ myRole'[s] = myRole[s]
      BY <2>1, <3>1
    <3>7. DOMAIN myRole' = DOMAIN myRole
      BY <3>1
    <3> QED
      BY <1>3, <3>2, <3>5, <3>6, <3>7
  <2>2. CASE phase' = [phase EXCEPT ![x] = "detached"] /\ UNCHANGED <<peers, myRole>>
    <3>1. phase'[x] = "detached"
      BY <1>0, <2>2
    <3> QED
      BY <1>3, <1>4, <2>2, <3>1
  <2> QED
    BY <1>5, <2>1, <2>2 DEF GuestWelcome
<1>6. CASE GuestSkips(x)
  <2>1. /\ UNCHANGED <<phase, peers, myRole>>
        /\ phase[x] = "connecting" \/ phase[x] = "detached"
    BY <1>6 DEF GuestSkips, memberVars
  <2>2. ASSUME phase[x] = "connecting" PROVE RosterOf(x)'
    <3>1. ASSUME x \in linkUp, NEW w \in Starts(x)' PROVE CatchesUp(x, w)'
      <4>1. /\ w # 0 /\ w + 1 # 0 /\ w + 1 \in Starts(x)
            /\ toGuest'[x][w] = q[w + 1]
            /\ After(toGuest'[x], w) = After(q, w + 1)
        BY <1>1, <2>1, <2>2, <3>1, StartsSkip
      <4>2. CatchesUp(x, w + 1)
        BY <1>0, <3>1, <4>1 DEF RosterOf
      <4>3. /\ RosterFrom(x, w)' = RosterFrom(x, w + 1)
            /\ RoleFrom(x, w)' = RoleFrom(x, w + 1)
        BY <4>1 DEF RosterFrom, RoleFrom
      <4> QED
        BY <2>1, <4>1, <4>2, <4>3 DEF CatchesUp, Others
    <3> QED
      BY <1>1, <3>1 DEF RosterOf
  <2> QED
    BY <1>3, <1>4, <2>1, <2>2
<1>7. ASSUME phase'[x] = "joined", phase[x] = "joined",
             \A s \in Sites : s # x => phase'[s] = phase[s],
             UNCHANGED <<peers, myRole>>, Neutral(m)
      PROVE  Rosters'
  <2>1. peers[x] = RosterAfter(peers[x], m) /\ myRole[x] = RoleAfter(x, myRole[x], m)
    BY <1>7 DEF Neutral, RosterAfter, RoleAfter
  <2>2. RosterOf(x)'
    BY <1>1, <1>7, <2>1, RosterHandles
  <2> QED
    BY <1>3, <1>7, <2>2
<1>8. CASE GuestOp(x) \/ GuestAck(x) \/ GuestCursor(x)
  <2>1. phase[x] = "joined" /\ UNCHANGED <<phase, peers, myRole>> /\ m.type \in {"Op", "Ack", "CursorUpdate"}
    BY <1>8 DEF GuestOp, GuestAck, GuestCursor, GuestGets, memberVars
  <2> QED
    BY <1>7, <2>1 DEF Neutral
<1>9. CASE GuestRoster(x)
  <2>1. /\ phase[x] = "joined" /\ UNCHANGED phase
        /\ peers' = [peers EXCEPT ![x] = RosterAfter(peers[x], m)]
        /\ myRole' = IF m.type = "PeerRoleChanged" /\ m.site = x
                     THEN [myRole EXCEPT ![x] = m.role] ELSE myRole
    BY <1>9 DEF GuestRoster
  <2>2. peers'[Host] = peers[Host] /\ peers'[x] = RosterAfter(peers[x], m)
    BY <1>0, <2>1, NodesAndSites
  <2>3. myRole'[x] = RoleAfter(x, myRole[x], m)
    BY <2>1 DEF RoleAfter, Rosters, RosterTypes
  <2>4. RosterOf(x)'
    BY <1>1, <2>1, <2>2, <2>3, RosterHandles
  <2> QED
    BY <1>3, <2>1, <2>2, <2>4
<1>10. CASE GuestFileSaved(x)
  <2>1. /\ phase[x] \in {"joined", "detached"} /\ UNCHANGED <<phase, peers, myRole>>
        /\ m.type = "FileSaved"
    BY <1>10 DEF GuestFileSaved, GuestGets, memberVars
  <2> QED
    BY <1>3, <1>4, <1>7, <2>1 DEF Neutral
<1>11. CASE GuestDisconnected(x)
  <2>1. phase' = [phase EXCEPT ![x] = "closed"] /\ UNCHANGED <<peers, myRole>>
    BY <1>11 DEF GuestDisconnected
  <2>2. phase'[x] = "closed" /\ \A s \in Sites : s # x => phase'[s] = phase[s]
    BY <1>0, <2>1
  <2> QED
    BY <1>3, <1>4, <2>1, <2>2
<1> QED
  BY <1>5, <1>6, <1>8, <1>9, <1>10, <1>11 DEF GuestEvent

\* Rosters is inductive relative to Typed and Membership.
LEMMA StepRosters == ASSUME Typed, Membership, Rosters, [Next]_vars PROVE Rosters'
<1>1. CASE \/ Connect \/ HostWriter
           \/ \E s \in Sites : ReaderEof(s) \/ GuestExit(s) \/ ConnectionLost(s)
  BY <1>1, ConnectionRosters
<1>2. ASSUME NEW s \in Sites, HostEvent(s) PROVE Rosters'
  BY <1>2, HostEventRosters
<1>3. ASSUME NEW s \in Sites, GuestEvent(s) PROVE Rosters'
  BY <1>3, GuestEventRosters
<1>4. CASE UserAction
  BY <1>4, UserActionRosters
<1>5. CASE UNCHANGED vars
  <2>1. UNCHANGED <<peers, myRole, phase, linkUp, toGuest>>
    BY <1>5 DEF vars, netVars, memberVars
  <2> QED
    BY <2>1, RostersQuiet DEF NeutralTo
<1> QED
  BY <1>1, <1>2, <1>3, <1>4, <1>5 DEF Next

\* A guest's roster is never wrong, only late: however joins, departures, role
\* changes and failures interleave, the frames on their way to a guest turn its
\* peer list and its own role into the host's (CollabGuestJoined's snapshot,
\* PeerJoined's deduplication, PeerLeft, PeerRoleChanged).
THEOREM RostersAlwaysCatchUp == Spec => []RostersCatchUp
<1>1. ASSUME Typed, Rosters PROVE RostersCatchUp
  <2>1. ASSUME NEW s \in Sites, Live(s)
        PROVE  /\ FoldLeft(RosterAfter, peers[s], toGuest[s]) =
                      Restrict(peers[Host], DOMAIN peers[Host] \ {s})
               /\ FoldLeft(RosterAfter, Put(EmptyMap, s, myRole[s]), toGuest[s])[s] = peers[Host][s]
    <3> DEFINE own == Put(EmptyMap, s, myRole[s])
               q   == toGuest[s]
               S   == ToSet(q)
    <3>0. Channel(q) /\ q \in Seq(S) /\ RosterOf(s) /\ NotToldOff(s)
      BY <1>1 DEF Typed, GuestChannels, Channel, Rosters
    <3>1. 0 \in Starts(s) /\ s \in linkUp
      <4>1. Len(q) \in Nat
        BY <3>0
      <4> QED
        BY <2>1, <4>1 DEF Live, Starts
    <3>2. After(q, 0) = q
      <4> HIDE DEF S, q
      <4> QED
        BY <3>0, AfterEnds
    <3>3. /\ Rostering!Fold(0, peers[s], q) = Others(s)
          /\ Promoting!Fold(s, myRole[s], q) = peers[Host][s]
      BY <3>0, <3>1, <3>2 DEF RosterOf, CatchesUp, RosterFrom, RoleFrom
    <3>4. s \in DOMAIN own /\ own[s] = myRole[s]
      BY DEF Put
    <3> HIDE DEF own
    <3>5. Rostering!Fold(0, own, q)[s] = Promoting!Fold(s, myRole[s], q)
      BY <3>0, <3>4, RosterShowsRole DEF NotToldOff
    <3> QED
      BY <3>3, <3>5, RosterFolds DEF Others, own
  <2> QED
    BY <2>1 DEF RostersCatchUp
<1>2. Init => Typed /\ Membership /\ Rosters
  BY InitTyped, InitMembership, InitRosters
<1>3. Typed /\ Membership /\ Rosters /\ [Next]_vars => (Typed /\ Membership /\ Rosters)'
  BY StepTyped, StepMembership, StepRosters
<1> QED
  BY <1>1, <1>2, <1>3, PTL DEF Spec

-----------------------------------------------------------------------------
(* Two editors: what both type at once.                                    *)

\* The characters near and far may have in their texts.
NearCharacters == ToSet(Base) \union {Fresh(k) : k \in Nat}
FarCharacters  == ToSet(Base) \union {8, 9}
Characters     == NearCharacters \union FarCharacters

\* The texts near has had, and the entries in flight from each to the next.
Typing(h) ==
    /\ h[0] = Base /\ h[Len(nearInflight)] = near
    /\ \A k \in 0 .. Len(nearInflight) : h[k] \in Seq(NearCharacters)
    /\ \A k \in 1 .. Len(nearInflight) :
          /\ h[k - 1] # h[k]
          /\ nearInflight[k].ops = ExtractOps(h[k - 1], h[k], NearSite)

\* Near's side before the two meet.
NearSide ==
    /\ nearInflight \in Entries(NearCharacters)
    /\ near \in Seq(NearCharacters) /\ IsInjective(near)
    /\ ToSet(near) \subseteq ToSet(Base) \union {Fresh(k) : k \in 0 .. Len(nearInflight) - 1}
    /\ near = ApplyOps(Base, OpsOf(nearInflight))
    /\ typed = OpsOf(nearInflight)
    /\ \E h : Typing(h)
    /\ nearCursor \in 0 .. Len(near)
    /\ before = [text |-> near, cursor |-> nearCursor]

\* Far's side.
FarSide ==
    /\ farSite \in FarSites
    /\ far \in Seq(FarCharacters)
    /\ \/ far = Base /\ remote = <<>>
       \/ far # Base /\ remote = ExtractOps(Base, far, farSite)

Sides == FarSide /\ (~integrated => NearSide)

-----------------------------------------------------------------------------
(* The operations of entries, by the lemmas of FoldFacts.                  *)

Joining == INSTANCE FoldFacts WITH Op <- LAMBDA k, ops, entry : ops \o entry.ops

\* The entries' operations are a fold the lemmas are about.
LEMMA OpsFold == ASSUME NEW entries PROVE OpsOf(entries) = Joining!Fold(0, <<>>, entries)
  BY DEF OpsOf, FoldLeft, MapThenFoldSet, Max, Joining!Fold, Joining!Iterates, Joining!Top

\* One entry more adds its operations.
LEMMA OpsOfMore ==
  ASSUME NEW E, NEW entries \in Seq(E), NEW entry \in E
  PROVE  OpsOf(Append(entries, entry)) = OpsOf(entries) \o entry.ops
<1>1. Joining!Fold(0, <<>>, Append(entries, entry)) = Joining!Fold(0, <<>>, entries) \o entry.ops
  BY Joining!FoldAppend
<1> QED
  BY <1>1, OpsFold

\* No entry, no operation.
LEMMA OpsOfNone == OpsOf(<<>>) = <<>>
  BY OpsFold, Joining!FoldEmpty

\* Entries of operations hold operations.
LEMMA OpsOfTyped ==
  ASSUME NEW S, NEW entries \in Entries(S)
  PROVE  OpsOf(entries) \in Compound(S)
<1> DEFINE T == TextOperation(S)
           V == Seq(T)
           E == [clock : Nat, ops : Compound(S)]
<1>1. entries \in Seq(E) /\ <<>> \in V
  BY DEF Entries
<1>2. ASSUME NEW ops \in V, NEW entry \in E PROVE ops \o entry.ops \in V
  <2> HIDE DEF T
  <2>1. entry.ops \in Seq(T)
    BY DEF Compound, T
  <2> QED
    BY <2>1
<1> HIDE DEF V, E
<1>3. Joining!Fold(0, <<>>, entries) \in V
  BY <1>1, <1>2, Joining!FoldKeeps
<1> QED
  BY <1>3, OpsFold DEF V, T, Compound

\* Operations applied in two goes.
LEMMA AppliedInTurn ==
  ASSUME NEW S, NEW t, NEW a \in Compound(S), NEW b \in Compound(S)
  PROVE  ApplyOps(t, a \o b) = ApplyOps(ApplyOps(t, a), b)
<1> DEFINE T == TextOperation(S)
<1>1. a \in Seq(T) /\ b \in Seq(T)
  BY DEF Compound
<1> HIDE DEF T
<1>2. Applying!Fold(0, t, a \o b) = Applying!Fold(0, Applying!Fold(0, t, a), b)
  BY <1>1, Applying!FoldConcat
<1> QED
  BY <1>2, ApplyingFolds

-----------------------------------------------------------------------------
(* Before the two meet.                                                    *)

\* The document and what near and far type.
LEMMA DocumentFacts ==
  /\ Base \in Seq(NearCharacters) /\ Base \in Seq(FarCharacters) /\ Len(Base) \in Nat \ {0}
  /\ \A k \in Nat : <<Fresh(k)>> \in Seq(NearCharacters)
  /\ \A new \in FarTexts : new \in Seq(FarCharacters)
  /\ NearSite \in Nat /\ NearSite \notin FarSites /\ FarSites \subseteq Nat
<1>1. Base \in Seq(ToSet(Base)) /\ Base # <<>>
  BY DocumentAssumption
<1>2. ToSet(Base) \subseteq NearCharacters /\ ToSet(Base) \subseteq FarCharacters
  BY DEF NearCharacters, FarCharacters
<1>3. Base \in Seq(NearCharacters) /\ Base \in Seq(FarCharacters) /\ Len(Base) \in Nat \ {0}
  <2> DEFINE T == ToSet(Base)
  <2>1. Base \in Seq(T) /\ T \subseteq NearCharacters /\ T \subseteq FarCharacters
    BY <1>1, <1>2
  <2> HIDE DEF T
  <2> QED
    BY <1>1, <2>1
<1>4. \A k \in Nat : <<Fresh(k)>> \in Seq(NearCharacters)
  <2>1. \A k \in Nat : Fresh(k) \in NearCharacters
    BY DEF NearCharacters
  <2> QED
    BY <2>1
<1>5. \A new \in FarTexts : new \in Seq(FarCharacters)
  <2>1. Base[1] \in FarCharacters /\ 8 \in FarCharacters /\ 9 \in FarCharacters
    BY <1>3 DEF FarCharacters
  <2>2. /\ <<>> \in Seq(FarCharacters) /\ <<8>> \in Seq(FarCharacters)
        /\ <<8, 9>> \in Seq(FarCharacters) /\ <<Base[1]>> \in Seq(FarCharacters)
    BY <2>1
  <2> QED
    BY <2>2 DEF FarTexts
<1> QED
  BY <1>3, <1>4, <1>5, DocumentAssumption, SitesDiffer

\* A selection replaced: what is where afterwards.
Replaces(S, t, lo, hi, new, u) ==
    /\ u \in Seq(S) /\ Len(u) = Len(t) + Len(new) - (hi - lo)
    /\ \A i \in 1 .. Len(u) :
          u[i] = IF i <= lo THEN t[i] ELSE IF i <= lo + Len(new) THEN new[i - lo]
                 ELSE t[i - Len(new) + (hi - lo)]

\* Replace does that.
LEMMA ReplacedText ==
  ASSUME NEW S, NEW t \in Seq(S), NEW new \in Seq(S), NEW lo \in 0 .. Len(t), NEW hi \in 0 .. Len(t),
         lo <= hi, NEW u, u = Replace(t, lo, hi, new)
  PROVE  Replaces(S, t, lo, hi, new, u)
<1> DEFINE left == SubSeq(t, 1, lo)
           right == SubSeq(t, hi + 1, Len(t))
           half == left \o new
<1>0. /\ Len(t) \in Nat /\ Len(new) \in Nat /\ lo \in Nat /\ hi \in Nat
      /\ lo <= Len(t) /\ hi <= Len(t)
  OBVIOUS
<1>1. u = half \o right
  BY DEF Replace
<1>2. left \in Seq(S) /\ Len(left) = lo /\ \A i \in 1 .. lo : left[i] = t[i]
  BY <1>0
<1>3. /\ right \in Seq(S) /\ Len(right) = Len(t) - hi
      /\ \A i \in 1 .. Len(t) - hi : right[i] = t[hi + i]
  BY <1>0
<1> HIDE DEF left, right
<1>4. /\ half \in Seq(S) /\ Len(half) = lo + Len(new)
      /\ \A i \in 1 .. lo + Len(new) : half[i] = IF i <= lo THEN t[i] ELSE new[i - lo]
  <2>1. half \in Seq(S) /\ Len(half) = Len(left) + Len(new)
    BY <1>2, ConcatProperties
  <2>2. \A i \in 1 .. Len(left) + Len(new) :
           half[i] = IF i <= Len(left) THEN left[i] ELSE new[i - Len(left)]
    BY <1>2, ConcatProperties
  <2> QED
    BY <1>0, <1>2, <2>1, <2>2
<1> HIDE DEF half
<1>5. u \in Seq(S) /\ Len(u) = Len(half) + Len(right)
  BY <1>1, <1>3, <1>4, ConcatProperties
<1>6. \A i \in 1 .. Len(half) + Len(right) :
         u[i] = IF i <= Len(half) THEN half[i] ELSE right[i - Len(half)]
  BY <1>1, <1>3, <1>4, ConcatProperties
<1>7. Len(u) = Len(t) + Len(new) - (hi - lo)
  BY <1>0, <1>3, <1>4, <1>5
<1>8. ASSUME NEW i \in 1 .. Len(u)
      PROVE  u[i] = IF i <= lo THEN t[i] ELSE IF i <= lo + Len(new) THEN new[i - lo]
                    ELSE t[i - Len(new) + (hi - lo)]
  <2>1. CASE i <= lo + Len(new)
    <3>1. u[i] = half[i] /\ i \in 1 .. lo + Len(new)
      BY <1>0, <1>3, <1>4, <1>5, <1>6, <2>1
    <3> QED
      BY <1>0, <1>4, <2>1, <3>1
  <2>2. CASE lo + Len(new) < i
    <3> DEFINE j == i - (lo + Len(new))
    <3>1. u[i] = right[j] /\ j \in 1 .. Len(t) - hi
      BY <1>0, <1>3, <1>4, <1>5, <1>6, <1>7, <2>2
    <3>2. hi + j = i - Len(new) + (hi - lo)
      BY <1>0
    <3>3. u[i] = t[hi + j]
      BY <1>3, <3>1
    <3>4. u[i] = t[i - Len(new) + (hi - lo)]
      BY <3>2, <3>3
    <3>5. ~(i <= lo) /\ ~(i <= lo + Len(new))
      BY <1>0, <2>2
    <3> QED
      BY <3>4, <3>5
  <2> QED
    BY <1>0, <1>7, <2>1, <2>2
<1> QED
  BY <1>5, <1>7, <1>8 DEF Replaces

\* Replacing a selection by one new character or none leaves the characters
\* distinct, and a caret behind the new one is in the text.
LEMMA ReplacedByFresh ==
  ASSUME NEW S, NEW t \in Seq(S), IsInjective(t), NEW f \in S, f \notin ToSet(t),
         NEW new \in Seq(S), Len(new) <= 1, Len(new) = 1 => new[1] = f,
         NEW lo \in 0 .. Len(t), NEW hi \in 0 .. Len(t), lo <= hi, NEW u, u = Replace(t, lo, hi, new)
  PROVE  /\ u \in Seq(S) /\ IsInjective(u) /\ ToSet(u) \subseteq ToSet(t) \union {f}
         /\ lo + Len(new) \in 0 .. Len(u)
<1>0. /\ Len(t) \in Nat /\ new \in Seq(S) /\ Len(new) \in Nat /\ Len(new) <= 1 /\ lo \in Nat
      /\ hi \in Nat /\ lo <= Len(t) /\ hi <= Len(t)
  OBVIOUS
<1>1. /\ u \in Seq(S) /\ Len(u) = Len(t) + Len(new) - (hi - lo)
      /\ \A i \in 1 .. Len(u) :
            u[i] = IF i <= lo THEN t[i] ELSE IF i <= lo + Len(new) THEN new[i - lo]
                   ELSE t[i - Len(new) + (hi - lo)]
  <2>1. Replaces(S, t, lo, hi, new, u)
    BY ReplacedText
  <2> QED
    BY <2>1 DEF Replaces
<1> DEFINE back(i) == IF i <= lo THEN i ELSE i - Len(new) + (hi - lo)
           typing(i) == lo < i /\ i <= lo + Len(new)
<1>2. ASSUME NEW i \in 1 .. Len(u)
      PROVE  /\ typing(i) => u[i] = f /\ i = lo + 1
             /\ ~typing(i) => back(i) \in 1 .. Len(t) /\ u[i] = t[back(i)]
  <2>1. CASE i <= lo
    BY <1>0, <1>1, <2>1
  <2>2. CASE typing(i)
    <3>0. i \in Nat /\ lo < i /\ i <= lo + Len(new)
      BY <1>0, <1>1, <2>2
    <3>1. Len(new) = 1 /\ i = lo + 1
      <4>1. \A m, l, j \in Nat : m <= 1 /\ l < j /\ j <= l + m => m = 1 /\ j = l + 1
        OBVIOUS
      <4> QED
        BY <1>0, <3>0, <4>1
    <3>2. u[i] = new[i - lo] /\ i - lo = 1
      BY <1>0, <1>1, <3>1
    <3> QED
      BY <1>0, <2>2, <3>1, <3>2
  <2>3. CASE lo + Len(new) < i
    <3>1. ~(i <= lo) /\ ~(i <= lo + Len(new)) /\ ~typing(i)
      BY <1>0, <2>3
    <3>2. u[i] = t[i - Len(new) + (hi - lo)]
      BY <1>1, <3>1
    <3>3. i - Len(new) + (hi - lo) \in 1 .. Len(t)
      BY <1>0, <1>1, <2>3
    <3> QED
      BY <3>1, <3>2, <3>3
  <2> QED
    BY <1>0, <2>1, <2>2, <2>3
<1>3. ASSUME NEW i \in 1 .. Len(u), NEW j \in 1 .. Len(u), ~typing(i), ~typing(j), back(i) = back(j)
      PROVE  i = j
  BY <1>0, <1>3
<1>4. ASSUME NEW i \in 1 .. Len(t) PROVE t[i] # f
  BY <1>0 DEF ToSet
<1> HIDE DEF back, typing
<1>5. ASSUME NEW i \in 1 .. Len(u), NEW j \in 1 .. Len(u), u[i] = u[j] PROVE i = j
  <2>1. CASE typing(i) /\ typing(j)
    BY <1>2, <2>1
  <2>2. CASE typing(i) /\ ~typing(j)
    BY <1>2, <1>4, <1>5, <2>2
  <2>3. CASE ~typing(i) /\ typing(j)
    BY <1>2, <1>4, <1>5, <2>3
  <2>4. CASE ~typing(i) /\ ~typing(j)
    <3>1. back(i) = back(j)
      <4>1. /\ back(i) \in DOMAIN t /\ back(j) \in DOMAIN t
            /\ t[back(i)] = t[back(j)]
        BY <1>2, <1>5, <2>4
      <4> QED
        BY <4>1 DEF IsInjective
    <3> QED
      BY <1>3, <2>4, <3>1
  <2> QED
    BY <2>1, <2>2, <2>3, <2>4
<1>6. IsInjective(u)
  <2>1. DOMAIN u = 1 .. Len(u)
    BY <1>1
  <2> QED
    BY <1>5, <2>1 DEF IsInjective
<1>7. ToSet(u) \subseteq ToSet(t) \union {f}
  <2>1. DOMAIN u = 1 .. Len(u) /\ DOMAIN t = 1 .. Len(t)
    BY <1>1
  <2>2. ASSUME NEW i \in 1 .. Len(u) PROVE u[i] \in ToSet(t) \union {f}
    BY <1>2, <2>1 DEF ToSet
  <2> QED
    BY <2>1, <2>2 DEF ToSet
<1> QED
  BY <1>0, <1>1, <1>6, <1>7

\* In the beginning both sides have the document.
LEMMA InitSides == CrossInit => Sides
<1> SUFFICES ASSUME CrossInit PROVE Sides
  OBVIOUS
<1> USE DEF CrossInit
<1>1. nearInflight \in Entries(NearCharacters) /\ OpsOf(nearInflight) = <<>> /\ Len(nearInflight) = 0
  BY OpsOfNone DEF Entries
<1>2. ApplyOps(Base, OpsOf(nearInflight)) = Base
  <2>1. OneByOne(Base, 0, 0)
    BY AppliedOneByOne
  <2> QED
    BY <1>1, <2>1 DEF OneByOne
<1>3. \E h : Typing(h)
  <2> DEFINE h == [k \in {0} |-> Base]
  <2>1. Typing(h)
    <3>1. h[0] = Base /\ 0 .. Len(nearInflight) = {0} /\ 1 .. Len(nearInflight) = {}
      BY <1>1
    <3> HIDE DEF h
    <3> QED
      BY <1>1, <3>1, DocumentFacts DEF Typing
  <2> QED
    BY <2>1
<1>4. NearSide
  <2>1. IsInjective(near) /\ ToSet(near) = ToSet(Base) /\ near \in Seq(NearCharacters)
    BY DocumentAssumption, DocumentFacts
  <2> QED
    BY <1>1, <1>2, <1>3, <2>1 DEF NearSide
<1>5. FarSide
  BY DocumentFacts DEF FarSide
<1> QED
  BY <1>4, <1>5 DEF Sides

\* An edit near: one more text, one more entry.
LEMMA EditNearSides == ASSUME Sides, EditNear PROVE Sides'
<1>1. ~integrated /\ NearSide /\ FarSide /\ Len(nearInflight) < MaxEntries
  BY DEF Sides, EditNear
<1> DEFINE n == Len(nearInflight)
<1>2. PICK lo \in 0 .. Len(near), hi \in 0 .. Len(near), new \in {<<>>, <<Fresh(n)>>} :
        LET u == Replace(near, lo, hi, new)
            ops == ExtractOps(near, u, NearSite)
        IN  /\ lo <= hi /\ u # near
            /\ near' = u
            /\ nearCursor' = lo + Len(new)
            /\ nearInflight' = Append(nearInflight, [clock |-> n + 1, ops |-> ops])
            /\ typed' = typed \o ops
            /\ before' = [text |-> u, cursor |-> lo + Len(new)]
  BY DEF EditNear
<1> DEFINE u == Replace(near, lo, hi, new)
           ops == ExtractOps(near, u, NearSite)
           entry == [clock |-> n + 1, ops |-> ops]
<1>3. /\ lo <= hi /\ u # near /\ near' = u /\ nearCursor' = lo + Len(new)
      /\ nearInflight' = Append(nearInflight, entry) /\ typed' = typed \o ops
      /\ before' = [text |-> u, cursor |-> lo + Len(new)]
  BY <1>2
<1>4. /\ nearInflight \in Entries(NearCharacters) /\ n \in Nat /\ near \in Seq(NearCharacters)
      /\ n \in 0 .. MaxEntries
  <2>1. nearInflight \in Entries(NearCharacters) /\ n \in Nat
    BY <1>1 DEF NearSide, Entries
  <2> QED
    BY <1>1, <2>1, DocumentAssumption DEF NearSide
<1>5. Fresh(n) \in NearCharacters /\ Fresh(n) \notin ToSet(near)
  <2>1. Fresh(n) \in NearCharacters
    BY <1>4 DEF NearCharacters
  <2>2. Fresh(n) \notin ToSet(Base)
    BY <1>4, DocumentAssumption
  <2>3. \A k \in 0 .. n - 1 : Fresh(k) # Fresh(n)
    BY <1>4, DocumentFacts DEF Fresh
  <2> QED
    BY <1>1, <2>1, <2>2, <2>3 DEF NearSide
<1>6. /\ u \in Seq(NearCharacters) /\ IsInjective(u) /\ ToSet(u) \subseteq ToSet(near) \union {Fresh(n)}
      /\ lo + Len(new) \in 0 .. Len(u)
  <2>1. /\ IsInjective(near) /\ new \in Seq(NearCharacters) /\ Len(new) <= 1
        /\ Len(new) = 1 => new[1] = Fresh(n)
    <3>1. CASE new = <<>>
      BY <1>1, <3>1 DEF NearSide
    <3>2. CASE new = <<Fresh(n)>>
      BY <1>1, <1>5, <3>2 DEF NearSide
    <3> QED
      BY <1>2, <3>1, <3>2
  <2> HIDE DEF n
  <2> QED
    BY <1>3, <1>4, <1>5, <2>1, ReplacedByFresh
<1> HIDE DEF u
<1>7. ops \in Compound(NearCharacters)
  BY <1>4, <1>6, DocumentFacts, ExtractedCompound
<1>8. ApplyOps(near, ops) = u
  BY <1>4, <1>6, ExtractedOpsRebuild
<1> HIDE DEF ops
<1>9. /\ nearInflight' \in Entries(NearCharacters) /\ Len(nearInflight') = n + 1
      /\ nearInflight'[n + 1] = entry /\ \A k \in 1 .. n : nearInflight'[k] = nearInflight[k]
      /\ OpsOf(nearInflight') = OpsOf(nearInflight) \o ops
  <2> DEFINE E == [clock : Nat, ops : Compound(NearCharacters)]
  <2>1. entry \in E /\ entry.ops = ops /\ nearInflight \in Seq(E)
    BY <1>4, <1>7 DEF Entries
  <2> HIDE DEF E, entry
  <2>2. OpsOf(Append(nearInflight, entry)) = OpsOf(nearInflight) \o entry.ops
    BY <2>1, OpsOfMore
  <2>3. nearInflight' \in Seq(E)
    BY <1>3, <2>1
  <2> QED
    BY <1>3, <1>4, <2>1, <2>2, <2>3 DEF Entries, E
<1>10. near' = ApplyOps(Base, OpsOf(nearInflight'))
  <2>1. OpsOf(nearInflight) \in Compound(NearCharacters)
    BY <1>4, OpsOfTyped
  <2>2. ApplyOps(Base, OpsOf(nearInflight) \o ops) = ApplyOps(ApplyOps(Base, OpsOf(nearInflight)), ops)
    BY <1>7, <2>1, AppliedInTurn
  <2>3. near = ApplyOps(Base, OpsOf(nearInflight))
    BY <1>1 DEF NearSide
  <2> QED
    BY <1>3, <1>8, <1>9, <2>2, <2>3
<1>11. \E h : Typing(h)'
  <2>1. PICK h : Typing(h)
    BY <1>1 DEF NearSide
  <2>p. PICK g : g = [k \in 0 .. n + 1 |-> IF k = n + 1 THEN u ELSE h[k]]
    OBVIOUS
  <2>2. /\ g[0] = Base /\ g[n + 1] = u /\ g[n] = near
        /\ \A k \in 0 .. n : g[k] = h[k]
    BY <1>4, <2>1, <2>p DEF Typing
  <2>3. \A k \in 0 .. n + 1 : g[k] \in Seq(NearCharacters)
    <3> TAKE k \in 0 .. n + 1
    <3>1. CASE k = n + 1
      BY <1>6, <2>2, <3>1
    <3>2. CASE k \in 0 .. n
      BY <2>1, <2>2, <3>2 DEF Typing
    <3> QED
      BY <1>4, <3>1, <3>2
  <2>4. ASSUME NEW k \in 1 .. n + 1
        PROVE  g[k - 1] # g[k] /\ nearInflight'[k].ops = ExtractOps(g[k - 1], g[k], NearSite)
    <3>1. CASE k = n + 1
      <4>1. k - 1 = n
        BY <1>4, <3>1
      <4> QED
        BY <1>3, <1>9, <2>2, <3>1, <4>1 DEF ops
    <3>2. CASE k \in 1 .. n
      <4>1. k - 1 \in 0 .. n /\ k \in 0 .. n
        BY <1>4, <3>2
      <4> QED
        BY <1>9, <2>1, <2>2, <3>2, <4>1 DEF Typing
    <3> QED
      BY <1>4, <3>1, <3>2
  <2>5. Typing(g)'
    BY <1>3, <1>9, <2>2, <2>3, <2>4 DEF Typing
  <2> QED
    BY <2>5
<1>12. typed' = OpsOf(nearInflight')
  BY <1>1, <1>3, <1>9 DEF NearSide
<1>13. ToSet(u) \subseteq ToSet(Base) \union {Fresh(k) : k \in 0 .. (n + 1) - 1}
  <2>1. ToSet(near) \subseteq ToSet(Base) \union {Fresh(k) : k \in 0 .. n - 1}
    BY <1>1 DEF NearSide
  <2>2. n \in 0 .. (n + 1) - 1 /\ 0 .. n - 1 \subseteq 0 .. (n + 1) - 1
    BY <1>4
  <2> HIDE DEF n
  <2> QED
    BY <1>6, <2>1, <2>2
<1>14. NearSide'
  BY <1>3, <1>6, <1>9, <1>10, <1>11, <1>12, <1>13 DEF NearSide
<1>15. FarSide'
  BY <1>1 DEF EditNear, FarSide
<1> QED
  BY <1>14, <1>15 DEF Sides

\* An edit far.
LEMMA EditFarSides == ASSUME Sides, EditFar PROVE Sides'
<1>1. NearSide /\ FarSide /\ ~integrated
  BY DEF Sides, EditFar
<1>2. PICK lo \in 0 .. Len(far), hi \in 0 .. Len(far), new \in FarTexts :
        /\ lo <= hi /\ Replace(far, lo, hi, new) # far
        /\ far' = Replace(far, lo, hi, new)
        /\ remote' = ExtractOps(far, Replace(far, lo, hi, new), farSite)
  BY DEF EditFar
<1>3. far \in Seq(FarCharacters) /\ new \in Seq(FarCharacters)
  BY <1>1, DocumentFacts DEF FarSide
<1>4. far' \in Seq(FarCharacters)
  BY <1>2, <1>3, ReplacedText DEF Replaces
<1>5. far = Base
  <2>1. CASE far # Base
    <3>1. ExtractOps(Base, far, farSite) = <<>>
      BY <1>1, <2>1 DEF FarSide, EditFar
    <3>2. ApplyOps(Base, <<>>) = far
      BY <1>3, <3>1, DocumentFacts, ExtractedOpsRebuild
    <3>3. OneByOne(Base, 0, 0)
      BY AppliedOneByOne
    <3> QED
      BY <2>1, <3>2, <3>3 DEF OneByOne
  <2> QED
    BY <2>1
<1>6. FarSide'
  BY <1>1, <1>2, <1>4, <1>5 DEF FarSide, EditFar
<1>7. NearSide'
  <2>1. UNCHANGED <<near, nearInflight, nearCursor, typed, before>>
    BY DEF EditFar
  <2> QED
    BY <1>1, <2>1 DEF NearSide, Typing
<1> QED
  BY <1>6, <1>7 DEF Sides

-----------------------------------------------------------------------------
(* The cursor, when they meet.                                             *)

\* What far did, by the characters it typed.
LEMMA FarChange ==
  ASSUME Sides, remote # <<>>
  PROVE  \E a, n, x : Change(FarCharacters, Base, far, farSite, a, n, x)
                      /\ remote = ExtractOps(Base, far, farSite)
<1>1. far \in Seq(FarCharacters) /\ remote = ExtractOps(Base, far, farSite)
  BY DEF Sides, FarSide
<1> QED
  BY <1>1, DocumentFacts, ExtractedChange

\* Far's operations, whatever they are rebased over, insert what far typed.
LEMMA RebasedRemote ==
  ASSUME Sides, ~integrated, NEW a, NEW n, NEW x, remote = ExtractOps(Base, far, farSite),
         Change(FarCharacters, Base, far, farSite, a, n, x)
  PROVE  IntegrateRemoteAgainstInflight(remote, nearInflight).remote \in Compound(ToSet(x))
<1> DEFINE T == TextOperation(ToSet(x))
           i == Ins(a, x, farSite)
           d == Del(a, n)
<1>1. a \in Nat /\ n \in Nat /\ x \in Seq(ToSet(x)) /\ farSite \in Nat
  <2>1. a \in Nat /\ n \in Nat /\ x \in Seq(FarCharacters)
    BY DEF Change
  <2>2. x \in Seq(ToSet(x))
    BY <2>1 DEF ToSet
  <2>3. farSite \in Nat
    BY DocumentFacts DEF Sides, FarSide
  <2> QED
    BY <2>1, <2>2, <2>3
<1>2. i \in T /\ d \in T
  BY <1>1 DEF TextOperation
<1>3. remote = <<>> \/ remote = <<d>> \/ remote = <<i>> \/ remote = <<d, i>>
  BY DEF Change
<1> HIDE DEF T, i, d
<1>4. <<>> \in Seq(T) /\ <<d>> \in Seq(T) /\ <<i>> \in Seq(T) /\ <<d, i>> \in Seq(T)
  BY <1>2
<1>5. remote \in Compound(ToSet(x))
  BY <1>3, <1>4 DEF Compound, T
<1>6. nearInflight \in Entries(NearCharacters)
  BY DEF Sides, NearSide
<1> QED
  BY <1>5, <1>6, IntegratedCompound

\* The cursor keeps its place when far's operations arrive.
LEMMA CursorKept == ASSUME Sides, Integrate PROVE CursorKeepsItsPlace'
<1>1. ~integrated /\ NearSide /\ remote # <<>>
  BY DEF Sides, Integrate
<1>2. PICK a, n, x : Change(FarCharacters, Base, far, farSite, a, n, x)
                     /\ remote = ExtractOps(Base, far, farSite)
  BY <1>1, FarChange
<1> DEFINE X == ToSet(x)
           S == NearCharacters \union FarCharacters
           ops == IntegrateRemoteAgainstInflight(remote, nearInflight).remote
<1>3. ops \in Compound(X)
  BY <1>1, <1>2, RebasedRemote
<1>4. /\ near' = ApplyOps(near, ops) /\ nearCursor' = AdjustCursor(nearCursor, ops, NearSite)
      /\ remote' = remote /\ before' = before
  BY DEF Integrate
<1>5. X \subseteq FarCharacters
  <2>1. x \in Seq(FarCharacters)
    BY <1>2 DEF Change
  <2> QED
    BY <2>1 DEF ToSet
<1> HIDE DEF X, ops
<1>6. near \in Seq(S) /\ nearCursor \in 0 .. Len(near) /\ X \subseteq S /\ NearSite \in Nat
  <2>1. near \in Seq(NearCharacters) /\ nearCursor \in 0 .. Len(near)
    BY <1>1 DEF NearSide
  <2> QED
    BY <1>5, <2>1, DocumentFacts
<1> HIDE DEF S
<1>7. Placed(X, near, nearCursor, near', nearCursor')
  BY <1>3, <1>4, <1>6, CursorKeepsPlace
<1>8. before'.text = near /\ before'.cursor = nearCursor
  BY <1>1, <1>4 DEF NearSide
<1>9. nearCursor' \in 0 .. Len(near')
  BY <1>7 DEF Placed
<1>10. Distinct' => X \intersect ToSet(near) = {}
  <2> SUFFICES ASSUME Distinct', NEW c \in X, c \in ToSet(near) PROVE FALSE
    OBVIOUS
  <2>1. x # <<>>
    BY DEF X, ToSet
  <2>2. Ins(a, x, farSite) \in ToSet(remote)
    <3>1. remote = <<Ins(a, x, farSite)>> \/ remote = <<Del(a, n), Ins(a, x, farSite)>>
      BY <1>2, <2>1 DEF Change
    <3> DEFINE i == Ins(a, x, farSite)
               d == Del(a, n)
    <3>2. remote = <<i>> \/ remote = <<d, i>>
      BY <3>1
    <3> HIDE DEF i, d
    <3>3. i \in ToSet(remote)
      BY <3>2 DEF ToSet
    <3> QED
      BY <3>3 DEF i
  <2>3. c \notin ToSet(Base)
    <3>1. Ins(a, x, farSite).kind = "insert" /\ Ins(a, x, farSite).text = x
      BY DEF Ins
    <3> QED
      BY <1>4, <2>2, <3>1 DEF Distinct, X
  <2>4. c \in {8, 9}
    BY <1>5, <2>3 DEF FarCharacters
  <2>5. PICK k \in Nat : c = Fresh(k)
    <3>1. c \in {Fresh(k) : k \in 0 .. Len(nearInflight) - 1}
      BY <1>1, <2>3 DEF NearSide
    <3>2. Len(nearInflight) \in Nat
      BY <1>1 DEF NearSide, Entries
    <3> QED
      BY <3>1, <3>2
  <2>6. NearSite \in Nat \ {0}
    BY DocumentAssumption
  <2> QED
    BY <2>4, <2>5, <2>6 DEF Fresh
<1>11. ASSUME NEW i \in DOMAIN near', NEW j \in DOMAIN near, Distinct', near'[i] = near[j]
       PROVE  i <= nearCursor' <=> j <= nearCursor
  <2>1. near[j] \notin X
    BY <1>10, <1>11 DEF ToSet
  <2>2. i \in 1 .. Len(near')
    <3>1. ops \in Compound(S)
      <4>1. Seq(X) \subseteq Seq(S)
        BY <1>6
      <4>2. TextOperation(X) \subseteq TextOperation(S)
        BY <4>1 DEF TextOperation
      <4> DEFINE P == TextOperation(X)
                 Q == TextOperation(S)
      <4> HIDE DEF P, Q
      <4>3. ops \in Seq(P) /\ P \subseteq Q
        BY <1>3, <4>2 DEF Compound, P, Q
      <4>4. ops \in Seq(Q)
        BY <4>3
      <4> QED
        BY <4>4 DEF Compound, Q
    <3>2. near' \in Seq(S)
      BY <1>4, <1>6, <3>1, OperationsApplied DEF Compound
    <3> QED
      BY <1>11, <3>2
  <2>3. PICK k \in 1 .. Len(near) : near'[i] = near[k] /\ (i <= nearCursor' <=> k <= nearCursor)
    BY <1>7, <1>11, <2>1, <2>2 DEF Placed
  <2>4. k \in DOMAIN near /\ IsInjective(near)
    BY <1>1, <1>6 DEF NearSide
  <2>5. k = j
    BY <1>11, <2>3, <2>4 DEF IsInjective
  <2> QED
    BY <2>3, <2>5
<1>12. nearCursor' <= Len(near')
  BY <1>9
<1> QED
  BY <1>8, <1>11, <1>12 DEF CursorKeepsItsPlace

-----------------------------------------------------------------------------
(* Single operations, when they meet.                                      *)

\* What is left of an in-flight operation, and of a remote one.
Left(a, r)    == IF XformOp(a, r) = NoOp THEN a ELSE XformOp(a, r)
Arrives(a, r) == IF XformOp(r, a) = NoOp THEN <<>> ELSE <<XformOp(r, a)>>

\* One operation rebased over one.
LEMMA OneRebased ==
  ASSUME NEW a, NEW r, r # NoOp
  PROVE  FoldLeft(RebaseStep, [ops |-> <<a>>, remote |-> <<>>], <<r>>)
            = [ops |-> <<Left(a, r)>>, remote |-> Arrives(a, r)]
<1> DEFINE base == [ops |-> <<a>>, remote |-> <<>>]
           start == [a |-> <<>>, b |-> r]
<1>1. \A y : Append(<<>>, y) = <<y>>
  OBVIOUS
<1>2. XformCompoundAgainstOp(<<a>>, r) = XformStep(start, a)
  BY XformingFolds, Xforming!FoldOne
<1>3. XformStep(start, a) = [a |-> <<Left(a, r)>>, b |-> XformOp(r, a)]
  BY <1>1 DEF XformStep, Left
<1>4. RebaseStep(base, r) = [ops |-> <<Left(a, r)>>, remote |-> Arrives(a, r)]
  BY <1>1, <1>2, <1>3 DEF RebaseStep, Arrives
<1> HIDE DEF base
<1>5. FoldLeft(RebaseStep, base, <<r>>) = RebaseStep(base, r)
  BY RebasingFolds, Rebasing!FoldOne
<1> QED
  BY <1>4, <1>5 DEF base

\* One in-flight entry of one operation, over a remote compound of one.
LEMMA OneIntegrated ==
  ASSUME NEW a, NEW r, r # NoOp, NEW acc, acc.remote = <<r>>, NEW entry, entry.ops = <<a>>
  PROVE  IntegrateStep(acc, entry)
            = [remote |-> Arrives(a, r),
               inflight |-> Append(acc.inflight, [entry EXCEPT !.ops = <<Left(a, r)>>])]
<1>1. FoldLeft(RebaseStep, [ops |-> entry.ops, remote |-> <<>>], acc.remote)
         = [ops |-> <<Left(a, r)>>, remote |-> Arrives(a, r)]
  BY OneRebased
<1> DEFINE x == FoldLeft(RebaseStep, [ops |-> entry.ops, remote |-> <<>>], acc.remote)
<1>2. IntegrateStep(acc, entry) = [remote |-> x.remote,
                                   inflight |-> Append(acc.inflight, [entry EXCEPT !.ops = x.ops])]
  BY DEF IntegrateStep
<1>3. x.remote = Arrives(a, r) /\ x.ops = <<Left(a, r)>>
  BY <1>1
<1> HIDE DEF x
<1> QED
  BY <1>2, <1>3

\* Operations are never NoOp, and come with a kind.
LEMMA KindsDiffer ==
  /\ \A p, x, site : Ins(p, x, site).kind = "insert" /\ Ins(p, x, site) # NoOp
  /\ \A p, n : Del(p, n).kind = "delete" /\ Del(p, n) # NoOp
  BY DEF Ins, Del, NoOp

\* The text near has typed from the document, when it is one edit.
LEMMA SingleEdit ==
  ASSUME NearSide, Len(typed) = 1
  PROVE  /\ near # Base /\ typed = ExtractOps(Base, near, NearSite)
         /\ Len(nearInflight) = 1 /\ nearInflight[1].ops = typed
<1>1. /\ nearInflight \in Entries(NearCharacters) /\ Len(nearInflight) \in Nat
      /\ typed = OpsOf(nearInflight)
  BY DEF NearSide, Entries
<1>n. PICK n \in Nat : n = Len(nearInflight)
  BY <1>1
<1>2. PICK h : Typing(h)
  BY DEF NearSide
<1>3. PICK g : Joining!Trace(g, 0, <<>>, nearInflight)
  BY Joining!FoldTrace, <1>1 DEF Entries
<1>4. g[0] = <<>> /\ typed = g[n] /\ \A k \in 1 .. n : g[k] = g[k - 1] \o nearInflight[k].ops
  BY <1>1, <1>n, <1>3, OpsFold DEF Joining!Trace
<1>5. ASSUME NEW k \in 1 .. n
      PROVE  /\ nearInflight[k].ops \in Compound(NearCharacters)
             /\ Len(nearInflight[k].ops) \in Nat \ {0}
  <2>1. nearInflight[k].ops \in Compound(NearCharacters)
    <3> DEFINE E == [clock : Nat, ops : Compound(NearCharacters)]
    <3>1. nearInflight \in Seq(E)
      BY <1>1 DEF Entries
    <3>2. \A e \in E : e.ops \in Compound(NearCharacters)
      OBVIOUS
    <3> HIDE DEF E
    <3>3. nearInflight[k] \in E
      BY <1>n, <3>1
    <3> QED
      BY <3>2, <3>3
  <2>2. nearInflight[k].ops = ExtractOps(h[k - 1], h[k], NearSite) /\ h[k - 1] # h[k]
    BY <1>2, <1>n DEF Typing
  <2>3. h[k - 1] \in Seq(NearCharacters) /\ h[k] \in Seq(NearCharacters)
    BY <1>n, <1>2 DEF Typing
  <2>4. ApplyOps(h[k - 1], nearInflight[k].ops) = h[k]
    BY <2>2, <2>3, ExtractedOpsRebuild
  <2>5. OneByOne(h[k - 1], 0, 0)
    BY AppliedOneByOne
  <2>6. nearInflight[k].ops # <<>>
    BY <2>2, <2>4, <2>5 DEF OneByOne
  <2> DEFINE T == TextOperation(NearCharacters)
  <2> HIDE DEF T
  <2>7. nearInflight[k].ops \in Seq(T)
    BY <2>1 DEF Compound, T
  <2> QED
    BY <2>1, <2>6, <2>7
<1> DEFINE T == TextOperation(NearCharacters)
           I == {k \in Nat : k <= n => g[k] \in Seq(T) /\ k <= Len(g[k])}
<1> HIDE DEF T
<1>6. 0 \in I
  <2>1. <<>> \in Seq(T) /\ Len(<<>>) = 0
    OBVIOUS
  <2>2. g[0] \in Seq(T) /\ Len(g[0]) = 0
    BY <1>4, <2>1
  <2> QED
    BY <2>2
<1>7. ASSUME NEW k \in Nat, k \in I PROVE k + 1 \in I
  <2>1. CASE k + 1 <= n
    <3>1. k + 1 \in 1 .. n /\ (k + 1) - 1 = k /\ g[k] \in Seq(T) /\ k <= Len(g[k])
      BY <1>7, <2>1
    <3>2. g[k + 1] = g[k] \o nearInflight[k + 1].ops
      BY <1>4, <3>1
    <3>3. nearInflight[k + 1].ops \in Seq(T) /\ Len(nearInflight[k + 1].ops) \in Nat \ {0}
      BY <1>5, <3>1 DEF Compound, T
    <3>4. g[k + 1] \in Seq(T) /\ Len(g[k + 1]) = Len(g[k]) + Len(nearInflight[k + 1].ops)
      BY <3>1, <3>2, <3>3, ConcatProperties
    <3>5. PICK l \in Nat : l = Len(g[k])
      BY <3>1
    <3>6. PICK j \in Nat \ {0} : j = Len(nearInflight[k + 1].ops)
      BY <3>3
    <3>7. k <= l /\ Len(g[k + 1]) = l + j
      BY <3>1, <3>4, <3>5, <3>6
    <3>8. k + 1 <= l + j
      <4>1. \A b, c \in Nat : \A d \in Nat \ {0} : b <= c => b + 1 <= c + d
        OBVIOUS
      <4> QED
        BY ONLY k \in Nat, l \in Nat, j \in Nat \ {0}, <3>7, <4>1
    <3>9. k + 1 \in Nat
      OBVIOUS
    <3> QED
      BY <3>4, <3>7, <3>8, <3>9
  <2>2. CASE ~(k + 1 <= n)
    BY <2>2
  <2> QED
    BY <2>1, <2>2
<1>8. n \in I
  <2> HIDE DEF I
  <2>1. Nat \subseteq I
    BY <1>6, <1>7, Applying!SetInduction
  <2> QED
    BY <2>1
<1>9. n = 1
  <2>1. n <= 1
    <3>1. n <= Len(g[n])
      BY <1>8
    <3> QED
      BY <1>4, <3>1
  <2>2. n # 0
    <3>1. Len(<<>>) = 0
      OBVIOUS
    <3> QED
      BY <1>4, <3>1
  <2> QED
    BY <2>1, <2>2
<1>10. typed = <<>> \o nearInflight[1].ops /\ 1 \in 1 .. n
  <2>1. 1 \in 1 .. n /\ 1 - 1 = 0
    BY <1>9
  <2> QED
    BY <1>4, <1>9, <2>1
<1>11. typed = nearInflight[1].ops
  <2>1. nearInflight[1].ops \in Seq(T)
    BY <1>5, <1>10 DEF Compound, T
  <2> QED
    BY <1>10, <2>1, ConcatEmptySeq
<1>12. /\ h[0] = Base /\ h[1] = near /\ h[1 - 1] # h[1]
       /\ nearInflight[1].ops = ExtractOps(h[1 - 1], h[1], NearSite)
  BY <1>2, <1>n, <1>9 DEF Typing
<1> QED
  BY <1>n, <1>9, <1>11, <1>12

\* An edit of the document that is one operation.
Single(op, a, n, x, site) ==
    /\ a \in Nat /\ n \in Nat /\ a + n <= Len(Base)
    /\ x \in Seq(Characters)
    /\ \/ op = Del(a, n) /\ n > 0
       \/ op = Ins(a, x, site) /\ n = 0

\* Which one it is, read off the operation.
LEMMA SingleKind ==
  ASSUME NEW op, NEW a, NEW n, NEW x, NEW site, Single(op, a, n, x, site)
  PROVE  /\ op.pos = a
         /\ op.kind = "delete" => op = Del(a, n) /\ n > 0 /\ op.len = n
         /\ op.kind = "insert" => op = Ins(a, x, site) /\ n = 0
  BY DEF Single, Ins, Del

\* A change of the document that extract_ops finds to be one operation.
LEMMA SingleChange ==
  ASSUME NEW S, S \subseteq Characters, NEW after, NEW site,
         NEW a, NEW n, NEW x, Change(S, Base, after, site, a, n, x),
         NEW op, ExtractOps(Base, after, site) = <<op>>
  PROVE  Single(op, a, n, x, site) /\ after = ApplyOp(Base, op)
<1>1. \A u, v : Len(<<u>>) = 1 /\ <<u>>[1] = u /\ Len(<<u, v>>) = 2 /\ Len(<<>>) = 0
  OBVIOUS
<1>2. /\ a \in Nat /\ n \in Nat /\ a + n <= Len(Base)
      /\ x \in Seq(Characters)
  <2>1. /\ a \in Nat /\ n \in Nat /\ a + n <= Len(Base) /\ x \in Seq(S)
    BY DEF Change
  <2>2. S \subseteq Characters
    OBVIOUS
  <2>3. x \in Seq(Characters)
    BY <2>1, <2>2
  <2> QED
    BY <2>1, <2>3
<1>3. \/ <<op>> = <<>>
      \/ n > 0 /\ <<op>> = <<Del(a, n)>> /\ after = ApplyOp(Base, Del(a, n))
      \/ n = 0 /\ <<op>> = <<Ins(a, x, site)>> /\ after = ApplyOp(Base, Ins(a, x, site))
      \/ <<op>> = <<Del(a, n), Ins(a, x, site)>>
  BY DEF Change
<1>4. \/ n > 0 /\ op = Del(a, n) /\ after = ApplyOp(Base, Del(a, n))
      \/ n = 0 /\ op = Ins(a, x, site) /\ after = ApplyOp(Base, Ins(a, x, site))
  BY <1>1, <1>3
<1> QED
  BY <1>2, <1>4 DEF Single

\* Both sides typed a single operation: what they hold after the meeting.
LEMMA SinglesMeet ==
  ASSUME Sides, Integrate, Len(typed) = 1, Len(remote) = 1, NEW a, a = typed[1], NEW r, r = remote[1]
  PROVE  /\ near = ApplyOp(Base, a) /\ far = ApplyOp(Base, r)
         /\ near' = ApplyUnlessConsumed(near, XformOp(r, a))
         /\ ApplyOps(far, OpsOf(nearInflight')) = ApplyOp(far, Left(a, r))
         /\ \E p, m, x : Single(a, p, m, x, NearSite)
         /\ \E q, n, y : Single(r, q, n, y, farSite)
<1>1. ~integrated /\ NearSide /\ remote # <<>>
  BY DEF Sides, Integrate
<1>2. /\ near # Base /\ typed = ExtractOps(Base, near, NearSite)
      /\ Len(nearInflight) = 1 /\ nearInflight[1].ops = typed
  BY <1>1, SingleEdit
<1>3. typed = <<a>> /\ remote = <<r>>
  <2>1. typed \in Compound(NearCharacters)
    BY <1>1, OpsOfTyped DEF NearSide
  <2>2. remote \in Compound(FarCharacters)
    <3>1. farSite \in Nat /\ far \in Seq(FarCharacters)
      BY DocumentFacts DEF Sides, FarSide
    <3>2. remote = ExtractOps(Base, far, farSite)
      BY <1>1 DEF Sides, FarSide
    <3> QED
      BY <3>1, <3>2, DocumentFacts, ExtractedCompound
  <2>3. \A T : \A q \in Seq(T) : Len(q) = 1 => q = <<q[1]>>
    OBVIOUS
  <2> QED
    BY <2>1, <2>2, <2>3 DEF Compound
<1>4. near = ApplyOp(Base, a) /\ \E p, m, x : Single(a, p, m, x, NearSite)
  <2>1. near \in Seq(NearCharacters)
    BY <1>1 DEF NearSide
  <2>2. PICK p, m, x : Change(NearCharacters, Base, near, NearSite, p, m, x)
    BY <2>1, DocumentFacts, ExtractedChange
  <2>3. ExtractOps(Base, near, NearSite) = <<a>>
    BY <1>2, <1>3
  <2>4. Single(a, p, m, x, NearSite) /\ near = ApplyOp(Base, a)
    BY <2>2, <2>3, SingleChange DEF Characters
  <2> QED
    BY <2>4
<1>5. far = ApplyOp(Base, r) /\ \E q, n, y : Single(r, q, n, y, farSite)
  <2>1. PICK q, n, y : Change(FarCharacters, Base, far, farSite, q, n, y)
                       /\ remote = ExtractOps(Base, far, farSite)
    BY <1>1, FarChange
  <2>2. ExtractOps(Base, far, farSite) = <<r>>
    BY <1>3, <2>1
  <2>3. Single(r, q, n, y, farSite) /\ far = ApplyOp(Base, r)
    <3>1. FarCharacters \subseteq Characters
      BY DEF Characters
    <3>2. Change(FarCharacters, Base, far, farSite, q, n, y)
      BY <2>1
    <3> QED
      BY ONLY <2>2, <3>1, <3>2, SingleChange
  <2> QED
    BY <2>3
<1> DEFINE acc == [remote |-> remote, inflight |-> <<>>]
           entry == nearInflight[1]
           s == IntegrateStep(acc, entry)
<1>8. nearInflight = <<entry>>
  <2>1. nearInflight \in Entries(NearCharacters)
    BY <1>1 DEF NearSide
  <2> QED
    BY <1>2, <2>1 DEF Entries
<1>9. IntegrateRemoteAgainstInflight(remote, nearInflight) = s
  <2> HIDE DEF entry
  <2>1. Integrating!Fold(0, acc, <<entry>>) = IntegrateStep(acc, entry)
    BY Integrating!FoldOne
  <2> QED
    BY <1>8, <2>1, IntegratingFolds
<1>10. s = [remote |-> Arrives(a, r), inflight |-> Append(<<>>, [entry EXCEPT !.ops = <<Left(a, r)>>])]
  <2>1. acc.remote = <<r>> /\ entry.ops = <<a>> /\ acc.inflight = <<>>
    BY <1>2, <1>3
  <2>2. r # NoOp
    BY <1>5, KindsDiffer DEF Single
  <2> HIDE DEF acc, entry
  <2>3. s = [remote |-> Arrives(a, r),
             inflight |-> Append(acc.inflight, [entry EXCEPT !.ops = <<Left(a, r)>>])]
    BY ONLY <2>1, <2>2, OneIntegrated
  <2> QED
    BY <2>1, <2>3
<1>11. near' = ApplyOps(near, Arrives(a, r))
  BY <1>9, <1>10 DEF Integrate
<1>12. near' = ApplyUnlessConsumed(near, XformOp(r, a))
  <2>1. OneByOne(near, XformOp(r, a), 0)
    BY AppliedOneByOne
  <2> QED
    BY <1>11, <2>1 DEF OneByOne, Arrives, ApplyUnlessConsumed
<1>13. OpsOf(nearInflight') = <<Left(a, r)>>
  <2> DEFINE moved == [entry EXCEPT !.ops = <<Left(a, r)>>]
  <2>1. nearInflight' = <<moved>>
    BY <1>9, <1>10 DEF Integrate
  <2>2. moved.ops = <<Left(a, r)>>
    <3> DEFINE E == [clock : Nat, ops : Compound(NearCharacters)]
    <3>1. nearInflight \in Seq(E)
      BY <1>1 DEF NearSide, Entries
    <3>2. entry \in E
      <4> HIDE DEF E
      <4>1. 1 \in 1 .. Len(nearInflight)
        BY <1>2
      <4> QED
        BY ONLY <3>1, <4>1, entry = nearInflight[1]
    <3> QED
      BY <3>2
  <2> HIDE DEF moved
  <2>3. OpsOf(<<moved>>) = <<>> \o moved.ops
    BY OpsFold, Joining!FoldOne
  <2>4. <<Left(a, r)>> \in Seq({Left(a, r)})
    OBVIOUS
  <2> QED
    BY <2>1, <2>2, <2>3, <2>4, ConcatEmptySeq
<1>14. ApplyOps(far, OpsOf(nearInflight')) = ApplyOp(far, Left(a, r))
  <2>1. OneByOne(far, Left(a, r), 0)
    BY AppliedOneByOne
  <2> QED
    BY <1>13, <2>1 DEF OneByOne
<1> QED
  BY <1>4, <1>5, <1>12, <1>14

-----------------------------------------------------------------------------
(* An insertion and a deletion.                                            *)

\* Near and far after they met, when each had typed one of the two.
LEMMA InsertionMeetsDeletion ==
  ASSUME NEW i, NEW p, NEW m, NEW x, NEW iSite \in Nat, Single(i, p, m, x, iSite), i.kind = "insert",
         NEW d, NEW q, NEW n, NEW y, NEW dSite, Single(d, q, n, y, dSite), d.kind = "delete",
         ~(d.pos < i.pos /\ i.pos < d.pos + d.len)
  PROVE  /\ ApplyOp(ApplyOp(Base, i), XformOp(d, i)) = ApplyOp(ApplyOp(Base, d), XformOp(i, d))
         /\ XformOp(d, i) # NoOp /\ XformOp(i, d) # NoOp
<1>1. /\ i = Ins(p, x, iSite) /\ i.pos = p
      /\ d = Del(q, n) /\ d.pos = q /\ d.len = n /\ n > 0
  BY SingleKind
<1>2. /\ p \in Nat /\ q \in Nat /\ n \in Nat \ {0} /\ p + m <= Len(Base) /\ m = 0
      /\ q + n <= Len(Base) /\ x \in Seq(Characters)
  <2>1. m = 0 /\ n > 0
    BY SingleKind
  <2>2. /\ p \in Nat /\ m \in Nat /\ p + m <= Len(Base)
        /\ x \in Seq(Characters)
    BY DEF Single
  <2>3. q \in Nat /\ n \in Nat /\ q + n <= Len(Base)
    BY DEF Single
  <2> QED
    BY <2>1, <2>2, <2>3
<1>3. p \in 0 .. Len(Base) /\ (p <= q \/ q + n <= p)
  BY <1>1, <1>2, DocumentFacts
<1>4. Base \in Seq(Characters)
  <2>1. NearCharacters \subseteq Characters
    BY DEF Characters
  <2> QED
    BY <2>1, DocumentFacts
<1>5. ApplyOp(ApplyOp(Base, i), XformOp(d, i)) = ApplyOp(ApplyOp(Base, d), XformOp(i, d))
  BY <1>1, <1>2, <1>3, <1>4, InsertionOutsideDeletionConverges
<1>6. XformOp(d, i) # NoOp
  <2>1. XformOp(d, i) = XformDI(q, n, p, Len(x))
    BY <1>1 DEF XformOp, Ins, Del
  <2> QED
    BY <2>1, KindsDiffer DEF XformDI
<1>7. XformOp(i, d) # NoOp
  <2>1. XformOp(i, d) = Ins(XformID(p, q, n), x, iSite)
    BY <1>1 DEF XformOp, Ins, Del
  <2> QED
    BY <2>1, KindsDiffer
<1> QED
  BY <1>5, <1>6, <1>7

\* They converge, whichever side typed which (xform_id and xform_di).
LEMMA InsertionAndDeletionMeet ==
  ASSUME Sides, Integrate
  PROVE  InsertionAndDeletionConverge'
<1>1. typed' = typed /\ remote' = remote /\ far' = far
  BY DEF Integrate
<1>2. SUFFICES ASSUME Len(typed) = 1, Len(remote) = 1,
                      NEW i \in {typed[1], remote[1]}, NEW d \in {typed[1], remote[1]},
                      i.kind = "insert", d.kind = "delete",
                      ~(d.pos < i.pos /\ i.pos < d.pos + d.len)
               PROVE  near' = ApplyOps(far, OpsOf(nearInflight'))
  BY <1>1 DEF InsertionAndDeletionConverge, Meet
<1> DEFINE a == typed[1]
           r == remote[1]
<1>3. /\ near = ApplyOp(Base, a) /\ far = ApplyOp(Base, r)
      /\ near' = ApplyUnlessConsumed(near, XformOp(r, a))
      /\ ApplyOps(far, OpsOf(nearInflight')) = ApplyOp(far, Left(a, r))
      /\ \E p, m, x : Single(a, p, m, x, NearSite)
      /\ \E q, n, y : Single(r, q, n, y, farSite)
  BY <1>2, SinglesMeet
<1>4. PICK p, m, x : Single(a, p, m, x, NearSite)
  BY <1>3
<1>5. PICK q, n, y : Single(r, q, n, y, farSite)
  BY <1>3
<1>6. NearSite \in Nat /\ farSite \in Nat
  BY DocumentFacts DEF Sides, FarSide
<1>7. i # d
  BY <1>2
<1> HIDE DEF a, r
<1>8. (i = a /\ d = r) \/ (i = r /\ d = a)
  BY <1>2, <1>7 DEF a, r
<1>9. /\ ApplyOp(ApplyOp(Base, a), XformOp(r, a)) = ApplyOp(ApplyOp(Base, r), XformOp(a, r))
      /\ XformOp(a, r) # NoOp /\ XformOp(r, a) # NoOp
  <2>1. CASE i = a /\ d = r
    BY <1>2, <1>4, <1>5, <1>6, <2>1, InsertionMeetsDeletion
  <2>2. CASE i = r /\ d = a
    BY <1>2, <1>4, <1>5, <1>6, <2>2, InsertionMeetsDeletion
  <2> QED
    BY <1>8, <2>1, <2>2
<1> QED
  BY <1>3, <1>9 DEF Left, ApplyUnlessConsumed

-----------------------------------------------------------------------------
(* Two deletions.                                                          *)

Keeping == INSTANCE FoldFacts WITH
             Op <- LAMBDA chars, kept, c : IF c \in chars THEN Append(kept, c) ELSE kept

\* The characters kept are a fold the lemmas are about.
LEMMA KeepingFolds == ASSUME NEW t, NEW chars PROVE Kept(t, chars) = Keeping!Fold(chars, <<>>, t)
  BY DEF Kept, FoldLeft, MapThenFoldSet, Max, Keeping!Fold, Keeping!Iterates, Keeping!Top

\* What is left of the first i characters without d after the l-th.
LeftOf(S, t, l, d, i, u) ==
    /\ u \in Seq(S)
    /\ Len(u) = IF i <= l THEN i ELSE IF i <= l + d THEN l ELSE i - d
    /\ \A j \in 1 .. Len(u) : u[j] = IF j <= l THEN t[j] ELSE t[j + d]

\* Keeping all characters but these is deleting these.
LEMMA KeptIsDeletion ==
  ASSUME NEW S, NEW t \in Seq(S), NEW chars, NEW l \in Nat, NEW d \in Nat, l + d <= Len(t),
         \A k \in 1 .. Len(t) : t[k] \in chars <=> (k <= l \/ l + d < k)
  PROVE  Kept(t, chars) = ApplyOp(t, Del(l, d))
<1>n. PICK n \in Nat : n = Len(t)
  OBVIOUS
<1>1. PICK h : Keeping!Trace(h, chars, <<>>, t)
  BY Keeping!FoldTrace
<1>2. /\ h[0] = <<>> /\ Kept(t, chars) = h[n]
      /\ \A k \in 1 .. n : h[k] = IF t[k] \in chars THEN Append(h[k - 1], t[k]) ELSE h[k - 1]
  BY <1>1, <1>n, KeepingFolds DEF Keeping!Trace
<1> DEFINE I == {i \in Nat : i <= n => LeftOf(S, t, l, d, i, h[i])}
<1>3. 0 \in I
  <2>1. <<>> \in Seq(S) /\ Len(<<>>) = 0
    OBVIOUS
  <2>2. LeftOf(S, t, l, d, 0, h[0])
    BY <1>2, <2>1 DEF LeftOf
  <2> QED
    BY <2>2
<1>4. ASSUME NEW i \in Nat, i \in I PROVE i + 1 \in I
  <2>1. CASE i + 1 <= n
    <3>1. /\ i + 1 \in 1 .. n /\ (i + 1) - 1 = i /\ LeftOf(S, t, l, d, i, h[i])
          /\ t[i + 1] \in S
      BY <1>4, <1>n, <2>1
    <3>2. h[i + 1] = IF t[i + 1] \in chars THEN Append(h[i], t[i + 1]) ELSE h[i]
      BY <1>2, <3>1
    <3>3. PICK u \in Seq(S) : u = h[i]
      BY <3>1 DEF LeftOf
    <3>4. PICK m \in Nat : m = Len(u)
      BY <3>3
    <3>5. /\ m = IF i <= l THEN i ELSE IF i <= l + d THEN l ELSE i - d
          /\ \A j \in 1 .. m : u[j] = IF j <= l THEN t[j] ELSE t[j + d]
      BY <3>1, <3>3, <3>4 DEF LeftOf
    <3>6. t[i + 1] \in chars <=> (i + 1 <= l \/ l + d < i + 1)
      BY <1>n, <3>1
    <3>7. CASE i + 1 <= l \/ l + d < i + 1
      <4>1. h[i + 1] = Append(u, t[i + 1])
        BY <3>2, <3>3, <3>6, <3>7
      <4>2. PICK v \in Seq(S) : v = Append(u, t[i + 1])
        <5>1. \A w \in Seq(S) : \A c \in S : Append(w, c) \in Seq(S)
          OBVIOUS
        <5> QED
          BY <3>1, <3>3, <5>1
      <4>3. /\ Len(v) = m + 1 /\ v[m + 1] = t[i + 1]
            /\ \A j \in 1 .. m : v[j] = u[j]
        <5>1. \A w \in Seq(S) : \A c \in S :
                /\ Len(Append(w, c)) = Len(w) + 1 /\ Append(w, c)[Len(w) + 1] = c
                /\ \A j \in 1 .. Len(w) : Append(w, c)[j] = w[j]
          OBVIOUS
        <5> QED
          BY <3>1, <3>3, <3>4, <4>2, <5>1
      <4>4. m + 1 = IF i + 1 <= l THEN i + 1 ELSE IF i + 1 <= l + d THEN l ELSE (i + 1) - d
        BY <3>5, <3>7
      <4>5. \A j \in 1 .. m + 1 : v[j] = IF j <= l THEN t[j] ELSE t[j + d]
        <5> TAKE j \in 1 .. m + 1
        <5>1. CASE j \in 1 .. m
          BY <3>5, <4>3, <5>1
        <5>2. CASE j = m + 1
          <6>1. v[j] = t[i + 1]
            BY <4>3, <5>2
          <6>2. (j <= l => j = i + 1) /\ (~(j <= l) => j + d = i + 1)
            BY <3>5, <3>7, <5>2
          <6> QED
            BY <6>1, <6>2
        <5> QED
          BY <5>1, <5>2
      <4> QED
        <5>1. LeftOf(S, t, l, d, i + 1, v)
          BY <4>2, <4>3, <4>4, <4>5 DEF LeftOf
        <5>2. v = h[i + 1]
          BY <4>1, <4>2
        <5> QED
          BY <5>1, <5>2
    <3>8. CASE ~(i + 1 <= l \/ l + d < i + 1)
      <4>1. h[i + 1] = u
        BY <3>2, <3>3, <3>6, <3>8
      <4>2. m = IF i + 1 <= l THEN i + 1 ELSE IF i + 1 <= l + d THEN l ELSE (i + 1) - d
        BY <3>5, <3>8
      <4> QED
        <5>1. LeftOf(S, t, l, d, i + 1, u)
          BY <3>3, <3>4, <3>5, <4>2 DEF LeftOf
        <5> QED
          BY <4>1, <5>1
    <3> QED
      BY <3>7, <3>8
  <2>2. CASE ~(i + 1 <= n)
    BY <2>2
  <2> QED
    BY <2>1, <2>2
<1>5. LeftOf(S, t, l, d, n, h[n])
  <2> HIDE DEF I
  <2>1. Nat \subseteq I
    BY <1>3, <1>4, Applying!SetInduction
  <2>2. n \in I
    BY <2>1
  <2> QED
    BY <2>2 DEF I
<1>6. PICK v : v = ApplyOp(t, Del(l, d))
  OBVIOUS
<1>7. /\ v \in Seq(S) /\ Len(v) = n - d
      /\ \A k \in 1 .. n - d : v[k] = IF k <= l THEN t[k] ELSE t[k + d]
  <2>1. /\ ApplyOp(t, Del(l, d)) \in Seq(S) /\ Len(ApplyOp(t, Del(l, d))) = Len(t) - d
        /\ \A k \in 1 .. Len(t) - d :
              ApplyOp(t, Del(l, d))[k] = IF k <= l THEN t[k] ELSE t[k + d]
    BY DeletionApplied
  <2> QED
    BY <1>n, <1>6, <2>1
<1>8. PICK u : u = h[n]
  OBVIOUS
<1>9. u \in Seq(S) /\ Len(u) = n - d /\ \A k \in 1 .. n - d : u[k] = IF k <= l THEN t[k] ELSE t[k + d]
  <2>1. LeftOf(S, t, l, d, n, u) /\ l + d <= n
    BY <1>5, <1>8, <1>n
  <2>2. u \in Seq(S) /\ Len(u) = n - d
    BY <2>1 DEF LeftOf
  <2> QED
    BY <2>1, <2>2 DEF LeftOf
<1>10. u = v
  BY <1>7, <1>9, SeqEqual
<1> QED
  BY <1>2, <1>6, <1>8, <1>10

\* A deletion from the document.
LEMMA BaseDeletion ==
  ASSUME NEW p \in Nat, NEW m \in Nat, p + m <= Len(Base)
  PROVE  /\ ApplyOp(Base, Del(p, m)) \in Seq(NearCharacters)
         /\ Len(ApplyOp(Base, Del(p, m))) = Len(Base) - m
         /\ \A i \in 1 .. Len(Base) - m :
               ApplyOp(Base, Del(p, m))[i] = IF i <= p THEN Base[i] ELSE Base[i + m]
<1>1. Base \in Seq(NearCharacters)
  BY DocumentFacts
<1> QED
  BY <1>1, DeletionApplied

\* What is left of the document after a deletion: the characters outside it.
LEMMA DeletedCharacters ==
  ASSUME NEW p \in Nat, NEW m \in Nat, p + m <= Len(Base), NEW u, u = ApplyOp(Base, Del(p, m))
  PROVE  \A k \in 1 .. Len(Base) : Base[k] \in ToSet(u) <=> (k <= p \/ p + m < k)
<1>n. PICK n \in Nat : n = Len(Base)
  BY DocumentFacts
<1>1. /\ u \in Seq(NearCharacters) /\ Len(u) = n - m
      /\ \A i \in 1 .. n - m : u[i] = IF i <= p THEN Base[i] ELSE Base[i + m]
  <2>1. /\ u \in Seq(NearCharacters) /\ Len(u) = Len(Base) - m
        /\ \A i \in 1 .. Len(Base) - m : u[i] = IF i <= p THEN Base[i] ELSE Base[i + m]
    BY BaseDeletion
  <2> QED
    BY <1>n, <2>1
<1>2. \A i, j \in 1 .. n : Base[i] = Base[j] => i = j
  BY <1>n, DocumentFacts, DocumentAssumption DEF IsInjective
<1>3. ToSet(u) = {u[i] : i \in 1 .. n - m}
  BY <1>1 DEF ToSet
<1>4. ASSUME NEW k \in 1 .. n, Base[k] \in ToSet(u) PROVE k <= p \/ p + m < k
  <2>1. PICK i \in 1 .. n - m : Base[k] = u[i]
    BY <1>3, <1>4
  <2>2. CASE i <= p
    <3>1. Base[k] = Base[i] /\ i \in 1 .. n
      BY <1>1, <1>n, <2>1, <2>2
    <3>2. k = i
      BY <1>2, <3>1
    <3> QED
      BY <2>2, <3>2
  <2>3. CASE ~(i <= p)
    <3>1. Base[k] = Base[i + m] /\ i + m \in 1 .. n
      BY <1>1, <1>n, <2>1, <2>3
    <3>2. k = i + m
      BY <1>2, <3>1
    <3> QED
      BY <2>3, <3>2
  <2> QED
    BY <2>2, <2>3
<1>5. ASSUME NEW k \in 1 .. n, k <= p \/ p + m < k PROVE Base[k] \in ToSet(u)
  <2>1. CASE k <= p
    <3>1. k \in 1 .. n - m /\ u[k] = Base[k]
      BY <1>1, <1>n, <2>1
    <3> QED
      BY <1>3, <3>1
  <2>2. CASE p + m < k
    <3>1. PICK i \in 1 .. n - m : i = k - m /\ ~(i <= p) /\ i + m = k
      BY <1>n, <2>2
    <3>2. u[i] = Base[k]
      BY <1>1, <3>1
    <3> QED
      BY <1>3, <3>1, <3>2
  <2> QED
    BY <1>5, <2>1, <2>2
<1> QED
  BY <1>n, <1>4, <1>5

\* Overlapping deletions merge (xform_dd).
LEMMA DeletionsMeet ==
  ASSUME Sides, Integrate
  PROVE  OverlappingDeletionsMerge'
<1>1. typed' = typed /\ remote' = remote /\ far' = far /\ before' = before /\ before.text = near
  <2>1. NearSide
    BY DEF Sides, Integrate
  <2> QED
    BY <2>1 DEF Integrate, NearSide
<1>2. SUFFICES ASSUME Len(typed) = 1, Len(remote) = 1, NEW a, a = typed[1], NEW r, r = remote[1],
                      a.kind = "delete", r.kind = "delete",
                      r.pos <= a.pos + a.len, a.pos <= r.pos + r.len
               PROVE  /\ near' = Kept(Base, ToSet(near) \cap ToSet(far))
                      /\ (\E c \in ToSet(far) : c \notin ToSet(near))
                            => near' = ApplyOps(far, OpsOf(nearInflight'))
  BY <1>1 DEF OverlappingDeletionsMerge, Meet
<1>3. /\ near = ApplyOp(Base, a) /\ far = ApplyOp(Base, r)
      /\ near' = ApplyUnlessConsumed(near, XformOp(r, a))
      /\ ApplyOps(far, OpsOf(nearInflight')) = ApplyOp(far, Left(a, r))
      /\ \E p, m, x : Single(a, p, m, x, NearSite)
      /\ \E q, n, y : Single(r, q, n, y, farSite)
  BY <1>2, SinglesMeet
<1>4. PICK p \in Nat, m \in Nat \ {0} : a = Del(p, m) /\ a.pos = p /\ a.len = m /\ p + m <= Len(Base)
  <2>1. PICK p, m, x : Single(a, p, m, x, NearSite)
    BY <1>3
  <2>2. a.pos = p /\ a = Del(p, m) /\ m > 0 /\ a.len = m
    BY <1>2, <2>1, SingleKind
  <2>3. p \in Nat /\ m \in Nat /\ p + m <= Len(Base)
    BY <2>1 DEF Single
  <2> QED
    BY <2>2, <2>3
<1>5. PICK q \in Nat, n \in Nat \ {0} : r = Del(q, n) /\ r.pos = q /\ r.len = n /\ q + n <= Len(Base)
  <2>1. PICK q, n, y : Single(r, q, n, y, farSite)
    BY <1>3
  <2>2. r.pos = q /\ r = Del(q, n) /\ n > 0 /\ r.len = n
    BY <1>2, <2>1, SingleKind
  <2>3. q \in Nat /\ n \in Nat /\ q + n <= Len(Base)
    BY <2>1 DEF Single
  <2> QED
    BY <2>2, <2>3
<1>6. q <= p + m /\ p <= q + n
  BY <1>2, <1>4, <1>5
<1>l. PICK l \in Nat : l = Least(p, q)
  BY DEF Least
<1>e. PICK e \in Nat : e = Greatest(p + m, q + n)
  BY DEF Greatest
<1>d. PICK d \in Nat : d = e - l /\ l + d <= Len(Base)
  <2>1. l <= e /\ e <= Len(Base)
    BY <1>4, <1>5, <1>l, <1>e, DocumentFacts DEF Least, Greatest
  <2> QED
    BY <2>1, DocumentFacts
<1>7. /\ ApplyUnlessConsumed(ApplyOp(Base, a), XformOp(r, a)) = ApplyOp(Base, Del(l, d))
      /\ ApplyUnlessConsumed(ApplyOp(Base, r), XformOp(a, r)) = ApplyOp(Base, Del(l, d))
  <2>1. Base \in Seq(NearCharacters)
    BY DocumentFacts
  <2>2. /\ ApplyUnlessConsumed(ApplyOp(Base, Del(p, m)), XformOp(Del(q, n), Del(p, m)))
               = ApplyOp(Base, Del(Least(p, q), e - Least(p, q)))
        /\ ApplyUnlessConsumed(ApplyOp(Base, Del(q, n)), XformOp(Del(p, m), Del(q, n)))
               = ApplyOp(Base, Del(Least(p, q), e - Least(p, q)))
    BY <1>4, <1>5, <1>6, <1>e, <2>1, OverlappingDeletionsAgree
  <2> QED
    BY <1>4, <1>5, <1>l, <1>d, <2>2
<1>8. \A k \in 1 .. Len(Base) : Base[k] \in ToSet(near) <=> (k <= p \/ p + m < k)
  BY <1>3, <1>4, DeletedCharacters
<1>9. \A k \in 1 .. Len(Base) : Base[k] \in ToSet(far) <=> (k <= q \/ q + n < k)
  BY <1>3, <1>5, DeletedCharacters
<1>10. near' = Kept(Base, ToSet(near) \cap ToSet(far))
  <2>1. \A k \in 1 .. Len(Base) : Base[k] \in ToSet(near) \cap ToSet(far) <=> (k <= l \/ l + d < k)
    <3>1. ASSUME NEW k \in 1 .. Len(Base)
          PROVE  (k <= p \/ p + m < k) /\ (k <= q \/ q + n < k) <=> (k <= l \/ l + d < k)
      <4>1. l + d = e
        BY <1>d
      <4> QED
        BY <1>6, <1>l, <1>e, <4>1 DEF Least, Greatest
    <3> QED
      BY <1>8, <1>9, <3>1
  <2>2. Kept(Base, ToSet(near) \cap ToSet(far)) = ApplyOp(Base, Del(l, d))
    BY <1>d, <2>1, DocumentFacts, KeptIsDeletion
  <2> QED
    BY <1>3, <1>7, <2>2
<1>11. ASSUME NEW c \in ToSet(far), c \notin ToSet(near) PROVE XformOp(a, r) # NoOp
  <2>1. PICK k \in 1 .. Len(Base) : c = Base[k]
    <3>1. /\ far \in Seq(NearCharacters) /\ Len(far) = Len(Base) - n
          /\ \A i \in 1 .. Len(Base) - n : far[i] = IF i <= q THEN Base[i] ELSE Base[i + n]
      BY <1>3, <1>5, BaseDeletion
    <3>2. PICK i \in 1 .. Len(Base) - n : c = far[i]
      BY <1>11, <3>1 DEF ToSet
    <3>3. i \in 1 .. Len(Base) /\ i + n \in 1 .. Len(Base)
      BY <1>5, <3>2, DocumentFacts
    <3> QED
      BY <3>1, <3>2, <3>3
  <2>2. ~(k <= p \/ p + m < k) /\ (k <= q \/ q + n < k)
    BY <1>8, <1>9, <1>11, <2>1
  <2>3. Monus(q, p) + Monus(p + m, q + n) # 0
    BY <2>2 DEF Monus
  <2>4. XformOp(a, r) = XformDD(p, m, q, n)
    BY <1>4, <1>5 DEF XformOp, Del
  <2> QED
    BY <2>3, <2>4, KindsDiffer DEF XformDD
<1>12. (\E c \in ToSet(far) : c \notin ToSet(near)) => near' = ApplyOps(far, OpsOf(nearInflight'))
  <2> SUFFICES ASSUME NEW c \in ToSet(far), c \notin ToSet(near)
               PROVE  near' = ApplyOps(far, OpsOf(nearInflight'))
    OBVIOUS
  <2>1. XformOp(a, r) # NoOp
    BY <1>11
  <2>2. ApplyOp(far, Left(a, r)) = ApplyUnlessConsumed(ApplyOp(Base, r), XformOp(a, r))
    BY <1>3, <2>1 DEF Left, ApplyUnlessConsumed
  <2> QED
    BY <1>3, <1>7, <2>2
<1> QED
  BY <1>10, <1>12

-----------------------------------------------------------------------------
(* Insertions, any number of them in flight.                               *)

\* A sequence and one joined to it.
LEMMA JoinedElements ==
  ASSUME NEW T, NEW a \in Seq(T), NEW b \in Seq(T)
  PROVE  ToSet(a \o b) = ToSet(a) \union ToSet(b)
<1>1. PICK m, n \in Nat : m = Len(a) /\ n = Len(b)
  OBVIOUS
<1>2. PICK q \in Seq(T) : q = a \o b
  BY ConcatProperties
<1>3. Len(q) = m + n /\ \A i \in 1 .. m + n : q[i] = IF i <= m THEN a[i] ELSE b[i - m]
  BY <1>1, <1>2, ConcatProperties
<1>4. /\ ToSet(a) = {a[i] : i \in 1 .. m} /\ ToSet(b) = {b[i] : i \in 1 .. n}
      /\ ToSet(q) = {q[i] : i \in 1 .. m + n}
  <2>1. DOMAIN a = 1 .. m /\ DOMAIN b = 1 .. n
    BY <1>1
  <2>2. DOMAIN q = 1 .. m + n
    BY <1>2, <1>3
  <2> QED
    BY <2>1, <2>2 DEF ToSet
<1>5. ASSUME NEW i \in 1 .. m + n PROVE q[i] \in ToSet(a) \union ToSet(b)
  <2>1. i <= m => i \in 1 .. m
    BY <1>5
  <2>2. ~(i <= m) => i - m \in 1 .. n
    BY <1>5
  <2> QED
    BY <1>3, <1>4, <2>1, <2>2
<1>6. ASSUME NEW i \in 1 .. m PROVE a[i] \in ToSet(q)
  <2>1. i \in 1 .. m + n /\ i <= m
    OBVIOUS
  <2> QED
    BY <1>3, <1>4, <2>1
<1>7. ASSUME NEW i \in 1 .. n PROVE b[i] \in ToSet(q)
  <2>1. i + m \in 1 .. m + n /\ ~(i + m <= m) /\ (i + m) - m = i
    OBVIOUS
  <2> QED
    BY <1>3, <1>4, <2>1
<1>8. ToSet(q) = ToSet(a) \union ToSet(b)
  BY <1>4, <1>5, <1>6, <1>7
<1> QED
  BY <1>2, <1>8

\* The operations of every entry are among those of all.
LEMMA EntryAmongOps ==
  ASSUME NEW S, NEW entries \in Entries(S)
  PROVE  \A i \in 1 .. Len(entries) : ToSet(entries[i].ops) \subseteq ToSet(OpsOf(entries))
<1> DEFINE T == TextOperation(S)
           E == [clock : Nat, ops : Compound(S)]
<1> HIDE DEF T
<1>1. entries \in Seq(E) /\ \A e \in E : e.ops \in Seq(T)
  BY DEF Entries, Compound, T
<1> HIDE DEF E
<1>n. PICK n \in Nat : n = Len(entries)
  BY <1>1
<1>2. PICK g : Joining!Trace(g, 0, <<>>, entries)
  BY Joining!FoldTrace, <1>1
<1>3. g[0] = <<>> /\ OpsOf(entries) = g[n] /\ \A k \in 1 .. n : g[k] = g[k - 1] \o entries[k].ops
  BY <1>1, <1>n, <1>2, OpsFold DEF Joining!Trace
<1>4. \A k \in 1 .. n : entries[k].ops \in Seq(T)
  BY <1>1, <1>n
<1> DEFINE I == {k \in Nat : k <= n => /\ g[k] \in Seq(T)
                                       /\ \A i \in 1 .. k : ToSet(entries[i].ops) \subseteq ToSet(g[k])}
<1>5. 0 \in I
  <2>1. <<>> \in Seq(T)
    OBVIOUS
  <2>2. g[0] \in Seq(T) /\ \A i \in 1 .. 0 : ToSet(entries[i].ops) \subseteq ToSet(g[0])
    BY <1>3, <2>1
  <2> QED
    BY <2>2
<1>6. ASSUME NEW k \in Nat, k \in I PROVE k + 1 \in I
  <2>1. CASE k + 1 <= n
    <3>1. /\ k + 1 \in 1 .. n /\ (k + 1) - 1 = k /\ g[k] \in Seq(T)
          /\ \A i \in 1 .. k : ToSet(entries[i].ops) \subseteq ToSet(g[k])
      BY <1>6, <2>1
    <3>2. PICK b \in Seq(T) : b = entries[k + 1].ops
      BY <1>4, <3>1
    <3>3. g[k + 1] = g[k] \o b
      BY <1>3, <3>1, <3>2
    <3>4. ToSet(g[k + 1]) = ToSet(g[k]) \union ToSet(b) /\ g[k + 1] \in Seq(T)
      BY <3>1, <3>3, JoinedElements, ConcatProperties
    <3>5. \A i \in 1 .. k + 1 : ToSet(entries[i].ops) \subseteq ToSet(g[k + 1])
      <4> TAKE i \in 1 .. k + 1
      <4>1. CASE i \in 1 .. k
        BY <3>1, <3>4, <4>1
      <4>2. CASE i = k + 1
        BY <3>2, <3>4, <4>2
      <4> QED
        BY <4>1, <4>2
    <3> QED
      BY <3>4, <3>5
  <2>2. CASE ~(k + 1 <= n)
    BY <2>2
  <2> QED
    BY <2>1, <2>2
<1>7. n \in I
  <2> HIDE DEF I
  <2>1. Nat \subseteq I
    BY <1>5, <1>6, Applying!SetInduction
  <2> QED
    BY <2>1
<1> QED
  BY <1>3, <1>7, <1>n

\* A change whose operations all insert is one insertion.
LEMMA InsertedOnly ==
  ASSUME NEW S, NEW t \in Seq(S), NEW u \in Seq(S), NEW site, t # u,
         \A op \in ToSet(ExtractOps(t, u, site)) : op.kind = "insert"
  PROVE  \E p \in 0 .. Len(t) : \E x \in Seq(S) :
            ExtractOps(t, u, site) = <<Ins(p, x, site)>> /\ u = ApplyOp(t, Ins(p, x, site))
<1>1. PICK p, n, x : Change(S, t, u, site, p, n, x)
  BY ExtractedChange
<1>2. \A a, b : a \in ToSet(<<a>>) /\ a \in ToSet(<<a, b>>)
  <2> TAKE a, b
  <2>1. 1 \in DOMAIN <<a>> /\ <<a>>[1] = a /\ 1 \in DOMAIN <<a, b>> /\ <<a, b>>[1] = a
    OBVIOUS
  <2> QED
    BY <2>1 DEF ToSet
<1>3. p \in Nat /\ n \in Nat /\ p + n <= Len(t) /\ x \in Seq(S)
  BY <1>1 DEF Change
<1>4. Del(p, n).kind # "insert"
  BY DEF Del
<1>5. /\ ExtractOps(t, u, site) # <<Del(p, n)>>
      /\ ExtractOps(t, u, site) # <<Del(p, n), Ins(p, x, site)>>
  BY <1>2, <1>4
<1>6. ExtractOps(t, u, site) = <<Ins(p, x, site)>> /\ u = ApplyOp(t, Ins(p, x, site))
  BY <1>1, <1>5 DEF Change
<1>7. p \in 0 .. Len(t)
  BY <1>3
<1> QED
  BY <1>3, <1>6, <1>7

\* One in-flight insertion over one remote insertion: far's text with both, seen
\* from either side.
InsertedBoth(t, a, r) == ApplyOp(ApplyOp(t, r), XformOp(a, r)) = ApplyOp(ApplyOp(t, a), XformOp(r, a))

\* It holds whatever the positions, and the remote one stays an insertion in the text.
LEMMA InsertionsMeet ==
  ASSUME NEW S, NEW t \in Seq(S), NEW p \in 0 .. Len(t), NEW x \in Seq(S), NEW i \in Nat,
         NEW q \in 0 .. Len(t), NEW y \in Seq(S), NEW j \in Nat, i # j,
         NEW a, a = Ins(p, x, i), NEW r, r = Ins(q, y, j)
  PROVE  /\ InsertedBoth(t, a, r)
         /\ \E o \in Nat : XformOp(a, r) = Ins(o, x, i)
         /\ \E o \in 0 .. Len(ApplyOp(t, a)) : XformOp(r, a) = Ins(o, y, j)
<1>1. InsertedBoth(t, a, r)
  BY ConcurrentInsertionsConverge DEF InsertedBoth
<1>2. /\ XformOp(a, r) = Ins(XformII(p, i, q, Len(y), j), x, i)
      /\ XformOp(r, a) = Ins(XformII(q, j, p, Len(x), i), y, j)
  BY DEF XformOp, Ins
<1>3. XformII(p, i, q, Len(y), j) \in Nat
  <2>1. Len(y) \in Nat /\ p \in Nat
    OBVIOUS
  <2> QED
    BY <2>1 DEF XformII
<1>4. XformII(q, j, p, Len(x), i) \in 0 .. Len(ApplyOp(t, a))
  <2>1. Len(ApplyOp(t, a)) = Len(t) + Len(x)
    BY InsertionApplied
  <2>2. Len(t) \in Nat /\ Len(x) \in Nat
    OBVIOUS
  <2> QED
    BY <2>1, <2>2 DEF XformII
<1> QED
  BY <1>1, <1>2, <1>3, <1>4

\* After some of the entries: near's text then, with what is left of far's insertion,
\* is far's text with the entries rebased so far.
Meeting(acc, t, y) ==
    /\ t \in Seq(NearCharacters) /\ acc.inflight \in Entries(NearCharacters)
    /\ \E q \in 0 .. Len(t) :
          /\ acc.remote = <<Ins(q, y, farSite)>>
          /\ ApplyOps(far, OpsOf(acc.inflight)) = ApplyOp(t, Ins(q, y, farSite))

\* One entry more.
LEMMA MeetingGoesOn ==
  ASSUME NEW acc, NEW t, NEW y \in Seq(FarCharacters), Meeting(acc, t, y), FarSide,
         NEW e \in [clock : Nat, ops : Compound(NearCharacters)],
         NEW p \in 0 .. Len(t), NEW x \in Seq(NearCharacters), e.ops = <<Ins(p, x, NearSite)>>,
         NEW u \in Seq(NearCharacters), u = ApplyOp(t, Ins(p, x, NearSite))
  PROVE  Meeting(IntegrateStep(acc, e), u, y)
<1> DEFINE a == Ins(p, x, NearSite)
<1>1. PICK q \in 0 .. Len(t) :
         /\ acc.remote = <<Ins(q, y, farSite)>>
         /\ ApplyOps(far, OpsOf(acc.inflight)) = ApplyOp(t, Ins(q, y, farSite))
  BY DEF Meeting
<1> DEFINE r == Ins(q, y, farSite)
           moved == [e EXCEPT !.ops = <<Left(a, r)>>]
           next == IntegrateStep(acc, e)
<1>2. t \in Seq(NearCharacters) /\ acc.inflight \in Entries(NearCharacters)
  BY DEF Meeting
<1>3. /\ InsertedBoth(t, a, r) /\ \E o \in Nat : XformOp(a, r) = Ins(o, x, NearSite)
      /\ \E o \in 0 .. Len(ApplyOp(t, a)) : XformOp(r, a) = Ins(o, y, farSite)
  <2>1. t \in Seq(Characters) /\ x \in Seq(Characters) /\ y \in Seq(Characters)
    <3>1. NearCharacters \subseteq Characters /\ FarCharacters \subseteq Characters
      BY DEF Characters
    <3> QED
      BY <1>2, <3>1
  <2>2. NearSite \in Nat /\ farSite \in Nat /\ NearSite # farSite
    BY DocumentFacts DEF FarSide
  <2> HIDE DEF next, moved
  <2> QED
    BY <2>1, <2>2, InsertionsMeet
<1>4. PICK o \in 0 .. Len(u) : XformOp(r, a) = Ins(o, y, farSite)
  BY <1>3
<1>5. PICK l \in Nat : XformOp(a, r) = Ins(l, x, NearSite)
  BY <1>3
<1>6. r # NoOp /\ Ins(o, y, farSite) # NoOp /\ Ins(l, x, NearSite) # NoOp
  BY KindsDiffer
<1>7. Left(a, r) = Ins(l, x, NearSite) /\ Arrives(a, r) = <<Ins(o, y, farSite)>>
  BY <1>4, <1>5, <1>6 DEF Left, Arrives
<1>8. next = [remote |-> Arrives(a, r), inflight |-> Append(acc.inflight, moved)]
  <2>1. acc.remote = <<r>> /\ e.ops = <<a>>
    BY <1>1
  <2> HIDE DEF a, r
  <2> QED
    BY ONLY <1>6, <2>1, OneIntegrated
<1> HIDE DEF r
<1>9. moved \in [clock : Nat, ops : Compound(NearCharacters)] /\ moved.ops = <<Left(a, r)>>
  <2>1. Left(a, r) \in TextOperation(NearCharacters)
    BY <1>7, DocumentFacts DEF TextOperation
  <2> DEFINE T == TextOperation(NearCharacters)
  <2> HIDE DEF T, a
  <2>2. <<Left(a, r)>> \in Seq(T)
    BY <2>1 DEF T
  <2> QED
    BY <2>2 DEF Compound, T
<1> HIDE DEF moved
<1>10. /\ next.remote = <<Ins(o, y, farSite)>>
       /\ next.inflight = Append(acc.inflight, moved)
  BY <1>7, <1>8
<1> HIDE DEF next
<1>11. next.inflight \in Entries(NearCharacters)
  BY <1>2, <1>9, <1>10 DEF Entries
<1>12. ApplyOps(far, OpsOf(next.inflight)) = ApplyOp(u, Ins(o, y, farSite))
  <2>1. OpsOf(next.inflight) = OpsOf(acc.inflight) \o moved.ops
    BY <1>2, <1>9, <1>10, OpsOfMore DEF Entries
  <2>2. OpsOf(acc.inflight) \in Compound(NearCharacters) /\ moved.ops \in Compound(NearCharacters)
    BY <1>2, <1>9, OpsOfTyped
  <2>3. ApplyOps(far, OpsOf(next.inflight))
          = ApplyOps(ApplyOps(far, OpsOf(acc.inflight)), moved.ops)
    BY <2>1, <2>2, AppliedInTurn
  <2>4. ApplyOps(far, OpsOf(acc.inflight)) = ApplyOp(t, r)
    BY <1>1 DEF r
  <2>5. ApplyOps(ApplyOp(t, r), <<Left(a, r)>>) = ApplyOp(ApplyOp(t, r), Left(a, r))
    <3>1. OneByOne(ApplyOp(t, r), Left(a, r), 0)
      BY AppliedOneByOne
    <3> QED
      BY <3>1 DEF OneByOne
  <2>6. ApplyOp(ApplyOp(t, r), Left(a, r)) = ApplyOp(u, Ins(o, y, farSite))
    BY <1>3, <1>4, <1>5, <1>7 DEF InsertedBoth
  <2> QED
    BY <1>9, <2>3, <2>4, <2>5, <2>6
<1>13. Meeting(next, u, y)
  BY <1>10, <1>11, <1>12 DEF Meeting
<1> QED
  BY <1>13 DEF next

\* Any number of insertions in flight converge with one of far's.
LEMMA AllInsertionsMeet ==
  ASSUME Sides, Integrate
  PROVE  InsertionsConverge'
<1>1. typed' = typed /\ remote' = remote /\ far' = far
  BY DEF Integrate
<1>2. SUFFICES ASSUME \A op \in ToSet(typed \o remote) : op.kind = "insert"
               PROVE  near' = ApplyOps(far, OpsOf(nearInflight'))
  BY <1>1 DEF InsertionsConverge, Meet
<1>3. NearSide /\ FarSide /\ remote # <<>>
  BY DEF Sides, Integrate
<1>4. /\ nearInflight \in Entries(NearCharacters) /\ typed = OpsOf(nearInflight)
      /\ typed \in Compound(NearCharacters)
  BY <1>3, OpsOfTyped DEF NearSide
<1>5. /\ Base \in Seq(FarCharacters) /\ far \in Seq(FarCharacters) /\ farSite \in Nat /\ Base # far
      /\ remote = ExtractOps(Base, far, farSite)
  BY <1>3, DocumentFacts DEF FarSide
<1>6. \A op \in ToSet(typed) \union ToSet(remote) : op.kind = "insert"
  <2> DEFINE T == TextOperation(NearCharacters)
             U == TextOperation(FarCharacters)
  <2>1. remote \in Compound(FarCharacters)
    BY <1>5, ExtractedCompound
  <2>2. typed \in Seq(T) /\ remote \in Seq(U)
    BY <1>4, <2>1 DEF Compound
  <2> HIDE DEF T, U
  <2>3. typed \in Seq(T \union U) /\ remote \in Seq(T \union U)
    BY <2>2
  <2>4. ToSet(typed \o remote) = ToSet(typed) \union ToSet(remote)
    BY <2>3, JoinedElements
  <2> QED
    BY <1>2, <2>4
<1>7. PICK q \in 0 .. Len(Base), y \in Seq(FarCharacters) :
         remote = <<Ins(q, y, farSite)>> /\ far = ApplyOp(Base, Ins(q, y, farSite))
  <2>1. \A op \in ToSet(ExtractOps(Base, far, farSite)) : op.kind = "insert"
    BY <1>5, <1>6
  <2> QED
    BY <1>5, <2>1, InsertedOnly
<1>n. PICK n \in Nat : n = Len(nearInflight)
  BY <1>4 DEF Entries
<1>8. PICK h : Typing(h)
  BY <1>3 DEF NearSide
<1>9. /\ h[0] = Base /\ h[n] = near
      /\ \A k \in 0 .. n : h[k] \in Seq(NearCharacters)
      /\ \A k \in 1 .. n : h[k - 1] # h[k] /\ nearInflight[k].ops = ExtractOps(h[k - 1], h[k], NearSite)
  BY <1>8, <1>n DEF Typing
<1>10. ASSUME NEW k \in 1 .. n
       PROVE  \E p \in 0 .. Len(h[k - 1]) : \E x \in Seq(NearCharacters) :
                 nearInflight[k].ops = <<Ins(p, x, NearSite)>> /\ h[k] = ApplyOp(h[k - 1], Ins(p, x, NearSite))
  <2>1. /\ h[k - 1] \in Seq(NearCharacters) /\ h[k] \in Seq(NearCharacters) /\ h[k - 1] # h[k]
        /\ nearInflight[k].ops = ExtractOps(h[k - 1], h[k], NearSite)
    BY <1>9
  <2>2. ToSet(nearInflight[k].ops) \subseteq ToSet(typed)
    BY <1>4, <1>n, EntryAmongOps
  <2>3. \A op \in ToSet(ExtractOps(h[k - 1], h[k], NearSite)) : op.kind = "insert"
    BY <1>6, <2>1, <2>2
  <2>4. \E p \in 0 .. Len(h[k - 1]) : \E x \in Seq(NearCharacters) :
            /\ ExtractOps(h[k - 1], h[k], NearSite) = <<Ins(p, x, NearSite)>>
            /\ h[k] = ApplyOp(h[k - 1], Ins(p, x, NearSite))
    BY <2>1, <2>3, InsertedOnly
  <2> QED
    BY <2>1, <2>4
<1> DEFINE base == [remote |-> remote, inflight |-> <<>>]
<1>11. PICK g : Integrating!Trace(g, 0, base, nearInflight)
  BY Integrating!FoldTrace, <1>4 DEF Entries
<1>12. /\ g[0] = base /\ IntegrateRemoteAgainstInflight(remote, nearInflight) = g[n]
       /\ \A k \in 1 .. n : g[k] = IntegrateStep(g[k - 1], nearInflight[k])
  BY <1>11, <1>n, IntegratingFolds DEF Integrating!Trace
<1>13. Meeting(g[0], h[0], y)
  <2>1. g[0].remote = remote /\ g[0].inflight = <<>>
    BY <1>12
  <2>2. ApplyOps(far, <<>>) = far
    <3>1. OneByOne(far, 0, 0)
      BY AppliedOneByOne
    <3> QED
      BY <3>1 DEF OneByOne
  <2>3. <<>> \in Entries(NearCharacters) /\ Base \in Seq(NearCharacters)
    BY DocumentFacts DEF Entries
  <2> QED
    BY <1>7, <1>9, <2>1, <2>2, <2>3, OpsOfNone DEF Meeting
<1> DEFINE I == {k \in Nat : k <= n => Meeting(g[k], h[k], y)}
<1>14. 0 \in I
  BY <1>13
<1>15. ASSUME NEW k \in Nat, k \in I PROVE k + 1 \in I
  <2>1. CASE k + 1 <= n
    <3>1. k + 1 \in 1 .. n /\ (k + 1) - 1 = k /\ Meeting(g[k], h[k], y) /\ k + 1 \in 0 .. n
      BY <1>15, <2>1
    <3>2. g[k + 1] = IntegrateStep(g[k], nearInflight[k + 1])
      BY <1>12, <3>1
    <3>3. PICK p \in 0 .. Len(h[k]), x \in Seq(NearCharacters) :
             nearInflight[k + 1].ops = <<Ins(p, x, NearSite)>> /\ h[k + 1] = ApplyOp(h[k], Ins(p, x, NearSite))
      BY <1>10, <3>1
    <3>4. nearInflight[k + 1] \in [clock : Nat, ops : Compound(NearCharacters)]
      <4> DEFINE E == [clock : Nat, ops : Compound(NearCharacters)]
      <4>1. nearInflight \in Seq(E)
        BY <1>4 DEF Entries
      <4> HIDE DEF E
      <4>2. nearInflight[k + 1] \in E
        BY <1>n, <3>1, <4>1
      <4> QED
        BY <4>2 DEF E
    <3>5. h[k + 1] \in Seq(NearCharacters)
      BY <1>9, <3>1
    <3>6. Meeting(IntegrateStep(g[k], nearInflight[k + 1]), h[k + 1], y)
      BY ONLY <1>3, <1>7, <3>1, <3>3, <3>4, <3>5, MeetingGoesOn
    <3>7. Meeting(g[k + 1], h[k + 1], y)
      BY <3>2, <3>6
    <3> QED
      BY <3>7
  <2>2. CASE ~(k + 1 <= n)
    BY <2>2
  <2> QED
    BY <2>1, <2>2
<1>16. Meeting(g[n], near, y)
  <2> HIDE DEF I
  <2>1. Nat \subseteq I
    BY <1>14, <1>15, Applying!SetInduction
  <2>2. n \in I
    BY <2>1
  <2> QED
    BY <1>9, <2>2 DEF I
<1>17. PICK o : /\ g[n].remote = <<Ins(o, y, farSite)>>
                /\ ApplyOps(far, OpsOf(g[n].inflight)) = ApplyOp(near, Ins(o, y, farSite))
  BY <1>16 DEF Meeting
<1>18. near' = ApplyOps(near, g[n].remote) /\ nearInflight' = g[n].inflight
  BY <1>12 DEF Integrate
<1>19. ApplyOps(near, <<Ins(o, y, farSite)>>) = ApplyOp(near, Ins(o, y, farSite))
  <2>1. OneByOne(near, Ins(o, y, farSite), 0)
    BY AppliedOneByOne
  <2> QED
    BY <2>1 DEF OneByOne
<1> QED
  BY <1>17, <1>18, <1>19

-----------------------------------------------------------------------------
(* All of it, in every state.                                              *)

Met == integrated => SimpleEditsConverge /\ CursorKeepsItsPlace

Crossing == Sides /\ Met

\* Nothing is typed before the first step, and nothing has met.
LEMMA InitCrossing == CrossInit => Crossing
  BY InitSides DEF CrossInit, Crossing, Met

\* Every step, and none is left once they have met.
LEMMA NextCrossing == Crossing /\ [CrossNext]_crossVars => Crossing'
<1> SUFFICES ASSUME Crossing, [CrossNext]_crossVars PROVE Crossing'
  OBVIOUS
<1> USE DEF Crossing
<1>1. CASE EditNear
  <2>1. Sides'
    BY <1>1, EditNearSides
  <2>2. integrated' = FALSE
    BY <1>1 DEF EditNear
  <2> QED
    BY <2>1, <2>2 DEF Met
<1>2. CASE EditFar
  <2>1. Sides'
    BY <1>2, EditFarSides
  <2>2. integrated' = FALSE
    BY <1>2 DEF EditFar
  <2> QED
    BY <2>1, <2>2 DEF Met
<1>3. CASE Integrate
  <2>1. InsertionsConverge' /\ InsertionAndDeletionConverge' /\ OverlappingDeletionsMerge'
    BY <1>3, AllInsertionsMeet, InsertionAndDeletionMeet, DeletionsMeet
  <2>2. CursorKeepsItsPlace'
    BY <1>3, CursorKept
  <2>3. Sides'
    BY <1>3 DEF Sides, FarSide, Integrate
  <2> QED
    BY <2>1, <2>2, <2>3 DEF Met, SimpleEditsConverge
<1>4. CASE UNCHANGED crossVars
  BY <1>4 DEF crossVars, Sides, FarSide, NearSide, Typing, Met, SimpleEditsConverge, InsertionsConverge,
              InsertionAndDeletionConverge, OverlappingDeletionsMerge, CursorKeepsItsPlace, Meet, Distinct
<1> QED
  BY <1>1, <1>2, <1>3, <1>4 DEF CrossNext

\* Sides holds throughout, and once the two have met so do the promises.
LEMMA AlwaysCrossing == CrossSpec => []Crossing
  BY InitCrossing, NextCrossing, PTL DEF CrossSpec

\* Applying what extract_ops finds gives the text the edits made, on either
\* side, for any number of edits in flight.
THEOREM OpsAlwaysReproduceEdits == CrossSpec => []ExtractedOpsReproduceEdits
<1>1. Crossing => ExtractedOpsReproduceEdits
  <2> SUFFICES ASSUME Crossing, ~integrated
               PROVE  near = ApplyOps(Base, OpsOf(nearInflight)) /\ far = ApplyOps(Base, remote)
    BY DEF ExtractedOpsReproduceEdits
  <2>1. NearSide /\ FarSide
    BY DEF Crossing, Sides
  <2>2. CASE far = Base /\ remote = <<>>
    <3>1. OneByOne(Base, 0, 0)
      BY AppliedOneByOne
    <3> QED
      BY <2>1, <2>2, <3>1 DEF OneByOne, NearSide
  <2>3. CASE remote = ExtractOps(Base, far, farSite)
    BY <2>1, <2>3, DocumentFacts, ExtractedOpsRebuild DEF NearSide, FarSide
  <2> QED
    BY <2>1, <2>2, <2>3 DEF FarSide
<1> QED
  BY <1>1, AlwaysCrossing, PTL

\* What is proved of single operations and of insertions holds of the program's
\* own runs: near edits any number of times, far once, and they meet.
THEOREM SimpleEditsAlwaysConverge == CrossSpec => []SimpleEditsConverge
<1>1. Crossing => SimpleEditsConverge
  BY DEF Crossing, Met, SimpleEditsConverge, InsertionsConverge, InsertionAndDeletionConverge,
         OverlappingDeletionsMerge
<1> QED
  BY <1>1, AlwaysCrossing, PTL

\* Near's cursor keeps its place when far's edit arrives, whatever was in flight.
THEOREM CursorAlwaysKeepsItsPlace == CrossSpec => []CursorKeepsItsPlace
<1>1. Crossing => CursorKeepsItsPlace
  BY DEF Crossing, Met, CursorKeepsItsPlace
<1> QED
  BY <1>1, AlwaysCrossing, PTL
=============================================================================
