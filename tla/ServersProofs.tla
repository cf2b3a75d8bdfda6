---------------------------- MODULE ServersProofs ----------------------------
(***************************************************************************)
(* Invariants of the language servers: of the registry that the windows    *)
(* share, for any number of them, any limit and any interleaving, and of   *)
(* the client in one window, for any tabs, documents and editing commands. *)
(***************************************************************************)
EXTENDS RegistrySafety, ClientSafety, TextOpsProofs, FiniteSetTheorems

Slots == [pid : Processes, op : Nat]

ScanRecords == [goal : {"start", "panel"}, todo : SUBSET Slots, found : SUBSET Slots,
                condemned : SUBSET Slots, dead : SUBSET Processes]

CallRecords == [state : {"connecting", "waiting", "Stopped", "NotFound", "failed", "ended"},
                to : Processes, op : Nat, move : BOOLEAN]

Typed ==
    /\ phase \in [Processes -> {"off", "starting", "running", "dead"}]
    /\ entries \subseteq Slots
    /\ sock \in [Processes -> BOOLEAN]
    /\ servers \in [Processes -> SUBSET Nat]
    /\ nextOp \in [Processes -> Nat] /\ firstOp \in [Processes -> Nat]
    /\ scan \in [Processes -> {NoScan} \cup ScanRecords]
    /\ panel \in [Processes -> [open : BOOLEAN, shown : SUBSET Slots]]
    /\ call \in [Processes -> {NoCall} \cup CallRecords]

\* A server of a slot in S had its id spent: no later one gets it.
Started(S) == \A e \in S : e.op < nextOp[e.pid]

\* Entries are of processes that have begun, and while these live, of
\* servers of theirs.
Owned == \A e \in entries :
    /\ phase[e.pid] # "off"
    /\ Up(e.pid) => e.op \in servers[e.pid]

\* A scan has met, or will meet, every entry of who was dead when it began,
\* and has condemned nothing that answers by now, but what had been started
\* before there was a socket to answer on.
ScanSound(p) ==
    /\ Up(p)
    /\ Started(scan[p].todo) /\ Started(scan[p].found) /\ Started(scan[p].condemned)
    /\ \A q \in scan[p].dead : phase[q] = "dead"
    /\ \A e \in scan[p].found : e.pid \notin scan[p].dead
    /\ \A e \in entries : e.pid \in scan[p].dead => e \in scan[p].todo \cup scan[p].condemned
    /\ \A e \in scan[p].condemned : Connects(e.pid) => e.op < firstOp[e.pid]

ScansSound == \A p \in Processes : ~Idle(p) => ScanSound(p)

Listing == Typed /\ Started(entries) /\ Owned /\ ScansSound

-----------------------------------------------------------------------------
\* A slot some process may use is a slot.
LEMMA AllSlotsAreSlots == \A e \in AllSlots : e \in Slots
  BY RegistryAssumption DEF AllSlots, Slots, Slot

\* What is scanned is a record of a scan.
LEMMA ScanTyped ==
  ASSUME Typed, NEW p \in Processes, ~Idle(p)
  PROVE  scan[p] \in ScanRecords
  BY DEF Typed, Idle

\* Nothing is scanned before a process begins a scan.
LEMMA InitListing == RegistryInit => Listing
<1> SUFFICES ASSUME RegistryInit PROVE Listing
  OBVIOUS
<1>1. Typed
  BY DEF RegistryInit, Typed, Closed
<1>2. Started(entries) /\ Owned /\ ScansSound
  BY DEF RegistryInit, Started, Owned, ScansSound, Idle
<1> QED
  BY <1>1, <1>2 DEF Listing

\* Scans that go on stay sound while the dead stay dead, entries come from
\* the living alone, and who answers by a step had its socket bound by it.
LEMMA ScansStaySound ==
  ASSUME Listing, Typed',
         \A p \in Processes : scan'[p] \in {scan[p], NoScan},
         \A p \in Processes : scan'[p] # NoScan /\ Up(p) => Up(p)',
         \A p \in Processes : phase[p] = "dead" => phase'[p] = "dead",
         \A p \in Processes : nextOp'[p] >= nextOp[p],
         \A e \in entries' : e \in entries \/ Up(e.pid)',
         \A p \in Processes : Connects(p)' =>
             \/ Connects(p) /\ firstOp'[p] = firstOp[p]
             \/ firstOp'[p] = nextOp[p]
  PROVE  ScansSound'
<1> SUFFICES ASSUME NEW p \in Processes, ~Idle(p)' PROVE ScanSound(p)'
  BY DEF ScansSound
<1>1. scan'[p] = scan[p] /\ ~Idle(p) /\ ScanSound(p) /\ scan[p] \in ScanRecords
  BY ScanTyped DEF Listing, ScansSound, Idle
<1>2. Up(p)'
  BY <1>1 DEF ScanSound, Idle
<1>3. \A S \in SUBSET Slots : Started(S) => Started(S)'
  <2> SUFFICES ASSUME NEW S \in SUBSET Slots, Started(S), NEW e \in S
               PROVE  e.op < nextOp'[e.pid]
    BY DEF Started
  <2>1. e.pid \in Processes /\ e.op \in Nat /\ e.op < nextOp[e.pid]
    BY DEF Slots, Started
  <2>2. nextOp[e.pid] \in Nat /\ nextOp'[e.pid] \in Nat
    BY <2>1 DEF Listing, Typed
  <2> QED
    BY <2>1, <2>2
<1>4. /\ Started(scan[p].todo)' /\ Started(scan[p].found)' /\ Started(scan[p].condemned)'
  BY <1>1, <1>3 DEF ScanSound, Started, ScanRecords
<1>5. \A q \in scan[p].dead : phase'[q] = "dead"
  BY <1>1 DEF ScanSound, ScanRecords
<1>6. \A e \in entries' : e.pid \in scan[p].dead => e \in scan[p].todo \cup scan[p].condemned
  BY <1>1, <1>5 DEF ScanSound, Up
<1>7. ASSUME NEW e \in scan[p].condemned, Connects(e.pid)'
      PROVE  e.op < firstOp'[e.pid]
  <2>1. e.pid \in Processes /\ e.op < nextOp[e.pid]
    BY <1>1 DEF ScanSound, Started, ScanRecords, Slots
  <2> QED
    BY <1>1, <1>7, <2>1 DEF ScanSound
<1> QED
  BY <1>1, <1>2, <1>4, <1>5, <1>6, <1>7 DEF ScanSound

-----------------------------------------------------------------------------
(* The steps that change the registry keep the types.                      *)

\* A server is started with an id of its own, or its id is spent in vain.
LEMMA StartTyped ==
  ASSUME Typed, NEW p \in Processes, StartServer(p)
  PROVE  /\ servers' \in [Processes -> SUBSET Nat] /\ entries' \subseteq Slots
         /\ nextOp' \in [Processes -> Nat]
  BY DEF Typed, StartServer, Slots, Slot

\* A scan begins with the entries there are.
LEMMA ScanBegins ==
  ASSUME Typed, NEW p \in Processes, NEW goal \in {"start", "panel"}, Scanning(p, goal)
  PROVE  scan' \in [Processes -> {NoScan} \cup ScanRecords]
  BY DEF Typed, Scanning, ScanRecords, Dead

\* A launch ends in a start, a scan or nothing.
LEMMA EnsureTyped ==
  ASSUME Typed, NEW p \in Processes, EnsureServer(p)
  PROVE  /\ servers' \in [Processes -> SUBSET Nat] /\ entries' \subseteq Slots
         /\ nextOp' \in [Processes -> Nat]
         /\ scan' \in [Processes -> {NoScan} \cup ScanRecords]
<1>1. CASE Scanning(p, "start") /\ UNCHANGED <<nextOp, servers, children, entries, raced>>
  BY <1>1, ScanBegins DEF Typed
<1>2. CASE StartServer(p) /\ UNCHANGED scan
  BY <1>2, StartTyped DEF Typed
<1>3. CASE UNCHANGED <<scan, nextOp, servers, children, entries, raced>>
  BY <1>3 DEF Typed
<1> QED
  BY <1>1, <1>2, <1>3 DEF EnsureServer

\* Every step keeps the types.
LEMMA StepTyped ==
  ASSUME Typed, RegistryNext
  PROVE  Typed'
<1>1. ASSUME NEW p \in Processes, Launch(p) \/ Listen(p) \/ Crash(p) \/ Exit(p)
      PROVE  Typed'
  <2>1. CASE Launch(p)
    BY <2>1 DEF Typed, Launch
  <2>2. CASE Listen(p)
    BY <2>2 DEF Typed, Listen
  <2>3. CASE Crash(p)
    BY <2>3 DEF Typed, Crash, Ended, Closed
  <2>4. CASE Exit(p)
    BY <2>4 DEF Typed, Exit, Ended, Closed
  <2> QED
    BY <1>1, <2>1, <2>2, <2>3, <2>4
<1>2. ASSUME NEW p \in Processes, WantServer(p) \/ SlotFreed(p)
      PROVE  Typed'
  <2>1. EnsureServer(p) /\ UNCHANGED <<phase, sock, firstOp, panel, call>>
    BY <1>2 DEF WantServer, SlotFreed
  <2> QED
    BY <2>1, EnsureTyped DEF Typed
<1>3. ASSUME NEW p \in Processes, Counted(p)
      PROVE  Typed'
  <2>1. scan' \in [Processes -> {NoScan} \cup ScanRecords]
    BY <1>3 DEF Typed, Counted
  <2>2. UNCHANGED <<servers, entries, nextOp>> \/ StartServer(p)
    BY <1>3 DEF Counted
  <2>3. /\ servers' \in [Processes -> SUBSET Nat] /\ entries' \subseteq Slots
        /\ nextOp' \in [Processes -> Nat]
    BY <2>2, StartTyped DEF Typed
  <2> QED
    BY <1>3, <2>1, <2>3 DEF Typed, Counted
<1>4. ASSUME NEW p \in Processes, NEW e \in AllSlots, Probe(p, e)
      PROVE  Typed'
  <2>1. scan[p] \in ScanRecords /\ e \in Slots
    BY <1>4, ScanTyped, AllSlotsAreSlots DEF Probe
  <2>2. scan' \in [Processes -> {NoScan} \cup ScanRecords]
    <3>1. scan'[p] \in ScanRecords
      BY <1>4, <2>1 DEF Typed, Probe, ScanRecords
    <3> QED
      BY <1>4, <3>1 DEF Typed, Probe
  <2> QED
    BY <1>4, <2>2 DEF Typed, Probe
<1>5. ASSUME NEW p \in Processes, Reap(p)
      PROVE  Typed'
  <2>1. scan[p] \in ScanRecords
    BY <1>5, ScanTyped DEF Reap
  <2>2. scan' \in [Processes -> {NoScan} \cup ScanRecords]
    BY <1>5, <2>1 DEF Typed, Reap, ScanRecords
  <2>3. entries' \subseteq Slots /\ sock' \in [Processes -> BOOLEAN]
    BY <1>5 DEF Typed, Reap
  <2> QED
    BY <1>5, <2>2, <2>3 DEF Typed, Reap
<1>6. ASSUME NEW p \in Processes, Listed(p) \/ OpenPanel(p) \/ ClosePanel(p)
      PROVE  Typed'
  <2>1. CASE Listed(p)
    <3>1. scan[p].found \in SUBSET Slots
      BY <2>1, ScanTyped DEF Listed, Scanned, ScanRecords
    <3> QED
      BY <2>1, <3>1 DEF Typed, Listed
  <2>2. CASE OpenPanel(p)
    BY <2>2, ScanBegins DEF Typed, OpenPanel
  <2>3. CASE ClosePanel(p)
    BY <2>3 DEF Typed, ClosePanel, Closed
  <2> QED
    BY <1>6, <2>1, <2>2, <2>3
<1>7. ASSUME NEW p \in Processes, NEW e \in AllSlots, StopOwn(p, e)
      PROVE  Typed'
  <2>1. /\ servers' \in [Processes -> SUBSET Nat] /\ entries' \subseteq Slots
        /\ scan' \in [Processes -> {NoScan} \cup ScanRecords]
    BY <1>7 DEF Typed, StopOwn, ScanRecords, Dead
  <2> QED
    BY <1>7, <2>1 DEF Typed, StopOwn
<1>8. ASSUME NEW p \in Processes, NEW e \in AllSlots, NEW move \in BOOLEAN,
             RequestStop(p, e, move)
      PROVE  Typed'
  <2>1. call' \in [Processes -> {NoCall} \cup CallRecords]
    BY <1>8, AllSlotsAreSlots DEF Typed, RequestStop, CallRecords, Slots
  <2> QED
    BY <1>8, <2>1 DEF Typed, RequestStop, Closed
<1>9. ASSUME NEW p \in Processes, Deliver(p) \/ GiveUp(p) \/ TakeReply(p)
      PROVE  Typed'
  <2>1. call[p] \in CallRecords
    BY <1>9 DEF Deliver, GiveUp, TakeReply, Typed, NoCall
  <2>2. /\ \/ call' = [call EXCEPT ![p].state = "waiting"]
           \/ call' = [call EXCEPT ![p].state = "failed"]
           \/ call' = [call EXCEPT ![p].state = "ended"]
        /\ UNCHANGED <<phase, entries, sock, servers, nextOp, firstOp, scan, panel>>
    BY <1>9 DEF Deliver, GiveUp, TakeReply, CallEnds
  <2>3. call' \in [Processes -> {NoCall} \cup CallRecords]
    <3>1. \A state \in {"waiting", "failed", "ended"} :
              [call[p] EXCEPT !.state = state] \in CallRecords
      BY <2>1 DEF CallRecords
    <3>2. \E state \in {"waiting", "failed", "ended"} :
              call' = [call EXCEPT ![p] = [call[p] EXCEPT !.state = state]]
      BY <2>2
    <3> QED
      BY <3>1, <3>2 DEF Typed
  <2> QED
    BY <2>2, <2>3 DEF Typed
<1>10. ASSUME NEW p \in Processes, StopRequested(p)
       PROVE  Typed'
  <2>1. call' \in [Processes -> {NoCall} \cup CallRecords]
    <3> DEFINE from == Head(inbox[p]).from
    <3>1. CASE call[from].state = "waiting" /\ from \in Processes
      <4>1. call[from] \in CallRecords
        BY <3>1 DEF Typed, NoCall
      <4> QED
        BY <1>10, <3>1, <4>1 DEF StopRequested, Typed, CallRecords
    <3>2. CASE from \notin Processes
      <4>1. \A c : [call EXCEPT ![from].state = c] \in [Processes -> {NoCall} \cup CallRecords]
        BY <3>2 DEF Typed
      <4> QED
        BY <1>10, <4>1 DEF StopRequested, Typed
    <3>3. CASE call[from].state # "waiting"
      BY <1>10, <3>3 DEF StopRequested, Typed
    <3> QED
      BY <3>1, <3>2, <3>3
  <2>2. servers' \in [Processes -> SUBSET Nat] /\ entries' \subseteq Slots
    BY <1>10 DEF Typed, StopRequested
  <2> QED
    BY <1>10, <2>1, <2>2 DEF Typed, StopRequested
<1>11. ASSUME NEW p \in Processes, ServerStopped(p)
       PROVE  Typed'
  BY <1>11 DEF Typed, ServerStopped
<1>12. ASSUME NEW p \in Processes, NEW op \in 1 .. MaxOps[p], ServerExits(p, op)
       PROVE  Typed'
  BY <1>12 DEF Typed, ServerExits
<1> QED
  BY <1>1, <1>2, <1>3, <1>4, <1>5, <1>6, <1>7, <1>8, <1>9, <1>10, <1>11, <1>12
     DEF RegistryNext, MainLoop, User, Threads

-----------------------------------------------------------------------------
(* The steps keep the registry sound.                                      *)

\* Entries stay started and owned if those that are new are of the servers
\* started by the step, and a server that is taken away takes its entry.
LEMMA EntriesStayOwned ==
  ASSUME Listing, Typed',
         \A p \in Processes : nextOp'[p] >= nextOp[p],
         \A p \in Processes : Up(p)' => Up(p) \/ phase[p] = "off",
         \A p \in Processes : phase[p] # "off" => phase'[p] # "off",
         \A e \in entries' \ entries :
             Up(e.pid)' /\ e.op \in servers'[e.pid] /\ e.op < nextOp'[e.pid],
         \A e \in entries' : e.op \in servers[e.pid] => e.op \in servers'[e.pid] \/ ~Up(e.pid)'
  PROVE  Started(entries)' /\ Owned'
<1> SUFFICES ASSUME NEW e \in entries'
             PROVE  /\ e.op < nextOp'[e.pid] /\ phase'[e.pid] # "off"
                    /\ Up(e.pid)' => e.op \in servers'[e.pid]
  BY DEF Started, Owned
<1>1. CASE e \notin entries
  BY <1>1 DEF Up
<1>2. CASE e \in entries
  <2>1. /\ e.pid \in Processes /\ e.op \in Nat
        /\ nextOp[e.pid] \in Nat /\ nextOp'[e.pid] \in Nat
    BY DEF Slots, Typed, Listing
  <2>2. e.op < nextOp[e.pid] /\ phase[e.pid] # "off" /\ (Up(e.pid) => e.op \in servers[e.pid])
    BY <1>2 DEF Listing, Started, Owned
  <2>3. e.op < nextOp'[e.pid]
    BY <2>1, <2>2
  <2> QED
    BY <2>1, <2>2, <2>3
<1> QED
  BY <1>1, <1>2

\* A server is started by a living process.
LEMMA StartKeepsListing ==
  ASSUME Listing, Typed', NEW p \in Processes, Up(p), StartServer(p),
         scan' \in {scan, [scan EXCEPT ![p] = NoScan]},
         UNCHANGED <<phase, sock, firstOp>>
  PROVE  Listing'
<1>1. nextOp[p] \in Nat /\ nextOp' = [nextOp EXCEPT ![p] = nextOp[p] + 1]
  BY DEF StartServer, Listing, Typed
<1>2. \A q \in Processes : nextOp'[q] >= nextOp[q]
  BY <1>1 DEF Listing, Typed
<1>3. \/ UNCHANGED <<servers, entries>>
      \/ /\ servers' = [servers EXCEPT ![p] = servers[p] \cup {nextOp[p]}]
         /\ entries' \in {entries, entries \cup {Slot(p, nextOp[p])}}
  BY DEF StartServer
<1>4. \A e \in entries' \ entries :
          Up(e.pid)' /\ e.op \in servers'[e.pid] /\ e.op < nextOp'[e.pid] /\ e.pid = p
  BY <1>1, <1>3 DEF Listing, Typed, Slot, Up
<1>5. \A q \in Processes : servers[q] \subseteq servers'[q]
  BY <1>3 DEF Listing, Typed
<1>6. \A e \in entries' : e.op \in servers[e.pid] => e.op \in servers'[e.pid]
  BY <1>5 DEF Typed, Slots
<1>7. Started(entries)' /\ Owned'
  BY <1>2, <1>4, <1>6, EntriesStayOwned DEF Up
<1>8. \A q \in Processes : scan'[q] \in {scan[q], NoScan}
  BY DEF Listing, Typed
<1>9. ScansSound'
  BY <1>2, <1>4, <1>8, ScansStaySound DEF Up, Connects
<1> QED
  BY <1>7, <1>9 DEF Listing

\* A scan that begins has everything before it.
LEMMA ScanBeginsSound ==
  ASSUME Listing, Typed', NEW p \in Processes, Up(p), Idle(p),
         NEW goal \in {"start", "panel"},
         entries' \subseteq entries,
         \A q \in Processes \ {p} : scan'[q] = scan[q],
         scan'[p] = [goal |-> goal, todo |-> entries', found |-> {}, condemned |-> {},
                     dead |-> Dead],
         UNCHANGED <<phase, sock, firstOp, nextOp>>
  PROVE  ScansSound'
<1> SUFFICES ASSUME NEW q \in Processes, ~Idle(q)' PROVE ScanSound(q)'
  BY DEF ScansSound
<1>1. CASE q = p
  BY <1>1 DEF ScanSound, Listing, Started, Dead, Up
<1>2. CASE q # p
  <2>1. scan'[q] = scan[q] /\ ScanSound(q)
    BY <1>2 DEF Listing, ScansSound, Idle
  <2> QED
    BY <2>1 DEF ScanSound, Started, Up, Connects
<1> QED
  BY <1>1, <1>2

\* A launch keeps the registry sound.
LEMMA EnsureKeepsListing ==
  ASSUME Listing, Typed', NEW p \in Processes, Up(p), Idle(p), EnsureServer(p),
         UNCHANGED <<phase, sock, firstOp>>
  PROVE  Listing'
<1>1. CASE UNCHANGED <<scan, nextOp, servers, children, entries, raced>>
  BY <1>1 DEF Listing, Started, Owned, ScansSound, ScanSound, Idle, Up, Connects
<1>2. CASE Scanning(p, "start") /\ UNCHANGED <<nextOp, servers, children, entries, raced>>
  <2>1. ScansSound'
    BY <1>2, ScanBeginsSound DEF Scanning, Listing, Typed
  <2> QED
    BY <1>2, <2>1 DEF Listing, Started, Owned, Up
<1>3. CASE StartServer(p) /\ UNCHANGED scan
  BY <1>3, StartKeepsListing
<1> QED
  BY <1>1, <1>2, <1>3 DEF EnsureServer

\* One entry is looked at.
LEMMA ProbeKeepsScans ==
  ASSUME Listing, Typed', NEW p \in Processes, NEW e \in AllSlots, Probe(p, e)
  PROVE  ScansSound'
<1> SUFFICES ASSUME NEW q \in Processes, ~Idle(q)' PROVE ScanSound(q)'
  BY DEF ScansSound
<1>1. CASE q # p
  <2>1. scan'[q] = scan[q]
    BY <1>1 DEF Probe, Listing, Typed
  <2>2. ScanSound(q)
    BY <2>1 DEF Listing, ScansSound, Idle
  <2> QED
    BY <2>1, <2>2 DEF Probe, ScanSound, Started, Up, Connects
<1>2. CASE q = p
  <2>1. /\ scan[p] \in ScanRecords /\ ScanSound(p) /\ e \in scan[p].todo
        /\ scan[p].condemned = {} /\ e.pid \in Processes
    BY AllSlotsAreSlots, ScanTyped DEF Probe, Listing, ScansSound, Slots
  <2> DEFINE seen == [scan[p] EXCEPT !.todo = @ \ {e}]
  <2>2. /\ seen.todo = scan[p].todo \ {e} /\ seen.found = scan[p].found
        /\ seen.condemned = {} /\ seen.dead = scan[p].dead
    BY <2>1 DEF ScanRecords
  <2>3. UNCHANGED <<phase, entries, sock, nextOp, firstOp>>
    BY DEF Probe
  <2>4. CASE e \notin entries /\ scan'[p] = seen
    BY <1>2, <2>1, <2>2, <2>3, <2>4 DEF ScanSound, Started, Up, Connects
  <2>5. CASE (e.pid = p \/ Connects(e.pid)) /\ scan'[p] = [seen EXCEPT !.found = @ \cup {e}]
    <3>1. /\ scan'[p].todo = seen.todo /\ scan'[p].found = scan[p].found \cup {e}
          /\ scan'[p].condemned = {} /\ scan'[p].dead = scan[p].dead
      BY <2>1, <2>2, <2>5 DEF ScanRecords
    <3>2. e.pid \notin scan[p].dead
      BY <2>1, <2>5 DEF ScanSound, Up, Connects
    <3> QED
      BY <1>2, <2>1, <2>2, <2>3, <3>1, <3>2 DEF ScanSound, Started, Up, Connects
  <2>6. CASE ~Connects(e.pid) /\ scan'[p] = [seen EXCEPT !.condemned = {e}]
    <3>1. /\ scan'[p].todo = seen.todo /\ scan'[p].found = scan[p].found
          /\ scan'[p].condemned = {e} /\ scan'[p].dead = scan[p].dead
      BY <2>1, <2>2, <2>6 DEF ScanRecords
    <3> QED
      BY <1>2, <2>1, <2>2, <2>3, <2>6, <3>1 DEF ScanSound, Started, Up, Connects
  <2>7. scan'[p] = IF e \notin entries THEN seen
                   ELSE IF e.pid = p \/ Connects(e.pid) THEN [seen EXCEPT !.found = @ \cup {e}]
                   ELSE [seen EXCEPT !.condemned = {e}]
    BY DEF Probe, Listing, Typed
  <2> QED
    BY <2>4, <2>5, <2>6, <2>7
<1> QED
  BY <1>1, <1>2

\* What is condemned goes.
LEMMA ReapKeepsScans ==
  ASSUME Listing, Typed', NEW p \in Processes, Reap(p)
  PROVE  ScansSound'
<1> SUFFICES ASSUME NEW q \in Processes, ~Idle(q)' PROVE ScanSound(q)'
  BY DEF ScansSound
<1>1. /\ UNCHANGED <<phase, nextOp, firstOp>> /\ entries' = entries \ scan[p].condemned
      /\ \A r \in Processes : sock'[r] => sock[r]
  BY DEF Reap
<1>2. CASE q # p
  <2>1. scan'[q] = scan[q]
    BY <1>2 DEF Reap, Listing, Typed
  <2>2. ScanSound(q) /\ scan[q] \in ScanRecords
    BY <2>1, ScanTyped DEF Listing, ScansSound, Idle
  <2> QED
    BY <1>1, <2>1, <2>2 DEF ScanSound, Started, Up, Connects, ScanRecords, Slots
<1>3. CASE q = p
  <2>1. scan[p] \in ScanRecords /\ ScanSound(p)
    BY ScanTyped DEF Reap, Listing, ScansSound
  <2>2. /\ scan'[p].todo = scan[p].todo /\ scan'[p].found = scan[p].found
        /\ scan'[p].condemned = {} /\ scan'[p].dead = scan[p].dead
    BY <2>1 DEF Reap, Listing, Typed, ScanRecords
  <2> QED
    BY <1>1, <1>3, <2>1, <2>2 DEF ScanSound, Started, Up, Connects
<1> QED
  BY <1>2, <1>3

\* Steps that leave the registry alone keep it sound.
LEMMA QuietKeepsListing ==
  ASSUME Listing, Typed',
         UNCHANGED <<phase, entries, sock, servers, nextOp, firstOp, scan>>
  PROVE  Listing'
<1>1. Started(entries)' /\ Owned'
  BY DEF Listing, Started, Owned, Up
<1>2. ScansSound'
  BY DEF Listing, ScansSound, ScanSound, Started, Idle, Up, Connects
<1> QED
  BY <1>1, <1>2 DEF Listing

\* Processes come, listen and go.
LEMMA LifeKeepsListing ==
  ASSUME Listing, Typed', NEW p \in Processes,
         Launch(p) \/ Listen(p) \/ Crash(p) \/ Exit(p)
  PROVE  Listing'
<1>1. CASE Launch(p)
  <2>1. /\ phase[p] = "off" /\ phase' = [phase EXCEPT ![p] = "starting"]
        /\ UNCHANGED <<entries, sock, servers, nextOp, firstOp, scan>>
    BY <1>1 DEF Launch
  <2>2. \A q \in Processes : nextOp'[q] >= nextOp[q]
    BY <2>1 DEF Listing, Typed
  <2>3. Started(entries)' /\ Owned'
    BY <2>1, <2>2, EntriesStayOwned DEF Up, Listing, Typed
  <2>4. ScansSound'
    BY <2>1, <2>2, ScansStaySound DEF Up, Connects, Listing, Typed
  <2> QED
    BY <2>3, <2>4 DEF Listing
<1>2. CASE Listen(p)
  <2>1. /\ phase[p] = "starting" /\ phase' = [phase EXCEPT ![p] = "running"]
        /\ firstOp' = [firstOp EXCEPT ![p] = nextOp[p]]
        /\ \A q \in Processes \ {p} : sock'[q] = sock[q]
        /\ UNCHANGED <<entries, servers, nextOp, scan>>
    BY <1>2 DEF Listen, Listing, Typed
  <2>2. \A q \in Processes : nextOp'[q] >= nextOp[q]
    BY <2>1 DEF Listing, Typed
  <2>3. Started(entries)' /\ Owned'
    BY <2>1, <2>2, EntriesStayOwned DEF Up, Listing, Typed
  <2>4. \A q \in Processes : Connects(q)' =>
             \/ Connects(q) /\ firstOp'[q] = firstOp[q]
             \/ firstOp'[q] = nextOp[q]
    BY <2>1 DEF Connects, Listing, Typed
  <2>5. ScansSound'
    BY <2>1, <2>2, <2>4, ScansStaySound DEF Up, Listing, Typed
  <2> QED
    BY <2>3, <2>5 DEF Listing
<1>3. CASE Crash(p) \/ Exit(p)
  <2>1. /\ Up(p) /\ phase' = [phase EXCEPT ![p] = "dead"]
        /\ servers' = [servers EXCEPT ![p] = {}] /\ scan' = [scan EXCEPT ![p] = NoScan]
        /\ UNCHANGED <<nextOp, firstOp>>
    BY <1>3 DEF Crash, Exit, Free, Up, Ended
  <2>2. entries' \subseteq entries /\ \A q \in Processes : sock'[q] => sock[q]
    BY <1>3 DEF Crash, Exit, Listing, Typed
  <2>3. \A q \in Processes : nextOp'[q] >= nextOp[q]
    BY <2>1 DEF Listing, Typed
  <2>4. \A e \in entries' : e.op \in servers[e.pid] => e.op \in servers'[e.pid] \/ ~Up(e.pid)'
    BY <2>1 DEF Listing, Typed, Slots, Up
  <2>5. Started(entries)' /\ Owned'
    BY <2>1, <2>2, <2>3, <2>4, EntriesStayOwned DEF Up, Listing, Typed
  <2>6. ScansSound'
    BY <2>1, <2>2, <2>3, ScansStaySound DEF Up, Connects, Listing, Typed
  <2> QED
    BY <2>5, <2>6 DEF Listing
<1> QED
  BY <1>1, <1>2, <1>3

\* A server that is taken away takes its entry.
LEMMA StopKeepsListing ==
  ASSUME Listing, Typed', NEW p \in Processes, NEW op,
         servers' = [servers EXCEPT ![p] = @ \ {op}],
         entries' \subseteq entries, Slot(p, op) \notin entries',
         \A q \in Processes : scan'[q] = scan[q],
         UNCHANGED <<phase, sock, nextOp, firstOp>>
  PROVE  Listing'
<1>1. \A q \in Processes : nextOp'[q] >= nextOp[q]
  BY DEF Listing, Typed
<1>2. ASSUME NEW e \in entries', e.op \in servers[e.pid]
      PROVE  e.op \in servers'[e.pid]
  <2>1. e \in Slots /\ e # Slot(p, op)
    BY DEF Typed
  <2>2. e.pid # p \/ e.op # op
    BY <2>1 DEF Slots, Slot
  <2> QED
    BY <1>2, <2>1, <2>2 DEF Listing, Typed, Slots
<1>3. Started(entries)' /\ Owned'
  BY <1>1, <1>2, EntriesStayOwned DEF Up
<1>4. ScansSound'
  BY <1>1, ScansStaySound DEF Up, Connects
<1> QED
  BY <1>3, <1>4 DEF Listing

\* Every step keeps the registry sound.
LEMMA StepListing ==
  ASSUME Listing, [RegistryNext]_registryVars
  PROVE  Listing'
<1> SUFFICES ASSUME RegistryNext PROVE Listing'
  BY QuietKeepsListing DEF registryVars, Listing, Typed
<1>1. Typed'
  BY StepTyped DEF Listing
<1>2. ASSUME NEW p \in Processes, Launch(p) \/ Listen(p) \/ Crash(p) \/ Exit(p)
      PROVE  Listing'
  BY <1>1, <1>2, LifeKeepsListing
<1>3. ASSUME NEW p \in Processes, WantServer(p) \/ SlotFreed(p)
      PROVE  Listing'
  <2>1. /\ EnsureServer(p) /\ Up(p) /\ Idle(p) /\ UNCHANGED <<phase, sock, firstOp>>
    BY <1>3 DEF WantServer, SlotFreed, Turn, Free, Up
  <2> QED
    BY <1>1, <2>1, EnsureKeepsListing
<1>4. ASSUME NEW p \in Processes, Counted(p)
      PROVE  Listing'
  <2>1. ScanSound(p) /\ scan' = [scan EXCEPT ![p] = NoScan] /\ UNCHANGED <<phase, sock, firstOp>>
    BY <1>4 DEF Counted, Scanned, Listing, ScansSound
  <2>2. CASE StartServer(p)
    BY <1>1, <2>1, <2>2, StartKeepsListing DEF ScanSound
  <2>3. CASE UNCHANGED <<nextOp, servers, entries>>
    <3>1. \A q \in Processes : nextOp'[q] >= nextOp[q]
      BY <2>3 DEF Listing, Typed
    <3>2. ScansSound'
      BY <1>1, <2>1, <2>3, <3>1, ScansStaySound DEF Up, Connects, Listing, Typed
    <3> QED
      BY <1>1, <2>1, <2>3, <3>2 DEF Listing, Started, Owned, Up
  <2> QED
    BY <1>4, <2>2, <2>3 DEF Counted
<1>5. ASSUME NEW p \in Processes, NEW e \in AllSlots, Probe(p, e)
      PROVE  Listing'
  BY <1>1, <1>5, ProbeKeepsScans DEF Probe, Listing, Started, Owned, Up
<1>6. ASSUME NEW p \in Processes, Reap(p)
      PROVE  Listing'
  BY <1>1, <1>6, ReapKeepsScans DEF Reap, Listing, Started, Owned, Up
<1>7. ASSUME NEW p \in Processes, Listed(p)
      PROVE  Listing'
  <2>1. /\ scan' = [scan EXCEPT ![p] = NoScan]
        /\ UNCHANGED <<phase, entries, sock, servers, nextOp, firstOp>>
    BY <1>7 DEF Listed
  <2>2. \A q \in Processes : nextOp'[q] >= nextOp[q]
    BY <2>1 DEF Listing, Typed
  <2>3. ScansSound'
    BY <1>1, <2>1, <2>2, ScansStaySound DEF Up, Connects, Listing, Typed
  <2> QED
    BY <1>1, <2>1, <2>3 DEF Listing, Started, Owned, Up
<1>8. ASSUME NEW p \in Processes, OpenPanel(p)
      PROVE  Listing'
  <2>1. /\ Up(p) /\ Idle(p) /\ Scanning(p, "panel")
        /\ UNCHANGED <<phase, entries, sock, servers, nextOp, firstOp>>
    BY <1>8 DEF OpenPanel, Free, Up
  <2>2. ScansSound'
    BY <1>1, <2>1, ScanBeginsSound DEF Scanning, Listing, Typed
  <2> QED
    BY <1>1, <2>1, <2>2 DEF Listing, Started, Owned, Up
<1>9. ASSUME NEW p \in Processes, NEW e \in AllSlots, StopOwn(p, e)
      PROVE  Listing'
  <2>1. /\ Up(p) /\ Idle(p) /\ e.pid = p /\ e \in Slots
        /\ servers' = [servers EXCEPT ![p] = @ \ {e.op}] /\ entries' = entries \ {e}
        /\ scan' = [scan EXCEPT ![p] = [goal |-> "panel", todo |-> entries', found |-> {},
                                        condemned |-> {}, dead |-> Dead]]
        /\ UNCHANGED <<phase, sock, nextOp, firstOp>>
    BY <1>9, AllSlotsAreSlots DEF StopOwn, Free, Up
  <2>2. ScansSound'
    BY <1>1, <2>1, ScanBeginsSound DEF Listing, Typed
  <2>3. \A q \in Processes : nextOp'[q] >= nextOp[q]
    BY <2>1 DEF Listing, Typed
  <2>4. ASSUME NEW f \in entries', f.op \in servers[f.pid]
        PROVE  f.op \in servers'[f.pid]
    <3>1. f \in Slots /\ f # e
      BY <1>1, <2>1 DEF Typed
    <3>2. f.pid # p \/ f.op # e.op
      BY <2>1, <3>1 DEF Slots
    <3> QED
      BY <2>1, <2>4, <3>1, <3>2 DEF Listing, Typed, Slots
  <2>5. Started(entries)' /\ Owned'
    BY <1>1, <2>1, <2>3, <2>4, EntriesStayOwned DEF Up
  <2> QED
    BY <1>1, <2>2, <2>5 DEF Listing
<1>10. ASSUME NEW p \in Processes, StopRequested(p)
       PROVE  Listing'
  <2> DEFINE op == Head(inbox[p]).op
  <2>1. /\ servers' = [servers EXCEPT ![p] = @ \ {op}] /\ entries' \subseteq entries
        /\ op \in servers[p] => entries' = entries \ {Slot(p, op)}
        /\ Up(p) /\ UNCHANGED <<phase, sock, nextOp, firstOp, scan>>
    BY <1>10 DEF StopRequested, Turn, Free, Up
  <2>2. Slot(p, op) \notin entries'
    BY <2>1 DEF Listing, Owned, Slot
  <2> QED
    BY <1>1, <2>1, <2>2, StopKeepsListing
<1>11. ASSUME NEW p \in Processes, ServerStopped(p)
       PROVE  Listing'
  <2> DEFINE op == Head(inbox[p]).op
  <2>1. /\ servers' = [servers EXCEPT ![p] = @ \ {op}] /\ entries' = entries \ {Slot(p, op)}
        /\ UNCHANGED <<phase, sock, nextOp, firstOp, scan>>
    BY <1>11 DEF ServerStopped
  <2> QED
    BY <1>1, <2>1, StopKeepsListing
<1>12. ASSUME UNCHANGED <<phase, entries, sock, servers, nextOp, firstOp, scan>>
       PROVE  Listing'
  BY <1>1, <1>12, QuietKeepsListing
<1>13. ASSUME NEW p \in Processes
       PROVE  /\ Threads(p) \/ ClosePanel(p) =>
                     UNCHANGED <<phase, entries, sock, servers, nextOp, firstOp, scan>>
              /\ \A e, move : RequestStop(p, e, move) =>
                     UNCHANGED <<phase, entries, sock, servers, nextOp, firstOp, scan>>
              /\ \A op : ServerExits(p, op) =>
                     UNCHANGED <<phase, entries, sock, servers, nextOp, firstOp, scan>>
  BY DEF Threads, Deliver, GiveUp, TakeReply, ClosePanel, RequestStop, ServerExits
<1> QED
  BY <1>2, <1>3, <1>4, <1>5, <1>6, <1>7, <1>8, <1>9, <1>10, <1>11, <1>12, <1>13
     DEF RegistryNext, MainLoop, User

\* The registry is sound in every behaviour.
LEMMA AlwaysListing == RegistrySpec => []Listing
<1>1. RegistryInit => Listing
  BY InitListing
<1>2. Listing /\ [RegistryNext]_registryVars => Listing'
  BY StepListing
<1> QED
  BY <1>1, <1>2, PTL DEF RegistrySpec

(* A living process has no entry without a server of its own, however many *)
(* windows start, stop, count, end and crash (lsp_registry.rs 92-118).     *)
THEOREM LivingHaveNoGhosts == RegistrySpec => []NoGhostEntries
<1>1. Listing => NoGhostEntries
  BY DEF Listing, Owned, NoGhostEntries
<1> QED
  BY <1>1, AlwaysListing, PTL

(* A scan leaves and counts no entry of a process that was dead when it    *)
(* began (lsp_registry.rs 12-14 and 157-177).                              *)
THEOREM CrashedSlotsAlwaysReclaimed == RegistrySpec => []CrashedSlotsReclaimed
<1>1. Listing => CrashedSlotsReclaimed
  BY DEF Listing, ScansSound, ScanSound, CrashedSlotsReclaimed, Scanned
<1> QED
  BY <1>1, AlwaysListing, PTL

-----------------------------------------------------------------------------
(* What only the end of a server, or of its process, takes away.           *)

\* Steps that take no entry away.
LEMMA EntriesOnlyGrow ==
  ASSUME NEW p \in Processes,
         \/ Launch(p) \/ Listen(p) \/ Crash(p) \/ WantServer(p) \/ SlotFreed(p) \/ Counted(p)
         \/ Listed(p) \/ OpenPanel(p) \/ ClosePanel(p) \/ Threads(p)
         \/ \E e \in AllSlots : Probe(p, e) \/ \E move \in BOOLEAN : RequestStop(p, e, move)
         \/ \E op \in 1 .. MaxOps[p] : ServerExits(p, op)
  PROVE  entries \subseteq entries'
<1>1. ASSUME EnsureServer(p) PROVE entries \subseteq entries'
  BY <1>1 DEF EnsureServer, StartServer
<1>2. ASSUME WantServer(p) \/ SlotFreed(p) PROVE entries \subseteq entries'
  BY <1>1, <1>2 DEF WantServer, SlotFreed
<1>3. ASSUME Counted(p) PROVE entries \subseteq entries'
  BY <1>3 DEF Counted, StartServer
<1>4. ASSUME Launch(p) \/ Listen(p) \/ Crash(p) \/ Listed(p) \/ OpenPanel(p) \/ ClosePanel(p)
      PROVE  entries \subseteq entries'
  BY <1>4 DEF Launch, Listen, Crash, Listed, OpenPanel, ClosePanel
<1>5. ASSUME Threads(p) PROVE entries \subseteq entries'
  BY <1>5 DEF Threads, Deliver, GiveUp, TakeReply
<1>6. ASSUME NEW e, NEW move, Probe(p, e) \/ RequestStop(p, e, move)
      PROVE  entries \subseteq entries'
  BY <1>6 DEF Probe, RequestStop
<1>7. ASSUME NEW op, ServerExits(p, op) PROVE entries \subseteq entries'
  BY <1>7 DEF ServerExits
<1> QED
  BY <1>2, <1>3, <1>4, <1>5, <1>6, <1>7

(* No step unlists a server that runs on and was started while its process *)
(* answered on its socket (lsp_registry.rs 157-177): a scan has condemned  *)
(* it only if it did not answer, and whoever has answered since was then   *)
(* still binding the socket, so that its later servers are not condemned.  *)
THEOREM AnsweringServersAlwaysListed == RegistrySpec => AnsweringServersStayListed
<1> DEFINE A == \A e \in Running :
                    Connects(e.pid) /\ e.op >= firstOp[e.pid] /\ e \in entries =>
                        e \in entries' \/ e \notin Running'
<1>1. ASSUME Listing, [RegistryNext]_registryVars PROVE A
  <2> SUFFICES ASSUME RegistryNext,
                      NEW e \in Running, Connects(e.pid), e.op >= firstOp[e.pid],
                      e \in entries, e \notin entries'
               PROVE  e \notin Running'
    BY <1>1 DEF registryVars
  <2>1. e \in Slots /\ e.pid \in Processes /\ e.op \in Nat /\ firstOp[e.pid] \in Nat
    BY <1>1 DEF Listing, Typed, Slots
  <2>2. ASSUME NEW p \in Processes, Exit(p)
        PROVE  e \notin Running'
    BY <1>1, <2>1, <2>2 DEF Exit, Ended, Running, Listing, Typed
  <2>3. ASSUME NEW p \in Processes, Reap(p)
        PROVE  e \notin Running'
    <3>1. ScanSound(p) /\ e \in scan[p].condemned
      BY <1>1, <2>3 DEF Reap, Listing, ScansSound
    <3> QED
      BY <2>1, <3>1 DEF ScanSound
  <2>4. ASSUME NEW p \in Processes, NEW f \in AllSlots, StopOwn(p, f)
        PROVE  e \notin Running'
    <3>1. e = f /\ f.pid = p /\ servers' = [servers EXCEPT ![p] = @ \ {f.op}]
      BY <2>4 DEF StopOwn
    <3> QED
      BY <1>1, <2>1, <3>1 DEF Running, Listing, Typed
  <2>5. ASSUME NEW p \in Processes, StopRequested(p) \/ ServerStopped(p)
        PROVE  e \notin Running'
    <3> DEFINE op == Head(inbox[p]).op
    <3>1. e = Slot(p, op) /\ servers' = [servers EXCEPT ![p] = @ \ {op}]
      BY <2>5 DEF StopRequested, ServerStopped
    <3> QED
      BY <1>1, <2>1, <3>1 DEF Running, Listing, Typed, Slot
  <2> QED
    BY <2>2, <2>3, <2>4, <2>5, EntriesOnlyGrow DEF RegistryNext, MainLoop, User
<1>2. RegistrySpec => [][A]_registryVars
  <2>1. Listing /\ [RegistryNext]_registryVars => [A]_registryVars
    BY <1>1
  <2> QED
    BY <2>1, AlwaysListing, PTL DEF RegistrySpec
<1> QED
  BY <1>2 DEF AnsweringServersStayListed

-----------------------------------------------------------------------------
(* Requests to stop a server.                                              *)

\* The request that process p has in m is the one its sender made, or the
\* sender is gone.
Asked(p, m) ==
    /\ m.from \in Processes
    /\ \/ call[m.from] = NoCall /\ phase[m.from] = "dead"
       \/ call[m.from] # NoCall /\ call[m.from].to = p /\ call[m.from].op = m.op

InboxOK(p, q) == Channel(q) /\ \A m \in ToSet(q) : m.type = "LspStopRequested" => Asked(p, m)

Inboxes == DOMAIN inbox = Processes /\ \A p \in Processes : InboxOK(p, inbox[p])

CallsStarted == \A p \in Processes : call[p] # NoCall => call[p].op < nextOp[call[p].to]

ServersStarted == \A p \in Processes : \A op \in servers[p] : op < nextOp[p]

ShownStarted == \A p \in Processes : Started(panel[p].shown)

Requests ==
    /\ Listing /\ Inboxes /\ CallsStarted /\ ServersStarted /\ ShownStarted
    /\ StoppedMeansFree

\* Nobody has asked anybody at first.
LEMMA InitRequests == RegistryInit => Requests
<1> SUFFICES ASSUME RegistryInit PROVE Requests
  OBVIOUS
<1>1. Inboxes
  BY EmptyChannel DEF RegistryInit, Inboxes, InboxOK
<1>2. CallsStarted /\ ServersStarted /\ ShownStarted /\ StoppedMeansFree
  BY DEF RegistryInit, CallsStarted, ServersStarted, ShownStarted, Started, StoppedMeansFree,
         Closed, NoCall
<1> QED
  BY <1>1, <1>2, InitListing DEF Requests

\* What is read, sent and lost leaves requests that were made.
LEMMA InboxesStay ==
  ASSUME Inboxes, DOMAIN inbox' = Processes,
         \A p \in Processes : \A m : Asked(p, m) => Asked(p, m)',
         \A p \in Processes :
             \/ inbox'[p] = inbox[p] \/ inbox'[p] = <<>>
             \/ inbox[p] # <<>> /\ inbox'[p] = Tail(inbox[p])
             \/ \E m : /\ m.type = "LspStopRequested" => Asked(p, m)'
                       /\ inbox'[p] = Append(inbox[p], m)
  PROVE  Inboxes'
<1> SUFFICES ASSUME NEW p \in Processes PROVE InboxOK(p, inbox[p])'
  BY DEF Inboxes
<1>1. /\ Channel(inbox[p])
      /\ \A m \in ToSet(inbox[p]) : m.type = "LspStopRequested" => Asked(p, m)'
  BY DEF Inboxes, InboxOK
<1>2. CASE inbox'[p] = inbox[p]
  BY <1>1, <1>2 DEF InboxOK
<1>3. CASE inbox'[p] = <<>>
  BY <1>3, EmptyChannel DEF InboxOK
<1>4. CASE inbox[p] # <<>> /\ inbox'[p] = Tail(inbox[p])
  <2>1. Channel(Tail(inbox[p])) /\ ToSet(Tail(inbox[p])) \subseteq ToSet(inbox[p])
    BY <1>1, <1>4, ReceiveFrame
  <2> QED
    BY <1>1, <1>4, <2>1 DEF InboxOK
<1>5. ASSUME NEW m, m.type = "LspStopRequested" => Asked(p, m)',
             inbox'[p] = Append(inbox[p], m)
      PROVE  InboxOK(p, inbox[p])'
  <2>1. /\ Channel(Append(inbox[p], m))
        /\ ToSet(Append(inbox[p], m)) = ToSet(inbox[p]) \cup {m}
    BY <1>1, SendFrame
  <2> QED
    BY <1>1, <1>5, <2>1 DEF InboxOK
<1> QED
  BY <1>2, <1>3, <1>4, <1>5

\* A slot that was freed stays free: ids are never given out again.
LEMMA FreedStaysFree ==
  ASSUME Requests, Typed',
         \A p \in Processes : call'[p].state = "Stopped" => call'[p] = call[p],
         \A e \in entries' : e \in entries \/ e.op >= nextOp[e.pid],
         \A p \in Processes : \A op \in servers'[p] : op \in servers[p] \/ op >= nextOp[p]
  PROVE  StoppedMeansFree'
<1> SUFFICES ASSUME NEW p \in Processes, call'[p].state = "Stopped"
             PROVE  Slot(call'[p].to, call'[p].op) \notin entries' \cup Running'
  BY DEF StoppedMeansFree
<1>1. call'[p] = call[p] /\ call[p] \in CallRecords
  BY DEF Requests, Listing, Typed, NoCall
<1> DEFINE to == call[p].to
           op == call[p].op
<1>2. to \in Processes /\ op \in Nat /\ nextOp[to] \in Nat
  BY <1>1 DEF CallRecords, Requests, Listing, Typed
<1>3. op < nextOp[to] /\ Slot(to, op) \notin entries \cup Running
  BY <1>1 DEF Requests, CallsStarted, StoppedMeansFree, NoCall
<1>4. Slot(to, op) \notin entries'
  BY <1>2, <1>3 DEF Slot
<1>5. Slot(to, op) \in Running' => Slot(to, op) \in Running
  BY <1>2, <1>3 DEF Running, Slot
<1> QED
  BY <1>1, <1>3, <1>4, <1>5

\* What was started stays started.
LEMMA StartedStays ==
  ASSUME Listing, Typed', NEW S \in SUBSET Slots, Started(S),
         \A p \in Processes : nextOp'[p] >= nextOp[p]
  PROVE  Started(S)'
<1> SUFFICES ASSUME NEW e \in S PROVE e.op < nextOp'[e.pid]
  BY DEF Started
<1>1. e.op \in Nat /\ nextOp[e.pid] \in Nat /\ nextOp'[e.pid] \in Nat /\ e.pid \in Processes
  BY DEF Listing, Typed, Slots
<1>2. e.op < nextOp[e.pid] /\ nextOp'[e.pid] >= nextOp[e.pid]
  BY <1>1 DEF Started
<1> QED
  BY <1>1, <1>2

\* No step gives out an id twice, and the dead stay dead.
LEMMA StepIds ==
  ASSUME Listing, RegistryNext
  PROVE  /\ \A q \in Processes : nextOp'[q] >= nextOp[q]
         /\ \A q \in Processes : \A op \in servers'[q] :
                op \in servers[q] \/ (op >= nextOp[q] /\ op < nextOp'[q])
         /\ \A e \in entries' : e \in entries \/ e.op >= nextOp[e.pid]
         /\ \A q \in Processes : phase[q] = "dead" => phase'[q] = "dead"
<1> DEFINE I == /\ \A q \in Processes : nextOp'[q] >= nextOp[q]
                /\ \A q \in Processes : \A op \in servers'[q] :
                       op \in servers[q] \/ (op >= nextOp[q] /\ op < nextOp'[q])
                /\ \A e \in entries' : e \in entries \/ e.op >= nextOp[e.pid]
                /\ \A q \in Processes : phase[q] = "dead" => phase'[q] = "dead"
<1>1. ASSUME entries' \subseteq entries, UNCHANGED nextOp,
             \A q \in Processes : servers'[q] \subseteq servers[q],
             \A q \in Processes : phase[q] = "dead" => phase'[q] = "dead"
      PROVE  I
  BY <1>1 DEF Listing, Typed
<1>2. ASSUME NEW p \in Processes, StartServer(p), UNCHANGED phase
      PROVE  I
  <2>1. nextOp[p] \in Nat /\ nextOp' = [nextOp EXCEPT ![p] = nextOp[p] + 1]
    BY <1>2 DEF StartServer, Listing, Typed
  <2>2. \/ UNCHANGED <<servers, entries>>
        \/ /\ servers' = [servers EXCEPT ![p] = servers[p] \cup {nextOp[p]}]
           /\ entries' \in {entries, entries \cup {Slot(p, nextOp[p])}}
    BY <1>2 DEF StartServer
  <2>3. \A q \in Processes : nextOp'[q] >= nextOp[q]
    BY <2>1 DEF Listing, Typed
  <2>4. \A q \in Processes : \A op \in servers'[q] :
            op \in servers[q] \/ (op >= nextOp[q] /\ op < nextOp'[q])
    BY <2>1, <2>2 DEF Listing, Typed
  <2>5. \A e \in entries' : e \in entries \/ e.op >= nextOp[e.pid]
    BY <2>1, <2>2 DEF Slot
  <2> QED
    BY <1>2, <2>3, <2>4, <2>5
<1>3. ASSUME NEW p \in Processes, EnsureServer(p), UNCHANGED phase
      PROVE  I
  BY <1>1, <1>2, <1>3 DEF EnsureServer
<1>4. ASSUME NEW p \in Processes, Launch(p) \/ Listen(p)
      PROVE  I
  BY <1>1, <1>4 DEF Launch, Listen, Listing, Typed
<1>5. ASSUME NEW p \in Processes, Crash(p) \/ Exit(p)
      PROVE  I
  BY <1>1, <1>5 DEF Crash, Exit, Ended, Listing, Typed
<1>6. ASSUME NEW p \in Processes, WantServer(p) \/ SlotFreed(p)
      PROVE  I
  BY <1>3, <1>6 DEF WantServer, SlotFreed
<1>7. ASSUME NEW p \in Processes, Counted(p)
      PROVE  I
  BY <1>1, <1>2, <1>7 DEF Counted
<1>8. ASSUME NEW p \in Processes, NEW e, NEW move, Probe(p, e) \/ RequestStop(p, e, move)
      PROVE  I
  BY <1>1, <1>8 DEF Probe, RequestStop
<1>9. ASSUME NEW p \in Processes, Reap(p) \/ Listed(p) \/ OpenPanel(p) \/ ClosePanel(p)
      PROVE  I
  BY <1>1, <1>9 DEF Reap, Listed, OpenPanel, ClosePanel
<1>10. ASSUME NEW p \in Processes, NEW e, StopOwn(p, e)
       PROVE  I
  BY <1>1, <1>10 DEF StopOwn, Listing, Typed
<1>11. ASSUME NEW p \in Processes, StopRequested(p) \/ ServerStopped(p)
       PROVE  I
  BY <1>1, <1>11 DEF StopRequested, ServerStopped, Listing, Typed
<1>12. ASSUME NEW p \in Processes, Threads(p)
       PROVE  I
  BY <1>1, <1>12 DEF Threads, Deliver, GiveUp, TakeReply
<1>13. ASSUME NEW p \in Processes, NEW op, ServerExits(p, op)
       PROVE  I
  BY <1>1, <1>13 DEF ServerExits
<1> QED
  BY <1>4, <1>5, <1>6, <1>7, <1>8, <1>9, <1>10, <1>11, <1>12, <1>13
     DEF RegistryNext, MainLoop, User

\* A request keeps its target, begins with an entry that was shown, and is
\* forgotten only with its process.
LEMMA StepCalls ==
  ASSUME Listing, RegistryNext
  PROVE  \A q \in Processes :
           /\ call'[q] # NoCall =>
                \/ call[q] # NoCall /\ call'[q].to = call[q].to /\ call'[q].op = call[q].op
                \/ /\ call[q] = NoCall /\ phase[q] = "running"
                   /\ \E e \in panel[q].shown : call'[q].to = e.pid /\ call'[q].op = e.op
           /\ call'[q] = NoCall => call[q] = NoCall \/ phase'[q] = "dead"
<1> DEFINE I(q) ==
           /\ call'[q] # NoCall =>
                \/ call[q] # NoCall /\ call'[q].to = call[q].to /\ call'[q].op = call[q].op
                \/ /\ call[q] = NoCall /\ phase[q] = "running"
                   /\ \E e \in panel[q].shown : call'[q].to = e.pid /\ call'[q].op = e.op
           /\ call'[q] = NoCall => call[q] = NoCall \/ phase'[q] = "dead"
<1> SUFFICES ASSUME NEW q \in Processes PROVE I(q)
  OBVIOUS
<1>1. ASSUME NEW r, NEW state, call[r].state # "none" \/ r \notin Processes,
             state # "none",
             call' = [call EXCEPT ![r] = [call[r] EXCEPT !.state = state]]
      PROVE  I(q)
  <2>1. CASE q # r
    BY <1>1, <2>1 DEF Listing, Typed
  <2>2. CASE q = r
    <3>1. call[q] \in CallRecords
      BY <1>1, <2>2 DEF Listing, Typed, NoCall
    <3>2. call'[q] = [call[q] EXCEPT !.state = state]
      BY <1>1, <2>2 DEF Listing, Typed
    <3>3. /\ call'[q].state = state /\ call'[q].to = call[q].to /\ call'[q].op = call[q].op
          /\ call[q].state # "none"
      BY <3>1, <3>2 DEF CallRecords
    <3> QED
      BY <1>1, <3>3 DEF NoCall
  <2> QED
    BY <2>1, <2>2
<1>2. ASSUME NEW p \in Processes, Crash(p) \/ Exit(p)
      PROVE  I(q)
  BY <1>2 DEF Crash, Exit, Ended, Listing, Typed
<1>3. ASSUME NEW p \in Processes, NEW e \in AllSlots, NEW move \in BOOLEAN,
             RequestStop(p, e, move)
      PROVE  I(q)
  <2>1. /\ phase[p] = "running" /\ e \in panel[p].shown /\ call[p] = NoCall
        /\ call' = [call EXCEPT ![p] = [state |-> "connecting", to |-> e.pid, op |-> e.op,
                                        move |-> move]]
    BY <1>3 DEF RequestStop, Free
  <2> QED
    BY <2>1 DEF Listing, Typed
<1>4. ASSUME NEW p \in Processes, Threads(p)
      PROVE  I(q)
  <2>1. /\ call[p].state # "none"
        /\ \E state \in {"waiting", "failed", "ended"} :
               call' = [call EXCEPT ![p] = [call[p] EXCEPT !.state = state]]
    BY <1>4 DEF Threads, Deliver, GiveUp, TakeReply, CallEnds
  <2> QED
    BY <1>1, <2>1
<1>5. ASSUME NEW p \in Processes, StopRequested(p)
      PROVE  I(q)
  <2> DEFINE from == Head(inbox[p]).from
  <2>1. \/ UNCHANGED call
        \/ /\ call[from].state # "none"
           /\ \E state \in {"Stopped", "NotFound"} :
                  call' = [call EXCEPT ![from] = [call[from] EXCEPT !.state = state]]
    BY <1>5 DEF StopRequested
  <2> QED
    BY <1>1, <2>1
<1>6. ASSUME UNCHANGED call PROVE I(q)
  BY <1>6
<1>7. ASSUME NEW p \in Processes,
             \/ Launch(p) \/ Listen(p) \/ WantServer(p) \/ SlotFreed(p) \/ Counted(p)
             \/ Listed(p) \/ OpenPanel(p) \/ ClosePanel(p) \/ Reap(p) \/ ServerStopped(p)
             \/ \E e : Probe(p, e) \/ StopOwn(p, e)
             \/ \E op : ServerExits(p, op)
      PROVE  UNCHANGED call
  BY <1>7 DEF Launch, Listen, WantServer, SlotFreed, Counted, Listed, OpenPanel, ClosePanel,
              Reap, ServerStopped, Probe, StopOwn, ServerExits
<1> QED
  BY <1>2, <1>3, <1>4, <1>5, <1>6, <1>7 DEF RegistryNext, MainLoop, User

\* Who is asked by the requests in the inboxes does not change by a step.
LEMMA AskedStays ==
  ASSUME Listing, RegistryNext, NEW p \in Processes, NEW m, Asked(p, m)
  PROVE  Asked(p, m)'
<1> DEFINE q == m.from
<1>1. q \in Processes
  BY DEF Asked
<1>2. CASE call[q] = NoCall /\ phase[q] = "dead"
  <2>1. phase'[q] = "dead"
    BY <1>1, <1>2, StepIds
  <2>2. call'[q] = NoCall
    BY <1>1, <1>2, StepCalls
  <2> QED
    BY <1>1, <2>1, <2>2 DEF Asked
<1>3. CASE call[q] # NoCall /\ call[q].to = p /\ call[q].op = m.op
  <2>1. CASE call'[q] = NoCall
    BY <1>1, <1>3, <2>1, StepCalls DEF Asked
  <2>2. CASE call'[q] # NoCall
    BY <1>1, <1>3, <2>2, StepCalls DEF Asked
  <2> QED
    BY <2>1, <2>2
<1> QED
  BY <1>2, <1>3 DEF Asked

\* Every request in an inbox is its sender's.
LEMMA StepInboxes ==
  ASSUME Requests, Typed', RegistryNext
  PROVE  Inboxes'
<1> DEFINE Kept(p) == \/ inbox'[p] = inbox[p] \/ inbox'[p] = <<>>
                      \/ inbox[p] # <<>> /\ inbox'[p] = Tail(inbox[p])
                      \/ \E m : /\ m.type = "LspStopRequested" => Asked(p, m)'
                                /\ inbox'[p] = Append(inbox[p], m)
<1>1. Listing /\ Inboxes /\ DOMAIN inbox = Processes
  BY DEF Requests, Inboxes
<1>2. ASSUME DOMAIN inbox' = Processes, \A p \in Processes : Kept(p)
      PROVE  Inboxes'
  <2>1. \A p \in Processes : \A m : Asked(p, m) => Asked(p, m)'
    BY <1>1, AskedStays
  <2> QED
    BY <1>1, <1>2, <2>1, InboxesStay
<1>3. ASSUME UNCHANGED inbox
      PROVE  Inboxes'
  BY <1>1, <1>2, <1>3
<1>4. ASSUME NEW p \in Processes, inbox[p] # <<>>, inbox' = [inbox EXCEPT ![p] = Tail(@)]
      PROVE  Inboxes'
  BY <1>1, <1>2, <1>4
<1>5. ASSUME NEW p \in Processes, NEW m, m.type = "LspStopRequested" => Asked(p, m)',
             inbox' = [inbox EXCEPT ![p] = Append(@, m)]
      PROVE  Inboxes'
  BY <1>1, <1>2, <1>5
<1>6. ASSUME NEW p \in Processes, Crash(p) \/ Exit(p)
      PROVE  Inboxes'
  <2>1. inbox' = [inbox EXCEPT ![p] = <<>>]
    BY <1>6 DEF Crash, Exit, Ended
  <2> QED
    BY <1>1, <1>2, <2>1
<1>7. ASSUME NEW p \in Processes, SlotFreed(p) \/ StopRequested(p) \/ ServerStopped(p)
      PROVE  Inboxes'
  BY <1>4, <1>7 DEF SlotFreed, StopRequested, ServerStopped, Turn, Consumed
<1>8. ASSUME NEW p \in Processes, NEW op, ServerExits(p, op)
      PROVE  Inboxes'
  BY <1>5, <1>8 DEF ServerExits, StoppedEvent
<1>9. ASSUME NEW p \in Processes, NEW outcome, CallEnds(p, outcome)
      PROVE  Inboxes'
  BY <1>3, <1>5, <1>9 DEF CallEnds, FreedEvent
<1>10. ASSUME NEW p \in Processes, GiveUp(p) \/ TakeReply(p)
       PROVE  Inboxes'
  BY <1>9, <1>10 DEF GiveUp, TakeReply
<1>11. ASSUME NEW p \in Processes, Deliver(p)
       PROVE  Inboxes'
  <2>1. CASE CallEnds(p, "failed")
    BY <1>9, <2>1
  <2>2. CASE /\ call' = [call EXCEPT ![p].state = "waiting"]
             /\ inbox' = [inbox EXCEPT ![call[p].to] = Append(@, StopEvent(call[p].op, p))]
    <3>1. call[p] \in CallRecords /\ call[p].to \in Processes
      BY <1>1, <1>11 DEF Deliver, Listing, Typed, NoCall, CallRecords
    <3> PICK to, m : to = call[p].to /\ m = StopEvent(call[p].op, p)
      OBVIOUS
    <3>2. call'[p] = [call[p] EXCEPT !.state = "waiting"]
      BY <1>1, <2>2 DEF Listing, Typed
    <3>3. /\ call'[p].state = "waiting" /\ call'[p].to = call[p].to
          /\ call'[p].op = call[p].op
      BY <3>1, <3>2 DEF CallRecords
    <3>4. Asked(to, m)'
      BY <3>3 DEF Asked, StopEvent, NoCall
    <3> QED
      BY <1>5, <2>2, <3>1, <3>4
  <2> QED
    BY <1>11, <2>1, <2>2 DEF Deliver
<1>12. ASSUME NEW p \in Processes,
             \/ Launch(p) \/ Listen(p) \/ WantServer(p) \/ Counted(p)
             \/ Listed(p) \/ OpenPanel(p) \/ ClosePanel(p) \/ Reap(p)
             \/ \E e : Probe(p, e) \/ StopOwn(p, e) \/ \E move : RequestStop(p, e, move)
      PROVE  UNCHANGED inbox
  BY <1>12 DEF Launch, Listen, WantServer, Counted, Listed, OpenPanel, ClosePanel,
               Reap, Probe, StopOwn, RequestStop
<1> QED
  BY <1>3, <1>6, <1>7, <1>8, <1>10, <1>11, <1>12 DEF RegistryNext, MainLoop, User, Threads

\* Panels show what was started.
LEMMA StepShown ==
  ASSUME Requests, Typed', RegistryNext
  PROVE  ShownStarted'
<1>1. Listing
  BY DEF Requests
<1>2. ASSUME NEW q \in Processes, panel'[q] = panel[q]
      PROVE  \A e \in panel'[q].shown : e.op < nextOp'[e.pid]
  <2> PICK S : S = panel[q].shown
    OBVIOUS
  <2>1. S \in SUBSET Slots /\ Started(S)
    BY <1>1 DEF Requests, ShownStarted, Listing, Typed
  <2>2. Started(S)'
    BY <1>1, <2>1, StartedStays, StepIds
  <2> QED
    BY <1>2, <2>2 DEF Started
<1>3. ASSUME UNCHANGED panel PROVE ShownStarted'
  BY <1>2, <1>3 DEF ShownStarted, Started
<1>4. ASSUME NEW p \in Processes, panel' = [panel EXCEPT ![p] = Closed]
      PROVE  ShownStarted'
  <2>1. \A q \in Processes \ {p} : panel'[q] = panel[q]
    BY <1>4 DEF Requests, Listing, Typed
  <2>2. panel'[p].shown = {}
    BY <1>4 DEF Requests, Listing, Typed, Closed
  <2> QED
    BY <1>2, <2>1, <2>2 DEF ShownStarted, Started
<1>5. ASSUME NEW p \in Processes, Listed(p)
      PROVE  ShownStarted'
  <2>1. \A q \in Processes \ {p} : panel'[q] = panel[q]
    BY <1>5 DEF Listed, Requests, Listing, Typed
  <2>2. panel'[p].shown = scan[p].found /\ UNCHANGED nextOp
    BY <1>5 DEF Listed, Requests, Listing, Typed
  <2>3. Started(scan[p].found)
    BY <1>1, <1>5 DEF Listed, Scanned, Listing, ScansSound, ScanSound
  <2> QED
    BY <1>2, <2>1, <2>2, <2>3 DEF ShownStarted, Started
<1>6. ASSUME NEW p \in Processes,
             \/ Crash(p) \/ Exit(p) \/ ClosePanel(p)
             \/ \E e, move : RequestStop(p, e, move)
      PROVE  panel' = [panel EXCEPT ![p] = Closed]
  BY <1>6 DEF Crash, Exit, Ended, ClosePanel, RequestStop
<1>7. ASSUME NEW p \in Processes,
             \/ Launch(p) \/ Listen(p) \/ WantServer(p) \/ SlotFreed(p) \/ Counted(p)
             \/ OpenPanel(p) \/ Reap(p) \/ StopRequested(p) \/ ServerStopped(p) \/ Threads(p)
             \/ \E e : Probe(p, e) \/ StopOwn(p, e)
             \/ \E op : ServerExits(p, op)
      PROVE  UNCHANGED panel
  BY <1>7 DEF Launch, Listen, WantServer, SlotFreed, Counted, OpenPanel, Reap, StopRequested,
              ServerStopped, Threads, Deliver, GiveUp, TakeReply, Probe, StopOwn, ServerExits
<1> QED
  BY <1>3, <1>4, <1>5, <1>6, <1>7 DEF RegistryNext, MainLoop, User

\* Who hears that a server was stopped finds its slot free.
LEMMA StepStopped ==
  ASSUME Requests, Typed', RegistryNext
  PROVE  StoppedMeansFree'
<1>1. Listing /\ Typed
  BY DEF Requests, Listing
<1>2. ASSUME \A q \in Processes : call'[q].state = "Stopped" => call'[q] = call[q]
      PROVE  StoppedMeansFree'
  BY <1>1, <1>2, StepIds, FreedStaysFree
<1>3. ASSUME NEW p \in Processes, NEW state, state # "Stopped",
             call[p].state # "none",
             call' = [call EXCEPT ![p] = [call[p] EXCEPT !.state = state]]
      PROVE  StoppedMeansFree'
  <2>1. call[p] \in CallRecords
    BY <1>1, <1>3 DEF Typed, NoCall
  <2>2. call'[p].state = state
    BY <1>1, <1>3, <2>1 DEF Typed, CallRecords
  <2> QED
    BY <1>1, <1>2, <1>3, <2>2 DEF Typed
<1>4. ASSUME NEW p \in Processes, Crash(p) \/ Exit(p)
      PROVE  StoppedMeansFree'
  BY <1>1, <1>2, <1>4 DEF Crash, Exit, Ended, Typed, NoCall
<1>5. ASSUME NEW p \in Processes, NEW e, NEW move, RequestStop(p, e, move)
      PROVE  StoppedMeansFree'
  BY <1>1, <1>2, <1>5 DEF RequestStop, Typed
<1>6. ASSUME NEW p \in Processes, Threads(p)
      PROVE  StoppedMeansFree'
  <2>1. /\ call[p].state # "none"
        /\ \E state \in {"waiting", "failed", "ended"} :
               call' = [call EXCEPT ![p] = [call[p] EXCEPT !.state = state]]
    BY <1>6 DEF Threads, Deliver, GiveUp, TakeReply, CallEnds
  <2> QED
    BY <1>3, <2>1
<1>7. ASSUME NEW p \in Processes, StopRequested(p)
      PROVE  StoppedMeansFree'
  <2> DEFINE m == Head(inbox[p])
             from == m.from
  <2>1. Asked(p, m)
    <3>1. inbox[p] # <<>> /\ m.type = "LspStopRequested"
      BY <1>7 DEF StopRequested, Turn
    <3>2. InboxOK(p, inbox[p])
      BY DEF Requests, Inboxes
    <3>3. m \in ToSet(inbox[p])
      BY <3>1, <3>2, ReceiveFrame DEF InboxOK
    <3> QED
      BY <3>1, <3>2, <3>3 DEF InboxOK
  <2>2. from \in Processes
    BY <2>1 DEF Asked
  <2>3. CASE call[from].state = "waiting" /\ m.op \in servers[p]
    <3>1. /\ call[from] \in CallRecords /\ call[from].to = p /\ call[from].op = m.op
      BY <1>1, <2>1, <2>2, <2>3 DEF Asked, Typed, NoCall
    <3>2. /\ call' = [call EXCEPT ![from] = [call[from] EXCEPT !.state = "Stopped"]]
          /\ entries' = entries \ {Slot(p, m.op)}
          /\ servers' = [servers EXCEPT ![p] = @ \ {m.op}]
      BY <1>7, <2>3 DEF StopRequested
    <3>3. call'[from].to = p /\ call'[from].op = m.op
      BY <1>1, <2>2, <3>1, <3>2 DEF Typed, CallRecords
    <3>4. Slot(p, m.op) \notin entries' \cup Running'
      BY <1>1, <3>2 DEF Typed, Running, Slot
    <3>5. ASSUME NEW q \in Processes, q # from, call'[q].state = "Stopped"
          PROVE  Slot(call'[q].to, call'[q].op) \notin entries' \cup Running'
      <4>1. call'[q] = call[q]
        BY <1>1, <3>2, <3>5 DEF Typed
      <4>2. Slot(call[q].to, call[q].op) \notin entries \cup Running
        BY <3>5, <4>1 DEF Requests, StoppedMeansFree
      <4>3. Running' \subseteq Running
        BY <1>1, <3>2 DEF Running, Typed
      <4> QED
        BY <3>2, <4>1, <4>2, <4>3
    <3> QED
      BY <3>3, <3>4, <3>5 DEF StoppedMeansFree
  <2>4. CASE call[from].state = "waiting" /\ m.op \notin servers[p]
    <3>1. call' = [call EXCEPT ![from] = [call[from] EXCEPT !.state = "NotFound"]]
      BY <1>7, <2>4 DEF StopRequested
    <3> QED
      BY <1>3, <2>2, <2>4, <3>1
  <2>5. CASE call[from].state # "waiting"
    BY <1>2, <1>7, <2>5 DEF StopRequested
  <2> QED
    BY <2>3, <2>4, <2>5
<1>8. ASSUME UNCHANGED call PROVE StoppedMeansFree'
  BY <1>2, <1>8
<1>9. ASSUME NEW p \in Processes,
             \/ Launch(p) \/ Listen(p) \/ WantServer(p) \/ SlotFreed(p) \/ Counted(p)
             \/ Listed(p) \/ OpenPanel(p) \/ ClosePanel(p) \/ Reap(p) \/ ServerStopped(p)
             \/ \E e : Probe(p, e) \/ StopOwn(p, e)
             \/ \E op : ServerExits(p, op)
      PROVE  UNCHANGED call
  BY <1>9 DEF Launch, Listen, WantServer, SlotFreed, Counted, Listed, OpenPanel, ClosePanel,
              Reap, ServerStopped, Probe, StopOwn, ServerExits
<1> QED
  BY <1>4, <1>5, <1>6, <1>7, <1>8, <1>9 DEF RegistryNext, MainLoop, User

\* Ids of servers that run and of requests were spent.
LEMMA StepSpent ==
  ASSUME Requests, Typed', RegistryNext
  PROVE  ServersStarted' /\ CallsStarted'
<1>1. Listing /\ Typed
  BY DEF Requests, Listing
<1>2. \A q \in Processes : nextOp[q] \in Nat /\ nextOp'[q] \in Nat /\ nextOp'[q] >= nextOp[q]
  BY <1>1, StepIds DEF Typed
<1>3. ASSUME NEW q \in Processes, NEW op \in servers'[q]
      PROVE  op < nextOp'[q]
  <2>1. op \in Nat
    BY <1>3 DEF Typed
  <2>2. CASE op \in servers[q]
    BY <1>2, <2>1, <2>2 DEF Requests, ServersStarted
  <2> QED
    BY <1>1, <1>3, <2>2, StepIds
<1>4. ASSUME NEW q \in Processes, call'[q] # NoCall
      PROVE  call'[q].op < nextOp'[call'[q].to]
  <2>1. call'[q].to \in Processes /\ call'[q].op \in Nat
    BY <1>4 DEF Typed, CallRecords
  <2>2. call'[q].op < nextOp[call'[q].to]
    <3>1. CASE /\ call[q] # NoCall /\ call'[q].to = call[q].to /\ call'[q].op = call[q].op
      BY <3>1 DEF Requests, CallsStarted
    <3>2. CASE \E e \in panel[q].shown : call'[q].to = e.pid /\ call'[q].op = e.op
      BY <3>2 DEF Requests, ShownStarted, Started
    <3> QED
      BY <1>1, <1>4, <3>1, <3>2, StepCalls
  <2> QED
    BY <1>2, <2>1, <2>2
<1> QED
  BY <1>3, <1>4 DEF ServersStarted, CallsStarted

(* Who hears that a server was stopped finds its slot free (9747-9761),    *)
(* whatever the other process does next: a request is the only one of its  *)
(* process, the reply is to that one, and the id of a server that was      *)
(* stopped is never given out again.                                       *)
THEOREM StoppedAlwaysMeansFree == RegistrySpec => []StoppedMeansFree
<1>1. Requests /\ [RegistryNext]_registryVars => Requests'
  <2>1. ASSUME Requests, RegistryNext PROVE Requests'
    <3>1. Listing' /\ Typed'
      BY <2>1, StepListing DEF Requests, Listing
    <3> QED
      BY <2>1, <3>1, StepInboxes, StepShown, StepStopped, StepSpent DEF Requests
  <2>2. ASSUME Requests, UNCHANGED registryVars PROVE Requests'
    <3>1. Listing'
      BY <2>2, StepListing DEF Requests
    <3>2. Inboxes' /\ CallsStarted' /\ ServersStarted' /\ ShownStarted' /\ StoppedMeansFree'
      BY <2>2 DEF registryVars, Requests, Inboxes, InboxOK, Asked, CallsStarted, ServersStarted,
                  ShownStarted, Started, StoppedMeansFree, Running
    <3> QED
      BY <3>1, <3>2 DEF Requests
  <2> QED
    BY <2>1, <2>2
<1>2. Requests => StoppedMeansFree
  BY DEF Requests
<1> QED
  BY <1>1, <1>2, InitRequests, PTL DEF RegistrySpec

-----------------------------------------------------------------------------
(* The limit.                                                              *)

Seen(p) == scan[p].todo \cup scan[p].condemned \cup scan[p].found

\* While there was no race, every server is listed, whoever counts has seen
\* it or will see it, and there are no more of them than the limit allows.
Limited ==
    /\ Listing
    /\ \A p \in Processes : ~Idle(p) => IsFiniteSet(scan[p].found)
    /\ ~raced => /\ Running \subseteq entries
                 /\ \A p \in Processes : scan[p].goal = "start" => Running \subseteq Seen(p)
                 /\ Limit \in Nat => IsFiniteSet(Running) /\ Cardinality(Running) <= Limit

\* With fewer servers, those that are left listed and seen, no limit breaks.
LEMMA FewerServers ==
  ASSUME Limited, Listing', Running' \subseteq Running, ~raced' => ~raced,
         ~raced' => Running' \subseteq entries',
         \A p \in Processes : ~Idle(p)' => IsFiniteSet(scan'[p].found),
         ~raced' => \A p \in Processes : scan'[p].goal = "start" => Running' \subseteq Seen(p)'
  PROVE  Limited'
<1>1. ASSUME Limit \in Nat, ~raced'
      PROVE  IsFiniteSet(Running') /\ Cardinality(Running') <= Limit
  <2>1. IsFiniteSet(Running) /\ Cardinality(Running) <= Limit
    BY <1>1 DEF Limited
  <2>2. /\ IsFiniteSet(Running') /\ Cardinality(Running') <= Cardinality(Running)
        /\ Cardinality(Running') \in Nat /\ Cardinality(Running) \in Nat
    BY <2>1, FS_Subset, FS_CardinalityType
  <2> QED
    BY <1>1, <2>1, <2>2
<1> QED
  BY <1>1 DEF Limited

\* The servers of one process, or of none, change.
LEMMA ScansKept ==
  ASSUME Limited, Listing', Running' \subseteq Running, UNCHANGED raced,
         \A p \in Processes : scan'[p] \in {scan[p], NoScan},
         Running' \cap entries \subseteq entries'
  PROVE  Limited'
<1>1. ~raced' => Running' \subseteq entries'
  BY DEF Limited
<1>2. \A p \in Processes : ~Idle(p)' => IsFiniteSet(scan'[p].found)
  BY DEF Limited, Idle
<1>3. ~raced' => \A p \in Processes : scan'[p].goal = "start" => Running' \subseteq Seen(p)'
  BY DEF Limited, Seen, NoScan
<1> QED
  BY <1>1, <1>2, <1>3, FewerServers

\* One server more: nobody else counts, or there was a race.
LEMMA OneMore ==
  ASSUME Limited, Listing', NEW p \in Processes, StartServer(p),
         scan' \in {scan, [scan EXCEPT ![p] = NoScan]}, scan'[p] = NoScan,
         ~raced /\ Limit \in Nat => Cardinality(Running) < Limit
  PROVE  Limited'
<1>1. \A q \in Processes : scan'[q] \in {scan[q], NoScan}
  BY DEF Limited, Listing, Typed
<1>2. CASE UNCHANGED <<servers, children, entries, raced>>
  <2>1. UNCHANGED Running
    BY <1>2 DEF Running
  <2> QED
    BY <1>1, <1>2, <2>1, ScansKept
<1>3. CASE /\ servers' = [servers EXCEPT ![p] = @ \cup {nextOp[p]}]
           /\ entries' = entries \cup {Slot(p, nextOp[p])}
           /\ raced' = (raced \/ \E q \in Processes \ {p} : scan[q].goal = "start")
  <2> DEFINE new == Slot(p, nextOp[p])
  <2>1. \A e \in AllSlots : e \in Running' => e \in Running \/ e = new
    <3> SUFFICES ASSUME NEW e \in AllSlots, e.op \in servers'[e.pid], e.op \notin servers[e.pid]
                 PROVE  e = new
      BY DEF Running
    <3>1. e \in Slots
      BY AllSlotsAreSlots
    <3>2. e.pid = p /\ e.op = nextOp[p]
      BY <1>3, <3>1 DEF Limited, Listing, Typed, Slots
    <3> QED
      BY <3>1, <3>2 DEF Slots, Slot
  <2>2. Running' \subseteq Running \cup {new}
    BY <2>1 DEF Running
  <2>3. \A q \in Processes : ~Idle(q)' => IsFiniteSet(scan'[q].found)
    BY <1>1 DEF Limited, Idle
  <2>4. ASSUME ~raced'
        PROVE  /\ Running' \subseteq entries'
               /\ \A q \in Processes : scan'[q].goal # "start"
               /\ Limit \in Nat => IsFiniteSet(Running') /\ Cardinality(Running') <= Limit
    <3>1. ~raced /\ \A q \in Processes \ {p} : scan[q].goal # "start"
      BY <1>3, <2>4
    <3>2. Running' \subseteq entries'
      BY <1>3, <2>2, <3>1 DEF Limited
    <3>3. \A q \in Processes : scan'[q].goal # "start"
      BY <1>1, <3>1 DEF NoScan
    <3>4. ASSUME Limit \in Nat
          PROVE  IsFiniteSet(Running') /\ Cardinality(Running') <= Limit
      <4>1. IsFiniteSet(Running) /\ Cardinality(Running) < Limit /\ Cardinality(Running) \in Nat
        BY <3>1, <3>4, FS_CardinalityType DEF Limited
      <4>2. /\ IsFiniteSet(Running \cup {new})
            /\ Cardinality(Running \cup {new}) \in {Cardinality(Running), Cardinality(Running) + 1}
        BY <4>1, FS_AddElement
      <4>3. /\ IsFiniteSet(Running') /\ Cardinality(Running') \in Nat
            /\ Cardinality(Running') <= Cardinality(Running \cup {new})
        BY <2>2, <4>2, FS_Subset, FS_CardinalityType
      <4> QED
        BY <3>4, <4>1, <4>2, <4>3
    <3> QED
      BY <3>2, <3>3, <3>4
  <2> QED
    BY <2>3, <2>4 DEF Limited
<1>4. CASE raced' = TRUE
  <2>1. \A q \in Processes : ~Idle(q)' => IsFiniteSet(scan'[q].found)
    BY <1>1 DEF Limited, Idle
  <2> QED
    BY <1>4, <2>1 DEF Limited
<1> QED
  BY <1>2, <1>3, <1>4 DEF StartServer

\* A scan begins, or an entry is looked at or reaped.
LEMMA ScanStepsLimited ==
  ASSUME Limited, Listing', NEW p \in Processes,
         \/ Scanning(p, "start") /\ UNCHANGED <<servers, entries, raced>>
         \/ Scanning(p, "panel") /\ UNCHANGED <<servers, entries, raced>>
         \/ Reap(p)
         \/ \E e \in AllSlots : Probe(p, e)
  PROVE  Limited'
<1>1. /\ Listing /\ Typed /\ \A q \in Processes \ {p} : scan'[q] = scan[q]
      /\ UNCHANGED Running
  BY DEF Scanning, Reap, Probe, Limited, Listing, Typed, Running
<1>2. CASE \E goal \in {"start", "panel"} : Scanning(p, goal) /\ UNCHANGED <<servers, entries, raced>>
  <2>1. PICK goal \in {"start", "panel"} :
            Scanning(p, goal) /\ UNCHANGED <<servers, entries, raced>>
    BY <1>2
  <2>2. scan'[p].found = {} /\ scan'[p].todo = entries
    BY <1>1, <2>1 DEF Scanning, Typed
  <2>3. \A q \in Processes : ~Idle(q)' => IsFiniteSet(scan'[q].found)
    BY <1>1, <2>2, FS_EmptySet DEF Limited, Idle
  <2>4. ~raced' => \A q \in Processes : scan'[q].goal = "start" => Running' \subseteq Seen(q)'
    BY <1>1, <2>1, <2>2 DEF Limited, Seen
  <2> QED
    BY <1>1, <2>1, <2>3, <2>4, FewerServers DEF Limited
<1>3. CASE Reap(p)
  <2>1. scan[p] \in ScanRecords
    BY <1>1, <1>3, ScanTyped DEF Reap
  <2>2. /\ scan'[p].todo = scan[p].todo /\ scan'[p].found = scan[p].found
        /\ scan'[p].condemned = {} /\ scan'[p].goal = scan[p].goal /\ ~Idle(p)
    BY <1>1, <1>3, <2>1 DEF Reap, Typed, ScanRecords
  <2>3. ~raced' => ~raced /\ \A e \in scan[p].condemned : e \notin Running
    BY <1>3 DEF Reap, Running
  <2>4. \A q \in Processes : ~Idle(q)' => IsFiniteSet(scan'[q].found)
    BY <1>1, <2>2 DEF Limited, Idle
  <2>5. ~raced' => \A q \in Processes : scan'[q].goal = "start" => Running' \subseteq Seen(q)'
    BY <1>1, <2>2, <2>3 DEF Limited, Seen
  <2>6. ~raced' => Running' \subseteq entries'
    BY <1>1, <1>3, <2>3 DEF Limited, Reap
  <2> QED
    BY <1>1, <2>3, <2>4, <2>5, <2>6, FewerServers
<1>4. ASSUME NEW e \in AllSlots, Probe(p, e)
      PROVE  Limited'
  <2> DEFINE seen == [scan[p] EXCEPT !.todo = @ \ {e}]
  <2>1. scan[p] \in ScanRecords /\ ~Idle(p) /\ UNCHANGED <<entries, raced>>
    BY <1>1, <1>4, ScanTyped DEF Probe
  <2>2. scan'[p] = IF e \notin entries THEN seen
                   ELSE IF e.pid = p \/ Connects(e.pid) THEN [seen EXCEPT !.found = @ \cup {e}]
                   ELSE [seen EXCEPT !.condemned = {e}]
    BY <1>1, <1>4 DEF Probe, Typed
  <2>3. /\ seen.todo = scan[p].todo \ {e} /\ seen.found = scan[p].found /\ seen \in ScanRecords
        /\ seen.condemned = scan[p].condemned /\ seen.goal = scan[p].goal
    BY <2>1 DEF ScanRecords
  <2>4. /\ scan'[p].goal = scan[p].goal /\ scan'[p].found \in {scan[p].found, scan[p].found \cup {e}}
        /\ scan'[p].todo = scan[p].todo \ {e}
        /\ e \in entries => e \in scan'[p].found \cup scan'[p].condemned
        /\ scan[p].condemned = {}
    <3>1. scan[p].condemned = {}
      BY <1>4 DEF Probe
    <3>2. CASE e \notin entries /\ scan'[p] = seen
      BY <2>3, <3>1, <3>2
    <3>3. CASE scan'[p] = [seen EXCEPT !.found = @ \cup {e}]
      <4> HIDE DEF seen
      <4> QED
        BY <2>3, <3>1, <3>3 DEF ScanRecords
    <3>4. CASE scan'[p] = [seen EXCEPT !.condemned = {e}]
      <4> HIDE DEF seen
      <4> QED
        BY <2>3, <3>1, <3>4 DEF ScanRecords
    <3> QED
      BY <2>2, <3>2, <3>3, <3>4
  <2>5. \A q \in Processes : ~Idle(q)' => IsFiniteSet(scan'[q].found)
    <3>1. IsFiniteSet(scan'[p].found)
      BY <2>1, <2>4, FS_AddElement DEF Limited
    <3> QED
      BY <1>1, <3>1 DEF Limited, Idle
  <2>6. ~raced' => \A q \in Processes : scan'[q].goal = "start" => Running' \subseteq Seen(q)'
    BY <1>1, <2>1, <2>4 DEF Limited, Seen
  <2> QED
    BY <1>1, <2>1, <2>5, <2>6, FewerServers DEF Limited
<1> QED
  BY <1>2, <1>3, <1>4

\* A launch keeps the limit, or there is none.
LEMMA EnsureLimited ==
  ASSUME Limited, Listing', NEW p \in Processes, Idle(p), EnsureServer(p)
  PROVE  Limited'
<1>1. CASE UNCHANGED <<scan, nextOp, servers, children, entries, raced>>
  <2>1. UNCHANGED Running
    BY <1>1 DEF Running
  <2> QED
    BY <1>1, <2>1, ScansKept
<1>2. CASE Scanning(p, "start") /\ UNCHANGED <<nextOp, servers, children, entries, raced>>
  BY <1>2, ScanStepsLimited
<1>3. CASE Limit = NoLimit /\ StartServer(p) /\ UNCHANGED scan
  BY <1>3, OneMore, RegistryAssumption DEF Idle
<1> QED
  BY <1>1, <1>2, <1>3 DEF EnsureServer

\* Every step keeps the limit, unless there was a race.
LEMMA StepLimited ==
  ASSUME Limited, [RegistryNext]_registryVars
  PROVE  Limited'
<1>1. Listing /\ Typed /\ Listing'
  BY StepListing DEF Limited, Listing
<1>2. ASSUME UNCHANGED <<entries, servers, scan, raced>>
      PROVE  Limited'
  <2>1. UNCHANGED Running
    BY <1>2 DEF Running
  <2> QED
    BY <1>1, <1>2, <2>1, ScansKept
<1>3. ASSUME NEW p \in Processes, Crash(p) \/ Exit(p)
      PROVE  Limited'
  <2>1. /\ servers' = [servers EXCEPT ![p] = {}] /\ scan' = [scan EXCEPT ![p] = NoScan]
        /\ entries' = entries \/ entries' = {e \in entries : e.pid # p}
        /\ UNCHANGED raced
    BY <1>3 DEF Crash, Exit, Ended
  <2>2. \A e \in Running' : e.pid # p /\ e \in Running
    BY <1>1, <2>1, AllSlotsAreSlots DEF Running, Typed, Slots
  <2>3. \A q \in Processes : scan'[q] \in {scan[q], NoScan}
    BY <1>1, <2>1 DEF Typed
  <2> QED
    BY <1>1, <2>1, <2>2, <2>3, ScansKept
<1>4. ASSUME NEW p \in Processes, WantServer(p) \/ SlotFreed(p)
      PROVE  Limited'
  <2>1. Idle(p) /\ EnsureServer(p)
    BY <1>4 DEF WantServer, SlotFreed, Turn, Free
  <2> QED
    BY <1>1, <2>1, EnsureLimited
<1>5. ASSUME NEW p \in Processes, Counted(p)
      PROVE  Limited'
  <2>1. /\ ~Idle(p) /\ scan[p].goal = "start" /\ scan[p].todo = {} /\ scan[p].condemned = {}
        /\ scan' = [scan EXCEPT ![p] = NoScan] /\ scan'[p] = NoScan
    BY <1>1, <1>5 DEF Counted, Scanned, Typed
  <2>2. CASE UNCHANGED <<nextOp, servers, children, entries, raced>>
    <3>1. UNCHANGED Running
      BY <2>2 DEF Running
    <3>2. \A q \in Processes : scan'[q] \in {scan[q], NoScan}
      BY <1>1, <2>1 DEF Typed
    <3> QED
      BY <1>1, <2>2, <3>1, <3>2, ScansKept
  <2>3. CASE Cardinality(scan[p].found) < Limit /\ StartServer(p)
    <3>1. ASSUME ~raced, Limit \in Nat
          PROVE  Cardinality(Running) < Limit
      <4>1. Running \subseteq scan[p].found /\ IsFiniteSet(scan[p].found)
        BY <2>1, <3>1 DEF Limited, Seen
      <4>2. /\ Cardinality(Running) <= Cardinality(scan[p].found)
            /\ Cardinality(Running) \in Nat /\ Cardinality(scan[p].found) \in Nat
        BY <4>1, FS_Subset, FS_CardinalityType
      <4> QED
        BY <2>3, <3>1, <4>2
    <3> QED
      BY <1>1, <2>1, <2>3, <3>1, OneMore
  <2> QED
    BY <1>5, <2>2, <2>3 DEF Counted
<1>6. ASSUME NEW p \in Processes, Reap(p) \/ \E e \in AllSlots : Probe(p, e)
      PROVE  Limited'
  BY <1>1, <1>6, ScanStepsLimited
<1>7. ASSUME NEW p \in Processes, OpenPanel(p)
      PROVE  Limited'
  BY <1>1, <1>7, ScanStepsLimited DEF OpenPanel
<1>8. ASSUME NEW p \in Processes, Listed(p)
      PROVE  Limited'
  <2>1. UNCHANGED Running /\ \A q \in Processes : scan'[q] \in {scan[q], NoScan}
    BY <1>1, <1>8 DEF Listed, Running, Typed
  <2> QED
    BY <1>1, <1>8, <2>1, ScansKept DEF Listed
<1>9. ASSUME NEW p \in Processes, NEW op,
             servers' = [servers EXCEPT ![p] = @ \ {op}],
             entries' = entries \ {Slot(p, op)} \/ (op \notin servers[p] /\ UNCHANGED entries)
      PROVE  /\ Running' \subseteq Running
             /\ Running' \cap entries \subseteq entries'
  <2>1. Running' \subseteq Running
    BY <1>1, <1>9 DEF Running, Typed
  <2>2. Slot(p, op) \notin Running'
    BY <1>1, <1>9 DEF Running, Typed, Slot
  <2> QED
    BY <1>9, <2>1, <2>2
<1>10. ASSUME NEW p \in Processes, StopRequested(p) \/ ServerStopped(p)
       PROVE  Limited'
  <2> DEFINE op == Head(inbox[p]).op
  <2>1. /\ servers' = [servers EXCEPT ![p] = @ \ {op}]
        /\ entries' = entries \ {Slot(p, op)} \/ (op \notin servers[p] /\ UNCHANGED entries)
        /\ UNCHANGED <<scan, raced>>
    <3>1. CASE StopRequested(p)
      BY <3>1 DEF StopRequested
    <3>2. CASE ServerStopped(p)
      BY <3>2 DEF ServerStopped
    <3> QED
      BY <1>10, <3>1, <3>2
  <2> QED
    BY <1>1, <1>9, <2>1, ScansKept
<1>11. ASSUME NEW p \in Processes, NEW e \in AllSlots, StopOwn(p, e)
       PROVE  Limited'
  <2>1. /\ e = Slot(p, e.op) /\ servers' = [servers EXCEPT ![p] = @ \ {e.op}]
        /\ entries' = entries \ {Slot(p, e.op)} /\ UNCHANGED raced
    <3>1. e \in Slots /\ e.pid = p
      BY <1>11, AllSlotsAreSlots DEF StopOwn
    <3>2. e = Slot(p, e.op)
      BY <3>1 DEF Slots, Slot
    <3> QED
      BY <1>11, <3>2 DEF StopOwn
  <2>2. /\ Running' \subseteq Running /\ Running' \cap entries \subseteq entries'
    BY <1>9, <2>1
  <2>3. scan'[p].goal = "panel" /\ scan'[p].found = {} /\ \A q \in Processes \ {p} : scan'[q] = scan[q]
    BY <1>1, <1>11 DEF StopOwn, Typed
  <2>4. \A q \in Processes : ~Idle(q)' => IsFiniteSet(scan'[q].found)
    BY <2>3, FS_EmptySet DEF Limited, Idle
  <2>5. ~raced' => \A q \in Processes : scan'[q].goal = "start" => Running' \subseteq Seen(q)'
    BY <2>1, <2>2, <2>3 DEF Limited, Seen
  <2> QED
    BY <1>1, <2>1, <2>2, <2>4, <2>5, FewerServers DEF Limited
<1>12. ASSUME NEW p \in Processes,
             \/ Launch(p) \/ Listen(p) \/ ClosePanel(p) \/ Threads(p)
             \/ \E e, move : RequestStop(p, e, move)
             \/ \E op : ServerExits(p, op)
      PROVE  UNCHANGED <<entries, servers, scan, raced>>
  BY <1>12 DEF Launch, Listen, ClosePanel, Threads, Deliver, GiveUp, TakeReply, RequestStop,
               ServerExits
<1>13. CASE UNCHANGED registryVars
  BY <1>2, <1>13 DEF registryVars
<1> QED
  BY <1>2, <1>3, <1>4, <1>5, <1>6, <1>7, <1>8, <1>10, <1>11, <1>12, <1>13
     DEF RegistryNext, MainLoop, User

(* More servers than the limit run only after one of the two races: a      *)
(* server was started while another process counted, or an entry was       *)
(* removed whose server ran (3084-3090 and 157-177).                       *)
THEOREM LimitAlwaysHoldsUnlessRaced == RegistrySpec => []LimitHoldsUnlessRaced
<1>1. RegistryInit => Limited
  <2> SUFFICES ASSUME RegistryInit PROVE Limited
    OBVIOUS
  <2>1. Running = {} /\ \A p \in Processes : Idle(p) /\ scan[p].goal # "start"
    <3>1. \A e \in AllSlots : e.op \notin servers[e.pid]
      BY AllSlotsAreSlots DEF RegistryInit, Slots
    <3> QED
      BY <3>1 DEF RegistryInit, Running, Idle, NoScan
  <2> QED
    BY <2>1, InitListing, FS_EmptySet DEF Limited
<1>2. Limited /\ [RegistryNext]_registryVars => Limited'
  BY StepLimited
<1>3. Limited => LimitHoldsUnlessRaced
  BY RegistryAssumption DEF Limited, LimitHoldsUnlessRaced
<1> QED
  BY <1>1, <1>2, <1>3, PTL DEF RegistrySpec

-----------------------------------------------------------------------------
\* The records of a server and of what is behind its pipes.
ServerShape(s) ==
    /\ s = [id |-> s.id, initialized |-> s.initialized, requestId |-> s.requestId,
            pending |-> s.pending, version |-> s.version]
    /\ s.id \in Ids /\ s.requestId \in Nat
PeerShape(p) ==
    p = [alive |-> p.alive, asked |-> p.asked, docs |-> p.docs, confused |-> p.confused]

Shapes ==
    /\ nextId \in Nat
    /\ srv = NoServer \/ (ServerShape(srv) /\ srv.id < nextId)
    /\ DOMAIN wire = Ids /\ \A i \in Ids : Channel(wire[i])
    /\ DOMAIN peer = Ids /\ \A i \in Ids : PeerShape(peer[i])
    /\ Channel(events)

\* Request q was written to server i: it is on the way there, taken for work
\* or answered.
AtLarge(i, q) ==
    \/ q \in ToSet(wire[i]) /\ q.method = "request"
    \/ q \in peer[i].asked
    \/ \E e \in ToSet(events) : e.type = "LspResponse" /\ e.server = i /\ e.request = q

\* Nothing was asked of servers that were not started.
Unasked == \A i \in Ids : i >= nextId => \A q : ~AtLarge(i, q)

\* What the server at hand was asked has an id of its own, and an entry with
\* that id is the request's.
Entered(s, q) ==
    /\ q.id \in 1 .. s.requestId
    /\ \A r \in s.pending : r.id = q.id => r.kind = q.kind /\ r.doc = q.doc
Traced ==
    srv # NoServer =>
        /\ \A r \in srv.pending : r.id \in 1 .. srv.requestId
        /\ \A q : AtLarge(srv.id, q) => Entered(srv, q)

\* An answer names its request.
Labelled == \A e \in ToSet(events) :
    /\ e.server \in Ids
    /\ e.type = "LspResponse" => e.id = e.request.id

Traffic == Shapes /\ Unasked /\ Traced /\ Labelled

-----------------------------------------------------------------------------
\* A server's id is not that of no server.
LEMMA ServerIds == MaxStarts \in Nat \ {0} /\ \A i \in Ids : i \in Nat \ {0}
  BY ClientAssumption DEF Ids

\* Nothing was asked at first.
LEMMA InitTraffic == ClientInit => Traffic
<1> SUFFICES ASSUME ClientInit PROVE Traffic
  OBVIOUS
<1>1. PICK start \in Starts : /\ srv = start.from.srv /\ nextId = start.from.next
                              /\ peer = start.from.peer
  BY DEF ClientInit
<1>2. \A i \in Ids : wire[i] = <<>>
  BY DEF ClientInit
<1>3. ToSet(events) = {} /\ Channel(events) /\ \A i \in Ids : Channel(wire[i]) /\ ToSet(wire[i]) = {}
  BY <1>2, EmptyChannel DEF ClientInit
<1>4. /\ DOMAIN peer = Ids /\ \A i \in Ids : PeerShape(peer[i]) /\ peer[i].asked = {}
      /\ nextId \in Nat
      /\ srv = NoServer \/ (ServerShape(srv) /\ srv.id < nextId /\ srv.pending = {})
  <2>1. CASE start.from = Empty
    <3>1. srv = NoServer /\ nextId = 1 /\ peer = [i \in Ids |-> NewPeer]
      BY <1>1, <2>1 DEF Empty
    <3>2. PeerShape(NewPeer) /\ NewPeer.asked = {}
      BY DEF NewPeer, PeerShape
    <3> QED
      BY <3>1, <3>2
  <2>2. CASE \E t \in Tabs, d \in Docs : start.from = Begun(t, d, start.from.tab[t].text)
    <3>0. PICK t \in Tabs, d \in Docs : \E text : start.from = Begun(t, d, text)
      BY <2>2
    <3>1. PICK text : start.from = Begun(t, d, text)
      BY <3>0
    <3>2. /\ srv = [NewServer(1) EXCEPT !.initialized = TRUE, !.version[d] = 1]
          /\ nextId = 2
          /\ peer = [i \in Ids |-> IF i # 1 THEN NewPeer ELSE
                        [NewPeer EXCEPT !.alive = TRUE,
                                        !.docs[d] = [open |-> TRUE, version |-> 1, text |-> text]]]
      BY <1>1, <3>1 DEF Begun
    <3>3. 1 \in Ids
      BY ServerIds DEF Ids
    <3>4. ServerShape(srv) /\ srv.id = 1 /\ srv.pending = {}
      BY <3>2, <3>3 DEF NewServer, ServerShape
    <3>5. \A i \in Ids : PeerShape(peer[i]) /\ peer[i].asked = {}
      BY <3>2 DEF NewPeer, PeerShape
    <3> QED
      BY <3>2, <3>4, <3>5
  <2> QED
    BY <2>1, <2>2, ClientAssumption
<1>5. Shapes
  BY <1>3, <1>4 DEF Shapes, ClientInit
<1>6. \A i \in Ids : \A q : ~AtLarge(i, q)
  BY <1>3, <1>4 DEF AtLarge
<1>7. Unasked /\ Traced /\ Labelled
  BY <1>3, <1>4, <1>6 DEF Unasked, Traced, Labelled, ServerShape
<1> QED
  BY <1>5, <1>7 DEF Traffic

-----------------------------------------------------------------------------
(* Steps that ask nothing.                                                 *)

\* Server s is the one there is, with fewer entries, or one that was not
\* started before.
Follows(s) ==
    \/ s = NoServer
    \/ /\ ServerShape(s) /\ srv # NoServer
       /\ s.id = srv.id /\ s.requestId = srv.requestId /\ s.pending \subseteq srv.pending
    \/ /\ ServerShape(s) /\ srv = NoServer
       /\ s.id = nextId /\ s.pending = {}

\* If nothing is asked, requests stay traced.
LEMMA TrafficStays ==
  ASSUME Traffic, Shapes', Labelled', Follows(srv'), nextId' >= nextId,
         \A i \in Ids : \A q : AtLarge(i, q)' => AtLarge(i, q)
  PROVE  Traffic'
<1>1. Unasked'
  BY ServerIds DEF Unasked, Traffic, Shapes
<1>2. Traced'
  <2> SUFFICES ASSUME srv' # NoServer
               PROVE  /\ \A r \in srv'.pending : r.id \in 1 .. srv'.requestId
                      /\ \A q : AtLarge(srv.id, q)' => Entered(srv', q)
    BY DEF Traced
  <2>1. CASE /\ ServerShape(srv') /\ srv # NoServer
             /\ srv'.id = srv.id /\ srv'.requestId = srv.requestId
             /\ srv'.pending \subseteq srv.pending
    BY <2>1 DEF Traffic, Traced, Entered, Shapes, ServerShape
  <2>2. CASE /\ ServerShape(srv') /\ srv = NoServer
             /\ srv'.id = nextId /\ srv'.pending = {}
    <3>1. \A q : ~AtLarge(srv'.id, q)
      BY <2>2 DEF Traffic, Unasked, Shapes, ServerShape
    <3>2. \A q : ~AtLarge(srv.id, q)'
      BY <2>2, <3>1 DEF ServerShape
    <3> QED
      BY <2>2, <3>2
  <2> QED
    BY <2>1, <2>2 DEF Follows
<1> QED
  BY <1>1, <1>2 DEF Traffic

\* Events that are read do not come again.
LEMMA EventRead ==
  ASSUME Traffic, events' = events \/ (events # <<>> /\ events' = Tail(events))
  PROVE  /\ Channel(events') /\ ToSet(events') \subseteq ToSet(events)
         /\ Labelled'
<1>1. Channel(events') /\ ToSet(events') \subseteq ToSet(events)
  BY ReceiveFrame DEF Traffic, Shapes
<1>2. Labelled'
  BY <1>1 DEF Traffic, Labelled
<1> QED
  BY <1>1, <1>2

\* What a step leaves to the server, and sends it, without asking anything.
Quiet(e) ==
    /\ Follows(e.srv)
    /\ Channel(e.out) /\ \A m \in ToSet(e.out) : m.method # "request"

\* What it was asked does not depend on whether it runs.
LEMMA PeerLives ==
  ASSUME NEW p, PeerShape(p), NEW b
  PROVE  PeerShape([p EXCEPT !.alive = b]) /\ [p EXCEPT !.alive = b].asked = p.asked
<1>1. [p EXCEPT !.alive = b] = [alive |-> b, asked |-> p.asked, docs |-> p.docs,
                                confused |-> p.confused]
  BY DEF PeerShape
<1> QED
  BY <1>1 DEF PeerShape

\* What a server was asked is a part of its own.
LEMMA PeerWith ==
  ASSUME NEW p, PeerShape(p), NEW a
  PROVE  PeerShape([p EXCEPT !.asked = a]) /\ [p EXCEPT !.asked = a].asked = a
<1>1. [p EXCEPT !.asked = a] = [alive |-> p.alive, asked |-> a, docs |-> p.docs,
                                confused |-> p.confused]
  BY DEF PeerShape
<1> QED
  BY <1>1 DEF PeerShape

\* A message about a document asks nothing.
LEMMA PeerTold ==
  ASSUME NEW p, PeerShape(p), NEW m
  PROVE  PeerShape(Told(p, m)) /\ Told(p, m).asked = p.asked
<1>1. PICK docs, confused : Told(p, m) = [p EXCEPT !.docs = docs, !.confused = confused]
  BY DEF Told
<1>2. Told(p, m) = [alive |-> p.alive, asked |-> p.asked, docs |-> docs, confused |-> confused]
  BY <1>1 DEF PeerShape
<1> QED
  BY <1>2 DEF PeerShape

\* What ensure_lsp_server_running leaves keeps requests traced.
LEMMA BecomesKeeps ==
  ASSUME Traffic, NEW e, Quiet(e), Becomes(e),
         events' = events \/ (events # <<>> /\ events' = Tail(events))
  PROVE  Traffic'
<1>1. /\ Channel(events') /\ ToSet(events') \subseteq ToSet(events) /\ Labelled'
  BY EventRead
<1>2. srv' = e.srv
  BY DEF Becomes
<1>3. /\ DOMAIN wire' = Ids
      /\ \A i \in Ids : /\ Channel(wire'[i])
                        /\ \A m \in ToSet(wire'[i]) : m \in ToSet(wire[i]) \/ m.method # "request"
  <2>1. CASE e.srv = NoServer
    BY <2>1 DEF Becomes, Traffic, Shapes
  <2>2. CASE e.srv # NoServer
    <3>1. wire' = [wire EXCEPT ![e.srv.id] = wire[e.srv.id] \o e.out]
      BY <2>2 DEF Becomes
    <3>2. \A i \in Ids : /\ Channel(wire[i] \o e.out)
                         /\ ToSet(wire[i] \o e.out) = ToSet(wire[i]) \cup ToSet(e.out)
      BY JoinChannels DEF Quiet, Traffic, Shapes
    <3>3. \A i \in Ids : wire'[i] = wire[i] \/ wire'[i] = wire[i] \o e.out
      BY <3>1 DEF Traffic, Shapes
    <3>4. DOMAIN wire' = Ids
      BY <3>1 DEF Traffic, Shapes
    <3>5. \A i \in Ids : Channel(wire[i])
      BY DEF Traffic, Shapes
    <3>6. \A m \in ToSet(e.out) : m.method # "request"
      BY DEF Quiet
    <3> QED
      BY <3>2, <3>3, <3>4, <3>5, <3>6
  <2> QED
    BY <2>1, <2>2
<1>4. /\ DOMAIN peer' = Ids
      /\ \A i \in Ids : PeerShape(peer'[i]) /\ peer'[i].asked = peer[i].asked
  <2>1. DOMAIN peer = Ids /\ \A i \in Ids : PeerShape(peer[i])
    BY DEF Traffic, Shapes
  <2> DEFINE Woken(p) == [p EXCEPT !.alive = TRUE]
  <2>2. \A i \in Ids : PeerShape(Woken(peer[i])) /\ Woken(peer[i]).asked = peer[i].asked
    BY <2>1, PeerLives
  <2>3. peer' = peer \/ peer' = [peer EXCEPT ![nextId] = Woken(peer[nextId])]
    BY DEF Becomes
  <2> HIDE DEF Woken
  <2>4. /\ DOMAIN peer' = Ids
        /\ \A i \in Ids : peer'[i] = peer[i] \/ peer'[i] = Woken(peer[i])
    BY <2>1, <2>3
  <2> QED
    BY <2>1, <2>2, <2>4
<1>5. /\ nextId' \in Nat /\ nextId' >= nextId
      /\ srv' = NoServer \/ (ServerShape(srv') /\ srv'.id < nextId')
  <2>1. nextId \in Nat /\ (srv # NoServer => srv.id < nextId)
    BY DEF Traffic, Shapes
  <2>2. CASE srv = NoServer /\ e.srv # NoServer
    <3>1. nextId' = nextId + 1
      BY <2>2 DEF Becomes
    <3> QED
      BY <1>2, <2>1, <2>2, <3>1 DEF Quiet, Follows
  <2>3. CASE ~(srv = NoServer /\ e.srv # NoServer)
    <3>1. nextId' = nextId
      BY <2>3 DEF Becomes
    <3> QED
      BY <1>2, <2>1, <2>3, <3>1 DEF Quiet, Follows
  <2> QED
    BY <2>2, <2>3
<1>6. Shapes'
  BY <1>1, <1>3, <1>4, <1>5 DEF Shapes
<1>7. \A i \in Ids : \A q : AtLarge(i, q)' => AtLarge(i, q)
  BY <1>1, <1>3, <1>4 DEF AtLarge
<1> QED
  BY <1>1, <1>2, <1>5, <1>6, <1>7, TrafficStays DEF Quiet

\* Starting a server asks nothing, and neither does a notification.
LEMMA EnsuredQuiet == ASSUME Traffic, NEW e \in Ensured PROVE Quiet(e)
<1>1. CASE srv # NoServer /\ e = [srv |-> srv, error |-> startError, out |-> <<>>]
  BY <1>1, EmptyChannel DEF Quiet, Follows, Traffic, Shapes
<1>2. CASE srv = NoServer /\ e.srv = NoServer /\ e.out = <<>>
  BY <1>2, EmptyChannel DEF Quiet, Follows
<1>3. CASE srv = NoServer /\ nextId \in Ids
           /\ e = [srv |-> NewServer(nextId), error |-> FALSE, out |-> <<Initialize>>]
  <2>1. ServerShape(NewServer(nextId)) /\ NewServer(nextId).id = nextId
        /\ NewServer(nextId).pending = {}
    BY <1>3 DEF NewServer, ServerShape
  <2>2. Channel(e.out) /\ ToSet(e.out) = {Initialize} /\ Initialize.method # "request"
    BY <1>3, OneFrame DEF Initialize
  <2> QED
    BY <1>3, <2>1, <2>2 DEF Quiet, Follows
<1> QED
  BY <1>1, <1>2, <1>3 DEF Ensured

\* The same for didOpen and didChange.
LEMMA NotifiedQuiet ==
  ASSUME Traffic, NEW srv0, NEW error0, NEW out0,
         Quiet([srv |-> srv0, error |-> error0, out |-> out0]), NEW d, NEW text
  PROVE  Quiet(Notified([srv |-> srv0, error |-> error0, out |-> out0], d, text))
<1> DEFINE e == [srv |-> srv0, error |-> error0, out |-> out0]
           n == Notified(e, d, text)
           v == srv0.version[d]
           m == IF v = 0 THEN DidOpen(d, text) ELSE DidChange(d, v + 1, text)
<1>1. CASE srv0 = NoServer
  BY <1>1 DEF Notified
<1>2. CASE srv0 # NoServer
  <2>1. n = [e EXCEPT !.srv.version[d] = v + 1, !.out = Append(out0, m)]
    BY <1>2 DEF Notified
  <2>2. n.out = Append(out0, m) /\ n.srv = [srv0 EXCEPT !.version[d] = v + 1]
    BY <2>1
  <2>3. Channel(out0) /\ (\A x \in ToSet(out0) : x.method # "request") /\ Follows(srv0)
    BY DEF Quiet
  <2>4. m.method # "request"
    BY DEF DidOpen, DidChange
  <2>5. Channel(n.out) /\ \A x \in ToSet(n.out) : x.method # "request"
    <3> HIDE DEF n, m
    <3> QED
      BY <2>2, <2>3, <2>4, SendFrame
  <2>6. Follows(n.srv)
    <3>1. ServerShape(srv0)
      BY <1>2, <2>3 DEF Follows
    <3>2. ServerShape(n.srv) /\ n.srv.id = srv0.id /\ n.srv.requestId = srv0.requestId
          /\ n.srv.pending = srv0.pending
      BY <2>2, <3>1 DEF ServerShape
    <3> HIDE DEF n
    <3> QED
      BY <1>2, <2>3, <3>2 DEF Follows
  <2> QED
    BY <2>5, <2>6 DEF Quiet
<1> QED
  BY <1>1, <1>2

\* Starting a server and telling it of a text asks nothing.
LEMMA EnsuredNotified ==
  ASSUME Traffic, NEW e \in Ensured, NEW d, NEW text
  PROVE  Quiet(Notified(e, d, text))
<1>1. e = [srv |-> e.srv, error |-> e.error, out |-> e.out]
  BY DEF Ensured
<1>2. Quiet(e)
  BY EnsuredQuiet
<1> QED
  BY <1>1, <1>2, NotifiedQuiet

\* A message that is no request.
LEMMA TellKeeps ==
  ASSUME Traffic, NEW m, m.method # "request", Tell(m), srv # NoServer,
         ServerShape(srv'), srv'.id = srv.id, srv'.requestId = srv.requestId,
         srv'.pending = srv.pending, UNCHANGED <<peer, nextId>>,
         events' = events \/ (events # <<>> /\ events' = Tail(events))
  PROVE  Traffic'
<1>1. /\ Channel(events') /\ ToSet(events') \subseteq ToSet(events) /\ Labelled'
  BY EventRead
<1>2. /\ DOMAIN wire' = Ids
      /\ \A i \in Ids : Channel(wire'[i]) /\ ToSet(wire'[i]) \subseteq ToSet(wire[i]) \cup {m}
  <2>1. \A i \in Ids : wire'[i] = wire[i] \/ wire'[i] = Append(wire[i], m)
    BY DEF Tell, Traffic, Shapes
  <2>2. \A i \in Ids : Channel(wire[i]) /\ Channel(Append(wire[i], m))
                       /\ ToSet(Append(wire[i], m)) = ToSet(wire[i]) \cup {m}
    BY SendFrame DEF Traffic, Shapes
  <2> QED
    BY <2>1, <2>2 DEF Tell, Traffic, Shapes
<1>3. Shapes'
  BY <1>1, <1>2 DEF Shapes, Traffic
<1>4. \A i \in Ids : \A q : AtLarge(i, q)' => AtLarge(i, q)
  BY <1>1, <1>2 DEF AtLarge
<1>5. Follows(srv') /\ nextId' >= nextId
  BY DEF Follows, Traffic, Shapes
<1> QED
  BY <1>1, <1>3, <1>4, <1>5, TrafficStays

\* What does not reach the server: no server any more, or one with fewer
\* entries.
LEMMA ReadKeeps ==
  ASSUME Traffic, UNCHANGED <<wire, peer, nextId>>,
         srv' = srv \/ srv' = NoServer
         \/ (srv # NoServer /\ ServerShape(srv') /\ srv'.id = srv.id
             /\ srv'.requestId = srv.requestId /\ srv'.pending \subseteq srv.pending),
         events' = events \/ (events # <<>> /\ events' = Tail(events))
  PROVE  Traffic'
<1>1. /\ Channel(events') /\ ToSet(events') \subseteq ToSet(events) /\ Labelled'
  BY EventRead
<1>2. Shapes'
  BY <1>1 DEF Shapes, Traffic
<1>3. \A i \in Ids : \A q : AtLarge(i, q)' => AtLarge(i, q)
  BY <1>1 DEF AtLarge
<1>4. Follows(srv') /\ nextId' >= nextId
  BY DEF Follows, Traffic, Shapes
<1> QED
  BY <1>1, <1>2, <1>3, <1>4, TrafficStays

\* Taking the entry out of pending.
LEMMA AnsweredShape ==
  ASSUME Traffic, NEW event, srv # NoServer
  PROVE  LET s == Answered(event)
         IN  /\ ServerShape(s) /\ s.id = srv.id /\ s.requestId = srv.requestId
             /\ s.pending \subseteq srv.pending
<1>1. ServerShape(srv)
  BY DEF Traffic, Shapes
<1>2. Answered(event) = [id |-> srv.id, initialized |-> srv.initialized,
                         requestId |-> srv.requestId,
                         pending |-> srv.pending \ PendingEntry(event), version |-> srv.version]
  BY <1>1 DEF Answered, ServerShape
<1> QED
  BY <1>1, <1>2 DEF ServerShape

-----------------------------------------------------------------------------
(* The steps.                                                              *)

\* Opening a file, a key and a definition tell the server of a text.
LEMMA NotifyingSteps ==
  ASSUME Traffic,
         \/ \E d \in Docs, t \in Tabs : OpenFile(d, t)
         \/ \E t \in Tabs : Keystroke(t)
         \/ ApplyDefinition
  PROVE  Traffic'
<1>1. ASSUME NEW d \in Docs, NEW t \in Tabs, OpenFile(d, t) PROVE Traffic'
  <2>1. PICK u \in Tabs, ensured \in Ensured : Becomes(Notified(ensured, d, tab'[u].text))
    BY <1>1 DEF OpenFile, NotifyOpen
  <2>2. PICK e : e = Notified(ensured, d, tab'[u].text)
    OBVIOUS
  <2>3. Quiet(e)
    BY <2>2, EnsuredNotified
  <2> QED
    BY <1>1, <2>1, <2>2, <2>3, BecomesKeeps DEF OpenFile
<1>2. ASSUME NEW t \in Tabs, Keystroke(t) PROVE Traffic'
  <2> DEFINE choices == IF startError THEN {[srv |-> srv, error |-> TRUE, out |-> <<>>]}
                        ELSE Ensured
  <2>1. PICK text : \E ensured \in choices : Becomes(Notified(ensured, tab[t].doc, text))
    BY <1>2 DEF Keystroke
  <2>4. PICK ensured \in choices : Becomes(Notified(ensured, tab[t].doc, text))
    BY <2>1
  <2>2. Quiet([srv |-> srv, error |-> TRUE, out |-> <<>>])
    BY EmptyChannel DEF Quiet, Follows, Traffic, Shapes
  <2>3. Quiet(Notified(ensured, tab[t].doc, text))
    BY <2>2, <2>4, EnsuredNotified, NotifiedQuiet
  <2> QED
    BY <1>2, <2>3, <2>4, BecomesKeeps DEF Keystroke
<1>3. CASE ApplyDefinition
  <2> DEFINE event == Head(events)
             answered == [srv |-> Answered(event), error |-> startError, out |-> <<>>]
  <2>1. PICK text : Becomes(Notified(answered, event.to, text))
    BY <1>3 DEF ApplyDefinition
  <2>2. /\ events # <<>> /\ events' = Tail(events) /\ Expected(event)
        /\ event \in ToSet(events) /\ event.type = "LspResponse"
    BY <1>3, ReceiveFrame DEF ApplyDefinition, EventIs, PendingAs, Traffic, Shapes
  <2>3. srv # NoServer
    BY <2>2, ServerIds DEF Expected, Traffic, Labelled, NoServer
  <2>4. Quiet(answered)
    BY <2>3, AnsweredShape, EmptyChannel DEF Quiet, Follows
  <2>5. Quiet(Notified(answered, event.to, text))
    BY <2>4, NotifiedQuiet
  <2> QED
    BY <2>1, <2>2, <2>5, BecomesKeeps
<1> QED
  BY <1>1, <1>2, <1>3

\* A question has an id that no earlier one at this server has.
LEMMA AskStep == ASSUME Traffic, NEW t \in Tabs, NEW kind \in Kinds, Ask(t, kind) PROVE Traffic'
<1> DEFINE id == srv.requestId + 1
           d == tab[t].doc
           q0 == Request(id, kind, d)
           entry == [id |-> id, kind |-> kind, doc |-> d]
<1>1. ServerShape(srv) /\ srv # NoServer /\ srv.id < nextId /\ srv.id \in Ids
  BY DEF Ask, Traffic, Shapes, ServerShape
<1>2. /\ srv' = [id |-> srv.id, initialized |-> srv.initialized, requestId |-> id,
                 pending |-> srv.pending \cup {entry}, version |-> srv.version]
      /\ UNCHANGED <<nextId, peer, events>>
  BY <1>1 DEF Ask, ServerShape
<1>3. wire' = [wire EXCEPT ![srv.id] = Append(wire[srv.id], q0)]
  BY DEF Ask, Tell
<1>4. q0.id = id /\ q0.kind = kind /\ q0.doc = d /\ q0.method = "request"
  BY DEF Request
<1>5. entry.id = id /\ entry.kind = kind /\ entry.doc = d
  OBVIOUS
<1> HIDE DEF entry, q0
<1>6. /\ DOMAIN wire' = Ids
      /\ \A i \in Ids : Channel(wire'[i])
      /\ \A i \in Ids \ {srv.id} : wire'[i] = wire[i]
      /\ ToSet(wire'[srv.id]) = ToSet(wire[srv.id]) \cup {q0}
  <2>1. \A i \in Ids : Channel(wire[i]) /\ Channel(Append(wire[i], q0))
                       /\ ToSet(Append(wire[i], q0)) = ToSet(wire[i]) \cup {q0}
    BY SendFrame DEF Traffic, Shapes
  <2>2. DOMAIN wire = Ids
    BY DEF Traffic, Shapes
  <2> QED
    BY <1>1, <1>3, <2>1, <2>2
<1>7. /\ srv'.id = srv.id /\ srv'.requestId = id /\ srv'.pending = srv.pending \cup {entry}
      /\ id \in Nat /\ srv.requestId \in Nat /\ ServerShape(srv')
  BY <1>1, <1>2 DEF ServerShape
<1>8. Shapes'
  BY <1>1, <1>2, <1>6, <1>7 DEF Traffic, Shapes
<1>9. \A i \in Ids : \A q : AtLarge(i, q)' => AtLarge(i, q) \/ (i = srv.id /\ q = q0)
  BY <1>2, <1>6 DEF AtLarge
<1>10. Unasked'
  BY <1>1, <1>2, <1>9, ServerIds DEF Traffic, Shapes, Unasked
<1>11. Traced'
  <2>1. \A r \in srv.pending : r.id \in 1 .. srv.requestId
    BY <1>1 DEF Traffic, Traced
  <2>2. \A r \in srv'.pending : r.id \in 1 .. srv'.requestId
    <3>1. id \in 1 .. id /\ 1 .. srv.requestId \subseteq 1 .. id
      BY <1>7
    <3> HIDE DEF id
    <3> QED
      BY <1>5, <1>7, <2>1, <3>1
  <2>3. ASSUME NEW q, AtLarge(srv.id, q)' PROVE Entered(srv', q)
    <3>1. CASE AtLarge(srv.id, q)
      <4>1. Entered(srv, q)
        BY <1>1, <3>1 DEF Traffic, Traced
      <4>2. q.id \in 1 .. id /\ q.id # id
        BY <1>7, <4>1 DEF Entered
      <4> HIDE DEF id
      <4> QED
        BY <1>5, <1>7, <4>1, <4>2 DEF Entered
    <3>2. CASE q = q0
      <4>1. id \in 1 .. id /\ \A r \in srv.pending : r.id # id
        BY <1>7, <2>1
      <4> HIDE DEF id
      <4> QED
        BY <1>4, <1>5, <1>7, <3>2, <4>1 DEF Entered
    <3>3. AtLarge(srv.id, q) \/ q = q0
      BY <1>1, <1>7, <1>9, <2>3
    <3> QED
      BY <3>1, <3>2, <3>3
  <2> QED
    BY <1>7, <2>2, <2>3 DEF Traced
<1>12. Labelled'
  BY <1>2 DEF Traffic, Labelled
<1> QED
  BY <1>8, <1>10, <1>11, <1>12 DEF Traffic

\* didClose and initialized.
LEMMA TellingSteps ==
  ASSUME Traffic, (\E t \in Tabs : CloseTab(t)) \/ ServerReady
  PROVE  Traffic'
<1>1. ASSUME NEW t \in Tabs, CloseTab(t) PROVE Traffic'
  <2>1. CASE srv = NoServer
    BY <1>1, <2>1, ReadKeeps DEF CloseTab
  <2>2. CASE srv # NoServer
    <3>1. ServerShape(srv) /\ DidClose(tab[t].doc).method # "request"
      BY <2>2 DEF Traffic, Shapes, DidClose
    <3>2. /\ srv' = [srv EXCEPT !.version[tab[t].doc] = 0] /\ Tell(DidClose(tab[t].doc))
          /\ UNCHANGED <<peer, nextId, events>>
      BY <1>1, <2>2 DEF CloseTab
    <3>3. ServerShape(srv') /\ srv'.id = srv.id /\ srv'.requestId = srv.requestId
          /\ srv'.pending = srv.pending
      BY <3>1, <3>2 DEF ServerShape
    <3> QED
      BY <2>2, <3>1, <3>2, <3>3, TellKeeps
  <2> QED
    BY <2>1, <2>2
<1>2. CASE ServerReady
  <2>1. /\ events # <<>> /\ events' = Tail(events) /\ UNCHANGED <<peer, nextId>>
        /\ Head(events).server \in Ids
    BY <1>2, ReceiveFrame DEF ServerReady, EventIs, Traffic, Shapes, Labelled
  <2>2. CASE UNCHANGED <<srv, wire>>
    BY <2>1, <2>2, ReadKeeps
  <2>3. CASE srv # NoServer /\ Tell(Initialized) /\ srv' = [srv EXCEPT !.initialized = TRUE]
    <3>1. ServerShape(srv) /\ Initialized.method # "request"
      BY <2>3 DEF Traffic, Shapes, Initialized
    <3>2. ServerShape(srv') /\ srv'.id = srv.id /\ srv'.requestId = srv.requestId
          /\ srv'.pending = srv.pending
      BY <2>3, <3>1 DEF ServerShape
    <3> QED
      BY <2>1, <2>3, <3>1, <3>2, TellKeeps
  <2> QED
    BY <1>2, <2>1, <2>2, <2>3, ServerIds DEF ServerReady, NoServer
<1> QED
  BY <1>1, <1>2

\* What the main loop and the user do without writing to the server.
LEMMA ReadingSteps ==
  ASSUME Traffic,
         \/ \E t \in Tabs : ReplaceText(t)
         \/ StopServer \/ ServerGone \/ IgnoreResponse \/ ApplyReferences \/ ApplyEdits
  PROVE  Traffic'
<1>1. CASE ApplyReferences \/ ApplyEdits
  <2> DEFINE event == Head(events)
  <2>1. /\ events # <<>> /\ events' = Tail(events) /\ Expected(event)
        /\ srv' = Answered(event) /\ UNCHANGED <<wire, peer, nextId>>
        /\ event \in ToSet(events) /\ event.type = "LspResponse"
    BY <1>1, ReceiveFrame DEF ApplyReferences, ApplyEdits, EventIs, PendingAs, Traffic, Shapes
  <2>2. srv # NoServer
    BY <2>1, ServerIds DEF Expected, Traffic, Labelled, NoServer
  <2> QED
    BY <2>1, <2>2, AnsweredShape, ReadKeeps
<1>2. CASE (\E t \in Tabs : ReplaceText(t)) \/ StopServer
  BY <1>2, ReadKeeps DEF ReplaceText, StopServer
<1>3. CASE ServerGone \/ IgnoreResponse
  BY <1>3, ReadKeeps DEF ServerGone, IgnoreResponse, EventIs
<1> QED
  BY <1>1, <1>2, <1>3

\* The server takes a message; a request stays with it until it is answered.
LEMMA PeerReadsStep == ASSUME Traffic, NEW i \in Ids, PeerReads(i) PROVE Traffic'
<1> DEFINE message == Head(wire[i])
<1>1. /\ wire' = [wire EXCEPT ![i] = Tail(wire[i])] /\ wire[i] # <<>>
      /\ UNCHANGED <<srv, nextId>>
  BY DEF PeerReads
<1>2. /\ DOMAIN wire' = Ids
      /\ \A j \in Ids : Channel(wire'[j]) /\ ToSet(wire'[j]) \subseteq ToSet(wire[j])
      /\ message \in ToSet(wire[i])
  <2>1. DOMAIN wire = Ids /\ \A j \in Ids : Channel(wire[j])
    BY DEF Traffic, Shapes
  <2>2. Channel(Tail(wire[i])) /\ ToSet(Tail(wire[i])) \subseteq ToSet(wire[i])
        /\ message \in ToSet(wire[i])
    BY <1>1, <2>1, ReceiveFrame
  <2> QED
    BY <1>1, <2>1, <2>2
<1>3. /\ Channel(events')
      /\ \A e \in ToSet(events') :
            e \in ToSet(events) \/ (e.type # "LspResponse" /\ e.server = i)
  <2> DEFINE output == [type |-> "LspOutput", server |-> i]
  <2>1. events' = events \/ events' = Append(events, output)
    BY DEF PeerReads
  <2>2. Channel(events) /\ output.type # "LspResponse" /\ output.server = i
    BY DEF Traffic, Shapes
  <2> HIDE DEF output
  <2>3. CASE events' = events
    BY <2>2, <2>3
  <2>4. CASE events' = Append(events, output)
    <3>1. Channel(events') /\ ToSet(events') = ToSet(events) \cup {output}
      BY <2>2, <2>4, SendFrame
    <3> QED
      BY <2>2, <3>1
  <2> QED
    BY <2>1, <2>3, <2>4
<1>4. /\ DOMAIN peer' = Ids
      /\ \A j \in Ids : PeerShape(peer'[j])
      /\ \A j \in Ids : \A q \in peer'[j].asked :
            q \in peer[j].asked \/ (j = i /\ q = message /\ q.method = "request")
  <2>1. DOMAIN peer = Ids /\ \A j \in Ids : PeerShape(peer[j])
    BY DEF Traffic, Shapes
  <2>2. /\ DOMAIN peer' = Ids
        /\ \A j \in Ids \ {i} : peer'[j] = peer[j]
        /\ PeerShape(peer'[i])
        /\ \A q \in peer'[i].asked :
              q \in peer[i].asked \/ (q = message /\ q.method = "request")
    <3>1. CASE peer' = peer
      BY <2>1, <3>1
    <3>2. CASE message.method = "request"
      <4> DEFINE p == [peer[i] EXCEPT !.asked = peer[i].asked \cup {message}]
      <4>1. peer' = [peer EXCEPT ![i] = p]
        BY <3>2 DEF PeerReads
      <4>2. PeerShape(p) /\ p.asked = peer[i].asked \cup {message}
        BY <2>1, PeerWith
      <4> HIDE DEF p
      <4> QED
        BY <2>1, <3>2, <4>1, <4>2
    <3>3. CASE message.method \notin {"initialize", "initialized", "request"}
      <4>1. peer' = [peer EXCEPT ![i] = Told(peer[i], message)]
        BY <3>3 DEF PeerReads
      <4>2. PeerShape(Told(peer[i], message)) /\ Told(peer[i], message).asked = peer[i].asked
        BY <2>1, PeerTold
      <4> HIDE DEF message
      <4> QED
        BY <2>1, <4>1, <4>2
    <3> QED
      BY <3>1, <3>2, <3>3 DEF PeerReads
  <2> QED
    BY <2>1, <2>2
<1>5. Shapes'
  BY <1>1, <1>2, <1>3, <1>4 DEF Traffic, Shapes
<1>6. \A j \in Ids : \A q : AtLarge(j, q)' => AtLarge(j, q)
  BY <1>2, <1>3, <1>4 DEF AtLarge
<1>7. Labelled'
  BY <1>3 DEF Traffic, Labelled
<1>8. Follows(srv') /\ nextId' >= nextId
  BY <1>1 DEF Follows, Traffic, Shapes
<1> QED
  BY <1>5, <1>6, <1>7, <1>8, TrafficStays

\* An answer names the request it is for.
LEMMA PeerAnswersStep == ASSUME Traffic, NEW i \in Ids, PeerAnswers(i) PROVE Traffic'
<1>1. UNCHANGED <<srv, nextId, wire>>
  BY DEF PeerAnswers
<1>2. PICK request \in peer[i].asked : \E base, meant, doc :
         /\ peer' = [peer EXCEPT ![i].asked = @ \ {request}]
         /\ events' = Append(events, [type |-> "LspResponse", server |-> i,
                id |-> request.id, request |-> request, base |-> base, meant |-> meant,
                edits |-> Sent(base, meant), to |-> doc])
  BY ZenonT(60) DEF PeerAnswers
<1>3. PICK event : /\ events' = Append(events, event) /\ peer' = [peer EXCEPT ![i].asked = @ \ {request}]
                   /\ event.server = i /\ event.id = request.id /\ event.request = request
  BY <1>2
<1>4. Channel(events') /\ ToSet(events') = ToSet(events) \cup {event}
  BY <1>3, SendFrame DEF Traffic, Shapes
<1>5. /\ DOMAIN peer' = Ids
      /\ \A j \in Ids : PeerShape(peer'[j]) /\ peer'[j].asked \subseteq peer[j].asked
  <2>1. DOMAIN peer = Ids /\ \A j \in Ids : PeerShape(peer[j])
    BY DEF Traffic, Shapes
  <2> DEFINE p == [peer[i] EXCEPT !.asked = peer[i].asked \ {request}]
  <2>2. peer' = [peer EXCEPT ![i] = p]
    BY <1>3
  <2>3. PeerShape(p) /\ p.asked = peer[i].asked \ {request}
    BY <2>1, PeerWith
  <2> HIDE DEF p
  <2> QED
    BY <2>1, <2>2, <2>3
<1>6. Shapes'
  BY <1>1, <1>4, <1>5 DEF Traffic, Shapes
<1>7. \A j \in Ids : \A q : AtLarge(j, q)' => AtLarge(j, q)
  BY <1>1, <1>3, <1>4, <1>5 DEF AtLarge
<1>8. Labelled'
  BY <1>3, <1>4 DEF Traffic, Labelled
<1>9. Follows(srv') /\ nextId' >= nextId
  BY <1>1 DEF Follows, Traffic, Shapes
<1> QED
  BY <1>6, <1>7, <1>8, <1>9, TrafficStays

\* A server that ends leaves requests traced.
LEMMA PeerDiesStep == ASSUME Traffic, NEW i \in Ids, PeerDies(i) PROVE Traffic'
<1> DEFINE stopped == [type |-> "LspServerStopped", server |-> i]
<1>1. /\ UNCHANGED <<srv, nextId, wire>> /\ events' = Append(events, stopped)
      /\ stopped.type # "LspResponse" /\ stopped.server = i
  BY DEF PeerDies
<1>2. Channel(events') /\ ToSet(events') = ToSet(events) \cup {stopped}
  <2> HIDE DEF stopped
  <2> QED
    BY <1>1, SendFrame DEF Traffic, Shapes
<1>3. /\ DOMAIN peer' = Ids
      /\ \A j \in Ids : PeerShape(peer'[j]) /\ peer'[j].asked = peer[j].asked
  <2>1. DOMAIN peer = Ids /\ \A j \in Ids : PeerShape(peer[j])
    BY DEF Traffic, Shapes
  <2> DEFINE p == [peer[i] EXCEPT !.alive = FALSE]
  <2>2. peer' = [peer EXCEPT ![i] = p]
    BY DEF PeerDies
  <2>3. PeerShape(p) /\ p.asked = peer[i].asked
    BY <2>1, PeerLives
  <2> HIDE DEF p
  <2> QED
    BY <2>1, <2>2, <2>3
<1> HIDE DEF stopped
<1>4. Shapes'
  BY <1>1, <1>2, <1>3 DEF Traffic, Shapes
<1>5. \A j \in Ids : \A q : AtLarge(j, q)' => AtLarge(j, q)
  BY <1>1, <1>2, <1>3 DEF AtLarge
<1>6. Labelled'
  BY <1>1, <1>2 DEF Traffic, Labelled
<1>7. Follows(srv') /\ nextId' >= nextId
  BY <1>1 DEF Follows, Traffic, Shapes
<1> QED
  BY <1>4, <1>5, <1>6, <1>7, TrafficStays

-----------------------------------------------------------------------------

\* Every step leaves requests traced.
LEMMA StepTraffic == ASSUME Traffic, [ClientNext]_clientVars PROVE Traffic'
<1>1. CASE UNCHANGED clientVars
  BY <1>1, ReadKeeps DEF clientVars
<1> QED
  BY <1>1, NotifyingSteps, AskStep, TellingSteps, ReadingSteps, PeerReadsStep, PeerAnswersStep,
     PeerDiesStep DEF ClientNext

\* An answer that is expected is one to what the entry stands for.
LEMMA TrafficAnswers == Traffic => AnswersMeetTheirRequest
<1> SUFFICES ASSUME Traffic, NEW k \in DOMAIN events, events[k].type = "LspResponse",
                    Expected(events[k]), NEW r \in PendingEntry(events[k])
             PROVE  r.kind = events[k].request.kind /\ r.doc = events[k].request.doc
  BY DEF AnswersMeetTheirRequest
<1>1. events[k] \in ToSet(events)
  BY DEF ToSet
<1>2. events[k].server \in Ids /\ events[k].id = events[k].request.id
  BY <1>1 DEF Traffic, Labelled
<1>3. srv # NoServer /\ srv.id = events[k].server
  BY <1>2, ServerIds DEF Expected, NoServer
<1>4. Entered(srv, events[k].request)
  BY <1>1, <1>3 DEF Traffic, Traced, AtLarge
<1> QED
  BY <1>2, <1>4 DEF Entered, PendingEntry

(* An answer is taken for what the server answered, whatever tabs, files    *)
(* and texts there are, however many servers came after each other and in   *)
(* whatever order they answered (lsp.rs 455-497, main.rs 9726-9746).        *)
THEOREM AnswersAlwaysMeetTheirRequest == ClientSpec => []AnswersMeetTheirRequest
<1>1. ClientInit => Traffic
  BY InitTraffic
<1>2. Traffic /\ [ClientNext]_clientVars => Traffic'
  BY StepTraffic
<1>3. Traffic => AnswersMeetTheirRequest
  BY TrafficAnswers
<1> QED
  BY <1>1, <1>2, <1>3, PTL DEF ClientSpec


-----------------------------------------------------------------------------
(* What the server will know of a document when it has read all.           *)

Hearing == INSTANCE FoldFacts WITH Op <- LAMBDA k, state, m : Heard(k, state, m)

Start(i, d) == [doc |-> peer[i].docs[d], confused |-> peer[i].confused]
\* The model's fold is the one the lemmas are about.
LEMMA AheadFolds ==
  \A i, d : /\ Ahead(i, d) = Hearing!Fold(d, Start(i, d), wire[i])
           /\ Ahead(i, d)' = Hearing!Fold(d, Start(i, d)', wire'[i])
<1>1. \A i, d : Ahead(i, d) = Hearing!Fold(d, Start(i, d), wire[i])
  BY DEF Ahead, Start, FoldLeft, MapThenFoldSet, Max,
         Hearing!Fold, Hearing!Iterates, Hearing!Top
<1>2. \A i, d : Ahead(i, d)' = Hearing!Fold(d, Start(i, d)', wire'[i])
  BY DEF Ahead, Start, FoldLeft, MapThenFoldSet, Max,
         Hearing!Fold, Hearing!Iterates, Hearing!Top
<1> QED
  BY <1>1, <1>2

\* Messages about documents; the others leave them alone.
OfDoc(m) == m.method \in {"didOpen", "didChange", "didClose"}
About(m) == \/ m.method \in {"initialize", "initialized", "request"}
            \/ OfDoc(m) /\ m.doc \in Docs

\* Other messages are not heard.
LEMMA Unheard ==
  ASSUME NEW d, NEW base, NEW q, Channel(q), \A m \in ToSet(q) : ~(OfDoc(m) /\ m.doc = d)
  PROVE  Hearing!Fold(d, base, q) = base
<1> DEFINE V == {base}
<1>1. q \in Seq(ToSet(q)) /\ base \in V
  BY DEF Channel
<1>2. \A a \in V, m \in ToSet(q) : Heard(d, a, m) \in V
  BY DEF Heard, OfDoc
<1>3. Hearing!Fold(d, base, q) \in V
  <2> HIDE DEF V
  <2> QED
    BY <1>1, <1>2, Hearing!FoldKeeps
<1> QED
  BY <1>3

\* Who is confused once stays confused.
LEMMA StaysConfused ==
  ASSUME NEW d, NEW doc, NEW q, Channel(q),
         ~Hearing!Fold(d, [doc |-> doc, confused |-> TRUE], q).confused
  PROVE  FALSE
<1> DEFINE D == {doc} \cup {Unread}
                \cup {[open |-> TRUE, version |-> m.version, text |-> m.text] : m \in ToSet(q)}
           V == {[doc |-> x, confused |-> TRUE] : x \in D}
           base == [doc |-> doc, confused |-> TRUE]
<1>1. q \in Seq(ToSet(q)) /\ base \in V
  BY DEF Channel
<1>2. ASSUME NEW a \in V, NEW m \in ToSet(q) PROVE Heard(d, a, m) \in V
  <2>1. PICK x \in D : a = [doc |-> x, confused |-> TRUE]
    OBVIOUS
  <2>2. CASE ~(OfDoc(m) /\ m.doc = d)
    BY <2>2 DEF Heard, OfDoc
  <2>3. CASE OfDoc(m) /\ m.doc = d
    <3>1. DocAfter(x, m) \in D
      BY <2>3 DEF OfDoc, DocAfter
    <3>2. Heard(d, a, m) = [doc |-> DocAfter(x, m), confused |-> TRUE]
      BY <2>1, <2>3 DEF Heard, OfDoc
    <3> HIDE DEF D
    <3> QED
      BY <3>1, <3>2
  <2> QED
    BY <2>2, <2>3
<1>3. Hearing!Fold(d, base, q) \in V
  <2> HIDE DEF V, base
  <2> QED
    BY <1>1, <1>2, Hearing!FoldKeeps
<1>4. \A a \in V : a.confused
  OBVIOUS
<1> QED
  BY <1>3, <1>4

-----------------------------------------------------------------------------
(* Versions are those the server will know.                                *)

Knows(version, d, state) ==
    /\ ~state.confused
    /\ state.doc.open <=> version[d] > 0
    /\ state.doc.version = version[d]

\* What is written tells of files of the language; nothing was told to a
\* server that was not started.
Told_ ==
    /\ \A i \in Ids : \A m \in ToSet(wire[i]) : About(m)
    /\ \A i \in Ids : DOMAIN peer[i].docs = Docs /\ peer[i].confused \in BOOLEAN
    /\ \A i \in Ids : i >= nextId =>
          /\ wire[i] = <<>> /\ ~peer[i].confused
          /\ \A d \in Docs : peer[i].docs[d] = Unread
Shown_ ==
    /\ DOMAIN tab = Tabs
    /\ \A t \in Tabs : tab[t].open =>
          /\ tab[t].doc \in Docs
          /\ tab[t] = [open |-> tab[t].open, doc |-> tab[t].doc, text |-> tab[t].text]
Targets == \A e \in ToSet(events) :
    e.type = "LspResponse" /\ e.request.kind = "definition" => e.to \in Docs
Versions ==
    srv # NoServer => /\ srv.version \in [Docs -> Nat]
                      /\ \A d \in Docs : Knows(srv.version, d, Ahead(srv.id, d))

Documents_ == Traffic /\ Told_ /\ Shown_ /\ Targets /\ Versions

TellingOf(v, d, text) == IF v = 0 THEN DidOpen(d, text) ELSE DidChange(d, v + 1, text)

HeardBy(version, d, state, text) ==
    /\ Knows([version EXCEPT ![d] = version[d] + 1], d,
             Heard(d, state, TellingOf(version[d], d, text)))
    /\ Heard(d, state, TellingOf(version[d], d, text)).doc.text = text
    /\ Knows([version EXCEPT ![d] = 0], d, Heard(d, state, DidClose(d)))

\* One message more.
LEMMA HeardNext ==
  ASSUME NEW version \in [Docs -> Nat], NEW d \in Docs, NEW state, NEW text,
         Knows(version, d, state)
  PROVE  HeardBy(version, d, state, text)
<1> USE DEF HeardBy
<1>1. version[d] \in Nat
  OBVIOUS
<1> DEFINE v == version[d]
           opened == DidOpen(d, text)
           changed == DidChange(d, v + 1, text)
           closed == DidClose(d)
<1>2. /\ opened.method = "didOpen" /\ opened.doc = d /\ opened.version = 1 /\ opened.text = text
      /\ changed.method = "didChange" /\ changed.doc = d /\ changed.version = v + 1
      /\ changed.text = text
      /\ closed.method = "didClose" /\ closed.doc = d
  BY DEF DidOpen, DidChange, DidClose
<1> HIDE DEF opened, changed, closed
<1>3. [version EXCEPT ![d] = v + 1][d] = v + 1 /\ [version EXCEPT ![d] = 0][d] = 0
  OBVIOUS
<1>6. Knows([version EXCEPT ![d] = 0], d, Heard(d, state, closed))
  <2>1. ~Confusing(state.doc, closed)
    BY <1>2 DEF Confusing
  <2>0. (state.confused \/ Confusing(state.doc, closed)) = FALSE
    BY <2>1 DEF Knows
  <2>2. Heard(d, state, closed) = [doc |-> Unread, confused |-> FALSE]
    BY <1>2, <2>0 DEF Heard, DocAfter
  <2> QED
    BY <1>3, <2>1, <2>2 DEF Knows, Unread
<1>4. CASE v = 0
  <2>1. ~Confusing(state.doc, opened)
    BY <1>2, <1>4 DEF Knows, Confusing
  <2>0. (state.confused \/ Confusing(state.doc, opened)) = FALSE
    BY <2>1 DEF Knows
  <2>2. Heard(d, state, opened) =
            [doc |-> [open |-> TRUE, version |-> 1, text |-> text], confused |-> FALSE]
    BY <1>2, <2>0 DEF Heard, DocAfter
  <2>3. Knows([version EXCEPT ![d] = v + 1], d, Heard(d, state, opened))
    BY <1>3, <1>4, <2>1, <2>2 DEF Knows
  <2>5. TellingOf(v, d, text) = opened
    BY <1>4 DEF TellingOf, opened
  <2>6. Heard(d, state, opened).doc.text = text
    BY <2>2
  <2> QED
    BY <1>6, <2>3, <2>5, <2>6 DEF closed
<1>5. CASE v # 0
  <2>1. ~Confusing(state.doc, changed)
    BY <1>1, <1>2, <1>5 DEF Knows, Confusing
  <2>0. (state.confused \/ Confusing(state.doc, changed)) = FALSE
    BY <2>1 DEF Knows
  <2>2. Heard(d, state, changed) =
            [doc |-> [open |-> TRUE, version |-> v + 1, text |-> text], confused |-> FALSE]
    BY <1>2, <2>0 DEF Heard, DocAfter
  <2>3. v + 1 > 0
    BY <1>1
  <2>4. Knows([version EXCEPT ![d] = v + 1], d, Heard(d, state, changed))
    BY <1>3, <2>1, <2>2, <2>3 DEF Knows
  <2>5. TellingOf(v, d, text) = changed
    BY <1>5 DEF TellingOf, changed
  <2>6. Heard(d, state, changed).doc.text = text
    BY <2>2
  <2> QED
    BY <1>6, <2>4, <2>5, <2>6 DEF closed
<1> QED
  BY <1>4, <1>5

\* Neither is one message about another document.
LEMMA HeardOther ==
  ASSUME NEW d, NEW state, NEW m, OfDoc(m) => m.doc # d
  PROVE  Heard(d, state, m) = state
  BY DEF Heard, OfDoc

\* What was written is read in the order it was written.
LEMMA AheadMore ==
  ASSUME NEW i, NEW d, NEW q, Channel(q), NEW r, Channel(r), wire[i] = q, wire'[i] = q \o r,
         Start(i, d)' = Start(i, d)
  PROVE  Ahead(i, d)' = Hearing!Fold(d, Ahead(i, d), r)
<1> DEFINE S == ToSet(q) \cup ToSet(r)
           base == Start(i, d)
<1>1. q \in Seq(S) /\ r \in Seq(S)
  BY DEF Channel
<1>2. Hearing!Fold(d, base, q \o r) = Hearing!Fold(d, Hearing!Fold(d, base, q), r)
  <2> HIDE DEF S, base
  <2> QED
    BY <1>1, Hearing!FoldConcat
<1>3. Ahead(i, d) = Hearing!Fold(d, base, q)
  BY AheadFolds
<1>4. Ahead(i, d)' = Hearing!Fold(d, base, q \o r)
  <2>1. Ahead(i, d)' = Hearing!Fold(d, Start(i, d)', wire'[i])
    BY AheadFolds
  <2> QED
    BY <2>1
<1> QED
  BY <1>2, <1>3, <1>4

\* One more frame is heard last.
LEMMA FoldSent ==
  ASSUME NEW d, NEW base, NEW q, Channel(q), NEW m
  PROVE  Hearing!Fold(d, base, Append(q, m)) = Heard(d, Hearing!Fold(d, base, q), m)
<1> DEFINE S == ToSet(q) \cup {m}
<1>1. q \in Seq(S) /\ m \in S
  BY DEF Channel
<1> HIDE DEF S
<1> QED
  BY <1>1, Hearing!FoldAppend

\* What a step leaves to a server and writes to it agrees with what the
\* server will know.
Reports(e) ==
    e.srv # NoServer =>
        /\ e.srv.version \in [Docs -> Nat]
        /\ \A m \in ToSet(e.out) : About(m)
        /\ \A d \in Docs :
              Knows(e.srv.version, d, Hearing!Fold(d, Ahead(e.srv.id, d), e.out))

\* A server that is started was told nothing.
LEMMA FreshAhead ==
  ASSUME Told_, NEW i \in Ids, i >= nextId, NEW d \in Docs
  PROVE  Ahead(i, d) = [doc |-> Unread, confused |-> FALSE]
<1>1. wire[i] = <<>> /\ ~peer[i].confused /\ peer[i].docs[d] = Unread
      /\ peer[i].confused \in BOOLEAN
  BY DEF Told_
<1>2. Start(i, d) = [doc |-> Unread, confused |-> FALSE]
  BY <1>1 DEF Start
<1>3. Ahead(i, d) = Hearing!Fold(d, Start(i, d), <<>>)
  BY <1>1, AheadFolds
<1> QED
  BY <1>2, <1>3, Hearing!FoldEmpty

\* What ensure_lsp_server_running leaves agrees with what the server will know.
LEMMA EnsuredReports == ASSUME Documents_, NEW e \in Ensured PROVE Reports(e)
<1>0. \A d, base : Hearing!Fold(d, base, <<>>) = base
  BY Hearing!FoldEmpty
<1>1. CASE srv # NoServer /\ e = [srv |-> srv, error |-> startError, out |-> <<>>]
  <2>1. e.srv = srv /\ e.out = <<>> /\ ToSet(e.out) = {}
    BY <1>1, EmptyChannel
  <2> QED
    BY <1>0, <1>1, <2>1 DEF Reports, Documents_, Versions
<1>2. CASE srv = NoServer /\ e.srv = NoServer /\ e.out = <<>>
  BY <1>2 DEF Reports
<1>3. CASE srv = NoServer /\ nextId \in Ids
           /\ e = [srv |-> NewServer(nextId), error |-> FALSE, out |-> <<Initialize>>]
  <2>1. /\ e.srv.id = nextId /\ e.srv.version = [d \in Docs |-> 0]
        /\ Channel(e.out) /\ ToSet(e.out) = {Initialize} /\ ~OfDoc(Initialize)
    BY <1>3, OneFrame DEF NewServer, Initialize, OfDoc
  <2>2. nextId >= nextId
    BY ServerIds, <1>3
  <2>3. ASSUME NEW d \in Docs
        PROVE  Knows(e.srv.version, d, Hearing!Fold(d, Ahead(e.srv.id, d), e.out))
    <3>1. Ahead(nextId, d) = [doc |-> Unread, confused |-> FALSE]
      BY <1>3, <2>2, FreshAhead DEF Documents_
    <3>2. Hearing!Fold(d, Ahead(e.srv.id, d), e.out) = Ahead(nextId, d)
      BY <2>1, Unheard
    <3> QED
      BY <2>1, <3>1, <3>2 DEF Knows, Unread
  <2> QED
    BY <2>1, <2>3 DEF Reports, About, Initialize
<1> QED
  BY <1>1, <1>2, <1>3 DEF Ensured

\* So does didOpen or didChange, and the text told last is known.
LEMMA NotifiedReports ==
  ASSUME NEW srv0, NEW error0, NEW out0, Channel(out0), srv0 # NoServer => ServerShape(srv0),
         Reports([srv |-> srv0, error |-> error0, out |-> out0]), NEW d \in Docs, NEW text
  PROVE  LET n == Notified([srv |-> srv0, error |-> error0, out |-> out0], d, text)
         IN  /\ Reports(n)
             /\ n.srv # NoServer =>
                    Hearing!Fold(d, Ahead(n.srv.id, d), n.out).doc.text = text
<1> DEFINE e == [srv |-> srv0, error |-> error0, out |-> out0]
           n == Notified(e, d, text)
           v == srv0.version[d]
           m == TellingOf(v, d, text)
<1>1. CASE srv0 = NoServer
  BY <1>1 DEF Notified
<1>2. CASE srv0 # NoServer
  <2>1. n = [e EXCEPT !.srv.version[d] = v + 1, !.out = Append(out0, m)]
    BY <1>2 DEF Notified, TellingOf
  <2>2. n.out = Append(out0, m) /\ n.srv = [srv0 EXCEPT !.version[d] = v + 1]
    BY <2>1
  <2>3. /\ srv0.version \in [Docs -> Nat]
        /\ \A x \in ToSet(out0) : About(x)
        /\ \A c \in Docs : Knows(srv0.version, c, Hearing!Fold(c, Ahead(srv0.id, c), out0))
    BY <1>2 DEF Reports
  <2>4. OfDoc(m) /\ m.doc = d
    BY DEF OfDoc, DidOpen, DidChange, TellingOf
  <2>5. n.srv.id = srv0.id /\ n.srv.version = [srv0.version EXCEPT ![d] = v + 1]
    BY <1>2, <2>2 DEF ServerShape
  <2> DEFINE next == [srv0.version EXCEPT ![d] = v + 1]
  <2>6. next \in [Docs -> Nat] /\ \A c \in Docs \ {d} : next[c] = srv0.version[c]
    <3>1. v + 1 \in Nat
      BY <2>3
    <3> QED
      BY <2>3, <3>1
  <2>7. ASSUME NEW state, Knows(srv0.version, d, state)
        PROVE  Knows(next, d, Heard(d, state, m)) /\ Heard(d, state, m).doc.text = text
    <3>1. srv0.version \in [Docs -> Nat]
      BY <2>3
    <3>2. HeardBy(srv0.version, d, state, text)
      BY <2>7, <3>1, HeardNext
    <3> QED
      BY <3>2 DEF HeardBy
  <2> HIDE DEF n, m, next
  <2>8. ASSUME NEW c \in Docs
        PROVE  Hearing!Fold(c, Ahead(n.srv.id, c), n.out) =
                   Heard(c, Hearing!Fold(c, Ahead(srv0.id, c), out0), m)
    <3>1. Hearing!Fold(c, Ahead(srv0.id, c), Append(out0, m)) =
              Heard(c, Hearing!Fold(c, Ahead(srv0.id, c), out0), m)
      BY FoldSent
    <3> QED
      BY <2>2, <2>5, <3>1
  <2>9. ASSUME NEW c \in Docs
        PROVE  /\ Knows(next, c, Hearing!Fold(c, Ahead(n.srv.id, c), n.out))
               /\ c = d => Hearing!Fold(c, Ahead(n.srv.id, c), n.out).doc.text = text
    <3> DEFINE state == Hearing!Fold(c, Ahead(srv0.id, c), out0)
    <3>1. Knows(srv0.version, c, state)
      BY <2>3
    <3>2. Hearing!Fold(c, Ahead(n.srv.id, c), n.out) = Heard(c, state, m)
      BY <2>8
    <3> HIDE DEF state
    <3>3. CASE c = d
      BY <2>7, <3>1, <3>2, <3>3
    <3>4. CASE c # d
      <4>1. Heard(c, state, m) = state
        BY <2>4, <3>4, HeardOther
      <4>2. next[c] = srv0.version[c]
        BY <2>6, <3>4
      <4> QED
        BY <3>1, <3>2, <3>4, <4>1, <4>2 DEF Knows
    <3> QED
      BY <3>3, <3>4
  <2>10. \A x \in ToSet(n.out) : About(x)
    <3>1. ToSet(Append(out0, m)) = ToSet(out0) \cup {m}
      BY SendFrame
    <3> QED
      BY <2>2, <2>3, <2>4, <3>1 DEF About
  <2>11. Reports(n)
    BY <2>5, <2>6, <2>9, <2>10 DEF Reports, next
  <2> QED
    BY <2>9, <2>11 DEF n
<1> QED
  BY <1>1, <1>2

\* A server that is started knows what it knew.
LEMMA WokenKnows ==
  ASSUME NEW p, PeerShape(p), NEW b
  PROVE  [p EXCEPT !.alive = b].docs = p.docs /\ [p EXCEPT !.alive = b].confused = p.confused
<1>1. [p EXCEPT !.alive = b] = [alive |-> b, asked |-> p.asked, docs |-> p.docs,
                                confused |-> p.confused]
  BY DEF PeerShape
<1> QED
  BY <1>1

\* So does one that was asked, or has answered.
LEMMA AskedKnows ==
  ASSUME NEW p, PeerShape(p), NEW a
  PROVE  [p EXCEPT !.asked = a].docs = p.docs /\ [p EXCEPT !.asked = a].confused = p.confused
<1>1. [p EXCEPT !.asked = a] = [alive |-> p.alive, asked |-> a, docs |-> p.docs,
                                confused |-> p.confused]
  BY DEF PeerShape
<1> QED
  BY <1>1

\* What was started, opened or changed reaches the server.
LEMMA BecomesDocs ==
  ASSUME Documents_, NEW e, Quiet(e), Reports(e), Becomes(e)
  PROVE  /\ Told_' /\ Versions'
         /\ e.srv # NoServer => /\ e.srv.id \in Ids
                                /\ \A d \in Docs : Ahead(e.srv.id, d)' =
                                       Hearing!Fold(d, Ahead(e.srv.id, d), e.out)
<1>0. /\ nextId \in Nat /\ DOMAIN wire = Ids /\ DOMAIN peer = Ids
      /\ \A i \in Ids : Channel(wire[i]) /\ PeerShape(peer[i]) /\ i \in Nat
      /\ srv # NoServer => srv.id < nextId /\ srv.id \in Ids
  BY ServerIds DEF Documents_, Traffic, Shapes, ServerShape
<1>1. srv' = e.srv
  BY DEF Becomes
<1>2. e.srv # NoServer => /\ e.srv.id \in Ids
                          /\ \/ srv # NoServer /\ e.srv.id = srv.id
                             \/ srv = NoServer /\ e.srv.id = nextId
  BY DEF Quiet, Follows, ServerShape
<1>3. ASSUME NEW i \in Ids
      PROVE  wire'[i] = IF e.srv # NoServer /\ i = e.srv.id THEN wire[i] \o e.out ELSE wire[i]
  BY <1>0, <1>2 DEF Becomes
<1>4. ASSUME NEW i \in Ids
      PROVE  peer'[i].docs = peer[i].docs /\ peer'[i].confused = peer[i].confused
  <2>1. PeerShape(peer[i])
    BY <1>0
  <2> DEFINE woken == [peer[i] EXCEPT !.alive = TRUE]
  <2>3. woken.docs = peer[i].docs /\ woken.confused = peer[i].confused
    BY <2>1, WokenKnows
  <2>4. peer' = peer \/ peer' = [peer EXCEPT ![nextId] = [peer[nextId] EXCEPT !.alive = TRUE]]
    BY DEF Becomes
  <2>5. peer'[i] = peer[i] \/ peer'[i] = woken
    BY <1>0, <2>4
  <2> HIDE DEF woken
  <2> QED
    BY <2>3, <2>5
<1>5. /\ nextId' \in Nat /\ nextId' >= nextId
      /\ e.srv # NoServer => e.srv.id < nextId'
  <2>1. CASE srv = NoServer /\ e.srv # NoServer
    <3>1. nextId' = nextId + 1
      BY <2>1 DEF Becomes
    <3> QED
      BY <1>0, <1>2, <2>1, <3>1
  <2>2. CASE ~(srv = NoServer /\ e.srv # NoServer)
    <3>1. nextId' = nextId
      BY <2>2 DEF Becomes
    <3> QED
      BY <1>0, <1>2, <2>2, <3>1
  <2> QED
    BY <2>1, <2>2
<1>6. Told_'
  <2>1. Told_
    BY DEF Documents_
  <2>2. ASSUME NEW i \in Ids, NEW m \in ToSet(wire'[i]) PROVE About(m)
    <3>1. CASE wire'[i] = wire[i]
      BY <2>1, <2>2, <3>1 DEF Told_
    <3>2. CASE e.srv # NoServer /\ wire'[i] = wire[i] \o e.out
      <4>1. ToSet(wire[i] \o e.out) = ToSet(wire[i]) \cup ToSet(e.out)
        BY <1>0, JoinChannels DEF Quiet
      <4> QED
        BY <2>1, <2>2, <3>2, <4>1 DEF Told_, Reports
    <3> QED
      BY <1>3, <3>1, <3>2
  <2>3. ASSUME NEW i \in Ids, i >= nextId'
        PROVE  i >= nextId /\ wire'[i] = wire[i]
    BY <1>0, <1>3, <1>5, <2>3
  <2>4. \A i \in Ids : DOMAIN peer'[i].docs = Docs /\ peer'[i].confused \in BOOLEAN
    BY <1>4, <2>1 DEF Told_
  <2>5. \A i \in Ids : i >= nextId' => /\ wire'[i] = <<>> /\ ~peer'[i].confused
                                       /\ \A d \in Docs : peer'[i].docs[d] = Unread
    BY <1>4, <2>1, <2>3 DEF Told_
  <2> QED
    BY <2>2, <2>4, <2>5 DEF Told_
<1>7. ASSUME e.srv # NoServer, NEW d \in Docs
      PROVE  Ahead(e.srv.id, d)' = Hearing!Fold(d, Ahead(e.srv.id, d), e.out)
  <2> DEFINE i == e.srv.id
             q == wire[i]
             r == e.out
  <2>1. i \in Ids /\ Channel(q) /\ Channel(r) /\ wire'[i] = q \o r
    BY <1>0, <1>2, <1>3, <1>7 DEF Quiet
  <2>2. Start(i, d)' = Start(i, d)
    BY <1>4, <2>1 DEF Start
  <2> HIDE DEF i, q, r
  <2>3. Ahead(i, d)' = Hearing!Fold(d, Ahead(i, d), r)
    BY <2>1, <2>2, AheadMore DEF q
  <2> QED
    BY <2>3 DEF i, r
<1>8. Versions'
  BY <1>1, <1>7 DEF Versions, Reports
<1> QED
  BY <1>2, <1>6, <1>7, <1>8

\* Nothing is written, and the server is the same or gone.
LEMMA SilentDocs ==
  ASSUME Documents_, UNCHANGED <<wire, nextId>>,
         \A i \in Ids : peer'[i].docs = peer[i].docs /\ peer'[i].confused = peer[i].confused,
         \/ srv' = NoServer
         \/ srv # NoServer /\ srv'.id = srv.id /\ srv'.version = srv.version
  PROVE  Told_' /\ Versions'
<1>1. srv # NoServer => srv.id \in Ids
  BY DEF Documents_, Traffic, Shapes, ServerShape
<1>2. Told_'
  BY DEF Documents_, Told_
<1>3. ASSUME NEW i \in Ids, NEW d PROVE Ahead(i, d)' = Ahead(i, d)
  <2>1. Start(i, d)' = Start(i, d)
    BY DEF Start
  <2> QED
    BY <2>1, AheadFolds
<1>4. Versions'
  BY <1>1, <1>3 DEF Documents_, Versions
<1> QED
  BY <1>2, <1>4

\* One message is written.
LEMMA TellDocs ==
  ASSUME Documents_, NEW m, About(m), srv # NoServer, Tell(m), UNCHANGED <<peer, nextId>>,
         srv'.id = srv.id, srv'.version \in [Docs -> Nat],
         \A d \in Docs : Knows(srv'.version, d, Heard(d, Ahead(srv.id, d), m))
  PROVE  Told_' /\ Versions'
<1>0. /\ nextId \in Nat /\ DOMAIN wire = Ids /\ \A i \in Ids : Channel(wire[i]) /\ i \in Nat
      /\ srv.id < nextId /\ srv.id \in Ids
  BY ServerIds DEF Documents_, Traffic, Shapes, ServerShape
<1>1. ASSUME NEW i \in Ids
      PROVE  wire'[i] = IF i = srv.id THEN Append(wire[i], m) ELSE wire[i]
  BY <1>0 DEF Tell
<1>2. Told_'
  <2>1. ASSUME NEW i \in Ids, NEW x \in ToSet(wire'[i]) PROVE About(x)
    <3>1. ToSet(Append(wire[i], m)) = ToSet(wire[i]) \cup {m}
      BY <1>0, SendFrame
    <3> QED
      BY <1>1, <2>1, <3>1 DEF Documents_, Told_
  <2>2. \A i \in Ids : i >= nextId => wire'[i] = wire[i]
    BY <1>0, <1>1
  <2> QED
    BY <2>1, <2>2 DEF Documents_, Told_
<1>3. ASSUME NEW d \in Docs PROVE Ahead(srv.id, d)' = Heard(d, Ahead(srv.id, d), m)
  <2> DEFINE i == srv.id
             base == Start(i, d)
             q == wire[i]
  <2>1. Channel(q) /\ wire'[i] = Append(q, m) /\ Start(i, d)' = base
    BY <1>0, <1>1 DEF Start
  <2>2. Ahead(i, d)' = Hearing!Fold(d, base, Append(q, m))
    <3>1. Ahead(i, d)' = Hearing!Fold(d, Start(i, d)', wire'[i])
      BY AheadFolds
    <3> QED
      BY <2>1, <3>1
  <2>3. Ahead(i, d) = Hearing!Fold(d, base, q)
    BY AheadFolds
  <2> HIDE DEF i, base, q
  <2>4. Hearing!Fold(d, base, Append(q, m)) = Heard(d, Hearing!Fold(d, base, q), m)
    BY <2>1, FoldSent
  <2>5. Ahead(i, d)' = Heard(d, Ahead(i, d), m)
    BY <2>2, <2>3, <2>4
  <2> QED
    BY <2>5 DEF i
<1>4. Versions'
  BY <1>3 DEF Versions
<1> QED
  BY <1>2, <1>4

-----------------------------------------------------------------------------
\* What tabs show are files of the language.
LEMMA ShownStays ==
  ASSUME Shown_,
         \/ tab' = tab
         \/ \E t \in Tabs, d \in Docs : \E text :
                tab' = [tab EXCEPT ![t] = [open |-> TRUE, doc |-> d, text |-> text]]
         \/ \E t \in Tabs : tab' = [tab EXCEPT ![t] = NoTab]
         \/ \E t \in Tabs : tab[t].open /\ \E text : tab' = [tab EXCEPT ![t].text = text]
  PROVE  Shown_'
<1>1. CASE tab' = tab
  BY <1>1 DEF Shown_
<1>2. ASSUME NEW t \in Tabs, NEW d \in Docs, NEW text,
             tab' = [tab EXCEPT ![t] = [open |-> TRUE, doc |-> d, text |-> text]]
      PROVE  Shown_'
  BY <1>2 DEF Shown_
<1>3. ASSUME NEW t \in Tabs, tab' = [tab EXCEPT ![t] = NoTab]
      PROVE  Shown_'
  BY <1>3 DEF Shown_, NoTab
<1>4. ASSUME NEW t \in Tabs, tab[t].open, NEW text, tab' = [tab EXCEPT ![t].text = text]
      PROVE  Shown_'
  <2>1. /\ DOMAIN tab = Tabs /\ tab[t].doc \in Docs
        /\ tab[t] = [open |-> tab[t].open, doc |-> tab[t].doc, text |-> tab[t].text]
    BY <1>4 DEF Shown_
  <2>2. tab' = [tab EXCEPT ![t] = [open |-> tab[t].open, doc |-> tab[t].doc, text |-> text]]
    BY <1>4, <2>1
  <2> QED
    BY <2>1, <2>2 DEF Shown_
<1> QED
  BY <1>1, <1>2, <1>3, <1>4

\* Events that are read do not come again.
LEMMA TargetsStay ==
  ASSUME Traffic, Targets, events' = events \/ (events # <<>> /\ events' = Tail(events))
  PROVE  Targets'
<1>1. ToSet(events') \subseteq ToSet(events)
  BY EventRead
<1> QED
  BY <1>1 DEF Targets

\* At first the server knows the file that is open, if one is.
LEMMA InitDocs == ClientInit => Documents_
<1> SUFFICES ASSUME ClientInit PROVE Documents_
  OBVIOUS
<1>0. Traffic
  BY InitTraffic
<1>1. PICK start \in Starts : /\ tab = start.from.tab
                              /\ srv = start.from.srv /\ nextId = start.from.next
                              /\ peer = start.from.peer
  BY DEF ClientInit
<1>2. /\ \A i \in Ids : wire[i] = <<>>
      /\ ToSet(<<>>) = {} /\ events = <<>>
      /\ \A i \in Ids : i \in Nat \ {0}
  BY EmptyChannel, ServerIds DEF ClientInit
<1>3. Targets
  BY <1>2 DEF Targets
<1>4. ASSUME NEW i \in Ids, NEW d PROVE Ahead(i, d) = Start(i, d)
  <2>1. Ahead(i, d) = Hearing!Fold(d, Start(i, d), <<>>)
    BY <1>2, AheadFolds
  <2> QED
    BY <2>1, Hearing!FoldEmpty
<1>5. CASE start.from = Empty
  <2>1. /\ srv = NoServer /\ peer = [i \in Ids |-> NewPeer]
        /\ tab = [t \in Tabs |-> NoTab]
    BY <1>1, <1>5 DEF Empty
  <2>2. Told_
    BY <1>2, <2>1 DEF Told_, NewPeer
  <2>3. Shown_
    BY <2>1 DEF Shown_, NoTab
  <2> QED
    BY <1>0, <1>3, <2>1, <2>2, <2>3 DEF Documents_, Versions
<1>6. CASE \E t \in Tabs, c \in Docs : start.from = Begun(t, c, start.from.tab[t].text)
  <2>0. PICK t \in Tabs, c \in Docs : \E text : start.from = Begun(t, c, text)
    BY <1>6
  <2>1. PICK text : start.from = Begun(t, c, text)
    BY <2>0
  <2> DEFINE known == [NewPeer EXCEPT !.alive = TRUE,
                                      !.docs[c] = [open |-> TRUE, version |-> 1, text |-> text]]
  <2>2. /\ srv = [NewServer(1) EXCEPT !.initialized = TRUE, !.version[c] = 1]
        /\ nextId = 2
        /\ peer = [i \in Ids |-> IF i # 1 THEN NewPeer ELSE known]
        /\ tab = [u \in Tabs |-> IF u = t THEN [open |-> TRUE, doc |-> c, text |-> text] ELSE NoTab]
    BY <1>1, <2>1 DEF Begun
  <2>3. /\ srv.id = 1 /\ 1 \in Ids
        /\ srv.version = [[d \in Docs |-> 0] EXCEPT ![c] = 1]
    BY <2>2, ServerIds DEF NewServer, Ids
  <2>4. /\ DOMAIN NewPeer.docs = Docs /\ NewPeer.confused = FALSE
        /\ \A d \in Docs : NewPeer.docs[d] = Unread
    BY DEF NewPeer
  <2>5. /\ known.confused = FALSE /\ DOMAIN known.docs = Docs
        /\ \A d \in Docs : known.docs[d] =
               IF d = c THEN [open |-> TRUE, version |-> 1, text |-> text] ELSE Unread
    BY DEF NewPeer
  <2> HIDE DEF known
  <2>6. Told_
    <3>1. \A i \in Ids : peer[i] = known \/ peer[i] = NewPeer
      BY <2>2
    <3>2. \A i \in Ids : i >= nextId => peer[i] = NewPeer
      BY <1>2, <2>2
    <3> QED
      BY <1>2, <2>4, <2>5, <3>1, <3>2 DEF Told_
  <2>7. Shown_
    BY <2>2 DEF Shown_, NoTab
  <2>8. ASSUME NEW d \in Docs PROVE Knows(srv.version, d, Ahead(srv.id, d))
    <3>1. Start(1, d) = [doc |-> known.docs[d], confused |-> FALSE]
      BY <2>2, <2>3, <2>5 DEF Start
    <3>2. Ahead(srv.id, d) = Start(1, d)
      BY <1>4, <2>3
    <3>3. srv.version[d] = IF d = c THEN 1 ELSE 0
      BY <2>3
    <3> QED
      BY <2>5, <3>1, <3>2, <3>3 DEF Knows, Unread
  <2>9. srv.version \in [Docs -> Nat]
    BY <2>3
  <2> QED
    BY <1>0, <1>3, <2>6, <2>7, <2>8, <2>9 DEF Documents_, Versions
<1> QED
  BY <1>5, <1>6, ClientAssumption

-----------------------------------------------------------------------------
\* Opening or starting leaves records that name their parts.
LEMMA EnsuredNotifiedReports ==
  ASSUME Documents_, NEW e \in Ensured, NEW d \in Docs, NEW text
  PROVE  LET n == Notified(e, d, text)
         IN  /\ Quiet(n) /\ Reports(n)
             /\ n.srv # NoServer =>
                    Hearing!Fold(d, Ahead(n.srv.id, d), n.out).doc.text = text
<1>0. e = [srv |-> e.srv, error |-> e.error, out |-> e.out]
  BY DEF Ensured
<1>1. PICK srv0, error0, out0 : e = [srv |-> srv0, error |-> error0, out |-> out0]
  BY <1>0
<1>2. Quiet(e) /\ Reports(e) /\ Traffic
  BY EnsuredQuiet, EnsuredReports DEF Documents_
<1>3. Channel(out0) /\ (srv0 # NoServer => ServerShape(srv0))
  BY <1>1, <1>2 DEF Quiet, Follows
<1> QED
  BY <1>1, <1>2, <1>3, NotifiedQuiet, NotifiedReports

\* The same for a server that is there, with fewer entries in pending.
LEMMA PresentReports ==
  ASSUME Documents_, NEW s, NEW error,
         s = srv \/ (srv # NoServer /\ ServerShape(s) /\ s.id = srv.id /\ s.version = srv.version
                     /\ s.requestId = srv.requestId /\ s.pending \subseteq srv.pending),
         NEW d \in Docs, NEW text
  PROVE  LET n == Notified([srv |-> s, error |-> error, out |-> <<>>], d, text)
         IN  /\ Quiet(n) /\ Reports(n)
             /\ n.srv # NoServer =>
                    Hearing!Fold(d, Ahead(n.srv.id, d), n.out).doc.text = text
<1> DEFINE e == [srv |-> s, error |-> error, out |-> <<>>]
<1>0. Traffic /\ Channel(<<>>) /\ ToSet(<<>>) = {}
  BY EmptyChannel DEF Documents_
<1>1. Quiet(e) /\ (s # NoServer => ServerShape(s))
  BY <1>0 DEF Quiet, Follows, Traffic, Shapes
<1>2. Reports(e)
  <2>1. \A c, base : Hearing!Fold(c, base, <<>>) = base
    BY Hearing!FoldEmpty
  <2>2. s # NoServer => srv # NoServer /\ s.id = srv.id /\ s.version = srv.version
    OBVIOUS
  <2> QED
    BY <1>0, <2>1, <2>2 DEF Reports, Documents_, Versions
<1> QED
  BY <1>0, <1>1, <1>2, NotifiedQuiet, NotifiedReports

\* A file that is opened: it is told with the text some tab shows.
LEMMA OpenFileDocs ==
  ASSUME Documents_, NEW d \in Docs, NEW t \in Tabs, OpenFile(d, t)
  PROVE  Documents_'
<1>1. PICK text0 \in Texts : OpensInto(d, t, text0)
  BY DEF OpenFile
<1>2. Shown_'
  BY <1>1, ShownStays DEF OpensInto, Documents_
<1>3. PICK u \in Tabs, ensured \in Ensured : Becomes(Notified(ensured, d, tab'[u].text))
  BY DEF OpenFile, NotifyOpen
<1>4. PICK text : text = tab'[u].text
  OBVIOUS
<1>5. PICK n : n = Notified(ensured, d, text)
  OBVIOUS
<1>6. Quiet(n) /\ Reports(n) /\ Becomes(n)
  BY <1>3, <1>4, <1>5, EnsuredNotifiedReports
<1>7. Told_' /\ Versions'
  BY <1>6, BecomesDocs
<1>8. Traffic'
  BY NotifyingSteps DEF Documents_
<1>9. Targets'
  BY TargetsStay DEF Documents_, OpenFile
<1> QED
  BY <1>2, <1>7, <1>8, <1>9 DEF Documents_

\* What the server will know of a file after a key in one of its tabs.
Tells(d, text) == srv' # NoServer => /\ srv'.id \in Ids
                                     /\ Ahead(srv.id, d)'.doc.text = text

\* A key: the server is told with the text the tab shows.
LEMMA KeystrokeDocs ==
  ASSUME Documents_, NEW t \in Tabs, NEW d, d = tab[t].doc, Keystroke(t)
  PROVE  Documents_' /\ Tells(d, tab'[t].text)
<1> DEFINE choices == IF startError THEN {[srv |-> srv, error |-> TRUE, out |-> <<>>]}
                      ELSE Ensured
<1>0. /\ d \in Docs /\ DOMAIN tab = Tabs
      /\ tab[t] = [open |-> tab[t].open, doc |-> tab[t].doc, text |-> tab[t].text]
  BY DEF Keystroke, Documents_, Shown_
<1>1. PICK text : /\ tab' = [tab EXCEPT ![t].text = text]
                  /\ \E ensured \in choices : Becomes(Notified(ensured, d, text))
  BY DEF Keystroke
<1>2. PICK ensured \in choices : Becomes(Notified(ensured, d, text))
  BY <1>1
<1>3. Shown_'
  BY <1>1, ShownStays DEF Keystroke, Documents_
<1>4. tab'[t].text = text
  <2>1. tab'[t] = [open |-> tab[t].open, doc |-> tab[t].doc, text |-> text]
    BY <1>0, <1>1
  <2> QED
    BY <2>1
<1>5. PICK n : n = Notified(ensured, d, text)
  OBVIOUS
<1>6. /\ Quiet(n) /\ Reports(n)
      /\ n.srv # NoServer => Hearing!Fold(d, Ahead(n.srv.id, d), n.out).doc.text = text
  <2>1. CASE startError
    <3>1. ensured = [srv |-> srv, error |-> TRUE, out |-> <<>>]
      BY <2>1
    <3> QED
      BY <1>0, <1>5, <3>1, PresentReports
  <2>2. CASE ~startError
    <3>1. ensured \in Ensured
      BY <2>2
    <3> QED
      BY <1>0, <1>5, <3>1, EnsuredNotifiedReports
  <2> QED
    BY <2>1, <2>2
<1>7. Becomes(n)
  BY <1>2, <1>5
<1>8. /\ Told_' /\ Versions'
      /\ n.srv # NoServer => /\ n.srv.id \in Ids
                             /\ \A c \in Docs : Ahead(n.srv.id, c)' =
                                    Hearing!Fold(c, Ahead(n.srv.id, c), n.out)
  <2> QED
    BY <1>6, <1>7, BecomesDocs
<1>9. Traffic'
  BY NotifyingSteps DEF Documents_
<1>10. Targets'
  BY TargetsStay DEF Documents_, Keystroke
<1>11. srv' = n.srv
  BY <1>7 DEF Becomes
<1>12. ASSUME srv' # NoServer PROVE srv'.id \in Ids /\ Ahead(srv.id, d)'.doc.text = text
  <2>1. n.srv # NoServer /\ srv'.id = n.srv.id
    BY <1>11, <1>12
  <2>2. Ahead(n.srv.id, d)' = Hearing!Fold(d, Ahead(n.srv.id, d), n.out)
    BY <1>0, <1>8, <2>1
  <2>3. Ahead(srv.id, d)' = Ahead(n.srv.id, d)'
    BY <2>1
  <2> QED
    BY <1>6, <1>8, <2>1, <2>2, <2>3
<1>13. Tells(d, tab'[t].text)
  BY <1>4, <1>12 DEF Tells
<1> QED
  BY <1>3, <1>4, <1>8, <1>9, <1>10, <1>13 DEF Documents_

\* A definition in a file that is opened for it.
LEMMA DefinitionDocs == ASSUME Documents_, ApplyDefinition PROVE Documents_'
<1> DEFINE event == Head(events)
           d == event.to
           answered == [srv |-> Answered(event), error |-> startError, out |-> <<>>]
<1>0. Traffic
  BY DEF Documents_
<1>1. /\ events # <<>> /\ events' = Tail(events) /\ Expected(event)
      /\ event \in ToSet(events) /\ event.type = "LspResponse"
      /\ event = events[1] /\ 1 \in DOMAIN events
      /\ \E r \in PendingEntry(event) : r.kind = "definition"
  <2>1. Channel(events) /\ events # <<>>
    BY <1>0 DEF ApplyDefinition, EventIs, Traffic, Shapes
  <2>2. Head(events) \in ToSet(events) /\ Head(events) = events[1]
        /\ Len(events) \in Nat \ {0}
    BY <2>1, ReceiveFrame
  <2>3. DOMAIN events = 1 .. Len(events)
    BY <2>1 DEF Channel
  <2> QED
    BY <2>1, <2>2, <2>3 DEF ApplyDefinition, EventIs, PendingAs
<1>2. srv # NoServer
  BY <1>0, <1>1, ServerIds DEF Expected, Traffic, Labelled, NoServer
<1>3. event.request.kind = "definition"
  <2>1. AnswersMeetTheirRequest
    BY <1>0, TrafficAnswers
  <2>2. events[1].type = "LspResponse" /\ Expected(events[1])
    BY <1>1
  <2>3. \A r \in PendingEntry(events[1]) : r.kind = events[1].request.kind
    BY <1>1, <2>1, <2>2 DEF AnswersMeetTheirRequest
  <2> QED
    BY <1>1, <2>3
<1>4. d \in Docs
  BY <1>1, <1>3 DEF Documents_, Targets
<1>5. PICK t \in Tabs, text0 \in Texts :
          /\ OpensInto(d, t, text0)
          /\ Becomes(Notified(answered, d, tab'[t].text))
  BY DEF ApplyDefinition
<1>6. PICK text : text = tab'[t].text
  OBVIOUS
<1>7. PICK n : n = Notified(answered, d, text)
  OBVIOUS
<1>8. PICK s : s = Answered(event)
  OBVIOUS
<1>9. /\ ServerShape(s) /\ s.id = srv.id /\ s.version = srv.version
      /\ s.requestId = srv.requestId /\ s.pending \subseteq srv.pending
  <2>1. ServerShape(srv)
    BY <1>0, <1>2 DEF Traffic, Shapes
  <2>2. s.version = srv.version
    BY <1>8, <2>1 DEF Answered, ServerShape
  <2> QED
    BY <1>0, <1>2, <1>8, <2>2, AnsweredShape
<1>10. Quiet(n) /\ Reports(n)
  <2>1. n = Notified([srv |-> s, error |-> startError, out |-> <<>>], d, text)
    BY <1>7, <1>8
  <2> HIDE DEF d, event
  <2> QED
    BY <1>2, <1>4, <1>9, <2>1, PresentReports
<1>11. Becomes(n)
  BY <1>5, <1>6, <1>7
<1> HIDE DEF d, answered, event
<1>12. Told_' /\ Versions'
  BY <1>10, <1>11, BecomesDocs
<1>13. Shown_'
  BY <1>4, <1>5, ShownStays DEF OpensInto, Documents_
<1>14. Traffic'
  BY <1>0, NotifyingSteps
<1>15. Targets'
  BY <1>1, TargetsStay DEF Documents_
<1> QED
  BY <1>12, <1>13, <1>14, <1>15 DEF Documents_

\* A message of another kind leaves what is known as it was.
LEMMA TellUnheard ==
  ASSUME Documents_, NEW m, ~OfDoc(m), About(m), srv # NoServer, Tell(m),
         UNCHANGED <<peer, nextId>>, srv'.id = srv.id, srv'.version = srv.version
  PROVE  Told_' /\ Versions'
<1>1. \A d, state : Heard(d, state, m) = state
  BY HeardOther
<1>2. /\ srv.version \in [Docs -> Nat]
      /\ \A d \in Docs : Knows(srv.version, d, Ahead(srv.id, d))
  BY DEF Documents_, Versions
<1>3. /\ srv'.version \in [Docs -> Nat]
      /\ \A d \in Docs : Knows(srv'.version, d, Heard(d, Ahead(srv.id, d), m))
  BY <1>1, <1>2
<1> QED
  BY <1>3, TellDocs

\* A file of which a tab is closed is closed at the server.
LEMMA CloseTabDocs == ASSUME Documents_, NEW t \in Tabs, CloseTab(t) PROVE Documents_'
<1>0. Traffic
  BY DEF Documents_
<1>1. Shown_'
  BY ShownStays DEF CloseTab, Documents_
<1>2. Targets'
  BY <1>0, TargetsStay DEF CloseTab, Documents_
<1>3. Traffic'
  BY <1>0, TellingSteps
<1>4. Told_' /\ Versions'
  <2>1. CASE srv = NoServer
    <3>1. UNCHANGED <<wire, nextId, peer, srv>>
      BY <2>1 DEF CloseTab
    <3> QED
      BY <2>1, <3>1, SilentDocs
  <2>2. CASE srv # NoServer
    <3>1. PICK d : d = tab[t].doc
      OBVIOUS
    <3>2. d \in Docs
      BY <3>1 DEF CloseTab, Documents_, Shown_
    <3>3. PICK m : m = DidClose(d)
      OBVIOUS
    <3>4. OfDoc(m) /\ m.doc = d
      BY <3>3 DEF DidClose, OfDoc
    <3>5. /\ srv' = [srv EXCEPT !.version[d] = 0] /\ Tell(m)
          /\ UNCHANGED <<peer, nextId>>
      BY <2>2, <3>1, <3>3 DEF CloseTab
    <3>6. ServerShape(srv)
      BY <1>0, <2>2 DEF Traffic, Shapes
    <3>7. srv'.id = srv.id /\ srv'.version = [srv.version EXCEPT ![d] = 0]
      BY <3>5, <3>6 DEF ServerShape
    <3>8. /\ srv.version \in [Docs -> Nat]
          /\ \A c \in Docs : Knows(srv.version, c, Ahead(srv.id, c))
      BY <2>2 DEF Documents_, Versions
    <3>9. srv'.version \in [Docs -> Nat] /\ \A c \in Docs \ {d} : srv'.version[c] = srv.version[c]
      BY <3>2, <3>7, <3>8
    <3>10. ASSUME NEW c \in Docs PROVE Knows(srv'.version, c, Heard(c, Ahead(srv.id, c), m))
      <4>1. PICK state : state = Ahead(srv.id, c)
        OBVIOUS
      <4>2. Knows(srv.version, c, state)
        BY <3>8, <4>1
      <4>3. CASE c = d
        <5>1. PICK version \in [Docs -> Nat] : version = srv.version
          BY <3>8
        <5>2. HeardBy(version, d, state, <<>>)
          BY <3>2, <4>2, <4>3, <5>1, HeardNext
        <5>3. Knows([version EXCEPT ![d] = 0], d, Heard(d, state, m))
          BY <3>3, <5>2 DEF HeardBy
        <5> QED
          BY <3>7, <4>1, <4>3, <5>1, <5>3
      <4>4. CASE c # d
        <5>1. Heard(c, state, m) = state
          BY <3>4, <4>4, HeardOther
        <5>2. srv'.version[c] = srv.version[c]
          BY <3>9, <4>4
        <5> QED
          BY <4>1, <4>2, <5>1, <5>2 DEF Knows
      <4> QED
        BY <4>3, <4>4
    <3>11. About(m)
      BY <3>2, <3>4 DEF About
    <3> QED
      BY <2>2, <3>5, <3>7, <3>9, <3>10, <3>11, TellDocs
  <2> QED
    BY <2>1, <2>2
<1> QED
  BY <1>1, <1>2, <1>3, <1>4 DEF Documents_

\* A question tells the server of no text.
LEMMA AskDocs ==
  ASSUME Documents_, NEW t \in Tabs, NEW kind \in Kinds, Ask(t, kind)
  PROVE  Documents_'
<1>0. Traffic
  BY DEF Documents_
<1>1. Traffic' /\ Shown_' /\ Targets'
  BY <1>0, AskStep, ShownStays, TargetsStay DEF Ask, Documents_
<1>2. PICK m : m = Request(srv.requestId + 1, kind, tab[t].doc)
  OBVIOUS
<1>3. ~OfDoc(m) /\ About(m)
  BY <1>2 DEF Request, OfDoc, About
<1>4. srv # NoServer /\ Tell(m) /\ UNCHANGED <<peer, nextId>>
  BY <1>2 DEF Ask
<1>5. srv'.id = srv.id /\ srv'.version = srv.version
  <2>1. ServerShape(srv)
    BY <1>0, <1>4 DEF Traffic, Shapes
  <2> QED
    BY <2>1 DEF Ask, ServerShape
<1>6. Told_' /\ Versions'
  BY <1>3, <1>4, <1>5, TellUnheard
<1> QED
  BY <1>1, <1>6 DEF Documents_

\* Neither does initialized.
LEMMA ServerReadyDocs == ASSUME Documents_, ServerReady PROVE Documents_'
<1>0. Traffic
  BY DEF Documents_
<1>1. /\ events # <<>> /\ events' = Tail(events) /\ UNCHANGED <<peer, nextId, tab>>
      /\ Head(events).server \in Ids
  BY <1>0, ReceiveFrame DEF ServerReady, EventIs, Traffic, Shapes, Labelled
<1>2. Traffic' /\ Shown_' /\ Targets'
  BY <1>0, <1>1, TellingSteps, ShownStays, TargetsStay DEF Documents_
<1>3. CASE UNCHANGED <<srv, wire>>
  <2>1. Told_' /\ Versions'
    BY <1>1, <1>3, SilentDocs
  <2> QED
    BY <1>2, <2>1 DEF Documents_
<1>4. CASE srv # NoServer /\ Tell(Initialized) /\ srv' = [srv EXCEPT !.initialized = TRUE]
  <2>1. ServerShape(srv) /\ ~OfDoc(Initialized) /\ About(Initialized)
    BY <1>0, <1>4 DEF Traffic, Shapes, Initialized, OfDoc, About
  <2>2. srv'.id = srv.id /\ srv'.version = srv.version
    BY <1>4, <2>1 DEF ServerShape
  <2>3. Told_' /\ Versions'
    BY <1>1, <1>4, <2>1, <2>2, TellUnheard
  <2> QED
    BY <1>2, <2>3 DEF Documents_
<1> QED
  BY <1>1, <1>3, <1>4, ServerIds DEF ServerReady, NoServer

\* What writes nothing to the server.
LEMMA ReadingDocs ==
  ASSUME Documents_,
         \/ \E t \in Tabs : ReplaceText(t)
         \/ StopServer \/ ServerGone \/ IgnoreResponse \/ ApplyReferences \/ ApplyEdits
  PROVE  Documents_'
<1>0. Traffic
  BY DEF Documents_
<1>1. Traffic'
  BY <1>0, ReadingSteps
<1>2. events' = events \/ (events # <<>> /\ events' = Tail(events))
  BY DEF ReplaceText, StopServer, ServerGone, IgnoreResponse, ApplyReferences, ApplyEdits, EventIs
<1>3. Targets'
  BY <1>0, <1>2, TargetsStay DEF Documents_
<1>4. Shown_'
  <2>1. CASE \E t \in Tabs : ReplaceText(t)
    BY <2>1, ShownStays DEF ReplaceText, Documents_
  <2>2. CASE StopServer \/ ServerGone \/ IgnoreResponse \/ ApplyReferences
    BY <2>2, ShownStays DEF StopServer, ServerGone, IgnoreResponse, ApplyReferences, Documents_
  <2>3. CASE ApplyEdits
    <3>1. \/ tab' = tab
          \/ \E t \in Tabs : tab[t].open /\ \E text : tab' = [tab EXCEPT ![t].text = text]
      BY <2>3 DEF ApplyEdits, Shows
    <3> QED
      BY <3>1, ShownStays DEF Documents_
  <2> QED
    BY <2>1, <2>2, <2>3
<1>5. /\ UNCHANGED <<wire, nextId, peer>>
      /\ \/ srv' = NoServer \/ srv' = srv
         \/ srv # NoServer /\ srv'.id = srv.id /\ srv'.version = srv.version
  <2>1. CASE ApplyReferences \/ ApplyEdits
    <3>1. /\ srv' = Answered(Head(events)) /\ UNCHANGED <<wire, nextId, peer>>
          /\ events # <<>> /\ srv.id = Head(events).server
      BY <2>1 DEF ApplyReferences, ApplyEdits, PendingAs, Expected, EventIs
    <3>2. srv # NoServer
      BY <1>0, <3>1, ReceiveFrame, ServerIds DEF Traffic, Shapes, Labelled, NoServer
    <3>3. ServerShape(srv)
      BY <1>0, <3>2 DEF Traffic, Shapes
    <3>4. srv'.id = srv.id /\ srv'.version = srv.version
      BY <3>1, <3>3 DEF Answered, ServerShape
    <3> QED
      BY <3>1, <3>2, <3>4
  <2>2. CASE (\E t \in Tabs : ReplaceText(t)) \/ StopServer \/ ServerGone \/ IgnoreResponse
    BY <2>2 DEF ReplaceText, StopServer, ServerGone, IgnoreResponse
  <2> QED
    BY <2>1, <2>2
<1>6. Told_' /\ Versions'
  BY <1>5, SilentDocs
<1> QED
  BY <1>1, <1>3, <1>4, <1>6 DEF Documents_

-----------------------------------------------------------------------------
\* A server that is up to what was written to it is not confused.
LEMMA NotConfused ==
  ASSUME Documents_, srv # NoServer, NEW d \in Docs
  PROVE  /\ peer[srv.id].confused = FALSE
         /\ \A m : wire[srv.id] # <<>> /\ m = Head(wire[srv.id]) /\ OfDoc(m) /\ m.doc = d =>
                ~Confusing(peer[srv.id].docs[d], m)
<1> DEFINE i == srv.id
<1>0. /\ i \in Ids /\ Channel(wire[i]) /\ peer[i].confused \in BOOLEAN
  BY DEF Documents_, Traffic, Shapes, Told_, ServerShape
<1>1. ~Ahead(i, d).confused
  BY DEF Documents_, Versions, Knows
<1>2. Ahead(i, d) = Hearing!Fold(d, Start(i, d), wire[i])
  BY AheadFolds
<1>3. PICK q : q = wire[i]
  OBVIOUS
<1>4. PICK doc : doc = peer[i].docs[d]
  OBVIOUS
<1>5. peer[i].confused = FALSE
  <2> SUFFICES ASSUME peer[i].confused = TRUE PROVE FALSE
    BY <1>0
  <2>1. Start(i, d) = [doc |-> doc, confused |-> TRUE]
    BY <1>4 DEF Start
  <2>2. ~Hearing!Fold(d, [doc |-> doc, confused |-> TRUE], q).confused
    BY <1>1, <1>2, <1>3, <2>1
  <2> HIDE DEF i
  <2> QED
    BY <1>0, <1>3, <2>2, StaysConfused
<1>6. ASSUME NEW m, q # <<>>, m = Head(q), OfDoc(m), m.doc = d, Confusing(doc, m)
      PROVE  FALSE
  <2>1. Start(i, d) = [doc |-> doc, confused |-> FALSE]
    BY <1>4, <1>5 DEF Start
  <2>2. PICK base : base = [doc |-> doc, confused |-> FALSE]
    OBVIOUS
  <2> DEFINE S == ToSet(q)
  <2>3. q \in Seq(S)
    BY <1>0, <1>3 DEF Channel
  <2>4. Hearing!Fold(d, base, q) = Hearing!Fold(d, Heard(d, base, Head(q)), Tail(q))
    <3> HIDE DEF S
    <3> QED
      BY <1>6, <2>3, Hearing!FoldHead
  <2>5. PICK after : after = DocAfter(doc, m)
    OBVIOUS
  <2>6. Heard(d, base, m) = [doc |-> after, confused |-> TRUE]
    <3>1. (base.confused \/ Confusing(base.doc, m)) = TRUE
      BY <1>6, <2>2
    <3>2. base.doc = doc
      BY <2>2
    <3> QED
      BY <1>6, <2>5, <3>1, <3>2 DEF Heard, OfDoc
  <2>7. ~Hearing!Fold(d, [doc |-> after, confused |-> TRUE], Tail(q)).confused
    BY <1>1, <1>2, <1>3, <1>6, <2>1, <2>2, <2>4, <2>6
  <2>8. Channel(Tail(q))
    BY <1>0, <1>3, <1>6, ReceiveFrame
  <2> QED
    BY <2>7, <2>8, StaysConfused
<1> QED
  BY <1>3, <1>4, <1>5, <1>6

\* What a server is after a message.
LEMMA ToldParts ==
  ASSUME NEW p, PeerShape(p), DOMAIN p.docs = Docs, NEW m, m.doc \in Docs
  PROVE  /\ DOMAIN Told(p, m).docs = Docs
         /\ \A d \in Docs : Told(p, m).docs[d] =
                IF d = m.doc THEN DocAfter(p.docs[d], m) ELSE p.docs[d]
         /\ Told(p, m).confused = (p.confused \/ Confusing(p.docs[m.doc], m))
<1>1. Told(p, m) = [p EXCEPT !.docs = [p.docs EXCEPT ![m.doc] = DocAfter(p.docs[m.doc], m)],
                             !.confused = p.confused \/ Confusing(p.docs[m.doc], m)]
  BY DEF Told
<1>2. PICK docs : docs = [p.docs EXCEPT ![m.doc] = DocAfter(p.docs[m.doc], m)]
  OBVIOUS
<1>3. DOMAIN docs = Docs /\ \A d \in Docs : docs[d] =
          IF d = m.doc THEN DocAfter(p.docs[d], m) ELSE p.docs[d]
  BY <1>2
<1>4. CASE (p.confused \/ Confusing(p.docs[m.doc], m)) = TRUE
  <2>1. Told(p, m) = [alive |-> p.alive, asked |-> p.asked, docs |-> docs, confused |-> TRUE]
    BY <1>1, <1>2, <1>4 DEF PeerShape
  <2>2. Told(p, m).docs = docs /\ Told(p, m).confused = TRUE
    BY <2>1
  <2>3. Told(p, m).confused = (p.confused \/ Confusing(p.docs[m.doc], m))
    BY <1>4, <2>2
  <2> QED
    BY <1>3, <2>2, <2>3
<1>5. CASE (p.confused \/ Confusing(p.docs[m.doc], m)) = FALSE
  <2>1. Told(p, m) = [alive |-> p.alive, asked |-> p.asked, docs |-> docs, confused |-> FALSE]
    BY <1>1, <1>2, <1>5 DEF PeerShape
  <2>2. Told(p, m).docs = docs /\ Told(p, m).confused = FALSE
    BY <2>1
  <2>3. Told(p, m).confused = (p.confused \/ Confusing(p.docs[m.doc], m))
    BY <1>5, <2>2
  <2> QED
    BY <1>3, <2>2, <2>3
<1> QED
  BY <1>4, <1>5

\* The server takes what was written in the order it was written, so what it
\* will know stays the same.
LEMMA PeerReadsDocs == ASSUME Documents_, NEW i \in Ids, PeerReads(i) PROVE Documents_'
<1>0. /\ Traffic /\ Told_
      /\ DOMAIN wire = Ids /\ DOMAIN peer = Ids /\ \A j \in Ids : PeerShape(peer[j])
      /\ \A j \in Ids : Channel(wire[j]) /\ j \in Nat
      /\ nextId \in Nat
  BY ServerIds DEF Documents_, Traffic, Shapes
<1>1. /\ wire' = [wire EXCEPT ![i] = Tail(wire[i])] /\ wire[i] # <<>>
      /\ UNCHANGED <<srv, nextId, tab>>
  BY DEF PeerReads
<1>2. PICK m : m = Head(wire[i])
  OBVIOUS
<1>3. /\ m \in ToSet(wire[i]) /\ About(m)
      /\ ToSet(Tail(wire[i])) \subseteq ToSet(wire[i]) /\ Channel(Tail(wire[i]))
  BY <1>0, <1>1, <1>2, ReceiveFrame DEF Told_
<1>4. i < nextId
  BY <1>0, <1>1 DEF Told_
<1>5. /\ DOMAIN peer' = Ids
      /\ \A j \in Ids \ {i} : peer'[j] = peer[j]
      /\ ~OfDoc(m) => peer'[i].docs = peer[i].docs /\ peer'[i].confused = peer[i].confused
      /\ OfDoc(m) => peer'[i] = Told(peer[i], m)
  <2>1. CASE m.method \in {"initialize", "initialized"}
    <3>1. peer' = peer
      BY <1>2, <2>1 DEF PeerReads
    <3> QED
      BY <1>0, <2>1, <3>1 DEF OfDoc
  <2>2. CASE m.method = "request"
    <3>1. peer' = [peer EXCEPT ![i].asked = peer[i].asked \cup {m}]
      BY <1>2, <2>2 DEF PeerReads
    <3>2. PeerShape(peer[i])
      BY <1>0
    <3>3. PICK asked : asked = peer[i].asked \cup {m}
      OBVIOUS
    <3>4. peer' = [peer EXCEPT ![i] = [peer[i] EXCEPT !.asked = asked]]
      BY <3>1, <3>3
    <3>5. PICK p : p = [peer[i] EXCEPT !.asked = asked]
      OBVIOUS
    <3>6. p.docs = peer[i].docs /\ p.confused = peer[i].confused
      BY <3>2, <3>5, AskedKnows
    <3> QED
      BY <1>0, <2>2, <3>4, <3>5, <3>6 DEF OfDoc
  <2>3. CASE OfDoc(m)
    <3>1. peer' = [peer EXCEPT ![i] = Told(peer[i], m)]
      BY <1>2, <2>3 DEF PeerReads, OfDoc
    <3>2. PICK p : p = Told(peer[i], m)
      OBVIOUS
    <3> QED
      BY <1>0, <2>3, <3>1, <3>2
  <2> QED
    BY <1>3, <2>1, <2>2, <2>3 DEF About, OfDoc
<1>6. ASSUME OfDoc(m)
      PROVE  /\ m.doc \in Docs
             /\ DOMAIN peer'[i].docs = Docs
             /\ \A d \in Docs : peer'[i].docs[d] =
                    IF d = m.doc THEN DocAfter(peer[i].docs[d], m) ELSE peer[i].docs[d]
             /\ peer'[i].confused = (peer[i].confused \/ Confusing(peer[i].docs[m.doc], m))
  <2>1. m.doc \in Docs
    BY <1>3, <1>6 DEF About, OfDoc
  <2>2. PeerShape(peer[i]) /\ DOMAIN peer[i].docs = Docs
    BY <1>0 DEF Told_
  <2> QED
    BY <1>5, <1>6, <2>1, <2>2, ToldParts
<1>7. Told_'
  <2>1. \A j \in Ids : \A x \in ToSet(wire'[j]) : About(x)
    BY <1>0, <1>1, <1>3 DEF Told_
  <2>2. ASSUME NEW j \in Ids
        PROVE  DOMAIN peer'[j].docs = Docs /\ peer'[j].confused \in BOOLEAN
    <3>0. DOMAIN peer[j].docs = Docs /\ peer[j].confused \in BOOLEAN
      BY <1>0 DEF Told_
    <3>1. CASE j # i \/ ~OfDoc(m)
      BY <1>5, <3>0, <3>1
    <3>2. CASE j = i /\ OfDoc(m)
      <4>1. (peer[i].confused \/ Confusing(peer[i].docs[m.doc], m)) \in BOOLEAN
        OBVIOUS
      <4> QED
        BY <1>6, <3>2, <4>1
    <3> QED
      BY <3>1, <3>2
  <2>3. \A j \in Ids : j >= nextId' => j # i /\ j >= nextId /\ wire'[j] = wire[j]
    BY <1>0, <1>1, <1>4
  <2>4. \A j \in Ids : j >= nextId' => /\ wire'[j] = <<>> /\ ~peer'[j].confused
                                       /\ \A d \in Docs : peer'[j].docs[d] = Unread
    BY <1>0, <1>5, <2>3 DEF Told_
  <2> QED
    BY <2>1, <2>2, <2>4 DEF Told_
<1>8. ASSUME srv # NoServer, NEW d \in Docs PROVE Ahead(srv.id, d)' = Ahead(srv.id, d)
  <2>1. PICK j : j = srv.id
    OBVIOUS
  <2>2. j \in Ids /\ srv' = srv
    BY <1>0, <1>1, <1>8, <2>1 DEF Traffic, Shapes, ServerShape
  <2>3. CASE j # i
    <3>1. Start(j, d)' = Start(j, d) /\ wire'[j] = wire[j]
      BY <1>0, <1>1, <1>5, <2>2, <2>3 DEF Start
    <3>2. Ahead(j, d)' = Ahead(j, d)
      BY <3>1, AheadFolds
    <3> QED
      BY <2>1, <2>2, <3>2
  <2>4. CASE j = i
    <3>1. PICK base : base = Start(i, d)
      OBVIOUS
    <3>2. PICK q : q = wire[i]
      OBVIOUS
    <3>3. peer[i].confused = FALSE
      BY <1>8, <2>1, <2>4, NotConfused
    <3>4. Start(i, d)' = Heard(d, base, m)
      <4>1. CASE ~OfDoc(m)
        <5>1. Start(i, d)' = base
          BY <1>5, <3>1, <4>1 DEF Start
        <5>2. Heard(d, base, m) = base
          BY <4>1, HeardOther
        <5> QED
          BY <5>1, <5>2
      <4>2. CASE OfDoc(m)
        <5>1. m.doc \in Docs
          BY <1>6, <4>2
        <5>2. ~Confusing(peer[i].docs[m.doc], m)
          BY <1>1, <1>2, <1>8, <2>1, <2>4, <4>2, <5>1, NotConfused
        <5>3. (peer[i].confused \/ Confusing(peer[i].docs[m.doc], m)) = FALSE
          BY <3>3, <5>2
        <5>4. peer'[i].confused = FALSE
          BY <1>6, <4>2, <5>3
        <5>5. CASE m.doc = d
          <6>1. Start(i, d)' = [doc |-> DocAfter(peer[i].docs[d], m), confused |-> FALSE]
            BY <1>6, <4>2, <5>4, <5>5 DEF Start
          <6>2. (base.confused \/ Confusing(base.doc, m)) = FALSE
            BY <3>1, <5>3, <5>5 DEF Start
          <6>3. Heard(d, base, m) = [doc |-> DocAfter(base.doc, m), confused |-> FALSE]
            BY <4>2, <5>5, <6>2 DEF Heard, OfDoc
          <6>4. base.doc = peer[i].docs[d]
            BY <3>1 DEF Start
          <6> QED
            BY <6>1, <6>3, <6>4
        <5>6. CASE m.doc # d
          <6>1. Start(i, d)' = base
            BY <1>6, <3>1, <3>3, <4>2, <5>4, <5>6 DEF Start
          <6>2. Heard(d, base, m) = base
            BY <5>6, HeardOther
          <6> QED
            BY <6>1, <6>2
        <5> QED
          BY <5>5, <5>6
      <4> QED
        BY <4>1, <4>2
    <3>5. Hearing!Fold(d, base, q) = Hearing!Fold(d, Heard(d, base, Head(q)), Tail(q))
      <4> DEFINE S == ToSet(q)
      <4>1. q \in Seq(S) /\ q # <<>>
        BY <1>0, <1>1, <3>2 DEF Channel
      <4> HIDE DEF S
      <4> QED
        BY <4>1, Hearing!FoldHead
    <3>6. Ahead(i, d)' = Hearing!Fold(d, Start(i, d)', wire'[i])
      BY AheadFolds
    <3>7. wire'[i] = Tail(q) /\ m = Head(q)
      BY <1>0, <1>1, <1>2, <3>2
    <3>8. Ahead(i, d) = Hearing!Fold(d, base, q)
      BY <3>1, <3>2, AheadFolds
    <3>9. Ahead(i, d)' = Ahead(i, d)
      BY <3>4, <3>5, <3>6, <3>7, <3>8
    <3>10. Ahead(srv.id, d)' = Ahead(i, d)'
      BY <2>1, <2>2, <2>4
    <3> QED
      BY <2>1, <2>4, <3>9, <3>10
  <2> QED
    BY <2>3, <2>4
<1>9. Versions'
  BY <1>1, <1>8 DEF Documents_, Versions
<1>10. Targets'
  <2>1. \/ events' = events
        \/ events' = Append(events, [type |-> "LspOutput", server |-> i])
    BY DEF PeerReads
  <2>2. ToSet(events') \subseteq ToSet(events) \cup {[type |-> "LspOutput", server |-> i]}
    <3>1. PICK e : e = [type |-> "LspOutput", server |-> i]
      OBVIOUS
    <3>2. ToSet(Append(events, e)) = ToSet(events) \cup {e}
      BY <1>0, SendFrame DEF Traffic, Shapes
    <3> QED
      BY <2>1, <3>1, <3>2
  <2> QED
    BY <2>2 DEF Documents_, Targets
<1>11. Shown_'
  BY <1>1, ShownStays DEF Documents_
<1>12. Traffic'
  BY <1>0, PeerReadsStep
<1> QED
  BY <1>7, <1>9, <1>10, <1>11, <1>12 DEF Documents_

\* An answer and an end change nothing the server knows.
LEMMA PeerEndsDocs ==
  ASSUME Documents_, NEW i \in Ids, PeerAnswers(i) \/ PeerDies(i)
  PROVE  Documents_'
<1>0. /\ Traffic /\ DOMAIN peer = Ids /\ \A j \in Ids : PeerShape(peer[j])
      /\ Channel(events)
  BY DEF Documents_, Traffic, Shapes
<1>1. Traffic'
  BY <1>0, PeerAnswersStep, PeerDiesStep
<1>2. UNCHANGED <<srv, nextId, wire, tab>>
  BY DEF PeerAnswers, PeerDies
<1>3. /\ \A j \in Ids : peer'[j].docs = peer[j].docs /\ peer'[j].confused = peer[j].confused
      /\ Targets'
  <2>1. CASE PeerAnswers(i)
    <3>0. PICK request \in peer[i].asked : \E base, meant : \E to \in Docs :
             /\ peer' = [peer EXCEPT ![i].asked = @ \ {request}]
             /\ events' = Append(events, [type |-> "LspResponse", server |-> i,
                    id |-> request.id, request |-> request, base |-> base,
                    meant |-> meant, edits |-> Sent(base, meant),
                    to |-> IF request.kind = "definition" THEN to ELSE request.doc])
      BY <2>1, ZenonT(60) DEF PeerAnswers
    <3>1. PICK base, meant : \E to \in Docs :
             events' = Append(events, [type |-> "LspResponse", server |-> i,
                    id |-> request.id, request |-> request, base |-> base,
                    meant |-> meant, edits |-> Sent(base, meant),
                    to |-> IF request.kind = "definition" THEN to ELSE request.doc])
      BY <3>0
    <3>2. PICK event : /\ events' = Append(events, event)
                       /\ event.request = request
                       /\ request.kind = "definition" => event.to \in Docs
      BY <3>1
    <3>8. peer' = [peer EXCEPT ![i].asked = peer[i].asked \ {request}]
      BY <3>0
    <3>3. PICK p : p = [peer[i] EXCEPT !.asked = peer[i].asked \ {request}]
      OBVIOUS
    <3>4. p.docs = peer[i].docs /\ p.confused = peer[i].confused
      BY <1>0, <3>3, AskedKnows
    <3>7. peer' = [peer EXCEPT ![i] = p]
      BY <3>3, <3>8
    <3>5. ToSet(events') = ToSet(events) \cup {event}
      BY <1>0, <3>2, SendFrame
    <3>6. Targets'
      BY <3>2, <3>5 DEF Documents_, Targets
    <3> QED
      BY <1>0, <3>4, <3>6, <3>7
  <2>2. CASE PeerDies(i)
    <3>1. PICK e : e = [type |-> "LspServerStopped", server |-> i]
      OBVIOUS
    <3>2. events' = Append(events, e) /\ e.type # "LspResponse"
      BY <2>2, <3>1 DEF PeerDies
    <3>3. ToSet(events') = ToSet(events) \cup {e}
      BY <1>0, <3>2, SendFrame
    <3>4. Targets'
      BY <3>2, <3>3 DEF Documents_, Targets
    <3>5. PICK p : p = [peer[i] EXCEPT !.alive = FALSE]
      OBVIOUS
    <3>6. p.docs = peer[i].docs /\ p.confused = peer[i].confused
      BY <1>0, <3>5, WokenKnows
    <3>7. peer' = [peer EXCEPT ![i] = p]
      BY <2>2, <3>5 DEF PeerDies
    <3> QED
      BY <1>0, <3>4, <3>6, <3>7
  <2> QED
    BY <2>1, <2>2
<1>4. Told_' /\ Versions'
  BY <1>2, <1>3, SilentDocs
<1>5. Shown_'
  BY <1>2, ShownStays DEF Documents_
<1> QED
  BY <1>1, <1>3, <1>4, <1>5 DEF Documents_

\* Every step leaves the versions those the server will know.
LEMMA StepDocs == ASSUME Documents_, [ClientNext]_clientVars PROVE Documents_'
<1>1. CASE UNCHANGED clientVars
  <2>1. Traffic' /\ Targets' /\ Shown_'
    BY <1>1, StepTraffic, TargetsStay, ShownStays DEF Documents_, clientVars
  <2>2. UNCHANGED <<wire, nextId, peer, srv>>
    BY <1>1 DEF clientVars
  <2>3. Told_' /\ Versions'
    BY <2>2, SilentDocs
  <2> QED
    BY <2>1, <2>3 DEF Documents_
<1>2. ASSUME NEW t \in Tabs, Keystroke(t) PROVE Documents_'
  <2>1. PICK d : d = tab[t].doc
    OBVIOUS
  <2> QED
    BY <1>2, <2>1, KeystrokeDocs
<1> QED
  BY <1>1, <1>2, OpenFileDocs, DefinitionDocs, CloseTabDocs, AskDocs, ServerReadyDocs, ReadingDocs,
     PeerReadsDocs, PeerEndsDocs DEF ClientNext

(* The versions kept here are what the server knows once it has read what   *)
(* is on its way: no document is opened twice, changed while closed or sent *)
(* with an old version, however tabs, servers and answers come and go       *)
(* (lsp.rs 416-454).                                                        *)
THEOREM VersionsAlwaysMatchServer == ClientSpec => []VersionsMatchServer
<1>1. ClientInit => Documents_
  BY InitDocs
<1>2. Documents_ /\ [ClientNext]_clientVars => Documents_'
  BY StepDocs
<1>3. Documents_ => VersionsMatchServer
  BY DEF Documents_, Versions, VersionsMatchServer, Knows
<1> QED
  BY <1>1, <1>2, <1>3, PTL DEF ClientSpec

(* A key leaves the server with the text of the tab it was pressed in,      *)
(* once it has read what is on its way, whatever changed that text or       *)
(* stopped and started the server before (main.rs 9657).                    *)
THEOREM KeystrokesAlwaysReachServer == ClientSpec => KeystrokesReachServer
<1> DEFINE Reached == \A t \in Tabs, i \in Ids, d \in Docs :
               Keystroke(t) /\ srv'.id = i /\ Shows(t, d) =>
                   Ahead(i, d)'.doc.text = tab'[t].text
<1>1. ClientInit => Documents_
  BY InitDocs
<1>2. Documents_ /\ [ClientNext]_clientVars => Documents_'
  BY StepDocs
<1>3. Documents_ => Reached
  <2> SUFFICES ASSUME Documents_, NEW t \in Tabs, NEW i \in Ids, NEW d \in Docs,
                      Keystroke(t), srv'.id = i, Shows(t, d)
               PROVE  Ahead(i, d)'.doc.text = tab'[t].text
    OBVIOUS
  <2>1. d = tab[t].doc
    BY DEF Shows
  <2>2. Tells(d, tab'[t].text)
    BY <2>1, KeystrokeDocs
  <2>3. srv' # NoServer
    BY ServerIds DEF NoServer
  <2>4. Ahead(srv.id, d)' = Ahead(i, d)'
    OBVIOUS
  <2> QED
    BY <2>2, <2>3, <2>4 DEF Tells
<1>4. Documents_ /\ [ClientNext]_clientVars => [Reached]_clientVars
  BY <1>3
<1> QED
  BY <1>1, <1>2, <1>4, PTL DEF ClientSpec, KeystrokesReachServer
=============================================================================
