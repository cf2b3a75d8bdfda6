----------------------------- MODULE CollabSafety -----------------------------
(***************************************************************************)
(* The properties of a collaborative session.                              *)
(***************************************************************************)
EXTENDS CollabSession

\* The kinds of frames the host can be sent, the phases, and the sets the control
\* variables range over (documents and payloads are left to the properties).
HostFrames == {"Join", "Op", "CursorUpdate", "RoleChangeRequest", "Left"}
TypeOK ==
    /\ nextSiteId \in 1 .. MaxSites + 1
    /\ guestTxs \subseteq 1 .. nextSiteId - 1 /\ linkUp \subseteq guestTxs
    /\ phase \in [Sites -> {"idle", "connecting", "joined", "detached", "closed"}]
    /\ active \in [Nodes -> Files]
    /\ localClock \in [Nodes -> Nat] /\ serverClock \in [Nodes -> Nat \union {NoSession}]
    /\ settings \in [Roles -> SUBSET Perms]
    /\ DOMAIN peers = Nodes /\ DOMAIN snapshot = Nodes
    /\ \A n \in Nodes : DOMAIN peers[n] \subseteq Sites /\ Len(snapshot[n]) <= 1
    /\ \A s \in Sites : \A m \in ToSet(toHost[s]) : m.type \in HostFrames
    /\ budget \in [LimitKinds -> Nat]

Live(s) == phase[s] = "joined" /\ s \in linkUp

-----------------------------------------------------------------------------
(* Operations                                                              *)

Clocks(q) == [i \in DOMAIN q |-> q[i].clock]
OnWire(q, type, f) ==
    FoldLeft(LAMBDA clocks, m : IF m.type = type /\ m.path = f THEN Append(clocks, m.clock)
                                ELSE clocks, <<>>, q)

\* A guest's in-flight queue of a file is exactly what it sent and has not seen
\* acknowledged, in order: the acks on their way, then the edits on theirs.  An
\* entry too many would be transformed against forever, one too few never
\* (send_local_op, the Op arm's Ack, the Ack arm's retain).
InflightMatchesWire ==
    \A s \in Sites, f \in Files : Live(s) =>
        Clocks(inflight[s][f]) = OnWire(toGuest[s], "Ack", f) \o OnWire(toHost[s], "Op", f)

\* Nothing is on its way any more.
Quiet ==
    /\ hostOut = <<>>
    /\ \A s \in Sites : toHost[s] = <<>>
    /\ \A s \in linkUp : toGuest[s] = <<>>

\* When edits take turns and go through the session, everyone ends with the
\* host's document whoever edited, joined, saved, left or lost its connection
\* (Welcome's snapshot, the broadcast, the ack and FileSaved together).
TurnsConverge ==
    Quiet /\ orderly =>
        \A s \in Sites : Live(s) => text[s][DocFile] = text[Host][DocFile]

\* The host as order authority of the guests' edits: the server_clock in a
\* guest's Welcome is its place in the order, and from there on it handles every
\* sequenced edit once, in order, its own as an Ack.
ByGuests(q) == FoldLeft(LAMBDA kept, e : IF e[1] # Host THEN Append(kept, e) ELSE kept, <<>>, q)
Authority == INSTANCE OrderAuthority WITH
    Subscribers <- Sites,
    Outside     <- NoSession,
    order       <- ByGuests(log),
    entry       <- [s \in Sites |-> serverClock[s]],
    received    <- [s \in Sites |-> ByGuests(seen[s])]
ImplementsOrderAuthority == Authority!Spec

\* "The host is the total-order authority; all ops are sequenced through it":
\* a guest handles edits, the host's own included, in the order in which the
\* host's document took them.
HostOrderEverywhere ==
    \A s \in Sites : \A i, j \in DOMAIN seen[s] : \A k, l \in DOMAIN log :
        i < j /\ seen[s][i] = log[k] /\ seen[s][j] = log[l] => k < l

\* Applying a received edit never takes an in-document cursor of the active tab
\* out of the document, whatever was clamped (adjust_cursor, apply_ops_to_rope).
CursorsStayInDocument ==
    [][\A s \in Sites : HostOp(s) \/ GuestOp(s) =>
        \A n \in Nodes : LET f == active[n] IN
            cursor[n][f] <= Len(text[n][f]) => cursor'[n][f] <= Len(text'[n][f])]_vars

\* A guest that is connecting is welcomed, or its connection fails.
GuestsAreWelcomed ==
    \A s \in Sites : (phase[s] = "connecting") ~> (phase[s] # "connecting")

\* Every edit a guest sends is acknowledged while its connection lasts: the
\* in-flight queue never keeps an entry for good.
EditsAreAcknowledged ==
    \A s \in Sites : \A c \in 1 .. Limits["edits"] :
        (\E f \in Files : c \in ToSet(Clocks(inflight[s][f])))
            ~> (~Live(s) \/ \A f \in Files : c \notin ToSet(Clocks(inflight[s][f])))

\* "Silently drop unauthorized writes": a write the host refuses, and so never
\* broadcasts or acknowledges, leaves the host's own document as it was.
UnauthorizedWritesDropped ==
    [][\A s \in Sites : HostOp(s) /\ log' = log => text'[Host] = text[Host]]_vars

-----------------------------------------------------------------------------
(* Membership                                                              *)

\* Only members speak: whatever a guest has sent apart from its Join is judged
\* when the host has it in its peer list (peer_perms finds it) and removes it
\* only afterwards; a cursor the host shows belongs to a member.
SendersAreMembers ==
    /\ \A s \in Sites : \A type \in {"Op", "CursorUpdate", "RoleChangeRequest"} :
        Carries(toHost[s], type) => s \in DOMAIN peers[Host]
    /\ DOMAIN remoteCursors[Host] \subseteq DOMAIN peers[Host]

\* A guest's roster is never wrong, only late: the frames on their way to it
\* turn its peer list and its own role into the host's (Welcome's snapshot,
\* PeerJoined's deduplication, PeerLeft, PeerRoleChanged).
RostersCatchUp ==
    \A s \in Sites : Live(s) =>
        /\ FoldLeft(RosterAfter, peers[s], toGuest[s]) =
               Restrict(peers[Host], DOMAIN peers[Host] \ {s})
        /\ FoldLeft(RosterAfter, Put(EmptyMap, s, myRole[s]), toGuest[s])[s] = peers[Host][s]

\* A role changes only on a request whose sender may manage roles when the
\* host gets to it (a moderator demoted in the meantime may not: its role is
\* read then, not when it asked), and never to one of the two high roles.
RolesChangeByManagers ==
    [][\A t \in DOMAIN peers[Host] \cap DOMAIN peers'[Host] :
        peers'[Host][t] # peers[Host][t] =>
            /\ peers'[Host][t] \in {"Viewer", "Contributor"}
            /\ \E s \in Sites : /\ toHost[s] # <<>> /\ toHost'[s] = Tail(toHost[s])
                               /\ "MANAGE_ROLES" \in PeerPerms(s)]_vars

\* "Role permission configuration (host-authoritative, broadcast to guests)":
\* once nothing is on its way, the guests and the host go by the same permissions.
PermissionsAgree ==
    Quiet => \A s \in Sites : Live(s) => rolePerms[s] = rolePerms[Host]
=============================================================================
