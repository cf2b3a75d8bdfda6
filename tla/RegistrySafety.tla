--------------------------- MODULE RegistrySafety ---------------------------
(***************************************************************************)
(* What is right about the registry of language servers.                   *)
(***************************************************************************)
EXTENDS LspRegistry

Running == {e \in AllSlots : e.op \in servers[e.pid]}

(* A process that lives has no entry without a server (the handlers of     *)
(* 9747-9796 and lsp_panel_stop remove both): only a crash leaves some.    *)
NoGhostEntries == \A e \in entries : Up(e.pid) => e.op \in servers[e.pid]

(* No step takes a server out of the registry that runs on, if it was      *)
(* started while its process answered on its socket and it still does:     *)
(* list_live, 157-177, reaps only what does not answer, however its two    *)
(* halves interleave with the others' lives.  Servers that start before    *)
(* the socket is bound (resumed starts them first, 6447-6461) have no such *)
(* right.                                                                  *)
AnsweringServersStayListed ==
    [][\A e \in Running :
          Connects(e.pid) /\ e.op >= firstOp[e.pid] /\ e \in entries =>
              e \in entries' \/ e \notin Running']_registryVars

(* More servers than the limit run only after one of three mishaps: a      *)
(* server was started while another process was counting, an entry was     *)
(* removed whose server ran, or register failed to write it (3084-3090,    *)
(* 157-177 and lsp_registry.rs 95-108).                                    *)
LimitHoldsUnlessRaced == raced \/ Limit = NoLimit \/ Cardinality(Running) <= Limit

(* Who hears that a server was stopped finds its slot free, even if the    *)
(* other process goes on (9747-9761): moving it here can count on that.    *)
StoppedMeansFree ==
    \A p \in Processes : call[p].state = "Stopped" =>
        Slot(call[p].to, call[p].op) \notin entries \cup Running

(* A crash never permanently holds a slot (lsp_registry.rs 12-14): a scan  *)
(* leaves, and counts, no entry of a process that had died when it began.  *)
CrashedSlotsReclaimed ==
    \A p \in Processes : Scanned(p) =>
        \A e \in entries \cup scan[p].found : e.pid \notin scan[p].dead
=============================================================================
