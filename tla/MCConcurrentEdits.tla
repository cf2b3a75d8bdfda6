-------------------------- MODULE MCConcurrentEdits --------------------------
(* Instance of ConcurrentEdits: three characters, near is guest 1, far is   *)
(* the host (wins ties) or guest 2 (loses them).                            *)
EXTENDS ConcurrentEdits

MCBase     == <<1, 2, 3>>
MCFarSites == {0, 2}
=============================================================================
