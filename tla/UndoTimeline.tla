---------------------------- MODULE UndoTimeline ----------------------------
(***************************************************************************)
(* What undo and redo promise: the texts a buffer has had form a line in   *)
(* time and one of them is the present.  An edit drops the future and goes *)
(* on from the present; typing may go on with the newest version; undo and *)
(* redo walk along the line; a limit may cost a version at an end of it.   *)
(***************************************************************************)
EXTENDS Integers, Sequences

VARIABLES versions, now

timeline == <<versions, now>>

Init == now = 1 /\ Len(versions) = 1

\* The present version becomes another text, the others stay as they are.
Rewritten ==
    /\ now' = now
    /\ versions' = [versions EXCEPT ![now] = versions'[now]]

\* An edit appends its result to what lies behind it; the oldest may go.
Edit ==
    /\ now' = Len(versions')
    /\ \E first \in {1, 2} : /\ first <= now
                             /\ versions' = Append(SubSeq(versions, first, now), versions'[now'])

\* More of the edit that made the newest version.
Continue == now = Len(versions) /\ now > 1 /\ Rewritten

\* One step back; a full redo stack loses the newest version.
Undo ==
    /\ now > 1 /\ now' = now - 1
    /\ \E last \in {Len(versions), Len(versions) - 1} :
        last >= now /\ versions' = SubSeq(versions, 1, last)

\* One step forward; a full undo stack loses the oldest version.
Redo ==
    /\ now < Len(versions)
    /\ \E first \in {1, 2} : /\ first <= now
                             /\ versions' = SubSeq(versions, first, Len(versions))
                             /\ now' = now + 2 - first

Next == Edit \/ Continue \/ Undo \/ Redo
=============================================================================
