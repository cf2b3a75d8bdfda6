--------------------------- MODULE OrderAuthority ----------------------------
(***************************************************************************)
(* What the host promises the guests about their edits: it puts them in    *)
(* one order, and a guest that enters at some point of that order is given *)
(* every later element exactly once, in that order (its own edits as       *)
(* acknowledgements).                                                      *)
(***************************************************************************)
EXTENDS Integers, Sequences

CONSTANTS Subscribers, Outside

VARIABLES
    order,     \* the sequenced edits
    entry,     \* where a subscriber entered the order, or Outside
    received   \* what a subscriber has been given since

vars == <<order, entry, received>>

Init ==
    /\ order = <<>>
    /\ entry = [s \in Subscribers |-> Outside]
    /\ received = [s \in Subscribers |-> <<>>]

Sequence(e) ==
    /\ order' = Append(order, e)
    /\ UNCHANGED <<entry, received>>

Enter(s) ==
    /\ entry[s] = Outside
    /\ \E k \in 0 .. Len(order) : entry' = [entry EXCEPT ![s] = k]
    /\ UNCHANGED <<order, received>>

Deliver(s) ==
    /\ entry[s] # Outside
    /\ entry[s] + Len(received[s]) < Len(order)
    /\ received' = [received EXCEPT ![s] =
                       Append(@, order[entry[s] + Len(@) + 1])]
    /\ UNCHANGED <<order, entry>>

Next ==
    \/ order' # order /\ Sequence(order'[Len(order')])
    \/ \E s \in Subscribers : Enter(s) \/ Deliver(s)

Spec == Init /\ [][Next]_vars
=============================================================================
