------------------------------- MODULE TextOps -------------------------------
(***************************************************************************)
(* The operational-transformation algebra of src/collab.rs: the two text   *)
(* operations a peer can send, what applying them does to a document, how  *)
(* a document change becomes operations, how concurrent operations are     *)
(* transformed against each other and how cursors follow them.             *)
(*                                                                         *)
(* A document is a sequence of characters, a position is the 0-based char  *)
(* offset the code uses (position p lies after the p-th character).  The   *)
(* Option<TextOp> results of the code are modelled by NoOp for None.       *)
(***************************************************************************)
EXTENDS Integers, Sequences, SequencesExt

Ins(pos, text, site) == [kind |-> "insert", pos |-> pos, text |-> text, site |-> site]
Del(pos, len)        == [kind |-> "delete", pos |-> pos, len |-> len]
NoOp                 == [kind |-> "none"]

Least(a, b) == IF a <= b THEN a ELSE b
\* usize::saturating_sub
Monus(a, b) == IF a >= b THEN a - b ELSE 0

-----------------------------------------------------------------------------
(* Applying operations: positions are clamped to the document.             *)

ApplyOp(text, op) ==
    LET p == Least(op.pos, Len(text))
        q == IF op.kind = "delete" THEN Least(p + op.len, Len(text)) ELSE p
        new == IF op.kind = "insert" THEN op.text ELSE <<>>
    IN  SubSeq(text, 1, p) \o new \o SubSeq(text, q + 1, Len(text))

ApplyOps(text, ops) == FoldLeft(ApplyOp, text, ops)

-----------------------------------------------------------------------------
(* From a document change to operations: what is left between the longest  *)
(* common prefix and the longest common suffix that does not overlap it.   *)

CommonPrefix(s, t) ==
    CHOOSE k \in 0 .. Least(Len(s), Len(t)) :
        /\ \A i \in 1 .. k : s[i] = t[i]
        /\ k < Least(Len(s), Len(t)) => s[k + 1] # t[k + 1]

\* Mutant of CommonSuffix: the suffix may overlap the prefix.
OverlappingSuffix(s, t, max) ==
    CHOOSE k \in 0 .. Least(Len(s), Len(t)) :
        /\ \A i \in 0 .. k - 1 : s[Len(s) - i] = t[Len(t) - i]
        /\ k < Least(Len(s), Len(t)) => s[Len(s) - k] # t[Len(t) - k]

CommonSuffix(s, t, max) ==
    CHOOSE k \in 0 .. max :
        /\ \A i \in 0 .. k - 1 : s[Len(s) - i] = t[Len(t) - i]
        /\ k < max => s[Len(s) - k] # t[Len(t) - k]

ExtractOps(before, after, site) ==
    LET prefix   == CommonPrefix(before, after)
        suffix   == CommonSuffix(before, after,
                                 Least(Len(before) - prefix, Len(after) - prefix))
        deleted  == Len(before) - prefix - suffix
        inserted == SubSeq(after, prefix + 1, Len(after) - suffix)
    IN  (IF deleted > 0 THEN <<Del(prefix, deleted)>> ELSE <<>>) \o
        (IF inserted # <<>> THEN <<Ins(prefix, inserted, site)>> ELSE <<>>)

-----------------------------------------------------------------------------
(* Transforming one primitive against another that was applied first.      *)

XformII(aPos, aSite, bPos, bLen, bSite) ==
    IF bPos < aPos \/ (bPos = aPos /\ bSite < aSite) THEN aPos + bLen ELSE aPos

XformID(insPos, delPos, delLen) ==
    IF insPos <= delPos THEN insPos
    ELSE IF insPos >= delPos + delLen THEN insPos - delLen
    ELSE delPos

XformDI(delPos, delLen, insPos, insLen) ==
    IF insPos <= delPos THEN Del(delPos + insLen, delLen)
    ELSE IF insPos >= delPos + delLen THEN Del(delPos, delLen)
    ELSE Del(delPos, delLen + insLen)

\* Mutant of XformDD: the start is not moved.
UnmovedXformDD(aPos, aLen, bPos, bLen) ==
    LET rest == Monus(bPos, aPos) + Monus(aPos + aLen, bPos + bLen)
    IN  IF rest = 0 THEN NoOp ELSE Del(aPos, rest)
XformDD(aPos, aLen, bPos, bLen) ==
    LET left  == Monus(bPos, aPos)
        right == Monus(aPos + aLen, bPos + bLen)
    IN  IF left + right = 0 THEN NoOp ELSE Del(Least(aPos, bPos), left + right)

XformOp(a, b) ==
    CASE a.kind = "insert" /\ b.kind = "insert" ->
            [a EXCEPT !.pos = XformII(a.pos, a.site, b.pos, Len(b.text), b.site)]
      [] a.kind = "insert" /\ b.kind = "delete" ->
            [a EXCEPT !.pos = XformID(a.pos, b.pos, b.len)]
      [] a.kind = "delete" /\ b.kind = "insert" ->
            XformDI(a.pos, a.len, b.pos, Len(b.text))
      [] a.kind = "delete" /\ b.kind = "delete" ->
            XformDD(a.pos, a.len, b.pos, b.len)

-----------------------------------------------------------------------------
(* Transforming compounds.  An op of the compound that the transformation  *)
(* consumes keeps its old form; once b is consumed, the rest of the        *)
(* compound is left alone.                                                 *)

XformStep(acc, aOp) ==
    IF acc.b = NoOp
    THEN [acc EXCEPT !.a = Append(@, aOp)]
    ELSE LET newA == XformOp(aOp, acc.b)
         IN  [a |-> Append(acc.a, IF newA = NoOp THEN aOp ELSE newA),
              b |-> XformOp(acc.b, aOp)]

XformCompoundAgainstOp(aOps, b) ==
    FoldLeft(XformStep, [a |-> <<>>, b |-> b], aOps)

\* One in-flight entry against the whole remote compound.
RebaseStep(acc, rOp) ==
    LET x == XformCompoundAgainstOp(acc.ops, rOp)
    IN  [ops |-> x.a,
         remote |-> IF x.b = NoOp THEN acc.remote ELSE Append(acc.remote, x.b)]

IntegrateStep(acc, entry) ==
    LET r == FoldLeft(RebaseStep, [ops |-> entry.ops, remote |-> <<>>], acc.remote)
    IN  [remote   |-> r.remote,
         inflight |-> Append(acc.inflight, [entry EXCEPT !.ops = r.ops])]

IntegrateRemoteAgainstInflight(remoteOps, inflight) ==
    FoldLeft(IntegrateStep, [remote |-> remoteOps, inflight |-> <<>>], inflight)

-----------------------------------------------------------------------------
(* Cursors follow the operations a peer applies.                           *)

\* Mutant of AdjustCursorPos: only insertions move a cursor.
CursorIgnoresDeletions(c, op, localSite) ==
    IF op.kind = "insert" /\ (op.pos < c \/ (op.pos = c /\ op.site < localSite))
    THEN c + Len(op.text) ELSE c

AdjustCursorPos(c, op, localSite) ==
    IF op.kind = "insert"
    THEN IF op.pos < c \/ (op.pos = c /\ op.site < localSite) THEN c + Len(op.text) ELSE c
    ELSE IF op.pos + op.len <= c THEN c - op.len
         ELSE Least(op.pos, c)

AdjustCursor(c, ops, localSite) ==
    FoldLeft(LAMBDA pos, op : AdjustCursorPos(pos, op, localSite), c, ops)
=============================================================================
