--------------------------- MODULE ConcurrentEdits ---------------------------
(***************************************************************************)
(* The transformation algebra at work on one document: a peer (near) makes *)
(* local edits that the other side has not acknowledged, the other side    *)
(* (far) makes one edit of its own from the same base text, and near then  *)
(* receives far's operations.  This is the guest branch of the Op arm of   *)
(* handle_collab_msg in isolation from the network.  After Integrate the   *)
(* rebased in-flight operations are what far would have to apply.          *)
(***************************************************************************)
EXTENDS TextOps

CONSTANTS
    Base,        \* the common document, a sequence of distinct characters
    MaxEntries,  \* bound on near's unacknowledged edits
    NearSite,    \* near's site id
    FarSites     \* the site ids far may have (0 is the host)

\* What near types in its k-th edit, a character of its own.
Fresh(k) == 10 * NearSite + k
\* What far types: new characters, or one of the document again.
FarTexts == {<<>>, <<8>>, <<8, 9>>, <<Base[1]>>}

ASSUME SitesDiffer == NearSite \notin FarSites
ASSUME DocumentAssumption ==
    /\ NearSite \in Nat \ {0} /\ FarSites \subseteq Nat /\ MaxEntries \in Nat
    /\ Base # <<>> /\ Base \in Seq(ToSet(Base)) /\ IsInjective(Base)
    /\ \A k \in 0 .. MaxEntries : Fresh(k) \notin ToSet(Base)

VARIABLES
    near, far,     \* the two documents
    farSite,
    nearInflight,  \* near's CollabSession.inflight entry for the path
    remote,        \* far's operations, Vec<TextOp>
    nearCursor,    \* near's cursor in the tab that owns the path
    integrated,    \* far's operations have reached near
    typed,         \* history: near's operations as they were sent
    before         \* history: near's document and cursor when they arrived

crossVars == <<near, far, farSite, nearInflight, remote, nearCursor, integrated, typed, before>>

CrossInit ==
    /\ near = Base /\ far = Base
    /\ farSite \in FarSites
    /\ nearInflight = <<>> /\ remote = <<>> /\ typed = <<>>
    /\ nearCursor \in 0 .. Len(Base)
    /\ integrated = FALSE
    /\ before = [text |-> Base, cursor |-> nearCursor]

\* Every text an edit command can make of text: a selection replaced by new.
Replace(text, lo, hi, new) == SubSeq(text, 1, lo) \o new \o SubSeq(text, hi + 1, Len(text))

\* One key event at near: the edit, the diff, send_local_op.
EditNear ==
    /\ ~integrated /\ Len(nearInflight) < MaxEntries
    /\ \E lo, hi \in 0 .. Len(near) : \E new \in {<<>>, <<Fresh(Len(nearInflight))>>} :
        LET text == Replace(near, lo, hi, new)
            ops  == ExtractOps(near, text, NearSite)
        IN  /\ lo <= hi /\ text # near
            /\ near' = text
            /\ nearCursor' = lo + Len(new)
            /\ nearInflight' = Append(nearInflight, [clock |-> Len(nearInflight) + 1, ops |-> ops])
            /\ typed' = typed \o ops
            /\ before' = [text |-> text, cursor |-> lo + Len(new)]
    /\ UNCHANGED <<far, farSite, remote, integrated>>

EditFar ==
    /\ ~integrated /\ remote = <<>>
    /\ \E lo, hi \in 0 .. Len(far) : \E new \in FarTexts :
        LET text == Replace(far, lo, hi, new)
            ops  == ExtractOps(far, text, farSite)
        IN  /\ lo <= hi /\ text # far
            /\ far' = text
            /\ remote' = ops
    /\ UNCHANGED <<near, farSite, nearInflight, nearCursor, integrated, typed, before>>

Integrate ==
    /\ ~integrated /\ remote # <<>>
    /\ LET r == IntegrateRemoteAgainstInflight(remote, nearInflight)
       IN  /\ near' = ApplyOps(near, r.remote)
           /\ nearCursor' = AdjustCursor(nearCursor, r.remote, NearSite)
           /\ nearInflight' = r.inflight
    /\ integrated' = TRUE
    /\ UNCHANGED <<far, farSite, remote, typed, before>>

CrossNext == EditNear \/ EditFar \/ Integrate

CrossSpec == CrossInit /\ [][CrossNext]_crossVars

-----------------------------------------------------------------------------
OpsOf(entries) == FoldLeft(LAMBDA ops, entry : ops \o entry.ops, <<>>, entries)

\* far, having applied near's rebased operations, holds near's document.
Meet == near = ApplyOps(far, OpsOf(nearInflight))

\* What extract_ops finds in a change, applied to the old text, gives the new
\* text: no edit, however it mixes deletion and insertion, is lost or shifted
\* on its way to the wire (extract_ops and apply_ops_to_rope).
ExtractedOpsReproduceEdits ==
    ~integrated => /\ near = ApplyOps(Base, OpsOf(nearInflight))
                   /\ far = ApplyOps(Base, remote)

\* Concurrent insertions converge in every position, ties included, and after
\* any number of unacknowledged insertions (xform_ii's site tie-break).
InsertionsConverge ==
    integrated /\ (\A op \in ToSet(typed \o remote) : op.kind = "insert") => Meet

\* An insertion and a deletion converge unless the insertion falls strictly
\* inside the deleted range (xform_id and xform_di agree with each other).
InsertionAndDeletionConverge ==
    integrated /\ Len(typed) = 1 /\ Len(remote) = 1 =>
        \A i, d \in {typed[1], remote[1]} :
            /\ i.kind = "insert" /\ d.kind = "delete"
            /\ ~(d.pos < i.pos /\ i.pos < d.pos + d.len)
            => Meet

\* What is left of a text when only these characters are kept.
Kept(text, chars) ==
    FoldLeft(LAMBDA kept, c : IF c \in chars THEN Append(kept, c) ELSE kept, <<>>, text)

\* Two deletions of ranges that overlap or touch merge: near keeps exactly the
\* characters both sides kept, nothing is deleted twice, and unless far's range
\* covers near's both sides end with the same document (xform_dd).
OverlappingDeletionsMerge ==
    /\ integrated /\ Len(typed) = 1 /\ Len(remote) = 1
    /\ \A op \in {typed[1], remote[1]} : op.kind = "delete"
    /\ remote[1].pos <= typed[1].pos + typed[1].len
    /\ typed[1].pos <= remote[1].pos + remote[1].len
    => /\ near = Kept(Base, ToSet(before.text) \cap ToSet(far))
       /\ (\E c \in ToSet(far) : c \notin ToSet(before.text)) => Meet

\* The three together: what a reader may rely on when edits cross on the wire.
SimpleEditsConverge ==
    InsertionsConverge /\ InsertionAndDeletionConverge /\ OverlappingDeletionsMerge

\* Far typed no character of the common text again: characters have identity.
Distinct == \A op \in ToSet(remote) :
    op.kind = "insert" => ToSet(op.text) \cap ToSet(Base) = {}

\* A cursor keeps its place among the characters that survive a remote
\* operation: those that were left of it stay left, those right stay right,
\* and it never points past the end (adjust_cursor against apply_ops_to_rope).
CursorKeepsItsPlace ==
    integrated =>
        /\ nearCursor <= Len(near)
        /\ \A i \in DOMAIN near : \A j \in DOMAIN before.text :
            Distinct /\ near[i] = before.text[j] => (i <= nearCursor <=> j <= before.cursor)

\* The contract of integrate_remote_against_inflight: both sides have been
\* rebased over each other, so both end with the same document.
RebaseConverges == integrated => Meet
=============================================================================
