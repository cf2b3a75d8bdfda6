---------------------------- MODULE MCEventually ----------------------------
(***************************************************************************)
(* What must come to pass if threads end and events are taken: in the      *)
(* session, and in the tree of files.  They have no variable in common, so *)
(* a behaviour is of one of them, while the other is at rest.              *)
(***************************************************************************)
EXTENDS MCCollab, ExplorerSafety

VARIABLE subject

\* Tree: two directories and a file below the root, one more name that is
\* hidden and may be a file or a directory; on the host with listings under
\* way, opened and closed at will, and on this machine.
D(path) == [path |-> path, dir |-> TRUE]
L(path) == [path |-> path, dir |-> FALSE]
MCThings == {D(<<1>>), D(<<1, 1>>), L(<<1, 1, 1>>), L(<<2>>), D(<<2>>)}
MCFiles  == {D(<<1>>), D(<<1, 1>>), L(<<1, 1, 1>>)}
Tree(far, fs, fresh, open, user, host) ==
    [remote |-> far, files |-> fs, fresh |-> fresh, open |-> open, user |-> user, host |-> host]
AtRest   == Tree(FALSE, {}, FALSE, {}, 0, 0)
MCTrees  == {Tree(TRUE, MCFiles, TRUE, {}, 1, 1),
             Tree(TRUE, MCFiles, FALSE, {<<1>>, <<1, 1>>}, 1, 1),
             Tree(TRUE, MCFiles, FALSE, {<<1>>}, 1, 2),
             Tree(TRUE, {D(<<1>>), L(<<2>>)}, FALSE, {}, 2, 1),
             Tree(FALSE, MCFiles, FALSE, {<<1>>}, 2, 2),
             AtRest}

\* Before anybody connects, and with an empty tree, no fair action changes
\* anything: the part that is at rest owes nothing.
MCInit ==
    /\ subject \in {"session", "tree"}
    /\ Init
    /\ ExInit /\ (subject = "session" <=> files = {})

MCNext ==
    \/ subject = "session" /\ Next   /\ UNCHANGED <<exVars, subject>>
    \/ subject = "tree"    /\ ExNext /\ UNCHANGED <<vars, subject>>

MCSpec == MCInit /\ [][MCNext]_<<vars, exVars, subject>> /\ Fairness /\ ExFairness
=============================================================================
