----------------------------- MODULE MCServers -----------------------------
(***************************************************************************)
(* Language servers: the registry that the windows share, and the client   *)
(* in one window.  They have no variable in common, so a behaviour is of   *)
(* one of them, while the other stays as it begins.                        *)
(***************************************************************************)
EXTENDS RegistrySafety, ClientSafety, TLC

VARIABLE subject

\* Registry: two windows and a limit of one server.  The user of the second
\* has the panel; the first may start a server twice.
CONSTANTS p1, p2
MCMaxOps == (p1 :> 2) @@ (p2 :> 1)

\* Client: two tabs of one file; w is a character of two units in UTF-16.
CONSTANTS t1, t2, d1
MCUnits     == [c \in {"a", "b", "w", "nl", "x", "y", "z"} |-> IF c = "w" THEN 2 ELSE 1]
MCTexts     == {<<"a", "nl", "b", "w">>}
MCEditLists == {<<Edit(0, 1, <<"x">>), Edit(1, 2, <<>>)>>,
                <<Edit(0, 0, <<"x", "nl">>), Edit(1, 1, <<"z">>)>>,
                <<Edit(0, 0, <<"x", "y">>), Edit(2, 3, <<"z">>)>>,
                <<Edit(4, 4, <<"z">>)>>}
MCStarts    == {[from |-> Empty, steps |-> 3], [from |-> Begun(t1, d1, <<"b">>), steps |-> 4]}

MCInit ==
    /\ RegistryInit /\ ClientInit
    /\ \/ subject = "client"
       \/ subject = "registry" /\ srv = NoServer

MCNext ==
    \/ subject = "registry" /\ RegistryNext /\ UNCHANGED <<clientVars, subject>>
    \/ subject = "client" /\ ClientNext /\ UNCHANGED <<registryVars, subject>>

MCSpec == MCInit /\ [][MCNext]_<<registryVars, clientVars, subject>>
=============================================================================
