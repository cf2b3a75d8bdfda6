------------------------------- MODULE MCCollab -------------------------------
(* Instances of CollabSession: one-character documents, two connections, and *)
(* a limit of zero for every kind of user action and failure a run does not  *)
(* name.  "total" bounds the actions and failures of one behaviour.          *)
EXTENDS CollabSafety

CONSTANTS shared, untitled   \* tabs

OneFile  == {shared}
TwoTabs  == {shared, untitled}
Letters  == Nodes \union {9}
Disk     == [f \in Files |-> <<9>>]
Old      == <<>>
Writers  == [r \in Roles |-> {"VIEW_FILES", "WRITE_FILES"}]
Managers == [r \in Roles |->
                CASE r = "Viewer"    -> {"VIEW_FILES"}
                  [] r = "Moderator" -> {"VIEW_FILES", "WRITE_FILES", "MANAGE_ROLES"}
                  [] OTHER           -> {"VIEW_FILES", "WRITE_FILES"}]

Only(kinds, total) ==
    [k \in LimitKinds |-> IF k = "total" THEN total ELSE IF k \in kinds THEN 1 ELSE 0]
NoToggles == {}
OneToggle == {<<"Moderator", "WRITE_FILES">>}

OpsLimits    == [Only({"saves", "losses", "exits", "cursors", "moves", "deferred", "undos"}, 2)
                    EXCEPT !["edits"] = 2, !["deferred"] = 2]
LiveLimits   == Only({"edits", "losses"}, 2)
RosterLimits == [Only({"edits", "cursors", "exits", "switches", "toggles"}, 2)
                    EXCEPT !["requests"] = 2]
OrderLimits  == [Only({}, 2) EXCEPT !["edits"] = 2]
PermsLimits  == Only({"toggles"}, 1)
=============================================================================
