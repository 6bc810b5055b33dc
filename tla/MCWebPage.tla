------------------------------ MODULE MCWebPage ------------------------------
(* An instance of WebPage for TLC: a member of a household, and a display   *)
(* that shows the household.                                                *)
EXTENDS WebPage

CONSTANTS anna, kindle, home, platform

MCHouseholdOf == [a \in {anna, kindle} |-> home]
MCPaths == {"/", "/admin", "/privacy", "/display"}
MCLists == {"dashboard", "todos"}
MCOps == {"todo", "home"}
MCMaxWrites == [h \in {home, platform} |-> IF h = home THEN 1 ELSE 0]
=============================================================================
