---------------------------- MODULE MCBatteryAgent ----------------------------
(* A refresh and a test are started beside the agent.                       *)
EXTENDS BatteryAgent

CONSTANTS refresh, diagnosis
=============================================================================
