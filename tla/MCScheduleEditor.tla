---------------------------- MODULE MCScheduleEditor ----------------------------
(* Two owners edit the schedule of one display.                             *)
EXTENDS ScheduleEditor, TLC

CONSTANTS anna, bert

(* The last slot of Sunday: the next one is on Monday, or a week away.      *)
MCInstants == {10050}
Symmetry == Permutations({anna, bert})
=============================================================================
