---------------------------- MODULE MCReminders ----------------------------
(***************************************************************************)
(* Reminders on small instances. The session starts are chosen so that the *)
(* scanned window reaches them one and two ticks after the beginning.      *)
(***************************************************************************)
EXTENDS Reminders, TLC

MCStarts == {3, 4}
Symmetric == Permutations(Dispatchers) \cup Permutations(Sessions) \cup Permutations(Slots)
=============================================================================
