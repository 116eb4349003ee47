------------------------ MODULE MCSessionLifecycle ------------------------
(***************************************************************************)
(* SessionLifecycle on small instances: ticks of half an hour, a day of    *)
(* three ticks, archiving after one day, so that one session lives         *)
(* through every status and sweeps, edits and deletions meet at each.      *)
(***************************************************************************)
EXTENDS SessionLifecycle

MCStarts == {1}
MCEnds   == {2}
=============================================================================
