---------------------------- MODULE MCTemplates ----------------------------
(***************************************************************************)
(* Templates over January to March 2026: January has five Thursdays,       *)
(* February four. Two templates share title and start. The fortnightly one *)
(* has its anchor behind two ranges and before the third.                  *)
(***************************************************************************)
EXTENDS Templates, TLC

CONSTANTS fortnightly, fifth, weekly, loose, monthly, daily, paused

MCFirst     == <<0, 31, 59, 90>>
MCTemplates == {fortnightly, fifth, weekly, loose, monthly, daily, paused}

Thursday == 3
Sunday   == 6

Template(title, frequency, day, reference, active) ==
    [title |-> title, start |-> 19, frequency |-> frequency, day_of_week |-> day,
     reference |-> reference, active |-> active]

MCKind ==
    fortnightly :> Template("rehearsal", "bi-weekly", Thursday, 35, TRUE)
    @@ fifth    :> Template("rehearsal", "monthly",   Thursday, 23, TRUE)
    @@ weekly   :> Template("program",   "weekly",    Sunday,   None, TRUE)
    @@ loose    :> Template("program",   "bi-weekly", Sunday,   None, TRUE)
    @@ monthly  :> Template("program",   "monthly",   Sunday,   None, TRUE)
    @@ daily    :> Template("rehearsal", "daily",     Sunday,   None, TRUE)
    @@ paused   :> Template("rehearsal", "weekly",    Thursday, None, FALSE)

MCRanges == {<<0, 30>>, <<21, 34>>, <<38, 66>>}

MCSymmetry == Permutations(Threads)

(* No more than two templates to begin with, a daily one for a fortnight   *)
(* only.                                                                   *)
MCBound ==
    /\ Cardinality(templates) <= 2 + edits
    /\ \A g \in Running : daily \in job[g].all => job[g].to - job[g].from < 14
=============================================================================
