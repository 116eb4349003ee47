----------------------------- MODULE MCAccounts -----------------------------
(***************************************************************************)
(* Accounts with a member who has an e-mail address and a phone number and *)
(* one who has only an address; a second number is free.                   *)
(***************************************************************************)
EXTENDS Accounts, TLC

CONSTANTS m1, m2, e1, e2, p1, p2

MCMembers == {m1, m2}
MCEmails  == {e1, e2}
MCPhones  == {p1, p2}
MCRows    == [m \in MCMembers |->
    [email |-> IF m = m1 THEN e1 ELSE e2, phone |-> IF m = m1 THEN p1 ELSE None,
     ev |-> FALSE, pv |-> FALSE, password |-> 0]]

(* Codes are only compared with each other, and so are threads.            *)
MCSymmetry == Permutations(Threads) \cup Permutations(Codes)

(* Of edits, the passing of time and restarts after a code was issued, a   *)
(* behaviour has only one kind, and no code goes to e2.                    *)
MCBound ==
    /\ edits = 0 \/ now = 0
    /\ edits + now = 0 \/ lostTo = 0
    /\ \A t \in Threads : job[t].op = "send" => job[t].to # e2
=============================================================================
