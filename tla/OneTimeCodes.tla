---------------------------- MODULE OneTimeCodes ----------------------------
(***************************************************************************)
(* What the verification codes promise (app/services/local_otp.py, "OTPs   *)
(* are stored in-memory with automatic expiration", "one-time use"): at    *)
(* any time at most one code of a contact is good, it is the newest one,   *)
(* and it is redeemed at most once. A code may be lost before that: it     *)
(* expires, or the process that holds it ends.                             *)
(***************************************************************************)
EXTENDS Naturals

CONSTANTS Contacts   \* e-mail addresses and phone numbers

VARIABLES
    issued,   \* number of codes issued
    live,     \* the number of each contact's good code, or 0
    used      \* the numbers of the codes redeemed

Init ==
    /\ issued = 0
    /\ live = [c \in Contacts |-> 0]
    /\ used = {}

Issue(c) ==
    /\ issued' = issued + 1
    /\ live' = [live EXCEPT ![c] = issued']
    /\ UNCHANGED used

Redeem(c) ==
    /\ live[c] # 0
    /\ used' = used \cup {live[c]}
    /\ live' = [live EXCEPT ![c] = 0]
    /\ UNCHANGED issued

Lose ==
    /\ \E S \in SUBSET Contacts : live' = [c \in Contacts |-> IF c \in S THEN 0 ELSE live[c]]
    /\ UNCHANGED <<issued, used>>

Next == Lose \/ \E c \in Contacts : Issue(c) \/ Redeem(c)

Spec == Init /\ [][Next]_<<issued, live, used>>
=============================================================================
