----------------------------- MODULE RateLimiter -----------------------------
(***************************************************************************)
(* The limiter of the login and forgot-password endpoints                  *)
(* (app/services/rate_limiter.py): one list of timestamps per IP address,  *)
(* shared by both endpoints. A check drops what is older than the window   *)
(* of its own endpoint, then counts what is left, whichever endpoint left  *)
(* it; an attempt that is refused leaves no timestamp. A check holds the   *)
(* lock from its first to its last line and is one step.                   *)
(***************************************************************************)
EXTENDS Integers, FiniteSets

CONSTANTS
    Ips,           \* client addresses
    Kinds,         \* the limited endpoints: "login", "forgot"
    Limit,         \* LOGIN_MAX, FORGOT_MAX
    Window,        \* LOGIN_WINDOW, FORGOT_WINDOW
    LastTick,      \* bound: the last tick of the clock
    MaxAttempts    \* bound: attempts ever made

ASSUME LimiterAssumption ==
    /\ Limit \in [Kinds -> Nat \ {0}]
    /\ Window \in [Kinds -> Nat \ {0}]
    /\ LastTick \in Nat /\ MaxAttempts \in Nat

(* A timestamp in a list. What the code keeps is `at`; the other fields    *)
(* tell equal timestamps apart and name the endpoint for the properties.   *)
Hit == [no : Nat, kind : Kinds, at : Nat]

VARIABLES
    clock,      \* time.time()
    hits,       \* _hits: the list of each address, as a set of Hit
    attempts,   \* attempts made so far
    admitted,   \* history: attempts allowed since the process started
    refusal     \* history: the refusal of this step, if it is one

limiterVars == <<clock, hits, attempts, admitted, refusal>>

NoRefusal == [ip |-> "none"]

LimiterInit ==
    /\ clock = 0
    /\ hits = [ip \in Ips |-> {}]
    /\ attempts = 0
    /\ admitted = [ip \in Ips |-> {}]
    /\ refusal = NoRefusal

LimiterTick ==
    /\ clock < LastTick
    /\ clock' = clock + 1
    /\ refusal' = NoRefusal
    /\ UNCHANGED <<hits, attempts, admitted>>

Recent(H, k) == {h \in H : h.at > clock - Window[k]}

(* Mutant: nothing is ever dropped.                                        *)
Cleanup_Never(ip, k) == hits[ip]

Cleanup(ip, k) == Recent(hits[ip], k)

(* Mutant: one attempt too many.                                           *)
Allowed_OneMore(ip, k) == Cardinality(Cleanup(ip, k)) <= Limit[k]

Allowed(ip, k) == Cardinality(Cleanup(ip, k)) < Limit[k]

(* Mutant: a refused attempt leaves its timestamp, too.                    *)
CheckRate_CountsRefusals(ip, k) ==
    /\ attempts < MaxAttempts
    /\ attempts' = attempts + 1
    /\ LET hit == [no |-> attempts, kind |-> k, at |-> clock]
       IN  /\ hits' = [hits EXCEPT ![ip] = Cleanup(ip, k) \cup {hit}]
           /\ IF Allowed(ip, k)
              THEN /\ admitted' = [admitted EXCEPT ![ip] = @ \cup {hit}]
                   /\ refusal' = NoRefusal
              ELSE /\ refusal' = [ip |-> ip, kind |-> k]
                   /\ UNCHANGED admitted
    /\ UNCHANGED clock

(* check_login_rate and check_forgot_password_rate.                        *)
CheckRate(ip, k) ==
    /\ attempts < MaxAttempts
    /\ attempts' = attempts + 1
    /\ LET hit == [no |-> attempts, kind |-> k, at |-> clock]
       IN  IF Allowed(ip, k)
           THEN /\ hits' = [hits EXCEPT ![ip] = Cleanup(ip, k) \cup {hit}]
                /\ admitted' = [admitted EXCEPT ![ip] = @ \cup {hit}]
                /\ refusal' = NoRefusal
           ELSE /\ hits' = [hits EXCEPT ![ip] = Cleanup(ip, k)]
                /\ refusal' = [ip |-> ip, kind |-> k]
                /\ UNCHANGED admitted
    /\ UNCHANGED clock

(* The lists are in memory: a new process starts with none.                *)
LimiterRestart ==
    /\ hits' = [ip \in Ips |-> {}]
    /\ admitted' = [ip \in Ips |-> {}]
    /\ refusal' = NoRefusal
    /\ UNCHANGED <<clock, attempts>>

LimiterNext == \/ LimiterTick \/ LimiterRestart
               \/ \E ip \in Ips, k \in Kinds : CheckRate(ip, k)

LimiterSpec == LimiterInit /\ [][LimiterNext]_limiterVars

-----------------------------------------------------------------------------
LimiterTypeOK ==
    /\ clock \in Nat
    /\ hits \in [Ips -> SUBSET Hit]
    /\ attempts \in Nat
    /\ admitted \in [Ips -> SUBSET Hit]
    /\ \A ip \in Ips : hits[ip] \subseteq admitted[ip]
    /\ refusal \in {NoRefusal} \cup [ip : Ips, kind : Kinds]

(* What endpoint k let through from an address within its window.          *)
Passed(ip, k) == {h \in Recent(admitted[ip], k) : h.kind = k}

Shortest(k) == \A j \in Kinds : Window[k] <= Window[j]

(* rate_limiter.py:51 "Login: 10 attempts per 5 minutes per IP": however   *)
(* the attempts of the two endpoints follow one another, the one with the  *)
(* shorter window never lets more than its limit through in any window.    *)
ShortestWindowIsEnforced ==
    \A ip \in Ips, k \in Kinds : Shortest(k) => Cardinality(Passed(ip, k)) <= Limit[k]

(* Nobody is refused for attempts that were refused themselves, that are   *)
(* older than the endpoint's window, or that another address made: the     *)
(* attempts admitted in the window alone reach the limit.                  *)
RefusalIsEarned ==
    refusal # NoRefusal =>
        Cardinality(Recent(admitted[refusal.ip], refusal.kind)) >= Limit[refusal.kind]

(* rate_limiter.py:55 "Forgot-password: 5 attempts per 15 minutes per IP". *)
EveryWindowIsEnforced ==
    \A ip \in Ips, k \in Kinds : Cardinality(Passed(ip, k)) <= Limit[k]
=============================================================================
