---------------------------- MODULE MCRateLimiter ----------------------------
(***************************************************************************)
(* RateLimiter with the code's proportions: the forgot-password window is  *)
(* three login windows long and admits half as many attempts.              *)
(***************************************************************************)
EXTENDS RateLimiter, TLC

MCKinds  == {"login", "forgot"}
MCLimit  == [k \in MCKinds |-> IF k = "login" THEN 4 ELSE 2]
MCWindow == [k \in MCKinds |-> IF k = "login" THEN 1 ELSE 3]
Symmetry == Permutations(Ips)
=============================================================================
