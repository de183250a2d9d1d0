------------------------------ MODULE MCMoney ------------------------------
EXTENDS Money

(* Scale 3, two places shown: amounts of two and of three places, and of   *)
(* one too many.                                                           *)
MCInputs == [c : {5, -15, 105}, e : {-2}] \cup [c : {5, 7}, e : {-4}]
              \cup [c : {125}, e : {-3}]
=============================================================================
