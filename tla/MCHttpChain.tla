---------------------------- MODULE MCHttpChain ----------------------------
EXTENDS HttpChain

CONSTANTS r1, r2, r3

MCRequests == {r1, r2, r3}

(* Every order of the four layers that hold or refuse requests, and every  *)
(* order of any one, two or three layers: no property relates more.        *)
Holding == {"log", "recover", "limit", "body"}
UpTo3   == {c \in UNION {[1 .. n -> Layers] : n \in 1 .. 3} : IsInjective(c)}
AllChains == SetToSeqs(Holding) \cup UpTo3
MCChains == AllChains

(* r2 is a preflight from either kind of origin.                           *)
MCOrigins == {r1 :> "allowed" @@ r2 :> o @@ r3 :> "none" : o \in {"allowed", "foreign"}}
=============================================================================
