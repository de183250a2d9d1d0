--------------------------- MODULE MCIdempotency ---------------------------
EXTENDS IdempotentRequests

CONSTANTS r1, r2, r3

Sent(body) == [actor |-> 1, route |-> 1, body |-> body]

(* r1 and r2 are the same request, spelled differently; r3 uses their key  *)
(* for another body.  TLC evaluates the definition a constant is replaced  *)
(* by at every use, but a definition that one names only once.             *)
MCRequests == {r1, r2, r3}
One   == JSON(Obj(<<Member(1, Num(1)), Member(2, Arr(<<Num(2)>>))>>), FALSE)
Again == JSON(Obj(<<Member(2, Arr(<<Num(2)>>)), Member(1, Num(1))>>), TRUE)
Other == JSON(Obj(<<Member(1, Num(2)), Member(2, Arr(<<Num(2)>>))>>), FALSE)
Payloads3 == r1 :> Sent(One) @@ r2 :> Sent(Again) @@ r3 :> Sent(Other)
Hashes3   == r1 :> RequestHash(Sent(One)) @@ r2 :> RequestHash(Sent(Again))
               @@ r3 :> RequestHash(Sent(Other))
MCPayload == Payloads3
MCHashOf  == Hashes3

(* Three copies of one request.                                            *)
MCCopies   == r1 :> Sent(One) @@ r2 :> Sent(Again) @@ r3 :> Sent(Again)
SameHashes == r1 :> RequestHash(Sent(One)) @@ r2 :> RequestHash(Sent(Again))
                @@ r3 :> RequestHash(Sent(Again))
MCSameHash == SameHashes

(* float64 with Precision for 2^53, between that and twice that: ties go   *)
(* to even.                                                                *)
MCFloat(n) == IF n < Precision THEN n
              ELSE IF n % 2 = 0 THEN n
              ELSE IF n % 4 = 1 THEN n - 1 ELSE n + 1

(* Documents of depth two with up to two members or items, over two keys   *)
(* and numbers on both sides of Precision = 4.                             *)
UpTo2(S) == UNION {[1 .. n -> S] : n \in 0 .. 2}
Objects(S) == {Obj(ms) : ms \in UpTo2({Member(k, d) : k \in {1, 2}, d \in S})}
Arrays(S) == {Arr(items) : items \in UpTo2(S)}
Leaves == {Num(n) : n \in {1, 4, 5}} \cup {Str(1), Lit(1)}
AllDocs == UNION {Leaves, Arrays(Leaves), {Of(b) : b \in {One, Again, Other}}, {Num(2), Arr(<<Num(2)>>)},
                 Objects({Num(4), Num(5), Arr(<<Num(1)>>), Obj(<<Member(1, Num(1))>>)}),
                 {Obj(<<Member(1, Num(1))>>)}}
MCDocs == AllDocs

MCPayloads ==
  {Sent(b) : b \in {JSON(d, FALSE) : d \in AllDocs}
                     \cup {Text(1, FALSE), Text(1, TRUE), Text(2, FALSE), Blank(FALSE), Blank(TRUE)}}
  \cup {[actor |-> a, route |-> r, body |-> b] : a, r \in {1, 2}, b \in {One, Again, Other, Blank(TRUE)}}
=============================================================================
