---------------------------- MODULE RequestHash ----------------------------
(***************************************************************************)
(* RequestHash of idempotency/store.go: the digest of actor, route and     *)
(* body under which a retry is recognised.  A body is the JSON document it *)
(* spells (`of'), with or without blanks around it and between its tokens, *)
(* or blank, or text: what json.Unmarshal refuses, because it is no JSON   *)
(* or holds a number beyond float64's range or more nesting than it takes. *)
(* A digest is the sequence that is digested: SHA-256 is taken to be       *)
(* injective.                                                              *)
(*                                                                         *)
(* Documents: keys and strings are naturals, ordered as the code orders    *)
(* strings; numbers are naturals, decoded as float64 has them.  An object  *)
(* lists its members as received: in any order, and a key perhaps twice.   *)
(***************************************************************************)
EXTENDS Naturals, Sequences, FiniteSets, SequencesExt

CONSTANTS
  Docs,      \* the JSON documents considered, their parts included
  Float(_),  \* the float64 that json.Unmarshal makes of a number
  Precision  \* numbers up to this are decoded exactly: 2^53

Num(n) == <<"num", n>>
Str(s) == <<"str", s>>
(* true, false and null.                                                   *)
Lit(l) == <<"lit", l>>
Arr(items) == <<"arr", items>>
Obj(members) == <<"obj", members>>
Member(k, d) == <<k, d>>

JSON(d, blanks) == <<"json", d, blanks>>
Text(s, blanks) == <<"text", s, blanks>>
Blank(blanks) == <<"blank", 0, blanks>>

(* Of a document or a body.                                                *)
Kind(d) == d[1]
Of(d) == d[2]
IsBody(b) == Kind(b) \in {"blank", "text"} \/ (Kind(b) = "json" /\ Of(b) \in Docs)
MemberKey(m) == m[1]
MemberValue(m) == m[2]

ASSUME DocsAssumption == \A d \in Docs :
  \/ Kind(d) \in {"num", "str", "lit"} /\ Of(d) \in Nat
  \/ Kind(d) = "arr" /\ Of(d) \in Seq(Docs)
  \/ Kind(d) = "obj" /\ Of(d) \in Seq(Nat \X Docs)
ASSUME FloatAssumption ==
  /\ Precision \in Nat
  /\ \A n \in 0 .. Precision : Float(n) = n
  /\ \A d \in Docs : Kind(d) = "num" => Float(Of(d)) \in Nat

-----------------------------------------------------------------------------
(* json.Unmarshal into an interface.                                       *)

Keys(members) == {MemberKey(members[i]) : i \in DOMAIN members}

(* Mutant: the first of two members with one key.                          *)
ValueOfFirst(members, k) == members[SelectInSeq(members, LAMBDA m : MemberKey(m) = k)][2]
(* The last one wins.                                                      *)
ValueOf(members, k) == members[SelectLastInSeq(members, LAMBDA m : MemberKey(m) = k)][2]

(* Mutant: in the order of the document, one of the orders in which Go may *)
(* range over a map.                                                       *)
SortedKeysAsSent(members) == SortSeq(SetToSeq(Keys(members)), LAMBDA j, k :
  SelectInSeq(members, LAMBDA m : MemberKey(m) = j) < SelectInSeq(members, LAMBDA m : MemberKey(m) = k))
SortedKeys(members) ==
  CHOOSE keys \in [1 .. Cardinality(Keys(members)) -> Keys(members)] :
    \A i, j \in DOMAIN keys : i < j => keys[i] < keys[j]

-----------------------------------------------------------------------------
Mark(c) == <<<<"mark", c>>>>
Token(kind, v) == <<<<kind, v>>>>

(* json.Marshal of a leaf that has been decoded.                           *)
Leaf(d) == Token(Kind(d), IF Kind(d) = "num" THEN Float(Of(d)) ELSE Of(d))

(* What writeCanonical writes for a value that json.Unmarshal has read.    *)
Canonical[d \in Docs] ==
  IF Kind(d) = "obj" THEN
    LET keys == SortedKeys(Of(d))
        Written(k) == Token("key", k) \o Canonical[ValueOf(Of(d), k)]
    IN Mark("{") \o FlattenSeq([i \in DOMAIN keys |-> Written(keys[i])]) \o Mark("}")
  ELSE IF Kind(d) = "arr" THEN
    Mark("[") \o FlattenSeq([i \in DOMAIN Of(d) |-> Canonical[Of(d)[i]]]) \o Mark("]")
  ELSE Leaf(d)

(* A body of blanks is nothing; what is no JSON is kept verbatim, without  *)
(* the blanks around it.                                                   *)
CanonicalJSON(body) == CASE Kind(body) = "blank" -> <<>>
                         [] Kind(body) = "text" -> Token("text", Of(body))
                         [] Kind(body) = "json" -> Canonical[Of(body)]

(* For the two who send one body to different routes.                      *)
CanonicalHash(body) == CanonicalJSON(body)

(* A payload: who sends what to which route.                               *)
RequestHash(p) == Token("actor", p.actor) \o Token("route", p.route) \o CanonicalJSON(p.body)

-----------------------------------------------------------------------------
(* The reference: what a document says to a reader of JSON, objects as     *)
(* sets of members of which the last with a key counts; numbers are        *)
(* compared exactly, or else as float64 has them.                          *)
LastValue(members, k) ==
  MemberValue(members[CHOOSE i \in DOMAIN members :
    /\ MemberKey(members[i]) = k
    /\ \A j \in DOMAIN members : MemberKey(members[j]) = k => j <= i])

SameDoc[d \in Docs] == [e \in Docs |-> [exact \in BOOLEAN |->
  /\ Kind(d) = Kind(e)
  /\ Kind(d) = "num" => Of(d) = Of(e) \/ (~exact /\ Float(Of(d)) = Float(Of(e)))
  /\ Kind(d) \in {"str", "lit"} => Of(d) = Of(e)
  /\ Kind(d) = "arr" => /\ Len(Of(d)) = Len(Of(e))
                        /\ \A i \in DOMAIN Of(d) : SameDoc[Of(d)[i]][Of(e)[i]][exact]
  /\ Kind(d) = "obj" => /\ Keys(Of(d)) = Keys(Of(e))
                        /\ \A k \in Keys(Of(d)) :
                             SameDoc[LastValue(Of(d), k)][LastValue(Of(e), k)][exact]]]

SameBody(b, c, exact) ==
  /\ Kind(b) = Kind(c)
  /\ CASE Kind(b) = "blank" -> TRUE
       [] Kind(b) = "text" -> Of(b) = Of(c)
       [] Kind(b) = "json" -> SameDoc[Of(b)][Of(c)][exact]

SamePayload(p, q, exact) ==
  p.actor = q.actor /\ p.route = q.route /\ SameBody(p.body, q.body, exact)

(* The same request, whatever the spelling; numbers as float64 has them.   *)
SameRequest(p, q) == SamePayload(p, q, FALSE)
(* The same request to the last digit.                                     *)
IdenticalRequest(p, q) == SamePayload(p, q, TRUE)

(* No number of the document is beyond the exact range.                    *)
Precise[d \in Docs] ==
  /\ Kind(d) = "num" => Of(d) <= Precision
  /\ Kind(d) = "arr" => \A i \in DOMAIN Of(d) : Precise[Of(d)[i]]
  /\ Kind(d) = "obj" => \A i \in DOMAIN Of(d) : Precise[MemberValue(Of(d)[i])]
PrecisePayload(p) == Kind(p.body) = "json" => Precise[Of(p.body)]
=============================================================================
