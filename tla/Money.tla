------------------------------- MODULE Money -------------------------------
(***************************************************************************)
(* money.Amount and money.Money (money/money.go): an amount is parsed,     *)
(* added to, multiplied, stored in a DECIMAL column and read back, and     *)
(* sent to a client and received from it as JSON.                          *)
(*                                                                         *)
(* A decimal is [c, e]: the coefficient and the exponent, as in the        *)
(* library the package wraps; its arithmetic is exact.  The scales and the *)
(* limit are parameters, so that small ones show what the real ones do.    *)
(***************************************************************************)
EXTENDS Integers

CONSTANTS
  Scale,     \* decimal places of the column
  Shown,     \* the places String renders
  Limit,     \* the largest whole amount FromString accepts
  Digits,    \* whole digits the column has: DECIMAL(Digits + Scale, Scale)
  Inputs,    \* decimals a caller may send
  Factors,   \* whole numbers MulInt is called with
  Assets,
  MaxExact   \* bound: the size of an amount, in the ghost's unit

VARIABLES
  money,    \* [amount, asset]
  wire,     \* the rendered amounts under way: none, or one and what it stood for
  exact     \* ghost: the amount it should be, counted in 10^-(Scale + 1)

vars == <<money, wire, exact>>

Pow10[n \in Nat] == IF n = 0 THEN 1 ELSE 10 * Pow10[n - 1]
Abs(n) == IF n < 0 THEN -n ELSE n

(* What x is worth, in units of 10^-(Scale + 1).                           *)
Worth(x) == x.c * Pow10[x.e + Scale + 1]

(* StringFixed(places): half away from zero, on the library's side.        *)
Fixed(x, places) ==
  LET unit == Pow10[Scale + 1 - places]
      size == (Abs(Worth(x)) + unit \div 2) \div unit
  IN  [c |-> IF x.c < 0 THEN -size ELSE size, e |-> -places]

-----------------------------------------------------------------------------
(* FromString: not more places than the column, not beyond the limit.      *)
Accepted(x) == x.e >= -Scale /\ Abs(Worth(x)) <= Limit * Pow10[Scale + 1]

(* The library adds at the finer of two exponents.                         *)
Plus(x, y) == LET e == IF x.e < y.e THEN x.e ELSE y.e
              IN  [c |-> x.c * Pow10[x.e - e] + y.c * Pow10[y.e - e], e |-> e]
Minus(x) == [c |-> -x.c, e |-> x.e]
Times(x, n) == [c |-> x.c * n, e |-> x.e]

Zero == [c |-> 0, e |-> 0]

Init == /\ money \in [amount : {Zero}, asset : Assets]
        /\ wire = {}
        /\ exact = 0

Bounded(n) == Abs(n) <= MaxExact

(* New: both parts are validated, or there is no Money.                    *)
New(x, a) == /\ Accepted(x) /\ Bounded(Worth(x))
             /\ money' = [amount |-> x, asset |-> a]
             /\ exact' = Worth(x)
             /\ UNCHANGED wire

(* Money.Add of an amount a client sent; ErrAssetMismatch leaves the       *)
(* amount alone.                                                           *)
Add(x, a) == /\ Accepted(x) /\ a = money.asset
             /\ Bounded(exact + Worth(x))
             /\ money' = [money EXCEPT !.amount = Plus(@, x)]
             /\ exact' = exact + Worth(x)
             /\ UNCHANGED wire

Sub(x) == /\ Accepted(x)
          /\ Bounded(exact - Worth(x))
          /\ money' = [money EXCEPT !.amount = Plus(@, Minus(x))]
          /\ exact' = exact - Worth(x)
          /\ UNCHANGED wire

MulInt(n) == /\ Bounded(exact * n)
             /\ money' = [money EXCEPT !.amount = Times(@, n)]
             /\ exact' = exact * n
             /\ UNCHANGED wire

(* A DECIMAL column refuses what its digits do not hold.                   *)
FitsColumn(x) == Abs(Fixed(x, Scale).c) < Pow10[Digits + Scale]

(* Value writes the row; Scan reads it again.                              *)
Store == /\ FitsColumn(money.amount)
         /\ money' = [money EXCEPT !.amount = Fixed(@, Scale)]
         /\ UNCHANGED <<wire, exact>>

(* MarshalJSON renders with String.                                        *)
Send == /\ wire' = {[money |-> [money EXCEPT !.amount = Fixed(@, Shown)], exact |-> exact]}
        /\ UNCHANGED <<money, exact>>

(* The client sends it back, and UnmarshalJSON hands it to FromString.     *)
Receive == \E w \in wire : /\ Accepted(w.money.amount)
                           /\ money' = w.money
                           /\ exact' = w.exact
                           /\ wire' = {}

Next == \/ \E x \in Inputs, a \in Assets : New(x, a) \/ Add(x, a)
        \/ \E x \in Inputs : Sub(x)
        \/ \E n \in Factors : MulInt(n)
        \/ Store \/ Send \/ Receive

Spec == Init /\ [][Next]_vars

-----------------------------------------------------------------------------
(* Properties.                                                             *)

(* "Package money carries exact monetary amounts": whatever is done with   *)
(* amounts in whatever order, and however often they are stored, sent and  *)
(* read back, nothing is rounded.                                          *)
AmountIsExact == Worth(money.amount) = exact
=============================================================================
