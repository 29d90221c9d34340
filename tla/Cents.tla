------------------------------- MODULE Cents -------------------------------
(***************************************************************************)
(* Amounts of money are counted in cents.  Decimal("0.01") quantization    *)
(* rounds half to even.                                                    *)
(***************************************************************************)
EXTENDS Integers

(* a / b in cents, for b > 0. *)
HalfEven(a, b) ==
    LET q == a \div b
        r == a % b
    IN  IF 2 * r > b \/ (2 * r = b /\ q % 2 = 1) THEN q + 1 ELSE q

=============================================================================
