------------------------------ MODULE Rational ------------------------------
(***************************************************************************)
(* RationalBase<Uint> of yu/math/rational.hpp: a number that is the target *)
(* of +=, -=, *= and /=, in integers that wrap around at UintSize.         *)
(***************************************************************************)
EXTENDS Integers

CONSTANTS UintSize,     \* 2^64: the values of Uint
          Operands      \* numbers as the constructors take them: [positive, numerator, denominator]

Uint == 0 .. UintSize - 1

ASSUME RationalAssumption ==
  /\ UintSize \in Nat /\ UintSize > 1
  /\ Operands \subseteq [positive : BOOLEAN, numerator : Uint, denominator : Uint]

VARIABLES
  r,       \* the number
  last,    \* the operation that made it: [op, lhs, rhs]
  lost     \* whether an integer wrapped around in it

rationalVars == <<r, last, lost>>

\* The loop of gcd().
gcd[p \in Uint \X Uint] ==
  IF p[1] = 0 \/ p[2] = 0 THEN p[1] + p[2]
  ELSE IF p[1] > p[2] THEN gcd[<<p[1] % p[2], p[2]>>] ELSE gcd[<<p[1], p[2] % p[1]>>]

Triple(positive, n, d) == [positive |-> positive, numerator |-> n, denominator |-> d]
NaN == Triple(TRUE, 0, 0)
Inf(positive) == Triple(positive, 1, 0)
IsInf(a) == a.numerator # 0 /\ a.denominator = 0
IsZero(a) == a.numerator = 0 /\ a.denominator = 1

\* What the constructors leave behind.
Normalize(positive, n, d, reduced) ==
  IF d = 0 THEN IF n = 0 THEN NaN ELSE Inf(positive)
  ELSE IF n = 0 THEN Triple(TRUE, 0, 1)
  ELSE IF reduced THEN Triple(positive, n, d)
  ELSE Triple(positive, n \div gcd[<<n, d>>], d \div gcd[<<n, d>>])
Made(t) == Normalize(t.positive, t.numerator, t.denominator, t.denominator = 1)

Negated(a) == Normalize(~a.positive, a.numerator, a.denominator, TRUE)
Inverted(a) == Normalize(a.positive, a.denominator, a.numerator, TRUE)

\* The numerators and the denominator of a sum, before they wrap around.
Summands(a, b) ==
  LET g == gcd[<<a.denominator, b.denominator>>] IN
  [n1 |-> a.numerator * (b.denominator \div g), n2 |-> b.numerator * (a.denominator \div g),
   d |-> a.denominator * (b.denominator \div g)]

Wrapped(n) == n % UintSize

\* Mutant of Added: the sign of a difference is that of the first operand.
AddedSign(a, b) ==
  IF a = NaN \/ b = NaN \/ (IsInf(a) /\ IsInf(b) /\ a # b) THEN NaN
  ELSE IF IsInf(a) THEN a ELSE IF IsInf(b) THEN b
  ELSE LET s == Summands(a, b) n1 == Wrapped(s.n1) n2 == Wrapped(s.n2) d == Wrapped(s.d) IN
       IF a.positive = b.positive THEN Normalize(a.positive, Wrapped(n1 + n2), d, d = 1)
       ELSE Normalize(a.positive, IF n1 > n2 THEN n1 - n2 ELSE n2 - n1, d, d = 1)

Added(a, b) ==
  IF a = NaN \/ b = NaN \/ (IsInf(a) /\ IsInf(b) /\ a # b) THEN NaN
  ELSE IF IsInf(a) THEN a ELSE IF IsInf(b) THEN b
  ELSE LET s == Summands(a, b) n1 == Wrapped(s.n1) n2 == Wrapped(s.n2) d == Wrapped(s.d) IN
       IF a.positive = b.positive THEN Normalize(a.positive, Wrapped(n1 + n2), d, d = 1)
       ELSE IF n1 > n2 THEN Normalize(a.positive, n1 - n2, d, d = 1)
       ELSE Normalize(~a.positive, n2 - n1, d, d = 1)

\* A product is reduced crosswise before it is formed.
Factors(a, b) ==
  LET g1 == gcd[<<a.numerator, b.denominator>>] g2 == gcd[<<b.numerator, a.denominator>>] IN
  [n |-> (a.numerator \div g1) * (b.numerator \div g2),
   d |-> (a.denominator \div g2) * (b.denominator \div g1)]

Multiplied(a, b) ==
  IF a = NaN \/ b = NaN \/ (IsInf(a) /\ IsZero(b)) \/ (IsZero(a) /\ IsInf(b)) THEN NaN
  ELSE IF IsInf(a) THEN IF b.positive THEN a ELSE Negated(a)
  ELSE IF IsInf(b) THEN IF a.positive THEN b ELSE Negated(b)
  ELSE Normalize(a.positive = b.positive, Wrapped(Factors(a, b).n), Wrapped(Factors(a, b).d), TRUE)

Finite(a) == a.denominator # 0
SumWraps(a, b) ==
  /\ Finite(a) /\ Finite(b)
  /\ LET s == Summands(a, b) IN
     \/ s.n1 \notin Uint \/ s.n2 \notin Uint \/ s.d \notin Uint
     \/ a.positive = b.positive /\ s.n1 + s.n2 \notin Uint
ProductWraps(a, b) ==
  Finite(a) /\ Finite(b) /\ (Factors(a, b).n \notin Uint \/ Factors(a, b).d \notin Uint)

Assign(op, b, result, wraps) ==
  r' = result /\ last' = [op |-> op, lhs |-> r, rhs |-> b] /\ lost' = wraps

\* The operators; the model follows a number until an integer wraps around.
PlusAssign(b)  == Assign("+", b, Added(r, b), SumWraps(r, b))
MinusAssign(b) == Assign("-", b, Added(r, Negated(b)), SumWraps(r, Negated(b)))
TimesAssign(b) == Assign("*", b, Multiplied(r, b), ProductWraps(r, b))
DivideAssign(b) == Assign("/", b, Multiplied(r, Inverted(b)), ProductWraps(r, Inverted(b)))

RationalInit ==
  /\ r \in {Made(t) : t \in Operands} /\ lost = FALSE
  /\ last = [op |-> "made", lhs |-> r, rhs |-> r]

RationalNext ==
  /\ ~lost
  /\ \E b \in {Made(t) : t \in Operands} :
       PlusAssign(b) \/ MinusAssign(b) \/ TimesAssign(b) \/ DivideAssign(b)

RationalSpec == RationalInit /\ [][RationalNext]_rationalVars

\* operator<, from which the other comparisons are made.
Less(a, b) == ~(a = NaN \/ b = NaN) /\ ~Added(a, Negated(b)).positive

-----------------------------------------------------------------------------
(* Properties.                                                             *)

Signed(a) == IF a.positive THEN a.numerator ELSE -a.numerator

\* Whether r is n/d, in the integers without bound.
IsFraction(n, d) == Finite(r) /\ Signed(r) * d = n * r.denominator

\* A number has one form, by which operator== compares.
NormalForm ==
  \/ r \in {NaN, Inf(TRUE), Inf(FALSE), Triple(TRUE, 0, 1)}
  \/ /\ r.numerator > 0 /\ r.denominator > 0
     /\ \A k \in 2 .. UintSize : ~(r.numerator % k = 0 /\ r.denominator % k = 0)

\* The result of the last operation, by the rules of the extended numbers.
Exact ==
  LET a == last.lhs
      b == last.rhs
      sign == a.positive = b.positive
  IN
  CASE last.op = "made" -> TRUE
    [] last.op # "made" /\ (a = NaN \/ b = NaN) -> r = NaN
    [] last.op \in {"+", "-"} /\ a # NaN /\ b # NaN ->
         LET n == IF last.op = "+" THEN Signed(b) ELSE -Signed(b) IN
         IF Finite(a) /\ Finite(b)
         THEN IsFraction(Signed(a) * b.denominator + n * a.denominator, a.denominator * b.denominator)
         ELSE r = IF Finite(a) THEN Inf(n > 0) ELSE IF Finite(b) \/ (n > 0) = a.positive THEN a ELSE NaN
    [] last.op = "*" /\ a # NaN /\ b # NaN ->
         IF Finite(a) /\ Finite(b) THEN IsFraction(Signed(a) * Signed(b), a.denominator * b.denominator)
         ELSE r = IF IsZero(a) \/ IsZero(b) THEN NaN ELSE Inf(sign)
    [] last.op = "/" /\ a # NaN /\ b # NaN ->
         IF Finite(a) /\ Finite(b) /\ ~IsZero(b)
         THEN IsFraction(Signed(a) * b.denominator, a.denominator * Signed(b))
         ELSE r = IF (IsZero(a) /\ IsZero(b)) \/ (IsInf(a) /\ IsInf(b)) THEN NaN
                  ELSE IF Finite(a) /\ IsInf(b) THEN Triple(TRUE, 0, 1) ELSE Inf(sign)

\* operator< is the order of the numbers, wherever the difference fits.
Ordered ==
  \A b \in {Made(t) : t \in Operands} :
    r # NaN /\ b # NaN /\ ~SumWraps(r, Negated(b)) =>
      Less(r, b) <=> IF Finite(r) /\ Finite(b) THEN Signed(r) * b.denominator < Signed(b) * r.denominator
                     ELSE IF Finite(r) THEN b.positive
                     ELSE ~r.positive /\ b # r

\* As long as no integer wraps around, every result is exact, in normal form
\* and in order.  A product or a quotient wraps only when it has no place in
\* Uint; a sum may wrap on the way to one that has.
RationalRight == ~lost => NormalForm /\ Exact /\ Ordered
=============================================================================
