------------------------------- MODULE Numbers -------------------------------
(***************************************************************************)
(* The pure functions of the user programs: the conversions of             *)
(* user/libc.c, and what P3, P4 and P5 compute.  x runs through all values *)
(* of a word of Width bits, and the properties compare each function with  *)
(* a definition of what it computes, or with another function.             *)
(***************************************************************************)
EXTENDS Integers, Sequences

CONSTANTS
  Width,             \* bits of an int, 32 in the code: a power of 2
  Lo, Hi             \* P4 computes gcd( x, y ) of Lo <= x, y < Hi: 16 and 256

ASSUME NumbersAssumption == Width \in {4, 8, 16, 32} /\ Lo \in Nat \ {0} /\ Hi \in Nat

VARIABLE x           \* an argument

MaxInt == 2 ^ (Width - 1) - 1
MinInt == -MaxInt - 1

Init == x = MinInt
NextArgument == x < MaxInt /\ x' = x + 1
Spec == Init /\ [][NextArgument]_x

-----------------------------------------------------------------------------
\* What an operation that overflows leaves in the register.
Int32(v) == ((v - MinInt) % 2 ^ Width) + MinInt
UInt32(v) == v % 2 ^ Width

\* C rounds quotients towards 0, and remainders have the dividend's sign.
Quotient(a, b) == IF a >= 0 THEN a \div b ELSE -((-a) \div b)
Remainder(a, b) == a - b * Quotient(a, b)

\* A character is its distance from '0'; a digit is its value.
Minus == -3
Plus == -5
NUL == -48

\* print_int() of a number without its sign: the digits before the last, the last.
printed[n \in Int] ==
  (IF n >= 10 THEN printed[n \div 10] ELSE << >>) \o << Remainder(n, 10) >>

print_int(n) == IF n < 0 THEN << Minus >> \o printed[Int32(-n)] ELSE printed[n]

\* Faulty: the digits of a negative number are added.
Accumulate_Add(s, r, c) == Int32(r * 10 + c)

\* The r of atoi() after one more character.
Accumulate(s, r, c) == Int32(IF s THEN r * 10 - c ELSE r * 10 + c)

\* The values of r while the loop reads text; s tells a minus, p how many
\* characters are its sign.
Reads(s, p, text) ==
  LET r[k \in 0 .. Len(text)] == IF k <= p THEN 0 ELSE Accumulate(s, r[k - 1], text[k])
  IN  r

atoi(text) ==
  LET s == text # << >> /\ text[1] = Minus
      p == IF text # << >> /\ text[1] \in {Minus, Plus} THEN 1 ELSE 0
  IN  Reads(s, p, text)[Len(text)]

-----------------------------------------------------------------------------
(* itoa( r, x ) writes from the last digit to the first; the place of the    *)
(* last one comes from a loop that counts the powers of 10.                  *)

\* n after k rounds of the loop: it overflows from the first power on that is
\* no int, and is 0 after Width rounds.
n[k \in Nat] == IF k = 0 THEN 1 ELSE Int32(n[k - 1] * 10)

\* Faulty: the loop stops one power too early.
Rounds_Strict(t) == { k \in 0 .. Width : t <= n[k] /\ \A j \in 0 .. k - 1 : t > n[j] }

\* The rounds until t < n; none if the loop does not end.
Rounds(t) == { k \in 0 .. Width : t < n[k] /\ \A j \in 0 .. k - 1 : t >= n[j] }

\* What itoa() stores, by its distance from r; t has the digits printed[t].
itoa(a) ==
  LET t == IF a < 0 THEN Int32(-a) ELSE a
      digits == printed[t]
      p == (IF a < 0 THEN 1 ELSE 0) + CHOOSE k \in Rounds(t) : TRUE
      first == p - Len(digits)
  IN  [q \in (IF a < 0 THEN first - 1 ELSE first) .. p |->
         IF q = p THEN NUL ELSE IF q < first THEN Minus ELSE digits[q - first + 1]]

\* The text is stored from r on, and nothing before it.
Holds(memory, text) ==
  memory = [q \in 0 .. Len(text) |-> IF q < Len(text) THEN text[q + 1] ELSE NUL]

-----------------------------------------------------------------------------
(* P3, P4 and P5.                                                            *)

\* Faulty: a square is not compared with itself.
Tries_Less(d, a) == UInt32(d * d) < a

\* The condition of the loop of is_prime(): the square may overflow.
Tries(d, a) == UInt32(d * d) <= a

\* What the loop returns that goes on with d.
Tried(a) ==
  LET from[d \in Nat] == IF ~Tries(d, a) THEN 1 ELSE IF a % d = 0 THEN 0 ELSE from[d + 2]
  IN  from

is_prime(a) == IF a % 2 = 0 \/ a < 2 THEN (IF a = 2 THEN 1 ELSE 0) ELSE Tried(a)[3]

\* Faulty: y is never reduced.
Same_NotGreater(a, b) == a <= b

Same(a, b) == a = b

gcd[p \in Nat \X Nat] ==
  IF Same(p[1], p[2]) THEN p[1]
  ELSE IF p[1] > p[2] THEN gcd[<< p[1] - p[2], p[2] >>] ELSE gcd[<< p[1], p[2] - p[1] >>]

\* a & mask for the masks 0x55..., 0x33..., 0x0F...: of the fields, which have B
\* values each, every second one from the lowest on.
Masked(B) ==
  LET masked[a \in Nat] == IF a < B THEN a ELSE (a % B) + B * B * masked[a \div (B * B)]
  IN  masked

\* Faulty: the fields are not moved before they are added.
Paired_Unmoved(a, B) == Masked(B)[a] + Masked(B)[a]

\* One line of weight(): neighbouring fields are added.
Paired(a, B) == Masked(B)[a] + Masked(B)[a \div B]

\* Its five lines, for fields of 1, 2, 4, 8 and 16 bits.
weight(a) == Paired(Paired(Paired(Paired(Paired(a, 2), 4), 16), 256), 65536)

-----------------------------------------------------------------------------
(* What they compute.                                                        *)

\* The largest power of 10 that is an int.
TopPower == CHOOSE m \in { 10 ^ k : k \in 0 .. 9 } : m <= MaxInt /\ m > MaxInt \div 10

\* What print_int() prints is read as the same number by atoi(), signs and
\* overflow included, but for the one int whose negative is none.
RoundTrip == x # MinInt => atoi(print_int(x)) = x

\* itoa() goes through the number the other way and computes beforehand where to
\* begin: it stores what print_int() prints and nothing before r.  Not so for 0,
\* and from TopPower on the power of 10 overflows.
ItoaPrints == x # 0 /\ x \in 1 - TopPower .. TopPower - 1 => Holds(itoa(x), print_int(x))

\* The squares of the divisors overflow for arguments at the end of the range;
\* before that is_prime() is right.
PrimeRight ==
  LET a == UInt32(x)
      Root == 2 ^ (Width \div 2) - 1
  IN  a < Root * Root =>
        (is_prime(a) = 1 <=> a >= 2 /\ \A d \in 2 .. Root : d < a => a % d # 0)

\* gcd() ends for the arguments of P4, with their greatest common divisor.
GcdRight ==
  x \in Lo .. Hi - 1 => \A y \in Lo .. Hi - 1 :
    LET g == gcd[<< x, y >>]
    IN  /\ x % g = 0 /\ y % g = 0
        /\ \A d \in g + 1 .. x : x % d # 0 \/ y % d # 0

\* The digits of a number to base B, added up.
DigitSum(B) == LET sum[a \in Nat] == IF a < B THEN a ELSE (a % B) + sum[a \div B] IN sum

\* weight() counts the bits that are set.
WeightRight == weight(UInt32(x)) = DigitSum(2)[UInt32(x)]
=============================================================================
