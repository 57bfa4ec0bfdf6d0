------------------------------ MODULE Decimal ------------------------------
(***************************************************************************)
(* decimal_t: a number is an integer of Width bits, scaled by 10^Scale.    *)
(* In the code Half = 64, Scale = 18, MaxIntegerDigits = 20, and a         *)
(* uint8_t counts the fractional digits of a text (CountBits = 8).  Every  *)
(* operation keeps the order and the widths of the code's.                 *)
(***************************************************************************)
EXTENDS Integers, Sequences, SequencesExt, FiniteSetsExt

CONSTANTS Half, Scale, MaxIntegerDigits, CountBits

Width == 2 * Half
Word == 0 .. (2^Width - 1)                \* uint128_t
max_int == 2^(Width - 1) - 1
Raw == (-max_int - 1) .. max_int          \* int128_t
scale_factor == 10^Scale
max_raw == scale_factor * 10^(MaxIntegerDigits - 1)

\* The digits of the largest number: the buffer of int128_to_scientific holds 40.
MaxDigits == MaxIntegerDigits + Scale + 1

\* What the code takes for granted of its own constants: the longest integer
\* part it reads fits, with one digit more it would not, and the sum of two
\* valid numbers fits.
ASSUME DecimalAssumption ==
    /\ Half \in Nat \ {0} /\ Scale \in Nat \ {0} /\ MaxIntegerDigits \in Nat \ {0}
    /\ CountBits \in Nat
    /\ 10^(MaxIntegerDigits + Scale) <= max_int + 1 /\ max_int + 1 < 10^MaxDigits
    /\ 2 * max_raw <= max_int /\ Scale < 2^CountBits

\* What ^ computes, as far as the widths go: the provers know nothing of it.
ASSUME PowerAssumption ==
    /\ \A i \in 0 .. 2 * Width - 1 : 2^(i + 1) = 2 * 2^i
    /\ \A i \in 0 .. MaxDigits - 1 : 10^(i + 1) = 10 * 10^i

AsSigned(w) == IF w > max_int THEN w - 2^Width ELSE w
Wrap(x) == AsSigned(x % 2^Width)
\* operator/ of the language: towards zero.
Quot(x, d) == IF x >= 0 THEN x \div d ELSE -((-x) \div d)

-----------------------------------------------------------------------------
\* to_unsigned: -v, also of the smallest v.
to_unsigned(v) == IF v >= 0 THEN v ELSE ((2^Width - 1 - (v % 2^Width)) + 1) % 2^Width

\* Faulty variant: the carry out of the low word is lost.
mul256_NoCarry(a, b) ==
    LET mid == (a % 2^Half) * (b \div 2^Half) + (a \div 2^Half) * (b % 2^Half)
    IN  [lo |-> ((a % 2^Half) * (b % 2^Half) + mid * 2^Half) % 2^Width,
         hi |-> (a \div 2^Half) * (b \div 2^Half) + mid \div 2^Half]

\* The product of two words, from the products of their halves.
mul256(a, b) ==
    LET a0 == a % 2^Half   a1 == a \div 2^Half
        b0 == b % 2^Half   b1 == b \div 2^Half
        mid == (a0 * b1 + a1 * b0) % 2^Width
        mid_carry == IF mid < a0 * b1 THEN 1 ELSE 0
        lo == (a0 * b0 + mid * 2^Half) % 2^Width
        lo_carry == IF lo < a0 * b0 THEN 1 ELSE 0
    IN  [lo |-> lo,
         hi |-> (a1 * b1 + mid \div 2^Half + mid_carry * 2^Half + lo_carry) % 2^Width]

\* Bit i of a double word.
Bit(n, i) == (IF i >= Width THEN n.hi \div 2^(i - Width) ELSE n.lo \div 2^i) % 2

\* One round of the long division: the remainder is shifted, its high bit kept
\* aside, and the divisor subtracted if it goes in.
DivideBit(n, d, i, acc) ==
    LET rem_high == acc.rem \div 2^(Width - 1) = 1
        rem == ((2 * acc.rem) % 2^Width) + Bit(n, i)
        one == IF i >= Width THEN [lo |-> 0, hi |-> 2^(i - Width)] ELSE [lo |-> 2^i, hi |-> 0]
    IN  IF rem_high \/ rem >= d
          THEN [rem |-> (rem - d) % 2^Width,
                quot |-> [lo |-> acc.quot.lo + one.lo, hi |-> acc.quot.hi + one.hi]]
          ELSE [acc EXCEPT !.rem = rem]

divmod256(n, d) ==
    LET none == [quot |-> [lo |-> 0, hi |-> 0], rem |-> 0]
        after[k \in 0 .. 2 * Width] ==
            IF k = 0 THEN none ELSE DivideBit(n, d, 2 * Width - k, after[k - 1])
    IN  IF n.hi = 0 THEN [quot |-> [lo |-> n.lo \div d, hi |-> 0], rem |-> n.lo % d]
        ELSE after[2 * Width]

pack_result(quot, rem, negative) ==
    LET fits == quot.hi = 0 /\ quot.lo <= max_int
        sign == IF negative THEN -1 ELSE 1
    IN  [value |-> sign * (quot.lo % (max_int + 1)), error |-> sign * AsSigned(rem),
         overflow |-> sign * (IF fits THEN 0 ELSE IF quot.hi # 0 THEN AsSigned(quot.hi) ELSE 1)]

Negative(a, b) == (a < 0) # (b < 0)

mul(a, b) ==
    LET r == divmod256(mul256(to_unsigned(a), to_unsigned(b)), scale_factor)
    IN  pack_result(r.quot, r.rem, Negative(a, b))

\* b is not zero: otherwise std::domain_error.
div(a, b) ==
    LET r == divmod256(mul256(to_unsigned(a), scale_factor), to_unsigned(b))
    IN  pack_result(r.quot, r.rem, Negative(a, b))

is_valid(v) == -max_raw <= v /\ v <= max_raw
plus(a, b) == Wrap(a + b)

-----------------------------------------------------------------------------
(***************************************************************************)
(* Texts: a sign, the digits before the point and the digits after it.  10 *)
(* stands for any other character; a text without a point has no digits    *)
(* after it.                                                               *)
(***************************************************************************)
Number(digits) ==
    LET read[i \in 0 .. Len(digits)] == IF i = 0 THEN 0 ELSE 10 * read[i - 1] + digits[i]
    IN  read[Len(digits)]
Prefix(digits, n) == SubSeq(digits, 1, Min({Len(digits), n}))
Odd(digits) == \E i \in DOMAIN digits : digits[i] \notin 0 .. 9
Thrown(what) == [thrown |-> what]
Parsed(v) == [thrown |-> "nothing", value |-> v]

\* Faulty variant: too many fractional digits are cut off.
parse_decimal_t_Cuts(t) ==
    LET frac == Prefix(t.frac, Scale)
        result == Number(t.int) * scale_factor + Number(frac) * 10^(Scale - Len(frac))
    IN  IF Odd(t.int) \/ Odd(t.frac) THEN Thrown("invalid_argument")
        ELSE IF Len(t.int) > MaxIntegerDigits THEN Thrown("overflow_error")
        ELSE Parsed(IF t.sign = "-" THEN -result ELSE result)

(***************************************************************************)
(* The first character that is no digit, or one digit too many, ends the   *)
(* integer part.  frac_part overflows, which is undefined, where the       *)
(* fraction has as many digits as the word: its value is not used, because *)
(* so many digits are refused, unless their count modulo 2^CountBits is    *)
(* small again.                                                            *)
(***************************************************************************)
parse_decimal_t(t) ==
    LET frac_digits == Len(t.frac) % 2^CountBits
        result == Number(t.int) * scale_factor
                  + Number(t.frac) * 10^(Scale - frac_digits)
    IN  IF Odd(Prefix(t.int, MaxIntegerDigits + 1)) THEN Thrown("invalid_argument")
        ELSE IF Len(t.int) > MaxIntegerDigits THEN Thrown("overflow_error")
        ELSE IF Odd(t.frac) \/ frac_digits > Scale THEN Thrown("invalid_argument")
        ELSE IF frac_digits # Len(t.frac) THEN Thrown("undefined")
        ELSE IF Number(t.int) # 0 /\ Quot(Wrap(result), scale_factor) # Number(t.int)
          THEN Thrown("overflow_error")
        ELSE Parsed(IF t.sign = "-" THEN Wrap(-Wrap(result)) ELSE Wrap(result))

\* The last digits of a number, as many as are asked for.
Padded(n, size) == [i \in 1 .. size |-> (n \div 10^(size - i)) % 10]

\* The digits of a number, none for 0.
Digits(n) == Padded(n, Min({k \in 0 .. MaxDigits : n < 10^k}))

Trimmed(digits) ==
    SubSeq(digits, 1, Max({0} \cup {i \in DOMAIN digits : digits[i] # 0}))

\* Faulty variant: the fraction is not padded with zeros on the left.
decimal_to_string_NoPad(v) ==
    LET abs_val == IF v < 0 THEN -v ELSE v
        int_part == abs_val \div scale_factor
        frac == Trimmed(Digits(abs_val % scale_factor))
    IN  [sign |-> IF v < 0 THEN "-" ELSE "",
         int |-> IF int_part = 0 THEN <<0>> ELSE Digits(int_part),
         frac |-> IF frac = <<>> THEN <<0>> ELSE frac]

\* to_string, of any v but the smallest, whose -v is undefined.
decimal_to_string(v) ==
    LET abs_val == IF v < 0 THEN -v ELSE v
        int_part == abs_val \div scale_factor
        frac == Trimmed(Padded(abs_val % scale_factor, Scale))
    IN  [sign |-> IF v < 0 THEN "-" ELSE "",
         int |-> IF int_part = 0 THEN <<0>> ELSE Digits(int_part),
         frac |-> IF frac = <<>> THEN <<0>> ELSE frac]

\* int128_to_scientific: one digit, the others without trailing zeros, and
\* the power of ten.
int128_to_scientific(v) ==
    LET digits == Digits(to_unsigned(v))
        rest == Trimmed(Tail(digits))
    IN  IF v = 0 THEN [sign |-> "", int |-> <<0>>, frac |-> <<0>>, exp |-> 0]
        ELSE [sign |-> IF v < 0 THEN "-" ELSE "", int |-> <<Head(digits)>>,
              frac |-> IF rest = <<>> THEN <<0>> ELSE rest, exp |-> Len(digits) - 1]

\* decimal_t(raw, input_scale): scaled up or down digit by digit.
Rescale(raw, input_scale) ==
    IF input_scale <= Scale THEN Wrap(raw * 10^(Scale - input_scale))
    ELSE Quot(raw, 10^(input_scale - Scale))
-----------------------------------------------------------------------------
\* Numbers around the powers of two and of ten, of either sign.
Edges ==
    LET near == {2^i : i \in 0 .. Width} \cup {10^i : i \in 0 .. (MaxIntegerDigits + Scale)}
    IN  {s * (n + e) : s \in {-1, 1}, n \in near, e \in -1 .. 1}

Texts ==
    [sign : {"", "-", "+"},
     int : SeqOf({0, 9, 10}, MaxIntegerDigits + 2),
     frac : SeqOf({0, 7, 10}, 2^CountBits + 1)]

\* A double word as a number.
Whole(n) == n.hi * 2^Width + n.lo

Magnitude(x) == IF x < 0 THEN -x ELSE x

\* What a result says of a quotient: value and error together are the exact answer,
\* rounded towards zero, or there is an overflow and the quotient has no room.
Exact(r, numerator, d) ==
    IF r.overflow = 0
      THEN /\ r.value * d + r.error = numerator /\ Magnitude(r.error) < d
           /\ r.error # 0 => (r.error < 0) = (numerator < 0)
      ELSE Magnitude(numerator) \div d > max_int

\* The operations on two numbers.
SignedExact(a, b) ==
    /\ Exact(mul(a, b), a * b, scale_factor)
    /\ b # 0 => Exact(div(a, b), (IF b < 0 THEN -a ELSE a) * scale_factor, Magnitude(b))
    /\ is_valid(a) /\ is_valid(b) => plus(a, b) = a + b

\* A double word divided by a word.
DivisionExact(n, d) ==
    LET r == divmod256(n, d)
    IN  r.rem < d /\ Whole(r.quot) * d + r.rem = Whole(n)

(***************************************************************************)
(* Multiplication and division lose nothing: unless an overflow is         *)
(* reported, result and remainder together are the exact answer, rounded   *)
(* towards zero, and an overflow is reported only where the quotient has   *)
(* no room in the positive range.  mul256 and divmod256 are exact for every*)
(* word, also where the signed operations never lead.  Sums of valid       *)
(* numbers do not wrap.                                                    *)
(***************************************************************************)
ArithmeticExact(a) ==
    /\ a \in Raw => \A b \in Edges \cap Raw : SignedExact(a, b)
    /\ a \in Word => \A b \in Edges \cap Word :
         /\ Whole(mul256(a, b)) = a * b
         /\ \A d \in {1, scale_factor, 2^(Width - 1), 2^Width - 1} :
              DivisionExact([hi |-> a, lo |-> b], d)

\* A number is read back from the text it is sent as, if its integer part has
\* no more digits than are read, which holds for every valid number; and the
\* scientific form of a remainder or an overflow is exact.
TextReadBack(v) ==
    v \in Raw =>
      /\ v > -max_int - 1 /\ Len(decimal_to_string(v).int) <= MaxIntegerDigits =>
           parse_decimal_t(decimal_to_string(v)) = Parsed(v)
      /\ is_valid(v) => Len(decimal_to_string(v).int) <= MaxIntegerDigits
      /\ LET s == int128_to_scientific(v)
             shift == s.exp - Len(s.frac)
             n == Number(s.int \o s.frac) * (IF s.sign = "-" THEN -1 ELSE 1)
         IN  IF shift >= 0 THEN n * 10^shift = v ELSE n = v * 10^(-shift)
      /\ \A k \in 0 .. Scale :
           is_valid(v) /\ is_valid(v * 10^(Scale - k)) => Rescale(v, k) = v * 10^(Scale - k)

\* A text is read as the number it stands for, or an exception is thrown:
\* invalid_argument for other characters and for more digits than the scale
\* has, overflow_error for a long integer part.  Only where the count of
\* fractional digits wraps around is anything else possible.
TextJudged(t) ==
    LET p == parse_decimal_t(t)
        odd == Odd(t.int) \/ Odd(t.frac)
        n == Number(t.int \o t.frac) * 10^(Scale - Len(t.frac))
    IN  Len(t.frac) < 2^CountBits =>
          IF odd \/ Len(t.int) > MaxIntegerDigits \/ Len(t.frac) > Scale
            THEN p.thrown \in {"invalid_argument", "overflow_error"}
            ELSE p = Parsed(IF t.sign = "-" THEN -n ELSE n)
=============================================================================
