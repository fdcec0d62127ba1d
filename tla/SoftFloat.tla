----------------------------- MODULE SoftFloat -----------------------------
(* The floating-point arithmetic of softfp_template.h, for any format: the  *)
(* template is written over F_SIZE, EXP_SIZE and MANT_SIZE, here fields of  *)
(* a record. A float is its bit pattern, a natural number; an operation     *)
(* returns the pattern of its result and the flags it raises. A double word *)
(* of the source, a_mant1 and a_mant0, is one number.                       *)
EXTENDS Integers, FiniteSets

RNE == 0  \* to nearest, ties to even
RTZ == 1  \* towards zero
RDN == 2  \* down
RUP == 3  \* up
RMM == 4  \* to nearest, ties to max magnitude
RoundingModes == {RNE, RTZ, RDN, RUP, RMM}

NV == "invalid"
DZ == "divide_zero"
OF == "overflow"
UF == "underflow"
NX == "inexact"

\* A format is [exp |-> EXP_SIZE, mant |-> MANT_SIZE].
F_SIZE(f)    == 1 + f.exp + f.mant
EXP_MASK(f)  == 2 ^ f.exp - 1
MANT_MASK(f) == 2 ^ f.mant - 1
RND_SIZE(f)  == F_SIZE(f) - 2 - f.mant
QNAN_MASK(f) == 2 ^ (f.mant - 1)
BIAS(f)      == EXP_MASK(f) \div 2
Word(f)      == 2 ^ F_SIZE(f)

pack_sf(f, sign, exp, mant) ==
  sign * 2 ^ (F_SIZE(f) - 1) + exp * 2 ^ f.mant + (mant % 2 ^ f.mant)

Sign(f, a) == a \div 2 ^ (F_SIZE(f) - 1)
Exp(f, a)  == (a \div 2 ^ f.mant) % 2 ^ f.exp
Mant(f, a) == a % 2 ^ f.mant
Abs(f, a)  == a % 2 ^ (F_SIZE(f) - 1)
Negate(f, a) == (a + 2 ^ (F_SIZE(f) - 1)) % Word(f)
XorSign(s, t) == (s + t) % 2
F_QNAN(f)  == pack_sf(f, 0, EXP_MASK(f), QNAN_MASK(f))

Result(val, flags) == [val |-> val, flags |-> flags]
FlagIf(c, flag)    == IF c THEN {flag} ELSE {}

\* a with its lowest bit set if lost.
Sticky(a, lost) == IF lost /\ a % 2 = 0 THEN a + 1 ELSE a

BitLength(a) == CHOOSE n \in 0 .. 30 : a < 2 ^ n /\ (n = 0 \/ 2 ^ (n - 1) <= a)
clz(size, a) == size - BitLength(a)

\* Faulty: the bits shifted out leave no trace.
rshift_trunc(f, a, d) == IF d >= F_SIZE(f) THEN 0 ELSE a \div 2 ^ d

rshift_rnd(f, a, d) ==
  IF d >= F_SIZE(f) THEN Sticky(0, a # 0)
                    ELSE Sticky(a \div 2 ^ d, a % 2 ^ d # 0)

\* What is added to a mantissa before its RND_SIZE low bits are cut.
Addend(f, sign, rm) ==
  CASE rm \in {RNE, RMM}               -> 2 ^ (RND_SIZE(f) - 1)
    [] rm = RTZ                        -> 0
    [] rm \in {RDN, RUP} /\ XorSign(sign, rm % 2) = 1 -> 2 ^ RND_SIZE(f) - 1
    [] OTHER                           -> 0

RndBits(f, mant) == mant % 2 ^ RND_SIZE(f)

\* mant with addend added and cut; a tie goes to the even result.
CutMantissa(f, mant, addend, rm) ==
  LET m == (mant + addend) \div 2 ^ RND_SIZE(f)
  IN  IF rm = RNE /\ RndBits(f, mant) = 2 ^ (RND_SIZE(f) - 1) THEN m - (m % 2) ELSE m

\* mant has its leading one at bit F_SIZE - 2, or is zero.
round_pack_sf(f, sign, a_exp, a_mant, rm) ==
  LET addend    == Addend(f, sign, rm)
      low       == a_exp <= 0
      subnormal == a_exp < 0 \/ a_mant + addend < 2 ^ (F_SIZE(f) - 1)
      mant      == IF low THEN rshift_rnd(f, a_mant, 1 - a_exp) ELSE a_mant
      inexact   == RndBits(f, mant) # 0
      flags     == FlagIf(inexact, NX) \cup FlagIf(low /\ subnormal /\ inexact, UF)
      m         == CutMantissa(f, mant, addend, rm)
      exp       == (IF low THEN 1 ELSE a_exp) + m \div 2 ^ (f.mant + 1)
  IN  CASE m <= MANT_MASK(f) -> Result(pack_sf(f, sign, 0, m), flags)
        [] m > MANT_MASK(f) /\ exp >= EXP_MASK(f) ->
             Result(IF addend = 0
                    THEN pack_sf(f, sign, EXP_MASK(f) - 1, MANT_MASK(f))
                    ELSE pack_sf(f, sign, EXP_MASK(f), 0),
                    flags \cup {OF, NX})
        [] OTHER -> Result(pack_sf(f, sign, exp, m), flags)

normalize_sf(f, sign, exp, mant, rm) ==
  LET shift == clz(F_SIZE(f), mant) - 1
  IN  round_pack_sf(f, sign, exp - shift, mant * 2 ^ shift, rm)

\* The same for a double word.
normalize2_sf(f, sign, exp, mant, rm) ==
  LET shift == clz(2 * F_SIZE(f), mant) - 1
      m     == mant * 2 ^ shift
  IN  round_pack_sf(f, sign, exp - shift,
                    Sticky(m \div Word(f), m % Word(f) # 0), rm)

isnan_sf(f, a)    == Exp(f, a) = EXP_MASK(f) /\ Mant(f, a) # 0
issignan_sf(f, a) == isnan_sf(f, a) /\ Mant(f, a) < QNAN_MASK(f)
IsInf(f, a)       == Abs(f, a) = EXP_MASK(f) * 2 ^ f.mant
IsZero(f, a)      == Abs(f, a) = 0

NanResult(f, as) == Result(F_QNAN(f), FlagIf(\E a \in as : issignan_sf(f, a), NV))
Invalid(f)       == Result(F_QNAN(f), {NV})
Infinity(f, s)   == Result(pack_sf(f, s, EXP_MASK(f), 0), {})

\* The mantissa with its hidden bit and its exponent, of a subnormal as it is
\* (add_sf), or shifted until its leading one is the hidden bit.
Unpack(f, a) ==
  [exp  |-> IF Exp(f, a) = 0 THEN 1 ELSE Exp(f, a),
   mant |-> IF Exp(f, a) = 0 THEN Mant(f, a) ELSE Mant(f, a) + 2 ^ f.mant]
normalize_subnormal_sf(f, mant) ==
  LET shift == f.mant - (F_SIZE(f) - 1 - clz(F_SIZE(f), mant))
  IN  [exp |-> 1 - shift, mant |-> mant * 2 ^ shift]
Normalized(f, a) ==
  IF Exp(f, a) = 0 THEN normalize_subnormal_sf(f, Mant(f, a)) ELSE Unpack(f, a)

add_sf(f, a0, b0, rm) ==
  LET swap == Abs(f, a0) < Abs(f, b0)
      a    == IF swap THEN b0 ELSE a0
      b    == IF swap THEN a0 ELSE b0
      ua   == Unpack(f, a)
      ub   == Unpack(f, b)
      same == Sign(f, a) = Sign(f, b)
      bm   == rshift_rnd(f, ub.mant * 8, ua.exp - ub.exp)
      mant == IF same THEN ua.mant * 8 + bm ELSE ua.mant * 8 - bm
      sign == IF ~same /\ mant = 0 THEN IF rm = RDN THEN 1 ELSE 0 ELSE Sign(f, a)
  IN  CASE isnan_sf(f, a) -> NanResult(f, {a, b})
        [] IsInf(f, a) /\ IsInf(f, b) /\ ~same -> Invalid(f)
        [] IsInf(f, a) /\ ~(IsInf(f, b) /\ ~same) -> Result(a, {})
        [] OTHER -> normalize_sf(f, sign, ua.exp + RND_SIZE(f) - 3, mant, rm)

sub_sf(f, a, b, rm) == add_sf(f, a, Negate(f, b), rm)

mul_sf(f, a, b, rm) ==
  LET sign == XorSign(Sign(f, a), Sign(f, b))
      ua   == Normalized(f, a)
      ub   == Normalized(f, b)
      prod == (ua.mant * 2 ^ RND_SIZE(f)) * (ub.mant * 2 ^ (RND_SIZE(f) + 1))
  IN  CASE isnan_sf(f, a) \/ isnan_sf(f, b) -> NanResult(f, {a, b})
        [] \/ IsInf(f, a) /\ IsZero(f, b)
           \/ IsInf(f, b) /\ IsZero(f, a) -> Invalid(f)
        [] \/ IsInf(f, a) /\ ~IsZero(f, b) /\ ~isnan_sf(f, b)
           \/ IsInf(f, b) /\ ~IsZero(f, a) /\ ~isnan_sf(f, a) -> Infinity(f, sign)
        [] \/ IsZero(f, a) /\ Exp(f, b) # EXP_MASK(f)
           \/ IsZero(f, b) /\ Exp(f, a) # EXP_MASK(f) -> Result(pack_sf(f, sign, 0, 0), {})
        [] OTHER ->
             normalize_sf(f, sign, ua.exp + ub.exp - 2 ^ (f.exp - 1) + 2,
                          Sticky(prod \div Word(f), prod % Word(f) # 0), rm)

\* The shift of the smaller operand of fma_sf, a double word: beyond a word the
\* low word is dropped without a trace.
AlignAddend(f, c, shift) ==
  CASE shift >= 2 * F_SIZE(f) -> Sticky(0, c # 0)
    [] shift > F_SIZE(f) /\ shift < 2 * F_SIZE(f) ->
         rshift_rnd(f, c \div Word(f), shift - F_SIZE(f))
    [] OTHER -> Sticky(c \div 2 ^ shift, c % 2 ^ shift # 0)

\* The sum of two unpacked double words, the bigger one first.
AddAligned(f, big, small, rm) ==
  LET cm    == AlignAddend(f, small.mant, big.exp - small.exp)
      same  == big.sign = small.sign
      sum   == IF same THEN big.mant + cm ELSE big.mant - cm
      zsign == IF ~same /\ sum = 0 THEN IF rm = RDN THEN 1 ELSE 0 ELSE big.sign
  IN  normalize2_sf(f, zsign, big.exp, sum, rm)

AddUnpacked(f, r, s, rm) ==
  IF r.exp > s.exp \/ (r.exp = s.exp /\ r.mant \div Word(f) >= s.mant \div Word(f))
  THEN AddAligned(f, r, s, rm)
  ELSE AddAligned(f, s, r, rm)

\* The product, normalised to F_SIZE - 3 in its high word, plus c.
AddProduct(f, a, b, c, rm) ==
  LET sign  == XorSign(Sign(f, a), Sign(f, b))
      ua    == Normalized(f, a)
      ub    == Normalized(f, b)
      uc    == Normalized(f, c)
      prod  == (ua.mant * 2 ^ RND_SIZE(f)) * (ub.mant * 2 ^ RND_SIZE(f))
      short == prod < 2 ^ (F_SIZE(f) - 3) * Word(f)
      r     == [sign |-> sign, mant |-> IF short THEN 2 * prod ELSE prod,
                exp  |-> ua.exp + ub.exp - 2 ^ (f.exp - 1) + 3 - IF short THEN 1 ELSE 0]
      s     == [sign |-> Sign(f, c), exp |-> uc.exp + 1,
                mant |-> uc.mant * 2 ^ (RND_SIZE(f) - 1) * Word(f)]
  IN  IF IsZero(f, c)
      THEN normalize_sf(f, sign, r.exp,
                        Sticky(r.mant \div Word(f), r.mant % Word(f) # 0), rm)
      ELSE AddUnpacked(f, r, s, rm)

fma_sf(f, a, b, c, rm) ==
  LET sign    == XorSign(Sign(f, a), Sign(f, b))
      infprod == IsInf(f, a) \/ IsInf(f, b)
      zero    == IsZero(f, a) \/ IsZero(f, b)
      csign   == Sign(f, c)
  IN  CASE \E x \in {a, b, c} : isnan_sf(f, x) -> NanResult(f, {a, b, c})
        [] /\ \A x \in {a, b, c} : ~isnan_sf(f, x)
           /\ \/ infprod /\ zero
              \/ (infprod /\ IsInf(f, c) /\ sign # csign) -> Invalid(f)
        [] /\ \A x \in {a, b, c} : ~isnan_sf(f, x)
           /\ infprod \/ IsInf(f, c)
           /\ ~(infprod /\ (zero \/ (IsInf(f, c) /\ sign # csign))) ->
                Infinity(f, IF IsInf(f, c) THEN csign ELSE sign)
        [] /\ \A x \in {a, b, c} : Exp(f, x) # EXP_MASK(f)
           /\ zero ->
                IF IsZero(f, c)
                THEN Result(pack_sf(f, IF csign = sign THEN sign
                                       ELSE IF rm = RDN THEN 1 ELSE 0, 0, 0), {})
                ELSE Result(c, {})
        [] OTHER -> AddProduct(f, a, b, c, rm)

div_sf(f, a, b, rm) ==
  LET sign == XorSign(Sign(f, a), Sign(f, b))
      ua   == Normalized(f, a)
      ub   == Normalized(f, b)
      num  == ua.mant * Word(f)
      den  == 4 * ub.mant
  IN  CASE isnan_sf(f, a) \/ isnan_sf(f, b) -> NanResult(f, {a, b})
        [] \/ IsInf(f, a) /\ IsInf(f, b)
           \/ IsZero(f, a) /\ IsZero(f, b) -> Invalid(f)
        [] IsInf(f, a) /\ Exp(f, b) # EXP_MASK(f) -> Infinity(f, sign)
        [] \/ IsInf(f, b) /\ Exp(f, a) # EXP_MASK(f)
           \/ IsZero(f, a) /\ ~IsZero(f, b) /\ ~isnan_sf(f, b) ->
             Result(pack_sf(f, sign, 0, 0), {})
        [] IsZero(f, b) /\ ~IsZero(f, a) /\ Exp(f, a) # EXP_MASK(f) ->
             [Infinity(f, sign) EXCEPT !.flags = {DZ}]
        [] OTHER ->
             normalize_sf(f, sign, ua.exp - ub.exp + 2 ^ (f.exp - 1) - 1,
                          Sticky(num \div den, num % den # 0), rm)

\* The integer square root of a double word with a zero low word, by Newton's
\* iteration from a power of two that is not below it.
sqrtrem_u(f, ah) ==
  LET a     == ah * Word(f)
      l     == F_SIZE(f) + BitLength(ah - 1)
      start == 2 ^ ((l + 1) \div 2)
      Newton[s \in 1 .. start] ==
        LET u == (a \div s + s) \div 2 IN IF u >= s THEN s ELSE Newton[u]
      root  == Newton[start]
  IN  Sticky(root, a # root * root)

sqrt_sf(f, a, rm) ==
  LET ua  == Normalized(f, a)
      e   == ua.exp - BIAS(f)
      odd == e % 2
      m   == ua.mant * 2 ^ (odd + F_SIZE(f) - 4 - f.mant)
  IN  CASE isnan_sf(f, a) -> NanResult(f, {a})
        [] ~isnan_sf(f, a) /\ Sign(f, a) = 1 /\ ~IsZero(f, a) -> Invalid(f)
        [] IsZero(f, a) \/ (IsInf(f, a) /\ Sign(f, a) = 0) -> Result(a, {})
        [] OTHER -> normalize_sf(f, 0, (e - odd) \div 2 + BIAS(f), sqrtrem_u(f, m), rm)

FMINMAX_PROP         == "prop"
FMINMAX_IEEE754_2008 == "ieee2008"
FMINMAX_IEEE754_201X == "ieee201x"

min_max_nan_sf(f, a, b, type) ==
  LET signaling == issignan_sf(f, a) \/ issignan_sf(f, b)
      qnan == \/ type = FMINMAX_IEEE754_2008 /\ signaling
              \/ type = FMINMAX_PROP
              \/ isnan_sf(f, a) /\ isnan_sf(f, b)
  IN  Result(IF qnan THEN F_QNAN(f) ELSE IF isnan_sf(f, a) THEN b ELSE a,
             FlagIf(signaling, NV))

\* The patterns of two numbers of one sign are in the order of their
\* magnitudes.
IsLess(f, a, b) == IF Sign(f, a) # Sign(f, b) THEN Sign(f, a) = 1
                   ELSE (a < b) # (Sign(f, a) = 1)

min_sf(f, a, b, type) ==
  IF isnan_sf(f, a) \/ isnan_sf(f, b) THEN min_max_nan_sf(f, a, b, type)
  ELSE Result(IF IsLess(f, a, b) THEN a ELSE b, {})

max_sf(f, a, b, type) ==
  IF isnan_sf(f, a) \/ isnan_sf(f, b) THEN min_max_nan_sf(f, a, b, type)
  ELSE Result(IF IsLess(f, a, b) THEN b ELSE a, {})

BothZero(f, a, b) == IsZero(f, a) /\ IsZero(f, b)
Truth(c, flags)   == Result(IF c THEN 1 ELSE 0, flags)

eq_quiet_sf(f, a, b) ==
  IF isnan_sf(f, a) \/ isnan_sf(f, b)
  THEN Truth(FALSE, FlagIf(issignan_sf(f, a) \/ issignan_sf(f, b), NV))
  ELSE Truth(BothZero(f, a, b) \/ a = b, {})

le_sf(f, a, b) ==
  CASE isnan_sf(f, a) \/ isnan_sf(f, b) -> Truth(FALSE, {NV})
    [] ~isnan_sf(f, a) /\ ~isnan_sf(f, b) /\ Sign(f, a) # Sign(f, b) ->
         Truth(Sign(f, a) = 1 \/ BothZero(f, a, b), {})
    [] OTHER -> Truth(IF Sign(f, a) = 1 THEN a >= b ELSE a <= b, {})

lt_sf(f, a, b) ==
  CASE isnan_sf(f, a) \/ isnan_sf(f, b) -> Truth(FALSE, {NV})
    [] ~isnan_sf(f, a) /\ ~isnan_sf(f, b) /\ Sign(f, a) # Sign(f, b) ->
         Truth(Sign(f, a) = 1 /\ ~BothZero(f, a, b), {})
    [] OTHER -> Truth(IF Sign(f, a) = 1 THEN a > b ELSE a < b, {})

\* The FCLASS_ constants: the bit the RISC-V fclass instruction sets.
fclass_sf(f, a) ==
  LET neg == Sign(f, a) = 1
  IN  CASE isnan_sf(f, a) -> IF issignan_sf(f, a) THEN 2 ^ 8 ELSE 2 ^ 9
        [] IsInf(f, a)    -> IF neg THEN 2 ^ 0 ELSE 2 ^ 7
        [] IsZero(f, a)   -> IF neg THEN 2 ^ 3 ELSE 2 ^ 4
        [] Exp(f, a) = 0 /\ ~IsZero(f, a) -> IF neg THEN 2 ^ 2 ELSE 2 ^ 5
        [] OTHER          -> IF neg THEN 2 ^ 1 ELSE 2 ^ 6

\* From the narrow format n to the wide one w; every value is representable.
cvt_sf32_sf(n, w, a) ==
  LET u == IF Exp(n, a) = 0 THEN normalize_subnormal_sf(n, Mant(n, a))
           ELSE [exp |-> Exp(n, a), mant |-> Mant(n, a)]
  IN  CASE isnan_sf(n, a) -> Result(F_QNAN(w), FlagIf(issignan_sf(n, a), NV))
        [] IsInf(n, a)    -> Infinity(w, Sign(n, a))
        [] IsZero(n, a)   -> Result(pack_sf(w, Sign(n, a), 0, 0), {})
        [] OTHER -> Result(pack_sf(w, Sign(n, a), u.exp - BIAS(n) + BIAS(w),
                                   u.mant * 2 ^ (w.mant - n.mant)), {})

\* From the wide format to the narrow one. The shifted mantissa of a wide
\* subnormal is computed and dropped: only its exponent is kept.
cvt_sf_sf32(w, n, a, rm) ==
  LET u == IF Exp(w, a) = 0
           THEN [exp |-> normalize_subnormal_sf(w, Mant(w, a)).exp, mant |-> Mant(w, a)]
           ELSE Unpack(w, a)
  IN  CASE isnan_sf(w, a) -> Result(F_QNAN(n), FlagIf(issignan_sf(w, a), NV))
        [] IsInf(w, a)    -> Infinity(n, Sign(w, a))
        [] IsZero(w, a)   -> Result(pack_sf(n, Sign(w, a), 0, 0), {})
        [] OTHER -> normalize_sf(n, Sign(w, a), u.exp - BIAS(w) + BIAS(n),
                                 rshift_rnd(w, u.mant, w.mant - (F_SIZE(n) - 2)), rm)

\* To an integer of size bits (softfp_template_icvt.h). The result is the word
\* the source returns, as a natural number.
cvt_sf_i(f, size, a, rm, is_unsigned) ==
  LET sign  == IF isnan_sf(f, a) THEN 0 ELSE Sign(f, a)
      u     == Unpack(f, a)
      exp   == u.exp - BIAS(f) - f.mant
      r_max == IF is_unsigned THEN IF sign = 1 THEN 0 ELSE 2 ^ size - 1
               ELSE 2 ^ (size - 1) - (1 - sign)
      mant  == rshift_rnd(f, u.mant * 2 ^ RND_SIZE(f), -exp)
      r     == IF exp >= 0 THEN u.mant * 2 ^ exp
               ELSE CutMantissa(f, mant, Addend(f, sign, rm), rm)
      word  == IF sign = 1 THEN (2 ^ size - r) % 2 ^ size ELSE r
  IN  CASE exp > size - 1 - f.mant /\ exp >= 0 -> Result(r_max, {NV})
        [] ~(exp > size - 1 - f.mant /\ exp >= 0) /\ r > r_max -> Result(r_max, {NV})
        [] OTHER -> Result(word, FlagIf(exp < 0 /\ RndBits(f, mant) # 0, NX))

\* From the integer word a.
cvt_i_sf(f, size, a, rm, is_unsigned) ==
  LET neg == ~is_unsigned /\ a >= 2 ^ (size - 1)
      r   == IF neg THEN 2 ^ size - a ELSE a
      l   == BitLength(r) - (F_SIZE(f) - 1)
      exp == BIAS(f) + F_SIZE(f) - 2
      sign == IF neg THEN 1 ELSE 0
  IN  IF l > 0 THEN normalize_sf(f, sign, exp + l, Sticky(r \div 2 ^ l, r % 2 ^ l # 0), rm)
               ELSE normalize_sf(f, sign, exp, r, rm)
=============================================================================
