----------------------------- MODULE RiscvIsa ------------------------------
(***************************************************************************)
(* What the user-level instructions of RISC-V compute, stated as the ISA   *)
(* manual and IEEE 754 state it: an integer operation by the numbers its   *)
(* words stand for, a floating-point one by the exact result, rounded      *)
(* once, a compressed one by the instruction it stands for.  Nothing here  *)
(* is translated from the emulator; of SoftFloat it takes the names of     *)
(* formats, flags and rounding modes and the layout of a word.             *)
(***************************************************************************)
EXTENDS SoftFloat, Sequences

(* What an IEEE 754 operation returns: the exact result, rounded once.       *)

EMin(f) == 1 - BIAS(f)               \* exponent of the least normal number
QMin(f) == EMin(f) - f.mant          \* of the unit in the last place of it

\* The magnitude of a number is m * 2^e.
Magnitude(f, a) == [m |-> IF Exp(f, a) = 0 THEN Mant(f, a)
                          ELSE Mant(f, a) + 2 ^ f.mant,
                    e |-> IF Exp(f, a) = 0 THEN QMin(f)
                          ELSE QMin(f) + Exp(f, a) - 1]

(* An exact positive real: n/d * 2^e, or the square root of it.             *)
Exact(n, d, e) == [n |-> n, d |-> d, e |-> e, root |-> FALSE]
RootOf(n, e)   == [n |-> n, d |-> 1, e |-> e, root |-> TRUE]

\* floor(n/d * 2^e) and whether nothing was lost. Beyond 2^-28 the numerators
\* of this module leave nothing.
FloorOf(n, d, e) ==
  IF e >= 0 THEN [k |-> (n * 2 ^ e) \div d, exact |-> (n * 2 ^ e) % d = 0]
  ELSE IF e < -28 THEN [k |-> 0, exact |-> n = 0]
  ELSE [k |-> (n \div 2 ^ (-e)) \div d, exact |-> n % 2 ^ (-e) = 0 /\ (n \div 2 ^ (-e)) % d = 0]

\* The exponent of the leading one of v.
Lead(v) ==
  LET b == BitLength(v.n) - BitLength(v.d)
      ge == IF b >= 0 THEN v.n >= v.d * 2 ^ b ELSE v.n * 2 ^ (-b) >= v.d
      l == v.e + IF ge THEN b ELSE b - 1
  IN  IF v.root THEN l \div 2 ELSE l

\* v in halves of 2^q.
Halves(f, v, q) ==
  IF ~v.root THEN FloorOf(v.n, v.d, v.e - q + 1)
  ELSE LET x == FloorOf(v.n, v.d, v.e - 2 * (q - 1))
           r == CHOOSE r \in 0 .. 2 ^ (f.mant + 3) : r * r <= x.k /\ x.k < (r + 1) * (r + 1)
       IN  [k |-> r, exact |-> x.exact /\ r * r = x.k]

\* h, a number of halves, rounded to a whole one.
Nearest(h, sign, rm) ==
  LET k       == h.k \div 2
      odd     == h.k % 2 = 1
      inexact == odd \/ ~h.exact
      up == \/ rm = RNE /\ odd /\ (~h.exact \/ k % 2 = 1)
            \/ rm = RMM /\ odd
            \/ rm = RDN /\ inexact /\ sign = 1
            \/ rm = RUP /\ inexact /\ sign = 0
  IN  [k |-> IF up THEN k + 1 ELSE k, inexact |-> inexact]

\* v rounded to a multiple of 2^q.
RoundedTo(f, sign, v, q, rm) == Nearest(Halves(f, v, q), sign, rm)

\* The float of r units of 2^q, with the flags of an inexact result.
Encoded(f, sign, q, r, tiny, rm) ==
  LET pattern  == (q - QMin(f)) * 2 ^ f.mant + r.k
      infinity == EXP_MASK(f) * 2 ^ f.mant
      away     == rm \in {RNE, RMM} \/ rm = (IF sign = 1 THEN RDN ELSE RUP)
      base     == sign * 2 ^ (F_SIZE(f) - 1)
  IN  IF q - QMin(f) >= EXP_MASK(f) \/ pattern >= infinity
      THEN Result(base + IF away THEN infinity ELSE infinity - 1, {OF, NX})
      ELSE Result(base + pattern,
                  FlagIf(r.inexact, NX) \cup FlagIf(r.inexact /\ tiny, UF))

(* The float nearest to (-1)^sign * v in the direction of rm, where lead is *)
(* the exponent of v's leading one. A result is tiny if it would lie below  *)
(* the normal numbers had the exponent no lower bound.                      *)
RoundedWithLead(f, sign, v, lead, rm) ==
  LET q    == IF lead - f.mant < QMin(f) THEN QMin(f) ELSE lead - f.mant
      free == RoundedTo(f, sign, v, lead - f.mant, rm)
      tiny == lead + (IF free.k = 2 ^ (f.mant + 1) THEN 1 ELSE 0) < EMin(f)
  IN  Encoded(f, sign, q, RoundedTo(f, sign, v, q, rm), tiny, rm)

Rounded(f, sign, v, rm) == RoundedWithLead(f, sign, v, Lead(v), rm)

SignedZero(f, s) == s * 2 ^ (F_SIZE(f) - 1)
Finite(f, a) == Exp(f, a) # EXP_MASK(f)
Opposite(s, t) == s # t

(* A sum of two signed magnitudes. Where one is more than 16 places above   *)
(* the other, which has at most six bits, the other counts only as          *)
(* something less than any half of a last place.                            *)
SumOf(f, s, x, t, y, rm) ==
  LET hi   == IF x.e >= y.e THEN [s |-> s, v |-> x] ELSE [s |-> t, v |-> y]
      lo   == IF x.e >= y.e THEN [s |-> t, v |-> y] ELSE [s |-> s, v |-> x]
      gap  == hi.v.e - lo.v.e
      far  == gap > 16
      h    == hi.v.m * 2 ^ (IF far THEN 16 ELSE gap)
      l    == IF far THEN IF lo.v.m = 0 THEN 0 ELSE 1 ELSE lo.v.m
      e    == IF far THEN hi.v.e - 16 ELSE lo.v.e
      sum  == (IF hi.s = 1 THEN -h ELSE h) + (IF lo.s = 1 THEN -l ELSE l)
      zero == IF s = t THEN s ELSE IF rm = RDN THEN 1 ELSE 0
  IN  CASE x.m = 0 /\ y.m = 0 -> Result(SignedZero(f, zero), {})
        [] x.m # 0 /\ y.m = 0 -> Rounded(f, s, Exact(x.m, 1, x.e), rm)
        [] x.m = 0 /\ y.m # 0 -> Rounded(f, t, Exact(y.m, 1, y.e), rm)
        [] OTHER -> IF sum = 0 THEN Result(SignedZero(f, zero), {})
                    ELSE IF sum < 0 THEN Rounded(f, 1, Exact(-sum, 1, e), rm)
                                    ELSE Rounded(f, 0, Exact(sum, 1, e), rm)

\* An operation with a NaN among its operands returns the default NaN.
NanOf(f, as) == Result(F_QNAN(f), FlagIf(\E a \in as : issignan_sf(f, a), NV))
HasNan(f, as) == \E a \in as : isnan_sf(f, a)

RefAdd(f, a, b, rm) ==
  IF HasNan(f, {a, b}) THEN NanOf(f, {a, b})
  ELSE IF Finite(f, a) /\ Finite(f, b)
  THEN SumOf(f, Sign(f, a), Magnitude(f, a), Sign(f, b), Magnitude(f, b), rm)
  ELSE IF ~Finite(f, a) /\ ~Finite(f, b) /\ Opposite(Sign(f, a), Sign(f, b))
  THEN Invalid(f)
  ELSE Result(IF Finite(f, a) THEN b ELSE a, {})

Product(f, a, b) == [m |-> Magnitude(f, a).m * Magnitude(f, b).m,
                     e |-> Magnitude(f, a).e + Magnitude(f, b).e]
SignOf(f, a, b)  == IF Sign(f, a) = Sign(f, b) THEN 0 ELSE 1

RefMul(f, a, b, rm) ==
  LET s == SignOf(f, a, b)
      p == Product(f, a, b)
  IN  IF HasNan(f, {a, b}) THEN NanOf(f, {a, b})
      ELSE IF ~Finite(f, a) \/ ~Finite(f, b)
      THEN IF IsZero(f, a) \/ IsZero(f, b) THEN Invalid(f) ELSE Infinity(f, s)
      ELSE IF p.m = 0 THEN Result(SignedZero(f, s), {})
      ELSE Rounded(f, s, Exact(p.m, 1, p.e), rm)

RefDiv(f, a, b, rm) ==
  LET s == SignOf(f, a, b)
      x == Magnitude(f, a)
      y == Magnitude(f, b)
  IN  IF HasNan(f, {a, b}) THEN NanOf(f, {a, b})
      ELSE IF ~Finite(f, a) THEN IF Finite(f, b) THEN Infinity(f, s) ELSE Invalid(f)
      ELSE IF ~Finite(f, b) THEN Result(SignedZero(f, s), {})
      ELSE IF y.m = 0
      THEN IF x.m = 0 THEN Invalid(f) ELSE Result(Infinity(f, s).val, {DZ})
      ELSE IF x.m = 0 THEN Result(SignedZero(f, s), {})
      ELSE Rounded(f, s, Exact(x.m, y.m, x.e - y.e), rm)

RefSqrt(f, a, rm) ==
  LET x == Magnitude(f, a)
  IN  IF HasNan(f, {a}) THEN NanOf(f, {a})
      ELSE IF IsZero(f, a) \/ a = Infinity(f, 0).val THEN Result(a, {})
      ELSE IF Sign(f, a) = 1 THEN Invalid(f)
      ELSE Rounded(f, 0, RootOf(x.m, x.e), rm)

(* a * b + c, rounded once. Of an invalid product added to a quiet NaN the  *)
(* standard lets the implementation choose; softfp raises nothing.          *)
RefFma(f, a, b, c, rm) ==
  LET s == SignOf(f, a, b)
  IN  IF HasNan(f, {a, b, c}) THEN NanOf(f, {a, b, c})
      ELSE IF ~Finite(f, a) \/ ~Finite(f, b)
      THEN IF \/ IsZero(f, a) \/ IsZero(f, b)
              \/ ~Finite(f, c) /\ Opposite(s, Sign(f, c))
           THEN Invalid(f) ELSE Infinity(f, s)
      ELSE IF ~Finite(f, c) THEN Result(c, {})
      ELSE SumOf(f, s, Product(f, a, b), Sign(f, c), Magnitude(f, c), rm)

(* Numbers are compared by value: the two zeros are equal, and an infinity  *)
(* is beyond every number. A NaN is unordered.                              *)
Below(f, a, b) ==
  LET x == Magnitude(f, a)
      y == Magnitude(f, b)
      lead(u) == u.e + BitLength(u.m)
      Less(u, v) == \/ v.m # 0 /\ u.m = 0
                    \/ u.m # 0 /\ v.m # 0 /\ lead(u) < lead(v)
                    \/ /\ u.m # 0 /\ v.m # 0 /\ lead(u) = lead(v)
                       /\ u.m * 2 ^ (10 - BitLength(u.m)) < v.m * 2 ^ (10 - BitLength(v.m))
  IN  CASE Sign(f, a) = 1 /\ Sign(f, b) = 0 -> x.m # 0 \/ y.m # 0
        [] Sign(f, a) = 0 /\ Sign(f, b) = 1 -> FALSE
        [] Sign(f, a) = 0 /\ Sign(f, b) = 0 -> Less(x, y)
        [] Sign(f, a) = 1 /\ Sign(f, b) = 1 -> Less(y, x)

RefEq(f, a, b) ==
  Truth(~HasNan(f, {a, b}) /\ ~Below(f, a, b) /\ ~Below(f, b, a),
        FlagIf(\E x \in {a, b} : issignan_sf(f, x), NV))
RefLe(f, a, b) ==
  Truth(~HasNan(f, {a, b}) /\ ~Below(f, b, a), FlagIf(HasNan(f, {a, b}), NV))
RefLt(f, a, b) ==
  Truth(~HasNan(f, {a, b}) /\ Below(f, a, b), FlagIf(HasNan(f, {a, b}), NV))

\* minimumNumber of the standard of 2019: a NaN loses to a number, and -0 is
\* below +0.
RefMin(f, a, b) ==
  LET nums == {x \in {a, b} : ~isnan_sf(f, x)}
      ZeroBelow(x, y) == BothZero(f, x, y) /\ Sign(f, x) > Sign(f, y)
      IsLeast(x) == \A y \in nums : ~Below(f, y, x) /\ ~ZeroBelow(y, x)
  IN  Result(IF nums = {} THEN F_QNAN(f) ELSE CHOOSE x \in nums : IsLeast(x),
             FlagIf(\E x \in {a, b} : issignan_sf(f, x), NV))

NegatedNumber(f, m) == IF isnan_sf(f, m.val) THEN m ELSE [m EXCEPT !.val = Negate(f, @)]
RefMax(f, a, b) == NegatedNumber(f, RefMin(f, Negate(f, a), Negate(f, b)))

\* To another format.
RefConvert(f, g, a, rm) ==
  IF isnan_sf(f, a) THEN Result(F_QNAN(g), FlagIf(issignan_sf(f, a), NV))
  ELSE IF ~Finite(f, a) THEN Infinity(g, Sign(f, a))
  ELSE IF IsZero(f, a) THEN Result(SignedZero(g, Sign(f, a)), {})
  ELSE Rounded(g, Sign(f, a), Exact(Magnitude(f, a).m, 1, Magnitude(f, a).e), rm)

\* To an integer word of size bits: the nearest integer in the direction of
\* rm, or the end of the range that is nearest to what has no place in it.
RefToInt(f, size, a, rm, is_unsigned) ==
  LET s   == IF isnan_sf(f, a) THEN 0 ELSE Sign(f, a)
      x   == Magnitude(f, a)
      big == \/ ~Finite(f, a)
             \/ x.m # 0 /\ Lead(Exact(x.m, 1, x.e)) > 20
      r   == RoundedTo(f, s, Exact(x.m, 1, x.e), 0, rm)
      lo  == IF is_unsigned THEN 0 ELSE 2 ^ (size - 1)
      hi  == IF is_unsigned THEN 2 ^ size - 1 ELSE 2 ^ (size - 1) - 1
      out == big \/ r.k > (IF s = 1 THEN lo ELSE hi)
  IN  IF out THEN Result(IF s = 1 THEN lo ELSE hi, {NV})
      ELSE Result(IF s = 1 THEN (2 ^ size - r.k) % 2 ^ size ELSE r.k,
                  FlagIf(r.inexact, NX))

RefFromInt(f, size, a, rm, is_unsigned) ==
  LET s == IF ~is_unsigned /\ a >= 2 ^ (size - 1) THEN 1 ELSE 0
      m == IF s = 1 THEN 2 ^ size - a ELSE a
  IN  IF m = 0 THEN Result(0, {}) ELSE Rounded(f, s, Exact(m, 1, 0), rm)

-----------------------------------------------------------------------------
CONSTANTS S, D, XLEN

FormatOf(fmt) == IF fmt = "s" THEN S ELSE D

(* Integers.                                                                 *)

IntMin        == -(2 ^ (XLEN - 1))
AsSigned(w)   == IF w >= -IntMin THEN w + 2 * IntMin ELSE w
AsWord(v)     == CHOOSE w \in 0 .. 2 ^ XLEN - 1 : (w - v) % 2 ^ XLEN = 0
BitOf(w, n)   == (w \div 2 ^ n) % 2
Bitwise(a, b, Op(_, _)) ==
  CHOOSE w \in 0 .. 2 ^ XLEN - 1 :
    \A n \in 0 .. XLEN - 1 : BitOf(w, n) = (IF Op(BitOf(a, n) = 1, BitOf(b, n) = 1) THEN 1 ELSE 0)

AndOf(p, q) == p /\ q
OrOf(p, q)  == p \/ q
XorOf(p, q) == p # q

\* The quotient rounded towards zero; the remainder has the dividend's sign.
IsQuotient(x, y, q) ==
  LET r == x - q * y
  IN  /\ (IF r < 0 THEN -r ELSE r) < (IF y < 0 THEN -y ELSE y)
      /\ r = 0 \/ (r < 0) = (x < 0)
QuotientOf(x, y)  == CHOOSE q \in -(2 ^ XLEN) .. 2 ^ XLEN : IsQuotient(x, y, q)
RemainderOf(x, y) == x - QuotientOf(x, y) * y

\* floor(p / 2^XLEN), of a product of two words.
HighPart(p) == CHOOSE h \in -(2 ^ XLEN) .. 2 ^ XLEN : h * 2 ^ XLEN <= p /\ p < (h + 1) * 2 ^ XLEN
Least(x, y) == IF y < x THEN y ELSE x
Truth01(c)  == IF c THEN 1 ELSE 0

IntegerResult(op, a, b) ==
  LET x == AsSigned(a)
      y == AsSigned(b)
      n == b % XLEN
  IN  CASE op \in {"add", "amoadd"} -> AsWord(x + y)
        [] op = "sub"    -> AsWord(x - y)
        [] op = "sll"    -> AsWord(x * 2 ^ n)
        [] op = "srl"    -> CHOOSE w \in 0 .. a : w * 2 ^ n <= a /\ a < (w + 1) * 2 ^ n
        [] op = "sra"    -> AsWord(CHOOSE v \in IntMin .. -IntMin :
                                     v * 2 ^ n <= x /\ x < (v + 1) * 2 ^ n)
        [] op = "slt"    -> Truth01(x < y)
        [] op = "sltu"   -> Truth01(a < b)
        [] op \in {"xor", "amoxor"} -> Bitwise(a, b, XorOf)
        [] op \in {"or", "amoor"}   -> Bitwise(a, b, OrOf)
        [] op \in {"and", "amoand"} -> Bitwise(a, b, AndOf)
        [] op = "mul"    -> AsWord(x * y)
        [] op = "mulh"   -> AsWord(HighPart(x * y))
        [] op = "mulhsu" -> AsWord(HighPart(x * b))
        [] op = "mulhu"  -> AsWord(HighPart(a * b))
        [] op = "div"    -> IF y = 0 THEN AsWord(-1)
                            ELSE IF x = IntMin /\ y = -1 THEN AsWord(IntMin)
                            ELSE AsWord(QuotientOf(x, y))
        [] op = "divu"   -> IF b = 0 THEN 2 ^ XLEN - 1 ELSE QuotientOf(a, b)
        [] op = "rem"    -> IF y = 0 THEN a ELSE IF x = IntMin /\ y = -1 THEN 0
                            ELSE AsWord(RemainderOf(x, y))
        [] op = "remu"   -> IF b = 0 THEN a ELSE RemainderOf(a, b)
        [] op = "amoswap" -> b
        [] op = "amomin"  -> AsWord(Least(x, y))
        [] op = "amomax"  -> AsWord(-Least(-x, -y))
        [] op = "amominu" -> Least(a, b)
        [] op = "amomaxu" -> -Least(-a, -b)

BranchTaken(op, a, b) ==
  LET x == AsSigned(a)
      y == AsSigned(b)
  IN  CASE op = "beq" -> a = b  [] op = "bltu" -> a < b  [] op = "blt" -> x < y
        [] op = "bne" -> a # b  [] op = "bgeu" -> a >= b [] op = "bge" -> x >= y

(* Floating point. The operands are already read in their format.            *)

RoundsIn(op) == op \in {"fadd", "fsub", "fmul", "fdiv", "fsqrt", "fmadd", "fmsub", "fnmsub",
                        "fnmadd", "fcvt.w", "fcvt.wu", "fcvt.f.w", "fcvt.f.wu", "fcvt.f.f"}
WritesInteger(op) == op \in {"fcvt.w", "fcvt.wu", "fcmp", "fmv.x"}

\* funct3 is a rounding mode (7 is the one in frm) or selects the operation.
RoundingOf(i, frm) == IF i.rm = 7 THEN frm ELSE i.rm
IsIllegal(i, frm, fs) ==
  \/ fs = 0
  \/ RoundsIn(i.op) /\ RoundingOf(i, frm) \notin RoundingModes
  \/ i.op \in {"fsgnj", "fcmp"} /\ i.rm > 2
  \/ i.op = "fminmax" /\ i.rm > 1
  \/ i.op = "fmv.x" /\ (i.rm > 1 \/ (i.rm = 0 /\ i.fmt = "d"))
  \/ i.op = "fmv.f" /\ (i.rm > 0 \/ i.fmt = "d")

\* The ten classes of a number, in the order of the bits of fclass.
Class(f, a) ==
  LET neg == Sign(f, a) = 1
      sub == Exp(f, a) = 0
  IN  IF isnan_sf(f, a) THEN IF issignan_sf(f, a) THEN 8 ELSE 9
      ELSE IF ~Finite(f, a) THEN IF neg THEN 0 ELSE 7
      ELSE IF Magnitude(f, a).m = 0 THEN IF neg THEN 3 ELSE 4
      ELSE IF sub THEN IF neg THEN 2 ELSE 5
      ELSE IF neg THEN 1 ELSE 6

WithSign(f, a, s) == a - Sign(f, a) * 2 ^ (f.exp + f.mant) + s * 2 ^ (f.exp + f.mant)

\* The result of instruction i for the operands a, b and c and the integer
\* word x, rounded by rm.
FloatResult(i, a, b, c, x, rm) ==
  LET f == FormatOf(i.fmt)
  IN  CASE i.op = "fadd"   -> RefAdd(f, a, b, rm)
        [] i.op = "fsub"   -> RefAdd(f, a, Negate(f, b), rm)
        [] i.op = "fmul"   -> RefMul(f, a, b, rm)
        [] i.op = "fdiv"   -> RefDiv(f, a, b, rm)
        [] i.op = "fsqrt"  -> RefSqrt(f, a, rm)
        [] i.op = "fmadd"  -> RefFma(f, a, b, c, rm)                       \*   a * b  + c
        [] i.op = "fmsub"  -> RefFma(f, a, b, Negate(f, c), rm)            \*   a * b  - c
        [] i.op = "fnmsub" -> RefFma(f, a, Negate(f, b), c, rm)            \* -(a * b) + c
        [] i.op = "fnmadd" -> RefFma(f, a, Negate(f, b), Negate(f, c), rm) \* -(a * b) - c
        [] i.op = "fcvt.w"    -> RefToInt(f, XLEN, a, rm, FALSE)
        [] i.op = "fcvt.wu"   -> RefToInt(f, XLEN, a, rm, TRUE)
        [] i.op = "fcvt.f.w"  -> RefFromInt(f, XLEN, x, rm, FALSE)
        [] i.op = "fcvt.f.wu" -> RefFromInt(f, XLEN, x, rm, TRUE)
        [] i.op = "fcvt.f.f"  -> IF i.fmt = "s" THEN RefConvert(D, S, a, rm)
                                                ELSE RefConvert(S, D, a, rm)
        [] i.op = "fsgnj"  -> Result(WithSign(f, a, CASE i.rm = 0 -> Sign(f, b)
                                                      [] i.rm = 1 -> 1 - Sign(f, b)
                                                      [] i.rm = 2 -> (Sign(f, a) + Sign(f, b)) % 2),
                                     {})
        [] i.op = "fminmax" -> IF i.rm = 0 THEN RefMin(f, a, b) ELSE RefMax(f, a, b)
        [] i.op = "fcmp"    -> IF i.rm = 0 THEN RefLe(f, a, b)
                              ELSE IF i.rm = 1 THEN RefLt(f, a, b) ELSE RefEq(f, a, b)
        [] i.op = "fmv.x"   -> Result(IF i.rm = 0 THEN a ELSE 2 ^ Class(f, a), {})
        [] i.op = "fmv.f"   -> Result(x, {})

-----------------------------------------------------------------------------
(* What a compressed instruction of RV32DC stands for: the 32-bit           *)
(* instruction it expands to, and the bits of its immediate by their        *)
(* numbers, from the highest bit of the field down. Reserved encodings      *)
(* have no expansion.                                                       *)

Field(w, hi, lo) == (w \div 2 ^ lo) % 2 ^ (hi - lo + 1)
Bit(w, n)        == Field(w, n, n)
Popular(n)       == 8 + n

RECURSIVE Gather(_, _, _)
\* The immediate whose bits, numbered by the sequence bits, lie in w at top
\* and below.
Gather(w, top, bits) ==
  IF bits = <<>> THEN 0
  ELSE Bit(w, top) * 2 ^ Head(bits) + Gather(w, top - 1, Tail(bits))

Signed(v, n) == IF v >= 2 ^ (n - 1) THEN v - 2 ^ n ELSE v
Unsigned(v, n) == v % 2 ^ n

(* The instruction formats, an immediate spread over the fields.            *)

Fields(opcode, rd, funct3, rs1, rs2, funct7) ==
  [opcode |-> opcode, rd |-> rd, funct3 |-> funct3, rs1 |-> rs1, rs2 |-> rs2,
   funct7 |-> funct7]
RType(opcode, funct3, funct7, rd, rs1, rs2) == Fields(opcode, rd, funct3, rs1, rs2, funct7)
IType(opcode, funct3, rd, rs1, imm) ==
  LET i == Unsigned(imm, 12) IN Fields(opcode, rd, funct3, rs1, Field(i, 4, 0), Field(i, 11, 5))
SType(opcode, funct3, rs1, rs2, imm) ==
  LET i == Unsigned(imm, 12) IN Fields(opcode, Field(i, 4, 0), funct3, rs1, rs2, Field(i, 11, 5))
BType(funct3, rs1, rs2, imm) ==
  LET i == Unsigned(imm, 13)
  IN  Fields(99, Field(i, 4, 1) * 2 + Bit(i, 11), funct3, rs1, rs2,
             Bit(i, 12) * 64 + Field(i, 10, 5))
UType(opcode, rd, upper) ==
  LET i == Unsigned(upper, 20)
  IN  Fields(opcode, rd, Field(i, 2, 0), Field(i, 7, 3), Field(i, 12, 8), Field(i, 19, 13))
JType(rd, imm) ==
  LET i == Unsigned(imm, 21)
  IN  Fields(111, rd, Field(i, 14, 12), Field(i, 19, 15),
             Field(i, 4, 1) * 2 + Bit(i, 11), Bit(i, 20) * 64 + Field(i, 10, 5))

LOAD     == 3
LOAD_FP  == 7
OP_IMM   == 19
STORE    == 35
STORE_FP == 39
OP       == 51
LUI      == 55
JALR     == 103

(* The immediates of the tables.                                            *)

UimmWord(w)   == Gather(w, 12, <<5, 4, 3>>) + Gather(w, 6, <<2, 6>>)
UimmDouble(w) == Gather(w, 12, <<5, 4, 3>>) + Gather(w, 6, <<7, 6>>)
ImmSix(w)     == Signed(Gather(w, 12, <<5>>) + Gather(w, 6, <<4, 3, 2, 1, 0>>), 6)
Shamt(w)      == Unsigned(ImmSix(w), 6)
Target(w)     == Signed(Gather(w, 12, <<11, 4, 9, 8, 10, 6, 7, 3, 2, 1, 5>>), 12)
Branch(w)     == Signed(Gather(w, 12, <<8, 4, 3>>) + Gather(w, 6, <<7, 6, 2, 1, 5>>), 9)
Nzuimm(w)     == Gather(w, 12, <<5, 4, 9, 8, 7, 6, 2, 3>>)
Stack16(w)    == Signed(Gather(w, 12, <<9>>) + Gather(w, 6, <<4, 6, 8, 7, 5>>), 10)
WordSp(w)     == Gather(w, 12, <<5>>) + Gather(w, 6, <<4, 3, 2, 7, 6>>)
DoubleSp(w)   == Gather(w, 12, <<5>>) + Gather(w, 6, <<4, 3, 8, 7, 6>>)
WordSpStore(w)   == Gather(w, 12, <<5, 4, 3, 2, 7, 6>>)
DoubleSpStore(w) == Gather(w, 12, <<5, 4, 3, 8, 7, 6>>)

Rd(w)   == Field(w, 11, 7)
Rs2(w)  == Field(w, 6, 2)
RdLo(w) == Popular(Field(w, 4, 2))   \* rd' and rs2' of the tables
RsLo(w) == Popular(Field(w, 9, 7))   \* rs1' and rd'
Major(w) == [quadrant |-> w % 4, funct3 |-> Field(w, 15, 13)]
Is(w, q, f) == Major(w) = [quadrant |-> q, funct3 |-> f]

Reserved(w) ==
  \/ Is(w, 0, 0) /\ Nzuimm(w) = 0
  \/ Is(w, 0, 4)
  \/ Is(w, 1, 3) /\ ImmSix(w) = 0
  \/ Is(w, 1, 4) /\ Field(w, 11, 10) \in {0, 1} /\ Shamt(w) >= 32
  \/ Is(w, 1, 4) /\ Field(w, 11, 10) = 3 /\ Bit(w, 12) = 1
  \/ Is(w, 2, 0) /\ Shamt(w) >= 32
  \/ Is(w, 2, 2) /\ Rd(w) = 0
  \/ Is(w, 2, 4) /\ Bit(w, 12) = 0 /\ Rd(w) = 0 /\ Rs2(w) = 0

ExpandAlu(w) ==
  LET r == RsLo(w)
      two == <<[f |-> 0, s |-> 32], [f |-> 4, s |-> 0], [f |-> 6, s |-> 0], [f |-> 7, s |-> 0]>>
      o == two[Field(w, 6, 5) + 1]
  IN  CASE Field(w, 11, 10) = 0 -> IType(OP_IMM, 5, r, r, Shamt(w))
        [] Field(w, 11, 10) = 1 -> IType(OP_IMM, 5, r, r, 1024 + Shamt(w))
        [] Field(w, 11, 10) = 2 -> IType(OP_IMM, 7, r, r, ImmSix(w))
        [] Field(w, 11, 10) = 3 -> RType(OP, o.f, o.s, r, r, RdLo(w))

Expand(w) ==
  CASE Is(w, 0, 0) -> IType(OP_IMM, 0, RdLo(w), 2, Nzuimm(w))
    [] Is(w, 0, 1) -> IType(LOAD_FP, 3, RdLo(w), RsLo(w), UimmDouble(w))
    [] Is(w, 0, 2) -> IType(LOAD, 2, RdLo(w), RsLo(w), UimmWord(w))
    [] Is(w, 0, 3) -> IType(LOAD_FP, 2, RdLo(w), RsLo(w), UimmWord(w))
    [] Is(w, 0, 5) -> SType(STORE_FP, 3, RsLo(w), RdLo(w), UimmDouble(w))
    [] Is(w, 0, 6) -> SType(STORE, 2, RsLo(w), RdLo(w), UimmWord(w))
    [] Is(w, 0, 7) -> SType(STORE_FP, 2, RsLo(w), RdLo(w), UimmWord(w))
    [] Is(w, 1, 0) -> IType(OP_IMM, 0, Rd(w), Rd(w), ImmSix(w))
    [] Is(w, 1, 1) -> JType(1, Target(w))
    [] Is(w, 1, 2) -> IType(OP_IMM, 0, Rd(w), 0, ImmSix(w))
    [] Is(w, 1, 3) /\ Rd(w) = 2 -> IType(OP_IMM, 0, 2, 2, Stack16(w))
    [] Is(w, 1, 3) /\ Rd(w) # 2 -> UType(LUI, Rd(w), ImmSix(w))
    [] Is(w, 1, 4) -> ExpandAlu(w)
    [] Is(w, 1, 5) -> JType(0, Target(w))
    [] Is(w, 1, 6) -> BType(0, RsLo(w), 0, Branch(w))
    [] Is(w, 1, 7) -> BType(1, RsLo(w), 0, Branch(w))
    [] Is(w, 2, 0) -> IType(OP_IMM, 1, Rd(w), Rd(w), Shamt(w))
    [] Is(w, 2, 1) -> IType(LOAD_FP, 3, Rd(w), 2, DoubleSp(w))
    [] Is(w, 2, 2) -> IType(LOAD, 2, Rd(w), 2, WordSp(w))
    [] Is(w, 2, 3) -> IType(LOAD_FP, 2, Rd(w), 2, WordSp(w))
    [] Is(w, 2, 4) /\ Rs2(w) # 0 ->
         RType(OP, 0, 0, Rd(w), IF Bit(w, 12) = 1 THEN Rd(w) ELSE 0, Rs2(w))
    [] Is(w, 2, 4) /\ Rs2(w) = 0 /\ Rd(w) # 0 -> IType(JALR, 0, Bit(w, 12), Rd(w), 0)
    [] Is(w, 2, 4) /\ Rs2(w) = 0 /\ Rd(w) = 0 -> IType(115, 0, 0, 0, 1)
    [] Is(w, 2, 5) -> SType(STORE_FP, 3, 2, Rs2(w), DoubleSpStore(w))
    [] Is(w, 2, 6) -> SType(STORE, 2, 2, Rs2(w), WordSpStore(w))
    [] Is(w, 2, 7) -> SType(STORE_FP, 2, 2, Rs2(w), WordSpStore(w))
=============================================================================
