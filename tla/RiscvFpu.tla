------------------------------ MODULE RiscvFpu ------------------------------
(***************************************************************************)
(* lib/tinyemu/riscv_cpu_fp_template.h and the floating-point cases of     *)
(* riscv_cpu_template.h: the F and D instructions over the operations of   *)
(* SoftFloat. The state of the FPU and the registers an instruction uses   *)
(* are a record:                                                           *)
(*   fp_reg     words of FLEN bits, the width of format D                  *)
(*   reg        words of XLEN bits, the width of format S; reg[0] is 0     *)
(*   frm, fs    the rounding mode of fcsr and the FS field of mstatus      *)
(*   fflags     the set of accrued exceptions                              *)
(*   illegal    the instruction raised an exception instead                *)
(* S and D stand for the single and the double format.                     *)
(***************************************************************************)
EXTENDS SoftFloat

LOCAL INSTANCE Bitwise

CONSTANTS S, D

ASSUME FormatsAssumption == S.exp < D.exp /\ S.mant < D.mant

Xlen == F_SIZE(S)
Dirty == 3
DYN  == 7

Format(fmt) == IF fmt = "s" THEN S ELSE D
\* F32_HIGH and F64_HIGH: the bits that box a narrow value in a register.
F_HIGH(fmt) == IF fmt = "s" THEN Word(D) - Word(S) ELSE 0
SignMask(fmt) == Word(Format(fmt)) \div 2

IllegalInsn(s) == [s EXCEPT !.illegal = TRUE]

\* -1 if the rounding mode of the instruction is invalid.
get_insn_rm(s, rm) == IF rm = DYN THEN s.frm ELSE IF rm >= 5 THEN -1 ELSE rm

\* An operand is the low part of a register, boxed or not.
Operand(s, fmt, r) == s.fp_reg[r] % Word(Format(fmt))

SetFp(s, fmt, rd, res) ==
  [s EXCEPT !.fp_reg[rd] = res.val + F_HIGH(fmt), !.fflags = @ \cup res.flags, !.fs = Dirty]
SetInt(s, rd, res) ==
  [s EXCEPT !.reg[rd] = IF rd = 0 THEN @ ELSE res.val, !.fflags = @ \cup res.flags]

-----------------------------------------------------------------------------
(* An instruction is [op, fmt, rd, rs1, rs2, rs3, rm]; rm is its funct3.   *)

\* fadd, fsub, fmul, fdiv and fsqrt.
Arithmetic(s, i, rm) ==
  LET f == Format(i.fmt)
      a == Operand(s, i.fmt, i.rs1)
      b == Operand(s, i.fmt, i.rs2)
  IN  CASE i.op = "fadd"  -> add_sf(f, a, b, rm)
        [] i.op = "fsub"  -> sub_sf(f, a, b, rm)
        [] i.op = "fmul"  -> mul_sf(f, a, b, rm)
        [] i.op = "fdiv"  -> div_sf(f, a, b, rm)
        [] i.op = "fsqrt" -> sqrt_sf(f, a, rm)

ArithmeticOps == {"fadd", "fsub", "fmul", "fdiv", "fsqrt"}

Fused(s, i, rm) ==
  LET f == Format(i.fmt)
      a == Operand(s, i.fmt, i.rs1)
      b == Operand(s, i.fmt, i.rs2)
      c == Operand(s, i.fmt, i.rs3)
  IN  fma_sf(f, IF i.op \in {"fnmsub", "fnmadd"} THEN Negate(f, a) ELSE a, b,
             IF i.op \in {"fmsub", "fnmadd"} THEN Negate(f, c) ELSE c, rm)

FusedOps == {"fmadd", "fmsub", "fnmsub", "fnmadd"}

\* fcvt between an integer and a float: .w is signed, .wu unsigned.
ToInt(s, i, rm) ==
  cvt_sf_i(Format(i.fmt), Xlen, Operand(s, i.fmt, i.rs1), rm, i.op = "fcvt.wu")
FromInt(s, i, rm) ==
  cvt_i_sf(Format(i.fmt), Xlen, s.reg[i.rs1], rm, i.op = "fcvt.f.wu")

\* fcvt.s.d and fcvt.d.s: fmt is the format of the result.
ConvertFormat(s, i, rm) ==
  IF i.fmt = "s" THEN cvt_sf_sf32(D, S, Operand(s, "d", i.rs1), rm)
                 ELSE cvt_sf32_sf(S, D, Operand(s, "s", i.rs1))

Rounding(s, i) ==
  LET rm == get_insn_rm(s, i.rm)
  IN  IF rm < 0 THEN IllegalInsn(s)
      ELSE CASE i.op \in ArithmeticOps -> SetFp(s, i.fmt, i.rd, Arithmetic(s, i, rm))
             [] i.op \in FusedOps -> SetFp(s, i.fmt, i.rd, Fused(s, i, rm))
             [] i.op \in {"fcvt.w", "fcvt.wu"} -> SetInt(s, i.rd, ToInt(s, i, rm))
             [] i.op \in {"fcvt.f.w", "fcvt.f.wu"} -> SetFp(s, i.fmt, i.rd, FromInt(s, i, rm))
             [] i.op = "fcvt.f.f" -> SetFp(s, i.fmt, i.rd, ConvertFormat(s, i, rm))

RoundingOps == ArithmeticOps \cup FusedOps
               \cup {"fcvt.w", "fcvt.wu", "fcvt.f.w", "fcvt.f.wu", "fcvt.f.f"}

\* fsgnj, fsgnjn and fsgnjx work on the whole register. FSIGN_MASK32 is a
\* negative int: widened, it has the sign bit and every bit above it, so that
\* these come from rs2, inverted, or from both registers.
SignInjection(s, i) ==
  LET m     == SignMask(i.fmt)
      x     == s.fp_reg[i.rs1]
      sign2 == (s.fp_reg[i.rs2] \div m) * m
      mask  == ((Word(D) \div m) - 1) * m
      val   == CASE i.rm = 0 -> (x % m) + sign2
                 [] i.rm = 1 -> (x % m) + (mask - sign2)
                 [] i.rm = 2 -> x ^^ sign2
  IN  IF i.rm > 2 THEN IllegalInsn(s)
      ELSE [s EXCEPT !.fp_reg[i.rd] = val, !.fs = Dirty]

MinMax(s, i) ==
  LET f == Format(i.fmt)
      a == Operand(s, i.fmt, i.rs1)
      b == Operand(s, i.fmt, i.rs2)
  IN  CASE i.rm = 0 -> SetFp(s, i.fmt, i.rd, min_sf(f, a, b, FMINMAX_IEEE754_201X))
        [] i.rm = 1 -> SetFp(s, i.fmt, i.rd, max_sf(f, a, b, FMINMAX_IEEE754_201X))
        [] OTHER -> IllegalInsn(s)

\* fle, flt and feq change fflags but not fs.
Compare(s, i) ==
  LET f == Format(i.fmt)
      a == Operand(s, i.fmt, i.rs1)
      b == Operand(s, i.fmt, i.rs2)
  IN  CASE i.rm = 0 -> SetInt(s, i.rd, le_sf(f, a, b))
        [] i.rm = 1 -> SetInt(s, i.rd, lt_sf(f, a, b))
        [] i.rm = 2 -> SetInt(s, i.rd, eq_quiet_sf(f, a, b))
        [] OTHER -> IllegalInsn(s)

\* fmv.x.w, for the format as wide as an integer register, and fclass.
MoveToInt(s, i) ==
  LET a == Operand(s, i.fmt, i.rs1)
  IN  CASE i.rm = 0 /\ i.fmt = "s" -> SetInt(s, i.rd, Result(a, {}))
        [] i.rm = 1 -> SetInt(s, i.rd, Result(fclass_sf(Format(i.fmt), a), {}))
        [] OTHER -> IllegalInsn(s)

\* fmv.w.x: the word is extended by its sign, not boxed.
MoveFromInt(s, i) ==
  LET w == s.reg[i.rs1]
  IN  IF i.rm # 0 \/ i.fmt # "s" THEN IllegalInsn(s)
      ELSE [s EXCEPT !.fp_reg[i.rd] = w + (IF w >= SignMask("s") THEN F_HIGH("s") ELSE 0),
                     !.fs = Dirty]

\* flw and fld, of the value read.
LoadFp(s, i, val) ==
  [s EXCEPT !.fp_reg[i.rd] = val + F_HIGH(i.fmt), !.fs = Dirty]

Execute(s, i) ==
  CASE s.fs = 0 -> IllegalInsn(s)
    [] s.fs # 0 /\ i.op \in RoundingOps -> Rounding(s, i)
    [] s.fs # 0 /\ i.op = "fsgnj"  -> SignInjection(s, i)
    [] s.fs # 0 /\ i.op = "fminmax" -> MinMax(s, i)
    [] s.fs # 0 /\ i.op = "fcmp"   -> Compare(s, i)
    [] s.fs # 0 /\ i.op = "fmv.x"  -> MoveToInt(s, i)
    [] s.fs # 0 /\ i.op = "fmv.f"  -> MoveFromInt(s, i)
    [] s.fs # 0 /\ i.op = "fl"     -> LoadFp(s, i, s.reg[i.rs1])
=============================================================================
