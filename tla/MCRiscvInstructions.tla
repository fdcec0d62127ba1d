------------------------ MODULE MCRiscvInstructions ------------------------
(* The instructions of RiscvFpu and RiscvInteger one at a time,              *)
(* each compared with what the ISA says, and the MMU under any guest.        *)
EXTENDS RiscvMmu, RiscvFpu

CONSTANT XLEN

Rv == INSTANCE RiscvInteger
Isa == INSTANCE RiscvIsa

VARIABLES unit, \* the part of the CPU this behaviour is about
          case, \* the instruction executed and its operands
          out   \* what the instruction did

mcvars == <<pt, mem, mmu, pc, block, saved, recent, fetched, unit, case, out>>

Single == [exp |-> 5, mant |-> 2]
Double == [exp |-> 6, mant |-> 7]

Unset == <<>>

-----------------------------------------------------------------------------
(* Floating-point cases: an instruction, its operands and the state of fcsr. *)

Numbers(f, exps, mants) == {pack_sf(f, s, e, m) : s \in {0, 1}, e \in exps, m \in mants}

\* Zeros, subnormals, both ends of the normal numbers, neighbours around one,
\* infinities and NaNs.
Singles == Numbers(S, {0, 1, 2, 14, 15, 16, 29, 30, 31}, 0 .. 3)
Few     == Numbers(S, {0, 1, 14, 30, 31}, {0, 1, 3})
Doubles == Numbers(D, {0, 1, 5, 14, 15, 16, 17, 18, 30, 31, 32, 33, 34, 38, 39, 40, 44, 45, 46,
                       47, 48, 62, 63}, {0, 1, 2, 16, 32, 33, 63, 64, 65, 95, 96, 127})
FewDoubles == Numbers(D, {0, 1, 31, 32, 62, 63}, {0, 1, 64, 127})
IntWords   == 0 .. Word(S) - 1

Case(ops, fmts, as, bs, cs, xs, rms, frms, fss) ==
  [op : ops, fmt : fmts, a : as, b : bs, c : cs, x : xs, rm : rms, frm : frms, fs : fss]
Zero == {0}
On   == {1}

FpCases == UNION {
  Case({"fadd", "fsub", "fmul", "fdiv"}, {"s"}, Singles, Singles, Zero, Zero, RoundingModes, Zero, On),
  Case({"fcmp", "fsgnj"}, {"s"}, Singles, Singles, Zero, Zero, 0 .. 3, Zero, On),
  Case({"fminmax"}, {"s"}, Singles, Singles, Zero, Zero, 0 .. 2, Zero, On),
  Case({"fmadd"}, {"s"}, Few, Few, Few, Zero, RoundingModes, Zero, On),
  Case({"fmsub", "fnmadd", "fnmsub"}, {"s"}, Few, {60, 1, 188, 124, 0}, Few, Zero, {RNE, RDN}, Zero, On),
  Case({"fsqrt", "fcvt.w", "fcvt.wu"}, {"s"}, 0 .. 255, Zero, Zero, Zero, RoundingModes, Zero, On),
  Case({"fsqrt", "fcvt.w", "fcvt.wu"}, {"d"}, Doubles, Zero, Zero, Zero, RoundingModes, Zero, On),
  Case({"fcvt.f.f"}, {"s"}, Doubles, Zero, Zero, Zero, RoundingModes, Zero, On),
  Case({"fcvt.f.f"}, {"d"}, 0 .. 255, Zero, Zero, Zero, RoundingModes, Zero, On),
  Case({"fcvt.f.w", "fcvt.f.wu"}, {"s", "d"}, Zero, Zero, Zero, IntWords, RoundingModes, Zero, On),
  Case({"fmv.x"}, {"s", "d"}, IntWords, Zero, Zero, Zero, {0, 1, 2}, Zero, On),
  Case({"fmv.f"}, {"s", "d"}, Zero, Zero, Zero, IntWords, {0, 1}, Zero, On),
  Case({"fcmp", "fminmax", "fsgnj"}, {"d"}, FewDoubles, FewDoubles, Zero, Zero, {0, 1}, Zero, On),
  Case({"fadd", "fmul"}, {"s"}, {61}, {1, 62}, Zero, Zero, 0 .. 7, RoundingModes, {0, 1, 3})}

Registers == 0 .. 3
Box(fmt, v) == IF fmt = "s" THEN v + Word(D) - Word(S) ELSE v
\* The format of the operands.
SourceFormat(k) == IF k.op # "fcvt.f.f" THEN k.fmt ELSE IF k.fmt = "s" THEN "d" ELSE "s"

Before(k) ==
  LET g == SourceFormat(k)
  IN  [fp_reg  |-> [r \in Registers |-> Box(g, CASE r = 1 -> k.a [] r = 2 -> k.b
                                                [] r = 3 -> k.c [] OTHER -> 0)],
       reg     |-> [r \in Registers |-> IF r = 1 THEN k.x ELSE 0],
       frm     |-> k.frm, fs |-> k.fs, illegal |-> FALSE,
       fflags  |-> IF k.rm = RDN THEN {NV} ELSE {}]

\* The result replaces the first operand; an integer goes to register 2.
Instruction(k) ==
  [op |-> k.op, fmt |-> k.fmt, rm |-> k.rm, rs1 |-> 1, rs2 |-> 2, rs3 |-> 3,
   rd |-> IF Isa!WritesInteger(k.op) THEN 2 ELSE 1]

\* Every other register, the rounding mode and, unless the flags are new, the
\* flags are as before. fsgnj and fmv.f leave the bits above a narrow result
\* to their operands, and are read in their format.
Delivers(k, s, t, r) ==
  LET w == t.fp_reg[1]
  IN  /\ ~t.illegal
      /\ t.fflags = s.fflags \cup r.flags
      /\ t.frm = s.frm
      /\ \A n \in {0, 2, 3} : t.fp_reg[n] = s.fp_reg[n]
      /\ \A n \in {0, 1, 3} : t.reg[n] = s.reg[n]
      /\ IF Isa!WritesInteger(k.op)
         THEN t.reg[2] = r.val /\ t.fp_reg = s.fp_reg
         ELSE /\ t.reg = s.reg /\ t.fs = Dirty
              /\ w % Word(Format(k.fmt)) = r.val
              /\ k.op \in {"fsgnj", "fmv.f"} \/ w = Box(k.fmt, r.val)

AsSpecified(k, s, t) ==
  LET i == Instruction(k)
  IN  IF Isa!IsIllegal(i, k.frm, k.fs) THEN t = [s EXCEPT !.illegal = TRUE]
      ELSE Delivers(k, s, t, Isa!FloatResult(i, k.a, k.b, k.c, k.x, Isa!RoundingOf(i, k.frm)))

-----------------------------------------------------------------------------
(* Integer cases.                                                            *)

RegOps == {"add", "sub", "sll", "srl", "sra", "slt", "sltu", "xor", "or", "and", "mul", "mulh",
           "mulhsu", "mulhu", "div", "divu", "rem", "remu"}
AmoOps == {"amoswap", "amoadd", "amoxor", "amoand", "amoor", "amomin", "amomax", "amominu",
           "amomaxu"}
Branches == {"beq", "bne", "blt", "bge", "bltu", "bgeu"}
\* Words around zero, one, the ends of the two ranges and some in between.
AluWords == {0, 1, 2, 3, 5, 7, 8, 11, 63, 64, 85, 126, 127, 128, 129, 130, 170, 200, 247, 253,
             254, 255}
AluCases == [op : RegOps \cup AmoOps \cup Branches, a : AluWords, b : AluWords]

AluRun(k) == IF k.op \in Branches THEN Rv!Taken(k.op, k.a, k.b)
             ELSE IF k.op \in AmoOps THEN Rv!AmoResult(k.op, k.a, k.b)
             ELSE Rv!RegOp(k.op, k.a, k.b)
AluSpecified(k) == IF k.op \in Branches THEN Isa!BranchTaken(k.op, k.a, k.b)
                   ELSE Isa!IntegerResult(k.op, k.a, k.b)

CompressedWords == {w \in 0 .. 65535 : w % 4 # 3}

-----------------------------------------------------------------------------
Entry(v, xwr, u, ppn) == [v |-> v, xwr |-> xwr, u |-> u, ppn |-> ppn]
\* The second root entry maps the two pages of RAM at once, the first leads to
\* the leaf table: page 1 has two addresses.
MCChoices == [s \in Slots |->
  CASE s = <<Root, 0>> -> {Entry(TRUE, {}, FALSE, 0)}
    [] s = <<Root, 1>> -> {Entry(TRUE, {"r", "w", "x"}, FALSE, 1)}
    [] s = <<Leaf, 0>> -> {Entry(TRUE, {"r", "w", "x"}, TRUE, 1)}
    [] s = <<Leaf, 1>> -> {Entry(TRUE, {"x"}, FALSE, 0), Entry(FALSE, {}, FALSE, 0)}]
MCStatusValues ==
  {[mpp |-> PRV_S, mprv |-> TRUE, sum |-> TRUE, mxr |-> FALSE],
   [mpp |-> PRV_U, mprv |-> FALSE, sum |-> FALSE, mxr |-> TRUE]}
MCTargets == {3}

-----------------------------------------------------------------------------
MCInit ==
  /\ Init
  /\ out = Unset
  /\ \/ unit = "mmu" /\ case = Unset
     \/ /\ pt = CHOOSE t \in [Slots -> UNION {{Fresh(c) : c \in MCChoices[s]} : s \in Slots}] :
                  \A s \in Slots : \E c \in MCChoices[s] : t[s] = Fresh(c)
        /\ \/ unit = "fpu" /\ case \in FpCases
           \/ unit = "alu" /\ case \in AluCases
           \/ unit = "decoder" /\ case \in CompressedWords

Translates == unit = "mmu" /\ Next /\ UNCHANGED <<unit, case, out>>
ExecutesFloat ==
  /\ unit = "fpu" /\ out = Unset
  /\ out' = Execute(Before(case), Instruction(case))
  /\ UNCHANGED <<vars, unit, case>>
ExecutesInteger ==
  /\ unit = "alu" /\ out = Unset
  /\ out' = [val |-> AluRun(case)]
  /\ UNCHANGED <<vars, unit, case>>
Decodes ==
  /\ unit = "decoder" /\ out = Unset
  /\ out' = Rv!DecodeCompressed(case)
  /\ UNCHANGED <<vars, unit, case>>

MCNext == Translates \/ ExecutesFloat \/ ExecutesInteger \/ Decodes
MCSpec == MCInit /\ [][MCNext]_mcvars

-----------------------------------------------------------------------------
\* A floating-point instruction leaves in its register the exact result rounded
\* once in the mode in force, raises the flags the standard names, traps for a
\* reserved mode and while the unit is off, and changes no other register.
FloatsAsSpecified ==
  unit = "fpu" /\ out # Unset => AsSpecified(case, Before(case), out)

\* Quotients, remainders, high products, shifts, comparisons and atomic
\* operations are those of the numbers the words stand for, at the ends of the
\* ranges too.
IntegersAsSpecified ==
  unit = "alu" /\ out # Unset => out.val = AluSpecified(case)

\* A compressed instruction does what the instruction it stands for does, and a
\* reserved one is illegal; but c.lui of zero and c.lwsp to x0 are executed.
CompressedAsExpanded ==
  unit = "decoder" /\ out # Unset =>
    IF Isa!Reserved(case)
    THEN out = Rv!Illegal \/ Isa!Is(case, 1, 3) \/ Isa!Is(case, 2, 2)
    ELSE out = Rv!Decode(Isa!Expand(case))

\* What a single instruction does is what the ISA says, for floats, integers
\* and compressed instructions.
ExecutesAsSpecified ==
  FloatsAsSpecified /\ IntegersAsSpecified /\ CompressedAsExpanded
=============================================================================
