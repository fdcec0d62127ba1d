--------------------------- MODULE RiscvInteger ----------------------------
(***************************************************************************)
(* riscv_cpu_interp_x32 in riscv_cpu_template.h: the integer operations on *)
(* words of XLEN bits, and the decoder, for XLEN = 32 and FLEN = 64.       *)
(***************************************************************************)
EXTENDS Integers, Bitwise

(* The operations; a word is a natural number below 2^XLEN.                  *)

CONSTANT XLEN   \* a power of two, at most 32

Modulus   == 2 ^ XLEN
Words    == 0 .. Modulus - 1
MinInt   == 2 ^ (XLEN - 1)                \* the pattern of the least integer
Ones     == Modulus - 1                   \* the pattern of -1
Word(v)  == v % Modulus
ToInt(a)   == IF a >= MinInt THEN a - Modulus ELSE a
Flag(c)  == IF c THEN 1 ELSE 0
Abs(v)   == IF v < 0 THEN -v ELSE v
SignOf(v) == IF v < 0 THEN -1 ELSE 1

\* The division of C, which rounds towards zero, and its remainder.
Quotient(x, y)  == SignOf(x) * SignOf(y) * (Abs(x) \div Abs(y))
Remainder(x, y) == SignOf(x) * (Abs(x) % Abs(y))

div(a, b)  == CASE b = 0 -> Ones
                [] a = MinInt /\ b = Ones -> a
                [] OTHER -> Word(Quotient(ToInt(a), ToInt(b)))
divu(a, b) == IF b = 0 THEN Ones ELSE a \div b
rem(a, b)  == CASE b = 0 -> a
                [] a = MinInt /\ b = Ones -> 0
                [] OTHER -> Word(Remainder(ToInt(a), ToInt(b)))
remu(a, b) == IF b = 0 THEN a ELSE a % b

\* The high half of a double word; \div rounds down as the arithmetic shift does.
mulh(a, b)   == Word((ToInt(a) * ToInt(b)) \div Modulus)
mulhsu(a, b) == Word((ToInt(a) * b) \div Modulus)
mulhu(a, b)  == Word((a * b) \div Modulus)

Shift(b) == 2 ^ (b % XLEN)

RegOp(op, a, b) ==
  CASE op \in {"add", "addi"}   -> Word(a + b)
    [] op = "sub"               -> Word(a - b)
    [] op \in {"sll", "slli"}   -> Word(a * Shift(b))
    [] op \in {"slt", "slti"}   -> Flag(ToInt(a) < ToInt(b))
    [] op \in {"sltu", "sltiu"} -> Flag(a < b)
    [] op \in {"xor", "xori"}   -> a ^^ b
    [] op \in {"srl", "srli"}   -> a \div Shift(b)
    [] op \in {"sra", "srai"}   -> Word(ToInt(a) \div Shift(b))
    [] op \in {"or", "ori"}     -> a | b
    [] op \in {"and", "andi"}   -> a & b
    [] op = "mul"    -> Word(ToInt(a) * ToInt(b))
    [] op = "mulh"   -> mulh(a, b)
    [] op = "mulhsu" -> mulhsu(a, b)
    [] op = "mulhu"  -> mulhu(a, b)
    [] op = "div"    -> div(a, b)
    [] op = "divu"   -> divu(a, b)
    [] op = "rem"    -> rem(a, b)
    [] op = "remu"   -> remu(a, b)

Taken(op, a, b) ==
  LET cond == CASE op \in {"beq", "bne"}   -> a = b
                [] op \in {"blt", "bge"}   -> ToInt(a) < ToInt(b)
                [] op \in {"bltu", "bgeu"} -> a < b
  IN  cond # (op \in {"bne", "bge", "bgeu"})

\* What an atomic operation writes over val with the register val2.
AmoResult(op, val, val2) ==
  CASE op = "amoswap" -> val2
    [] op = "amoadd"  -> Word(val + val2)
    [] op = "amoxor"  -> val ^^ val2
    [] op = "amoand"  -> val & val2
    [] op = "amoor"   -> val | val2
    [] op = "amomin"  -> IF ToInt(val) < ToInt(val2) THEN val ELSE val2
    [] op = "amomax"  -> IF ToInt(val) > ToInt(val2) THEN val ELSE val2
    [] op = "amominu" -> IF val < val2 THEN val ELSE val2
    [] op = "amomaxu" -> IF val > val2 THEN val ELSE val2

-----------------------------------------------------------------------------
(* The decoder: what an instruction word makes the interpreter do. A word   *)
(* of 32 bits is the record of its fields (funct7 rs2 rs1 funct3 rd opcode, *)
(* from the highest bit down), a compressed one a number below 2^16. What   *)
(* is done is an operation with its registers and its immediate; an         *)
(* operation that would only write x0 is a "nop". x0 reads as zero: no      *)
(* definition here writes it.                                               *)

Do(op, rd, rs1, rs2, imm) == [op |-> op, rd |-> rd, rs1 |-> rs1, rs2 |-> rs2, imm |-> imm]
Illegal == Do("illegal", 0, 0, 0, 0)
Nop     == Do("nop", 0, 0, 0, 0)
\* if (rd != 0) s->reg[rd] = ...
Unless0(rd, what) == IF rd = 0 THEN Nop ELSE what

Bits(w, lo, hi) == (w \div 2 ^ lo) % 2 ^ (hi - lo + 1)
sext(v, n)      == IF v >= 2 ^ (n - 1) THEN v - 2 ^ n ELSE v
\* The field at bit src of the word, moved to bits lo to hi of the immediate.
get_field1(w, src, lo, hi) == Bits(w, src, src + hi - lo) * 2 ^ lo

(* 32-bit instructions.                                                     *)

imm12(i)  == i.funct7 * 32 + i.rs2
ImmI(i)   == sext(imm12(i), 12)
ImmS(i)   == sext(i.funct7 * 32 + i.rd, 12)
ImmB(i)   == sext((i.funct7 \div 64) * 2 ^ 12 + (i.rd % 2) * 2 ^ 11
                  + (i.funct7 % 64) * 2 ^ 5 + (i.rd - (i.rd % 2)), 13)
\* In units of 2^12.
ImmU(i)   == sext(i.funct7 * 2 ^ 13 + i.rs2 * 2 ^ 8 + i.rs1 * 2 ^ 3 + i.funct3, 20)
ImmJ(i)   == sext((i.funct7 \div 64) * 2 ^ 20 + i.rs1 * 2 ^ 15 + i.funct3 * 2 ^ 12
                  + (i.rs2 % 2) * 2 ^ 11 + (i.funct7 % 64) * 2 ^ 5
                  + (i.rs2 - (i.rs2 % 2)), 21)

DecodeBranch(i) ==
  LET ops == <<"beq", "bne", "", "", "blt", "bge", "bltu", "bgeu">>
  IN  IF i.funct3 \in {2, 3} THEN Illegal
      ELSE Do(ops[i.funct3 + 1], 0, i.rs1, i.rs2, ImmB(i))

DecodeLoad(i) ==
  LET ops == <<"lb", "lh", "lw", "", "lbu", "lhu", "", "">>
  IN  IF i.funct3 \in {3, 6, 7} THEN Illegal
      ELSE Do(ops[i.funct3 + 1], i.rd, i.rs1, 0, ImmI(i))

DecodeStore(i) ==
  LET ops == <<"sb", "sh", "sw">>
  IN  IF i.funct3 > 2 THEN Illegal
      ELSE Do(ops[i.funct3 + 1], 0, i.rs1, i.rs2, ImmS(i))

DecodeOpImm(i) ==
  LET ops   == <<"addi", "slli", "slti", "sltiu", "xori", "srli", "ori", "andi">>
      right == i.funct3 = 5
      arith == right /\ Bits(imm12(i), 10, 10) = 1
      shift == i.funct3 = 1 \/ right
      bad   == \/ i.funct3 = 1 /\ imm12(i) >= 32
               \/ right /\ i.funct7 \notin {0, 32}
  IN  CASE bad -> Illegal
        [] shift /\ ~bad -> Unless0(i.rd, Do(IF arith THEN "srai" ELSE ops[i.funct3 + 1],
                                             i.rd, i.rs1, 0, i.rs2))
        [] OTHER -> Unless0(i.rd, Do(ops[i.funct3 + 1], i.rd, i.rs1, 0, ImmI(i)))

DecodeOp(i) ==
  LET mulops == <<"mul", "mulh", "mulhsu", "mulhu", "div", "divu", "rem", "remu">>
      ops    == <<"add", "sll", "slt", "sltu", "xor", "srl", "or", "and">>
      op     == CASE i.funct7 = 1  -> mulops[i.funct3 + 1]
                  [] i.funct7 = 0  -> ops[i.funct3 + 1]
                  [] i.funct7 = 32 /\ i.funct3 = 0 -> "sub"
                  [] i.funct7 = 32 /\ i.funct3 = 5 -> "sra"
                  [] OTHER -> "illegal"
  IN  IF op = "illegal" THEN Illegal
      ELSE Unless0(i.rd, Do(op, i.rd, i.rs1, i.rs2, 0))

\* The CSR number is the immediate; a csrr?i uses the number rs1 itself.
DecodeSystem(i) ==
  LET f    == i.funct3 % 4
      zero == i.rd = 0 /\ i.funct3 = 0
      csr  == <<"csrrw", "csrrs", "csrrc">>
      csri == <<"csrrwi", "csrrsi", "csrrci">>
      imm  == imm12(i)
  IN  CASE f # 0 -> Do(IF i.funct3 >= 4 THEN csri[f] ELSE csr[f], i.rd, i.rs1, 0, imm)
        [] f = 0 /\ zero /\ i.rs1 = 0 /\ imm = 0   -> Do("ecall", 0, 0, 0, 0)
        [] f = 0 /\ zero /\ i.rs1 = 0 /\ imm = 1   -> Do("ebreak", 0, 0, 0, 0)
        [] f = 0 /\ zero /\ i.rs1 = 0 /\ imm = 258 -> Do("sret", 0, 0, 0, 0)
        [] f = 0 /\ zero /\ i.rs1 = 0 /\ imm = 770 -> Do("mret", 0, 0, 0, 0)
        [] f = 0 /\ zero /\ imm = 261              -> Do("wfi", 0, 0, 0, 0)
        [] f = 0 /\ zero /\ imm \div 32 = 9        -> Do("sfence.vma", 0, i.rs1, 0, 0)
        [] OTHER -> Illegal

\* A fence orders nothing here: the interpreter runs one instruction at a time.
DecodeMiscMem(i) ==
  CASE i.funct3 = 0 /\ i.rd = 0 /\ i.rs1 = 0 /\ i.funct7 < 8 -> Nop
    [] i.funct3 = 1 /\ i.rd = 0 /\ i.rs1 = 0 /\ imm12(i) = 0 -> Nop
    [] OTHER -> Illegal

AmoOps == [f \in {0, 1, 4, 8, 12, 16, 20, 24, 28} |->
             CASE f = 0  -> "amoadd"  [] f = 1  -> "amoswap" [] f = 4  -> "amoxor"
               [] f = 8  -> "amoor"   [] f = 12 -> "amoand"  [] f = 16 -> "amomin"
               [] f = 20 -> "amomax"  [] f = 24 -> "amominu" [] f = 28 -> "amomaxu"]

DecodeAmo(i) ==
  LET f == i.funct7 \div 4
  IN  CASE i.funct3 # 2 -> Illegal
        [] i.funct3 = 2 /\ f = 2 ->
             IF i.rs2 # 0 THEN Illegal ELSE Do("lr.w", i.rd, i.rs1, 0, 0)
        [] i.funct3 = 2 /\ f = 3 -> Do("sc.w", i.rd, i.rs1, i.rs2, 0)
        [] i.funct3 = 2 /\ f \in DOMAIN AmoOps -> Do(AmoOps[f], i.rd, i.rs1, i.rs2, 0)
        [] OTHER -> Illegal

DecodeFpLoad(i) ==
  CASE i.funct3 = 2 -> Do("flw", i.rd, i.rs1, 0, ImmI(i))
    [] i.funct3 = 3 -> Do("fld", i.rd, i.rs1, 0, ImmI(i))
    [] OTHER -> Illegal

DecodeFpStore(i) ==
  CASE i.funct3 = 2 -> Do("fsw", 0, i.rs1, i.rs2, ImmS(i))
    [] i.funct3 = 3 -> Do("fsd", 0, i.rs1, i.rs2, ImmS(i))
    [] OTHER -> Illegal

\* Floating-point arithmetic is decoded by RiscvFpu.
Decode(i) ==
  CASE i.opcode = 55  -> Unless0(i.rd, Do("lui", i.rd, 0, 0, ImmU(i)))
    [] i.opcode = 23  -> Unless0(i.rd, Do("auipc", i.rd, 0, 0, ImmU(i)))
    [] i.opcode = 111 -> Do("jal", i.rd, 0, 0, ImmJ(i))
    [] i.opcode = 103 -> Do("jalr", i.rd, i.rs1, 0, ImmI(i))
    [] i.opcode = 99  -> DecodeBranch(i)
    [] i.opcode = 3   -> DecodeLoad(i)
    [] i.opcode = 35  -> DecodeStore(i)
    [] i.opcode = 19  -> DecodeOpImm(i)
    [] i.opcode = 51  -> DecodeOp(i)
    [] i.opcode = 115 -> DecodeSystem(i)
    [] i.opcode = 15  -> DecodeMiscMem(i)
    [] i.opcode = 47  -> DecodeAmo(i)
    [] i.opcode = 7   -> DecodeFpLoad(i)
    [] i.opcode = 39  -> DecodeFpStore(i)
    [] OTHER -> Illegal

(* Compressed instructions.                                                 *)

ShortReg(w, lo) == Bits(w, lo, lo + 2) + 8
Imm6(w)     == get_field1(w, 12, 5, 5) + get_field1(w, 2, 0, 4)
ImmWord(w)  == get_field1(w, 10, 3, 5) + get_field1(w, 6, 2, 2) + get_field1(w, 5, 6, 6)
ImmDouble(w) == get_field1(w, 10, 3, 5) + get_field1(w, 5, 6, 7)
ImmJump(w)  == sext(get_field1(w, 12, 11, 11) + get_field1(w, 11, 4, 4)
                    + get_field1(w, 9, 8, 9) + get_field1(w, 8, 10, 10)
                    + get_field1(w, 7, 6, 6) + get_field1(w, 6, 7, 7)
                    + get_field1(w, 3, 1, 3) + get_field1(w, 2, 5, 5), 12)
ImmBranch(w) == sext(get_field1(w, 12, 8, 8) + get_field1(w, 10, 3, 4)
                     + get_field1(w, 5, 6, 7) + get_field1(w, 3, 1, 2)
                     + get_field1(w, 2, 5, 5), 9)

DecodeQuadrant0(w) ==
  LET f   == Bits(w, 13, 15)
      rd  == ShortReg(w, 2)
      rs1 == ShortReg(w, 7)
      sp  == get_field1(w, 11, 4, 5) + get_field1(w, 7, 6, 9)
             + get_field1(w, 6, 2, 2) + get_field1(w, 5, 3, 3)
  IN  CASE f = 0 -> IF sp = 0 THEN Illegal ELSE Do("addi", rd, 2, 0, sp)
        [] f = 1 -> Do("fld", rd, rs1, 0, ImmDouble(w))
        [] f = 2 -> Do("lw", rd, rs1, 0, ImmWord(w))
        [] f = 3 -> Do("flw", rd, rs1, 0, ImmWord(w))
        [] f = 5 -> Do("fsd", 0, rs1, rd, ImmDouble(w))
        [] f = 6 -> Do("sw", 0, rs1, rd, ImmWord(w))
        [] f = 7 -> Do("fsw", 0, rs1, rd, ImmWord(w))
        [] OTHER -> Illegal

DecodeMiscAlu(w) ==
  LET f     == Bits(w, 10, 11)
      rd    == ShortReg(w, 7)
      funct == Bits(w, 5, 6) + 4 * Bits(w, 12, 12)
      ops   == <<"sub", "xor", "or", "and">>
  IN  CASE f \in {0, 1} -> IF Imm6(w) >= 32 THEN Illegal
                           ELSE Do(IF f = 0 THEN "srli" ELSE "srai", rd, rd, 0, Imm6(w))
        [] f = 2 -> Do("andi", rd, rd, 0, sext(Imm6(w), 6))
        [] f = 3 -> IF funct > 3 THEN Illegal
                    ELSE Do(ops[funct + 1], rd, rd, ShortReg(w, 2), 0)

DecodeQuadrant1(w) ==
  LET f   == Bits(w, 13, 15)
      rd  == Bits(w, 7, 11)
      rs1 == ShortReg(w, 7)
      sp  == sext(get_field1(w, 12, 9, 9) + get_field1(w, 6, 4, 4)
                  + get_field1(w, 5, 6, 6) + get_field1(w, 3, 7, 8)
                  + get_field1(w, 2, 5, 5), 10)
      upper == sext(get_field1(w, 12, 17, 17) + get_field1(w, 2, 12, 16), 18)
  IN  CASE f = 0 -> Unless0(rd, Do("addi", rd, rd, 0, sext(Imm6(w), 6)))
        [] f = 1 -> Do("jal", 1, 0, 0, ImmJump(w))
        [] f = 2 -> Unless0(rd, Do("addi", rd, 0, 0, sext(Imm6(w), 6)))
        [] f = 3 /\ rd = 2 -> IF sp = 0 THEN Illegal ELSE Do("addi", 2, 2, 0, sp)
        [] f = 3 /\ rd # 2 -> Unless0(rd, Do("lui", rd, 0, 0, upper \div 2 ^ 12))
        [] f = 4 -> DecodeMiscAlu(w)
        [] f = 5 -> Do("jal", 0, 0, 0, ImmJump(w))
        [] f = 6 -> Do("beq", 0, rs1, 0, ImmBranch(w))
        [] f = 7 -> Do("bne", 0, rs1, 0, ImmBranch(w))

DecodeQuadrant2(w) ==
  LET f     == Bits(w, 13, 15)
      rd    == Bits(w, 7, 11)
      rs2   == Bits(w, 2, 6)
      link  == Bits(w, 12, 12) = 1
      dspo  == get_field1(w, 12, 5, 5) + (rs2 \div 8) * 8 + get_field1(w, 2, 6, 8)
      wspo  == get_field1(w, 12, 5, 5) + (rs2 \div 4) * 4 + get_field1(w, 2, 6, 7)
      dstore == get_field1(w, 10, 3, 5) + get_field1(w, 7, 6, 8)
      wstore == get_field1(w, 9, 2, 5) + get_field1(w, 7, 6, 7)
  IN  CASE f = 0 -> IF Imm6(w) >= 32 THEN Illegal
                    ELSE Unless0(rd, Do("slli", rd, rd, 0, Imm6(w)))
        [] f = 1 -> Do("fld", rd, 2, 0, dspo)
        [] f = 2 -> Do("lw", rd, 2, 0, wspo)
        [] f = 3 -> Do("flw", rd, 2, 0, wspo)
        [] f = 4 /\ rs2 = 0 /\ rd = 0 -> IF link THEN Do("ebreak", 0, 0, 0, 0) ELSE Illegal
        [] f = 4 /\ rs2 = 0 /\ rd # 0 -> Do("jalr", IF link THEN 1 ELSE 0, rd, 0, 0)
        [] f = 4 /\ rs2 # 0 -> Unless0(rd, Do("add", rd, IF link THEN rd ELSE 0, rs2, 0))
        [] f = 5 -> Do("fsd", 0, 2, rs2, dstore)
        [] f = 6 -> Do("sw", 0, 2, rs2, wstore)
        [] f = 7 -> Do("fsw", 0, 2, rs2, wstore)

DecodeCompressed(w) == CASE w % 4 = 0 -> DecodeQuadrant0(w)
                         [] w % 4 = 1 -> DecodeQuadrant1(w)
                         [] w % 4 = 2 -> DecodeQuadrant2(w)
=============================================================================
