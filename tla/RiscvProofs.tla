---------------------------- MODULE RiscvProofs -----------------------------
(***************************************************************************)
(* Theorems about the CPU under any guest and any interrupts, by way of    *)
(* what the operators of RiscvCpu do to its fields (CpuInv); about the     *)
(* contexts its traps save (ContextInv); and about the machine around it,  *)
(* for any clock, interrupt sources and budgets.  Each step of the machine *)
(* is one of RiscvCpu for the CPU, so what is proved of CpuSpec holds      *)
(* there; Inv relates the CPU's mip to the CLINT and the PLIC and the      *)
(* budget to the block that is interpreted.                                *)
(***************************************************************************)
EXTENDS RiscvContext, RiscvMachine, NaturalsInduction, WellFoundedInduction, TLAPS

(***************************************************************************)
(* The least of a set of natural numbers.                                  *)
(***************************************************************************)
LEMMA MinInSet ==
  ASSUME NEW S \in SUBSET Nat, S # {}
  PROVE  Min(S) \in S /\ \A y \in S : Min(S) <= y
<1>1. PICK x \in S : \A y \in S : ~(<<y, x>> \in OpToRel(<, Nat))
  <2>1. IsWellFoundedOn(OpToRel(<, Nat), Nat)
    BY NatLessThanWellFounded
  <2>2. QED
    BY <2>1, WFMin
<1>2. \A y \in S : x <= y
  <2>1. SUFFICES ASSUME NEW y \in S, y < x PROVE FALSE
    OBVIOUS
  <2>2. <<y, x>> \in OpToRel(<, Nat)
    BY <2>1 DEF OpToRel
  <2>3. QED
    BY <1>1, <2>2
<1>3. QED
  BY <1>2 DEF Min

LEMMA InterruptsAreNat == Interrupt \subseteq Nat
BY DEF Interrupt, SSIP, MSIP, STIP, MTIP, SEIP, MEIP

LEMMA Levels ==
  /\ PRV_U \in Priv /\ PRV_S \in Priv /\ PRV_M \in Priv
  /\ PRV_S # PRV_M /\ PRV_U # PRV_M /\ PRV_U # PRV_S
  /\ \A l \in Priv : l <= PRV_S => l \in {PRV_U, PRV_S}
  /\ \A l \in Priv : l >= PRV_M => l = PRV_M
  /\ \A l \in {PRV_U, PRV_S} : l \in Priv /\ l # PRV_M
  /\ ~(PRV_M <= PRV_S)
BY DEF Priv, PRV_U, PRV_S, PRV_M

-----------------------------------------------------------------------------
(* Records that differ from a CPU in well-typed fields.                    *)

LEMMA ExceptS ==
  ASSUME NEW c \in Cpu, NEW ie \in [Priv -> BOOLEAN], NEW spie \in BOOLEAN,
         NEW spp \in {PRV_U, PRV_S}, NEW p \in Priv
  PROVE  [c EXCEPT !.spie = spie, !.spp = spp, !.ie = ie, !.priv = p] \in Cpu
BY DEF Cpu

LEMMA ExceptM ==
  ASSUME NEW c \in Cpu, NEW ie \in [Priv -> BOOLEAN], NEW mpie \in BOOLEAN,
         NEW mpp \in Priv, NEW p \in Priv
  PROVE  [c EXCEPT !.mpie = mpie, !.mpp = mpp, !.ie = ie, !.priv = p] \in Cpu
BY DEF Cpu

LEMMA ExceptStatus ==
  ASSUME NEW c \in Cpu, NEW ie \in [Priv -> BOOLEAN], NEW spie \in BOOLEAN,
         NEW spp \in {PRV_U, PRV_S}, NEW mpie \in BOOLEAN, NEW mpp \in Priv
  PROVE  [c EXCEPT !.ie = ie, !.spie = spie, !.spp = spp, !.mpie = mpie, !.mpp = mpp] \in Cpu
BY DEF Cpu

-----------------------------------------------------------------------------
LEMMA TrapToSType ==
  ASSUME NEW c \in Cpu, c.priv <= PRV_S
  PROVE  TrapToS(c) \in Cpu
<1> DEFINE ie == [c.ie EXCEPT ![PRV_S] = FALSE]
           spie == c.ie[c.priv]
           spp == c.priv
<1>1. ie \in [Priv -> BOOLEAN]
  BY Levels DEF Cpu
<1>2. c.priv \in Priv /\ c.ie \in [Priv -> BOOLEAN]
  BY DEF Cpu
<1>3. spie \in BOOLEAN
  BY <1>2
<1>4. spp \in {PRV_U, PRV_S}
  BY <1>2, Levels
<1>5. TrapToS(c) = [c EXCEPT !.spie = spie, !.spp = spp, !.ie = ie, !.priv = PRV_S]
  BY DEF TrapToS
<1> HIDE DEF ie, spie, spp
<1>6. [c EXCEPT !.spie = spie, !.spp = spp, !.ie = ie, !.priv = PRV_S] \in Cpu
  BY <1>1, <1>3, <1>4, ExceptS, Levels
<1>7. QED
  BY <1>5, <1>6

LEMMA TrapToMType ==
  ASSUME NEW c \in Cpu
  PROVE  TrapToM(c) \in Cpu
<1> DEFINE ie == [c.ie EXCEPT ![PRV_M] = FALSE]
           mpie == c.ie[c.priv]
           mpp == c.priv
<1>1. ie \in [Priv -> BOOLEAN]
  BY Levels DEF Cpu
<1>2. c.priv \in Priv /\ c.ie \in [Priv -> BOOLEAN]
  BY DEF Cpu
<1>3. mpie \in BOOLEAN /\ mpp \in Priv
  BY <1>2
<1>4. TrapToM(c) = [c EXCEPT !.mpie = mpie, !.mpp = mpp, !.ie = ie, !.priv = PRV_M]
  BY DEF TrapToM
<1> HIDE DEF ie, mpie, mpp
<1>5. [c EXCEPT !.mpie = mpie, !.mpp = mpp, !.ie = ie, !.priv = PRV_M] \in Cpu
  BY <1>1, <1>3, ExceptM, Levels
<1>6. QED
  BY <1>4, <1>5

\* A trap goes to the supervisor, from no higher, or to the machine level.
LEMMA RaiseCases ==
  ASSUME NEW c \in Cpu, NEW deleg \in BOOLEAN
  PROVE  /\ RaiseException(c, deleg) \in Cpu
         /\ \/ deleg /\ c.priv <= PRV_S /\ RaiseException(c, deleg) = TrapToS(c)
            \/ ~(deleg /\ c.priv <= PRV_S) /\ RaiseException(c, deleg) = TrapToM(c)
BY TrapToSType, TrapToMType DEF RaiseException

LEMMA SretType ==
  ASSUME NEW c \in Cpu
  PROVE  HandleSret(c) \in Cpu
<1> DEFINE ie == [c.ie EXCEPT ![c.spp] = c.spie]
           p == c.spp
<1>1. c.spp \in {PRV_U, PRV_S} /\ c.spie \in BOOLEAN /\ c.ie \in [Priv -> BOOLEAN]
  BY DEF Cpu
<1>2. ie \in [Priv -> BOOLEAN] /\ p \in Priv
  BY <1>1, Levels
<1>3. HandleSret(c) = [c EXCEPT !.spie = TRUE, !.spp = PRV_U, !.ie = ie, !.priv = p]
  BY DEF HandleSret, Cpu
<1> HIDE DEF ie, p
<1>4. [c EXCEPT !.spie = TRUE, !.spp = PRV_U, !.ie = ie, !.priv = p] \in Cpu
  BY <1>2, ExceptS
<1>5. QED
  BY <1>3, <1>4

LEMMA MretType ==
  ASSUME NEW c \in Cpu
  PROVE  HandleMret(c) \in Cpu
<1> DEFINE ie == [c.ie EXCEPT ![c.mpp] = c.mpie]
           p == c.mpp
<1>1. c.mpp \in Priv /\ c.mpie \in BOOLEAN /\ c.ie \in [Priv -> BOOLEAN]
  BY DEF Cpu
<1>2. ie \in [Priv -> BOOLEAN] /\ p \in Priv
  BY <1>1
<1>3. HandleMret(c) = [c EXCEPT !.mpie = TRUE, !.mpp = PRV_U, !.ie = ie, !.priv = p]
  BY DEF HandleMret, Cpu
<1> HIDE DEF ie, p
<1>4. [c EXCEPT !.mpie = TRUE, !.mpp = PRV_U, !.ie = ie, !.priv = p] \in Cpu
  BY <1>2, ExceptM, Levels
<1>5. QED
  BY <1>3, <1>4

LEMMA MstatusType ==
  ASSUME NEW c \in Cpu, NEW val \in Mstatus
  PROVE  WriteMstatus(c, val) \in Cpu
<1> DEFINE ie == [l \in Priv |-> IF l = PRV_H THEN c.ie[l] ELSE val.ie[l]]
           spie == val.spie
           spp == val.spp
           mpie == val.mpie
           mpp == val.mpp
<1>1. c.ie \in [Priv -> BOOLEAN] /\ val.ie \in [{PRV_U, PRV_S, PRV_M} -> BOOLEAN]
  BY DEF Cpu, Mstatus
<1>2. \A l \in Priv : l # PRV_H => l \in {PRV_U, PRV_S, PRV_M}
  BY DEF Priv, PRV_U, PRV_S, PRV_H, PRV_M
<1>3. ie \in [Priv -> BOOLEAN]
  BY <1>1, <1>2
<1>4. spie \in BOOLEAN /\ spp \in {PRV_U, PRV_S} /\ mpie \in BOOLEAN /\ mpp \in Priv
  BY DEF Mstatus
<1>5. WriteMstatus(c, val) =
        [c EXCEPT !.ie = ie, !.spie = spie, !.spp = spp, !.mpie = mpie, !.mpp = mpp]
  BY DEF WriteMstatus
<1> HIDE DEF ie, spie, spp, mpie, mpp
<1>6. [c EXCEPT !.ie = ie, !.spie = spie, !.spp = spp, !.mpie = mpie, !.mpp = mpp] \in Cpu
  BY <1>3, <1>4, ExceptStatus
<1>7. QED
  BY <1>5, <1>6

LEMMA SstatusType ==
  ASSUME NEW c \in Cpu, NEW val \in Mstatus
  PROVE  WriteSstatus(c, val) \in Cpu
<1> DEFINE ie == [l \in Priv |-> IF l \in {PRV_U, PRV_S} THEN val.ie[l] ELSE c.ie[l]]
           spie == val.spie
           spp == val.spp
           p == c.priv
<1>1. c.ie \in [Priv -> BOOLEAN] /\ val.ie \in [{PRV_U, PRV_S, PRV_M} -> BOOLEAN]
  BY DEF Cpu, Mstatus
<1>2. ie \in [Priv -> BOOLEAN]
  BY <1>1
<1>3. spie \in BOOLEAN /\ spp \in {PRV_U, PRV_S} /\ p \in Priv
  BY DEF Mstatus, Cpu
<1>4. WriteSstatus(c, val) = [c EXCEPT !.spie = spie, !.spp = spp, !.ie = ie, !.priv = p]
  BY DEF WriteSstatus, Cpu
<1> HIDE DEF ie, spie, spp, p
<1>5. [c EXCEPT !.spie = spie, !.spp = spp, !.ie = ie, !.priv = p] \in Cpu
  BY <1>2, <1>3, ExceptS
<1>6. QED
  BY <1>4, <1>5

LEMMA InterruptsType ==
  ASSUME NEW c \in Cpu, NEW val \in SUBSET Interrupt
  PROVE  /\ WriteMie(c, val) \in Cpu
         /\ WriteSie(c, val) \in Cpu
         /\ WriteMip(c, val) \in Cpu
         /\ WriteSip(c, val) \in Cpu
         /\ WriteMideleg(c, val) \in Cpu
         /\ SetMip(c, val) \in Cpu
         /\ ResetMip(c, val) \in Cpu
<1> DEFINE I == Interrupt \ {MEIP}
           D == {SSIP, STIP, SEIP}
<1>1. /\ {MSIP, MTIP, SSIP, STIP, SEIP} \subseteq I
      /\ D \subseteq I
      /\ {SSIP, STIP} \subseteq Interrupt
  BY DEF Interrupt, SSIP, MSIP, STIP, MTIP, SEIP, MEIP
<1>2. c.mideleg \subseteq D /\ c.mie \subseteq I /\ c.mip \subseteq Interrupt
  BY DEF Cpu
<1>3. WriteMie(c, val) \in Cpu /\ WriteSie(c, val) \in Cpu
  <2>1. Masked(c.mie, val, {MSIP, MTIP, SSIP, STIP, SEIP}) \in SUBSET I
    BY <1>1, <1>2 DEF Masked
  <2>2. Masked(c.mie, val, c.mideleg) \in SUBSET I
    BY <1>1, <1>2 DEF Masked
  <2>3. \A m \in SUBSET I : [c EXCEPT !.mie = m] \in Cpu
    BY DEF Cpu
  <2>4. QED
    BY <2>1, <2>2, <2>3 DEF WriteMie, WriteSie
<1>4. \A m \in SUBSET Interrupt : [c EXCEPT !.mip = m] \in Cpu
  BY DEF Cpu
<1>5. WriteMip(c, val) \in Cpu /\ WriteSip(c, val) \in Cpu /\ ResetMip(c, val) \in Cpu
  <2>1. Masked(c.mip, val, {SSIP, STIP}) \in SUBSET Interrupt
    BY <1>1, <1>2 DEF Masked
  <2>2. Masked(c.mip, val, c.mideleg) \in SUBSET Interrupt
    BY <1>1, <1>2 DEF Masked
  <2>3. c.mip \ val \in SUBSET Interrupt
    BY <1>2
  <2>4. QED
    BY <1>4, <2>1, <2>2, <2>3 DEF WriteMip, WriteSip, ResetMip
<1>6. WriteMideleg(c, val) \in Cpu
  <2>1. Masked(c.mideleg, val, D) \in SUBSET D
    BY <1>2 DEF Masked
  <2>2. \A m \in SUBSET D : [c EXCEPT !.mideleg = m] \in Cpu
    BY DEF Cpu
  <2>3. QED
    BY <2>1, <2>2 DEF WriteMideleg
<1>7. SetMip(c, val) \in Cpu
  BY DEF Cpu, SetMip
<1>8. QED
  BY <1>3, <1>5, <1>6, <1>7

LEMMA MedelegType ==
  ASSUME NEW c \in Cpu, NEW val \in SUBSET Exception
  PROVE  WriteMedeleg(c, val) \in Cpu
BY DEF WriteMedeleg, Masked, Cpu

LEMMA WfiType ==
  ASSUME NEW c \in Cpu
  PROVE  Wfi(c) \in Cpu
BY DEF Wfi, Cpu

LEMMA CpuInitType == CpuInit \in Cpu
BY Levels DEF CpuInit, Cpu

-----------------------------------------------------------------------------
(* What the guest's instructions and its interrupts do to the CPU.         *)

LEMMA TrapStep ==
  ASSUME cpu \in Cpu, Exceptional \/ Interrupted
  PROVE  /\ ~cpu.power_down_flag
         /\ \E deleg \in BOOLEAN : cpu' = RaiseException(cpu, deleg)
<1>1. ASSUME NEW cause, Executes(PRV_U, TakeException(cpu, cause))
      PROVE  ~cpu.power_down_flag /\ \E deleg \in BOOLEAN : cpu' = RaiseException(cpu, deleg)
  <2>1. (cause \in cpu.medeleg) \in BOOLEAN
    OBVIOUS
  <2>2. ~cpu.power_down_flag /\ cpu' = RaiseException(cpu, cause \in cpu.medeleg)
    BY <1>1 DEF Executes, TakeException
  <2>3. QED
    BY <2>1, <2>2, Zenon
<1>2. ASSUME Interrupted
      PROVE  ~cpu.power_down_flag /\ \E deleg \in BOOLEAN : cpu' = RaiseException(cpu, deleg)
  <2>1. (Min(PendingIrqMask(cpu)) \in cpu.mideleg) \in BOOLEAN
    OBVIOUS
  <2>2. /\ ~cpu.power_down_flag
        /\ cpu' = RaiseException(cpu, Min(PendingIrqMask(cpu)) \in cpu.mideleg)
    BY <1>2 DEF Interrupted, TakeInterrupt
  <2>3. QED
    BY <2>1, <2>2, Zenon
<1>3. QED
  BY <1>1, <1>2 DEF Exceptional, Ecall, IllegalInstruction, Fault

\* The fields a trap to the supervisor writes, and those it leaves alone.
LEMMA TrapToSFields ==
  ASSUME NEW c \in Cpu
  PROVE  /\ TrapToS(c).priv = PRV_S
         /\ TrapToS(c).spp = c.priv /\ TrapToS(c).spie = c.ie[c.priv]
         /\ TrapToS(c).ie = [c.ie EXCEPT ![PRV_S] = FALSE]
         /\ TrapToS(c).mpp = c.mpp /\ TrapToS(c).mpie = c.mpie
         /\ TrapToS(c).mip = c.mip /\ TrapToS(c).mie = c.mie
         /\ TrapToS(c).mideleg = c.mideleg /\ TrapToS(c).medeleg = c.medeleg
         /\ TrapToS(c).power_down_flag = c.power_down_flag
BY DEF TrapToS, Cpu

LEMMA TrapToMFields ==
  ASSUME NEW c \in Cpu
  PROVE  /\ TrapToM(c).priv = PRV_M
         /\ TrapToM(c).mpp = c.priv /\ TrapToM(c).mpie = c.ie[c.priv]
         /\ TrapToM(c).ie = [c.ie EXCEPT ![PRV_M] = FALSE]
         /\ TrapToM(c).spp = c.spp /\ TrapToM(c).spie = c.spie
         /\ TrapToM(c).power_down_flag = c.power_down_flag
BY DEF TrapToM, Cpu

LEMMA ReturnFields ==
  ASSUME NEW c \in Cpu
  PROVE  /\ HandleSret(c).priv = c.spp
         /\ HandleSret(c).ie = [c.ie EXCEPT ![c.spp] = c.spie]
         /\ HandleSret(c).mpp = c.mpp /\ HandleSret(c).mpie = c.mpie
         /\ HandleSret(c).power_down_flag = c.power_down_flag
         /\ HandleMret(c).priv = c.mpp
         /\ HandleMret(c).ie = [c.ie EXCEPT ![c.mpp] = c.mpie]
         /\ HandleMret(c).spp = c.spp /\ HandleMret(c).spie = c.spie
         /\ HandleMret(c).power_down_flag = c.power_down_flag
BY DEF HandleSret, HandleMret, Cpu

LEMMA StatusFields ==
  ASSUME NEW c \in Cpu, NEW val
  PROVE  /\ WriteMstatus(c, val).power_down_flag = c.power_down_flag
         /\ WriteSstatus(c, val).power_down_flag = c.power_down_flag
         /\ WriteSstatus(c, val).mpp = c.mpp /\ WriteSstatus(c, val).mpie = c.mpie
BY DEF WriteMstatus, WriteSstatus, Cpu

\* Neither the interrupt registers nor a wfi have a part in the contexts.
SameStatus(c, d) == /\ d.spp = c.spp /\ d.spie = c.spie
                    /\ d.mpp = c.mpp /\ d.mpie = c.mpie

LEMMA OtherStep ==
  ASSUME cpu \in Cpu, SleepsOnlyWhenIdle,
         CsrInterrupts \/ WaitForInterrupt \/ DeviceSetMip \/ DeviceResetMip
  PROVE  cpu' \in Cpu /\ SameStatus(cpu, cpu') /\ SleepsOnlyWhenIdle'
<1>1. ASSUME NEW val \in SUBSET GuestInterrupts, ~cpu.power_down_flag,
             \/ cpu' = WriteMie(cpu, val) \/ cpu' = WriteSie(cpu, val)
             \/ cpu' = WriteMip(cpu, val) \/ cpu' = WriteSip(cpu, val)
             \/ cpu' = WriteMideleg(cpu, val)
      PROVE  cpu' \in Cpu /\ SameStatus(cpu, cpu') /\ SleepsOnlyWhenIdle'
  <2>1. val \in SUBSET Interrupt
    BY InterruptsAssumption
  <2>2. cpu' \in Cpu
    BY <1>1, <2>1, InterruptsType
  <2>3. SameStatus(cpu, cpu') /\ cpu'.power_down_flag = cpu.power_down_flag
    BY <1>1 DEF SameStatus, WriteMie, WriteSie, WriteMip, WriteSip, WriteMideleg, Cpu
  <2>4. QED
    BY <1>1, <2>2, <2>3 DEF SleepsOnlyWhenIdle
<1>2. ASSUME NEW val \in SUBSET GuestExceptions, ~cpu.power_down_flag,
             cpu' = WriteMedeleg(cpu, val)
      PROVE  cpu' \in Cpu /\ SameStatus(cpu, cpu') /\ SleepsOnlyWhenIdle'
  <2>1. val \in SUBSET Exception
    BY ExceptionsAssumption
  <2>2. cpu' \in Cpu
    BY <1>2, <2>1, MedelegType
  <2>3. SameStatus(cpu, cpu') /\ cpu'.power_down_flag = cpu.power_down_flag
    BY <1>2 DEF SameStatus, WriteMedeleg, Cpu
  <2>4. QED
    BY <1>2, <2>2, <2>3 DEF SleepsOnlyWhenIdle
<1>3. ASSUME WaitForInterrupt
      PROVE  cpu' \in Cpu /\ SameStatus(cpu, cpu') /\ SleepsOnlyWhenIdle'
  <2>1. cpu' = Wfi(cpu) /\ ~cpu.power_down_flag
    BY <1>3 DEF WaitForInterrupt, Executes
  <2>2. cpu' \in Cpu
    BY <2>1, WfiType
  <2>3. SameStatus(cpu, cpu') /\ cpu'.mip = cpu.mip /\ cpu'.mie = cpu.mie
    BY <2>1 DEF SameStatus, Wfi, Cpu
  <2>4. cpu'.power_down_flag <=> cpu.mip \cap cpu.mie = {}
    BY <2>1 DEF Wfi, Cpu
  <2>5. QED
    BY <2>2, <2>3, <2>4 DEF SleepsOnlyWhenIdle
<1>4. ASSUME NEW mask \in SUBSET Lines, cpu' = SetMip(cpu, mask)
      PROVE  cpu' \in Cpu /\ SameStatus(cpu, cpu') /\ SleepsOnlyWhenIdle'
  <2>1. mask \in SUBSET Interrupt
    BY LinesAssumption
  <2>2. cpu' \in Cpu
    BY <1>4, <2>1, InterruptsType
  <2>3. SameStatus(cpu, cpu') /\ cpu'.mip = cpu.mip \cup mask /\ cpu'.mie = cpu.mie
    BY <1>4 DEF SameStatus, SetMip, Cpu
  <2>4. cpu'.power_down_flag => (cpu.mip \cup mask) \cap cpu.mie = {}
    BY <1>4 DEF SetMip, Cpu
  <2>5. QED
    BY <2>2, <2>3, <2>4 DEF SleepsOnlyWhenIdle
<1>5. ASSUME NEW mask \in SUBSET Lines, cpu' = ResetMip(cpu, mask)
      PROVE  cpu' \in Cpu /\ SameStatus(cpu, cpu') /\ SleepsOnlyWhenIdle'
  <2>1. mask \in SUBSET Interrupt
    BY LinesAssumption
  <2>2. cpu' \in Cpu
    BY <1>5, <2>1, InterruptsType
  <2>3. /\ SameStatus(cpu, cpu')
        /\ cpu'.mip \subseteq cpu.mip /\ cpu'.mie = cpu.mie
        /\ cpu'.power_down_flag = cpu.power_down_flag
    BY <1>5 DEF SameStatus, ResetMip, Cpu
  <2>4. QED
    BY <2>2, <2>3 DEF SleepsOnlyWhenIdle
<1>6. ASSUME CsrInterrupts
      PROVE  cpu' \in Cpu /\ SameStatus(cpu, cpu') /\ SleepsOnlyWhenIdle'
  BY <1>1, <1>2, <1>6 DEF CsrInterrupts, CsrMie, CsrSie, CsrMip, CsrSip, CsrMideleg,
     CsrMedeleg, Executes
<1>7. QED
  BY <1>3, <1>4, <1>5, <1>6 DEF DeviceSetMip, DeviceResetMip

-----------------------------------------------------------------------------
(* The invariant of the CPU alone.                                         *)

CpuInv == cpu \in Cpu /\ SleepsOnlyWhenIdle

LEMMA AwakeInv ==
  ASSUME cpu' \in Cpu, ~cpu'.power_down_flag
  PROVE  CpuInv'
BY DEF CpuInv, SleepsOnlyWhenIdle

LEMMA CpuNextInv ==
  ASSUME CpuInv, CpuNext
  PROVE  CpuInv'
<1>0. cpu \in Cpu /\ SleepsOnlyWhenIdle
  BY DEF CpuInv
<1>1. CASE Exceptional \/ Interrupted
  <2>1. PICK deleg \in BOOLEAN : cpu' = RaiseException(cpu, deleg)
    BY <1>0, <1>1, TrapStep
  <2>2. ~cpu.power_down_flag
    BY <1>0, <1>1, TrapStep
  <2>3. cpu' \in Cpu /\ ~cpu'.power_down_flag
    BY <1>0, <2>1, <2>2, RaiseCases, TrapToSFields, TrapToMFields
  <2>4. QED
    BY <2>3, AwakeInv
<1>2. CASE Sret \/ Mret
  <2>1. /\ cpu' = HandleSret(cpu) \/ cpu' = HandleMret(cpu)
        /\ ~cpu.power_down_flag
    BY <1>2 DEF Sret, Mret, Executes
  <2>2. cpu' \in Cpu /\ ~cpu'.power_down_flag
    BY <1>0, <2>1, SretType, MretType, ReturnFields
  <2>3. QED
    BY <2>2, AwakeInv
<1>3. CASE CsrMstatus \/ CsrSstatus
  <2>1. PICK val \in StatusValues :
          /\ cpu' = WriteMstatus(cpu, val) \/ cpu' = WriteSstatus(cpu, val)
          /\ ~cpu.power_down_flag
    BY <1>3 DEF CsrMstatus, CsrSstatus, Executes
  <2>2. cpu' \in Cpu /\ ~cpu'.power_down_flag
    BY <1>0, <2>1, MstatusType, SstatusType, StatusFields, StatusAssumption
  <2>3. QED
    BY <2>2, AwakeInv
<1>4. CASE CsrInterrupts \/ WaitForInterrupt \/ DeviceSetMip \/ DeviceResetMip
  BY <1>0, <1>4, OtherStep DEF CpuInv
<1>5. QED
  BY <1>1, <1>2, <1>3, <1>4 DEF CpuNext

LEMMA CpuInvariance == CpuSpec => []CpuInv
<1>1. cpu = CpuInit => CpuInv
  BY CpuInitType DEF CpuInit, CpuInv, SleepsOnlyWhenIdle
<1>2. CpuInv /\ [CpuNext]_cpu => CpuInv'
  <2>1. ASSUME CpuInv, cpu' = cpu PROVE CpuInv'
    BY <2>1 DEF CpuInv, SleepsOnlyWhenIdle
  <2>2. QED
    BY <2>1, CpuNextInv
<1>3. QED
  BY <1>1, <1>2, PTL DEF CpuSpec

\* A CPU asleep has no enabled interrupt pending.
THEOREM NoSleepOverInterrupt == CpuSpec => []SleepsOnlyWhenIdle
<1>1. CpuInv => SleepsOnlyWhenIdle
  BY DEF CpuInv
<1>2. QED
  BY <1>1, CpuInvariance, PTL

-----------------------------------------------------------------------------
LEMMA IsolatedStep ==
  ASSUME cpu \in Cpu, CpuNext, cpu.priv # PRV_M, cpu'.priv # PRV_M,
         ~DeviceSetMip, ~DeviceResetMip
  PROVE  MachineStateOf(cpu') = MachineStateOf(cpu)
<1>1. cpu.priv \in Priv /\ ~(cpu.priv >= PRV_M) /\ cpu.ie \in [Priv -> BOOLEAN]
  BY Levels DEF Cpu
<1>2. CASE Exceptional \/ Interrupted
  <2>1. PICK deleg \in BOOLEAN : cpu' = RaiseException(cpu, deleg)
    BY <1>2, TrapStep
  <2>2. cpu' = TrapToS(cpu)
    BY <2>1, RaiseCases, TrapToMFields
  <2>3. cpu'.ie[PRV_M] = cpu.ie[PRV_M]
    BY <1>1, <2>2, TrapToSFields, Levels
  <2>4. QED
    BY <2>2, <2>3, TrapToSFields DEF MachineStateOf
<1>3. CASE Sret
  <2>1. cpu' = HandleSret(cpu) /\ cpu.spp \in {PRV_U, PRV_S}
    BY <1>3 DEF Sret, Executes, Cpu
  <2>2. cpu'.ie[PRV_M] = cpu.ie[PRV_M]
    BY <1>1, <2>1, ReturnFields, Levels
  <2>3. /\ cpu'.mpp = cpu.mpp /\ cpu'.mpie = cpu.mpie
        /\ cpu'.mideleg = cpu.mideleg /\ cpu'.medeleg = cpu.medeleg
        /\ cpu'.mie = cpu.mie /\ cpu'.mip = cpu.mip
    BY <2>1 DEF HandleSret, Cpu
  <2>4. QED
    BY <2>2, <2>3 DEF MachineStateOf
<1>4. CASE CsrSstatus
  <2>1. PICK val \in StatusValues : cpu' = WriteSstatus(cpu, val)
    BY <1>4 DEF CsrSstatus, Executes
  <2>2. cpu'.ie[PRV_M] = cpu.ie[PRV_M]
    BY <1>1, <2>1, Levels DEF WriteSstatus, Cpu
  <2>3. /\ cpu'.mpp = cpu.mpp /\ cpu'.mpie = cpu.mpie
        /\ cpu'.mideleg = cpu.mideleg /\ cpu'.medeleg = cpu.medeleg
        /\ cpu'.mie = cpu.mie /\ cpu'.mip = cpu.mip
    BY <2>1 DEF WriteSstatus, Cpu
  <2>4. QED
    BY <2>2, <2>3 DEF MachineStateOf
<1>5. CASE CsrSie
  <2>1. PICK val \in SUBSET GuestInterrupts : cpu' = WriteSie(cpu, val)
    BY <1>5 DEF CsrSie, Executes
  <2>2. /\ cpu'.ie = cpu.ie /\ cpu'.mpp = cpu.mpp /\ cpu'.mpie = cpu.mpie
        /\ cpu'.mideleg = cpu.mideleg /\ cpu'.medeleg = cpu.medeleg
        /\ cpu'.mie = Masked(cpu.mie, val, cpu.mideleg) /\ cpu'.mip = cpu.mip
    BY <2>1 DEF WriteSie, Cpu
  <2>3. cpu'.mie \ cpu.mideleg = cpu.mie \ cpu.mideleg
    BY <2>2 DEF Masked
  <2>4. QED
    BY <2>2, <2>3 DEF MachineStateOf
<1>6. CASE CsrSip
  <2>1. PICK val \in SUBSET GuestInterrupts : cpu' = WriteSip(cpu, val)
    BY <1>6 DEF CsrSip, Executes
  <2>2. /\ cpu'.ie = cpu.ie /\ cpu'.mpp = cpu.mpp /\ cpu'.mpie = cpu.mpie
        /\ cpu'.mideleg = cpu.mideleg /\ cpu'.medeleg = cpu.medeleg
        /\ cpu'.mip = Masked(cpu.mip, val, cpu.mideleg) /\ cpu'.mie = cpu.mie
    BY <2>1 DEF WriteSip, Cpu
  <2>3. cpu'.mip \ cpu.mideleg = cpu.mip \ cpu.mideleg
    BY <2>2 DEF Masked
  <2>4. QED
    BY <2>2, <2>3 DEF MachineStateOf
<1>7. CASE WaitForInterrupt
  <2>1. cpu' = Wfi(cpu)
    BY <1>7 DEF WaitForInterrupt, Executes
  <2>2. /\ cpu'.ie = cpu.ie /\ cpu'.mpp = cpu.mpp /\ cpu'.mpie = cpu.mpie
        /\ cpu'.mideleg = cpu.mideleg /\ cpu'.medeleg = cpu.medeleg
        /\ cpu'.mip = cpu.mip /\ cpu'.mie = cpu.mie
    BY <2>1 DEF Wfi, Cpu
  <2>3. QED
    BY <2>2 DEF MachineStateOf
<1>8. ~(Mret \/ CsrMstatus \/ CsrMie \/ CsrMip \/ CsrMideleg \/ CsrMedeleg)
  BY <1>1 DEF Mret, CsrMstatus, CsrMie, CsrMip, CsrMideleg, CsrMedeleg,
     Executes
<1>9. QED
  BY <1>2, <1>3, <1>4, <1>5, <1>6, <1>7, <1>8 DEF CpuNext, CsrInterrupts

\* Software below the machine level reaches nothing the machine level relies on.
THEOREM IsolationHolds == CpuSpec => MachineStateIsolated
<1>1. CpuInv /\ [CpuNext]_cpu =>
        [ \/ cpu'.priv = PRV_M
          \/ cpu.priv = PRV_M
          \/ DeviceSetMip
          \/ DeviceResetMip
          \/ MachineStateOf(cpu') = MachineStateOf(cpu) ]_cpu
  BY IsolatedStep DEF CpuInv
<1>2. QED
  BY <1>1, CpuInvariance, PTL DEF CpuSpec, MachineStateIsolated

-----------------------------------------------------------------------------
LEMMA InterruptStep ==
  ASSUME cpu \in Cpu, Interrupted
  PROVE  LET i == Min(PendingIrqMask(cpu))
         IN /\ i \in cpu.mip \cap cpu.mie
            /\ cpu'.priv >= cpu.priv
            /\ cpu'.priv = cpu.priv => cpu.ie[cpu.priv]
            /\ cpu.priv = PRV_M => i \notin cpu.mideleg
            /\ cpu'.priv = PRV_S <=> i \in cpu.mideleg /\ cpu.priv <= PRV_S
            /\ ~cpu'.ie[cpu'.priv]
<1> DEFINE i == Min(PendingIrqMask(cpu))
           deleg == i \in cpu.mideleg
<1>1. cpu.priv \in Priv /\ cpu.ie \in [Priv -> BOOLEAN] /\ cpu.mip \in SUBSET Interrupt
  BY DEF Cpu
<1>2. i \in PendingIrqMask(cpu)
  <2>1. PendingIrqMask(cpu) \in SUBSET Nat
    BY <1>1, InterruptsAreNat DEF PendingIrqMask
  <2>2. PendingIrqMask(cpu) # {}
    BY DEF Interrupted
  <2>3. QED
    BY <2>1, <2>2, MinInSet
<1>3. deleg \in BOOLEAN /\ cpu' = RaiseException(cpu, deleg)
  BY DEF Interrupted, TakeInterrupt
<1> HIDE DEF i
<1>4. /\ i \in cpu.mip \cap cpu.mie
      /\ cpu.priv = PRV_M => cpu.ie[PRV_M] /\ i \notin cpu.mideleg
      /\ cpu.priv = PRV_S => cpu.ie[PRV_S] \/ i \notin cpu.mideleg
  BY <1>2 DEF PendingIrqMask
<1>5. CASE deleg /\ cpu.priv <= PRV_S
  <2>1. cpu' = TrapToS(cpu)
    BY <1>3, <1>5 DEF RaiseException
  <2>2. cpu'.priv = PRV_S /\ cpu'.ie = [cpu.ie EXCEPT ![PRV_S] = FALSE]
    BY <2>1, TrapToSFields
  <2>3. ~cpu'.ie[cpu'.priv]
    BY <1>1, <2>2, Levels
  <2>4. cpu'.priv >= cpu.priv
    BY <1>1, <1>5, <2>2 DEF PRV_S, Priv, PRV_U, PRV_M
  <2>5. QED
    BY <1>4, <1>5, <2>2, <2>3, <2>4, Levels DEF i
<1>6. CASE ~(deleg /\ cpu.priv <= PRV_S)
  <2>1. cpu' = TrapToM(cpu)
    BY <1>3, <1>6 DEF RaiseException
  <2>2. cpu'.priv = PRV_M /\ cpu'.ie = [cpu.ie EXCEPT ![PRV_M] = FALSE]
    BY <2>1, TrapToMFields
  <2>3. ~cpu'.ie[cpu'.priv]
    BY <1>1, <2>2, Levels
  <2>4. cpu'.priv >= cpu.priv
    BY <1>1, <2>2 DEF PRV_M, Priv, PRV_U
  <2>5. QED
    BY <1>4, <1>6, <2>2, <2>3, <2>4, Levels DEF i
<1>7. QED
  BY <1>3, <1>5, <1>6

\* Interrupts are taken at the level they are for, when its enable says so.
THEOREM EnablesRespected == CpuSpec => InterruptsRespectEnables
<1>1. CpuInv /\ [CpuNext]_cpu =>
        [ Interrupted =>
            LET i == Min(PendingIrqMask(cpu))
            IN /\ i \in cpu.mip \cap cpu.mie
               /\ cpu'.priv >= cpu.priv
               /\ cpu'.priv = cpu.priv => cpu.ie[cpu.priv]
               /\ cpu.priv = PRV_M => i \notin cpu.mideleg
               /\ cpu'.priv = PRV_S <=> i \in cpu.mideleg /\ cpu.priv <= PRV_S
               /\ ~cpu'.ie[cpu'.priv] ]_cpu
  BY InterruptStep DEF CpuInv
<1>2. QED
  BY <1>1, CpuInvariance, PTL DEF CpuSpec, InterruptsRespectEnables

-----------------------------------------------------------------------------
(* The contexts of traps.  ContextInv is inductive: each step keeps,        *)
(* rewrites or hands back the contexts it should.                          *)

SavedType == saved \in [Handler -> SUBSET Context]

\* Auxiliary: what the machine and the supervisor level have saved.
KeptS(c, contexts) == \A x \in contexts : c.spp = x.priv /\ c.spie = x.ie
KeptM(c, contexts) == \A x \in contexts : c.mpp = x.priv /\ c.mpie = x.ie

ContextInv ==
  /\ cpu \in Cpu
  /\ SavedType
  /\ SleepsOnlyWhenIdle
  /\ KeptS(cpu, saved[PRV_S])
  /\ KeptM(cpu, saved[PRV_M])

-----------------------------------------------------------------------------
(* The invariant.                                                          *)

LEMMA ContextInitInv == ContextInit => ContextInv
<1> SUFFICES ASSUME ContextInit PROVE ContextInv
  OBVIOUS
<1>1. cpu \in Cpu
  BY CpuInitType DEF ContextInit
<1>2. SleepsOnlyWhenIdle
  BY DEF ContextInit, CpuInit, SleepsOnlyWhenIdle
<1>3. SavedType
  BY DEF ContextInit, SavedType
<1>4. saved[PRV_S] = {} /\ saved[PRV_M] = {}
  BY DEF ContextInit, Handler
<1>5. QED
  BY <1>1, <1>2, <1>3, <1>4 DEF ContextInv, KeptS, KeptM

LEMMA TrapInv ==
  ASSUME ContextInv, Trap
  PROVE  ContextInv'
<1>1. PICK deleg \in BOOLEAN : cpu' = RaiseException(cpu, deleg)
  BY TrapStep DEF ContextInv, Trap
<1>2. cpu \in Cpu /\ ~cpu.power_down_flag /\ cpu.priv \in Priv /\ cpu.ie \in [Priv -> BOOLEAN]
  BY TrapStep DEF ContextInv, Trap, Cpu
<1>3. cpu' \in Cpu
  BY <1>1, <1>2, RaiseCases
<1>4. Current \in Context /\ Current.priv = cpu.priv /\ Current.ie = cpu.ie[cpu.priv]
  BY <1>2 DEF Current, Context
<1>5. saved' = [saved EXCEPT ![cpu'.priv] = {Current}] /\ SavedType
  BY DEF Trap, ContextInv
<1>6. CASE cpu' = TrapToS(cpu)
  <2>1. /\ cpu'.priv = PRV_S /\ ~cpu'.power_down_flag
        /\ cpu'.spp = cpu.priv /\ cpu'.spie = cpu.ie[cpu.priv]
        /\ cpu'.mpp = cpu.mpp /\ cpu'.mpie = cpu.mpie
    BY <1>2, <1>6, TrapToSFields
  <2>2. SavedType' /\ saved'[PRV_S] = {Current} /\ saved'[PRV_M] = saved[PRV_M]
    BY <1>4, <1>5, <2>1, Levels DEF SavedType, Handler
  <2>3. KeptS(cpu, saved[PRV_S])' /\ KeptM(cpu, saved[PRV_M])'
    BY <1>4, <2>1, <2>2 DEF KeptS, KeptM, ContextInv
  <2>4. QED
    BY <1>3, <2>1, <2>2, <2>3 DEF ContextInv, SleepsOnlyWhenIdle
<1>7. CASE cpu' = TrapToM(cpu)
  <2>1. /\ cpu'.priv = PRV_M /\ ~cpu'.power_down_flag
        /\ cpu'.mpp = cpu.priv /\ cpu'.mpie = cpu.ie[cpu.priv]
        /\ cpu'.spp = cpu.spp /\ cpu'.spie = cpu.spie
    BY <1>2, <1>7, TrapToMFields
  <2>2. SavedType' /\ saved'[PRV_M] = {Current} /\ saved'[PRV_S] = saved[PRV_S]
    BY <1>4, <1>5, <2>1, Levels DEF SavedType, Handler
  <2>3. KeptS(cpu, saved[PRV_S])' /\ KeptM(cpu, saved[PRV_M])'
    BY <1>4, <2>1, <2>2 DEF KeptS, KeptM, ContextInv
  <2>4. QED
    BY <1>3, <2>1, <2>2, <2>3 DEF ContextInv, SleepsOnlyWhenIdle
<1>8. QED
  BY <1>1, <1>2, <1>6, <1>7, RaiseCases

\* A step that drops the contexts of some levels and keeps the fields of the
\* others.
LEMMA DropInv ==
  ASSUME ContextInv, cpu' \in Cpu, ~cpu'.power_down_flag,
         NEW levels \in SUBSET Handler,
         saved' = [x \in Handler |-> IF x \in levels THEN {} ELSE saved[x]],
         PRV_S \notin levels => cpu'.spp = cpu.spp /\ cpu'.spie = cpu.spie,
         PRV_M \notin levels => cpu'.mpp = cpu.mpp /\ cpu'.mpie = cpu.mpie
  PROVE  ContextInv'
<1>1. SavedType'
  BY DEF ContextInv, SavedType
<1>2. /\ saved'[PRV_S] = IF PRV_S \in levels THEN {} ELSE saved[PRV_S]
      /\ saved'[PRV_M] = IF PRV_M \in levels THEN {} ELSE saved[PRV_M]
  BY DEF Handler
<1>3. KeptS(cpu, saved[PRV_S])' /\ KeptM(cpu, saved[PRV_M])'
  BY <1>2 DEF KeptS, KeptM, ContextInv
<1>4. QED
  BY <1>1, <1>3 DEF ContextInv, SleepsOnlyWhenIdle

LEMMA ContextNextInv == ContextInv /\ [ContextNext]_contextVars => ContextInv'
<1> SUFFICES ASSUME ContextInv, [ContextNext]_contextVars PROVE ContextInv'
  OBVIOUS
<1>0. cpu \in Cpu /\ SavedType /\ SleepsOnlyWhenIdle
  BY DEF ContextInv
<1>1. CASE Trap
  BY <1>1, TrapInv
<1>2. CASE ReturnToS
  <2>1. cpu' = HandleSret(cpu) /\ ~cpu.power_down_flag
    BY <1>2 DEF ReturnToS, Sret, Executes
  <2>2. /\ cpu' \in Cpu /\ ~cpu'.power_down_flag
        /\ cpu'.mpp = cpu.mpp /\ cpu'.mpie = cpu.mpie
    BY <1>0, <2>1, SretType, ReturnFields
  <2>3. saved' = [x \in Handler |-> IF x \in {PRV_S} THEN {} ELSE saved[x]]
    BY <1>0, <1>2 DEF ReturnToS, SavedType
  <2>4. QED
    BY <2>2, <2>3, DropInv DEF Handler
<1>3. CASE ReturnToM
  <2>1. cpu' = HandleMret(cpu) /\ ~cpu.power_down_flag
    BY <1>3 DEF ReturnToM, Mret, Executes
  <2>2. /\ cpu' \in Cpu /\ ~cpu'.power_down_flag
        /\ cpu'.spp = cpu.spp /\ cpu'.spie = cpu.spie
    BY <1>0, <2>1, MretType, ReturnFields
  <2>3. saved' = [x \in Handler |-> IF x \in {PRV_M} THEN {} ELSE saved[x]]
    BY <1>0, <1>3 DEF ReturnToM, SavedType
  <2>4. QED
    BY <2>2, <2>3, DropInv DEF Handler
<1>4. CASE RewriteM
  <2>1. PICK val \in StatusValues : cpu' = WriteMstatus(cpu, val) /\ ~cpu.power_down_flag
    BY <1>4 DEF RewriteM, CsrMstatus, Executes
  <2>2. cpu' \in Cpu /\ ~cpu'.power_down_flag
    BY <1>0, <2>1, MstatusType, StatusFields, StatusAssumption
  <2>3. saved' = [x \in Handler |-> IF x \in Handler THEN {} ELSE saved[x]]
    BY <1>4 DEF RewriteM
  <2>4. QED
    BY <2>2, <2>3, DropInv DEF Handler
<1>5. CASE RewriteS
  <2>1. PICK val \in StatusValues : cpu' = WriteSstatus(cpu, val) /\ ~cpu.power_down_flag
    BY <1>5 DEF RewriteS, CsrSstatus, Executes
  <2>2. /\ cpu' \in Cpu /\ ~cpu'.power_down_flag
        /\ cpu'.mpp = cpu.mpp /\ cpu'.mpie = cpu.mpie
    BY <1>0, <2>1, SstatusType, StatusFields, StatusAssumption
  <2>3. saved' = [x \in Handler |-> IF x \in {PRV_S} THEN {} ELSE saved[x]]
    BY <1>0, <1>5 DEF RewriteS, SavedType
  <2>4. QED
    BY <2>2, <2>3, DropInv DEF Handler
<1>6. CASE Other
  <2>1. cpu' \in Cpu /\ SameStatus(cpu, cpu') /\ SleepsOnlyWhenIdle'
    BY <1>0, <1>6, OtherStep DEF Other
  <2>2. saved' = saved
    BY <1>6 DEF Other
  <2>3. KeptS(cpu, saved[PRV_S])' /\ KeptM(cpu, saved[PRV_M])'
    BY <2>1, <2>2 DEF KeptS, KeptM, SameStatus, ContextInv
  <2>4. QED
    BY <1>0, <2>1, <2>2, <2>3 DEF ContextInv, SavedType
<1>7. CASE UNCHANGED contextVars
  BY <1>7 DEF contextVars, ContextInv, SavedType, SleepsOnlyWhenIdle, KeptS, KeptM
<1>8. QED
  BY <1>1, <1>2, <1>3, <1>4, <1>5, <1>6, <1>7 DEF ContextNext

LEMMA ContextInvariance == ContextSpec => []ContextInv
BY ContextInitInv, ContextNextInv, PTL DEF ContextSpec

-----------------------------------------------------------------------------
\* The CPU's fields keep their types, whatever StatusValues, GuestInterrupts,
\* GuestExceptions and Lines are.
THEOREM ContextTypeCorrect == ContextSpec => []ContextTypeOK
<1>1. ContextInv => ContextTypeOK
  BY DEF ContextInv, ContextTypeOK, SavedType
<1>2. QED
  BY <1>1, ContextInvariance, PTL

\* mstatus holds the contexts the traps have saved.
THEOREM ContextsStayKept == ContextSpec => []ContextsKept
<1>1. ContextInv => ContextsKept
  BY DEF ContextInv, ContextsKept, KeptS, KeptM
<1>2. QED
  BY <1>1, ContextInvariance, PTL

-----------------------------------------------------------------------------
LEMMA SretUndoes ==
  ASSUME ContextInv, ReturnToS
  PROVE  saved[PRV_S] \subseteq {Current'}
<1>1. SUFFICES ASSUME NEW x \in saved[PRV_S] PROVE x = Current'
  OBVIOUS
<1>2. cpu \in Cpu /\ SavedType /\ KeptS(cpu, saved[PRV_S])
  BY DEF ContextInv
<1>3. x \in Context /\ x.priv = cpu.spp /\ x.ie = cpu.spie
  BY <1>2 DEF SavedType, KeptS, Handler
<1>4. cpu' = HandleSret(cpu) /\ cpu.spp \in Priv /\ cpu.ie \in [Priv -> BOOLEAN]
  BY <1>2, Levels DEF ReturnToS, Sret, Executes, Cpu
<1>5. cpu'.priv = cpu.spp /\ cpu'.ie[cpu'.priv] = cpu.spie
  BY <1>2, <1>4, ReturnFields
<1>6. QED
  BY <1>3, <1>5 DEF Current, Context

LEMMA MretUndoes ==
  ASSUME ContextInv, ReturnToM
  PROVE  saved[PRV_M] \subseteq {Current'}
<1>1. SUFFICES ASSUME NEW x \in saved[PRV_M] PROVE x = Current'
  OBVIOUS
<1>2. cpu \in Cpu /\ SavedType /\ KeptM(cpu, saved[PRV_M])
  BY DEF ContextInv
<1>3. x \in Context /\ x.priv = cpu.mpp /\ x.ie = cpu.mpie
  BY <1>2 DEF SavedType, KeptM, Handler
<1>4. cpu' = HandleMret(cpu) /\ cpu.mpp \in Priv /\ cpu.ie \in [Priv -> BOOLEAN]
  BY <1>2 DEF ReturnToM, Mret, Executes, Cpu
<1>5. cpu'.priv = cpu.mpp /\ cpu'.ie[cpu'.priv] = cpu.mpie
  BY <1>2, <1>4, ReturnFields
<1>6. QED
  BY <1>3, <1>5 DEF Current, Context

\* Returns restore what the matching trap interrupted.
THEOREM ReturnsRestore == ContextSpec => ReturnsUndoTraps
<1>1. ContextInv /\ [ContextNext]_contextVars =>
        [ /\ ReturnToS => saved[PRV_S] \subseteq {Current'}
          /\ ReturnToM => saved[PRV_M] \subseteq {Current'} ]_contextVars
  BY SretUndoes, MretUndoes
<1>2. QED
  BY <1>1, ContextInvariance, PTL DEF ContextSpec, ReturnsUndoTraps

-----------------------------------------------------------------------------
\* The contexts observe the CPU and do not steer it: what is proved of CpuSpec
\* holds of ContextSpec.
THEOREM ContextImplementsCpu == ContextSpec => CpuSpec
<1>1. ContextInit => cpu = CpuInit
  BY DEF ContextInit
<1>2. [ContextNext]_contextVars => [CpuNext]_cpu
  BY DEF ContextNext, contextVars, CpuNext, Trap, ReturnToS, ReturnToM, RewriteM, RewriteS, Other
<1>3. QED
  BY <1>1, <1>2, PTL DEF ContextSpec, CpuSpec

-----------------------------------------------------------------------------
(* Every step of the machine is a step of the CPU or leaves it alone.      *)

\* The steps of the guest, which set and reset no line of a device.
Guest ==
  \/ CsrMstatus \/ CsrSstatus \/ CsrInterrupts
  \/ Sret \/ Mret \/ WaitForInterrupt \/ Exceptional \/ Interrupted

LEMMA DeviceMasks ==
  {MTIP} \in SUBSET Lines /\ {MEIP, SEIP} \in SUBSET Lines
BY DevicesAssumption

LEMMA PlicStep ==
  ASSUME NEW pending, NEW served, PlicUpdateMip(pending, served)
  PROVE  CpuNext
BY DeviceMasks DEF PlicUpdateMip, CpuNext, DeviceSetMip, DeviceResetMip

LEMMA MmioStep ==
  ASSUME Mmio
  PROVE  CpuNext
<1>1. ASSUME NEW val, ClintWriteLow(val) \/ ClintWriteHigh(val)
      PROVE  CpuNext
  BY <1>1, DeviceMasks DEF ClintWriteLow, ClintWriteHigh, CpuNext, DeviceResetMip
<1>2. ASSUME PlicClaim
      PROVE  CpuNext
  BY <1>2, PlicStep DEF PlicClaim
<1>3. ASSUME NEW i, PlicComplete(i) \/ PlicRaise(i) \/ PlicLower(i)
      PROVE  CpuNext
  BY <1>3, PlicStep DEF PlicComplete, PlicRaise, PlicLower
<1>4. QED
  BY <1>1, <1>2, <1>3 DEF Mmio

LEMMA MachineStep ==
  ASSUME [Next]_vars
  PROVE  [CpuNext]_cpu
<1>1. CASE GetSleepDuration
  BY <1>1, DeviceMasks DEF GetSleepDuration, CpuNext, DeviceSetMip
<1>2. CASE PollDevice
  BY <1>2, PlicStep DEF PollDevice, PlicRaise
<1>3. CASE Access
  BY <1>3, MmioStep DEF Access
<1>4. CASE EnterTakingInterrupt \/ BlockInterrupted
  BY <1>4 DEF EnterTakingInterrupt, BlockInterrupted, CpuNext
<1>5. CASE FetchFault \/ Csr \/ Trapping \/ Sleep
  BY <1>5 DEF FetchFault, Csr, Trapping, Sleep, Exceptional, CpuNext
<1>6. CASE \/ StartInterp \/ EndInterp \/ EnterBlocks \/ LeaveBlocks \/ Fetch
           \/ Jump \/ Plain \/ Tick \/ UNCHANGED vars
  BY <1>6 DEF StartInterp, EndInterp, EnterBlocks, LeaveBlocks, Fetch, Jump, Plain, Tick, vars
<1>7. QED
  BY <1>1, <1>2, <1>3, <1>4, <1>5, <1>6 DEF Next, Main

\* For the CPU the machine is one of the environments of RiscvCpu, so it never
\* sleeps over an interrupt, returns from traps to what they interrupted and
\* isolates the machine level: what is proved of CpuSpec holds of Spec.
THEOREM MachineImplementsCpu == Spec => CpuSpec
<1>1. Init => cpu = CpuInit
  BY DEF Init
<1>2. [Next]_vars => [CpuNext]_cpu
  BY MachineStep
<1>3. QED
  BY <1>1, <1>2, PTL DEF Spec, CpuSpec

\* The main loop never waits while there is an interrupt to take.
THEOREM MachineSleepsWhenIdle == Spec => []SleepsOnlyWhenIdle
BY MachineImplementsCpu, NoSleepOverInterrupt, PTL

-----------------------------------------------------------------------------
(* The budget.                                                             *)

\* In a block, what is left of the budget and of the block go down together.
Budget ==
  /\ at \in {"run", "poll", "interp", "block"}
  /\ left \in 0 .. MaxBlock
  /\ at # "block" => left = 0
  /\ cycles \in Int
  /\ cycles <= MaxExec
  /\ cycles > left - MaxBlock

LEMMA BudgetInv == Budget /\ [Next]_vars => Budget'
<1> SUFFICES ASSUME Budget, [Next]_vars PROVE Budget'
  OBVIOUS
<1> USE ExecAssumption
<1>1. CASE GetSleepDuration \/ PollDevice \/ StartInterp \/ EndInterp
  BY <1>1 DEF GetSleepDuration, PollDevice, StartInterp, EndInterp, Budget
<1>2. CASE EnterTakingInterrupt \/ EnterBlocks \/ LeaveBlocks \/ BlockInterrupted
  BY <1>2 DEF EnterTakingInterrupt, EnterBlocks, LeaveBlocks, BlockInterrupted, Budget
<1>3. CASE Fetch \/ FetchFault
  BY <1>3 DEF Fetch, FetchFault, Budget
<1>4. ASSUME Straight
      PROVE  Budget'
  BY <1>4 DEF Straight, Instruction, Budget
<1>5. ASSUME Leaving
      PROVE  Budget'
  BY <1>5 DEF Leaving, Instruction, Budget
<1>6. CASE Jump
  BY <1>6 DEF Jump, Instruction, Budget
<1>7. CASE Plain \/ Access \/ Csr \/ Trapping \/ Sleep
  BY <1>4, <1>5, <1>7 DEF Plain, Access, Csr, Trapping, Sleep
<1>8. CASE Tick \/ UNCHANGED vars
  BY <1>8 DEF Tick, thread, vars, Budget
<1>9. QED
  BY <1>1, <1>2, <1>3, <1>6, <1>7, <1>8 DEF Next, Main

LEMMA BudgetInvariance == Spec => []Budget
<1>1. Init => Budget
  BY ExecAssumption DEF Init, Budget
<1>2. QED
  BY <1>1, BudgetInv, PTL DEF Spec

\* However long the guest's blocks, the interpreter overruns MAX_EXEC_CYCLE by
\* less than one of them.
THEOREM BudgetIsKept == Spec => []BudgetKept
<1>1. Budget => BudgetKept
  BY ExecAssumption DEF Budget, BudgetKept
<1>2. QED
  BY <1>1, BudgetInvariance, PTL

-----------------------------------------------------------------------------
(* The lines of the devices.                                               *)

LEMMA Numbers ==
  /\ MEIP \notin {SSIP, STIP, SEIP} /\ MTIP \notin {SSIP, STIP, SEIP}
  /\ MTIP \notin {MEIP, SEIP} /\ MEIP # MTIP
BY DEF SSIP, STIP, MTIP, SEIP, MEIP

\* The guest reaches neither of the machine's lines: they are in no mask.
LEMMA GuestKeepsLines ==
  ASSUME cpu \in Cpu, Guest
  PROVE  (MEIP \in cpu'.mip <=> MEIP \in cpu.mip) /\ (MTIP \in cpu'.mip <=> MTIP \in cpu.mip)
<1>1. ASSUME cpu'.mip = cpu.mip
      PROVE  (MEIP \in cpu'.mip <=> MEIP \in cpu.mip) /\ (MTIP \in cpu'.mip <=> MTIP \in cpu.mip)
  BY <1>1
<1>2. CASE Exceptional \/ Interrupted
  <2>1. PICK deleg \in BOOLEAN : cpu' = RaiseException(cpu, deleg)
    BY <1>2, TrapStep
  <2>2. cpu'.mip = cpu.mip
    BY <2>1 DEF RaiseException, TrapToS, TrapToM, Cpu
  <2>3. QED
    BY <1>1, <2>2
<1>3. CASE Sret \/ Mret \/ WaitForInterrupt
  <2>1. cpu'.mip = cpu.mip
    BY <1>3 DEF Sret, Mret, WaitForInterrupt, Executes, HandleSret, HandleMret, Wfi, Cpu
  <2>2. QED
    BY <1>1, <2>1
<1>4. CASE CsrMstatus \/ CsrSstatus
  <2>1. cpu'.mip = cpu.mip
    BY <1>4 DEF CsrMstatus, CsrSstatus, Executes, WriteMstatus, WriteSstatus, Cpu
  <2>2. QED
    BY <1>1, <2>1
<1>5. CASE CsrMie \/ CsrSie \/ CsrMideleg \/ CsrMedeleg
  <2>1. cpu'.mip = cpu.mip
    BY <1>5 DEF CsrMie, CsrSie, CsrMideleg, CsrMedeleg, Executes, WriteMie, WriteSie,
       WriteMideleg, WriteMedeleg, Cpu
  <2>2. QED
    BY <1>1, <2>1
<1>6. CASE CsrMip \/ CsrSip
  <2>1. PICK val, mask :
          mask \subseteq {SSIP, STIP, SEIP} /\ cpu'.mip = Masked(cpu.mip, val, mask)
    BY <1>6 DEF CsrMip, CsrSip, Executes, WriteMip, WriteSip, Cpu
  <2>2. QED
    BY <2>1, Numbers DEF Masked
<1>7. QED
  BY <1>2, <1>3, <1>4, <1>5, <1>6 DEF Guest, CsrInterrupts

\* What Next does: an update of the PLIC, a write of timecmp, the main loop's
\* look at the timer, a step of the guest that leaves both devices alone, a tick
\* or a step of the thread alone.
LEMMA StepCases ==
  ASSUME [Next]_vars
  PROVE  \/ GetSleepDuration
         \/ \E val \in 0 .. Half - 1 : ClintWriteLow(val) \/ ClintWriteHigh(val)
         \/ PlicClaim \/ \E i \in Irqs : PlicComplete(i) \/ PlicRaise(i) \/ PlicLower(i)
         \/ Guest /\ UNCHANGED <<clint, plic>>
         \/ Tick
         \/ UNCHANGED <<cpu, clint, plic>>
<1>1. CASE Main
  BY <1>1 DEF Main, PollDevice, StartInterp, EndInterp, EnterTakingInterrupt, EnterBlocks,
     LeaveBlocks, BlockInterrupted, Fetch, FetchFault, Jump, Plain, Access, Mmio, Csr,
     Trapping, Sleep, Guest, Exceptional
<1>2. QED
  BY <1>1 DEF Next, vars

LEMMA SetAndReset ==
  ASSUME NEW c \in Cpu, NEW mask
  PROVE  SetMip(c, mask).mip = c.mip \cup mask /\ ResetMip(c, mask).mip = c.mip \ mask
BY DEF SetMip, ResetMip, Cpu

\* Auxiliary: the type of the PLIC, and its line.
Plic ==
  /\ plic_pending_irq \subseteq Irqs
  /\ plic_served_irq \subseteq Irqs
  /\ ExternalInterruptLine

LEMMA ClaimedIsIrq ==
  ASSUME plic_pending_irq \subseteq Irqs, plic_pending_irq \ plic_served_irq # {}
  PROVE  Min(plic_pending_irq \ plic_served_irq) \in Irqs
<1>1. plic_pending_irq \ plic_served_irq \in SUBSET Nat
  <2>1. \A i \in 1 .. 32 : i \in Nat
    OBVIOUS
  <2>2. QED
    BY <2>1, IrqsAssumption
<1>2. QED
  BY <1>1, MinInSet

LEMMA UpdateMipLine ==
  ASSUME cpu \in Cpu, NEW pending \in SUBSET Irqs, NEW served \in SUBSET Irqs,
         PlicUpdateMip(pending, served)
  PROVE  Plic'
<1>1. plic_pending_irq' = pending /\ plic_served_irq' = served
  BY DEF PlicUpdateMip
<1>2. CASE pending \ served # {}
  <2>1. cpu'.mip = cpu.mip \cup {MEIP, SEIP}
    BY <1>2, SetAndReset DEF PlicUpdateMip
  <2>2. QED
    BY <1>1, <1>2, <2>1 DEF Plic, ExternalInterruptLine
<1>3. CASE pending \ served = {}
  <2>1. cpu'.mip = cpu.mip \ {MEIP, SEIP}
    BY <1>3, SetAndReset DEF PlicUpdateMip
  <2>2. QED
    BY <1>1, <1>3, <2>1 DEF Plic, ExternalInterruptLine
<1>4. QED
  BY <1>2, <1>3

LEMMA PlicInv == CpuInv /\ Plic /\ [Next]_vars => Plic'
<1> SUFFICES ASSUME CpuInv, Plic, [Next]_vars PROVE Plic'
  OBVIOUS
<1>0. cpu \in Cpu /\ plic_pending_irq \in SUBSET Irqs /\ plic_served_irq \in SUBSET Irqs
  BY DEF CpuInv, Plic
<1>1. ASSUME cpu'.mip = cpu.mip \/ (MEIP \in cpu'.mip <=> MEIP \in cpu.mip), UNCHANGED plic
      PROVE  Plic'
  BY <1>1 DEF Plic, plic, ExternalInterruptLine
<1>2. CASE GetSleepDuration
  <2>1. MEIP \in cpu'.mip <=> MEIP \in cpu.mip
    BY <1>0, <1>2, SetAndReset, Numbers DEF GetSleepDuration
  <2>2. QED
    BY <1>1, <1>2, <2>1 DEF GetSleepDuration
<1>3. CASE \E val \in 0 .. Half - 1 : ClintWriteLow(val) \/ ClintWriteHigh(val)
  <2>1. cpu' = ResetMip(cpu, {MTIP}) /\ UNCHANGED plic
    BY <1>3 DEF ClintWriteLow, ClintWriteHigh
  <2>2. MEIP \in cpu'.mip <=> MEIP \in cpu.mip
    BY <1>0, <2>1, SetAndReset, Numbers
  <2>3. QED
    BY <1>1, <2>1, <2>2
<1>4. CASE PlicClaim
  <2> DEFINE i == Min(plic_pending_irq \ plic_served_irq)
  <2>1. PlicUpdateMip(plic_pending_irq, plic_served_irq \cup {i})
    BY <1>4 DEF PlicClaim
  <2>2. i \in Irqs
    BY <1>0, <1>4, ClaimedIsIrq DEF PlicClaim
  <2> HIDE DEF i
  <2>3. plic_served_irq \cup {i} \in SUBSET Irqs
    BY <1>0, <2>2
  <2>4. QED
    BY <1>0, <2>1, <2>3, UpdateMipLine
<1>5. CASE \E i \in Irqs : PlicComplete(i) \/ PlicRaise(i) \/ PlicLower(i)
  <2>1. PICK i \in Irqs : PlicComplete(i) \/ PlicRaise(i) \/ PlicLower(i)
    BY <1>5
  <2>2. PICK pending \in SUBSET Irqs, served \in SUBSET Irqs : PlicUpdateMip(pending, served)
    <3>1. plic_pending_irq \cup {i} \in SUBSET Irqs /\ plic_pending_irq \ {i} \in SUBSET Irqs
      BY <1>0
    <3>2. plic_served_irq \ {i} \in SUBSET Irqs
      BY <1>0
    <3>3. QED
      BY <1>0, <2>1, <3>1, <3>2 DEF PlicComplete, PlicRaise, PlicLower
  <2>3. QED
    BY <1>0, <2>2, UpdateMipLine
<1>6. CASE Guest /\ UNCHANGED <<clint, plic>>
  BY <1>0, <1>1, <1>6, GuestKeepsLines
<1>7. CASE Tick \/ UNCHANGED <<cpu, clint, plic>>
  BY <1>1, <1>7 DEF Tick
<1>8. QED
  BY <1>2, <1>3, <1>4, <1>5, <1>6, <1>7, StepCases

LEMMA CpuInvHere == Spec => []CpuInv
BY MachineImplementsCpu, CpuInvariance, PTL

LEMMA PlicInvariance == Spec => []Plic
<1>1. Init => Plic
  BY DEF Init, Plic, ExternalInterruptLine, CpuInit
<1>2. QED
  BY <1>1, PlicInv, CpuInvHere, PTL DEF Spec

\* The external interrupt is pending exactly while the PLIC has a source for it.
THEOREM ExternalLineFollowsPlic == Spec => []ExternalInterruptLine
<1>1. Plic => ExternalInterruptLine
  BY DEF Plic
<1>2. QED
  BY <1>1, PlicInvariance, PTL

-----------------------------------------------------------------------------
(* The timer.                                                              *)

\* The two halves of a number below Half * Half.
LEMMA Halves ==
  ASSUME NEW lo \in 0 .. Half - 1, NEW hi \in 0 .. Half - 1
  PROVE  Half * hi + lo \in 0 .. Half * Half - 1
<1>1. Half \in Nat /\ Half > 1
  BY HalfAssumption
<1>2. Half * hi \in Nat /\ Half * hi <= Half * (Half - 1)
  BY <1>1
<1>3. Half * (Half - 1) = Half * Half - Half
  BY <1>1
<1>4. Half * Half \in Nat
  BY <1>1
<1> DEFINE h == Half * hi
           n == Half * Half
<1>5. h \in Nat /\ h <= n - Half /\ n \in Nat
  BY <1>2, <1>3, <1>4
<1> HIDE DEF h, n
<1>6. h + lo \in 0 .. n - 1
  BY <1>1, <1>5
<1>7. QED
  BY <1>6 DEF h, n

LEMMA QuotientRange ==
  ASSUME NEW x \in 0 .. Half * Half - 1
  PROVE  x \div Half \in 0 .. Half - 1 /\ x % Half \in 0 .. Half - 1
<1> DEFINE q == x \div Half
           r == x % Half
<1>1. Half \in Nat /\ Half > 1
  BY HalfAssumption
<1>2. x \in Nat /\ x < Half * Half
  BY <1>1
<1>3. q \in Int /\ r \in 0 .. Half - 1 /\ x = Half * q + r
  BY <1>1, <1>2
<1> HIDE DEF q, r
<1>4. q >= 0
  <2>1. SUFFICES ASSUME q <= -1 PROVE FALSE
    BY <1>3
  <2>2. Half * q <= Half * (-1)
    BY <1>1, <1>3, <2>1
  <2>3. QED
    BY <1>1, <1>2, <1>3, <2>2
<1>5. q <= Half - 1
  <2>1. SUFFICES ASSUME q >= Half PROVE FALSE
    BY <1>1, <1>3
  <2>2. Half * q >= Half * Half
    BY <1>1, <1>3, <2>1
  <2>3. QED
    BY <1>1, <1>2, <1>3, <2>2
<1>6. QED
  BY <1>1, <1>3, <1>4, <1>5 DEF q, r

Timer ==
  /\ timecmp \in 0 .. Half * Half - 1
  /\ time \in 0 .. MaxTime
  /\ TimerPendingOnlyWhenDue

\* The signed comparison takes for past what is reached or beyond 2^63.
LEMMA DueMeaning ==
  ASSUME timecmp \in 0 .. Half * Half - 1, time \in 0 .. MaxTime, Due
  PROVE  time >= timecmp \/ timecmp >= Half * (Half \div 2)
<1> DEFINE n == Half * Half
           k == Half * (Half \div 2)
           delay == (timecmp - time) % n
<1>1. Half \in Nat /\ Half > 1 /\ MaxTime \in Nat
  BY HalfAssumption, TimeAssumption
<1>2. n \in Nat /\ n > 0
  <2>1. Half * Half > Half * 0
    BY <1>1
  <2>2. QED
    BY <1>1, <2>1
<1>3. k \in Nat
  BY <1>1
<1>4. delay = 0 \/ delay >= k
  BY DEF Due
<1>5. SUFFICES ASSUME time < timecmp, timecmp < k PROVE FALSE
  BY <1>1, <1>2, <1>3
<1>6. timecmp - time \in 1 .. n - 1 /\ timecmp - time <= timecmp
  BY <1>1, <1>2, <1>5
<1> HIDE DEF n, k
<1>7. \A x \in 1 .. n - 1 : x % n = x
  BY <1>2
<1>8. delay = timecmp - time
  BY <1>6, <1>7
<1>9. QED
  BY <1>1, <1>3, <1>4, <1>5, <1>6, <1>8

LEMMA TimerInv == CpuInv /\ Timer /\ [Next]_vars => Timer'
<1> SUFFICES ASSUME CpuInv, Timer, [Next]_vars PROVE Timer'
  OBVIOUS
<1>0. cpu \in Cpu /\ timecmp \in 0 .. Half * Half - 1 /\ time \in 0 .. MaxTime
  BY DEF CpuInv, Timer
<1>1. ASSUME MTIP \in cpu'.mip => MTIP \in cpu.mip, UNCHANGED clint
      PROVE  Timer'
  BY <1>1 DEF Timer, clint, TimerPendingOnlyWhenDue
<1>2. CASE GetSleepDuration
  <2>1. CASE MTIP \notin cpu.mip /\ Due
    BY <1>0, <1>2, <2>1, DueMeaning DEF GetSleepDuration, clint, Timer, TimerPendingOnlyWhenDue
  <2>2. CASE ~(MTIP \notin cpu.mip /\ Due)
    BY <1>1, <1>2, <2>2 DEF GetSleepDuration
  <2>3. QED
    BY <2>1, <2>2
<1>3. CASE \E val \in 0 .. Half - 1 : ClintWriteLow(val) \/ ClintWriteHigh(val)
  <2>1. PICK val \in 0 .. Half - 1 : ClintWriteLow(val) \/ ClintWriteHigh(val)
    BY <1>3
  <2>2. cpu' = ResetMip(cpu, {MTIP}) /\ time' = time
    BY <2>1 DEF ClintWriteLow, ClintWriteHigh
  <2>3. MTIP \notin cpu'.mip
    BY <1>0, <2>2, SetAndReset
  <2>4. timecmp' \in 0 .. Half * Half - 1
    <3>1. timecmp \div Half \in 0 .. Half - 1 /\ timecmp % Half \in 0 .. Half - 1
      BY <1>0, QuotientRange
    <3>2. CASE ClintWriteLow(val)
      BY <3>1, <3>2, Halves DEF ClintWriteLow
    <3>3. CASE ClintWriteHigh(val)
      BY <3>1, <3>3, Halves DEF ClintWriteHigh
    <3>4. QED
      BY <2>1, <3>2, <3>3
  <2>5. QED
    BY <1>0, <2>2, <2>3, <2>4 DEF Timer, TimerPendingOnlyWhenDue
<1>4. CASE PlicClaim \/ \E i \in Irqs : PlicComplete(i) \/ PlicRaise(i) \/ PlicLower(i)
  <2>1. PICK pending, served : PlicUpdateMip(pending, served)
    BY <1>4 DEF PlicClaim, PlicComplete, PlicRaise, PlicLower
  <2>2. /\ cpu' = SetMip(cpu, {MEIP, SEIP}) \/ cpu' = ResetMip(cpu, {MEIP, SEIP})
        /\ UNCHANGED clint
    BY <2>1 DEF PlicUpdateMip
  <2>3. MTIP \in cpu'.mip => MTIP \in cpu.mip
    BY <1>0, <2>2, SetAndReset, Numbers
  <2>4. QED
    BY <1>1, <2>2, <2>3
<1>5. CASE Guest /\ UNCHANGED <<clint, plic>>
  BY <1>0, <1>1, <1>5, GuestKeepsLines
<1>6. CASE Tick
  <2>1. /\ cpu' = cpu /\ timecmp' = timecmp
        /\ time' = time + 1 /\ time' \in 0 .. MaxTime
    BY <1>0, <1>6, TimeAssumption DEF Tick
  <2>2. Half * Half \in Nat
    BY HalfAssumption
  <2>3. time \in Nat /\ timecmp \in Nat
    BY <1>0, <2>2, TimeAssumption
  <2>4. QED
    BY <1>0, <2>1, <2>3 DEF Timer, TimerPendingOnlyWhenDue
<1>7. CASE UNCHANGED <<cpu, clint, plic>>
  BY <1>1, <1>7
<1>8. QED
  BY <1>2, <1>3, <1>4, <1>5, <1>6, <1>7, StepCases

LEMMA TimerInvariance == Spec => []Timer
<1>1. Init => Timer
  <2>1. Half * Half > 0 /\ Half * Half \in Nat
    <3>1. Half \in Nat /\ Half > 0
      BY HalfAssumption
    <3>2. Half * Half > Half * 0
      BY <3>1
    <3>3. QED
      BY <3>1, <3>2
  <2>2. QED
    BY <2>1, TimeAssumption DEF Init, Timer, TimerPendingOnlyWhenDue, CpuInit
<1>2. QED
  BY <1>1, TimerInv, CpuInvHere, PTL DEF Spec

\* No timer interrupt outlives a write of either half of timecmp.
THEOREM NoStaleTimerInterrupt == Spec => []TimerPendingOnlyWhenDue
<1>1. Timer => TimerPendingOnlyWhenDue
  BY DEF Timer
<1>2. QED
  BY <1>1, TimerInvariance, PTL

\* The machine's state keeps its types.
THEOREM MachineTypeCorrect == Spec => []TypeOK
<1>1. CpuInv /\ Plic /\ Timer /\ Budget => TypeOK
  BY ExecAssumption DEF CpuInv, Plic, Timer, Budget, TypeOK
<1>2. QED
  BY <1>1, CpuInvHere, PlicInvariance, TimerInvariance, BudgetInvariance, PTL
=============================================================================
