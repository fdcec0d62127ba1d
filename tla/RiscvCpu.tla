------------------------------ MODULE RiscvCpu ------------------------------
(***************************************************************************)
(* The RISC-V CPU run by any software: its privilege levels, interrupts    *)
(* and exceptions (lib/tinyemu/riscv_cpu.c), then one action per           *)
(* privileged instruction (lib/tinyemu/riscv_cpu_template.h), whatever the *)
(* guest executes at whatever level, the interrupts it takes between two   *)
(* instructions, and the devices that set and reset bits of mip.           *)
(*                                                                         *)
(* The RISCVCPUState is a record of what decides them:                     *)
(*   priv                     the privilege level                          *)
(*   ie                       UIE, SIE, HIE and MIE of mstatus, by level   *)
(*   spie, spp, mpie, mpp     the other fields of mstatus                  *)
(*   mip, mie, mideleg        sets of interrupt numbers                    *)
(*   medeleg                  a set of exception causes                    *)
(*   power_down_flag          the CPU sleeps in a wfi                      *)
(* The program counter and the epc, cause and tval registers are left out. *)
(***************************************************************************)
EXTENDS Integers, FiniteSetsExt

PRV_U == 0
PRV_S == 1
PRV_H == 2
PRV_M == 3
Priv  == PRV_U .. PRV_M

SSIP == 1
MSIP == 3
STIP == 5
MTIP == 7
SEIP == 9
MEIP == 11

Interrupt == {SSIP, MSIP, STIP, MTIP, SEIP, MEIP}

CAUSE_ILLEGAL_INSTRUCTION == 2
CAUSE_USER_ECALL == 8
CAUSE_FETCH_PAGE_FAULT == 12
Exception == 0 .. 15

CpuInit ==
  [priv |-> PRV_M, ie |-> [l \in Priv |-> FALSE],
   spie |-> FALSE, spp |-> PRV_U, mpie |-> FALSE, mpp |-> PRV_U,
   mip |-> {}, mie |-> {}, mideleg |-> {}, medeleg |-> {},
   power_down_flag |-> FALSE]

-----------------------------------------------------------------------------
\* Faulty: a sleeping CPU is not woken.
SetMipNoWakeup(cpu, mask) == [cpu EXCEPT !.mip = @ \cup mask]

\* riscv_cpu_set_mip: leaves power down if an enabled interrupt is pending.
SetMip(cpu, mask) ==
  [cpu EXCEPT !.mip = @ \cup mask,
              !.power_down_flag = @ /\ (cpu.mip \cup mask) \cap cpu.mie = {}]

ResetMip(cpu, mask) == [cpu EXCEPT !.mip = @ \ mask]

\* Faulty: machine mode can be interrupted for the supervisor.
PendingIrqMaskAnyLevel(cpu) ==
  {i \in cpu.mip \cap cpu.mie : cpu.priv \in {PRV_M, PRV_S} => cpu.ie[cpu.priv]}

\* get_pending_irq_mask: the pending interrupts the level lets through.
PendingIrqMask(cpu) ==
  {i \in cpu.mip \cap cpu.mie :
     /\ cpu.priv = PRV_M => cpu.ie[PRV_M] /\ i \notin cpu.mideleg
     /\ cpu.priv = PRV_S => cpu.ie[PRV_S] \/ i \notin cpu.mideleg}

\* raise_exception2, when the supervisor takes the trap and when it does not.
TrapToS(cpu) ==
  [cpu EXCEPT !.spie = cpu.ie[cpu.priv], !.spp = cpu.priv,
              !.ie[PRV_S] = FALSE, !.priv = PRV_S]

\* Faulty: the trap leaves the interrupts enabled.
TrapToMUnmasked(cpu) ==
  [cpu EXCEPT !.mpie = cpu.ie[cpu.priv], !.mpp = cpu.priv, !.priv = PRV_M]

TrapToM(cpu) ==
  [cpu EXCEPT !.mpie = cpu.ie[cpu.priv], !.mpp = cpu.priv,
              !.ie[PRV_M] = FALSE, !.priv = PRV_M]

\* Only traps of the user and the supervisor are delegated.
RaiseException(cpu, deleg) ==
  IF cpu.priv <= PRV_S /\ deleg THEN TrapToS(cpu) ELSE TrapToM(cpu)

\* raise_interrupt takes the pending interrupt of the lowest number.
TakeInterrupt(cpu) ==
  RaiseException(cpu, Min(PendingIrqMask(cpu)) \in cpu.mideleg)

TakeException(cpu, cause) == RaiseException(cpu, cause \in cpu.medeleg)

\* Faulty: sret leaves SIE off.
HandleSretMasked(cpu) ==
  [cpu EXCEPT !.spie = TRUE, !.spp = PRV_U, !.priv = cpu.spp]

HandleSret(cpu) ==
  [cpu EXCEPT !.ie[cpu.spp] = cpu.spie, !.spie = TRUE, !.spp = PRV_U, !.priv = cpu.spp]

HandleMret(cpu) ==
  [cpu EXCEPT !.ie[cpu.mpp] = cpu.mpie, !.mpie = TRUE, !.mpp = PRV_U, !.priv = cpu.mpp]

\* wfi sleeps only when no enabled interrupt is pending.
Wfi(cpu) == [cpu EXCEPT !.power_down_flag = @ \/ cpu.mip \cap cpu.mie = {}]

-----------------------------------------------------------------------------
(***************************************************************************)
(* csr_write: each register takes the writable bits of the value.          *)
(***************************************************************************)

Masked(old, val, mask) == (old \ mask) \cup (val \cap mask)

\* A value of mstatus, without HIE, which no write reaches; mpp keeps any of
\* its four values.
Mstatus == [ie : [{PRV_U, PRV_S, PRV_M} -> BOOLEAN],
            spie : BOOLEAN, spp : {PRV_U, PRV_S}, mpie : BOOLEAN, mpp : Priv]

WriteMstatus(cpu, val) ==
  [cpu EXCEPT !.ie = [l \in Priv |-> IF l = PRV_H THEN cpu.ie[l] ELSE val.ie[l]],
              !.spie = val.spie, !.spp = val.spp, !.mpie = val.mpie, !.mpp = val.mpp]

\* Through sstatus the supervisor reaches only its own fields and UIE.
WriteSstatus(cpu, val) ==
  [cpu EXCEPT !.ie = [l \in Priv |-> IF l \in {PRV_U, PRV_S} THEN val.ie[l] ELSE cpu.ie[l]],
              !.spie = val.spie, !.spp = val.spp]

WriteMie(cpu, val) ==
  [cpu EXCEPT !.mie = Masked(@, val, {MSIP, MTIP, SSIP, STIP, SEIP})]

WriteSie(cpu, val) == [cpu EXCEPT !.mie = Masked(@, val, cpu.mideleg)]

WriteMip(cpu, val) == [cpu EXCEPT !.mip = Masked(@, val, {SSIP, STIP})]

WriteSip(cpu, val) == [cpu EXCEPT !.mip = Masked(@, val, cpu.mideleg)]

WriteMideleg(cpu, val) ==
  [cpu EXCEPT !.mideleg = Masked(@, val, {SSIP, STIP, SEIP})]

WriteMedeleg(cpu, val) == [cpu EXCEPT !.medeleg = Masked(@, val, Exception)]

-----------------------------------------------------------------------------
Cpu ==
  [priv : Priv, ie : [Priv -> BOOLEAN],
   spie : BOOLEAN, spp : {PRV_U, PRV_S}, mpie : BOOLEAN, mpp : Priv,
   mip : SUBSET Interrupt, mie : SUBSET (Interrupt \ {MEIP}),
   mideleg : SUBSET {SSIP, STIP, SEIP}, medeleg : SUBSET Exception,
   power_down_flag : BOOLEAN]

-----------------------------------------------------------------------------
(***************************************************************************)
(* The CPU under any software.                                             *)
(***************************************************************************)

CONSTANTS
  StatusValues,     \* the values the guest writes to mstatus and sstatus
  GuestInterrupts,  \* the interrupt numbers in what it writes to the others
  GuestExceptions,  \* the causes of the exceptions its instructions raise
  Lines             \* the interrupts that devices set and reset

ASSUME StatusAssumption == StatusValues \subseteq Mstatus
ASSUME InterruptsAssumption == GuestInterrupts \subseteq Interrupt
ASSUME ExceptionsAssumption == GuestExceptions \subseteq Exception
ASSUME LinesAssumption == Lines \subseteq Interrupt

VARIABLE cpu

-----------------------------------------------------------------------------
\* An instruction that needs the given level and leaves the CPU in the state c.
Executes(level, c) ==
  /\ ~cpu.power_down_flag
  /\ cpu.priv >= level
  /\ cpu' = c

CsrMstatus == \E val \in StatusValues : Executes(PRV_M, WriteMstatus(cpu, val))

CsrSstatus == \E val \in StatusValues : Executes(PRV_S, WriteSstatus(cpu, val))

CsrMie == \E val \in SUBSET GuestInterrupts : Executes(PRV_M, WriteMie(cpu, val))

CsrSie == \E val \in SUBSET GuestInterrupts : Executes(PRV_S, WriteSie(cpu, val))

CsrMip == \E val \in SUBSET GuestInterrupts : Executes(PRV_M, WriteMip(cpu, val))

CsrSip == \E val \in SUBSET GuestInterrupts : Executes(PRV_S, WriteSip(cpu, val))

CsrMideleg ==
  \E val \in SUBSET GuestInterrupts : Executes(PRV_M, WriteMideleg(cpu, val))

CsrMedeleg ==
  \E val \in SUBSET GuestExceptions : Executes(PRV_M, WriteMedeleg(cpu, val))

CsrInterrupts == CsrMie \/ CsrSie \/ CsrMip \/ CsrSip \/ CsrMideleg \/ CsrMedeleg

Sret == Executes(PRV_S, HandleSret(cpu))

Mret == Executes(PRV_M, HandleMret(cpu))

WaitForInterrupt == Executes(PRV_S, Wfi(cpu))

Ecall == Executes(PRV_U, TakeException(cpu, CAUSE_USER_ECALL + cpu.priv))

\* No instruction, or one of a level above the CPU's.
IllegalInstruction == Executes(PRV_U, TakeException(cpu, CAUSE_ILLEGAL_INSTRUCTION))

\* Any other instruction that faults; one that does not changes nothing here.
Fault == \E cause \in GuestExceptions : Executes(PRV_U, TakeException(cpu, cause))

Exceptional == Ecall \/ IllegalInstruction \/ Fault

\* riscv_cpu_interp, at its entry or between two blocks of instructions.
Interrupted ==
  /\ ~cpu.power_down_flag
  /\ PendingIrqMask(cpu) # {}
  /\ cpu' = TakeInterrupt(cpu)

DeviceSetMip == \E mask \in SUBSET Lines : cpu' = SetMip(cpu, mask)

DeviceResetMip == \E mask \in SUBSET Lines : cpu' = ResetMip(cpu, mask)

CpuNext ==
  \/ CsrMstatus \/ CsrSstatus \/ CsrInterrupts
  \/ Sret \/ Mret \/ WaitForInterrupt \/ Exceptional
  \/ Interrupted \/ DeviceSetMip \/ DeviceResetMip

CpuSpec == cpu = CpuInit /\ [][CpuNext]_cpu

-----------------------------------------------------------------------------
\* A CPU that wfi put to sleep is woken by every interrupt it has enabled, so
\* the main loop never waits while there is one to take.
SleepsOnlyWhenIdle == cpu.power_down_flag => cpu.mip \cap cpu.mie = {}

\* What the machine level relies on.
MachineStateOf(c) ==
  [mie |-> c.ie[PRV_M], mpie |-> c.mpie, mpp |-> c.mpp,
   mideleg |-> c.mideleg, medeleg |-> c.medeleg,
   enabled |-> c.mie \ c.mideleg, pending |-> c.mip \ c.mideleg]

\* Of the steps the guest takes below the machine level, only a trap to it
\* changes its enable, its saved context, the delegations or an interrupt that
\* is not delegated.
MachineStateIsolated ==
  [][ \/ cpu'.priv = PRV_M
      \/ cpu.priv = PRV_M
      \/ DeviceSetMip
      \/ DeviceResetMip
      \/ MachineStateOf(cpu') = MachineStateOf(cpu) ]_cpu

\* An interrupt never lowers the privilege: it is taken at the same level only
\* where that level has it enabled, by the supervisor exactly when it is
\* delegated and found the CPU no higher, and then no other at that level.
InterruptsRespectEnables ==
  [][ Interrupted =>
        LET i == Min(PendingIrqMask(cpu))
        IN /\ i \in cpu.mip \cap cpu.mie
           /\ cpu'.priv >= cpu.priv
           /\ cpu'.priv = cpu.priv => cpu.ie[cpu.priv]
           /\ cpu.priv = PRV_M => i \notin cpu.mideleg
           /\ cpu'.priv = PRV_S <=> i \in cpu.mideleg /\ cpu.priv <= PRV_S
           /\ ~cpu'.ie[cpu'.priv] ]_cpu
=============================================================================
