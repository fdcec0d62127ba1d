---------------------------- MODULE RiscvMachine ----------------------------
(***************************************************************************)
(* The machine around the CPU of RiscvCpu: the CLINT timer and the PLIC    *)
(* (lib/tinyemu/riscv_machine.c), and the main loop (virt_machine_run,     *)
(* src/temu.c) that raises the timer interrupt, lets the devices act and   *)
(* interprets a budget of instructions in blocks, between which, and only  *)
(* there, interrupts are taken and the budget is looked at.                *)
(***************************************************************************)
EXTENDS RiscvCpu

CONSTANTS
  Half,       \* one more than a 32-bit half of timecmp holds (2^32)
  MaxTime,    \* the last time of the RTC that is explored
  Irqs,       \* the PLIC's interrupt sources
  MaxExec,    \* MAX_EXEC_CYCLE: the budget of one riscv_cpu_interp
  MaxBlock    \* the most instructions up to the end of a code page

ASSUME HalfAssumption == Half \in Nat /\ Half > 1 /\ (Half % 2) = 0
\* The machine is up for less than 2^63 ticks.
ASSUME TimeAssumption == MaxTime \in Nat /\ MaxTime < Half * (Half \div 2)
ASSUME IrqsAssumption == Irqs \subseteq 1..32
ASSUME ExecAssumption == MaxExec \in Nat \ {0} /\ MaxBlock \in Nat \ {0}
ASSUME DevicesAssumption == {MTIP, SEIP, MEIP} \subseteq Lines

VARIABLES
  timecmp, time,                        \* CLINT, and the RTC it compares with
  plic_pending_irq, plic_served_irq,
  at,       \* where the main thread is
  cycles,   \* what is left of the budget
  left      \* the instructions left in the block being interpreted

plic == <<plic_pending_irq, plic_served_irq>>
clint == <<timecmp, time>>
thread == <<at, cycles, left>>
vars == <<cpu, clint, plic, thread>>

Init ==
  /\ cpu = CpuInit
  /\ timecmp = 0 /\ time = 0
  /\ plic_pending_irq = {} /\ plic_served_irq = {}
  /\ at = "run" /\ cycles = 0 /\ left = 0

-----------------------------------------------------------------------------
\* get_sleep_duration: the 64-bit difference, read as signed, is not positive.
Due ==
  LET delay == (timecmp - time) % (Half * Half)
  IN delay = 0 \/ delay >= Half * (Half \div 2)

\* Faulty: only the write of the high half clears the timer interrupt.
ClintWriteLowKeepsMtip(val) ==
  /\ timecmp' = Half * (timecmp \div Half) + val
  /\ UNCHANGED <<cpu, time, plic>>

ClintWriteLow(val) ==
  /\ timecmp' = Half * (timecmp \div Half) + val
  /\ cpu' = ResetMip(cpu, {MTIP})
  /\ UNCHANGED <<time, plic>>

ClintWriteHigh(val) ==
  /\ timecmp' = Half * val + (timecmp % Half)
  /\ cpu' = ResetMip(cpu, {MTIP})
  /\ UNCHANGED <<time, plic>>

\* plic_update_mip, for new pending and served sources.
PlicUpdateMip(pending, served) ==
  /\ plic_pending_irq' = pending
  /\ plic_served_irq' = served
  /\ cpu' = IF pending \ served # {} THEN SetMip(cpu, {MEIP, SEIP})
            ELSE ResetMip(cpu, {MEIP, SEIP})
  /\ UNCHANGED clint

\* Faulty: claiming the only source leaves the interrupt pending.
PlicClaimNoUpdate ==
  /\ plic_pending_irq \ plic_served_irq # {}
  /\ plic_served_irq' =
       plic_served_irq \cup {Min(plic_pending_irq \ plic_served_irq)}
  /\ UNCHANGED <<cpu, clint, plic_pending_irq>>

\* plic_read of the claim register; it changes nothing when nothing is pending.
PlicClaim ==
  /\ plic_pending_irq \ plic_served_irq # {}
  /\ PlicUpdateMip(plic_pending_irq,
       plic_served_irq \cup {Min(plic_pending_irq \ plic_served_irq)})

\* plic_write of the same register, for any source.
PlicComplete(i) == PlicUpdateMip(plic_pending_irq, plic_served_irq \ {i})

\* A device drives its line: from the main loop only up, when input arrives;
\* from an access of the guest up or down.
PlicRaise(i) == PlicUpdateMip(plic_pending_irq \cup {i}, plic_served_irq)

PlicLower(i) == PlicUpdateMip(plic_pending_irq \ {i}, plic_served_irq)

Mmio ==
  \/ \E val \in 0 .. Half - 1 : ClintWriteLow(val) \/ ClintWriteHigh(val)
  \/ PlicClaim
  \/ \E i \in Irqs : PlicComplete(i) \/ PlicRaise(i) \/ PlicLower(i)

-----------------------------------------------------------------------------
\* Faulty: the timer is looked at only to know how long to sleep.
GetSleepDurationAsleep ==
  /\ at = "run"
  /\ cpu' = IF cpu.power_down_flag /\ MTIP \notin cpu.mip /\ Due THEN SetMip(cpu, {MTIP})
            ELSE cpu
  /\ at' = "poll"
  /\ UNCHANGED <<clint, plic, cycles, left>>

\* virt_machine_run: the timer interrupt is raised here and nowhere else.
GetSleepDuration ==
  /\ at = "run"
  /\ cpu' = IF MTIP \notin cpu.mip /\ Due THEN SetMip(cpu, {MTIP}) ELSE cpu
  /\ at' = "poll"
  /\ UNCHANGED <<clint, plic, cycles, left>>

\* select and what follows it: input raises the lines of devices.
PollDevice ==
  /\ at = "poll"
  /\ \E i \in Irqs : PlicRaise(i)
  /\ at' = "poll"
  /\ UNCHANGED <<cycles, left>>

StartInterp ==
  /\ at = "poll"
  /\ at' = "interp"
  /\ cycles' = MaxExec
  /\ UNCHANGED <<cpu, clint, plic, left>>

-----------------------------------------------------------------------------
\* riscv_cpu_interp returns with the budget used up or the CPU asleep.
EndInterp ==
  /\ at = "interp"
  /\ cpu.power_down_flag \/ cycles <= 0
  /\ at' = "run" /\ cycles' = 0
  /\ UNCHANGED <<cpu, clint, plic, left>>

\* The entry of riscv_cpu_interp_x32: an interrupt taken here is accounted for
\* as an instruction.
EnterTakingInterrupt ==
  /\ at = "interp" /\ cycles > 0
  /\ Interrupted
  /\ cycles' = cycles - 1
  /\ UNCHANGED <<clint, plic, at, left>>

EnterBlocks ==
  /\ at = "interp" /\ cycles > 0
  /\ ~cpu.power_down_flag
  /\ PendingIrqMask(cpu) = {}
  /\ at' = "block" /\ left' = 0
  /\ UNCHANGED <<cpu, clint, plic, cycles>>

\* Between two blocks: the budget first, then interrupts, then the code page.
LeaveBlocks ==
  /\ at = "block" /\ left = 0 /\ cycles <= 0
  /\ at' = "interp"
  /\ UNCHANGED <<cpu, clint, plic, cycles, left>>

BlockInterrupted ==
  /\ at = "block" /\ left = 0 /\ cycles > 0
  /\ Interrupted
  /\ at' = "interp"
  /\ UNCHANGED <<clint, plic, cycles, left>>

Fetch ==
  /\ at = "block" /\ left = 0 /\ cycles > 0
  /\ PendingIrqMask(cpu) = {}
  /\ left' \in 1 .. MaxBlock
  /\ UNCHANGED <<cpu, clint, plic, at, cycles>>

\* The fetch faults: accounted for as an instruction.
FetchFault ==
  /\ at = "block" /\ left = 0 /\ cycles > 0
  /\ PendingIrqMask(cpu) = {}
  /\ Fault
  /\ at' = "interp" /\ cycles' = cycles - 1
  /\ UNCHANGED <<clint, plic, left>>

-----------------------------------------------------------------------------
Instruction ==
  /\ at = "block" /\ left > 0
  /\ cycles' = cycles - 1

\* One that stays in its block, and one that jumps out of it.
Straight == Instruction /\ left' = left - 1 /\ UNCHANGED at

Jump ==
  /\ Instruction /\ left' = 0
  /\ UNCHANGED <<cpu, clint, plic, at>>

\* One after which riscv_cpu_interp_x32 returns, as cur_xlen may have changed.
Leaving == Instruction /\ left' = 0 /\ at' = "interp"

Plain == Straight /\ UNCHANGED <<cpu, clint, plic>>

Access == Straight /\ Mmio

Csr ==
  /\ Straight
  /\ CsrMstatus \/ CsrSstatus \/ CsrInterrupts
  /\ UNCHANGED <<clint, plic>>

Trapping ==
  /\ Leaving
  /\ Sret \/ Mret \/ Exceptional
  /\ UNCHANGED <<clint, plic>>

\* wfi leaves only if it sleeps.
Sleep ==
  /\ WaitForInterrupt
  /\ IF cpu'.power_down_flag THEN Leaving ELSE Straight
  /\ UNCHANGED <<clint, plic>>

Main ==
  \/ GetSleepDuration \/ PollDevice \/ StartInterp \/ EndInterp
  \/ EnterTakingInterrupt \/ EnterBlocks
  \/ LeaveBlocks \/ BlockInterrupted \/ Fetch \/ FetchFault
  \/ Jump \/ Plain \/ Access \/ Csr \/ Trapping \/ Sleep

Tick ==
  /\ time < MaxTime
  /\ time' = time + 1
  /\ UNCHANGED <<cpu, timecmp, plic, thread>>

Next == Main \/ Tick

Spec == Init /\ [][Next]_vars

\* The main thread keeps running and real time passes.
FairSpec == Spec /\ WF_vars(Main) /\ WF_vars(Tick)

-----------------------------------------------------------------------------
TypeOK ==
  /\ cpu \in Cpu
  /\ timecmp \in 0 .. Half * Half - 1
  /\ time \in 0 .. MaxTime
  /\ plic_pending_irq \subseteq Irqs
  /\ plic_served_irq \subseteq Irqs
  /\ at \in {"run", "poll", "interp", "block"}
  /\ cycles \in -MaxBlock .. MaxExec
  /\ left \in 0 .. MaxBlock

\* The PLIC's interrupt is pending exactly while a source is raised that is not
\* being served: none is lost when it rises during the claim or the completion
\* of another. The guest cannot write MEIP, as it can SEIP once delegated.
ExternalInterruptLine ==
  MEIP \in cpu.mip <=> plic_pending_irq \ plic_served_irq # {}

\* No timer interrupt is left over from a timecmp that the guest has since moved
\* into the future, one half after the other: timecmp has been reached, or is
\* so far ahead that the signed difference takes it for past.
TimerPendingOnlyWhenDue ==
  MTIP \in cpu.mip => time >= timecmp \/ timecmp >= Half * (Half \div 2)

\* What readme.md:7 promises with "priviledged architecture version 1.10", where
\* the timer interrupt is pending only once mtime >= mtimecmp.
TimerWaitsForTimecmp == MTIP \in cpu.mip => time >= timecmp

\* The interpreter overruns its budget by less than a block: the devices never
\* wait for longer, whatever the guest executes.
BudgetKept == cycles > -MaxBlock

\* A timer that is due becomes pending, or is moved.
TimerFires == Due ~> (MTIP \in cpu.mip \/ ~Due)

\* A CPU asleep with the timer interrupt enabled is awake again if the RTC
\* reaches timecmp.
SleeperWakes ==
  (cpu.power_down_flag /\ MTIP \in cpu.mie /\ timecmp <= MaxTime)
    ~> ~cpu.power_down_flag

\* An interrupt that is let through does not stay so: it is taken at the next
\* block or masked.
PendingInterruptsTaken == []<>(PendingIrqMask(cpu) = {})
=============================================================================
