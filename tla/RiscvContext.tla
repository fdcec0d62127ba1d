---------------------------- MODULE RiscvContext ----------------------------
(***************************************************************************)
(* The CPU of RiscvCpu with the contexts its traps have saved: per level,  *)
(* the privilege and the interrupt enable that the last trap to the level  *)
(* found in force, until the level returns from it or software rewrites    *)
(* the fields of mstatus that hold them.                                   *)
(***************************************************************************)
EXTENDS RiscvCpu

VARIABLE saved

contextVars == <<cpu, saved>>

Handler == {PRV_S, PRV_M}
Context == [priv : Priv, ie : BOOLEAN]

Current == [priv |-> cpu.priv, ie |-> cpu.ie[cpu.priv]]

ContextInit ==
  /\ cpu = CpuInit
  /\ saved = [x \in Handler |-> {}]

Trap ==
  /\ Exceptional \/ Interrupted
  /\ saved' = [saved EXCEPT ![cpu'.priv] = {Current}]

ReturnToS ==
  /\ Sret
  /\ saved' = [saved EXCEPT ![PRV_S] = {}]

ReturnToM ==
  /\ Mret
  /\ saved' = [saved EXCEPT ![PRV_M] = {}]

RewriteM ==
  /\ CsrMstatus
  /\ saved' = [x \in Handler |-> {}]

RewriteS ==
  /\ CsrSstatus
  /\ saved' = [saved EXCEPT ![PRV_S] = {}]

Other ==
  /\ CsrInterrupts \/ WaitForInterrupt \/ DeviceSetMip \/ DeviceResetMip
  /\ UNCHANGED saved

ContextNext == Trap \/ ReturnToS \/ ReturnToM \/ RewriteM \/ RewriteS \/ Other

ContextSpec == ContextInit /\ [][ContextNext]_contextVars

-----------------------------------------------------------------------------
\* The CPU state stays within its fields' ranges: no sequence of CSR writes,
\* traps and returns delegates an interrupt of the machine, enables the one no
\* mask lets through, or saves for sret a level above the supervisor.
ContextTypeOK ==
  /\ cpu \in Cpu
  /\ saved \in [Handler -> SUBSET Context]

\* While the context of a trap is neither rewritten nor returned to, mstatus
\* holds it: traps to one level do not disturb what the other has saved.
ContextsKept ==
  /\ \A c \in saved[PRV_S] : cpu.spp = c.priv /\ cpu.spie = c.ie
  /\ \A c \in saved[PRV_M] : cpu.mpp = c.priv /\ cpu.mpie = c.ie

\* sret and mret go back to the level that was interrupted, with its interrupts
\* as they were, whatever other traps were taken and undone in between.
ReturnsUndoTraps ==
  [][ /\ ReturnToS => saved[PRV_S] \subseteq {Current'}
      /\ ReturnToM => saved[PRV_M] \subseteq {Current'} ]_contextVars
=============================================================================
