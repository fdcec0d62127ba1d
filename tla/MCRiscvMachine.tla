--------------------------- MODULE MCRiscvMachine ---------------------------
(* A machine with one interrupt source and a clock of two ticks, timecmp of *)
(* two one-bit halves, and budgets and blocks of two instructions.          *)
EXTENDS RiscvMachine

\* Interrupts on or off at the machine level; sret and mret then lead to the
\* user, and a delegated fault or interrupt to the supervisor.
MCStatusValues ==
  {v \in Mstatus :
     /\ ~v.ie[PRV_U] /\ ~v.ie[PRV_S] /\ ~v.spie /\ v.spp = PRV_U
     /\ v.ie[PRV_M] = v.mpie
     /\ v.mpp = PRV_M}
MCGuestInterrupts == {SEIP, MTIP}
MCTimerOnly == {MTIP}
MCGuestExceptions == {CAUSE_FETCH_PAGE_FAULT}
MCLines == {MTIP, SEIP, MEIP}
=============================================================================
