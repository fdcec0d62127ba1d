--------------------------- MODULE MCRiscvContext ---------------------------
(* Any guest on the CPU, with a software interrupt that can be delegated,   *)
(* the machine timer, and page faults as the exceptions delegated.         *)
EXTENDS RiscvContext

\* Every level to return to, with each enable set or clear; UIE stays clear,
\* for nothing is taken at the user level.
MCStatusValues ==
  {v \in Mstatus :
     /\ ~v.ie[PRV_U]
     /\ v.spie = v.mpie
     /\ v.ie[PRV_S] = v.ie[PRV_M]
     /\ v.mpp # PRV_H => v.spp = Min({v.mpp, PRV_S})}
MCGuestInterrupts == {SSIP, MTIP}
MCGuestExceptions == {CAUSE_FETCH_PAGE_FAULT}
MCLines == {MTIP}
=============================================================================
