------------------------------- MODULE MCVmm -------------------------------
(***************************************************************************)
(* Instance of Vmm: pages of one or two bytes, few frames and blocks, so   *)
(* that evictions of both levels and collisions in both direct caches      *)
(* happen within a few accesses.                                           *)
(***************************************************************************)
EXTENDS Vmm, TLC

CONSTANTS MCPageSize

MCByte     == {0, 1}
MCZero     == 0
MCOffset   == 0 .. MCPageSize - 1
MCData     == [MCOffset -> MCByte]
MCZeroPage == [o \in MCOffset |-> MCZero]

FrameSymmetry == Permutations(Frame)
=============================================================================
