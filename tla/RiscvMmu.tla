------------------------------ MODULE RiscvMmu ------------------------------
(***************************************************************************)
(* lib/tinyemu/riscv_cpu.c: address translation and the loads and stores   *)
(* that use it; riscv_cpu_template.h: the code block the interpreter keeps *)
(* between fetches.                                                        *)
(*                                                                         *)
(* There are two levels of page tables of two entries each, so that a      *)
(* virtual page is one of four. An entry of the root without permissions   *)
(* points to the table Leaf, one with a permission maps two pages at once. *)
(* A page of RAM holds one value: an access inside a page reads or writes  *)
(* it, and one that is not aligned may touch the next page too. The page   *)
(* tables lie in pages of their own.                                       *)
(*                                                                         *)
(*   pt       the page tables                                              *)
(*   mem      the contents of RAM                                          *)
(*   mmu      what decides a translation: priv, the fields mpp, mprv, sum  *)
(*            and mxr of mstatus, and translate, the mode of satp          *)
(*   pc       the virtual page of the program counter                      *)
(*   block    the physical page instructions are read from without a       *)
(*            translation, or None (code_ptr and code_end are equal)       *)
(* and, as history:                                                        *)
(*   saved    the contents of each page of RAM when the supervisor last    *)
(*            saved it, which it does whenever it clears a D bit           *)
(*   recent   the physical pages that pc has stood for since the last      *)
(*            fence, or since it entered its page                          *)
(*   fetched  the physical page the last step read an instruction from     *)
(***************************************************************************)
EXTENDS Integers, FiniteSets

CONSTANTS RamPages,    \* RAM is physical pages 0 to RamPages - 1
          Choices,     \* what the supervisor may write into each entry
          StatusValues, \* what machine mode may write into mstatus
          Targets      \* the pages that jumps and trap handlers lead to

ASSUME RamPagesAssumption == RamPages \in Nat /\ Targets \subseteq 0 .. 3

VARIABLES pt, mem, mmu, pc, block, saved, recent, fetched

vars == <<pt, mem, mmu, pc, block, saved, recent, fetched>>

PRV_U == 0
PRV_S == 1
PRV_M == 3

ACCESS_READ  == "r"
ACCESS_WRITE == "w"
ACCESS_CODE  == "x"

Root   == "root"
Leaf   == "leaf"
Slots  == {Root, Leaf} \X {0, 1}
VPages == 0 .. 3
None   == -1
Ram    == 0 .. RamPages - 1

Permissions == {ACCESS_READ, ACCESS_WRITE, ACCESS_CODE}
ASSUME ChoicesAssumption ==
  Choices \in [Slots -> SUBSET [v : BOOLEAN, xwr : SUBSET Permissions, u : BOOLEAN, ppn : Nat]]
ASSUME StatusAssumption ==
  StatusValues \subseteq [mpp : {PRV_U, PRV_S, PRV_M}, mprv : BOOLEAN, sum : BOOLEAN,
                          mxr : BOOLEAN]

\* An entry as the supervisor writes it, with A and D clear.
Fresh(c) == [v |-> c.v, xwr |-> c.xwr, u |-> c.u, ppn |-> c.ppn, a |-> FALSE, d |-> FALSE]

-----------------------------------------------------------------------------
(* get_phys_addr.                                                          *)

EffectivePriv(m, access) == IF m.mprv /\ access # ACCESS_CODE THEN m.mpp ELSE m.priv

\* The privilege and protection checks on a leaf entry. Writable without
\* readable is reserved; mxr makes executable pages readable. A fetch by the
\* supervisor needs sum as a load does.
Allows(m, e, priv, access) ==
  LET xwr == IF m.mxr /\ ACCESS_CODE \in e.xwr THEN e.xwr \cup {ACCESS_READ} ELSE e.xwr
  IN  /\ ACCESS_WRITE \in e.xwr => ACCESS_READ \in e.xwr
      /\ IF priv = PRV_S THEN e.u => m.sum ELSE e.u
      /\ access \in xwr

\* The entry that maps virtual page v and the page it maps v to, if there is
\* one. Of a large page's number the low bits are ignored.
Walk(tables, v) ==
  LET e1 == tables[<<Root, v \div 2>>]
      e0 == tables[<<Leaf, v % 2>>]
  IN  IF e1.v /\ e1.xwr # {}
      THEN {[slot |-> <<Root, v \div 2>>, page |-> e1.ppn - (e1.ppn % 2) + (v % 2)]}
      ELSE IF e1.v /\ e0.v /\ e0.xwr # {}
      THEN {[slot |-> <<Leaf, v % 2>>, page |-> e0.ppn]}
      ELSE {}

\* The outcome of a translation: the page or None, the tables with the A and D
\* bits the access sets, and whether the page tables were used.
Outcome(page, tables, mapped) == [page |-> page, tables |-> tables, mapped |-> mapped]

\* Faulty: D is set only together with A.
TranslateLateDirty(tables, m, v, access) ==
  LET priv == EffectivePriv(m, access)
      good == {w \in Walk(tables, v) : Allows(m, tables[w.slot], priv, access)}
      w    == CHOOSE w \in good : TRUE
  IN  IF priv = PRV_M \/ ~m.translate THEN Outcome(v, tables, FALSE)
      ELSE IF good = {} THEN Outcome(None, tables, TRUE)
      ELSE Outcome(w.page,
                   [tables EXCEPT ![w.slot].a = TRUE,
                                  ![w.slot].d = @ \/ (access = ACCESS_WRITE
                                                      /\ ~tables[w.slot].a)], TRUE)

Translate(tables, m, v, access) ==
  LET priv == EffectivePriv(m, access)
      good == {w \in Walk(tables, v) : Allows(m, tables[w.slot], priv, access)}
      w    == CHOOSE w \in good : TRUE
  IN  IF priv = PRV_M \/ ~m.translate THEN Outcome(v, tables, FALSE)
      ELSE IF good = {} THEN Outcome(None, tables, TRUE)
      ELSE Outcome(w.page,
                   [tables EXCEPT ![w.slot].a = TRUE,
                                  ![w.slot].d = @ \/ access = ACCESS_WRITE], TRUE)

-----------------------------------------------------------------------------
(* target_read_slow and target_write_slow. The first page of an access is  *)
(* done before the second is translated: the bytes and bits it wrote stay  *)
(* when the second faults. A write outside RAM is ignored. A write without *)
(* translation is the firmware's: the supervisor is taken to know of it.   *)

ReadPage(tables, v) == Translate(tables, mmu, v, ACCESS_READ)

WriteTranslated(t, s, val) ==
  [page   |-> t.page,
   tables |-> t.tables,
   mem    |-> IF t.page \in Ram THEN [s.mem EXCEPT ![t.page] = val] ELSE s.mem,
   saved  |-> IF t.page \in Ram /\ ~t.mapped THEN [s.saved EXCEPT ![t.page] = val]
                                             ELSE s.saved]

WritePage(s, v, val) == WriteTranslated(Translate(s.tables, mmu, v, ACCESS_WRITE), s, val)

NextPage(v) == (v + 1) % 4

\* The tables after a load, and whether it faulted.
LoadOutcome(tables, v, spans) ==
  LET first  == ReadPage(tables, v)
      second == ReadPage(first.tables, NextPage(v))
  IN  IF first.page = None \/ ~spans THEN first ELSE second

StoreOutcome(tables, v, spans, val) ==
  LET first  == WritePage([tables |-> tables, mem |-> mem, saved |-> saved], v, val)
      second == WritePage(first, NextPage(v), val)
  IN  IF first.page = None \/ ~spans THEN first ELSE second

-----------------------------------------------------------------------------
(* The interpreter's fetch.                                                *)

\* What pc stands for now.
CodePage(tables, m, v) == Translate(tables, m, v, ACCESS_CODE).page

Fetch == IF block # None THEN Outcome(block, pt, TRUE)
                         ELSE Translate(pt, mmu, pc, ACCESS_CODE)

\* The history after a step to virtual page v, with the new tables and mmu;
\* the old one counts on unless v is new or the step is a fence.
Remember(v, fence) ==
  LET now == CodePage(pt', mmu', v)
  IN  recent' = IF fence \/ v # pc THEN {now} ELSE recent \cup {now}

\* An exception is taken by the supervisor, or by machine mode if it comes
\* from there; the handler is at any page. The interpreter is left.
Trap ==
  \E v \in Targets :
    /\ mmu' = IF mmu.priv = PRV_M THEN [mmu EXCEPT !.mpp = PRV_M]
                                  ELSE [mmu EXCEPT !.priv = PRV_S]
    /\ pc' = v
    /\ block' = None
    /\ Remember(v, TRUE)

FetchFault ==
  /\ Fetch.page = None
  /\ fetched' = None
  /\ UNCHANGED <<pt, mem, saved>>
  /\ Trap

\* Interrupts are looked at between blocks only.
InterruptTaken ==
  /\ block = None
  /\ fetched' = None
  /\ UNCHANGED <<pt, mem, saved>>
  /\ Trap

\* The instruction is read from the page of the fetch.
Fetched ==
  /\ Fetch.page # None
  /\ fetched' = Fetch.page

\* On to the next instruction: in the same page, where the block stays unless
\* only the page's last halfword is left, or at the start of the next page.
Advance ==
  \/ pc' = pc /\ block' \in {Fetch.page, None}
  \/ pc' = NextPage(pc) /\ block' = None

\* JUMP_INSN: the block ends.
JumpTo(v) == pc' = v /\ block' = None

Compute ==
  /\ Fetched
  /\ Advance
  /\ pt' = Fetch.tables
  /\ UNCHANGED <<mem, mmu, saved>>
  /\ Remember(pc', FALSE)

\* An instruction at the last halfword of a page, where no block is left; the
\* second half is read only when the first is known to need one.
StraddlingInstruction ==
  /\ block = None
  /\ Fetched
  /\ LET half == Translate(Fetch.tables, mmu, NextPage(pc), ACCESS_CODE)
     IN  /\ half.page # None
         /\ pt' = half.tables
  /\ JumpTo(NextPage(pc))
  /\ UNCHANGED <<mem, mmu, saved>>
  /\ Remember(pc', FALSE)

StraddlingFault ==
  /\ block = None
  /\ Fetched
  /\ Translate(Fetch.tables, mmu, NextPage(pc), ACCESS_CODE).page = None
  /\ pt' = Fetch.tables
  /\ Trap
  /\ UNCHANGED <<mem, saved>>

Jump ==
  /\ Fetched
  /\ pt' = Fetch.tables
  /\ UNCHANGED <<mem, mmu, saved>>
  /\ \E v \in Targets : JumpTo(v) /\ Remember(v, FALSE)

Load ==
  /\ Fetched
  /\ \E v \in VPages, spans \in BOOLEAN :
       LET l == LoadOutcome(Fetch.tables, v, spans)
       IN  /\ pt' = l.tables
           /\ IF l.page = None THEN Trap
              ELSE Advance /\ UNCHANGED mmu /\ Remember(pc', FALSE)
  /\ UNCHANGED <<mem, saved>>

Store ==
  /\ Fetched
  /\ \E v \in VPages, spans \in BOOLEAN, val \in {0, 1} :
       LET w == StoreOutcome(Fetch.tables, v, spans, val)
       IN  /\ pt' = w.tables
           /\ mem' = w.mem
           /\ saved' = w.saved
           /\ IF w.page = None THEN Trap
              ELSE Advance /\ UNCHANGED mmu /\ Remember(pc', FALSE)

Ecall ==
  /\ Fetched
  /\ pt' = Fetch.tables
  /\ Trap
  /\ UNCHANGED <<mem, saved>>

\* The pages an entry maps.
Mapped(s, e) == IF s[1] = Root THEN {e.ppn - (e.ppn % 2), e.ppn - (e.ppn % 2) + 1} ELSE {e.ppn}

\* The supervisor writes an entry of its page tables. It saves the pages of an
\* entry with D set before it writes one without.
WriteEntry ==
  /\ mmu.priv # PRV_U
  /\ Fetched
  /\ Advance
  /\ \E s \in Slots : \E c \in Choices[s] :
       /\ pt' = [Fetch.tables EXCEPT ![s] = Fresh(c)]
       /\ saved' = [p \in Ram |-> IF Fetch.tables[s].d /\ p \in Mapped(s, Fetch.tables[s])
                                  THEN mem[p] ELSE saved[p]]
  /\ UNCHANGED <<mem, mmu>>
  /\ Remember(pc', FALSE)

-----------------------------------------------------------------------------
(* The instructions that change what a translation depends on.             *)

\* csr_write of mstatus, by machine mode, and of sstatus: the block stays.
WriteStatus ==
  /\ mmu.priv # PRV_U
  /\ Fetched
  /\ Advance
  /\ pt' = Fetch.tables
  /\ \E n \in StatusValues :
       mmu' = IF mmu.priv = PRV_M
              THEN [mmu EXCEPT !.mpp = n.mpp, !.mprv = n.mprv, !.sum = n.sum, !.mxr = n.mxr]
              ELSE [mmu EXCEPT !.sum = n.sum, !.mxr = n.mxr]
  /\ UNCHANGED <<mem, saved>>
  /\ Remember(pc', FALSE)

\* csr_write of satp returns 2, and the interpreter looks the code up again.
WriteSatp ==
  /\ mmu.priv # PRV_U
  /\ Fetched
  /\ pt' = Fetch.tables
  /\ \E t \in BOOLEAN : mmu' = [mmu EXCEPT !.translate = t]
  /\ \E v \in {pc, NextPage(pc)} : JumpTo(v) /\ Remember(v, TRUE)
  /\ UNCHANGED <<mem, saved>>

\* Faulty: the block goes on after the fence.
SfenceVmaKeepsBlock ==
  /\ mmu.priv # PRV_U
  /\ Fetched
  /\ pt' = Fetch.tables
  /\ Advance
  /\ UNCHANGED <<mem, mmu, saved>>
  /\ Remember(pc', TRUE)

SfenceVma ==
  /\ mmu.priv # PRV_U
  /\ Fetched
  /\ pt' = Fetch.tables
  /\ \E v \in {pc, NextPage(pc)} : JumpTo(v) /\ UNCHANGED mmu /\ Remember(v, TRUE)
  /\ UNCHANGED <<mem, saved>>

\* sret and mret, to any page; both leave the interpreter.
Return ==
  /\ mmu.priv # PRV_U
  /\ Fetched
  /\ pt' = Fetch.tables
  /\ \/ \E p \in {PRV_U, PRV_S} : mmu' = [mmu EXCEPT !.priv = p]
     \/ mmu.priv = PRV_M /\ mmu' = [mmu EXCEPT !.priv = mmu.mpp, !.mpp = PRV_U]
  /\ \E v \in Targets : JumpTo(v) /\ Remember(v, TRUE)
  /\ UNCHANGED <<mem, saved>>

-----------------------------------------------------------------------------
MmuReset == [priv |-> PRV_M, mpp |-> PRV_U, mprv |-> FALSE, sum |-> FALSE, mxr |-> FALSE,
             translate |-> FALSE]

Init ==
  /\ pt \in [Slots -> {Fresh(c) : c \in UNION {Choices[s] : s \in Slots}}]
  /\ \A s \in Slots : \E c \in Choices[s] : pt[s] = Fresh(c)
  /\ mem = [p \in Ram |-> 0]
  /\ saved = mem
  /\ mmu = MmuReset
  /\ pc = 0
  /\ block = None
  /\ recent = {0}
  /\ fetched = None

Next ==
  \/ Compute
  \/ StraddlingInstruction
  \/ StraddlingFault
  \/ Jump
  \/ Load
  \/ Store
  \/ Ecall
  \/ WriteEntry
  \/ WriteStatus
  \/ WriteSatp
  \/ SfenceVma
  \/ Return
  \/ FetchFault
  \/ InterruptTaken

Spec == Init /\ [][Next]_vars

-----------------------------------------------------------------------------
\* Every step leaves entries, status fields and pages in their ranges: a page
\* number is that of an entry, or of a virtual page where nothing is translated.
TypeOK ==
  /\ pt \in [Slots -> [v : BOOLEAN, xwr : SUBSET Permissions, u : BOOLEAN, ppn : Nat,
                       a : BOOLEAN, d : BOOLEAN]]
  /\ mem \in [Ram -> {0, 1}] /\ saved \in [Ram -> {0, 1}]
  /\ mmu \in [priv : {PRV_U, PRV_S, PRV_M}, mpp : {PRV_U, PRV_S, PRV_M}, mprv : BOOLEAN,
              sum : BOOLEAN, mxr : BOOLEAN, translate : BOOLEAN]
  /\ pc \in VPages
  /\ block \in Nat \union {None} /\ fetched \in Nat \union {None}
  /\ recent \subseteq Nat \union {None}

\* The supervisor finds every page that translated stores changed since it
\* saved it: an entry that maps the page has D set, also when the store
\* faulted on its second page, or went through one of several entries.
ChangedPagesAreDirty ==
  \A p \in Ram : mem[p] # saved[p] =>
    \E s \in Slots : pt[s].d /\ p \in Mapped(s, pt[s])

\* An instruction is read from a page that its address stood for at some time
\* since the last fence, change of satp, trap or return, although a block is
\* fetched from without looking at the page tables.
FetchesAreCurrent == [][fetched' # None => fetched' \in recent]_vars
=============================================================================
