--------------------------- MODULE RiscvMmuProofs ---------------------------
(***************************************************************************)
(* Theorems about address translation: the types, that the supervisor      *)
(* finds every page that was changed, and that instructions come from      *)
(* pages their address stood for.                                          *)
(***************************************************************************)
EXTENDS RiscvMmu, TLAPS

Entry == [v : BOOLEAN, xwr : SUBSET Permissions, u : BOOLEAN, ppn : Nat,
          a : BOOLEAN, d : BOOLEAN]
Tables == [Slots -> Entry]
Contents == [Ram -> {0, 1}]
Level == {PRV_U, PRV_S, PRV_M}
Mmu == [priv : Level, mpp : Level, mprv : BOOLEAN, sum : BOOLEAN, mxr : BOOLEAN,
        translate : BOOLEAN]
Page == Nat \union {None}
Access == {ACCESS_READ, ACCESS_WRITE, ACCESS_CODE}

\* Between one table and a later one the entries map the same pages, and no
\* D bit is lost.
Keeps(old, new) ==
  \A s \in Slots : Mapped(s, new[s]) = Mapped(s, old[s]) /\ (old[s].d => new[s].d)

\* An entry that maps the page has D set.
Dirty(tables, p) == \E s \in Slots : tables[s].d /\ p \in Mapped(s, tables[s])

\* ChangedPagesAreDirty, of any tables and contents.
AllDirty(tables, m, sv) == \A p \in Ram : m[p] # sv[p] => Dirty(tables, p)

-----------------------------------------------------------------------------
(* The walk and the translation.                                           *)

LEMMA SlotsOfPage ==
  ASSUME NEW v \in VPages
  PROVE  /\ <<Root, v \div 2>> \in Slots
         /\ <<Leaf, v % 2>> \in Slots
         /\ v % 2 \in {0, 1}
         /\ NextPage(v) \in VPages
<1>1. v \in {0, 1, 2, 3}
  BY DEF VPages
<1>2. QED
  BY <1>1 DEF VPages, Slots, NextPage

LEMMA FreshIsEntry ==
  ASSUME NEW s \in Slots, NEW c \in Choices[s]
  PROVE  Fresh(c) \in Entry
BY ChoicesAssumption DEF Fresh, Entry

\* What a walk finds is an entry, and the page is one that the entry maps.
LEMMA WalkIs ==
  ASSUME NEW tables \in Tables, NEW v \in VPages, NEW w \in Walk(tables, v)
  PROVE  /\ w.slot \in Slots
         /\ w.page \in Nat
         /\ w.page \in Mapped(w.slot, tables[w.slot])
<1> DEFINE large == <<Root, v \div 2>>
           small == <<Leaf, v % 2>>
<1>1. large \in Slots /\ small \in Slots /\ v % 2 \in {0, 1}
  BY SlotsOfPage
<1>2. tables[large].ppn \in Nat /\ tables[small].ppn \in Nat
  BY <1>1 DEF Tables, Entry
<1>3. CASE w = [slot |-> large, page |-> tables[large].ppn - (tables[large].ppn % 2) + (v % 2)]
  <2>1. tables[large].ppn - (tables[large].ppn % 2) \in Nat
    BY <1>2
  <2>2. w.slot = large /\ w.page = tables[large].ppn - (tables[large].ppn % 2) + (v % 2)
    BY <1>3
  <2>3. Mapped(large, tables[large])
          = {tables[large].ppn - (tables[large].ppn % 2), tables[large].ppn - (tables[large].ppn % 2) + 1}
    BY DEF Mapped
  <2>4. QED
    BY <1>1, <2>1, <2>2, <2>3
<1>4. CASE w = [slot |-> small, page |-> tables[small].ppn]
  <2>1. Mapped(small, tables[small]) = {tables[small].ppn}
    BY DEF Mapped, Root, Leaf
  <2>2. QED
    BY <1>1, <1>2, <1>4, <2>1
<1>5. QED
  BY <1>3, <1>4 DEF Walk

LEMMA TranslateIs ==
  ASSUME NEW tables \in Tables, NEW m, NEW v \in VPages, NEW access \in Access
  PROVE  LET t == Translate(tables, m, v, access)
         IN  /\ t.tables \in Tables
             /\ t.page \in Page
             /\ Keeps(tables, t.tables)
             /\ t.mapped /\ access = ACCESS_WRITE /\ t.page # None => Dirty(t.tables, t.page)
<1> DEFINE priv == EffectivePriv(m, access)
           good == {w \in Walk(tables, v) : Allows(m, tables[w.slot], priv, access)}
           w == CHOOSE w \in good : TRUE
           t == Translate(tables, m, v, access)
<1>1. CASE priv = PRV_M \/ ~m.translate
  <2>1. t = Outcome(v, tables, FALSE)
    BY <1>1 DEF Translate
  <2>2. QED
    BY <2>1 DEF Outcome, Keeps, Page, VPages
<1>2. CASE ~(priv = PRV_M \/ ~m.translate) /\ good = {}
  <2>1. t = Outcome(None, tables, TRUE)
    BY <1>2 DEF Translate
  <2>2. QED
    BY <2>1 DEF Outcome, Keeps, Page, None
<1>3. CASE ~(priv = PRV_M \/ ~m.translate) /\ good # {}
  <2> DEFINE new == [tables EXCEPT ![w.slot].a = TRUE,
                                   ![w.slot].d = @ \/ access = ACCESS_WRITE]
  <2>1. t = Outcome(w.page, new, TRUE)
    BY <1>3 DEF Translate
  <2>2. w \in Walk(tables, v)
    BY <1>3
  <2>3. /\ w.slot \in Slots
        /\ w.page \in Nat
        /\ w.page \in Mapped(w.slot, tables[w.slot])
    BY <2>2, WalkIs
  <2> HIDE DEF w, good
  <2>4. /\ new \in [Slots -> Entry]
        /\ \A s \in Slots : /\ new[s].ppn = tables[s].ppn
                            /\ tables[s].d => new[s].d
        /\ access = ACCESS_WRITE => new[w.slot].d
    BY <2>3, ZenonT(60) DEF Tables, Entry
  <2>5. \A s \in Slots : Mapped(s, new[s]) = Mapped(s, tables[s])
    BY <2>4 DEF Mapped
  <2>6. t.tables = new /\ t.page = w.page
    BY <2>1 DEF Outcome
  <2>7. QED
    BY <2>3, <2>4, <2>5, <2>6 DEF Tables, Keeps, Dirty, Page
<1>4. QED
  BY <1>1, <1>2, <1>3

LEMMA KeepsDirty ==
  ASSUME NEW old, NEW new, Keeps(old, new), NEW m, NEW sv, AllDirty(old, m, sv)
  PROVE  AllDirty(new, m, sv)
BY DEF Keeps, AllDirty, Dirty

LEMMA KeepsTransitive ==
  ASSUME NEW t1, NEW t2, NEW t3, Keeps(t1, t2), Keeps(t2, t3)
  PROVE  Keeps(t1, t3)
BY DEF Keeps

-----------------------------------------------------------------------------
(* Loads and stores.                                                       *)

LEMMA LoadIs ==
  ASSUME NEW tables \in Tables, NEW v \in VPages, NEW spans \in BOOLEAN
  PROVE  LET l == LoadOutcome(tables, v, spans)
         IN  l.tables \in Tables /\ Keeps(tables, l.tables)
<1> DEFINE first == ReadPage(tables, v)
           second == ReadPage(first.tables, NextPage(v))
<1>1. first.tables \in Tables /\ Keeps(tables, first.tables)
  BY TranslateIs DEF ReadPage, Access
<1>2. second.tables \in Tables /\ Keeps(first.tables, second.tables)
  BY <1>1, TranslateIs, SlotsOfPage DEF ReadPage, Access
<1>3. Keeps(tables, second.tables)
  BY <1>1, <1>2, KeepsTransitive
<1>4. LoadOutcome(tables, v, spans) \in {first, second}
  BY DEF LoadOutcome
<1> HIDE DEF first, second
<1>5. QED
  BY <1>1, <1>2, <1>3, <1>4

\* What a store has written is found again.
LEMMA WritePageIs ==
  ASSUME NEW s, s.tables \in Tables, s.mem \in Contents, s.saved \in Contents,
         NEW v \in VPages, NEW val \in {0, 1}
  PROVE  LET w == WritePage(s, v, val)
         IN  /\ w.tables \in Tables /\ w.mem \in Contents /\ w.saved \in Contents
             /\ AllDirty(s.tables, s.mem, s.saved) => AllDirty(w.tables, w.mem, w.saved)
<1> DEFINE t == Translate(s.tables, mmu, v, ACCESS_WRITE)
           w == WritePage(s, v, val)
<1>1. /\ t.tables \in Tables
      /\ Keeps(s.tables, t.tables)
      /\ t.mapped /\ t.page # None => Dirty(t.tables, t.page)
  BY TranslateIs DEF Access
<1>2. AllDirty(s.tables, s.mem, s.saved) => AllDirty(t.tables, s.mem, s.saved)
  BY <1>1, KeepsDirty
<1> HIDE DEF t
<1>3. /\ w.tables = t.tables
      /\ w.mem = IF t.page \in Ram THEN [s.mem EXCEPT ![t.page] = val] ELSE s.mem
      /\ w.saved = IF t.page \in Ram /\ ~t.mapped THEN [s.saved EXCEPT ![t.page] = val]
                                                 ELSE s.saved
  BY DEF WritePage, WriteTranslated, t
<1> HIDE DEF w
<1>4. w.mem \in Contents /\ w.saved \in Contents
  BY <1>3 DEF Contents
<1>5. ASSUME AllDirty(t.tables, s.mem, s.saved), NEW p \in Ram, w.mem[p] # w.saved[p]
      PROVE  Dirty(t.tables, p)
  <2>1. p # None
    BY RamPagesAssumption DEF Ram, None
  <2>2. CASE p = t.page
    <3>1. t.mapped
      BY <1>3, <1>5, <2>2 DEF Contents
    <3>2. QED
      BY <1>1, <2>1, <2>2, <3>1
  <2>3. CASE p # t.page
    <3>1. w.mem[p] = s.mem[p] /\ w.saved[p] = s.saved[p]
      BY <1>3, <2>3 DEF Contents
    <3>2. QED
      BY <1>5, <3>1 DEF AllDirty
  <2>4. QED
    BY <2>2, <2>3
<1>6. QED
  BY <1>1, <1>2, <1>3, <1>4, <1>5 DEF w, AllDirty

LEMMA StoreIs ==
  ASSUME NEW tables \in Tables, mem \in Contents, saved \in Contents,
         NEW v \in VPages, NEW spans \in BOOLEAN, NEW val \in {0, 1}
  PROVE  LET w == StoreOutcome(tables, v, spans, val)
         IN  /\ w.tables \in Tables /\ w.mem \in Contents /\ w.saved \in Contents
             /\ AllDirty(tables, mem, saved) => AllDirty(w.tables, w.mem, w.saved)
<1> DEFINE now == [tables |-> tables, mem |-> mem, saved |-> saved]
           first == WritePage(now, v, val)
           second == WritePage(first, NextPage(v), val)
<1>1. now.tables = tables /\ now.mem = mem /\ now.saved = saved
  OBVIOUS
<1>2. StoreOutcome(tables, v, spans, val) \in {first, second}
  BY DEF StoreOutcome
<1> HIDE DEF now
<1>3. /\ first.tables \in Tables /\ first.mem \in Contents /\ first.saved \in Contents
      /\ AllDirty(tables, mem, saved) => AllDirty(first.tables, first.mem, first.saved)
  BY <1>1, WritePageIs
<1> HIDE DEF first
<1>4. NextPage(v) \in VPages
  BY SlotsOfPage
<1>5. /\ second.tables \in Tables /\ second.mem \in Contents /\ second.saved \in Contents
      /\ AllDirty(first.tables, first.mem, first.saved)
           => AllDirty(second.tables, second.mem, second.saved)
  BY <1>3, <1>4, WritePageIs
<1>6. QED
  BY <1>2, <1>3, <1>5

-----------------------------------------------------------------------------
(* The types.                                                              *)

\* TypeOK with the sets named.
Typed ==
  /\ pt \in Tables
  /\ mem \in Contents /\ saved \in Contents
  /\ mmu \in Mmu
  /\ pc \in VPages
  /\ block \in Page /\ fetched \in Page
  /\ recent \subseteq Page

LEMMA TypedIs == TypeOK <=> Typed
BY DEF TypeOK, Typed, Tables, Contents, Mmu, Level, Page, Entry

LEMMA FetchIs ==
  ASSUME Typed
  PROVE  Fetch.tables \in Tables /\ Fetch.page \in Page /\ Keeps(pt, Fetch.tables)
<1>1. CASE block # None
  BY <1>1 DEF Fetch, Outcome, Typed, Keeps
<1>2. CASE block = None
  BY <1>2, TranslateIs DEF Fetch, Typed, Access
<1>3. QED
  BY <1>1, <1>2

\* Where pc and the history go; the tables and mmu are in range already.
LEMMA RememberType ==
  ASSUME Typed, pt' \in Tables, mmu' \in Mmu, NEW v \in VPages, NEW fence \in BOOLEAN,
         Remember(v, fence)
  PROVE  recent' \subseteq Page
<1>1. CodePage(pt', mmu', v) \in Page
  BY TranslateIs DEF CodePage, Access
<1>2. QED
  BY <1>1 DEF Remember, Typed

LEMMA TrapType ==
  ASSUME Typed, Trap, pt' \in Tables
  PROVE  /\ mmu' \in Mmu /\ pc' \in VPages /\ block' \in Page /\ recent' \subseteq Page
         /\ Remember(pc', TRUE) /\ block' = None
<1>1. PICK v \in Targets :
        /\ mmu' = IF mmu.priv = PRV_M THEN [mmu EXCEPT !.mpp = PRV_M]
                                      ELSE [mmu EXCEPT !.priv = PRV_S]
        /\ pc' = v
        /\ block' = None
        /\ Remember(v, TRUE)
  BY DEF Trap
<1>2. v \in VPages
  BY RamPagesAssumption DEF VPages
<1>3. mmu' \in Mmu
  BY <1>1 DEF Typed, Mmu, Level
<1>4. QED
  BY <1>1, <1>2, <1>3, RememberType DEF Page

LEMMA AdvanceType ==
  ASSUME Typed, Advance
  PROVE  pc' \in VPages /\ block' \in Page
BY FetchIs, SlotsOfPage DEF Advance, Typed, Page

LEMMA TypedStep ==
  ASSUME Typed, [Next]_vars
  PROVE  Typed'
<1>0. Fetch.tables \in Tables /\ Fetch.page \in Page
  BY FetchIs
<1>1. CASE Compute
  <2>1. pt' \in Tables /\ mmu' \in Mmu /\ pc' \in VPages /\ block' \in Page
    BY <1>0, <1>1, AdvanceType DEF Compute, Typed
  <2>2. recent' \subseteq Page
    BY <1>1, <2>1, RememberType DEF Compute
  <2>3. QED
    BY <1>0, <1>1, <2>1, <2>2 DEF Compute, Fetched, Typed
<1>2. CASE StraddlingInstruction
  <2>1. NextPage(pc) \in VPages
    BY SlotsOfPage DEF Typed
  <2>2. pt' \in Tables
    BY <1>0, <1>2, <2>1, TranslateIs DEF StraddlingInstruction, Access
  <2>3. pc' \in VPages /\ block' \in Page /\ mmu' \in Mmu
    BY <1>2, <2>1 DEF StraddlingInstruction, JumpTo, Page, Typed
  <2>4. recent' \subseteq Page
    BY <1>2, <2>2, <2>3, RememberType DEF StraddlingInstruction
  <2>5. QED
    BY <1>0, <1>2, <2>2, <2>3, <2>4 DEF StraddlingInstruction, Fetched, Typed
<1>3. CASE StraddlingFault
  BY <1>0, <1>3, TrapType DEF StraddlingFault, Fetched, Typed
<1>4. CASE Jump
  <2>1. PICK v \in Targets : JumpTo(v) /\ Remember(v, FALSE)
    BY <1>4 DEF Jump
  <2>2. v \in VPages
    BY RamPagesAssumption DEF VPages
  <2>3. pt' \in Tables /\ mmu' \in Mmu
    BY <1>0, <1>4 DEF Jump, Typed
  <2>4. recent' \subseteq Page
    BY <2>1, <2>2, <2>3, RememberType
  <2>5. QED
    BY <1>0, <1>4, <2>1, <2>2, <2>3, <2>4 DEF Jump, JumpTo, Fetched, Typed, Page
<1>5. CASE Load
  <2>1. PICK v \in VPages, spans \in BOOLEAN :
          LET l == LoadOutcome(Fetch.tables, v, spans)
          IN  /\ pt' = l.tables
              /\ IF l.page = None THEN Trap
                 ELSE Advance /\ UNCHANGED mmu /\ Remember(pc', FALSE)
    BY <1>5 DEF Load
  <2>2. pt' \in Tables
    BY <1>0, <2>1, LoadIs
  <2>3. CASE Trap
    BY <1>0, <1>5, <2>2, <2>3, TrapType DEF Load, Fetched, Typed
  <2>4. CASE Advance /\ UNCHANGED mmu /\ Remember(pc', FALSE)
    <3>1. mmu' \in Mmu /\ pc' \in VPages /\ block' \in Page
      BY <2>4, AdvanceType DEF Typed
    <3>2. recent' \subseteq Page
      BY <2>2, <2>4, <3>1, RememberType
    <3>3. QED
      BY <1>0, <1>5, <2>2, <3>1, <3>2 DEF Load, Fetched, Typed
  <2>5. QED
    BY <2>1, <2>3, <2>4
<1>6. CASE Store
  <2>1. PICK v \in VPages, spans \in BOOLEAN, val \in {0, 1} :
          LET w == StoreOutcome(Fetch.tables, v, spans, val)
          IN  /\ pt' = w.tables
              /\ mem' = w.mem
              /\ saved' = w.saved
              /\ IF w.page = None THEN Trap
                 ELSE Advance /\ UNCHANGED mmu /\ Remember(pc', FALSE)
    BY <1>6 DEF Store
  <2>2. pt' \in Tables /\ mem' \in Contents /\ saved' \in Contents
    BY <1>0, <2>1, StoreIs DEF Typed
  <2>3. CASE Trap
    BY <1>0, <1>6, <2>2, <2>3, TrapType DEF Store, Fetched, Typed
  <2>4. CASE Advance /\ UNCHANGED mmu /\ Remember(pc', FALSE)
    <3>1. mmu' \in Mmu /\ pc' \in VPages /\ block' \in Page
      BY <2>4, AdvanceType DEF Typed
    <3>2. recent' \subseteq Page
      BY <2>2, <2>4, <3>1, RememberType
    <3>3. QED
      BY <1>0, <1>6, <2>2, <3>1, <3>2 DEF Store, Fetched, Typed
  <2>5. QED
    BY <2>1, <2>3, <2>4
<1>7. CASE Ecall
  BY <1>0, <1>7, TrapType DEF Ecall, Fetched, Typed
<1>8. CASE WriteEntry
  <2>0. PICK s \in Slots : \E c \in Choices[s] :
          /\ pt' = [Fetch.tables EXCEPT ![s] = Fresh(c)]
          /\ saved' = [p \in Ram |-> IF Fetch.tables[s].d /\ p \in Mapped(s, Fetch.tables[s])
                                     THEN mem[p] ELSE saved[p]]
    BY <1>8 DEF WriteEntry
  <2>1. PICK c \in Choices[s] :
          /\ pt' = [Fetch.tables EXCEPT ![s] = Fresh(c)]
          /\ saved' = [p \in Ram |-> IF Fetch.tables[s].d /\ p \in Mapped(s, Fetch.tables[s])
                                     THEN mem[p] ELSE saved[p]]
    BY <2>0
  <2>2. pt' \in Tables
    BY <1>0, <2>1, FreshIsEntry DEF Tables
  <2>3. saved' \in Contents
    BY <2>1 DEF Typed, Contents
  <2>4. mmu' \in Mmu /\ pc' \in VPages /\ block' \in Page
    BY <1>8, AdvanceType DEF WriteEntry, Typed
  <2>5. recent' \subseteq Page
    BY <1>8, <2>2, <2>4, RememberType DEF WriteEntry
  <2>6. QED
    BY <1>0, <1>8, <2>2, <2>3, <2>4, <2>5 DEF WriteEntry, Fetched, Typed
<1>9. CASE WriteStatus
  <2>1. PICK n \in StatusValues :
          mmu' = IF mmu.priv = PRV_M
                 THEN [mmu EXCEPT !.mpp = n.mpp, !.mprv = n.mprv, !.sum = n.sum, !.mxr = n.mxr]
                 ELSE [mmu EXCEPT !.sum = n.sum, !.mxr = n.mxr]
    BY <1>9 DEF WriteStatus
  <2>2. mmu' \in Mmu
    BY <2>1, StatusAssumption DEF Typed, Mmu, Level
  <2>3. pt' \in Tables /\ pc' \in VPages /\ block' \in Page
    BY <1>0, <1>9, AdvanceType DEF WriteStatus
  <2>4. recent' \subseteq Page
    BY <1>9, <2>2, <2>3, RememberType DEF WriteStatus
  <2>5. QED
    BY <1>0, <1>9, <2>2, <2>3, <2>4 DEF WriteStatus, Fetched, Typed
<1>10. CASE WriteSatp
  <2>1. PICK t \in BOOLEAN : mmu' = [mmu EXCEPT !.translate = t]
    BY <1>10 DEF WriteSatp
  <2>2. PICK v \in {pc, NextPage(pc)} : JumpTo(v) /\ Remember(v, TRUE)
    BY <1>10 DEF WriteSatp
  <2>3. v \in VPages
    BY SlotsOfPage DEF Typed
  <2>4. pt' \in Tables /\ mmu' \in Mmu
    BY <1>0, <1>10, <2>1 DEF WriteSatp, Typed, Mmu
  <2>5. recent' \subseteq Page
    BY <2>2, <2>3, <2>4, RememberType
  <2>6. QED
    BY <1>0, <1>10, <2>2, <2>3, <2>4, <2>5 DEF WriteSatp, JumpTo, Fetched, Typed, Page
<1>11. CASE SfenceVma
  <2>1. PICK v \in {pc, NextPage(pc)} : JumpTo(v) /\ UNCHANGED mmu /\ Remember(v, TRUE)
    BY <1>11 DEF SfenceVma
  <2>2. v \in VPages
    BY SlotsOfPage DEF Typed
  <2>3. pt' \in Tables /\ mmu' \in Mmu
    BY <1>0, <1>11, <2>1 DEF SfenceVma, Typed
  <2>4. recent' \subseteq Page
    BY <2>1, <2>2, <2>3, RememberType
  <2>5. QED
    BY <1>0, <1>11, <2>1, <2>2, <2>3, <2>4 DEF SfenceVma, JumpTo, Fetched, Typed, Page
<1>12. CASE Return
  <2>1. PICK v \in Targets : JumpTo(v) /\ Remember(v, TRUE)
    BY <1>12 DEF Return
  <2>2. v \in VPages
    BY RamPagesAssumption DEF VPages
  <2>3. pt' \in Tables /\ mmu' \in Mmu
    BY <1>0, <1>12 DEF Return, Typed, Mmu, Level
  <2>4. recent' \subseteq Page
    BY <2>1, <2>2, <2>3, RememberType
  <2>5. QED
    BY <1>0, <1>12, <2>1, <2>2, <2>3, <2>4 DEF Return, JumpTo, Fetched, Typed, Page
<1>13. CASE FetchFault
  BY <1>13, TrapType DEF FetchFault, Typed, Page
<1>14. CASE InterruptTaken
  BY <1>14, TrapType DEF InterruptTaken, Typed, Page
<1>15. CASE UNCHANGED vars
  BY <1>15 DEF vars, Typed
<1>16. QED
  BY <1>1, <1>2, <1>3, <1>4, <1>5, <1>6, <1>7, <1>8, <1>9, <1>10, <1>11, <1>12, <1>13, <1>14,
     <1>15 DEF Next

LEMMA TypedInit ==
  ASSUME Init
  PROVE  Typed
<1>1. pt \in Tables
  BY FreshIsEntry DEF Init, Tables
<1>2. mem \in Contents /\ saved \in Contents
  BY DEF Init, Contents
<1>3. mmu \in Mmu
  BY DEF Init, MmuReset, Mmu, Level
<1>4. QED
  BY <1>1, <1>2, <1>3 DEF Init, Typed, VPages, Page

\* No instruction, trap or write of the supervisor leaves the page tables, the
\* fields of mstatus and satp, or the interpreter's block out of their ranges.
THEOREM TypeCorrect == Spec => []TypeOK
<1>1. Init => Typed
  BY TypedInit
<1>2. Typed /\ [Next]_vars => Typed'
  BY TypedStep
<1>3. QED
  BY <1>1, <1>2, TypedIs, PTL DEF Spec

-----------------------------------------------------------------------------
(* The supervisor finds what has changed.                                  *)

\* A step that writes neither RAM nor an entry.
LEMMA DirtyKept ==
  ASSUME AllDirty(pt, mem, saved), Keeps(pt, pt'), mem' = mem, saved' = saved
  PROVE  AllDirty(pt', mem', saved')
BY KeepsDirty

LEMMA DirtyStep ==
  ASSUME Typed, AllDirty(pt, mem, saved), [Next]_vars
  PROVE  AllDirty(pt', mem', saved')
<1>0. Fetch.tables \in Tables /\ Keeps(pt, Fetch.tables) /\ AllDirty(Fetch.tables, mem, saved)
  BY FetchIs, KeepsDirty
<1>1. CASE Compute \/ StraddlingFault \/ Jump \/ Ecall \/ WriteStatus \/ WriteSatp
           \/ SfenceVma \/ Return
  BY <1>0, <1>1, DirtyKept
     DEF Compute, StraddlingFault, Jump, Ecall, WriteStatus, WriteSatp, SfenceVma, Return
<1>2. CASE StraddlingInstruction
  <2>1. NextPage(pc) \in VPages
    BY SlotsOfPage DEF Typed
  <2>2. Keeps(Fetch.tables, pt')
    BY <1>0, <1>2, <2>1, TranslateIs DEF StraddlingInstruction, Access
  <2>3. QED
    BY <1>0, <1>2, <2>2, KeepsDirty DEF StraddlingInstruction
<1>3. CASE Load
  <2>1. PICK v \in VPages, spans \in BOOLEAN : pt' = LoadOutcome(Fetch.tables, v, spans).tables
    BY <1>3 DEF Load
  <2>2. Keeps(Fetch.tables, pt')
    BY <1>0, <2>1, LoadIs
  <2>3. QED
    BY <1>0, <1>3, <2>2, KeepsDirty DEF Load
<1>4. CASE Store
  <2>1. PICK v \in VPages, spans \in BOOLEAN, val \in {0, 1} :
          LET w == StoreOutcome(Fetch.tables, v, spans, val)
          IN  pt' = w.tables /\ mem' = w.mem /\ saved' = w.saved
    BY <1>4 DEF Store
  <2>2. QED
    BY <1>0, <2>1, StoreIs DEF Typed
<1>5. CASE WriteEntry
  <2> DEFINE tables == Fetch.tables
  <2>1. PICK s \in Slots : \E c \in Choices[s] :
          /\ pt' = [tables EXCEPT ![s] = Fresh(c)]
          /\ saved' = [p \in Ram |-> IF tables[s].d /\ p \in Mapped(s, tables[s])
                                     THEN mem[p] ELSE saved[p]]
    BY <1>5 DEF WriteEntry
  <2>2. mem' = mem
    BY <1>5 DEF WriteEntry
  <2>3. \A r \in Slots \ {s} : pt'[r] = tables[r]
    BY <1>0, <2>1 DEF Tables
  <2>4. ASSUME NEW p \in Ram, mem'[p] # saved'[p]
        PROVE  Dirty(pt', p)
    <3> HIDE DEF tables
    <3>1. mem[p] # saved[p] /\ ~(tables[s].d /\ p \in Mapped(s, tables[s]))
      BY <2>1, <2>2, <2>4
    <3>2. PICK r \in Slots : tables[r].d /\ p \in Mapped(r, tables[r])
      BY <1>0, <3>1 DEF AllDirty, Dirty, tables
    <3>3. QED
      BY <2>3, <3>1, <3>2 DEF Dirty
  <2>5. QED
    BY <2>4 DEF AllDirty
<1>6. CASE FetchFault \/ InterruptTaken \/ UNCHANGED vars
  BY <1>6 DEF FetchFault, InterruptTaken, vars
<1>7. QED
  BY <1>1, <1>2, <1>3, <1>4, <1>5, <1>6 DEF Next

\* Whatever the order of stores, loads, fetches and writes of the page tables,
\* a page that a translated store has changed since it was saved is mapped by
\* an entry with D (get_phys_addr).
THEOREM ChangedPagesStayDirty == Spec => []ChangedPagesAreDirty
<1>1. ChangedPagesAreDirty <=> AllDirty(pt, mem, saved)
  BY DEF ChangedPagesAreDirty, AllDirty, Dirty
<1>2. Init => AllDirty(pt, mem, saved)
  BY DEF Init, AllDirty
<1>3. Typed /\ AllDirty(pt, mem, saved) /\ [Next]_vars => AllDirty(pt, mem, saved)'
  BY DirtyStep
<1>4. TypeOK <=> Typed
  BY TypedIs
<1>5. QED
  BY <1>1, <1>2, <1>3, <1>4, TypeCorrect, PTL DEF Spec

-----------------------------------------------------------------------------
(* The interpreter reads current instructions.                             *)

\* Auxiliary: what pc stands for is among the recent pages, and so is the page
\* of a block, as nothing that could change both leaves a block behind.
FetchInv ==
  /\ CodePage(pt, mmu, pc) \in recent
  /\ block # None => block \in recent

\* A step that ends the block at the address it goes to.
LEMMA NoBlock ==
  ASSUME NEW fence \in BOOLEAN, Remember(pc', fence), block' = None
  PROVE  FetchInv'
BY DEF Remember, FetchInv

LEMMA FetchCurrent ==
  ASSUME FetchInv
  PROVE  Fetch.page \in recent
BY DEF FetchInv, Fetch, CodePage, Outcome

\* A step that goes on in the block.
LEMMA AdvanceCurrent ==
  ASSUME FetchInv, Advance, Remember(pc', FALSE)
  PROVE  FetchInv'
<1>1. CASE block' = None
  BY <1>1, NoBlock
<1>2. CASE pc' = pc /\ block' = Fetch.page
  BY <1>2, FetchCurrent DEF Remember, FetchInv
<1>3. QED
  BY <1>1, <1>2 DEF Advance

LEMMA TrapCurrent ==
  ASSUME Trap
  PROVE  FetchInv'
BY NoBlock DEF Trap

LEMMA FetchInvStep ==
  ASSUME FetchInv, [Next]_vars
  PROVE  FetchInv'
<1>1. CASE Compute \/ WriteEntry \/ WriteStatus
  BY <1>1, AdvanceCurrent DEF Compute, WriteEntry, WriteStatus
<1>2. CASE Load
  BY <1>2, AdvanceCurrent, TrapCurrent DEF Load
<1>3. CASE Store
  BY <1>3, AdvanceCurrent, TrapCurrent DEF Store
<1>4. CASE StraddlingFault \/ Ecall \/ FetchFault \/ InterruptTaken
  BY <1>4, TrapCurrent DEF StraddlingFault, Ecall, FetchFault, InterruptTaken
<1>5. CASE StraddlingInstruction \/ Jump \/ WriteSatp \/ SfenceVma \/ Return
  BY <1>5, NoBlock DEF StraddlingInstruction, Jump, WriteSatp, SfenceVma, Return, JumpTo
<1>6. CASE UNCHANGED vars
  BY <1>6 DEF vars, FetchInv, CodePage
<1>7. QED
  BY <1>1, <1>2, <1>3, <1>4, <1>5, <1>6 DEF Next

\* An instruction comes from a page that its address stood for since the last
\* fence, although a block is not translated again (the code_ptr of
\* riscv_cpu_interp).
THEOREM FetchesStayCurrent == Spec => FetchesAreCurrent
<1>1. Init => FetchInv
  BY DEF Init, FetchInv, CodePage, Translate, EffectivePriv, MmuReset, Outcome, ACCESS_CODE
<1>2. FetchInv /\ [Next]_vars => FetchInv'
  BY FetchInvStep
<1>3. FetchInv /\ [Next]_vars => [fetched' # None => fetched' \in recent]_vars
  BY FetchCurrent
     DEF Next, Compute, StraddlingInstruction, StraddlingFault, Jump, Load, Store, Ecall,
         WriteEntry, WriteStatus, WriteSatp, SfenceVma, Return, FetchFault, InterruptTaken, Fetched
<1>4. QED
  BY <1>1, <1>2, <1>3, PTL DEF Spec, FetchesAreCurrent
=============================================================================
