------------------------------ MODULE TlbProofs ------------------------------
(***************************************************************************)
(* Proofs, for page tables, TLBs and guests of any size, that the TLBs are *)
(* invisible to a guest that fences, and that what it gets is Sv39.  In    *)
(* the first part the walk stays opaque: the argument is only about when   *)
(* an entry is made, matched and dropped.  The second unrolls the walk     *)
(* over its three levels and compares each with the architecture.          *)
(***************************************************************************)
EXTENDS Tlb, TLAPS

(* Every index of the TLBs holds an entry.                                 *)
Shape == tlb = [k \in Sides |-> [i \in Indices |-> tlb[k][i]]]

IInv == Shape /\ Coherent

-----------------------------------------------------------------------------
(* The low part of a page number selects an entry that exists.             *)
LEMMA IndexInRange == \A va \in Addrs : Index(va) \in Indices
<1> SUFFICES ASSUME NEW va \in Addrs PROVE Index(va) \in Indices
  OBVIOUS
<1>1. va.pn[0] \in Nat
  <2>1. va.pn \in [Levels -> Idx]
    BY DEF Addrs, Pages
  <2>2. 0 \in Levels
    BY DEF Levels
  <2> QED
    BY <2>1, <2>2, MmuAssumption DEF MmuAssumption
<1>2. TLB_SIZE \in Nat \ {0}
  BY TlbAssumption DEF TlbAssumption
<1> QED
  BY <1>1, <1>2 DEF Index, Indices

LEMMA SideInRange == \A mode \in Modes : SideOf(mode) \in Sides
  BY DEF SideOf, Sides, Modes

(* Taking the effective privilege twice, as a data access does, changes    *)
(* nothing.                                                                *)
LEMMA CallerIsEffective ==
  ASSUME NEW s, NEW mstatus, NEW mode, NEW priv
  PROVE  LET p == Caller(mstatus, mode, priv)
         IN  /\ effective_priv(mstatus, mode, p) = p
             /\ effective_priv(mstatus, mode, priv) = p
             /\ bypass_address_translation(s, mstatus, mode, p)
                  <=> bypass_address_translation(s, mstatus, mode, priv)
  BY DEF Caller, effective_priv, bypass_address_translation

(* No entry survives a flush.                                              *)
LEMMA FlushClean ==
  ASSUME Flush
  PROVE  IInv'
<1>1. Shape'
  BY DEF Flush, Shape, tlb_void
<1>2. \A k \in Sides, i \in Indices : tlb'[k][i].valid = FALSE
  BY DEF Flush, tlb_void, ZeroEntry, Entry
<1>3. Coherent'
  BY <1>2 DEF Coherent
<1> QED
  BY <1>1, <1>3 DEF IInv

(* A translation that succeeds and does not bypass comes from a leaf.      *)
LEMMA FillsLeaf ==
  ASSUME NEW mstatus, NEW mode, NEW priv, NEW va,
         Fills(mstatus, mode, priv, va)
  PROVE  page_table_walk_sv39(mem, satp, va).kind = "LEAF"
<1> DEFINE p == Caller(mstatus, mode, priv)
<1>1. mmu_translation(mem, satp, mstatus, mode, p, va).res = "VALID"
  BY DEF Fills
<1>2. ~bypass_address_translation(satp, mstatus, mode, p)
  BY DEF Fills
<1> QED
  BY <1>1, <1>2 DEF mmu_translation, Refused

-----------------------------------------------------------------------------
LEMMA InitInv == TlbInit => IInv
<1> SUFFICES ASSUME TlbInit PROVE IInv
  OBVIOUS
<1>1. Shape
  BY DEF TlbInit, Shape, tlb_void
<1>2. \A k \in Sides, i \in Indices : tlb[k][i].valid = FALSE
  BY DEF TlbInit, tlb_void, ZeroEntry, Entry
<1> QED
  BY <1>1, <1>2 DEF IInv, Coherent
-----------------------------------------------------------------------------
(* A fill writes the leaf just walked; the other entries stay as they are. *)
LEMMA AccessInv ==
  ASSUME IInv, NEW mstatus, NEW mode \in Modes, NEW priv, NEW va \in Addrs,
         Access(mstatus, mode, priv, va)
  PROVE  IInv'
<1> DEFINE k0 == SideOf(mode)
           i0 == Index(va)
           w0 == page_table_walk_sv39(mem, satp, va)
<1>1. k0 \in Sides /\ i0 \in Indices
  BY IndexInRange, SideInRange
<1>2. Shape
  BY DEF IInv
<1>3. tlb' = [tlb EXCEPT ![k0][i0] = Filled(va)]
  BY DEF Access
<1> HIDE DEF k0, i0
<1>4. /\ tlb'[k0][i0] = Filled(va)
      /\ \A k \in Sides, i \in Indices : <<k, i>> # <<k0, i0>> => tlb'[k][i] = tlb[k][i]
  BY <1>1, <1>2, <1>3 DEF Shape
<1>5. Shape'
  <2> DEFINE t == [k \in Sides |-> [i \in Indices |-> tlb[k][i]]]
  <2>1. tlb = t
    BY <1>2 DEF Shape
  <2>2. tlb' = [t EXCEPT ![k0][i0] = Filled(va)]
    BY <1>3, <2>1
  <2> QED
    BY <1>1, <2>2 DEF Shape
<1>6. stale' = stale \ {<<k0, i0>>} /\ mem' = mem /\ satp' = satp
  BY DEF Access, k0, i0
<1>7. w0.kind = "LEAF"
  BY FillsLeaf DEF Access
<1>8. ASSUME NEW k \in Sides, NEW i \in Indices
      PROVE  LET e == tlb'[k][i]
                 w == page_table_walk_sv39(mem', satp', e.tag)
             IN  e.valid /\ <<k, i>> \notin stale' =>
                   w.kind = "LEAF" /\ e.asid = satp'.asid /\ e.ppn = w.pn /\ e.flag = w.flag
  <2>1. CASE <<k, i>> = <<k0, i0>>
    <3>1. tlb'[k][i] = Entry(TRUE, satp.asid, va, w0.pn, w0.flag)
      BY <1>4, <2>1 DEF Filled
    <3> HIDE DEF w0
    <3>2. LET e == tlb'[k][i] IN e.tag = va /\ e.asid = satp.asid /\ e.ppn = w0.pn /\ e.flag = w0.flag
      BY <3>1 DEF Entry
    <3>3. page_table_walk_sv39(mem', satp', tlb'[k][i].tag) = w0
      BY <1>6, <3>2 DEF w0
    <3> QED
      BY <1>6, <1>7, <3>2, <3>3
  <2>2. CASE <<k, i>> # <<k0, i0>>
    <3>1. tlb'[k][i] = tlb[k][i] /\ (<<k, i>> \notin stale' => <<k, i>> \notin stale)
      BY <1>4, <1>6, <2>2
    <3>2. LET e == tlb[k][i]
              w == page_table_walk_sv39(mem, satp, e.tag)
          IN  e.valid /\ <<k, i>> \notin stale =>
                w.kind = "LEAF" /\ e.asid = satp.asid /\ e.ppn = w.pn /\ e.flag = w.flag
      BY DEF IInv, Coherent
    <3> QED
      BY <1>6, <3>1, <3>2
  <2> QED
    BY <2>1, <2>2
<1>9. Coherent'
  BY <1>8 DEF Coherent
<1> QED
  BY <1>5, <1>9 DEF IInv

(* After a change of the page tables every valid entry is one the guest    *)
(* has to fence.                                                           *)
LEMMA StoreInv ==
  ASSUME IInv, NEW slot, NEW pte, StorePte(slot, pte)
  PROVE  IInv'
<1>1. Shape'
  BY DEF IInv, Shape, StorePte
<1>2. \A k \in Sides, i \in Indices : tlb'[k][i].valid => <<k, i>> \in stale'
  BY DEF StorePte
<1>3. Coherent'
  BY <1>2 DEF Coherent
<1> QED
  BY <1>1, <1>3 DEF IInv

LEMMA NextInv == IInv /\ [TlbNext]_tlbVars => IInv'
<1> SUFFICES ASSUME IInv, [TlbNext]_tlbVars PROVE IInv'
  OBVIOUS
<1>1. CASE UNCHANGED tlbVars
  BY <1>1 DEF tlbVars, IInv, Shape, Coherent
<1>2. CASE \E c \in Contexts, mode \in Modes, va \in Vas :
             Access(c[2], mode, c[1], va) \/ AccessNoFill(c[2], mode, c[1], va)
  <2>1. PICK c \in Contexts, mode \in Modes, va \in Vas :
          Access(c[2], mode, c[1], va) \/ AccessNoFill(c[2], mode, c[1], va)
    BY <1>2
  <2>2. va \in Addrs
    BY TlbAssumption DEF TlbAssumption
  <2>3. CASE Access(c[2], mode, c[1], va)
    BY <2>2, <2>3, AccessInv
  <2>4. CASE AccessNoFill(c[2], mode, c[1], va)
    BY <2>4, <1>1 DEF AccessNoFill
  <2> QED
    BY <2>1, <2>3, <2>4
<1>3. CASE \E slot \in Slots, pte \in PteValues : StorePte(slot, pte)
  BY <1>3, StoreInv
<1>4. CASE SfenceVma \/ (\E s \in SatpValues : WriteSatp(s)) \/ WriteBadSatp \/ Reboot
  BY <1>4, FlushClean DEF SfenceVma, WriteSatp, WriteBadSatp, FlushOnSatp, Reboot
<1> QED
  BY <1>1, <1>2, <1>3, <1>4 DEF TlbNext

(* An entry that matches and needs no fence decides as the walk does.      *)
LEMMA CoherentLookup == IInv => LookupIsWalk
<1> SUFFICES ASSUME IInv, NEW c \in Contexts, NEW mode \in Modes, NEW va \in Vas,
                    ~StaleHit(mode, va)
             PROVE  tlb_lookup(c[2], mode, c[1], va) = mmu_translation(mem, satp, c[2], mode, c[1], va)
  BY DEF LookupIsWalk
<1> DEFINE p == Caller(c[2], mode, c[1])
           k == SideOf(mode)
           i == Index(va)
           e == tlb[k][i]
           w == page_table_walk_sv39(mem, satp, va)
<1>1. k \in Sides /\ i \in Indices
  BY IndexInRange, SideInRange, TlbAssumption DEF TlbAssumption
<1>2. /\ effective_priv(c[2], mode, p) = p
      /\ effective_priv(c[2], mode, c[1]) = p
      /\ bypass_address_translation(satp, c[2], mode, p)
           <=> bypass_address_translation(satp, c[2], mode, c[1])
  BY CallerIsEffective
<1>3. CASE Hit(k, va) /\ ~bypass_address_translation(satp, c[2], mode, p)
  <2>1. e.valid /\ e.tag = va /\ <<k, i>> \notin stale
    BY <1>3 DEF StaleHit, Hit
  <2>2. w.kind = "LEAF" /\ e.ppn = w.pn /\ e.flag = w.flag
    BY <1>1, <2>1 DEF IInv, Coherent
  <2>3. tlb_lookup(c[2], mode, c[1], va) = Granted(e.flag, e.ppn, c[2], mode, p)
    BY <1>3 DEF tlb_lookup
  <2>4. mmu_translation(mem, satp, c[2], mode, c[1], va) = Granted(w.flag, w.pn, c[2], mode, p)
    BY <1>2, <1>3, <2>2 DEF mmu_translation
  <2> QED
    BY <2>2, <2>3, <2>4
<1>4. CASE ~Hit(k, va) /\ ~bypass_address_translation(satp, c[2], mode, p)
  <2>1. tlb_lookup(c[2], mode, c[1], va) = mmu_translation(mem, satp, c[2], mode, p, va)
    BY <1>4 DEF tlb_lookup
  <2> QED
    BY <1>2, <2>1 DEF mmu_translation
<1>5. CASE bypass_address_translation(satp, c[2], mode, p)
  BY <1>2, <1>5 DEF tlb_lookup, mmu_translation
<1> QED
  BY <1>3, <1>4, <1>5

(* tlb.c: for any number of entries, page tables and address spaces, a     *)
(* guest that fences after changing its page tables cannot tell that there *)
(* are TLBs.                                                               *)
THEOREM TlbTransparent == TlbSpec => [](Coherent /\ LookupIsWalk)
<1>1. TlbInit => IInv
  BY InitInv
<1>2. IInv /\ [TlbNext]_tlbVars => IInv'
  BY NextInv
<1>3. IInv => Coherent /\ LookupIsWalk
  BY CoherentLookup DEF IInv
<1> QED
  BY <1>1, <1>2, <1>3, PTL DEF TlbSpec

\* Every entry of either TLB that no fence is owed for is the leaf that the page tables hold now,
\* of the current address space, so that a hit of tlb_lookup on it is never out of date.
THEOREM TlbCoherent == TlbSpec => []Coherent
BY TlbTransparent, PTL

-----------------------------------------------------------------------------
(* The walk, level by level.                                               *)
Visit(m, va, level, base, below) ==
  LET pte == m[base][va.pn[level]]
  IN  IF base \notin Tables THEN Fault("ACCESS_FAULT")
      ELSE IF Malformed(pte.flags) THEN Fault("PAGE_FAULT")
      ELSE IF Pointer(pte.flags)
           THEN IF level = 0 \/ pte.flags \cap {"U", "A", "D"} # {} THEN Fault("PAGE_FAULT") ELSE below
      ELSE IF Misaligned(pte, level) THEN Fault("PAGE_FAULT")
      ELSE Leaf(pte.flags, Superpage(pte, va.pn, level))

IsStep(f, m, va) ==
  f = [level \in Levels |-> [base \in Pages |->
        Visit(m, va, level, base, f[level - 1][m[base][va.pn[level]].ppn])]]

Step(m, va) == CHOOSE f : IsStep(f, m, va)

LEMMA WalkIsStep ==
  ASSUME NEW m, NEW s, NEW va
  PROVE  page_table_walk_sv39(m, s, va) = IF va.canonical THEN Step(m, va)[2][s.ppn] ELSE Fault("PAGE_FAULT")
BY Zenon DEF page_table_walk_sv39, Step, IsStep, Visit

Visit0(m, va, base) == Visit(m, va, 0, base, 0)
Visit1(m, va, base) == Visit(m, va, 1, base, Visit0(m, va, m[base][va.pn[1]].ppn))
Visit2(m, va, base) == Visit(m, va, 2, base, Visit1(m, va, m[base][va.pn[2]].ppn))

(* What is below does not matter where the walk does not go there.         *)
LEMMA VisitBelow ==
  ASSUME NEW m, NEW va, NEW level, NEW base, NEW x, NEW y, level = 0 \/ base \notin Tables \/ x = y
  PROVE  Visit(m, va, level, base, x) = Visit(m, va, level, base, y)
BY DEF Visit

LEMMA ThreeLevels ==
  /\ 0 \in Levels /\ 1 \in Levels /\ 2 \in Levels
  /\ \A l \in Levels : l = 0 \/ l = 1 \/ l = 2
  /\ 1 - 1 = 0 /\ 2 - 1 = 1
BY DEF Levels

LEMMA PpnIsPage ==
  ASSUME NEW m \in Mems, NEW va \in Addrs, NEW base \in Tables, NEW level \in Levels
  PROVE  m[base][va.pn[level]] \in Ptes /\ m[base][va.pn[level]].ppn \in Pages
<1>1. va.pn[level] \in Idx
  BY DEF Addrs, Pages
<1>2. m[base][va.pn[level]] \in Ptes
  BY <1>1 DEF Mems
<1> QED BY <1>2 DEF Ptes

LEMMA StepExists ==
  ASSUME NEW m \in Mems, NEW va \in Addrs
  PROVE  IsStep(Step(m, va), m, va)
<1> DEFINE F(level) == [base \in Pages |-> IF level = 0 THEN Visit0(m, va, base)
                          ELSE IF level = 1 THEN Visit1(m, va, base) ELSE Visit2(m, va, base)]
           f == [level \in Levels |-> F(level)]
           G(level) == [base \in Pages |-> Visit(m, va, level, base, f[level - 1][m[base][va.pn[level]].ppn])]
<1>1. ASSUME NEW level \in Levels, NEW base \in Pages
      PROVE  F(level)[base] = G(level)[base]
  <2>0. f[0] = F(0) /\ f[1] = F(1)
    BY ThreeLevels
  <2> DEFINE ppn == m[base][va.pn[level]].ppn
  <2>1. CASE level = 0
    <3>1. F(0)[base] = Visit0(m, va, base)
      OBVIOUS
    <3> QED BY <2>1, <3>1, VisitBelow DEF Visit0
  <2>2. CASE level = 1
    <3>1. F(1)[base] = Visit1(m, va, base)
      OBVIOUS
    <3>2. base \in Tables => f[level - 1][ppn] = Visit0(m, va, ppn)
      BY <2>0, <2>2, PpnIsPage, ThreeLevels
    <3> HIDE DEF f, F
    <3> QED BY <2>2, <3>1, <3>2, VisitBelow DEF Visit1
  <2>3. CASE level = 2
    <3>1. F(2)[base] = Visit2(m, va, base)
      OBVIOUS
    <3>2. base \in Tables => f[level - 1][ppn] = Visit1(m, va, ppn)
      BY <2>0, <2>3, PpnIsPage, ThreeLevels
    <3> HIDE DEF f, F
    <3> QED BY <2>3, <3>1, <3>2, VisitBelow DEF Visit2
  <2> HIDE DEF F, G
  <2> QED BY <2>1, <2>2, <2>3, ThreeLevels
<1>2. ASSUME NEW level \in Levels PROVE F(level) = G(level)
  BY <1>1
<1>3. f = [level \in Levels |-> G(level)]
  <2> HIDE DEF F, G
  <2>1. \A level \in Levels : F(level) = G(level)
    BY <1>2
  <2>2. [level \in Levels |-> F(level)] = [level \in Levels |-> G(level)]
    BY <2>1
  <2> QED BY <2>2
<1>4. IsStep(f, m, va)
  <2> HIDE DEF f
  <2> QED BY <1>3 DEF IsStep
<1> QED BY <1>4 DEF Step

(* The three levels.                                                       *)
LEMMA WalkLevels ==
  ASSUME NEW m \in Mems, NEW s \in Satps, NEW va \in Addrs, va.canonical
  PROVE  page_table_walk_sv39(m, s, va) = Visit2(m, va, s.ppn)
<1>1. PICK f : f = Step(m, va) /\ IsStep(f, m, va)
  BY StepExists
<1>2. \A level \in Levels, base \in Pages :
        f[level][base] = Visit(m, va, level, base, f[level - 1][m[base][va.pn[level]].ppn])
  <2> DEFINE H(level, base) == Visit(m, va, level, base, f[level - 1][m[base][va.pn[level]].ppn])
  <2>1. f = [level \in Levels |-> [base \in Pages |-> H(level, base)]]
    BY <1>1 DEF IsStep
  <2> HIDE DEF H
  <2>2. \A level \in Levels, base \in Pages : f[level][base] = H(level, base)
    BY <2>1
  <2> QED BY <2>2 DEF H
<1>3. \A base \in Pages : f[0][base] = Visit0(m, va, base)
  BY <1>2, VisitBelow, ThreeLevels DEF Visit0
<1>4. ASSUME NEW base \in Pages PROVE f[1][base] = Visit1(m, va, base)
  <2>1. f[1][base] = Visit(m, va, 1, base, f[0][m[base][va.pn[1]].ppn])
    BY <1>2, ThreeLevels
  <2>2. base \in Tables => f[0][m[base][va.pn[1]].ppn] = Visit0(m, va, m[base][va.pn[1]].ppn)
    BY <1>3, PpnIsPage, ThreeLevels
  <2> QED BY <2>1, <2>2, VisitBelow DEF Visit1
<1>5. ASSUME NEW base \in Pages PROVE f[2][base] = Visit2(m, va, base)
  <2>1. f[2][base] = Visit(m, va, 2, base, f[1][m[base][va.pn[2]].ppn])
    BY <1>2, ThreeLevels
  <2>2. base \in Tables => f[1][m[base][va.pn[2]].ppn] = Visit1(m, va, m[base][va.pn[2]].ppn)
    BY <1>4, PpnIsPage, ThreeLevels
  <2> QED BY <2>1, <2>2, VisitBelow DEF Visit2
<1>6. s.ppn \in Pages
  BY DEF Satps
<1> QED BY <1>1, <1>5, <1>6, WalkIsStep

(* A PTE that ends the walk with a mapping, and one that leads on: what    *)
(* the checks of the code amount to.                                       *)
GoodLeaf(pte, level) ==
  /\ "V" \in pte.flags /\ "RSV" \notin pte.flags
  /\ "R" \in pte.flags \/ ("X" \in pte.flags /\ "W" \notin pte.flags)
  /\ \A i \in 0 .. level - 1 : pte.ppn[i] = 0

LEMMA LeafChecks ==
  ASSUME NEW pte \in Ptes, NEW level \in Levels
  PROVE  ~Malformed(pte.flags) /\ ~Pointer(pte.flags) /\ ~Misaligned(pte, level) <=> GoodLeaf(pte, level)
<1>1. Misaligned(pte, level) <=> ~\A i \in 0 .. level - 1 : pte.ppn[i] = 0
  BY DEF Misaligned, Levels
<1> QED BY <1>1 DEF Malformed, Pointer, GoodLeaf

LEMMA PointerChecks ==
  ASSUME NEW pte \in Ptes
  PROVE  ~Malformed(pte.flags) /\ Pointer(pte.flags) /\ pte.flags \cap {"U", "A", "D"} = {}
           <=> pte.flags = {"V"}
<1>1. pte.flags \subseteq Flags
  BY DEF Ptes
<1> QED BY <1>1 DEF Malformed, Pointer, Flags

(* One level of the walk, in those terms.                                  *)
LEMMA VisitCases ==
  ASSUME NEW m \in Mems, NEW va \in Addrs, NEW level \in Levels, NEW base \in Pages, NEW below
  PROVE  LET pte == m[base][va.pn[level]]
             v == Visit(m, va, level, base, below)
         IN  /\ base \notin Tables => v = Fault("ACCESS_FAULT")
             /\ base \in Tables /\ GoodLeaf(pte, level) =>
                  v = Leaf(pte.flags, Superpage(pte, va.pn, level))
             /\ base \in Tables /\ pte.flags = {"V"} /\ level # 0 => v = below
             /\ base \in Tables /\ ~GoodLeaf(pte, level) /\ ~(pte.flags = {"V"} /\ level # 0) =>
                  v = Fault("PAGE_FAULT")
<1> DEFINE pte == m[base][va.pn[level]]
           v == Visit(m, va, level, base, below)
<1>1. CASE base \notin Tables
  BY <1>1 DEF Visit
<1>2. CASE base \in Tables
  <2>1. pte \in Ptes
    BY <1>2, PpnIsPage
  <2>2. v = IF Malformed(pte.flags) THEN Fault("PAGE_FAULT")
            ELSE IF Pointer(pte.flags)
                 THEN IF level = 0 \/ pte.flags \cap {"U", "A", "D"} # {} THEN Fault("PAGE_FAULT") ELSE below
            ELSE IF Misaligned(pte, level) THEN Fault("PAGE_FAULT")
            ELSE Leaf(pte.flags, Superpage(pte, va.pn, level))
    BY <1>2 DEF Visit
  <2> HIDE DEF pte, v
  <2>3. /\ ~Malformed(pte.flags) /\ ~Pointer(pte.flags) /\ ~Misaligned(pte, level) <=> GoodLeaf(pte, level)
        /\ ~Malformed(pte.flags) /\ Pointer(pte.flags) /\ pte.flags \cap {"U", "A", "D"} = {}
             <=> pte.flags = {"V"}
    BY <2>1, LeafChecks, PointerChecks
  <2>4. GoodLeaf(pte, level) => v = Leaf(pte.flags, Superpage(pte, va.pn, level))
    BY <2>2, <2>3, Zenon
  <2>5. pte.flags = {"V"} /\ level # 0 => v = below
    BY <2>2, <2>3, Zenon
  <2>6. ~GoodLeaf(pte, level) /\ ~(pte.flags = {"V"} /\ level # 0) => v = Fault("PAGE_FAULT")
    BY <2>2, <2>3, Zenon
  <2> QED BY <1>2, <2>4, <2>5, <2>6 DEF pte, v
<1> QED BY <1>1, <1>2

-----------------------------------------------------------------------------
(* The tables an address leads to, and whether the walk gets there.        *)
Pte2(va) == mem[satp.ppn][va.pn[2]]
Pte1(va) == mem[Pte2(va).ppn][va.pn[1]]
Pte0(va) == mem[Pte1(va).ppn][va.pn[0]]

BaseAt(va, level) == IF level = 2 THEN satp.ppn ELSE IF level = 1 THEN Pte2(va).ppn ELSE Pte1(va).ppn
PteAt(va, level) == IF level = 2 THEN Pte2(va) ELSE IF level = 1 THEN Pte1(va) ELSE Pte0(va)

Reached2(va) == satp.ppn \in Tables
Reached1(va) == Reached2(va) /\ Pte2(va).flags = {"V"} /\ Pte2(va).ppn \in Tables
Reached0(va) == Reached1(va) /\ Pte1(va).flags = {"V"} /\ Pte1(va).ppn \in Tables
Reached(va, level) == IF level = 2 THEN Reached2(va) ELSE IF level = 1 THEN Reached1(va) ELSE Reached0(va)

Typed == mem \in Mems /\ satp \in Satps

LEMMA ReachedPtes ==
  ASSUME Typed, NEW va \in Addrs
  PROVE  /\ satp.ppn \in Pages
         /\ Reached2(va) => Pte2(va) \in Ptes /\ Pte2(va).ppn \in Pages
         /\ Reached1(va) => Pte1(va) \in Ptes /\ Pte1(va).ppn \in Pages
         /\ Reached0(va) => Pte0(va) \in Ptes
<1>1. satp.ppn \in Pages
  BY DEF Typed, Satps
<1>2. Reached2(va) => Pte2(va) \in Ptes /\ Pte2(va).ppn \in Pages
  BY PpnIsPage, ThreeLevels DEF Typed, Reached2, Pte2
<1>3. Reached1(va) => Pte1(va) \in Ptes /\ Pte1(va).ppn \in Pages
  BY PpnIsPage, ThreeLevels DEF Typed, Reached1, Pte1
<1>4. Reached0(va) => Pte0(va) \in Ptes
  BY PpnIsPage, ThreeLevels DEF Typed, Reached0, Pte0
<1> QED BY <1>1, <1>2, <1>3, <1>4

LEMMA PointerPte ==
  ASSUME NEW pte \in Ptes, NEW t
  PROVE  pte = [flags |-> {"V"}, ppn |-> t] <=> pte.flags = {"V"} /\ pte.ppn = t
BY DEF Ptes

(* The paths of the specification are the walk's.                          *)
LEMMA PathIs ==
  ASSUME Typed, NEW va \in Addrs, NEW level \in Levels, NEW pte
  PROVE  PathTo(va, level, pte) <=> Reached(va, level) /\ pte = PteAt(va, level)
<1> USE DEF Reached2, Reached1, Reached0
<1>1. CASE level = 2
  <2>1. ASSUME Reached2(va), pte = Pte2(va) PROVE PathTo(va, 2, pte)
    <3> DEFINE p == [j \in 2 .. 2 |-> satp.ppn]
    <3>1. p \in [2 .. 2 -> Tables] /\ p[2] = satp.ppn
      BY <2>1
    <3>2. \A j \in 2 + 1 .. 2 : mem[p[j]][va.pn[j]] = [flags |-> {"V"}, ppn |-> p[j - 1]]
      OBVIOUS
    <3> HIDE DEF p
    <3> QED BY <2>1, <3>1, <3>2 DEF PathTo, Pte2
  <2>2. ASSUME PathTo(va, 2, pte) PROVE Reached2(va) /\ pte = Pte2(va)
    BY <2>2 DEF PathTo, Pte2
  <2> QED BY <1>1, <2>1, <2>2 DEF Reached, PteAt
<1>2. CASE level = 1
  <2>1. ASSUME Reached1(va), pte = Pte1(va) PROVE PathTo(va, 1, pte)
    <3> DEFINE p == [j \in 1 .. 2 |-> IF j = 2 THEN satp.ppn ELSE Pte2(va).ppn]
    <3>1. p \in [1 .. 2 -> Tables] /\ p[2] = satp.ppn /\ p[1] = Pte2(va).ppn
      BY <2>1
    <3> HIDE DEF p
    <3>2. mem[p[2]][va.pn[2]] = [flags |-> {"V"}, ppn |-> p[1]]
      <4>1. Pte2(va) \in Ptes
        BY <2>1, ReachedPtes
      <4>2. Pte2(va) = [flags |-> {"V"}, ppn |-> p[1]]
        BY <2>1, <3>1, <4>1, PointerPte
      <4> QED BY <3>1, <4>2 DEF Pte2
    <3>3. \A j \in 1 + 1 .. 2 : mem[p[j]][va.pn[j]] = [flags |-> {"V"}, ppn |-> p[j - 1]]
      <4>1. \A j \in 1 + 1 .. 2 : j = 2 /\ j - 1 = 1
        OBVIOUS
      <4> QED BY <3>2, <4>1, Zenon
    <3> QED BY <2>1, <3>1, <3>3 DEF PathTo, Pte1
  <2>2. ASSUME PathTo(va, 1, pte) PROVE Reached1(va) /\ pte = Pte1(va)
    <3>1. PICK p \in [1 .. 2 -> Tables] :
            /\ p[2] = satp.ppn
            /\ \A j \in 1 + 1 .. 2 : mem[p[j]][va.pn[j]] = [flags |-> {"V"}, ppn |-> p[j - 1]]
            /\ pte = mem[p[1]][va.pn[1]]
      BY <2>2 DEF PathTo
    <3>2. Pte2(va) = [flags |-> {"V"}, ppn |-> p[1]]
      BY <3>1 DEF Pte2
    <3>3. Pte2(va).flags = {"V"} /\ Pte2(va).ppn = p[1]
      BY <3>2
    <3>4. p[1] \in Tables /\ p[2] \in Tables
      OBVIOUS
    <3> QED BY <3>1, <3>3, <3>4 DEF Pte1
  <2> QED BY <1>2, <2>1, <2>2 DEF Reached, PteAt
<1>3. CASE level = 0
  <2>1. ASSUME Reached0(va), pte = Pte0(va) PROVE PathTo(va, 0, pte)
    <3> DEFINE p == [j \in 0 .. 2 |-> IF j = 2 THEN satp.ppn ELSE IF j = 1 THEN Pte2(va).ppn ELSE Pte1(va).ppn]
    <3>1. p \in [0 .. 2 -> Tables] /\ p[2] = satp.ppn /\ p[1] = Pte2(va).ppn /\ p[0] = Pte1(va).ppn
      BY <2>1
    <3> HIDE DEF p
    <3>2. Pte2(va) \in Ptes /\ Pte1(va) \in Ptes
      BY <2>1, ReachedPtes
    <3>3. /\ mem[p[2]][va.pn[2]] = [flags |-> {"V"}, ppn |-> p[1]]
          /\ mem[p[1]][va.pn[1]] = [flags |-> {"V"}, ppn |-> p[0]]
      <4>1. Pte2(va) = [flags |-> {"V"}, ppn |-> p[1]] /\ Pte1(va) = [flags |-> {"V"}, ppn |-> p[0]]
        BY <2>1, <3>1, <3>2, PointerPte
      <4>2. Pte2(va) = mem[p[2]][va.pn[2]] /\ Pte1(va) = mem[p[1]][va.pn[1]]
        BY <3>1 DEF Pte2, Pte1
      <4> QED BY <4>1, <4>2
    <3>4. \A j \in 0 + 1 .. 2 : mem[p[j]][va.pn[j]] = [flags |-> {"V"}, ppn |-> p[j - 1]]
      <4>1. \A j \in 0 + 1 .. 2 : (j = 1 /\ j - 1 = 0) \/ (j = 2 /\ j - 1 = 1)
        OBVIOUS
      <4> QED BY <3>3, <4>1, Zenon
    <3> QED BY <2>1, <3>1, <3>4 DEF PathTo, Pte0
  <2>2. ASSUME PathTo(va, 0, pte) PROVE Reached0(va) /\ pte = Pte0(va)
    <3>1. PICK p \in [0 .. 2 -> Tables] :
            /\ p[2] = satp.ppn
            /\ \A j \in 0 + 1 .. 2 : mem[p[j]][va.pn[j]] = [flags |-> {"V"}, ppn |-> p[j - 1]]
            /\ pte = mem[p[0]][va.pn[0]]
      BY <2>2 DEF PathTo
    <3>2. Pte2(va) = [flags |-> {"V"}, ppn |-> p[1]]
      BY <3>1 DEF Pte2
    <3>3. Pte2(va).flags = {"V"} /\ Pte2(va).ppn = p[1]
      BY <3>2
    <3>4. Pte1(va) = [flags |-> {"V"}, ppn |-> p[0]]
      BY <3>1, <3>3 DEF Pte1
    <3>5. Pte1(va).flags = {"V"} /\ Pte1(va).ppn = p[0]
      BY <3>4
    <3>6. p[0] \in Tables /\ p[1] \in Tables /\ p[2] \in Tables
      OBVIOUS
    <3> QED BY <3>1, <3>3, <3>5, <3>6 DEF Pte0
  <2> QED BY <1>3, <2>1, <2>2 DEF Reached, PteAt
<1> QED BY <1>1, <1>2, <1>3, ThreeLevels

(* What the walk returns, in those terms.                                  *)
LEMMA WalkCases ==
  ASSUME Typed, NEW va \in Addrs, va.canonical
  PROVE  LET w == page_table_walk_sv39(mem, satp, va)
         IN  \/ \E level \in Levels :
                  /\ Reached(va, level) /\ GoodLeaf(PteAt(va, level), level)
                  /\ w = Leaf(PteAt(va, level).flags, Superpage(PteAt(va, level), va.pn, level))
             \/ /\ w = Fault("ACCESS_FAULT")
                /\ \A level \in Levels : ~(Reached(va, level) /\ GoodLeaf(PteAt(va, level), level))
                /\ \E level \in Levels :
                     /\ BaseAt(va, level) \in Pages \ Tables
                     /\ level # 2 => Reached(va, level + 1) /\ PteAt(va, level + 1).flags = {"V"}
             \/ /\ w = Fault("PAGE_FAULT")
                /\ \A level \in Levels : ~(Reached(va, level) /\ GoodLeaf(PteAt(va, level), level))
<1> DEFINE w == page_table_walk_sv39(mem, satp, va)
           Found(level) ==
             /\ Reached(va, level) /\ GoodLeaf(PteAt(va, level), level)
             /\ w = Leaf(PteAt(va, level).flags, Superpage(PteAt(va, level), va.pn, level))
           NoLeaf == /\ ~(Reached2(va) /\ GoodLeaf(Pte2(va), 2))
                     /\ ~(Reached1(va) /\ GoodLeaf(Pte1(va), 1))
                     /\ ~(Reached0(va) /\ GoodLeaf(Pte0(va), 0))
           Lost(level) ==
             /\ w = Fault("ACCESS_FAULT") /\ NoLeaf
             /\ BaseAt(va, level) \in Pages \ Tables
             /\ level # 2 => Reached(va, level + 1) /\ PteAt(va, level + 1).flags = {"V"}
           Ended == w = Fault("PAGE_FAULT") /\ NoLeaf
<1>0. /\ Reached(va, 2) = Reached2(va) /\ Reached(va, 1) = Reached1(va) /\ Reached(va, 0) = Reached0(va)
      /\ PteAt(va, 2) = Pte2(va) /\ PteAt(va, 1) = Pte1(va) /\ PteAt(va, 0) = Pte0(va)
      /\ BaseAt(va, 2) = satp.ppn /\ BaseAt(va, 1) = Pte2(va).ppn /\ BaseAt(va, 0) = Pte1(va).ppn
  BY DEF Reached, PteAt, BaseAt
<1>1. w = Visit2(mem, va, satp.ppn)
  BY WalkLevels DEF Typed
<1>2. \A pte, level : GoodLeaf(pte, level) => pte.flags # {"V"}
  BY DEF GoodLeaf
<1> HIDE DEF w
<1>3. Found(2) \/ Found(1) \/ Found(0) \/ Lost(2) \/ Lost(1) \/ Lost(0) \/ Ended
  <2>1. /\ ~Reached2(va) => w = Fault("ACCESS_FAULT")
        /\ Reached2(va) /\ GoodLeaf(Pte2(va), 2) => w = Leaf(Pte2(va).flags, Superpage(Pte2(va), va.pn, 2))
        /\ Reached2(va) /\ Pte2(va).flags = {"V"} => w = Visit1(mem, va, Pte2(va).ppn)
        /\ Reached2(va) /\ ~GoodLeaf(Pte2(va), 2) /\ Pte2(va).flags # {"V"} => w = Fault("PAGE_FAULT")
    BY <1>1, VisitCases, ReachedPtes, ThreeLevels DEF Visit2, Pte2, Reached2, Typed
  <2>2. ASSUME Reached2(va), Pte2(va).flags = {"V"}
        PROVE  /\ ~Reached1(va) => w = Fault("ACCESS_FAULT")
               /\ Reached1(va) /\ GoodLeaf(Pte1(va), 1) => w = Leaf(Pte1(va).flags, Superpage(Pte1(va), va.pn, 1))
               /\ Reached1(va) /\ Pte1(va).flags = {"V"} => w = Visit0(mem, va, Pte1(va).ppn)
               /\ Reached1(va) /\ ~GoodLeaf(Pte1(va), 1) /\ Pte1(va).flags # {"V"} => w = Fault("PAGE_FAULT")
    <3>1. w = Visit(mem, va, 1, Pte2(va).ppn, Visit0(mem, va, Pte1(va).ppn))
      BY <2>1, <2>2 DEF Visit1, Pte1
    <3>2. mem \in Mems /\ 1 \in Levels /\ Pte2(va).ppn \in Pages
      BY <2>2, ReachedPtes, ThreeLevels DEF Typed
    <3>3. Reached1(va) <=> Pte2(va).ppn \in Tables
      BY <2>2 DEF Reached1
    <3> QED BY <3>1, <3>2, <3>3, VisitCases DEF Pte1
  <2>3. ASSUME Reached1(va), Pte1(va).flags = {"V"}
        PROVE  /\ ~Reached0(va) => w = Fault("ACCESS_FAULT")
               /\ Reached0(va) /\ GoodLeaf(Pte0(va), 0) => w = Leaf(Pte0(va).flags, Superpage(Pte0(va), va.pn, 0))
               /\ Reached0(va) /\ ~GoodLeaf(Pte0(va), 0) => w = Fault("PAGE_FAULT")
    <3>1. w = Visit0(mem, va, Pte1(va).ppn)
      BY <2>2, <2>3 DEF Reached1
    <3>2. mem \in Mems /\ 0 \in Levels /\ Pte1(va).ppn \in Pages
      BY <2>3, ReachedPtes, ThreeLevels DEF Typed
    <3>3. Reached0(va) <=> Pte1(va).ppn \in Tables
      BY <2>3 DEF Reached0
    <3> QED BY <3>1, <3>2, <3>3, VisitCases DEF Visit0, Pte0
  <2>4. CASE ~Reached2(va)
    BY <1>0, <2>1, <2>4, ReachedPtes DEF Reached2, Reached1, Reached0
  <2>5. CASE Reached2(va) /\ GoodLeaf(Pte2(va), 2)
    BY <1>0, <2>1, <2>5
  <2>6. CASE Reached2(va) /\ ~GoodLeaf(Pte2(va), 2) /\ Pte2(va).flags # {"V"}
    BY <2>1, <2>6 DEF Reached1, Reached0
  <2>7. CASE Reached2(va) /\ Pte2(va).flags = {"V"} /\ ~Reached1(va)
    <3>1. w = Fault("ACCESS_FAULT") /\ Pte2(va).ppn \in Pages \ Tables
      BY <2>2, <2>7, ReachedPtes DEF Reached1
    <3>2. Lost(1)
      <4>1. Reached(va, 1 + 1) /\ PteAt(va, 1 + 1).flags = {"V"}
        BY <2>7 DEF Reached, PteAt
      <4>2. NoLeaf
        BY <1>2, <2>7 DEF Reached0
      <4> QED BY <1>0, <3>1, <4>1, <4>2
    <3> QED BY <3>2
  <2>8. CASE Reached1(va) /\ GoodLeaf(Pte1(va), 1)
    BY <1>0, <2>2, <2>8 DEF Reached1
  <2>9. CASE Reached1(va) /\ ~GoodLeaf(Pte1(va), 1) /\ Pte1(va).flags # {"V"}
    BY <1>2, <2>2, <2>9 DEF Reached1, Reached0
  <2>10. CASE Reached1(va) /\ Pte1(va).flags = {"V"} /\ ~Reached0(va)
    <3>1. w = Fault("ACCESS_FAULT") /\ Pte1(va).ppn \in Pages \ Tables
      BY <2>3, <2>10, ReachedPtes DEF Reached0
    <3>2. Lost(0)
      <4>1. Reached(va, 0 + 1) /\ PteAt(va, 0 + 1).flags = {"V"}
        BY <2>10 DEF Reached, PteAt
      <4>2. NoLeaf
        BY <1>2, <2>10 DEF Reached1
      <4> QED BY <1>0, <3>1, <4>1, <4>2
    <3> QED BY <3>2
  <2>11. CASE Reached0(va) /\ GoodLeaf(Pte0(va), 0)
    BY <1>0, <2>3, <2>11 DEF Reached0
  <2>12. CASE Reached0(va) /\ ~GoodLeaf(Pte0(va), 0)
    BY <1>2, <2>3, <2>12 DEF Reached0, Reached1
  <2> HIDE DEF Found, Lost, Ended
  <2> QED BY <2>4, <2>5, <2>6, <2>7, <2>8, <2>9, <2>10, <2>11, <2>12
<1>4. CASE Found(2) \/ Found(1) \/ Found(0)
  BY <1>4, ThreeLevels DEF w
<1>5. CASE Lost(2) \/ Lost(1) \/ Lost(0)
  <2>1. PICK level \in Levels : Lost(level)
    BY <1>5, ThreeLevels
  <2>2. \A l \in Levels : ~(Reached(va, l) /\ GoodLeaf(PteAt(va, l), l))
    BY <1>0, <2>1, ThreeLevels
  <2> QED BY <2>1, <2>2 DEF w
<1>6. CASE Ended
  BY <1>0, <1>6, ThreeLevels DEF w
<1> QED BY <1>3, <1>4, <1>5, <1>6

(* There is one leaf at most.                                              *)
LEMMA OneLeaf ==
  ASSUME NEW va, NEW l \in Levels, NEW k \in Levels,
         Reached(va, l), GoodLeaf(PteAt(va, l), l), Reached(va, k), GoodLeaf(PteAt(va, k), k)
  PROVE  l = k
<1>1. \A pte, level : GoodLeaf(pte, level) => pte.flags # {"V"}
  BY DEF GoodLeaf
<1> QED BY <1>1, ThreeLevels DEF Reached, PteAt, Reached2, Reached1, Reached0

LEMMA PermissionIsAllowed ==
  ASSUME NEW pte, NEW level, GoodLeaf(pte, level), NEW ms, NEW mode \in Modes, NEW priv \in {"U", "S"}
  PROVE  pte_permission_check(pte.flags, ms, mode, priv) <=> Allowed(pte.flags, ms, mode, priv)
<1> DEFINE f == pte.flags
<1>1. "R" \in f \/ ("X" \in f /\ "W" \notin f)
  BY DEF GoodLeaf
<1> HIDE DEF f
<1>2. /\ f \cap {"X", "W", "R"} = {"R"} <=> "R" \in f /\ "W" \notin f /\ "X" \notin f
      /\ f \cap {"X", "W", "R"} = {"R", "W"} <=> "R" \in f /\ "W" \in f /\ "X" \notin f
      /\ f \cap {"X", "W", "R"} = {"X"} <=> "R" \notin f /\ "W" \notin f /\ "X" \in f
      /\ f \cap {"X", "W", "R"} = {"R", "X"} <=> "R" \in f /\ "W" \notin f /\ "X" \in f
  OBVIOUS
<1>3. mode = "READ" \/ mode = "WRITE" \/ mode = "AMO" \/ mode = "EXECUTE"
  BY DEF Modes
<1>4. pte_permission_check(f, ms, mode, priv) <=> Allowed(f, ms, mode, priv)
  <2>1. CASE mode = "READ"
    BY <1>1, <1>2, <2>1 DEF pte_permission_check, Allowed
  <2>2. CASE mode = "WRITE" \/ mode = "AMO"
    BY <1>1, <1>2, <2>2 DEF pte_permission_check, Allowed
  <2>3. CASE mode = "EXECUTE"
    BY <1>1, <1>2, <2>3 DEF pte_permission_check, Allowed
  <2> QED BY <1>3, <2>1, <2>2, <2>3
<1> QED BY <1>4 DEF f

-----------------------------------------------------------------------------
LEMMA TypedInv == TlbSpec => []Typed
<1>1. TlbInit => Typed
  <2>1. Bare \in Satps
    BY MmuAssumption DEF Bare, Page0, Satps, Pages
  <2> QED BY <2>1, TlbAssumption DEF TlbInit, Typed
<1>2. Typed /\ [TlbNext]_tlbVars => Typed'
  <2> SUFFICES ASSUME Typed, [TlbNext]_tlbVars PROVE Typed'
    OBVIOUS
  <2>1. Bare \in Satps
    BY MmuAssumption DEF Bare, Page0, Satps, Pages
  <2>2. ASSUME NEW slot \in Slots, NEW pte \in PteValues, StorePte(slot, pte) PROVE Typed'
    <3>1. slot[1] \in Tables /\ slot[2] \in Idx /\ pte \in Ptes
      BY TlbAssumption
    <3>2. mem' = [mem EXCEPT ![slot[1]] = [mem[slot[1]] EXCEPT ![slot[2]] = pte]]
      BY <2>2 DEF StorePte
    <3>3. mem' \in Mems
      BY <3>1, <3>2 DEF Typed, Mems
    <3> QED BY <2>2, <3>3 DEF StorePte, Typed
  <2>3. ASSUME UNCHANGED <<mem, satp>> PROVE Typed'
    BY <2>3 DEF Typed
  <2>4. ASSUME NEW s \in SatpValues, WriteSatp(s) PROVE Typed'
    BY <2>4, TlbAssumption DEF WriteSatp, Typed
  <2>5. CASE Reboot
    BY <2>1, <2>5 DEF Reboot, Typed
  <2> QED BY <2>2, <2>3, <2>4, <2>5 DEF TlbNext, Access, AccessNoFill, SfenceVma, WriteBadSatp, tlbVars
<1> QED BY <1>1, <1>2, PTL DEF TlbSpec

(* The leaves of the specification are the walk's.                         *)
LEMMA LeafIs ==
  ASSUME Typed, NEW va \in Addrs, NEW level \in Levels, NEW pte
  PROVE  LeafOf(va, level, pte) <=> /\ va.canonical /\ pte = PteAt(va, level)
                                    /\ Reached(va, level) /\ GoodLeaf(PteAt(va, level), level)
BY PathIs DEF LeafOf, GoodLeaf

LEMMA ReachedInMem ==
  ASSUME Typed, NEW va \in Addrs, NEW level \in Levels, Reached(va, level)
  PROVE  PteAt(va, level) \in {mem[t][i] : t \in Tables, i \in Idx}
<1>1. \A l \in Levels : va.pn[l] \in Idx
  BY DEF Addrs, Pages
<1>2. PICK t \in Tables : PteAt(va, level) = mem[t][va.pn[level]]
  BY ThreeLevels DEF Reached, PteAt, Reached2, Reached1, Reached0, Pte2, Pte1, Pte0
<1> QED BY <1>1, <1>2

LEMMA WalkIsSv39 ==
  ASSUME Typed, LookupIsWalk
  PROVE  TranslationIsSv39
<1> SUFFICES ASSUME NEW c \in Contexts, NEW mode \in Modes, NEW va \in Vas,
                    satp.sv39, effective_priv(c[2], mode, c[1]) # "M", ~StaleHit(mode, va)
             PROVE  LET r == tlb_lookup(c[2], mode, c[1], va)
                        priv == effective_priv(c[2], mode, c[1])
                        pages == MappedPages(va, c[2], mode, priv)
                    IN  /\ r.res = "VALID" <=> pages # {}
                        /\ r.res = "VALID" => pages = {r.pa.pn}
                        /\ r.res = "FAULT" /\ r.kind = "ACCESS_FAULT" =>
                             \E level \in Levels, t \in Pages \ Tables :
                               IF level = 2 THEN t = satp.ppn
                               ELSE PathTo(va, level + 1, [flags |-> {"V"}, ppn |-> t])
  BY Zenon DEF TranslationIsSv39
<1> DEFINE r == tlb_lookup(c[2], mode, c[1], va)
           priv == effective_priv(c[2], mode, c[1])
           ptes == {mem[t][i] : t \in Tables, i \in Idx}
           pages == MappedPages(va, c[2], mode, priv)
           w == page_table_walk_sv39(mem, satp, va)
           Page(level) == Superpage(PteAt(va, level), va.pn, level)
           Good(level) == va.canonical /\ Reached(va, level) /\ GoodLeaf(PteAt(va, level), level)
           May(level) == Allowed(PteAt(va, level).flags, c[2], mode, priv)
<1> SUFFICES /\ r.res = "VALID" <=> pages # {}
             /\ r.res = "VALID" => pages = {r.pa.pn}
             /\ r.res = "FAULT" /\ r.kind = "ACCESS_FAULT" =>
                  \E level \in Levels, t \in Pages \ Tables :
                    IF level = 2 THEN t = satp.ppn
                    ELSE PathTo(va, level + 1, [flags |-> {"V"}, ppn |-> t])
  BY Zenon
<1>1. va \in Addrs
  BY TlbAssumption
<1>2. priv \in {"U", "S"}
  BY TlbAssumption DEF effective_priv, Privs, Mstatuses
<1>3. ~bypass_address_translation(satp, c[2], mode, c[1])
  BY DEF bypass_address_translation, effective_priv
<1>4. r = IF w.kind # "LEAF" THEN Refused(w.kind, mode) ELSE Granted(w.flag, w.pn, c[2], mode, priv)
  <2>1. r = mmu_translation(mem, satp, c[2], mode, c[1], va)
    BY DEF LookupIsWalk
  <2> QED BY <1>3, <2>1 DEF mmu_translation
<1>5. \A x : x \in pages <=> \E level \in Levels : Good(level) /\ May(level) /\ x = Page(level)
  <2>1. ASSUME NEW level \in Levels, Good(level), May(level) PROVE Page(level) \in pages
    <3>1. PteAt(va, level) \in ptes /\ LeafOf(va, level, PteAt(va, level))
      BY <1>1, <2>1, ReachedInMem, LeafIs
    <3>2. PICK y : y = <<level, PteAt(va, level)>>
      OBVIOUS
    <3>3. y \in Levels \X ptes /\ y[1] = level /\ y[2] = PteAt(va, level)
      BY <3>1, <3>2
    <3>4. [i \in Levels |-> IF i < y[1] THEN va.pn[i] ELSE y[2].ppn[i]] \in pages
      BY <2>1, <3>1, <3>3 DEF MappedPages
    <3> HIDE DEF pages
    <3> QED BY <3>3, <3>4 DEF Superpage
  <2>2. ASSUME NEW x \in pages PROVE \E level \in Levels : Good(level) /\ May(level) /\ x = Page(level)
    <3>1. PICK y \in Levels \X ptes :
            /\ Allowed(y[2].flags, c[2], mode, priv) /\ LeafOf(va, y[1], y[2])
            /\ x = [i \in Levels |-> IF i < y[1] THEN va.pn[i] ELSE y[2].ppn[i]]
      BY DEF MappedPages
    <3>2. y[1] \in Levels
      OBVIOUS
    <3>3. Good(y[1]) /\ y[2] = PteAt(va, y[1])
      BY <1>1, <3>1, <3>2, LeafIs
    <3> QED BY <3>1, <3>2, <3>3 DEF Superpage
  <2> HIDE DEF pages, Page, Good, May
  <2> QED BY <2>1, <2>2
<1> HIDE DEF pages, r, w, priv, Page, Good, May
<1>6. ASSUME w.kind # "LEAF", \A level \in Levels : ~Good(level)
      PROVE  r.res = "FAULT" /\ r.kind = w.kind /\ pages = {}
  BY <1>4, <1>5, <1>6 DEF Refused
<1>7. CASE ~va.canonical
  <2>1. w = Fault("PAGE_FAULT") /\ \A level \in Levels : ~Good(level)
    BY <1>7 DEF w, Good, page_table_walk_sv39
  <2>2. w.kind = "PAGE_FAULT"
    BY <2>1 DEF Fault
  <2> QED BY <1>6, <2>1, <2>2
<1>8. CASE va.canonical
  <2>1. CASE \E level \in Levels : Good(level) /\ w = Leaf(PteAt(va, level).flags, Page(level))
    <3>1. PICK level \in Levels : Good(level) /\ w = Leaf(PteAt(va, level).flags, Page(level))
      BY <2>1
    <3>2. \A k \in Levels : Good(k) => k = level
      BY <3>1, OneLeaf DEF Good
    <3>3. r = Granted(PteAt(va, level).flags, Page(level), c[2], mode, priv)
      BY <1>4, <3>1 DEF Leaf
    <3>4. pte_permission_check(PteAt(va, level).flags, c[2], mode, priv) <=> May(level)
      BY <1>2, <3>1, PermissionIsAllowed DEF Good, May
    <3>5. CASE May(level)
      <4>1. r = Valid([canonical |-> TRUE, pn |-> Page(level)])
        BY <3>3, <3>4, <3>5 DEF Granted
      <4>2. r.res = "VALID" /\ r.pa.pn = Page(level)
        BY <4>1 DEF Valid
      <4>3. pages = {Page(level)}
        BY <1>5, <3>1, <3>2, <3>5
      <4> QED BY <4>2, <4>3
    <3>6. CASE ~May(level)
      <4>1. r.res = "FAULT" /\ r.kind = "PAGE_FAULT"
        BY <3>3, <3>4, <3>6 DEF Granted, Refused
      <4>2. pages = {}
        BY <1>5, <3>2, <3>6
      <4> QED BY <4>1, <4>2
    <3> QED BY <3>5, <3>6
  <2>2. CASE /\ w = Fault("ACCESS_FAULT") /\ \A level \in Levels : ~Good(level)
             /\ \E level \in Levels :
                  /\ BaseAt(va, level) \in Pages \ Tables
                  /\ level # 2 => Reached(va, level + 1) /\ PteAt(va, level + 1).flags = {"V"}
    <3>1. r.res = "FAULT" /\ pages = {}
      BY <1>6, <2>2 DEF Fault
    <3>2. PICK level \in Levels :
            /\ BaseAt(va, level) \in Pages \ Tables
            /\ level # 2 => Reached(va, level + 1) /\ PteAt(va, level + 1).flags = {"V"}
      BY <2>2
    <3>3. IF level = 2 THEN BaseAt(va, level) = satp.ppn
          ELSE PathTo(va, level + 1, [flags |-> {"V"}, ppn |-> BaseAt(va, level)])
      <4>1. CASE level = 2
        BY <4>1 DEF BaseAt
      <4>2. CASE level = 1
        <5>1. Reached2(va) /\ Pte2(va).flags = {"V"} /\ BaseAt(va, 1) = Pte2(va).ppn
          BY <3>2, <4>2 DEF Reached, PteAt, BaseAt
        <5>2. Pte2(va) = [flags |-> {"V"}, ppn |-> BaseAt(va, 1)]
          BY <1>1, <5>1, ReachedPtes, PointerPte
        <5>3. PathTo(va, 2, Pte2(va))
          BY <1>1, <5>1, PathIs, ThreeLevels DEF Reached, PteAt
        <5> QED BY <4>2, <5>2, <5>3
      <4>3. CASE level = 0
        <5>1. Reached1(va) /\ Pte1(va).flags = {"V"} /\ BaseAt(va, 0) = Pte1(va).ppn
          BY <3>2, <4>3 DEF Reached, PteAt, BaseAt
        <5>2. Pte1(va) = [flags |-> {"V"}, ppn |-> BaseAt(va, 0)]
          BY <1>1, <5>1, ReachedPtes, PointerPte
        <5>3. PathTo(va, 1, Pte1(va))
          BY <1>1, <5>1, PathIs, ThreeLevels DEF Reached, PteAt
        <5> QED BY <4>3, <5>2, <5>3
      <4> QED BY <4>1, <4>2, <4>3, ThreeLevels
    <3> QED BY <3>1, <3>2, <3>3
  <2>3. CASE w = Fault("PAGE_FAULT") /\ \A level \in Levels : ~Good(level)
    <3>1. w.kind = "PAGE_FAULT"
      BY <2>3 DEF Fault
    <3> QED BY <1>6, <2>3, <3>1
  <2>4. \/ \E level \in Levels : Good(level) /\ w = Leaf(PteAt(va, level).flags, Page(level))
        \/ /\ w = Fault("ACCESS_FAULT") /\ \A level \in Levels : ~Good(level)
           /\ \E level \in Levels :
                /\ BaseAt(va, level) \in Pages \ Tables
                /\ level # 2 => Reached(va, level + 1) /\ PteAt(va, level + 1).flags = {"V"}
        \/ w = Fault("PAGE_FAULT") /\ \A level \in Levels : ~Good(level)
    BY <1>1, <1>8, WalkCases, Zenon DEF w, Good, Page
  <2> QED BY <2>1, <2>2, <2>3, <2>4
<1> QED BY <1>7, <1>8

(* mmu.c 159-357: for any page tables, every access that a guest makes     *)
(* under Sv39 with its fences in place reaches the page the tables map it  *)
(* to, with their rights, and no other; faults are the architecture's.     *)
THEOREM TlbTranslationIsSv39 == TlbSpec => []TranslationIsSv39
<1>1. Typed /\ LookupIsWalk => TranslationIsSv39
  BY WalkIsSv39
<1> QED BY <1>1, TypedInv, TlbTransparent, PTL
=============================================================================
