--------------------------------- MODULE Tlb ---------------------------------
(***************************************************************************)
(* The two direct-mapped TLBs of the emulator (emulator/src/cpu/tlb.c) in  *)
(* front of the page-table walk: accesses that look up and fill them, page *)
(* tables that change in memory, fences, address-space switches, reboots.  *)
(*                                                                         *)
(* Privilege and mstatus are inputs of an access: module Hart says how     *)
(* they move, and that MPRV is only ever set in M-mode.                    *)
(***************************************************************************)
EXTENDS Mmu

CONSTANTS
  TLB_SIZE,
  Contexts,      \* <<priv, mstatus>> of the hart at an access
  Vas,           \* the addresses it uses
  SatpValues,    \* what it writes to satp
  Slots,         \* <<table, index>> of the PTEs it changes
  PteValues,     \* what it stores there
  InitMems       \* the page tables it boots with

ASSUME TlbAssumption ==
  /\ TLB_SIZE \in Nat \ {0}
  /\ \A c \in Contexts : c[1] \in Privs /\ c[2] \in Mstatuses /\ (c[2].MPRV => c[1] = "M")
  /\ Vas \subseteq Addrs /\ SatpValues \subseteq Satps
  /\ Slots \subseteq Tables \X Idx /\ PteValues \subseteq Ptes /\ InitMems \subseteq Mems

VARIABLES
  mem,       \* the page tables in DRAM
  satp,
  tlb,       \* tlb["i"], tlb["d"]: index -> entry
  stale      \* history: <<side, index>> of entries older than the last change of mem

tlbVars == <<mem, satp, tlb, stale>>

Sides == {"i", "d"}
Indices == 0 .. TLB_SIZE - 1

Entry(valid, asid, tag, ppn, flag) ==
  [valid |-> valid, asid |-> asid, tag |-> tag, ppn |-> ppn, flag |-> flag]

Page0 == [i \in Levels |-> 0]
ZeroEntry == Entry(FALSE, 0, [canonical |-> TRUE, pn |-> Page0], Page0, {})

tlb_void == [k \in Sides |-> [i \in Indices |-> ZeroEntry]]

Index(va) == va.pn[0] % TLB_SIZE

-----------------------------------------------------------------------------
Hit(k, va) == LET e == tlb[k][Index(va)] IN e.valid /\ e.asid = satp.asid /\ e.tag = va

(* cpu_step passes its privilege for a fetch, the effective one for data.  *)
Caller(mstatus, mode, priv) == effective_priv(mstatus, mode, priv)
SideOf(mode) == IF mode = "EXECUTE" THEN "i" ELSE "d"

HitUnchecked(mstatus, mode, priv, va) ==       \* mutant: a hit is not checked again
  LET p == Caller(mstatus, mode, priv)
      e == tlb[SideOf(mode)][Index(va)]
  IN  IF bypass_address_translation(satp, mstatus, mode, p) THEN Valid(va)
      ELSE IF Hit(SideOf(mode), va) THEN Valid([canonical |-> TRUE, pn |-> e.ppn])
      ELSE mmu_translation(mem, satp, mstatus, mode, p, va)

(* What tlb_lookup returns ...                                             *)
tlb_lookup(mstatus, mode, priv, va) ==
  LET p == Caller(mstatus, mode, priv)
      e == tlb[SideOf(mode)][Index(va)]
  IN  IF bypass_address_translation(satp, mstatus, mode, p) THEN Valid(va)
      ELSE IF Hit(SideOf(mode), va) THEN Granted(e.flag, e.ppn, mstatus, mode, p)
      ELSE mmu_translation(mem, satp, mstatus, mode, p, va)

(* ... and when it fills an entry.                                         *)
Fills(mstatus, mode, priv, va) ==
  LET p == Caller(mstatus, mode, priv)
  IN  /\ ~bypass_address_translation(satp, mstatus, mode, p)
      /\ ~Hit(SideOf(mode), va)
      /\ mmu_translation(mem, satp, mstatus, mode, p, va).res = "VALID"

Filled(va) ==
  LET w == page_table_walk_sv39(mem, satp, va) IN Entry(TRUE, satp.asid, va, w.pn, w.flag)

-----------------------------------------------------------------------------
Access(mstatus, mode, priv, va) ==
  /\ Fills(mstatus, mode, priv, va)
  /\ tlb' = [tlb EXCEPT ![SideOf(mode)][Index(va)] = Filled(va)]
  /\ stale' = stale \ {<<SideOf(mode), Index(va)>>}
  /\ UNCHANGED <<mem, satp>>

(* An access that hits, bypasses or faults.                                *)
AccessNoFill(mstatus, mode, priv, va) ==
  /\ ~Fills(mstatus, mode, priv, va)
  /\ UNCHANGED tlbVars

StorePte(slot, pte) ==
  /\ mem' = [mem EXCEPT ![slot[1]][slot[2]] = pte]
  /\ stale' = {x \in Sides \X Indices : tlb[x[1]][x[2]].valid}
  /\ UNCHANGED <<satp, tlb>>

Flush == tlb' = tlb_void /\ stale' = {}

NoFlushOnSatp == UNCHANGED <<tlb, stale>>      \* mutant: relies on the ASID alone
FlushOnSatp == Flush

SfenceVma == Flush /\ UNCHANGED <<mem, satp>>

WriteSatp(s) == satp' = s /\ FlushOnSatp /\ UNCHANGED mem

(* An unsupported mode leaves satp as it is, and still flushes.            *)
WriteBadSatp == FlushOnSatp /\ UNCHANGED <<mem, satp>>

Bare == [sv39 |-> FALSE, asid |-> 0, ppn |-> Page0]

Reboot == satp' = Bare /\ Flush /\ UNCHANGED mem

TlbInit ==
  /\ mem \in InitMems
  /\ satp = Bare /\ tlb = tlb_void /\ stale = {}

TlbNext ==
  \/ \E c \in Contexts, mode \in Modes, va \in Vas :
       Access(c[2], mode, c[1], va) \/ AccessNoFill(c[2], mode, c[1], va)
  \/ \E slot \in Slots, pte \in PteValues : StorePte(slot, pte)
  \/ SfenceVma
  \/ \E s \in SatpValues : WriteSatp(s)
  \/ WriteBadSatp
  \/ Reboot

TlbSpec == TlbInit /\ [][TlbNext]_tlbVars
-----------------------------------------------------------------------------
(* What the guest has to fence: a change of the page tables.               *)
StaleHit(mode, va) == Hit(SideOf(mode), va) /\ <<SideOf(mode), Index(va)>> \in stale

(* An entry the guest need not fence agrees with the page tables of the    *)
(* current address space.                                                  *)
Coherent ==
  \A k \in Sides, i \in Indices :
    LET e == tlb[k][i]
        w == page_table_walk_sv39(mem, satp, e.tag)
    IN  e.valid /\ <<k, i>> \notin stale =>
          w.kind = "LEAF" /\ e.asid = satp.asid /\ e.ppn = w.pn /\ e.flag = w.flag

(* The TLBs are invisible to a guest that fences after it changes its page *)
(* tables: whatever address space, privilege and mstatus an entry was made *)
(* under, a lookup grants and refuses exactly what a walk would, and a     *)
(* refusal is never remembered (tlb.c 40-92, cpu.c 697-705, 757-760).      *)
LookupIsWalk ==
  \A c \in Contexts, mode \in Modes, va \in Vas :
    ~StaleHit(mode, va) =>
      tlb_lookup(c[2], mode, c[1], va) = mmu_translation(mem, satp, c[2], mode, c[1], va)

-----------------------------------------------------------------------------
(* Sv39 in the words of the privileged architecture, not of the code.      *)

PathTo(va, level, pte) ==
  \E p \in [level .. 2 -> Tables] :
    /\ p[2] = satp.ppn
    /\ \A j \in level + 1 .. 2 : mem[p[j]][va.pn[j]] = [flags |-> {"V"}, ppn |-> p[j - 1]]
    /\ pte = mem[p[level]][va.pn[level]]

LeafOf(va, level, pte) ==
  /\ va.canonical
  /\ "V" \in pte.flags /\ "RSV" \notin pte.flags
  /\ "R" \in pte.flags \/ ("X" \in pte.flags /\ "W" \notin pte.flags)
  /\ \A i \in 0 .. level - 1 : pte.ppn[i] = 0
  /\ PathTo(va, level, pte)

Allowed(f, mstatus, mode, priv) ==
  /\ mode = "EXECUTE" => "X" \in f
  /\ mode = "READ" => "R" \in f \/ (mstatus.MXR /\ "X" \in f)
  /\ mode \in {"WRITE", "AMO"} => {"W", "D"} \subseteq f
  /\ "A" \in f
  /\ IF "U" \in f THEN priv = "U" \/ (mstatus.SUM /\ mode # "EXECUTE") ELSE priv = "S"

(* The pages the tables map va to for such an access.                      *)
MappedPages(va, mstatus, mode, priv) ==
  LET ptes == {mem[t][i] : t \in Tables, i \in Idx}
      leaves == {x \in Levels \X ptes : Allowed(x[2].flags, mstatus, mode, priv) /\ LeafOf(va, x[1], x[2])}
  IN  {[i \in Levels |-> IF i < x[1] THEN va.pn[i] ELSE x[2].ppn[i]] : x \in leaves}

(* A translated access reaches the page the tables map it to, with the     *)
(* rights they give, and every such access succeeds; an access fault means *)
(* the tables lead out of memory (mmu.c 159-357).                          *)
TranslationIsSv39 ==
  \A c \in Contexts, mode \in Modes, va \in Vas :
    LET r == tlb_lookup(c[2], mode, c[1], va)
        priv == effective_priv(c[2], mode, c[1])
        pages == MappedPages(va, c[2], mode, priv)
    IN  satp.sv39 /\ priv # "M" /\ ~StaleHit(mode, va) =>
          /\ r.res = "VALID" <=> pages # {}
          /\ r.res = "VALID" => pages = {r.pa.pn}
          /\ r.res = "FAULT" /\ r.kind = "ACCESS_FAULT" =>
               \E level \in Levels, t \in Pages \ Tables :
                 IF level = 2 THEN t = satp.ppn
                 ELSE PathTo(va, level + 1, [flags |-> {"V"}, ppn |-> t])
=============================================================================
