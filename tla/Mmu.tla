--------------------------------- MODULE Mmu ---------------------------------
(***************************************************************************)
(* Sv39 address translation (emulator/src/cpu/mmu.c) as operators.         *)
(*                                                                         *)
(* An address is its page number, in the three parts that index the three  *)
(* levels of the page table, lowest first, and whether the bits above them *)
(* are the sign extension Sv39 asks for; the offset in the page passes     *)
(* through translation and is left out.  A memory m gives a PTE for each   *)
(* page of Tables and index; the bus answers no 8-byte read elsewhere.     *)
(***************************************************************************)
EXTENDS Integers

CONSTANTS
  Idx,       \* the values of one part of a page number, 0 .. 511
  Tables     \* the physical pages of DRAM that hold page tables

Levels == 0 .. 2
Pages  == [Levels -> Idx]
Addrs  == [canonical : BOOLEAN, pn : Pages]

(* G and RSW have no effect; "RSV" is any of the bits 63-54.               *)
Flags == {"V", "R", "W", "X", "U", "A", "D", "RSV"}
Ptes  == [flags : SUBSET Flags, ppn : Pages]
Mems  == [Tables -> [Idx -> Ptes]]

Privs == {"U", "S", "M"}
Modes == {"READ", "WRITE", "AMO", "EXECUTE"}
Satps == [sv39 : BOOLEAN, asid : Nat, ppn : Pages]

(* The bits of mstatus that translation reads.                             *)
Mstatuses == [SUM : BOOLEAN, MXR : BOOLEAN, MPRV : BOOLEAN, MPP : Privs]

ASSUME MmuAssumption ==
  /\ 0 \in Idx /\ Idx \subseteq Nat
  /\ Tables \subseteq Pages

-----------------------------------------------------------------------------
pte_permission_check(flag, mstatus, mode, priv) ==
  LET xwr == flag \cap {"X", "W", "R"}
  IN  /\ priv = "U" => "U" \in flag
      /\ priv = "S" /\ "U" \in flag => mstatus.SUM /\ mode # "EXECUTE"
      /\ xwr = {"R"} => mode = "READ"
      /\ xwr = {"R", "W"} => mode # "EXECUTE"
      /\ xwr = {"X"} => mode \notin {"WRITE", "AMO"} /\ (mode = "READ" => mstatus.MXR)
      /\ xwr = {"R", "X"} => mode \notin {"WRITE", "AMO"}
      /\ "A" \in flag
      /\ mode \in {"WRITE", "AMO"} => "D" \in flag

effective_priv(mstatus, mode, priv) ==
  IF mstatus.MPRV /\ mode # "EXECUTE" THEN mstatus.MPP ELSE priv

bypass_address_translation(satp, mstatus, mode, priv) ==
  \/ ~satp.sv39
  \/ priv = "M" /\ mode = "EXECUTE"
  \/ effective_priv(mstatus, mode, priv) = "M"

-----------------------------------------------------------------------------
(* The walk.  A leaf carries its flags and the physical page it gives, for *)
(* a superpage the low parts of the virtual page number.                   *)

Fault(kind) == [kind |-> kind]
Leaf(flag, pn) == [kind |-> "LEAF", flag |-> flag, pn |-> pn]

Malformed(f) == "V" \notin f \/ ("W" \in f /\ "R" \notin f) \/ "RSV" \in f
Pointer(f) == f \cap {"R", "X"} = {}
Misaligned(pte, level) == \E i \in Levels : i < level /\ pte.ppn[i] # 0

SuperpageFlat(pte, pn, level) == pte.ppn       \* mutant: the address within a superpage is lost
Superpage(pte, pn, level) == [i \in Levels |-> IF i < level THEN pn[i] ELSE pte.ppn[i]]

page_table_walk_sv39(m, satp, va) ==
  LET step[level \in Levels] ==
        [base \in Pages |->
          LET pte == m[base][va.pn[level]]
          IN  IF base \notin Tables THEN Fault("ACCESS_FAULT")
              ELSE IF Malformed(pte.flags) THEN Fault("PAGE_FAULT")
              ELSE IF Pointer(pte.flags)
                   THEN IF level = 0 \/ pte.flags \cap {"U", "A", "D"} # {} THEN Fault("PAGE_FAULT")
                        ELSE step[level - 1][pte.ppn]
              ELSE IF Misaligned(pte, level) THEN Fault("PAGE_FAULT")
              ELSE Leaf(pte.flags, Superpage(pte, va.pn, level))]
  IN  IF va.canonical THEN step[2][satp.ppn] ELSE Fault("PAGE_FAULT")

-----------------------------------------------------------------------------
(* The result of a translation: the page, or a fault named for its access. *)

AccessOf(mode) ==
  CASE mode = "EXECUTE" -> "INST" [] mode = "READ" -> "LOAD" [] mode \in {"WRITE", "AMO"} -> "STORE_AMO"

Valid(pa) == [res |-> "VALID", pa |-> pa]
Refused(kind, mode) == [res |-> "FAULT", kind |-> kind, access |-> AccessOf(mode)]

Granted(flag, pn, mstatus, mode, priv) ==
  IF pte_permission_check(flag, mstatus, mode, priv)
  THEN Valid([canonical |-> TRUE, pn |-> pn])
  ELSE Refused("PAGE_FAULT", mode)

mmu_translation(m, satp, mstatus, mode, priv, va) ==
  LET w == page_table_walk_sv39(m, satp, va)
  IN  IF bypass_address_translation(satp, mstatus, mode, priv) THEN Valid(va)
      ELSE IF w.kind # "LEAF" THEN Refused(w.kind, mode)
      ELSE Granted(w.flag, w.pn, mstatus, mode, effective_priv(mstatus, mode, priv))
=============================================================================
