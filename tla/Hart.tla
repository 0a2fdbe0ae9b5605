-------------------------------- MODULE Hart --------------------------------
(***************************************************************************)
(* The privileged architecture of the emulated hart: privilege modes,      *)
(* CSRs, interrupt selection, trap entry and return, WFI, and the flushing *)
(* of the TLBs (emulator/src/cpu/csr.c and the control of cpu_step in      *)
(* emulator/src/cpu/cpu.c).                                                *)
(*                                                                         *)
(* One step is one iteration of cpu_exec: cpu_step, then the devices set   *)
(* the interrupt lines for the next one.  The instruction stream is        *)
(* arbitrary: at every step the guest may execute any instruction.  A CSR  *)
(* is the set of its bits that are 1, so that the read-modify-write of     *)
(* csr_access is set algebra; integer registers, addresses of data and     *)
(* trap values (mtval, stval) are left out.                                *)
(***************************************************************************)
EXTENDS Naturals, FiniteSets

CONSTANTS
  PcBits,       \* address bits above bit 1 that tell program counters apart
  LineInts,     \* the interrupt lines some device drives
  Writes,       \* CSR writes the guest may issue: [addr, op, value]
  Codes,        \* the exceptions the guest's instructions may raise
  CounterMod    \* 2^64: mcycle and minstret count modulo this

VARIABLES
  priv,         \* cpu->priv
  csr,          \* cpu->csr.csr_reg: CSR name -> set of bits
  pc,           \* cpu->pc
  wfi,          \* cpu->wfi
  lines,        \* cpu->msip, mtip, meip, seip
  tlb,          \* the satp values whose translations the TLBs may hold
  mcycle,       \* counters
  minstret

vars == <<priv, csr, pc, wfi, lines, tlb, mcycle, minstret>>

-----------------------------------------------------------------------------
(* Privilege modes and bits.                                               *)

U == 0
S == 1
M == 3
Privs == {U, S, M}

LowBits  == {"a0", "a1"}         \* address bits 1:0, MODE in mtvec and stvec
AddrBits == PcBits \cup LowBits

MppBits    == {"MPP0", "MPP1"}
SStatus    == {"SIE", "SPIE", "SPP", "SUM", "MXR"}      \* SSTATUS_WRITE_MASK
MStatus    == SStatus \cup MppBits \cup {"MIE", "MPIE", "MPRV", "TVM", "TW", "TSR"}
XlenBits   == {"UXL", "SXL"}     \* fixed fields of mstatus
SInts      == {"SSIP", "STIP", "SEIP"}
MInts      == {"MSIP", "MTIP", "MEIP"}
Ints       == SInts \cup MInts
HwInts     == MInts \cup {"SEIP"}   \* mip bits csr_begin_update overwrites
FetchFaults == {"INST_PAGE_FAULT", "INST_ACCESS_FAULT"}
DataFaults == {"LOAD_ADDR_MISALIGNED", "LOAD_ACCESS_FAULT", "LOAD_PAGE_FAULT",
               "STORE_AMO_ADDR_MISALIGNED", "STORE_AMO_ACCESS_FAULT", "STORE_AMO_PAGE_FAULT"}
DelegExcs  == FetchFaults \cup DataFaults
                \cup {"INST_ADDR_MISALIGNED", "ILLEGAL_INSTRUCTION", "BREAKPOINT",
                      "ECALL_FROM_U_MODE", "ECALL_FROM_S_MODE"}   \* MEDELEG_WRITE_MASK
Exceptions == DelegExcs \cup {"ECALL_FROM_M_MODE"}
SatpBits   == {"MODE3", "MODE0", "PPN"}   \* Sv39 is MODE3 alone; MODE0 stands for the other mode bits
Counters   == {"CY", "TM", "IR"}
Bits == AddrBits \cup MStatus \cup XlenBits \cup Ints \cup Exceptions \cup {"INTERRUPT"}
          \cup SatpBits \cup {"ASID"} \cup Counters

(* CSR addresses by the privilege bits 9:8 encode.  mvendorid stands for   *)
(* the four read-only identification registers.                            *)
UAddrs == {"cycle", "time", "instret"}
SAddrs == {"sstatus", "sie", "stvec", "scounteren", "sscratch", "sepc", "scause", "sip", "satp"}
MAddrs == {"mstatus", "misa", "medeleg", "mideleg", "mie", "mtvec", "mcounteren", "mscratch",
           "mepc", "mcause", "mip", "mcountinhibit", "mcycle", "minstret", "mvendorid"}
ReadOnly == UAddrs \cup {"mvendorid"}
CounterAddrs == {"mcycle", "minstret"}
Addrs == UAddrs \cup SAddrs \cup MAddrs

(* The registers that hold bits: sstatus, sie and sip are views, the       *)
(* identification registers and misa are constant.                         *)
MRegs == {"mstatus", "medeleg", "mideleg", "mie", "mtvec", "mcounteren", "mscratch", "mepc",
          "mcause", "mip", "mcountinhibit"}
SRegs == {"stvec", "scounteren", "sscratch", "sepc", "scause", "satp"}
Regs  == MRegs \cup SRegs
AddrRegs == {"mtvec", "stvec", "mepc", "sepc"}

ASSUME HartAssumption ==
  /\ \A b \in PcBits : b \notin LowBits \cup MStatus \cup XlenBits \cup Ints \cup Exceptions
                                \cup SatpBits \cup Counters \cup {"INTERRUPT", "ASID"}
  /\ LineInts \subseteq HwInts
  /\ Writes \subseteq [addr : Addrs, op : {"RW", "RS", "RC"}, value : SUBSET Bits]
  /\ Codes \subseteq Exceptions
  /\ CounterMod \in Nat \ {0}

Pcs == SUBSET PcBits                 \* 4-byte aligned program counters
Align(a) == a \ LowBits              \* & TRAP_PC_ALIGN_MASK

Mpp(mstatus) == (IF "MPP0" \in mstatus THEN 1 ELSE 0) + (IF "MPP1" \in mstatus THEN 2 ELSE 0)
Spp(mstatus) == IF "SPP" \in mstatus THEN S ELSE U
MppOf(p) == (IF p % 2 = 1 THEN {"MPP0"} ELSE {}) \cup (IF p > 1 THEN {"MPP1"} ELSE {})
SppOf(p) == IF p % 2 = 1 THEN {"SPP"} ELSE {}

(* csr_field_set on a one-bit field.                                       *)
Field(bits, bit, on) == IF on THEN bits \cup {bit} ELSE bits \ {bit}

-----------------------------------------------------------------------------
(* csr_begin_update: every step starts by copying the lines into mip.      *)
csr0 == [csr EXCEPT !["mip"] = (@ \ HwInts) \cup lines]

(* csr_end_update.  The inhibit bits are those of the start of the step.   *)
Tick(counter, inhibit, counts) ==
  IF counts /\ inhibit \notin csr["mcountinhibit"] THEN (counter + 1) % CounterMod ELSE counter

EndUpdate(retired) ==
  /\ mcycle' = Tick(mcycle, "CY", TRUE)
  /\ minstret' = Tick(minstret, "IR", retired)

-----------------------------------------------------------------------------
(* Interrupt selection.                                                    *)

IntTarget(id) == IF id \in csr["mideleg"] THEN S ELSE M

check_interrupt(id) ==
  /\ id \in csr0["mip"] \cap csr["mie"]
  /\ \/ priv < IntTarget(id)
     \/ /\ priv = IntTarget(id)
        /\ (IF priv = M THEN "MIE" ELSE "SIE") \in csr["mstatus"]

(* The fixed order of interrupt_pending_and_enabled.                       *)
Rank == [MEIP |-> 1, MSIP |-> 2, MTIP |-> 3, SEIP |-> 4, SSIP |-> 5, STIP |-> 6]

interrupt_pending_and_enabled(id) ==
  /\ check_interrupt(id)
  /\ \A j \in Ints : check_interrupt(j) => Rank[id] <= Rank[j]

interrupt_pending == csr0["mip"] # {}

-----------------------------------------------------------------------------
(* Trap entry and return.                                                  *)

TrapTargetMedelegOnly(code, interrupt) ==      \* mutant: interrupts consult medeleg too
  IF priv < M /\ code \in csr["medeleg"] THEN S ELSE M

TrapTarget(code, interrupt) ==
  IF priv < M /\ code \in csr[IF interrupt THEN "mideleg" ELSE "medeleg"] THEN S ELSE M

TrapCause(code, interrupt) == {code} \cup (IF interrupt THEN {"INTERRUPT"} ELSE {})

(* Direct mode jumps to the base; a vectored interrupt to some entry of    *)
(* the table there.                                                        *)
TrapVector(tvec, interrupt) ==
  IF interrupt /\ tvec \cap LowBits = {"a0"}
  THEN pc' \in Pcs
  ELSE pc' = Align(tvec)

(* What a trap does to mstatus, by the mode it enters: the enable and the  *)
(* privilege are pushed, and the enable cleared.                           *)
PushM(ms) == (Field(ms, "MPIE", "MIE" \in ms) \ ({"MIE"} \cup MppBits)) \cup MppOf(priv)
PushSKeepSIE(ms) == (Field(ms, "SPIE", "SIE" \in ms) \ {"SPP"}) \cup SppOf(priv)   \* mutant: SIE stays set
PushS(ms) == (Field(ms, "SPIE", "SIE" \in ms) \ {"SIE", "SPP"}) \cup SppOf(priv)

trap_enter(code, interrupt) ==
  LET ms == csr["mstatus"]
  IN  /\ priv' = TrapTarget(code, interrupt)
      /\ \/ /\ priv' = M
            /\ csr' = [csr0 EXCEPT
                 !["mstatus"] = PushM(ms),
                 !["mcause"] = TrapCause(code, interrupt),
                 !["mepc"] = Align(pc)]
            /\ TrapVector(csr["mtvec"], interrupt)
         \/ /\ priv' = S
            /\ csr' = [csr0 EXCEPT
                 !["mstatus"] = PushS(ms),
                 !["scause"] = TrapCause(code, interrupt),
                 !["sepc"] = Align(pc)]
            /\ TrapVector(csr["stvec"], interrupt)

(* What a return does to mstatus: the enable is popped, MPRV cleared when  *)
(* M-mode is left.                                                         *)
PopMDropSPP(ms) ==                             \* mutant: MRET clears SPP as SRET does
  LET restored == (Field(ms, "MIE", "MPIE" \in ms) \cup {"MPIE"}) \ (MppBits \cup {"SPP"})
  IN  IF Mpp(ms) < M THEN restored \ {"MPRV"} ELSE restored

PopM(ms) ==
  LET restored == (Field(ms, "MIE", "MPIE" \in ms) \cup {"MPIE"}) \ MppBits
  IN  IF Mpp(ms) < M THEN restored \ {"MPRV"} ELSE restored

PopSKeepMPRV(ms) == (Field(ms, "SIE", "SPIE" \in ms) \cup {"SPIE"}) \ {"SPP"}   \* mutant: MPRV survives
PopS(ms) == (Field(ms, "SIE", "SPIE" \in ms) \cup {"SPIE"}) \ {"SPP", "MPRV"}

trap_exit_mret ==
  /\ priv' = Mpp(csr["mstatus"])
  /\ csr' = [csr0 EXCEPT !["mstatus"] = PopM(@)]
  /\ pc' = Align(csr["mepc"])

trap_exit_sret ==
  /\ priv' = Spp(csr["mstatus"])
  /\ csr' = [csr0 EXCEPT !["mstatus"] = PopS(@)]
  /\ pc' = Align(csr["sepc"])

check_mret_privilege == priv \in {S, U}
check_sret_trap == priv = U \/ (priv = S /\ "TSR" \in csr["mstatus"])
check_wfi_trap == priv = U \/ (priv = S /\ "TW" \in csr["mstatus"])
check_sfence_vma == priv = U \/ (priv = S /\ "TVM" \in csr["mstatus"])

-----------------------------------------------------------------------------
(* CSR instructions.                                                       *)

AddrPrivMOnly(a) == IF a \in MAddrs THEN M ELSE U      \* mutant: S-mode CSRs are open to U-mode
AddrPriv(a) == IF a \in MAddrs THEN M ELSE IF a \in SAddrs THEN S ELSE U

Aliased(a) ==
  CASE a = "sstatus" -> "mstatus" [] a = "sie" -> "mie" [] a = "sip" -> "mip" [] OTHER -> a

WriteMaskSie(a) ==                             \* mutant: sie is written without mideleg
  CASE a = "mstatus" -> MStatus [] a = "sstatus" -> SStatus [] a = "sie" -> SInts
    [] a = "mideleg" -> SInts [] OTHER -> Bits

WriteMask(a) ==
  CASE a = "mstatus" -> MStatus
    [] a = "sstatus" -> SStatus
    [] a = "mie" -> Ints
    [] a = "sie" -> SInts \cap csr["mideleg"]
    [] a = "mip" -> SInts
    [] a = "sip" -> {"SSIP"} \cap csr["mideleg"]
    [] a = "mideleg" -> SInts
    [] a = "medeleg" -> DelegExcs
    [] a \in {"mcounteren", "scounteren"} -> Counters
    [] a = "mcountinhibit" -> {"CY", "IR"}
    [] a = "satp" -> SatpBits
    [] a \in AddrRegs -> AddrBits     \* every bit an address has
    [] OTHER -> Bits

CounterOf == [cycle |-> "CY", time |-> "TM", instret |-> "IR"]

check_counteren(a) ==
  /\ priv < M => CounterOf[a] \in csr["mcounteren"]
  /\ priv = U => CounterOf[a] \in csr["scounteren"]

(* csr_access succeeds.  Unimplemented addresses are among the illegal     *)
(* instructions.                                                           *)
CsrLegal(a, write) ==
  /\ AddrPriv(a) <= priv
  /\ ~(a = "satp" /\ priv = S /\ "TVM" \in csr["mstatus"])
  /\ ~(write /\ a \in ReadOnly)
  /\ ~write /\ a \in UAddrs => check_counteren(a)

Modified(old, mask, op, value) ==
  LET w == value \cap mask
  IN  CASE op = "RW" -> (old \ mask) \cup w
        [] op = "RS" -> old \cup w
        [] op = "RC" -> old \ w

(* Post handling of the WARL fields.                                       *)
Warl(a, old, new) ==
  CASE a = "mstatus" -> IF new \cap MppBits = {"MPP1"} THEN new \ MppBits ELSE new
    [] a \in {"mtvec", "stvec"} -> IF "a1" \in new THEN new \ LowBits ELSE new
    [] a \in {"mepc", "sepc"} -> Align(new)
    [] a = "satp" -> IF "MODE0" \in new THEN old ELSE new
    [] OTHER -> new

csr_access(a, op, value) ==
  LET r == Aliased(a)
  IN  csr' = [csr0 EXCEPT ![r] = Warl(a, @, Modified(@, WriteMask(a), op, value))]

-----------------------------------------------------------------------------
(* Address translation, as far as it fills the TLBs.                       *)

effective_priv_mode == IF "MPRV" \in csr["mstatus"] THEN Mpp(csr["mstatus"]) ELSE priv

(* Sv39 is on and the access is not an M-mode one.                         *)
Translates(p) == "MODE3" \in csr["satp"] /\ p # M

(* A successful lookup at privilege p leaves its translation in the TLB    *)
(* unless translation is bypassed.                                         *)
Filled(t, p) == IF Translates(p) THEN t \cup {csr["satp"]} ELSE t

fetched == Filled(tlb, priv)

-----------------------------------------------------------------------------
(* cpu_step.                                                               *)

Awake == wfi => interrupt_pending

Asleep ==
  /\ wfi /\ ~interrupt_pending
  /\ csr' = csr0
  /\ UNCHANGED <<priv, pc, wfi, tlb, mcycle, minstret>>

(* The fetch faults before interrupts are looked at.                       *)
FetchFault(code) ==
  /\ Awake
  /\ code = "INST_PAGE_FAULT" => Translates(priv)
  /\ trap_enter(code, FALSE)
  /\ tlb' \in {tlb, fetched}
  /\ wfi' = FALSE
  /\ EndUpdate(FALSE)

TakeInterrupt(id) ==
  /\ Awake
  /\ interrupt_pending_and_enabled(id)
  /\ trap_enter(id, TRUE)
  /\ tlb' = fetched
  /\ wfi' = FALSE
  /\ EndUpdate(FALSE)

Executes == Awake /\ \A id \in Ints : ~check_interrupt(id)

Raise(code) ==
  /\ Executes
  /\ code \in Codes
  /\ trap_enter(code, FALSE)
  /\ wfi' = FALSE
  /\ EndUpdate(FALSE)

(* An instruction no pattern matches, or that csr_access or a check_*      *)
(* predicate rejects: the guest always has one to execute.                 *)
Illegal == Raise("ILLEGAL_INSTRUCTION") /\ tlb' = fetched

(* Any instruction that only computes or jumps.                            *)
Compute ==
  /\ Executes
  /\ pc' \in Pcs
  /\ csr' = csr0
  /\ tlb' = fetched
  /\ wfi' = FALSE
  /\ EndUpdate(TRUE)
  /\ UNCHANGED priv

JumpMisaligned == Raise("INST_ADDR_MISALIGNED") /\ tlb' = fetched

(* A load, store or atomic, at the effective privilege.                    *)
Access ==
  /\ Executes
  /\ pc' \in Pcs
  /\ csr' = csr0
  /\ tlb' = Filled(fetched, effective_priv_mode)
  /\ wfi' = FALSE
  /\ EndUpdate(TRUE)
  /\ UNCHANGED priv

AccessFault(code) ==
  /\ code \in {"LOAD_PAGE_FAULT", "STORE_AMO_PAGE_FAULT"} => Translates(effective_priv_mode)
  /\ Raise(code)
  /\ tlb' \in {fetched, Filled(fetched, effective_priv_mode)}

(* satp_written makes end_exec empty both TLBs.                            *)
NoFlush(a) == fetched                          \* mutant: the TLBs survive a write to satp
Flushed(a) == IF a = "satp" THEN {} ELSE fetched

CsrWrite(a, op, value) ==
  /\ Executes
  /\ CsrLegal(a, TRUE)
  /\ a \notin CounterAddrs
  /\ IF a = "misa" THEN csr' = csr0 ELSE csr_access(a, op, value)
  /\ pc' \in Pcs
  /\ tlb' = Flushed(a)
  /\ wfi' = FALSE
  /\ EndUpdate(TRUE)
  /\ UNCHANGED priv

(* A counter keeps the value written: the step does not count on top.      *)
CounterWrite(a, v) ==
  /\ Executes
  /\ CsrLegal(a, TRUE)
  /\ mcycle' = IF a = "mcycle" THEN v ELSE Tick(mcycle, "CY", TRUE)
  /\ minstret' = IF a = "minstret" THEN v ELSE Tick(minstret, "IR", TRUE)
  /\ pc' \in Pcs
  /\ csr' = csr0
  /\ tlb' = fetched
  /\ wfi' = FALSE
  /\ UNCHANGED priv

Ecall ==
  /\ Raise(CASE priv = M -> "ECALL_FROM_M_MODE"
             [] priv = S -> "ECALL_FROM_S_MODE"
             [] OTHER -> "ECALL_FROM_U_MODE")
  /\ tlb' = fetched

Ebreak == Raise("BREAKPOINT") /\ tlb' = fetched

Mret ==
  /\ Executes /\ ~check_mret_privilege
  /\ trap_exit_mret
  /\ tlb' = fetched
  /\ wfi' = FALSE
  /\ EndUpdate(TRUE)

Sret ==
  /\ Executes /\ ~check_sret_trap
  /\ trap_exit_sret
  /\ tlb' = fetched
  /\ wfi' = FALSE
  /\ EndUpdate(TRUE)

Wfi ==
  /\ Executes /\ ~check_wfi_trap
  /\ wfi' = TRUE
  /\ pc' \in Pcs
  /\ csr' = csr0
  /\ tlb' = fetched
  /\ EndUpdate(TRUE)
  /\ UNCHANGED priv

SfenceVma ==
  /\ Executes /\ ~check_sfence_vma
  /\ tlb' = {}
  /\ pc' \in Pcs
  /\ csr' = csr0
  /\ wfi' = FALSE
  /\ EndUpdate(TRUE)
  /\ UNCHANGED priv

-----------------------------------------------------------------------------
cpu_init ==
  /\ priv' = M
  /\ csr' = [r \in Regs |-> IF r = "mstatus" THEN XlenBits ELSE {}]
  /\ pc' = {}
  /\ wfi' = FALSE
  /\ tlb' = {}
  /\ mcycle' = 0
  /\ minstret' = 0

Init ==
  /\ priv = M
  /\ csr = [r \in Regs |-> IF r = "mstatus" THEN XlenBits ELSE {}]
  /\ pc = {}
  /\ wfi = FALSE
  /\ lines = {}
  /\ tlb = {}
  /\ mcycle = 0
  /\ minstret = 0

TrapStep ==
  \/ \E code \in FetchFaults \cap Codes : FetchFault(code)
  \/ \E id \in Ints : TakeInterrupt(id)
  \/ Illegal
  \/ JumpMisaligned
  \/ \E code \in DataFaults \cap Codes : AccessFault(code)
  \/ Ecall
  \/ Ebreak

CsrStep(a) ==
  \/ \E w \in Writes : w.addr = a /\ CsrWrite(a, w.op, w.value)
  \/ \E v \in 0 .. CounterMod - 1 : a \in CounterAddrs /\ CounterWrite(a, v)

PlainStep == Asleep \/ Compute \/ Access \/ Wfi \/ SfenceVma

(* One iteration of cpu_exec; the reboot of the system controller follows  *)
(* an instruction and ends in cpu_init whatever that instruction was.      *)
Next ==
  /\ \/ TrapStep
     \/ \E a \in Addrs : CsrStep(a)
     \/ PlainStep
     \/ Mret
     \/ Sret
     \/ cpu_init
  /\ lines' \in SUBSET LineInts

Spec == Init /\ [][Next]_vars

-----------------------------------------------------------------------------
(* Every register holds a value of its type; mideleg never delegates a     *)
(* machine interrupt, MPP is a mode that exists, and a program counter is  *)
(* always aligned.                                                         *)
TypeOK ==
  /\ priv \in Privs
  /\ csr \in [Regs -> SUBSET Bits]
  /\ csr["mideleg"] \subseteq SInts
  /\ Mpp(csr["mstatus"]) \in Privs
  /\ pc \in Pcs
  /\ \A r \in AddrRegs : csr[r] \subseteq AddrBits
  /\ csr["mepc"] \cap LowBits = {} /\ csr["sepc"] \cap LowBits = {}
  /\ wfi \in BOOLEAN
  /\ lines \subseteq LineInts
  /\ tlb \subseteq SUBSET Bits
  /\ mcycle \in 0 .. CounterMod - 1 /\ minstret \in 0 .. CounterMod - 1

(* Below M-mode, MPRV is clear, so that no load or store of S- or U-mode   *)
(* runs at the privilege left in MPP (csr.c 657, 684, 793).                *)
MprvOnlyInM == priv # M => "MPRV" \notin csr["mstatus"]

(* A translation cached under one satp is never visible under another:     *)
(* the TLBs ignore the ASID (SATP_WRITE_MASK leaves it 0), so every write  *)
(* to satp has to empty them (cpu.c 757-760).                              *)
TlbOfCurrentSatp == tlb \subseteq {csr["satp"]}

MOnly(c) ==
  [status |-> c["mstatus"] \ (SStatus \cup {"MPRV"}),
   mie |-> c["mie"] \ c["mideleg"],
   regs |-> [r \in MRegs \ {"mstatus", "mie", "mip"} |-> c[r]]]

(* A step that starts and ends below M-mode changes nothing that belongs   *)
(* to M-mode: no CSR instruction, trap into S-mode or SRET touches         *)
(* machine-mode status, delegation, trap vector, saved frame, or the       *)
(* enable bit of an interrupt that is not delegated.                       *)
MachineIsolated ==
  [][priv # M /\ priv' # M =>
       /\ MOnly(csr') = MOnly(csr)
       /\ "MPRV" \in csr'["mstatus"] <=> "MPRV" \in csr["mstatus"]]_vars

(* A step of U-mode that stays in U-mode changes no CSR at all, but for    *)
(* the mip bits the interrupt lines drive.                                 *)
SupervisorIsolated ==
  [][priv = U /\ priv' = U =>
       /\ \A r \in Regs \ {"mip"} : csr'[r] = csr[r]
       /\ csr'["mip"] \ HwInts = csr["mip"] \ HwInts]_vars

(* A trap never lowers the privilege, and an interrupt is handled at the   *)
(* privilege check_interrupt decided it for: trap_enter decides again, on  *)
(* its own condition.                                                      *)
TrapsGoUp ==
  [][/\ priv' >= priv \/ ~TrapStep
     /\ \A id \in Ints : priv' = IntTarget(id) \/ ~TakeInterrupt(id)]_vars
=============================================================================
