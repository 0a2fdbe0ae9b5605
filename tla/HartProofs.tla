----------------------------- MODULE HartProofs -----------------------------
(***************************************************************************)
(* Proofs about the hart for any set of CSR writes, exceptions, interrupt  *)
(* lines and addresses: types, the privilege of loads and stores, the      *)
(* currency of the TLBs, the isolation of machine and of supervisor mode,  *)
(* and the survival of the trap frames.                                    *)
(***************************************************************************)
EXTENDS HartFrames, TLAPS

(* What TypeOK says of the registers.                                      *)
CsrOK(c) ==
  /\ c \in [Regs -> SUBSET Bits]
  /\ c["mideleg"] \subseteq SInts
  /\ Mpp(c["mstatus"]) \in Privs
  /\ \A r \in AddrRegs : c[r] \subseteq AddrBits
  /\ c["mepc"] \cap LowBits = {} /\ c["sepc"] \cap LowBits = {}

HartInv == TypeOK /\ MprvOnlyInM /\ TlbOfCurrentSatp

(* MPP holds a mode that exists unless it holds 2.                         *)
LEMMA MppRange ==
  ASSUME NEW ms
  PROVE  Mpp(ms) \in Privs <=> ("MPP1" \in ms => "MPP0" \in ms)
BY DEF Mpp, Privs, U, S, M

LEMMA RegNames ==
  /\ "mstatus" \in Regs /\ "mideleg" \in Regs /\ "medeleg" \in Regs /\ "mie" \in Regs
  /\ "mip" \in Regs /\ "mepc" \in Regs /\ "sepc" \in Regs /\ "mcause" \in Regs
  /\ "scause" \in Regs /\ "satp" \in Regs /\ "mtvec" \in Regs /\ "stvec" \in Regs
  /\ AddrRegs \subseteq Regs
BY DEF Regs, MRegs, SRegs, AddrRegs

(* Copying the lines into mip disturbs no other register.                  *)
LEMMA BeginUpdate ==
  ASSUME TypeOK
  PROVE  /\ CsrOK(csr0)
         /\ \A r \in Regs \ {"mip"} : csr0[r] = csr[r]
         /\ csr0["mip"] = (csr["mip"] \ HwInts) \cup lines
<1>1. lines \subseteq Bits
  BY HartAssumption DEF TypeOK, Bits, Ints, MInts, SInts, HwInts
<1> QED BY <1>1, RegNames DEF TypeOK, csr0, CsrOK, AddrRegs

LEMMA TickRange ==
  ASSUME NEW n \in 0 .. CounterMod - 1, NEW inhibit, NEW counts
  PROVE  Tick(n, inhibit, counts) \in 0 .. CounterMod - 1
BY HartAssumption DEF Tick

LEMMA CountersKept ==
  ASSUME TypeOK, NEW retired, EndUpdate(retired)
  PROVE  mcycle' \in 0 .. CounterMod - 1 /\ minstret' \in 0 .. CounterMod - 1
BY TickRange DEF EndUpdate, TypeOK

(* Alignment leaves a program counter.                                     *)
LEMMA AlignRange ==
  ASSUME NEW a \in SUBSET AddrBits
  PROVE  Align(a) \in Pcs /\ Align(a) \subseteq AddrBits /\ Align(a) \cap LowBits = {}
BY DEF Align, Pcs, AddrBits

LEMMA VectorRange ==
  ASSUME NEW tvec \in SUBSET AddrBits, NEW interrupt, TrapVector(tvec, interrupt)
  PROVE  pc' \in Pcs
BY AlignRange DEF TrapVector

LEMMA AddrBitsAreBits == AddrBits \subseteq Bits /\ MStatus \subseteq Bits
BY DEF Bits

(* The three kinds of update a trap or a return makes to mstatus.          *)
LEMMA StatusM ==
  ASSUME NEW ms \in SUBSET Bits, priv \in Privs
  PROVE  PushM(ms) \in SUBSET Bits /\ Mpp(PushM(ms)) = priv
<1> DEFINE p == priv
           new == (Field(ms, "MPIE", "MIE" \in ms) \ ({"MIE"} \cup MppBits)) \cup MppOf(p)
<1>1. MppBits \cup {"MPIE"} \subseteq Bits
  BY DEF Bits, MStatus
<1>2. MppOf(p) \subseteq MppBits
  BY DEF MppOf, MppBits
<1>3. new \in SUBSET Bits
  BY <1>1, <1>2 DEF Field
<1>4. \A b \in MppBits : b \in new <=> b \in MppOf(p)
  BY DEF MppBits, Field
<1>5. Mpp(new) = Mpp(MppOf(p))
  BY <1>4 DEF Mpp, MppBits
<1>6. Mpp(MppOf(p)) = p
  BY DEF Mpp, MppOf, Privs, U, S, M
<1> QED BY <1>3, <1>5, <1>6 DEF PushM

LEMMA StatusS ==
  ASSUME NEW ms \in SUBSET Bits, priv \in Privs
  PROVE  PushS(ms) \in SUBSET Bits /\ Mpp(PushS(ms)) = Mpp(ms) /\ PushS(ms) \ SStatus = ms \ SStatus
<1> DEFINE p == priv
           new == (Field(ms, "SPIE", "SIE" \in ms) \ {"SIE", "SPP"}) \cup SppOf(p)
<1>1. {"SPIE", "SPP", "SIE"} \subseteq SStatus /\ SStatus \subseteq Bits
  BY DEF Bits, MStatus, SStatus
<1>2. SppOf(p) \subseteq {"SPP"}
  BY DEF SppOf
<1>3. new \in SUBSET Bits /\ new \ SStatus = ms \ SStatus
  BY <1>1, <1>2 DEF Field
<1>4. \A b \in MppBits : b \in new <=> b \in ms
  BY <1>2 DEF MppBits, Field
<1> QED BY <1>3, <1>4 DEF PushS, Mpp, MppBits

(* What every trap does to the state.                                      *)
LEMMA TrapEffect ==
  ASSUME TypeOK, MprvOnlyInM, NEW code \in Ints \cup Exceptions, NEW interrupt \in BOOLEAN,
         trap_enter(code, interrupt)
  PROVE  /\ priv' \in Privs /\ priv' >= priv
         /\ CsrOK(csr') /\ pc' \in Pcs
         /\ csr'["satp"] = csr["satp"]
         /\ priv' # M =>
              /\ "MPRV" \notin csr'["mstatus"]
              /\ csr'["mstatus"] \ SStatus = csr["mstatus"] \ SStatus
              /\ \A r \in MRegs \ {"mstatus", "mip"} : csr'[r] = csr[r]
<1> DEFINE ms == csr["mstatus"]
<1>1. priv' = TrapTarget(code, interrupt) /\ priv \in Privs /\ ms \in SUBSET Bits
  BY RegNames DEF trap_enter, TypeOK
<1>2. priv' \in Privs /\ priv' >= priv /\ (priv' # M => priv' = S /\ priv # M)
  BY <1>1 DEF TrapTarget, Privs, U, S, M
<1>3. TrapCause(code, interrupt) \in SUBSET Bits
  BY DEF TrapCause, Bits
<1>4. Align(pc) \in SUBSET AddrBits /\ Align(pc) \cap LowBits = {} /\ Align(pc) \in SUBSET Bits
  BY AlignRange, AddrBitsAreBits DEF TypeOK, Pcs, AddrBits
<1>5. csr["mtvec"] \in SUBSET AddrBits /\ csr["stvec"] \in SUBSET AddrBits
  BY DEF TypeOK, AddrRegs
<1>6. CASE priv' = M
  <2> DEFINE new == PushM(ms)
  <2>1. /\ csr' = [csr0 EXCEPT !["mstatus"] = new, !["mcause"] = TrapCause(code, interrupt),
                               !["mepc"] = Align(pc)]
        /\ TrapVector(csr["mtvec"], interrupt)
    BY <1>6 DEF trap_enter, S, M
  <2>2. new \in SUBSET Bits /\ Mpp(new) \in Privs
    BY <1>1, StatusM
  <2> HIDE DEF new
  <2>3. CsrOK(csr') /\ csr'["satp"] = csr["satp"]
    BY <2>1, <2>2, <1>3, <1>4, BeginUpdate, RegNames DEF CsrOK, AddrRegs
  <2> QED BY <1>2, <1>5, <1>6, <2>1, <2>3, VectorRange
<1>7. CASE priv' = S
  <2> DEFINE new == PushS(ms)
  <2>1. /\ csr' = [csr0 EXCEPT !["mstatus"] = new, !["scause"] = TrapCause(code, interrupt),
                               !["sepc"] = Align(pc)]
        /\ TrapVector(csr["stvec"], interrupt)
    BY <1>7 DEF trap_enter, S, M
  <2>2. new \in SUBSET Bits /\ Mpp(new) \in Privs /\ new \ SStatus = ms \ SStatus
    BY <1>1, StatusS DEF TypeOK
  <2> HIDE DEF new
  <2>3. CsrOK(csr') /\ csr'["satp"] = csr["satp"] /\ csr'["mstatus"] = new
    BY <2>1, <2>2, <1>3, <1>4, BeginUpdate, RegNames DEF CsrOK, AddrRegs
  <2>4. \A r \in MRegs \ {"mstatus", "mip"} : csr'[r] = csr[r]
    BY <2>1, BeginUpdate DEF CsrOK, MRegs, Regs
  <2>5. "MPRV" \notin ms
    BY <1>2, <1>7 DEF MprvOnlyInM, S, M
  <2>6. "MPRV" \notin new
    BY <2>2, <2>5 DEF SStatus
  <2> QED BY <1>2, <1>5, <2>1, <2>2, <2>3, <2>4, <2>6, VectorRange
<1> QED BY <1>2, <1>6, <1>7

(* MRET and SRET leave a mode that exists, and leave MPRV behind when they *)
(* leave M-mode.                                                           *)
LEMMA MretEffect ==
  ASSUME TypeOK, trap_exit_mret
  PROVE  /\ priv' \in Privs /\ CsrOK(csr') /\ pc' \in Pcs
         /\ csr'["satp"] = csr["satp"]
         /\ priv' # M => "MPRV" \notin csr'["mstatus"]
<1> DEFINE ms == csr["mstatus"]
           restored == (Field(ms, "MIE", "MPIE" \in ms) \cup {"MPIE"}) \ MppBits
           new == PopM(ms)
<1>1. ms \in SUBSET Bits /\ Mpp(ms) \in Privs /\ csr["mepc"] \in SUBSET AddrBits
  BY RegNames DEF TypeOK, AddrRegs
<1>2. priv' = Mpp(ms) /\ csr' = [csr0 EXCEPT !["mstatus"] = new] /\ pc' = Align(csr["mepc"])
  BY BeginUpdate, RegNames DEF trap_exit_mret, CsrOK
<1>3. restored \in SUBSET Bits
  BY <1>1 DEF Field, Bits, MStatus
<1>4. new \in SUBSET Bits /\ \A b \in MppBits : b \notin new
  BY <1>3 DEF PopM
<1>5. Mpp(new) \in Privs
  BY <1>4, MppRange DEF MppBits
<1>6. Mpp(ms) # M => "MPRV" \notin new
  BY <1>1 DEF PopM, Privs, U, S, M
<1> HIDE DEF new
<1>7. CsrOK(csr') /\ csr'["satp"] = csr["satp"] /\ csr'["mstatus"] = new
  BY <1>2, <1>4, <1>5, BeginUpdate, RegNames DEF CsrOK, AddrRegs
<1> QED BY <1>1, <1>2, <1>6, <1>7, AlignRange

LEMMA SretEffect ==
  ASSUME TypeOK, trap_exit_sret
  PROVE  /\ priv' \in {U, S} /\ CsrOK(csr') /\ pc' \in Pcs
         /\ csr'["satp"] = csr["satp"]
         /\ "MPRV" \notin csr'["mstatus"]
         /\ csr'["mstatus"] \ (SStatus \cup {"MPRV"}) = csr["mstatus"] \ (SStatus \cup {"MPRV"})
         /\ \A r \in MRegs \ {"mstatus", "mip"} : csr'[r] = csr[r]
<1> DEFINE ms == csr["mstatus"]
           new == PopS(ms)
<1>1. ms \in SUBSET Bits /\ Mpp(ms) \in Privs /\ csr["sepc"] \in SUBSET AddrBits
  BY RegNames DEF TypeOK, AddrRegs
<1>2. priv' = Spp(ms) /\ csr' = [csr0 EXCEPT !["mstatus"] = new] /\ pc' = Align(csr["sepc"])
  BY BeginUpdate, RegNames DEF trap_exit_sret, CsrOK
<1>3. new \in SUBSET Bits
  BY <1>1 DEF PopS, Field, Bits, MStatus, SStatus
<1>4. new \ (SStatus \cup {"MPRV"}) = ms \ (SStatus \cup {"MPRV"}) /\ "MPRV" \notin new
  BY DEF PopS, Field, SStatus
<1>5. \A b \in MppBits : b \in new <=> b \in ms
  BY DEF PopS, Field, MppBits
<1>6. Mpp(new) \in Privs
  BY <1>1, <1>5, MppRange DEF MppBits
<1> HIDE DEF new
<1>7. CsrOK(csr') /\ csr'["satp"] = csr["satp"] /\ csr'["mstatus"] = new
  BY <1>2, <1>3, <1>6, BeginUpdate, RegNames DEF CsrOK, AddrRegs
<1>8. \A r \in MRegs \ {"mstatus", "mip"} : csr'[r] = csr[r]
  BY <1>2, BeginUpdate DEF CsrOK, MRegs, Regs
<1>9. Spp(ms) \in {U, S}
  BY DEF Spp
<1> QED BY <1>1, <1>2, <1>4, <1>7, <1>8, <1>9, AlignRange

-----------------------------------------------------------------------------
(* A read-modify-write stays between the old value and the mask.           *)
LEMMA ModifiedRange ==
  ASSUME NEW old, NEW mask, NEW op \in {"RW", "RS", "RC"}, NEW value
  PROVE  /\ Modified(old, mask, op, value) \subseteq old \cup (value \cap mask)
         /\ Modified(old, mask, op, value) \ mask = old \ mask
<1>1. CASE op = "RW" BY <1>1 DEF Modified
<1>2. CASE op = "RS" BY <1>2 DEF Modified
<1>3. CASE op = "RC" BY <1>3 DEF Modified
<1> QED BY <1>1, <1>2, <1>3

LEMMA WarlRange ==
  ASSUME NEW a, NEW old, NEW new
  PROVE  /\ Warl(a, old, new) \subseteq old \cup new
         /\ a = "mstatus" => Mpp(Warl(a, old, new)) \in Privs
         /\ a \in {"mepc", "sepc"} => Warl(a, old, new) = Align(new)
         /\ a \notin {"mstatus", "mtvec", "stvec", "mepc", "sepc", "satp"} => Warl(a, old, new) = new
<1>1. CASE a = "mstatus"
  <2>1. Warl(a, old, new) = IF new \cap MppBits = {"MPP1"} THEN new \ MppBits ELSE new
    BY <1>1 DEF Warl
  <2>2. Mpp(Warl(a, old, new)) \in Privs
    BY <2>1, MppRange DEF MppBits
  <2> QED BY <1>1, <2>1, <2>2
<1>2. CASE a \in {"mtvec", "stvec"}
  BY <1>2 DEF Warl
<1>3. CASE a \in {"mepc", "sepc"}
  BY <1>3 DEF Warl, Align
<1>4. CASE a = "satp"
  BY <1>4 DEF Warl
<1>5. CASE a \notin {"mstatus", "mtvec", "stvec", "mepc", "sepc", "satp"}
  BY <1>5 DEF Warl
<1> QED BY <1>1, <1>2, <1>3, <1>4, <1>5

(* The write masks that matter.                                            *)
LEMMA MaskCases ==
  ASSUME NEW a
  PROVE  /\ a = "sstatus" => WriteMask(a) = SStatus
         /\ a = "mideleg" => WriteMask(a) = SInts
         /\ a = "sie" => WriteMask(a) = SInts \cap csr["mideleg"]
         /\ a \in AddrRegs => WriteMask(a) = AddrBits
<1>1. CASE a = "sstatus" BY <1>1, SMT DEF WriteMask, AddrRegs
<1>2. CASE a = "mideleg" BY <1>2, SMT DEF WriteMask, AddrRegs
<1>3. CASE a = "sie" BY <1>3, SMT DEF WriteMask, AddrRegs
<1>4. CASE a \in AddrRegs BY <1>4, SMT DEF WriteMask, AddrRegs
<1> QED BY <1>1, <1>2, <1>3, <1>4

(* A legal CSR write keeps the types, and below M-mode it reaches nothing  *)
(* of M-mode.                                                              *)
LEMMA CsrWriteEffect ==
  ASSUME TypeOK, NEW a \in Addrs, NEW op \in {"RW", "RS", "RC"}, NEW value \in SUBSET Bits,
         CsrLegal(a, TRUE), a \notin CounterAddrs, a # "misa", csr_access(a, op, value)
  PROVE  /\ CsrOK(csr')
         /\ a # "satp" => csr'["satp"] = csr["satp"]
         /\ priv # M =>
              /\ csr'["mstatus"] \ SStatus = csr["mstatus"] \ SStatus
              /\ csr'["mie"] \ csr["mideleg"] = csr["mie"] \ csr["mideleg"]
              /\ \A r \in MRegs \ {"mstatus", "mie", "mip"} : csr'[r] = csr[r]
<1> DEFINE r == Aliased(a)
           old == csr0[r]
           mod == Modified(old, WriteMask(a), op, value)
           new == Warl(a, old, mod)
<1>1. a \notin ReadOnly /\ (priv # M => a \in SAddrs)
  <2>1. AddrPriv(a) <= priv /\ a \notin ReadOnly
    BY DEF CsrLegal
  <2>2. priv # M => a \notin MAddrs
    BY <2>1 DEF AddrPriv, TypeOK, Privs, U, S, M
  <2> QED BY <2>1, <2>2 DEF Addrs, ReadOnly
<1>2. r \in Regs
  <2>1. a \in {"sstatus", "sie", "sip"} \/ a \in Regs
    BY <1>1 DEF Addrs, ReadOnly, CounterAddrs, Regs, MRegs, SRegs, MAddrs, SAddrs
  <2>2. a \in Regs => r = a
    BY DEF Aliased, Regs, MRegs, SRegs
  <2>3. a \in {"sstatus", "sie", "sip"} => r \in {"mstatus", "mie", "mip"}
    BY DEF Aliased
  <2> QED BY <2>1, <2>2, <2>3, RegNames
<1>3. csr' = [csr0 EXCEPT ![r] = new] /\ CsrOK(csr0)
  BY BeginUpdate DEF csr_access
<1>4. /\ mod \subseteq old \cup (value \cap WriteMask(a))
      /\ mod \ WriteMask(a) = old \ WriteMask(a)
      /\ new \subseteq old \cup mod
  <2>0. \A o, mask : /\ Modified(o, mask, op, value) \subseteq o \cup (value \cap mask)
                     /\ Modified(o, mask, op, value) \ mask = o \ mask
    BY ModifiedRange
  <2>1. /\ mod \subseteq old \cup (value \cap WriteMask(a))
        /\ mod \ WriteMask(a) = old \ WriteMask(a)
    BY <2>0, Zenon
  <2>2. new \subseteq old \cup mod
    BY WarlRange
  <2> QED BY <2>1, <2>2
<1>w. /\ r \in {"mstatus", "mie"} /\ a # "mstatus" => new = mod
      /\ a = "mstatus" => Mpp(new) \in Privs
      /\ a \in {"mepc", "sepc"} => new = Align(mod)
  <2>1. /\ a = "mstatus" => Mpp(new) \in Privs
        /\ a \in {"mepc", "sepc"} => new = Align(mod)
        /\ a \notin {"mstatus", "mtvec", "stvec", "mepc", "sepc", "satp"} => new = mod
    BY WarlRange
  <2>2. r \in {"mstatus", "mie"} => a \in {"mstatus", "sstatus", "mie", "sie"}
    BY DEF Aliased
  <2> QED BY <2>1, <2>2
<1>5. new \in SUBSET Bits
  BY <1>2, <1>3, <1>4 DEF CsrOK
<1>6. r = "mideleg" => new \subseteq SInts
  <2> SUFFICES ASSUME r = "mideleg" PROVE new \subseteq SInts
    OBVIOUS
  <2>1. a = "mideleg"
    BY DEF Aliased
  <2>2. WriteMask(a) = SInts
    BY <2>1, MaskCases
  <2> QED BY <1>3, <1>4, <2>2 DEF CsrOK
<1>7. r = "mstatus" => Mpp(new) \in Privs /\ (priv # M => new \ SStatus = old \ SStatus)
  <2> SUFFICES ASSUME r = "mstatus"
               PROVE  Mpp(new) \in Privs /\ (priv # M => new \ SStatus = old \ SStatus)
    OBVIOUS
  <2>1. CASE a = "mstatus"
    BY <2>1, <1>1, <1>w DEF SAddrs
  <2>2. CASE a = "sstatus"
    <3>1. WriteMask(a) = SStatus /\ new = mod
      BY <2>2, <1>w, MaskCases
    <3>2. new \ SStatus = old \ SStatus
      BY <3>1, <1>4
    <3>3. \A b \in MppBits : b \in new <=> b \in old
      BY <3>2 DEF MppBits, SStatus
    <3> QED BY <3>2, <3>3, <1>3, MppRange DEF MppBits, CsrOK
  <2>3. a \in {"mstatus", "sstatus"}
    BY DEF Aliased
  <2> QED BY <2>1, <2>2, <2>3
<1>8. r \in AddrRegs => new \subseteq AddrBits /\ (r \in {"mepc", "sepc"} => new \cap LowBits = {})
  <2> SUFFICES ASSUME r \in AddrRegs
               PROVE  new \subseteq AddrBits /\ (r \in {"mepc", "sepc"} => new \cap LowBits = {})
    OBVIOUS
  <2>1. a = r
    BY DEF Aliased, AddrRegs
  <2>2. WriteMask(a) = AddrBits
    BY <2>1, MaskCases
  <2>3. new \subseteq AddrBits
    BY <1>3, <1>4, <2>2 DEF CsrOK
  <2>4. a \in {"mepc", "sepc"} => new = Align(mod)
    BY <1>w
  <2> QED BY <2>1, <2>3, <2>4 DEF Align
<1>9. r = "mie" /\ priv # M => new \ csr["mideleg"] = old \ csr["mideleg"]
  <2> SUFFICES ASSUME r = "mie", priv # M PROVE new \ csr["mideleg"] = old \ csr["mideleg"]
    OBVIOUS
  <2>1. a = "sie"
    BY <1>1 DEF Aliased, SAddrs
  <2>2. WriteMask(a) \subseteq csr["mideleg"] /\ new = mod
    BY <2>1, <1>w, MaskCases
  <2> QED BY <1>4, <2>2
<1>10. priv # M => r \notin MRegs \ {"mstatus", "mie", "mip"}
  <2>1. a \in SAddrs => r \in {"mstatus", "mie", "mip"} \/ r \in SAddrs
    BY DEF Aliased
  <2> QED BY <1>1, <2>1 DEF SAddrs, MRegs
<1>11. r = "satp" => a = "satp"
  BY DEF Aliased
<1> HIDE DEF r, new, mod
<1>12. CsrOK(csr')
  <2>1. csr' \in [Regs -> SUBSET Bits]
    BY <1>2, <1>3, <1>5 DEF CsrOK
  <2>2. \A q \in Regs : csr'[q] = IF q = r THEN new ELSE csr0[q]
    BY <1>2, <1>3 DEF CsrOK
  <2>3. csr'["mideleg"] \subseteq SInts /\ Mpp(csr'["mstatus"]) \in Privs
    BY <1>3, <1>6, <1>7, <2>2, RegNames DEF CsrOK
  <2>4. /\ \A q \in AddrRegs : csr'[q] \subseteq AddrBits
        /\ csr'["mepc"] \cap LowBits = {} /\ csr'["sepc"] \cap LowBits = {}
    BY <1>3, <1>8, <2>2, RegNames DEF CsrOK, AddrRegs
  <2> QED BY <2>1, <2>3, <2>4 DEF CsrOK
<1>13. \A q \in Regs \ {r} : csr'[q] = csr0[q]
  BY <1>2, <1>3 DEF CsrOK
<1>14. csr'[r] = new
  BY <1>2, <1>3 DEF CsrOK
<1>15. a # "satp" => csr'["satp"] = csr["satp"]
  BY <1>11, <1>13, BeginUpdate, RegNames
<1>16. ASSUME priv # M
       PROVE  /\ csr'["mstatus"] \ SStatus = csr["mstatus"] \ SStatus
              /\ csr'["mie"] \ csr["mideleg"] = csr["mie"] \ csr["mideleg"]
              /\ \A q \in MRegs \ {"mstatus", "mie", "mip"} : csr'[q] = csr[q]
  <2>1. csr'["mstatus"] \ SStatus = csr["mstatus"] \ SStatus
    BY <1>7, <1>13, <1>14, <1>16, BeginUpdate, RegNames
  <2>2. csr'["mie"] \ csr["mideleg"] = csr["mie"] \ csr["mideleg"]
    BY <1>9, <1>13, <1>14, <1>16, BeginUpdate, RegNames
  <2>3. \A q \in MRegs \ {"mstatus", "mie", "mip"} : csr'[q] = csr[q]
    BY <1>10, <1>13, <1>16, BeginUpdate DEF Regs
  <2> QED BY <2>1, <2>2, <2>3
<1> QED BY <1>12, <1>15, <1>16

-----------------------------------------------------------------------------
(* What the theorems say of one step.                                      *)
Isolated ==
  priv # M /\ priv' # M =>
    /\ MOnly(csr') = MOnly(csr)
    /\ "MPRV" \in csr'["mstatus"] <=> "MPRV" \in csr["mstatus"]

StepOK == HartInv' /\ Isolated

LEMMA IsolatedParts ==
  ASSUME MprvOnlyInM,
         priv # M /\ priv' # M =>
           /\ "MPRV" \notin csr'["mstatus"]
           /\ csr'["mstatus"] \ (SStatus \cup {"MPRV"}) = csr["mstatus"] \ (SStatus \cup {"MPRV"})
           /\ csr'["mie"] \ csr["mideleg"] = csr["mie"] \ csr["mideleg"]
           /\ \A r \in MRegs \ {"mstatus", "mie", "mip"} : csr'[r] = csr[r]
  PROVE  Isolated
<1> SUFFICES ASSUME priv # M, priv' # M
             PROVE  /\ MOnly(csr') = MOnly(csr)
                    /\ "MPRV" \in csr'["mstatus"] <=> "MPRV" \in csr["mstatus"]
  BY DEF Isolated
<1>1. csr'["mideleg"] = csr["mideleg"]
  BY DEF MRegs
<1>2. [r \in MRegs \ {"mstatus", "mie", "mip"} |-> csr'[r]]
        = [r \in MRegs \ {"mstatus", "mie", "mip"} |-> csr[r]]
  OBVIOUS
<1> QED BY <1>1, <1>2 DEF MOnly, MprvOnlyInM

LEMMA InvParts ==
  ASSUME CsrOK(csr'), priv' \in Privs, priv' # M => "MPRV" \notin csr'["mstatus"],
         pc' \in Pcs, wfi' \in BOOLEAN, lines' \in SUBSET LineInts,
         tlb' \subseteq {csr'["satp"]},
         mcycle' \in 0 .. CounterMod - 1, minstret' \in 0 .. CounterMod - 1
  PROVE  HartInv'
<1>1. csr'["satp"] \in SUBSET Bits
  BY RegNames DEF CsrOK
<1> QED BY <1>1 DEF HartInv, TypeOK, CsrOK, MprvOnlyInM, TlbOfCurrentSatp

(* A fetch or an access only adds translations of the current satp.        *)
LEMMA FilledRange ==
  ASSUME TlbOfCurrentSatp, NEW p, NEW q
  PROVE  /\ Filled(tlb, p) \subseteq {csr["satp"]} /\ fetched \subseteq {csr["satp"]}
         /\ Filled(fetched, q) \subseteq {csr["satp"]}
BY DEF TlbOfCurrentSatp, Filled, fetched

LEMMA TrapPreserves ==
  ASSUME HartInv, lines' \in SUBSET LineInts, NEW code \in Ints \cup Exceptions,
         NEW interrupt \in BOOLEAN, trap_enter(code, interrupt),
         tlb' \subseteq {csr["satp"]}, wfi' = FALSE, EndUpdate(FALSE)
  PROVE  StepOK /\ priv' >= priv
<1> USE DEF HartInv
<1>1. /\ priv' \in Privs /\ priv' >= priv
      /\ CsrOK(csr') /\ pc' \in Pcs
      /\ csr'["satp"] = csr["satp"]
      /\ priv' # M =>
           /\ "MPRV" \notin csr'["mstatus"]
           /\ csr'["mstatus"] \ SStatus = csr["mstatus"] \ SStatus
           /\ \A r \in MRegs \ {"mstatus", "mip"} : csr'[r] = csr[r]
  BY TrapEffect
<1>2. HartInv'
  BY <1>1, CountersKept, InvParts
<1>3. Isolated
  <2>1. priv' # M => csr'["mie"] = csr["mie"]
    BY <1>1 DEF MRegs
  <2>2. priv' # M => csr'["mstatus"] \ (SStatus \cup {"MPRV"}) = csr["mstatus"] \ (SStatus \cup {"MPRV"})
    BY <1>1
  <2> QED BY <1>1, <2>1, <2>2, IsolatedParts
<1> QED BY <1>1, <1>2, <1>3 DEF StepOK

LEMMA TrapStepPreserves ==
  ASSUME HartInv, lines' \in SUBSET LineInts, TrapStep
  PROVE  StepOK /\ priv' >= priv
<1> USE DEF HartInv
<1>1. Codes \subseteq Ints \cup Exceptions
  BY HartAssumption
<1>2. ASSUME NEW code \in FetchFaults \cap Codes, FetchFault(code) PROVE StepOK /\ priv' >= priv
  BY <1>1, <1>2, FilledRange, TrapPreserves DEF FetchFault, TlbOfCurrentSatp
<1>3. ASSUME NEW id \in Ints, TakeInterrupt(id) PROVE StepOK /\ priv' >= priv
  BY <1>3, FilledRange, TrapPreserves DEF TakeInterrupt
<1>4. ASSUME NEW code, Raise(code), tlb' \subseteq {csr["satp"]} PROVE StepOK /\ priv' >= priv
  BY <1>1, <1>4, TrapPreserves DEF Raise
<1>5. ASSUME NEW code \in DataFaults \cap Codes, AccessFault(code) PROVE StepOK /\ priv' >= priv
  <2>1. tlb' \subseteq {csr["satp"]} /\ Raise(code)
    BY <1>5, FilledRange DEF AccessFault
  <2> QED BY <2>1, <1>4
<1>6. ASSUME NEW code, Raise(code), tlb' = fetched PROVE StepOK /\ priv' >= priv
  <2>1. tlb' \subseteq {csr["satp"]}
    BY <1>6, FilledRange
  <2> QED BY <2>1, <1>4, <1>6
<1>7. CASE Illegal BY <1>6, <1>7 DEF Illegal
<1>8. CASE JumpMisaligned BY <1>6, <1>8 DEF JumpMisaligned
<1>9. CASE Ecall BY <1>6, <1>9 DEF Ecall
<1>10. CASE Ebreak BY <1>6, <1>10 DEF Ebreak
<1> QED BY <1>2, <1>3, <1>5, <1>7, <1>8, <1>9, <1>10 DEF TrapStep

(* An instruction that leaves the registers alone.                         *)
LEMMA PlainPreserves ==
  ASSUME HartInv, lines' \in SUBSET LineInts, csr' = csr0, priv' = priv, pc' \in Pcs,
         wfi' \in BOOLEAN, tlb' \subseteq {csr["satp"]},
         mcycle' \in 0 .. CounterMod - 1, minstret' \in 0 .. CounterMod - 1
  PROVE  StepOK
<1> USE DEF HartInv
<1>1. CsrOK(csr') /\ \A r \in Regs \ {"mip"} : csr'[r] = csr[r]
  BY BeginUpdate
<1>2. csr'["mstatus"] = csr["mstatus"] /\ csr'["satp"] = csr["satp"] /\ csr'["mie"] = csr["mie"]
  BY <1>1, RegNames
<1>3. HartInv'
  BY <1>1, <1>2, InvParts DEF TypeOK, MprvOnlyInM
<1>4. Isolated
  BY <1>1, <1>2, IsolatedParts DEF MprvOnlyInM, Regs
<1> QED BY <1>3, <1>4 DEF StepOK

LEMMA PlainStepPreserves ==
  ASSUME HartInv, lines' \in SUBSET LineInts, PlainStep
  PROVE  StepOK
<1> USE DEF HartInv
<1>0. {} \subseteq {csr["satp"]}
  OBVIOUS
<1>1. CASE Asleep
  BY <1>1, PlainPreserves DEF Asleep, TypeOK, TlbOfCurrentSatp
<1>2. CASE Compute
  BY <1>2, PlainPreserves, CountersKept, FilledRange DEF Compute
<1>3. CASE Access
  BY <1>3, PlainPreserves, CountersKept, FilledRange DEF Access
<1>4. CASE Wfi
  BY <1>4, PlainPreserves, CountersKept, FilledRange DEF Wfi
<1>5. CASE SfenceVma
  BY <1>0, <1>5, PlainPreserves, CountersKept DEF SfenceVma
<1> QED BY <1>1, <1>2, <1>3, <1>4, <1>5 DEF PlainStep

LEMMA CsrStepPreserves ==
  ASSUME HartInv, lines' \in SUBSET LineInts, NEW a \in Addrs, CsrStep(a)
  PROVE  StepOK
<1> USE DEF HartInv
<1>1. ASSUME NEW w \in Writes, w.addr = a, CsrWrite(a, w.op, w.value) PROVE StepOK
  <2>1. w.op \in {"RW", "RS", "RC"} /\ w.value \in SUBSET Bits
    BY HartAssumption
  <2>2. /\ CsrLegal(a, TRUE) /\ a \notin CounterAddrs /\ pc' \in Pcs /\ wfi' = FALSE
        /\ priv' = priv /\ EndUpdate(TRUE)
        /\ tlb' = IF a = "satp" THEN {} ELSE fetched
        /\ IF a = "misa" THEN csr' = csr0 ELSE csr_access(a, w.op, w.value)
    BY <1>1 DEF CsrWrite, Flushed
  <2>3. CASE a = "misa"
    BY <2>2, <2>3, PlainPreserves, CountersKept, FilledRange
  <2>4. CASE a # "misa"
    <3>1. csr_access(a, w.op, w.value)
      BY <2>2, <2>4
    <3>2. /\ CsrOK(csr')
          /\ a # "satp" => csr'["satp"] = csr["satp"]
          /\ priv # M =>
               /\ csr'["mstatus"] \ SStatus = csr["mstatus"] \ SStatus
               /\ csr'["mie"] \ csr["mideleg"] = csr["mie"] \ csr["mideleg"]
               /\ \A r \in MRegs \ {"mstatus", "mie", "mip"} : csr'[r] = csr[r]
      BY <2>1, <2>2, <2>4, <3>1, CsrWriteEffect
    <3>3. tlb' \subseteq {csr'["satp"]}
      BY <2>2, <3>2, FilledRange
    <3>4. priv # M => "MPRV" \notin csr'["mstatus"]
      BY <3>2 DEF MprvOnlyInM, SStatus
    <3>5. HartInv'
      BY <2>2, <3>2, <3>3, <3>4, CountersKept, InvParts DEF TypeOK
    <3>6. Isolated
      <4>1. priv # M => csr'["mstatus"] \ (SStatus \cup {"MPRV"}) = csr["mstatus"] \ (SStatus \cup {"MPRV"})
        BY <3>2
      <4> QED BY <3>2, <3>4, <4>1, IsolatedParts
    <3> QED BY <3>5, <3>6 DEF StepOK
  <2> QED BY <2>3, <2>4
<1>2. ASSUME NEW v \in 0 .. CounterMod - 1, a \in CounterAddrs, CounterWrite(a, v) PROVE StepOK
  <2>1. mcycle' \in 0 .. CounterMod - 1 /\ minstret' \in 0 .. CounterMod - 1
    BY <1>2, TickRange DEF CounterWrite, TypeOK
  <2> QED BY <1>2, <2>1, PlainPreserves, FilledRange DEF CounterWrite
<1> QED BY <1>1, <1>2 DEF CsrStep

LEMMA ReturnPreserves ==
  ASSUME HartInv, lines' \in SUBSET LineInts, Mret \/ Sret
  PROVE  StepOK
<1> USE DEF HartInv
<1>1. CASE Mret
  <2>1. trap_exit_mret /\ tlb' = fetched /\ wfi' = FALSE /\ EndUpdate(TRUE) /\ priv = M
    BY <1>1 DEF Mret, check_mret_privilege, TypeOK, Privs
  <2>2. /\ priv' \in Privs /\ CsrOK(csr') /\ pc' \in Pcs
        /\ csr'["satp"] = csr["satp"]
        /\ priv' # M => "MPRV" \notin csr'["mstatus"]
    BY <2>1, MretEffect
  <2>3. HartInv'
    BY <2>1, <2>2, FilledRange, CountersKept, InvParts
  <2> QED BY <2>1, <2>3 DEF StepOK, Isolated
<1>2. CASE Sret
  <2>1. trap_exit_sret /\ tlb' = fetched /\ wfi' = FALSE /\ EndUpdate(TRUE)
    BY <1>2 DEF Sret
  <2>2. /\ priv' \in {U, S} /\ CsrOK(csr') /\ pc' \in Pcs
        /\ csr'["satp"] = csr["satp"]
        /\ "MPRV" \notin csr'["mstatus"]
        /\ csr'["mstatus"] \ (SStatus \cup {"MPRV"}) = csr["mstatus"] \ (SStatus \cup {"MPRV"})
        /\ \A r \in MRegs \ {"mstatus", "mip"} : csr'[r] = csr[r]
    BY <2>1, SretEffect
  <2>3. HartInv'
    BY <2>1, <2>2, FilledRange, CountersKept, InvParts DEF Privs
  <2>4. csr'["mie"] = csr["mie"]
    BY <2>2 DEF MRegs
  <2>5. Isolated
    BY <2>2, <2>4, IsolatedParts
  <2> QED BY <2>3, <2>5 DEF StepOK
<1> QED BY <1>1, <1>2

LEMMA InitialCsr ==
  LET c == [r \in Regs |-> IF r = "mstatus" THEN XlenBits ELSE {}]
  IN  CsrOK(c)
<1> DEFINE c == [r \in Regs |-> IF r = "mstatus" THEN XlenBits ELSE {}]
<1>1. c \in [Regs -> SUBSET Bits]
  BY DEF Bits
<1>2. c["mstatus"] = XlenBits /\ \A r \in Regs \ {"mstatus"} : c[r] = {}
  BY RegNames
<1>3. Mpp(XlenBits) \in Privs
  BY MppRange DEF XlenBits
<1> QED BY <1>1, <1>2, <1>3, RegNames DEF CsrOK, AddrRegs

LEMMA ResetPreserves ==
  ASSUME lines' \in SUBSET LineInts, cpu_init
  PROVE  StepOK
<1>1. CsrOK(csr') /\ priv' = M
  BY InitialCsr DEF cpu_init
<1>2. 0 \in 0 .. CounterMod - 1
  BY HartAssumption
<1>3. HartInv'
  BY <1>1, <1>2, InvParts DEF cpu_init, Pcs, Privs
<1> QED BY <1>1, <1>3 DEF StepOK, Isolated

LEMMA StepPreserves ==
  ASSUME HartInv, [Next]_vars
  PROVE  StepOK
<1>1. CASE Next
  BY <1>1, TrapStepPreserves, CsrStepPreserves, PlainStepPreserves, ReturnPreserves, ResetPreserves
     DEF Next
<1>2. CASE UNCHANGED vars
  <2>1. HartInv' <=> HartInv
    BY <1>2 DEF vars, HartInv, TypeOK, MprvOnlyInM, TlbOfCurrentSatp
  <2>2. Isolated
    BY <1>2 DEF vars, Isolated, MOnly
  <2> QED BY <2>1, <2>2 DEF StepOK
<1> QED BY <1>1, <1>2

LEMMA InitOK == Init => HartInv
<1> SUFFICES ASSUME Init PROVE HartInv
  OBVIOUS
<1>1. CsrOK(csr) /\ priv = M
  BY InitialCsr DEF Init
<1>2. 0 \in 0 .. CounterMod - 1
  BY HartAssumption
<1> QED BY <1>1, <1>2 DEF Init, HartInv, TypeOK, CsrOK, MprvOnlyInM, TlbOfCurrentSatp, Pcs, Privs

(* Registers keep their types, no load or store below M-mode runs at a     *)
(* privilege left in MPP, and the TLBs only hold translations of the       *)
(* current satp, for every guest.                                          *)
THEOREM HartSafe == Spec => [](TypeOK /\ MprvOnlyInM /\ TlbOfCurrentSatp)
<1>1. HartInv /\ [Next]_vars => HartInv'
  BY StepPreserves DEF StepOK
<1> QED BY <1>1, InitOK, PTL DEF Spec, HartInv

\* MPRV is clear below M-mode, because every return to a lower mode clears it and sstatus does
\* not show it: loads and stores of S and U are never translated with another mode's rights.
THEOREM HartMprvOnlyInM == Spec => []MprvOnlyInM
BY HartSafe, PTL

(* No step that stays below M-mode changes anything of M-mode.  MPRV being *)
(* clear there is needed: SRET clears it.                                  *)
THEOREM HartIsolated == Spec => MachineIsolated
<1>1. HartInv /\ [Next]_vars => HartInv' /\ [Isolated]_vars
  BY StepPreserves DEF StepOK
<1>2. [Isolated]_vars => [priv # M /\ priv' # M =>
         /\ MOnly(csr') = MOnly(csr)
         /\ "MPRV" \in csr'["mstatus"] <=> "MPRV" \in csr["mstatus"]]_vars
  BY DEF Isolated
<1> QED BY <1>1, <1>2, InitOK, PTL DEF Spec, MachineIsolated

(* A trap never lowers the privilege, and trap_enter sends an interrupt    *)
(* to the very privilege check_interrupt admitted it for.                  *)
THEOREM HartTrapsGoUp == Spec => TrapsGoUp
<1> DEFINE Up == /\ priv' >= priv \/ ~TrapStep
                 /\ \A id \in Ints : priv' = IntTarget(id) \/ ~TakeInterrupt(id)
<1>1. ASSUME HartInv, [Next]_vars PROVE [Up]_vars
  <2> SUFFICES ASSUME Next PROVE Up
    BY <1>1
  <2>1. TrapStep => priv' >= priv
    BY <1>1, TrapStepPreserves DEF Next
  <2>2. ASSUME NEW id \in Ints, TakeInterrupt(id) PROVE priv' = IntTarget(id)
    <3>1. priv' = TrapTarget(id, TRUE) /\ check_interrupt(id)
      BY <2>2 DEF TakeInterrupt, trap_enter, interrupt_pending_and_enabled
    <3>2. priv \in Privs
      BY <1>1 DEF HartInv, TypeOK
    <3> QED BY <3>1, <3>2 DEF TrapTarget, check_interrupt, IntTarget, Privs, U, S, M
  <2> QED BY <2>1, <2>2
<1>2. HartInv /\ [Next]_vars => HartInv'
  BY StepPreserves DEF StepOK
<1> QED BY <1>1, <1>2, InitOK, PTL DEF Spec, TrapsGoUp

(* A trap ends in S- or M-mode.                                            *)
LEMMA TrapStepUp == TrapStep => priv' \in {S, M}
BY DEF TrapStep, FetchFault, TakeInterrupt, Illegal, JumpMisaligned, AccessFault, Ecall, Ebreak, Raise,
       trap_enter, TrapTarget

(* A step that stays in U-mode leaves every CSR as it is: a trap leaves    *)
(* U-mode, the returns are refused there, and the only CSRs U-mode may     *)
(* address are read-only.                                                  *)
THEOREM HartSupervisorIsolated == Spec => SupervisorIsolated
<1> DEFINE Kept == priv = U /\ priv' = U =>
                     /\ \A r \in Regs \ {"mip"} : csr'[r] = csr[r]
                     /\ csr'["mip"] \ HwInts = csr["mip"] \ HwInts
<1>1. ASSUME HartInv, [Next]_vars PROVE [Kept]_vars
  <2> SUFFICES ASSUME Next, priv = U, priv' = U
               PROVE  /\ \A r \in Regs \ {"mip"} : csr'[r] = csr[r]
                      /\ csr'["mip"] \ HwInts = csr["mip"] \ HwInts
    BY <1>1
  <2>1. csr' = csr0
    <3>1. ~TrapStep
      BY <1>1, TrapStepUp DEF S, U, M
    <3>2. ASSUME NEW a \in Addrs, CsrStep(a) PROVE FALSE
      <4>1. CsrLegal(a, TRUE)
        BY <3>2 DEF CsrStep, CsrWrite, CounterWrite
      <4>2. AddrPriv(a) <= U /\ a \notin UAddrs
        BY <4>1 DEF CsrLegal, ReadOnly
      <4> QED BY <4>2 DEF AddrPriv, Addrs, U, S, M
    <3>3. PlainStep => csr' = csr0
      BY DEF PlainStep, Asleep, Compute, Access, Wfi, SfenceVma
    <3>4. ~Mret /\ ~Sret /\ ~cpu_init
      BY DEF Mret, Sret, cpu_init, check_mret_privilege, check_sret_trap, U, S, M
    <3> QED BY <3>1, <3>2, <3>3, <3>4 DEF Next
  <2>2. lines \subseteq HwInts
    BY <1>1, HartAssumption DEF HartInv, TypeOK
  <2> QED BY <1>1, <2>1, <2>2, BeginUpdate DEF HartInv
<1>2. HartInv /\ [Next]_vars => HartInv'
  BY StepPreserves DEF StepOK
<1> QED BY <1>1, <1>2, InitOK, PTL DEF Spec, SupervisorIsolated

-----------------------------------------------------------------------------
(* The trap frames.  A live frame keeps the enable of its own mode off     *)
(* whatever the privilege is, also below: only the matching return and the *)
(* writes that end the frame could set it.                                 *)
Masked ==
  /\ mframe.live => "MIE" \notin csr["mstatus"]
  /\ sframe.live => "SIE" \notin csr["mstatus"]

FramesInv == HartInv /\ FramesIntact /\ Masked

(* What a machine-mode frame and a supervisor-mode frame rest on, and      *)
(* nothing else.                                                           *)
MKept(c, d) == /\ \A b \in MppBits \cup {"MPIE", "MIE"} : b \in d["mstatus"] <=> b \in c["mstatus"]
               /\ d["mepc"] = c["mepc"]
SKept(c, d) == /\ \A b \in {"SPP", "SPIE", "SIE"} : b \in d["mstatus"] <=> b \in c["mstatus"]
               /\ d["sepc"] = c["sepc"]

MFrameOK == MFrameIntact /\ (mframe.live => "MIE" \notin csr["mstatus"])
SFrameOK == SFrameIntact /\ (sframe.live => "SIE" \notin csr["mstatus"])

LEMMA MFrameKept ==
  ASSUME MFrameOK, MKept(csr, csr'), mframe' = mframe
  PROVE  MFrameOK'
<1>1. \A b \in {"MPP0", "MPP1", "MPIE", "MIE"} : b \in csr'["mstatus"] <=> b \in csr["mstatus"]
  BY DEF MKept, MppBits
<1>2. Mpp(csr'["mstatus"]) = Mpp(csr["mstatus"])
  BY <1>1 DEF Mpp
<1> QED BY <1>1, <1>2 DEF MFrameOK, MFrameIntact, MKept

LEMMA SFrameKept ==
  ASSUME SFrameOK, SKept(csr, csr'), sframe' = sframe
  PROVE  SFrameOK'
  BY DEF SFrameOK, SFrameIntact, SKept, Spp

LEMMA NoFrameOK ==
  /\ mframe = NoFrame => MFrameOK
  /\ sframe = NoFrame => SFrameOK
  /\ mframe' = NoFrame => MFrameOK'
  /\ sframe' = NoFrame => SFrameOK'
BY DEF NoFrame, MFrameOK, SFrameOK, MFrameIntact, SFrameIntact

(* Every trap is a trap_enter.                                             *)
LEMMA TrapIsEnter ==
  ASSUME TrapStep
  PROVE  \E code : \E interrupt \in BOOLEAN : trap_enter(code, interrupt)
BY DEF TrapStep, FetchFault, TakeInterrupt, Illegal, JumpMisaligned, AccessFault, Ecall, Ebreak, Raise

LEMMA Csr0Kept ==
  ASSUME TypeOK, csr' = csr0
  PROVE  MKept(csr, csr') /\ SKept(csr, csr')
<1>1. csr'["mstatus"] = csr["mstatus"] /\ csr'["mepc"] = csr["mepc"] /\ csr'["sepc"] = csr["sepc"]
  BY BeginUpdate, RegNames
<1> QED BY <1>1 DEF MKept, SKept

LEMMA PushMBits ==
  ASSUME NEW ms
  PROVE  /\ "MPIE" \in PushM(ms) <=> "MIE" \in ms
         /\ "MIE" \notin PushM(ms)
         /\ \A b \in {"SPP", "SPIE", "SIE"} : b \in PushM(ms) <=> b \in ms
<1>1. MppOf(priv) \subseteq {"MPP0", "MPP1"}
  BY DEF MppOf
<1> QED BY <1>1 DEF PushM, Field, MppBits

LEMMA PushSBits ==
  ASSUME NEW ms, priv \in {U, S}
  PROVE  /\ Spp(PushS(ms)) = priv
         /\ "SPIE" \in PushS(ms) <=> "SIE" \in ms
         /\ "SIE" \notin PushS(ms)
         /\ \A b \in MppBits \cup {"MPIE", "MIE"} : b \in PushS(ms) <=> b \in ms
<1>1. SppOf(priv) = IF priv = S THEN {"SPP"} ELSE {}
  BY DEF SppOf, U, S
<1> QED BY <1>1 DEF PushS, Field, MppBits, Spp, U, S

LEMMA PcAligned == ASSUME TypeOK PROVE Align(pc) = pc
BY HartAssumption DEF TypeOK, Pcs, Align

(* A trap saves the frame of what it interrupted, and leaves the frame of  *)
(* the other mode alone.                                                   *)
LEMMA PushOK ==
  ASSUME HartInv, MFrameOK, SFrameOK, PushFrame
  PROVE  MFrameOK' /\ SFrameOK'
<1> DEFINE ms == csr["mstatus"]
<1>1. PICK code : \E i \in BOOLEAN : trap_enter(code, i)
  BY TrapIsEnter DEF PushFrame
<1>i. PICK interrupt \in BOOLEAN : trap_enter(code, interrupt)
  BY <1>1
<1>2. TypeOK /\ Align(pc) = pc /\ ms \in SUBSET Bits /\ priv \in Privs
  BY PcAligned, RegNames DEF HartInv, TypeOK
<1>3. CASE priv' = M
  <2>1. csr' = [csr0 EXCEPT !["mstatus"] = PushM(ms), !["mcause"] = TrapCause(code, interrupt),
                            !["mepc"] = Align(pc)]
    BY <1>i, <1>3 DEF trap_enter, S, M
  <2>2. csr'["mstatus"] = PushM(ms) /\ csr'["mepc"] = pc /\ csr'["sepc"] = csr["sepc"]
    BY <1>2, <2>1, BeginUpdate, RegNames DEF CsrOK
  <2>3. mframe' = Frame("MIE") /\ sframe' = sframe
    BY <1>3 DEF PushFrame, S, M
  <2>4. Mpp(csr'["mstatus"]) = priv
    BY <1>2, <2>2, StatusM
  <2>5. MFrameOK'
    <3>1. /\ mframe'.priv = priv /\ mframe'.pc = pc
          /\ mframe'.ie <=> "MIE" \in csr["mstatus"]
      BY <2>3 DEF Frame
    <3>2. /\ "MPIE" \in csr'["mstatus"] <=> "MIE" \in csr["mstatus"]
          /\ "MIE" \notin csr'["mstatus"]
      BY <2>2, PushMBits
    <3> QED BY <2>2, <2>4, <3>1, <3>2 DEF MFrameOK, MFrameIntact
  <2>6. SKept(csr, csr')
    BY <2>2, PushMBits DEF SKept
  <2> QED BY <2>3, <2>5, <2>6, SFrameKept
<1>4. CASE priv' = S
  <2>1. csr' = [csr0 EXCEPT !["mstatus"] = PushS(ms), !["scause"] = TrapCause(code, interrupt),
                            !["sepc"] = Align(pc)]
    BY <1>i, <1>4 DEF trap_enter, S, M
  <2>2. csr'["mstatus"] = PushS(ms) /\ csr'["sepc"] = pc /\ csr'["mepc"] = csr["mepc"]
    BY <1>2, <2>1, BeginUpdate, RegNames DEF CsrOK
  <2>3. sframe' = Frame("SIE") /\ mframe' = mframe
    BY <1>4 DEF PushFrame, S, M
  <2>4. priv \in {U, S}
    BY <1>i, <1>2, <1>4 DEF trap_enter, TrapTarget, Privs, U, S, M
  <2>5. SFrameOK'
    <3>1. /\ sframe'.priv = priv /\ sframe'.pc = pc
          /\ sframe'.ie <=> "SIE" \in csr["mstatus"]
      BY <2>3 DEF Frame
    <3>2. /\ "SPIE" \in csr'["mstatus"] <=> "SIE" \in csr["mstatus"]
          /\ "SIE" \notin csr'["mstatus"] /\ Spp(csr'["mstatus"]) = priv
      BY <2>2, <2>4, PushSBits
    <3> QED BY <2>2, <3>1, <3>2 DEF SFrameOK, SFrameIntact
  <2>6. MKept(csr, csr')
    BY <2>2, <2>4, PushSBits DEF MKept
  <2> QED BY <2>3, <2>5, <2>6, MFrameKept
<1> QED BY <1>3, <1>4 DEF PushFrame

(* The registers a CSR write reaches, by its address.                      *)
LEMMA WriteReach ==
  ASSUME TypeOK, NEW a \in Addrs, NEW op \in {"RW", "RS", "RC"}, NEW value, csr_access(a, op, value)
  PROVE  /\ a \notin {"mstatus", "mepc"} => MKept(csr, csr')
         /\ a \notin {"mstatus", "sstatus", "sepc"} => SKept(csr, csr')
<1> DEFINE r == Aliased(a)
           mod == Modified(csr0[r], WriteMask(a), op, value)
           new == Warl(a, csr0[r], mod)
<1>1. csr' = [csr0 EXCEPT ![r] = new] /\ CsrOK(csr0)
  BY BeginUpdate DEF csr_access
<1>2. \A q \in Regs \ {"mip"} : q # r => csr'[q] = csr[q]
  <2> HIDE DEF r, new
  <2> QED BY <1>1, BeginUpdate DEF CsrOK
<1>3. /\ r = "mstatus" => a \in {"mstatus", "sstatus"}
      /\ r = "mepc" => a = "mepc"
      /\ r = "sepc" => a = "sepc"
  BY DEF Aliased
<1>4. a = "sstatus" => /\ r = "mstatus" /\ WriteMask(a) = SStatus /\ new = mod
                       /\ csr'["mstatus"] = new
                       /\ csr0["mstatus"] = csr["mstatus"]
  <2> SUFFICES ASSUME a = "sstatus" PROVE /\ r = "mstatus" /\ WriteMask(a) = SStatus /\ new = mod
                       /\ csr'["mstatus"] = new
                       /\ csr0["mstatus"] = csr["mstatus"]
    OBVIOUS
  <2>1. r = "mstatus"
    BY DEF Aliased
  <2>2. WriteMask(a) = SStatus
    BY MaskCases
  <2>3. new = mod
    BY WarlRange
  <2>4. csr0["mstatus"] = csr["mstatus"]
    BY BeginUpdate, RegNames
  <2>5. csr'["mstatus"] = new
    <3> HIDE DEF r, new
    <3> QED BY <1>1, <2>1, RegNames DEF CsrOK
  <2> QED BY <2>1, <2>2, <2>3, <2>4, <2>5
<1>5. a = "sstatus" => csr'["mstatus"] \ SStatus = csr["mstatus"] \ SStatus
  <2>1. \A o, mask : Modified(o, mask, op, value) \ mask = o \ mask
    BY ModifiedRange
  <2>2. mod \ WriteMask(a) = csr0[r] \ WriteMask(a)
    BY <2>1, Zenon
  <2> HIDE DEF r, new, mod
  <2> QED BY <1>4, <2>2
<1>6. \A b \in MppBits \cup {"MPIE", "MIE"} : b \notin SStatus
  BY DEF SStatus, MppBits
<1> HIDE DEF r, new, mod
<1>7. a \notin {"mstatus", "mepc"} => MKept(csr, csr')
  <2> SUFFICES ASSUME a \notin {"mstatus", "mepc"} PROVE MKept(csr, csr')
    OBVIOUS
  <2>1. csr'["mepc"] = csr["mepc"]
    BY <1>2, <1>3, RegNames
  <2>2. csr'["mstatus"] \ SStatus = csr["mstatus"] \ SStatus
    BY <1>2, <1>3, <1>5, RegNames
  <2> QED BY <1>6, <2>1, <2>2 DEF MKept
<1>8. a \notin {"mstatus", "sstatus", "sepc"} => SKept(csr, csr')
  BY <1>2, <1>3, RegNames DEF SKept
<1> QED BY <1>7, <1>8

LEMMA RewriteOK ==
  ASSUME HartInv, MFrameOK, SFrameOK, RewriteFrame
  PROVE  MFrameOK' /\ SFrameOK'
<1>1. PICK a \in Addrs :
        /\ CsrStep(a)
        /\ mframe' = IF a \in {"mstatus", "mepc"} THEN NoFrame ELSE mframe
        /\ sframe' = IF a \in {"mstatus", "sstatus", "sepc"} THEN NoFrame ELSE sframe
  BY DEF RewriteFrame
<1>2. /\ a \notin {"mstatus", "mepc"} => MKept(csr, csr')
      /\ a \notin {"mstatus", "sstatus", "sepc"} => SKept(csr, csr')
  <2>1. CASE csr' = csr0
    BY <2>1, Csr0Kept DEF HartInv
  <2>2. CASE \E w \in Writes : csr_access(a, w.op, w.value)
    <3>1. PICK w \in Writes : csr_access(a, w.op, w.value)
      BY <2>2
    <3>2. w.op \in {"RW", "RS", "RC"}
      BY HartAssumption
    <3> QED BY <3>1, <3>2, WriteReach DEF HartInv
  <2> QED BY <1>1, <2>1, <2>2 DEF CsrStep, CsrWrite, CounterWrite
<1>3. MFrameOK'
  <2>1. CASE a \in {"mstatus", "mepc"}
    <3>1. mframe' = NoFrame
      BY <1>1, <2>1
    <3> QED BY <3>1, NoFrameOK
  <2>2. CASE a \notin {"mstatus", "mepc"}
    BY <1>1, <1>2, <2>2, MFrameKept
  <2> QED BY <2>1, <2>2
<1>4. SFrameOK'
  <2>1. CASE a \in {"mstatus", "sstatus", "sepc"}
    <3>1. sframe' = NoFrame
      BY <1>1, <2>1
    <3> QED BY <3>1, NoFrameOK
  <2>2. CASE a \notin {"mstatus", "sstatus", "sepc"}
    BY <1>1, <1>2, <2>2, SFrameKept
  <2> QED BY <2>1, <2>2
<1> QED BY <1>3, <1>4

(* A return from one mode keeps the frame of the other.                    *)
LEMMA PopBits ==
  ASSUME NEW ms
  PROVE  /\ \A b \in {"SPP", "SPIE", "SIE"} : b \in PopM(ms) <=> b \in ms
         /\ \A b \in MppBits \cup {"MPIE", "MIE"} : b \in PopS(ms) <=> b \in ms
<1>1. \A b \in {"SPP", "SPIE", "SIE"} : b \in PopM(ms) <=> b \in ms
  BY DEF PopM, Field, MppBits
<1>2. \A b \in MppBits \cup {"MPIE", "MIE"} : b \in PopS(ms) <=> b \in ms
  BY DEF PopS, Field, MppBits
<1> QED BY <1>1, <1>2

LEMMA FramesStep ==
  ASSUME FramesInv, [FramesNext]_framesVars
  PROVE  FramesInv'
<1>1. TypeOK /\ MFrameOK /\ SFrameOK
  BY DEF FramesInv, HartInv, FramesIntact, Masked, MFrameOK, SFrameOK
<1>2. HartInv'
  <2>1. FramesNext => Next
    BY DEF FramesNext, PushFrame, RewriteFrame, Next
  <2>2. UNCHANGED framesVars => UNCHANGED vars
    BY DEF framesVars, vars
  <2> QED BY <2>1, <2>2, StepPreserves DEF FramesInv, StepOK
<1>3. MFrameOK' /\ SFrameOK'
  <2>3. CASE PushFrame
    BY <1>1, <2>3, PushOK DEF FramesInv
  <2>4. CASE RewriteFrame
    BY <1>1, <2>4, RewriteOK DEF FramesInv
  <2>5. CASE PlainStep /\ UNCHANGED <<mframe, sframe>>
    <3>1. csr' = csr0
      BY <2>5 DEF PlainStep, Asleep, Compute, Access, Wfi, SfenceVma
    <3> QED BY <1>1, <2>5, <3>1, Csr0Kept, MFrameKept, SFrameKept
  <2>6. CASE Mret /\ mframe' = NoFrame /\ UNCHANGED sframe
    <3>1. csr' = [csr0 EXCEPT !["mstatus"] = PopM(@)]
      BY <2>6 DEF Mret, trap_exit_mret
    <3>2. csr'["mstatus"] = PopM(csr["mstatus"]) /\ csr'["sepc"] = csr["sepc"]
      BY <1>1, <3>1, BeginUpdate, RegNames DEF CsrOK
    <3>3. SFrameOK'
      BY <1>1, <2>6, <3>2, PopBits, SFrameKept DEF SKept
    <3>4. MFrameOK'
      BY <2>6, NoFrameOK
    <3> QED BY <3>3, <3>4
  <2>7. CASE Sret /\ sframe' = NoFrame /\ UNCHANGED mframe
    <3>1. csr' = [csr0 EXCEPT !["mstatus"] = PopS(@)]
      BY <2>7 DEF Sret, trap_exit_sret
    <3>2. csr'["mstatus"] = PopS(csr["mstatus"]) /\ csr'["mepc"] = csr["mepc"]
      BY <1>1, <3>1, BeginUpdate, RegNames DEF CsrOK
    <3>3. MFrameOK'
      BY <1>1, <2>7, <3>2, PopBits, MFrameKept DEF MKept
    <3>4. SFrameOK'
      BY <2>7, NoFrameOK
    <3> QED BY <3>3, <3>4
  <2>8. CASE cpu_init /\ mframe' = NoFrame /\ sframe' = NoFrame
    BY <2>8, NoFrameOK
  <2>9. CASE UNCHANGED framesVars
    BY <1>1, <2>9, MFrameKept, SFrameKept DEF framesVars, MKept, SKept
  <2> QED BY <2>3, <2>4, <2>5, <2>6, <2>7, <2>8, <2>9 DEF FramesNext
<1> QED BY <1>2, <1>3 DEF FramesInv, FramesIntact, Masked, MFrameOK, SFrameOK

LEMMA FramesInitOK == FramesInit => FramesInv
BY InitOK, NoFrameOK DEF FramesInit, FramesInv, FramesIntact, Masked, MFrameOK, SFrameOK

(* Whatever traps, returns and CSR writes come between a trap and its      *)
(* return, MRET and SRET restore what their own trap interrupted.          *)
THEOREM HartFramesIntact == FramesSpec => []FramesIntact
BY FramesStep, FramesInitOK, PTL DEF FramesSpec, FramesInv

(* No interrupt of its own mode re-enters a handler whose frame is live,   *)
(* whatever other traps have come and gone.  Invariant by Masked, which    *)
(* also speaks of the time the hart spends in other modes.                 *)
THEOREM HartHandlerMasked == FramesSpec => []HandlerMasked
<1>1. FramesInv => HandlerMasked
  BY DEF FramesInv, Masked, HandlerMasked
<1> QED BY <1>1, FramesStep, FramesInitOK, PTL DEF FramesSpec
=============================================================================
