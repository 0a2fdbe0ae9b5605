-------------------------------- MODULE Inst --------------------------------
(***************************************************************************)
(* What the emulator makes of one instruction word (emulator/src/cpu/cpu.c *)
(* and its generated patterns, include/cpu/decode.h): the pattern that     *)
(* matches, the immediate, and the effect on rd, pc and memory.            *)
(*                                                                         *)
(* A word is the fields the patterns look at.  Registers are words of XLEN *)
(* bits with W forms of HALF bits, powers of two as 64 and 32 are, so that *)
(* a shift amount is the operand modulo the width.  Memory is named by     *)
(* byte: an effect says which byte goes where, not its value.  Addresses   *)
(* are physical, and every access succeeds: see Tlb and Bus.               *)
(***************************************************************************)
EXTENDS MulDivRef, Sequences

OPCODE_LUI       == 55
OPCODE_AUIPC     == 23
OPCODE_JAL       == 111
OPCODE_JALR      == 103
OPCODE_BRANCH    == 99
OPCODE_LOAD      == 3
OPCODE_STORE     == 35
OPCODE_OP_IMM    == 19
OPCODE_OP_IMM_32 == 27
OPCODE_OP        == 51
OPCODE_OP_32     == 59
OPCODE_MISC_MEM  == 15
OPCODE_SYSTEM    == 115
OPCODE_AMO       == 47

Opcodes ==
  {OPCODE_LUI, OPCODE_AUIPC, OPCODE_JAL, OPCODE_JALR, OPCODE_BRANCH, OPCODE_LOAD, OPCODE_STORE,
   OPCODE_OP_IMM, OPCODE_OP_IMM_32, OPCODE_OP, OPCODE_OP_32, OPCODE_MISC_MEM, OPCODE_SYSTEM, OPCODE_AMO}

-----------------------------------------------------------------------------
(* The patterns: an operation, and the fields its mask fixes.  fix is how  *)
(* many of the top bits of func7 are fixed, and to what.                   *)
Any == -1

P(op, opcode, func3, fix, top) ==
  [op |-> op, opcode |-> opcode, func3 |-> func3, fix |-> fix, top |-> top]

(* Patterns on func3 alone, listed from func3 = 0; "-" if there is none.   *)
ByFunc3(opcode, ops) ==
  {P(ops[f], opcode, f - 1, 0, 0) : f \in {g \in 1 .. 8 : ops[g] # "-"}}

ByFunc7(opcode, func7, ops) ==
  {P(ops[f], opcode, f - 1, 7, func7) : f \in {g \in 1 .. 8 : ops[g] # "-"}}

AmoOps == {<<"LR", 2>>, <<"SC", 3>>, <<"AMOSWAP", 1>>, <<"AMOADD", 0>>, <<"AMOXOR", 4>>, <<"AMOAND", 12>>,
           <<"AMOOR", 8>>, <<"AMOMIN", 16>>, <<"AMOMAX", 20>>, <<"AMOMINU", 24>>, <<"AMOMAXU", 28>>}

OpPatterns ==
  ByFunc3(OPCODE_OP_IMM, <<"ADD", "-", "SLT", "SLTU", "XOR", "-", "OR", "AND">>)
  \cup {P("SLL", OPCODE_OP_IMM, 1, 6, 0), P("SRL", OPCODE_OP_IMM, 5, 6, 0), P("SRA", OPCODE_OP_IMM, 5, 6, 16)}
  \cup ByFunc3(OPCODE_OP_IMM_32, <<"ADD", "-", "-", "-", "-", "-", "-", "-">>)
  \cup ByFunc7(OPCODE_OP_IMM_32, 0, <<"-", "SLL", "-", "-", "-", "SRL", "-", "-">>)
  \cup ByFunc7(OPCODE_OP_IMM_32, 32, <<"-", "-", "-", "-", "-", "SRA", "-", "-">>)
  \cup ByFunc7(OPCODE_OP, 0, <<"ADD", "SLL", "SLT", "SLTU", "XOR", "SRL", "OR", "AND">>)
  \cup ByFunc7(OPCODE_OP, 32, <<"SUB", "-", "-", "-", "-", "SRA", "-", "-">>)
  \cup ByFunc7(OPCODE_OP_32, 0, <<"ADD", "SLL", "-", "-", "-", "SRL", "-", "-">>)
  \cup ByFunc7(OPCODE_OP_32, 32, <<"SUB", "-", "-", "-", "-", "SRA", "-", "-">>)
  \cup {P("LUI", OPCODE_LUI, Any, 0, 0), P("AUIPC", OPCODE_AUIPC, Any, 0, 0)}

MemoryPatterns ==
  ByFunc3(OPCODE_LOAD, <<"LB", "LH", "LW", "LD", "LBU", "LHU", "LWU", "-">>)
  \cup ByFunc3(OPCODE_STORE, <<"SB", "SH", "SW", "SD", "-", "-", "-", "-">>)

JumpPatterns ==
  {P("JAL", OPCODE_JAL, Any, 0, 0)}
  \cup ByFunc3(OPCODE_JALR, <<"JALR", "-", "-", "-", "-", "-", "-", "-">>)
  \cup ByFunc3(OPCODE_BRANCH, <<"BEQ", "BNE", "-", "-", "BLT", "BGE", "BLTU", "BGEU">>)

MulDivPatterns ==
  ByFunc7(OPCODE_OP, 1, <<"MUL", "MULH", "MULHSU", "MULHU", "DIV", "DIVU", "REM", "REMU">>)
  \cup ByFunc7(OPCODE_OP_32, 1, <<"MUL", "-", "-", "-", "DIV", "DIVU", "REM", "REMU">>)

AmoPatterns == {P(a[1], OPCODE_AMO, f, 5, a[2]) : a \in AmoOps, f \in {2, 3}}

SystemPatterns ==
  ByFunc3(OPCODE_MISC_MEM, <<"FENCE", "FENCEI", "-", "-", "-", "-", "-", "-">>)
  \cup ByFunc3(OPCODE_SYSTEM, <<"-", "CSRRW", "CSRRS", "CSRRC", "-", "CSRRWI", "CSRRSI", "CSRRCI">>)
  \cup {P("SFENCE_VMA", OPCODE_SYSTEM, 0, 7, 9), P("ECALL", OPCODE_SYSTEM, 0, 7, 0), P("EBREAK", OPCODE_SYSTEM, 0, 7, 0),
        P("SRET", OPCODE_SYSTEM, 0, 7, 8), P("WFI", OPCODE_SYSTEM, 0, 7, 8), P("MRET", OPCODE_SYSTEM, 0, 7, 24)}

Patterns ==
  OpPatterns \cup MemoryPatterns \cup JumpPatterns \cup MulDivPatterns \cup AmoPatterns \cup SystemPatterns

(* The patterns that fix register fields too: [rs2, rs1, rd].              *)
Whole(rs2) == [rs2 |-> {rs2}, rs1 |-> {0}, rd |-> {0}]

RegFields(op, w) ==
  CASE op = "ECALL" -> Whole(0)
    [] op = "EBREAK" -> Whole(1)
    [] op \in {"SRET", "MRET"} -> Whole(2)
    [] op = "WFI" -> Whole(5)
    [] op = "SFENCE_VMA" -> [rs2 |-> {w.rs2}, rs1 |-> {w.rs1}, rd |-> {0}]
    [] op = "LR" -> [rs2 |-> {0}, rs1 |-> {w.rs1}, rd |-> {w.rd}]
    [] OTHER -> [rs2 |-> {w.rs2}, rs1 |-> {w.rs1}, rd |-> {w.rd}]

Matches(p, w) ==
  /\ w.opcode = p.opcode
  /\ p.func3 \in {Any, w.func3}
  /\ w.func7 \div 2^(7 - p.fix) = p.top
  /\ LET r == RegFields(p.op, w) IN w.rs2 \in r.rs2 /\ w.rs1 \in r.rs1 /\ w.rd \in r.rd

(* The operation INSTPAT selects; "illegal" when no pattern matches.       *)
EmuOp(w) ==
  LET m == {p \in Patterns : Matches(p, w)}
  IN  IF m = {} THEN "illegal" ELSE (CHOOSE p \in m : TRUE).op

-----------------------------------------------------------------------------
(* Immediates: bit k of the immediate is bit imm[k] of the word, or 0.     *)
Zero == -1

bits(hi, lo, shift) == {<<k - lo + shift, k>> : k \in lo .. hi}

Extended(fields, width) ==
  [k \in 0 .. 63 |->
     LET j == IF k < width THEN k ELSE width - 1
         src == {f \in fields : f[1] = j}
     IN  IF src = {} THEN Zero ELSE (CHOOSE f \in src : TRUE)[2]]

IMM_I == Extended(bits(31, 20, 0), 12)
IMM_S == Extended(bits(11, 7, 0) \cup bits(31, 25, 5), 12)
IMM_B == Extended(bits(31, 31, 12) \cup bits(30, 25, 5) \cup bits(11, 8, 1) \cup bits(7, 7, 11), 13)
IMM_U == Extended(bits(31, 12, 12), 32)
IMM_J == Extended(bits(31, 31, 20) \cup bits(30, 21, 1) \cup bits(20, 20, 11) \cup bits(19, 12, 12), 21)

decode_imm(opcode) ==
  CASE opcode \in {OPCODE_LOAD, OPCODE_OP_IMM, OPCODE_OP_IMM_32, OPCODE_JALR} -> IMM_I
    [] opcode \in {OPCODE_AUIPC, OPCODE_LUI} -> IMM_U
    [] opcode = OPCODE_STORE -> IMM_S
    [] opcode = OPCODE_JAL -> IMM_J
    [] opcode = OPCODE_BRANCH -> IMM_B

(* Which instructions mention RS1(), RS2() and RD().                       *)
UsesRs1(w) == w.opcode \notin {OPCODE_LUI, OPCODE_AUIPC, OPCODE_JAL}
UsesRs2(w) == w.opcode \in {OPCODE_BRANCH, OPCODE_STORE, OPCODE_OP, OPCODE_OP_32, OPCODE_AMO} /\ EmuOp(w) # "LR"
WritesRd(w) == w.opcode \notin {OPCODE_BRANCH, OPCODE_STORE}

-----------------------------------------------------------------------------
(* Effects, on s = [rs1, rs2, imm, pc, data]: data is the doubleword that  *)
(* holds the word at the address of an AMO.                                *)
NoRd == -1
NoMem == [kind |-> "none", bytes |-> {}, value |-> 0]

Effect(trap, rd, pc, mem) ==
  [trap |-> trap, rd |-> IF trap = "none" THEN rd ELSE NoRd, pc |-> IF trap = "none" THEN pc ELSE 0,
   mem |-> IF trap = "none" THEN mem ELSE NoMem]

Signed(x) == SignedVal(x, XLEN)
Truth(b) == IF b THEN 1 ELSE 0
Next4(s) == (s.pc + 4) % 2^XLEN

(* C's and SystemVerilog's bitwise operators: a word is the set of the     *)
(* bits that are 1.                                                        *)
Bits(x) == {k \in 0 .. XLEN - 1 : (x \div 2^k) % 2 = 1}
OfBits(S) == CHOOSE x \in Words : Bits(x) = S

BitAnd(a, b) == OfBits(Bits(a) \cap Bits(b))
BitOr(a, b) == OfBits(Bits(a) \cup Bits(b))
BitXor(a, b) == OfBits((Bits(a) \cup Bits(b)) \ (Bits(a) \cap Bits(b)))

EmuAlu(op, w, a, b) ==
  CASE op = "ADD" -> sext(a + b, w)
    [] op = "SUB" -> sext(a - b, w)
    [] op = "SLL" -> sext((a % 2^w) * 2^(b % w), w)
    [] op = "SRL" -> sext((a % 2^w) \div 2^(b % w), w)
    [] op = "SRA" -> sext(SignedVal(a, w) \div 2^(b % w), w)
    [] op = "SLT" -> Truth(Signed(a) < Signed(b))
    [] op = "SLTU" -> Truth(a < b)
    [] op = "XOR" -> BitXor(a, b)
    [] op = "OR" -> BitOr(a, b)
    [] op = "AND" -> BitAnd(a, b)
    [] OTHER -> MulDiv(op, w = HALF, a, b)

Taken(op, s) ==
  CASE op = "BEQ" -> s.rs1 = s.rs2
    [] op = "BNE" -> s.rs1 # s.rs2
    [] op = "BLT" -> Signed(s.rs1) < Signed(s.rs2)
    [] op = "BGE" -> Signed(s.rs1) >= Signed(s.rs2)
    [] op = "BLTU" -> s.rs1 < s.rs2
    [] op = "BGEU" -> s.rs1 >= s.rs2

JumpTo(target, rd) ==
  Effect(IF target % 4 # 0 THEN "INST_ADDR_MISALIGNED" ELSE "none", rd, target, NoMem)

(* Byte k of a loaded register, or of a stored one, is byte addr + k of    *)
(* memory; above the size it is the sign (100 + the byte it is of) or 0.   *)
LoadBytes(addr, size, ext) ==
  {<<k, IF k < size THEN addr + k ELSE IF ext THEN 100 + addr + size - 1 ELSE Zero>> : k \in 0 .. 7}
StoreBytes(addr, size) == {<<addr + k, k>> : k \in 0 .. size - 1}

Access(kind, s, addr, size, bytes, rd, value) ==
  Effect(IF addr % size = 0 THEN "none"
         ELSE IF kind = "load" THEN "LOAD_ADDR_MISALIGNED" ELSE "STORE_AMO_ADDR_MISALIGNED",
         rd, Next4(s), [kind |-> kind, bytes |-> bytes, value |-> value])

Load(s, addr, size, ext) == Access("load", s, addr, size, LoadBytes(addr, size, ext), NoRd, 0)
Store(kind, s, addr, size) == Access(kind, s, addr, size, StoreBytes(addr, size), NoRd, 0)

SizeOf(op) ==
  CASE op \in {"LB", "LBU", "SB"} -> 1
    [] op \in {"LH", "LHU", "SH"} -> 2
    [] op \in {"LW", "LWU", "SW"} -> 4
    [] op \in {"LD", "SD"} -> 8

(* EXEC_AMO: the value stored, of the width w of the access; CMP32U and    *)
(* CMP32S compare the low halves.                                          *)
EmuAmo(op, w, src, read) ==
  CASE op = "AMOSWAP" -> src % 2^w
    [] op = "AMOADD" -> (src + read) % 2^w
    [] op = "AMOXOR" -> BitXor(src, read) % 2^w
    [] op = "AMOAND" -> BitAnd(src, read) % 2^w
    [] op = "AMOOR" -> BitOr(src, read) % 2^w
    [] op = "AMOMIN" -> (IF SignedVal(src, w) < SignedVal(read, w) THEN src ELSE read) % 2^w
    [] op = "AMOMAX" -> (IF SignedVal(src, w) > SignedVal(read, w) THEN src ELSE read) % 2^w
    [] op = "AMOMINU" -> (IF src % 2^w < read % 2^w THEN src ELSE read) % 2^w
    [] op = "AMOMAXU" -> (IF src % 2^w > read % 2^w THEN src ELSE read) % 2^w

(* The bytes of an aligned doubleword from addr on.                        *)
BytesFrom(data, addr) == IF addr % 8 = 4 THEN data \div 2^HALF ELSE data

EmuMemory(op, opcode, func3, s) ==
  LET size == IF func3 = 2 THEN 4 ELSE 8
      w == IF func3 = 2 THEN HALF ELSE XLEN
      read == sext(BytesFrom(s.data, s.rs1), w)
      addr == (s.rs1 + s.imm) % 2^XLEN
  IN  CASE opcode = OPCODE_LOAD -> Load(s, addr, SizeOf(op), op \in {"LB", "LH", "LW"})
        [] opcode = OPCODE_STORE -> Store("store", s, addr, SizeOf(op))
        [] op = "LR" -> Load(s, s.rs1, size, TRUE)
        [] op = "SC" -> Store("sc", s, s.rs1, size)
        [] OTHER -> Access("amo", s, s.rs1, size, StoreBytes(s.rs1, size), read, EmuAmo(op, w, s.rs2, read))

(* cpu_step's switch, for the instructions that are not SYSTEM or fences.  *)
EmuEffect(w, s) ==
  LET op == EmuOp(w)
      width == IF w.opcode \in {OPCODE_OP_32, OPCODE_OP_IMM_32} THEN HALF ELSE XLEN
  IN  CASE op = "LUI" -> Effect("none", s.imm, Next4(s), NoMem)
        [] op = "AUIPC" -> Effect("none", (s.pc + s.imm) % 2^XLEN, Next4(s), NoMem)
        [] op = "JAL" -> JumpTo((s.pc + s.imm) % 2^XLEN, Next4(s))
        [] op = "JALR" -> LET t == (s.imm + s.rs1) % 2^XLEN IN JumpTo(t - (t % 2), Next4(s))
        [] w.opcode = OPCODE_BRANCH ->
             IF Taken(op, s) THEN JumpTo((s.pc + s.imm) % 2^XLEN, NoRd) ELSE Effect("none", NoRd, Next4(s), NoMem)
        [] w.opcode \in {OPCODE_OP_IMM, OPCODE_OP_IMM_32} ->
             Effect("none", EmuAlu(op, width, s.rs1, s.imm), Next4(s), NoMem)
        [] w.opcode \in {OPCODE_OP, OPCODE_OP_32} ->
             Effect("none", EmuAlu(op, width, s.rs1, s.rs2), Next4(s), NoMem)
        [] OTHER -> EmuMemory(op, w.opcode, w.func3, s)
=============================================================================
