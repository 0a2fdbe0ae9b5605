------------------------------- MODULE RtlInst -------------------------------
(***************************************************************************)
(* What the RTL makes of one instruction word: decoder.sv, and the         *)
(* combinational paths of EX.sv, alu.sv, bu.sv, amo_alu.sv and MEM.sv that *)
(* its control signals select.  Multiplier and divider return what MulDiv  *)
(* says: see the modules Multiplier and Divider.                           *)
(***************************************************************************)
EXTENDS Inst

CONSTANTS
  InstWords,      \* the words that are fetched
  Imms, Pcs       \* the values immediates and pc may have

InstWord == [opcode : 0 .. 127, func3 : 0 .. 7, func7 : 0 .. 127, rs2 : 0 .. 31, rs1 : 0 .. 31, rd : 0 .. 31]

ASSUME DecoderAssumption ==
  /\ InstWords \subseteq InstWord
  /\ Imms \subseteq Words
  /\ Pcs \subseteq {x \in Words : x % 4 = 0}

VARIABLE word     \* the word in ID, or NoWord

OPCODE_LOGIC_R64 == 51
OPCODE_LOGIC_R32 == 59
OPCODE_LOGIC_I64 == 19
OPCODE_LOGIC_I32 == 27

BitVal(x, k) == (x \div 2^k) % 2
Bool(x, k) == BitVal(x, k) = 1

-----------------------------------------------------------------------------
(* decoder.sv                                                              *)
Ctrl0(w) ==
  [rd_write |-> FALSE, rs1_read |-> FALSE, rs2_read |-> FALSE, illegal |-> FALSE,
   opcode |-> w.func3, is_32bit |-> Bool(w.opcode, 3), mem_opcode |-> w.func3,
   op1 |-> "rs1", op2 |-> "rs2", unit |-> "alu"]

IllegalR(w) ==
  \/ w.func7 \notin {0, 1, 32}
  \/ w.func7 = 1 /\ Bool(w.opcode, 3) /\ w.func3 \in {1, 2, 3}

IllegalI(w) ==
  IF Bool(w.opcode, 3)
  THEN (w.func3 = 1 /\ w.func7 # 0) \/ (w.func3 = 5 /\ w.func7 \notin {0, 32})
  ELSE (w.func3 = 1 /\ w.func7 \div 2 # 0) \/ (w.func3 = 5 /\ w.func7 \div 2 \notin {0, 16})

AmoCtrl(w) ==
  LET f5 == w.func7 \div 4
  IN  [Ctrl0(w) EXCEPT !.rd_write = TRUE, !.rs1_read = TRUE, !.rs2_read = f5 # 2, !.opcode = f5,
                       !.unit = IF f5 = 2 THEN "lr" ELSE IF f5 = 3 THEN "sc" ELSE "amo",
                       !.is_32bit = w.func3 = 2, !.mem_opcode = IF w.func3 = 2 THEN 2 ELSE 3,
                       !.illegal = w.func3 \notin {2, 3}]

ImmOpcode(w) == (IF w.func3 = 5 THEN 8 * BitVal(w.func7, 5) ELSE 0) + w.func3

decoder(w) ==
  LET c == Ctrl0(w)
  IN  CASE w.opcode \in {OPCODE_LOGIC_R64, OPCODE_LOGIC_R32} ->
             [c EXCEPT !.rd_write = TRUE, !.rs1_read = TRUE, !.rs2_read = TRUE,
                       !.opcode = 8 * BitVal(w.func7, 5) + w.func3,
                       !.unit = IF w.func7 # 1 THEN "alu" ELSE IF Bool(w.func3, 2) THEN "div" ELSE "mul",
                       !.illegal = IllegalR(w)]
        [] w.opcode \in {OPCODE_LOGIC_I64, OPCODE_LOGIC_I32} ->
             [c EXCEPT !.rd_write = TRUE, !.rs1_read = TRUE, !.op2 = "imm",
                       !.opcode = ImmOpcode(w), !.illegal = IllegalI(w)]
        [] w.opcode = OPCODE_LUI -> [c EXCEPT !.rd_write = TRUE, !.op1 = "zero", !.op2 = "imm", !.opcode = 0]
        [] w.opcode = OPCODE_AUIPC -> [c EXCEPT !.rd_write = TRUE, !.op1 = "pc", !.op2 = "imm", !.opcode = 0]
        [] w.opcode = OPCODE_JAL -> [c EXCEPT !.rd_write = TRUE, !.unit = "jal"]
        [] w.opcode = OPCODE_JALR ->
             [c EXCEPT !.rd_write = TRUE, !.rs1_read = TRUE, !.unit = "jalr", !.illegal = w.func3 # 0]
        [] w.opcode = OPCODE_BRANCH ->
             [c EXCEPT !.rs1_read = TRUE, !.rs2_read = TRUE, !.unit = "branch", !.illegal = w.func3 \in {2, 3}]
        [] w.opcode = OPCODE_LOAD ->
             [c EXCEPT !.rd_write = TRUE, !.rs1_read = TRUE, !.unit = "load", !.illegal = w.func3 = 7]
        [] w.opcode = OPCODE_STORE ->
             [c EXCEPT !.rs1_read = TRUE, !.rs2_read = TRUE, !.unit = "store", !.illegal = Bool(w.func3, 2)]
        [] w.opcode = OPCODE_AMO -> AmoCtrl(w)
        [] OTHER -> [c EXCEPT !.illegal = TRUE]

(* The immediate, from its top bit down.                                   *)
Rep(n, b) == [k \in 1 .. n |-> b]
Slice(hi, lo) == [k \in 1 .. hi - lo + 1 |-> hi - k + 1]

BranchSwapped ==                                           \* mutant: bits 7 and 31 trade places
  Rep(52, 7) \o Slice(31, 31) \o Slice(30, 25) \o Slice(11, 8) \o Rep(1, Zero)

BranchImm == Rep(52, 31) \o Slice(7, 7) \o Slice(30, 25) \o Slice(11, 8) \o Rep(1, Zero)

immediate(opcode) ==
  CASE opcode = OPCODE_STORE -> Rep(52, 31) \o Slice(31, 25) \o Slice(11, 7)
    [] opcode = OPCODE_BRANCH -> BranchImm
    [] opcode = OPCODE_JAL -> Rep(44, 31) \o Slice(19, 12) \o Slice(20, 20) \o Slice(30, 21) \o Rep(1, Zero)
    [] opcode \in {OPCODE_LUI, OPCODE_AUIPC} -> Rep(32, 31) \o Slice(31, 12) \o Rep(12, Zero)
    [] OTHER -> Rep(52, 31) \o Slice(31, 20)

-----------------------------------------------------------------------------
alu64(op, is_32bit, a, b) ==
  LET h == a % 2^HALF
      n == b % HALF
  IN  CASE op = 0 -> (a + b) % 2^XLEN
        [] op = 8 -> (a - b) % 2^XLEN
        [] op = 1 -> IF is_32bit THEN (h * 2^n) % 2^HALF ELSE (a * 2^(b % XLEN)) % 2^XLEN
        [] op = 2 -> Truth(Signed(a) < Signed(b))
        [] op = 3 -> Truth(a < b)
        [] op = 4 -> BitXor(a, b)
        [] op = 5 -> IF is_32bit THEN h \div 2^n ELSE a \div 2^(b % XLEN)
        [] op = 13 -> IF is_32bit THEN (SignedVal(a, HALF) \div 2^n) % 2^HALF ELSE (Signed(a) \div 2^(b % XLEN)) % 2^XLEN
        [] op = 6 -> BitOr(a, b)
        [] OTHER -> BitAnd(a, b)

alu(c, a, b) ==
  LET out == alu64(c.opcode % 16, c.is_32bit, a, b)
  IN  IF c.is_32bit THEN sext(out, HALF) ELSE out

MulNames == <<"MUL", "MULH", "MULHSU", "MULHU">>
DivNames == <<"DIV", "DIVU", "REM", "REMU">>

branch_result(opcode, s) ==
  LET raw == CASE (opcode \div 2) % 4 = 2 -> Signed(s.rs1) < Signed(s.rs2)
               [] (opcode \div 2) % 4 = 3 -> s.rs1 < s.rs2
               [] OTHER -> s.rs1 = s.rs2
  IN  raw # Bool(opcode, 0)

jump_pc(c, s) ==
  LET sum == ((IF c.unit = "jalr" THEN s.rs1 ELSE s.pc) + s.imm) % 2^XLEN
  IN  sum - (sum % 2)

(* amo_alu.sv: the unsigned comparison of sign-extended words, with the    *)
(* top bits inverted for the signed operations.                            *)
amo_alu(c, a, b) ==
  LET ext(x) == IF c.is_32bit THEN sext(x, HALF) ELSE x
      signed == c.opcode \div 8 = 2
      post(x) == IF signed THEN (ext(x) + 2^(XLEN - 1)) % 2^XLEN ELSE ext(x)
      less_then == post(a) < post(b)
      result == CASE c.opcode = 1 -> b
                  [] c.opcode = 0 -> (a + b) % 2^XLEN
                  [] c.opcode = 4 -> BitXor(a, b)
                  [] c.opcode = 12 -> BitAnd(a, b)
                  [] c.opcode = 8 -> BitOr(a, b)
                  [] c.opcode \in {16, 24} -> IF less_then THEN a ELSE b
                  [] c.opcode \in {20, 28} -> IF less_then THEN b ELSE a
                  [] OTHER -> 0
  IN  ext(result)

(* MEM.sv: the lanes of the doubleword an aligned access selects.          *)
Lanes(mem_opcode, haddr) ==
  LET size == 2^(mem_opcode % 4)
      lane == ((haddr % 8) \div size) * size
  IN  (haddr - (haddr % 8)) + lane

mem_rdata(mem_opcode, haddr) ==
  LET size == 2^(mem_opcode % 4)
      first == Lanes(mem_opcode, haddr)
  IN  {<<k, IF k < size THEN first + k
            ELSE IF Bool(mem_opcode, 2) THEN Zero ELSE 100 + first + size - 1>> : k \in 0 .. 7}

MEM_hwdata(mem_opcode, haddr) ==
  {<<Lanes(mem_opcode, haddr) + k, k>> : k \in 0 .. 2^(mem_opcode % 4) - 1}

RtlJump(c, s) ==
  LET jumps == c.unit \in {"jal", "jalr"} \/ branch_result(c.opcode, s)
      misaligned == jumps /\ Bool(jump_pc(c, s), 1)
  IN  Effect(IF misaligned THEN "INST_ADDR_MISALIGNED" ELSE "none",
             IF c.rd_write THEN Next4(s) ELSE NoRd, IF jumps THEN jump_pc(c, s) ELSE Next4(s), NoMem)

AmoReadsLowHalf(c, haddr, hrdata) ==           \* mutant: haddr[2] is not looked at
  IF c.is_32bit THEN sext(hrdata, HALF) ELSE hrdata

(* EX.sv: an AMO.W is at the upper half of the bus if haddr[2] is set.     *)
amo_rdata(c, haddr, hrdata) ==
  IF c.is_32bit THEN sext(IF Bool(haddr, 2) THEN hrdata \div 2^HALF ELSE hrdata, HALF) ELSE hrdata

amo_wdata(c, haddr, out) ==
  IF c.is_32bit /\ Bool(haddr, 2) THEN (out % 2^HALF) * 2^HALF ELSE out

(* The bytes of hwdata that a memory on the AHB stores.                    *)
AhbStores(hsize, haddr, hwdata) ==
  IF hsize = 3 THEN hwdata ELSE (IF Bool(haddr, 2) THEN hwdata \div 2^HALF ELSE hwdata) % 2^HALF

RtlMemory(c, s) ==
  LET haddr == IF c.unit \in {"lr", "sc", "amo"} THEN s.rs1 ELSE (s.rs1 + s.imm) % 2^XLEN
      hsize == c.mem_opcode % 4
      misaligned == haddr % 2^hsize # 0
      rdata == amo_rdata(c, haddr, s.data)
      Mem(kind, bytes, value) == [kind |-> kind, bytes |-> bytes, value |-> value]
  IN  CASE c.unit \in {"load", "lr"} ->
             Effect(IF misaligned /\ c.unit = "load" THEN "LOAD_ADDR_MISALIGNED" ELSE "none", NoRd, Next4(s),
                    Mem("load", mem_rdata(c.mem_opcode, haddr), 0))
        [] c.unit \in {"store", "sc"} ->
             Effect(IF misaligned /\ c.unit = "store" THEN "STORE_AMO_ADDR_MISALIGNED" ELSE "none", NoRd, Next4(s),
                    Mem(c.unit, MEM_hwdata(c.mem_opcode, haddr), 0))
        [] c.unit = "amo" ->
             Effect("none", rdata, Next4(s),
                    Mem("amo", StoreBytes(haddr, 2^hsize),
                        AhbStores(hsize, haddr, amo_wdata(c, haddr, amo_alu(c, rdata, s.rs2)))))

RtlEffect(w, s) ==
  LET c == decoder(w)
      alu_op1 == CASE c.op1 = "zero" -> 0 [] c.op1 = "pc" -> s.pc [] OTHER -> s.rs1
      alu_op2 == IF c.op2 = "imm" THEN s.imm ELSE s.rs2
      op == (c.opcode % 4) + 1
  IN  CASE c.unit \in {"jal", "jalr", "branch"} -> RtlJump(c, s)
        [] c.unit = "alu" -> Effect("none", alu(c, alu_op1, alu_op2), Next4(s), NoMem)
        [] c.unit = "mul" -> Effect("none", MulDiv(MulNames[op], c.is_32bit, alu_op1, alu_op2), Next4(s), NoMem)
        [] c.unit = "div" -> Effect("none", MulDiv(DivNames[op], c.is_32bit, alu_op1, alu_op2), Next4(s), NoMem)
        [] OTHER -> RtlMemory(c, s)

-----------------------------------------------------------------------------
NoWord == [opcode |-> 0, func3 |-> 0, func7 |-> 0, rs2 |-> 0, rs1 |-> 0, rd |-> 0]

WordInit == word = NoWord
Fetch == word = NoWord /\ word' \in InstWords
Retire == word # NoWord /\ word' = NoWord

DecoderNext == Fetch \/ Retire
DecoderSpec == WordInit /\ [][DecoderNext]_word

(* The immediate of a JAL or a branch is even: see SameImmediate.  An      *)
(* AMO, LR or SC whose address is no multiple of its size, which the RTL   *)
(* does not detect, is not compared; only an AMO reads data.               *)
Operands(w) ==
  IF w.opcode = OPCODE_AMO
  THEN [rs1 : {x \in Inputs : x % (IF w.func3 = 2 THEN 4 ELSE 8) = 0}, rs2 : Inputs, imm : Imms, pc : Pcs, data : Inputs]
  ELSE [rs1 : Inputs, rs2 : Inputs, pc : Pcs, data : {0},
        imm : {x \in Imms : w.opcode \in {OPCODE_JAL, OPCODE_BRANCH} => x % 2 = 0}]

Implemented == word.opcode \notin {OPCODE_SYSTEM, OPCODE_MISC_MEM} /\ EmuOp(word) # "illegal"

(* At most one pattern of decode.h matches a word, so that the order of    *)
(* the INSTPATs does not matter; and every word the emulator executes, but *)
(* for SYSTEM and fences which the RTL does not have, the RTL accepts: it  *)
(* declares the registers the instruction uses, which the interlock and    *)
(* the forwarding of ID go by, and has the same effect on rd, pc and       *)
(* memory for all Operands, or the same misalignment exception.  An AMO.W  *)
(* reads and writes the half of the doubleword its address selects.        *)
SameInstruction ==
  /\ \A p, q \in {r \in Patterns : Matches(r, word)} : p = q
  /\ Implemented =>
       LET c == decoder(word)
       IN  /\ ~c.illegal
           /\ UsesRs1(word) => c.rs1_read
           /\ UsesRs2(word) => c.rs2_read
           /\ c.rd_write <=> WritesRd(word)
           /\ \A s \in Operands(word) : RtlEffect(word, s) = EmuEffect(word, s)

(* Bit for bit of all 64, the decoder builds the emulator's immediate.     *)
SameImmediate ==
  Implemented /\ word.opcode \notin {OPCODE_OP, OPCODE_OP_32, OPCODE_AMO} =>
    LET imm == immediate(word.opcode)
    IN  Len(imm) = 64 /\ \A k \in 0 .. 63 : imm[64 - k] = decode_imm(word.opcode)[k]
=============================================================================
