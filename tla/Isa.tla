-------------------------------- MODULE Isa --------------------------------
(***************************************************************************)
(* One instruction at a time: the execution that the five-stage pipeline   *)
(* of hardware/rtl/cpu must be indistinguishable from, as the emulator's   *)
(* inst_decode_exec performs it (emulator/src/cpu/cpu.c), with one         *)
(* difference: the emulator traps on an illegal instruction (cpu.c         *)
(* 739-742), the RTL has no trap yet and drops it in ID, so here it only   *)
(* advances the pc.                                                        *)
(*                                                                         *)
(* Data are abstracted: a word is a number below W, a memory cell is one   *)
(* word, the program counter counts instructions and wraps at the program's*)
(* length N.  One instruction stands for each class the pipeline treats    *)
(* differently.                                                            *)
(***************************************************************************)
EXTENDS Integers

CONSTANTS
  W,        \* the number of word values, 2^XLEN in the code
  N,        \* the number of instructions of the program
  RegNum    \* registers are 0 .. RegNum - 1, x0 reads as zero

Words == 0 .. W - 1
Regs == 0 .. RegNum - 1
Pcs == 0 .. N - 1

Ops == {"add", "addi", "auipc", "mul", "div", "ld", "sd", "beq", "jal", "jalr",
        "lr", "sc", "amo", "ill"}
Instrs == [op : Ops, rd : Regs, rs1 : Regs, rs2 : Regs, imm : Nat]

VARIABLES
  prog,     \* the program, read-only
  ipc,      \* cpu->pc
  iregs,    \* cpu->regs
  imem,     \* data memory
  ires      \* cpu->res, the LR reservation: [valid, start, end]

isaVars == <<prog, ipc, iregs, imem, ires>>

NoRes == [valid |-> FALSE, start |-> 0, end |-> 0]

RegWriters == Ops \ {"sd", "beq", "ill"}

(* The operations of the ALU, multiplier, divider and AMO unit.            *)
Alu(op, a, b) ==
  CASE op = "mul" -> (a * b) % W
    [] op = "div" -> IF b = 0 THEN W - 1 ELSE a \div b
    [] OTHER -> (a + b) % W

JumpTaken(i, a, b) == i.op \in {"jal", "jalr"} \/ (i.op = "beq" /\ a = b)

JumpPc(i, pc, a) == ((IF i.op = "jalr" THEN a ELSE pc) + i.imm) % N

AddrOf(i, a) == IF i.op \in {"lr", "sc", "amo"} THEN a ELSE (a + i.imm) % W

(* A cell lies inside the reservation.                                     *)
Reserved(res, addr) == res.valid /\ addr >= res.start /\ addr + 1 <= res.end

(* What rd receives, from the operands a and b and the memory m.           *)
Result(i, pc, a, b, m, res) ==
  CASE i.op \in {"ld", "lr", "amo"} -> m[AddrOf(i, a)]
    [] i.op = "sc" -> IF Reserved(res, AddrOf(i, a)) THEN 0 ELSE 1
    [] i.op \in {"jal", "jalr"} -> (pc + 1) % W
    [] i.op = "auipc" -> (pc + i.imm) % W
    [] i.op = "addi" -> Alu("add", a, i.imm)
    [] OTHER -> Alu(i.op, a, b)

MemAfter(i, a, b, m, res) ==
  CASE i.op = "sd" -> [m EXCEPT ![AddrOf(i, a)] = b]
    [] i.op = "amo" -> [m EXCEPT ![a] = Alu("add", @, b)]
    [] i.op = "sc" /\ Reserved(res, a) -> [m EXCEPT ![a] = b]
    [] OTHER -> m

ResAfter(i, a, res) ==
  CASE i.op = "lr" -> [valid |-> TRUE, start |-> a, end |-> a + 1]
    [] i.op = "sc" -> NoRes
    [] OTHER -> res

IsaInit ==
  /\ ipc = 0
  /\ iregs \in [Regs -> Words] /\ iregs[0] = 0
  /\ imem \in [Words -> Words]
  /\ ires = NoRes

IsaStep ==
  LET i == prog[ipc]
      a == iregs[i.rs1]
      b == iregs[i.rs2]
  IN  /\ ipc' = IF JumpTaken(i, a, b) THEN JumpPc(i, ipc, a) ELSE (ipc + 1) % N
      /\ iregs' = IF i.op \in RegWriters /\ i.rd # 0
                  THEN [iregs EXCEPT ![i.rd] = Result(i, ipc, a, b, imem, ires)]
                  ELSE iregs
      /\ imem' = MemAfter(i, a, b, imem, ires)
      /\ ires' = ResAfter(i, a, ires)
      /\ prog' = prog

IsaSafe == IsaInit /\ [][IsaStep]_isaVars

IsaFair == WF_isaVars(IsaStep)
=============================================================================
