----------------------------- MODULE MCPipeline -----------------------------
(* The pipeline on every program of N instructions over an alphabet with   *)
(* each class of instruction; a program wraps around, so that every        *)
(* instruction also follows every other at distances one to N.             *)
EXTENDS Pipeline

I(op, rd, rs1, rs2, imm) == [op |-> op, rd |-> rd, rs1 |-> rs1, rs2 |-> rs2, imm |-> imm]

MCInstrs ==
  {I("add", 1, 1, 2, 0), I("addi", 2, 1, 0, 1), I("auipc", 1, 0, 0, 1),
   I("mul", 1, 2, 2, 0), I("div", 2, 1, 2, 0),
   I("ld", 1, 2, 0, 1), I("ld", 2, 2, 0, 0), I("sd", 0, 1, 2, 0),
   I("beq", 0, 1, 2, 2), I("jal", 1, 0, 0, 2), I("jalr", 2, 1, 0, 0),
   I("lr", 2, 1, 0, 0), I("sc", 1, 1, 2, 0), I("sc", 2, 1, 1, 0), I("amo", 1, 2, 1, 0),
   I("ill", 1, 1, 1, 0)}

MCPrograms == [0 .. N - 1 -> MCInstrs]

MCBoot == [regs |-> [r \in 0 .. RegNum - 1 |-> r], mem |-> [a \in 0 .. W - 1 |-> (a + 1) % W]]

MCJunkInstrs == {I("addi", 1, 1, 0, 1)}
MCJunkWords == {0}

=============================================================================
