--------------------------- MODULE PipelineProofs ---------------------------
(* Proofs about the pipeline of module Pipeline with memories that insert  *)
(* no wait states.                                                         *)
EXTENDS Pipeline, TLAPS

-----------------------------------------------------------------------------
(* Fetch.  The skid buffer never fills; the instruction of the pc in IF/ID *)
(* is on the bus in its first cycle in ID and in the buffer after that.    *)
FetchInv ==
  /\ bus.iready = TRUE
  /\ iphase.valid => bus.irdata = prog[iphase.addr]
  /\ skid.valid = FALSE
  /\ ifid.valid \in BOOLEAN /\ ID_stage_stalled \in BOOLEAN
  /\ ifid.valid /\ ~ID_stage_stalled => iphase = [valid |-> TRUE, addr |-> ifid.pc]
  /\ ifid.valid /\ ID_stage_stalled => instruction_buffer = prog[ifid.pc]

LEMMA NoWaitResponse ==
  ASSUME IWait = FALSE, NEW b, NEW iph, NEW dph, NEW m, b \in Responses(iph, dph, m), Response(b, iph, dph, m)
  PROVE  b.iready = TRUE /\ (iph.valid => b.irdata = prog[iph.addr])
  BY DEF Responses, Response

LEMMA FetchedIsDecoded == FetchInv => DecodedIsFetched
  BY DEF FetchInv, DecodedIsFetched, ID_stage_valid, instruction_valid, instruction_pre_valid, instruction_post, instruction

LEMMA FetchStep == IWait = FALSE /\ FetchInv /\ [Next]_vars => FetchInv'
<1> SUFFICES ASSUME IWait = FALSE, FetchInv, Clock PROVE FetchInv'
  BY DEF FetchInv, Next, vars
<1> USE DEF Clock
<1>1. bus'.iready = TRUE /\ (iphase'.valid => bus'.irdata = prog'[iphase'.addr])
  <2>1. PICK b \in Responses(iphase', dphase', mem') : Response(b, iphase', dphase', mem') /\ bus' = b
    BY DEF Memory_clock
  <2>2. prog' = prog
    BY DEF Memory_clock
  <2> QED
    BY <2>1, <2>2, NoWaitResponse
<1>2. skid'.valid = FALSE
  BY DEF FetchInv, ID_clock, instruction_valid
<1>3. ID_stage_stalled' = (ifid.valid /\ ~IF_ID_ready)
  BY DEF ID_clock
<1>4. CASE ifid.valid /\ ~IF_ID_ready
  <2>1. ifid' = ifid
    BY <1>4 DEF IF_clock, PipeNext, PipeReady
  <2>2. instruction_buffer' = prog[ifid.pc]
    BY <1>4 DEF FetchInv, ID_clock, instruction
  <2>3. prog' = prog /\ ID_stage_stalled' = TRUE
    BY <1>3, <1>4 DEF Memory_clock
  <2> QED
    BY <1>1, <1>2, <2>1, <2>2, <2>3 DEF FetchInv
<1>5. CASE ~(ifid.valid /\ ~IF_ID_ready)
  <2>1. ID_stage_stalled' = FALSE
    BY <1>3, <1>5
  <2>2. ifid' = IF instruction_read THEN [valid |-> TRUE, pc |-> pc] ELSE EmptyIFID
    BY <1>5 DEF IF_clock, PipeNext, PipeReady
  <2>3. instruction_read => iphase' = [valid |-> TRUE, addr |-> pc]
    BY DEF Memory_clock
  <2> QED
    BY <1>1, <1>2, <2>1, <2>2, <2>3 DEF FetchInv, EmptyIFID
<1> QED
  BY <1>4, <1>5

LEMMA FetchStart == IWait = FALSE /\ Init => FetchInv
<1> SUFFICES ASSUME IWait = FALSE, Init PROVE FetchInv
  OBVIOUS
<1>1. bus.iready = TRUE /\ (iphase.valid => bus.irdata = prog[iphase.addr])
  BY NoWaitResponse DEF Init
<1> QED
  BY <1>1 DEF Init, FetchInv, EmptyIFID

(* With an instruction memory that never waits, the instruction ID decodes *)
(* is the one at its pc, however long it is kept there.                    *)
THEOREM PipelineDecodedIsFetched ==
  ASSUME IWait = FALSE
  PROVE  Spec => []DecodedIsFetched
<1>1. Init => FetchInv
  BY FetchStart
<1>2. FetchInv /\ [Next]_vars => FetchInv'
  BY FetchStep
<1> QED
  BY <1>1, <1>2, FetchedIsDecoded, PTL DEF Spec

-----------------------------------------------------------------------------
(* Both memories answer in the cycle after the address, and the strap that *)
(* holds back fetches is off.                                              *)
NoWait == IWait = FALSE /\ DWait = FALSE /\ Strap = FALSE

Decoded == [op : Sys!Ops \cup {"none"}, rd : Regs, rs1 : Regs, rs2 : Regs, imm : Nat]

TypeInv ==
  /\ prog \in [Sys!Pcs -> Sys!Instrs] /\ mem \in [Words -> Words] /\ regs \in [Regs -> Words]
  /\ pc \in Sys!Pcs /\ run \in BOOLEAN /\ ifid \in [valid : BOOLEAN, pc : Sys!Pcs]
  /\ dphase \in [valid : BOOLEAN, write : BOOLEAN, addr : Words]
  /\ idex \in [valid : BOOLEAN, pc : Sys!Pcs, i : Decoded, rs1 : Words, rs2 : Words]
  /\ exmem \in [valid : BOOLEAN, mem_read : BOOLEAN, mem_write : BOOLEAN, rs2 : Words,
                rd_write : BOOLEAN, rd : Regs, alu_out : Words]
  /\ memwb \in [valid : BOOLEAN, rd_write : BOOLEAN, rd : Regs, wdata : Words]
  /\ unit \in Nat /\ amo_state \in {"READ_REQ", "READ_DATA", "WRITE_REQ", "WRITE_DATA"}
  /\ amo_rdata \in Words /\ bus.drdata \in Words /\ bus.busy \in Words

(* The data port answers, and a load in MEM has its data phase.            *)
DataInv ==
  /\ bus.dready = TRUE
  /\ dphase.valid /\ ~dphase.write => bus.drdata = mem[dphase.addr]
  /\ ~exmem.valid => exmem = EmptyEXMEM
  /\ exmem.mem_read => dphase.valid /\ ~dphase.write

(* The instructions in IF, ID and EX follow each other.                    *)
OrderInv ==
  /\ ifid.valid => run /\ pc = (ifid.pc + 1) % N
  /\ ~idex.valid => idex = EmptyIDEX
  /\ idex.valid => /\ idex.i \in Sys!Instrs /\ ~illegal(idex.i)
                   /\ ifid.valid
                   /\ ~jump => ifid.pc = (idex.pc + 1) % N

(* The multi-cycle units belong to the instruction in EX, and an AMO has   *)
(* read what it will replace.                                              *)
UnitInv ==
  /\ IF ex.op \in {"mul", "div"} THEN unit <= UnitDone ELSE unit = 0
  /\ ex.op # "amo" => amo_state = "READ_REQ"
  /\ amo_state = "READ_DATA" => dphase = [valid |-> TRUE, write |-> FALSE, addr |-> idex.rs1]
  /\ amo_state = "WRITE_REQ" => dphase = NoDPhase /\ amo_rdata = mem[idex.rs1]
  /\ amo_state = "WRITE_DATA" =>
       dphase = [valid |-> TRUE, write |-> TRUE, addr |-> idex.rs1] /\ amo_rdata = mem[idex.rs1]

PipeInv == FetchInv /\ TypeInv /\ DataInv /\ OrderInv /\ UnitInv

LEMMA Sizes ==
  /\ W \in Nat \ {0, 1} /\ N \in Nat \ {0} /\ RegNum \in Nat \ {0} /\ DivXlen \in Nat \ {0}
  /\ Words = 0 .. W - 1 /\ Regs = 0 .. RegNum - 1 /\ Sys!Pcs = 0 .. N - 1
  /\ 0 \in Words /\ 1 \in Words /\ 0 \in Regs /\ 0 \in Sys!Pcs
  BY PipelineAssumption DEF Words, Regs, Sys!Words, Sys!Regs, Sys!Pcs

LEMMA ModTypes ==
  ASSUME NEW x \in Nat
  PROVE  x % W \in Words /\ x % N \in Sys!Pcs
  BY Sizes

LEMMA DivType ==
  ASSUME NEW a \in Words, NEW b \in Words, b # 0
  PROVE  a \div b \in Words
<1>1. a \in Nat /\ b \in Nat \ {0} /\ a < W
  BY Sizes
<1>2. PICK q \in Int : q = a \div b
  BY <1>1
<1>3. PICK r \in Nat : r = a % b
  BY <1>1
<1>4. a = b * q + r /\ r < b
  BY <1>1, <1>2, <1>3
<1>5. q >= 0
  <2> SUFFICES ASSUME q <= -1 PROVE FALSE
    BY <1>2
  <2>1. b * q <= -b
    BY <1>1, <1>2
  <2> QED
    BY <1>1, <1>3, <1>4, <2>1
<1>6. b * q >= q
  BY <1>1, <1>2, <1>5
<1>7. q <= a
  <2>1. PICK z \in Int : z = b * q
    BY <1>1, <1>2
  <2> QED
    BY <1>1, <1>2, <1>3, <1>4, <1>6, <2>1
<1> QED
  BY <1>1, <1>2, <1>5, <1>7, Sizes

LEMMA AluType ==
  ASSUME NEW op, NEW a \in Words, NEW b \in Nat, op \in {"mul", "div"} => b \in Words
  PROVE  Sys!Alu(op, a, b) \in Words
<1>1. a \in Nat /\ W \in Nat \ {0, 1} /\ W - 1 \in Words
  BY Sizes
<1>2. CASE op = "mul"
  <2>1. a * b \in Nat
    BY <1>1
  <2>2. (a * b) % W \in Words
    BY <2>1, ModTypes
  <2> QED
    BY <1>2, <2>2 DEF Sys!Alu
<1>3. CASE op = "div"
  BY <1>1, <1>3, DivType DEF Sys!Alu
<1>4. CASE op # "mul" /\ op # "div"
  <2>1. (a + b) % W \in Words
    BY <1>1, ModTypes
  <2> QED
    BY <1>4, <2>1 DEF Sys!Alu
<1> QED
  BY <1>2, <1>3, <1>4

(* What rd_write, the reads and the stalls come to in EX.                  *)
LEMMA InstrFacts ==
  ASSUME TypeInv
  PROVE  /\ ex \in Decoded /\ ex.rd \in Regs /\ ex.imm \in Nat
         /\ idex.rs1 \in Words /\ idex.rs2 \in Words /\ idex.rs1 \in Nat /\ idex.rs2 \in Nat
         /\ idex.pc \in Sys!Pcs /\ idex.pc \in Nat
         /\ haddr \in Words
         /\ jump_pc \in Sys!Pcs
<1>1. /\ ex \in Decoded /\ idex.rs1 \in Words /\ idex.rs2 \in Words /\ idex.pc \in Sys!Pcs
      /\ ex.rd \in Regs /\ ex.imm \in Nat
  BY DEF TypeInv, Decoded, ex
<1>2. idex.rs1 \in Nat /\ idex.rs2 \in Nat /\ idex.pc \in Nat
  BY <1>1, Sizes
<1>3. haddr \in Words
  <2>1. idex.rs1 + ex.imm \in Nat
    BY <1>1, <1>2
  <2>2. (idex.rs1 + ex.imm) % W \in Words
    BY <2>1, ModTypes
  <2> QED
    BY <1>1, <2>2 DEF haddr, Sys!AddrOf
<1>4. jump_pc \in Sys!Pcs
  <2>1. PICK x \in Nat : x = (IF ex.op = "jalr" THEN idex.rs1 ELSE idex.pc)
    BY <1>2
  <2>2. x + ex.imm \in Nat
    BY <1>1, <2>1
  <2>3. (x + ex.imm) % N \in Sys!Pcs
    BY <2>2, ModTypes
  <2> QED
    BY <2>1, <2>3 DEF jump_pc, Sys!JumpPc
<1> QED
  BY <1>1, <1>2, <1>3, <1>4

LEMMA Quiet ==
  ASSUME PipeInv
  PROVE  /\ ~memory_stall /\ EX_MEM_ready /\ out_EX_ready
         /\ EX_stall <=> unit_stall \/ amo_stall
         /\ ID_EX_ready <=> ~EX_stall
         /\ mem_request <=> mem_request_raw
         /\ amo_stall <=> ex.op = "amo" /\ amo_state # "WRITE_DATA"
         /\ EX_stall => idex.valid /\ ~jump /\ ex.op \in {"mul", "div", "amo"}
         /\ out_ID_ready <=> ~EX_stall
         /\ jump => idex.valid
<1>1. bus.dready = TRUE /\ exmem.valid \in BOOLEAN /\ idex.valid \in BOOLEAN
  BY DEF PipeInv, DataInv, TypeInv
<1>2. ~memory_stall /\ EX_MEM_ready /\ out_EX_ready
  BY <1>1 DEF memory_stall, EX_MEM_ready, out_EX_ready, PipeReady
<1>3. /\ EX_stall <=> unit_stall \/ amo_stall
      /\ mem_request <=> mem_request_raw
      /\ amo_stall <=> ex.op = "amo" /\ amo_state # "WRITE_DATA"
  BY <1>1 DEF EX_stall, mem_request, amo_stall
<1>4. ID_EX_ready <=> ~EX_stall
  BY <1>2 DEF ID_EX_ready
<1>5. ~idex.valid => ex.op = "none"
  BY DEF PipeInv, OrderInv, EmptyIDEX, NoInstr, ex
<1>6. EX_stall => ex.op \in {"mul", "div", "amo"}
  BY <1>3 DEF unit_stall
<1>7. jump => ex.op \in {"jal", "jalr", "beq"}
  BY DEF jump, Sys!JumpTaken
<1> QED
  BY <1>1, <1>2, <1>3, <1>4, <1>5, <1>6, <1>7 DEF out_ID_ready, PipeReady

(* One edge, below ID.                                                     *)
LEMMA Edge ==
  ASSUME PipeInv, Clock
  PROVE  /\ exmem' = IF idex.valid
                     THEN [valid |-> TRUE,
                           mem_read |-> ex.op \in {"ld", "lr"},
                           mem_write |-> ex.op = "sd" \/ (ex.op = "sc" /\ sc_check_pass),
                           rs2 |-> idex.rs2, rd_write |-> rd_write(ex), rd |-> ex.rd,
                           alu_out |-> IF jump THEN (idex.pc + 1) % W ELSE ex_rd_wdata]
                     ELSE EmptyEXMEM
         /\ memwb' = IF exmem.valid
                     THEN [valid |-> TRUE, rd_write |-> exmem.rd_write, rd |-> exmem.rd, wdata |-> mem_rd_wdata]
                     ELSE EmptyMEMWB
         /\ mem' = DrainedMem
         /\ dphase' = IF mem_request_raw THEN [valid |-> TRUE, write |-> mem_write, addr |-> haddr] ELSE NoDPhase
         /\ amo_state' = CASE amo_state = "READ_REQ" /\ ex.op = "amo" -> "READ_DATA"
                           [] amo_state = "READ_DATA" -> "WRITE_REQ"
                           [] amo_state = "WRITE_REQ" -> "WRITE_DATA"
                           [] amo_state = "WRITE_DATA" -> "READ_REQ"
                           [] OTHER -> amo_state
         /\ amo_rdata' = IF amo_state = "READ_DATA" THEN bus.drdata ELSE amo_rdata
         /\ prog' = prog
<1>1. bus.dready = TRUE
  BY DEF PipeInv, DataInv
<1>2. ~memory_stall /\ EX_MEM_ready /\ (mem_request <=> mem_request_raw)
  BY Quiet
<1>3. exmem' = IF idex.valid
               THEN [valid |-> TRUE,
                     mem_read |-> ex.op \in {"ld", "lr"},
                     mem_write |-> ex.op = "sd" \/ (ex.op = "sc" /\ sc_check_pass),
                     rs2 |-> idex.rs2, rd_write |-> rd_write(ex), rd |-> ex.rd,
                     alu_out |-> IF jump THEN (idex.pc + 1) % W ELSE ex_rd_wdata]
               ELSE EmptyEXMEM
  BY <1>2 DEF Clock, EX_clock, PipeNext, PipeReady
<1>4. memwb' = IF exmem.valid
               THEN [valid |-> TRUE, rd_write |-> exmem.rd_write, rd |-> exmem.rd, wdata |-> mem_rd_wdata]
               ELSE EmptyMEMWB
  BY <1>2 DEF Clock, MEM_clock, PipeNext, PipeReady
<1>5. mem' = DrainedMem
  BY <1>1 DEF Clock, Memory_clock, DrainedMem
<1>6. dphase' = IF mem_request_raw THEN [valid |-> TRUE, write |-> mem_write, addr |-> haddr] ELSE NoDPhase
  BY <1>1, <1>2 DEF Clock, Memory_clock
<1>7. amo_state' = CASE amo_state = "READ_REQ" /\ ex.op = "amo" -> "READ_DATA"
                           [] amo_state = "READ_DATA" -> "WRITE_REQ"
                           [] amo_state = "WRITE_REQ" -> "WRITE_DATA"
                           [] amo_state = "WRITE_DATA" -> "READ_REQ"
                           [] OTHER -> amo_state
  BY <1>1 DEF Clock, EX_clock, amo_next
<1>8. amo_rdata' = (IF amo_state = "READ_DATA" THEN bus.drdata ELSE amo_rdata) /\ prog' = prog
  BY <1>1 DEF Clock, EX_clock, Memory_clock
<1> QED
  BY <1>3, <1>4, <1>5, <1>6, <1>7, <1>8

(* What ID does, and IF with it, in the order of the cases of ID.sv.       *)
NewIDEX ==
  [valid |-> TRUE, pc |-> ifid.pc, i |-> instruction_post,
   rs1 |-> final_rs(instruction_post.rs1, rs1_read(instruction_post)),
   rs2 |-> final_rs(instruction_post.rs2, rs2_read(instruction_post))]

Stays == EX_stall /\ idex' = idex /\ ifid' = ifid /\ pc' = pc
Flushes == ~EX_stall /\ jump /\ idex' = EmptyIDEX /\ ifid' = EmptyIFID /\ pc' = jump_pc
Interlocks == ~EX_stall /\ ~jump /\ ifid.valid /\ idex' = EmptyIDEX /\ ifid' = ifid /\ pc' = pc
Advances == ifid' = [valid |-> TRUE, pc |-> pc] /\ pc' = (pc + 1) % N
Drops == ~EX_stall /\ ~jump /\ ifid.valid /\ illegal(instruction_post) /\ idex' = EmptyIDEX /\ Advances
Enters ==
  /\ ~EX_stall /\ ~jump /\ ifid.valid /\ ~illegal(instruction_post) /\ ~load_dependency /\ ID_stage_valid
  /\ idex' = NewIDEX /\ Advances
Fills ==
  /\ ~EX_stall /\ ~ifid.valid /\ ~idex.valid /\ idex' = EmptyIDEX
  /\ (run /\ Advances) \/ (ifid' = EmptyIFID /\ pc' = pc)

LEMMA Moves ==
  ASSUME NoWait, PipeInv, Clock
  PROVE  Stays \/ Flushes \/ Interlocks \/ Drops \/ Enters \/ Fills
<1>1. /\ ID_EX_ready <=> ~EX_stall
      /\ out_ID_ready <=> ~EX_stall
      /\ EX_stall => idex.valid /\ ~jump
      /\ jump => idex.valid
  BY Quiet
<1>2. /\ bus.iready = TRUE /\ skid.valid = FALSE /\ ifid.valid \in BOOLEAN /\ idex.valid \in BOOLEAN /\ run \in BOOLEAN
      /\ ifid.valid => run
      /\ idex.valid => ifid.valid
      /\ Strap = FALSE
  BY DEF PipeInv, FetchInv, TypeInv, OrderInv, NoWait
<1>3. instruction_valid <=> ifid.valid /\ ~jump
  BY <1>2 DEF instruction_valid, instruction_pre_valid
<1>4. out_ID_valid <=> ifid.valid /\ ~jump /\ ~illegal(instruction_post) /\ ~load_dependency
  BY <1>3 DEF out_ID_valid, ID_stage_valid
<1>5. IF_ID_ready <=> (ifid.valid /\ ~jump /\ ~EX_stall /\ ~load_dependency) \/ jump
  BY <1>1, <1>3 DEF IF_ID_ready
<1>6. instruction_read <=> run /\ (~ifid.valid \/ IF_ID_ready) /\ ~jump
  BY <1>2 DEF instruction_read, out_IF_ready, PipeReady
<1>7. load_dependency => ID_stage_valid
  BY DEF load_dependency
<1>8. ID_stage_valid <=> ifid.valid /\ ~jump /\ ~illegal(instruction_post)
  BY <1>3 DEF ID_stage_valid
<1>9. idex' = IF EX_stall THEN idex ELSE IF out_ID_valid THEN NewIDEX ELSE EmptyIDEX
  BY <1>1, <1>2 DEF Clock, ID_clock, PipeNext, PipeReady, NewIDEX
<1>10. ifid' = IF ifid.valid /\ ~IF_ID_ready THEN ifid
               ELSE IF instruction_read THEN [valid |-> TRUE, pc |-> pc] ELSE EmptyIFID
  BY <1>2 DEF Clock, IF_clock, PipeNext, PipeReady
<1>11. pc' = IF ~(run /\ ((~ifid.valid \/ IF_ID_ready) \/ jump)) THEN pc
             ELSE IF jump THEN jump_pc ELSE (pc + 1) % N
  BY <1>2 DEF Clock, IF_clock, out_IF_ready, PipeReady
<1>12. CASE EX_stall
  BY <1>1, <1>2, <1>5, <1>9, <1>10, <1>11, <1>12 DEF Stays
<1>13. CASE ~EX_stall /\ jump
  BY <1>1, <1>2, <1>4, <1>5, <1>6, <1>9, <1>10, <1>11, <1>13 DEF Flushes
<1>14. CASE ~EX_stall /\ ~jump /\ ifid.valid /\ load_dependency
  BY <1>1, <1>2, <1>4, <1>5, <1>6, <1>9, <1>10, <1>11, <1>14 DEF Interlocks
<1>15. CASE ~EX_stall /\ ~jump /\ ifid.valid /\ ~load_dependency /\ illegal(instruction_post)
  BY <1>1, <1>2, <1>4, <1>5, <1>6, <1>9, <1>10, <1>11, <1>15 DEF Drops, Advances
<1>16. CASE ~EX_stall /\ ~jump /\ ifid.valid /\ ~load_dependency /\ ~illegal(instruction_post)
  BY <1>1, <1>2, <1>4, <1>5, <1>6, <1>8, <1>9, <1>10, <1>11, <1>16 DEF Enters, Advances
<1>17. CASE ~EX_stall /\ ~ifid.valid
  <2>1. ~idex.valid /\ ~jump /\ ~out_ID_valid /\ ~IF_ID_ready /\ (instruction_read <=> run)
    BY <1>1, <1>2, <1>4, <1>5, <1>6, <1>17
  <2>2. CASE run
    BY <1>9, <1>10, <1>11, <1>17, <2>1, <2>2 DEF Fills, Advances
  <2>3. CASE ~run
    <3>1. ifid' = EmptyIFID /\ pc' = pc /\ idex' = EmptyIDEX
      BY <1>9, <1>10, <1>11, <1>17, <2>1, <2>3
    <3> QED
      BY <1>17, <2>1, <3>1 DEF Fills
  <2> QED
    BY <1>2, <2>2, <2>3
<1> QED
  BY <1>2, <1>12, <1>13, <1>14, <1>15, <1>16, <1>17

LEMMA NoWaitData ==
  ASSUME DWait = FALSE, NEW b, NEW iph, NEW m \in [Words -> Words],
         NEW dph \in [valid : BOOLEAN, write : BOOLEAN, addr : Words],
         b \in Responses(iph, dph, m), Response(b, iph, dph, m)
  PROVE  /\ b.dready = TRUE /\ b.drdata \in Words /\ b.busy \in Words
         /\ dph.valid /\ ~dph.write => b.drdata = m[dph.addr]
<1>1. m[dph.addr] \in Words /\ JunkWords \subseteq Words
  BY PipelineAssumption
<1>2. b.dready = TRUE /\ b.drdata \in JunkWords \cup {m[dph.addr]} /\ b.busy \in JunkWords
  BY DEF Responses
<1>3. dph.valid /\ ~dph.write => b.drdata = m[dph.addr]
  BY <1>2 DEF Response
<1> QED
  BY <1>1, <1>2, <1>3

(* The values on the forwarding paths are words.                           *)
LEMMA ValueTypes ==
  ASSUME TypeInv
  PROVE  /\ ex_rd_wdata \in Words /\ mem_rd_wdata \in Words /\ hwdata \in Words /\ amo_wdata \in Words
         /\ \A r \in Regs : regfile(r) \in Words
         /\ \A r \in Regs, reads \in BOOLEAN : final_rs(r, reads) \in Words
         /\ DrainedMem \in [Words -> Words]
<1>1. /\ ex.imm \in Nat /\ idex.rs1 \in Words /\ idex.rs2 \in Words /\ idex.rs1 \in Nat /\ idex.rs2 \in Nat
      /\ idex.pc \in Nat
  BY InstrFacts
<1>2. /\ amo_rdata \in Words /\ bus.drdata \in Words /\ bus.busy \in Words /\ mem \in [Words -> Words]
      /\ regs \in [Regs -> Words] /\ dphase.addr \in Words /\ exmem.alu_out \in Words /\ exmem.rs2 \in Words
      /\ memwb.wdata \in Words
  BY DEF TypeInv
<1>3. amo_wdata \in Words
  BY <1>1, <1>2, AluType, Sizes DEF amo_wdata
<1>4. UnitOut \in Words
  BY <1>1, <1>2, AluType DEF UnitOut
<1>5. /\ Sys!Alu("add", idex.pc, ex.imm) \in Words
  <2>1. (idex.pc + ex.imm) % W \in Words
    BY <1>1, ModTypes
  <2> QED
    BY <2>1 DEF Sys!Alu
<1>6. Sys!Alu("add", idex.rs1, ex.imm) \in Words /\ Sys!Alu("add", idex.rs1, idex.rs2) \in Words
  BY <1>1, AluType
<1>7. ex_rd_wdata \in Words
  BY <1>2, <1>4, <1>5, <1>6, Sizes DEF ex_rd_wdata
<1>8. mem_rd_wdata \in Words /\ hwdata \in Words
  BY <1>2, <1>3 DEF mem_rd_wdata, hwdata
<1>9. \A r \in Regs : regfile(r) \in Words
  BY <1>2, Sizes DEF regfile
<1>10. \A r \in Regs, reads \in BOOLEAN : final_rs(r, reads) \in Words
  BY <1>7, <1>8, <1>9 DEF final_rs
<1>11. DrainedMem \in [Words -> Words]
  BY <1>2, <1>8 DEF DrainedMem
<1> QED
  BY <1>3, <1>7, <1>8, <1>9, <1>10, <1>11

LEMMA DecodedInstr ==
  ASSUME PipeInv, ifid.valid, ID_stage_valid
  PROVE  /\ instruction_post = prog[ifid.pc] /\ instruction_post \in Sys!Instrs /\ instruction_post \in Decoded
         /\ instruction_post.rs1 \in Regs /\ instruction_post.rs2 \in Regs
<1>1. instruction_post = prog[ifid.pc]
  BY FetchedIsDecoded DEF PipeInv, DecodedIsFetched
<1>2. prog \in [Sys!Pcs -> Sys!Instrs] /\ ifid.pc \in Sys!Pcs
  BY DEF PipeInv, TypeInv
<1>3. instruction_post \in Sys!Instrs
  BY <1>1, <1>2
<1> QED
  BY <1>1, <1>3 DEF Decoded, Sys!Instrs, Regs

LEMMA EmptyTypes ==
  /\ EmptyIFID \in [valid : BOOLEAN, pc : Sys!Pcs]
  /\ EmptyIDEX \in [valid : BOOLEAN, pc : Sys!Pcs, i : Decoded, rs1 : Words, rs2 : Words]
  /\ EmptyEXMEM \in [valid : BOOLEAN, mem_read : BOOLEAN, mem_write : BOOLEAN, rs2 : Words,
                     rd_write : BOOLEAN, rd : Regs, alu_out : Words]
  /\ EmptyMEMWB \in [valid : BOOLEAN, rd_write : BOOLEAN, rd : Regs, wdata : Words]
  /\ NoDPhase \in [valid : BOOLEAN, write : BOOLEAN, addr : Words]
<1>1. NoInstr \in Decoded
  BY Sizes DEF NoInstr, Decoded
<1> QED
  BY <1>1, Sizes DEF EmptyIFID, EmptyIDEX, EmptyEXMEM, EmptyMEMWB, NoDPhase

LEMMA TypeStep ==
  ASSUME NoWait, PipeInv, Clock
  PROVE  TypeInv' /\ DataInv'
<1> USE DEF PipeInv
<1>1. Stays \/ Flushes \/ Interlocks \/ Drops \/ Enters \/ Fills
  BY Moves
<1>2. pc \in Sys!Pcs /\ run \in BOOLEAN /\ ifid \in [valid : BOOLEAN, pc : Sys!Pcs] /\ pc \in Nat /\ jump_pc \in Sys!Pcs
  <2>1. jump_pc \in Sys!Pcs
    BY InstrFacts
  <2>2. pc \in Sys!Pcs /\ run \in BOOLEAN /\ ifid \in [valid : BOOLEAN, pc : Sys!Pcs]
    BY DEF TypeInv
  <2> QED
    BY <2>1, <2>2, Sizes
<1>3. (pc + 1) % N \in Sys!Pcs
  BY <1>2, ModTypes
<1>4. pc' \in Sys!Pcs /\ run' \in BOOLEAN /\ ifid' \in [valid : BOOLEAN, pc : Sys!Pcs]
  <2>1. run' = TRUE
    BY DEF Clock, IF_clock
  <2>2. PICK q \in Sys!Pcs : q = (pc + 1) % N
    BY <1>3
  <2>3. Advances => pc' \in Sys!Pcs /\ ifid' \in [valid : BOOLEAN, pc : Sys!Pcs]
    BY <1>2, <2>2 DEF Advances
  <2> QED
    BY <1>1, <1>2, <2>1, <2>3, EmptyTypes DEF Stays, Flushes, Interlocks, Drops, Enters, Fills
<1>5. idex' \in [valid : BOOLEAN, pc : Sys!Pcs, i : Decoded, rs1 : Words, rs2 : Words]
  <2>1. CASE Enters
    <3>1. ifid.valid /\ ID_stage_valid /\ idex' = NewIDEX
      BY <2>1 DEF Enters
    <3>2. /\ instruction_post \in Decoded /\ instruction_post.rs1 \in Regs /\ instruction_post.rs2 \in Regs
      BY <3>1, DecodedInstr
    <3>3. rs1_read(instruction_post) \in BOOLEAN /\ rs2_read(instruction_post) \in BOOLEAN
      BY DEF rs1_read, rs2_read
    <3>4. /\ final_rs(instruction_post.rs1, rs1_read(instruction_post)) \in Words
          /\ final_rs(instruction_post.rs2, rs2_read(instruction_post)) \in Words
      BY <3>2, <3>3, ValueTypes
    <3> QED
      BY <1>2, <3>1, <3>2, <3>4 DEF NewIDEX
  <2>2. CASE Stays
    BY <2>2 DEF Stays, TypeInv
  <2> QED
    BY <1>1, <2>1, <2>2, EmptyTypes DEF Flushes, Interlocks, Drops, Fills
<1>6. exmem' \in [valid : BOOLEAN, mem_read : BOOLEAN, mem_write : BOOLEAN, rs2 : Words,
                  rd_write : BOOLEAN, rd : Regs, alu_out : Words]
  <2>1. ex_rd_wdata \in Words /\ idex.rs2 \in Words /\ ex.rd \in Regs /\ idex.pc \in Nat
    BY ValueTypes, InstrFacts
  <2>2. (idex.pc + 1) % W \in Words
    BY <2>1, ModTypes
  <2>3. rd_write(ex) \in BOOLEAN /\ (ex.op \in {"ld", "lr"}) \in BOOLEAN
        /\ (ex.op = "sd" \/ (ex.op = "sc" /\ sc_check_pass)) \in BOOLEAN
    BY DEF rd_write
  <2>4. CASE idex.valid
    <3>1. PICK mw \in BOOLEAN : mw = (ex.op = "sd" \/ (ex.op = "sc" /\ sc_check_pass))
      BY <2>3
    <3>2. PICK al \in Words : al = IF jump THEN (idex.pc + 1) % W ELSE ex_rd_wdata
      BY <2>1, <2>2
    <3>3. exmem' = [valid |-> TRUE, mem_read |-> ex.op \in {"ld", "lr"}, mem_write |-> mw, rs2 |-> idex.rs2,
                    rd_write |-> rd_write(ex), rd |-> ex.rd, alu_out |-> al]
      BY <2>4, <3>1, <3>2, Edge
    <3> QED
      BY <2>1, <2>3, <3>1, <3>2, <3>3
  <2>5. CASE ~idex.valid
    BY <2>5, Edge, EmptyTypes
  <2> QED
    BY <2>4, <2>5
<1>7. memwb' \in [valid : BOOLEAN, rd_write : BOOLEAN, rd : Regs, wdata : Words]
  <2>1. mem_rd_wdata \in Words /\ exmem.rd_write \in BOOLEAN /\ exmem.rd \in Regs /\ exmem.valid \in BOOLEAN
    BY ValueTypes DEF TypeInv
  <2>2. memwb' = IF exmem.valid
                 THEN [valid |-> TRUE, rd_write |-> exmem.rd_write, rd |-> exmem.rd, wdata |-> mem_rd_wdata]
                 ELSE EmptyMEMWB
    BY Edge
  <2> QED
    BY <2>1, <2>2, EmptyTypes
<1>8. mem' \in [Words -> Words] /\ prog' \in [Sys!Pcs -> Sys!Instrs]
  BY Edge, ValueTypes DEF TypeInv
<1>9. regs' \in [Regs -> Words]
  BY DEF Clock, WB_clock, TypeInv
<1>10. dphase' \in [valid : BOOLEAN, write : BOOLEAN, addr : Words]
  <2>1. mem_write \in BOOLEAN /\ haddr \in Words
    BY InstrFacts DEF mem_write
  <2>2. dphase' = IF mem_request_raw THEN [valid |-> TRUE, write |-> mem_write, addr |-> haddr] ELSE NoDPhase
    BY Edge
  <2> QED
    BY <2>1, <2>2, EmptyTypes
<1>11. unit' \in Nat
  BY DEF Clock, EX_clock, TypeInv
<1>12. amo_state' \in {"READ_REQ", "READ_DATA", "WRITE_REQ", "WRITE_DATA"} /\ amo_rdata' \in Words
  <2>1. amo_rdata \in Words /\ bus.drdata \in Words
    BY DEF TypeInv
  <2>2. amo_state \in {"READ_REQ", "READ_DATA", "WRITE_REQ", "WRITE_DATA"}
    BY DEF TypeInv
  <2> QED
    BY <2>1, <2>2, Edge
<1>13. /\ bus'.dready = TRUE /\ bus'.drdata \in Words /\ bus'.busy \in Words
       /\ dphase'.valid /\ ~dphase'.write => bus'.drdata = mem'[dphase'.addr]
  <2>1. PICK b \in Responses(iphase', dphase', mem') : Response(b, iphase', dphase', mem') /\ bus' = b
    BY DEF Clock, Memory_clock
  <2> QED
    BY <1>8, <1>10, <2>1, NoWaitData DEF NoWait
<1>14. TypeInv'
  BY <1>4, <1>5, <1>6, <1>7, <1>8, <1>9, <1>10, <1>11, <1>12, <1>13 DEF TypeInv
<1>15. ~exmem'.valid => exmem' = EmptyEXMEM
  BY Edge DEF EmptyEXMEM
<1>16. exmem'.mem_read => dphase'.valid /\ ~dphase'.write
  <2> SUFFICES ASSUME exmem'.mem_read PROVE dphase'.valid /\ ~dphase'.write
    OBVIOUS
  <2>1. idex.valid /\ ex.op \in {"ld", "lr"}
    <3>1. CASE ~idex.valid
      <4>1. exmem' = EmptyEXMEM
        BY <3>1, Edge
      <4> QED
        BY <4>1 DEF EmptyEXMEM
    <3>2. CASE idex.valid
      <4>1. exmem' = [valid |-> TRUE,
                      mem_read |-> ex.op \in {"ld", "lr"},
                      mem_write |-> ex.op = "sd" \/ (ex.op = "sc" /\ sc_check_pass),
                      rs2 |-> idex.rs2, rd_write |-> rd_write(ex), rd |-> ex.rd,
                      alu_out |-> IF jump THEN (idex.pc + 1) % W ELSE ex_rd_wdata]
        BY <3>2, Edge
      <4>2. exmem'.mem_read = (ex.op \in {"ld", "lr"})
        BY <4>1, Zenon
      <4> QED
        BY <3>2, <4>2
    <3> QED
      BY <3>1, <3>2
  <2>2. mem_request_raw /\ ~mem_write
    BY <2>1 DEF mem_request_raw, mem_read, mem_write
  <2> QED
    BY <2>2, Edge
<1>17. DataInv'
  BY <1>13, <1>15, <1>16 DEF DataInv
<1> QED
  BY <1>14, <1>17

LEMMA OrderStep ==
  ASSUME NoWait, PipeInv, Clock
  PROVE  OrderInv'
<1>1. Stays \/ Flushes \/ Interlocks \/ Drops \/ Enters \/ Fills
  BY Moves
<1>2. run' = TRUE
  BY DEF Clock, IF_clock
<1>3. OrderInv
  BY DEF PipeInv
<1>4. CASE Stays
  <2>1. idex' = idex /\ ifid' = ifid /\ pc' = pc
    BY <1>4 DEF Stays
  <2>2. jump' <=> jump
    BY <2>1 DEF jump, ex
  <2> QED
    BY <1>2, <1>3, <2>1, <2>2 DEF OrderInv, illegal
<1>5. ~EmptyIDEX.valid /\ ~EmptyIFID.valid
  BY DEF EmptyIDEX, EmptyIFID
<1>6. CASE Flushes
  BY <1>5, <1>6 DEF Flushes, OrderInv
<1>7. CASE Interlocks
  <2>1. idex' = EmptyIDEX /\ ifid' = ifid /\ pc' = pc
    BY <1>7 DEF Interlocks
  <2> QED
    BY <1>2, <1>3, <1>5, <2>1 DEF OrderInv
<1>8. Advances => (ifid'.valid /\ pc' = (ifid'.pc + 1) % N /\ ifid'.pc = pc)
  BY DEF Advances
<1>9. CASE Drops
  <2>1. idex' = EmptyIDEX /\ Advances
    BY <1>9 DEF Drops
  <2> QED
    BY <1>2, <1>5, <1>8, <2>1 DEF OrderInv
<1>10. CASE Enters
  <2>1. idex' = NewIDEX /\ Advances /\ ifid.valid /\ ID_stage_valid /\ ~illegal(instruction_post)
    BY <1>10 DEF Enters
  <2>2. instruction_post \in Sys!Instrs
    BY <2>1, DecodedInstr
  <2>3. idex'.valid /\ idex'.i = instruction_post /\ idex'.pc = ifid.pc
    BY <2>1 DEF NewIDEX
  <2>4. pc = (ifid.pc + 1) % N
    BY <1>3, <2>1 DEF OrderInv
  <2> QED
    BY <1>2, <1>8, <2>1, <2>2, <2>3, <2>4 DEF OrderInv, illegal
<1>11. CASE Fills
  <2>1. idex' = EmptyIDEX /\ (Advances \/ ifid' = EmptyIFID)
    BY <1>11 DEF Fills
  <2> QED
    BY <1>2, <1>5, <1>8, <2>1 DEF OrderInv
<1> QED
  BY <1>1, <1>4, <1>6, <1>7, <1>9, <1>10, <1>11

(* What EX asks of the data port.                                          *)
LEMMA Requests ==
  ASSUME PipeInv
  PROVE  /\ ex.op \in {"ld", "lr"} => mem_request_raw /\ ~mem_write
         /\ ex.op = "sd" \/ (ex.op = "sc" /\ sc_check_pass) => mem_request_raw /\ mem_write
         /\ ex.op \notin {"ld", "lr", "sd", "sc", "amo"} => ~mem_request_raw
         /\ ex.op = "sc" /\ ~sc_check_pass => ~mem_request_raw
         /\ ex.op = "amo" /\ amo_state = "READ_REQ" => mem_request_raw /\ ~mem_write
         /\ ex.op = "amo" /\ amo_state = "WRITE_REQ" => mem_request_raw /\ mem_write
         /\ ex.op = "amo" /\ amo_state \in {"READ_DATA", "WRITE_DATA"} => ~mem_request_raw
         /\ ex.op = "amo" => haddr = idex.rs1
  BY DEF mem_request_raw, mem_read, mem_write, haddr, Sys!AddrOf

LEMMA UnitStep ==
  ASSUME NoWait, PipeInv, Clock
  PROVE  UnitInv'
<1>1. Stays \/ (~EX_stall /\ ~Stays)
  BY Moves DEF Stays, Flushes, Interlocks, Drops, Enters, Fills
<1>2. UnitInv /\ amo_state \in {"READ_REQ", "READ_DATA", "WRITE_REQ", "WRITE_DATA"}
  BY DEF PipeInv, TypeInv
<1>3. unit' = (IF unit_stall THEN unit + 1 ELSE 0) /\ unit \in Nat
  BY DEF Clock, EX_clock, PipeInv, TypeInv
<1>4. UnitDone \in Nat /\ UnitDone' \in Nat
  BY Sizes DEF UnitDone
<1>5. amo_stall <=> (ex.op = "amo" /\ amo_state # "WRITE_DATA")
  BY Quiet
<1>6. EX_stall <=> unit_stall \/ amo_stall
  BY Quiet
<1>7. amo_state' = CASE amo_state = "READ_REQ" /\ ex.op = "amo" -> "READ_DATA"
                     [] amo_state = "READ_DATA" -> "WRITE_REQ"
                     [] amo_state = "WRITE_REQ" -> "WRITE_DATA"
                     [] amo_state = "WRITE_DATA" -> "READ_REQ"
                     [] OTHER -> amo_state
  BY Edge
<1>8. CASE ~EX_stall
  <2>1. unit' = 0
    BY <1>3, <1>6, <1>8
  <2>2. amo_state' = "READ_REQ"
    BY <1>2, <1>5, <1>6, <1>7, <1>8 DEF UnitInv
  <2> QED
    BY <1>4, <2>1, <2>2 DEF UnitInv
<1>9. CASE Stays
  <2>1. idex' = idex /\ ex' = ex /\ UnitDone' = UnitDone
    BY <1>9 DEF Stays, ex, UnitDone
  <2>2. IF ex'.op \in {"mul", "div"} THEN unit' <= UnitDone' ELSE unit' = 0
    BY <1>3, <1>4, <2>1 DEF unit_stall
  <2>3. CASE ex.op # "amo"
    <3>1. amo_state' = "READ_REQ"
      BY <1>2, <1>7, <2>3 DEF UnitInv
    <3> QED
      BY <2>1, <2>2, <3>1 DEF UnitInv
  <2>4. CASE ex.op = "amo"
    <3>1. amo_state # "WRITE_DATA"
      BY <1>5, <1>6, <1>9, <2>4 DEF Stays, unit_stall
    <3>2. dphase' = IF mem_request_raw THEN [valid |-> TRUE, write |-> mem_write, addr |-> haddr] ELSE NoDPhase
      BY Edge
    <3>3. /\ mem' = DrainedMem
          /\ amo_rdata' = IF amo_state = "READ_DATA" THEN bus.drdata ELSE amo_rdata
      BY Edge
    <3>4. haddr = idex.rs1 /\ (mem_write \in BOOLEAN)
      BY <2>4, Requests DEF mem_write
    <3>5. CASE amo_state = "READ_REQ"
      <4>1. amo_state' = "READ_DATA"
        BY <1>7, <2>4, <3>5
      <4>2. mem_request_raw /\ mem_write = FALSE
        BY <2>4, <3>4, <3>5, Requests
      <4>3. dphase' = [valid |-> TRUE, write |-> FALSE, addr |-> idex.rs1]
        BY <3>2, <3>4, <4>2
      <4> QED
        BY <2>1, <2>2, <2>4, <4>1, <4>3 DEF UnitInv
    <3>6. CASE amo_state = "READ_DATA"
      <4>1. amo_state' = "WRITE_REQ"
        BY <1>7, <3>6
      <4>2. dphase = [valid |-> TRUE, write |-> FALSE, addr |-> idex.rs1]
        BY <1>2, <3>6 DEF UnitInv
      <4>3. bus.drdata = mem[idex.rs1] /\ DrainedMem = mem
        BY <4>2 DEF PipeInv, DataInv, DrainedMem
      <4>4. dphase' = NoDPhase
        BY <2>4, <3>2, <3>6, Requests
      <4> QED
        BY <2>1, <2>2, <2>4, <3>3, <3>6, <4>1, <4>3, <4>4 DEF UnitInv
    <3>7. CASE amo_state = "WRITE_REQ"
      <4>1. amo_state' = "WRITE_DATA"
        BY <1>7, <3>7
      <4>2. dphase = NoDPhase /\ amo_rdata = mem[idex.rs1]
        BY <1>2, <3>7 DEF UnitInv
      <4>3. DrainedMem = mem
        BY <4>2 DEF DrainedMem, NoDPhase
      <4>4. mem_request_raw /\ mem_write = TRUE
        BY <2>4, <3>4, <3>7, Requests
      <4>5. dphase' = [valid |-> TRUE, write |-> TRUE, addr |-> idex.rs1]
        BY <3>2, <3>4, <4>4
      <4> QED
        BY <2>1, <2>2, <2>4, <3>3, <3>7, <4>1, <4>2, <4>3, <4>5 DEF UnitInv
    <3> QED
      BY <1>2, <3>1, <3>5, <3>6, <3>7
  <2> QED
    BY <2>3, <2>4
<1> QED
  BY <1>1, <1>8, <1>9

LEMMA PipeStep == NoWait /\ PipeInv /\ [Next]_vars => PipeInv'
<1> SUFFICES ASSUME NoWait, PipeInv, [Next]_vars PROVE PipeInv'
  OBVIOUS
<1>1. FetchInv'
  BY FetchStep DEF PipeInv, NoWait
<1>2. CASE Clock
  BY <1>1, <1>2, TypeStep, OrderStep, UnitStep DEF PipeInv
<1>3. CASE UNCHANGED vars
  <2>1. TypeInv' /\ DataInv'
    BY <1>3 DEF PipeInv, TypeInv, DataInv, vars
  <2>2. ex' = ex /\ (jump' <=> jump) /\ UnitDone' = UnitDone
    BY <1>3 DEF vars, ex, jump, UnitDone
  <2>3. OrderInv'
    BY <1>3, <2>2 DEF PipeInv, OrderInv, illegal, vars
  <2>4. UnitInv'
    BY <1>3, <2>2 DEF PipeInv, UnitInv, vars
  <2> QED
    BY <1>1, <2>1, <2>3, <2>4 DEF PipeInv
<1> QED
  BY <1>2, <1>3 DEF Next

LEMMA PipeStart == NoWait /\ Init => PipeInv
<1> SUFFICES ASSUME NoWait, Init PROVE PipeInv
  OBVIOUS
<1>1. FetchInv
  BY FetchStart DEF NoWait
<1>2. mem \in [Words -> Words] /\ regs \in [Regs -> Words] /\ prog \in [Sys!Pcs -> Sys!Instrs]
      /\ JunkWords \subseteq Words
  BY PipelineAssumption DEF Init
<1>3. dphase = NoDPhase /\ dphase \in [valid : BOOLEAN, write : BOOLEAN, addr : Words]
  BY EmptyTypes DEF Init
<1>4. /\ bus.dready = TRUE /\ bus.drdata \in Words /\ bus.busy \in Words
      /\ dphase.valid /\ ~dphase.write => bus.drdata = mem[dphase.addr]
  <2>1. bus \in Responses(iphase, dphase, mem) /\ Response(bus, iphase, dphase, mem)
    BY DEF Init
  <2> QED
    BY <1>2, <1>3, <2>1, NoWaitData DEF NoWait
<1>5. TypeInv
  BY <1>2, <1>3, <1>4, EmptyTypes, Sizes DEF Init, TypeInv
<1>6. DataInv
  BY <1>4 DEF Init, DataInv, EmptyEXMEM
<1>7. OrderInv
  BY DEF Init, OrderInv, EmptyIDEX, EmptyIFID
<1>8. ex = NoInstr
  BY DEF Init, ex, EmptyIDEX
<1>9. UnitInv
  BY <1>8 DEF Init, UnitInv, NoInstr
<1> QED
  BY <1>1, <1>5, <1>6, <1>7, <1>9 DEF PipeInv

(* The architectural state of module Pipeline, by name; and the registers  *)
(* once MEM and WB are done, without the instruction in EX.                *)
IsaPc ==
  IF idex.valid THEN IF jump THEN jump_pc ELSE (idex.pc + 1) % N
  ELSE IF ifid.valid THEN ifid.pc ELSE pc
IsaMem ==
  IF AmoWritten THEN DrainedMem ELSE Sys!MemAfter(ex, idex.rs1, idex.rs2, DrainedMem, res)
IsaRes == Sys!ResAfter(ex, haddr, res)
EndReg(r) == IF match_mem(r, TRUE) THEN mem_rd_wdata ELSE regfile(r)
ExResult ==
  IF AmoWritten THEN amo_rdata ELSE Sys!Result(ex, idex.pc, idex.rs1, idex.rs2, DrainedMem, res)

LEMMA DrainedReg ==
  \A r \in Regs : DrainedRegs[r] = IF match_ex(r, TRUE) THEN ExResult ELSE EndReg(r)
  BY DEF DrainedRegs, ExResult, EndReg

LEMMA NothingWrites == ~rd_write(NoInstr)
  BY DEF rd_write, NoInstr, Sys!RegWriters, Sys!Ops

(* One edge moves MEM to WB and WB to the register file.                   *)
LEMMA WriteBack ==
  ASSUME PipeInv, Clock, NEW r \in Regs
  PROVE  (regfile(r))' = EndReg(r)
<1>1. memwb' = IF exmem.valid
               THEN [valid |-> TRUE, rd_write |-> exmem.rd_write, rd |-> exmem.rd, wdata |-> mem_rd_wdata]
               ELSE EmptyMEMWB
  BY Edge
<1>2. regs' = IF memwb.rd_write THEN [regs EXCEPT ![memwb.rd] = memwb.wdata] ELSE regs
  BY DEF Clock, WB_clock
<1>3. regs \in [Regs -> Words] /\ memwb.rd \in Regs /\ exmem.rd_write \in BOOLEAN
  BY DEF PipeInv, TypeInv
<1>4. ~exmem.valid => exmem.rd_write = FALSE
  BY DEF PipeInv, DataInv, EmptyEXMEM
<1>5. CASE r = 0
  BY <1>5 DEF regfile, EndReg, match_mem, Match
<1>6. CASE r # 0
  <2>1. regs'[r] = regfile(r)
    BY <1>2, <1>3, <1>6 DEF regfile
  <2>2. CASE exmem.rd_write /\ exmem.rd = r
    <3>1. memwb'.rd_write /\ memwb'.rd = r /\ memwb'.wdata = mem_rd_wdata
      BY <1>1, <1>4, <2>2
    <3> QED
      BY <1>6, <2>2, <3>1 DEF regfile, EndReg, match_mem, Match
  <2>3. CASE ~(exmem.rd_write /\ exmem.rd = r)
    <3>1. ~(memwb'.rd_write /\ memwb'.rd = r)
      BY <1>1, <1>4, <2>3 DEF EmptyMEMWB
    <3> QED
      BY <1>6, <2>1, <2>3, <3>1 DEF regfile, EndReg, match_mem, Match
  <2> QED
    BY <2>2, <2>3
<1> QED
  BY <1>5, <1>6

(* ... and EX to MEM.                                                      *)
LEMMA ExToMem ==
  ASSUME PipeInv, Clock
  PROVE  /\ exmem'.rd_write <=> rd_write(ex)
         /\ rd_write(ex) \/ ex.op = "sd" \/ (ex.op = "sc" /\ sc_check_pass) =>
              /\ exmem'.rd = ex.rd /\ exmem'.rs2 = idex.rs2
              /\ exmem'.mem_read <=> ex.op \in {"ld", "lr"}
              /\ exmem'.alu_out = IF jump THEN (idex.pc + 1) % W ELSE ex_rd_wdata
<1>1. CASE idex.valid
  <2>1. exmem' = [valid |-> TRUE,
                  mem_read |-> ex.op \in {"ld", "lr"},
                  mem_write |-> ex.op = "sd" \/ (ex.op = "sc" /\ sc_check_pass),
                  rs2 |-> idex.rs2, rd_write |-> rd_write(ex), rd |-> ex.rd,
                  alu_out |-> IF jump THEN (idex.pc + 1) % W ELSE ex_rd_wdata]
    BY <1>1, Edge
  <2>2. /\ exmem'.rd_write = rd_write(ex) /\ exmem'.rd = ex.rd /\ exmem'.rs2 = idex.rs2
        /\ exmem'.mem_read = (ex.op \in {"ld", "lr"})
    BY <2>1, Zenon
  <2>3. exmem'.alu_out = IF jump THEN (idex.pc + 1) % W ELSE ex_rd_wdata
    BY <2>1
  <2> QED
    BY <2>2, <2>3
<1>2. CASE ~idex.valid
  <2>1. ex = NoInstr /\ exmem' = EmptyEXMEM
    BY <1>2, Edge DEF PipeInv, OrderInv, EmptyIDEX, ex
  <2>2. ~rd_write(ex) /\ ex.op = "none"
    BY <2>1, NothingWrites DEF NoInstr
  <2> QED
    BY <2>1, <2>2 DEF EmptyEXMEM
<1> QED
  BY <1>1, <1>2

LEMMA EndStep ==
  ASSUME PipeInv, Clock, NEW r \in Regs
  PROVE  (EndReg(r))' = IF match_ex(r, TRUE) THEN mem_rd_wdata' ELSE EndReg(r)
<1>1. (match_mem(r, TRUE))' <=> match_ex(r, TRUE)
  BY ExToMem DEF match_mem, match_ex, Match
<1> QED
  BY <1>1, WriteBack DEF EndReg

(* When EX does not stall, its result is what the instruction produces.    *)
LEMMA ResultIs ==
  ASSUME PipeInv, ~EX_stall, rd_write(ex)
  PROVE  /\ ~jump /\ ex.op \notin {"ld", "lr"} => ex_rd_wdata = ExResult
         /\ jump => (idex.pc + 1) % W = ExResult
         /\ ex.op \in {"ld", "lr"} => DrainedMem[haddr] = ExResult
<1>1. ex.op \in {"add", "addi", "auipc", "mul", "div", "ld", "jal", "jalr", "lr", "sc", "amo"}
  BY DEF rd_write, Sys!RegWriters, Sys!Ops
<1>2. EX_stall <=> unit_stall \/ amo_stall
  BY Quiet
<1>3. CASE ex.op = "amo"
  <2>1. AmoWritten
    BY <1>2, <1>3, Quiet DEF AmoWritten
  <2>2. ~jump
    BY <1>3 DEF jump, Sys!JumpTaken
  <2> QED
    BY <1>3, <2>1, <2>2 DEF ExResult, ex_rd_wdata
<1>4. CASE ex.op # "amo"
  <2>1. ExResult = Sys!Result(ex, idex.pc, idex.rs1, idex.rs2, DrainedMem, res)
    BY <1>4 DEF ExResult, AmoWritten
  <2>2. CASE ex.op \in {"mul", "div"}
    <3>1. unit = UnitDone
      <4>1. unit \in Nat /\ UnitDone \in Nat /\ unit <= UnitDone
        <5>1. unit \in Nat /\ UnitDone \in Nat
          BY Sizes DEF PipeInv, TypeInv, UnitDone
        <5>2. UnitInv
          BY DEF PipeInv
        <5> QED
          BY <2>2, <5>1, <5>2 DEF UnitInv
      <4> QED
        BY <1>2, <2>2, <4>1 DEF unit_stall
    <3>2. ~jump
      BY <2>2 DEF jump, Sys!JumpTaken
    <3> QED
      BY <2>1, <2>2, <3>1, <3>2 DEF ex_rd_wdata, UnitOut, Sys!Result
  <2>3. CASE ex.op \in {"jal", "jalr"}
    BY <2>1, <2>3 DEF jump, Sys!JumpTaken, Sys!Result
  <2>4. CASE ex.op \in {"ld", "lr"}
    BY <2>1, <2>4 DEF jump, Sys!JumpTaken, Sys!Result, haddr
  <2>5. CASE ex.op = "sc"
    BY <2>1, <2>5 DEF jump, Sys!JumpTaken, Sys!Result, haddr, ex_rd_wdata, sc_check_pass
  <2>6. CASE ex.op = "auipc"
    BY <2>1, <2>6 DEF jump, Sys!JumpTaken, Sys!Result, ex_rd_wdata, Sys!Alu
  <2>7. CASE ex.op = "addi"
    BY <2>1, <2>7 DEF jump, Sys!JumpTaken, Sys!Result, ex_rd_wdata
  <2>8. CASE ex.op = "add"
    BY <2>1, <2>8 DEF jump, Sys!JumpTaken, Sys!Result, ex_rd_wdata
  <2> QED
    BY <1>1, <1>4, <2>2, <2>3, <2>4, <2>5, <2>6, <2>7, <2>8
<1> QED
  BY <1>3, <1>4

LEMMA ExDone ==
  ASSUME NoWait, PipeInv, Clock, ~EX_stall, rd_write(ex)
  PROVE  mem_rd_wdata' = ExResult
<1>1. /\ exmem'.mem_read <=> ex.op \in {"ld", "lr"}
      /\ exmem'.alu_out = IF jump THEN (idex.pc + 1) % W ELSE ex_rd_wdata
  BY ExToMem
<1>2. CASE ex.op \in {"ld", "lr"}
  <2>1. mem_request_raw /\ ~mem_write
    BY <1>2, Requests
  <2>2. dphase' = [valid |-> TRUE, write |-> mem_write, addr |-> haddr] /\ mem' = DrainedMem
    BY <2>1, Edge
  <2>3. DataInv'
    BY TypeStep
  <2>4. bus'.drdata = DrainedMem[haddr]
    BY <2>1, <2>2, <2>3 DEF DataInv
  <2> QED
    BY <1>1, <1>2, <2>4, ResultIs DEF mem_rd_wdata
<1>3. CASE ex.op \notin {"ld", "lr"}
  BY <1>1, <1>3, ResultIs DEF mem_rd_wdata
<1> QED
  BY <1>2, <1>3

(* An edge at which EX does not stall leaves MEM and WB with the           *)
(* architectural state.                                                    *)
LEMMA DrainRegs ==
  ASSUME NoWait, PipeInv, Clock, ~EX_stall, NEW r \in Regs
  PROVE  (EndReg(r))' = DrainedRegs[r]
<1>1. match_ex(r, TRUE) => rd_write(ex)
  BY DEF match_ex, Match
<1> QED
  BY <1>1, EndStep, ExDone, DrainedReg

LEMMA DrainMem ==
  ASSUME NoWait, PipeInv, Clock, ~EX_stall
  PROVE  DrainedMem' = IsaMem /\ amo_state' = "READ_REQ" /\ res' = IsaRes
<1>1. res' = IsaRes
  BY DEF Clock, EX_clock, IsaRes
<1>2. /\ mem' = DrainedMem
      /\ dphase' = IF mem_request_raw THEN [valid |-> TRUE, write |-> mem_write, addr |-> haddr] ELSE NoDPhase
      /\ amo_state' = CASE amo_state = "READ_REQ" /\ ex.op = "amo" -> "READ_DATA"
                           [] amo_state = "READ_DATA" -> "WRITE_REQ"
                           [] amo_state = "WRITE_REQ" -> "WRITE_DATA"
                           [] amo_state = "WRITE_DATA" -> "READ_REQ"
                           [] OTHER -> amo_state
  BY Edge
<1>3. /\ ex.op # "amo" => amo_state = "READ_REQ"
      /\ ex.op = "amo" => amo_state = "WRITE_DATA"
  BY Quiet DEF PipeInv, UnitInv
<1>4. amo_state' = "READ_REQ"
  BY <1>2, <1>3
<1>5. hwdata' = exmem'.rs2
  BY <1>4 DEF hwdata
<1>6. CASE ex.op = "sd" \/ (ex.op = "sc" /\ sc_check_pass)
  <2>1. exmem'.rs2 = idex.rs2 /\ mem_request_raw /\ mem_write
    BY <1>6, ExToMem, Requests
  <2>2. DrainedMem' = [DrainedMem EXCEPT ![haddr] = idex.rs2]
    BY <1>2, <1>5, <2>1 DEF DrainedMem
  <2>3. IsaMem = [DrainedMem EXCEPT ![haddr] = idex.rs2]
    BY <1>6 DEF IsaMem, AmoWritten, Sys!MemAfter, haddr, sc_check_pass, Sys!AddrOf
  <2> QED
    BY <1>1, <1>4, <2>2, <2>3
<1>7. CASE ~(ex.op = "sd" \/ (ex.op = "sc" /\ sc_check_pass))
  <2>1. DrainedMem' = mem'
    <3>1. ~(dphase'.valid /\ dphase'.write)
      <4>1. mem_write => FALSE
        BY <1>3, <1>7 DEF mem_write
      <4> QED
        BY <1>2, <4>1 DEF NoDPhase
    <3> QED
      BY <3>1 DEF DrainedMem
  <2>2. IsaMem = DrainedMem
    <3>1. CASE ex.op = "amo"
      BY <1>3, <3>1 DEF IsaMem, AmoWritten
    <3>2. CASE ex.op # "amo"
      BY <1>7, <3>2 DEF IsaMem, AmoWritten, Sys!MemAfter, haddr, sc_check_pass, Sys!AddrOf
    <3> QED
      BY <3>1, <3>2
  <2> QED
    BY <1>1, <1>2, <1>4, <2>1, <2>2
<1> QED
  BY <1>6, <1>7

(* An edge at which EX stalls changes nothing that the instruction there   *)
(* will not bring about itself.                                            *)
LEMMA Hold ==
  ASSUME NoWait, PipeInv, Clock, Stays
  PROVE  IsaPc' = IsaPc /\ DrainedRegs' = DrainedRegs /\ IsaMem' = IsaMem /\ IsaRes' = IsaRes
<1>1. EX_stall /\ idex' = idex /\ ifid' = ifid /\ pc' = pc /\ ex' = ex
  BY DEF Stays, ex
<1>2. (jump' <=> jump) /\ jump_pc' = jump_pc /\ haddr' = haddr
  BY <1>1 DEF jump, jump_pc, haddr
<1>3. ex.op \in {"mul", "div", "amo"} /\ (ex.op = "amo" => amo_state # "WRITE_DATA") /\ UnitInv
      /\ amo_state \in {"READ_REQ", "READ_DATA", "WRITE_REQ", "WRITE_DATA"}
  BY <1>1, Quiet DEF PipeInv, TypeInv, unit_stall
<1>4. res' = res
  BY <1>3 DEF Clock, EX_clock, Sys!ResAfter
<1>5. IsaRes' = IsaRes
  BY <1>1, <1>2, <1>4 DEF IsaRes
<1>6. IsaPc' = IsaPc
  BY <1>1, <1>2 DEF IsaPc
<1>7. /\ mem' = DrainedMem
      /\ dphase' = IF mem_request_raw THEN [valid |-> TRUE, write |-> mem_write, addr |-> haddr] ELSE NoDPhase
      /\ amo_rdata' = IF amo_state = "READ_DATA" THEN bus.drdata ELSE amo_rdata
      /\ amo_state' = CASE amo_state = "READ_REQ" /\ ex.op = "amo" -> "READ_DATA"
                           [] amo_state = "READ_DATA" -> "WRITE_REQ"
                           [] amo_state = "WRITE_REQ" -> "WRITE_DATA"
                           [] amo_state = "WRITE_DATA" -> "READ_REQ"
                           [] OTHER -> amo_state
  BY Edge
<1>8. ~AmoWritten
  BY <1>3 DEF AmoWritten
<1>9. ExResult' = ExResult /\ IsaMem' = IsaMem
  <2>1. CASE amo_state # "WRITE_REQ"
    <3>1. ~mem_write
      BY <1>3, <2>1 DEF mem_write
    <3>2. DrainedMem' = DrainedMem
      BY <1>7, <3>1 DEF DrainedMem, NoDPhase
    <3>3. ~AmoWritten'
      BY <1>1, <1>3, <1>7, <2>1 DEF AmoWritten, UnitInv
    <3> QED
      BY <1>1, <1>4, <1>8, <3>2, <3>3 DEF ExResult, IsaMem
  <2>2. CASE amo_state = "WRITE_REQ"
    <3>1. ex.op = "amo" /\ dphase = NoDPhase /\ amo_rdata = mem[idex.rs1] /\ amo_state' = "WRITE_DATA"
      BY <1>3, <1>7, <2>2 DEF UnitInv
    <3>2. DrainedMem = mem /\ mem' = mem /\ amo_rdata' = amo_rdata
      BY <1>7, <2>2, <3>1 DEF DrainedMem, NoDPhase
    <3>3. mem_request_raw /\ mem_write /\ haddr = idex.rs1
      BY <2>2, <3>1, Requests
    <3>4. amo_wdata' = Sys!Alu("add", mem[idex.rs1], idex.rs2)
      BY <1>1, <3>1, <3>2 DEF amo_wdata, Sys!Alu
    <3>5. DrainedMem' = [mem EXCEPT ![idex.rs1] = amo_wdata']
      BY <1>7, <3>1, <3>2, <3>3 DEF DrainedMem, hwdata
    <3>6. AmoWritten'
      BY <1>1, <3>1 DEF AmoWritten
    <3>7. IsaMem = [mem EXCEPT ![idex.rs1] = Sys!Alu("add", mem[idex.rs1], idex.rs2)]
      BY <1>8, <3>1, <3>2 DEF IsaMem, Sys!MemAfter
    <3>8. ExResult = mem[idex.rs1]
      BY <1>8, <3>1, <3>2 DEF ExResult, Sys!Result, Sys!AddrOf
    <3> QED
      BY <3>1, <3>2, <3>4, <3>5, <3>6, <3>7, <3>8 DEF IsaMem, ExResult
  <2> QED
    BY <2>1, <2>2
<1>10. \A r \in Regs : (match_ex(r, TRUE))' <=> match_ex(r, TRUE)
  BY <1>1 DEF match_ex
<1>11. \A r \in Regs : ~match_ex(r, TRUE) => (EndReg(r))' = EndReg(r)
  BY EndStep
<1>12. DrainedRegs' = DrainedRegs
  <2>1. DrainedRegs = [r \in Regs |-> IF match_ex(r, TRUE) THEN ExResult ELSE EndReg(r)]
    BY DEF DrainedRegs, ExResult, EndReg
  <2>2. DrainedRegs' = [r \in Regs |-> IF (match_ex(r, TRUE))' THEN ExResult' ELSE (EndReg(r))']
    BY DEF DrainedRegs, ExResult, EndReg
  <2> QED
    BY <1>9, <1>10, <1>11, <2>1, <2>2
<1> QED
  BY <1>5, <1>6, <1>9, <1>12

(* What EX takes in next acts on the architectural state.                  *)
LEMMA Emptied ==
  ASSUME NoWait, PipeInv, Clock, ~EX_stall, idex' = EmptyIDEX
  PROVE  DrainedRegs' = DrainedRegs /\ IsaMem' = IsaMem /\ IsaRes' = IsaRes
<1>1. ex' = NoInstr
  BY DEF ex, EmptyIDEX
<1>2. ex'.op = "none"
  BY <1>1 DEF NoInstr
<1>3. \A r \in Regs : ~(match_ex(r, TRUE))'
  BY <1>1, NothingWrites DEF match_ex, Match, rd_write
<1>4. DrainedRegs' = [r \in Regs |-> IF (match_ex(r, TRUE))' THEN ExResult' ELSE (EndReg(r))']
  BY DEF DrainedRegs, ExResult, EndReg
<1>5. \A r \in Regs : (EndReg(r))' = DrainedRegs[r]
  BY DrainRegs
<1>6. DrainedRegs = [r \in Regs |-> DrainedRegs[r]]
  BY DEF DrainedRegs
<1>7. DrainedRegs' = DrainedRegs
  BY <1>3, <1>4, <1>5, <1>6
<1>8. DrainedMem' = IsaMem /\ res' = IsaRes
  BY DrainMem
<1>9. IsaMem' = DrainedMem' /\ IsaRes' = res'
  BY <1>2 DEF IsaMem, IsaRes, AmoWritten, Sys!MemAfter, Sys!ResAfter
<1> QED
  BY <1>7, <1>8, <1>9

LEMMA Entered ==
  ASSUME NoWait, PipeInv, Clock, Enters
  PROVE  LET i == instruction_post
             a == final_rs(i.rs1, rs1_read(i))
             b == final_rs(i.rs2, rs2_read(i))
         IN  /\ DrainedRegs' = [r \in Regs |-> IF r # 0 /\ rd_write(i) /\ r = i.rd
                                               THEN Sys!Result(i, ifid.pc, a, b, IsaMem, IsaRes)
                                               ELSE DrainedRegs[r]]
             /\ IsaMem' = Sys!MemAfter(i, a, b, IsaMem, IsaRes)
             /\ IsaRes' = Sys!ResAfter(i, Sys!AddrOf(i, a), IsaRes)
             /\ IsaPc' = IF Sys!JumpTaken(i, a, b) THEN Sys!JumpPc(i, ifid.pc, a) ELSE (ifid.pc + 1) % N
<1> DEFINE i == instruction_post
           a == final_rs(i.rs1, rs1_read(i))
           b == final_rs(i.rs2, rs2_read(i))
<1>1. ~EX_stall /\ idex' = NewIDEX
  BY DEF Enters
<1>2. idex'.valid = TRUE /\ idex'.pc = ifid.pc /\ idex'.i = i /\ idex'.rs1 = a /\ idex'.rs2 = b /\ ex' = i
  BY <1>1 DEF NewIDEX, ex
<1> HIDE DEF i, a, b
<1>3. DrainedMem' = IsaMem /\ amo_state' = "READ_REQ" /\ res' = IsaRes
  BY <1>1, DrainMem
<1>4. ~AmoWritten'
  BY <1>3 DEF AmoWritten
<1>5. haddr' = Sys!AddrOf(i, a)
  BY <1>2 DEF haddr
<1>6. IsaMem' = Sys!MemAfter(i, a, b, IsaMem, IsaRes) /\ IsaRes' = Sys!ResAfter(i, Sys!AddrOf(i, a), IsaRes)
  BY <1>2, <1>3, <1>4, <1>5 DEF IsaMem, IsaRes
<1>7. ExResult' = Sys!Result(i, ifid.pc, a, b, IsaMem, IsaRes)
  BY <1>2, <1>3, <1>4 DEF ExResult
<1>8. IsaPc' = IF Sys!JumpTaken(i, a, b) THEN Sys!JumpPc(i, ifid.pc, a) ELSE (ifid.pc + 1) % N
  BY <1>2 DEF IsaPc, jump, jump_pc
<1>9. \A r \in Regs : (match_ex(r, TRUE))' <=> (r # 0 /\ rd_write(i) /\ r = i.rd)
  BY <1>2 DEF match_ex, Match, rd_write
<1>10. DrainedRegs' = [r \in Regs |-> IF (match_ex(r, TRUE))' THEN ExResult' ELSE (EndReg(r))']
  BY DEF DrainedRegs, ExResult, EndReg
<1>11. \A r \in Regs : (EndReg(r))' = DrainedRegs[r]
  BY <1>1, DrainRegs
<1>12. DrainedRegs' = [r \in Regs |-> IF r # 0 /\ rd_write(i) /\ r = i.rd
                                      THEN Sys!Result(i, ifid.pc, a, b, IsaMem, IsaRes)
                                      ELSE DrainedRegs[r]]
  BY <1>7, <1>9, <1>10, <1>11
<1> QED
  BY <1>6, <1>8, <1>12 DEF i, a, b

(* Forwarding: an operand that is read is the architectural register.      *)
LEMMA Forwarding ==
  ASSUME PipeInv, ~EX_stall, ~jump, NEW r \in Regs, ~(ex_mem_read /\ match_ex(r, TRUE))
  PROVE  final_rs(r, TRUE) = DrainedRegs[r]
<1>1. CASE match_ex(r, TRUE)
  <2>1. rd_write(ex) /\ ex.op \notin {"ld", "lr"}
    BY <1>1 DEF match_ex, Match, ex_mem_read
  <2>2. ex_rd_wdata = ExResult
    BY <2>1, ResultIs
  <2> QED
    BY <1>1, <2>2, DrainedReg DEF final_rs
<1>2. CASE ~match_ex(r, TRUE)
  BY <1>2, DrainedReg DEF final_rs, EndReg
<1> QED
  BY <1>1, <1>2

(* The effect of an instruction depends on the operands it reads only.     *)
LEMMA SameEffect ==
  ASSUME NEW i, i.op \in Sys!Ops \ {"ill"}, NEW a, NEW b, NEW a2, NEW b2, NEW q, NEW m, NEW v,
         rs1_read(i) => a = a2, rs2_read(i) => b = b2
  PROVE  /\ rd_write(i) => Sys!Result(i, q, a, b, m, v) = Sys!Result(i, q, a2, b2, m, v)
         /\ Sys!MemAfter(i, a, b, m, v) = Sys!MemAfter(i, a2, b2, m, v)
         /\ Sys!ResAfter(i, Sys!AddrOf(i, a), v) = Sys!ResAfter(i, a2, v)
         /\ Sys!JumpTaken(i, a, b) <=> Sys!JumpTaken(i, a2, b2)
         /\ Sys!JumpTaken(i, a, b) => Sys!JumpPc(i, q, a) = Sys!JumpPc(i, q, a2)
<1>1. CASE i.op \in {"add", "mul", "div", "sd", "beq", "sc", "amo"}
  <2>1. a = a2 /\ b = b2
    BY <1>1 DEF rs1_read, rs2_read
  <2>2. Sys!ResAfter(i, Sys!AddrOf(i, a), v) = Sys!ResAfter(i, a2, v)
    BY <1>1, <2>1 DEF Sys!ResAfter, Sys!AddrOf
  <2> QED
    BY <2>1, <2>2
<1>2. CASE i.op \in {"addi", "ld", "jalr", "lr"}
  <2>1. a = a2
    BY <1>2 DEF rs1_read
  <2>2. Sys!ResAfter(i, Sys!AddrOf(i, a), v) = Sys!ResAfter(i, a2, v)
    BY <1>2, <2>1 DEF Sys!ResAfter, Sys!AddrOf
  <2>3. Sys!Result(i, q, a, b, m, v) = Sys!Result(i, q, a2, b2, m, v)
    BY <1>2, <2>1 DEF Sys!Result
  <2> QED
    BY <1>2, <2>1, <2>2, <2>3 DEF Sys!MemAfter, Sys!JumpTaken
<1>3. CASE i.op \in {"auipc", "jal"}
  <2>1. Sys!Result(i, q, a, b, m, v) = Sys!Result(i, q, a2, b2, m, v)
    BY <1>3 DEF Sys!Result
  <2> QED
    BY <1>3, <2>1 DEF Sys!MemAfter, Sys!JumpTaken, Sys!JumpPc, Sys!ResAfter
<1> QED
  BY <1>1, <1>2, <1>3 DEF Sys!Ops

(* One instruction of Isa, in the names used here.                         *)
Executes ==
  LET i == prog[IsaPc]
      a == DrainedRegs[i.rs1]
      b == DrainedRegs[i.rs2]
  IN  /\ IsaPc' = IF Sys!JumpTaken(i, a, b) THEN Sys!JumpPc(i, IsaPc, a) ELSE (IsaPc + 1) % N
      /\ DrainedRegs' = IF rd_write(i) /\ i.rd # 0
                        THEN [DrainedRegs EXCEPT ![i.rd] = Sys!Result(i, IsaPc, a, b, IsaMem, IsaRes)]
                        ELSE DrainedRegs
      /\ IsaMem' = Sys!MemAfter(i, a, b, IsaMem, IsaRes)
      /\ IsaRes' = Sys!ResAfter(i, a, IsaRes)
      /\ prog' = prog

Rests ==
  /\ IsaPc' = IsaPc /\ DrainedRegs' = DrainedRegs /\ IsaMem' = IsaMem /\ IsaRes' = IsaRes /\ prog' = prog

LEMMA DecodedAnyway ==
  ASSUME PipeInv, ifid.valid
  PROVE  instruction_post = prog[ifid.pc] /\ instruction_post \in Sys!Instrs
<1>1. instruction_post = prog[ifid.pc]
  BY DEF PipeInv, FetchInv, instruction_post, instruction
<1> QED
  BY <1>1 DEF PipeInv, TypeInv

LEMMA NextInOrder ==
  ASSUME PipeInv, ifid.valid, ~jump
  PROVE  IsaPc = ifid.pc /\ pc = (ifid.pc + 1) % N
  BY DEF PipeInv, OrderInv, IsaPc

LEMMA EntersExecutes ==
  ASSUME NoWait, PipeInv, Clock, Enters
  PROVE  Executes
<1> DEFINE i == prog[IsaPc]
           a == final_rs(i.rs1, rs1_read(i))
           b == final_rs(i.rs2, rs2_read(i))
           a2 == DrainedRegs[i.rs1]
           b2 == DrainedRegs[i.rs2]
<1>1. ~EX_stall /\ ~jump /\ ifid.valid /\ ~illegal(instruction_post) /\ ~load_dependency /\ ID_stage_valid
  BY DEF Enters
<1>2. IsaPc = ifid.pc
  BY <1>1, NextInOrder
<1>3. instruction_post = i /\ i \in Sys!Instrs
  BY <1>1, <1>2, DecodedAnyway
<1>4. /\ DrainedRegs' = [r \in Regs |-> IF r # 0 /\ rd_write(i) /\ r = i.rd
                                        THEN Sys!Result(i, IsaPc, a, b, IsaMem, IsaRes)
                                        ELSE DrainedRegs[r]]
      /\ IsaMem' = Sys!MemAfter(i, a, b, IsaMem, IsaRes)
      /\ IsaRes' = Sys!ResAfter(i, Sys!AddrOf(i, a), IsaRes)
      /\ IsaPc' = IF Sys!JumpTaken(i, a, b) THEN Sys!JumpPc(i, IsaPc, a) ELSE (IsaPc + 1) % N
  BY <1>2, <1>3, Entered
<1>5. i.rs1 \in Regs /\ i.rs2 \in Regs /\ i.rd \in Regs /\ i.op \in Sys!Ops \ {"ill"}
  BY <1>1, <1>3 DEF Sys!Instrs, Regs, illegal
<1>6. /\ ~(ex_mem_read /\ match_ex(i.rs1, rs1_read(i)))
      /\ ~(ex_mem_read /\ match_ex(i.rs2, rs2_read(i)))
  BY <1>1, <1>3 DEF load_dependency
<1>7. rs1_read(i) \in BOOLEAN /\ rs2_read(i) \in BOOLEAN
  BY DEF rs1_read, rs2_read
<1> HIDE DEF i
<1>8. rs1_read(i) => a = a2
  <2> SUFFICES ASSUME rs1_read(i) PROVE a = a2
    OBVIOUS
  <2>1. rs1_read(i) = TRUE
    BY <1>7
  <2>2. ~(ex_mem_read /\ match_ex(i.rs1, TRUE))
    BY <1>6, <2>1
  <2>3. final_rs(i.rs1, TRUE) = DrainedRegs[i.rs1]
    BY <1>1, <1>5, <2>2, Forwarding
  <2> QED
    BY <2>1, <2>3
<1>9. rs2_read(i) => b = b2
  <2> SUFFICES ASSUME rs2_read(i) PROVE b = b2
    OBVIOUS
  <2>1. rs2_read(i) = TRUE
    BY <1>7
  <2>2. ~(ex_mem_read /\ match_ex(i.rs2, TRUE))
    BY <1>6, <2>1
  <2>3. final_rs(i.rs2, TRUE) = DrainedRegs[i.rs2]
    BY <1>1, <1>5, <2>2, Forwarding
  <2> QED
    BY <2>1, <2>3
<1> HIDE DEF a, b, a2, b2
<1>10. /\ rd_write(i) => Sys!Result(i, IsaPc, a, b, IsaMem, IsaRes) = Sys!Result(i, IsaPc, a2, b2, IsaMem, IsaRes)
       /\ Sys!MemAfter(i, a, b, IsaMem, IsaRes) = Sys!MemAfter(i, a2, b2, IsaMem, IsaRes)
       /\ Sys!ResAfter(i, Sys!AddrOf(i, a), IsaRes) = Sys!ResAfter(i, a2, IsaRes)
       /\ Sys!JumpTaken(i, a, b) <=> Sys!JumpTaken(i, a2, b2)
       /\ Sys!JumpTaken(i, a, b) => Sys!JumpPc(i, IsaPc, a) = Sys!JumpPc(i, IsaPc, a2)
  BY <1>5, <1>8, <1>9, SameEffect
<1>11. IsaPc' = IF Sys!JumpTaken(i, a2, b2) THEN Sys!JumpPc(i, IsaPc, a2) ELSE (IsaPc + 1) % N
  BY <1>4, <1>10
<1>12. DrainedRegs' = IF rd_write(i) /\ i.rd # 0
                      THEN [DrainedRegs EXCEPT ![i.rd] = Sys!Result(i, IsaPc, a2, b2, IsaMem, IsaRes)]
                      ELSE DrainedRegs
  <2>1. DrainedRegs = [r \in Regs |-> DrainedRegs[r]]
    BY DEF DrainedRegs
  <2>2. CASE rd_write(i) /\ i.rd # 0
    <3>1. DrainedRegs' = [r \in Regs |-> IF r = i.rd
                                         THEN Sys!Result(i, IsaPc, a2, b2, IsaMem, IsaRes)
                                         ELSE DrainedRegs[r]]
      BY <1>4, <1>10, <2>2
    <3> QED
      BY <1>5, <2>1, <2>2, <3>1
  <2>3. CASE ~(rd_write(i) /\ i.rd # 0)
    <3>1. DrainedRegs' = [r \in Regs |-> DrainedRegs[r]]
      BY <1>4, <2>3
    <3> QED
      BY <2>1, <2>3, <3>1
  <2> QED
    BY <2>2, <2>3
<1>13. IsaMem' = Sys!MemAfter(i, a2, b2, IsaMem, IsaRes) /\ IsaRes' = Sys!ResAfter(i, a2, IsaRes)
  BY <1>4, <1>10
<1>14. prog' = prog
  BY Edge
<1> QED
  BY <1>11, <1>12, <1>13, <1>14 DEF Executes, i, a2, b2

LEMMA DropsExecutes ==
  ASSUME NoWait, PipeInv, Clock, Drops
  PROVE  Executes
<1>1. ~EX_stall /\ ~jump /\ ifid.valid /\ illegal(instruction_post) /\ idex' = EmptyIDEX /\ Advances
  BY DEF Drops
<1>2. IsaPc = ifid.pc /\ pc = (ifid.pc + 1) % N
  BY <1>1, NextInOrder
<1>3. prog[IsaPc].op = "ill"
  BY <1>1, <1>2, DecodedAnyway DEF illegal
<1>4. DrainedRegs' = DrainedRegs /\ IsaMem' = IsaMem /\ IsaRes' = IsaRes
  BY <1>1, Emptied
<1>5. IsaPc' = (IsaPc + 1) % N
  BY <1>1, <1>2 DEF IsaPc, EmptyIDEX, Advances
<1>6. prog' = prog
  BY Edge
<1>7. ~rd_write(prog[IsaPc])
  BY <1>3 DEF rd_write, Sys!RegWriters
<1> QED
  BY <1>3, <1>4, <1>5, <1>6, <1>7 DEF Executes, Sys!JumpTaken, Sys!MemAfter, Sys!ResAfter

LEMMA Simulates ==
  ASSUME NoWait, PipeInv, Clock
  PROVE  Executes \/ Rests
<1>1. Stays \/ Flushes \/ Interlocks \/ Drops \/ Enters \/ Fills
  BY Moves
<1>2. prog' = prog
  BY Edge
<1>3. ~EmptyIDEX.valid /\ ~EmptyIFID.valid
  BY DEF EmptyIDEX, EmptyIFID
<1>4. CASE Stays
  BY <1>2, <1>4, Hold DEF Rests
<1>5. CASE Enters
  BY <1>5, EntersExecutes
<1>6. CASE Drops
  BY <1>6, DropsExecutes
<1>7. CASE Flushes
  <2>1. ~EX_stall /\ jump /\ idex' = EmptyIDEX /\ ifid' = EmptyIFID /\ pc' = jump_pc
    BY <1>7 DEF Flushes
  <2>2. idex.valid
    BY <2>1, Quiet
  <2>3. IsaPc' = IsaPc
    BY <1>3, <2>1, <2>2 DEF IsaPc
  <2> QED
    BY <1>2, <2>1, <2>3, Emptied DEF Rests
<1>8. CASE Interlocks
  <2>1. ~EX_stall /\ ~jump /\ ifid.valid /\ idex' = EmptyIDEX /\ ifid' = ifid /\ pc' = pc
    BY <1>8 DEF Interlocks
  <2>2. IsaPc = ifid.pc
    BY <2>1, NextInOrder
  <2>3. IsaPc' = IsaPc
    BY <1>3, <2>1, <2>2 DEF IsaPc
  <2> QED
    BY <1>2, <2>1, <2>3, Emptied DEF Rests
<1>9. CASE Fills
  <2>1. /\ ~EX_stall /\ ~ifid.valid /\ ~idex.valid /\ idex' = EmptyIDEX
        /\ Advances \/ (ifid' = EmptyIFID /\ pc' = pc)
    BY <1>9 DEF Fills
  <2>2. IsaPc = pc
    BY <2>1 DEF IsaPc
  <2>3. IsaPc' = IsaPc
    BY <1>3, <2>1, <2>2 DEF IsaPc, Advances
  <2> QED
    BY <1>2, <2>1, <2>3, Emptied DEF Rests
<1> QED
  BY <1>1, <1>4, <1>5, <1>6, <1>7, <1>8, <1>9

LEMMA ArchIs ==
  /\ \A op, a, b : Arch!Alu(op, a, b) = Sys!Alu(op, a, b)
  /\ \A i, a : Arch!AddrOf(i, a) = Sys!AddrOf(i, a)
  /\ \A v, a : Arch!Reserved(v, a) <=> Sys!Reserved(v, a)
  /\ \A i, a, b : Arch!JumpTaken(i, a, b) <=> Sys!JumpTaken(i, a, b)
  /\ \A i, q, a : Arch!JumpPc(i, q, a) = Sys!JumpPc(i, q, a)
  /\ \A i, a, v : Arch!ResAfter(i, a, v) = Sys!ResAfter(i, a, v)
  /\ Arch!RegWriters = Sys!RegWriters /\ Arch!NoRes = Sys!NoRes
  /\ Arch!Regs = Regs /\ Arch!Words = Words
<1>1. \A op, a, b : Arch!Alu(op, a, b) = Sys!Alu(op, a, b)
  BY DEF Arch!Alu, Sys!Alu
<1>2. \A i, a : Arch!AddrOf(i, a) = Sys!AddrOf(i, a)
  BY DEF Arch!AddrOf, Sys!AddrOf
<1>3. \A v, a : Arch!Reserved(v, a) <=> Sys!Reserved(v, a)
  BY DEF Arch!Reserved, Sys!Reserved
<1>4. \A i, a, b : Arch!JumpTaken(i, a, b) <=> Sys!JumpTaken(i, a, b)
  BY DEF Arch!JumpTaken, Sys!JumpTaken
<1>5. \A i, q, a : Arch!JumpPc(i, q, a) = Sys!JumpPc(i, q, a)
  BY DEF Arch!JumpPc, Sys!JumpPc
<1>6. Arch!NoRes = Sys!NoRes
  BY DEF Arch!NoRes, Sys!NoRes
<1>7. \A i, a, v : Arch!ResAfter(i, a, v) = Sys!ResAfter(i, a, v)
  BY <1>6 DEF Arch!ResAfter, Sys!ResAfter
<1>8. Arch!RegWriters = Sys!RegWriters /\ Arch!Regs = Regs /\ Arch!Words = Words
  BY DEF Arch!RegWriters, Sys!RegWriters, Arch!Ops, Sys!Ops, Arch!Regs, Sys!Regs, Regs, Arch!Words, Sys!Words, Words
<1> QED
  BY <1>1, <1>2, <1>3, <1>4, <1>5, <1>6, <1>7, <1>8

LEMMA ArchDoes ==
  /\ \A i, q, a, b, m, v : Arch!Result(i, q, a, b, m, v) = Sys!Result(i, q, a, b, m, v)
  /\ \A i, a, b, m, v : Arch!MemAfter(i, a, b, m, v) = Sys!MemAfter(i, a, b, m, v)
<1>1. \A i, q, a, b, m, v : Arch!Result(i, q, a, b, m, v) = Sys!Result(i, q, a, b, m, v)
  BY ArchIs DEF Arch!Result, Sys!Result
<1>2. \A i, a, b, m, v : Arch!MemAfter(i, a, b, m, v) = Sys!MemAfter(i, a, b, m, v)
  <2> SUFFICES ASSUME NEW i, NEW a, NEW b, NEW m, NEW v
               PROVE  Arch!MemAfter(i, a, b, m, v) = Sys!MemAfter(i, a, b, m, v)
    BY Zenon
  <2>1. /\ Arch!AddrOf(i, a) = Sys!AddrOf(i, a)
        /\ Arch!Reserved(v, a) <=> Sys!Reserved(v, a)
        /\ Arch!Alu("add", m[a], b) = Sys!Alu("add", m[a], b)
    BY ArchIs
  <2>2. CASE i.op = "sd"
    BY <2>1, <2>2 DEF Arch!MemAfter, Sys!MemAfter
  <2>3. CASE i.op = "amo"
    BY <2>1, <2>3 DEF Arch!MemAfter, Sys!MemAfter
  <2>4. CASE i.op = "sc" /\ Sys!Reserved(v, a)
    BY <2>1, <2>4 DEF Arch!MemAfter, Sys!MemAfter
  <2>5. CASE i.op \notin {"sd", "amo"} /\ ~(i.op = "sc" /\ Sys!Reserved(v, a))
    BY <2>1, <2>5 DEF Arch!MemAfter, Sys!MemAfter
  <2> QED
    BY <2>2, <2>3, <2>4, <2>5
<1> QED
  BY <1>1, <1>2

LEMMA ExecutesIsStep == Executes => Arch!IsaStep
<1> SUFFICES ASSUME Executes PROVE Arch!IsaStep
  OBVIOUS
<1> DEFINE i == prog[IsaPc]
           a == DrainedRegs[i.rs1]
           b == DrainedRegs[i.rs2]
<1>1. IsaPc' = IF Arch!JumpTaken(i, a, b) THEN Arch!JumpPc(i, IsaPc, a) ELSE (IsaPc + 1) % N
  BY ArchIs DEF Executes
<1>2. DrainedRegs' = IF i.op \in Arch!RegWriters /\ i.rd # 0
                     THEN [DrainedRegs EXCEPT ![i.rd] = Arch!Result(i, IsaPc, a, b, IsaMem, IsaRes)]
                     ELSE DrainedRegs
  BY ArchIs, ArchDoes DEF Executes, rd_write
<1>3. IsaMem' = Arch!MemAfter(i, a, b, IsaMem, IsaRes) /\ IsaRes' = Arch!ResAfter(i, a, IsaRes)
  BY ArchIs, ArchDoes DEF Executes
<1>4. prog' = prog
  BY DEF Executes
<1> QED
  BY <1>1, <1>2, <1>3, <1>4, Zenon DEF Arch!IsaStep, IsaPc, IsaMem, IsaRes

LEMMA RestsIsStutter == Rests => UNCHANGED Arch!isaVars
  BY DEF Rests, Arch!isaVars, IsaPc, IsaMem, IsaRes

LEMMA StepRefines == NoWait /\ PipeInv /\ [Next]_vars => [Arch!IsaStep]_(Arch!isaVars)
<1> SUFFICES ASSUME NoWait, PipeInv, [Next]_vars PROVE [Arch!IsaStep]_(Arch!isaVars)
  OBVIOUS
<1>1. CASE Clock
  <2>1. Executes \/ Rests
    BY <1>1, Simulates
  <2> QED
    BY <2>1, ExecutesIsStep, RestsIsStutter
<1>2. CASE UNCHANGED vars
  <2>1. ex' = ex /\ (jump' <=> jump) /\ jump_pc' = jump_pc /\ haddr' = haddr /\ hwdata' = hwdata
        /\ (AmoWritten' <=> AmoWritten)
    BY <1>2 DEF vars, ex, jump, jump_pc, haddr, hwdata, amo_wdata, AmoWritten
  <2>2. DrainedMem' = DrainedMem /\ mem_rd_wdata' = mem_rd_wdata
    BY <1>2, <2>1 DEF vars, DrainedMem, mem_rd_wdata
  <2>3. IsaPc' = IsaPc /\ IsaMem' = IsaMem /\ IsaRes' = IsaRes /\ prog' = prog /\ ExResult' = ExResult
    BY <1>2, <2>1, <2>2 DEF vars, IsaPc, IsaMem, IsaRes, ExResult
  <2>4. \A r \in Regs : /\ (match_ex(r, TRUE))' <=> match_ex(r, TRUE)
                        /\ (EndReg(r))' = EndReg(r)
    BY <1>2, <2>1, <2>2 DEF vars, match_ex, match_mem, Match, rd_write, EndReg, regfile
  <2>5. DrainedRegs' = DrainedRegs
    <3>1. DrainedRegs = [r \in Regs |-> IF match_ex(r, TRUE) THEN ExResult ELSE EndReg(r)]
      BY DEF DrainedRegs, ExResult, EndReg
    <3>2. DrainedRegs' = [r \in Regs |-> IF (match_ex(r, TRUE))' THEN ExResult' ELSE (EndReg(r))']
      BY DEF DrainedRegs, ExResult, EndReg
    <3> QED
      BY <2>3, <2>4, <3>1, <3>2
  <2> QED
    BY <2>3, <2>5, RestsIsStutter DEF Rests
<1> QED
  BY <1>1, <1>2 DEF Next

LEMMA StartRefines == NoWait /\ Init => Arch!IsaInit
<1> SUFFICES ASSUME NoWait, Init PROVE Arch!IsaInit
  OBVIOUS
<1>1. PipeInv
  BY PipeStart
<1>2. idex = EmptyIDEX /\ ~idex.valid /\ ~ifid.valid /\ ex = NoInstr /\ pc = 0 /\ res = Sys!NoRes
      /\ dphase = NoDPhase /\ exmem = EmptyEXMEM /\ memwb = EmptyMEMWB
  BY DEF Init, EmptyIDEX, EmptyIFID, ex
<1>3. IsaPc = 0
  BY <1>2 DEF IsaPc
<1>4. ex.op = "none" /\ ~AmoWritten /\ DrainedMem = mem
  BY <1>2 DEF NoInstr, AmoWritten, DrainedMem, NoDPhase
<1>5. IsaMem = mem /\ IsaRes = Sys!NoRes
  BY <1>2, <1>4 DEF IsaMem, IsaRes, Sys!MemAfter, Sys!ResAfter
<1>6. \A r \in Regs : ~match_ex(r, TRUE) /\ ~match_mem(r, TRUE)
  BY <1>2, NothingWrites DEF match_ex, match_mem, Match, EmptyEXMEM
<1>7. DrainedRegs \in [Regs -> Words] /\ DrainedRegs[0] = 0
  <2>1. DrainedRegs = [r \in Regs |-> regfile(r)]
    BY <1>6 DEF DrainedRegs
  <2>2. \A r \in Regs : regfile(r) \in Words
    BY <1>1, ValueTypes DEF PipeInv
  <2>3. regfile(0) = 0
    BY DEF regfile
  <2> QED
    BY <2>1, <2>2, <2>3, Sizes
<1>8. mem \in [Words -> Words]
  BY <1>1 DEF PipeInv, TypeInv
<1>9. /\ IsaPc = 0 /\ DrainedRegs \in [Arch!Regs -> Arch!Words] /\ DrainedRegs[0] = 0
      /\ IsaMem \in [Arch!Words -> Arch!Words] /\ IsaRes = Arch!NoRes
  BY <1>3, <1>5, <1>7, <1>8, ArchIs
<1> QED
  BY <1>9, Zenon DEF Arch!IsaInit, IsaPc, IsaMem, IsaRes

(* With memories that do not wait, the pipeline executes every program as  *)
(* Isa does, one instruction at a time: for every word size, every number  *)
(* of registers, every program and initial contents.                       *)
THEOREM PipelineRefinesIsa ==
  ASSUME NoWait
  PROVE  Spec => RefinesIsa
<1>1. Init => PipeInv
  BY PipeStart
<1>2. PipeInv /\ [Next]_vars => PipeInv'
  BY PipeStep
<1>3. Init => Arch!IsaInit
  BY StartRefines
<1>4. PipeInv /\ [Next]_vars => [Arch!IsaStep]_(Arch!isaVars)
  BY StepRefines
<1> QED
  BY <1>1, <1>2, <1>3, <1>4, PTL DEF Spec, RefinesIsa, Arch!IsaSafe
=============================================================================
