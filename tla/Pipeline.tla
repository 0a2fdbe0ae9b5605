------------------------------ MODULE Pipeline ------------------------------
(***************************************************************************)
(* The five-stage pipeline of hardware/rtl/cpu, cycle by cycle: IF, ID,    *)
(* EX, MEM and WB, the valid/ready registers between them, the forwarding  *)
(* paths, the load interlock, the flush on a jump, the AMO state machine,  *)
(* the LR/SC reservation, and the two AHB-Lite ports with their wait       *)
(* states.  Clock is one rising edge; every combinational signal is an     *)
(* operator over the registers and over "bus", what the two memories drive *)
(* in this cycle.                                                          *)
(*                                                                         *)
(* All accesses are aligned and no response is an error (hresp = 0): the   *)
(* RTL has no trap yet, and drops an illegal instruction in ID.            *)
(***************************************************************************)
EXTENDS Integers

CONSTANTS
  W, N, RegNum,  \* as in Isa
  Programs,      \* the programs in the instruction memory: a set of [0 .. N - 1 -> Instrs]
  Boot,          \* initial contents of register file and data memory: [regs, mem]
  DivXlen,       \* iterations of the divider, XLEN in the code
  IWait, DWait,  \* whether the instruction and data memory insert wait states
  Strap,         \* strap_block_fetch_enable
  JunkInstrs,    \* what hrdata may show outside a data phase: instruction port,
  JunkWords      \* data port, and a multiplier or divider that is not done

VARIABLES
  prog,     \* instruction memory
  mem,      \* data memory
  iphase,   \* the instruction memory's data phase: [valid, addr]
  dphase,   \* the data memory's data phase: [valid, write, addr]
  bus,      \* this cycle's responses: [iready, irdata, dready, drdata, busy]
  pc, run,  \* IF
  ifid,     \* IF/ID register: [valid, pc]
  skid, ID_stage_stalled, instruction_buffer,     \* ID
  regs,     \* register_file
  idex,     \* ID/EX register: [valid, pc, i, rs1, rs2]
  unit,     \* cycles the multiplier or divider has run for the instruction in EX
  amo_state, amo_rdata, res,                      \* EX
  exmem,    \* EX/MEM register: [valid, mem_read, mem_write, rs2, rd_write, rd, alu_out]
  memwb     \* MEM/WB register: [valid, rd_write, rd, wdata]

Sys == INSTANCE Isa WITH ipc <- 0, iregs <- regs, imem <- mem, ires <- res
Words == Sys!Words
Regs == Sys!Regs

ASSUME PipelineAssumption ==
  /\ W \in Nat \ {0, 1} /\ N \in Nat \ {0} /\ RegNum \in Nat \ {0} /\ DivXlen \in Nat \ {0}
  /\ Programs \subseteq [Sys!Pcs -> Sys!Instrs]
  /\ Boot.regs \in [Regs -> Words] /\ Boot.mem \in [Words -> Words]
  /\ JunkInstrs \subseteq Sys!Instrs /\ JunkInstrs # {}
  /\ JunkWords \subseteq Words /\ JunkWords # {}

vars == <<prog, mem, iphase, dphase, bus, pc, run, ifid, skid, ID_stage_stalled,
          instruction_buffer, regs, idex, unit, amo_state, amo_rdata, res, exmem, memwb>>

(***************************************************************************)
(* pipeline.sv: a register with a valid bit, cleared when nothing enters.  *)
(***************************************************************************)
PipeReady(reg, out_ready) == ~reg.valid \/ out_ready

PipeNext(reg, out_ready, in_valid, in_data, empty) ==
  IF ~PipeReady(reg, out_ready) THEN reg
  ELSE IF in_valid THEN in_data ELSE empty

NoInstr == [op |-> "none", rd |-> 0, rs1 |-> 0, rs2 |-> 0, imm |-> 0]
EmptyIFID == [valid |-> FALSE, pc |-> 0]
EmptyIDEX == [valid |-> FALSE, pc |-> 0, i |-> NoInstr, rs1 |-> 0, rs2 |-> 0]
EmptyEXMEM == [valid |-> FALSE, mem_read |-> FALSE, mem_write |-> FALSE, rs2 |-> 0,
               rd_write |-> FALSE, rd |-> 0, alu_out |-> 0]
EmptyMEMWB == [valid |-> FALSE, rd_write |-> FALSE, rd |-> 0, wdata |-> 0]

(***************************************************************************)
(* decoder.sv                                                              *)
(***************************************************************************)
rd_write(i) == i.op \in Sys!RegWriters
rs1_read(i) == i.op \notin {"auipc", "jal", "ill", "none"}
rs2_read(i) == i.op \in {"add", "mul", "div", "sd", "beq", "sc", "amo"}
illegal(i) == i.op = "ill"

(***************************************************************************)
(* EX.sv, bu.sv: the instruction in EX.                                    *)
(***************************************************************************)
ex == idex.i

jump == Sys!JumpTaken(ex, idex.rs1, idex.rs2)

jump_pc == Sys!JumpPc(ex, idex.pc, idex.rs1)

haddr == Sys!AddrOf(ex, idex.rs1)

sc_check_pass == Sys!Reserved(res, haddr)

(* multiplier.sv: two register stages after the request; divider.sv: one   *)
(* cycle to load the operands, one per bit.                                *)
UnitDone == IF ex.op = "mul" THEN 2 ELSE DivXlen + 1

unit_stall == ex.op \in {"mul", "div"} /\ unit < UnitDone

UnitOut == IF unit = UnitDone THEN Sys!Alu(ex.op, idex.rs1, idex.rs2) ELSE bus.busy

amo_stall == ex.op = "amo" /\ ~(amo_state = "WRITE_DATA" /\ bus.dready)

amo_wdata == Sys!Alu("add", amo_rdata, idex.rs2)

mem_read == ex.op \in {"ld", "lr"} \/ (ex.op = "amo" /\ amo_state = "READ_REQ")

mem_write ==
  \/ ex.op = "sd"
  \/ ex.op = "sc" /\ sc_check_pass
  \/ ex.op = "amo" /\ amo_state = "WRITE_REQ"

mem_request_raw == mem_read \/ mem_write
mem_request == mem_request_raw /\ bus.dready
block_fetch == mem_request_raw

EX_stall == (mem_request_raw /\ ~bus.dready) \/ unit_stall \/ amo_stall

ex_mem_read == ex.op \in {"ld", "lr", "amo"}

ex_rd_wdata ==
  CASE ex.op = "amo" -> amo_rdata
    [] ex.op = "sc" -> IF sc_check_pass THEN 0 ELSE 1
    [] ex.op \in {"mul", "div"} -> UnitOut
    [] ex.op = "auipc" -> Sys!Alu("add", idex.pc, ex.imm)
    [] ex.op = "addi" -> Sys!Alu("add", idex.rs1, ex.imm)
    [] OTHER -> Sys!Alu("add", idex.rs1, idex.rs2)

(***************************************************************************)
(* MEM.sv: the data phase of a load or store.                              *)
(***************************************************************************)
memory_stall == (exmem.mem_read \/ exmem.mem_write) /\ ~bus.dready

mem_rd_wdata == IF exmem.mem_read THEN bus.drdata ELSE exmem.alu_out

hwdata == IF amo_state = "WRITE_DATA" THEN amo_wdata ELSE exmem.rs2

EX_MEM_ready == ~memory_stall
out_EX_ready == PipeReady(exmem, EX_MEM_ready)
ID_EX_ready == out_EX_ready /\ ~EX_stall
out_ID_ready == PipeReady(idex, ID_EX_ready)

(***************************************************************************)
(* ID.sv: the data phase of a fetch, decode, operands.                     *)
(***************************************************************************)
instruction_pre_valid == ifid.valid /\ bus.iready /\ ~jump

(* skid_buffer.sv: out_valid and out_data                                  *)
instruction_valid == skid.valid \/ instruction_pre_valid
instruction == IF skid.valid THEN skid.data ELSE bus.irdata

DecodesBusData == instruction      \* mutant: no buffer for a stalled ID

instruction_post == IF ID_stage_stalled THEN instruction_buffer ELSE instruction

Match(r, reads, writes, rd) == r # 0 /\ reads /\ writes /\ r = rd

match_ex(r, reads) == Match(r, reads, rd_write(ex), ex.rd)
match_mem(r, reads) == Match(r, reads, exmem.rd_write, exmem.rd)

(* regfile.sv: x0 is zero, and the value being written back is forwarded.  *)
regfile(r) ==
  IF r = 0 THEN 0
  ELSE IF memwb.rd_write /\ memwb.rd = r THEN memwb.wdata ELSE regs[r]

final_rs(r, reads) ==
  IF match_ex(r, reads) THEN ex_rd_wdata
  ELSE IF match_mem(r, reads) THEN mem_rd_wdata
  ELSE regfile(r)

ID_stage_valid == instruction_valid /\ ~illegal(instruction_post) /\ ~jump

InterlockMissesRs2 ==              \* mutant: the interlock looks at rs1 only
  ID_stage_valid /\ ex_mem_read /\ match_ex(instruction_post.rs1, rs1_read(instruction_post))

load_dependency ==
  LET i == instruction_post
  IN  /\ ID_stage_valid /\ ex_mem_read
      /\ match_ex(i.rs1, rs1_read(i)) \/ match_ex(i.rs2, rs2_read(i))

IF_ID_ready == (instruction_valid /\ out_ID_ready /\ ~load_dependency) \/ jump
out_ID_valid == ID_stage_valid /\ ~load_dependency

(***************************************************************************)
(* IF.sv: the address phase of a fetch.                                    *)
(***************************************************************************)
out_IF_ready == PipeReady(ifid, IF_ID_ready)

instruction_read == run /\ out_IF_ready /\ ~jump /\ bus.iready /\ ~(block_fetch /\ Strap)

(***************************************************************************)
(* The memories: an AHB-Lite data phase ends in the cycle that shows       *)
(* hready, which then carries the data read.                               *)
(***************************************************************************)
Responses(iph, dph, m) ==
  [iready : IF iph.valid /\ IWait THEN BOOLEAN ELSE {TRUE},
   irdata : JunkInstrs \union {prog[iph.addr]},
   dready : IF dph.valid /\ DWait THEN BOOLEAN ELSE {TRUE},
   drdata : JunkWords \union {m[dph.addr]},
   busy   : JunkWords]

Response(b, iph, dph, m) ==
  /\ b \in Responses(iph, dph, m)
  /\ IF iph.valid /\ b.iready THEN b.irdata = prog[iph.addr] ELSE b.irdata \in JunkInstrs
  /\ IF dph.valid /\ ~dph.write /\ b.dready THEN b.drdata = m[dph.addr] ELSE b.drdata \in JunkWords

NoIPhase == [valid |-> FALSE, addr |-> 0]
NoDPhase == [valid |-> FALSE, write |-> FALSE, addr |-> 0]

Init ==
  /\ prog \in Programs
  /\ mem = Boot.mem /\ regs = Boot.regs
  /\ iphase = NoIPhase /\ dphase = NoDPhase
  /\ bus \in Responses(iphase, dphase, mem) /\ Response(bus, iphase, dphase, mem)
  /\ pc = 0 /\ run = FALSE
  /\ ifid = EmptyIFID
  /\ instruction_buffer \in JunkInstrs
  /\ skid = [valid |-> FALSE, data |-> instruction_buffer]
  /\ ID_stage_stalled = FALSE
  /\ idex = EmptyIDEX
  /\ unit = 0 /\ amo_state = "READ_REQ" /\ amo_rdata \in JunkWords /\ res = Sys!NoRes
  /\ exmem = EmptyEXMEM /\ memwb = EmptyMEMWB

(***************************************************************************)
(* What each stage does at a rising edge.                                  *)
(***************************************************************************)
IF_clock ==
  /\ run' = TRUE
  /\ pc' = IF ~(run /\ (out_IF_ready \/ jump)) THEN pc
           ELSE IF jump THEN jump_pc
           ELSE IF bus.iready THEN (pc + 1) % N ELSE pc
  /\ ifid' = PipeNext(ifid, IF_ID_ready, instruction_read, [valid |-> TRUE, pc |-> pc], EmptyIFID)

ID_clock ==
  LET i == instruction_post
      held == instruction_pre_valid /\ ~instruction_valid /\ ~IF_ID_ready
  IN  /\ skid' = [valid |-> IF held THEN TRUE
                            ELSE IF instruction_valid /\ IF_ID_ready THEN FALSE ELSE skid.valid,
                  data |-> IF held THEN bus.irdata ELSE skid.data]
      /\ ID_stage_stalled' = (ifid.valid /\ ~IF_ID_ready)
      /\ instruction_buffer' = IF ID_stage_stalled THEN instruction_buffer ELSE instruction
      /\ idex' = PipeNext(idex, ID_EX_ready, out_ID_valid,
                          [valid |-> TRUE, pc |-> ifid.pc, i |-> i,
                           rs1 |-> final_rs(i.rs1, rs1_read(i)),
                           rs2 |-> final_rs(i.rs2, rs2_read(i))],
                          EmptyIDEX)

AmoErrorInverted ==                \* mutant: hresp tested the wrong way round
  CASE amo_state = "READ_REQ" /\ ex.op = "amo" /\ bus.dready -> "READ_DATA"
    [] amo_state = "READ_DATA" /\ bus.dready -> "READ_REQ"
    [] amo_state = "WRITE_REQ" /\ bus.dready -> "WRITE_DATA"
    [] amo_state = "WRITE_DATA" /\ bus.dready -> "READ_REQ"
    [] OTHER -> amo_state

amo_next ==
  CASE amo_state = "READ_REQ" /\ ex.op = "amo" /\ bus.dready -> "READ_DATA"
    [] amo_state = "READ_DATA" /\ bus.dready -> "WRITE_REQ"
    [] amo_state = "WRITE_REQ" /\ bus.dready -> "WRITE_DATA"
    [] amo_state = "WRITE_DATA" /\ bus.dready -> "READ_REQ"
    [] OTHER -> amo_state

EX_clock ==
  /\ unit' = IF unit_stall THEN unit + 1 ELSE 0
  /\ amo_state' = amo_next
  /\ amo_rdata' = IF amo_state = "READ_DATA" /\ bus.dready THEN bus.drdata ELSE amo_rdata
  /\ res' = Sys!ResAfter(ex, haddr, res)
  /\ exmem' = PipeNext(exmem, EX_MEM_ready, idex.valid,
                       [valid |-> TRUE,
                        mem_read |-> ex.op \in {"ld", "lr"},
                        mem_write |-> ex.op = "sd" \/ (ex.op = "sc" /\ sc_check_pass),
                        rs2 |-> idex.rs2, rd_write |-> rd_write(ex), rd |-> ex.rd,
                        alu_out |-> IF jump THEN (idex.pc + 1) % W ELSE ex_rd_wdata],
                       EmptyEXMEM)

MEM_clock ==
  memwb' = PipeNext(memwb, TRUE, exmem.valid /\ ~memory_stall,
                    [valid |-> TRUE, rd_write |-> exmem.rd_write, rd |-> exmem.rd,
                     wdata |-> mem_rd_wdata],
                    EmptyMEMWB)

WB_clock ==
  regs' = IF memwb.rd_write THEN [regs EXCEPT ![memwb.rd] = memwb.wdata] ELSE regs

Memory_clock ==
  /\ iphase' = IF instruction_read THEN [valid |-> TRUE, addr |-> pc]
               ELSE IF bus.iready THEN NoIPhase ELSE iphase
  /\ dphase' = IF mem_request THEN [valid |-> TRUE, write |-> mem_write, addr |-> haddr]
               ELSE IF bus.dready THEN NoDPhase ELSE dphase
  /\ mem' = IF dphase.valid /\ dphase.write /\ bus.dready
            THEN [mem EXCEPT ![dphase.addr] = hwdata] ELSE mem
  /\ prog' = prog
  /\ \E b \in Responses(iphase', dphase', mem') :
       Response(b, iphase', dphase', mem') /\ bus' = b

Clock == IF_clock /\ ID_clock /\ EX_clock /\ MEM_clock /\ WB_clock /\ Memory_clock

Next == Clock

Spec == Init /\ [][Next]_vars /\ WF_vars(Clock)

(***************************************************************************)
(* The refinement mapping: the architectural state once every instruction  *)
(* that has reached EX is done.  Values in MEM and WB are the stages'      *)
(* own; those of EX are what the instruction there will produce.           *)
(***************************************************************************)
DrainedMem ==
  IF dphase.valid /\ dphase.write THEN [mem EXCEPT ![dphase.addr] = hwdata] ELSE mem

AmoWritten == ex.op = "amo" /\ amo_state = "WRITE_DATA"

DrainedRegs ==
  [r \in Regs |->
    IF match_ex(r, TRUE)
    THEN IF AmoWritten THEN amo_rdata
         ELSE Sys!Result(ex, idex.pc, idex.rs1, idex.rs2, DrainedMem, res)
    ELSE IF match_mem(r, TRUE) THEN mem_rd_wdata
    ELSE regfile(r)]

Arch == INSTANCE Isa WITH
  ipc <- IF idex.valid THEN IF jump THEN jump_pc ELSE (idex.pc + 1) % N
         ELSE IF ifid.valid THEN ifid.pc ELSE pc,
  iregs <- DrainedRegs,
  imem <- IF AmoWritten THEN DrainedMem
          ELSE Sys!MemAfter(ex, idex.rs1, idex.rs2, DrainedMem, res),
  ires <- Sys!ResAfter(ex, haddr, res)

-----------------------------------------------------------------------------
(***************************************************************************)
(* Properties                                                              *)
(***************************************************************************)

(* The instruction ID decodes is the one at the pc it carries, however     *)
(* long EX or a load keeps it waiting in ID (ID.sv 121-132).               *)
DecodedIsFetched == ID_stage_valid => instruction_post = prog[ifid.pc]

(* Through forwarding, interlock, flush, the repeated copies of a stalled  *)
(* EX and the AMO's two accesses, the pipeline executes the program as     *)
(* Isa does, one instruction at a time (cpu.sv, EX.sv, ID.sv).             *)
RefinesIsa == Arch!IsaSafe

(* No stall is forever: the pipeline keeps executing instructions          *)
(* (ID.sv 159-176, EX.sv 307-309).                                         *)
KeepsExecuting == Arch!IsaFair

(* An operand that comes from a load in MEM is taken in the cycle its data *)
(* is back: "We need to Stall ID stage ... to get the data ready"          *)
(* (ID.sv 156-159).                                                        *)
LoadDataReady ==
  LET i == instruction_post
      FromMem(r, reads) == ~match_ex(r, reads) /\ match_mem(r, reads)
  IN  /\ out_ID_valid /\ out_ID_ready /\ exmem.mem_read
      /\ FromMem(i.rs1, rs1_read(i)) \/ FromMem(i.rs2, rs2_read(i))
      => bus.dready
=============================================================================
