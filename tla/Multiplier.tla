----------------------------- MODULE Multiplier -----------------------------
(***************************************************************************)
(* The two-stage multiplier of hardware/rtl/cpu/multiplier.sv, clock by    *)
(* clock, and the EX stage that drives it, as in Divider.                  *)
(***************************************************************************)
EXTENDS MulDivRef

MulOps == {"MUL", "MULH", "MULHSU", "MULHU"}

VARIABLES
  in,           \* what ID/EX shows the unit: [req, op, is_32bit, a, b]
  running,
  stage_valid,  \* <<stage_valid[0], stage_valid[1]>>
  a_s0, b_s0,   \* the sign- or zero-extended operands
  o_s1          \* their product

vars == <<in, running, stage_valid, a_s0, b_s0, o_s1>>

(* The decoder rejects the W forms of MULH, MULHSU and MULHU (decoder.sv   *)
(* 93-94).  Without a request the operands are another instruction's; all  *)
(* ones stands for them, zero for an empty stage.                          *)
Requests ==
  {r \in [req : {TRUE}, op : MulOps, is_32bit : BOOLEAN, a : Inputs, b : Inputs] :
     r.is_32bit => r.op = "MUL"}
Idles == [req : {FALSE}, op : {"MULH"}, is_32bit : {FALSE},
          a : {0, 2^XLEN - 1}, b : {0, 2^XLEN - 1}]

new_req == in.req /\ ~running

BothUnsigned == IF in.op \in {"MULHSU", "MULHU"} THEN in.a ELSE SignedVal(in.a, XLEN)    \* mutant: MULHSU's a unsigned

ExtendA == IF in.op = "MULHU" THEN in.a ELSE SignedVal(in.a, XLEN)
ExtendB == IF in.op \in {"MULHSU", "MULHU"} THEN in.b ELSE SignedVal(in.b, XLEN)

output_raw == (IF in.op = "MUL" THEN o_s1 ELSE o_s1 \div 2^XLEN) % 2^XLEN

o == IF in.is_32bit THEN sext(output_raw, HALF) ELSE output_raw

StallWhileRunning == new_req \/ running      \* mutant: no free cycle for the result

stall == new_req \/ (running /\ ~stage_valid[2])

(* Only the control bits have a reset; no request ever sees the others'    *)
(* first values.                                                           *)
Reset ==
  /\ running = FALSE /\ stage_valid = <<FALSE, FALSE>>
  /\ a_s0 = 0 /\ b_s0 = 0 /\ o_s1 = 0

Init == in \in Idles /\ Reset

Clock ==
  /\ a_s0' = ExtendA /\ b_s0' = ExtendB
  /\ o_s1' = a_s0 * b_s0
  /\ stage_valid' = <<new_req, stage_valid[1]>>
  /\ running' = IF new_req THEN TRUE ELSE IF stage_valid[2] THEN FALSE ELSE running
  /\ \E out_EX_ready \in BOOLEAN :
       IF in.req /\ (stall \/ ~out_EX_ready) THEN in' = in
       ELSE in' \in Requests \union Idles

Spec == Init /\ [][Clock]_vars /\ WF_vars(Clock)

-----------------------------------------------------------------------------
(* "If a req is pending and stall is de-asserted, then the data is valid": *)
(* the product EX hands on is the emulator's for the request it holds, not *)
(* one left in the stages by an earlier request (multiplier.sv 11-12).     *)
MulResult == in.req /\ ~stall => o = MulDiv(in.op, in.is_32bit, in.a, in.b)

(* Every multiplication ends (multiplier.sv 81-93).                        *)
MultiplicationEnds == (in.req /\ stall) ~> ~stall
=============================================================================
