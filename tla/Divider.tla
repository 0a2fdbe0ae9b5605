------------------------------- MODULE Divider -------------------------------
(***************************************************************************)
(* The long-division unit of hardware/rtl/cpu/divider.sv, clock by clock,  *)
(* and the EX stage that drives it: ID/EX keeps the request while the unit *)
(* stalls, and longer while MEM does not take the result (EX.sv 111-122,   *)
(* 307-309).  flush is tied to 0 there.                                    *)
(***************************************************************************)
EXTENDS MulDivRef

DivOps == {"DIV", "DIVU", "REM", "REMU"}

VARIABLES
  in,           \* what ID/EX shows the unit: [req, op, is_32bit, a, b]
  running, iterations, dividend, divisor, quotient,
  quotient_negate, remainder_negate, is_rem

vars == <<in, running, iterations, dividend, divisor, quotient,
          quotient_negate, remainder_negate, is_rem>>

Requests == [req : {TRUE}, op : DivOps, is_32bit : BOOLEAN, a : Inputs, b : Inputs]
Idle == [req |-> FALSE, op |-> "DIV", is_32bit |-> FALSE, a |-> 0, b |-> 0]

Neg(x) == (2^XLEN - x) % 2^XLEN
Bit(x, k) == (x \div 2^k) % 2 = 1

signed_div == in.op \in {"DIV", "REM"}

Post(x) ==
  IF ~in.is_32bit THEN x ELSE IF signed_div THEN sext(x, HALF) ELSE x % 2^HALF

a_post == Post(in.a)
b_post == Post(in.b)

dividend_sign_bit == Bit(a_post, XLEN - 1)
divisor_sign_bit == Bit(b_post, XLEN - 1)

NegateZeroQuotient == signed_div /\ dividend_sign_bit # divisor_sign_bit    \* mutant: x / 0 negated

QuotientSign == signed_div /\ dividend_sign_bit # divisor_sign_bit /\ b_post # 0

(* The counter's width, $clog2(XLEN + 1) + 1 bits.                         *)
IterMod == 2^(1 + CHOOSE k \in 0 .. XLEN : 2^k >= XLEN + 1 /\ \A j \in 0 .. k - 1 : 2^j < XLEN + 1)

new_req == in.req /\ ~running

done == iterations = XLEN

(* extended_dividend - (extended_divisor >> iterations), and the sign of   *)
(* the 2 * XLEN bit result                                                 *)
sub_result == dividend - (divisor * 2^(XLEN - 1)) \div 2^iterations
sub_fits == sub_result >= 0

quotient_post == IF quotient_negate THEN Neg(quotient) ELSE quotient
remainder_post == IF remainder_negate THEN Neg(dividend) ELSE dividend
output_raw == IF is_rem THEN remainder_post ELSE quotient_post

o == IF in.is_32bit THEN sext(output_raw, HALF) ELSE output_raw

StallWhileRunning == new_req \/ running      \* mutant: no free cycle when done

stall == new_req \/ (running /\ ~done)

Reset == running = FALSE /\ iterations = 0 /\ quotient = 0

(* Reset leaves the operand registers as they power up.                    *)
Init ==
  /\ in = Idle
  /\ Reset
  /\ dividend \in Inputs /\ divisor \in Inputs
  /\ quotient_negate \in BOOLEAN /\ remainder_negate \in BOOLEAN /\ is_rem \in BOOLEAN

LatchOperands ==
  IF new_req
  THEN /\ divisor' = IF signed_div /\ divisor_sign_bit THEN Neg(b_post) ELSE b_post
       /\ quotient_negate' = QuotientSign
       /\ remainder_negate' = (signed_div /\ dividend_sign_bit)
       /\ is_rem' = (in.op \in {"REM", "REMU"})
  ELSE UNCHANGED <<divisor, quotient_negate, remainder_negate, is_rem>>

FlowControl == running' = IF new_req THEN TRUE ELSE IF done THEN FALSE ELSE running

Iterate ==
  /\ quotient' = IF new_req THEN 0
                 ELSE IF running THEN (2 * quotient + (IF sub_fits THEN 1 ELSE 0)) % 2^XLEN
                 ELSE quotient
  /\ iterations' = IF new_req THEN 0 ELSE IF running THEN (iterations + 1) % IterMod ELSE iterations
  /\ dividend' = IF new_req THEN IF signed_div /\ dividend_sign_bit THEN Neg(a_post) ELSE a_post
                 ELSE IF sub_fits THEN sub_result ELSE dividend

(* out_EX_ready, the MEM stage's, is free.                                 *)
Operand ==
  \E out_EX_ready \in BOOLEAN :
    IF in.req /\ (stall \/ ~out_EX_ready) THEN in' = in
    ELSE in' \in Requests \union {Idle}

Clock == LatchOperands /\ FlowControl /\ Iterate /\ Operand

Spec == Init /\ [][Clock]_vars /\ WF_vars(Clock)

-----------------------------------------------------------------------------
(* The result EX hands on in a cycle without stall is the emulator's, also *)
(* for a zero divisor, the overflowing INT_MIN / -1 and the W forms, and   *)
(* after whatever the unit computed before (divider.sv 88-187).            *)
DivResult == in.req /\ ~stall => o = MulDiv(in.op, in.is_32bit, in.a, in.b)

(* Every division ends, whatever the unit held when it started             *)
(* (divider.sv 118-128, 187).                                              *)
DivisionEnds == (in.req /\ stall) ~> ~stall
=============================================================================
