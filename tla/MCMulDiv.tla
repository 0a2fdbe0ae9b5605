------------------------------ MODULE MCMulDiv ------------------------------
(* The divider, the multiplier and the decoder of the RTL from reset; each *)
(* behaviour uses one of them, the others stay idle.                       *)
EXTENDS Units

VARIABLE unit

unitVars == <<unit, vars, mulVars, word>>

DivIdle ==
  /\ Reset /\ in = Idle
  /\ dividend = 0 /\ divisor = 0 /\ quotient_negate = FALSE /\ remainder_negate = FALSE /\ is_rem = FALSE
MulIdle == Mul!Reset /\ mul_in = Idle

UnitsInit ==
  /\ WordInit
  /\ \/ unit = "divider" /\ Init /\ MulIdle
     \/ unit = "multiplier" /\ Mul!Init /\ DivIdle
     \/ unit = "decoder" /\ DivIdle /\ MulIdle

UnitsNext ==
  \/ unit = "divider" /\ Clock /\ UNCHANGED <<unit, mulVars, word>>
  \/ unit = "multiplier" /\ Mul!Clock /\ UNCHANGED <<unit, vars, word>>
  \/ unit = "decoder" /\ DecoderNext /\ UNCHANGED <<unit, vars, mulVars>>

UnitsSpec == UnitsInit /\ [][UnitsNext]_unitVars /\ WF_unitVars(UnitsNext)

(* The ends of the signed and unsigned ranges of both widths; 4 is also    *)
(* the address of an upper half.                                           *)
MCInputs == {0, 1, 2^HALF - 1, 4, 2^(XLEN - 1) - 1, 2^(XLEN - 1), 2^XLEN - 1}
MCImms == {0, 2, 4, 2^XLEN - 1}

(* Every opcode and one that is none, every func3, func7 with every func5  *)
(* an AMO has and some it has not, and the register fields the patterns    *)
(* fix.                                                                    *)
Func7s == {4 * f + l : f \in {a[2] : a \in AmoOps} \cup {6, 31}, l \in 0 .. 1} \cup {2, 9, 34}

MCInstWords ==
  {w \in [opcode : Opcodes \cup {7}, func3 : 0 .. 7, func7 : Func7s, rs2 : {0, 1, 2, 5}, rs1 : {0, 1}, rd : {0, 1}] :
     w.opcode = OPCODE_SYSTEM \/ (w.rs2 < 2 /\ w.rs1 = 1 /\ w.rd = 1)}
=============================================================================
