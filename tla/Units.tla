-------------------------------- MODULE Units --------------------------------
(***************************************************************************)
(* Decoder, ALU, divider and multiplier of the RTL core side by side.      *)
(***************************************************************************)
EXTENDS Divider, RtlInst

VARIABLES mul_in, mul_running, stage_valid, a_s0, b_s0, o_s1

mulVars == <<mul_in, mul_running, stage_valid, a_s0, b_s0, o_s1>>

Mul == INSTANCE Multiplier WITH in <- mul_in, running <- mul_running

-----------------------------------------------------------------------------
(* The product EX hands on is the emulator's for the request it holds: see *)
(* Multiplier (multiplier.sv 11-12).                                       *)
MulResult == Mul!MulResult

(* Every division and every multiplication ends, whatever the unit held    *)
(* when it started: see Divider and Multiplier (divider.sv 118-128, 187,   *)
(* multiplier.sv 81-93).                                                   *)
UnitsEnd == DivisionEnds /\ Mul!MultiplicationEnds
=============================================================================
