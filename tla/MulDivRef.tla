------------------------------ MODULE MulDivRef ------------------------------
(***************************************************************************)
(* The multiplications and divisions of RV64M as the emulator computes     *)
(* them (emulator/src/cpu/cpu.c 94-208), on words of XLEN bits and their   *)
(* low HALF bits (64 and 32 in the code).                                  *)
(***************************************************************************)
EXTENDS Integers

CONSTANTS
  XLEN, HALF,
  Inputs          \* the values operands may have

Words == 0 .. 2^XLEN - 1

ASSUME MulDivAssumption ==
  /\ XLEN \in Nat /\ HALF \in 1 .. XLEN - 1
  /\ Inputs \subseteq Words

(* The value of the low w bits of x as a two's complement number.          *)
SignedVal(x, w) ==
  LET u == x % 2^w IN IF u >= 2^(w - 1) THEN u - 2^w ELSE u

sext(x, w) == SignedVal(x, w) % 2^XLEN

(* C's division truncates, its remainder has the dividend's sign.          *)
CQuot(a, b) ==
  LET q == (IF a < 0 THEN -a ELSE a) \div (IF b < 0 THEN -b ELSE b)
  IN  IF (a < 0) # (b < 0) THEN -q ELSE q

CRem(a, b) == a - b * CQuot(a, b)

(* div, rem and divw, remw: INT_MIN / -1 is INT_MIN, remainder 0.          *)
SignedDiv(a, b, w) ==
  LET sa == SignedVal(a, w)
      sb == SignedVal(b, w)
  IN  IF sb = 0 THEN 2^XLEN - 1
      ELSE IF sa = -(2^(w - 1)) /\ sb = -1 THEN sa % 2^XLEN
      ELSE sext(CQuot(sa, sb), w)

SignedRem(a, b, w) ==
  LET sa == SignedVal(a, w)
      sb == SignedVal(b, w)
  IN  IF sb = 0 THEN sext(a, w)
      ELSE IF sa = -(2^(w - 1)) /\ sb = -1 THEN 0
      ELSE sext(CRem(sa, sb), w)

UnsignedDiv(a, b, w) ==
  IF b % 2^w = 0 THEN 2^XLEN - 1 ELSE sext((a % 2^w) \div (b % 2^w), w)

UnsignedRem(a, b, w) ==
  IF b % 2^w = 0 THEN sext(a, w) ELSE sext((a % 2^w) % (b % 2^w), w)

MulHigh(a, b) == ((a * b) \div 2^XLEN) % 2^XLEN

(* The register value of op on a and b; is_32bit selects the W form.       *)
MulDiv(op, is_32bit, a, b) ==
  LET w == IF is_32bit THEN HALF ELSE XLEN
  IN  CASE op = "DIV" -> SignedDiv(a, b, w)
        [] op = "DIVU" -> UnsignedDiv(a, b, w)
        [] op = "REM" -> SignedRem(a, b, w)
        [] op = "REMU" -> UnsignedRem(a, b, w)
        [] op = "MUL" -> sext(a * b, w)
        [] op = "MULH" -> MulHigh(SignedVal(a, XLEN), SignedVal(b, XLEN))
        [] op = "MULHSU" -> MulHigh(SignedVal(a, XLEN), b)
        [] op = "MULHU" -> MulHigh(a, b)
=============================================================================
