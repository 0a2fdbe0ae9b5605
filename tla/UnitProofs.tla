----------------------------- MODULE UnitProofs -----------------------------
(* Proofs about the units of the RTL core: for every width, the divider    *)
(* and the multiplier hand on what the emulator computes, and the decoder, *)
(* the ALU, the branch unit and the memory stage do what its INSTPATs do.  *)
EXTENDS Units, FiniteSetTheorems, FunctionTheorems, SequenceTheorems, WellFoundedInduction, TLAPS

-----------------------------------------------------------------------------
(* Powers of two.  The provers do not know what 2^n is; the library counts *)
(* the subsets of a set with it, and a set with one more element has twice *)
(* as many.                                                                *)
LEMMA Doubling ==
  ASSUME NEW n \in Nat
  PROVE  2^(n + 1) = 2 * 2^n
<1> DEFINE x == n + 1
           Old == SUBSET (1 .. n)
           New == {B \cup {x} : B \in Old}
           f == [B \in Old |-> B \cup {x}]
<1>1. x \notin 1 .. n /\ 1 .. x = (1 .. n) \cup {x}
  OBVIOUS
<1>2. /\ IsFiniteSet(1 .. n) /\ Cardinality(1 .. n) = n
      /\ IsFiniteSet(1 .. x) /\ Cardinality(1 .. x) = n + 1
  BY FS_Interval
<1>3. /\ IsFiniteSet(Old) /\ Cardinality(Old) = 2^n
      /\ IsFiniteSet(SUBSET (1 .. x)) /\ Cardinality(SUBSET (1 .. x)) = 2^(n + 1)
  BY <1>2, FS_SUBSET, Zenon
<1> HIDE DEF x
<1>4. f \in Bijection(Old, New)
  <2>1. f \in [Old -> New]
    OBVIOUS
  <2>2. ASSUME NEW B \in Old, NEW C \in Old, f[B] = f[C] PROVE B = C
    <3>1. B \cup {x} = C \cup {x} /\ x \notin B /\ x \notin C
      BY <1>1, <2>2
    <3>2. B = (B \cup {x}) \ {x} /\ C = (C \cup {x}) \ {x}
      BY <3>1
    <3> QED
      BY <3>1, <3>2
  <2>3. ASSUME NEW t \in New PROVE \E B \in Old : f[B] = t
    OBVIOUS
  <2> QED
    BY <2>1, <2>2, <2>3, Fun_IsBij, Zenon
<1>5. IsFiniteSet(New) /\ Cardinality(New) = Cardinality(Old)
  BY <1>3, <1>4, FS_Bijection, Zenon DEF ExistsBijection
<1>6. SUBSET (1 .. x) = Old \cup New
  <2>1. ASSUME NEW B \in SUBSET (1 .. x) PROVE B \in Old \cup New
    <3>1. CASE x \in B
      <4>1. B \ {x} \in Old /\ B = (B \ {x}) \cup {x}
        BY <1>1, <3>1
      <4> QED
        BY <4>1
    <3>2. CASE x \notin B
      BY <1>1, <3>2
    <3> QED
      BY <3>1, <3>2
  <2>2. ASSUME NEW B \in Old \cup New PROVE B \in SUBSET (1 .. x)
    BY <1>1
  <2> QED
    BY <2>1, <2>2
<1>7. Old \cap New = {}
  BY <1>1
<1>8. Cardinality(Old \cap New) = 0
  BY <1>7, FS_EmptySet, Zenon
<1>9. Cardinality(Old \cup New) = Cardinality(Old) + Cardinality(New) - Cardinality(Old \cap New)
  BY <1>3, <1>5, FS_Union, Zenon
<1>10. Cardinality(Old) \in Nat
  BY <1>3, FS_CardinalityType, Zenon
<1>11. PICK c \in Nat : c = Cardinality(Old) /\ c = Cardinality(New) /\ c = 2^n
  BY <1>3, <1>5, <1>10, Zenon
<1>12. 2^(n + 1) = Cardinality(Old) + Cardinality(New) - Cardinality(Old \cap New)
  BY <1>3, <1>6, <1>9, Zenon
<1> HIDE DEF Old, New
<1> QED
  BY <1>8, <1>11, <1>12

(* A set of numbers that holds 0 and the successor of each of its members  *)
(* holds all of them: it has no least exception.                           *)
LEMMA AllNat ==
  ASSUME NEW G, 0 \in G, \A n \in Nat : n \in G => n + 1 \in G
  PROVE  \A n \in Nat : n \in G
<1> DEFINE T == Nat \ G
<1> SUFFICES ASSUME T # {} PROVE FALSE
  OBVIOUS
<1>1. PICK n \in T : \A m \in T : ~(m < n)
  <2>1. \E n \in T : \A m \in T : ~(<<m, n>> \in OpToRel(<, Nat))
    BY WFMin, NatLessThanWellFounded
  <2> QED
    BY <2>1 DEF OpToRel
<1>2. n \in Nat /\ n \notin G /\ n # 0
  OBVIOUS
<1>3. n - 1 \in Nat /\ n - 1 < n /\ (n - 1) + 1 = n
  BY <1>2
<1>4. n - 1 \in G
  BY <1>1, <1>3
<1> QED
  BY <1>2, <1>3, <1>4

LEMMA PowerIsLarge == \A n \in Nat : 2^n \in Nat /\ n + 1 <= 2^n
<1> DEFINE G == {n \in Nat : 2^n \in Nat /\ n + 1 <= 2^n}
<1>1. 0 \in G
  BY 2^0 = 1
<1>2. ASSUME NEW n \in Nat, n \in G PROVE n + 1 \in G
  <2>1. 2^(n + 1) = 2 * 2^n
    BY Doubling
  <2> QED
    BY <1>2, <2>1
<1> HIDE DEF G
<1>3. \A n \in Nat : n \in G
  BY <1>1, <1>2, AllNat
<1> QED
  BY <1>3 DEF G

LEMMA PowerType == ASSUME NEW n \in Nat PROVE 2^n \in Nat \ {0}
  BY PowerIsLarge

LEMMA PowerOfSum ==
  ASSUME NEW m \in Nat
  PROVE  \A n \in Nat : 2^(m + n) = 2^m * 2^n
<1> DEFINE G == {n \in Nat : 2^(m + n) = 2^m * 2^n}
<1>1. 0 \in G
  <2>1. m + 0 = m /\ 2^0 = 1 /\ 2^m \in Nat
    BY PowerType
  <2> QED
    BY <2>1
<1>2. ASSUME NEW n \in Nat, n \in G PROVE n + 1 \in G
  <2>1. 2^(m + n) = 2^m * 2^n
    BY <1>2
  <2>2. 2^(n + 1) = 2 * 2^n /\ 2^((m + n) + 1) = 2 * 2^(m + n) /\ m + (n + 1) = (m + n) + 1
    BY Doubling
  <2>3. PICK a \in Nat, b \in Nat, c \in Nat : a = 2^m /\ b = 2^n /\ c = 2^(m + n)
    BY PowerType
  <2>4. 2 * (a * b) = a * (2 * b)
    OBVIOUS
  <2> QED
    BY <2>1, <2>2, <2>3, <2>4
<1> HIDE DEF G
<1>3. \A n \in Nat : n \in G
  BY <1>1, <1>2, AllNat
<1> QED
  BY <1>3 DEF G

-----------------------------------------------------------------------------
(* Division with remainder, residues, and residues of a divisor.           *)
LEMMA DivMod ==
  ASSUME NEW x \in Int, NEW d \in Nat \ {0}
  PROVE  x \div d \in Int /\ x % d \in 0 .. d - 1 /\ x = d * (x \div d) + (x % d)
  OBVIOUS

LEMMA DivModIs ==
  ASSUME NEW q \in Int, NEW d \in Nat \ {0}, NEW r \in 0 .. d - 1
  PROVE  (q * d + r) \div d = q /\ (q * d + r) % d = r
  OBVIOUS

(* Numbers that differ by a multiple of d have the same residue.           *)
LEMMA SameResidue ==
  ASSUME NEW x \in Int, NEW k \in Int, NEW d \in Nat \ {0}
  PROVE  (x + k * d) % d = x % d
<1>1. PICK q \in Int, r \in 0 .. d - 1 : x = d * q + r /\ r = x % d
  BY DivMod
<1>2. x + k * d = (q + k) * d + r
  BY <1>1
<1>3. ((q + k) * d + r) % d = r
  BY DivModIs
<1> QED
  BY <1>1, <1>2, <1>3

LEMMA NextResidue == ASSUME NEW x \in Int, NEW d \in Nat \ {0} PROVE (x + d) % d = x % d
<1>1. PICK k \in Int : k = 1
  OBVIOUS
<1>2. (x + k * d) % d = x % d
  BY SameResidue
<1>3. x + k * d = x + d
  BY <1>1
<1> QED
  BY <1>2, <1>3, Zenon

LEMMA SmallResidue == ASSUME NEW d \in Nat \ {0}, NEW r \in 0 .. d - 1 PROVE r % d = r
<1>1. (0 * d + r) % d = r
  BY DivModIs
<1> QED
  BY <1>1

LEMMA ResidueOfResidue ==
  ASSUME NEW x \in Int, NEW d \in Nat \ {0}, NEW e \in Nat \ {0}, NEW f \in Nat, d = e * f
  PROVE  (x % d) % e = x % e
<1>1. PICK q \in Int, r \in 0 .. d - 1 : x = d * q + r /\ r = x % d
  BY DivMod
<1>2. PICK j \in Int : j = f * q
  OBVIOUS
<1>3. PICK m \in Int : m = j * e
  OBVIOUS
<1>4. d * q = m
  BY <1>2, <1>3
<1>5. r \in Int /\ x = r + m
  BY <1>1, <1>4
<1>6. (r + j * e) % e = r % e
  BY <1>5, SameResidue, Zenon
<1> QED
  BY <1>1, <1>3, <1>5, <1>6, Zenon

-----------------------------------------------------------------------------
(* Two's complement.                                                       *)
Widths == {HALF, XLEN}

LEMMA WidthType ==
  /\ XLEN \in Nat /\ HALF \in Nat
  /\ \A w \in Widths : w \in 1 .. XLEN /\ w \in Nat /\ w - 1 \in Nat
  BY MulDivAssumption DEF Widths

LEMMA WidthPowers ==
  ASSUME NEW w \in Widths
  PROVE  /\ 2^w \in Nat \ {0} /\ 2^(w - 1) \in Nat \ {0} /\ 2^w = 2 * 2^(w - 1)
         /\ 2^XLEN \in Nat \ {0} /\ \E f \in Nat \ {0} : 2^XLEN = 2^w * f
<1>1. /\ w \in Nat /\ w - 1 \in Nat /\ (w - 1) + 1 = w
      /\ XLEN \in Nat /\ XLEN - w \in Nat /\ w + (XLEN - w) = XLEN
  BY WidthType
<1>2. 2^((w - 1) + 1) = 2 * 2^(w - 1)
  BY <1>1, Doubling
<1>3. 2^(w + (XLEN - w)) = 2^w * 2^(XLEN - w)
  BY <1>1, PowerOfSum
<1>4. 2^w \in Nat \ {0} /\ 2^(w - 1) \in Nat \ {0} /\ 2^XLEN \in Nat \ {0} /\ 2^(XLEN - w) \in Nat \ {0}
  BY <1>1, PowerType
<1> QED
  BY <1>1, <1>2, <1>3, <1>4

(* The signed value of x differs from x by a multiple of 2^w.              *)
LEMMA SignedForm ==
  ASSUME NEW x \in Int, NEW w \in Widths
  PROVE  /\ SignedVal(x, w) \in -(2^(w - 1)) .. 2^(w - 1) - 1
         /\ \E k \in Int : SignedVal(x, w) = x + k * 2^w
<1>1. PICK p \in Nat \ {0}, h \in Nat \ {0} : p = 2^w /\ h = 2^(w - 1) /\ p = 2 * h
  BY WidthPowers
<1>2. PICK q \in Int, u \in 0 .. p - 1 : x = p * q + u /\ u = x % p
  BY DivMod
<1>3. SignedVal(x, w) = IF u >= h THEN u - p ELSE u
  BY <1>1, <1>2 DEF SignedVal
<1>4. u = x + (-q) * p /\ u - p = x + (-q - 1) * p /\ -q \in Int /\ -q - 1 \in Int
  BY <1>2
<1>5. \E k \in Int : SignedVal(x, w) = x + k * p
  BY <1>3, <1>4
<1>6. SignedVal(x, w) \in -h .. h - 1
  BY <1>1, <1>3
<1> QED
  BY <1>1, <1>5, <1>6

LEMMA SignedResidue ==
  ASSUME NEW x \in Int, NEW w \in Widths
  PROVE  SignedVal(x, w) \in Int /\ SignedVal(x, w) % 2^w = x % 2^w
<1>1. PICK k \in Int : SignedVal(x, w) = x + k * 2^w
  BY SignedForm
<1>2. PICK p \in Nat \ {0} : p = 2^w
  BY WidthPowers
<1>3. (x + k * p) % p = x % p
  BY SameResidue
<1>4. x + k * p \in Int
  OBVIOUS
<1> QED
  BY <1>1, <1>2, <1>3, <1>4

(* Only the low w bits of a word have a part in its signed value.          *)
LEMMA SameSext ==
  ASSUME NEW x \in Int, NEW y \in Int, NEW w \in Widths, x % 2^w = y % 2^w
  PROVE  SignedVal(x, w) = SignedVal(y, w) /\ sext(x, w) = sext(y, w)
  BY DEF SignedVal, sext

LEMMA SextFull == ASSUME NEW x \in Int PROVE sext(x, XLEN) = x % 2^XLEN
  BY SignedResidue DEF sext, Widths

(* Both units end like this: if raw has the low XLEN bits of the value v,  *)
(* the output is v in the width of the operation.                          *)
Width(is_32bit) == IF is_32bit THEN HALF ELSE XLEN

LEMMA Output ==
  ASSUME NEW v \in Int, NEW raw, raw = v % 2^XLEN, NEW is_32bit \in BOOLEAN
  PROVE  (IF is_32bit THEN sext(raw, HALF) ELSE raw) = sext(v, Width(is_32bit))
<1>1. CASE is_32bit
  <2>1. HALF \in Widths
    BY DEF Widths
  <2>2. PICK e \in Nat \ {0}, d \in Nat \ {0}, f \in Nat \ {0} : e = 2^HALF /\ d = 2^XLEN /\ d = e * f
    BY <2>1, WidthPowers
  <2>3. (v % d) % e = v % e
    BY <2>2, ResidueOfResidue
  <2>4. v % d \in 0 .. d - 1
    BY DivMod
  <2>5. raw % 2^HALF = v % 2^HALF /\ raw \in Int
    BY <2>2, <2>3, <2>4
  <2> QED
    BY <1>1, <2>1, <2>5, SameSext DEF Width
<1>2. CASE ~is_32bit
  BY <1>2, SextFull DEF Width
<1> QED
  BY <1>1, <1>2

-----------------------------------------------------------------------------
(* The multiplier.  The low half of a product does not depend on whether   *)
(* its factors are taken as signed.                                        *)
LEMMA ProductResidue ==
  ASSUME NEW a \in Int, NEW b \in Int
  PROVE  (SignedVal(a, XLEN) * SignedVal(b, XLEN)) % 2^XLEN = (a * b) % 2^XLEN
<1>1. XLEN \in Widths
  BY DEF Widths
<1>2. PICK p \in Nat \ {0} : p = 2^XLEN
  BY <1>1, WidthPowers
<1>3. PICK k \in Int : SignedVal(a, XLEN) = a + k * p
  BY <1>1, <1>2, SignedForm
<1>4. PICK l \in Int : SignedVal(b, XLEN) = b + l * p
  BY <1>1, <1>2, SignedForm
<1>5. PICK x \in Int, m \in Int : x = a * b /\ m = a * l + k * b + (k * l) * p
  OBVIOUS
<1>6. (a + k * p) * (b + l * p) = x + m * p
  BY <1>5
<1>7. (x + m * p) % p = x % p
  BY SameResidue
<1> QED
  BY <1>2, <1>3, <1>4, <1>5, <1>6, <1>7, Zenon

LEMMA SameReference ==
  /\ \A x, w : Mul!sext(x, w) = sext(x, w) /\ Mul!SignedVal(x, w) = SignedVal(x, w)
  /\ \A is_32bit, a, b :
       /\ Mul!MulDiv("MUL", is_32bit, a, b) = sext(a * b, Width(is_32bit))
       /\ Mul!MulDiv("MULH", is_32bit, a, b) = MulHigh(SignedVal(a, XLEN), SignedVal(b, XLEN))
       /\ Mul!MulDiv("MULHSU", is_32bit, a, b) = MulHigh(SignedVal(a, XLEN), b)
       /\ Mul!MulDiv("MULHU", is_32bit, a, b) = MulHigh(a, b)
<1>1. \A x, w : Mul!SignedVal(x, w) = SignedVal(x, w)
  BY DEF Mul!SignedVal, SignedVal
<1>2. \A x, w : Mul!sext(x, w) = sext(x, w)
  BY <1>1 DEF Mul!sext, sext
<1>3. \A a, b : Mul!MulHigh(a, b) = MulHigh(a, b)
  BY DEF Mul!MulHigh, MulHigh
<1> QED
  BY <1>1, <1>2, <1>3 DEF Mul!MulDiv, Width

(* A request takes three cycles: it is new, its operands are in the first  *)
(* stage, its product is in the second.  Nothing else is in the stages.    *)
MulInv ==
  /\ mul_in \in Mul!Requests \cup Mul!Idles
  /\ mul_running \in BOOLEAN
  /\ stage_valid \in {<<FALSE, FALSE>>, <<TRUE, FALSE>>, <<FALSE, TRUE>>}
  /\ mul_running <=> stage_valid # <<FALSE, FALSE>>
  /\ mul_running => mul_in.req
  /\ stage_valid[1] => a_s0 = Mul!ExtendA /\ b_s0 = Mul!ExtendB
  /\ stage_valid[2] => o_s1 = Mul!ExtendA * Mul!ExtendB

LEMMA MulStart == Mul!Init => MulInv
<1> SUFFICES ASSUME Mul!Init PROVE MulInv
  OBVIOUS
<1>1. mul_in \in Mul!Idles /\ mul_running = FALSE /\ stage_valid = <<FALSE, FALSE>>
  BY DEF Mul!Init, Mul!Reset
<1>2. stage_valid[1] = FALSE /\ stage_valid[2] = FALSE
  BY <1>1
<1> QED
  BY <1>1, <1>2 DEF MulInv

LEMMA MulStep == MulInv /\ [Mul!Clock]_(Mul!vars) => MulInv'
<1> SUFFICES ASSUME MulInv, [Mul!Clock]_(Mul!vars) PROVE MulInv'
  OBVIOUS
<1>1. CASE UNCHANGED Mul!vars
  BY <1>1 DEF Mul!vars, MulInv, Mul!ExtendA, Mul!ExtendB
<1>2. CASE Mul!Clock
  <2>1. mul_in' \in Mul!Requests \cup Mul!Idles /\ (mul_in.req /\ Mul!stall => mul_in' = mul_in)
    BY <1>2 DEF Mul!Clock, MulInv
  <2>2. mul_in.req \in BOOLEAN
    BY DEF MulInv, Mul!Requests, Mul!Idles
  <2>3. CASE stage_valid = <<FALSE, FALSE>>
    <3>1. stage_valid' = <<mul_in.req, FALSE>> /\ mul_running' = mul_in.req
          /\ a_s0' = Mul!ExtendA /\ b_s0' = Mul!ExtendB
      BY <1>2, <2>2, <2>3 DEF Mul!Clock, Mul!new_req, MulInv
    <3>2. mul_in.req => mul_in' = mul_in
      BY <2>1, <2>3 DEF Mul!stall, Mul!new_req, MulInv
    <3> QED
      BY <2>1, <2>2, <3>1, <3>2 DEF MulInv, Mul!ExtendA, Mul!ExtendB
  <2>4. CASE stage_valid = <<TRUE, FALSE>>
    <3>1. stage_valid' = <<FALSE, TRUE>> /\ mul_running' = TRUE
          /\ o_s1' = Mul!ExtendA * Mul!ExtendB /\ mul_in' = mul_in
      BY <1>2, <2>1, <2>4 DEF Mul!Clock, Mul!stall, Mul!new_req, MulInv
    <3> QED
      BY <2>1, <2>4, <3>1 DEF MulInv, Mul!ExtendA, Mul!ExtendB
  <2>5. CASE stage_valid = <<FALSE, TRUE>>
    <3>1. stage_valid' = <<FALSE, FALSE>> /\ mul_running' = FALSE
      BY <1>2, <2>5 DEF Mul!Clock, Mul!new_req, MulInv
    <3> QED
      BY <2>1, <3>1 DEF MulInv
  <2> QED
    BY <2>3, <2>4, <2>5 DEF MulInv
<1> QED
  BY <1>1, <1>2

LEMMA MulInvResult == MulInv => MulResult
<1> SUFFICES ASSUME MulInv, mul_in.req, ~Mul!stall
             PROVE  Mul!o = Mul!MulDiv(mul_in.op, mul_in.is_32bit, mul_in.a, mul_in.b)
  BY DEF MulResult, Mul!MulResult
<1>1. o_s1 = Mul!ExtendA * Mul!ExtendB
  BY DEF MulInv, Mul!stall, Mul!new_req
<1>2. /\ mul_in.op \in {"MUL", "MULH", "MULHSU", "MULHU"} /\ mul_in.is_32bit \in BOOLEAN
      /\ mul_in.is_32bit => mul_in.op = "MUL"
      /\ mul_in.a \in Int /\ mul_in.b \in Int
  <2>1. mul_in \in Mul!Requests
    BY DEF MulInv, Mul!Idles
  <2>2. mul_in.op \in Mul!MulOps /\ mul_in.a \in Inputs /\ mul_in.b \in Inputs
        /\ mul_in.is_32bit \in BOOLEAN /\ (mul_in.is_32bit => mul_in.op = "MUL")
    BY <2>1 DEF Mul!Requests
  <2>3. 2^XLEN \in Int
    BY WidthType, PowerType
  <2>4. \A x \in Inputs : x \in Int
    BY <2>3, MulDivAssumption DEF Words
  <2> QED
    BY <2>2, <2>4 DEF Mul!MulOps
<1>3. CASE mul_in.op = "MUL"
  <2>1. PICK v \in Int : v = mul_in.a * mul_in.b
    BY <1>2
  <2>2. Mul!output_raw = v % 2^XLEN
    BY <1>1, <1>2, <1>3, <2>1, ProductResidue, SameReference DEF Mul!output_raw, Mul!ExtendA, Mul!ExtendB
  <2>3. Mul!o = sext(v, Width(mul_in.is_32bit))
    BY <1>2, <2>2, Output, SameReference DEF Mul!o
  <2> QED
    BY <1>3, <2>1, <2>3, SameReference
<1>4. CASE mul_in.op # "MUL"
  <2>1. Mul!o = MulHigh(Mul!ExtendA, Mul!ExtendB)
    BY <1>1, <1>2, <1>4 DEF Mul!o, Mul!output_raw, MulHigh
  <2> QED
    BY <1>2, <1>4, <2>1, SameReference DEF Mul!ExtendA, Mul!ExtendB
<1> QED
  BY <1>3, <1>4

(* For every width and every sequence of requests, with MEM ready or not:  *)
(* in a cycle without stall the multiplier's output is the emulator's      *)
(* result for the request in ID/EX (multiplier.sv 11-12).                  *)
THEOREM MultiplierResult == Mul!Spec => []MulResult
  BY MulStart, MulStep, MulInvResult, PTL DEF Mul!Spec

-----------------------------------------------------------------------------
(* The divider.  What it works on are the magnitudes of the operands.      *)
dividend_in == IF signed_div /\ dividend_sign_bit THEN Neg(a_post) ELSE a_post
divisor_in == IF signed_div /\ divisor_sign_bit THEN Neg(b_post) ELSE b_post

Abs(x) == IF x < 0 THEN -x ELSE x

LEMMA XlenPowers ==
  /\ XLEN \in Widths /\ XLEN \in Nat /\ XLEN - 1 \in Nat
  /\ 2^XLEN \in Nat \ {0} /\ 2^(XLEN - 1) \in Nat \ {0} /\ 2^XLEN = 2 * 2^(XLEN - 1)
<1>1. XLEN \in Widths
  BY DEF Widths
<1> QED
  BY <1>1, WidthType, WidthPowers

LEMMA NegIs ==
  ASSUME NEW x \in 0 .. 2^XLEN
  PROVE  Neg(x) = (-x) % 2^XLEN
<1>1. PICK p \in Nat \ {0} : p = 2^XLEN
  BY XlenPowers
<1>2. PICK y \in Int : y = -x /\ p - x = y + p
  BY <1>1
<1>3. (y + p) % p = y % p
  BY NextResidue
<1> QED
  BY <1>1, <1>2, <1>3, Zenon DEF Neg

(* The sign bit of a sign-extended operand is the sign, and the negation   *)
(* gives the magnitude, also that of the smallest number.                  *)
SignAndMagnitude(s, p) ==
  /\ Bit(p, XLEN - 1) <=> s < 0
  /\ Abs(s) = IF s < 0 THEN Neg(p) ELSE p
  /\ p = 0 <=> s = 0
  /\ Abs(s) \in 0 .. 2^XLEN - 1

LEMMA ExtendedSign ==
  ASSUME NEW s \in Int, -(2^(XLEN - 1)) <= s, s < 2^(XLEN - 1)
  PROVE  SignAndMagnitude(s, s % 2^XLEN)
<1>1. PICK p \in Nat \ {0}, h \in Nat \ {0} : p = 2^XLEN /\ h = 2^(XLEN - 1) /\ p = 2 * h
  BY XlenPowers
<1>5. -h <= s /\ s < h
  BY <1>1
<1>2. CASE s >= 0
  <2>1. s \in 0 .. p - 1 /\ s \in 0 .. h - 1
    BY <1>5, <1>1, <1>2
  <2>2. s % p = s
    BY <2>1, SmallResidue
  <2>3. (0 * h + s) \div h = 0
    BY <2>1, DivModIs
  <2>4. (s \div h) % 2 = 0
    BY <2>3
  <2>5. ~Bit(s, XLEN - 1)
    BY <1>1, <2>4 DEF Bit
  <2> QED
    BY <1>1, <1>2, <2>1, <2>2, <2>5 DEF SignAndMagnitude, Abs
<1>3. CASE s < 0
  <2>1. s + p \in 0 .. p - 1 /\ s + p - h \in 0 .. h - 1 /\ s + p # 0 /\ -s \in 0 .. p - 1
    <3>1. p = 2 * h
      BY <1>1
    <3> QED
      BY <1>3, <1>5, <3>1
  <2>2. s % p = s + p
    <3>1. (s + p) % p = s % p
      BY NextResidue
    <3>2. (s + p) % p = s + p
      BY <2>1, SmallResidue
    <3> QED
      BY <3>1, <3>2
  <2>3. ((s + p) \div h) % 2 = 1
    <3>1. PICK r \in 0 .. h - 1 : r = s + p - h
      BY <2>1
    <3>2. (1 * h + r) \div h = 1
      BY DivModIs
    <3>3. s + p = 1 * h + r
      BY <3>1
    <3> QED
      BY <3>2, <3>3
  <2>4. Bit(s + p, XLEN - 1)
    BY <1>1, <2>3 DEF Bit
  <2>5. Neg(s + p) = -s
    <3>1. p - (s + p) = -s
      OBVIOUS
    <3>2. (-s) % p = -s
      BY <2>1, SmallResidue
    <3> QED
      BY <1>1, <3>1, <3>2 DEF Neg
  <2> QED
    BY <1>1, <1>3, <2>1, <2>2, <2>4, <2>5 DEF SignAndMagnitude, Abs
<1> QED
  BY <1>2, <1>3

(* The operand as the divider takes it: its signed value extended, or its  *)
(* low bits.                                                               *)
LEMMA SignedOperand ==
  ASSUME NEW x \in Words, NEW w \in Widths
  PROVE  SignAndMagnitude(SignedVal(x, w), sext(x, w)) /\ SignedVal(x, w) \in Int
<1>1. x \in Int
  BY XlenPowers DEF Words
<1>2. PICK s \in Int : s = SignedVal(x, w) /\ -(2^(w - 1)) <= s /\ s < 2^(w - 1)
  <2>1. 2^(w - 1) \in Nat
    BY WidthPowers
  <2> QED
    BY <1>1, <2>1, SignedForm
<1>3. 2^(w - 1) <= 2^(XLEN - 1) /\ 2^(w - 1) \in Nat /\ 2^(XLEN - 1) \in Nat
  <2>0. w \in 1 .. XLEN /\ XLEN \in Nat
    BY WidthType
  <2>5. w - 1 \in Nat /\ XLEN - w \in Nat /\ XLEN - 1 = (w - 1) + (XLEN - w)
    BY <2>0
  <2>1. PICK m \in Nat, k \in Nat : m = w - 1 /\ k = XLEN - w /\ XLEN - 1 = m + k
    BY <2>5, Zenon
  <2>2. 2^(m + k) = 2^m * 2^k
    BY PowerOfSum
  <2>3. PICK a \in Nat \ {0}, b \in Nat \ {0} : a = 2^m /\ b = 2^k
    BY PowerType
  <2>4. a <= a * b /\ a * b \in Nat
    OBVIOUS
  <2> QED
    BY <2>1, <2>2, <2>3, <2>4
<1>4. -(2^(XLEN - 1)) <= s /\ s < 2^(XLEN - 1)
  BY <1>2, <1>3
<1> QED
  BY <1>2, <1>4, ExtendedSign DEF sext

(* Long division of A by B, k of the XLEN steps done: q is what the high   *)
(* bits of A give, r what is left.  A zero divisor always fits.            *)
Progress(A, B, k, q, r) ==
  /\ r \in Nat /\ q \in 0 .. 2^k - 1
  /\ B = 0 => r = A /\ q = 2^k - 1
  /\ B # 0 => A = q * (B * 2^(XLEN - k)) + r /\ r < B * 2^(XLEN - k)

LEMMA ProgressStart ==
  ASSUME NEW A \in Words, NEW B \in Words
  PROVE  Progress(A, B, 0, 0, A)
<1>1. PICK p \in Nat \ {0} : p = 2^XLEN
  BY XlenPowers
<1>2. XLEN - 0 = XLEN /\ 2^0 = 1
  BY XlenPowers
<1>3. A \in 0 .. p - 1 /\ B \in 0 .. p - 1
  BY <1>1 DEF Words
<1>4. PICK e \in Nat : e = B * p
  BY <1>3
<1>5. B # 0 => A < e
  BY <1>3, <1>4
<1>6. A = 0 * e + A
  BY <1>3
<1> QED
  BY <1>1, <1>2, <1>3, <1>4, <1>5, <1>6 DEF Progress

(* Shifting the divisor right by k takes k from the exponent.              *)
LEMMA ShiftedDivisor ==
  ASSUME NEW B \in Nat, NEW k \in 0 .. XLEN - 1
  PROVE  (B * 2^(XLEN - 1)) \div 2^k = B * 2^(XLEN - (k + 1))
<1>1. PICK j \in Nat : j = XLEN - (k + 1) /\ XLEN - 1 = j + k /\ k \in Nat
  <2>1. XLEN \in Nat
    BY XlenPowers
  <2>2. XLEN - (k + 1) \in Nat /\ XLEN - 1 = (XLEN - (k + 1)) + k /\ k \in Nat
    BY <2>1
  <2> QED
    BY <2>2, Zenon
<1>2. 2^(j + k) = 2^j * 2^k
  BY <1>1, PowerOfSum
<1>3. PICK a \in Nat, d \in Nat \ {0} : a = 2^j /\ d = 2^k
  BY <1>1, PowerType
<1>4. PICK q \in Nat : q = B * a
  OBVIOUS
<1>5. B * (a * d) = q * d + 0
  BY <1>4
<1>6. (q * d + 0) \div d = q
  BY DivModIs
<1> QED
  BY <1>1, <1>2, <1>3, <1>4, <1>5, <1>6

LEMMA ProgressStep ==
  ASSUME NEW A \in Nat, NEW B \in Nat, NEW k \in 0 .. XLEN - 1, NEW q, NEW r, Progress(A, B, k, q, r)
  PROVE  LET s == r - B * 2^(XLEN - (k + 1))
         IN  IF s >= 0 THEN Progress(A, B, k + 1, (2 * q + 1) % 2^XLEN, s)
             ELSE Progress(A, B, k + 1, (2 * q) % 2^XLEN, r)
<1>1. PICK j \in Nat : j = XLEN - (k + 1) /\ XLEN - k = j + 1 /\ XLEN = (k + 1) + j /\ k \in Nat
  <2>1. XLEN \in Nat
    BY XlenPowers
  <2>2. XLEN - (k + 1) \in Nat /\ XLEN - k = (XLEN - (k + 1)) + 1
        /\ XLEN = (k + 1) + (XLEN - (k + 1)) /\ k \in Nat
    BY <2>1
  <2> QED
    BY <2>2, Zenon
<1>2. PICK g \in Nat \ {0}, n \in Nat \ {0}, p \in Nat \ {0} :
        g = 2^j /\ n = 2^k /\ p = 2^XLEN /\ 2 * g = 2^(XLEN - k) /\ 2 * n = 2^(k + 1) /\ 2 * n <= p
  <2>1. 2^(j + 1) = 2 * 2^j /\ 2^(k + 1) = 2 * 2^k
    BY <1>1, Doubling
  <2>2. 2^((k + 1) + j) = 2^(k + 1) * 2^j
    BY <1>1, PowerOfSum
  <2>3. PICK g \in Nat \ {0}, n \in Nat \ {0}, m \in Nat \ {0} : g = 2^j /\ n = 2^k /\ m = 2^(k + 1)
    BY <1>1, PowerType
  <2>4. m <= m * g /\ m * g \in Nat \ {0}
    OBVIOUS
  <2>5. 2^XLEN = m * g /\ 2 * g = 2^(XLEN - k) /\ 2 * n = m
    BY <1>1, <2>1, <2>2, <2>3, Zenon
  <2> QED
    BY <2>3, <2>4, <2>5
<1>3. PICK e \in Nat : e = B * g
  OBVIOUS
<1>4. B * 2^(XLEN - k) = 2 * e
  <2>1. B * (2 * g) = 2 * (B * g)
    OBVIOUS
  <2> QED
    BY <1>2, <1>3, <2>1
<1>5. /\ q \in 0 .. n - 1 /\ r \in Nat
      /\ B = 0 => r = A /\ q = n - 1
      /\ B # 0 => A = q * (2 * e) + r /\ r < 2 * e
  BY <1>2, <1>4 DEF Progress
<1>6. B = 0 => e = 0
  BY <1>3
<1>7. (2 * q + 1) % p = 2 * q + 1 /\ (2 * q) % p = 2 * q
  <2>1. 2 * q + 1 \in 0 .. p - 1 /\ 2 * q \in 0 .. p - 1
    BY <1>2, <1>5
  <2> QED
    BY <2>1, SmallResidue
<1>8. CASE r - e >= 0
  <2>1. q * (2 * e) + r = (2 * q + 1) * e + (r - e)
    BY <1>5
  <2>2. Progress(A, B, k + 1, 2 * q + 1, r - e)
    <3>1. r - e \in Nat /\ 2 * q + 1 \in 0 .. 2 * n - 1
      BY <1>5, <1>8
    <3>2. B = 0 => r - e = A /\ 2 * q + 1 = 2 * n - 1
      BY <1>5, <1>6
    <3>3. B # 0 => A = (2 * q + 1) * e + (r - e) /\ r - e < e
      BY <1>5, <2>1
    <3> QED
      BY <1>1, <1>2, <1>3, <3>1, <3>2, <3>3 DEF Progress
  <2> QED
    BY <1>1, <1>2, <1>3, <1>7, <1>8, <2>2
<1>9. CASE ~(r - e >= 0)
  <2>1. q * (2 * e) + r = (2 * q) * e + r
    BY <1>5
  <2>2. B # 0
    BY <1>5, <1>6, <1>9
  <2>3. Progress(A, B, k + 1, 2 * q, r)
    <3>1. 2 * q \in 0 .. 2 * n - 1
      BY <1>5
    <3>2. A = (2 * q) * e + r /\ r < e
      BY <1>5, <1>9, <2>1, <2>2
    <3> QED
      BY <1>1, <1>2, <1>3, <1>5, <2>2, <3>1, <3>2 DEF Progress
  <2> QED
    BY <1>1, <1>2, <1>3, <1>7, <1>9, <2>3
<1> QED
  BY <1>8, <1>9

LEMMA ProgressEnd ==
  ASSUME NEW A \in Nat, NEW B \in Nat, NEW q, NEW r, Progress(A, B, XLEN, q, r)
  PROVE  /\ q \in Words /\ r \in Nat
         /\ B = 0 => q = 2^XLEN - 1 /\ r = A
         /\ B # 0 => A = q * B + r /\ r < B /\ q = A \div B /\ r = A % B
<1>1. B * 2^(XLEN - XLEN) = B
  <2>1. XLEN - XLEN = 0 /\ 2^0 = 1 /\ B * 1 = B
    BY XlenPowers
  <2> QED
    BY <2>1
<1>2. /\ q \in Words /\ r \in Nat
      /\ B = 0 => q = 2^XLEN - 1 /\ r = A
      /\ B # 0 => A = q * B + r /\ r < B
  BY <1>1 DEF Progress, Words
<1>3. ASSUME B # 0 PROVE q = A \div B /\ r = A % B
  <2>1. q \in Int /\ B \in Nat \ {0} /\ r \in 0 .. B - 1
    BY <1>2, <1>3, XlenPowers DEF Words
  <2>2. (q * B + r) \div B = q /\ (q * B + r) % B = r
    BY <2>1, DivModIs
  <2> QED
    BY <1>2, <1>3, <2>2
<1> QED
  BY <1>2, <1>3

-----------------------------------------------------------------------------
(* A request is latched as magnitudes and signs when it is new, and stays  *)
(* in ID/EX until the last step is done.                                   *)
DivInv ==
  /\ in \in Requests \cup {Idle}
  /\ running \in BOOLEAN
  /\ running =>
       /\ in.req /\ iterations \in 0 .. XLEN
       /\ divisor = divisor_in
       /\ quotient_negate = QuotientSign
       /\ remainder_negate = (signed_div /\ dividend_sign_bit)
       /\ is_rem = (in.op \in {"REM", "REMU"})
       /\ Progress(dividend_in, divisor_in, iterations, quotient, dividend)

LEMMA DivStart == Init => DivInv
  BY DEF Init, Reset, DivInv

(* The counter has room for XLEN.                                          *)
LEMMA CounterFits == ASSUME NEW k \in 0 .. XLEN PROVE k % IterMod = k
<1> DEFINE Big(c) == 2^c >= XLEN + 1 /\ \A j \in 0 .. c - 1 : 2^j < XLEN + 1
           c0 == CHOOSE c \in 0 .. XLEN : Big(c)
<1>1. XLEN \in Nat
  BY XlenPowers
<1>2. \E c \in 0 .. XLEN : Big(c)
  <2> DEFINE T == {c \in Nat : 2^c >= XLEN + 1}
  <2>1. XLEN \in T
    BY <1>1, PowerIsLarge
  <2>2. PICK c \in T : \A m \in T : ~(m < c)
    <3>1. \E c \in T : \A m \in T : ~(<<m, c>> \in OpToRel(<, Nat))
      BY <2>1, WFMin, NatLessThanWellFounded
    <3> QED
      BY <3>1 DEF OpToRel
  <2>3. c \in 0 .. XLEN
    BY <1>1, <2>1, <2>2
  <2>4. ASSUME NEW j \in 0 .. c - 1 PROVE 2^j < XLEN + 1
    <3>1. j \in Nat /\ j < c
      BY <2>3
    <3>2. j \notin T /\ 2^j \in Nat
      BY <2>2, <3>1, PowerType
    <3> QED
      BY <1>1, <3>1, <3>2
  <2> QED
    BY <2>2, <2>3, <2>4
<1>3. c0 \in 0 .. XLEN /\ Big(c0)
  BY <1>2, Zenon
<1>4. IterMod = 2^(1 + c0)
  BY DEF IterMod
<1> HIDE DEF c0
<1>5. PICK c \in Nat : c = c0 /\ 2^c >= XLEN + 1
  BY <1>1, <1>3
<1>6. 2^(c + 1) = 2 * 2^c /\ 1 + c = c + 1 /\ 2^c \in Nat
  BY Doubling, PowerType
<1>7. IterMod \in Nat \ {0} /\ IterMod > XLEN
  BY <1>1, <1>4, <1>5, <1>6
<1>8. k \in 0 .. IterMod - 1
  BY <1>1, <1>7
<1> QED
  BY <1>7, <1>8, SmallResidue

(* What Post does to an operand, in terms of the value it stands for.      *)
LEMMA PostIs ==
  ASSUME NEW x \in Words, NEW r \in Requests, in = r
  PROVE  Post(x) = IF signed_div THEN sext(x, Width(r.is_32bit)) ELSE x % 2^Width(r.is_32bit)
<1>1. x \in Int /\ x % 2^XLEN = x
  BY XlenPowers, SmallResidue DEF Words
<1>2. sext(x, XLEN) = x
  BY <1>1, SextFull
<1>3. r.is_32bit \in BOOLEAN
  BY DEF Requests
<1> QED
  BY <1>1, <1>2, <1>3 DEF Post, Width

(* The magnitudes and signs that are latched.                              *)
Latched(r, A, B) ==
  LET w == Width(r.is_32bit)
      sa == SignedVal(r.a, w)
      sb == SignedVal(r.b, w)
  IN  /\ A \in Words /\ B \in Words
      /\ sa \in Int /\ sb \in Int
      /\ IF r.op \in {"DIV", "REM"}
         THEN /\ A = Abs(sa) /\ B = Abs(sb)
              /\ QuotientSign = ((sa < 0) # (sb < 0) /\ sb # 0)
              /\ (signed_div /\ dividend_sign_bit) = (sa < 0)
         ELSE /\ A = r.a % 2^w /\ B = r.b % 2^w
              /\ QuotientSign = FALSE /\ (signed_div /\ dividend_sign_bit) = FALSE

LEMMA LatchedIs == ASSUME NEW r \in Requests, in = r PROVE Latched(r, dividend_in, divisor_in)
<1> DEFINE w == Width(r.is_32bit)
           sa == SignedVal(r.a, w)
           sb == SignedVal(r.b, w)
<1>1. r.a \in Words /\ r.b \in Words /\ r.is_32bit \in BOOLEAN
  BY MulDivAssumption DEF Requests
<1>2. w \in Widths
  BY <1>1 DEF Width, Widths
<1>3. /\ SignAndMagnitude(sa, sext(r.a, w)) /\ sa \in Int
      /\ SignAndMagnitude(sb, sext(r.b, w)) /\ sb \in Int
  BY <1>1, <1>2, SignedOperand
<1>4. /\ a_post = IF signed_div THEN sext(r.a, w) ELSE r.a % 2^w
      /\ b_post = IF signed_div THEN sext(r.b, w) ELSE r.b % 2^w
  BY <1>1, PostIs DEF a_post, b_post
<1>5. signed_div <=> r.op \in {"DIV", "REM"}
  BY DEF signed_div
<1> HIDE DEF w
<1>6. CASE signed_div
  <2>1. a_post = sext(r.a, w) /\ b_post = sext(r.b, w)
    BY <1>4, <1>6
  <2>2. /\ dividend_sign_bit <=> sa < 0
        /\ divisor_sign_bit <=> sb < 0
        /\ b_post = 0 <=> sb = 0
    BY <1>3, <2>1 DEF SignAndMagnitude, dividend_sign_bit, divisor_sign_bit
  <2>3. /\ dividend_in = Abs(sa) /\ divisor_in = Abs(sb)
        /\ Abs(sa) \in Words /\ Abs(sb) \in Words
    BY <1>3, <1>6, <2>1, <2>2 DEF SignAndMagnitude, dividend_in, divisor_in, Words
  <2>4. QuotientSign = ((sa < 0) # (sb < 0) /\ sb # 0) /\ (signed_div /\ dividend_sign_bit) = (sa < 0)
    BY <1>6, <2>2 DEF QuotientSign, Bit, dividend_sign_bit, divisor_sign_bit
  <2> QED
    BY <1>3, <1>5, <1>6, <2>3, <2>4 DEF Latched, w
<1>7. CASE ~signed_div
  <2>1. dividend_in = r.a % 2^w /\ divisor_in = r.b % 2^w
    BY <1>4, <1>7 DEF dividend_in, divisor_in
  <2>2. QuotientSign = FALSE /\ (signed_div /\ dividend_sign_bit) = FALSE
    BY <1>7 DEF QuotientSign
  <2>3. ASSUME NEW x \in Words PROVE x % 2^w \in Words
    <3>1. PICK d \in Nat \ {0}, p \in Nat \ {0}, f \in Nat \ {0} : d = 2^w /\ p = 2^XLEN /\ p = d * f
      BY <1>2, WidthPowers
    <3>2. x \in Int /\ d <= p
      BY <3>1 DEF Words
    <3>3. x % d \in 0 .. d - 1
      BY <3>2, DivMod
    <3> QED
      BY <3>1, <3>2, <3>3 DEF Words
  <2> QED
    BY <1>1, <1>3, <1>5, <1>7, <2>1, <2>2, <2>3 DEF Latched, w
<1> QED
  BY <1>6, <1>7

LEMMA DivStep == DivInv /\ [Clock]_vars => DivInv'
<1> SUFFICES ASSUME DivInv, [Clock]_vars PROVE DivInv'
  OBVIOUS
<1> USE DEF dividend_in, divisor_in, QuotientSign, signed_div, dividend_sign_bit, divisor_sign_bit, a_post, b_post, Post
<1>1. CASE UNCHANGED vars
  BY <1>1 DEF vars, DivInv
<1>2. CASE Clock
  <2>1. in' \in Requests \cup {Idle} /\ (in.req /\ stall => in' = in)
    BY <1>2 DEF Clock, Operand, DivInv
  <2>2. in.req \in BOOLEAN /\ (in.req <=> in \in Requests)
    <3>1. in \in Requests \/ in = Idle
      BY DEF DivInv
    <3>2. ASSUME NEW r \in Requests PROVE r.req = TRUE
      BY DEF Requests
    <3>3. Idle.req = FALSE
      BY DEF Idle
    <3> QED
      BY <3>1, <3>2, <3>3, Zenon
  <2>3. CASE new_req
    <3>1. in' = in /\ in \in Requests
      BY <2>1, <2>2, <2>3 DEF stall, new_req
    <3>2. /\ running' = TRUE /\ quotient' = 0 /\ iterations' = 0
          /\ dividend' = dividend_in /\ divisor' = divisor_in
          /\ quotient_negate' = QuotientSign
          /\ remainder_negate' = (signed_div /\ dividend_sign_bit)
          /\ is_rem' = (in.op \in {"REM", "REMU"})
      BY <1>2, <2>3 DEF Clock, FlowControl, Iterate, LatchOperands
    <3>3. Progress(dividend_in, divisor_in, 0, 0, dividend_in)
      <4>1. dividend_in \in Words /\ divisor_in \in Words
        BY <3>1, LatchedIs DEF Latched
      <4> HIDE DEF dividend_in, divisor_in
      <4> QED
        BY <4>1, ProgressStart
    <3>4. 0 \in 0 .. XLEN
      BY XlenPowers
    <3> QED
      BY <2>2, <3>1, <3>2, <3>3, <3>4 DEF DivInv
  <2>4. CASE running /\ ~done
    <3>1. in' = in /\ in \in Requests /\ iterations \in 0 .. XLEN - 1
      BY <2>1, <2>2, <2>4, XlenPowers DEF stall, done, DivInv
    <3>2. /\ running' = TRUE
          /\ UNCHANGED <<divisor, quotient_negate, remainder_negate, is_rem>>
          /\ quotient' = (2 * quotient + (IF sub_fits THEN 1 ELSE 0)) % 2^XLEN
          /\ iterations' = (iterations + 1) % IterMod
          /\ dividend' = IF sub_fits THEN sub_result ELSE dividend
      BY <1>2, <2>4 DEF Clock, FlowControl, Iterate, LatchOperands, new_req, DivInv
    <3>3. iterations' = iterations + 1 /\ iterations + 1 \in 0 .. XLEN
      <4>1. iterations + 1 \in 0 .. XLEN
        BY <3>1, XlenPowers
      <4> QED
        BY <3>2, <4>1, CounterFits
    <3>4. Progress(dividend_in, divisor_in, iterations + 1, quotient', dividend')
      <4>1. PICK A \in Nat, B \in Nat : A = dividend_in /\ B = divisor_in
        <5>1. dividend_in \in Words /\ divisor_in \in Words
          BY <3>1, LatchedIs DEF Latched
        <5> HIDE DEF dividend_in, divisor_in
        <5> QED
          BY <5>1, XlenPowers DEF Words
      <4>2. B = divisor /\ Progress(A, B, iterations, quotient, dividend)
        BY <2>4, <4>1 DEF DivInv
      <4>3. sub_result = dividend - B * 2^(XLEN - (iterations + 1))
        BY <3>1, <4>2, ShiftedDivisor DEF sub_result
      <4>4. quotient \in Int
        BY <3>1, <4>2, XlenPowers, PowerType DEF Progress
      <4>5. CASE sub_fits
        <5>1. Progress(A, B, iterations + 1, (2 * quotient + 1) % 2^XLEN, sub_result)
          BY <3>1, <4>2, <4>3, <4>5, ProgressStep DEF sub_fits
        <5> QED
          BY <3>2, <4>1, <4>5, <5>1
      <4>6. CASE ~sub_fits
        <5>1. Progress(A, B, iterations + 1, (2 * quotient) % 2^XLEN, dividend)
          BY <3>1, <4>2, <4>3, <4>6, ProgressStep DEF sub_fits
        <5>2. 2 * quotient + 0 = 2 * quotient
          BY <4>4
        <5> QED
          BY <3>2, <4>1, <4>6, <5>1, <5>2
      <4> QED
        BY <4>5, <4>6
    <3> QED
      BY <2>4, <3>1, <3>2, <3>3, <3>4 DEF DivInv
  <2>5. CASE ~new_req /\ ~(running /\ ~done)
    <3>1. running' = FALSE
      BY <1>2, <2>5 DEF Clock, FlowControl, DivInv
    <3> QED
      BY <2>1, <3>1 DEF DivInv
  <2> QED
    BY <2>3, <2>4, <2>5
<1> QED
  BY <1>1, <1>2

(* The words that stand for -1, 0 and the smallest number.                 *)
LEMMA SpecialWords ==
  ASSUME NEW w \in Widths
  PROVE  /\ sext(-1, w) = 2^XLEN - 1
         /\ sext(0, w) = 0
         /\ sext(2^(w - 1), w) = (-(2^(w - 1))) % 2^XLEN
<1>1. PICK d \in Nat \ {0}, h \in Nat \ {0}, p \in Nat \ {0} :
        d = 2^w /\ h = 2^(w - 1) /\ d = 2 * h /\ p = 2^XLEN
  BY WidthPowers
<1>2. h < d /\ d - 1 >= h /\ ~(0 >= h)
  BY <1>1
<1>3. ASSUME NEW m \in Nat \ {0} PROVE (-1) % m = m - 1 /\ 0 % m = 0
  <2>1. PICK x \in Int : x = -1
    OBVIOUS
  <2>2. (x + m) % m = x % m
    BY NextResidue
  <2>3. x + m = m - 1 /\ m - 1 \in 0 .. m - 1 /\ 0 \in 0 .. m - 1
    BY <2>1
  <2>4. (m - 1) % m = m - 1 /\ 0 % m = 0
    BY <2>3, SmallResidue
  <2> QED
    BY <2>1, <2>2, <2>3, <2>4
<1>4. h % d = h
  BY <1>2, SmallResidue
<1>5. SignedVal(-1, w) = -1
  <2>1. (-1) % d = d - 1
    BY <1>3
  <2> QED
    BY <1>1, <1>2, <2>1 DEF SignedVal
<1>6. SignedVal(0, w) = 0
  <2>1. 0 % d = 0
    BY <1>3
  <2> QED
    BY <1>1, <1>2, <2>1 DEF SignedVal
<1>7. SignedVal(h, w) = -h
  BY <1>1, <1>4 DEF SignedVal
<1>8. (-1) % p = p - 1 /\ 0 % p = 0
  BY <1>3
<1> QED
  BY <1>1, <1>5, <1>6, <1>7, <1>8 DEF sext

(* C's quotient and remainder, from those of the magnitudes.               *)
LEMMA SignedDivision ==
  ASSUME NEW sa \in Int, NEW sb \in Int, NEW q \in Nat, NEW r \in Nat, sb # 0,
         Abs(sa) = q * Abs(sb) + r, q = Abs(sa) \div Abs(sb)
  PROVE  /\ CQuot(sa, sb) = IF (sa < 0) # (sb < 0) THEN -q ELSE q
         /\ CRem(sa, sb) = IF sa < 0 THEN -r ELSE r
<1>1. CQuot(sa, sb) = IF (sa < 0) # (sb < 0) THEN -q ELSE q
  BY DEF CQuot, Abs
<1>2. PICK A \in Nat, B \in Nat, m \in Int : A = Abs(sa) /\ B = Abs(sb) /\ m = q * B /\ A = m + r
  <2>1. Abs(sa) \in Nat /\ Abs(sb) \in Nat
    BY DEF Abs
  <2>2. PICK A \in Nat, B \in Nat : A = Abs(sa) /\ B = Abs(sb)
    BY <2>1, Zenon
  <2>3. PICK m \in Int : m = q * B
    OBVIOUS
  <2> QED
    BY <2>2, <2>3
<1>3. (sa = A \/ sa = -A) /\ (sb = B \/ sb = -B)
  BY <1>2 DEF Abs
<1>4. B * q = m /\ B * (-q) = -m /\ (-B) * q = -m /\ (-B) * (-q) = m
  BY <1>2
<1>5. sb * CQuot(sa, sb) = IF sa < 0 THEN -m ELSE m
  <2>1. CASE sb < 0
    <3>1. sb = -B
      BY <1>2, <2>1 DEF Abs
    <3>2. CQuot(sa, sb) = IF sa < 0 THEN q ELSE -q
      BY <1>1, <2>1
    <3> QED
      BY <1>4, <3>1, <3>2
  <2>2. CASE ~(sb < 0)
    <3>1. sb = B
      BY <1>2, <2>2 DEF Abs
    <3>2. CQuot(sa, sb) = IF sa < 0 THEN -q ELSE q
      BY <1>1, <2>2
    <3> QED
      BY <1>4, <3>1, <3>2
  <2> QED
    BY <2>1, <2>2
<1>6. sa = IF sa < 0 THEN -(m + r) ELSE m + r
  BY <1>2 DEF Abs
<1>7. CRem(sa, sb) = sa - (IF sa < 0 THEN -m ELSE m)
  BY <1>5 DEF CRem
<1> QED
  BY <1>1, <1>6, <1>7

(* What the last step of the divider's datapath does to a magnitude.       *)
LEMMA Negated ==
  ASSUME NEW x \in Words, NEW n \in BOOLEAN
  PROVE  \E v \in Int : /\ v = (IF n THEN -x ELSE x)
                        /\ (IF n THEN Neg(x) ELSE x) = v % 2^XLEN
<1>1. PICK p \in Nat \ {0} : p = 2^XLEN
  BY XlenPowers
<1>2. x \in 0 .. p - 1 /\ x \in 0 .. p /\ x \in Int /\ -x \in Int
  BY <1>1 DEF Words
<1>3. x % p = x
  BY <1>2, SmallResidue
<1>4. Neg(x) = (-x) % p
  BY <1>1, <1>2, NegIs
<1> QED
  BY <1>1, <1>2, <1>3, <1>4

(* A quotient of all ones is -1 in every width.                            *)
LEMMA AllOnes == ASSUME NEW w \in Widths PROVE sext(2^XLEN - 1, w) = 2^XLEN - 1
<1>1. PICK p \in Nat \ {0}, d \in Nat \ {0}, f \in Nat \ {0} : p = 2^XLEN /\ d = 2^w /\ p = d * f
  BY WidthPowers
<1>2. PICK x \in Int : x = -1
  OBVIOUS
<1>3. (x + f * d) % d = x % d
  <2>1. f \in Int
    OBVIOUS
  <2> QED
    BY <2>1, SameResidue, Zenon
<1>4. x + f * d = p - 1
  BY <1>1, <1>2
<1>5. (p - 1) % 2^w = (-1) % 2^w /\ p - 1 \in Int
  BY <1>1, <1>2, <1>3, <1>4
<1>6. sext(p - 1, w) = sext(-1, w)
  BY <1>5, SameSext
<1>7. sext(-1, w) = 2^XLEN - 1
  BY SpecialWords, Zenon
<1> QED
  BY <1>1, <1>6, <1>7, Zenon

(* What the unit leaves of magnitudes A and B, and when a value v is the   *)
(* one that the emulator gives for the request r.                          *)
Divided(A, B, q, m) ==
  /\ q \in Words /\ m \in Words
  /\ B = 0 => q = 2^XLEN - 1 /\ m = A
  /\ B # 0 => A = q * B + m /\ m < B /\ q = A \div B /\ m = A % B

Outcome(r, v) == v \in Int /\ sext(v, Width(r.is_32bit)) = MulDiv(r.op, r.is_32bit, r.a, r.b)

LEMMA NegativeAbs == \A x \in Nat \ {0} : Abs(-x) = x /\ -x < 0
<1>1. ASSUME NEW x \in Nat \ {0} PROVE -x < 0 /\ -(-x) = x
  OBVIOUS
<1>2. \A x \in Nat \ {0} : Abs(-x) = x
  BY <1>1 DEF Abs
<1> QED
  BY <1>1, <1>2

LEMMA SignedOutcome ==
  ASSUME NEW r \in Requests, r.op \in {"DIV", "REM"}, NEW q, NEW m, NEW sa \in Int, NEW sb \in Int,
         sa = SignedVal(r.a, Width(r.is_32bit)), sb = SignedVal(r.b, Width(r.is_32bit)),
         Divided(Abs(sa), Abs(sb), q, m)
  PROVE  /\ r.op = "DIV" => Outcome(r, IF (sa < 0) # (sb < 0) /\ sb # 0 THEN -q ELSE q)
         /\ r.op = "REM" => Outcome(r, IF sa < 0 THEN -m ELSE m)
<1>1. PICK w \in Widths : w = Width(r.is_32bit)
  BY DEF Requests, Width, Widths
<1>2. PICK h \in Nat \ {0}, p \in Nat \ {0} : h = 2^(w - 1) /\ p = 2^XLEN
  BY WidthPowers, Zenon
<1>3. q \in Nat /\ m \in Nat /\ r.a \in Int
  <2>1. q \in Words /\ m \in Words /\ r.a \in Words
    BY MulDivAssumption DEF Divided, Requests
  <2> QED
    BY <1>2, <2>1 DEF Words
<1>4. /\ sb = 0 => q = p - 1 /\ m = Abs(sa)
      /\ sb # 0 => Abs(sa) = q * Abs(sb) + m /\ m < Abs(sb) /\ q = Abs(sa) \div Abs(sb)
  <2>1. Abs(sb) = 0 <=> sb = 0
    BY DEF Abs
  <2> QED
    BY <1>2, <2>1, Zenon DEF Divided
<1>5. sa = SignedVal(r.a, w) /\ sb = SignedVal(r.b, w)
  BY <1>1
<1> DEFINE vq == IF (sa < 0) # (sb < 0) /\ sb # 0 THEN -q ELSE q
           vm == IF sa < 0 THEN -m ELSE m
<1>6. vq \in Int /\ vm \in Int
  BY <1>3
<1>7. SUFFICES sext(vq, w) = SignedDiv(r.a, r.b, w) /\ sext(vm, w) = SignedRem(r.a, r.b, w)
  <2>1. /\ r.op = "DIV" => MulDiv(r.op, r.is_32bit, r.a, r.b) = SignedDiv(r.a, r.b, w)
        /\ r.op = "REM" => MulDiv(r.op, r.is_32bit, r.a, r.b) = SignedRem(r.a, r.b, w)
    BY <1>1 DEF MulDiv, Width
  <2> HIDE DEF vq, vm
  <2>2. /\ r.op = "DIV" => Outcome(r, vq)
        /\ r.op = "REM" => Outcome(r, vm)
    BY <1>1, <1>6, <1>7, <2>1, Zenon DEF Outcome
  <2> QED
    BY <2>2 DEF vq, vm
<1>8. CASE sb = 0
  <2>1. SignedDiv(r.a, r.b, w) = p - 1 /\ SignedRem(r.a, r.b, w) = sext(r.a, w)
    BY <1>2, <1>5, <1>8, Zenon DEF SignedDiv, SignedRem
  <2>2. sext(p - 1, w) = p - 1
    BY <1>2, AllOnes
  <2>3. sext(sa, w) = sext(r.a, w)
    <3>1. sa % 2^w = r.a % 2^w
      BY <1>3, <1>5, SignedResidue
    <3> QED
      BY <1>3, <3>1, SameSext
  <2>4. vm = sa /\ vq = p - 1
    BY <1>4, <1>8 DEF Abs
  <2> QED
    BY <2>1, <2>2, <2>3, <2>4, Zenon
<1>9. CASE sb # 0
  <2>1. CQuot(sa, sb) = vq /\ CRem(sa, sb) = vm
    <3>1. Abs(sa) = q * Abs(sb) + m /\ q = Abs(sa) \div Abs(sb)
      BY <1>4, <1>9
    <3>2. /\ CQuot(sa, sb) = IF (sa < 0) # (sb < 0) THEN -q ELSE q
          /\ CRem(sa, sb) = IF sa < 0 THEN -m ELSE m
      BY <1>3, <1>9, <3>1, SignedDivision
    <3> QED
      BY <1>9, <3>2
  <2>2. CASE sa = -h /\ sb = -1
    <3>1. SignedDiv(r.a, r.b, w) = (-h) % p /\ SignedRem(r.a, r.b, w) = 0
      BY <1>2, <1>5, <1>9, <2>2, Zenon DEF SignedDiv, SignedRem
    <3>2. Abs(sa) = h /\ Abs(sb) = 1 /\ sa < 0 /\ sb < 0
      <4>1. PICK u \in Nat \ {0} : u = 1 /\ sb = -u
        BY <2>2
      <4>2. Abs(-h) = h /\ -h < 0 /\ Abs(-u) = u /\ -u < 0
        BY NegativeAbs
      <4> QED
        BY <2>2, <4>1, <4>2, Zenon
    <3>3. m = 0 /\ q = h
      <4>1. h = q * 1 + m /\ m < 1
        BY <1>4, <1>9, <3>2
      <4> QED
        BY <1>3, <4>1
    <3>4. sext(h, w) = (-h) % p /\ sext(0, w) = 0
      BY <1>2, SpecialWords, Zenon
    <3>5. vq = h /\ vm = 0
      <4>1. (sa < 0) = (sb < 0)
        BY <3>2
      <4>2. -m = 0
        <5>1. m \in Int /\ m <= 0 /\ m >= 0
          BY <1>3, <3>3
        <5> QED
          BY <5>1
      <4> QED
        BY <3>2, <3>3, <4>1, <4>2, Zenon
    <3> QED
      BY <3>1, <3>4, <3>5, Zenon
  <2>3. CASE ~(sa = -h /\ sb = -1)
    <3>1. /\ SignedDiv(r.a, r.b, w) = sext(CQuot(sa, sb), w)
          /\ SignedRem(r.a, r.b, w) = sext(CRem(sa, sb), w)
      BY <1>2, <1>5, <1>9, <2>3, Zenon DEF SignedDiv, SignedRem
    <3> QED
      BY <2>1, <3>1, Zenon
  <2> QED
    BY <2>2, <2>3
<1> QED
  BY <1>8, <1>9

LEMMA UnsignedOutcome ==
  ASSUME NEW r \in Requests, r.op \in {"DIVU", "REMU"}, NEW q, NEW m, NEW A \in Nat, NEW B \in Nat,
         A = r.a % 2^Width(r.is_32bit), B = r.b % 2^Width(r.is_32bit),
         Divided(A, B, q, m)
  PROVE  /\ r.op = "DIVU" => Outcome(r, q)
         /\ r.op = "REMU" => Outcome(r, m)
<1>1. PICK w \in Widths : w = Width(r.is_32bit)
  BY DEF Requests, Width, Widths
<1>2. PICK d \in Nat \ {0}, p \in Nat \ {0} : d = 2^w /\ p = 2^XLEN
  BY WidthPowers, Zenon
<1>3. q \in Int /\ m \in Int /\ r.a \in Int
  <2>1. q \in Words /\ m \in Words /\ r.a \in Words
    BY MulDivAssumption DEF Divided, Requests
  <2> QED
    BY <1>2, <2>1 DEF Words
<1>4. /\ B = 0 => q = p - 1 /\ m = A
      /\ B # 0 => q = A \div B /\ m = A % B
  BY <1>2, Zenon DEF Divided
<1>5. A = r.a % 2^w /\ B = r.b % 2^w
  BY <1>1
<1>6. SUFFICES sext(q, w) = UnsignedDiv(r.a, r.b, w) /\ sext(m, w) = UnsignedRem(r.a, r.b, w)
  <2>1. /\ r.op = "DIVU" => MulDiv(r.op, r.is_32bit, r.a, r.b) = UnsignedDiv(r.a, r.b, w)
        /\ r.op = "REMU" => MulDiv(r.op, r.is_32bit, r.a, r.b) = UnsignedRem(r.a, r.b, w)
    BY <1>1 DEF MulDiv, Width
  <2> QED
    BY <1>1, <1>3, <1>6, <2>1, Zenon DEF Outcome
<1>7. CASE B = 0
  <2>1. UnsignedDiv(r.a, r.b, w) = p - 1 /\ UnsignedRem(r.a, r.b, w) = sext(r.a, w)
    BY <1>2, <1>5, <1>7, Zenon DEF UnsignedDiv, UnsignedRem
  <2>2. sext(p - 1, w) = p - 1
    BY <1>2, AllOnes
  <2>3. sext(A, w) = sext(r.a, w)
    <3>1. A \in 0 .. d - 1
      BY <1>2, <1>3, <1>5, DivMod
    <3>2. A % d = A
      BY <3>1, SmallResidue
    <3>3. A % 2^w = r.a % 2^w /\ A \in Int
      BY <1>2, <1>5, <3>2
    <3> QED
      BY <1>3, <3>3, SameSext, Zenon
  <2> QED
    BY <1>4, <1>7, <2>1, <2>2, <2>3, Zenon
<1>8. CASE B # 0
  <2>1. /\ UnsignedDiv(r.a, r.b, w) = sext(A \div B, w)
        /\ UnsignedRem(r.a, r.b, w) = sext(A % B, w)
    BY <1>5, <1>8, Zenon DEF UnsignedDiv, UnsignedRem
  <2> QED
    BY <1>4, <1>8, <2>1, Zenon
<1> QED
  BY <1>7, <1>8

LEMMA DivInvResult == DivInv => DivResult
<1> SUFFICES ASSUME DivInv, in.req, ~stall
             PROVE  o = MulDiv(in.op, in.is_32bit, in.a, in.b)
  BY DEF DivResult
<1>1. PICK r \in Requests : in = r
  BY DEF DivInv, Idle
<1>2. running /\ iterations = XLEN
  BY DEF stall, new_req, done, DivInv
<1>3. PICK A \in Words, B \in Words : A = dividend_in /\ B = divisor_in /\ Latched(r, A, B)
  BY <1>1, LatchedIs DEF Latched
<1>4. /\ quotient_negate = QuotientSign
      /\ remainder_negate = (signed_div /\ dividend_sign_bit)
      /\ is_rem = (r.op \in {"REM", "REMU"})
      /\ Progress(A, B, XLEN, quotient, dividend)
  BY <1>1, <1>2, <1>3 DEF DivInv
<1>5. A \in Nat /\ B \in Nat
  BY XlenPowers DEF Words
<1>6. Divided(A, B, quotient, dividend)
  <2>1. /\ quotient \in Words /\ dividend \in Nat
        /\ B = 0 => quotient = 2^XLEN - 1 /\ dividend = A
        /\ B # 0 => A = quotient * B + dividend /\ dividend < B /\ quotient = A \div B /\ dividend = A % B
    BY <1>4, <1>5, ProgressEnd
  <2>2. dividend \in Words
    BY <2>1, XlenPowers DEF Words
  <2> QED
    BY <2>1, <2>2, Zenon DEF Divided
<1>7. quotient \in Words /\ dividend \in Words
  BY <1>6 DEF Divided
<1>8. r.op \in {"DIV", "DIVU", "REM", "REMU"} /\ r.is_32bit \in BOOLEAN
  BY DEF Requests, DivOps
<1>9. ASSUME NEW v, Outcome(r, v), output_raw = v % 2^XLEN
      PROVE  o = MulDiv(in.op, in.is_32bit, in.a, in.b)
  <2>1. v \in Int
    BY <1>9 DEF Outcome
  <2>2. (IF r.is_32bit THEN sext(output_raw, HALF) ELSE output_raw) = sext(v, Width(r.is_32bit))
    BY <1>8, <1>9, <2>1, Output
  <2> QED
    BY <1>1, <1>9, <2>2, Zenon DEF o, Outcome
<1>10. CASE r.op \in {"DIV", "REM"}
  <2>1. PICK sa \in Int, sb \in Int :
          /\ sa = SignedVal(r.a, Width(r.is_32bit)) /\ sb = SignedVal(r.b, Width(r.is_32bit))
          /\ A = Abs(sa) /\ B = Abs(sb)
          /\ QuotientSign = ((sa < 0) # (sb < 0) /\ sb # 0)
          /\ (signed_div /\ dividend_sign_bit) = (sa < 0)
    BY <1>3, <1>10 DEF Latched
  <2>2. Divided(Abs(sa), Abs(sb), quotient, dividend)
    BY <1>6, <2>1, Zenon
  <2>3. /\ r.op = "DIV" => Outcome(r, IF (sa < 0) # (sb < 0) /\ sb # 0 THEN -quotient ELSE quotient)
        /\ r.op = "REM" => Outcome(r, IF sa < 0 THEN -dividend ELSE dividend)
    BY <1>10, <2>1, <2>2, SignedOutcome
  <2>4. CASE r.op = "DIV"
    <3>1. PICK n \in BOOLEAN : n = ((sa < 0) # (sb < 0) /\ sb # 0)
      OBVIOUS
    <3>2. quotient_negate = n /\ ~is_rem
      BY <1>4, <2>1, <2>4, <3>1
    <3>3. PICK v \in Int : v = (IF n THEN -quotient ELSE quotient)
                           /\ (IF n THEN Neg(quotient) ELSE quotient) = v % 2^XLEN
      BY <1>7, Negated
    <3>4. output_raw = v % 2^XLEN
      BY <3>2, <3>3 DEF output_raw, quotient_post
    <3>5. Outcome(r, v)
      BY <2>3, <2>4, <3>1, <3>3
    <3> QED
      BY <1>9, <3>4, <3>5
  <2>5. CASE r.op = "REM"
    <3>1. PICK n \in BOOLEAN : n = (sa < 0)
      <4>1. (sa < 0) \in BOOLEAN
        OBVIOUS
      <4> QED
        BY <4>1, Zenon
    <3>2. remainder_negate = n /\ is_rem
      BY <1>4, <2>1, <2>5, <3>1
    <3>3. PICK v \in Int : v = (IF n THEN -dividend ELSE dividend)
                           /\ (IF n THEN Neg(dividend) ELSE dividend) = v % 2^XLEN
      BY <1>7, Negated
    <3>4. output_raw = v % 2^XLEN
      BY <3>2, <3>3 DEF output_raw, remainder_post
    <3>5. Outcome(r, v)
      BY <2>3, <2>5, <3>1, <3>3
    <3> QED
      BY <1>9, <3>4, <3>5
  <2> QED
    BY <1>10, <2>4, <2>5
<1>11. CASE r.op \in {"DIVU", "REMU"}
  <2>1. /\ A = r.a % 2^Width(r.is_32bit) /\ B = r.b % 2^Width(r.is_32bit)
        /\ QuotientSign = FALSE /\ (signed_div /\ dividend_sign_bit) = FALSE
    BY <1>3, <1>11 DEF Latched
  <2>2. ~quotient_negate /\ ~remainder_negate
    BY <1>4, <2>1
  <2>3. /\ r.op = "DIVU" => Outcome(r, quotient)
        /\ r.op = "REMU" => Outcome(r, dividend)
    BY <1>5, <1>6, <1>11, <2>1, UnsignedOutcome
  <2>4. ASSUME NEW x \in Words PROVE x = x % 2^XLEN
    BY XlenPowers, SmallResidue DEF Words
  <2>5. CASE r.op = "DIVU"
    <3>1. ~is_rem
      BY <1>4, <2>5
    <3>2. output_raw = quotient % 2^XLEN
      BY <1>7, <2>2, <2>4, <3>1 DEF output_raw, quotient_post
    <3> QED
      BY <1>9, <2>3, <2>5, <3>2
  <2>6. CASE r.op = "REMU"
    <3>1. is_rem
      BY <1>4, <2>6
    <3>2. output_raw = dividend % 2^XLEN
      BY <1>7, <2>2, <2>4, <3>1 DEF output_raw, remainder_post
    <3> QED
      BY <1>9, <2>3, <2>6, <3>2
  <2> QED
    BY <1>11, <2>5, <2>6
<1> QED
  BY <1>8, <1>10, <1>11

(* For every width, every sequence of requests and every timing of MEM: in *)
(* a cycle without stall the divider's output is the emulator's result for *)
(* the request in ID/EX, with a zero divisor, the overflowing quotient and *)
(* the W forms (divider.sv 88-187).                                        *)
THEOREM DividerResult == Spec => []DivResult
  BY DivStart, DivStep, DivInvResult, PTL DEF Spec

-----------------------------------------------------------------------------
(* The decoder.  A pattern that matches a word is one of its opcode, of    *)
(* its func3 and of its func7.                                             *)
LEMMA SmallPowers ==
  2^0 = 1 /\ 2^1 = 2 /\ 2^2 = 4 /\ 2^3 = 8 /\ 2^4 = 16 /\ 2^5 = 32 /\ 2^6 = 64 /\ 2^7 = 128
<1>1. \A n \in Nat : 2^(n + 1) = 2 * 2^n
  BY Doubling
<1>2. 2^0 = 1 /\ 2^(0 + 1) = 2 * 2^0 /\ 2^(1 + 1) = 2 * 2^1 /\ 2^(2 + 1) = 2 * 2^2 /\ 2^(3 + 1) = 2 * 2^3
      /\ 2^(4 + 1) = 2 * 2^4 /\ 2^(5 + 1) = 2 * 2^5 /\ 2^(6 + 1) = 2 * 2^6
  BY <1>1
<1> QED
  BY <1>2

MatchFunc3(w, p, opcode, ops) ==
  w.opcode = opcode /\ ops[w.func3 + 1] # "-" /\ p = P(ops[w.func3 + 1], opcode, w.func3, 0, 0)

MatchFunc7(w, p, opcode, func7, ops) ==
  /\ w.opcode = opcode /\ w.func7 = func7
  /\ ops[w.func3 + 1] # "-" /\ p = P(ops[w.func3 + 1], opcode, w.func3, 7, func7)

MatchOne(w, p, op, opcode, func3, fix, top) ==
  /\ w.opcode = opcode /\ func3 \in {Any, w.func3}
  /\ w.func7 \div 2^(7 - fix) = top
  /\ p = P(op, opcode, func3, fix, top)

LEMMA Func3Match ==
  ASSUME NEW w \in InstWord, NEW opcode, NEW ops, NEW p \in ByFunc3(opcode, ops), Matches(p, w)
  PROVE  MatchFunc3(w, p, opcode, ops)
<1>1. PICK f \in 1 .. 8 : ops[f] # "-" /\ p = P(ops[f], opcode, f - 1, 0, 0)
  BY DEF ByFunc3
<1>2. w.opcode = opcode /\ f - 1 \in {-1, w.func3}
  BY <1>1 DEF Matches, P, Any
<1>3. w.func3 + 1 = f /\ w.func3 = f - 1
  BY <1>2 DEF InstWord
<1> QED
  BY <1>1, <1>2, <1>3 DEF MatchFunc3

LEMMA Func7Match ==
  ASSUME NEW w \in InstWord, NEW opcode, NEW func7 \in 0 .. 127, NEW ops,
         NEW p \in ByFunc7(opcode, func7, ops), Matches(p, w)
  PROVE  MatchFunc7(w, p, opcode, func7, ops)
<1>1. PICK f \in 1 .. 8 : ops[f] # "-" /\ p = P(ops[f], opcode, f - 1, 7, func7)
  BY DEF ByFunc7
<1>2. w.opcode = opcode /\ f - 1 \in {-1, w.func3} /\ w.func7 \div 2^(7 - 7) = func7
  BY <1>1 DEF Matches, P, Any
<1>3. w.func3 + 1 = f /\ w.func3 = f - 1
  BY <1>2 DEF InstWord
<1>4. w.func7 = func7
  <2>1. 7 - 7 = 0 /\ 2^0 = 1 /\ w.func7 \in Nat
    BY SmallPowers DEF InstWord
  <2> QED
    BY <1>2, <2>1
<1> QED
  BY <1>1, <1>2, <1>3, <1>4 DEF MatchFunc7

LEMMA OneMatch ==
  ASSUME NEW w, NEW op, NEW opcode, NEW func3, NEW fix, NEW top, NEW p,
         p = P(op, opcode, func3, fix, top), Matches(p, w)
  PROVE  MatchOne(w, p, op, opcode, func3, fix, top)
  BY DEF Matches, P, MatchOne

OpForms(w, p) ==
  \/ MatchFunc3(w, p, OPCODE_OP_IMM, <<"ADD", "-", "SLT", "SLTU", "XOR", "-", "OR", "AND">>)
  \/ MatchOne(w, p, "SLL", OPCODE_OP_IMM, 1, 6, 0)
  \/ MatchOne(w, p, "SRL", OPCODE_OP_IMM, 5, 6, 0)
  \/ MatchOne(w, p, "SRA", OPCODE_OP_IMM, 5, 6, 16)
  \/ MatchFunc3(w, p, OPCODE_OP_IMM_32, <<"ADD", "-", "-", "-", "-", "-", "-", "-">>)
  \/ MatchFunc7(w, p, OPCODE_OP_IMM_32, 0, <<"-", "SLL", "-", "-", "-", "SRL", "-", "-">>)
  \/ MatchFunc7(w, p, OPCODE_OP_IMM_32, 32, <<"-", "-", "-", "-", "-", "SRA", "-", "-">>)
  \/ MatchFunc7(w, p, OPCODE_OP, 0, <<"ADD", "SLL", "SLT", "SLTU", "XOR", "SRL", "OR", "AND">>)
  \/ MatchFunc7(w, p, OPCODE_OP, 32, <<"SUB", "-", "-", "-", "-", "SRA", "-", "-">>)
  \/ MatchFunc7(w, p, OPCODE_OP_32, 0, <<"ADD", "SLL", "-", "-", "-", "SRL", "-", "-">>)
  \/ MatchFunc7(w, p, OPCODE_OP_32, 32, <<"SUB", "-", "-", "-", "-", "SRA", "-", "-">>)
  \/ MatchOne(w, p, "LUI", OPCODE_LUI, Any, 0, 0)
  \/ MatchOne(w, p, "AUIPC", OPCODE_AUIPC, Any, 0, 0)

OtherForms(w, p) ==
  \/ MatchFunc3(w, p, OPCODE_LOAD, <<"LB", "LH", "LW", "LD", "LBU", "LHU", "LWU", "-">>)
  \/ MatchFunc3(w, p, OPCODE_STORE, <<"SB", "SH", "SW", "SD", "-", "-", "-", "-">>)
  \/ MatchOne(w, p, "JAL", OPCODE_JAL, Any, 0, 0)
  \/ MatchFunc3(w, p, OPCODE_JALR, <<"JALR", "-", "-", "-", "-", "-", "-", "-">>)
  \/ MatchFunc3(w, p, OPCODE_BRANCH, <<"BEQ", "BNE", "-", "-", "BLT", "BGE", "BLTU", "BGEU">>)
  \/ MatchFunc7(w, p, OPCODE_OP, 1, <<"MUL", "MULH", "MULHSU", "MULHU", "DIV", "DIVU", "REM", "REMU">>)
  \/ MatchFunc7(w, p, OPCODE_OP_32, 1, <<"MUL", "-", "-", "-", "DIV", "DIVU", "REM", "REMU">>)

AmoForms(w, p) == \E a \in AmoOps, f \in {2, 3} : MatchOne(w, p, a[1], OPCODE_AMO, f, 5, a[2])

SystemOps == {<<"SFENCE_VMA", 9>>, <<"ECALL", 0>>, <<"EBREAK", 0>>, <<"SRET", 8>>, <<"WFI", 8>>, <<"MRET", 24>>}

SystemForms(w, p) ==
  \/ MatchFunc3(w, p, OPCODE_MISC_MEM, <<"FENCE", "FENCEI", "-", "-", "-", "-", "-", "-">>)
  \/ MatchFunc3(w, p, OPCODE_SYSTEM, <<"-", "CSRRW", "CSRRS", "CSRRC", "-", "CSRRWI", "CSRRSI", "CSRRCI">>)
  \/ \E a \in SystemOps : MatchOne(w, p, a[1], OPCODE_SYSTEM, 0, 7, a[2]) /\ Matches(p, w)

LEMMA Forms ==
  ASSUME NEW w \in InstWord, NEW p \in Patterns, Matches(p, w)
  PROVE  OpForms(w, p) \/ OtherForms(w, p) \/ AmoForms(w, p) \/ SystemForms(w, p)
<1> USE Func3Match, Func7Match, OneMatch
<1>1. 0 \in 0 .. 127 /\ 1 \in 0 .. 127 /\ 32 \in 0 .. 127
  OBVIOUS
<1>2. CASE p \in OpPatterns
  BY <1>1, <1>2, Zenon DEF OpPatterns, OpForms
<1>3. CASE p \in MemoryPatterns
  BY <1>3, Zenon DEF MemoryPatterns, OtherForms
<1>4. CASE p \in JumpPatterns
  BY <1>4, Zenon DEF JumpPatterns, OtherForms
<1>5. CASE p \in MulDivPatterns
  BY <1>1, <1>5, Zenon DEF MulDivPatterns, OtherForms
<1>6. CASE p \in AmoPatterns
  <2>1. PICK a \in AmoOps, f \in {2, 3} : p = P(a[1], OPCODE_AMO, f, 5, a[2])
    BY <1>6 DEF AmoPatterns
  <2>2. MatchOne(w, p, a[1], OPCODE_AMO, f, 5, a[2])
    BY <2>1, Zenon
  <2> QED
    BY <2>2, Zenon DEF AmoForms
<1>7. CASE p \in SystemPatterns
  BY <1>7 DEF SystemPatterns, SystemForms, SystemOps
<1> QED
  BY <1>2, <1>3, <1>4, <1>5, <1>6, <1>7 DEF Patterns

LEMMA OpcodeValues ==
  /\ OPCODE_LUI = 55 /\ OPCODE_AUIPC = 23 /\ OPCODE_JAL = 111 /\ OPCODE_JALR = 103 /\ OPCODE_BRANCH = 99
  /\ OPCODE_LOAD = 3 /\ OPCODE_STORE = 35 /\ OPCODE_OP_IMM = 19 /\ OPCODE_OP_IMM_32 = 27
  /\ OPCODE_OP = 51 /\ OPCODE_OP_32 = 59 /\ OPCODE_MISC_MEM = 15 /\ OPCODE_SYSTEM = 115 /\ OPCODE_AMO = 47
  BY DEF OPCODE_LUI, OPCODE_AUIPC, OPCODE_JAL, OPCODE_JALR, OPCODE_BRANCH, OPCODE_LOAD, OPCODE_STORE,
         OPCODE_OP_IMM, OPCODE_OP_IMM_32, OPCODE_OP, OPCODE_OP_32, OPCODE_MISC_MEM, OPCODE_SYSTEM, OPCODE_AMO

(* Two matches of the same kind are one; matches of different kinds differ *)
(* in func3 or func7.                                                      *)
LEMMA SameMatch ==
  ASSUME NEW w, NEW p, NEW q
  PROVE  /\ \A oc, ops : MatchFunc3(w, p, oc, ops) /\ MatchFunc3(w, q, oc, ops) => p = q
         /\ \A oc, f7, ops : MatchFunc7(w, p, oc, f7, ops) /\ MatchFunc7(w, q, oc, f7, ops) => p = q
         /\ \A op, oc, f3, fix, top :
              MatchOne(w, p, op, oc, f3, fix, top) /\ MatchOne(w, q, op, oc, f3, fix, top) => p = q
  BY Zenon DEF MatchFunc3, MatchFunc7, MatchOne

LEMMA MatchOpcode ==
  ASSUME NEW w, NEW p
  PROVE  /\ \A oc, ops : MatchFunc3(w, p, oc, ops) => w.opcode = oc
         /\ \A oc, f7, ops : MatchFunc7(w, p, oc, f7, ops) => w.opcode = oc /\ w.func7 = f7
         /\ \A op, oc, f3, fix, top :
              MatchOne(w, p, op, oc, f3, fix, top) => w.opcode = oc /\ f3 \in {Any, w.func3}
  BY Zenon DEF MatchFunc3, MatchFunc7, MatchOne

OpImmForms(w, p) ==
  \/ MatchFunc3(w, p, OPCODE_OP_IMM, <<"ADD", "-", "SLT", "SLTU", "XOR", "-", "OR", "AND">>)
  \/ MatchOne(w, p, "SLL", OPCODE_OP_IMM, 1, 6, 0)
  \/ MatchOne(w, p, "SRL", OPCODE_OP_IMM, 5, 6, 0)
  \/ MatchOne(w, p, "SRA", OPCODE_OP_IMM, 5, 6, 16)

OpImm32Forms(w, p) ==
  \/ MatchFunc3(w, p, OPCODE_OP_IMM_32, <<"ADD", "-", "-", "-", "-", "-", "-", "-">>)
  \/ MatchFunc7(w, p, OPCODE_OP_IMM_32, 0, <<"-", "SLL", "-", "-", "-", "SRL", "-", "-">>)
  \/ MatchFunc7(w, p, OPCODE_OP_IMM_32, 32, <<"-", "-", "-", "-", "-", "SRA", "-", "-">>)

OpRegForms(w, p) ==
  \/ MatchFunc7(w, p, OPCODE_OP, 0, <<"ADD", "SLL", "SLT", "SLTU", "XOR", "SRL", "OR", "AND">>)
  \/ MatchFunc7(w, p, OPCODE_OP, 32, <<"SUB", "-", "-", "-", "-", "SRA", "-", "-">>)
  \/ MatchFunc7(w, p, OPCODE_OP, 1, <<"MUL", "MULH", "MULHSU", "MULHU", "DIV", "DIVU", "REM", "REMU">>)

OpReg32Forms(w, p) ==
  \/ MatchFunc7(w, p, OPCODE_OP_32, 0, <<"ADD", "SLL", "-", "-", "-", "SRL", "-", "-">>)
  \/ MatchFunc7(w, p, OPCODE_OP_32, 32, <<"SUB", "-", "-", "-", "-", "SRA", "-", "-">>)
  \/ MatchFunc7(w, p, OPCODE_OP_32, 1, <<"MUL", "-", "-", "-", "DIV", "DIVU", "REM", "REMU">>)

(* The forms by opcode.                                                    *)
FormsOf(w, p) ==
  \/ w.opcode = 19 /\ OpImmForms(w, p)
  \/ w.opcode = 27 /\ OpImm32Forms(w, p)
  \/ w.opcode = 51 /\ OpRegForms(w, p)
  \/ w.opcode = 59 /\ OpReg32Forms(w, p)
  \/ w.opcode = 55 /\ MatchOne(w, p, "LUI", OPCODE_LUI, Any, 0, 0)
  \/ w.opcode = 23 /\ MatchOne(w, p, "AUIPC", OPCODE_AUIPC, Any, 0, 0)
  \/ w.opcode = 3 /\ MatchFunc3(w, p, OPCODE_LOAD, <<"LB", "LH", "LW", "LD", "LBU", "LHU", "LWU", "-">>)
  \/ w.opcode = 35 /\ MatchFunc3(w, p, OPCODE_STORE, <<"SB", "SH", "SW", "SD", "-", "-", "-", "-">>)
  \/ w.opcode = 111 /\ MatchOne(w, p, "JAL", OPCODE_JAL, Any, 0, 0)
  \/ w.opcode = 103 /\ MatchFunc3(w, p, OPCODE_JALR, <<"JALR", "-", "-", "-", "-", "-", "-", "-">>)
  \/ w.opcode = 99 /\ MatchFunc3(w, p, OPCODE_BRANCH, <<"BEQ", "BNE", "-", "-", "BLT", "BGE", "BLTU", "BGEU">>)
  \/ w.opcode = 47 /\ AmoForms(w, p)
  \/ w.opcode \in {15, 115} /\ SystemForms(w, p)

LEMMA FormOpcodes ==
  ASSUME NEW w, NEW p
  PROVE  /\ OpImmForms(w, p) => w.opcode = 19
         /\ OpImm32Forms(w, p) => w.opcode = 27
         /\ OpRegForms(w, p) => w.opcode = 51
         /\ OpReg32Forms(w, p) => w.opcode = 59
         /\ AmoForms(w, p) => w.opcode = 47
         /\ SystemForms(w, p) => w.opcode \in {15, 115}
<1>1. OpImmForms(w, p) => w.opcode = 19
  BY MatchOpcode, OpcodeValues, Zenon DEF OpImmForms
<1>2. OpImm32Forms(w, p) => w.opcode = 27
  BY MatchOpcode, OpcodeValues, Zenon DEF OpImm32Forms
<1>3. OpRegForms(w, p) => w.opcode = 51
  BY MatchOpcode, OpcodeValues, Zenon DEF OpRegForms
<1>4. OpReg32Forms(w, p) => w.opcode = 59
  BY MatchOpcode, OpcodeValues, Zenon DEF OpReg32Forms
<1>5. AmoForms(w, p) => w.opcode = 47
  BY MatchOpcode, OpcodeValues, Zenon DEF AmoForms
<1>6. SystemForms(w, p) => w.opcode = 15 \/ w.opcode = 115
  <2>1. SystemForms(w, p) => w.opcode = OPCODE_MISC_MEM \/ w.opcode = OPCODE_SYSTEM
    BY MatchOpcode, Zenon DEF SystemForms
  <2> QED
    BY <2>1, OpcodeValues, Zenon
<1> QED
  BY <1>1, <1>2, <1>3, <1>4, <1>5, <1>6, Zenon

LEMMA FormsByOpcode ==
  ASSUME NEW w \in InstWord, NEW p \in Patterns, Matches(p, w)
  PROVE  FormsOf(w, p)
<1>1. CASE OpForms(w, p)
  <2>1. \/ OpImmForms(w, p) \/ OpImm32Forms(w, p) \/ OpRegForms(w, p) \/ OpReg32Forms(w, p)
        \/ MatchOne(w, p, "LUI", OPCODE_LUI, Any, 0, 0) \/ MatchOne(w, p, "AUIPC", OPCODE_AUIPC, Any, 0, 0)
    BY <1>1, Zenon DEF OpForms, OpImmForms, OpImm32Forms, OpRegForms, OpReg32Forms
  <2>2. /\ MatchOne(w, p, "LUI", OPCODE_LUI, Any, 0, 0) => w.opcode = 55
        /\ MatchOne(w, p, "AUIPC", OPCODE_AUIPC, Any, 0, 0) => w.opcode = 23
    BY MatchOpcode, OpcodeValues, Zenon
  <2> QED
    BY <2>1, <2>2, FormOpcodes, Zenon DEF FormsOf
<1>2. CASE OtherForms(w, p)
  BY <1>2, MatchOpcode, OpcodeValues, Zenon DEF OtherForms, FormsOf, OpRegForms, OpReg32Forms
<1>3. CASE AmoForms(w, p)
  BY <1>3, FormOpcodes, Zenon DEF FormsOf
<1>4. CASE SystemForms(w, p)
  BY <1>4, FormOpcodes, Zenon DEF FormsOf
<1> QED
  BY <1>1, <1>2, <1>3, <1>4, Forms, Zenon

(* One pattern at most.                                                    *)
LEMMA OneSystem ==
  ASSUME NEW w \in InstWord, NEW p \in Patterns, NEW q \in Patterns, Matches(p, w), Matches(q, w),
         SystemForms(w, p), SystemForms(w, q)
  PROVE  p = q
<1> DEFINE csr == <<"-", "CSRRW", "CSRRS", "CSRRC", "-", "CSRRWI", "CSRRSI", "CSRRCI">>
           fence == <<"FENCE", "FENCEI", "-", "-", "-", "-", "-", "-">>
           Sys(r) == \E a \in SystemOps : MatchOne(w, r, a[1], OPCODE_SYSTEM, 0, 7, a[2])
<1>1. ASSUME NEW r, SystemForms(w, r)
      PROVE  MatchFunc3(w, r, OPCODE_MISC_MEM, fence) \/ MatchFunc3(w, r, OPCODE_SYSTEM, csr) \/ Sys(r)
  BY <1>1, Zenon DEF SystemForms
<1>2. ASSUME NEW r, MatchFunc3(w, r, OPCODE_MISC_MEM, fence) PROVE w.opcode = 15
  BY <1>2, MatchOpcode, OpcodeValues, Zenon
<1>3. ASSUME NEW r, MatchFunc3(w, r, OPCODE_SYSTEM, csr) PROVE w.opcode = 115 /\ w.func3 # 0
  <2>1. w.opcode = 115
    BY <1>3, MatchOpcode, OpcodeValues, Zenon
  <2>2. csr[w.func3 + 1] # "-"
    BY <1>3 DEF MatchFunc3
  <2>3. \A f \in 0 .. 7 : csr[f + 1] # "-" => f # 0
    OBVIOUS
  <2>4. w.func3 \in 0 .. 7
    BY DEF InstWord
  <2> QED
    BY <2>1, <2>2, <2>3, <2>4, Zenon
<1>4. ASSUME NEW r, Sys(r) PROVE w.opcode = 115 /\ w.func3 = 0
  BY <1>4, MatchOpcode, OpcodeValues DEF Any
<1>5. CASE Sys(p) /\ Sys(q)
  <2>3. PICK a \in SystemOps : MatchOne(w, p, a[1], OPCODE_SYSTEM, 0, 7, a[2])
    BY <1>5
  <2>4. PICK b \in SystemOps : MatchOne(w, q, b[1], OPCODE_SYSTEM, 0, 7, b[2])
    BY <1>5
  <2>5. /\ p = P(a[1], OPCODE_SYSTEM, 0, 7, a[2]) /\ q = P(b[1], OPCODE_SYSTEM, 0, 7, b[2])
        /\ w.func7 \div 2^(7 - 7) = a[2] /\ w.func7 \div 2^(7 - 7) = b[2]
    BY <2>3, <2>4 DEF MatchOne
  <2>6. a[2] = b[2] /\ p.op = a[1] /\ q.op = b[1]
    BY <2>5 DEF P
  <2>7. w.rs2 \in RegFields(p.op, w).rs2 /\ w.rs2 \in RegFields(q.op, w).rs2
    BY DEF Matches
  <2>8. a[1] = b[1]
    BY <2>6, <2>7 DEF SystemOps, RegFields, Whole
  <2> QED
    BY <2>5, <2>6, <2>8
<1> HIDE DEF csr, fence, Sys
<1> QED
  BY <1>1, <1>2, <1>3, <1>4, <1>5, SameMatch

LEMMA OnePattern ==
  ASSUME NEW w \in InstWord, NEW p \in Patterns, NEW q \in Patterns, Matches(p, w), Matches(q, w)
  PROVE  p = q
<1>1. FormsOf(w, p) /\ FormsOf(w, q)
  BY FormsByOpcode
<1>2. w.func3 \in 0 .. 7 /\ w.func7 \in 0 .. 127
  BY DEF InstWord
<1>3. CASE w.opcode = 47
  <2>1. AmoForms(w, p) /\ AmoForms(w, q)
    BY <1>1, <1>3 DEF FormsOf
  <2>2. PICK a \in AmoOps, f \in {2, 3} : MatchOne(w, p, a[1], OPCODE_AMO, f, 5, a[2])
    BY <2>1 DEF AmoForms
  <2>3. PICK b \in AmoOps, g \in {2, 3} : MatchOne(w, q, b[1], OPCODE_AMO, g, 5, b[2])
    BY <2>1 DEF AmoForms
  <2>4. f = g /\ a[2] = b[2] /\ p = P(a[1], OPCODE_AMO, f, 5, a[2]) /\ q = P(b[1], OPCODE_AMO, g, 5, b[2])
    BY <2>2, <2>3 DEF MatchOne, Any
  <2>5. a[1] = b[1]
    BY <2>4 DEF AmoOps
  <2> QED
    BY <2>4, <2>5
<1>4. CASE w.opcode \in {15, 115}
  <2>1. SystemForms(w, p) /\ SystemForms(w, q)
    BY <1>1, <1>4 DEF FormsOf
  <2> QED
    BY <2>1, OneSystem
<1>5. CASE w.opcode \in {55, 23, 111, 3, 35, 103, 99}
  <2>1. \/ w.opcode = 55 \/ w.opcode = 23 \/ w.opcode = 111 \/ w.opcode = 3 \/ w.opcode = 35
        \/ w.opcode = 103 \/ w.opcode = 99
    BY <1>5
  <2> QED
    BY <1>1, <2>1, SameMatch DEF FormsOf
<1>6. CASE w.opcode = 19
  <2> DEFINE ops == <<"ADD", "-", "SLT", "SLTU", "XOR", "-", "OR", "AND">>
             A(r) == MatchFunc3(w, r, OPCODE_OP_IMM, ops)
             B(r) == MatchOne(w, r, "SLL", OPCODE_OP_IMM, 1, 6, 0)
             C(r) == MatchOne(w, r, "SRL", OPCODE_OP_IMM, 5, 6, 0)
             D(r) == MatchOne(w, r, "SRA", OPCODE_OP_IMM, 5, 6, 16)
  <2>1. (A(p) \/ B(p) \/ C(p) \/ D(p)) /\ (A(q) \/ B(q) \/ C(q) \/ D(q))
    BY <1>1, <1>6 DEF FormsOf, OpImmForms
  <2>2. ASSUME NEW r, A(r) PROVE w.func3 # 1 /\ w.func3 # 5
    <3>1. ops[w.func3 + 1] # "-"
      BY <2>2 DEF MatchFunc3
    <3>2. \A f \in 0 .. 7 : ops[f + 1] # "-" => f # 1 /\ f # 5
      OBVIOUS
    <3> QED
      BY <1>2, <3>1, <3>2, Zenon
  <2>3. ASSUME NEW r PROVE /\ B(r) => w.func3 = 1
                           /\ C(r) => w.func3 = 5 /\ w.func7 \div 2^(7 - 6) = 0
                           /\ D(r) => w.func3 = 5 /\ w.func7 \div 2^(7 - 6) = 16
    BY DEF MatchOne, Any
  <2>4. (A(p) /\ A(q)) \/ (B(p) /\ B(q)) \/ (C(p) /\ C(q)) \/ (D(p) /\ D(q))
    <3> HIDE DEF A, B, C, D
    <3> QED
      BY <2>1, <2>2, <2>3
  <2> QED
    BY <2>4, SameMatch, Zenon
<1>7. CASE w.opcode = 27
  <2> DEFINE add == <<"ADD", "-", "-", "-", "-", "-", "-", "-">>
             s0 == <<"-", "SLL", "-", "-", "-", "SRL", "-", "-">>
             s32 == <<"-", "-", "-", "-", "-", "SRA", "-", "-">>
             A(r) == MatchFunc3(w, r, OPCODE_OP_IMM_32, add)
             B(r) == MatchFunc7(w, r, OPCODE_OP_IMM_32, 0, s0)
             C(r) == MatchFunc7(w, r, OPCODE_OP_IMM_32, 32, s32)
  <2>1. (A(p) \/ B(p) \/ C(p)) /\ (A(q) \/ B(q) \/ C(q))
    BY <1>1, <1>7 DEF FormsOf, OpImm32Forms
  <2>2. ASSUME NEW r PROVE /\ A(r) => add[w.func3 + 1] # "-"
                           /\ B(r) => s0[w.func3 + 1] # "-" /\ w.func7 = 0
                           /\ C(r) => s32[w.func3 + 1] # "-" /\ w.func7 = 32
    BY DEF MatchFunc3, MatchFunc7
  <2>3. /\ \A f \in 0 .. 7 : add[f + 1] # "-" => f = 0
        /\ \A f \in 0 .. 7 : s0[f + 1] # "-" => f # 0
        /\ \A f \in 0 .. 7 : s32[f + 1] # "-" => f # 0
    OBVIOUS
  <2>4. (A(p) /\ A(q)) \/ (B(p) /\ B(q)) \/ (C(p) /\ C(q))
    <3> HIDE DEF A, B, C, add, s0, s32
    <3> QED
      BY <1>2, <2>1, <2>2, <2>3
  <2> QED
    BY <2>4, SameMatch, Zenon
<1>8. CASE w.opcode = 51
  <2> DEFINE A(r) == MatchFunc7(w, r, OPCODE_OP, 0, <<"ADD", "SLL", "SLT", "SLTU", "XOR", "SRL", "OR", "AND">>)
             B(r) == MatchFunc7(w, r, OPCODE_OP, 32, <<"SUB", "-", "-", "-", "-", "SRA", "-", "-">>)
             C(r) == MatchFunc7(w, r, OPCODE_OP, 1, <<"MUL", "MULH", "MULHSU", "MULHU", "DIV", "DIVU", "REM", "REMU">>)
  <2>1. (A(p) \/ B(p) \/ C(p)) /\ (A(q) \/ B(q) \/ C(q))
    BY <1>1, <1>8 DEF FormsOf, OpRegForms
  <2>2. ASSUME NEW r PROVE (A(r) => w.func7 = 0) /\ (B(r) => w.func7 = 32) /\ (C(r) => w.func7 = 1)
    BY MatchOpcode, Zenon
  <2>3. (A(p) /\ A(q)) \/ (B(p) /\ B(q)) \/ (C(p) /\ C(q))
    <3> HIDE DEF A, B, C
    <3> QED
      BY <2>1, <2>2
  <2> QED
    BY <2>3, SameMatch, Zenon
<1>9. CASE w.opcode = 59
  <2> DEFINE A(r) == MatchFunc7(w, r, OPCODE_OP_32, 0, <<"ADD", "SLL", "-", "-", "-", "SRL", "-", "-">>)
             B(r) == MatchFunc7(w, r, OPCODE_OP_32, 32, <<"SUB", "-", "-", "-", "-", "SRA", "-", "-">>)
             C(r) == MatchFunc7(w, r, OPCODE_OP_32, 1, <<"MUL", "-", "-", "-", "DIV", "DIVU", "REM", "REMU">>)
  <2>1. (A(p) \/ B(p) \/ C(p)) /\ (A(q) \/ B(q) \/ C(q))
    BY <1>1, <1>9 DEF FormsOf, OpReg32Forms
  <2>2. ASSUME NEW r PROVE (A(r) => w.func7 = 0) /\ (B(r) => w.func7 = 32) /\ (C(r) => w.func7 = 1)
    BY MatchOpcode, Zenon
  <2>3. (A(p) /\ A(q)) \/ (B(p) /\ B(q)) \/ (C(p) /\ C(q))
    <3> HIDE DEF A, B, C
    <3> QED
      BY <2>1, <2>2
  <2> QED
    BY <2>3, SameMatch, Zenon
<1>10. w.opcode \in {47, 15, 115, 55, 23, 111, 3, 35, 103, 99, 19, 27, 51, 59}
  BY <1>1 DEF FormsOf
<1> QED
  BY <1>3, <1>4, <1>5, <1>6, <1>7, <1>8, <1>9, <1>10

(* The operation is that of a pattern.                                     *)
LEMMA EmuOpIs ==
  ASSUME NEW w \in InstWord, EmuOp(w) # "illegal"
  PROVE  \E p \in Patterns : Matches(p, w) /\ FormsOf(w, p) /\ EmuOp(w) = p.op
<1> DEFINE m == {p \in Patterns : Matches(p, w)}
<1>1. m # {} /\ EmuOp(w) = (CHOOSE p \in m : TRUE).op
  BY DEF EmuOp
<1>2. (CHOOSE p \in m : TRUE) \in m
  BY <1>1
<1> QED
  BY <1>1, <1>2, FormsByOpcode

-----------------------------------------------------------------------------
(* What the patterns say, by opcode: the fields of a word and the          *)
(* operation they stand for.                                               *)
OpImmRow(w, op) ==
  \/ w.func3 = 0 /\ op = "ADD"
  \/ w.func3 = 2 /\ op = "SLT"
  \/ w.func3 = 3 /\ op = "SLTU"
  \/ w.func3 = 4 /\ op = "XOR"
  \/ w.func3 = 6 /\ op = "OR"
  \/ w.func3 = 7 /\ op = "AND"
  \/ w.func3 = 1 /\ w.func7 \div 2 = 0 /\ op = "SLL"
  \/ w.func3 = 5 /\ w.func7 \div 2 = 0 /\ op = "SRL"
  \/ w.func3 = 5 /\ w.func7 \div 2 = 16 /\ op = "SRA"

OpImm32Row(w, op) ==
  \/ w.func3 = 0 /\ op = "ADD"
  \/ w.func3 = 1 /\ w.func7 = 0 /\ op = "SLL"
  \/ w.func3 = 5 /\ w.func7 = 0 /\ op = "SRL"
  \/ w.func3 = 5 /\ w.func7 = 32 /\ op = "SRA"

(* Arithmetic on registers.                                                *)
AluRow(w, op) ==
  \/ w.func7 = 32 /\ w.func3 = 0 /\ op = "SUB"
  \/ w.func7 = 32 /\ w.func3 = 5 /\ op = "SRA"
  \/ w.func7 = 0 /\ w.func3 = 0 /\ op = "ADD"
  \/ w.func7 = 0 /\ w.func3 = 1 /\ op = "SLL"
  \/ w.func7 = 0 /\ w.func3 = 5 /\ op = "SRL"

CompareRow(w, op) ==
  /\ w.func7 = 0
  /\ \/ w.func3 = 2 /\ op = "SLT"
     \/ w.func3 = 3 /\ op = "SLTU"
     \/ w.func3 = 4 /\ op = "XOR"
     \/ w.func3 = 6 /\ op = "OR"
     \/ w.func3 = 7 /\ op = "AND"

MulDivRow(w, op) ==
  /\ w.func7 = 1
  /\ \/ w.func3 = 0 /\ op = "MUL"
     \/ w.func3 = 1 /\ op = "MULH"
     \/ w.func3 = 2 /\ op = "MULHSU"
     \/ w.func3 = 3 /\ op = "MULHU"
     \/ w.func3 = 4 /\ op = "DIV"
     \/ w.func3 = 5 /\ op = "DIVU"
     \/ w.func3 = 6 /\ op = "REM"
     \/ w.func3 = 7 /\ op = "REMU"

LoadRow(w, op) ==
  \/ w.func3 = 0 /\ op = "LB"
  \/ w.func3 = 1 /\ op = "LH"
  \/ w.func3 = 2 /\ op = "LW"
  \/ w.func3 = 3 /\ op = "LD"
  \/ w.func3 = 4 /\ op = "LBU"
  \/ w.func3 = 5 /\ op = "LHU"
  \/ w.func3 = 6 /\ op = "LWU"

StoreRow(w, op) ==
  \/ w.func3 = 0 /\ op = "SB"
  \/ w.func3 = 1 /\ op = "SH"
  \/ w.func3 = 2 /\ op = "SW"
  \/ w.func3 = 3 /\ op = "SD"

BranchRow(w, op) ==
  \/ w.func3 = 0 /\ op = "BEQ"
  \/ w.func3 = 1 /\ op = "BNE"
  \/ w.func3 = 4 /\ op = "BLT"
  \/ w.func3 = 5 /\ op = "BGE"
  \/ w.func3 = 6 /\ op = "BLTU"
  \/ w.func3 = 7 /\ op = "BGEU"

AmoRow(w, op) == w.func3 \in {2, 3} /\ <<op, w.func7 \div 4>> \in AmoOps

Func3Row(w, ops, op) == ops[w.func3 + 1] = op /\ op # "-" /\ w.func3 \in 0 .. 7
Func7Row(w, func7, ops, op) == w.func7 = func7 /\ Func3Row(w, ops, op)

LEMMA RowOfMatch ==
  ASSUME NEW w \in InstWord, NEW p
  PROVE  /\ \A oc, ops : MatchFunc3(w, p, oc, ops) => Func3Row(w, ops, p.op)
         /\ \A oc, f7, ops : MatchFunc7(w, p, oc, f7, ops) => Func7Row(w, f7, ops, p.op)
         /\ \A op, oc, f3, fix, top : MatchOne(w, p, op, oc, f3, fix, top) => p.op = op /\ w.func7 \div 2^(7 - fix) = top
<1>1. w.func3 \in 0 .. 7
  BY DEF InstWord
<1>2. \A op, oc, f3, fix, top : P(op, oc, f3, fix, top).op = op
  BY DEF P
<1>3. ASSUME NEW oc, NEW ops, MatchFunc3(w, p, oc, ops) PROVE Func3Row(w, ops, p.op)
  BY <1>1, <1>2, <1>3 DEF MatchFunc3, Func3Row
<1>4. ASSUME NEW oc, NEW f7, NEW ops, MatchFunc7(w, p, oc, f7, ops) PROVE Func7Row(w, f7, ops, p.op)
  BY <1>1, <1>2, <1>4 DEF MatchFunc7, Func7Row, Func3Row
<1>5. ASSUME NEW op, NEW oc, NEW f3, NEW fix, NEW top, MatchOne(w, p, op, oc, f3, fix, top)
      PROVE  p.op = op /\ w.func7 \div 2^(7 - fix) = top
  BY <1>2, <1>5 DEF MatchOne
<1> QED
  BY <1>3, <1>4, <1>5, Zenon

LEMMA OpImmRows ==
  ASSUME NEW w \in InstWord, NEW p, OpImmForms(w, p)
  PROVE  OpImmRow(w, p.op)
<1> DEFINE ops == <<"ADD", "-", "SLT", "SLTU", "XOR", "-", "OR", "AND">>
<1>1. CASE MatchFunc3(w, p, OPCODE_OP_IMM, ops)
  <2>1. Func3Row(w, ops, p.op)
    BY <1>1, RowOfMatch, Zenon
  <2> QED
    BY <2>1 DEF Func3Row, OpImmRow
<1>2. 7 - 6 = 1 /\ 2^1 = 2
  BY SmallPowers
<1>3. CASE MatchOne(w, p, "SLL", OPCODE_OP_IMM, 1, 6, 0)
  <2>1. p.op = "SLL" /\ w.func7 \div 2^(7 - 6) = 0 /\ 1 \in {Any, w.func3}
    BY <1>3, RowOfMatch, MatchOpcode, Zenon
  <2> QED
    BY <1>2, <2>1 DEF OpImmRow, Any
<1>4. CASE MatchOne(w, p, "SRL", OPCODE_OP_IMM, 5, 6, 0)
  <2>1. p.op = "SRL" /\ w.func7 \div 2^(7 - 6) = 0 /\ 5 \in {Any, w.func3}
    BY <1>4, RowOfMatch, MatchOpcode, Zenon
  <2> QED
    BY <1>2, <2>1 DEF OpImmRow, Any
<1>5. CASE MatchOne(w, p, "SRA", OPCODE_OP_IMM, 5, 6, 16)
  <2>1. p.op = "SRA" /\ w.func7 \div 2^(7 - 6) = 16
    BY <1>5 DEF MatchOne, P
  <2>2. 5 \in {Any, w.func3}
    BY <1>5, MatchOpcode
  <2> QED
    BY <1>2, <2>1, <2>2 DEF OpImmRow, Any
<1> QED
  BY <1>1, <1>3, <1>4, <1>5 DEF OpImmForms

LEMMA OpImm32Rows ==
  ASSUME NEW w \in InstWord, NEW p, OpImm32Forms(w, p)
  PROVE  OpImm32Row(w, p.op)
<1> DEFINE add == <<"ADD", "-", "-", "-", "-", "-", "-", "-">>
           s0 == <<"-", "SLL", "-", "-", "-", "SRL", "-", "-">>
           s32 == <<"-", "-", "-", "-", "-", "SRA", "-", "-">>
<1>1. Func3Row(w, add, p.op) \/ Func7Row(w, 0, s0, p.op) \/ Func7Row(w, 32, s32, p.op)
  BY RowOfMatch, Zenon DEF OpImm32Forms
<1> QED
  BY <1>1 DEF Func3Row, Func7Row, OpImm32Row

LEMMA OpRegRows ==
  ASSUME NEW w \in InstWord, NEW p, OpRegForms(w, p)
  PROVE  AluRow(w, p.op) \/ CompareRow(w, p.op) \/ MulDivRow(w, p.op)
<1> DEFINE plain == <<"ADD", "SLL", "SLT", "SLTU", "XOR", "SRL", "OR", "AND">>
           sub == <<"SUB", "-", "-", "-", "-", "SRA", "-", "-">>
           muldiv == <<"MUL", "MULH", "MULHSU", "MULHU", "DIV", "DIVU", "REM", "REMU">>
<1>1. Func7Row(w, 0, plain, p.op) \/ Func7Row(w, 32, sub, p.op) \/ Func7Row(w, 1, muldiv, p.op)
  BY RowOfMatch, Zenon DEF OpRegForms
<1>2. Func7Row(w, 0, plain, p.op) => AluRow(w, p.op) \/ CompareRow(w, p.op)
  BY DEF Func3Row, Func7Row, AluRow, CompareRow
<1>3. Func7Row(w, 32, sub, p.op) => AluRow(w, p.op)
  BY DEF Func3Row, Func7Row, AluRow
<1>4. Func7Row(w, 1, muldiv, p.op) => MulDivRow(w, p.op)
  BY DEF Func3Row, Func7Row, MulDivRow
<1> QED
  BY <1>1, <1>2, <1>3, <1>4, Zenon

LEMMA OpReg32Rows ==
  ASSUME NEW w \in InstWord, NEW p, OpReg32Forms(w, p)
  PROVE  AluRow(w, p.op) \/ (MulDivRow(w, p.op) /\ w.func3 \notin {1, 2, 3})
<1> DEFINE plain == <<"ADD", "SLL", "-", "-", "-", "SRL", "-", "-">>
           sub == <<"SUB", "-", "-", "-", "-", "SRA", "-", "-">>
           muldiv == <<"MUL", "-", "-", "-", "DIV", "DIVU", "REM", "REMU">>
<1>1. Func7Row(w, 0, plain, p.op) \/ Func7Row(w, 32, sub, p.op) \/ Func7Row(w, 1, muldiv, p.op)
  BY RowOfMatch, Zenon DEF OpReg32Forms
<1>2. Func7Row(w, 0, plain, p.op) => AluRow(w, p.op)
  BY DEF Func3Row, Func7Row, AluRow
<1>3. Func7Row(w, 32, sub, p.op) => AluRow(w, p.op)
  BY DEF Func3Row, Func7Row, AluRow
<1>4. Func7Row(w, 1, muldiv, p.op) => MulDivRow(w, p.op) /\ w.func3 \notin {1, 2, 3}
  BY DEF Func3Row, Func7Row, MulDivRow
<1> QED
  BY <1>1, <1>2, <1>3, <1>4, Zenon

LEMMA AmoRows ==
  ASSUME NEW w \in InstWord, NEW p, AmoForms(w, p)
  PROVE  AmoRow(w, p.op)
<1>1. PICK a \in AmoOps, f \in {2, 3} : MatchOne(w, p, a[1], OPCODE_AMO, f, 5, a[2])
  BY DEF AmoForms
<1>2. p.op = a[1] /\ w.func7 \div 2^(7 - 5) = a[2] /\ f \in {Any, w.func3}
  BY <1>1, RowOfMatch, MatchOpcode, Zenon
<1>3. 7 - 5 = 2 /\ 2^2 = 4 /\ w.func3 \in {2, 3}
  BY <1>2, SmallPowers DEF Any, InstWord
<1>4. a = <<a[1], a[2]>>
  BY DEF AmoOps
<1> QED
  BY <1>2, <1>3, <1>4 DEF AmoRow

(* The operation of a legal word, by opcode.                               *)
Row(w, op) ==
  /\ w.opcode \in {19, 27, 51, 59, 55, 23, 3, 35, 111, 103, 99, 47, 15, 115}
  /\ w.opcode = 19 => OpImmRow(w, op)
  /\ w.opcode = 27 => OpImm32Row(w, op)
  /\ w.opcode = 51 => AluRow(w, op) \/ CompareRow(w, op) \/ MulDivRow(w, op)
  /\ w.opcode = 59 => AluRow(w, op) \/ (MulDivRow(w, op) /\ w.func3 \notin {1, 2, 3})
  /\ w.opcode = 55 => op = "LUI"
  /\ w.opcode = 23 => op = "AUIPC"
  /\ w.opcode = 3 => LoadRow(w, op)
  /\ w.opcode = 35 => StoreRow(w, op)
  /\ w.opcode = 111 => op = "JAL"
  /\ w.opcode = 103 => w.func3 = 0 /\ op = "JALR"
  /\ w.opcode = 99 => BranchRow(w, op)
  /\ w.opcode = 47 => AmoRow(w, op)

LEMMA Rows ==
  ASSUME NEW w \in InstWord, EmuOp(w) # "illegal"
  PROVE  Row(w, EmuOp(w))
<1>1. PICK p \in Patterns : FormsOf(w, p) /\ EmuOp(w) = p.op
  BY EmuOpIs
<1>2. CASE w.opcode = 19
  <2>1. OpImmForms(w, p)
    BY <1>1, <1>2 DEF FormsOf
  <2> QED
    BY <1>1, <1>2, <2>1, OpImmRows DEF Row
<1>3. CASE w.opcode = 27
  <2>1. OpImm32Forms(w, p)
    BY <1>1, <1>3 DEF FormsOf
  <2> QED
    BY <1>1, <1>3, <2>1, OpImm32Rows DEF Row
<1>4. CASE w.opcode = 51
  <2>1. OpRegForms(w, p)
    BY <1>1, <1>4 DEF FormsOf
  <2> QED
    BY <1>1, <1>4, <2>1, OpRegRows DEF Row
<1>5. CASE w.opcode = 59
  <2>1. OpReg32Forms(w, p)
    BY <1>1, <1>5 DEF FormsOf
  <2> QED
    BY <1>1, <1>5, <2>1, OpReg32Rows DEF Row
<1>6. CASE w.opcode = 55
  <2>1. p.op = "LUI"
    BY <1>1, <1>6, RowOfMatch DEF FormsOf
  <2> QED
    BY <1>1, <1>6, <2>1 DEF Row
<1>7. CASE w.opcode = 23
  <2>1. p.op = "AUIPC"
    BY <1>1, <1>7, RowOfMatch DEF FormsOf
  <2> QED
    BY <1>1, <1>7, <2>1 DEF Row
<1>8. CASE w.opcode = 111
  <2>1. p.op = "JAL"
    BY <1>1, <1>8, RowOfMatch DEF FormsOf
  <2> QED
    BY <1>1, <1>8, <2>1 DEF Row
<1>9. CASE w.opcode = 3
  <2>1. Func3Row(w, <<"LB", "LH", "LW", "LD", "LBU", "LHU", "LWU", "-">>, p.op)
    BY <1>1, <1>9, RowOfMatch DEF FormsOf
  <2>2. LoadRow(w, p.op)
    BY <2>1 DEF Func3Row, LoadRow
  <2> QED
    BY <1>1, <1>9, <2>2 DEF Row
<1>10. CASE w.opcode = 35
  <2>1. Func3Row(w, <<"SB", "SH", "SW", "SD", "-", "-", "-", "-">>, p.op)
    BY <1>1, <1>10, RowOfMatch DEF FormsOf
  <2>2. StoreRow(w, p.op)
    BY <2>1 DEF Func3Row, StoreRow
  <2> QED
    BY <1>1, <1>10, <2>2 DEF Row
<1>11. CASE w.opcode = 103
  <2>1. Func3Row(w, <<"JALR", "-", "-", "-", "-", "-", "-", "-">>, p.op)
    BY <1>1, <1>11, RowOfMatch DEF FormsOf
  <2>2. w.func3 = 0 /\ p.op = "JALR"
    BY <2>1 DEF Func3Row
  <2> QED
    BY <1>1, <1>11, <2>2 DEF Row
<1>12. CASE w.opcode = 99
  <2>1. Func3Row(w, <<"BEQ", "BNE", "-", "-", "BLT", "BGE", "BLTU", "BGEU">>, p.op)
    BY <1>1, <1>12, RowOfMatch DEF FormsOf
  <2>2. BranchRow(w, p.op)
    BY <2>1 DEF Func3Row, BranchRow
  <2> QED
    BY <1>1, <1>12, <2>2 DEF Row
<1>13. CASE w.opcode = 47
  <2>1. AmoForms(w, p)
    BY <1>1, <1>13 DEF FormsOf
  <2> QED
    BY <1>1, <1>13, <2>1, AmoRows DEF Row
<1>14. CASE w.opcode \in {15, 115}
  BY <1>14 DEF Row
<1>15. w.opcode \in {19, 27, 51, 59, 55, 23, 3, 35, 111, 103, 99, 47, 15, 115}
  BY <1>1 DEF FormsOf
<1> QED
  BY <1>2, <1>3, <1>4, <1>5, <1>6, <1>7, <1>8, <1>9, <1>10, <1>11, <1>12, <1>13, <1>14, <1>15

-----------------------------------------------------------------------------
(* What the decoder makes of each opcode.                                  *)
LEMMA WideBit ==
  /\ ~Bool(51, 3) /\ Bool(59, 3) /\ ~Bool(19, 3) /\ Bool(27, 3) /\ ~Bool(55, 3) /\ ~Bool(23, 3)
  /\ \A x, k : Bool(x, k) \in BOOLEAN
  BY SmallPowers DEF Bool, BitVal

LEMMA LogicNames ==
  OPCODE_LOGIC_R64 = 51 /\ OPCODE_LOGIC_R32 = 59 /\ OPCODE_LOGIC_I64 = 19 /\ OPCODE_LOGIC_I32 = 27
  BY DEF OPCODE_LOGIC_R64, OPCODE_LOGIC_R32, OPCODE_LOGIC_I64, OPCODE_LOGIC_I32

LEMMA CtrlRegs ==
  ASSUME NEW w \in InstWord, w.opcode \in {51, 59}
  PROVE  LET c == decoder(w)
         IN  /\ c.rd_write /\ c.rs1_read /\ c.rs2_read
             /\ (c.illegal <=> IllegalR(w)) /\ c.is_32bit = Bool(w.opcode, 3)
             /\ c.opcode = 8 * BitVal(w.func7, 5) + w.func3 /\ c.op1 = "rs1" /\ c.op2 = "rs2"
             /\ c.unit = IF w.func7 # 1 THEN "alu" ELSE IF Bool(w.func3, 2) THEN "div" ELSE "mul"
<1>1. decoder(w) = [Ctrl0(w) EXCEPT !.rd_write = TRUE, !.rs1_read = TRUE, !.rs2_read = TRUE,
                       !.opcode = 8 * BitVal(w.func7, 5) + w.func3,
                       !.unit = IF w.func7 # 1 THEN "alu" ELSE IF Bool(w.func3, 2) THEN "div" ELSE "mul",
                       !.illegal = IllegalR(w)]
  BY OpcodeValues, LogicNames DEF decoder
<1> QED
  BY <1>1 DEF Ctrl0

LEMMA CtrlImms ==
  ASSUME NEW w \in InstWord, w.opcode \in {19, 27}
  PROVE  LET c == decoder(w)
         IN  /\ c.rd_write /\ c.rs1_read
             /\ (c.illegal <=> IllegalI(w)) /\ c.is_32bit = Bool(w.opcode, 3)
             /\ c.opcode = ImmOpcode(w) /\ c.op1 = "rs1" /\ c.op2 = "imm" /\ c.unit = "alu"
<1>1. decoder(w) = [Ctrl0(w) EXCEPT !.rd_write = TRUE, !.rs1_read = TRUE, !.op2 = "imm",
                       !.opcode = ImmOpcode(w), !.illegal = IllegalI(w)]
  BY OpcodeValues, LogicNames DEF decoder
<1> QED
  BY <1>1 DEF Ctrl0

LEMMA CtrlUpper ==
  ASSUME NEW w \in InstWord, w.opcode \in {55, 23}
  PROVE  LET c == decoder(w)
         IN  /\ c.rd_write /\ ~c.illegal /\ c.is_32bit = Bool(w.opcode, 3) /\ c.opcode = 0
             /\ c.op1 = (IF w.opcode = 55 THEN "zero" ELSE "pc") /\ c.op2 = "imm" /\ c.unit = "alu"
<1>1. CASE w.opcode = 55
  <2>1. decoder(w) = [Ctrl0(w) EXCEPT !.rd_write = TRUE, !.op1 = "zero", !.op2 = "imm", !.opcode = 0]
    BY <1>1, OpcodeValues, LogicNames DEF decoder
  <2> QED
    BY <1>1, <2>1 DEF Ctrl0
<1>2. CASE w.opcode = 23
  <2>1. decoder(w) = [Ctrl0(w) EXCEPT !.rd_write = TRUE, !.op1 = "pc", !.op2 = "imm", !.opcode = 0]
    BY <1>2, OpcodeValues, LogicNames DEF decoder
  <2> QED
    BY <1>2, <2>1 DEF Ctrl0
<1> QED
  BY <1>1, <1>2

LEMMA CtrlJumps ==
  ASSUME NEW w \in InstWord, w.opcode \in {111, 103, 99}
  PROVE  LET c == decoder(w)
         IN  /\ (c.rd_write <=> (w.opcode # 99)) /\ c.opcode = w.func3
             /\ (c.rs1_read <=> (w.opcode # 111)) /\ (c.rs2_read <=> (w.opcode = 99))
             /\ w.opcode = 111 => ~c.illegal
             /\ w.opcode = 103 /\ w.func3 = 0 => ~c.illegal
             /\ w.opcode = 99 /\ w.func3 \notin {2, 3} => ~c.illegal
             /\ c.unit = IF w.opcode = 111 THEN "jal" ELSE IF w.opcode = 103 THEN "jalr" ELSE "branch"
<1>1. CASE w.opcode = 111
  <2>1. decoder(w) = [Ctrl0(w) EXCEPT !.rd_write = TRUE, !.unit = "jal"]
    BY <1>1, OpcodeValues, LogicNames DEF decoder
  <2> QED
    BY <1>1, <2>1 DEF Ctrl0
<1>2. CASE w.opcode = 103
  <2> DEFINE ill == w.func3 # 0
  <2>1. decoder(w) = [Ctrl0(w) EXCEPT !.rd_write = TRUE, !.rs1_read = TRUE, !.unit = "jalr", !.illegal = ill]
    BY <1>2, OpcodeValues, LogicNames DEF decoder
  <2>2. /\ decoder(w).illegal <=> ill
        /\ decoder(w).unit = "jalr" /\ decoder(w).rs1_read
        /\ decoder(w).rd_write /\ ~decoder(w).rs2_read /\ decoder(w).opcode = w.func3
    <3> HIDE DEF ill
    <3> QED
      BY <2>1 DEF Ctrl0
  <2> QED
    BY <1>2, <2>2
<1>3. CASE w.opcode = 99
  <2> DEFINE ill == w.func3 \in {2, 3}
  <2>1. decoder(w) = [Ctrl0(w) EXCEPT !.rs1_read = TRUE, !.rs2_read = TRUE, !.unit = "branch",
                                      !.illegal = ill]
    BY <1>3, OpcodeValues, LogicNames DEF decoder
  <2>2. /\ decoder(w).illegal <=> ill
        /\ decoder(w).unit = "branch" /\ decoder(w).rs1_read
        /\ ~decoder(w).rd_write /\ decoder(w).rs2_read /\ decoder(w).opcode = w.func3
    <3> HIDE DEF ill
    <3> QED
      BY <2>1 DEF Ctrl0
  <2> QED
    BY <1>3, <2>2
<1> QED
  BY <1>1, <1>2, <1>3

LEMMA CtrlAccess ==
  ASSUME NEW w \in InstWord, w.opcode \in {3, 35}
  PROVE  LET c == decoder(w)
         IN  /\ (c.rd_write <=> (w.opcode = 3)) /\ c.rs1_read /\ (c.rs2_read <=> (w.opcode = 35))
             /\ w.opcode = 3 /\ w.func3 # 7 => ~c.illegal
             /\ w.opcode = 35 /\ ~Bool(w.func3, 2) => ~c.illegal
             /\ c.mem_opcode = w.func3
             /\ c.unit = IF w.opcode = 3 THEN "load" ELSE "store"
<1>1. CASE w.opcode = 3
  <2> DEFINE ill == w.func3 = 7
  <2>1. decoder(w) = [Ctrl0(w) EXCEPT !.rd_write = TRUE, !.rs1_read = TRUE, !.unit = "load", !.illegal = ill]
    BY <1>1, OpcodeValues, LogicNames DEF decoder
  <2>2. /\ decoder(w).illegal <=> ill
        /\ decoder(w).unit = "load" /\ decoder(w).rs1_read
        /\ decoder(w).rd_write /\ ~decoder(w).rs2_read /\ decoder(w).mem_opcode = w.func3
    <3> HIDE DEF ill
    <3> QED
      BY <2>1 DEF Ctrl0
  <2> QED
    BY <1>1, <2>2
<1>2. CASE w.opcode = 35
  <2>1. decoder(w) = [Ctrl0(w) EXCEPT !.rs1_read = TRUE, !.rs2_read = TRUE, !.unit = "store",
                                      !.illegal = Bool(w.func3, 2)]
    BY <1>2, OpcodeValues, LogicNames DEF decoder
  <2> QED
    BY <1>2, <2>1 DEF Ctrl0
<1> QED
  BY <1>1, <1>2

LEMMA CtrlAmo ==
  ASSUME NEW w \in InstWord, w.opcode = 47
  PROVE  LET c == decoder(w)
             f5 == w.func7 \div 4
         IN  /\ c.rd_write /\ c.rs1_read /\ (c.rs2_read <=> (f5 # 2))
             /\ (c.illegal <=> (w.func3 \notin {2, 3})) /\ c.is_32bit = (w.func3 = 2) /\ c.opcode = f5
             /\ c.mem_opcode = IF w.func3 = 2 THEN 2 ELSE 3
             /\ c.unit = IF f5 = 2 THEN "lr" ELSE IF f5 = 3 THEN "sc" ELSE "amo"
<1> DEFINE f5 == w.func7 \div 4
           reads == f5 # 2
           half == w.func3 = 2
           ill == w.func3 \notin {2, 3}
           size == IF w.func3 = 2 THEN 2 ELSE 3
           unit == IF f5 = 2 THEN "lr" ELSE IF f5 = 3 THEN "sc" ELSE "amo"
<1>1. decoder(w) = [Ctrl0(w) EXCEPT !.rd_write = TRUE, !.rs1_read = TRUE, !.rs2_read = reads, !.opcode = f5,
                                    !.unit = unit, !.is_32bit = half, !.mem_opcode = size, !.illegal = ill]
  <2>1. decoder(w) = AmoCtrl(w)
    BY OpcodeValues, LogicNames DEF decoder
  <2> QED
    BY <2>1, Zenon DEF AmoCtrl
<1>2. /\ decoder(w).rd_write /\ decoder(w).rs1_read /\ (decoder(w).rs2_read <=> reads)
      /\ (decoder(w).illegal <=> ill) /\ decoder(w).is_32bit = half /\ decoder(w).opcode = f5
      /\ decoder(w).mem_opcode = size /\ decoder(w).unit = unit
  <2> HIDE DEF f5, reads, half, ill, size, unit
  <2> QED
    BY <1>1 DEF Ctrl0
<1> QED
  BY <1>2, Zenon

-----------------------------------------------------------------------------
(* The ALU.                                                                *)
LEMMA WordType == ASSUME NEW x \in Words PROVE x \in Nat /\ x \in Int /\ x % 2^XLEN = x
  BY XlenPowers, SmallResidue DEF Words

LEMMA ResidueType == ASSUME NEW x \in Int PROVE x % 2^XLEN \in Words
<1>1. PICK p \in Nat \ {0} : p = 2^XLEN
  BY XlenPowers
<1> QED
  BY <1>1, DivMod DEF Words

LEMMA ShiftAmount == ASSUME NEW b \in Words, NEW w \in Widths PROVE b % w \in Nat /\ 2^(b % w) \in Nat \ {0}
<1>1. w \in Nat \ {0} /\ b \in Int
  BY WidthType, WordType
<1>2. b % w \in Nat
  BY <1>1, DivMod
<1> QED
  BY <1>2, PowerType

LEMMA QuotientType == ASSUME NEW x \in Nat, NEW d \in Nat \ {0} PROVE x \div d \in 0 .. x
<1>1. PICK q \in Int, r \in 0 .. d - 1 : x = d * q + r /\ q = x \div d
  BY DivMod
<1>2. q >= 0
  <2> SUFFICES ASSUME q <= -1 PROVE FALSE
    BY <1>1
  <2>1. d * q <= d * (-1)
    OBVIOUS
  <2> QED
    BY <1>1, <2>1
<1>3. d * q >= q
  <2>1. PICK e \in Nat : d = e + 1
    OBVIOUS
  <2>2. e * q >= 0 /\ d * q = e * q + q
    BY <1>2, <2>1
  <2> QED
    BY <2>2
<1> QED
  BY <1>1, <1>2, <1>3

(* Truncating to the width before the sign extension changes nothing.      *)
LEMMA SextOfLow == ASSUME NEW x \in Int, NEW w \in Widths PROVE sext(x % 2^w, w) = sext(x, w)
<1>1. PICK p \in Nat \ {0} : p = 2^w
  BY WidthPowers
<1>2. x % p \in Int /\ x % p \in 0 .. p - 1
  BY DivMod
<1>3. (x % p) % p = x % p
  BY <1>2, SmallResidue
<1> QED
  BY <1>1, <1>2, <1>3, SameSext

(* The code of the ALU for each operation.                                 *)
AluCode(n, op) ==
  \/ n = 0 /\ op = "ADD"
  \/ n = 8 /\ op = "SUB"
  \/ n = 1 /\ op = "SLL"
  \/ n = 5 /\ op = "SRL"
  \/ n = 13 /\ op = "SRA"

CompareCode(n, op) ==
  \/ n = 2 /\ op = "SLT"
  \/ n = 3 /\ op = "SLTU"
  \/ n = 4 /\ op = "XOR"
  \/ n = 6 /\ op = "OR"
  \/ n = 7 /\ op = "AND"

AluOut(n, half, a, b) == LET out == alu64(n, half, a, b) IN IF half THEN sext(out, HALF) ELSE out

LEMMA CompareSame ==
  ASSUME NEW n, NEW op, NEW half \in BOOLEAN, NEW a, NEW b, ~half, CompareCode(n, op)
  PROVE  AluOut(n, half, a, b) = EmuAlu(op, Width(half), a, b)
  BY DEF CompareCode, AluOut, alu64, EmuAlu

LEMMA SumSame ==
  ASSUME NEW half \in BOOLEAN, NEW a \in Words, NEW b \in Words
  PROVE  /\ AluOut(0, half, a, b) = EmuAlu("ADD", Width(half), a, b)
         /\ AluOut(8, half, a, b) = EmuAlu("SUB", Width(half), a, b)
<1>1. PICK v \in Int, u \in Int : v = a + b /\ u = a - b
  BY WordType
<1>2. /\ alu64(0, half, a, b) = v % 2^XLEN /\ alu64(8, half, a, b) = u % 2^XLEN
      /\ EmuAlu("ADD", Width(half), a, b) = sext(v, Width(half))
      /\ EmuAlu("SUB", Width(half), a, b) = sext(u, Width(half))
  BY <1>1 DEF alu64, EmuAlu
<1>3. \A raw : raw = v % 2^XLEN => (IF half THEN sext(raw, HALF) ELSE raw) = sext(v, Width(half))
  BY Output
<1>4. \A raw : raw = u % 2^XLEN => (IF half THEN sext(raw, HALF) ELSE raw) = sext(u, Width(half))
  BY Output
<1> QED
  BY <1>2, <1>3, <1>4, Zenon DEF AluOut

LEMMA ShiftSame ==
  ASSUME NEW half \in BOOLEAN, NEW a \in Words, NEW b \in Words
  PROVE  /\ AluOut(1, half, a, b) = EmuAlu("SLL", Width(half), a, b)
         /\ AluOut(5, half, a, b) = EmuAlu("SRL", Width(half), a, b)
         /\ AluOut(13, half, a, b) = EmuAlu("SRA", Width(half), a, b)
<1>1. XLEN \in Widths /\ HALF \in Widths
  BY DEF Widths
<1>2. CASE half
  <2>1. PICK d \in Nat \ {0}, m \in Nat \ {0}, h \in Nat, z \in Int :
          d = 2^(b % HALF) /\ m = 2^HALF /\ h = a % m /\ z = SignedVal(a, HALF)
    <3>1. 2^(b % HALF) \in Nat \ {0} /\ 2^HALF \in Nat \ {0}
      BY <1>1, ShiftAmount, WidthPowers
    <3>2. a \in Int /\ SignedVal(a, HALF) \in Int
      BY <1>1, WordType, SignedResidue
    <3>3. PICK m \in Nat \ {0} : m = 2^HALF
      BY <3>1
    <3>4. a % m \in Nat
      BY <3>2, DivMod
    <3> QED
      BY <3>1, <3>2, <3>3, <3>4
  <2>2. h * d \in Int /\ h \div d \in Int /\ z \div d \in Int
    <3>1. h \in Int /\ d \in Int
      OBVIOUS
    <3> QED
      BY <3>1, DivMod
  <2>3. /\ alu64(1, half, a, b) = (h * d) % 2^HALF
        /\ alu64(5, half, a, b) = h \div d
        /\ alu64(13, half, a, b) = (z \div d) % 2^HALF
    BY <1>2, <2>1 DEF alu64
  <2>4. /\ EmuAlu("SLL", HALF, a, b) = sext(h * d, HALF)
        /\ EmuAlu("SRL", HALF, a, b) = sext(h \div d, HALF)
        /\ EmuAlu("SRA", HALF, a, b) = sext(z \div d, HALF)
    BY <2>1 DEF EmuAlu
  <2>5. /\ sext((h * d) % 2^HALF, HALF) = sext(h * d, HALF)
        /\ sext((z \div d) % 2^HALF, HALF) = sext(z \div d, HALF)
    BY <1>1, <2>2, SextOfLow
  <2> QED
    BY <1>2, <2>3, <2>4, <2>5, Zenon DEF AluOut, Width
<1>3. CASE ~half
  <2>1. PICK d \in Nat \ {0}, z \in Int : d = 2^(b % XLEN) /\ z = SignedVal(a, XLEN)
    <3>1. a \in Int
      BY WordType
    <3> QED
      BY <1>1, <3>1, ShiftAmount, SignedResidue
  <2>2. a \in Nat /\ a \in Int /\ a % 2^XLEN = a
    BY WordType
  <2>3. a * d \in Int /\ a \div d \in Int /\ z \div d \in Int
    <3>1. d \in Int
      OBVIOUS
    <3> QED
      BY <2>2, <3>1, DivMod
  <2>4. (a \div d) % 2^XLEN = a \div d
    <3>1. PICK p \in Nat \ {0} : p = 2^XLEN
      BY XlenPowers
    <3>2. a \div d \in 0 .. p - 1
      <4>1. a \div d \in 0 .. a /\ a \in 0 .. p - 1
        BY <2>2, <3>1, QuotientType DEF Words
      <4> QED
        BY <4>1
    <3> QED
      BY <3>1, <3>2, SmallResidue
  <2>5. /\ alu64(1, half, a, b) = (a * d) % 2^XLEN
        /\ alu64(5, half, a, b) = a \div d
        /\ alu64(13, half, a, b) = (z \div d) % 2^XLEN
    BY <1>3, <2>1 DEF alu64, Signed
  <2>6. /\ EmuAlu("SLL", XLEN, a, b) = sext(a * d, XLEN)
        /\ EmuAlu("SRL", XLEN, a, b) = sext(a \div d, XLEN)
        /\ EmuAlu("SRA", XLEN, a, b) = sext(z \div d, XLEN)
    BY <2>1, <2>2 DEF EmuAlu
  <2>7. /\ sext(a * d, XLEN) = (a * d) % 2^XLEN
        /\ sext(a \div d, XLEN) = (a \div d) % 2^XLEN
        /\ sext(z \div d, XLEN) = (z \div d) % 2^XLEN
    BY <2>3, SextFull
  <2> QED
    BY <1>3, <2>4, <2>5, <2>6, <2>7, Zenon DEF AluOut, Width
<1> QED
  BY <1>2, <1>3

LEMMA AluSame ==
  ASSUME NEW n, NEW op, NEW half \in BOOLEAN, NEW a \in Words, NEW b \in Words,
         AluCode(n, op) \/ (~half /\ CompareCode(n, op))
  PROVE  AluOut(n, half, a, b) = EmuAlu(op, Width(half), a, b)
<1>1. CASE AluCode(n, op)
  <2>1. CASE n = 0 /\ op = "ADD"
    BY <2>1, SumSame, Zenon
  <2>2. CASE n = 8 /\ op = "SUB"
    BY <2>2, SumSame, Zenon
  <2>3. CASE n = 1 /\ op = "SLL"
    BY <2>3, ShiftSame, Zenon
  <2>4. CASE n = 5 /\ op = "SRL"
    BY <2>4, ShiftSame, Zenon
  <2>5. CASE n = 13 /\ op = "SRA"
    BY <2>5, ShiftSame, Zenon
  <2> QED
    BY <1>1, <2>1, <2>2, <2>3, <2>4, <2>5 DEF AluCode
<1>2. CASE ~half /\ CompareCode(n, op)
  BY <1>2, CompareSame
<1> QED
  BY <1>1, <1>2

LEMMA MulDivSame ==
  ASSUME NEW op, NEW half \in BOOLEAN, NEW a, NEW b,
         op \in {"MUL", "MULH", "MULHSU", "MULHU", "DIV", "DIVU", "REM", "REMU"}
  PROVE  EmuAlu(op, Width(half), a, b) = MulDiv(op, half, a, b)
<1>1. (Width(half) = HALF) = half
  BY MulDivAssumption DEF Width
<1>2. EmuAlu(op, Width(half), a, b) = MulDiv(op, Width(half) = HALF, a, b)
  BY DEF EmuAlu
<1> QED
  BY <1>1, <1>2, Zenon

-----------------------------------------------------------------------------
(* One opcode after the other, the RTL does what the emulator does.        *)
SameAs(w) ==
  LET c == decoder(w)
  IN  /\ ~c.illegal
      /\ UsesRs1(w) => c.rs1_read
      /\ UsesRs2(w) => c.rs2_read
      /\ c.rd_write <=> WritesRd(w)
      /\ \A s \in Operands(w) : RtlEffect(w, s) = EmuEffect(w, s)

LEMMA OperandTypes ==
  ASSUME NEW w, NEW s \in Operands(w)
  PROVE  /\ s.rs1 \in Words /\ s.rs2 \in Words /\ s.imm \in Words /\ s.pc \in Words /\ s.pc % 4 = 0
         /\ w.opcode # 47 /\ w.opcode \in {111, 99} => s.imm % 2 = 0
         /\ w.opcode = 47 => s.data \in Words /\ s.rs1 % (IF w.func3 = 2 THEN 4 ELSE 8) = 0
<1>1. Inputs \subseteq Words /\ Imms \subseteq Words /\ \A x \in Pcs : x \in Words /\ x % 4 = 0
  BY MulDivAssumption, DecoderAssumption
<1>2. CASE w.opcode = 47
  <2> DEFINE size == IF w.func3 = 2 THEN 4 ELSE 8
  <2>1. s \in [rs1 : {x \in Inputs : x % size = 0}, rs2 : Inputs, imm : Imms, pc : Pcs, data : Inputs]
    BY <1>2, OpcodeValues DEF Operands
  <2>2. s.rs1 % size = 0
    <3> HIDE DEF size
    <3> QED
      BY <2>1
  <2> QED
    BY <1>1, <1>2, <2>1, <2>2
<1>3. CASE w.opcode # 47
  <2>1. s \in [rs1 : Inputs, rs2 : Inputs, pc : Pcs, data : {0},
               imm : {x \in Imms : w.opcode \in {111, 99} => x % 2 = 0}]
    BY <1>3, OpcodeValues DEF Operands
  <2> QED
    BY <1>1, <1>3, <2>1
<1> QED
  BY <1>2, <1>3

LEMMA Uses ==
  ASSUME NEW w \in InstWord
  PROVE  /\ UsesRs1(w) <=> w.opcode \notin {55, 23, 111}
         /\ UsesRs2(w) => w.opcode \in {99, 35, 51, 59, 47} /\ EmuOp(w) # "LR"
         /\ WritesRd(w) <=> w.opcode \notin {99, 35}
  BY OpcodeValues DEF UsesRs1, UsesRs2, WritesRd

(* The result of the ALU, for the codes the decoder gives it.              *)
LEMMA AluEffect ==
  ASSUME NEW w \in InstWord, NEW s, NEW op, NEW n, NEW a \in Words, NEW b \in Words,
         decoder(w).unit = "alu", decoder(w).is_32bit = Bool(w.opcode, 3), decoder(w).opcode = n, n % 16 = n,
         AluCode(n, op) \/ (~Bool(w.opcode, 3) /\ CompareCode(n, op)),
         a = (CASE decoder(w).op1 = "zero" -> 0 [] decoder(w).op1 = "pc" -> s.pc [] OTHER -> s.rs1),
         b = (IF decoder(w).op2 = "imm" THEN s.imm ELSE s.rs2)
  PROVE  RtlEffect(w, s) = Effect("none", EmuAlu(op, Width(Bool(w.opcode, 3)), a, b), Next4(s), NoMem)
<1>1. RtlEffect(w, s) = Effect("none", alu(decoder(w), a, b), Next4(s), NoMem)
  BY DEF RtlEffect
<1>2. alu(decoder(w), a, b) = AluOut(n, Bool(w.opcode, 3), a, b)
  BY Zenon DEF alu, AluOut
<1>3. Bool(w.opcode, 3) \in BOOLEAN
  BY WideBit
<1>4. AluOut(n, Bool(w.opcode, 3), a, b) = EmuAlu(op, Width(Bool(w.opcode, 3)), a, b)
  <2> DEFINE half == Bool(w.opcode, 3)
  <2>1. half \in BOOLEAN /\ (AluCode(n, op) \/ (~half /\ CompareCode(n, op)))
    BY <1>3
  <2> HIDE DEF half
  <2>2. AluOut(n, half, a, b) = EmuAlu(op, Width(half), a, b)
    BY <2>1, AluSame
  <2> QED
    BY <2>2 DEF half
<1> QED
  BY <1>1, <1>2, <1>4, Zenon

EmuWidth(w) == IF w.opcode \in {OPCODE_OP_32, OPCODE_OP_IMM_32} THEN HALF ELSE XLEN

LEMMA EmuArith ==
  ASSUME NEW w \in InstWord, NEW s, EmuOp(w) \notin {"LUI", "AUIPC", "JAL", "JALR"}
  PROVE  /\ w.opcode \in {19, 27} =>
              EmuEffect(w, s) = Effect("none", EmuAlu(EmuOp(w), Width(Bool(w.opcode, 3)), s.rs1, s.imm), Next4(s), NoMem)
         /\ w.opcode \in {51, 59} =>
              EmuEffect(w, s) = Effect("none", EmuAlu(EmuOp(w), Width(Bool(w.opcode, 3)), s.rs1, s.rs2), Next4(s), NoMem)
<1>1. /\ w.opcode \in {19, 27} =>
           EmuEffect(w, s) = Effect("none", EmuAlu(EmuOp(w), EmuWidth(w), s.rs1, s.imm), Next4(s), NoMem)
      /\ w.opcode \in {51, 59} =>
           EmuEffect(w, s) = Effect("none", EmuAlu(EmuOp(w), EmuWidth(w), s.rs1, s.rs2), Next4(s), NoMem)
  BY OpcodeValues DEF EmuEffect, EmuWidth
<1>2. w.opcode \in {19, 27, 51, 59} => EmuWidth(w) = Width(Bool(w.opcode, 3))
  BY OpcodeValues, WideBit DEF EmuWidth, Width
<1> QED
  BY <1>1, <1>2

LEMMA FieldBits ==
  ASSUME NEW f \in 0 .. 127
  PROVE  /\ f \in {0, 1} \/ f \div 2 = 0 => BitVal(f, 5) = 0
         /\ f = 32 \/ f \div 2 = 16 => BitVal(f, 5) = 1
  BY SmallPowers DEF BitVal

LEMMA ImmediateSame ==
  ASSUME NEW w \in InstWord, w.opcode \in {19, 27}, Row(w, EmuOp(w))
  PROVE  SameAs(w)
<1> DEFINE op == EmuOp(w)
           n == ImmOpcode(w)
           half == Bool(w.opcode, 3)
<1>1. OpImmRow(w, op) \/ (w.opcode = 27 /\ OpImm32Row(w, op))
  BY DEF Row
<1>2. w.func7 \in 0 .. 127 /\ w.func3 \in 0 .. 7
  BY DEF InstWord
<1>3. half <=> w.opcode = 27
  BY WideBit
<1>4. w.opcode = 27 => OpImm32Row(w, op)
  BY DEF Row
<1>5. /\ n % 16 = n /\ (AluCode(n, op) \/ (~half /\ CompareCode(n, op)))
      /\ op \notin {"LUI", "AUIPC", "JAL", "JALR"}
  <2>1. CASE w.opcode = 27
    BY <1>2, <1>4, <2>1, FieldBits DEF OpImm32Row, ImmOpcode, AluCode
  <2>2. CASE w.opcode = 19
    <3>1. OpImmRow(w, op) /\ ~half
      BY <1>1, <1>3, <2>2
    <3> HIDE DEF half
    <3> QED
      BY <1>2, <3>1, FieldBits DEF OpImmRow, ImmOpcode, AluCode, CompareCode
  <2> QED
    BY <2>1, <2>2
<1>6. ~IllegalI(w)
  <2>1. CASE w.opcode = 27
    BY <1>3, <1>4, <2>1 DEF OpImm32Row, IllegalI
  <2>2. CASE w.opcode = 19
    BY <1>1, <1>3, <2>2 DEF OpImmRow, IllegalI
  <2> QED
    BY <2>1, <2>2
<1>7. ASSUME NEW s \in Operands(w) PROVE RtlEffect(w, s) = EmuEffect(w, s)
  <2>1. s.rs1 \in Words /\ s.imm \in Words
    BY OperandTypes
  <2>2. /\ decoder(w).unit = "alu" /\ decoder(w).is_32bit = half /\ decoder(w).opcode = n
        /\ decoder(w).op1 = "rs1" /\ decoder(w).op2 = "imm"
    BY CtrlImms
  <2>3. RtlEffect(w, s) = Effect("none", EmuAlu(op, Width(half), s.rs1, s.imm), Next4(s), NoMem)
    <3> HIDE DEF n, op
    <3> QED
      BY <1>5, <2>1, <2>2, AluEffect
  <2> QED
    BY <1>5, <2>3, EmuArith
<1> QED
  BY <1>6, <1>7, CtrlImms, Uses DEF SameAs

LEMMA RegisterSame ==
  ASSUME NEW w \in InstWord, w.opcode \in {51, 59}, Row(w, EmuOp(w))
  PROVE  SameAs(w)
<1> DEFINE op == EmuOp(w)
           n == 8 * BitVal(w.func7, 5) + w.func3
           half == Bool(w.opcode, 3)
<1>1. AluRow(w, op) \/ (~half /\ CompareRow(w, op)) \/ (MulDivRow(w, op) /\ (half => w.func3 \notin {1, 2, 3}))
  BY WideBit DEF Row
<1>2. w.func7 \in 0 .. 127 /\ w.func3 \in 0 .. 7
  BY DEF InstWord
<1>3. /\ decoder(w).is_32bit = half /\ decoder(w).opcode = n
      /\ decoder(w).op1 = "rs1" /\ decoder(w).op2 = "rs2"
      /\ decoder(w).unit = IF w.func7 # 1 THEN "alu" ELSE IF Bool(w.func3, 2) THEN "div" ELSE "mul"
  BY CtrlRegs
<1>4. half \in BOOLEAN
  BY WideBit
<1>5. ~IllegalR(w)
  <2>1. w.func7 \in {0, 1, 32} /\ (w.func7 = 1 => (half => w.func3 \notin {1, 2, 3}))
    <3> HIDE DEF half, op
    <3> QED
      BY <1>1 DEF AluRow, CompareRow, MulDivRow
  <2> QED
    BY <2>1 DEF IllegalR
<1>6. ASSUME NEW s \in Operands(w) PROVE RtlEffect(w, s) = EmuEffect(w, s)
  <2>1. s.rs1 \in Words /\ s.rs2 \in Words
    BY OperandTypes
  <2>2. op \notin {"LUI", "AUIPC", "JAL", "JALR"}
    <3> HIDE DEF half, op
    <3> QED
      BY <1>1 DEF AluRow, CompareRow, MulDivRow
  <2>3. EmuEffect(w, s) = Effect("none", EmuAlu(op, Width(half), s.rs1, s.rs2), Next4(s), NoMem)
    BY <2>2, EmuArith
  <2>4. CASE AluRow(w, op) \/ (~half /\ CompareRow(w, op))
    <3>1. /\ n % 16 = n /\ (AluCode(n, op) \/ (~half /\ CompareCode(n, op)))
          /\ w.func7 # 1
      <4> HIDE DEF half, op
      <4> QED
        BY <1>2, <2>4, FieldBits DEF AluRow, CompareRow, AluCode, CompareCode
    <3>2. decoder(w).unit = "alu"
      BY <1>3, <3>1
    <3>3. RtlEffect(w, s) = Effect("none", EmuAlu(op, Width(half), s.rs1, s.rs2), Next4(s), NoMem)
      <4> HIDE DEF n, op
      <4> QED
        BY <1>3, <2>1, <3>1, <3>2, AluEffect
    <3> QED
      BY <2>3, <3>3
  <2>5. CASE MulDivRow(w, op)
    <3>1. w.func7 = 1 /\ n = w.func3
      BY <1>2, <2>5, FieldBits DEF MulDivRow
    <3>2. /\ Bool(w.func3, 2) => DivNames[(n % 4) + 1] = op
          /\ ~Bool(w.func3, 2) => MulNames[(n % 4) + 1] = op
      <4> HIDE DEF n, op
      <4>1. Bool(w.func3, 2) <=> w.func3 >= 4
        BY <1>2, SmallPowers DEF Bool, BitVal
      <4>2. \A f \in 0 .. 7 : (f < 4 => f % 4 = f) /\ (f >= 4 => f % 4 = f - 4)
        OBVIOUS
      <4>3. /\ w.func3 >= 4 => (n % 4) + 1 = w.func3 - 3
            /\ w.func3 < 4 => (n % 4) + 1 = w.func3 + 1
        BY <1>2, <3>1, <4>2
      <4>4. w.func3 >= 4 => DivNames[w.func3 - 3] = op
        BY <2>5 DEF MulDivRow, DivNames
      <4>5. w.func3 < 4 => MulNames[w.func3 + 1] = op
        BY <2>5 DEF MulDivRow, MulNames
      <4> QED
        BY <1>2, <4>1, <4>3, <4>4, <4>5
    <3>3. RtlEffect(w, s) = Effect("none", MulDiv(op, half, s.rs1, s.rs2), Next4(s), NoMem)
      <4> HIDE DEF n, op, half
      <4> QED
        BY <1>3, <3>1, <3>2 DEF RtlEffect
    <3>4. op \in {"MUL", "MULH", "MULHSU", "MULHU", "DIV", "DIVU", "REM", "REMU"}
      BY <2>5 DEF MulDivRow
    <3> QED
      BY <1>4, <2>3, <3>3, <3>4, MulDivSame
  <2> QED
    BY <1>1, <2>4, <2>5
<1> QED
  BY <1>5, <1>6, CtrlRegs, Uses DEF SameAs

LEMMA UpperSame ==
  ASSUME NEW w \in InstWord, w.opcode \in {55, 23}, Row(w, EmuOp(w))
  PROVE  SameAs(w)
<1>1. EmuOp(w) = IF w.opcode = 55 THEN "LUI" ELSE "AUIPC"
  BY DEF Row
<1>2. ~Bool(w.opcode, 3)
  BY WideBit
<1>3. ASSUME NEW s \in Operands(w) PROVE RtlEffect(w, s) = EmuEffect(w, s)
  <2>1. s.imm \in Words /\ s.pc \in Words
    BY OperandTypes
  <2> DEFINE a == IF w.opcode = 55 THEN 0 ELSE s.pc
  <2>2. a \in Words /\ a \in Int /\ s.imm \in Int /\ s.imm % 2^XLEN = s.imm
    <3>1. 0 \in Words
      BY XlenPowers DEF Words
    <3> QED
      BY <2>1, <3>1, WordType
  <2>3. RtlEffect(w, s) = Effect("none", EmuAlu("ADD", Width(Bool(w.opcode, 3)), a, s.imm), Next4(s), NoMem)
    <3>1. /\ decoder(w).unit = "alu" /\ decoder(w).is_32bit = Bool(w.opcode, 3) /\ decoder(w).opcode = 0
          /\ decoder(w).op1 = (IF w.opcode = 55 THEN "zero" ELSE "pc") /\ decoder(w).op2 = "imm"
      BY CtrlUpper
    <3>2. a = (CASE decoder(w).op1 = "zero" -> 0 [] decoder(w).op1 = "pc" -> s.pc [] OTHER -> s.rs1)
      BY <3>1
    <3>3. AluCode(0, "ADD") /\ 0 % 16 = 0
      BY DEF AluCode
    <3> HIDE DEF a
    <3> QED
      BY <2>1, <2>2, <3>1, <3>2, <3>3, AluEffect
  <2>4. EmuAlu("ADD", Width(Bool(w.opcode, 3)), a, s.imm) = (a + s.imm) % 2^XLEN
    <3>1. Width(Bool(w.opcode, 3)) = XLEN
      BY <1>2 DEF Width
    <3>2. EmuAlu("ADD", XLEN, a, s.imm) = sext(a + s.imm, XLEN)
      BY DEF EmuAlu
    <3>3. a + s.imm \in Int
      BY <2>2
    <3> QED
      BY <3>1, <3>2, <3>3, SextFull, Zenon
  <2>5. EmuEffect(w, s) = Effect("none", (a + s.imm) % 2^XLEN, Next4(s), NoMem)
    <3>1. CASE w.opcode = 55
      <4>1. a + s.imm = s.imm
        BY <2>2, <3>1
      <4>2. EmuEffect(w, s) = Effect("none", s.imm, Next4(s), NoMem)
        <5>1. EmuOp(w) = "LUI"
          BY <1>1, <3>1
        <5> QED
          BY <3>1, <5>1, OpcodeValues DEF EmuEffect
      <4> QED
        BY <2>2, <4>1, <4>2, Zenon
    <3>2. CASE w.opcode = 23
      <4>1. EmuOp(w) = "AUIPC"
        BY <1>1, <3>2
      <4>2. EmuEffect(w, s) = Effect("none", (s.pc + s.imm) % 2^XLEN, Next4(s), NoMem)
        BY <3>2, <4>1, OpcodeValues DEF EmuEffect
      <4> QED
        BY <3>2, <4>2
    <3> QED
      BY <3>1, <3>2
  <2> QED
    BY <2>3, <2>4, <2>5, Zenon
<1> QED
  BY <1>3, CtrlUpper, Uses DEF SameAs

(* An even target is misaligned when bit 1 is set.                         *)
LEMMA EvenTarget ==
  ASSUME NEW t \in Nat, t % 2 = 0
  PROVE  t - (t % 2) = t /\ (Bool(t, 1) <=> t % 4 # 0)
  BY SmallPowers DEF Bool, BitVal

LEMMA EvenSum ==
  ASSUME NEW x \in Words, NEW y \in Words, (x + y) % 2 = 0
  PROVE  (x + y) % 2^XLEN \in Nat /\ ((x + y) % 2^XLEN) % 2 = 0
<1>1. PICK p \in Nat \ {0}, h \in Nat \ {0} : p = 2^XLEN /\ p = 2 * h
  BY XlenPowers
<1>2. PICK z \in Int : z = x + y
  BY WordType
<1>3. (z % p) % 2 = z % 2
  BY <1>1, <1>2, ResidueOfResidue
<1>4. z % p \in Nat
  BY <1>2, DivMod
<1> QED
  BY <1>1, <1>2, <1>3, <1>4

LEMMA BranchTaken ==
  ASSUME NEW w \in InstWord, NEW op, NEW s, s.rs1 \in Words, s.rs2 \in Words, BranchRow(w, op)
  PROVE  branch_result(w.func3, s) <=> Taken(op, s)
<1> DEFINE less == Signed(s.rs1) < Signed(s.rs2)
           below == s.rs1 < s.rs2
           same == s.rs1 = s.rs2
           f == w.func3
<1>1. /\ Bool(0, 0) = FALSE /\ Bool(1, 0) = TRUE /\ Bool(4, 0) = FALSE
      /\ Bool(5, 0) = TRUE /\ Bool(6, 0) = FALSE /\ Bool(7, 0) = TRUE
  BY SmallPowers DEF Bool, BitVal
<1>2. /\ f = 0 => (branch_result(f, s) <=> same # Bool(0, 0))
      /\ f = 1 => (branch_result(f, s) <=> same # Bool(1, 0))
      /\ f = 4 => (branch_result(f, s) <=> less # Bool(4, 0))
      /\ f = 5 => (branch_result(f, s) <=> less # Bool(5, 0))
      /\ f = 6 => (branch_result(f, s) <=> below # Bool(6, 0))
      /\ f = 7 => (branch_result(f, s) <=> below # Bool(7, 0))
  <2> HIDE DEF less, below, same
  <2> QED
    BY DEF branch_result, less, below, same
<1>3. /\ Taken("BEQ", s) <=> same
      /\ Taken("BNE", s) <=> ~same
      /\ Taken("BLT", s) <=> less
      /\ Taken("BGE", s) <=> Signed(s.rs1) >= Signed(s.rs2)
      /\ Taken("BLTU", s) <=> below
      /\ Taken("BGEU", s) <=> s.rs1 >= s.rs2
  BY DEF Taken
<1>4. (Signed(s.rs1) >= Signed(s.rs2) <=> ~less) /\ (s.rs1 >= s.rs2 <=> ~below)
  <2>1. s.rs1 \in Int /\ s.rs2 \in Int
    BY WordType
  <2>2. Signed(s.rs1) \in Int /\ Signed(s.rs2) \in Int
    BY <2>1, XlenPowers, SignedResidue DEF Signed
  <2> QED
    BY <2>1, <2>2
<1> HIDE DEF less, below, same, f
<1>5. /\ f = 0 => (branch_result(f, s) <=> same)
      /\ f = 1 => (branch_result(f, s) <=> ~same)
      /\ f = 4 => (branch_result(f, s) <=> less)
      /\ f = 5 => (branch_result(f, s) <=> ~less)
      /\ f = 6 => (branch_result(f, s) <=> below)
      /\ f = 7 => (branch_result(f, s) <=> ~below)
  <2>1. \A b \in BOOLEAN : ((b # FALSE) <=> b) /\ ((b # TRUE) <=> ~b)
    OBVIOUS
  <2>2. same \in BOOLEAN /\ less \in BOOLEAN /\ below \in BOOLEAN
    BY DEF same, less, below
  <2>3. f = 0 => (branch_result(f, s) <=> same)
    BY <1>1, <1>2, <2>1, <2>2, Zenon
  <2>4. f = 1 => (branch_result(f, s) <=> ~same)
    BY <1>1, <1>2, <2>1, <2>2, Zenon
  <2>5. f = 4 => (branch_result(f, s) <=> less)
    BY <1>1, <1>2, <2>1, <2>2, Zenon
  <2>6. f = 5 => (branch_result(f, s) <=> ~less)
    BY <1>1, <1>2, <2>1, <2>2, Zenon
  <2>7. f = 6 => (branch_result(f, s) <=> below)
    BY <1>1, <1>2, <2>1, <2>2, Zenon
  <2>8. f = 7 => (branch_result(f, s) <=> ~below)
    BY <1>1, <1>2, <2>1, <2>2, Zenon
  <2> QED
    BY <2>3, <2>4, <2>5, <2>6, <2>7, <2>8, Zenon
<1> QED
  BY <1>3, <1>4, <1>5 DEF BranchRow, f

LEMMA JumpSame ==
  ASSUME NEW w \in InstWord, w.opcode \in {111, 103, 99}, Row(w, EmuOp(w))
  PROVE  SameAs(w)
<1> DEFINE c == decoder(w)
           op == EmuOp(w)
<1>1. /\ w.opcode = 111 => op = "JAL"
      /\ w.opcode = 103 => op = "JALR" /\ w.func3 = 0
      /\ w.opcode = 99 => BranchRow(w, op)
  BY DEF Row
<1>2. w.opcode = 99 => w.func3 \notin {2, 3}
  BY <1>1 DEF BranchRow
<1>3. ~c.illegal
  BY <1>1, <1>2, CtrlJumps
<1>4. ASSUME NEW s \in Operands(w) PROVE RtlEffect(w, s) = EmuEffect(w, s)
  <2>1. s.rs1 \in Words /\ s.rs2 \in Words /\ s.imm \in Words /\ s.pc \in Words
    BY OperandTypes
  <2>2. w.opcode # 103 => (s.pc + s.imm) % 2 = 0
    <3>1. w.opcode # 103 => s.pc % 4 = 0 /\ s.imm % 2 = 0
      BY OperandTypes
    <3> QED
      BY <2>1, <3>1, WordType
  <2>3. RtlEffect(w, s) = RtlJump(c, s)
    BY CtrlJumps DEF RtlEffect
  <2>4. CASE w.opcode = 111 \/ (w.opcode = 99 /\ Taken(op, s))
    <3> DEFINE t == (s.pc + s.imm) % 2^XLEN
               rd == IF w.opcode = 111 THEN Next4(s) ELSE NoRd
    <3>1. t \in Nat /\ t % 2 = 0
      BY <2>1, <2>2, <2>4, EvenSum
    <3>2. EmuEffect(w, s) = JumpTo(t, rd)
      <4> HIDE DEF t
      <4>1. CASE w.opcode = 111
        BY <1>1, <4>1, OpcodeValues DEF EmuEffect, t
      <4>2. CASE w.opcode = 99
        <5>1. op \notin {"LUI", "AUIPC", "JAL", "JALR"}
          BY <1>1, <4>2 DEF BranchRow
        <5> QED
          BY <2>4, <4>2, <5>1, OpcodeValues DEF EmuEffect, t
      <4> QED
        BY <2>4, <4>1, <4>2
    <3>3. c.unit \in {"jal", "jalr"} \/ branch_result(c.opcode, s)
      <4>1. CASE w.opcode = 111
        BY <4>1, CtrlJumps
      <4>2. CASE w.opcode = 99 /\ Taken(op, s)
        <5>1. branch_result(w.func3, s)
          BY <1>1, <2>1, <4>2, BranchTaken
        <5> QED
          BY <4>2, <5>1, CtrlJumps
      <4> QED
        BY <2>4, <4>1, <4>2
    <3>4. jump_pc(c, s) = t
      <4>1. c.unit # "jalr"
        BY <2>4, CtrlJumps
      <4>2. jump_pc(c, s) = t - (t % 2)
        BY <4>1 DEF jump_pc
      <4> HIDE DEF t
      <4> QED
        BY <3>1, <4>2, EvenTarget
    <3>5. c.rd_write <=> w.opcode = 111
      BY <2>4, CtrlJumps
    <3>6. Bool(t, 1) <=> t % 4 # 0
      <4> HIDE DEF t
      <4> QED
        BY <3>1, EvenTarget
    <3>7. RtlJump(c, s) = Effect(IF t % 4 # 0 THEN "INST_ADDR_MISALIGNED" ELSE "none", rd, t, NoMem)
      <4> HIDE DEF t, c
      <4> QED
        BY <3>3, <3>4, <3>5, <3>6 DEF RtlJump
    <3> QED
      BY <2>3, <3>2, <3>7, Zenon DEF JumpTo
  <2>5. CASE w.opcode = 99 /\ ~Taken(op, s)
    <3>1. op \notin {"LUI", "AUIPC", "JAL", "JALR"}
      BY <1>1, <2>5 DEF BranchRow
    <3>2. EmuEffect(w, s) = Effect("none", NoRd, Next4(s), NoMem)
      BY <2>5, <3>1, OpcodeValues DEF EmuEffect
    <3>3. ~branch_result(w.func3, s)
      BY <1>1, <2>1, <2>5, BranchTaken
    <3>4. c.unit = "branch" /\ c.opcode = w.func3 /\ ~c.rd_write
      BY <2>5, CtrlJumps
    <3>5. RtlJump(c, s) = Effect("none", NoRd, Next4(s), NoMem)
      <4> HIDE DEF c
      <4> QED
        BY <3>3, <3>4 DEF RtlJump
    <3> QED
      BY <2>3, <3>2, <3>5
  <2>6. CASE w.opcode = 103
    <3> DEFINE sum == (s.rs1 + s.imm) % 2^XLEN
               t == sum - (sum % 2)
    <3>1. sum \in Nat
      <4>1. s.rs1 + s.imm \in Int
        BY <2>1, WordType
      <4> QED
        BY <4>1, ResidueType, WordType
    <3>2. t \in Nat /\ t % 2 = 0
      <4> HIDE DEF sum
      <4> QED
        BY <3>1
    <3>3. EmuEffect(w, s) = JumpTo(t, Next4(s))
      <4>1. (s.imm + s.rs1) % 2^XLEN = sum
        BY <2>1, WordType
      <4>2. EmuEffect(w, s) = LET u == (s.imm + s.rs1) % 2^XLEN IN JumpTo(u - (u % 2), Next4(s))
        BY <1>1, <2>6, OpcodeValues DEF EmuEffect
      <4> QED
        BY <4>1, <4>2, Zenon
    <3>4. c.unit = "jalr" /\ c.rd_write
      BY <2>6, CtrlJumps
    <3>5. jump_pc(c, s) = t
      BY <3>4 DEF jump_pc
    <3>6. Bool(t, 1) <=> t % 4 # 0
      <4> HIDE DEF t
      <4> QED
        BY <3>2, EvenTarget
    <3>7. RtlJump(c, s) = Effect(IF t % 4 # 0 THEN "INST_ADDR_MISALIGNED" ELSE "none", Next4(s), t, NoMem)
      <4> HIDE DEF t, c
      <4> QED
        BY <3>4, <3>5, <3>6 DEF RtlJump
    <3> QED
      BY <2>3, <3>3, <3>7, Zenon DEF JumpTo
  <2> QED
    BY <2>4, <2>5, <2>6
<1> QED
  BY <1>3, <1>4, CtrlJumps, Uses DEF SameAs

(* Loads and stores: an aligned access selects the bytes from its address. *)
LEMMA LanesAligned ==
  ASSUME NEW m \in 0 .. 7, NEW a \in Nat, NEW size \in {1, 2, 4, 8}, size = 2^(m % 4), a % size = 0
  PROVE  Lanes(m, a) = a
<1>1. Lanes(m, a) = (a - (a % 8)) + ((a % 8) \div size) * size
  BY DEF Lanes
<1>2. ((a % 8) \div size) * size = a % 8
  <2>1. CASE size = 1
    BY <2>1
  <2>2. CASE size = 2
    BY <2>2
  <2>3. CASE size = 4
    BY <2>3
  <2>4. CASE size = 8
    BY <2>4
  <2> QED
    BY <2>1, <2>2, <2>3, <2>4
<1> QED
  BY <1>1, <1>2

LEMMA SizePower ==
  ASSUME NEW m \in 0 .. 7
  PROVE  /\ m \in {0, 4} => 2^(m % 4) = 1
         /\ m \in {1, 5} => 2^(m % 4) = 2
         /\ m \in {2, 6} => 2^(m % 4) = 4
         /\ m \in {3, 7} => 2^(m % 4) = 8
         /\ 2^(m % 4) \in {1, 2, 4, 8}
<1>1. /\ m \in {0, 4} => m % 4 = 0
      /\ m \in {1, 5} => m % 4 = 1
      /\ m \in {2, 6} => m % 4 = 2
      /\ m \in {3, 7} => m % 4 = 3
  OBVIOUS
<1>2. 2^0 = 1 /\ 2^1 = 2 /\ 2^2 = 4 /\ 2^3 = 8
  BY SmallPowers
<1>3. m \in {0, 4} \/ m \in {1, 5} \/ m \in {2, 6} \/ m \in {3, 7}
  OBVIOUS
<1> QED
  BY <1>1, <1>2, <1>3, Zenon

LEMMA AccessSize ==
  ASSUME NEW w \in InstWord, NEW op, LoadRow(w, op) \/ StoreRow(w, op)
  PROVE  SizeOf(op) = 2^(w.func3 % 4)
<1>1. w.func3 \in 0 .. 7
  BY DEF InstWord
<1>2. \/ w.func3 \in {0, 4} /\ SizeOf(op) = 1
      \/ w.func3 \in {1, 5} /\ SizeOf(op) = 2
      \/ w.func3 \in {2, 6} /\ SizeOf(op) = 4
      \/ w.func3 \in {3, 7} /\ SizeOf(op) = 8
  BY DEF LoadRow, StoreRow, SizeOf
<1> QED
  BY <1>1, <1>2, SizePower

LEMMA LoadedBytes ==
  ASSUME NEW m \in 0 .. 7, NEW a \in Nat, NEW size \in {1, 2, 4, 8}, size = 2^(m % 4), a % size = 0,
         NEW ext \in BOOLEAN, size < 8 => (ext <=> ~Bool(m, 2))
  PROVE  mem_rdata(m, a) = LoadBytes(a, size, ext)
<1> DEFINE R(k) == IF k < size THEN a + k ELSE IF Bool(m, 2) THEN Zero ELSE 100 + a + size - 1
           E(k) == IF k < size THEN a + k ELSE IF ext THEN 100 + a + size - 1 ELSE Zero
<1>1. mem_rdata(m, a) = {<<k, R(k)>> : k \in 0 .. 7}
  BY LanesAligned DEF mem_rdata
<1>2. LoadBytes(a, size, ext) = {<<k, E(k)>> : k \in 0 .. 7}
  BY DEF LoadBytes
<1>3. ASSUME NEW k \in 0 .. 7 PROVE R(k) = E(k)
  <2>1. CASE k < size
    BY <2>1
  <2>2. CASE ~(k < size)
    <3>1. size < 8
      BY <2>2
    <3>2. CASE ext
      BY <2>2, <3>1, <3>2
    <3>3. CASE ~ext
      BY <2>2, <3>1, <3>3
    <3> QED
      BY <3>2, <3>3
  <2> QED
    BY <2>1, <2>2
<1> HIDE DEF R, E
<1> QED
  BY <1>1, <1>2, <1>3

LEMMA StoredBytes ==
  ASSUME NEW m \in 0 .. 7, NEW a \in Nat, NEW size \in {1, 2, 4, 8}, size = 2^(m % 4), a % size = 0
  PROVE  MEM_hwdata(m, a) = StoreBytes(a, size)
  BY LanesAligned DEF MEM_hwdata, StoreBytes

LEMMA Trapped ==
  ASSUME NEW trap, trap # "none", NEW rd, NEW pc, NEW mem, NEW mem2
  PROVE  Effect(trap, rd, pc, mem) = Effect(trap, rd, pc, mem2)
  BY DEF Effect

LEMMA AccessSame ==
  ASSUME NEW w \in InstWord, w.opcode \in {3, 35}, Row(w, EmuOp(w))
  PROVE  SameAs(w)
<1> DEFINE c == decoder(w)
           op == EmuOp(w)
           m == w.func3
           size == 2^(m % 4)
<1>1. (w.opcode = 3 => LoadRow(w, op)) /\ (w.opcode = 35 => StoreRow(w, op))
  BY DEF Row
<1>2. m \in 0 .. 7 /\ (w.opcode = 3 => m # 7) /\ (w.opcode = 35 => m < 4)
  BY <1>1 DEF LoadRow, StoreRow, InstWord
<1>3. Bool(m, 2) <=> m >= 4
  <2> HIDE DEF m
  <2> QED
    BY <1>2, SmallPowers DEF Bool, BitVal
<1>4. ~c.illegal
  BY <1>2, <1>3, CtrlAccess
<1>5. size \in {1, 2, 4, 8} /\ SizeOf(op) = size
  BY <1>1, <1>2, SizePower, AccessSize
<1>6. ASSUME NEW s \in Operands(w) PROVE RtlEffect(w, s) = EmuEffect(w, s)
  <2> DEFINE a == (s.rs1 + s.imm) % 2^XLEN
             Mem(kind, bytes) == [kind |-> kind, bytes |-> bytes, value |-> 0]
  <2>1. a \in Nat
    <3>1. s.rs1 + s.imm \in Int
      BY OperandTypes, WordType
    <3> QED
      BY <3>1, ResidueType, WordType
  <2>2. EmuEffect(w, s) = EmuMemory(op, w.opcode, w.func3, s)
    <3>1. op \notin {"LUI", "AUIPC", "JAL", "JALR"}
      BY <1>1 DEF LoadRow, StoreRow
    <3> QED
      BY <3>1, OpcodeValues DEF EmuEffect
  <2>7. op # "LR" /\ op # "SC"
    BY <1>1 DEF LoadRow, StoreRow
  <2>3. RtlEffect(w, s) = RtlMemory(c, s)
    BY CtrlAccess DEF RtlEffect
  <2>4. CASE w.opcode = 3
    <3> DEFINE ext == op \in {"LB", "LH", "LW"}
               trap == IF a % size = 0 THEN "none" ELSE "LOAD_ADDR_MISALIGNED"
    <3>1. EmuMemory(op, w.opcode, w.func3, s) = Load(s, a, size, ext)
      BY <1>5, <2>4, <2>7, OpcodeValues DEF EmuMemory
    <3>2. Load(s, a, size, ext) = Effect(trap, NoRd, Next4(s), Mem("load", LoadBytes(a, size, ext)))
      <4> HIDE DEF a, size, ext
      <4> QED
        BY DEF Load, Access
    <3>3. c.unit = "load" /\ c.mem_opcode = m
      BY <2>4, CtrlAccess
    <3>4. RtlMemory(c, s) = Effect(trap, NoRd, Next4(s), Mem("load", mem_rdata(m, a)))
      <4> HIDE DEF c
      <4> QED
        BY <3>3 DEF RtlMemory
    <3>5. ext \in BOOLEAN /\ (size < 8 => (ext <=> ~Bool(m, 2)))
      <4>1. size < 8 => m # 3
        <5>1. m = 3 => size = 8
          BY <1>2, SizePower
        <5> HIDE DEF size
        <5> QED
          BY <5>1
      <4>2. m # 3 => (ext <=> m < 4)
        BY <1>1, <2>4 DEF LoadRow
      <4> QED
        BY <1>2, <1>3, <4>1, <4>2
    <3>6. a % size = 0 => mem_rdata(m, a) = LoadBytes(a, size, ext)
      <4> HIDE DEF a, ext
      <4> QED
        BY <1>2, <1>5, <2>1, <3>5, LoadedBytes
    <3>7. Effect(trap, NoRd, Next4(s), Mem("load", mem_rdata(m, a)))
            = Effect(trap, NoRd, Next4(s), Mem("load", LoadBytes(a, size, ext)))
      <4>1. CASE a % size = 0
        BY <3>6, <4>1, Zenon
      <4>2. CASE a % size # 0
        <5>1. trap # "none"
          BY <4>2
        <5> HIDE DEF trap
        <5> QED
          BY <5>1, Trapped
      <4> QED
        BY <4>1, <4>2
    <3> QED
      BY <2>2, <2>3, <3>1, <3>2, <3>4, <3>7, Zenon
  <2>5. CASE w.opcode = 35
    <3> DEFINE trap == IF a % size = 0 THEN "none" ELSE "STORE_AMO_ADDR_MISALIGNED"
    <3>1. EmuMemory(op, w.opcode, w.func3, s) = Store("store", s, a, size)
      BY <1>5, <2>5, <2>7, OpcodeValues DEF EmuMemory
    <3>2. Store("store", s, a, size) = Effect(trap, NoRd, Next4(s), Mem("store", StoreBytes(a, size)))
      <4> HIDE DEF a, size
      <4> QED
        BY DEF Store, Access
    <3>3. c.unit = "store" /\ c.mem_opcode = m
      BY <2>5, CtrlAccess
    <3>4. RtlMemory(c, s) = Effect(trap, NoRd, Next4(s), Mem("store", MEM_hwdata(m, a)))
      <4> HIDE DEF c
      <4> QED
        BY <3>3 DEF RtlMemory
    <3>5. a % size = 0 => MEM_hwdata(m, a) = StoreBytes(a, size)
      <4> HIDE DEF a
      <4> QED
        BY <1>2, <1>5, <2>1, StoredBytes
    <3>6. Effect(trap, NoRd, Next4(s), Mem("store", MEM_hwdata(m, a)))
            = Effect(trap, NoRd, Next4(s), Mem("store", StoreBytes(a, size)))
      <4>1. CASE a % size = 0
        BY <3>5, <4>1, Zenon
      <4>2. CASE a % size # 0
        <5>1. trap # "none"
          BY <4>2
        <5> HIDE DEF trap
        <5> QED
          BY <5>1, Trapped
      <4> QED
        BY <4>1, <4>2
    <3> QED
      BY <2>2, <2>3, <3>1, <3>2, <3>4, <3>6, Zenon
  <2> QED
    BY <2>4, <2>5
<1> QED
  BY <1>4, <1>6, CtrlAccess, Uses DEF SameAs

-----------------------------------------------------------------------------
(* Every set of bits is a word.                                            *)
LowBits(x, n) == {k \in 0 .. n - 1 : (x \div 2^k) % 2 = 1}

LEMMA BitBelow ==
  ASSUME NEW n \in Nat, NEW k \in 0 .. n - 1, NEW x \in Nat
  PROVE  ((x + 2^n) \div 2^k) % 2 = (x \div 2^k) % 2
<1>1. PICK j \in Nat : k \in Nat /\ n = k + (j + 1)
  <2>1. n - k - 1 \in Nat /\ k \in Nat /\ n = k + ((n - k - 1) + 1)
    OBVIOUS
  <2> QED
    BY <2>1
<1>2. PICK d \in Nat \ {0}, h \in Nat \ {0} : d = 2^k /\ h = 2^j
  BY <1>1, PowerType
<1>3. 2^n = d * (2 * h)
  <2>1. 2^n = 2^k * 2^(j + 1)
    BY <1>1, PowerOfSum
  <2>2. 2^(j + 1) = 2 * 2^j
    BY Doubling
  <2> QED
    BY <1>2, <2>1, <2>2
<1>4. PICK q \in Int, r \in 0 .. d - 1 : x = d * q + r /\ q = x \div d
  BY DivMod
<1>5. x + 2^n = (q + 2 * h) * d + r
  <2>1. (q + 2 * h) * d = d * q + d * (2 * h)
    BY <1>2
  <2> QED
    BY <1>3, <1>4, <2>1
<1>6. (x + 2^n) \div d = q + 2 * h
  <2>1. PICK z \in Int : z = q + 2 * h
    OBVIOUS
  <2>2. (z * d + r) \div d = z
    BY DivModIs
  <2> QED
    BY <1>5, <2>1, <2>2
<1>7. (q + 2 * h) % 2 = q % 2
  OBVIOUS
<1> QED
  BY <1>2, <1>4, <1>6, <1>7

LEMMA BitTop ==
  ASSUME NEW n \in Nat, NEW x \in 0 .. 2^n - 1
  PROVE  (x \div 2^n) % 2 = 0 /\ ((x + 2^n) \div 2^n) % 2 = 1
<1>1. PICK d \in Nat \ {0} : d = 2^n
  BY PowerType
<1>2. x = 0 * d + x /\ x + d = 1 * d + x
  BY <1>1
<1>3. (0 * d + x) \div d = 0 /\ (1 * d + x) \div d = 1
  BY <1>1, DivModIs
<1> QED
  BY <1>1, <1>2, <1>3

LEMMA BitsExist == \A n \in Nat : \A S \in SUBSET (0 .. n - 1) : \E x \in 0 .. 2^n - 1 : LowBits(x, n) = S
<1> DEFINE Has(n) == \A S \in SUBSET (0 .. n - 1) : \E x \in 0 .. 2^n - 1 : LowBits(x, n) = S
           G == {n \in Nat : Has(n)}
<1>1. 0 \in G
  <2> SUFFICES ASSUME NEW S \in SUBSET (0 .. 0 - 1) PROVE \E x \in 0 .. 2^0 - 1 : LowBits(x, 0) = S
    OBVIOUS
  <2>1. 0 \in 0 .. 2^0 - 1
    BY 2^0 = 1
  <2>2. LowBits(0, 0) = {} /\ S = {}
    BY DEF LowBits
  <2> QED
    BY <2>1, <2>2
<1>2. ASSUME NEW n \in Nat, n \in G PROVE n + 1 \in G
  <2> SUFFICES ASSUME NEW S \in SUBSET (0 .. (n + 1) - 1)
               PROVE  \E x \in 0 .. 2^(n + 1) - 1 : LowBits(x, n + 1) = S
    OBVIOUS
  <2>1. PICK p \in Nat \ {0} : p = 2^n /\ 2^(n + 1) = 2 * p
    BY PowerType, Doubling
  <2>2. S \ {n} \in SUBSET (0 .. n - 1)
    OBVIOUS
  <2>3. PICK x \in 0 .. 2^n - 1 : LowBits(x, n) = S \ {n}
    BY <1>2, <2>2
  <2>4. x \in Nat /\ x \in 0 .. 2 * p - 1 /\ x + 2^n \in 0 .. 2 * p - 1
    BY <2>1
  <2>5. LowBits(x, n + 1) = LowBits(x, n)
    <3>1. \A k \in 0 .. (n + 1) - 1 : k \in 0 .. n - 1 \/ k = n
      OBVIOUS
    <3>2. (x \div 2^n) % 2 # 1
      BY BitTop
    <3> QED
      BY <3>1, <3>2 DEF LowBits
  <2>6. LowBits(x + 2^n, n + 1) = LowBits(x, n) \cup {n}
    <3>1. \A k \in 0 .. (n + 1) - 1 : k \in 0 .. n - 1 \/ k = n
      OBVIOUS
    <3>2. ((x + 2^n) \div 2^n) % 2 = 1
      BY BitTop
    <3>3. \A k \in 0 .. n - 1 : ((x + 2^n) \div 2^k) % 2 = (x \div 2^k) % 2
      BY <2>4, BitBelow
    <3>4. n \in 0 .. (n + 1) - 1 /\ \A k \in 0 .. n - 1 : k \in 0 .. (n + 1) - 1
      OBVIOUS
    <3> QED
      BY <3>1, <3>2, <3>3, <3>4 DEF LowBits
  <2>7. CASE n \in S
    <3>1. LowBits(x + 2^n, n + 1) = S
      BY <2>3, <2>6, <2>7
    <3> QED
      BY <2>1, <2>4, <3>1
  <2>8. CASE n \notin S
    <3>1. LowBits(x, n + 1) = S
      BY <2>3, <2>5, <2>8
    <3> QED
      BY <2>1, <2>4, <3>1
  <2> QED
    BY <2>7, <2>8
<1> HIDE DEF G
<1>3. \A n \in Nat : n \in G
  BY <1>1, <1>2, AllNat
<1> QED
  BY <1>3 DEF G

LEMMA BitwiseWords ==
  ASSUME NEW a, NEW b
  PROVE  /\ BitXor(a, b) \in Words /\ BitAnd(a, b) \in Words /\ BitOr(a, b) \in Words
         /\ BitXor(a, b) = BitXor(b, a) /\ BitAnd(a, b) = BitAnd(b, a) /\ BitOr(a, b) = BitOr(b, a)
<1>1. ASSUME NEW S \in SUBSET (0 .. XLEN - 1) PROVE OfBits(S) \in Words
  <2>1. PICK x \in 0 .. 2^XLEN - 1 : LowBits(x, XLEN) = S
    BY BitsExist, XlenPowers
  <2>2. x \in Words /\ Bits(x) = S
    BY <2>1 DEF Words, Bits, LowBits
  <2> QED
    BY <2>2 DEF OfBits
<1>2. Bits(a) \in SUBSET (0 .. XLEN - 1) /\ Bits(b) \in SUBSET (0 .. XLEN - 1)
  BY DEF Bits
<1>3. /\ Bits(a) \cup Bits(b) \in SUBSET (0 .. XLEN - 1)
      /\ Bits(a) \cap Bits(b) \in SUBSET (0 .. XLEN - 1)
      /\ (Bits(a) \cup Bits(b)) \ (Bits(a) \cap Bits(b)) \in SUBSET (0 .. XLEN - 1)
  BY <1>2
<1>4. Bits(a) \cup Bits(b) = Bits(b) \cup Bits(a) /\ Bits(a) \cap Bits(b) = Bits(b) \cap Bits(a)
  OBVIOUS
<1> QED
  BY <1>1, <1>3, <1>4, Zenon DEF BitXor, BitAnd, BitOr

(* The AMO unit.  Its comparison of sign-extended words, with the top bits *)
(* inverted for the signed operations, orders words as their values do.    *)
LEMMA SextLow == ASSUME NEW x \in Int, NEW w \in Widths PROVE sext(x, w) % 2^w = x % 2^w
<1>1. PICK d \in Nat \ {0}, p \in Nat \ {0}, f \in Nat \ {0} : d = 2^w /\ p = 2^XLEN /\ p = d * f
  BY WidthPowers
<1>2. PICK v \in Int : v = SignedVal(x, w) /\ v % d = x % d
  BY <1>1, SignedResidue
<1>3. (v % p) % d = v % d
  BY <1>1, ResidueOfResidue
<1> QED
  BY <1>1, <1>2, <1>3 DEF sext

LEMMA WordExtended ==
  ASSUME NEW x \in Words, NEW half \in BOOLEAN
  PROVE  (IF half THEN sext(x, HALF) ELSE x) = sext(x, Width(half)) /\ Width(half) \in Widths
<1>1. x \in Int /\ x = x % 2^XLEN
  BY WordType
<1> QED
  BY <1>1, Output DEF Width, Widths

LEMMA SextType == ASSUME NEW x \in Int, NEW w \in Widths PROVE sext(x, w) \in Words
  BY SignedResidue, ResidueType DEF sext

LEMMA Biased ==
  ASSUME NEW x \in Words, NEW w \in Widths
  PROVE  (sext(x, w) + 2^(XLEN - 1)) % 2^XLEN = SignedVal(x, w) + 2^(XLEN - 1)
<1>1. PICK p \in Nat \ {0}, h \in Nat \ {0} : p = 2^XLEN /\ h = 2^(XLEN - 1) /\ p = 2 * h
  BY XlenPowers
<1>2. PICK v \in Int : v = SignedVal(x, w) /\ -h <= v /\ v < h
  <2>1. SignedVal(x, w) \in Int /\ -(2^(w - 1)) <= SignedVal(x, w) /\ SignedVal(x, w) < 2^(w - 1)
    <3>1. x \in Int /\ 2^(w - 1) \in Nat
      BY WordType, WidthPowers
    <3>2. SignedVal(x, w) \in -(2^(w - 1)) .. 2^(w - 1) - 1
      BY <3>1, SignedForm
    <3>3. PICK g \in Nat : g = 2^(w - 1)
      BY <3>1
    <3> QED
      BY <3>2, <3>3
  <2>2. 2^(w - 1) <= h
    <3>1. PICK j \in Nat : XLEN - 1 = (w - 1) + j /\ w - 1 \in Nat
      <4>1. w \in 1 .. XLEN /\ XLEN \in Nat
        BY WidthType
      <4>2. XLEN - w \in Nat /\ XLEN - 1 = (w - 1) + (XLEN - w) /\ w - 1 \in Nat
        BY <4>1
      <4> QED
        BY <4>2
    <3>2. PICK g \in Nat \ {0}, f \in Nat \ {0} : g = 2^(w - 1) /\ f = 2^j
      BY <3>1, PowerType
    <3>3. h = g * f
      BY <1>1, <3>1, <3>2, PowerOfSum
    <3>4. g <= g * f
      <4>1. PICK e \in Nat : f = e + 1
        OBVIOUS
      <4>2. g * f = g * e + g /\ g * e \in Nat
        BY <4>1
      <4> QED
        BY <4>2
    <3> QED
      BY <3>2, <3>3, <3>4
  <2>3. PICK g \in Nat : g = 2^(w - 1)
    BY WidthPowers
  <2> QED
    BY <1>1, <2>1, <2>2, <2>3
<1>3. v + h \in 0 .. p - 1
  BY <1>1, <1>2
<1>4. (v + h) % p = v + h
  BY <1>3, SmallResidue
<1>5. ((v % p) + h) % p = (v + h) % p
  <2>1. PICK q \in Int, r \in 0 .. p - 1 : v = p * q + r /\ r = v % p
    BY DivMod
  <2>2. PICK y \in Int : y = r + h
    OBVIOUS
  <2>3. (y + q * p) % p = y % p
    BY SameResidue
  <2>4. y + q * p = v + h
    BY <2>1, <2>2
  <2> QED
    BY <2>1, <2>2, <2>3, <2>4
<1> QED
  BY <1>1, <1>2, <1>4, <1>5 DEF sext

LEMMA UnsignedOrder ==
  ASSUME NEW a \in Words, NEW b \in Words, NEW w \in Widths
  PROVE  sext(a, w) < sext(b, w) <=> a % 2^w < b % 2^w
<1>1. PICK d \in Nat \ {0}, h \in Nat \ {0}, p \in Nat \ {0} : d = 2^w /\ h = 2^(w - 1) /\ d = 2 * h /\ p = 2^XLEN /\ d <= p
  <2>1. PICK d \in Nat \ {0}, p \in Nat \ {0}, f \in Nat \ {0} : d = 2^w /\ p = 2^XLEN /\ p = d * f
    BY WidthPowers
  <2>2. d <= p
    <3>1. PICK e \in Nat : f = e + 1
      OBVIOUS
    <3>2. d * f = d * e + d /\ d * e \in Nat
      BY <3>1
    <3> QED
      BY <2>1, <3>2
  <2> QED
    BY <2>1, <2>2, WidthPowers
<1>2. ASSUME NEW x \in Words
      PROVE  /\ x % d \in 0 .. d - 1
             /\ sext(x, w) = IF x % d >= h THEN (x % d) - d + p ELSE x % d
  <2>1. x \in Int
    BY WordType
  <2>2. PICK u \in 0 .. d - 1 : u = x % d
    BY <2>1, DivMod
  <2>3. SignedVal(x, w) = IF u >= h THEN u - d ELSE u
    BY <1>1, <2>2 DEF SignedVal
  <2>4. CASE u >= h
    <3>1. (u - d) + p \in 0 .. p - 1
      BY <1>1, <2>4
    <3>2. ((u - d) + p) % p = (u - d) % p
      <4>1. u - d \in Int
        OBVIOUS
      <4> QED
        BY <4>1, NextResidue
    <3>3. ((u - d) + p) % p = (u - d) + p
      BY <3>1, SmallResidue
    <3>4. sext(x, w) = (u - d) % p
      BY <1>1, <2>3, <2>4 DEF sext
    <3> QED
      BY <2>2, <2>4, <3>2, <3>3, <3>4
  <2>5. CASE u < h
    <3>1. u \in 0 .. p - 1
      BY <1>1
    <3>2. u % p = u
      BY <3>1, SmallResidue
    <3>3. sext(x, w) = u % p
      BY <1>1, <2>3, <2>5 DEF sext
    <3> QED
      BY <2>2, <2>5, <3>2, <3>3
  <2> QED
    BY <1>1, <2>2, <2>4, <2>5
<1>3. PICK u \in 0 .. d - 1, v \in 0 .. d - 1 : u = a % d /\ v = b % d
  BY <1>2
<1>4. /\ sext(a, w) = IF u >= h THEN u - d + p ELSE u
      /\ sext(b, w) = IF v >= h THEN v - d + p ELSE v
  BY <1>2, <1>3
<1>5. sext(a, w) < sext(b, w) <=> u < v
  BY <1>1, <1>4
<1> QED
  BY <1>1, <1>3, <1>5

LEMMA AmoResult ==
  ASSUME NEW c, NEW half \in BOOLEAN, c.is_32bit = half, NEW op, NEW n, c.opcode = n,
         <<op, n>> \in AmoOps, n \notin {2, 3}, NEW a \in Words, NEW b \in Words
  PROVE  /\ amo_alu(c, a, b) % 2^Width(half) = EmuAmo(op, Width(half), b, a)
         /\ amo_alu(c, a, b) \in Words
<1> DEFINE ext(x) == IF half THEN sext(x, HALF) ELSE x
           post(x) == IF n \div 8 = 2 THEN (ext(x) + 2^(XLEN - 1)) % 2^XLEN ELSE ext(x)
           less == post(a) < post(b)
           result == CASE n = 1 -> b
                       [] n = 0 -> (a + b) % 2^XLEN
                       [] n = 4 -> BitXor(a, b)
                       [] n = 12 -> BitAnd(a, b)
                       [] n = 8 -> BitOr(a, b)
                       [] n \in {16, 24} -> IF less THEN a ELSE b
                       [] n \in {20, 28} -> IF less THEN b ELSE a
                       [] OTHER -> 0
           w == Width(half)
<1>1. amo_alu(c, a, b) = ext(result)
  BY DEF amo_alu
<1>2. /\ w \in Widths
      /\ \A x \in Words : ext(x) = sext(x, w) /\ sext(x, w) % 2^w = x % 2^w
  <2>1. w \in Widths
    BY WordExtended
  <2>2. ASSUME NEW x \in Words PROVE ext(x) = sext(x, w)
    BY WordExtended
  <2>3. ASSUME NEW x \in Words PROVE sext(x, w) % 2^w = x % 2^w
    BY <2>1, SextLow, WordType
  <2> QED
    BY <2>1, <2>2, <2>3
<1>3. PICK d \in Nat \ {0} : d = 2^w
  BY <1>2, WidthPowers
<1>4. a \in Int /\ b \in Int
  BY WordType
<1>5. \/ n = 1 /\ op = "AMOSWAP"
      \/ n = 0 /\ op = "AMOADD"
      \/ n = 4 /\ op = "AMOXOR"
      \/ n = 12 /\ op = "AMOAND"
      \/ n = 8 /\ op = "AMOOR"
      \/ n = 16 /\ op = "AMOMIN"
      \/ n = 20 /\ op = "AMOMAX"
      \/ n = 24 /\ op = "AMOMINU"
      \/ n = 28 /\ op = "AMOMAXU"
  BY DEF AmoOps
<1> DEFINE va == SignedVal(a, w)
           vb == SignedVal(b, w)
<1>6. /\ va \in Int /\ vb \in Int
      /\ va = vb => a % 2^w = b % 2^w
  BY <1>2, <1>4, SignedResidue
<1>7. n \in {16, 20} => (less <=> va < vb)
  <2> SUFFICES ASSUME n \in {16, 20} PROVE less <=> va < vb
    OBVIOUS
  <2>1. n \div 8 = 2
    OBVIOUS
  <2>2. post(a) = (sext(a, w) + 2^(XLEN - 1)) % 2^XLEN /\ post(b) = (sext(b, w) + 2^(XLEN - 1)) % 2^XLEN
    <3> HIDE DEF ext, w
    <3> QED
      BY <1>2, <2>1
  <2>3. post(a) = va + 2^(XLEN - 1) /\ post(b) = vb + 2^(XLEN - 1)
    <3> HIDE DEF post, w
    <3> QED
      BY <1>2, <2>2, Biased
  <2>4. PICK h \in Nat : h = 2^(XLEN - 1)
    BY XlenPowers
  <2> HIDE DEF post, va, vb
  <2> QED
    BY <1>6, <2>3, <2>4
<1>8. n \in {24, 28} => (less <=> a % 2^w < b % 2^w)
  <2> SUFFICES ASSUME n \in {24, 28} PROVE less <=> a % 2^w < b % 2^w
    OBVIOUS
  <2>1. n \div 8 = 3
    OBVIOUS
  <2>2. post(a) = sext(a, w) /\ post(b) = sext(b, w)
    <3> HIDE DEF ext, w
    <3> QED
      BY <1>2, <2>1
  <2> HIDE DEF post, w
  <2> QED
    BY <1>2, <2>2, UnsignedOrder
<1>9. result \in Words
  <2>1. (a + b) % 2^XLEN \in Words
    <3>1. a + b \in Int
      BY <1>4
    <3> QED
      BY <3>1, ResidueType
  <2> HIDE DEF less
  <2> QED
    BY <1>5, <2>1, BitwiseWords
<1>10. amo_alu(c, a, b) % 2^w = result % 2^w
  <2> HIDE DEF ext, result, w
  <2> QED
    BY <1>1, <1>2, <1>9
<1>12. amo_alu(c, a, b) \in Words
  <2>1. sext(result, w) \in Words
    <3> HIDE DEF result, w
    <3> QED
      BY <1>2, <1>9, SextType, WordType
  <2> HIDE DEF ext, result, w
  <2> QED
    BY <1>1, <1>2, <1>9, <2>1
<1> HIDE DEF w, va, vb, less, post, ext
<1>11. result % 2^w = EmuAmo(op, w, b, a)
  <2>1. CASE n = 1 /\ op = "AMOSWAP"
    BY <2>1 DEF EmuAmo
  <2>2. CASE n = 0 /\ op = "AMOADD"
    <3>1. EmuAmo(op, w, b, a) = (b + a) % 2^w
      BY <2>2 DEF EmuAmo
    <3>2. result = (a + b) % 2^XLEN
      BY <2>2
    <3>3. ((a + b) % 2^XLEN) % 2^w = (a + b) % 2^w
      <4>1. PICK p \in Nat \ {0}, f \in Nat \ {0} : p = 2^XLEN /\ p = d * f
        BY <1>2, <1>3, WidthPowers
      <4>2. PICK z \in Int : z = a + b
        BY <1>4
      <4>3. (z % p) % d = z % d
        BY <4>1, ResidueOfResidue
      <4> QED
        BY <1>3, <4>1, <4>2, <4>3
    <3>4. a + b = b + a
      BY <1>4
    <3> QED
      BY <3>1, <3>2, <3>3, <3>4, Zenon
  <2>3. CASE n = 4 /\ op = "AMOXOR"
    <3>1. EmuAmo(op, w, b, a) = BitXor(b, a) % 2^w /\ result = BitXor(a, b)
      BY <2>3 DEF EmuAmo
    <3> QED
      BY <3>1, BitwiseWords, Zenon
  <2>4. CASE n = 12 /\ op = "AMOAND"
    <3>1. EmuAmo(op, w, b, a) = BitAnd(b, a) % 2^w /\ result = BitAnd(a, b)
      BY <2>4 DEF EmuAmo
    <3> QED
      BY <3>1, BitwiseWords, Zenon
  <2>5. CASE n = 8 /\ op = "AMOOR"
    <3>1. EmuAmo(op, w, b, a) = BitOr(b, a) % 2^w /\ result = BitOr(a, b)
      BY <2>5 DEF EmuAmo
    <3> QED
      BY <3>1, BitwiseWords, Zenon
  <2>6. CASE n = 16 /\ op = "AMOMIN"
    <3>1. EmuAmo(op, w, b, a) = (IF vb < va THEN b ELSE a) % 2^w /\ result = IF less THEN a ELSE b
      BY <2>6 DEF EmuAmo, va, vb
    <3> QED
      BY <1>6, <1>7, <2>6, <3>1
  <2>7. CASE n = 20 /\ op = "AMOMAX"
    <3>1. EmuAmo(op, w, b, a) = (IF vb > va THEN b ELSE a) % 2^w /\ result = IF less THEN b ELSE a
      BY <2>7 DEF EmuAmo, va, vb
    <3> QED
      BY <1>6, <1>7, <2>7, <3>1
  <2>8. CASE n = 24 /\ op = "AMOMINU"
    <3>1. /\ EmuAmo(op, w, b, a) = (IF b % 2^w < a % 2^w THEN b ELSE a) % 2^w
          /\ result = IF less THEN a ELSE b
      BY <2>8 DEF EmuAmo
    <3>2. PICK u \in Int, v \in Int : u = a % 2^w /\ v = b % 2^w
      <4>1. a % d \in Int /\ b % d \in Int
        BY <1>4, DivMod
      <4> QED
        BY <1>3, <4>1
    <3> QED
      BY <1>8, <2>8, <3>1, <3>2
  <2>9. CASE n = 28 /\ op = "AMOMAXU"
    <3>1. /\ EmuAmo(op, w, b, a) = (IF b % 2^w > a % 2^w THEN b ELSE a) % 2^w
          /\ result = IF less THEN b ELSE a
      BY <2>9 DEF EmuAmo
    <3>2. PICK u \in Int, v \in Int : u = a % 2^w /\ v = b % 2^w
      <4>1. a % d \in Int /\ b % d \in Int
        BY <1>4, DivMod
      <4> QED
        BY <1>3, <4>1
    <3> QED
      BY <1>8, <2>9, <3>1, <3>2
  <2> QED
    BY <1>5, <2>1, <2>2, <2>3, <2>4, <2>5, <2>6, <2>7, <2>8, <2>9
<1> QED
  BY <1>10, <1>11, <1>12 DEF w

(* The upper half of the bus is where the word of an address 4 mod 8 is,   *)
(* on the way in and on the way out.                                       *)
LEMMA UpperHalf == ASSUME NEW a \in Nat, a % 4 = 0 PROVE Bool(a, 2) <=> a % 8 = 4
<1>1. Bool(a, 2) <=> (a \div 4) % 2 = 1
  BY SmallPowers DEF Bool, BitVal
<1> QED
  BY <1>1

LEMMA AmoLaneIn ==
  ASSUME NEW c, NEW half \in BOOLEAN, c.is_32bit = half, NEW a \in Nat, NEW data \in Words,
         a % (IF half THEN 4 ELSE 8) = 0
  PROVE  /\ BytesFrom(data, a) \in Words
         /\ amo_rdata(c, a, data) = sext(BytesFrom(data, a), Width(half))
<1>1. PICK d \in Nat \ {0} : d = 2^HALF
  BY WidthPowers DEF Widths
<1>2. data \div d \in Words
  <2>1. PICK p \in Nat \ {0} : p = 2^XLEN /\ data \in 0 .. p - 1
    BY XlenPowers DEF Words
  <2>2. data \div d \in 0 .. data
    BY <2>1, QuotientType
  <2> QED
    BY <2>1, <2>2 DEF Words
<1>3. BytesFrom(data, a) \in Words
  BY <1>1, <1>2 DEF BytesFrom
<1>4. CASE half
  <2>1. Bool(a, 2) <=> a % 8 = 4
    BY <1>4, UpperHalf
  <2>2. amo_rdata(c, a, data) = sext(BytesFrom(data, a), HALF)
    BY <1>4, <2>1, Zenon DEF amo_rdata, BytesFrom
  <2> QED
    BY <1>3, <1>4, <2>2 DEF Width
<1>5. CASE ~half
  <2>1. BytesFrom(data, a) = data
    BY <1>5 DEF BytesFrom
  <2>2. amo_rdata(c, a, data) = data
    BY <1>5 DEF amo_rdata
  <2>3. sext(data, Width(half)) = data
    BY <1>5, WordExtended
  <2> QED
    BY <1>3, <2>1, <2>2, <2>3
<1> QED
  BY <1>4, <1>5

LEMMA AmoLaneOut ==
  ASSUME NEW c, NEW half \in BOOLEAN, c.is_32bit = half, NEW a \in Nat, NEW out \in Words,
         NEW hsize, hsize = IF half THEN 2 ELSE 3
  PROVE  AhbStores(hsize, a, amo_wdata(c, a, out)) = out % 2^Width(half)
<1>1. PICK d \in Nat \ {0} : d = 2^HALF
  BY WidthPowers DEF Widths
<1>2. PICK r \in 0 .. d - 1 : r = out % d
  BY DivMod, WordType
<1>3. CASE half /\ Bool(a, 2)
  <2>1. amo_wdata(c, a, out) = r * d
    BY <1>1, <1>2, <1>3 DEF amo_wdata
  <2>2. (r * d) \div d = r /\ r % d = r
    <3>1. (r * d + 0) \div d = r
      BY DivModIs
    <3>2. PICK rd \in Int : rd = r * d
      OBVIOUS
    <3>3. (r * d) \div d = r
      BY <3>1, <3>2
    <3> QED
      BY <3>3, SmallResidue
  <2>3. AhbStores(hsize, a, amo_wdata(c, a, out)) = ((r * d) \div d) % d
    BY <1>1, <1>3, <2>1 DEF AhbStores
  <2> QED
    BY <1>1, <1>2, <1>3, <2>2, <2>3 DEF Width
<1>4. CASE half /\ ~Bool(a, 2)
  <2>1. amo_wdata(c, a, out) = out
    BY <1>4 DEF amo_wdata
  <2> QED
    BY <1>4, <2>1 DEF AhbStores, Width
<1>5. CASE ~half
  <2>1. amo_wdata(c, a, out) = out /\ out % 2^XLEN = out
    BY <1>5, WordType DEF amo_wdata
  <2> QED
    BY <1>5, <2>1 DEF AhbStores, Width
<1> QED
  BY <1>3, <1>4, <1>5

LEMMA AmoSame ==
  ASSUME NEW w \in InstWord, w.opcode = 47, Row(w, EmuOp(w))
  PROVE  SameAs(w)
<1> DEFINE c == decoder(w)
           op == EmuOp(w)
           n == w.func7 \div 4
           half == w.func3 = 2
           m == IF w.func3 = 2 THEN 2 ELSE 3
           size == IF w.func3 = 2 THEN 4 ELSE 8
<1>1. w.func3 \in {2, 3} /\ <<op, n>> \in AmoOps
  BY DEF Row, AmoRow
<1>2. /\ c.rd_write /\ c.rs1_read /\ (c.rs2_read <=> n # 2) /\ ~c.illegal
      /\ c.is_32bit = half /\ c.opcode = n /\ c.mem_opcode = m
      /\ c.unit = IF n = 2 THEN "lr" ELSE IF n = 3 THEN "sc" ELSE "amo"
  BY <1>1, CtrlAmo
<1>3. (n = 2 <=> op = "LR") /\ (n = 3 <=> op = "SC") /\ op \notin {"LUI", "AUIPC", "JAL", "JALR"}
  <2> HIDE DEF n, op
  <2> QED
    BY <1>1 DEF AmoOps
<1>4. m \in 0 .. 7 /\ 2^(m % 4) = size /\ size \in {4, 8} /\ ~Bool(m, 2)
  <2>1. 2 % 4 = 2 /\ 3 % 4 = 3 /\ 2^2 = 4 /\ 2^3 = 8
    BY SmallPowers
  <2>2. ~Bool(2, 2) /\ ~Bool(3, 2)
    BY SmallPowers DEF Bool, BitVal
  <2>3. CASE w.func3 = 2
    <3>1. m = 2 /\ size = 4
      BY <2>3
    <3> HIDE DEF m, size
    <3> QED
      BY <2>1, <2>2, <3>1
  <2>4. CASE w.func3 = 3
    BY <2>1, <2>2, <2>4
  <2> QED
    BY <1>1, <2>3, <2>4
<1>5. ASSUME NEW s \in Operands(w) PROVE RtlEffect(w, s) = EmuEffect(w, s)
  <2> DEFINE a == s.rs1
             Mem(kind, bytes, value) == [kind |-> kind, bytes |-> bytes, value |-> value]
  <2>1. a \in Nat /\ s.rs2 \in Words /\ s.data \in Words
    BY OperandTypes, WordType
  <2>2. a % size = 0
    BY OperandTypes
  <2>3. EmuEffect(w, s) = EmuMemory(op, w.opcode, w.func3, s)
    BY <1>3, OpcodeValues DEF EmuEffect
  <2>4. RtlEffect(w, s) = RtlMemory(c, s)
    <3> HIDE DEF n
    <3> QED
      BY <1>2 DEF RtlEffect
  <2>5. MEM_hwdata(m, a) = StoreBytes(a, size)
    <3> HIDE DEF a, m, size
    <3> QED
      BY <1>4, <2>1, <2>2, StoredBytes
  <2>6. CASE n = 2
    <3>1. EmuMemory(op, w.opcode, w.func3, s) = Load(s, a, size, TRUE)
      <4>1. op = "LR"
        BY <1>3, <2>6
      <4> HIDE DEF op, a
      <4> QED
        BY <4>1, OpcodeValues DEF EmuMemory, a
    <3>2. Load(s, a, size, TRUE) = Effect("none", NoRd, Next4(s), Mem("load", LoadBytes(a, size, TRUE), 0))
      <4> HIDE DEF a, size
      <4> QED
        BY <2>2 DEF Load, Access
    <3>3. c.unit = "lr"
      BY <1>2, <2>6
    <3>4. RtlMemory(c, s) = Effect("none", NoRd, Next4(s), Mem("load", mem_rdata(m, a), 0))
      <4> HIDE DEF c, m, n
      <4> QED
        BY <1>2, <3>3 DEF RtlMemory
    <3>5. mem_rdata(m, a) = LoadBytes(a, size, TRUE)
      <4>1. PICK ext \in BOOLEAN : ext = TRUE
        OBVIOUS
      <4>2. size < 8 => (ext <=> ~Bool(m, 2))
        BY <1>4, <4>1
      <4>3. mem_rdata(m, a) = LoadBytes(a, size, ext)
        <5> HIDE DEF a, m, size
        <5> QED
          BY <1>4, <2>1, <2>2, <4>2, LoadedBytes
      <4> QED
        BY <4>1, <4>3, Zenon
    <3> QED
      BY <2>3, <2>4, <3>1, <3>2, <3>4, <3>5, Zenon
  <2>7. CASE n = 3
    <3>1. EmuMemory(op, w.opcode, w.func3, s) = Store("sc", s, a, size)
      <4>1. op = "SC"
        BY <1>3, <2>7
      <4> HIDE DEF op, a
      <4> QED
        BY <4>1, OpcodeValues DEF EmuMemory, a
    <3>2. Store("sc", s, a, size) = Effect("none", NoRd, Next4(s), Mem("sc", StoreBytes(a, size), 0))
      <4> HIDE DEF a, size
      <4> QED
        BY <2>2 DEF Store, Access
    <3>3. c.unit = "sc"
      BY <1>2, <2>7
    <3>4. RtlMemory(c, s) = Effect("none", NoRd, Next4(s), Mem("sc", MEM_hwdata(m, a), 0))
      <4> HIDE DEF c, m, n
      <4> QED
        BY <1>2, <3>3 DEF RtlMemory
    <3> QED
      BY <2>3, <2>4, <2>5, <3>1, <3>2, <3>4, Zenon
  <2>8. CASE n \notin {2, 3}
    <3> DEFINE width == Width(half)
               read == sext(BytesFrom(s.data, a), width)
               out == amo_alu(c, read, s.rs2)
    <3>1. half \in BOOLEAN /\ width = IF w.func3 = 2 THEN HALF ELSE XLEN
      BY Zenon DEF Width
    <3>2. /\ amo_rdata(c, a, s.data) = read /\ BytesFrom(s.data, a) \in Words /\ width \in Widths
      <4>1. a % (IF half THEN 4 ELSE 8) = 0
        BY <2>2
      <4> HIDE DEF half, a, c
      <4> QED
        BY <1>2, <2>1, <3>1, <4>1, AmoLaneIn, WordExtended
    <3>3. read \in Words
      BY <3>2, SextType, WordType
    <3>4. EmuMemory(op, w.opcode, w.func3, s)
            = Access("amo", s, a, size, StoreBytes(a, size), read, EmuAmo(op, width, s.rs2, read))
      <4>1. op # "LR" /\ op # "SC"
        BY <1>3, <2>8
      <4> HIDE DEF op
      <4> QED
        BY <3>1, <4>1, OpcodeValues DEF EmuMemory
    <3>5. Access("amo", s, a, size, StoreBytes(a, size), read, EmuAmo(op, width, s.rs2, read))
            = Effect("none", read, Next4(s), Mem("amo", StoreBytes(a, size), EmuAmo(op, width, s.rs2, read)))
      <4> HIDE DEF a, size, op, width, read
      <4> QED
        BY <2>2 DEF Access
    <3>6. c.unit = "amo"
      BY <1>2, <2>8
    <3>7. RtlMemory(c, s)
            = Effect("none", read, Next4(s),
                     Mem("amo", StoreBytes(a, size), AhbStores(m % 4, a, amo_wdata(c, a, out))))
      <4> HIDE DEF c, m, n, half, size, read
      <4> QED
        BY <1>2, <1>4, <3>2, <3>6, Zenon DEF RtlMemory
    <3>8. out % 2^width = EmuAmo(op, width, s.rs2, read) /\ out \in Words
      <4> HIDE DEF c, n, op, half, read
      <4> QED
        BY <1>1, <1>2, <2>1, <2>8, <3>1, <3>3, AmoResult
    <3>9. AhbStores(m % 4, a, amo_wdata(c, a, out)) = out % 2^width
      <4>1. m % 4 = IF half THEN 2 ELSE 3
        OBVIOUS
      <4> HIDE DEF c, m, half, out, a
      <4> QED
        BY <1>2, <2>1, <3>1, <3>8, <4>1, AmoLaneOut
    <3> QED
      BY <2>3, <2>4, <3>4, <3>5, <3>7, <3>8, <3>9, Zenon
  <2> QED
    BY <2>6, <2>7, <2>8
<1>6. UsesRs2(w) => c.rs2_read
  BY <1>2, <1>3, Uses
<1> QED
  BY <1>2, <1>5, <1>6, Uses DEF SameAs

LEMMA Identical ==
  ASSUME NEW w \in InstWord, EmuOp(w) # "illegal", w.opcode \notin {15, 115}
  PROVE  SameAs(w)
<1>1. Row(w, EmuOp(w))
  BY Rows
<1>2. w.opcode \in {19, 27} \/ w.opcode \in {51, 59} \/ w.opcode \in {55, 23}
      \/ w.opcode \in {111, 103, 99} \/ w.opcode \in {3, 35} \/ w.opcode = 47
  BY <1>1 DEF Row
<1> QED
  BY <1>1, <1>2, ImmediateSame, RegisterSame, UpperSame, JumpSame, AccessSame, AmoSame

WordInv == word \in InstWord

LEMMA WordStart == WordInit => WordInv
  BY DEF WordInit, WordInv, NoWord, InstWord

LEMMA WordStep == WordInv /\ [DecoderNext]_word => WordInv'
<1>1. NoWord \in InstWord
  BY DEF NoWord, InstWord
<1> QED
  BY <1>1, DecoderAssumption DEF WordInv, DecoderNext, Fetch, Retire

(* The decoder, the ALU, the branch unit, the AMO unit and the byte lanes  *)
(* of the RTL give every word that the emulator executes the effect the    *)
(* emulator gives it, for words of every width and all operands but the    *)
(* misaligned addresses of an AMO, LR or SC: an AMO.W at an address 4 mod  *)
(* 8 reads and writes the upper half.  No word has two patterns            *)
(* (decoder.sv 80-208, alu.sv 26-55, bu.sv 41-82, amo_alu.sv 24-50, EX.sv  *)
(* 222-241, MEM.sv 60-169).                                                *)
THEOREM DecoderSameInstruction == DecoderSpec => []SameInstruction
<1>1. WordInv => SameInstruction
  <2> SUFFICES ASSUME word \in InstWord PROVE SameInstruction
    BY DEF WordInv
  <2>1. \A p, q \in {r \in Patterns : Matches(r, word)} : p = q
    BY OnePattern
  <2>2. Implemented => SameAs(word)
    BY Identical, OpcodeValues DEF Implemented
  <2> QED
    BY <2>1, <2>2, Zenon DEF SameInstruction, SameAs
<1> QED
  BY <1>1, WordStart, WordStep, PTL DEF DecoderSpec

-----------------------------------------------------------------------------
(* Immediates.  Bit k comes from the field that has it.                    *)
LEMMA ExtendedBit ==
  ASSUME NEW fields, NEW width \in 1 .. 63, NEW k \in 0 .. 63, NEW j, NEW b,
         (k < width /\ j = k) \/ (k >= width /\ j + 1 = width), j \in Int,
         {f \in fields : f[1] = j} = {<<j, b>>}
  PROVE  Extended(fields, width)[k] = b
<1> DEFINE src == {f \in fields : f[1] = j}
<1>1. Extended(fields, width)[k] = IF src = {} THEN Zero ELSE (CHOOSE f \in src : TRUE)[2]
  <2>1. j = IF k < width THEN k ELSE width - 1
    OBVIOUS
  <2> QED
    BY <2>1 DEF Extended
<1>2. (CHOOSE f \in src : TRUE) = <<j, b>>
  OBVIOUS
<1> QED
  BY <1>1, <1>2

LEMMA ExtendedZero ==
  ASSUME NEW fields, NEW width \in 1 .. 63, NEW k \in 0 .. 63, k < width, \A f \in fields : f[1] # k
  PROVE  Extended(fields, width)[k] = Zero
<1>1. Extended(fields, width)[k] = IF {f \in fields : f[1] = k} = {} THEN Zero
                                   ELSE (CHOOSE f \in {f \in fields : f[1] = k} : TRUE)[2]
  BY DEF Extended
<1>2. {f \in fields : f[1] = k} = {}
  OBVIOUS
<1> QED
  BY <1>1, <1>2

(* IMM_I: where bit k of the immediate comes from.                         *)
SourceI(k) == IF k < 12 THEN k + 20 ELSE 31

LEMMA EmuI == ASSUME NEW k \in 0 .. 63 PROVE IMM_I[k] = SourceI(k)
<1> DEFINE F == bits(31, 20, 0)
<1>1. /\ \A f \in F : f = <<f[1], f[2]>> /\ ((f[2] \in 20 .. 31 /\ f[1] = f[2] - 20))
      /\ \A x \in 20 .. 31 : <<x - 20, x>> \in F
  BY DEF bits
<1> HIDE DEF F
<1>2. PICK w \in 1 .. 63 : w = 12
  OBVIOUS
<1>3. PICK j \in Int : (k < 12 /\ j = k) \/ (k >= 12 /\ j = 11)
  OBVIOUS
<1>4. PICK b \in 0 .. 31 : b = SourceI(k)
  BY DEF SourceI
<1>5. <<j, b>> \in F
  <2>1. CASE k < 12
    BY <1>1, <1>3, <1>4, <2>1 DEF SourceI
  <2>2. CASE k >= 12
    BY <1>1, <1>3, <1>4, <2>2 DEF SourceI
  <2> QED
    BY <2>1, <2>2
<1>6. {f \in F : f[1] = j} = {<<j, b>>}
  BY <1>1, <1>5
<1>7. (k < w /\ j = k) \/ (k >= w /\ j + 1 = w)
  BY <1>2, <1>3
<1>8. Extended(F, w)[k] = b
  BY <1>6, <1>7, ExtendedBit
<1> QED
  BY <1>2, <1>4, <1>8 DEF IMM_I, F

(* IMM_S: where bit k of the immediate comes from.                         *)
SourceS(k) == IF k < 5 THEN k + 7 ELSE IF k < 12 THEN k + 20 ELSE 31

LEMMA EmuS == ASSUME NEW k \in 0 .. 63 PROVE IMM_S[k] = SourceS(k)
<1> DEFINE F == bits(11, 7, 0) \cup bits(31, 25, 5)
<1>1. /\ \A f \in F : f = <<f[1], f[2]>> /\ ((f[2] \in 7 .. 11 /\ f[1] = f[2] - 7)
                           \/ (f[2] \in 25 .. 31 /\ f[1] = f[2] - 20))
      /\ \A x \in 7 .. 11 : <<x - 7, x>> \in F
      /\ \A x \in 25 .. 31 : <<x - 20, x>> \in F
  BY DEF bits
<1> HIDE DEF F
<1>2. PICK w \in 1 .. 63 : w = 12
  OBVIOUS
<1>3. PICK j \in Int : (k < 12 /\ j = k) \/ (k >= 12 /\ j = 11)
  OBVIOUS
<1>4. PICK b \in 0 .. 31 : b = SourceS(k)
  BY DEF SourceS
<1>5. <<j, b>> \in F
  <2>1. CASE k < 5
    BY <1>1, <1>3, <1>4, <2>1 DEF SourceS
  <2>2. CASE k >= 5 /\ k < 12
    BY <1>1, <1>3, <1>4, <2>2 DEF SourceS
  <2>3. CASE k >= 12
    BY <1>1, <1>3, <1>4, <2>3 DEF SourceS
  <2> QED
    BY <2>1, <2>2, <2>3
<1>6. {f \in F : f[1] = j} = {<<j, b>>}
  BY <1>1, <1>5
<1>7. (k < w /\ j = k) \/ (k >= w /\ j + 1 = w)
  BY <1>2, <1>3
<1>8. Extended(F, w)[k] = b
  BY <1>6, <1>7, ExtendedBit
<1> QED
  BY <1>2, <1>4, <1>8 DEF IMM_S, F

(* IMM_B: where bit k of the immediate comes from.                         *)
SourceB(k) == IF k = 0 THEN Zero ELSE IF k < 5 THEN k + 7 ELSE IF k < 11 THEN k + 20 ELSE IF k = 11 THEN 7 ELSE 31

LEMMA EmuB == ASSUME NEW k \in 0 .. 63 PROVE IMM_B[k] = SourceB(k)
<1> DEFINE F == bits(31, 31, 12) \cup bits(30, 25, 5) \cup bits(11, 8, 1) \cup bits(7, 7, 11)
<1>1. /\ \A f \in F : f = <<f[1], f[2]>> /\ ((f[2] \in 31 .. 31 /\ f[1] = f[2] - 19)
                           \/ (f[2] \in 25 .. 30 /\ f[1] = f[2] - 20)
                           \/ (f[2] \in 8 .. 11 /\ f[1] = f[2] - 7)
                           \/ (f[2] \in 7 .. 7 /\ f[1] = f[2] + 4))
      /\ \A x \in 31 .. 31 : <<x - 19, x>> \in F
      /\ \A x \in 25 .. 30 : <<x - 20, x>> \in F
      /\ \A x \in 8 .. 11 : <<x - 7, x>> \in F
      /\ \A x \in 7 .. 7 : <<x + 4, x>> \in F
  BY DEF bits
<1> HIDE DEF F
<1>2. PICK w \in 1 .. 63 : w = 13
  OBVIOUS
<1>3. CASE k = 0
  <2>1. k < w /\ \A f \in F : f[1] # k
    BY <1>1, <1>2, <1>3
  <2>2. Extended(F, w)[k] = Zero
    BY <2>1, ExtendedZero
  <2> QED
    BY <1>2, <1>3, <2>2 DEF IMM_B, F, SourceB
<1>4. CASE ~(k = 0)
  <2>1. PICK j \in Int : (k < 13 /\ j = k) \/ (k >= 13 /\ j = 12)
    OBVIOUS
  <2>2. PICK b \in 0 .. 31 : b = SourceB(k)
    BY <1>4 DEF SourceB
  <2>3. <<j, b>> \in F
    <3>1. CASE k < 5
      BY <1>1, <1>4, <2>1, <2>2, <3>1 DEF SourceB
    <3>2. CASE k >= 5 /\ k < 11
      BY <1>1, <1>4, <2>1, <2>2, <3>2 DEF SourceB
    <3>3. CASE k = 11
      BY <1>1, <1>4, <2>1, <2>2, <3>3 DEF SourceB
    <3>4. CASE k >= 12
      BY <1>1, <1>4, <2>1, <2>2, <3>4 DEF SourceB
    <3> QED
      BY <3>1, <3>2, <3>3, <3>4
  <2>4. {f \in F : f[1] = j} = {<<j, b>>}
    BY <1>1, <2>3
  <2>5. (k < w /\ j = k) \/ (k >= w /\ j + 1 = w)
    BY <1>2, <2>1
  <2>6. Extended(F, w)[k] = b
    BY <2>4, <2>5, ExtendedBit
  <2> QED
    BY <1>2, <2>2, <2>6 DEF IMM_B, F
<1> QED
  BY <1>3, <1>4

(* IMM_U: where bit k of the immediate comes from.                         *)
SourceU(k) == IF k < 12 THEN Zero ELSE IF k < 32 THEN k ELSE 31

LEMMA EmuU == ASSUME NEW k \in 0 .. 63 PROVE IMM_U[k] = SourceU(k)
<1> DEFINE F == bits(31, 12, 12)
<1>1. /\ \A f \in F : f = <<f[1], f[2]>> /\ ((f[2] \in 12 .. 31 /\ f[1] = f[2]))
      /\ \A x \in 12 .. 31 : <<x, x>> \in F
  BY DEF bits
<1> HIDE DEF F
<1>2. PICK w \in 1 .. 63 : w = 32
  OBVIOUS
<1>3. CASE k < 12
  <2>1. k < w /\ \A f \in F : f[1] # k
    BY <1>1, <1>2, <1>3
  <2>2. Extended(F, w)[k] = Zero
    BY <2>1, ExtendedZero
  <2> QED
    BY <1>2, <1>3, <2>2 DEF IMM_U, F, SourceU
<1>4. CASE ~(k < 12)
  <2>1. PICK j \in Int : (k < 32 /\ j = k) \/ (k >= 32 /\ j = 31)
    OBVIOUS
  <2>2. PICK b \in 0 .. 31 : b = SourceU(k)
    BY <1>4 DEF SourceU
  <2>3. <<j, b>> \in F
    <3>1. CASE k < 32
      BY <1>1, <1>4, <2>1, <2>2, <3>1 DEF SourceU
    <3>2. CASE k >= 32
      BY <1>1, <1>4, <2>1, <2>2, <3>2 DEF SourceU
    <3> QED
      BY <3>1, <3>2
  <2>4. {f \in F : f[1] = j} = {<<j, b>>}
    BY <1>1, <2>3
  <2>5. (k < w /\ j = k) \/ (k >= w /\ j + 1 = w)
    BY <1>2, <2>1
  <2>6. Extended(F, w)[k] = b
    BY <2>4, <2>5, ExtendedBit
  <2> QED
    BY <1>2, <2>2, <2>6 DEF IMM_U, F
<1> QED
  BY <1>3, <1>4

(* IMM_J: where bit k of the immediate comes from.                         *)
SourceJ(k) == IF k = 0 THEN Zero ELSE IF k < 11 THEN k + 20 ELSE IF k = 11 THEN 20 ELSE IF k < 20 THEN k ELSE 31

LEMMA EmuJ == ASSUME NEW k \in 0 .. 63 PROVE IMM_J[k] = SourceJ(k)
<1> DEFINE F == bits(31, 31, 20) \cup bits(30, 21, 1) \cup bits(20, 20, 11) \cup bits(19, 12, 12)
<1>1. /\ \A f \in F : f = <<f[1], f[2]>> /\ ((f[2] \in 31 .. 31 /\ f[1] = f[2] - 11)
                           \/ (f[2] \in 21 .. 30 /\ f[1] = f[2] - 20)
                           \/ (f[2] \in 20 .. 20 /\ f[1] = f[2] - 9)
                           \/ (f[2] \in 12 .. 19 /\ f[1] = f[2]))
      /\ \A x \in 31 .. 31 : <<x - 11, x>> \in F
      /\ \A x \in 21 .. 30 : <<x - 20, x>> \in F
      /\ \A x \in 20 .. 20 : <<x - 9, x>> \in F
      /\ \A x \in 12 .. 19 : <<x, x>> \in F
  BY DEF bits
<1> HIDE DEF F
<1>2. PICK w \in 1 .. 63 : w = 21
  OBVIOUS
<1>3. CASE k = 0
  <2>1. k < w /\ \A f \in F : f[1] # k
    BY <1>1, <1>2, <1>3
  <2>2. Extended(F, w)[k] = Zero
    BY <2>1, ExtendedZero
  <2> QED
    BY <1>2, <1>3, <2>2 DEF IMM_J, F, SourceJ
<1>4. CASE ~(k = 0)
  <2>1. PICK j \in Int : (k < 21 /\ j = k) \/ (k >= 21 /\ j = 20)
    OBVIOUS
  <2>2. PICK b \in 0 .. 31 : b = SourceJ(k)
    BY <1>4 DEF SourceJ
  <2>3. <<j, b>> \in F
    <3>1. CASE k < 11
      BY <1>1, <1>4, <2>1, <2>2, <3>1 DEF SourceJ
    <3>2. CASE k = 11
      BY <1>1, <1>4, <2>1, <2>2, <3>2 DEF SourceJ
    <3>3. CASE k > 11 /\ k < 20
      BY <1>1, <1>4, <2>1, <2>2, <3>3 DEF SourceJ
    <3>4. CASE k >= 20
      BY <1>1, <1>4, <2>1, <2>2, <3>4 DEF SourceJ
    <3> QED
      BY <3>1, <3>2, <3>3, <3>4
  <2>4. {f \in F : f[1] = j} = {<<j, b>>}
    BY <1>1, <2>3
  <2>5. (k < w /\ j = k) \/ (k >= w /\ j + 1 = w)
    BY <1>2, <2>1
  <2>6. Extended(F, w)[k] = b
    BY <2>4, <2>5, ExtendedBit
  <2> QED
    BY <1>2, <2>2, <2>6 DEF IMM_J, F
<1> QED
  BY <1>3, <1>4

-----------------------------------------------------------------------------
(* The same bits as the concatenations of decoder.sv, from the top down.   *)
RegisterImm == Rep(52, 31) \o Slice(31, 20)

LEMMA RtlI ==
  Len(RegisterImm) = 64 /\ \A k \in 0 .. 63 : RegisterImm[64 - k] = SourceI(k)
<1>1. Len(RegisterImm) = 64
  BY DEF Rep, Slice, RegisterImm
<1>2. ASSUME NEW k \in 0 .. 63 PROVE RegisterImm[64 - k] = SourceI(k)
  <2>1. CASE k \in 0 .. 11
    BY <2>1 DEF Rep, Slice, RegisterImm, SourceI
  <2>2. CASE k \in 12 .. 63
    BY <2>2 DEF Rep, Slice, RegisterImm, SourceI
  <2> QED
    BY <2>1, <2>2
<1> QED
  BY <1>1, <1>2

StoreImm == Rep(52, 31) \o Slice(31, 25) \o Slice(11, 7)

LEMMA RtlS ==
  Len(StoreImm) = 64 /\ \A k \in 0 .. 63 : StoreImm[64 - k] = SourceS(k)
<1>1. Len(StoreImm) = 64
  BY DEF Rep, Slice, StoreImm
<1>2. ASSUME NEW k \in 0 .. 63 PROVE StoreImm[64 - k] = SourceS(k)
  <2>1. CASE k \in 0 .. 4
    BY <2>1 DEF Rep, Slice, StoreImm, SourceS
  <2>2. CASE k \in 5 .. 11
    BY <2>2 DEF Rep, Slice, StoreImm, SourceS
  <2>3. CASE k \in 12 .. 63
    BY <2>3 DEF Rep, Slice, StoreImm, SourceS
  <2> QED
    BY <2>1, <2>2, <2>3
<1> QED
  BY <1>1, <1>2

LEMMA RtlB ==
  Len(BranchImm) = 64 /\ \A k \in 0 .. 63 : BranchImm[64 - k] = SourceB(k)
<1>1. Len(BranchImm) = 64
  BY DEF Rep, Slice, Zero, BranchImm
<1>2. ASSUME NEW k \in 0 .. 63 PROVE BranchImm[64 - k] = SourceB(k)
  <2>1. CASE k \in 0 .. 0
    BY <2>1 DEF Rep, Slice, Zero, BranchImm, SourceB
  <2>2. CASE k \in 1 .. 4
    BY <2>2 DEF Rep, Slice, Zero, BranchImm, SourceB
  <2>3. CASE k \in 5 .. 10
    BY <2>3 DEF Rep, Slice, Zero, BranchImm, SourceB
  <2>4. CASE k \in 11 .. 11
    BY <2>4 DEF Rep, Slice, Zero, BranchImm, SourceB
  <2>5. CASE k \in 12 .. 63
    BY <2>5 DEF Rep, Slice, Zero, BranchImm, SourceB
  <2> QED
    BY <2>1, <2>2, <2>3, <2>4, <2>5
<1> QED
  BY <1>1, <1>2

UpperImm == Rep(32, 31) \o Slice(31, 12) \o Rep(12, Zero)

LEMMA RtlU ==
  Len(UpperImm) = 64 /\ \A k \in 0 .. 63 : UpperImm[64 - k] = SourceU(k)
<1>1. Len(UpperImm) = 64
  BY DEF Rep, Slice, Zero, UpperImm
<1>2. ASSUME NEW k \in 0 .. 63 PROVE UpperImm[64 - k] = SourceU(k)
  <2>1. CASE k \in 0 .. 11
    BY <2>1 DEF Rep, Slice, Zero, UpperImm, SourceU
  <2>2. CASE k \in 12 .. 31
    BY <2>2 DEF Rep, Slice, Zero, UpperImm, SourceU
  <2>3. CASE k \in 32 .. 63
    BY <2>3 DEF Rep, Slice, Zero, UpperImm, SourceU
  <2> QED
    BY <2>1, <2>2, <2>3
<1> QED
  BY <1>1, <1>2

JumpImm == Rep(44, 31) \o Slice(19, 12) \o Slice(20, 20) \o Slice(30, 21) \o Rep(1, Zero)

LEMMA RtlJ ==
  Len(JumpImm) = 64 /\ \A k \in 0 .. 63 : JumpImm[64 - k] = SourceJ(k)
<1>1. Len(JumpImm) = 64
  BY DEF Rep, Slice, Zero, JumpImm
<1>2. ASSUME NEW k \in 0 .. 63 PROVE JumpImm[64 - k] = SourceJ(k)
  <2>1. CASE k \in 0 .. 0
    BY <2>1 DEF Rep, Slice, Zero, JumpImm, SourceJ
  <2>2. CASE k \in 1 .. 10
    BY <2>2 DEF Rep, Slice, Zero, JumpImm, SourceJ
  <2>3. CASE k \in 11 .. 11
    BY <2>3 DEF Rep, Slice, Zero, JumpImm, SourceJ
  <2>4. CASE k \in 12 .. 19
    BY <2>4 DEF Rep, Slice, Zero, JumpImm, SourceJ
  <2>5. CASE k \in 20 .. 63
    BY <2>5 DEF Rep, Slice, Zero, JumpImm, SourceJ
  <2> QED
    BY <2>1, <2>2, <2>3, <2>4, <2>5
<1> QED
  BY <1>1, <1>2

LEMMA ImmediateIs ==
  ASSUME NEW opcode
  PROVE  immediate(opcode) = CASE opcode = OPCODE_STORE -> StoreImm
                               [] opcode = OPCODE_BRANCH -> BranchImm
                               [] opcode = OPCODE_JAL -> JumpImm
                               [] opcode \in {OPCODE_LUI, OPCODE_AUIPC} -> UpperImm
                               [] OTHER -> RegisterImm
  BY Zenon DEF immediate, StoreImm, JumpImm, UpperImm, RegisterImm

(* Every bit of all 64 of the immediate that the decoder builds is the bit *)
(* of the word that the emulator takes, or zero where it takes none        *)
(* (decoder.sv 210-233, cpu.c 223-255).                                    *)
THEOREM DecoderSameImmediate == DecoderSpec => []SameImmediate
<1>1. WordInv => SameImmediate
  <2> SUFFICES ASSUME word \in InstWord, Implemented,
                      word.opcode \notin {OPCODE_OP, OPCODE_OP_32, OPCODE_AMO}
               PROVE  /\ Len(immediate(word.opcode)) = 64
                      /\ \A k \in 0 .. 63 : immediate(word.opcode)[64 - k] = decode_imm(word.opcode)[k]
    BY DEF WordInv, SameImmediate
  <2>1. word.opcode \in {3, 19, 23, 27, 35, 55, 99, 103, 111}
    BY Rows, OpcodeValues DEF Implemented, Row
  <2>2. CASE word.opcode \in {3, 19, 27, 103}
    <3>1. immediate(word.opcode) = RegisterImm /\ decode_imm(word.opcode) = IMM_I
      BY <2>2, ImmediateIs, OpcodeValues DEF decode_imm
    <3> QED
      BY <3>1, RtlI, EmuI
  <2>3. CASE word.opcode \in {23, 55}
    <3>1. immediate(word.opcode) = UpperImm /\ decode_imm(word.opcode) = IMM_U
      BY <2>3, ImmediateIs, OpcodeValues DEF decode_imm
    <3> QED
      BY <3>1, RtlU, EmuU
  <2>4. CASE word.opcode = 35
    <3>1. immediate(word.opcode) = StoreImm /\ decode_imm(word.opcode) = IMM_S
      BY <2>4, ImmediateIs, OpcodeValues DEF decode_imm
    <3> QED
      BY <3>1, RtlS, EmuS
  <2>5. CASE word.opcode = 111
    <3>1. immediate(word.opcode) = JumpImm /\ decode_imm(word.opcode) = IMM_J
      BY <2>5, ImmediateIs, OpcodeValues DEF decode_imm
    <3> QED
      BY <3>1, RtlJ, EmuJ
  <2>6. CASE word.opcode = 99
    <3>1. immediate(word.opcode) = BranchImm /\ decode_imm(word.opcode) = IMM_B
      BY <2>6, ImmediateIs, OpcodeValues DEF decode_imm
    <3> QED
      BY <3>1, RtlB, EmuB
  <2> QED
    BY <2>1, <2>2, <2>3, <2>4, <2>5, <2>6
<1> QED
  BY <1>1, WordStart, WordStep, PTL DEF DecoderSpec
=============================================================================
