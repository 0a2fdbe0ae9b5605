----------------------------- MODULE PlicProofs -----------------------------
(***************************************************************************)
(* Proofs about the PLIC for any number of sources, contexts and priority  *)
(* levels: types, the reserved source 0, the loop that finds the claim,    *)
(* and exclusive service.                                                  *)
(***************************************************************************)
EXTENDS PlicService, WellFoundedInduction, TLAPS

(* The offsets are numbers; what they are hardly ever matters.              *)
LEMMA Offs == ENABLE_OFFSET \in Nat /\ THRESHOLD_OFFSET \in Nat
BY SMT DEF ENABLE_OFFSET, THRESHOLD_OFFSET

LEMMA Bounds ==
  ASSUME NEW x \in Nat, NEW lo \in Nat, NEW hi \in Nat
  PROVE  /\ x \in lo .. hi - 1 => x >= lo /\ x < hi /\ x - lo \in Nat
         /\ x >= hi => x \notin lo .. hi - 1 /\ x - hi \in Nat
OBVIOUS

(* What an offset decodes to has a source or a context in range whenever   *)
(* it decodes to a register.                                               *)
LEMMA DecodeRange ==
  ASSUME NEW offset \in Nat
  PROVE  LET r == addr_decode(offset)
         IN  /\ r.kind = "priority" => r.index \in Ids
             /\ r.kind \in {"enable", "threshold", "claim"} => r.context \in Contexts
<1>1. CASE offset < MaxInterrupt * 4
  <2>1. offset \div 4 \in Ids
    BY <1>1, PlicAssumption, SMT DEF Ids
  <2> QED BY <1>1, <2>1, SMT DEF addr_decode, Reg
<1>2. ASSUME NEW rel \in Nat
      PROVE  EnableReg(rel).kind \in {"enable", "invalid"}
             /\ (EnableReg(rel).kind = "enable" => EnableReg(rel).context \in Contexts)
  <2>1. rel \div ENABLE_CONTEXT_INC \in Nat
    BY SMT DEF ENABLE_CONTEXT_INC
  <2> QED BY <2>1, PlicAssumption, SMT DEF EnableReg, Reg, Contexts
<1>3. ASSUME NEW rel \in Nat
      PROVE  ContextReg(rel).kind \in {"threshold", "claim", "invalid"}
             /\ (ContextReg(rel).kind \in {"threshold", "claim"} => ContextReg(rel).context \in Contexts)
  <2>1. rel \div THRESHOLD_CONTEXT_INC \in Nat
    BY SMT DEF THRESHOLD_CONTEXT_INC
  <2> QED BY <2>1, PlicAssumption, SMT DEF ContextReg, Reg, Contexts
<1>4. /\ offset \in ENABLE_OFFSET .. THRESHOLD_OFFSET - 1 => offset - ENABLE_OFFSET \in Nat
      /\ offset >= THRESHOLD_OFFSET => offset - THRESHOLD_OFFSET \in Nat
  BY Bounds, Offs, SMT
<1>5. CASE ~(offset < MaxInterrupt * 4)
  <2>1. CASE offset \in PENDING_OFFSET .. PENDING_OFFSET + 3
    BY <1>5, <2>1, SMT DEF addr_decode, Reg
  <2>2. CASE offset \notin PENDING_OFFSET .. PENDING_OFFSET + 3
    <3>1. CASE offset \in ENABLE_OFFSET .. THRESHOLD_OFFSET - 1
      <4>1. addr_decode(offset) = EnableReg(offset - ENABLE_OFFSET)
        BY <1>5, <2>2, <3>1, Zenon DEF addr_decode
      <4> QED BY <4>1, <1>2, <1>4, <3>1, Zenon
    <3>2. CASE offset \notin ENABLE_OFFSET .. THRESHOLD_OFFSET - 1 /\ offset >= THRESHOLD_OFFSET
      <4>1. addr_decode(offset) = ContextReg(offset - THRESHOLD_OFFSET)
        BY <1>5, <2>2, <3>2, Zenon DEF addr_decode
      <4> QED BY <4>1, <1>3, <1>4, <3>2, Zenon
    <3>3. CASE offset \notin ENABLE_OFFSET .. THRESHOLD_OFFSET - 1 /\ ~(offset >= THRESHOLD_OFFSET)
      <4>1. addr_decode(offset) = Reg("invalid", 0, 0)
        BY <1>5, <2>2, <3>3, Zenon DEF addr_decode
      <4> QED BY <4>1, SMT DEF Reg
    <3> QED BY <3>1, <3>2, <3>3, Zenon
  <2> QED BY <2>1, <2>2, Zenon
<1> QED BY <1>1, <1>5

(* The claim register of a context is where its handler looks for it.      *)
LEMMA ClaimRegister ==
  ASSUME NEW c \in Contexts
  PROVE  ClaimReg(c) = [kind |-> "claim", context |-> c, index |-> c]
<1> DEFINE off == ClaimOffset(c)
           rel == off - THRESHOLD_OFFSET
<1>1. c \in Nat /\ c < MaxContext
  BY PlicAssumption, SMT DEF Contexts
<1> DEFINE base == 4096 * c
<1>b. base \in Nat /\ THRESHOLD_CONTEXT_INC * c = base
  BY <1>1, SMT DEF THRESHOLD_CONTEXT_INC
<1> HIDE DEF base
<1>o. off = THRESHOLD_OFFSET + base + 4
  BY <1>b, SMT DEF ClaimOffset
<1>2. /\ off \in Nat /\ off >= THRESHOLD_OFFSET /\ rel = 4096 * c + 4
      /\ ~(off < MaxInterrupt * 4)
      /\ off \notin PENDING_OFFSET .. PENDING_OFFSET + 3
      /\ off \notin ENABLE_OFFSET .. THRESHOLD_OFFSET - 1
  <2>1. off \in Nat /\ off >= 2097152 /\ THRESHOLD_OFFSET = 2097152
    BY <1>b, <1>o, SMT DEF THRESHOLD_OFFSET
  <2>2. rel = base + 4
    BY <1>b, <1>o, SMT DEF THRESHOLD_OFFSET
  <2>3. MaxInterrupt * 4 <= 128
    BY PlicAssumption, SMT
  <2> HIDE DEF off
  <2>4. ~(off < MaxInterrupt * 4)
    BY <2>1, <2>3, PlicAssumption, SMT
  <2>5. off \notin PENDING_OFFSET .. PENDING_OFFSET + 3
    BY <2>1, SMT DEF PENDING_OFFSET
  <2>6. off \notin ENABLE_OFFSET .. THRESHOLD_OFFSET - 1
    BY <2>1, Bounds, Offs, SMT
  <2> QED BY <2>1, <2>2, <2>4, <2>5, <2>6, SMT DEF base
<1>3. rel \div THRESHOLD_CONTEXT_INC = c /\ (rel % THRESHOLD_CONTEXT_INC) \div 4 = 1
  BY <1>1, <1>2, SMT DEF THRESHOLD_CONTEXT_INC
<1> HIDE DEF off, rel
<1>4. ContextReg(rel) = [kind |-> "claim", context |-> c, index |-> c]
  BY <1>1, <1>3, SMT DEF ContextReg, Reg
<1>5. addr_decode(off) = ContextReg(rel)
  BY <1>2, SMT DEF addr_decode, rel
<1> QED BY <1>4, <1>5 DEF ClaimReg, off

-----------------------------------------------------------------------------
PlicInv == TypeOK /\ Source0Reserved

(* Every write of the guest keeps the types and the reserved source.       *)
LEMMA WriteKeeps ==
  ASSUME PlicInv, NEW offset \in Nat, plic_write(offset)
  PROVE  PlicInv'
<1> DEFINE r == addr_decode(offset)
<1> USE PlicAssumption DEF PlicInv, TypeOK, Source0Reserved, RestoreSource0
<1>0. 0 \in Ids
  BY DEF Ids
<1>r. /\ r.kind = "priority" => r.index \in Ids
      /\ r.kind \in {"enable", "threshold", "claim"} => r.context \in Contexts
  BY DecodeRange
<1> HIDE DEF r
<1>1. ASSUME NEW v \in Levels, WritePriority(r, v) PROVE PlicInv'
  BY <1>0, <1>1, <1>r DEF WritePriority
<1>2. CASE WritePending(r)
  BY <1>0, <1>2 DEF WritePending
<1>3. ASSUME NEW mask \in SUBSET Ids, WriteEnable(r, mask) PROVE PlicInv'
  BY <1>0, <1>3, <1>r DEF WriteEnable
<1>4. ASSUME NEW v \in Levels, WriteThreshold(r, v) PROVE PlicInv'
  BY <1>0, <1>4, <1>r DEF WriteThreshold
<1>5. ASSUME NEW id \in 0 .. MaxInterrupt, plic_complete(r, id) PROVE PlicInv'
  BY <1>0, <1>5, <1>r DEF plic_complete
<1> QED BY <1>1, <1>2, <1>3, <1>4, <1>5 DEF plic_write, r

LEMMA UpdateKeeps ==
  ASSUME PlicInv, NEW high \in SUBSET Ids, plic_irq_update(high)
  PROVE  PlicInv'
BY DEF plic_irq_update, PlicInv, TypeOK, Source0Reserved

LEMMA ResetKeeps ==
  ASSUME plic_reset
  PROVE  PlicInv'
BY PlicAssumption DEF plic_reset, PlicInv, TypeOK, Source0Reserved, Ids, Contexts

LEMMA ClaimKeeps ==
  ASSUME PlicInv, NEW r, NEW id \in Ids, plic_claim(r, id)
  PROVE  PlicInv'
BY DEF plic_claim, PlicInv, TypeOK, Source0Reserved

(* Types, and source 0 never takes part in anything, for every guest.      *)
THEOREM PlicSafe == Spec => [](TypeOK /\ Source0Reserved)
<1>1. Init => PlicInv
  BY PlicAssumption DEF Init, PlicInv, TypeOK, Source0Reserved, Ids, Contexts
<1>2. PlicInv /\ [Next]_plicVars => PlicInv'
  <2> SUFFICES ASSUME PlicInv, [Next]_plicVars PROVE PlicInv'
    OBVIOUS
  <2>1. CASE plic_reset
    BY <2>1, ResetKeeps
  <2>2. ASSUME NEW high \in SUBSET Ids, plic_irq_update(high) PROVE PlicInv'
    BY <2>2, UpdateKeeps
  <2>3. ASSUME NEW offset \in Offsets, plic_write(offset) PROVE PlicInv'
    BY <2>3, WriteKeeps, PlicAssumption
  <2>4. ASSUME NEW offset \in Offsets, plic_read(offset) PROVE PlicInv'
    BY <2>4, ClaimKeeps DEF plic_read
  <2>5. CASE UNCHANGED plicVars
    BY <2>5 DEF plicVars, PlicInv, TypeOK, Source0Reserved
  <2> QED BY <2>1, <2>2, <2>3, <2>4, <2>5 DEF Next
<1> QED BY <1>1, <1>2, PTL DEF Spec, PlicInv

(* A context whose line is up has something above its threshold to claim:  *)
(* what is claimed is at least the source that raised the line.            *)
THEOREM PlicLineMeansClaim == Spec => []LineMeansClaim
<1>1. PlicInv => LineMeansClaim
  <2> SUFFICES ASSUME PlicInv, NEW c \in Contexts, interrupt_per_context(c),
                      NEW id \in Ids, get_claim_id(c, id)
               PROVE  id # 0 /\ priority[id] > threshold[c]
    BY DEF LineMeansClaim
  <2> USE DEF PlicInv, TypeOK
  <2>1. PICK i \in EnabledPending(c) : priority[i] > 0 /\ priority[i] > threshold[c]
    BY DEF interrupt_per_context
  <2>2. i \in Claimable(c) /\ i \in Ids
    BY <2>1 DEF Claimable, EnabledPending
  <2>3. id \in Claimable(c) /\ priority[id] >= priority[i]
    BY <2>2 DEF get_claim_id
  <2>4. id # 0
    BY <2>3 DEF Claimable, Source0Reserved
  <2> QED BY <2>1, <2>2, <2>3, <2>4
<1> QED BY <1>1, PlicSafe, PTL DEF PlicInv

-----------------------------------------------------------------------------
(* The loop of get_claim_id.  After source i it holds the best claimable   *)
(* source up to i, which is an induction over the sources: the least one   *)
(* at which it fails has a predecessor at which it holds.                  *)
LEMMA LeastNat ==
  ASSUME NEW T, T \subseteq Nat, T # {}
  PROVE  \E n \in T : \A m \in T : ~(m < n)
<1>1. \E n \in T : \A m \in T : ~(<<m, n>> \in OpToRel(<, Nat))
  BY WFMin, NatLessThanWellFounded
<1> QED BY <1>1 DEF OpToRel

Upto(c, i) == {j \in Claimable(c) : j <= i}

BestUpto(c, i, id) ==
  \/ Upto(c, i) = {} /\ id = 0
  \/ /\ id \in Upto(c, i)
     /\ \A j \in Upto(c, i) :
          priority[j] < priority[id] \/ (priority[j] = priority[id] /\ id <= j)

(* One turn of the loop, and the loop.                                     *)
Turn(c, i, id) ==
  IF i \in EnabledPending(c) /\ priority[i] > 0 /\ priority[i] > priority[id] THEN i ELSE id

IsScan(b, c) == b = [i \in Ids |-> IF i = 0 THEN 0 ELSE Turn(c, i, b[i - 1])]
Scan(c) == CHOOSE b : IsScan(b, c)

LEMMA ScanIsScan == ASSUME NEW c PROVE ScanClaimId(c) = Scan(c)[MaxInterrupt - 1]
BY Zenon DEF ScanClaimId, Scan, IsScan, Turn

LEMMA FirstBest == ASSUME PlicInv, NEW c \in Contexts PROVE BestUpto(c, 0, 0)
<1>1. \A j \in Claimable(c) : j \in Ids /\ j # 0
  BY DEF PlicInv, TypeOK, Source0Reserved, Claimable, EnabledPending
<1>2. Upto(c, 0) = {}
  BY <1>1, PlicAssumption DEF Upto, Ids
<1> QED BY <1>2 DEF BestUpto

LEMMA TurnBest ==
  ASSUME PlicInv, NEW c \in Contexts, NEW i \in Ids \ {0}, NEW id, BestUpto(c, i - 1, id)
  PROVE  BestUpto(c, i, Turn(c, i, id))
<1> USE DEF PlicInv, TypeOK
<1>1. Claimable(c) \subseteq Ids /\ Ids \subseteq Nat
  BY PlicAssumption DEF Claimable, EnabledPending, Ids
<1>2. Upto(c, i) = IF i \in Claimable(c) THEN Upto(c, i - 1) \cup {i} ELSE Upto(c, i - 1)
  <2>1. \A j \in Nat : j <= i <=> j <= i - 1 \/ j = i
    BY <1>1
  <2>2. \A j : j \in Upto(c, i) <=> j \in Upto(c, i - 1) \/ (j = i /\ i \in Claimable(c))
    BY <1>1, <2>1 DEF Upto
  <2>3. CASE i \in Claimable(c)
    <3>1. \A j : j \in Upto(c, i) <=> j \in Upto(c, i - 1) \cup {i}
      BY <2>2, <2>3, Zenon
    <3>2. Upto(c, i) = Upto(c, i - 1) \cup {i}
      BY <3>1, Zenon
    <3> QED BY <2>3, <3>2
  <2>4. CASE i \notin Claimable(c)
    BY <2>2, <2>4, Zenon
  <2> QED BY <2>3, <2>4
<1>3. i \in Claimable(c) <=> i \in EnabledPending(c) /\ priority[i] > 0
  BY DEF Claimable
<1>4. \A j \in Upto(c, i) : j \in Ids /\ priority[j] \in Nat /\ j \in Nat /\ priority[j] > 0
  BY <1>1 DEF Upto, Claimable
<1>5. priority[i] \in Nat /\ i \in Nat /\ i \notin Upto(c, i - 1)
  BY <1>1 DEF Upto
<1>6. CASE Upto(c, i - 1) = {}
  <2>1. id = 0 /\ priority[id] = 0
    BY <1>6 DEF BestUpto, Source0Reserved
  <2> QED BY <1>2, <1>3, <1>5, <1>6, <2>1 DEF Turn, BestUpto
<1>7. CASE Upto(c, i - 1) # {}
  <2>1. /\ id \in Upto(c, i - 1)
        /\ \A j \in Upto(c, i - 1) :
             priority[j] < priority[id] \/ (priority[j] = priority[id] /\ id <= j)
    BY <1>7 DEF BestUpto
  <2>2. id \in Nat /\ priority[id] \in Nat /\ id <= i
    <3>1. id \in Claimable(c) /\ id <= i - 1
      BY <2>1 DEF Upto
    <3>2. id \in Nat /\ id \in Ids
      BY <1>1, <3>1
    <3> QED BY <1>5, <3>1, <3>2
  <2>3. CASE i \in Claimable(c) /\ priority[i] > priority[id]
    <3>1. Turn(c, i, id) = i
      BY <1>3, <2>3 DEF Turn
    <3> QED BY <1>2, <1>4, <1>5, <2>1, <2>2, <2>3, <3>1 DEF BestUpto
  <2>4. CASE ~(i \in Claimable(c) /\ priority[i] > priority[id])
    <3>1. Turn(c, i, id) = id
      BY <1>3, <2>4 DEF Turn
    <3> QED BY <1>2, <1>4, <1>5, <2>1, <2>2, <2>4, <3>1 DEF BestUpto
  <2> QED BY <2>3, <2>4
<1> QED BY <1>6, <1>7

LEMMA BestExists ==
  ASSUME PlicInv, NEW c \in Contexts
  PROVE  \A i \in Ids : \E id : BestUpto(c, i, id)
<1> DEFINE Bad == {i \in Ids : ~\E id : BestUpto(c, i, id)}
<1> SUFFICES ASSUME Bad # {} PROVE FALSE
  OBVIOUS
<1>0. Bad \subseteq Nat
  BY PlicAssumption DEF Ids
<1>1. PICK n \in Bad : \A m \in Bad : ~(m < n)
  <2> HIDE DEF Bad
  <2> QED BY <1>0, LeastNat
<1>2. n \in Ids \ {0}
  BY <1>1, FirstBest
<1>3. n - 1 \in Ids /\ n - 1 < n
  BY <1>2, PlicAssumption DEF Ids
<1>4. PICK id : BestUpto(c, n - 1, id)
  BY <1>1, <1>3
<1> QED BY <1>1, <1>2, <1>4, TurnBest

LEMMA BestUnique ==
  ASSUME PlicInv, NEW c \in Contexts, NEW i \in Ids, NEW id, NEW jd,
         BestUpto(c, i, id), BestUpto(c, i, jd)
  PROVE  id = jd
<1>1. \A j \in Upto(c, i) : priority[j] \in Nat /\ j \in Nat
  BY PlicAssumption DEF PlicInv, TypeOK, Upto, Claimable, EnabledPending, Ids
<1> QED BY <1>1 DEF BestUpto

(* The recursion the loop is modelled by has a solution: the best ones.    *)
LEMMA ScanExists ==
  ASSUME PlicInv, NEW c \in Contexts
  PROVE  IsScan(Scan(c), c)
<1> DEFINE b == [i \in Ids |-> CHOOSE id : BestUpto(c, i, id)]
<1>1. \A i \in Ids : BestUpto(c, i, b[i])
  BY BestExists
<1>2. ASSUME NEW i \in Ids PROVE b[i] = IF i = 0 THEN 0 ELSE Turn(c, i, b[i - 1])
  <2>1. CASE i = 0
    BY <1>1, <2>1, FirstBest, BestUnique
  <2>2. CASE i # 0
    <3>1. i - 1 \in Ids
      BY <2>2, PlicAssumption DEF Ids
    <3>2. BestUpto(c, i, b[i]) /\ BestUpto(c, i - 1, b[i - 1])
      BY <1>1, <3>1
    <3> HIDE DEF b
    <3> QED BY <2>2, <3>2, TurnBest, BestUnique
  <2> QED BY <2>1, <2>2
<1>3. b = [i \in Ids |-> b[i]]
  OBVIOUS
<1>4. IsScan(b, c)
  <2> HIDE DEF b
  <2>1. [i \in Ids |-> b[i]] = [i \in Ids |-> IF i = 0 THEN 0 ELSE Turn(c, i, b[i - 1])]
    BY <1>2
  <2> QED BY <1>3, <2>1 DEF IsScan
<1> QED BY <1>4 DEF Scan

LEMMA ScanBest ==
  ASSUME PlicInv, NEW c \in Contexts
  PROVE  \A i \in Ids : BestUpto(c, i, Scan(c)[i])
<1>1. PICK b : b = Scan(c) /\ b = [i \in Ids |-> IF i = 0 THEN 0 ELSE Turn(c, i, b[i - 1])]
  BY ScanExists DEF IsScan
<1>2. \A i \in Ids : b[i] = IF i = 0 THEN 0 ELSE Turn(c, i, b[i - 1])
  BY <1>1
<1> DEFINE Bad == {i \in Ids : ~BestUpto(c, i, b[i])}
<1> SUFFICES ASSUME Bad # {} PROVE FALSE
  BY <1>1
<1>b. Bad \subseteq Nat
  BY PlicAssumption DEF Ids
<1>3. PICK n \in Bad : \A m \in Bad : ~(m < n)
  <2> HIDE DEF Bad
  <2> QED BY <1>b, LeastNat
<1>4. n \in Ids \ {0}
  BY <1>2, <1>3, FirstBest
<1>5. n - 1 \in Ids /\ n - 1 < n
  BY <1>4, PlicAssumption DEF Ids
<1>6. BestUpto(c, n - 1, b[n - 1])
  BY <1>3, <1>5
<1> QED BY <1>2, <1>3, <1>4, <1>6, TurnBest

(* The loop returns what the claim is specified to be, and nothing else    *)
(* satisfies the specification, for any number of sources and any          *)
(* register contents the guest can bring about.                            *)
THEOREM PlicScanIsClaimId == Spec => []ScanIsClaimId
<1>1. PlicInv => ScanIsClaimId
  <2> SUFFICES ASSUME PlicInv, NEW c \in Contexts, NEW id \in Ids
               PROVE  get_claim_id(c, id) <=> id = ScanClaimId(c)
    BY DEF ScanIsClaimId
  <2> DEFINE top == MaxInterrupt - 1
  <2>1. top \in Ids
    BY PlicAssumption DEF Ids
  <2>2. Upto(c, top) = Claimable(c)
    BY PlicAssumption DEF PlicInv, TypeOK, Upto, Claimable, EnabledPending, Ids
  <2>3. \A jd : get_claim_id(c, jd) <=> BestUpto(c, top, jd)
    BY <2>2 DEF get_claim_id, BestUpto
  <2>4. BestUpto(c, top, ScanClaimId(c))
    BY <2>1, ScanBest, ScanIsScan
  <2> HIDE DEF top
  <2> QED BY <2>1, <2>3, <2>4, BestUnique
<1> QED BY <1>1, PlicSafe, PTL DEF PlicInv

-----------------------------------------------------------------------------
(* Exclusive service.  The invariant says where every source is: pending,  *)
(* claimed or ignored means that its gateway is busy, and nothing else     *)
(* does; it is never two of them, nor claimed twice.  Only then does a     *)
(* completion, which reopens the gateway of one source, leave no other     *)
(* claim of it behind.                                                     *)
ServiceInv ==
  /\ ServiceTypeOK
  /\ Source0Reserved
  /\ GatewayHeld
  /\ NoRetrigger
  /\ ExclusiveService
  /\ IgnoredFree
  /\ SilentOnlyIfIgnored

LEMMA ClaimStep ==
  ASSUME ServiceInv, NEW c \in Contexts, Claim(c)
  PROVE  ServiceInv'
<1>1. PICK id \in Ids :
        /\ plic_claim(ClaimReg(c), id)
        /\ claimed' = [claimed EXCEPT ![c] = @ \cup ({id} \ {0})]
        /\ UNCHANGED <<level, resolved, ignored>>
  BY DEF Claim
<1>2. get_claim_id(c, id) /\ pending' = pending \ {id}
      /\ UNCHANGED <<priority, enable, threshold, gw_busy>>
  BY <1>1, ClaimRegister DEF plic_claim
<1>3. id = 0 \/ id \in pending
  BY <1>2 DEF get_claim_id, Claimable, EnabledPending
<1> USE DEF ServiceInv, ServiceTypeOK, TypeOK
<1>4. ServiceTypeOK' /\ Source0Reserved'
  BY <1>1, <1>2 DEF Source0Reserved
<1>5. GatewayHeld'
  BY <1>1, <1>2, <1>3 DEF GatewayHeld
<1>6. NoRetrigger'
  BY <1>1, <1>2 DEF NoRetrigger
<1>7. ExclusiveService'
  BY <1>1, <1>3 DEF ExclusiveService, NoRetrigger
<1>8. IgnoredFree'
  BY <1>1, <1>2, <1>3 DEF IgnoredFree, GatewayHeld, Source0Reserved
<1>9. SilentOnlyIfIgnored'
  <2> SUFFICES ASSUME NEW j \in gw_busy' PROVE j \in pending' \/ j \in ignored' \/ \E d \in Contexts : j \in claimed'[d]
    BY DEF SilentOnlyIfIgnored
  <2>1. j \in pending \/ j \in ignored \/ \E d \in Contexts : j \in claimed[d]
    BY <1>2 DEF SilentOnlyIfIgnored
  <2>2. \A d \in Contexts : claimed[d] \subseteq claimed'[d]
    BY <1>1
  <2>3. j # 0 /\ (j = id => j \in claimed'[c])
    BY <1>1, <1>2 DEF Source0Reserved
  <2> QED BY <1>1, <1>2, <2>1, <2>2, <2>3
<1> QED BY <1>4, <1>5, <1>6, <1>7, <1>8, <1>9

(* A completion by context c opens the gateway of i, or is ignored.        *)
LEMMA CompletionHistory ==
  ASSUME ServiceInv, NEW c \in Contexts, NEW i \in Ids, plic_complete(ClaimReg(c), i),
         ignored' = StillIgnored(c, i)
  PROVE  /\ \/ gw_busy' = gw_busy \ {i} /\ ignored' = ignored \ {i}
            \/ gw_busy' = gw_busy /\ ignored' = ignored \cup {i}
         /\ RestoreSource0(priority, enable)
         /\ UNCHANGED <<pending, threshold>>
BY ClaimRegister DEF plic_complete, StillIgnored

LEMMA CompleteStep ==
  ASSUME ServiceInv, NEW c \in Contexts, NEW i \in Ids, Complete(c, i)
  PROVE  ServiceInv'
<1>1. /\ i \in claimed[c]
      /\ claimed' = [claimed EXCEPT ![c] = @ \ {i}]
      /\ resolved' = [resolved EXCEPT ![c] = @ \ {i}]
      /\ UNCHANGED level
  BY DEF Complete
<1>2. /\ \/ gw_busy' = gw_busy \ {i} /\ ignored' = ignored \ {i}
         \/ gw_busy' = gw_busy /\ ignored' = ignored \cup {i}
      /\ RestoreSource0(priority, enable)
      /\ UNCHANGED <<pending, threshold>>
  BY CompletionHistory DEF Complete
<1> USE PlicAssumption DEF ServiceInv, ServiceTypeOK, TypeOK
<1>0. 0 \in Ids
  BY DEF Ids
<1>4. ServiceTypeOK' /\ Source0Reserved'
  BY <1>0, <1>1, <1>2 DEF Source0Reserved, RestoreSource0
<1>n. i \notin pending' /\ i \in gw_busy
  BY <1>1, <1>2 DEF NoRetrigger, GatewayHeld
<1>c. ASSUME NEW d \in Contexts PROVE i \notin claimed'[d]
  BY <1>1 DEF ExclusiveService
<1>5. GatewayHeld'
  BY <1>1, <1>2, <1>n, <1>c DEF GatewayHeld
<1>6. NoRetrigger'
  BY <1>1, <1>2 DEF NoRetrigger
<1>7. ExclusiveService'
  BY <1>1 DEF ExclusiveService
<1>8. IgnoredFree'
  BY <1>1, <1>2, <1>n, <1>c DEF IgnoredFree
<1>9. SilentOnlyIfIgnored'
  <2> SUFFICES ASSUME NEW j \in gw_busy' PROVE j \in pending' \/ j \in ignored' \/ \E d \in Contexts : j \in claimed'[d]
    BY DEF SilentOnlyIfIgnored
  <2>1. j \in pending \/ j \in ignored \/ \E d \in Contexts : j \in claimed[d]
    BY <1>2 DEF SilentOnlyIfIgnored
  <2>2. j = i => j \in ignored'
    BY <1>2
  <2>3. j # i => \A d \in Contexts : j \in claimed[d] => j \in claimed'[d]
    BY <1>1
  <2> QED BY <1>2, <2>1, <2>2, <2>3
<1> QED BY <1>4, <1>5, <1>6, <1>7, <1>8, <1>9

LEMMA CompleteAgainStep ==
  ASSUME ServiceInv, NEW c \in Contexts, NEW i \in Ids, CompleteAgain(c, i)
  PROVE  ServiceInv'
<1>1. i \in ignored /\ UNCHANGED <<level, claimed, resolved>>
  BY DEF CompleteAgain
<1>2. /\ \/ gw_busy' = gw_busy \ {i} /\ ignored' = ignored \ {i}
         \/ gw_busy' = gw_busy /\ ignored' = ignored \cup {i}
      /\ RestoreSource0(priority, enable)
      /\ UNCHANGED <<pending, threshold>>
  BY CompletionHistory DEF CompleteAgain
<1> USE PlicAssumption DEF ServiceInv, ServiceTypeOK, TypeOK
<1>0. 0 \in Ids
  BY DEF Ids
<1>4. ServiceTypeOK' /\ Source0Reserved'
  BY <1>0, <1>1, <1>2 DEF Source0Reserved, RestoreSource0
<1>5. GatewayHeld'
  BY <1>1, <1>2 DEF GatewayHeld, IgnoredFree
<1>6. NoRetrigger' /\ ExclusiveService'
  BY <1>1, <1>2 DEF NoRetrigger, ExclusiveService
<1>7. IgnoredFree'
  BY <1>1, <1>2 DEF IgnoredFree
<1>8. SilentOnlyIfIgnored'
  BY <1>1, <1>2 DEF SilentOnlyIfIgnored
<1> QED BY <1>4, <1>5, <1>6, <1>7, <1>8

LEMMA UpdateStep ==
  ASSUME ServiceInv, IrqUpdate
  PROVE  ServiceInv'
<1> USE DEF ServiceInv, ServiceTypeOK, TypeOK, IrqUpdate, plic_irq_update
<1>1. ServiceTypeOK' /\ Source0Reserved'
  BY DEF Source0Reserved
<1>2. GatewayHeld'
  BY DEF GatewayHeld, Source0Reserved
<1>3. NoRetrigger'
  BY DEF NoRetrigger, GatewayHeld
<1>4. ExclusiveService'
  BY DEF ExclusiveService
<1>5. IgnoredFree'
  BY DEF IgnoredFree, GatewayHeld
<1>6. SilentOnlyIfIgnored'
  BY DEF SilentOnlyIfIgnored
<1> QED BY <1>1, <1>2, <1>3, <1>4, <1>5, <1>6

LEMMA ConfigureStep ==
  ASSUME ServiceInv, Configure
  PROVE  ServiceInv'
<1>1. PICK offset \in Offsets : addr_decode(offset).kind # "claim" /\ plic_write(offset)
  BY DEF Configure
<1>2. PlicInv'
  BY <1>1, WriteKeeps, PlicAssumption DEF PlicInv, ServiceInv, ServiceTypeOK
<1>3. UNCHANGED <<pending, gw_busy, level, claimed, resolved, ignored>>
  BY <1>1 DEF Configure, plic_write, WritePriority, WritePending, WriteEnable, WriteThreshold,
              plic_complete
<1> QED BY <1>2, <1>3 DEF PlicInv, ServiceInv, ServiceTypeOK, GatewayHeld, NoRetrigger,
             ExclusiveService, IgnoredFree, SilentOnlyIfIgnored

(* Whatever the devices, the handlers and the guest do.                    *)
LEMMA ServiceInvariant == ServiceSpec => []ServiceInv
<1>1. ServiceInit => ServiceInv
  BY PlicAssumption DEF ServiceInit, Init, ServiceInv, ServiceTypeOK, TypeOK, Source0Reserved,
       GatewayHeld, NoRetrigger, ExclusiveService, IgnoredFree, SilentOnlyIfIgnored, Nothing, Ids, Contexts
<1>2. ServiceInv /\ [ServiceNext]_vars => ServiceInv'
  <2> SUFFICES ASSUME ServiceInv, [ServiceNext]_vars PROVE ServiceInv'
    OBVIOUS
  <2>1. ASSUME NEW i \in Ids, DeviceRaise(i) PROVE ServiceInv'
    BY <2>1 DEF DeviceRaise, plicVars, ServiceInv, ServiceTypeOK, TypeOK, Source0Reserved,
         GatewayHeld, NoRetrigger, ExclusiveService, IgnoredFree, SilentOnlyIfIgnored
  <2>2. CASE IrqUpdate
    BY <2>2, UpdateStep
  <2>3. ASSUME NEW c \in Contexts, Claim(c) PROVE ServiceInv'
    BY <2>3, ClaimStep
  <2>4. ASSUME NEW c \in Contexts, NEW i \in Ids, Resolve(c, i) PROVE ServiceInv'
    BY <2>4 DEF Resolve, plicVars, ServiceInv, ServiceTypeOK, TypeOK, Source0Reserved,
         GatewayHeld, NoRetrigger, ExclusiveService, IgnoredFree, SilentOnlyIfIgnored
  <2>5. ASSUME NEW c \in Contexts, NEW i \in Ids, Complete(c, i) PROVE ServiceInv'
    BY <2>5, CompleteStep
  <2>9. ASSUME NEW c \in Contexts, NEW i \in Ids, CompleteAgain(c, i) PROVE ServiceInv'
    BY <2>9, CompleteAgainStep
  <2>6. CASE Configure
    BY <2>6, ConfigureStep
  <2>7. CASE Reset
    <3>1. PlicInv'
      BY <2>7, ResetKeeps DEF Reset
    <3>2. /\ pending' = {} /\ gw_busy' = {} /\ ignored' = {}
          /\ claimed' = Nothing /\ resolved' = Nothing /\ level' = level
      BY <2>7 DEF Reset, plic_reset
    <3> QED BY <3>1, <3>2 DEF PlicInv, ServiceInv, ServiceTypeOK, GatewayHeld, NoRetrigger,
                 ExclusiveService, IgnoredFree, SilentOnlyIfIgnored, Nothing
  <2>8. CASE UNCHANGED vars
    BY <2>8 DEF vars, ServiceInv, ServiceTypeOK, TypeOK, Source0Reserved, GatewayHeld,
         NoRetrigger, ExclusiveService, IgnoredFree, SilentOnlyIfIgnored
  <2> QED BY <2>1, <2>2, <2>3, <2>4, <2>5, <2>6, <2>7, <2>8, <2>9 DEF ServiceNext, Service
<1> QED BY <1>1, <1>2, PTL DEF ServiceSpec

(* Whatever the devices, the handlers of the contexts and the guest's      *)
(* configuration writes do, no source is ever in the hands of two          *)
(* handlers or offered again while it is in the hands of one.              *)
THEOREM PlicExclusive == ServiceSpec => [](ExclusiveService /\ NoRetrigger)
<1>1. ServiceInv => ExclusiveService /\ NoRetrigger
  BY DEF ServiceInv
<1> QED BY <1>1, ServiceInvariant, PTL

\* A source in the hands of a handler is not pending: its gateway is busy until the completion,
\* so plic_irq_update leaves it alone while its level stays up.
THEOREM PlicNoRetrigger == ServiceSpec => []NoRetrigger
BY PlicExclusive, PTL

(* A gateway is shut only for a request that is pending or in the hands of *)
(* a handler, or after a completion by a context that had the source       *)
(* disabled: nothing else the guest does to the registers silences it.     *)
THEOREM PlicSilentOnlyIfIgnored == ServiceSpec => []SilentOnlyIfIgnored
<1>1. ServiceInv => SilentOnlyIfIgnored
  BY DEF ServiceInv
<1> QED BY <1>1, ServiceInvariant, PTL

=============================================================================
