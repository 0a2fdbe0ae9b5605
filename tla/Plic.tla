-------------------------------- MODULE Plic --------------------------------
(***************************************************************************)
(* The platform-level interrupt controller of the emulator                 *)
(* (emulator/src/device/plic.c): level gateways, the pending and enable    *)
(* words, priorities, thresholds and the claim/complete register of every  *)
(* context.  The guest is arbitrary: any 4-byte access at any offset of    *)
(* the PLIC window, with any value, may come at any time.                  *)
(*                                                                         *)
(* A register word that is a bit mask (pending, enable) is the set of its  *)
(* bits.  Bits of an enable word above PLIC_MAX_INTERRUPT are kept by the  *)
(* code and never looked at; they are left out.                            *)
(***************************************************************************)
EXTENDS Naturals, FiniteSets

CONSTANTS
  MaxInterrupt,   \* PLIC_MAX_INTERRUPT: sources are 0 .. MaxInterrupt - 1
  MaxContext,     \* PLIC_MAX_CONTEXT: contexts are 0 .. MaxContext - 1
  Levels,         \* the values a guest may write to priority and threshold
  Offsets         \* the register offsets a guest may access

ASSUME PlicAssumption ==
  /\ MaxInterrupt \in Nat \ {0, 1} /\ MaxInterrupt <= 32
  /\ MaxContext \in Nat \ {0}
  /\ Levels \subseteq Nat
  /\ Offsets \subseteq Nat

VARIABLES
  priority,       \* regs.priority: source -> level
  pending,        \* regs.pending: the sources whose bit is set
  enable,         \* regs.enable: context -> set of enabled sources
  threshold,      \* regs.threshold: context -> level
  gw_busy         \* gw_busy: the sources whose gateway waits for a completion

plicVars == <<priority, pending, enable, threshold, gw_busy>>

Ids      == 0 .. MaxInterrupt - 1
Contexts == 0 .. MaxContext - 1

-----------------------------------------------------------------------------
(* Register window.                                                        *)

PENDING_OFFSET        == 4096
ENABLE_OFFSET         == 8192
THRESHOLD_OFFSET      == 2097152
ENABLE_CONTEXT_INC    == 128
THRESHOLD_CONTEXT_INC == 4096

Reg(kind, context, index) == [kind |-> kind, context |-> context, index |-> index]

EnableReg(rel) ==
  LET c == rel \div ENABLE_CONTEXT_INC
  IN  IF c < MaxContext /\ (rel % ENABLE_CONTEXT_INC) \div 4 = 0
      THEN Reg("enable", c, 0)
      ELSE Reg("invalid", c, 0)

ContextReg(rel) ==
  LET c == rel \div THRESHOLD_CONTEXT_INC
      w == (rel % THRESHOLD_CONTEXT_INC) \div 4
  IN  IF c < MaxContext /\ w \in {0, 1}
      THEN Reg(IF w = 0 THEN "threshold" ELSE "claim", c, c)
      ELSE Reg("invalid", c, 0)

(* The register at an offset of the window.  One pending word: the sources *)
(* fit 32 bits.  Accesses that are not 4 bytes wide decode to "invalid"    *)
(* too, change nothing and are left out.                                   *)
addr_decode(offset) ==
  IF offset < MaxInterrupt * 4
    THEN Reg("priority", 0, offset \div 4)
  ELSE IF offset \in PENDING_OFFSET .. PENDING_OFFSET + 3
    THEN Reg("pending", 0, 0)
  ELSE IF offset \in ENABLE_OFFSET .. THRESHOLD_OFFSET - 1
    THEN EnableReg(offset - ENABLE_OFFSET)
  ELSE IF offset >= THRESHOLD_OFFSET
    THEN ContextReg(offset - THRESHOLD_OFFSET)
  ELSE Reg("invalid", 0, 0)

-----------------------------------------------------------------------------
(* What a context sees.                                                    *)

EnabledPending(c) == pending \cap enable[c]

LineAtThreshold(c) ==                          \* mutant: >= for >
  \E i \in EnabledPending(c) : priority[i] > 0 /\ priority[i] >= threshold[c]

(* The external interrupt line of a context: meip is context 0, seip       *)
(* context 1.                                                              *)
interrupt_per_context(c) ==
  \E i \in EnabledPending(c) : priority[i] > 0 /\ priority[i] > threshold[c]

(* id is what reading the claim register of c returns: the claimable       *)
(* source of the highest priority, the lowest one of equals, 0 when there  *)
(* is none.  The threshold plays no part.                                  *)
Claimable(c) == {i \in EnabledPending(c) : priority[i] > 0}

ClaimLastOfEquals(c, id) ==                    \* mutant: the scan replaces on >=
  \/ Claimable(c) = {} /\ id = 0
  \/ /\ id \in Claimable(c)
     /\ \A j \in Claimable(c) :
          priority[j] < priority[id] \/ (priority[j] = priority[id] /\ id >= j)

get_claim_id(c, id) ==
  \/ Claimable(c) = {} /\ id = 0
  \/ /\ id \in Claimable(c)
     /\ \A j \in Claimable(c) :
          priority[j] < priority[id] \/ (priority[j] = priority[id] /\ id <= j)

-----------------------------------------------------------------------------
(* Reset, and the gateways.                                                *)

plic_reset ==
  /\ priority' = [i \in Ids |-> 0]
  /\ pending' = {}
  /\ enable' = [c \in Contexts |-> {}]
  /\ threshold' = [c \in Contexts |-> 0]
  /\ gw_busy' = {}

Init ==
  /\ priority = [i \in Ids |-> 0]
  /\ pending = {}
  /\ enable = [c \in Contexts |-> {}]
  /\ threshold = [c \in Contexts |-> 0]
  /\ gw_busy = {}

IrqUpdateIgnoresBusy(high) ==                  \* mutant: the gateway does not hold back
  /\ gw_busy' = (gw_busy \cup high) \ {0}
  /\ pending' = (pending \cup high) \ {0}
  /\ UNCHANGED <<priority, enable, threshold>>

(* One pass over the input levels: every idle gateway whose level is high  *)
(* latches a request.  Source 0 is put back after each gateway.            *)
plic_irq_update(high) ==
  LET fresh == high \ gw_busy
  IN  /\ gw_busy' = (gw_busy \cup fresh) \ {0}
      /\ pending' = (pending \cup fresh) \ {0}
      /\ UNCHANGED <<priority, enable, threshold>>

-----------------------------------------------------------------------------
(* Guest accesses.  Every write that decodes also restores source 0.       *)

RestoreEnableOnly(prio, en) ==                 \* mutant: priority 0 is not restored
  /\ priority' = prio
  /\ enable' = [c \in Contexts |-> en[c] \ {0}]

RestoreSource0(prio, en) ==
  /\ priority' = [prio EXCEPT ![0] = 0]
  /\ enable' = [c \in Contexts |-> en[c] \ {0}]

WritePriority(r, v) ==
  /\ r.kind = "priority"
  /\ RestoreSource0([priority EXCEPT ![r.index] = v], enable)
  /\ UNCHANGED <<pending, threshold, gw_busy>>

WritePending(r) ==
  /\ r.kind = "pending"
  /\ RestoreSource0(priority, enable)
  /\ UNCHANGED <<pending, threshold, gw_busy>>

WriteEnable(r, mask) ==
  /\ r.kind = "enable"
  /\ RestoreSource0(priority, [enable EXCEPT ![r.context] = mask])
  /\ UNCHANGED <<pending, threshold, gw_busy>>

WriteThreshold(r, v) ==
  /\ r.kind = "threshold"
  /\ threshold' = [threshold EXCEPT ![r.context] = v]
  /\ RestoreSource0(priority, enable)
  /\ UNCHANGED <<pending, gw_busy>>

CompleteIgnored(r, id) ==                      \* mutant: the gateway is never reopened
  /\ r.kind = "claim"
  /\ RestoreSource0(priority, enable)
  /\ UNCHANGED <<pending, threshold, gw_busy>>

CompleteAboveThreshold(r, id) ==               \* mutant: a completion of a masked source is ignored
  /\ r.kind = "claim"
  /\ gw_busy' = IF id \in Ids /\ id \in enable[r.context] /\ priority[id] > threshold[r.context]
                THEN gw_busy \ {id} ELSE gw_busy
  /\ RestoreSource0(priority, enable)
  /\ UNCHANGED <<pending, threshold>>

(* A completion reopens the gateway of an enabled source, claimed or not;  *)
(* any other value written is ignored.                                     *)
plic_complete(r, id) ==
  /\ r.kind = "claim"
  /\ gw_busy' = IF id \in Ids /\ id \in enable[r.context] THEN gw_busy \ {id} ELSE gw_busy
  /\ RestoreSource0(priority, enable)
  /\ UNCHANGED <<pending, threshold>>

plic_write(offset) ==
  LET r == addr_decode(offset)
  IN  \/ \E v \in Levels : WritePriority(r, v)
      \/ WritePending(r)
      \/ \E mask \in SUBSET Ids : WriteEnable(r, mask)
      \/ \E v \in Levels : WriteThreshold(r, v)
      \/ \E id \in 0 .. MaxInterrupt : plic_complete(r, id)

ClaimKeepsPending(r, id) ==                    \* mutant: the pending bit is not cleared
  /\ r.kind = "claim"
  /\ get_claim_id(r.context, id)
  /\ UNCHANGED plicVars

(* Reading the claim register claims what it returns; the other reads      *)
(* change nothing.                                                         *)
plic_claim(r, id) ==
  /\ r.kind = "claim"
  /\ get_claim_id(r.context, id)
  /\ pending' = pending \ {id}
  /\ UNCHANGED <<priority, enable, threshold, gw_busy>>

plic_read(offset) ==
  \E id \in Ids : plic_claim(addr_decode(offset), id)

Next ==
  \/ plic_reset
  \/ \E high \in SUBSET Ids : plic_irq_update(high)
  \/ \E offset \in Offsets : plic_write(offset)
  \/ \E offset \in Offsets : plic_read(offset)

Spec == Init /\ [][Next]_plicVars

-----------------------------------------------------------------------------
(* Every register holds a value of its type.                               *)
TypeOK ==
  /\ priority \in [Ids -> Nat]
  /\ pending \in SUBSET Ids
  /\ enable \in [Contexts -> SUBSET Ids]
  /\ threshold \in [Contexts -> Nat]
  /\ gw_busy \in SUBSET Ids

(* Source 0, which stands for "no interrupt" in the claim register, never  *)
(* becomes pending, busy, enabled or of any priority, whatever the guest   *)
(* writes and even when the input of source 0 is wired to a device         *)
(* (plic.c 118-120, 238-242).                                              *)
Source0Reserved ==
  /\ 0 \notin pending \cup gw_busy
  /\ priority[0] = 0
  /\ \A c \in Contexts : 0 \notin enable[c]

(* A context whose interrupt line is up finds something to claim: no       *)
(* handler entered for an external interrupt reads 0 from the claim        *)
(* register unless the register state changed in between, and what it      *)
(* claims is above its threshold although the claim ignores thresholds.    *)
LineMeansClaim ==
  \A c \in Contexts : interrupt_per_context(c) =>
    \A id \in Ids : get_claim_id(c, id) => id # 0 /\ priority[id] > threshold[c]

(* The loop of get_claim_id (plic.c 175-184), as the code scans it: the    *)
(* best source so far, replaced by a later one of strictly higher          *)
(* priority.                                                               *)
ScanClaimId(c) ==
  LET best[i \in Ids] ==
        IF i = 0 THEN 0
        ELSE LET id == best[i - 1]
             IN  IF i \in EnabledPending(c) /\ priority[i] > 0 /\ priority[i] > priority[id]
                 THEN i ELSE id
  IN  best[MaxInterrupt - 1]

(* The scan and the declarative claim agree, so the claim register always  *)
(* returns exactly one id: the scan never returns a lower-priority source, *)
(* nor the wrong one of two equals.                                        *)
ScanIsClaimId ==
  \A c \in Contexts : \A id \in Ids : get_claim_id(c, id) <=> id = ScanClaimId(c)

=============================================================================
