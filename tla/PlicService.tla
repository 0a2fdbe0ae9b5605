----------------------------- MODULE PlicService -----------------------------
(***************************************************************************)
(* The PLIC between level-sensitive devices and the external-interrupt     *)
(* handlers of its contexts.  A device holds its level until a handler     *)
(* resolves it; a handler claims, resolves and completes, the order of     *)
(* emulator/tests/devices/plic/plic.c, and only completes what it claimed. *)
(* Contexts run interleaved and the guest may reprogram the PLIC at any    *)
(* time.                                                                   *)
(***************************************************************************)
EXTENDS Plic

VARIABLES
  level,      \* the sources whose device holds its interrupt level high
  claimed,    \* context -> the sources its handlers have taken and not completed
  resolved,   \* context -> those of them whose device has been served
  ignored     \* history: the sources whose last completion the PLIC ignored

vars == <<priority, pending, enable, threshold, gw_busy, level, claimed, resolved, ignored>>

Nothing == [c \in Contexts |-> {}]

ClaimOffset(c) == THRESHOLD_OFFSET + THRESHOLD_CONTEXT_INC * c + 4
ClaimReg(c) == addr_decode(ClaimOffset(c))

ServiceInit ==
  /\ Init
  /\ level = {}
  /\ claimed = Nothing
  /\ resolved = Nothing
  /\ ignored = {}

-----------------------------------------------------------------------------
DeviceRaise(i) ==
  /\ i \notin level
  /\ level' = level \cup {i}
  /\ UNCHANGED <<plicVars, claimed, resolved, ignored>>

(* device_irq_level, once per emulated instruction.                        *)
IrqUpdate ==
  /\ plic_irq_update(level)
  /\ UNCHANGED <<level, claimed, resolved, ignored>>

(* A handler reads its claim register; 0 means there is nothing to do.     *)
Claim(c) ==
  \E id \in Ids :
    /\ plic_claim(ClaimReg(c), id)
    /\ claimed' = [claimed EXCEPT ![c] = @ \cup ({id} \ {0})]
    /\ UNCHANGED <<level, resolved, ignored>>

(* The handler serves the device, which lowers its level.                  *)
Resolve(c, i) ==
  /\ i \in claimed[c] \ resolved[c]
  /\ level' = level \ {i}
  /\ resolved' = [resolved EXCEPT ![c] = @ \cup {i}]
  /\ UNCHANGED <<plicVars, claimed, ignored>>

(* What the history says after context c has completed i.                  *)
StillIgnored(c, i) == IF i \in enable[c] THEN ignored \ {i} ELSE ignored \cup {i}

(* The handler writes the id back and forgets it, even when the PLIC       *)
(* ignores the completion of a source no longer enabled.                   *)
Complete(c, i) ==
  /\ i \in claimed[c]
  /\ plic_complete(ClaimReg(c), i)
  /\ ignored' = StillIgnored(c, i)
  /\ claimed' = [claimed EXCEPT ![c] = @ \ {i}]
  /\ resolved' = [resolved EXCEPT ![c] = @ \ {i}]
  /\ UNCHANGED level

(* A guest that finds a source silent writes its id once more.             *)
CompleteAgain(c, i) ==
  /\ i \in ignored
  /\ plic_complete(ClaimReg(c), i)
  /\ ignored' = StillIgnored(c, i)
  /\ UNCHANGED <<level, claimed, resolved>>

(* Guest writes to any register but the claim registers.                   *)
Configure ==
  /\ \E offset \in Offsets :
       /\ addr_decode(offset).kind # "claim"
       /\ plic_write(offset)
  /\ UNCHANGED <<level, claimed, resolved, ignored>>

(* A reboot: the PLIC is reset and the handlers are gone; devices keep     *)
(* their level until they are reset themselves.                            *)
Reset ==
  /\ plic_reset
  /\ claimed' = Nothing
  /\ resolved' = Nothing
  /\ ignored' = {}
  /\ UNCHANGED level

Service ==
  \/ \E i \in Ids : DeviceRaise(i)
  \/ IrqUpdate
  \/ \E c \in Contexts : Claim(c)
  \/ \E c \in Contexts, i \in Ids : Resolve(c, i) \/ Complete(c, i)

ServiceNext ==
  \/ Service
  \/ \E c \in Contexts, i \in Ids : CompleteAgain(c, i)
  \/ Configure
  \/ Reset

ServiceSpec == ServiceInit /\ [][ServiceNext]_vars

-----------------------------------------------------------------------------
(* No source is in the hands of two handlers: while one handler serves a   *)
(* source the gateway keeps its level from becoming pending again, so      *)
(* neither another context nor a nested handler can claim it               *)
(* (plic.c 113, 123-141; plic_unit_test.c: a level does not re-trigger     *)
(* before complete).                                                       *)
ExclusiveService ==
  \A c, d \in Contexts : c # d => claimed[c] \cap claimed[d] = {}

(* A source handed to a handler is not offered again before its            *)
(* completion: its pending bit stays clear although its level stays high.  *)
NoRetrigger ==
  \A c \in Contexts : claimed[c] \cap pending = {}

(* A source falls silent for one reason only: its gateway is shut while a  *)
(* request of it is pending or in the hands of a handler, or because its   *)
(* last completion came from a context that had it disabled.  Then a       *)
(* completion by a context that has it enabled opens it again; a source    *)
(* masked by a threshold, a priority of 0, another context or a            *)
(* reprogrammed enable word is never lost (plic.c 109-141).                *)
SilentOnlyIfIgnored ==
  \A i \in gw_busy : i \in pending \cup ignored \/ \E c \in Contexts : i \in claimed[c]

(* Inductive strengthening: everything pending or claimed holds its        *)
(* gateway.                                                                *)
GatewayHeld ==
  /\ pending \subseteq gw_busy
  /\ \A c \in Contexts : claimed[c] \subseteq gw_busy
  /\ ignored \subseteq gw_busy

(* Nobody holds a source whose completion was ignored.                     *)
IgnoredFree ==
  /\ ignored \cap pending = {}
  /\ \A c \in Contexts : ignored \cap claimed[c] = {}

ServiceTypeOK ==
  /\ TypeOK
  /\ level \in SUBSET Ids
  /\ claimed \in [Contexts -> SUBSET Ids]
  /\ resolved \in [Contexts -> SUBSET Ids]
  /\ ignored \in SUBSET Ids

-----------------------------------------------------------------------------
(* The running system: the guest has enabled every source on every         *)
(* context and leaves the configuration alone; a handler runs when its     *)
(* line is up, one source at a time, and resolves before it completes.     *)
CONSTANT BootPriority    \* source -> the priority the guest gave it

ASSUME BootAssumption == BootPriority \in [Ids -> Nat]

Boot ==
  /\ \A c \in Contexts : enable[c] = {}
  /\ priority' = [BootPriority EXCEPT ![0] = 0]
  /\ enable' = [c \in Contexts |-> Ids \ {0}]
  /\ UNCHANGED <<pending, threshold, gw_busy, level, claimed, resolved, ignored>>

HandlerClaim(c) == interrupt_per_context(c) /\ claimed[c] = {} /\ Claim(c)
HandlerComplete(c, i) == i \in resolved[c] /\ Complete(c, i)

RunningNext ==
  \/ Boot
  \/ \E i \in Ids \ {0} : DeviceRaise(i)
  \/ IrqUpdate
  \/ \E c \in Contexts : HandlerClaim(c)
  \/ \E c \in Contexts, i \in Ids : Resolve(c, i) \/ HandlerComplete(c, i)

(* cpu_exec updates the gateways after every instruction, so IrqUpdate is  *)
(* weakly fair; a handler is entered while its line is up and runs to its  *)
(* end.  Devices need not raise anything.                                  *)
RunningSpec ==
  /\ ServiceInit /\ [][RunningNext]_vars
  /\ WF_vars(Boot) /\ WF_vars(IrqUpdate)
  /\ \A c \in Contexts :
       /\ WF_vars(HandlerClaim(c))
       /\ \A i \in Ids : WF_vars(Resolve(c, i)) /\ WF_vars(HandlerComplete(c, i))

Top(i) == i # 0 /\ BootPriority[i] > 0 /\ \A j \in Ids \ {0, i} : BootPriority[j] < BootPriority[i]

(* The level of the source of highest priority is always resolved in the   *)
(* end: a request latched, claimed or blocked behind another handler is    *)
(* never lost (plic.c 109-141).                                            *)
TopIsServed ==
  \A i \in Ids : Top(i) => (i \in level ~> i \notin level)

(* Once the sources of higher priority fall silent, every other source     *)
(* with a priority is served too.                                          *)
OthersAreServed ==
  \A i \in Ids \ {0} :
    (BootPriority[i] > 0 /\ <>[](\A j \in level : BootPriority[j] <= BootPriority[i] /\ j >= i))
      => (i \in level ~> i \notin level)

=============================================================================
