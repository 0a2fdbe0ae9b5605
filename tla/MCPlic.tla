------------------------------- MODULE MCPlic -------------------------------
(***************************************************************************)
(* Three guests of the PLIC, of four sources and two contexts.  All of     *)
(* them together are out of reach, so a behaviour has one of them:         *)
(*   registers   anything at every register of context 0, at one reserved  *)
(*               word of each window and at a context that is not there;   *)
(*   service     handlers of both contexts and a guest that reprograms the *)
(*               PLIC under them, with one source less and two levels;     *)
(*   running     the configured system, whose liveness is checked.         *)
(***************************************************************************)
EXTENDS PlicService

VARIABLE guest

(* Sources 1 and 2 tie, source 3 is above them.                            *)
MCBootPriority == [i \in Ids |-> IF i = 3 THEN 2 ELSE 1]

RegisterOffsets ==
  {4 * i : i \in Ids} \cup {PENDING_OFFSET}
    \cup {ENABLE_OFFSET + ENABLE_CONTEXT_INC * c : c \in {0, MaxContext}}
    \cup {THRESHOLD_OFFSET + THRESHOLD_CONTEXT_INC * c + w : c \in {0, MaxContext}, w \in {0, 4, 8}}

ServiceOffsets ==
  {4 * i : i \in Ids \ {3}}
    \cup {ENABLE_OFFSET + ENABLE_CONTEXT_INC * c : c \in Contexts}
    \cup {THRESHOLD_OFFSET + THRESHOLD_CONTEXT_INC * c : c \in Contexts}

MCOffsets == RegisterOffsets \cup ServiceOffsets

Registers == INSTANCE Plic WITH Offsets <- RegisterOffsets
Three == INSTANCE PlicService WITH
  MaxInterrupt <- 3, Levels <- {0, 1}, Offsets <- ServiceOffsets, BootPriority <- [i \in 0 .. 2 |-> 1]

(* The registers guest keeps no handlers, so it keeps no history of them   *)
(* either: any of its completions may have been ignored.                   *)
GuestInit ==
  \/ guest = "registers" /\ Init /\ level = {} /\ claimed = Nothing /\ resolved = Nothing /\ ignored = Ids
  \/ guest = "running" /\ ServiceInit
  \/ guest = "service" /\ Three!ServiceInit

GuestNext ==
  /\ \/ guest = "registers" /\ Registers!Next /\ UNCHANGED <<level, claimed, resolved, ignored>>
     \/ guest = "service" /\ Three!ServiceNext
     \/ guest = "running" /\ RunningNext
  /\ UNCHANGED guest

Runs(A) == guest = "running" /\ A /\ UNCHANGED guest

(* The fairness of RunningSpec, for the guest that runs.                   *)
GuestSpec ==
  /\ GuestInit /\ [][GuestNext]_<<vars, guest>>
  /\ WF_vars(Runs(Boot)) /\ WF_vars(Runs(IrqUpdate))
  /\ \A c \in Contexts :
       /\ WF_vars(Runs(HandlerClaim(c)))
       /\ \A i \in Ids : WF_vars(Runs(Resolve(c, i))) /\ WF_vars(Runs(HandlerComplete(c, i)))

(* For the guest that runs, every raised level is served in the end: the   *)
(* highest priority unconditionally (TopIsServed), the others once the     *)
(* better ones fall silent (OthersAreServed; plic.c 109-141).              *)
LevelsAreServed == guest = "running" => TopIsServed /\ OthersAreServed
=============================================================================
