----------------------------- MODULE HartFrames -----------------------------
(***************************************************************************)
(* The hart with a history of trap frames: what the last trap into M-mode  *)
(* and the last trap into S-mode interrupted, until the frame is popped by *)
(* the matching return or the guest itself rewrites the registers that     *)
(* hold it.                                                                *)
(***************************************************************************)
EXTENDS Hart

VARIABLES mframe, sframe    \* history: [live, priv, ie, pc] of the interrupted program

framesVars == <<priv, csr, pc, wfi, lines, tlb, mcycle, minstret, mframe, sframe>>

NoFrame == [live |-> FALSE, priv |-> U, ie |-> FALSE, pc |-> {}]

Frame(ie) == [live |-> TRUE, priv |-> priv, ie |-> ie \in csr["mstatus"], pc |-> pc]

FramesInit == Init /\ mframe = NoFrame /\ sframe = NoFrame

PushFrame ==
  /\ TrapStep
  /\ \/ priv' = M /\ mframe' = Frame("MIE") /\ UNCHANGED sframe
     \/ priv' = S /\ sframe' = Frame("SIE") /\ UNCHANGED mframe

RewriteFrame ==
  \E a \in Addrs :
    /\ CsrStep(a)
    /\ mframe' = IF a \in {"mstatus", "mepc"} THEN NoFrame ELSE mframe
    /\ sframe' = IF a \in {"mstatus", "sstatus", "sepc"} THEN NoFrame ELSE sframe

FramesNext ==
  /\ \/ PushFrame
     \/ RewriteFrame
     \/ PlainStep /\ UNCHANGED <<mframe, sframe>>
     \/ Mret /\ mframe' = NoFrame /\ UNCHANGED sframe
     \/ Sret /\ sframe' = NoFrame /\ UNCHANGED mframe
     \/ cpu_init /\ mframe' = NoFrame /\ sframe' = NoFrame
  /\ lines' \in SUBSET LineInts

FramesSpec == FramesInit /\ [][FramesNext]_framesVars

-----------------------------------------------------------------------------
(* As long as nobody rewrites it, the frame a trap into M-mode saved is    *)
(* the one MRET will restore, whatever traps, returns and CSR writes of    *)
(* S-mode come in between (trap_enter, trap_exit_*, SSTATUS_WRITE_MASK).   *)
MFrameIntact ==
  mframe.live =>
    /\ Mpp(csr["mstatus"]) = mframe.priv
    /\ "MPIE" \in csr["mstatus"] <=> mframe.ie
    /\ csr["mepc"] = mframe.pc

(* The same for the frame of a trap into S-mode, across traps into M-mode  *)
(* that interrupt the handler and return to it.                            *)
SFrameIntact ==
  sframe.live =>
    /\ Spp(csr["mstatus"]) = sframe.priv
    /\ "SPIE" \in csr["mstatus"] <=> sframe.ie
    /\ csr["sepc"] = sframe.pc

(* Both frames survive whatever comes between a trap and its return, so    *)
(* that MRET and SRET go back to what their own trap interrupted (csr.c    *)
(* 574-690).                                                               *)
FramesIntact == MFrameIntact /\ SFrameIntact

(* A handler that has not rewritten its frame runs with the interrupts of  *)
(* its own mode off: no interrupt re-enters it and overwrites the frame,   *)
(* not even after a trap into M-mode came and went (csr.c 592, 612).       *)
HandlerMasked ==
  /\ mframe.live /\ priv = M => "MIE" \notin csr["mstatus"]
  /\ sframe.live /\ priv = S => "SIE" \notin csr["mstatus"]

=============================================================================
