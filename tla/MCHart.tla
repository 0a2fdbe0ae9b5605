------------------------------- MODULE MCHart -------------------------------
(* Guests for the hart: which CSR writes they issue.                       *)
EXTENDS HartFrames

W(addr, op, value) == [addr |-> addr, op |-> op, value |-> value]

(* A guest that plays with privilege, delegation and the interrupt         *)
(* enables: M-mode sets up MPP and MPRV for a return, both modes toggle    *)
(* their enables, S-mode tries the views it has.                           *)
TrapWrites ==
  {W("mstatus", "RS", MppBits), W("mstatus", "RC", {"MPP0"}), W("mstatus", "RW", {"MPP0", "MPRV", "MPIE"}),
   W("mstatus", "RS", {"MIE"}), W("sstatus", "RS", {"SIE", "MIE"}), W("sstatus", "RW", {"SPP", "MPP0", "MPP1"}),
   W("mideleg", "RW", {"SSIP", "MTIP"}), W("medeleg", "RW", {"ECALL_FROM_U_MODE", "ECALL_FROM_M_MODE"}),
   W("mie", "RW", {"SSIP", "MTIP"}), W("sie", "RC", {"SSIP", "MTIP"}),
   W("sip", "RW", {"SSIP", "MTIP"})}

TrapCodes == {"ECALL_FROM_U_MODE", "ECALL_FROM_S_MODE", "ECALL_FROM_M_MODE"}

(* A guest that switches address spaces from M- and S-mode.                *)
SatpWrites ==
  {W("satp", "RW", {"MODE3"}), W("satp", "RS", {"PPN", "ASID"}), W("satp", "RW", {"MODE0", "PPN"}),
   W("satp", "RW", {}), W("mstatus", "RW", {"MPP0", "MPRV"}), W("mstatus", "RS", {"TVM", "TW", "TSR"}),
   W("mcountinhibit", "RW", {"CY", "TM"}), W("mcounteren", "RW", {"CY"}), W("misa", "RW", {})}

SatpCodes == {"INST_PAGE_FAULT", "INST_ACCESS_FAULT", "LOAD_PAGE_FAULT", "STORE_AMO_ACCESS_FAULT",
              "INST_ADDR_MISALIGNED"}

(* A guest whose handlers nest: breakpoints and external interrupts are    *)
(* delegated, illegal instructions are not; enables are set again inside   *)
(* handlers and return addresses are rewritten.                            *)
FrameWrites ==
  {W("mstatus", "RW", {"MPP0", "MPIE", "SIE"}), W("sstatus", "RS", {"SIE", "MPIE", "MPP1"}),
   W("medeleg", "RW", {"BREAKPOINT"}), W("mepc", "RW", {"p2", "a1"}), W("sepc", "RW", {"a0"}),
   W("mie", "RW", {"SEIP"}), W("mideleg", "RW", {"SEIP"}), W("stvec", "RW", {"a0"})}

FrameCodes == {"BREAKPOINT", "ILLEGAL_INSTRUCTION"}

(* Every guest together would be out of reach, so each behaviour has one:  *)
(* guest says which.  The history of frames is kept for the third.         *)
AllWrites == TrapWrites \union SatpWrites \union FrameWrites
AllCodes == TrapCodes \union SatpCodes \union FrameCodes

VARIABLE guest

Traps == INSTANCE Hart WITH Writes <- TrapWrites, Codes <- TrapCodes, LineInts <- {"MTIP"}, PcBits <- {}
Satp == INSTANCE Hart WITH Writes <- SatpWrites, Codes <- SatpCodes, LineInts <- {}, PcBits <- {}
Frames == INSTANCE HartFrames WITH Writes <- FrameWrites, Codes <- FrameCodes, LineInts <- {"SEIP"}

GuestInit == FramesInit /\ guest \in {"traps", "satp", "frames"}

GuestNext ==
  /\ \/ guest = "traps" /\ Traps!Next /\ UNCHANGED <<mframe, sframe>>
     \/ guest = "satp" /\ Satp!Next /\ UNCHANGED <<mframe, sframe>>
     \/ guest = "frames" /\ Frames!FramesNext
  /\ UNCHANGED guest

GuestSpec == GuestInit /\ [][GuestNext]_<<framesVars, guest>>
=============================================================================
