-------------------------------- MODULE Lrsc --------------------------------
(***************************************************************************)
(* LR, SC and AMO of the emulator (EXEC_LR, EXEC_SC and EXEC_AMO in cpu.c, *)
(* reservation_t in cpu.h).                                                *)
(*                                                                         *)
(* The reservation is a range of virtual addresses of the hart.  Traps,    *)
(* satp writes, plain stores and AMOs do not touch it; only LR, SC and     *)
(* cpu_init do.  Addresses are unsigned and wrap at VaMod, 2^64 in the     *)
(* code.                                                                   *)
(***************************************************************************)
EXTENDS Integers, FiniteSets

CONSTANTS
  VaMod,      \* number of virtual addresses
  Vas,        \* addresses a guest uses
  OpSizes     \* sizes of the W and the D form

ASSUME LrscAssumption == VaMod \in Nat /\ Vas \subseteq 0 .. VaMod - 1 /\ OpSizes \subseteq 1 .. VaMod - 1

VARIABLES
  res,        \* reservation_t of the hart
  lr,         \* history: bytes read by the latest LR, if no SC was performed since
  last        \* history: what the latest instruction did

hartVars == <<res, lr, last>>

NoReservation == [valid |-> FALSE, addr_start |-> 0, addr_end |-> 0]
Quiet == [op |-> "none", stored |-> FALSE, bytes |-> {}, reserved |-> {}]

Bytes(va, size) == {(va + k) % VaMod : k \in 0 .. size - 1}
Aligned(va, size) == va % size = 0

HartInit == res = NoReservation /\ lr = {} /\ last = Quiet

(* cpu_init, at a reboot.                                                  *)
CpuInit == res' = NoReservation /\ lr' = {} /\ last' = Quiet

(* Mutant: the reservation ends before its last byte.                    *)
ReserveShort(va, size) == [valid |-> TRUE, addr_start |-> va, addr_end |-> (va + size - 1) % VaMod]

Reserve(va, size) == [valid |-> TRUE, addr_start |-> va, addr_end |-> (va + size) % VaMod]

(* LR reserves after its load; one that faults leaves the old reservation. *)
ExecLr(va, size, fault) ==
  /\ last' = Quiet
  /\ IF ~fault /\ Aligned(va, size)
     THEN res' = Reserve(va, size) /\ lr' = Bytes(va, size)
     ELSE UNCHANGED <<res, lr>>

(* Mutant: only the first byte of the store is looked at.                *)
HitFirstByte(va, size) == res.valid /\ va >= res.addr_start /\ va < res.addr_end

Hit(va, size) == res.valid /\ ~(va < res.addr_start) /\ ~(va > (res.addr_end - size) % VaMod)

AfterSc(va, size) == [res EXCEPT !.valid = FALSE]

(* SC: a misaligned one traps at once; every other one ends the            *)
(* reservation, and then stores if it hits, which may fault.               *)
ScStores(va, size, fault) == Aligned(va, size) /\ Hit(va, size) /\ ~fault

(* Mutant: rd is only written after a store, and was 0.                  *)
RdZero(va, size) == 0

(* What rd says if the SC does not trap.                                   *)
ScRd(va, size) == IF Hit(va, size) THEN 0 ELSE 1

ExecSc(va, size, fault) ==
  /\ res' = IF Aligned(va, size) THEN AfterSc(va, size) ELSE res
  /\ lr' = IF Aligned(va, size) THEN {} ELSE lr
  /\ last' = [op |-> "sc", stored |-> ScStores(va, size, fault), bytes |-> Bytes(va, size), reserved |-> lr]

(* Stores, AMOs, traps, returns and writes of satp.                        *)
ExecOther == last' = Quiet /\ UNCHANGED <<res, lr>>

AnyNext ==
  \/ \E va \in Vas, size \in OpSizes, fault \in BOOLEAN : ExecLr(va, size, fault)
  \/ \E va \in Vas, size \in OpSizes, fault \in BOOLEAN : ExecSc(va, size, fault)
  \/ ExecOther
  \/ CpuInit

AnySpec == HartInit /\ [][AnyNext]_hartVars

(* Where an LR can leave a reservation that the code's comparison gets     *)
(* right: it does not run over the end of the address space, and its end   *)
(* is not less than the size of any SC.  With sizes 4 and 8 that is every  *)
(* aligned address but 0 (see the run lrsc_zero).                          *)
RoomAt(va, size) ==
  va + size <= VaMod /\ \A z \in OpSizes : z <= va + size

AwayFromZero == \A va \in Vas, size \in OpSizes : Aligned(va, size) => RoomAt(va, size)

(* An SC that stores only writes bytes that the latest LR read, and no     *)
(* other SC was performed in between (cpu.c 389-411; plan.md: "the latest  *)
(* LR reserves exactly the bytes it accesses, and every SC clears the      *)
(* reservation whether it succeeds or fails").                             *)
ScWithinReservation == last.stored => last.bytes \subseteq last.reserved
=============================================================================
