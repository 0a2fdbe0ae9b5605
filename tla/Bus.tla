-------------------------------- MODULE Bus --------------------------------
(***************************************************************************)
(* The bus, the memory map and the bounds checks of the emulator           *)
(* (bus.c, address_range.h, memory.c, bootROM.c, addrmap.h).               *)
(*                                                                         *)
(* Addresses are unsigned and wrap at AddrMod, 2^64 in the code.  The      *)
(* layout is a parameter; the order in which bus_read and bus_write try    *)
(* the windows is the order of the list below.                             *)
(***************************************************************************)
EXTENDS Integers, Sequences

CONSTANTS
  AddrMod,      \* number of addresses
  RomBase,      \* BootROM_BASE
  RomSize,      \* BootROM_SIZE
  MmioBase,     \* the other device windows, as one
  MmioSize,
  DramBase,     \* DRAM_BASE
  Sizes         \* access sizes the CPU issues

ASSUME BusAssumption ==
  /\ AddrMod \in Nat /\ RomBase \in Nat /\ RomSize \in Nat \ {0}
  /\ MmioBase \in Nat /\ MmioSize \in Nat \ {0} /\ DramBase \in Nat
  /\ RomBase + RomSize <= MmioBase /\ MmioBase + MmioSize <= DramBase
  /\ DramBase < AddrMod
  /\ Sizes \subseteq {1, 2, 4, 8}

Addresses == 0 .. AddrMod - 1

(* Unsigned arithmetic of the host.                                        *)
Plus(a, b) == (a + b) % AddrMod
Minus(a, b) == (a - b) % AddrMod

(* Mutant: compares the end of the access, which wraps.                  *)
CheckEnd(addr, nbyte, base, size) ==
  addr >= base /\ Plus(addr, nbyte) <= Plus(base, size)

(* The one bounds check of every access: no sum that could wrap.           *)
check_addr_range(addr, nbyte, base, size) ==
  /\ addr >= base
  /\ nbyte <= size
  /\ Minus(addr, base) <= Minus(size, nbyte)

(* Size, alignment and range, for accesses of the CPU.                     *)
cpu_access_check(memory, addr, size) ==
  /\ size \in {1, 2, 4, 8}
  /\ addr % size = 0
  /\ check_addr_range(addr, size, memory.base, memory.size)

(* The first window that holds the whole access; "none" is a bus error.    *)
Route(addr, size, ram) ==
  IF check_addr_range(addr, size, RomBase, RomSize) THEN "bootROM"
  ELSE IF check_addr_range(addr, size, MmioBase, MmioSize) THEN "mmio"
  ELSE IF check_addr_range(addr, size, ram.base, ram.size) THEN "ram"
  ELSE "none"

(* What bus_write does to memory: the boot ROM refuses every write, RAM    *)
(* checks size and alignment again.  TRUE when bytes are stored.           *)
StoresToRam(addr, size, ram) ==
  Route(addr, size, ram) = "ram" /\ cpu_access_check(ram, addr, size)

StoresToRom(addr, size, ram) == FALSE

=============================================================================
