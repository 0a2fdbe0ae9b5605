-------------------------------- MODULE Boot --------------------------------
(***************************************************************************)
(* The life of an rvemu process (main.c): command line, allocation,        *)
(* images, the guest's run, release and exit code; with the reset stub of  *)
(* the boot ROM (bootROM_emu.S), cpu_init at a reboot, stores through the  *)
(* bus and the instruction ring (iringbuf.c).                              *)
(*                                                                         *)
(* The execution loop itself is the module Machine.  Here the guest is     *)
(* any sequence of fetches, stores and reboots, and the loop returns any   *)
(* status it can return.                                                   *)
(***************************************************************************)
EXTENDS Loader, FiniteSetsExt

CONSTANTS
  DefaultDram,    \* RAM_SIZE, what the address map was written for
  MaxDram,        \* largest --dram-size
  KernelStart,    \* KERNEL_START_ADDR
  DtbSize,        \* DTB_SIZE
  RingLen,        \* IRINGBUF_LEN
  MaxSteps,       \* bound: guest instructions in a run
  MaxOptions,     \* bound: options on the command line
  StoreAddrs,     \* bound: physical addresses the guest stores to
  Files,          \* positional and image files on offer, by option
  DramSizes,      \* arguments of --dram-size
  Limits          \* arguments of --max-instruction

DtbStart == DramBase + DefaultDram - DtbSize
RstVec == DramBase

ASSUME BootAssumption ==
  /\ MaxDram \in Nat /\ DefaultDram \in 1 .. MaxDram /\ KernelStart \in Nat /\ DtbSize \in Nat
  /\ DramBase <= KernelStart /\ KernelStart <= DtbStart
  /\ DramBase + MaxDram <= AddrMod
  /\ RingLen \in Nat \ {0}
  /\ StoreAddrs \subseteq Addresses /\ DramSizes \subseteq Int /\ Limits \subseteq Int

ASSUME FilesAssumption ==
  \A opt \in {"file", "bootrom", "bios", "kernel", "dtb"} : \A f \in Files[opt] : IsFile(f)

VARIABLES
  phase,     \* where main is
  args,      \* args_t
  optind,    \* options read so far, while there are more
  heap,      \* live allocations and open files
  dram,      \* contents of memory->data
  rom,       \* contents of the boot ROM
  stray,     \* the host was written outside an allocation
  result,    \* of boot()
  failed,    \* the images that did not load
  cpu,       \* pc, a0 and a1
  ring,      \* iringbuf
  fetched,   \* the instructions fetched so far, in order
  dirty,     \* the guest has stored into DRAM
  status,    \* CPU_EXEC_STATUS_t
  exit       \* exit code of the process

bootVars == <<heap, dram, rom, stray, result, failed, cpu>>
runVars == <<ring, fetched, dirty, status, exit>>
vars == <<phase, args, optind, bootVars, runVars>>

NoFile == [name |-> "NULL", exists |-> FALSE]
Given(f) == f.name # "NULL"

Args0 == [run_mode |-> "RUN_BAREMETAL", boot_mode |-> "BOOT_MODE_DIRECT", format |-> "AUTO",
          file |-> NoFile, bootrom |-> NoFile, dtb |-> NoFile, bios |-> NoFile, kernel |-> NoFile,
          dram_size |-> DefaultDram, max_instruction |-> 0,
          poison_ram |-> FALSE, itrace |-> FALSE, ftrace |-> FALSE]

-----------------------------------------------------------------------------
(* The instruction ring.                                                   *)
Ring0 == [inst |-> [i \in 0 .. RingLen - 1 |-> 0], count |-> 0, ptr |-> 0]

(* Mutant: the ring is taken for full one write too early.               *)
WriteCountsSlots(r, inst) ==
  [inst |-> [r.inst EXCEPT ![r.ptr] = inst],
   count |-> IF r.count < RingLen - 1 THEN r.count + 1 ELSE r.count,
   ptr |-> IF r.ptr + 1 = RingLen THEN 0 ELSE r.ptr + 1]

iringbuf_write(r, inst) ==
  [inst |-> [r.inst EXCEPT ![r.ptr] = inst],
   count |-> IF r.count < RingLen THEN r.count + 1 ELSE r.count,
   ptr |-> IF r.ptr + 1 = RingLen THEN 0 ELSE r.ptr + 1]

(* The lines printed, the last one being the marked one.  An empty ring    *)
(* prints the element before its first, so callers of this operator need   *)
(* count > 0.                                                              *)
iringbuf_print(r) ==
  LET first_pos == IF r.count = RingLen THEN r.ptr ELSE 0
  IN  [i \in 1 .. r.count |-> r.inst[(first_pos + i - 1) % RingLen]]

-----------------------------------------------------------------------------
Init ==
  /\ phase = "parse" /\ args = Args0 /\ optind = 0
  /\ heap = {} /\ stray = FALSE
  /\ dram = <<>> /\ rom = <<>>
  /\ result = 0 /\ failed = {}
  /\ cpu = [pc |-> 0, a0 |-> 0, a1 |-> 0]
  /\ ring = Ring0 /\ fetched = <<>> /\ dirty = FALSE
  /\ status = "FINISH" /\ exit = "none"

Exit(code) == phase' = "exited" /\ exit' = code

(***************************************************************************)
(* parse_arguments: options in any order, a later one overriding an        *)
(* earlier one.                                                            *)
(***************************************************************************)
Set(a) == args' = a /\ UNCHANGED <<phase, bootVars, runVars>>
Quit(code) == Exit(code) /\ UNCHANGED <<args, bootVars, ring, fetched, dirty, status>>

ImageOption ==
  \/ \E f \in Files.bootrom :
       Set([args EXCEPT !.bootrom = f, !.boot_mode = "BOOT_MODE_BOOTROM", !.run_mode = "RUN_LINUX"])
  \/ \E f \in Files.bios : Set([args EXCEPT !.bios = f])
  \/ \E f \in Files.kernel : Set([args EXCEPT !.kernel = f])
  \/ \E f \in Files.dtb : Set([args EXCEPT !.dtb = f])

SizeOption ==
  \E v \in DramSizes : IF v <= 0 \/ v > MaxDram THEN Quit("EXIT_FAILURE") ELSE Set([args EXCEPT !.dram_size = v])

LimitOption ==
  \E v \in Limits : IF v <= 0 THEN Quit("EXIT_FAILURE") ELSE Set([args EXCEPT !.max_instruction = v])

FlagOption ==
  \/ Set([args EXCEPT !.poison_ram = TRUE])
  \/ Set([args EXCEPT !.itrace = TRUE])
  \/ Set([args EXCEPT !.ftrace = TRUE])
  \/ Set([args EXCEPT !.run_mode = "RUN_RISCV_TESTS"])
  \/ \E fmt \in {"AUTO", "ELF", "BIN"} : Set([args EXCEPT !.format = fmt])

HelpOption == Quit("EXIT_SUCCESS")
BadOption == Quit("EXIT_FAILURE")

Option ==
  /\ phase = "parse" /\ optind < MaxOptions
  /\ optind' = optind + 1
  /\ ImageOption \/ SizeOption \/ LimitOption \/ FlagOption \/ HelpOption \/ BadOption

(* The end of the options: positional arguments only count in direct mode, *)
(* where there must be one.                                                *)
Positional ==
  /\ phase = "parse"
  /\ \/ /\ args.boot_mode = "BOOT_MODE_DIRECT"
        /\ \/ \E f \in Files.file : args' = [args EXCEPT !.file = f]
              /\ phase' = "memory" /\ UNCHANGED <<bootVars, runVars>>
           \/ Quit("EXIT_FAILURE")
     \/ /\ args.boot_mode = "BOOT_MODE_BOOTROM"
        /\ phase' = "memory" /\ UNCHANGED <<args, bootVars, runVars>>
  /\ optind' = 0

-----------------------------------------------------------------------------
(***************************************************************************)
(* boot.                                                                   *)
(***************************************************************************)
Devices == {"bootROM", "rom_data", "syscon", "uart0", "clint", "plic"}
Machine == Devices \cup {"ram"}

(* Mutant: the boot ROM's own buffer is forgotten.                       *)
PoweroffNoRom(h) == h \ (Machine \ {"rom_data"})

(* memory_free and device_free: pointers that are NULL are harmless.       *)
poweroff(h) == h \ Machine

cpu_init == [pc |-> RstVec, a0 |-> 0, a1 |-> 0]

memory_init ==
  /\ phase = "memory"
  /\ cpu' = cpu_init
  /\ \/ /\ heap' = heap \cup {"ram"}
        /\ dram' = [i \in 0 .. args.dram_size - 1 |-> IF args.poison_ram THEN Poison ELSE Zero]
        /\ phase' = "devices"
        /\ UNCHANGED <<args, rom, stray, result, failed, runVars>>
     \/ /\ Exit("EXIT_FAILURE")
        /\ UNCHANGED <<args, heap, dram, rom, stray, result, failed, ring, fetched, dirty, status>>

(* Each allocation may fail; the ones before it are released.              *)
DeviceOrder == <<"bootROM", "rom_data", "syscon", "uart0", "clint", "plic">>

device_init ==
  /\ phase = "devices"
  /\ \/ /\ heap' = heap \cup Devices \cup (IF args.ftrace THEN {"symbols"} ELSE {})
        /\ rom' = [i \in 0 .. RomSize - 1 |-> Junk]
        /\ phase' = IF args.boot_mode = "BOOT_MODE_DIRECT" THEN "direct" ELSE "bootrom"
        /\ UNCHANGED <<args, dram, stray, result, failed, cpu, runVars>>
     \/ /\ \E k \in 0 .. Len(DeviceOrder) - 1 :
             heap' = poweroff(heap \cup {DeviceOrder[i] : i \in 1 .. k})
        /\ Exit("EXIT_FAILURE")
        /\ UNCHANGED <<args, dram, rom, stray, result, failed, cpu, ring, fetched, dirty, status>>

RamSeg == [base |-> DramBase, size |-> args.dram_size, data |-> 0]
RomSeg == [base |-> RomBase, size |-> RomSize, data |-> 0]
DtbSeg == [base |-> DtbStart, size |-> DtbSize, data |-> DtbStart - DramBase]

KernelSeg == [base |-> KernelStart, size |-> DtbStart - KernelStart, data |-> KernelStart - DramBase]

(* result += ...                                                           *)
AddResult(r, ok) == IF ok THEN r ELSE r - 1

(* What every load leaves: the sum of the results, and for the properties  *)
(* which image failed.                                                     *)
Loaded(img, end) ==
  /\ stray' = (stray \/ end.stray)
  /\ result' = AddResult(result, end.ok)
  /\ failed' = IF end.ok THEN failed ELSE failed \cup {img}
  /\ UNCHANGED <<args, heap, runVars>>

IsElf(f) == args.format = "ELF" \/ (args.format = "AUTO" /\ f.exists /\ probe_elf(f) = "ELF_HEADER_OK")

LoadDirect ==
  /\ phase = "direct"
  /\ LET f == args.file
         end == CASE args.format = "AUTO" -> memory_load_auto(RamSeg, f, dram)
                  [] args.format = "BIN" -> memory_load_binary(RamSeg, f, dram)
                  [] args.format = "ELF" -> memory_load_elf(RamSeg, f, dram)
     IN  /\ Loaded("file", end)
         /\ dram' = end.store
         /\ cpu' = [cpu EXCEPT !.pc = EntryOf(f, IsElf(f), end, @)]
  /\ phase' = "loaded"
  /\ UNCHANGED rom

(* The entry point of the boot ROM and of the firmware is read and dropped.*)
LoadBootrom ==
  /\ phase = "bootrom"
  /\ LET end == memory_load_elf(RomSeg, args.bootrom, rom)
     IN  Loaded("bootrom", end) /\ rom' = end.store
  /\ phase' = "dtb"
  /\ UNCHANGED <<dram, cpu>>

LoadImage(from, to, img, f, end) ==
  /\ phase = from
  /\ phase' = to
  /\ IF Given(f) THEN Loaded(img, end) /\ dram' = end.store
     ELSE UNCHANGED <<args, heap, stray, result, failed, dram, runVars>>
  /\ UNCHANGED rom

LoadDtb == LoadImage("dtb", "bios", "dtb", args.dtb, memory_load_binary(DtbSeg, args.dtb, dram)) /\ UNCHANGED cpu
LoadBios == LoadImage("bios", "kernel", "bios", args.bios, memory_load_elf(RamSeg, args.bios, dram)) /\ UNCHANGED cpu
LoadKernel ==
  /\ LoadImage("kernel", "loaded", "kernel", args.kernel, memory_load_binary(KernelSeg, args.kernel, dram))
  /\ cpu' = [cpu EXCEPT !.pc = RomBase]

(* The end of boot: everything is released if an image failed, but not if  *)
(* the trace file cannot be opened.                                        *)
BootFailed ==
  /\ phase = "loaded" /\ result # 0
  /\ heap' = poweroff(heap)
  /\ Exit("EXIT_FAILURE")
  /\ UNCHANGED <<args, dram, rom, stray, result, failed, cpu, ring, fetched, dirty, status>>

TraceFailed ==
  /\ phase = "loaded" /\ result = 0 /\ args.ftrace
  /\ result' = 1
  /\ Exit("EXIT_FAILURE")
  /\ UNCHANGED <<args, heap, dram, rom, stray, failed, cpu, ring, fetched, dirty, status>>

Booted ==
  /\ phase = "loaded" /\ result = 0
  /\ heap' = heap \cup (IF args.ftrace THEN {"log"} ELSE {})
  /\ phase' = "run"
  /\ UNCHANGED <<args, dram, rom, stray, result, failed, cpu, runVars>>

-----------------------------------------------------------------------------
(***************************************************************************)
(* The run.                                                                *)
(***************************************************************************)
Guest == AddrMod    \* stands for any pc but the reset addresses and the stub's

(* The loop goes on: no instruction limit is due.                          *)
Going == phase = "run" /\ status = "FINISH" /\ Len(fetched) < MaxSteps

(* An instruction is fetched and, with --itrace, written to the ring.      *)
Fetch ==
  /\ fetched' = Append(fetched, Len(fetched) + 1)
  /\ ring' = IF args.itrace THEN iringbuf_write(ring, Len(fetched) + 1) ELSE ring

(* A store of the CPU to any physical address.                             *)
Store(addr, size) ==
  /\ Going
  /\ Fetch
  /\ LET acc == Loading(dram)
         byte(k) == <<"guest", 0>>
         ramEnd == IF StoresToRam(addr, size, RamSeg) THEN Put(acc, addr - DramBase, size, byte) ELSE acc
         romEnd == IF StoresToRom(addr, size, RamSeg) THEN Put(Loading(rom), addr - RomBase, size, byte) ELSE Loading(rom)
     IN  /\ dram' = ramEnd.store /\ rom' = romEnd.store
         /\ stray' = (stray \/ ramEnd.stray \/ romEnd.stray)
         /\ dirty' = (dirty \/ dram' # dram)
  /\ UNCHANGED <<phase, args, heap, result, failed, cpu, status, exit>>

(* One instruction of the reset stub, each at an address of its own: the   *)
(* hart ID, the device tree, the address of the firmware, the jump there.  *)
ResetStub ==
  /\ Going /\ cpu.pc \in RomBase .. RomBase + 3
  /\ Fetch
  /\ LET k == cpu.pc - RomBase
     IN  cpu' = [pc |-> IF k = 3 THEN DramBase ELSE cpu.pc + 1,
                 a0 |-> IF k = 0 THEN 0 ELSE cpu.a0,
                 a1 |-> IF k = 1 THEN DtbStart ELSE cpu.a1]
  /\ UNCHANGED <<phase, args, heap, dram, rom, stray, result, failed, dirty, status, exit>>

(* Anything else the guest does; a0 is its result.                         *)
Compute ==
  /\ Going
  /\ Fetch
  /\ \E v \in {0, 1} : cpu' = [cpu EXCEPT !.pc = Guest, !.a0 = v]
  /\ UNCHANGED <<phase, args, heap, dram, rom, stray, result, failed, dirty, status, exit>>

(* cpu_exec answers a reboot with cpu_init: the registers of the first     *)
(* boot are not set up again, memory stays as it is.                       *)
Reboot ==
  /\ Going
  /\ Fetch
  /\ cpu' = cpu_init
  /\ UNCHANGED <<phase, args, heap, dram, rom, stray, result, failed, dirty, status, exit>>

(***************************************************************************)
(* The end of main.                                                        *)
(***************************************************************************)
Statuses == {"FINISH", "POWEROFF", "DEVICE_ERROR"} \cup (IF args.max_instruction > 0 THEN {"TIMEOUT"} ELSE {})

(* Mutant: bare-metal results are not looked at.                         *)
ExitCodeByStatus(s) == IF s \in {"FINISH", "POWEROFF"} THEN "EXIT_SUCCESS" ELSE "EXIT_FAILURE"

ExitCode(s) ==
  IF s \in {"FINISH", "POWEROFF"} /\ (args.run_mode = "RUN_LINUX" \/ cpu.a0 = 0)
  THEN "EXIT_SUCCESS" ELSE "EXIT_FAILURE"

Finish ==
  /\ phase = "run"
  /\ \E s \in Statuses : status' = s /\ Exit(ExitCode(s))
  /\ heap' = poweroff(heap) \ (IF args.ftrace THEN {"log", "symbols"} ELSE {})
  /\ UNCHANGED <<args, dram, rom, stray, result, failed, cpu, ring, fetched, dirty>>

-----------------------------------------------------------------------------
BootStep ==
  \/ memory_init \/ device_init
  \/ LoadDirect
  \/ LoadBootrom \/ LoadDtb \/ LoadBios \/ LoadKernel
  \/ BootFailed \/ TraceFailed \/ Booted

GuestStep ==
  \/ \E addr \in StoreAddrs, size \in Sizes : Store(addr, size)
  \/ ResetStub \/ Compute \/ Reboot

Next ==
  \/ Option
  \/ Positional
  \/ (BootStep \/ GuestStep \/ Finish) /\ UNCHANGED optind

Spec == Init /\ [][Next]_vars

-----------------------------------------------------------------------------
Reaches(f, lo) == \E a \in Addresses : a >= lo /\ Covering(f, a) # {}

(* What the guest finds when it starts, and the ROM as long as it runs, is *)
(* what the files say, whatever RAM held before: bss is zero, no image     *)
(* runs into another except where the BIOS was linked over the kernel or   *)
(* the DTB, and no store of the guest reaches the ROM (main.c 340-378,     *)
(* loader.c 129-180, bootROM.c 29-36).  The fixed DTB and kernel addresses *)
(* need at least the default DRAM.                                         *)
ImagesIntact ==
  phase = "run" =>
    /\ args.boot_mode = "BOOT_MODE_BOOTROM" => ElfIntact(args.bootrom, RomSeg, rom)
    /\ args.boot_mode = "BOOT_MODE_DIRECT" /\ ~dirty =>
         IF IsElf(args.file) THEN ElfIntact(args.file, RamSeg, dram) ELSE BinaryIntact(args.file, RamSeg, dram)
    /\ args.boot_mode = "BOOT_MODE_BOOTROM" /\ ~dirty /\ args.dram_size >= DefaultDram =>
         /\ Given(args.dtb) /\ ~(Given(args.bios) /\ Reaches(args.bios, DtbStart)) =>
              BinaryIntact(args.dtb, DtbSeg, dram)
         /\ Given(args.bios) /\ ~(Given(args.kernel) /\ Reaches(args.bios, KernelStart)) =>
              ElfIntact(args.bios, RamSeg, dram)
         /\ Given(args.kernel) => BinaryIntact(args.kernel, KernelSeg, dram)

(* Neither a loader nor a store of the guest writes host memory outside    *)
(* its allocation, however the file's headers and the address are chosen,  *)
(* except that the DTB and kernel addresses are those of the default DRAM  *)
(* (memory.c 49-62, loader.c 113-127; emulator/README.md: "use the default *)
(* DRAM size").                                                            *)
HostInBounds ==
  stray => /\ args.boot_mode = "BOOT_MODE_BOOTROM" /\ args.dram_size < DefaultDram
           /\ Given(args.dtb) \/ Given(args.kernel)

(* The machine is allocated as long as the guest runs, and given back on   *)
(* every way out of main but one, a trace file that cannot be opened       *)
(* (main.c 306-316, 380-393, 424-427).                                     *)
ReleasedOnExit ==
  /\ phase = "run" => Machine \subseteq heap
  /\ phase = "exited" /\ ~(args.ftrace /\ result = 1) => heap \cap Machine = {}

(* The host only reports success for a guest whose images all loaded, that *)
(* ended by itself and that, unless it is Linux, left 0 in a0              *)
(* (main.c 380-384, 424-427, 438-483).                                     *)
SuccessIsEarned ==
  exit = "EXIT_SUCCESS" /\ dram # <<>> =>
    /\ failed = {}
    /\ status \in {"FINISH", "POWEROFF"}
    /\ args.run_mode # "RUN_LINUX" => cpu.a0 = 0

(* The dump shows the last instructions in the order of their fetch, also  *)
(* after the ring has wrapped and across a reboot (iringbuf.c 24-50,       *)
(* cpu.c 497-499).                                                         *)
DumpIsLast ==
  args.itrace /\ ring.count > 0 =>
    iringbuf_print(ring) = SubSeq(fetched, Max({0, Len(fetched) - RingLen}) + 1, Len(fetched))
=============================================================================
