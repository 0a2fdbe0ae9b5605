# TinyLinuxRV specifications

TLA+ models of TinyLinuxRV, a small RISC-V machine that boots Linux: an
emulator in C (`src/emulator`), a five-stage core in SystemVerilog
(`src/hardware/rtl`), and the software that runs on both. The modules here model
the emulator from its command line to its exit code: boot and image loading, bus
and memory, instructions, the privileged architecture, address translation,
LR/SC, interrupt controller, console, timer and execution loop; and of the core the
decoder, the pipeline and its multi-cycle units. Each is translated from the source; `PROJECT.json` names
for every definition the lines it stands for.

## 1. Inventory of the system

### Emulator

| part | source | state | operations | talks to |
|---|---|---|---|---|
| execution loop | `cpu/cpu_exec.c` | instruction count, exit status | one iteration: `cpu_step`, power-off and reboot, limit, `device_update`, `device_irq_level` | everything, in a fixed order |
| hart | `cpu/cpu.c`, `cpu/csr.c` | pc, privilege, CSRs, WFI flag, LR/SC reservation, TLBs | one instruction, trap entry, MRET, SRET, CSR access | bus; four interrupt lines set by the loop |
| MMU, TLBs | `cpu/mmu.c`, `cpu/tlb.c` | two direct-mapped arrays of 256 entries | lookup, walk, fill, flush | page tables in DRAM through the bus |
| PLIC | `device/plic.c` | priority, pending, enable, threshold, gateway busy flags | register access, claim, complete, sampling of levels | device levels in, MEIP and SEIP out |
| CLINT | `device/clint.c` | msip, mtime, mtimecmp, last host time | register access, tick, levels | host clock in, MSIP and MTIP out |
| UART | `device/uart16550.c` | receive ring, line, FIFO and interrupt registers | register access, polling of stdin, level | stdin, stdout, PLIC source 10 |
| system controller | `device/syscon.c` | pending commands, reset cause | power-off and reboot commands | polled by the loop |
| decoder | `include/cpu/decode.h`, `cpu/cpu.c` | none | pattern, immediate and effect of an instruction word | registers, memory |
| bus, memory, BootROM | `bus/bus.c`, `memory/memory.c`, `device/bootROM.c`, `utils/address_range.h` | bytes | read, write by address range | all devices |
| loader | `memory/loader.c` | none at run time | probe a file, load its segments or its bytes | memory; files it cannot trust |
| `main` | `main.c` | arguments, allocations, exit code | parse options, allocate, load up to four images, run, release | everything |
| tracing | `utils/*.c` | instruction ring, symbol table, call depth | diagnostic output | none |

The emulator has one thread. What makes it hard is not parallelism but the
order in which one iteration samples and applies things, an arbitrary guest (any
sequence of CSR writes, traps, MMIO accesses and page-table edits), input that
arrives whenever it likes, and state that is cached: interrupt lines sampled
one instruction earlier, TLB entries made under another privilege or address
space, a reservation that outlives the thread that made it, a trap target that is
decided in two places. Booting adds files with arbitrary headers, addresses that
wrap, and allocations and loads that fail after others have succeeded.

What makes each part correct:

- hart: lower modes cannot reach the state of higher ones; traps go where they
  were admitted for; a saved trap frame is intact at its return; a sleeping hart
  wakes when an interrupt is pending;
- MMU and TLBs: translation is Sv39, and the TLBs cannot be observed by a guest
  that fences;
- PLIC: a source is in the hands of one handler at a time; a raised line has
  something to claim; nothing raised is lost;
- UART: characters are read in order, once, and losses are reported; waiting
  characters always raise the level;
- CLINT and loop: interrupt lines are current, time does not get lost, a reboot
  leaves nothing behind, the instruction limit always ends the run;
- LR/SC: an SC stores only what the latest LR reserved; threads that count with LR/SC or
  AMO lose no addition, whatever interrupts them, and make progress;
- loader, bus and `main`: the guest starts with the bytes its files describe, the host is
  never written outside an allocation, everything is released on the way out, and
  success is only reported when it happened;
- decoder: no two patterns overlap, and emulator and RTL agree on what a word does.

### RTL core

`cpu.sv` connects IF, ID, EX, MEM and WB through valid/ready registers
(`pipeline.sv`), with forwarding and a load-use stall in ID, a branch unit, a
sequential divider and multiplier and an AMO state machine in EX, and two
AHB-Lite ports. Its tests use a memory that is always ready. Hard behaviours: wait states of
either port in combination with stalls, forwarding and flush; multi-cycle units
that stall EX; the LR/SC reservation. What makes it correct: a program runs as
if one instruction were executed at a time, no stall lasts for ever, and the
multi-cycle units return what the emulator computes.

### Software, platform, Linux

Bare-metal drivers (UART `readline`, CLINT), FreeRTOS port, BootROM, device
tree, OpenSBI and kernel configuration. Mostly glue around third-party code. The
console driver is the guest of `Console`, the reset stub of the boot ROM is in
`Boot`, and the interrupt handler of `emulator/tests/devices/plic/plic.c` is the model
of the handlers in `PlicService`.

## 2. Modules

| module | models | kind |
|---|---|---|
| `Plic` | registers and operations of the PLIC, an arbitrary guest | component |
| `PlicService` | extends `Plic`: devices that hold levels, handlers of several contexts that claim, resolve and complete | composition |
| `Hart` | CSRs, interrupts, traps, returns, WFI, TLB flushing, counters | component |
| `HartFrames` | extends `Hart` with a history of what each trap interrupted | history |
| `Mmu` | Sv39 translation as operators | algorithm |
| `Tlb` | extends `Mmu`: the two TLBs, page tables that change, fences, address-space switches | component |
| `Uart16550` | receive ring, FIFO control, interrupt identification | component |
| `RxQueue` | what the receive side promises: a bounded queue | abstract specification |
| `Console` | extends `Uart16550`: the bare-metal `uart_readline` polling it while a user types | composition |
| `Bus` | memory map, routing and bounds checks as operators | algorithm |
| `Loader` | extends `Bus`: probing and loading of ELF files and binaries, with what an ELF file means as the reference | algorithm |
| `Boot` | extends `Loader`: a process of the emulator from command line to exit code, with the reset stub, stores of the guest and the instruction ring | component |
| `Lrsc` | the reservation; LR, SC, everything else, issued in any order | component |
| `LrscThreads` | extends `Lrsc`: threads of several address spaces under an operating system | composition |
| `Inst` | patterns, immediates and effects of the emulator | algorithm |
| `RtlInst` | extends `Inst`: decoder, ALU, branch unit, AMO ALU and byte lanes of the RTL, those of the AMOs included | algorithm |
| `Machine` | execution loop, CLINT, system controller, WFI | composition |
| `Isa` | one instruction at a time, as the emulator executes it | abstract specification |
| `Pipeline` | the five stages of the RTL core and its two memory ports, clock by clock | component |
| `MulDivRef` | the multiply and divide helpers of the emulator | reference |
| `Divider`, `Multiplier` | extend `MulDivRef`: the units of the RTL, clock by clock | components |
| `Units` | extends `Divider` and `RtlInst`, instantiates `Multiplier` | composition |
| `PlicProofs`, `TlbProofs`, `LrscProofs`, `BootProofs`, `PipelineProofs` | theorems about `Plic` and `PlicService`, `Mmu` and `Tlb`, `Lrsc` and `LrscThreads`, `Bus`, `Loader` and `Boot`, `Pipeline` | proofs |
| `HartProofs` | extends `HartFrames`: theorems about it and about `Hart` | proofs |
| `DeviceProofs` | extends `Machine` and `Console`: theorems about them and about `Uart16550` | proofs |
| `UnitProofs` | extends `Units`: theorems about `Divider`, `Multiplier`, `Inst` and `RtlInst` | proofs |
| `MCPlic`, `MCHart`, `MCTlb`, `MCUart`, `MCBoot`, `MCLrsc`, `MCPipeline`, `MCMulDiv` | instances for TLC | instances |

Operators whose comment begins with *mutant* are variants of the operator that
follows them, with a plausible mistake; they document what each property
would catch and are used nowhere in the specifications. An MC module with a variable
`guest` (or `unit`) offers several environments of one component; a behaviour chooses
one at the start, because all of them at once are out of reach.

### How state and actions correspond to the code

**Plic.** `priority`, `pending`, `enable`, `threshold`, `gw_busy` are the
fields of `plic_t`; bit vectors are sets of source numbers. `plic_write(offset)`
and `plic_read(offset)` take a register offset through `addr_decode`, with the
reserved words and contexts out of range it rejects; every write that decodes
restores source 0 as the code does. `plic_irq_update(high)` is one pass of the gateways.
`get_claim_id(c, id)` says declaratively which id the claim register returns;
`ScanClaimId` is the loop of the code, and a run compares the two.

**PlicService.** Devices raise levels; a handler's claim, the service of the device and the
completion are separate steps, so contexts interleave between them. `Configure`
lets the guest rewrite every other register at any moment and `Reset` is the
reboot. A handler only completes what it claimed; a completion that the PLIC
ignores because the source was disabled meanwhile is in the model, and the source
then stays silent, as in the code, until someone completes it while it is enabled
(`CompleteAgain`). `ignored` is a history of the sources whose last completion was ignored, and
`SilentOnlyIfIgnored` says that nothing else silences a source.

**Hart.** A CSR is the set of its bits that are one, so the read-modify-write
of `csr_access` (privilege, read-only and TVM checks, alias, write mask, operation,
WARL) is set algebra. One step is one `cpu_step` including `csr_begin_update`
(`csr0`) and `csr_end_update`, then the devices choose new `lines`. The
instruction stream is arbitrary: at each step any instruction class may
execute, any fetch or data access may fault, and an admitted interrupt is taken
after the fetch as in the code. `tlb` is abstracted to the set of `satp` values
under which entries were made; `Tlb` has the entries. The values integer
instructions compute, `mtval`, `stval`, and identification registers
are left out: nothing in the control reads them.

**Mmu and Tlb.** A page number is its three parts; the page offset passes
through and is left out. A PTE is a set of flags (with one flag for all reserved
bits) and a page number. `page_table_walk_sv39` is the loop of the code as a
recursive function over the levels, with the order of its checks. `tlb_lookup`
says what a lookup returns, `Access` what it fills. `StorePte` is any store that
changes a page table; `stale` is a history variable: the entries that were
valid when it happened, which a guest must fence. Privilege and `mstatus` are
inputs of each access, constrained only by what `Hart` proves (MPRV only in
M-mode). The ASID field of `satp` is read-only zero in the CSR file; the model
allows any.

**Uart16550.** Steps alternate between the guest (a register access or another
instruction) and the devices (`poll_input`, then `irq_level`), the order
`cpu_exec` fixes. The ring is the code's: `data`, `rd_ptr`, `wr_ptr`, `size`.
`RxQueue` is the abstract queue, and `Queue` the refinement mapping.

**Console.** The guest of `Uart16550` is `uart_readline` called over and over: `PollLsr`
and `TakeChar` are the two register accesses of `uart_getchar`, one instruction each, with
the devices between them; `ConsoleCompute` is any other instruction, after each of which the
devices are polled too, so the ring fills while the program is busy. The character is stored while there is room for it and the NUL,
and counted in any case. `typed` and `returned` are histories.

**Bus and Loader.** A `memory_t` is a window (base, size, first host index) onto a
host allocation, so that the DTB and kernel segments alias the DRAM as in `main.c`. A byte is
a pair of a file and an offset: which byte of which file lies where is all that the
properties tell apart. Addresses wrap at `AddrMod`; sums and differences of the
code are `Plus` and `Minus`. A write outside an allocation, undefined in C,
sets `stray`. `elf_seek` refuses offsets above `LongMax`, also of a segment that reads
nothing. A file is a record of what the loader looks at; the checks of
the ELF header that lead to the same failure are one field. Device windows of the bus
are one (`mmio`), since only the ROM and the RAM hold images.

**Boot.** One action per option, allocation, load and way out; `phase` is where `main`
is. Each allocation may fail. `heap` names what is allocated. In the run the guest
fetches, stores to any physical address, computes a result in `a0` and
reboots, and the four instructions of the reset stub are a step each. The loop returns any status `cpu_exec` can return; `Machine` has the
loop itself. `dirty` remembers that the guest has stored into its memory, after which the images
are its own business.

**Lrsc and LrscThreads.** `res` is `reservation_t`: a range of virtual addresses
that traps, `satp` writes, stores and AMOs leave alone. SC drops it before its store,
which may fault; a misaligned LR or SC traps first and leaves it. `lr` and `last` are
histories. In `LrscThreads` the operating system is external: it does an SC of its own before it
returns to a thread, as Linux does and as a hart that keeps reservations over
traps requires, and it makes a protected page writable when a store to it faults.

**Inst and RtlInst.** A word is its fields; a pattern of `decode.h` is an
operation, the fields its mask fixes and how many bits of `func7`. The effect of a word on rd, pc and
memory is compared as a record. Memory is named by byte, so a load says where each byte of rd
comes from and whether it is a sign. An AMO computes with a value: `data` is the aligned
doubleword that the bus shows, of which an AMO.W takes the half its address names, the emulator by
address, the RTL by the lane muxes `amo_rdata` and `amo_wdata` on `haddr[2]`. The operands are all
words, except that `rs1` of an LR, SC or AMO is aligned (to 4 for W, to 8 for D); immediates are compared bit by bit, all 64. In the run
registers have four bits and W forms two. The RTL has neither SYSTEM
instructions nor fences; `Hart` has them.

**Machine.** `turn` separates the instruction from the rest of the iteration.
Of the hart only WFI is kept. `left` is the host time since
`prev_time_ns`; the host clock advances by any of `Advances` between two
updates. `Stop` is each exit of the loop; a time-out and a device error come after a due reboot
has been made (`Rebooted`) and before the clock moves. `cpu->halted` is never set in the
code, so `FINISH` is unreachable and not in the model.

**Pipeline and Isa.** Registers of the RTL are variables; wires are operators
with the names of the source; `Clock` is one rising edge, the conjunction of what
each stage does at it. `bus` is what the two memories drive in the current cycle: `hready`,
and data that is only meaningful when a data phase ends; outside of one, and
while a multiplier or divider is busy, it is drawn from the `Junk` sets. The
memories are external: they follow AHB-Lite as the ports use it and insert wait
states if `IWait` or `DWait` allow. One instruction stands for each class that
the control tells apart, a word is a number below `W`, an access is one word,
and the pc counts instructions and wraps at the end of the program. The
multiplier and divider are reduced to their latency and result; `Divider` and
`Multiplier` have the rest. `trap`, `EX_flush` and `MEM_flush` are tied to 0 in
`cpu.sv`, so an illegal instruction is dropped in ID, and `Isa` skips it where the emulator traps;
misaligned addresses and error responses are left out for the same reason.
The refinement mapping takes an instruction as executed when it enters EX: register
and memory values are those of the stages in flight, newest first, with the result that
EX is going to produce. That choice matters: a stalled EX hands MEM copies with
intermediate results, which WB writes, so that until the instruction leaves EX
its destination has no meaningful value anywhere else.

**Divider and Multiplier.** The registers of the units and the request that
ID/EX shows them; the request stays while the unit stalls or MEM is not ready, and
is followed by any other request or none.

## 3. Runs

| run | config | what it asks | distinct states |
|---|---|---|---|
| `plic` | `Plic.cfg` | three guests. Any register access: source 0 stays reserved, a raised line has something to claim above its threshold, the claim loop is the declarative choice. Handlers of two contexts under reprogramming and reboot: no source served twice at once or offered again before completion, none silent unless its completion was ignored. A configured system with fair handlers: every level is served in the end | 103,802 |
| `hart` | `Hart.cfg` | three guests. Privilege and delegation: isolation of modes, targets of traps, MPRV. Address spaces: no TLB entry of another `satp`. Nested traps of both modes: frames intact, handlers masked | 449,180 |
| `tlb_walks` | `Tlb.cfg` | lookups equal walks unless a fence is owed; walks are Sv39 | 11,317 |
| `uart_console` | `Uart.cfg` | two guests. Any access: the ring is a bounded queue, waiting characters raise the level. The console driver: every line typed is the line returned, and is returned | 481,956 |
| `machine_loop` | `Machine.cfg` | reboot forgets, timer wakes, the limit ends every guest | 10,025 |
| `boot` | `Boot.cfg` | command lines, images good and damaged, failing allocations, a guest that stores and reboots: images intact, host in bounds, memory released, exit code earned, instruction dump in order | 5,276,324 |
| `lrsc` | `Lrsc.cfg` | two guests. Any LR and SC of both sizes: SC within the reservation. Four threads at one virtual address in two address spaces: no update lost, all finish | 84,508 |
| `lrsc_zero` | `LrscZero.cfg` | expected violation, see section 6 | |
| `pipeline_isa` | `Pipeline.cfg` | the pipeline refines `Isa` and keeps executing; what ID decodes is what was fetched, for 4096 programs | 124,833 |
| `pipeline_fetch_wait`, `pipeline_load_wait` | `PipelineFetchWait.cfg`, `PipelineLoadWait.cfg` | expected violations, see section 6 | |
| `mul_div` | `MCMulDiv.cfg` | one of three units. Divider and multiplier: results of the emulator, termination. Decoder: one pattern per word, same registers, same effect, same immediate as the emulator | 282,642 |

### Bounds and why they are enough

- *Sources and contexts of the PLIC.* Two sources of equal priority and one above show every
  case of the claim's comparison; two contexts are what a claim can race
  with. The theorems hold for any number.
- *CSR writes.* Each guest of the `hart` run has the writes that concern some of the
  properties, and `MCHart` picks the guest at the start because one with all of them is out
  of reach; the counters, which no property reads, are cut to one value. The writes include ones that try bits the mask must refuse (MIE through
  `sstatus`, MTIP through `sie`, a reserved MPP). `HartSafe`, `HartIsolated`
  and `HartTrapsGoUp` quantify over every set of writes.
- *Page tables.* Two indices per table and three levels; the PTE values are pointers down,
  sideways and out of memory, leaves aligned at every level, at some or at
  none, an execute-only user page and a reserved encoding, in every slot of a path. A TLB of one
  entry makes all addresses collide.
- *Ring.* Three slots wrap at a place that is not a power of two, so no mask
  hides an error; trigger levels lie at 1, between, and at the depth. The console's user
  types up to five characters, so that the ring wraps and lines are empty, shorter
  than, as long as and longer than buffers of one to three bytes; a full
  ring holds the input back. Overruns belong to the other guest, where the queue reports them.
- *Boot.* Forty addresses: two of ROM, two of devices, eight of DRAM by default from 16, the kernel at
  18, the DTB in the last two; `--dram-size` below and above the default, zero and too large. The twenty program files have
  segments in order, over each other, at the end of the DRAM, beyond it, around
  the end of the addresses, with bss, cut short, shrunk, without code, without an entry, with nothing but bss at an offset behind the end of the file or beyond `LongMax`;
  every later image comes in one size that fits and one that does not. Up to five options
  give every image and the size together. Four guest steps run through the stub and wrap a ring of two instructions. The
  guest stores at the edges of every window.
- *LR/SC.* Sixteen addresses, sizes two and four, aligned and not, away from address 0
  because of the finding. Two threads share a counter by LR/SC, a third uses AMO on it and
  a fourth has the same virtual address in another space; two additions
  each and four interrupts allow each pair to meet between LR and SC, twice.
- *Instruction words.* Every opcode and one that is none, every `func3`, every `func5` of an
  AMO and two that are none, with the low bits of `func7` that patterns fix, and the register fields
  the SYSTEM patterns fix. Operands are the ends of the signed and unsigned ranges of both widths, and 4, the address
  of an upper half.
- *Programs.* Sixteen instructions over two registers, one or more of each class, with
  sources and destinations that coincide; programs wrap, so every pair is
  met at distance one and two and every instruction meets itself at three,
  the reach of EX, MEM and WB forwarding. Two-bit words make loads, stores and
  reservations hit and miss each other.
- *Operands.* Words of four bits with W forms of two, and the ends of the signed and unsigned
  ranges of both, contain the zero divisor, both overflows and every combination of signs.
  The theorems hold for every width and every operand.
- *Time.* `Advances = {0, 1, 5}` with `TickNs = 3` has updates of no tick, part of a tick
  and several; the counter wraps at five.

### Fairness

- `RunningSpec` (`MCPlic`): weak fairness of the gateway update (the loop runs it after
  every instruction) and of the handlers' steps (a handler is entered while
  its line is up, and runs to its end). Devices are not fair: they may never raise anything.
- `Pipeline`, `MCMulDiv`: the clock does not stop (`WF` of `Clock`).
- `MCUart`: the loop alternates between an instruction of the console program and the
  devices for ever (`WF` of `ConsoleNext`), and between its other instructions the program
  comes back to the UART (`SF` of `ConsoleAccess`: the loops of `uart_readline` and
  `uart_getchar` do nothing else); the user need not type.
- `LrscThreads`: the running thread takes its next step, and a finished one is replaced (`WF`
  of each thread's step and of `Yield`). Nothing forces an interrupt, and
  their number is bounded: with an interrupt between every LR and its SC no hart makes progress.
- `FairSpec` of `Machine`: the loop goes on (`WF` of `Next`), and the host
  clock does not stand still for ever (`SF` of an iteration in which it
  moves); how little it moves each time is not restricted. `TimerWakes`
  exempts compare values so near the end of the counter that one update can
  step over them: the comparison in `clint_irq_level` is not modular, and with a
  64-bit counter at 100 MHz the wrap is millennia away.

## 4. What is proved

All for arbitrary values of the constants that satisfy the named assumptions.

| theorem | statement | inductive invariant, or what it rests on |
|---|---|---|
| `PlicSafe` | register types; source 0 is never pending, busy, enabled, or of any priority | itself; rests on `DecodeRange`: an offset that decodes names a register that exists |
| `PlicLineMeansClaim` | a raised line means the claim returns a source above the threshold | from `PlicSafe`: the pending enabled source that raises the line bounds the priority of the claimed one |
| `PlicScanIsClaimId` | the loop of `get_claim_id` returns the lowest of the best sources | the recursion's invariant (after source *i* the best of the sources up to *i*), by minimal counterexample |
| `PlicExclusive`, `PlicNoRetrigger` | no source with two handlers, none offered again before its completion | `GatewayHeld`: everything pending or claimed holds its gateway; needed because exclusion alone does not say why a second claim finds nothing |
| `PlicSilentOnlyIfIgnored` | a closed gateway has its source pending, claimed, or its last completion was ignored | the same with `IgnoredFree`, that an ignored source is neither pending nor claimed |
| `HartSafe`, `HartMprvOnlyInM` | register types, MPRV only in M-mode, TLBs only of the current `satp` | the conjunction, with the fact that a `satp` write empties the TLBs in the step that already fetched |
| `HartIsolated` | a step that stays below M-mode leaves machine state alone | `HartSafe`, and for every CSR address reachable there the write mask |
| `HartSupervisorIsolated` | a step that stays in U-mode leaves the CSRs alone | `HartSafe`, and that no CSR a U-mode access reaches can be written |
| `HartTrapsGoUp` | a trap never lowers the privilege; an interrupt is handled at the mode it was admitted for | `HartSafe` (no machine interrupt is ever delegated) |
| `HartFramesIntact`, `HartHandlerMasked` | a live frame is what its trap saved; no interrupt of its own mode re-enters its handler | `FramesInv`: the live frame's enable bit is off at every privilege (`Masked`), not only in the handler's mode, or a nested trap could come between |
| `TlbTransparent`, `TlbCoherent` | without a fence owed, an entry is the current leaf and a lookup returns what a walk returns | `Coherent` itself; the walk stays opaque |
| `TlbTranslationIsSv39` | the walk with its checks in its order is the Sv39 definition | the recursive walk is unfolded level by level, each level compared with the definition |
| `UartDataRaisesLevel`, `UartImplementsQueue` | waiting characters raise the level; the ring refines `RxQueue` | `UartInv`: `wr_ptr = (rd_ptr + size) % Depth`, `size` within the limit of the FIFO mode |
| `ConsoleLinesAsTyped` | `uart_readline` returns the lines that were typed | `ConsoleInv`: what was typed and not taken is the ring (`InputInv`), the line so far begins after the last newline taken (`LineInv`), each line returned lies between two newlines (`ReturnedInv`) |
| `MachineRebootIsPowerOn` | a reboot leaves the state of power-on, and no line of before | `MachineInv`: types, and a reset cause recorded before the reboot |
| `LrscWithinReservation` | an SC that stores stays within what the latest LR read, away from address 0 | `ReservationInv`: a valid reservation is exactly what the latest LR made |
| `ThreadsNoLostUpdate` | the counter of each address space is the number of additions done in it | `ThreadsInv`: a held reservation belongs to the running thread, between LR and SC, which has read the current value |
| `BootReleasedOnExit` | the machine is released on every way out but one | `HeapInv`: what is allocated in each phase |
| `BootSuccessIsEarned` | success only after every load and a good end | `ResultInv`: results are never positive, so a sum of zero means none failed |
| `BootDumpIsLast` | the dump is the last instructions in order | `RingInv`: slot by slot, the ring holds the newest fetches |
| `BootHostInBounds` | no load and no store leaves its allocation | `BoundsInv`: sizes of the allocations in each phase, what the command line can be; rests on lemmas on `check_addr_range` and on each loader |
| `BootImagesIntact` | the guest starts with what its files describe | `ImagesInv`: each image is in place from its own load on, unless a later one may reach it; that the loader's loop over segments gives what the file means is by minimal counterexample |
| `PipelineDecodedIsFetched` | ID decodes what was fetched | `FetchInv`: the instruction is on the bus in its first cycle in ID, in the buffer after |
| `DividerResult` | the divider hands on what the emulator computes | `DivInv`: the latched magnitudes and signs are those of the request, and `Progress`, see below |
| `MultiplierResult` | so does the multiplier | `MulInv`: what is in each stage is of the request in ID/EX, which leaves when its product is there |
| `DecoderSameInstruction` | no word has two patterns, and the RTL gives every word the emulator executes, SYSTEM and fences aside, its effect | `WordInv`: the word in ID has its fields in range; the rest is about one word, see below |
| `DecoderSameImmediate` | all 64 bits of the immediate are the emulator's | the same |
| `PipelineRefinesIsa` | the five stages execute one instruction after the other, as `Isa` | `PipeInv`, see below |

**The pipeline.** `PipeInv` adds to `FetchInv` the types, that a load in MEM has its data phase
(`DataInv`), that the instructions in IF, ID and EX follow each other (`OrderInv`) and that the
multi-cycle units belong to the instruction in EX, with the operand an AMO has read still in
memory (`UnitInv`). A clock edge is one of six moves of ID: it stays, is flushed by a jump,
waits for a load, drops an illegal instruction, moves an instruction into EX or fills an empty
stage. Only entering EX is a step of `Isa`; in the other five the drained registers and memory
are shown unchanged (`DrainRegs`, `DrainMem`). For entering, `Forwarding` says that the operands
ID reads are the drained registers, and `SameEffect` that what EX is going to compute is
what `Isa` does.

**The units.** With *A* and *B* the magnitudes of the operands, `Progress` says that after *k* of
the XLEN steps *A = q · B · 2^(XLEN−k) + r* with *r < B · 2^(XLEN−k)*; with *B = 0* every
subtraction fits, so *q* is all ones and *r* is still *A*. After the last step this is the division
of the magnitudes, and the rest is two's complement: the sign bit of an extended operand is its
sign and `Neg` gives its magnitude, also that of the smallest number (`SignAndMagnitude`); what
the unit negates at the end is C's truncated quotient and the remainder of the dividend's sign
(`SignedDivision`); only the low bits of the raw result have a part in a W form (`Output`). The
provers know nothing of powers of two. `Doubling` derives *2^(n+1) = 2 · 2^n* from the library's
theorem on the number of subsets of a set, which in turn takes that equation as the meaning of
exponentiation; the other facts follow from it by minimal counterexample.

**The decoder.** `Forms` and `FormsByOpcode` turn the tables of patterns into the few forms an
opcode has, from which follow that two patterns that match a word are one (`OnePattern`), and, for
each opcode, the rows of the manual: which `func3` and `func7` mean which operation (`Rows`). The
control signals of `decoder` are computed row by row (`CtrlRegs` to `CtrlAmo`), and each class of
instructions is compared with its own lemma (`ImmediateSame` to `AmoSame`). Arithmetic of a W form
rests on `Output`, as for the units; the products and quotients themselves are the subject of
`MultiplierResult` and `DividerResult`. The one unsigned comparator of `amo_alu` orders signed operands
because flipping the sign bit adds half the range, also to a word that is extended first. The logical operations are sets of bits, and that every set of bits is a word again, which
both sides take by `CHOOSE`, is by minimal counterexample on the width (`BitsExist`). For
the immediates, `SourceI` to `SourceJ` say where each bit comes from, and both the shifts of the
emulator and the concatenations of the RTL are shown to be that function.

**Recursion.** What a recursive function computes is proved by minimal counterexample: if the
statement failed for some number, it would fail for a least one (`WFMin` on the naturals), and one
unfolding of the recursion contradicts that. The instances are the PLIC's scan, the sum over the
threads and the loader's loop over segments.

**Hypotheses.** Three theorems have hypotheses beyond the named assumptions, and
the runs that expect violations show that none can be dropped: `LrscWithinReservation` assumes
`AwayFromZero` (what an LR reserves ends no lower than the size of any SC, `lrsc_zero`),
`PipelineDecodedIsFetched` an instruction memory that does not wait (`pipeline_fetch_wait`),
`PipelineRefinesIsa` that neither memory waits (`pipeline_load_wait`) and that the strap that blocks
fetches is off (section 6). The runs `lrsc` and `pipeline_isa` satisfy them.

Assumptions: `PlicAssumption`, `BootAssumption` (of `PlicService`), `MmuAssumption`,
`TlbAssumption`, `HartAssumption`, `MachineAssumption`, `UartAssumption`, `ConsoleAssumption`,
`LrscAssumption`, `ThreadsAssumption`, `BusAssumption`, `BootAssumption` (of `Boot`),
`FilesAssumption`, `PipelineAssumption`, `MulDivAssumption` and `DecoderAssumption`; TLC evaluates them in the runs. They say that sizes
are not zero, that the memory map is ordered and fits the address space, and that the sets of inputs
have the right types; `ThreadsAssumption` also that the counter and the operating system's own
word are aligned and apart.

## 5. What is only model-checked

- Liveness (`LevelsAreServed`, `LinesReturned`, `TimerWakes`, `LimitStops`,
  `KeepsExecuting`, `UnitsEnd`, `ThreadsFinish`): the prover has no fairness reasoning.

## 6. Where documentation and code disagree

- `pipeline_fetch_wait`: a comment in `ID.sv` (121-124) says an instruction is valid when HREADY says
  its data is back. The instruction buffer takes the bus one cycle earlier, and is used because
  the wait counts as a stall: one wait state of the instruction memory and ID
  decodes something that was not fetched. The RTL tests always set `hready`.
- `pipeline_load_wait`: a comment in `ID.sv` (156-158) stalls the user of a load for one cycle, after
  which the load is in MEM with its data. With a wait state of the data memory it is in MEM
  without, and the user leaves ID with whatever the bus shows.

- `lrsc_zero`: `docs/emulator/plans/plan.md` (216-218) says that the latest LR reserves exactly the bytes it
  accesses. `EXEC_SC` compares with the end of the reservation minus the size of the SC
  in unsigned arithmetic (`cpu.c` 403): after an LR.W of address 0 the difference wraps and an
  SC.D at 0 hits, storing eight bytes of which four are reserved. Elsewhere the
  property holds (`lrsc`).

Seen while modelling and kept in the models as the code has it, without a run of its own:

- the comment on `sip` in `csr.c` (395-398) argues from there being no
  supervisor-specific hardware interrupt. There is one, PLIC context 1, and
  `csr_begin_update` overwrites `mip.SEIP` with its line in every step, so a
  SEIP set by M-mode software is lost after one instruction;
- `uart16550.c` says twice (5, 324) that the character timeout is not
  implemented in FIFO mode; the code raises it as soon as there is data;
- with `strap_block_fetch_enable` a load or store suppresses the fetch but not
  the update of the pc, against `docs/cpu/cpu_microarch.md` 21, and the instruction is skipped;
- `docs/cpu/cpu_microarch.md` 198 says a stalled EX stage sends MEM nothing; it
  sends a copy in every cycle. `RefinesIsa` shows that without wait states nobody notices;
- a misaligned SC traps before it clears the reservation, against "every SC clears the
  reservation" of the same `plan.md` lines;
- a comment in `main.c` (425) says that boot has freed the memory when it fails; when the
  trace file cannot be opened it has not (390). `ReleasedOnExit` excepts that path;
- the addresses of DTB and kernel are those of the default DRAM size; with a smaller
  `--dram-size` they are written outside of the allocation. `emulator/README.md` asks for the default
  size, and `HostInBounds` excepts it;
- a reboot of a machine started from the boot ROM goes to the reset vector in DRAM
  with `a0 = a1 = 0`; the stub does not run again, so the firmware gets no device tree;
- `iringbuf_print` of an empty ring reads the element before the array, which needs a first
  fetch that faults; a failed growth of the symbol table leaves a freed pointer behind
  (`symtable.c` 29); `loader.c` 251 tests the symbols where it allocated the string table;
- the converse of `SameInstruction` fails: the RTL accepts words that the emulator rejects
  (`func7` 0x20 with other `func3` than 0 and 5, unknown `func3` of the W forms, unknown
  `func5` of AMO, LR with an rs2; `decoder.sv` 197 says so of one). Misaligned AMO, LR and SC raise no
  exception in the RTL (`EX.sv` 182) and are not compared.

## 7. What is not modelled

- Symbol table and function trace (diagnostic text, not observable by a guest), messages,
  usage and version output.
- Sizes and offsets of MMIO accesses to UART, CLINT and system controller (a wrong one is
  an access fault, which `Hart` allows at any access); side effects of a page-table walk
  through device registers; the output side of the UART, which never waits.
- The counters' values and identification registers of the CSR file, which no control reads.
- Of the RTL: traps, misaligned addresses in the pipeline and error responses
  (`trap` is tied to 0), and behaviour after the first violation with wait states.
- The test programs, the FreeRTOS port and its demos (third-party scheduler, one port file), the
  CLINT accessors of the bare-metal library (single loads and stores).
- The OpenSBI platform, device tree and kernel configuration: descriptions for third-party code.

## 8. Plan

1. `Pipeline` with wait states: which programs and which memories it is correct for,
   beyond the first violation; SC whose store has to wait; fetches that end in an error.
