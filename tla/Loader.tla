------------------------------- MODULE Loader -------------------------------
(***************************************************************************)
(* The image loaders (loader.c, memory_set of memory.c).                   *)
(*                                                                         *)
(* A memory_t is a window [base, size, data] onto a host allocation: data  *)
(* is the index of its first byte there, so that the DTB and kernel        *)
(* segments of main.c alias the DRAM.  A store is a function from the      *)
(* indices of an allocation to bytes.  A byte is <<file name, offset in  *)
(* the file>>, or Zero, Poison or Junk (never written).                        *)
(*                                                                         *)
(* A file is a record: exists, io (a read error occurs), size, magic (it   *)
(* starts as an ELF), header (the ELF header is complete and of a RISC-V   *)
(* 64-bit executable with few enough program headers), entry and phdrs.    *)
(* A program header has present (it is in the file), load (PT_LOAD), x     *)
(* (PF_X), off, vaddr, filesz and memsz.                                   *)
(***************************************************************************)
EXTENDS Bus, SequencesExt

CONSTANTS
  SELFMAG,    \* bytes needed to tell an ELF from anything else
  LongMax     \* LONG_MAX, the last offset fseek takes

(* The fields of a file are unsigned, an address in the file is a 64-bit   *)
(* one.                                                                    *)
IsFile(f) ==
  /\ f.exists \in BOOLEAN /\ f.size \in Nat
  /\ Len(f.phdrs) \in Nat /\ DOMAIN f.phdrs = 1 .. Len(f.phdrs)
  /\ \A i \in 1 .. Len(f.phdrs) :
       LET ph == f.phdrs[i]
       IN  ph.off \in Nat /\ ph.vaddr \in Addresses /\ ph.filesz \in Nat /\ ph.memsz \in Nat

Zero == <<"zero", 0>>
Poison == <<"poison", 0>>
Junk == <<"junk", 0>>

(* A load in progress: the store, whether the host was written outside the *)
(* allocation, and whether the loader is still content.                    *)
Loading(store) == [store |-> store, stray |-> FALSE, ok |-> TRUE, loaded |-> FALSE, valid_entry |-> FALSE]

(* n bytes at host index i; what falls outside the allocation is undefined *)
(* behaviour, recorded as stray.                                           *)
Put(acc, i, n, byte(_)) ==
  [acc EXCEPT !.store = [k \in DOMAIN @ |-> IF k \in i .. i + n - 1 THEN byte(k - i) ELSE @[k]],
              !.stray = @ \/ ~(i .. i + n - 1 \subseteq DOMAIN acc.store)]

Fail(acc) == [acc EXCEPT !.ok = FALSE]

probe_elf(f) ==
  IF f.io THEN "IO_ERROR"
  ELSE IF f.size < SELFMAG THEN "BAD_FILE"
  ELSE IF ~f.magic THEN "NOT_ELF"
  ELSE IF ~f.header \/ f.phdrs = <<>> THEN "BAD_ELF"
  ELSE "ELF_HEADER_OK"

(* Reads as much as fits, and fails when something is left over.           *)
load_binary_segment(memory, f, acc) ==
  LET n == IF f.size <= memory.size THEN f.size ELSE memory.size
      byte(k) == <<f.name, k>>
      read == Put(acc, memory.data, n, byte)
  IN  IF f.io THEN Fail(acc)
      ELSE IF f.size > memory.size THEN Fail(read)
      ELSE read

(* size bytes of the file from off; a file that ends early has written     *)
(* what it had.                                                            *)
memory_fread(memory, f, off, addr, size, acc) ==
  LET n == IF off + size <= f.size THEN size ELSE IF off <= f.size THEN f.size - off ELSE 0
      byte(k) == <<f.name, off + k>>
      read == Put(acc, memory.data + Minus(addr, memory.base), n, byte)
  IN  IF ~check_addr_range(addr, size, memory.base, memory.size) THEN Fail(acc)
      ELSE IF n # size THEN Fail(read)
      ELSE read

(* Mutant: the part of a segment that is not in the file keeps what was there. *)
SetNothing(memory, addr, n, acc) ==
  IF ~check_addr_range(addr, n, memory.base, memory.size) THEN Fail(acc) ELSE acc

memory_set(memory, addr, n, acc) ==
  LET zero(k) == Zero
  IN  IF ~check_addr_range(addr, n, memory.base, memory.size) THEN Fail(acc)
      ELSE Put(acc, memory.data + Minus(addr, memory.base), n, zero)

(* An offset behind the end of the file can be sought, one that fseek      *)
(* cannot take can not.                                                    *)
elf_seek(off) == off <= LongMax

(* One turn of the program header loop.                                    *)
LoadSegment(memory, f, acc, ph) ==
  IF ph.filesz > ph.memsz \/ ~elf_seek(ph.off) THEN Fail(acc)
  ELSE LET read == memory_fread(memory, f, ph.off, ph.vaddr, ph.filesz, acc)
           set == memory_set(memory, Plus(ph.vaddr, ph.filesz), ph.memsz - ph.filesz, read)
       IN  IF ~read.ok THEN read
           ELSE IF ~set.ok THEN set
           ELSE [set EXCEPT !.loaded = TRUE,
                            !.valid_entry = @ \/ /\ ph.x /\ f.entry >= ph.vaddr
                                                 /\ Minus(f.entry, ph.vaddr) < ph.memsz]

load_elf_segments(memory, f, acc) ==
  LET turn(a, ph) == IF ~a.ok THEN a
                     ELSE IF ~ph.present THEN Fail(a)
                     ELSE IF ph.load THEN LoadSegment(memory, f, a, ph)
                     ELSE a
      end == FoldLeft(turn, acc, f.phdrs)
  IN  IF end.ok /\ end.loaded /\ end.valid_entry THEN end ELSE Fail(end)

memory_load_binary(memory, f, store) ==
  IF f.exists THEN load_binary_segment(memory, f, Loading(store)) ELSE Fail(Loading(store))

memory_load_elf(memory, f, store) ==
  IF f.exists /\ probe_elf(f) = "ELF_HEADER_OK"
  THEN load_elf_segments(memory, f, Loading(store))
  ELSE Fail(Loading(store))

memory_load_auto(memory, f, store) ==
  IF ~f.exists THEN Fail(Loading(store))
  ELSE CASE probe_elf(f) = "ELF_HEADER_OK" -> load_elf_segments(memory, f, Loading(store))
         [] probe_elf(f) = "NOT_ELF" -> load_binary_segment(memory, f, Loading(store))
         [] OTHER -> Fail(Loading(store))

(* The entry point a loader reports: only an ELF that loaded has one.      *)
EntryOf(f, isElf, end, pc) == IF isElf /\ end.ok THEN f.entry ELSE pc

(***************************************************************************)
(* Reference: what an ELF says is at an address, by its last segment       *)
(* there.                                                                  *)
(***************************************************************************)
Covering(f, a) ==
  {s \in DOMAIN f.phdrs : f.phdrs[s].load /\ a - f.phdrs[s].vaddr \in 0 .. f.phdrs[s].memsz - 1}

ElfByte(f, a) ==
  LET ph == f.phdrs[CHOOSE s \in Covering(f, a) : \A t \in Covering(f, a) : t <= s]
  IN  IF a - ph.vaddr < ph.filesz THEN <<f.name, ph.off + a - ph.vaddr>> ELSE Zero

(* Every byte the file speaks of is in memory.                             *)
ElfIntact(f, memory, store) ==
  \A a \in Addresses : Covering(f, a) # {} =>
    /\ memory.data + a - memory.base \in DOMAIN store
    /\ store[memory.data + a - memory.base] = ElfByte(f, a)

BinaryIntact(f, memory, store) ==
  \A k \in 0 .. f.size - 1 :
    /\ memory.data + k \in DOMAIN store
    /\ store[memory.data + k] = <<f.name, k>>
=============================================================================
