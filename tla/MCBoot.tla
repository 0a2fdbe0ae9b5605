------------------------------- MODULE MCBoot -------------------------------
(* A machine of forty addresses: two of ROM, two of devices, DRAM of eight *)
(* by default from 16, the kernel at 18 and the DTB in the last two.       *)
EXTENDS Boot

Ph(vaddr, off, filesz, memsz, x) ==
  [present |-> TRUE, load |-> TRUE, x |-> x, off |-> off, vaddr |-> vaddr, filesz |-> filesz, memsz |-> memsz]

NotLoad == [Ph(0, 0, 0, 0, FALSE) EXCEPT !.load = FALSE]
Missing == [Ph(0, 0, 0, 0, FALSE) EXCEPT !.present = FALSE]

Elf(name, size, entry, phdrs) ==
  [name |-> name, exists |-> TRUE, io |-> FALSE, size |-> size, magic |-> TRUE, header |-> TRUE,
   entry |-> entry, phdrs |-> phdrs]

Raw(name, size) == [Elf(name, size, 0, <<>>) EXCEPT !.magic = FALSE, !.header = FALSE]

Absent == [Raw("absent", 0) EXCEPT !.exists = FALSE]

(* Programs: text and data with bss, in order, with a note between, over   *)
(* each other, at the end of the DRAM, beyond it, around the end of the    *)
(* addresses, cut short, without code, without an entry in it, all bss     *)
(* behind the end of the file or at an offset nobody can seek.             *)
Programs ==
  {Elf("prog", 5, 18, <<Ph(17, 1, 2, 2, TRUE), NotLoad, Ph(20, 3, 1, 3, FALSE)>>),
   Elf("over", 5, 17, <<Ph(17, 1, 3, 3, TRUE), Ph(18, 4, 1, 2, FALSE)>>),
   Elf("top", 3, 22, <<Ph(22, 1, 1, 2, TRUE)>>),
   Elf("high", 3, 31, <<Ph(30, 1, 1, 2, TRUE)>>),
   Elf("around", 6, 39, <<Ph(39, 1, 3, 3, TRUE)>>),
   Elf("bssaround", 3, 20, <<Ph(20, 1, 1, 30, TRUE)>>),
   Elf("short", 3, 17, <<Ph(17, 2, 3, 3, TRUE)>>),
   Elf("bss", 2, 17, <<Ph(17, 9, 0, 2, TRUE)>>),
   Elf("far", 2, 17, <<Ph(17, 65, 0, 2, TRUE)>>),
   Elf("shrunk", 4, 17, <<Ph(17, 1, 2, 1, TRUE)>>),
   Elf("data", 3, 17, <<Ph(17, 1, 1, 2, FALSE)>>),
   Elf("notes", 3, 17, <<NotLoad>>),
   Elf("cut", 3, 17, <<Ph(17, 1, 1, 1, TRUE), Missing>>),
   [Elf("arm", 3, 17, <<Ph(17, 1, 1, 1, TRUE)>>) EXCEPT !.header = FALSE],
   [Raw("disk", 3) EXCEPT !.io = TRUE],
   Raw("empty", 0), Raw("bin", 3), Raw("full", 8), Raw("large", 9), Absent}

MCFiles ==
  [file |-> Programs,
   bootrom |-> {Elf("rom", 3, 2, <<Ph(2, 1, 1, 2, TRUE)>>), Elf("romlow", 3, 1, <<Ph(1, 1, 1, 1, TRUE)>>)},
   bios |-> {Elf("bios", 2, 16, <<Ph(16, 1, 1, 2, TRUE)>>), Elf("wide", 2, 16, <<Ph(16, 1, 1, 7, TRUE)>>)},
   kernel |-> {Raw("kernel", 4), Raw("bigkernel", 5)},
   dtb |-> {Raw("dtb", 2), Raw("bigdtb", 3)}]

MCStoreAddrs == {3, 15, 22, 31, 39}
=============================================================================
