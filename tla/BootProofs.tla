----------------------------- MODULE BootProofs -----------------------------
(* Proofs about the life of the process, module Boot: what the loaders do  *)
(* to host memory, what is released, what is reported and what the         *)
(* instruction ring shows.                                                 *)
EXTENDS Boot, SequenceTheorems, WellFoundedInduction, TLAPS

-----------------------------------------------------------------------------
(* Release.  The machine is allocated exactly from its initialisation to   *)
(* the end of main.                                                        *)
Loads == {"direct", "bootrom", "dtb", "bios", "kernel", "loaded"}

HeapInv ==
  /\ phase \in {"parse", "memory"} => heap = {}
  /\ phase = "devices" => heap = {"ram"}
  /\ phase \in Loads \cup {"run"} => Machine \subseteq heap
  /\ phase \in {"parse", "memory", "devices", "run", "exited"} \cup Loads
  /\ ReleasedOnExit

(* Every step but the ones below leaves the heap and the phase alone or    *)
(* moves from one load to the next.                                        *)
LEMMA LoadsKeepHeap ==
  ASSUME LoadDirect \/ LoadBootrom \/ LoadDtb \/ LoadBios \/ LoadKernel
  PROVE  heap' = heap /\ phase \in Loads /\ phase' \in Loads
  BY DEF LoadDirect, LoadBootrom, LoadDtb, LoadBios, LoadKernel, LoadImage, Loaded, Loads

LEMMA GuestKeepsHeap == ASSUME GuestStep PROVE heap' = heap /\ phase = "run" /\ phase' = "run"
  BY DEF GuestStep, Store, ResetStub, Compute, Reboot, Going

LEMMA OptionKeepsHeap ==
  ASSUME Option \/ Positional
  PROVE  heap' = heap /\ phase = "parse" /\ phase' \in {"parse", "memory", "exited"}
  BY DEF Option, Positional, ImageOption, SizeOption, LimitOption, FlagOption, HelpOption, BadOption,
         Set, Quit, Exit, bootVars

LEMMA HeapStep == HeapInv /\ [Next]_vars => HeapInv'
<1> SUFFICES ASSUME HeapInv, [Next]_vars PROVE HeapInv'
  OBVIOUS
<1> USE DEF HeapInv, ReleasedOnExit
<1>1. CASE Option \/ Positional
  BY <1>1, OptionKeepsHeap DEF Loads
<1>2. CASE memory_init
  BY <1>2 DEF memory_init, Exit, Loads, Machine, Devices
<1>3. CASE device_init
  BY <1>3 DEF device_init, Exit, Loads, Machine, Devices, poweroff
<1>4. CASE LoadDirect \/ LoadBootrom \/ LoadDtb \/ LoadBios \/ LoadKernel
  BY <1>4, LoadsKeepHeap DEF Loads
<1>5. CASE BootFailed
  BY <1>5 DEF BootFailed, Exit, Loads, poweroff
<1>6. CASE TraceFailed
  BY <1>6 DEF TraceFailed, Exit, Loads
<1>7. CASE Booted
  BY <1>7 DEF Booted, Loads
<1>8. CASE GuestStep
  BY <1>8, GuestKeepsHeap DEF Loads
<1>9. CASE Finish
  BY <1>9 DEF Finish, Exit, Loads, poweroff
<1>10. CASE UNCHANGED vars
  BY <1>10 DEF vars, bootVars, runVars
<1> QED
  BY <1>1, <1>2, <1>3, <1>4, <1>5, <1>6, <1>7, <1>8, <1>9, <1>10 DEF Next, BootStep

(* The machine is there while the guest runs and given back on every way   *)
(* out of main but the failed trace file.                                  *)
THEOREM BootReleasedOnExit == Spec => []ReleasedOnExit
<1>1. Init => HeapInv
  BY DEF Init, HeapInv, ReleasedOnExit, Loads
<1>2. HeapInv => ReleasedOnExit
  BY DEF HeapInv
<1> QED
  BY <1>1, <1>2, HeapStep, PTL DEF Spec

-----------------------------------------------------------------------------
(* Success.  The sum of the results is zero exactly while no image failed, *)
(* and nothing is reported before the end.                                 *)
ResultInv ==
  /\ phase # "exited" => /\ exit = "none"
                         /\ result \in Int /\ result <= 0
                         /\ result = 0 => failed = {}
  /\ phase \in {"parse", "memory"} => dram = <<>>
  /\ phase = "run" => result = 0
  /\ SuccessIsEarned

LEMMA ResultStart == Init => ResultInv
  BY DEF Init, ResultInv, SuccessIsEarned

LEMMA LoadsAdd ==
  ASSUME LoadDirect \/ LoadBootrom \/ LoadDtb \/ LoadBios \/ LoadKernel
  PROVE  /\ exit' = exit
         /\ \/ result' = result /\ failed' = failed
            \/ result' = result - 1
  BY DEF LoadDirect, LoadBootrom, LoadDtb, LoadBios, LoadKernel, LoadImage, Loaded, AddResult, runVars

LEMMA ResultStep == ResultInv /\ [Next]_vars => ResultInv'
<1> SUFFICES ASSUME ResultInv, [Next]_vars PROVE ResultInv'
  OBVIOUS
<1> USE DEF ResultInv, SuccessIsEarned
<1>1. CASE Option \/ Positional
  <2>1. dram' = dram /\ dram = <<>> /\ result' = result /\ failed' = failed /\ phase' # "run"
    BY <1>1 DEF Option, Positional, ImageOption, SizeOption, LimitOption, FlagOption, HelpOption, BadOption,
                Set, Quit, Exit, bootVars
  <2>2. phase' = "exited" \/ (exit' = exit /\ phase # "exited")
    BY <1>1 DEF Option, Positional, ImageOption, SizeOption, LimitOption, FlagOption, HelpOption, BadOption,
                Set, Quit, Exit, runVars
  <2> QED
    BY <2>1, <2>2
<1>2. CASE memory_init
  BY <1>2 DEF memory_init, Exit, runVars
<1>3. CASE device_init
  BY <1>3 DEF device_init, Exit, runVars
<1>4. CASE LoadDirect \/ LoadBootrom \/ LoadDtb \/ LoadBios \/ LoadKernel
  BY <1>4, LoadsKeepHeap, LoadsAdd DEF Loads
<1>5. CASE BootFailed
  BY <1>5 DEF BootFailed, Exit
<1>6. CASE TraceFailed
  BY <1>6 DEF TraceFailed, Exit
<1>7. CASE Booted
  BY <1>7 DEF Booted, runVars
<1>8. CASE GuestStep
  BY <1>8 DEF GuestStep, Store, ResetStub, Compute, Reboot, Going
<1>9. CASE Finish
  BY <1>9 DEF Finish, Exit, ExitCode, Statuses
<1>10. CASE UNCHANGED vars
  BY <1>10 DEF vars, bootVars, runVars
<1> QED
  BY <1>1, <1>2, <1>3, <1>4, <1>5, <1>6, <1>7, <1>8, <1>9, <1>10 DEF Next, BootStep

(* The process only reports success for images that all loaded and a guest *)
(* that ended well.                                                        *)
THEOREM BootSuccessIsEarned == Spec => []SuccessIsEarned
<1>1. ResultInv => SuccessIsEarned
  BY DEF ResultInv
<1> QED
  BY <1>1, ResultStart, ResultStep, PTL DEF Spec

-----------------------------------------------------------------------------
(* The ring.  With c entries and the next one going to p, the i-th line of *)
(* the dump is in SlotOf(c, p, i): the ring is full, from p on, or holds   *)
(* them all from 0.                                                        *)
SlotOf(c, p, i) ==
  LET k == (IF c = RingLen THEN p ELSE 0) + i - 1
  IN  IF k < RingLen THEN k ELSE k - RingLen

IsRing(r) ==
  r \in [inst : [0 .. RingLen - 1 -> Int], count : 0 .. RingLen, ptr : 0 .. RingLen - 1]

Holds(r, s) ==
  /\ r.count = IF Len(s) < RingLen THEN Len(s) ELSE RingLen
  /\ r.count < RingLen => r.ptr = r.count
  /\ \A i \in 1 .. r.count : r.inst[SlotOf(r.count, r.ptr, i)] = s[Len(s) - r.count + i]

(* One more entry: it is the last line, the others move up when one has    *)
(* been overwritten.                                                       *)
Pushed(c, p, d, q) ==
  /\ c \in 0 .. RingLen /\ p \in 0 .. RingLen - 1 /\ (c < RingLen => p = c)
  /\ d = IF c < RingLen THEN c + 1 ELSE c
  /\ q = IF p + 1 = RingLen THEN 0 ELSE p + 1

MovedUp(c, p, d, q, i) ==
  /\ SlotOf(d, q, i) \in 0 .. RingLen - 1
  /\ i = d => SlotOf(d, q, i) = p
  /\ i # d => /\ SlotOf(d, q, i) # p
              /\ i + (c + 1 - d) \in 1 .. c
              /\ SlotOf(d, q, i) = SlotOf(c, p, i + (c + 1 - d))

LEMMA SlotShift ==
  ASSUME NEW c, NEW p, NEW d, NEW q, Pushed(c, p, d, q), NEW i \in 1 .. d
  PROVE  MovedUp(c, p, d, q, i)
<1>1. RingLen \in Nat \ {0}
  BY BootAssumption
<1>2. CASE c < RingLen
  BY <1>1, <1>2 DEF SlotOf, Pushed, MovedUp
<1>3. CASE c = RingLen
  BY <1>1, <1>3 DEF SlotOf, Pushed, MovedUp
<1> QED
  BY <1>1, <1>2, <1>3 DEF Pushed

LEMMA RingWrite ==
  ASSUME NEW r, IsRing(r), NEW s \in Seq(Int), Holds(r, s), NEW x \in Int
  PROVE  IsRing(iringbuf_write(r, x)) /\ Holds(iringbuf_write(r, x), Append(s, x))
<1> DEFINE w == iringbuf_write(r, x)
           t == Append(s, x)
<1>1. RingLen \in Nat \ {0}
  BY BootAssumption
<1>2. /\ r.inst \in [0 .. RingLen - 1 -> Int] /\ r.count \in 0 .. RingLen /\ r.ptr \in 0 .. RingLen - 1
  BY DEF IsRing
<1>3. /\ w.inst = [r.inst EXCEPT ![r.ptr] = x]
      /\ w.count = IF r.count < RingLen THEN r.count + 1 ELSE r.count
      /\ w.ptr = IF r.ptr + 1 = RingLen THEN 0 ELSE r.ptr + 1
  BY DEF iringbuf_write
<1>4. IsRing(w)
  BY <1>1, <1>2 DEF IsRing, iringbuf_write
<1>5. /\ Len(s) \in Nat /\ Len(t) = Len(s) + 1
      /\ t[Len(s) + 1] = x /\ \A k \in 1 .. Len(s) : t[k] = s[k]
  OBVIOUS
<1> HIDE DEF w, t
<1>6. PICK c \in 0 .. RingLen : c = r.count
  BY <1>2
<1>7. PICK p \in 0 .. RingLen - 1 : p = r.ptr
  BY <1>2
<1>8. PICK d \in Int : d = w.count /\ d = (IF c < RingLen THEN c + 1 ELSE c)
  BY <1>1, <1>3, <1>6
<1>9. PICK q \in Int : q = w.ptr /\ q = (IF p + 1 = RingLen THEN 0 ELSE p + 1)
  BY <1>1, <1>3, <1>7
<1>10. PICK n \in Nat : n = Len(s) /\ c = (IF n < RingLen THEN n ELSE RingLen)
  BY <1>5, <1>6 DEF Holds
<1>11. c < RingLen => p = c
  BY <1>6, <1>7 DEF Holds
<1>12. /\ w.count = IF Len(t) < RingLen THEN Len(t) ELSE RingLen
       /\ w.count < RingLen => w.ptr = w.count
  BY <1>1, <1>5, <1>8, <1>9, <1>10, <1>11
<1>13. ASSUME NEW i \in 1 .. d
       PROVE  w.inst[SlotOf(d, q, i)] = t[Len(t) - d + i]
  <2>0. Pushed(c, p, d, q)
    BY <1>8, <1>9, <1>11 DEF Pushed
  <2>a. MovedUp(c, p, d, q, i)
    BY <2>0, SlotShift, Zenon
  <2>1. CASE i = d
    <3>1. SlotOf(d, q, i) = p /\ Len(t) - d + i = n + 1
      BY <1>5, <1>10, <2>1, <2>a DEF MovedUp
    <3> QED
      BY <1>2, <1>3, <1>5, <1>7, <1>10, <3>1
  <2>2. CASE i # d
    <3>1. /\ i + (c + 1 - d) \in 1 .. c
          /\ SlotOf(d, q, i) = SlotOf(c, p, i + (c + 1 - d))
          /\ SlotOf(d, q, i) # p /\ SlotOf(d, q, i) \in 0 .. RingLen - 1
      BY <2>2, <2>a DEF MovedUp
    <3>2. PICK j \in 1 .. c : j = i + (c + 1 - d)
      BY <3>1
    <3>3. n + 1 - d + i = n - c + j
      BY <3>2, <1>1, <1>8
    <3>4. c <= n
      BY <1>1, <1>10
    <3>5. n - c + j \in 1 .. n /\ Len(t) - d + i = n - c + j
      <4>1. Len(t) = n + 1
        BY <1>5, <1>10
      <4>2. n - c + j \in 1 .. n
        BY <3>4
      <4> QED
        BY <3>3, <4>1, <4>2
    <3>6. r.inst[SlotOf(c, p, j)] = s[n - c + j]
      BY <1>6, <1>7, <1>10, <3>2 DEF Holds
    <3>7. w.inst[SlotOf(d, q, i)] = r.inst[SlotOf(c, p, j)]
      BY <1>2, <1>3, <1>7, <3>1, <3>2
    <3> QED
      BY <1>5, <1>10, <3>5, <3>6, <3>7
  <2> QED
    BY <2>1, <2>2
<1> QED
  BY <1>4, <1>8, <1>9, <1>12, <1>13 DEF Holds, w, t

(* A position that runs past the end of the ring once.                     *)
LEMMA ModOnce ==
  ASSUME NEW x \in Nat, x < 2 * RingLen
  PROVE  x % RingLen = IF x < RingLen THEN x ELSE x - RingLen
<1>1. RingLen \in Nat \ {0}
  BY BootAssumption
<1>2. PICK m \in Nat : m = x % RingLen
  BY <1>1
<1>3. PICK n \in Nat : n = x \div RingLen
  BY <1>1
<1>4. x = RingLen * n + m /\ m < RingLen
  BY <1>1, <1>2, <1>3
<1>5. n = 0 \/ n = 1 \/ n >= 2
  BY <1>3
<1>6. n >= 2 => RingLen * n >= 2 * RingLen
  BY <1>1, <1>3
<1> QED
  BY <1>1, <1>2, <1>4, <1>5, <1>6

LEMMA RingPrint ==
  ASSUME NEW r, IsRing(r), NEW s \in Seq(Int), Holds(r, s), r.count > 0
  PROVE  iringbuf_print(r) = SubSeq(s, Max({0, Len(s) - RingLen}) + 1, Len(s))
<1>1. RingLen \in Nat \ {0} /\ r.inst \in [0 .. RingLen - 1 -> Int]
  BY BootAssumption DEF IsRing
<1>2. PICK c \in 1 .. RingLen : c = r.count
  BY <1>1 DEF IsRing
<1>3. PICK p \in 0 .. RingLen - 1 : p = r.ptr
  BY DEF IsRing
<1>4. PICK n \in Nat : n = Len(s) /\ c = (IF n < RingLen THEN n ELSE RingLen)
  BY <1>2 DEF Holds
<1>5. PICK m \in Nat : m = n - c
  <2>1. RingLen <= n \/ n < RingLen
    BY <1>1, <1>4
  <2>2. n - c \in Nat
    BY <1>1, <1>2, <1>4, <2>1
  <2> QED
    BY <2>2
<1>6. Max({0, n - RingLen}) = m
  <2>1. PICK d \in Int : d = n - RingLen
    BY <1>1
  <2>2. Max({0, d}) \in {0, d} /\ \A y \in {0, d} : Max({0, d}) >= y
    <3>1. \E z \in {0, d} : \A y \in {0, d} : z >= y
      BY <2>1
    <3> QED
      BY <3>1 DEF Max
  <2> QED
    BY <1>1, <1>2, <1>4, <1>5, <2>1, <2>2
<1> DEFINE line == [i \in 1 .. c |-> r.inst[SlotOf(c, p, i)]]
           last == SubSeq(s, m + 1, n)
<1>7. iringbuf_print(r) = line
  <2>1. ASSUME NEW i \in 1 .. c PROVE ((IF c = RingLen THEN p ELSE 0) + i - 1) % RingLen = SlotOf(c, p, i)
    <3>1. PICK x \in Nat : x = (IF c = RingLen THEN p ELSE 0) + i - 1 /\ x < 2 * RingLen
      BY <1>1, <1>2
    <3>2. x % RingLen = IF x < RingLen THEN x ELSE x - RingLen
      BY <3>1, ModOnce
    <3>3. SlotOf(c, p, i) = IF x < RingLen THEN x ELSE x - RingLen
      BY <3>1 DEF SlotOf
    <3> QED
      BY <3>1, <3>2, <3>3
  <2> QED
    BY <1>2, <1>3, <2>1 DEF iringbuf_print
<1>8. \A i \in 1 .. n : s[i] \in Int
  BY <1>4
<1>9. /\ last \in Seq(Int) /\ Len(last) = c
      /\ \A i \in 1 .. c : last[i] = s[m + i]
  <2>1. PICK k \in Int : k = m + 1
    OBVIOUS
  <2>2. \A i \in k .. n : s[i] \in Int
    BY <1>8, <2>1
  <2>3. /\ SubSeq(s, k, n) \in Seq(Int)
        /\ Len(SubSeq(s, k, n)) = IF k <= n THEN n - k + 1 ELSE 0
        /\ \A i \in 1 .. n - k + 1 : SubSeq(s, k, n)[i] = s[k + i - 1]
    BY <2>1, <2>2, SubSeqProperties
  <2>4. k <= n /\ n - k + 1 = c /\ \A i \in 1 .. c : k + i - 1 = m + i
    BY <1>1, <1>4, <1>5, <2>1
  <2> QED
    BY <2>1, <2>3, <2>4
<1>10. ASSUME NEW i \in 1 .. c PROVE line[i] = s[m + i] /\ line[i] \in Int
  <2>1. r.inst[SlotOf(c, p, i)] = s[Len(s) - c + i]
    BY <1>2, <1>3 DEF Holds
  <2>2. Len(s) - c + i = m + i /\ m + i \in 1 .. n
    BY <1>1, <1>4, <1>5
  <2> QED
    BY <1>8, <2>1, <2>2
<1>11. line \in [1 .. c -> Int]
  BY <1>10
<1>12. line \in Seq(Int) /\ Len(line) = c
  BY <1>11
<1>13. line = last
  <2> HIDE DEF line, last
  <2>1. \A i \in 1 .. Len(line) : line[i] = last[i]
    BY <1>9, <1>10, <1>12
  <2> QED
    BY <1>9, <1>12, <2>1, SeqEqual
<1> QED
  BY <1>4, <1>6, <1>7, <1>13

RingInv ==
  /\ fetched \in Seq(Int)
  /\ IsRing(ring)
  /\ args.itrace => Holds(ring, fetched)
  /\ phase = "parse" => fetched = <<>> /\ ring = Ring0

LEMMA RingStart == IsRing(Ring0) /\ Holds(Ring0, <<>>)
  BY BootAssumption DEF IsRing, Ring0, Holds, SlotOf

LEMMA FetchStep == ASSUME RingInv, Fetch, args' = args, phase' # "parse" PROVE RingInv'
<1>1. Len(fetched) + 1 \in Int /\ fetched' \in Seq(Int)
  BY DEF RingInv, Fetch
<1>2. CASE args.itrace
  BY <1>1, <1>2, RingWrite DEF RingInv, Fetch
<1>3. CASE ~args.itrace
  BY <1>1, <1>3 DEF RingInv, Fetch
<1> QED
  BY <1>2, <1>3

LEMMA RingStep == RingInv /\ [Next]_vars => RingInv'
<1> SUFFICES ASSUME RingInv, [Next]_vars PROVE RingInv'
  OBVIOUS
<1>1. CASE Option \/ Positional
  <2>1. ring' = ring /\ fetched' = fetched /\ phase = "parse"
    BY <1>1 DEF Option, Positional, ImageOption, SizeOption, LimitOption, FlagOption, HelpOption, BadOption,
                Set, Quit, Exit, runVars
  <2> QED
    BY <2>1, RingStart DEF RingInv
<1>2. CASE BootStep \/ Finish
  <2>1. ring' = ring /\ fetched' = fetched /\ args' = args /\ phase' # "parse"
    BY <1>2 DEF BootStep, Finish, memory_init, device_init, LoadDirect, LoadBootrom, LoadDtb, LoadBios, LoadKernel,
                LoadImage, Loaded, BootFailed, TraceFailed, Booted, Exit, runVars
  <2> QED
    BY <2>1 DEF RingInv
<1>3. CASE GuestStep
  BY <1>3, FetchStep DEF GuestStep, Store, ResetStub, Compute, Reboot, Going
<1>4. CASE UNCHANGED vars
  BY <1>4 DEF vars, runVars, RingInv
<1> QED
  BY <1>1, <1>2, <1>3, <1>4 DEF Next

(* The dump shows the last instructions in the order of their fetch,       *)
(* however often the ring has wrapped.                                     *)
THEOREM BootDumpIsLast == Spec => []DumpIsLast
<1>1. Init => RingInv
  BY RingStart DEF Init, RingInv
<1>2. RingInv => DumpIsLast
  BY RingPrint DEF RingInv, DumpIsLast
<1> QED
  BY <1>1, <1>2, RingStep, PTL DEF Spec

-----------------------------------------------------------------------------
(* The bounds check.                                                       *)
LEMMA SmallMod ==
  ASSUME NEW x \in Nat, x < AddrMod
  PROVE  x % AddrMod = x
<1>1. AddrMod \in Nat \ {0}
  BY BusAssumption
<1>2. PICK m \in Nat : m = x % AddrMod
  BY <1>1
<1>3. PICK n \in Nat : n = x \div AddrMod
  BY <1>1
<1>4. x = AddrMod * n + m /\ m < AddrMod
  BY <1>1, <1>2, <1>3
<1>5. n = 0 \/ n >= 1
  BY <1>3
<1>6. n >= 1 => AddrMod * n >= AddrMod
  BY <1>1, <1>3
<1> QED
  BY <1>1, <1>2, <1>4, <1>5, <1>6

(* A window that does not reach around the end of the addresses.           *)
Window(base, size) ==
  base \in Nat /\ size \in Nat /\ base + size <= AddrMod /\ size < AddrMod

(* The bounds check without wrapping is the inclusion of the ranges.       *)
LEMMA RangeCheck ==
  ASSUME NEW base, NEW size, Window(base, size), NEW addr \in Addresses, NEW n \in Nat
  PROVE  /\ check_addr_range(addr, n, base, size) <=> base <= addr /\ addr + n <= base + size
         /\ base <= addr => Minus(addr, base) = addr - base
<1>1. AddrMod \in Nat /\ base \in Nat /\ size \in Nat /\ addr \in Nat /\ addr < AddrMod /\ size < AddrMod
  BY BusAssumption DEF Window, Addresses
<1>2. ASSUME base <= addr PROVE Minus(addr, base) = addr - base
  <2>1. PICK x \in Nat : x = addr - base /\ x < AddrMod
    BY <1>1, <1>2
  <2> QED
    BY <2>1, SmallMod DEF Minus
<1>3. ASSUME n <= size PROVE Minus(size, n) = size - n
  <2>1. PICK x \in Nat : x = size - n /\ x < AddrMod
    BY <1>1, <1>3
  <2> QED
    BY <2>1, SmallMod DEF Minus
<1> QED
  BY <1>1, <1>2, <1>3 DEF check_addr_range

(* The address after n bytes that were checked, at worst the first one.    *)
LEMMA PlusChecked ==
  ASSUME NEW a \in Addresses, NEW n \in Nat, a + n <= AddrMod
  PROVE  /\ Plus(a, n) \in Addresses
         /\ a + n < AddrMod => Plus(a, n) = a + n
         /\ a + n = AddrMod => Plus(a, n) = 0
<1>1. AddrMod \in Nat \ {0} /\ a \in Nat /\ a < AddrMod
  BY BusAssumption DEF Addresses
<1>2. CASE a + n < AddrMod
  <2>1. PICK x \in Nat : x = a + n /\ x < AddrMod
    BY <1>1, <1>2
  <2> QED
    BY <1>1, <2>1, SmallMod DEF Plus, Addresses
<1>3. CASE a + n = AddrMod
  <2>1. AddrMod % AddrMod = 0
    BY <1>1
  <2> QED
    BY <1>1, <1>3, <2>1 DEF Plus, Addresses
<1> QED
  BY <1>1, <1>2, <1>3

-----------------------------------------------------------------------------
(* A load in progress over an allocation with the indices D.               *)
IsLoad(a, D) ==
  /\ DOMAIN a = {"store", "stray", "ok", "loaded", "valid_entry"}
  /\ DOMAIN a.store = D
  /\ a.stray = FALSE
  /\ a.ok \in BOOLEAN

(* A window onto that allocation.                                          *)
IsSegment(m, D) ==
  /\ Window(m.base, m.size) /\ m.data \in Nat
  /\ \A i \in m.data .. m.data + m.size - 1 : i \in D
  /\ D \subseteq Int

LEMMA LoadStart == ASSUME NEW s PROVE IsLoad(Loading(s), DOMAIN s) /\ Loading(s).store = s /\ Loading(s).ok
  BY DEF IsLoad, Loading

LEMMA LoadFails == ASSUME NEW D, NEW a, IsLoad(a, D) PROVE IsLoad(Fail(a), D) /\ ~Fail(a).ok
  BY DEF IsLoad, Fail

ByteOf(f, ph, k) == IF k < ph.filesz THEN <<f.name, ph.off + k>> ELSE Zero

LEMMA Fread ==
  ASSUME NEW D, NEW m, IsSegment(m, D), NEW a, IsLoad(a, D), a.ok,
         NEW f, f.size \in Nat, NEW off \in Nat, NEW addr \in Addresses, NEW size \in Nat
  PROVE  LET e == memory_fread(m, f, off, addr, size, a)
         IN  /\ IsLoad(e, D)
             /\ e.ok => /\ m.base <= addr /\ addr + size <= m.base + m.size
                        /\ \A i \in D : e.store[i] = IF i - (m.data + addr - m.base) \in 0 .. size - 1
                                                     THEN <<f.name, off + (i - (m.data + addr - m.base))>> ELSE a.store[i]
<1>1. CASE ~check_addr_range(addr, size, m.base, m.size)
  <2>1. memory_fread(m, f, off, addr, size, a) = Fail(a)
    BY <1>1 DEF memory_fread
  <2> QED
    BY <2>1, LoadFails
<1>2. CASE check_addr_range(addr, size, m.base, m.size)
  <2>1. /\ m.base <= addr /\ addr + size <= m.base + m.size /\ Minus(addr, m.base) = addr - m.base
        /\ m.base \in Nat /\ m.size \in Nat /\ m.data \in Nat /\ addr \in Nat
    BY <1>2, RangeCheck, BusAssumption DEF IsSegment, Window, Addresses
  <2>2. PICK n \in 0 .. size : n = IF off + size <= f.size THEN size ELSE IF off <= f.size THEN f.size - off ELSE 0
    OBVIOUS
  <2>3. PICK x \in Nat : x = m.data + addr - m.base
    BY <2>1
  <2> DEFINE s == [k \in D |-> IF k \in x .. x + n - 1 THEN <<f.name, off + (k - x)>> ELSE a.store[k]]
             r == [a EXCEPT !.store = s, !.stray = @ \/ ~(x .. x + n - 1 \subseteq D)]
  <2>4. x .. x + n - 1 \subseteq D
    <3>1. x >= m.data /\ x + n - 1 <= m.data + m.size - 1
      BY <2>1, <2>2, <2>3
    <3> QED
      BY <2>1, <2>2, <2>3, <3>1 DEF IsSegment
  <2>5. memory_fread(m, f, off, addr, size, a) = IF n # size THEN Fail(r) ELSE r
    BY <1>2, <2>1, <2>2, <2>3 DEF memory_fread, Put, IsLoad
  <2>6. IsLoad(r, D) /\ r.store = s
    BY <2>4 DEF IsLoad
  <2>7. CASE n # size
    <3>1. memory_fread(m, f, off, addr, size, a) = Fail(r)
      BY <2>5, <2>7
    <3>2. IsLoad(Fail(r), D) /\ ~Fail(r).ok
      <4> HIDE DEF r
      <4> QED
        BY <2>6, LoadFails
    <3> HIDE DEF r
    <3> QED
      BY <3>1, <3>2
  <2>8. CASE n = size
    <3>1. memory_fread(m, f, off, addr, size, a) = r
      BY <2>5, <2>8
    <3>2. \A i \in D : s[i] = IF i - x \in 0 .. size - 1 THEN <<f.name, off + (i - x)>> ELSE a.store[i]
      <4>1. ASSUME NEW i \in D PROVE i \in x .. x + n - 1 <=> i - x \in 0 .. size - 1
        BY <2>8 DEF IsSegment
      <4> QED
        BY <4>1
    <3> HIDE DEF r, s
    <3> QED
      BY <2>1, <2>3, <2>6, <3>1, <3>2
  <2> QED
    BY <2>7, <2>8
<1> QED
  BY <1>1, <1>2

LEMMA MemorySet ==
  ASSUME NEW D, NEW m, IsSegment(m, D), NEW a, IsLoad(a, D), a.ok,
         NEW addr \in Addresses, NEW size \in Nat
  PROVE  LET e == memory_set(m, addr, size, a)
         IN  /\ IsLoad(e, D)
             /\ e.ok => /\ m.base <= addr /\ addr + size <= m.base + m.size
                        /\ \A i \in D : e.store[i] = IF i - (m.data + addr - m.base) \in 0 .. size - 1
                                                     THEN Zero ELSE a.store[i]
<1>1. CASE ~check_addr_range(addr, size, m.base, m.size)
  <2>1. memory_set(m, addr, size, a) = Fail(a)
    BY <1>1 DEF memory_set
  <2> QED
    BY <2>1, LoadFails
<1>2. CASE check_addr_range(addr, size, m.base, m.size)
  <2>1. /\ m.base <= addr /\ addr + size <= m.base + m.size /\ Minus(addr, m.base) = addr - m.base
        /\ m.base \in Nat /\ m.size \in Nat /\ m.data \in Nat /\ addr \in Nat
    BY <1>2, RangeCheck, BusAssumption DEF IsSegment, Window, Addresses
  <2>2. PICK x \in Nat : x = m.data + addr - m.base
    BY <2>1
  <2> DEFINE s == [k \in D |-> IF k \in x .. x + size - 1 THEN Zero ELSE a.store[k]]
             r == [a EXCEPT !.store = s, !.stray = @ \/ ~(x .. x + size - 1 \subseteq D)]
  <2>3. x .. x + size - 1 \subseteq D
    <3>1. x >= m.data /\ x + size - 1 <= m.data + m.size - 1
      BY <2>1, <2>2
    <3> QED
      BY <2>1, <2>2, <3>1 DEF IsSegment
  <2>4. memory_set(m, addr, size, a) = r
    BY <1>2, <2>1, <2>2 DEF memory_set, Put, IsLoad
  <2>5. IsLoad(r, D) /\ r.store = s
    BY <2>3 DEF IsLoad
  <2>6. \A i \in D : s[i] = IF i - x \in 0 .. size - 1 THEN Zero ELSE a.store[i]
    <3>1. ASSUME NEW i \in D PROVE i \in x .. x + size - 1 <=> i - x \in 0 .. size - 1
      BY DEF IsSegment
    <3> QED
      BY <3>1
  <2> HIDE DEF r, s
  <2> QED
    BY <2>1, <2>2, <2>4, <2>5, <2>6
<1> QED
  BY <1>1, <1>2

(* One program header: nothing outside the allocation, and when it loads   *)
(* its bytes are in place, all of them within the window.                  *)
IsHeader(ph) == ph.off \in Nat /\ ph.vaddr \in Addresses /\ ph.filesz \in Nat /\ ph.memsz \in Nat

LEMMA Segment ==
  ASSUME NEW D, NEW m, IsSegment(m, D), NEW a, IsLoad(a, D), a.ok,
         NEW f, f.size \in Nat, NEW ph, IsHeader(ph)
  PROVE  LET e == LoadSegment(m, f, a, ph)
         IN  /\ IsLoad(e, D)
             /\ e.ok => /\ m.base <= ph.vaddr /\ ph.vaddr + ph.memsz <= m.base + m.size
                        /\ \A i \in D : e.store[i] = IF i - (m.data + ph.vaddr - m.base) \in 0 .. ph.memsz - 1
                                                     THEN ByteOf(f, ph, i - (m.data + ph.vaddr - m.base)) ELSE a.store[i]
<1> DEFINE e == LoadSegment(m, f, a, ph)
           read == memory_fread(m, f, ph.off, ph.vaddr, ph.filesz, a)
           set == memory_set(m, Plus(ph.vaddr, ph.filesz), ph.memsz - ph.filesz, read)
<1>1. CASE ph.filesz > ph.memsz \/ ~elf_seek(ph.off)
  <2>1. e = Fail(a)
    BY <1>1 DEF LoadSegment
  <2> QED
    BY <2>1, LoadFails
<1>2. CASE ~(ph.filesz > ph.memsz) /\ elf_seek(ph.off)
  <2>1. /\ IsLoad(read, D)
        /\ read.ok => /\ m.base <= ph.vaddr /\ ph.vaddr + ph.filesz <= m.base + m.size
                      /\ \A i \in D : read.store[i] = IF i - (m.data + ph.vaddr - m.base) \in 0 .. ph.filesz - 1
                                                     THEN <<f.name, ph.off + (i - (m.data + ph.vaddr - m.base))>> ELSE a.store[i]
    BY Fread DEF IsHeader
  <2>2. CASE ~read.ok
    <3>1. e = read
      BY <1>2, <2>2 DEF LoadSegment
    <3> HIDE DEF read
    <3> QED
      BY <2>1, <2>2, <3>1
  <2>3. CASE read.ok
    <3>1. /\ Plus(ph.vaddr, ph.filesz) \in Addresses
          /\ ph.vaddr + ph.filesz < AddrMod => Plus(ph.vaddr, ph.filesz) = ph.vaddr + ph.filesz
          /\ ph.vaddr + ph.filesz = AddrMod => Plus(ph.vaddr, ph.filesz) = 0
      <4>1. ph.vaddr \in Addresses /\ ph.filesz \in Nat /\ ph.vaddr + ph.filesz <= AddrMod
        BY <2>1, <2>3, BusAssumption DEF IsHeader, IsSegment, Window, Addresses
      <4> QED
        BY <4>1, PlusChecked
    <3>2. ph.memsz - ph.filesz \in Nat
      BY <1>2 DEF IsHeader
    <3>3. PICK z \in Addresses : z = Plus(ph.vaddr, ph.filesz)
      BY <3>1
    <3>4. PICK w \in Nat : w = ph.memsz - ph.filesz
      BY <3>2
    <3>5. /\ IsLoad(set, D)
          /\ set.ok => /\ m.base <= z /\ z + w <= m.base + m.size
                       /\ \A i \in D : set.store[i] = IF i - (m.data + z - m.base) \in 0 .. w - 1
                                                     THEN Zero ELSE read.store[i]
      <4> HIDE DEF read
      <4> QED
        BY <2>1, <2>3, <3>3, <3>4, MemorySet
    <3>6. CASE ~set.ok
      <4>1. e = set
        BY <1>2, <2>3, <3>6 DEF LoadSegment
      <4> HIDE DEF set
      <4> QED
        BY <3>5, <3>6, <4>1
    <3>7. CASE set.ok
      <4>1. e = [set EXCEPT !.loaded = TRUE,
                            !.valid_entry = @ \/ /\ ph.x /\ f.entry >= ph.vaddr
                                                 /\ Minus(f.entry, ph.vaddr) < ph.memsz]
        BY <1>2, <2>3, <3>7 DEF LoadSegment
      <4>2. IsLoad(e, D) /\ e.store = set.store
        <5> HIDE DEF set, e
        <5> QED
          BY <3>5, <4>1 DEF IsLoad
      <4>3. z = ph.vaddr + ph.filesz
        <5>1. /\ ph.vaddr \in Nat /\ ph.filesz \in Nat /\ m.base \in Nat /\ m.size \in Nat
              /\ m.size < AddrMod /\ m.base + m.size <= AddrMod /\ AddrMod \in Nat
          BY BusAssumption DEF IsSegment, Window, IsHeader, Addresses
        <5>2. ph.vaddr + ph.filesz <= m.base + m.size /\ m.base <= z
          BY <2>1, <2>3, <3>5, <3>7
        <5>3. CASE ph.vaddr + ph.filesz < AddrMod
          BY <3>1, <3>3, <5>3
        <5>4. CASE ph.vaddr + ph.filesz = AddrMod
          BY <3>1, <3>3, <5>1, <5>2, <5>4
        <5> QED
          BY <5>1, <5>2, <5>3, <5>4
      <4>4. m.base <= ph.vaddr /\ ph.vaddr + ph.memsz <= m.base + m.size
        BY <2>1, <2>3, <3>4, <3>5, <3>7, <4>3, BusAssumption DEF IsSegment, Window, IsHeader, Addresses
      <4>5. ASSUME NEW i \in D
            PROVE  set.store[i] = IF i - (m.data + ph.vaddr - m.base) \in 0 .. ph.memsz - 1
                                  THEN ByteOf(f, ph, i - (m.data + ph.vaddr - m.base)) ELSE a.store[i]
        <5>1. PICK k \in Int : k = i - (m.data + ph.vaddr - m.base)
          BY BusAssumption DEF IsSegment, Window, IsHeader, Addresses
        <5>2. i - (m.data + z - m.base) = k - ph.filesz
          BY <4>3, <5>1, BusAssumption DEF IsSegment, Window, IsHeader, Addresses
        <5>3. read.store[i] = IF k \in 0 .. ph.filesz - 1 THEN <<f.name, ph.off + k>> ELSE a.store[i]
          BY <2>1, <2>3, <5>1
        <5>4. set.store[i] = IF k - ph.filesz \in 0 .. w - 1 THEN Zero ELSE read.store[i]
          BY <3>5, <3>7, <5>2
        <5>5. /\ k - ph.filesz \in 0 .. w - 1 <=> k \in 0 .. ph.memsz - 1 /\ ~(k < ph.filesz)
              /\ k \in 0 .. ph.filesz - 1 <=> k \in 0 .. ph.memsz - 1 /\ k < ph.filesz
          BY <1>2, <3>4 DEF IsHeader
        <5> HIDE DEF read, set
        <5> QED
          BY <5>1, <5>3, <5>4, <5>5 DEF ByteOf
      <4> HIDE DEF set
      <4> QED
        BY <4>2, <4>4, <4>5
    <3> QED
      BY <3>6, <3>7
  <2> QED
    BY <2>2, <2>3
<1> QED
  BY <1>1, <1>2

-----------------------------------------------------------------------------
(* The loop over the program headers, as the function that the fold of     *)
(* load_elf_segments is.                                                   *)
Turn(m, f, a, ph) ==
  IF ~a.ok THEN a
  ELSE IF ~ph.present THEN Fail(a)
  ELSE IF ph.load THEN LoadSegment(m, f, a, ph)
  ELSE a

IsTurns(it, m, f, acc, T) ==
  it = [s \in T |-> IF s = {} THEN acc ELSE Turn(m, f, it[s \ {Max(s)}], f.phdrs[Max(s)])]

Turns(m, f, acc) == CHOOSE it : IsTurns(it, m, f, acc, SUBSET DOMAIN f.phdrs)

LEMMA LoopIsTurns ==
  ASSUME NEW m, NEW f, NEW acc
  PROVE  load_elf_segments(m, f, acc) =
           LET end == Turns(m, f, acc)[DOMAIN f.phdrs]
           IN  IF end.ok /\ end.loaded /\ end.valid_entry THEN end ELSE Fail(end)
  BY Zenon DEF load_elf_segments, FoldLeft, MapThenFoldSet, Turns, IsTurns, Turn

LEMMA LeastNat ==
  ASSUME NEW T, T \subseteq Nat, T # {}
  PROVE  \E n \in T : \A k \in T : ~(k < n)
<1>1. \E n \in T : \A k \in T : ~(<<k, n>> \in OpToRel(<, Nat))
  BY WFMin, NatLessThanWellFounded
<1> QED
  BY <1>1 DEF OpToRel

LEMMA MaxUpto ==
  ASSUME NEW n \in Nat, NEW s \in SUBSET (1 .. n + 1), n + 1 \in s
  PROVE  Max(s) = n + 1
<1>1. \A y \in s : n + 1 >= y
  OBVIOUS
<1>2. Max(s) \in s /\ \A y \in s : Max(s) >= y
  BY <1>1 DEF Max
<1>3. PICK x \in 1 .. n + 1 : x = Max(s)
  BY <1>2
<1>4. x >= n + 1
  BY <1>2, <1>3
<1> QED
  BY <1>3, <1>4

LEMMA TurnsExist ==
  ASSUME NEW m, NEW f, NEW acc, NEW N \in Nat
  PROVE  \E it : IsTurns(it, m, f, acc, SUBSET (1 .. N))
<1> DEFINE Good(n) == \E it : IsTurns(it, m, f, acc, SUBSET (1 .. n))
<1>1. Good(0)
  <2>1. \A s \in SUBSET (1 .. 0) : s = {}
    OBVIOUS
  <2>2. IsTurns([s \in SUBSET (1 .. 0) |-> acc], m, f, acc, SUBSET (1 .. 0))
    BY <2>1 DEF IsTurns
  <2> QED
    BY <2>2
<1>2. ASSUME NEW n \in Nat, Good(n) PROVE Good(n + 1)
  <2>1. PICK it : IsTurns(it, m, f, acc, SUBSET (1 .. n))
    BY <1>2
  <2> DEFINE next(s) == IF s = {} THEN acc ELSE Turn(m, f, it[s \ {Max(s)}], f.phdrs[Max(s)])
             big == [s \in SUBSET (1 .. n + 1) |-> next(s)]
  <2>2. \A s \in SUBSET (1 .. n) : it[s] = next(s)
    BY <2>1 DEF IsTurns
  <2>3. ASSUME NEW s \in SUBSET (1 .. n + 1) PROVE s \ {Max(s)} \in SUBSET (1 .. n)
    <3>1. \A y \in s : y = n + 1 \/ y \in 1 .. n
      OBVIOUS
    <3>2. n + 1 \in s => Max(s) = n + 1
      BY MaxUpto
    <3> QED
      BY <3>1, <3>2
  <2>4. \A s \in SUBSET (1 .. n) : s \in SUBSET (1 .. n + 1)
    OBVIOUS
  <2>5. \A s \in SUBSET (1 .. n + 1) : big[s \ {Max(s)}] = it[s \ {Max(s)}]
    BY <2>2, <2>3, <2>4
  <2>6. big = [s \in SUBSET (1 .. n + 1) |->
                 IF s = {} THEN acc ELSE Turn(m, f, big[s \ {Max(s)}], f.phdrs[Max(s)])]
    BY <2>5
  <2>7. IsTurns(big, m, f, acc, SUBSET (1 .. n + 1))
    BY <2>6 DEF IsTurns
  <2> QED
    BY <2>7
<1>3. \A n \in Nat : Good(n)
  <2> DEFINE Bad == {n \in Nat : ~Good(n)}
  <2> HIDE DEF Good
  <2> SUFFICES ASSUME Bad # {} PROVE FALSE
    OBVIOUS
  <2>1. PICK n \in Bad : \A k \in Bad : ~(k < n)
    BY LeastNat
  <2>2. n # 0 /\ n \in Nat
    BY <1>1
  <2>3. n - 1 \in Nat /\ n - 1 \notin Bad
    BY <2>1, <2>2
  <2>4. Good(n - 1)
    BY <2>3
  <2>5. Good((n - 1) + 1)
    BY <1>2, <2>3, <2>4
  <2> QED
    BY <2>2, <2>5
<1> QED
  BY <1>3

(* One turn after the other.                                               *)
LEMMA TurnsStep ==
  ASSUME NEW m, NEW f, NEW acc, NEW N \in Nat, DOMAIN f.phdrs = 1 .. N
  PROVE  /\ Turns(m, f, acc)[1 .. 0] = acc
         /\ \A n \in Nat : n + 1 <= N =>
              Turns(m, f, acc)[1 .. n + 1] = Turn(m, f, Turns(m, f, acc)[1 .. n], f.phdrs[n + 1])
<1>1. PICK it : it = Turns(m, f, acc) /\ IsTurns(it, m, f, acc, SUBSET (1 .. N))
  BY TurnsExist DEF Turns
<1>2. it[1 .. 0] = acc
  <2>1. 1 .. 0 = {} /\ 1 .. 0 \in SUBSET (1 .. N)
    OBVIOUS
  <2> QED
    BY <1>1, <2>1 DEF IsTurns
<1>3. ASSUME NEW n \in Nat, n + 1 <= N
      PROVE  it[1 .. n + 1] = Turn(m, f, it[1 .. n], f.phdrs[n + 1])
  <2>1. PICK s : s = 1 .. n + 1
    OBVIOUS
  <2>2. s \in SUBSET (1 .. N) /\ s # {}
    BY <1>3, <2>1
  <2>3. Max(s) = n + 1
    BY <2>1, MaxUpto
  <2>4. s \ {n + 1} = 1 .. n
    BY <2>1
  <2>5. it[s] = Turn(m, f, it[s \ {Max(s)}], f.phdrs[Max(s)])
    BY <1>1, <2>2 DEF IsTurns
  <2> QED
    BY <2>1, <2>3, <2>4, <2>5
<1> QED
  BY <1>1, <1>2, <1>3

(* Header s of f puts a byte at index i of the allocation behind m.        *)
Start(m, f, s) == m.data + f.phdrs[s].vaddr - m.base

Covers(m, f, s, i) == f.phdrs[s].load /\ i - Start(m, f, s) \in 0 .. f.phdrs[s].memsz - 1

(* After n turns that were all content: the headers fit, and every byte is *)
(* that of the last header that has it or has not changed.                 *)
After(m, f, store, D, n, st) ==
  /\ \A s \in 1 .. n : f.phdrs[s].load =>
       m.base <= f.phdrs[s].vaddr /\ f.phdrs[s].vaddr + f.phdrs[s].memsz <= m.base + m.size
  /\ \A i \in D : (\A s \in 1 .. n : ~Covers(m, f, s, i)) => st[i] = store[i]
  /\ \A i \in D, s \in 1 .. n : Covers(m, f, s, i) /\ (\A t \in s + 1 .. n : ~Covers(m, f, t, i)) =>
       st[i] = ByteOf(f, f.phdrs[s], i - Start(m, f, s))

LEMMA AfterTurn ==
  ASSUME NEW D, NEW m, IsSegment(m, D), NEW f, IsFile(f), NEW store, NEW n \in Nat, n + 1 <= Len(f.phdrs),
         NEW a, IsLoad(a, D), a.ok => After(m, f, store, D, n, a.store)
  PROVE  LET e == Turn(m, f, a, f.phdrs[n + 1])
         IN  IsLoad(e, D) /\ (e.ok => After(m, f, store, D, n + 1, e.store))
<1> DEFINE e == Turn(m, f, a, f.phdrs[n + 1])
<1>1. PICK ph : ph = f.phdrs[n + 1]
  OBVIOUS
<1>2. IsHeader(ph) /\ f.size \in Nat
  BY <1>1 DEF IsFile, IsHeader
<1>3. CASE ~a.ok
  BY <1>3 DEF Turn
<1>4. CASE a.ok /\ ~ph.present
  BY <1>1, <1>4, LoadFails DEF Turn
<1>5. CASE a.ok /\ ph.present /\ ph.load
  <2>1. e = LoadSegment(m, f, a, ph)
    BY <1>1, <1>5 DEF Turn
  <2>2. /\ IsLoad(e, D)
        /\ e.ok => /\ m.base <= ph.vaddr /\ ph.vaddr + ph.memsz <= m.base + m.size
                   /\ \A i \in D : e.store[i] = IF i - (m.data + ph.vaddr - m.base) \in 0 .. ph.memsz - 1
                                                THEN ByteOf(f, ph, i - (m.data + ph.vaddr - m.base)) ELSE a.store[i]
    BY <1>2, <1>5, <2>1, Segment
  <2> HIDE DEF e
  <2>3. ASSUME e.ok PROVE After(m, f, store, D, n + 1, e.store)
    <3>1. \A s \in 1 .. n + 1 : s = n + 1 \/ s \in 1 .. n
      OBVIOUS
    <3>2. \A s \in 1 .. n : s \in 1 .. n + 1 /\ n + 1 \in s + 1 .. n + 1
      OBVIOUS
    <3>3. \A s \in 1 .. n : f.phdrs[s].load =>
            m.base <= f.phdrs[s].vaddr /\ f.phdrs[s].vaddr + f.phdrs[s].memsz <= m.base + m.size
      BY <1>5 DEF After
    <3>4. ASSUME NEW i \in D
          PROVE  e.store[i] = IF Covers(m, f, n + 1, i) THEN ByteOf(f, ph, i - Start(m, f, n + 1)) ELSE a.store[i]
      BY <1>1, <1>5, <2>2, <2>3 DEF Covers, Start
    <3>5. ASSUME NEW i \in D, \A s \in 1 .. n + 1 : ~Covers(m, f, s, i) PROVE e.store[i] = store[i]
      <4>1. ~Covers(m, f, n + 1, i) /\ \A s \in 1 .. n : ~Covers(m, f, s, i)
        BY <3>2, <3>5
      <4> QED
        BY <1>5, <3>4, <4>1 DEF After
    <3>6. ASSUME NEW i \in D, NEW s \in 1 .. n + 1, Covers(m, f, s, i),
                 \A t \in s + 1 .. n + 1 : ~Covers(m, f, t, i)
          PROVE  e.store[i] = ByteOf(f, f.phdrs[s], i - Start(m, f, s))
      <4>1. CASE s = n + 1
        BY <1>1, <3>4, <3>6, <4>1
      <4>2. CASE s \in 1 .. n
        <5>1. ~Covers(m, f, n + 1, i)
          BY <3>2, <3>6, <4>2
        <5>2. \A t \in s + 1 .. n : ~Covers(m, f, t, i)
          BY <3>6
        <5> QED
          BY <1>5, <3>4, <3>6, <4>2, <5>1, <5>2 DEF After
      <4> QED
        BY <3>1, <4>1, <4>2
    <3>7. \A s \in 1 .. n + 1 : f.phdrs[s].load =>
            m.base <= f.phdrs[s].vaddr /\ f.phdrs[s].vaddr + f.phdrs[s].memsz <= m.base + m.size
      BY <1>1, <2>2, <2>3, <3>1, <3>3
    <3> QED
      BY <3>5, <3>6, <3>7 DEF After
  <2> QED
    BY <2>2, <2>3 DEF e
<1>6. CASE a.ok /\ ph.present /\ ~ph.load
  <2>1. e = a
    BY <1>1, <1>6 DEF Turn
  <2>2. \A i : ~Covers(m, f, n + 1, i)
    BY <1>1, <1>6 DEF Covers
  <2>3. \A s \in 1 .. n + 1 : s = n + 1 \/ s \in 1 .. n
    OBVIOUS
  <2>4. \A s \in 1 .. n : s \in 1 .. n + 1
    OBVIOUS
  <2>5. \A s \in 1 .. n : \A t \in s + 1 .. n : t \in s + 1 .. n + 1
    OBVIOUS
  <2>6. After(m, f, store, D, n + 1, a.store)
    <3>1. ~f.phdrs[n + 1].load
      BY <1>1, <1>6
    <3>2. \A s \in 1 .. n + 1 : f.phdrs[s].load =>
            m.base <= f.phdrs[s].vaddr /\ f.phdrs[s].vaddr + f.phdrs[s].memsz <= m.base + m.size
      BY <1>6, <2>3, <3>1 DEF After
    <3>3. \A i \in D : (\A s \in 1 .. n + 1 : ~Covers(m, f, s, i)) => a.store[i] = store[i]
      BY <1>6, <2>4 DEF After
    <3>4. ASSUME NEW i \in D, NEW s \in 1 .. n + 1, Covers(m, f, s, i),
                 \A t \in s + 1 .. n + 1 : ~Covers(m, f, t, i)
          PROVE  a.store[i] = ByteOf(f, f.phdrs[s], i - Start(m, f, s))
      <4>1. s \in 1 .. n
        BY <2>2, <2>3, <3>4
      <4> QED
        BY <1>6, <2>5, <3>4, <4>1 DEF After
    <3> QED
      BY <3>2, <3>3, <3>4 DEF After
  <2> QED
    BY <2>1, <2>6
<1> QED
  BY <1>3, <1>4, <1>5, <1>6

LEMMA AfterAll ==
  ASSUME NEW D, NEW m, IsSegment(m, D), NEW f, IsFile(f), NEW store, DOMAIN store = D
  PROVE  LET e == Turns(m, f, Loading(store))[DOMAIN f.phdrs]
         IN  IsLoad(e, D) /\ (e.ok => After(m, f, store, D, Len(f.phdrs), e.store))
<1>1. PICK N \in Nat : N = Len(f.phdrs) /\ DOMAIN f.phdrs = 1 .. N
  BY DEF IsFile
<1> DEFINE A(n) == Turns(m, f, Loading(store))[1 .. n]
           Ok(n) == IsLoad(A(n), D) /\ (A(n).ok => After(m, f, store, D, n, A(n).store))
           Bad == {n \in 0 .. N : ~Ok(n)}
<1>2. /\ A(0) = Loading(store)
      /\ \A n \in Nat : n + 1 <= N => A(n + 1) = Turn(m, f, A(n), f.phdrs[n + 1])
  BY <1>1, TurnsStep
<1>3. Ok(0)
  <2>1. IsLoad(A(0), D) /\ A(0).store = store
    BY <1>2, LoadStart
  <2>2. After(m, f, store, D, 0, store)
    BY DEF After
  <2> QED
    BY <2>1, <2>2
<1>4. ASSUME NEW n \in Nat, n + 1 <= N, Ok(n) PROVE Ok(n + 1)
  <2>1. A(n + 1) = Turn(m, f, A(n), f.phdrs[n + 1])
    BY <1>2, <1>4
  <2>2. PICK a : a = A(n)
    OBVIOUS
  <2>3. IsLoad(a, D) /\ (a.ok => After(m, f, store, D, n, a.store))
    BY <1>4, <2>2
  <2>4. n + 1 <= Len(f.phdrs)
    BY <1>1, <1>4
  <2>5. LET e == Turn(m, f, a, f.phdrs[n + 1])
        IN  IsLoad(e, D) /\ (e.ok => After(m, f, store, D, n + 1, e.store))
    BY <2>3, <2>4, AfterTurn
  <2> HIDE DEF A
  <2> QED
    BY <2>1, <2>2, <2>5
<1>5. Bad = {}
  <2> HIDE DEF Ok
  <2> SUFFICES ASSUME Bad # {} PROVE FALSE
    OBVIOUS
  <2>1. Bad \subseteq Nat
    OBVIOUS
  <2>2. PICK n \in Bad : \A k \in Bad : ~(k < n)
    <3> HIDE DEF Bad
    <3> QED
      BY <2>1, LeastNat
  <2>3. n # 0 /\ n \in Nat /\ n <= N
    BY <1>3
  <2>4. n - 1 \in Nat /\ n - 1 \notin Bad /\ n - 1 \in 0 .. N
    BY <2>2, <2>3
  <2>5. Ok(n - 1)
    BY <2>4
  <2>6. Ok((n - 1) + 1)
    BY <1>4, <2>3, <2>4, <2>5
  <2> QED
    BY <2>3, <2>6
<1>6. Ok(N)
  BY <1>5
<1> QED
  BY <1>1, <1>6

(* The greatest element of a set of header numbers.                        *)
LEMMA LastExists ==
  ASSUME NEW N \in Nat, NEW C, C \subseteq 1 .. N, C # {}
  PROVE  \E s \in C : \A t \in C : t <= s
<1> DEFINE T == {n \in Nat : N - n \in C}
<1>1. T \subseteq Nat /\ T # {}
  <2>1. PICK s \in C : s \in 1 .. N
    OBVIOUS
  <2>2. N - s \in Nat /\ N - (N - s) = s
    BY <2>1
  <2> QED
    BY <2>1, <2>2
<1>2. PICK n \in T : \A k \in T : ~(k < n)
  <2> HIDE DEF T
  <2> QED
    BY <1>1, LeastNat
<1>3. ASSUME NEW t \in C PROVE t <= N - n
  <2>1. N - t \in Nat /\ N - (N - t) = t /\ t \in Nat
    OBVIOUS
  <2>2. N - t \in T
    BY <2>1
  <2>3. n \in Nat /\ ~(N - t < n)
    BY <1>2, <2>2
  <2> QED
    BY <2>1, <2>3
<1> QED
  BY <1>2, <1>3

LEMMA CoveringIs ==
  ASSUME NEW m, NEW D, IsSegment(m, D), NEW f, IsFile(f), NEW a \in Addresses
  PROVE  /\ Covering(f, a) = {s \in 1 .. Len(f.phdrs) : Covers(m, f, s, m.data + a - m.base)}
         /\ \A s \in 1 .. Len(f.phdrs) : (m.data + a - m.base) - Start(m, f, s) = a - f.phdrs[s].vaddr
<1>1. m.data \in Nat /\ m.base \in Nat /\ a \in Nat
  BY BusAssumption DEF IsSegment, Window, Addresses
<1>2. ASSUME NEW s \in 1 .. Len(f.phdrs)
      PROVE  (m.data + a - m.base) - Start(m, f, s) = a - f.phdrs[s].vaddr
  <2>1. f.phdrs[s].vaddr \in Nat
    BY BusAssumption DEF IsFile, Addresses
  <2>2. PICK d \in Nat, b \in Nat, v \in Nat : d = m.data /\ b = m.base /\ v = f.phdrs[s].vaddr
    BY <1>1, <2>1, Zenon
  <2>3. PICK x \in Nat : x = a
    BY <1>1, Zenon
  <2>4. (d + x - b) - (d + v - b) = x - v
    OBVIOUS
  <2> QED
    BY <2>2, <2>3, <2>4, Zenon DEF Start
<1>3. DOMAIN f.phdrs = 1 .. Len(f.phdrs)
  BY DEF IsFile
<1> QED
  BY <1>2, <1>3 DEF Covering, Covers

(* An ELF that loads: its bytes are in memory, nothing else has changed.   *)
Untouched(f, m, D, old, new) ==
  \A i \in D : (\A a \in Addresses : Covering(f, a) # {} => i # m.data + a - m.base) => new[i] = old[i]

LEMMA AfterIsIntact ==
  ASSUME NEW m, NEW D, IsSegment(m, D), NEW f, IsFile(f), NEW old, NEW new, DOMAIN new = D,
         After(m, f, old, D, Len(f.phdrs), new)
  PROVE  ElfIntact(f, m, new) /\ Untouched(f, m, D, old, new)
<1>1. PICK N \in Nat : N = Len(f.phdrs)
  BY DEF IsFile
<1>2. AddrMod \in Nat /\ m.data \in Nat /\ m.base \in Nat /\ m.size \in Nat /\ m.base + m.size <= AddrMod
  BY BusAssumption DEF IsSegment, Window
<1>3. ASSUME NEW s \in 1 .. N PROVE IsHeader(f.phdrs[s]) /\ f.phdrs[s].vaddr \in Nat
  BY <1>1, <1>3, BusAssumption DEF IsFile, IsHeader, Addresses
<1>4. ASSUME NEW a \in Addresses, Covering(f, a) # {}
      PROVE  m.data + a - m.base \in D /\ new[m.data + a - m.base] = ElfByte(f, a)
  <2> DEFINE C == Covering(f, a)
             s == CHOOSE s \in C : \A t \in C : t <= s
  <2>1. C = {t \in 1 .. N : Covers(m, f, t, m.data + a - m.base)}
    BY <1>1, CoveringIs
  <2>2. s \in C /\ \A t \in C : t <= s
    <3>1. \E t \in C : \A u \in C : u <= t
      <4>1. C \subseteq 1 .. N
        BY <2>1
      <4> HIDE DEF C
      <4> QED
        BY <1>4, <4>1, LastExists DEF C
    <3> HIDE DEF C
    <3> QED
      BY <3>1
  <2>3. PICK ph : ph = f.phdrs[s]
    OBVIOUS
  <2>4. ElfByte(f, a) = IF a - ph.vaddr < ph.filesz THEN <<f.name, ph.off + a - ph.vaddr>> ELSE Zero
    BY <2>3 DEF ElfByte
  <2> HIDE DEF s
  <2>5. s \in 1 .. N /\ Covers(m, f, s, m.data + a - m.base)
    BY <2>1, <2>2
  <2>6. \A t \in s + 1 .. N : ~Covers(m, f, t, m.data + a - m.base)
    <3>1. ASSUME NEW t \in s + 1 .. N, Covers(m, f, t, m.data + a - m.base) PROVE FALSE
      <4>1. t \in 1 .. N /\ ~(t <= s)
        BY <2>5
      <4>2. t \in C
        BY <2>1, <3>1, <4>1
      <4> QED
        BY <2>2, <4>1, <4>2
    <3> QED
      BY <3>1
  <2>7. (m.data + a - m.base) - Start(m, f, s) = a - ph.vaddr
    BY <1>1, <2>3, <2>5, CoveringIs
  <2>8. ph.load /\ a - ph.vaddr \in 0 .. ph.memsz - 1 /\ IsHeader(ph) /\ ph.vaddr \in Nat /\ a \in Nat
    BY <1>3, <2>3, <2>5, <2>7, BusAssumption DEF Covers, Addresses
  <2>9. m.base <= ph.vaddr /\ ph.vaddr + ph.memsz <= m.base + m.size
    BY <1>1, <2>3, <2>5, <2>8 DEF After
  <2>10. m.data + a - m.base \in D
    <3>1. m.data + a - m.base \in m.data .. m.data + m.size - 1
      <4>1. PICK b \in Nat, z \in Nat, d \in Nat : b = m.base /\ z = m.size /\ d = m.data
        BY <1>2
      <4>2. PICK v \in Nat, y \in Nat : v = ph.vaddr /\ y = ph.memsz
        BY <2>8 DEF IsHeader
      <4>3. a - v \in 0 .. y - 1 /\ b <= v /\ v + y <= b + z
        BY <2>8, <2>9, <4>1, <4>2
      <4>4. d + a - b \in d .. d + z - 1
        BY <2>8, <4>3
      <4> QED
        BY <4>1, <4>4
    <3> QED
      BY <3>1 DEF IsSegment
  <2>11. new[m.data + a - m.base] = ByteOf(f, ph, a - ph.vaddr)
    BY <1>1, <2>3, <2>5, <2>6, <2>7, <2>10 DEF After
  <2>12. ph.off + a - ph.vaddr = ph.off + (a - ph.vaddr)
    BY <2>8 DEF IsHeader
  <2> QED
    BY <2>4, <2>10, <2>11, <2>12 DEF ByteOf
<1>5. ASSUME NEW i \in D, \A a \in Addresses : Covering(f, a) # {} => i # m.data + a - m.base
      PROVE  new[i] = old[i]
  <2>1. ASSUME NEW s \in 1 .. N, Covers(m, f, s, i) PROVE FALSE
    <3>1. PICK ph : ph = f.phdrs[s] /\ IsHeader(ph) /\ ph.vaddr \in Nat
      BY <1>3
    <3>2. i \in Int
      BY DEF IsSegment
    <3>3. ph.load /\ i - (m.data + ph.vaddr - m.base) \in 0 .. ph.memsz - 1
      BY <2>1, <3>1 DEF Covers, Start
    <3>4. m.base <= ph.vaddr /\ ph.vaddr + ph.memsz <= m.base + m.size
      BY <1>1, <2>1, <3>1, <3>3 DEF After
    <3>5. PICK a \in Nat : a = i - m.data + m.base /\ a < AddrMod
      <4>1. PICK b \in Nat, z \in Nat, d \in Nat : b = m.base /\ z = m.size /\ d = m.data
        BY <1>2
      <4>2. PICK v \in Nat, y \in Nat : v = ph.vaddr /\ y = ph.memsz
        BY <3>1 DEF IsHeader
      <4>3. i - (d + v - b) \in 0 .. y - 1 /\ b <= v /\ v + y <= b + z /\ b + z <= AddrMod
        BY <1>2, <3>3, <3>4, <4>1, <4>2
      <4>4. i - d + b \in Nat /\ i - d + b < AddrMod
        BY <1>2, <3>2, <4>3
      <4> QED
        BY <4>1, <4>4
    <3>6. a \in Addresses /\ i = m.data + a - m.base
      BY <1>2, <3>2, <3>5 DEF Addresses
    <3>7. s \in Covering(f, a)
      BY <1>1, <2>1, <3>6, CoveringIs
    <3> QED
      BY <1>5, <3>6, <3>7
  <2> QED
    BY <1>1, <2>1 DEF After
<1> QED
  BY <1>4, <1>5 DEF ElfIntact, Untouched

LEMMA SegmentsLoad ==
  ASSUME NEW D, NEW m, IsSegment(m, D), NEW f, IsFile(f), NEW store, DOMAIN store = D
  PROVE  LET e == load_elf_segments(m, f, Loading(store))
         IN  IsLoad(e, D) /\ (e.ok => ElfIntact(f, m, e.store) /\ Untouched(f, m, D, store, e.store))
<1>1. PICK end : /\ end = Turns(m, f, Loading(store))[DOMAIN f.phdrs]
                 /\ IsLoad(end, D) /\ (end.ok => After(m, f, store, D, Len(f.phdrs), end.store))
  BY AfterAll
<1>2. load_elf_segments(m, f, Loading(store)) = IF end.ok /\ end.loaded /\ end.valid_entry THEN end ELSE Fail(end)
  BY <1>1, LoopIsTurns
<1>3. CASE end.ok /\ end.loaded /\ end.valid_entry
  <2>1. DOMAIN end.store = D
    BY <1>1 DEF IsLoad
  <2>2. ElfIntact(f, m, end.store) /\ Untouched(f, m, D, store, end.store)
    BY <1>1, <1>3, <2>1, AfterIsIntact
  <2> QED
    BY <1>1, <1>2, <1>3, <2>2
<1>4. CASE ~(end.ok /\ end.loaded /\ end.valid_entry)
  BY <1>1, <1>2, <1>4, LoadFails
<1> QED
  BY <1>3, <1>4

LEMMA ElfLoad ==
  ASSUME NEW D, NEW m, IsSegment(m, D), NEW f, IsFile(f), NEW store, DOMAIN store = D
  PROVE  LET e == memory_load_elf(m, f, store)
         IN  IsLoad(e, D) /\ (e.ok => ElfIntact(f, m, e.store) /\ Untouched(f, m, D, store, e.store))
  BY SegmentsLoad, LoadStart, LoadFails DEF memory_load_elf

(* A raw image that loads: its bytes are at the start of the window.       *)
LEMMA BinarySegment ==
  ASSUME NEW D, NEW m, IsSegment(m, D), NEW f, IsFile(f), NEW store, DOMAIN store = D
  PROVE  LET e == load_binary_segment(m, f, Loading(store))
         IN  /\ IsLoad(e, D)
             /\ e.ok => /\ BinaryIntact(f, m, e.store) /\ f.size <= m.size
                        /\ \A i \in D : i \notin m.data .. m.data + f.size - 1 => e.store[i] = store[i]
<1>1. PICK a : a = Loading(store) /\ IsLoad(a, D) /\ a.store = store /\ a.ok
  BY LoadStart
<1>2. /\ f.size \in Nat /\ m.data \in Nat /\ m.size \in Nat /\ D \subseteq Int
      /\ \A i \in m.data .. m.data + m.size - 1 : i \in D
  BY DEF IsFile, IsSegment, Window
<1>3. PICK n \in Nat : n = (IF f.size <= m.size THEN f.size ELSE m.size) /\ n <= m.size
  BY <1>2
<1> DEFINE s == [k \in D |-> IF k \in m.data .. m.data + n - 1 THEN <<f.name, k - m.data>> ELSE store[k]]
           r == [a EXCEPT !.store = s, !.stray = @ \/ ~(m.data .. m.data + n - 1 \subseteq D)]
<1>4. m.data .. m.data + n - 1 \subseteq D
  BY <1>2, <1>3
<1>5. load_binary_segment(m, f, a) = IF f.io THEN Fail(a) ELSE IF f.size > m.size THEN Fail(r) ELSE r
  BY <1>1, <1>3 DEF load_binary_segment, Put, IsLoad
<1>6. IsLoad(r, D) /\ r.store = s
  BY <1>1, <1>4 DEF IsLoad
<1>7. CASE f.io
  BY <1>1, <1>5, <1>7, LoadFails
<1>8. CASE ~f.io /\ f.size > m.size
  <2> HIDE DEF r, s
  <2> QED
    BY <1>1, <1>5, <1>6, <1>8, LoadFails
<1>9. CASE ~f.io /\ ~(f.size > m.size)
  <2>1. n = f.size
    BY <1>2, <1>3, <1>9
  <2>2. \A k \in 0 .. f.size - 1 : m.data + k \in D /\ s[m.data + k] = <<f.name, k>>
    <3> SUFFICES ASSUME NEW k \in 0 .. f.size - 1 PROVE m.data + k \in D /\ s[m.data + k] = <<f.name, k>>
      OBVIOUS
    <3>1. PICK j : j = m.data + k /\ j \in m.data .. m.data + n - 1 /\ j - m.data = k
      <4>1. PICK d \in Nat : d = m.data
        BY <1>2
      <4>2. d + k \in d .. d + n - 1 /\ (d + k) - d = k
        BY <1>2, <2>1
      <4> QED
        BY <4>1, <4>2
    <3>2. j \in D /\ s[j] = <<f.name, j - m.data>>
      BY <1>4, <3>1
    <3> QED
      BY <3>1, <3>2
  <2>3. \A i \in D : i \notin m.data .. m.data + f.size - 1 => s[i] = store[i]
    BY <2>1
  <2>4. load_binary_segment(m, f, a) = r /\ DOMAIN s = D
    BY <1>5, <1>9
  <2> HIDE DEF r, s
  <2> QED
    BY <1>1, <1>2, <1>6, <1>9, <2>2, <2>3, <2>4 DEF BinaryIntact
<1> QED
  BY <1>7, <1>8, <1>9

LEMMA BinaryLoad ==
  ASSUME NEW D, NEW m, IsSegment(m, D), NEW f, IsFile(f), NEW store, DOMAIN store = D
  PROVE  LET e == memory_load_binary(m, f, store)
         IN  /\ IsLoad(e, D)
             /\ e.ok => /\ BinaryIntact(f, m, e.store) /\ f.size <= m.size
                        /\ \A i \in D : i \notin m.data .. m.data + f.size - 1 => e.store[i] = store[i]
  BY BinarySegment, LoadStart, LoadFails DEF memory_load_binary

(* Whatever a raw image does outside its window, the allocation stays as   *)
(* large as it was.                                                        *)
LEMMA BinaryDomain ==
  ASSUME NEW m, NEW f, NEW store
  PROVE  DOMAIN memory_load_binary(m, f, store).store = DOMAIN store
<1>1. PICK a : a = Loading(store) /\ DOMAIN a = {"store", "stray", "ok", "loaded", "valid_entry"} /\ a.store = store
  BY LoadStart DEF IsLoad
<1>2. DOMAIN Fail(a).store = DOMAIN store
  BY <1>1 DEF Fail
<1> DEFINE n == IF f.size <= m.size THEN f.size ELSE m.size
           byte(k) == <<f.name, k>>
           r == Put(a, m.data, n, byte)
<1>3. DOMAIN r.store = DOMAIN store /\ DOMAIN Fail(r).store = DOMAIN store
  BY <1>1 DEF Put, Fail
<1>4. load_binary_segment(m, f, a) = IF f.io THEN Fail(a) ELSE IF f.size > m.size THEN Fail(r) ELSE r
  BY DEF load_binary_segment
<1>5. DOMAIN load_binary_segment(m, f, a).store = DOMAIN store
  <2> HIDE DEF r
  <2> QED
    BY <1>2, <1>3, <1>4
<1> QED
  BY <1>1, <1>2, <1>5 DEF memory_load_binary

-----------------------------------------------------------------------------
(* Host memory.  What the command line can be, and the sizes of the two    *)
(* allocations.                                                            *)
ArgsInv ==
  /\ DOMAIN args = DOMAIN Args0
  /\ args.boot_mode \in {"BOOT_MODE_DIRECT", "BOOT_MODE_BOOTROM"}
  /\ args.format \in {"AUTO", "ELF", "BIN"}
  /\ args.dram_size \in 1 .. MaxDram
  /\ args.dtb \in Files.dtb \cup {NoFile}
  /\ args.bios \in Files.bios \cup {NoFile}
  /\ args.kernel \in Files.kernel \cup {NoFile}
  /\ args.boot_mode = "BOOT_MODE_BOOTROM" => args.bootrom \in Files.bootrom

ModeInv ==
  /\ phase \in Loads \cup {"memory", "devices", "run"} /\ args.boot_mode = "BOOT_MODE_DIRECT" => args.file \in Files.file
  /\ phase = "direct" => args.boot_mode = "BOOT_MODE_DIRECT"
  /\ phase \in {"bootrom", "dtb", "bios", "kernel"} => args.boot_mode = "BOOT_MODE_BOOTROM"

StoreInv ==
  /\ phase \in Loads \cup {"devices", "run"} => DOMAIN dram = 0 .. args.dram_size - 1
  /\ phase \in Loads \cup {"run"} => DOMAIN rom = 0 .. RomSize - 1
  /\ stray \in BOOLEAN
  /\ phase = "parse" => ~stray

BoundsInv == ArgsInv /\ ModeInv /\ StoreInv /\ HostInBounds

LEMMA Layout ==
  /\ AddrMod \in Nat /\ DramBase \in Nat /\ RomBase \in Nat /\ RomSize \in Nat \ {0} /\ MaxDram \in Nat
  /\ DramBase > 0 /\ DramBase + MaxDram <= AddrMod /\ RomBase + RomSize < AddrMod
  /\ DefaultDram \in Nat /\ DtbSize \in Nat /\ KernelStart \in Nat
  /\ DramBase <= KernelStart /\ KernelStart <= DtbStart /\ DtbStart = DramBase + DefaultDram - DtbSize
  BY BusAssumption, BootAssumption DEF DtbStart

LEMMA Segments ==
  ASSUME args.dram_size \in 1 .. MaxDram
  PROVE  /\ IsSegment(RamSeg, 0 .. args.dram_size - 1)
         /\ IsSegment(RomSeg, 0 .. RomSize - 1)
         /\ args.dram_size >= DefaultDram => /\ IsSegment(DtbSeg, 0 .. args.dram_size - 1)
                                             /\ IsSegment(KernelSeg, 0 .. args.dram_size - 1)
<1>1. PICK n \in Nat : n = args.dram_size /\ n <= MaxDram /\ n >= 1
  BY Layout
<1>2. IsSegment(RamSeg, 0 .. args.dram_size - 1)
  BY <1>1, Layout DEF IsSegment, Window, RamSeg
<1>3. IsSegment(RomSeg, 0 .. RomSize - 1)
  BY Layout DEF IsSegment, Window, RomSeg
<1>4. ASSUME n >= DefaultDram PROVE IsSegment(DtbSeg, 0 .. n - 1)
  <2>1. PICK d \in Nat : d = DtbStart - DramBase /\ d + DtbSize <= n
    BY <1>1, <1>4, Layout
  <2>2. PICK b \in Nat : b = DtbStart /\ b + DtbSize <= AddrMod /\ DtbSize < AddrMod
    BY <1>1, <1>4, Layout
  <2>3. DtbSeg = [base |-> b, size |-> DtbSize, data |-> d]
    BY <2>1, <2>2 DEF DtbSeg
  <2> QED
    BY <1>1, <2>1, <2>2, <2>3, Layout DEF IsSegment, Window
<1>5. ASSUME n >= DefaultDram PROVE IsSegment(KernelSeg, 0 .. n - 1)
  <2>1. PICK d \in Nat, z \in Nat : d = KernelStart - DramBase /\ z = DtbStart - KernelStart /\ d + z <= n
    BY <1>1, <1>5, Layout
  <2>2. KernelStart + z <= AddrMod /\ z < AddrMod
    BY <1>1, <1>5, <2>1, Layout
  <2>3. KernelSeg = [base |-> KernelStart, size |-> z, data |-> d]
    BY <2>1 DEF KernelSeg
  <2> QED
    BY <1>1, <2>1, <2>2, <2>3, Layout DEF IsSegment, Window
<1> QED
  BY <1>1, <1>2, <1>3, <1>4, <1>5

LEMMA GivenFiles ==
  ASSUME ArgsInv
  PROVE  /\ Given(args.dtb) => IsFile(args.dtb)
         /\ Given(args.bios) => IsFile(args.bios)
         /\ Given(args.kernel) => IsFile(args.kernel)
         /\ args.boot_mode = "BOOT_MODE_BOOTROM" => IsFile(args.bootrom)
  BY FilesAssumption DEF ArgsInv, Given, NoFile

(* What the loader of LoadDirect returns.                                  *)
DirectEnd ==
  CASE args.format = "AUTO" -> memory_load_auto(RamSeg, args.file, dram)
    [] args.format = "BIN" -> memory_load_binary(RamSeg, args.file, dram)
    [] args.format = "ELF" -> memory_load_elf(RamSeg, args.file, dram)

LEMMA DirectLoad ==
  ASSUME ArgsInv, IsFile(args.file), DOMAIN dram = 0 .. args.dram_size - 1
  PROVE  /\ IsLoad(DirectEnd, 0 .. args.dram_size - 1)
         /\ DirectEnd.ok => IF IsElf(args.file) THEN ElfIntact(args.file, RamSeg, DirectEnd.store)
                            ELSE BinaryIntact(args.file, RamSeg, DirectEnd.store)
<1> DEFINE D == 0 .. args.dram_size - 1
           f == args.file
<1>1. IsSegment(RamSeg, D)
  BY Segments DEF ArgsInv
<1>2. LET e == memory_load_elf(RamSeg, f, dram) IN IsLoad(e, D) /\ (e.ok => ElfIntact(f, RamSeg, e.store))
  BY <1>1, ElfLoad
<1>3. LET e == memory_load_binary(RamSeg, f, dram) IN IsLoad(e, D) /\ (e.ok => BinaryIntact(f, RamSeg, e.store))
  BY <1>1, BinaryLoad
<1>4. CASE args.format = "BIN"
  BY <1>3, <1>4 DEF DirectEnd, IsElf
<1>5. CASE args.format = "ELF"
  BY <1>2, <1>5 DEF DirectEnd, IsElf
<1>6. CASE args.format = "AUTO"
  <2>1. DirectEnd = memory_load_auto(RamSeg, f, dram)
    BY <1>6 DEF DirectEnd
  <2>2. CASE f.exists /\ probe_elf(f) = "ELF_HEADER_OK"
    <3>1. DirectEnd = load_elf_segments(RamSeg, f, Loading(dram)) /\ IsElf(f)
      BY <1>6, <2>1, <2>2 DEF memory_load_auto, IsElf
    <3> QED
      BY <1>1, <3>1, SegmentsLoad
  <2>3. CASE f.exists /\ probe_elf(f) = "NOT_ELF"
    <3>1. DirectEnd = load_binary_segment(RamSeg, f, Loading(dram)) /\ ~IsElf(f)
      BY <1>6, <2>1, <2>3 DEF memory_load_auto, IsElf
    <3> QED
      BY <1>1, <3>1, BinarySegment
  <2>4. CASE ~(f.exists /\ probe_elf(f) = "ELF_HEADER_OK") /\ ~(f.exists /\ probe_elf(f) = "NOT_ELF")
    <3>1. DirectEnd = Fail(Loading(dram))
      BY <2>1, <2>4 DEF memory_load_auto
    <3> QED
      BY <3>1, LoadStart, LoadFails
  <2> QED
    BY <2>2, <2>3, <2>4
<1> QED
  BY <1>4, <1>5, <1>6 DEF ArgsInv

(* The options.                                                            *)
LEMMA OptionArgs ==
  ASSUME ArgsInv, Option \/ Positional
  PROVE  ArgsInv' /\ (phase' \in {"parse", "exited"} \/ ModeInv') /\ stray' = stray /\ phase = "parse"
<1> USE DEF Option, Positional, Quit, Exit, bootVars
<1>1. stray' = stray /\ phase = "parse"
  BY DEF ImageOption, SizeOption, LimitOption, FlagOption, HelpOption, BadOption, Set
<1>2. CASE args' = args /\ phase' \in {"parse", "exited"}
  BY <1>1, <1>2 DEF ArgsInv
<1>3. CASE ImageOption
  BY <1>1, <1>3 DEF ImageOption, Set, ArgsInv, Args0
<1>4. CASE SizeOption
  BY <1>1, <1>4, BootAssumption DEF SizeOption, Set, ArgsInv, Args0
<1>5. CASE LimitOption
  BY <1>1, <1>5 DEF LimitOption, Set, ArgsInv, Args0
<1>6. CASE FlagOption
  BY <1>1, <1>6 DEF FlagOption, Set, ArgsInv, Args0
<1>7. CASE Positional
  <2>1. CASE args' = args /\ phase' = "memory" /\ args.boot_mode = "BOOT_MODE_BOOTROM"
    BY <1>1, <2>1 DEF ArgsInv, ModeInv, Loads
  <2>2. CASE \E f \in Files.file : args' = [args EXCEPT !.file = f] /\ phase' = "memory"
    BY <1>1, <2>2 DEF ArgsInv, ModeInv, Loads, Args0
  <2> QED
    BY <1>2, <1>7, <2>1, <2>2
<1> QED
  BY <1>2, <1>3, <1>4, <1>5, <1>6, <1>7 DEF HelpOption, BadOption

(* The steps of boot and of the guest leave the command line alone.        *)
LEMMA ArgsKept ==
  ASSUME BootStep \/ GuestStep \/ Finish \/ UNCHANGED vars
  PROVE  args' = args
  BY DEF BootStep, GuestStep, Finish, memory_init, device_init, LoadDirect, LoadBootrom, LoadDtb, LoadBios, LoadKernel,
         LoadImage, Loaded, BootFailed, TraceFailed, Booted, Store, ResetStub, Compute, Reboot, vars

LEMMA SameArgs ==
  ASSUME ArgsInv, args' = args
  PROVE  ArgsInv'
  BY DEF ArgsInv

(* A load that stays in its allocation, and one that may not.              *)
LEMMA LoadedDram ==
  ASSUME BoundsInv, NEW img, NEW end, Loaded(img, end), dram' = end.store, rom' = rom, args' = args, ModeInv',
         phase \in Loads, phase' \in Loads, IsLoad(end, 0 .. args.dram_size - 1)
  PROVE  BoundsInv'
<1>1. DOMAIN dram' = 0 .. args.dram_size - 1 /\ DOMAIN rom' = 0 .. RomSize - 1
  BY DEF IsLoad, BoundsInv, StoreInv
<1>2. stray' = stray
  BY Zenon DEF IsLoad, Loaded, BoundsInv, StoreInv
<1> QED
  BY <1>1, <1>2, SameArgs DEF BoundsInv, StoreInv, HostInBounds, Loads

LEMMA LoadImageBounds ==
  ASSUME BoundsInv, NEW from, NEW to, NEW img, NEW seg, NEW f,
         LoadImage(from, to, img, f, memory_load_binary(seg, f, dram)),
         args.boot_mode = "BOOT_MODE_BOOTROM", phase \in Loads, phase' \in Loads, ModeInv', args' = args,
         f \in {args.dtb, args.kernel},
         Given(f) /\ args.dram_size >= DefaultDram => IsFile(f) /\ IsSegment(seg, 0 .. args.dram_size - 1)
  PROVE  BoundsInv'
<1> DEFINE end == memory_load_binary(seg, f, dram)
<1>1. DOMAIN dram = 0 .. args.dram_size - 1 /\ DOMAIN rom = 0 .. RomSize - 1
  BY DEF BoundsInv, StoreInv
<1>2. CASE ~Given(f)
  <2>1. stray' = stray /\ dram' = dram /\ rom' = rom
    BY <1>2 DEF LoadImage
  <2> QED
    BY <1>1, <2>1, SameArgs DEF BoundsInv, StoreInv, HostInBounds, Loads
<1>3. CASE Given(f) /\ args.dram_size >= DefaultDram
  <2>1. Loaded(img, end) /\ dram' = end.store /\ rom' = rom
    BY <1>3 DEF LoadImage
  <2>2. IsLoad(end, 0 .. args.dram_size - 1)
    BY <1>1, <1>3, BinaryLoad
  <2> HIDE DEF end
  <2> QED
    BY <2>1, <2>2, LoadedDram
<1>4. CASE Given(f) /\ ~(args.dram_size >= DefaultDram)
  <2>1. Loaded(img, end) /\ dram' = end.store /\ rom' = rom
    BY <1>4 DEF LoadImage
  <2>2. stray' \in BOOLEAN
    BY <2>1 DEF Loaded
  <2>3. DOMAIN dram' = 0 .. args.dram_size - 1
    BY <1>1, <2>1, BinaryDomain
  <2>4. args.dram_size < DefaultDram
    BY <1>4, Layout DEF BoundsInv, ArgsInv
  <2>5. HostInBounds'
    BY <1>4, <2>4 DEF HostInBounds
  <2> QED
    BY <1>1, <2>1, <2>2, <2>3, <2>5, SameArgs DEF BoundsInv, StoreInv, Loads
<1> QED
  BY <1>2, <1>3, <1>4

LEMMA LoadsBounds ==
  ASSUME BoundsInv, LoadDirect \/ LoadBootrom \/ LoadDtb \/ LoadBios \/ LoadKernel
  PROVE  BoundsInv'
<1>1. args' = args
  BY ArgsKept DEF BootStep
<1>2. ArgsInv /\ args.dram_size \in 1 .. MaxDram
  BY DEF BoundsInv, ArgsInv
<1>3. phase \in Loads /\ phase' \in Loads /\ ModeInv'
  BY <1>1 DEF BoundsInv, ModeInv, Loads, LoadDirect, LoadBootrom, LoadDtb, LoadBios, LoadKernel, LoadImage
<1>4. DOMAIN dram = 0 .. args.dram_size - 1 /\ DOMAIN rom = 0 .. RomSize - 1
  BY <1>3 DEF BoundsInv, StoreInv
<1>5. CASE LoadDirect
  <2>1. args.file \in Files.file
    BY <1>5 DEF LoadDirect, BoundsInv, ModeInv, Loads
  <2>2. IsLoad(DirectEnd, 0 .. args.dram_size - 1)
    BY <1>2, <1>4, <2>1, DirectLoad, FilesAssumption
  <2>3. Loaded("file", DirectEnd) /\ dram' = DirectEnd.store /\ rom' = rom
    BY <1>5 DEF LoadDirect, DirectEnd
  <2> QED
    BY <1>1, <1>3, <2>2, <2>3, LoadedDram
<1>6. CASE LoadBootrom
  <2>1. IsFile(args.bootrom)
    BY <1>2, <1>6, GivenFiles DEF LoadBootrom, BoundsInv, ModeInv
  <2>2. PICK end : /\ end = memory_load_elf(RomSeg, args.bootrom, rom)
                   /\ IsLoad(end, 0 .. RomSize - 1)
    BY <1>2, <1>4, <2>1, ElfLoad, Segments
  <2>3. Loaded("bootrom", end) /\ rom' = end.store /\ dram' = dram
    BY <1>6, <2>2 DEF LoadBootrom
  <2>4. stray' = stray
    BY <2>2, <2>3, Zenon DEF IsLoad, Loaded, BoundsInv, StoreInv
  <2>5. DOMAIN rom' = 0 .. RomSize - 1
    BY <2>2, <2>3 DEF IsLoad
  <2> QED
    BY <1>1, <1>3, <1>4, <2>3, <2>4, <2>5, SameArgs DEF BoundsInv, StoreInv, HostInBounds, Loads
<1>7. CASE LoadDtb
  <2>1. args.boot_mode = "BOOT_MODE_BOOTROM"
    BY <1>7 DEF LoadDtb, LoadImage, BoundsInv, ModeInv
  <2> QED
    BY <1>1, <1>2, <1>3, <1>7, <2>1, LoadImageBounds, GivenFiles, Segments DEF LoadDtb
<1>8. CASE LoadKernel
  <2>1. args.boot_mode = "BOOT_MODE_BOOTROM"
    BY <1>8 DEF LoadKernel, LoadImage, BoundsInv, ModeInv
  <2> QED
    BY <1>1, <1>2, <1>3, <1>8, <2>1, LoadImageBounds, GivenFiles, Segments DEF LoadKernel
<1>9. CASE LoadBios
  <2>1. CASE ~Given(args.bios)
    <3>1. stray' = stray /\ dram' = dram /\ rom' = rom
      BY <1>9, <2>1 DEF LoadBios, LoadImage
    <3> QED
      BY <1>1, <1>3, <1>4, <3>1, SameArgs DEF BoundsInv, StoreInv, HostInBounds, Loads
  <2>2. CASE Given(args.bios)
    <3>1. PICK end : /\ end = memory_load_elf(RamSeg, args.bios, dram)
                     /\ IsLoad(end, 0 .. args.dram_size - 1)
      BY <1>2, <1>4, <2>2, ElfLoad, Segments, GivenFiles
    <3>2. Loaded("bios", end) /\ dram' = end.store /\ rom' = rom
      BY <1>9, <2>2, <3>1 DEF LoadBios, LoadImage
    <3> QED
      BY <1>1, <1>3, <3>1, <3>2, LoadedDram
  <2> QED
    BY <2>1, <2>2
<1> QED
  BY <1>5, <1>6, <1>7, <1>8, <1>9

(* A store of the guest: only the RAM takes it, within its bounds.         *)
LEMMA StoreBounds ==
  ASSUME BoundsInv, NEW addr \in StoreAddrs, NEW size \in Sizes, Store(addr, size)
  PROVE  stray' = stray /\ DOMAIN dram' = DOMAIN dram /\ rom' = rom /\ (~dirty' => ~dirty /\ dram' = dram)
<1>1. DOMAIN dram = 0 .. args.dram_size - 1 /\ args.dram_size \in 1 .. MaxDram
  BY DEF BoundsInv, StoreInv, ArgsInv, Store, Going
<1>2. addr \in Addresses /\ size \in Nat \ {0}
  BY BusAssumption, BootAssumption
<1>3. PICK acc : acc = Loading(dram) /\ IsLoad(acc, DOMAIN dram) /\ acc.store = dram
  BY LoadStart
<1> DEFINE byte(k) == <<"guest", 0>>
           ramEnd == IF StoresToRam(addr, size, RamSeg) THEN Put(acc, addr - DramBase, size, byte) ELSE acc
<1>4. /\ dram' = ramEnd.store /\ rom' = Loading(rom).store
      /\ stray' = (stray \/ ramEnd.stray \/ Loading(rom).stray)
      /\ dirty' = (dirty \/ dram' # dram)
  BY <1>3 DEF Store, StoresToRom
<1>5. ASSUME StoresToRam(addr, size, RamSeg) PROVE addr - DramBase .. addr - DramBase + size - 1 \subseteq DOMAIN dram
  <2>1. check_addr_range(addr, size, DramBase, args.dram_size)
    BY <1>5 DEF StoresToRam, cpu_access_check, RamSeg
  <2>2. Window(DramBase, args.dram_size)
    BY <1>1, Layout DEF Window
  <2>3. DramBase <= addr /\ addr + size <= DramBase + args.dram_size
    BY <1>2, <2>1, <2>2, RangeCheck
  <2> QED
    BY <1>1, <1>2, <2>3, Layout DEF Addresses
<1>6. IsLoad(ramEnd, DOMAIN dram)
  BY <1>3, <1>5 DEF IsLoad, Put
<1>7. Loading(rom).store = rom /\ Loading(rom).stray = FALSE
  BY LoadStart DEF IsLoad
<1>8. ramEnd.stray = FALSE /\ DOMAIN ramEnd.store = DOMAIN dram
  BY <1>6 DEF IsLoad
<1> HIDE DEF ramEnd
<1>9. stray' = stray
  BY <1>4, <1>7, <1>8, Zenon DEF BoundsInv, StoreInv
<1>10. ~dirty' => ~dirty /\ dram' = dram
  BY <1>4, Zenon
<1> QED
  BY <1>4, <1>7, <1>8, <1>9, <1>10

LEMMA BoundsStep == BoundsInv /\ [Next]_vars => BoundsInv'
<1> SUFFICES ASSUME BoundsInv, [Next]_vars PROVE BoundsInv'
  OBVIOUS
<1>1. CASE Option \/ Positional
  <2>1. ArgsInv' /\ (phase' \in {"parse", "exited"} \/ ModeInv') /\ stray' = stray /\ phase = "parse"
    BY <1>1, OptionArgs DEF BoundsInv
  <2>2. phase' \in {"parse", "memory", "exited"} /\ ~stray'
    BY <1>1, <2>1 DEF BoundsInv, StoreInv, Option, Positional, ImageOption, SizeOption, LimitOption, FlagOption, HelpOption, BadOption,
                Set, Quit, Exit
  <2> QED
    BY <2>1, <2>2 DEF BoundsInv, StoreInv, ModeInv, HostInBounds, Loads
<1>2. CASE BootStep \/ GuestStep \/ Finish \/ UNCHANGED vars
  <2>1. args' = args /\ ArgsInv'
    BY <1>2, ArgsKept, SameArgs DEF BoundsInv
  <2>2. CASE memory_init
    BY <2>1, <2>2 DEF memory_init, Exit, BoundsInv, ModeInv, StoreInv, HostInBounds, Loads
  <2>3. CASE device_init
    BY <2>1, <2>3 DEF device_init, Exit, BoundsInv, ModeInv, StoreInv, HostInBounds, Loads, ArgsInv
  <2>4. CASE LoadDirect \/ LoadBootrom \/ LoadDtb \/ LoadBios \/ LoadKernel
    BY <2>4, LoadsBounds
  <2>5. CASE BootFailed \/ TraceFailed \/ Booted \/ Finish
    BY <2>1, <2>5 DEF BootFailed, TraceFailed, Booted, Finish, Exit, BoundsInv, ModeInv, StoreInv, HostInBounds, Loads
  <2>6. CASE ResetStub \/ Compute \/ Reboot
    BY <2>1, <2>6 DEF ResetStub, Compute, Reboot, BoundsInv, ModeInv, StoreInv, HostInBounds, Loads
  <2>7. CASE \E addr \in StoreAddrs, size \in Sizes : Store(addr, size)
    <3>1. stray' = stray /\ DOMAIN dram' = DOMAIN dram /\ rom' = rom
      BY <2>7, StoreBounds
    <3>2. phase' = phase
      BY <2>7 DEF Store
    <3> QED
      BY <2>1, <3>1, <3>2 DEF BoundsInv, ModeInv, StoreInv, HostInBounds
  <2>8. CASE UNCHANGED vars
    BY <2>1, <2>8 DEF vars, bootVars, BoundsInv, ModeInv, StoreInv, HostInBounds
  <2> QED
    BY <1>2, <2>2, <2>3, <2>4, <2>5, <2>6, <2>7, <2>8 DEF BootStep, GuestStep
<1> QED
  BY <1>1, <1>2 DEF Next

LEMMA BoundsStart == Init => BoundsInv
<1> SUFFICES ASSUME Init PROVE BoundsInv
  OBVIOUS
<1>1. ArgsInv
  BY BootAssumption DEF Init, ArgsInv, Args0
<1>2. ModeInv /\ StoreInv /\ HostInBounds
  BY DEF Init, ModeInv, StoreInv, HostInBounds, Loads
<1> QED
  BY <1>1, <1>2 DEF BoundsInv

(* Neither a loader nor a store of the guest writes host memory outside    *)
(* its allocation, for every layout, file and address.                     *)
THEOREM BootHostInBounds == Spec => []HostInBounds
<1>1. BoundsInv => HostInBounds
  BY DEF BoundsInv
<1> QED
  BY <1>1, BoundsStart, BoundsStep, PTL DEF Spec

-----------------------------------------------------------------------------
(* The images.  As long as no load has failed, each one is in place from   *)
(* its own load on, with the exceptions ImagesIntact makes.                *)
RomIn ==
  args.boot_mode = "BOOT_MODE_BOOTROM" /\ result = 0 /\ phase \in {"dtb", "bios", "kernel", "loaded", "run"} =>
    ElfIntact(args.bootrom, RomSeg, rom)

FileIn ==
  args.boot_mode = "BOOT_MODE_DIRECT" /\ result = 0 /\ ~dirty /\ phase \in {"loaded", "run"} =>
    IF IsElf(args.file) THEN ElfIntact(args.file, RamSeg, dram) ELSE BinaryIntact(args.file, RamSeg, dram)

Roomy == args.boot_mode = "BOOT_MODE_BOOTROM" /\ result = 0 /\ ~dirty /\ args.dram_size >= DefaultDram

DtbIn ==
  Roomy /\ phase \in {"bios", "kernel", "loaded", "run"}
        /\ Given(args.dtb) /\ ~(Given(args.bios) /\ Reaches(args.bios, DtbStart)) =>
    BinaryIntact(args.dtb, DtbSeg, dram)

BiosIn ==
  Roomy /\ phase \in {"kernel", "loaded", "run"}
        /\ Given(args.bios) /\ ~(Given(args.kernel) /\ Reaches(args.bios, KernelStart)) =>
    ElfIntact(args.bios, RamSeg, dram)

KernelIn ==
  Roomy /\ phase \in {"loaded", "run"} /\ Given(args.kernel) => BinaryIntact(args.kernel, KernelSeg, dram)

ImagesInv == BoundsInv /\ ResultInv /\ RomIn /\ FileIn /\ DtbIn /\ BiosIn /\ KernelIn

LEMMA ImagesInvIntact == ImagesInv => ImagesIntact
  BY DEF ImagesInv, ResultInv, RomIn, FileIn, DtbIn, BiosIn, KernelIn, Roomy, ImagesIntact

(* The segments only depend on the command line.                           *)
LEMMA SameSegments ==
  ASSUME args' = args
  PROVE  RamSeg' = RamSeg /\ RomSeg' = RomSeg /\ DtbSeg' = DtbSeg /\ KernelSeg' = KernelSeg
         /\ \A f : IsElf(f)' <=> IsElf(f)
  BY DEF RamSeg, RomSeg, DtbSeg, KernelSeg, IsElf

(* A step that leaves the memories alone, or says that the DRAM is dirty.  *)
LEMMA MemoryKept ==
  ASSUME ImagesInv, args' = args, rom' = rom, ~dirty' => ~dirty /\ dram' = dram,
         result' = 0 => result = 0,
         \/ phase' = phase
         \/ phase = "loaded" /\ phase' = "run"
         \/ phase' \in {"memory", "devices", "direct", "bootrom", "exited"}
  PROVE  RomIn' /\ FileIn' /\ DtbIn' /\ BiosIn' /\ KernelIn'
<1> USE SameSegments
<1>1. RomIn'
  BY DEF ImagesInv, RomIn
<1>2. FileIn'
  BY DEF ImagesInv, FileIn
<1>3. DtbIn'
  BY DEF ImagesInv, DtbIn, Roomy
<1>4. BiosIn'
  BY DEF ImagesInv, BiosIn, Roomy
<1>5. KernelIn'
  BY DEF ImagesInv, KernelIn, Roomy
<1> QED
  BY <1>1, <1>2, <1>3, <1>4, <1>5

(* The result of a load is zero only if it and all before it were well.    *)
LEMMA ZeroMeansOk ==
  ASSUME ResultInv, phase \in Loads, NEW img, NEW end, Loaded(img, end), result' = 0
  PROVE  result = 0 /\ end.ok
<1>1. result \in Int /\ result <= 0
  BY DEF ResultInv, Loads
<1> QED
  BY <1>1 DEF Loaded, AddResult

(* The firmware ends below the device tree or is said to reach it.         *)
LEMMA BiosKeepsDtb ==
  ASSUME NEW bios, NEW dtb, IsFile(dtb), NEW D, NEW old, NEW new, DOMAIN new = D, DOMAIN old = D,
         D \subseteq Int,
         Untouched(bios, RamSeg, D, old, new), ~Reaches(bios, DtbStart), BinaryIntact(dtb, DtbSeg, old)
  PROVE  BinaryIntact(dtb, DtbSeg, new)
<1> SUFFICES ASSUME NEW k \in 0 .. dtb.size - 1
             PROVE  DtbSeg.data + k \in D /\ new[DtbSeg.data + k] = <<dtb.name, k>>
  BY DEF BinaryIntact
<1>1. PICK d \in Nat : d = DtbSeg.data /\ d = DtbStart - DramBase
  BY Layout DEF DtbSeg
<1>2. d + k \in D /\ old[d + k] = <<dtb.name, k>>
  BY <1>1 DEF BinaryIntact
<1>3. ASSUME NEW a \in Addresses, Covering(bios, a) # {} PROVE d + k # RamSeg.data + a - RamSeg.base
  <2>1. ~(a >= DtbStart)
    BY <1>3 DEF Reaches
  <2>2. RamSeg.data = 0 /\ RamSeg.base = DramBase
    BY DEF RamSeg
  <2>3. a \in Nat /\ k \in Nat
    BY Layout DEF Addresses, IsFile
  <2> QED
    BY <1>1, <2>1, <2>2, <2>3, Layout
<1>4. new[d + k] = old[d + k]
  BY <1>2, <1>3 DEF Untouched
<1> QED
  BY <1>1, <1>2, <1>4

(* A kernel that fits its segment is below the device tree, and above the  *)
(* firmware unless that reaches it.                                        *)
KernelAt(kernel, D, old, new) ==
  /\ kernel.size <= KernelSeg.size
  /\ \A i \in D : i \notin KernelSeg.data .. KernelSeg.data + kernel.size - 1 => new[i] = old[i]

LEMMA KernelKeepsDtb ==
  ASSUME NEW kernel, IsFile(kernel), NEW dtb, IsFile(dtb), NEW D, NEW old, NEW new, DOMAIN new = D, DOMAIN old = D,
         KernelAt(kernel, D, old, new), BinaryIntact(dtb, DtbSeg, old)
  PROVE  BinaryIntact(dtb, DtbSeg, new)
<1> SUFFICES ASSUME NEW k \in 0 .. dtb.size - 1
             PROVE  DtbSeg.data + k \in D /\ new[DtbSeg.data + k] = <<dtb.name, k>>
  BY DEF BinaryIntact
<1>1. PICK d \in Nat : d = DtbSeg.data /\ d = DtbStart - DramBase
  BY Layout DEF DtbSeg
<1>2. PICK z \in Nat, b \in Nat : b = KernelSeg.data /\ b + z = d /\ z = KernelSeg.size
  BY <1>1, Layout DEF KernelSeg
<1>3. d + k \in D /\ old[d + k] = <<dtb.name, k>>
  BY <1>1 DEF BinaryIntact
<1>4. d + k \notin b .. b + kernel.size - 1
  <2>1. PICK y \in Nat : y = kernel.size /\ y <= z
    BY <1>2 DEF KernelAt, IsFile
  <2>2. k \in Nat
    BY DEF IsFile
  <2>3. d + k \notin b .. b + y - 1
    BY <1>2, <2>1, <2>2
  <2> QED
    BY <2>1, <2>3
<1>5. new[d + k] = old[d + k]
  BY <1>2, <1>3, <1>4 DEF KernelAt
<1> QED
  BY <1>1, <1>3, <1>5

LEMMA KernelKeepsBios ==
  ASSUME NEW kernel, IsFile(kernel), NEW bios, NEW D, NEW old, NEW new, DOMAIN new = D, DOMAIN old = D,
         KernelAt(kernel, D, old, new), ~Reaches(bios, KernelStart), ElfIntact(bios, RamSeg, old)
  PROVE  ElfIntact(bios, RamSeg, new)
<1> SUFFICES ASSUME NEW a \in Addresses, Covering(bios, a) # {}
             PROVE  /\ RamSeg.data + a - RamSeg.base \in D
                    /\ new[RamSeg.data + a - RamSeg.base] = ElfByte(bios, a)
  BY DEF ElfIntact
<1>1. PICK i : i = RamSeg.data + a - RamSeg.base
  OBVIOUS
<1>2. i \in D /\ old[i] = ElfByte(bios, a)
  BY <1>1 DEF ElfIntact
<1>3. i = a - DramBase /\ a \in Nat
  BY <1>1, Layout DEF RamSeg, Addresses
<1>4. ~(a >= KernelStart)
  BY DEF Reaches
<1>5. PICK b \in Nat : b = KernelSeg.data /\ b = KernelStart - DramBase
  BY Layout DEF KernelSeg
<1>6. i \notin b .. b + kernel.size - 1
  BY <1>3, <1>4, <1>5, Layout DEF IsFile
<1>7. new[i] = old[i]
  BY <1>2, <1>5, <1>6 DEF KernelAt
<1> QED
  BY <1>1, <1>2, <1>7

LEMMA DirectImages ==
  ASSUME ImagesInv, LoadDirect
  PROVE  RomIn' /\ FileIn' /\ DtbIn' /\ BiosIn' /\ KernelIn'
<1>1. /\ args' = args /\ dirty' = dirty /\ phase \in Loads /\ phase' = "loaded" /\ ArgsInv
      /\ args.boot_mode = "BOOT_MODE_DIRECT" /\ args.file \in Files.file /\ DOMAIN dram = 0 .. args.dram_size - 1
  BY DEF LoadDirect, Loaded, ImagesInv, BoundsInv, ModeInv, StoreInv, Loads, runVars
<1>2. Loaded("file", DirectEnd) /\ dram' = DirectEnd.store
  BY DEF LoadDirect, DirectEnd
<1>3. result' = 0 => DirectEnd.ok
  BY <1>1, <1>2, ZeroMeansOk DEF ImagesInv
<1>4. DirectEnd.ok => IF IsElf(args.file) THEN ElfIntact(args.file, RamSeg, DirectEnd.store)
                      ELSE BinaryIntact(args.file, RamSeg, DirectEnd.store)
  BY <1>1, DirectLoad, FilesAssumption
<1>5. FileIn'
  BY <1>1, <1>2, <1>3, <1>4, SameSegments DEF FileIn
<1> QED
  BY <1>1, <1>5 DEF RomIn, DtbIn, BiosIn, KernelIn, Roomy

LEMMA RomImages ==
  ASSUME ImagesInv, LoadBootrom
  PROVE  RomIn' /\ FileIn' /\ DtbIn' /\ BiosIn' /\ KernelIn'
<1>1. /\ args' = args /\ phase \in Loads /\ phase' = "dtb" /\ ArgsInv
      /\ args.boot_mode = "BOOT_MODE_BOOTROM" /\ DOMAIN rom = 0 .. RomSize - 1
  BY DEF LoadBootrom, Loaded, ImagesInv, BoundsInv, ModeInv, StoreInv, Loads
<1>2. PICK end : /\ end = memory_load_elf(RomSeg, args.bootrom, rom)
                 /\ end.ok => ElfIntact(args.bootrom, RomSeg, end.store)
  BY <1>1, ElfLoad, Segments, GivenFiles DEF ArgsInv
<1>3. Loaded("bootrom", end) /\ rom' = end.store
  BY <1>2 DEF LoadBootrom
<1>4. result' = 0 => end.ok
  BY <1>1, <1>3, ZeroMeansOk DEF ImagesInv
<1>5. RomIn'
  BY <1>1, <1>2, <1>3, <1>4, SameSegments DEF RomIn
<1> QED
  BY <1>1, <1>5 DEF FileIn, DtbIn, BiosIn, KernelIn

(* What the three loads into DRAM have in common.                          *)
LEMMA DramLoad ==
  ASSUME ImagesInv, LoadDtb \/ LoadBios \/ LoadKernel
  PROVE  /\ args' = args /\ rom' = rom /\ dirty' = dirty /\ phase \in Loads /\ ArgsInv
         /\ args.boot_mode = "BOOT_MODE_BOOTROM" /\ DOMAIN dram = 0 .. args.dram_size - 1
         /\ DOMAIN dram' = 0 .. args.dram_size - 1
         /\ result' = 0 => result = 0
         /\ RomIn'
         /\ Roomy' => Roomy /\ IsSegment(RamSeg, DOMAIN dram) /\ IsSegment(DtbSeg, DOMAIN dram) /\ IsSegment(KernelSeg, DOMAIN dram)
<1>1. /\ args' = args /\ rom' = rom /\ dirty' = dirty /\ phase \in Loads /\ ArgsInv
      /\ args.boot_mode = "BOOT_MODE_BOOTROM" /\ DOMAIN dram = 0 .. args.dram_size - 1
      /\ phase \in {"dtb", "bios", "kernel"} /\ phase' \in {"bios", "kernel", "loaded"}
  BY DEF LoadDtb, LoadBios, LoadKernel, LoadImage, Loaded, ImagesInv, BoundsInv, ModeInv, StoreInv, Loads, runVars
<1>2. BoundsInv'
  BY LoadsBounds DEF ImagesInv
<1>3. DOMAIN dram' = 0 .. args.dram_size - 1
  BY <1>1, <1>2 DEF BoundsInv, StoreInv, Loads
<1>4. result' = 0 => result = 0
  <2>1. result' = result \/ (\E img, end : Loaded(img, end))
    BY DEF LoadDtb, LoadBios, LoadKernel, LoadImage
  <2> QED
    BY <1>1, <2>1, ZeroMeansOk DEF ImagesInv
<1>5. RomIn'
  BY <1>1, <1>4, SameSegments DEF ImagesInv, RomIn
<1>6. Roomy' => Roomy
  BY <1>1, <1>4 DEF Roomy
<1> QED
  BY <1>1, <1>3, <1>4, <1>5, <1>6, Segments DEF Roomy, ArgsInv

LEMMA DtbImages ==
  ASSUME ImagesInv, LoadDtb
  PROVE  RomIn' /\ FileIn' /\ DtbIn' /\ BiosIn' /\ KernelIn'
<1>1. phase' = "bios"
  BY DEF LoadDtb, LoadImage
<1>2. DtbIn'
  <2> SUFFICES ASSUME Roomy', Given(args.dtb) PROVE BinaryIntact(args.dtb, DtbSeg, dram')
    BY DramLoad, SameSegments DEF DtbIn
  <2>1. PICK end : /\ end = memory_load_binary(DtbSeg, args.dtb, dram)
                   /\ end.ok => BinaryIntact(args.dtb, DtbSeg, end.store)
    BY DramLoad, BinaryLoad, GivenFiles
  <2>2. Loaded("dtb", end) /\ dram' = end.store
    BY <2>1 DEF LoadDtb, LoadImage
  <2> QED
    BY <2>1, <2>2, DramLoad, ZeroMeansOk DEF ImagesInv, Roomy
<1> QED
  BY <1>1, <1>2, DramLoad DEF FileIn, BiosIn, KernelIn

LEMMA BiosImages ==
  ASSUME ImagesInv, LoadBios
  PROVE  RomIn' /\ FileIn' /\ DtbIn' /\ BiosIn' /\ KernelIn'
<1>1. phase' = "kernel" /\ phase = "bios"
  BY DEF LoadBios, LoadImage
<1>2. CASE ~Given(args.bios)
  <2>1. dram' = dram
    BY <1>2 DEF LoadBios, LoadImage
  <2>2. DtbIn'
    BY <1>1, <2>1, DramLoad, SameSegments DEF DtbIn, ImagesInv
  <2> QED
    BY <1>1, <1>2, <2>2, DramLoad DEF FileIn, BiosIn, KernelIn
<1>3. CASE Given(args.bios)
  <2>1. ASSUME Roomy'
        PROVE  ElfIntact(args.bios, RamSeg, dram') /\ Untouched(args.bios, RamSeg, DOMAIN dram, dram, dram')
    <3>1. PICK end : /\ end = memory_load_elf(RamSeg, args.bios, dram)
                     /\ end.ok => /\ ElfIntact(args.bios, RamSeg, end.store)
                                  /\ Untouched(args.bios, RamSeg, DOMAIN dram, dram, end.store)
      BY <1>3, <2>1, DramLoad, ElfLoad, GivenFiles
    <3>2. Loaded("bios", end) /\ dram' = end.store
      BY <1>3, <3>1 DEF LoadBios, LoadImage
    <3> QED
      BY <2>1, <3>1, <3>2, DramLoad, ZeroMeansOk DEF ImagesInv, Roomy
  <2>2. DtbIn'
    <3> SUFFICES ASSUME Roomy', Given(args.dtb), ~Reaches(args.bios, DtbStart) PROVE BinaryIntact(args.dtb, DtbSeg, dram')
      BY <1>3, DramLoad, SameSegments DEF DtbIn
    <3>1. BinaryIntact(args.dtb, DtbSeg, dram)
      BY <1>1, DramLoad DEF ImagesInv, DtbIn
    <3>2. DOMAIN dram' = DOMAIN dram /\ DOMAIN dram \subseteq Int /\ IsFile(args.dtb)
      BY DramLoad, GivenFiles DEF IsSegment
    <3> QED
      BY <2>1, <3>1, <3>2, BiosKeepsDtb
  <2>3. BiosIn'
    BY <2>1, DramLoad, SameSegments DEF BiosIn
  <2> QED
    BY <1>1, <2>2, <2>3, DramLoad DEF FileIn, KernelIn
<1> QED
  BY <1>2, <1>3

LEMMA KernelImages ==
  ASSUME ImagesInv, LoadKernel
  PROVE  RomIn' /\ FileIn' /\ DtbIn' /\ BiosIn' /\ KernelIn'
<1>1. phase' = "loaded" /\ phase = "kernel"
  BY DEF LoadKernel, LoadImage
<1>2. FileIn'
  BY DramLoad DEF FileIn
<1>3. CASE ~Given(args.kernel)
  <2>1. dram' = dram
    BY <1>3 DEF LoadKernel, LoadImage
  <2>2. DtbIn' /\ BiosIn'
    BY <1>1, <2>1, DramLoad, SameSegments DEF DtbIn, BiosIn, ImagesInv
  <2> QED
    BY <1>2, <1>3, <2>2, DramLoad DEF KernelIn
<1>4. CASE Given(args.kernel)
  <2>1. ASSUME Roomy'
        PROVE  BinaryIntact(args.kernel, KernelSeg, dram') /\ KernelAt(args.kernel, DOMAIN dram, dram, dram')
    <3>1. PICK end : /\ end = memory_load_binary(KernelSeg, args.kernel, dram)
                     /\ end.ok => /\ BinaryIntact(args.kernel, KernelSeg, end.store)
                                  /\ KernelAt(args.kernel, DOMAIN dram, dram, end.store)
      <4>1. IsSegment(KernelSeg, DOMAIN dram) /\ IsFile(args.kernel)
        BY <1>4, <2>1, DramLoad, GivenFiles
      <4>2. LET e == memory_load_binary(KernelSeg, args.kernel, dram)
            IN  e.ok => /\ BinaryIntact(args.kernel, KernelSeg, e.store) /\ args.kernel.size <= KernelSeg.size
                        /\ \A i \in DOMAIN dram :
                             i \notin KernelSeg.data .. KernelSeg.data + args.kernel.size - 1 => e.store[i] = dram[i]
        BY <4>1, BinaryLoad
      <4> QED
        BY <4>2 DEF KernelAt
    <3>2. Loaded("kernel", end) /\ dram' = end.store
      BY <1>4, <3>1 DEF LoadKernel, LoadImage
    <3> QED
      BY <2>1, <3>1, <3>2, DramLoad, ZeroMeansOk DEF ImagesInv, Roomy
  <2>2. DtbIn'
    <3> SUFFICES ASSUME Roomy', Given(args.dtb), ~(Given(args.bios) /\ Reaches(args.bios, DtbStart))
                 PROVE BinaryIntact(args.dtb, DtbSeg, dram')
      BY DramLoad, SameSegments DEF DtbIn
    <3>1. BinaryIntact(args.dtb, DtbSeg, dram)
      BY <1>1, DramLoad DEF ImagesInv, DtbIn
    <3>2. DOMAIN dram' = DOMAIN dram /\ IsFile(args.dtb) /\ IsFile(args.kernel)
      BY <1>4, DramLoad, GivenFiles
    <3> QED
      BY <2>1, <3>1, <3>2, KernelKeepsDtb
  <2>3. BiosIn'
    <3> SUFFICES ASSUME Roomy', Given(args.bios), ~Reaches(args.bios, KernelStart)
                 PROVE ElfIntact(args.bios, RamSeg, dram')
      BY <1>4, DramLoad, SameSegments DEF BiosIn
    <3>1. ElfIntact(args.bios, RamSeg, dram)
      BY <1>1, DramLoad DEF ImagesInv, BiosIn
    <3>2. DOMAIN dram' = DOMAIN dram /\ IsFile(args.kernel)
      BY <1>4, DramLoad, GivenFiles
    <3> QED
      BY <2>1, <3>1, <3>2, KernelKeepsBios
  <2>4. KernelIn'
    BY <2>1, DramLoad, SameSegments DEF KernelIn
  <2> QED
    BY <1>2, <2>2, <2>3, <2>4, DramLoad
<1> QED
  BY <1>3, <1>4

LEMMA ImagesStep == ImagesInv /\ [Next]_vars => ImagesInv'
<1> SUFFICES ASSUME ImagesInv, [Next]_vars PROVE ImagesInv'
  OBVIOUS
<1>1. BoundsInv' /\ ResultInv'
  BY BoundsStep, ResultStep DEF ImagesInv
<1>2. CASE Option \/ Positional
  <2>1. phase' \in {"parse", "memory", "exited"}
    BY <1>2 DEF Option, Positional, ImageOption, SizeOption, LimitOption, FlagOption, HelpOption, BadOption,
                Set, Quit, Exit
  <2> QED
    BY <1>1, <2>1 DEF ImagesInv, RomIn, FileIn, DtbIn, BiosIn, KernelIn
<1>3. CASE memory_init \/ device_init \/ BootFailed \/ TraceFailed \/ Finish
  <2>1. phase' \in {"devices", "direct", "bootrom", "exited"}
    BY <1>3 DEF memory_init, device_init, BootFailed, TraceFailed, Finish, Exit
  <2> QED
    BY <1>1, <2>1 DEF ImagesInv, RomIn, FileIn, DtbIn, BiosIn, KernelIn
<1>4. CASE LoadDirect \/ LoadBootrom \/ LoadDtb \/ LoadBios \/ LoadKernel
  BY <1>1, <1>4, DirectImages, RomImages, DtbImages, BiosImages, KernelImages DEF ImagesInv
<1>5. CASE Booted \/ ResetStub \/ Compute \/ Reboot \/ UNCHANGED vars
  <2>1. /\ args' = args /\ rom' = rom /\ dirty' = dirty /\ dram' = dram /\ result' = result
        /\ phase' = phase \/ (phase = "loaded" /\ phase' = "run")
    BY <1>5 DEF Booted, ResetStub, Compute, Reboot, vars, bootVars, runVars
  <2> QED
    BY <1>1, <2>1, MemoryKept DEF ImagesInv
<1>6. CASE \E addr \in StoreAddrs, size \in Sizes : Store(addr, size)
  <2>1. rom' = rom /\ (~dirty' => ~dirty /\ dram' = dram)
    BY <1>6, StoreBounds DEF ImagesInv
  <2>2. args' = args /\ result' = result /\ phase' = phase
    BY <1>6 DEF Store
  <2> QED
    BY <1>1, <2>1, <2>2, MemoryKept DEF ImagesInv
<1> QED
  BY <1>2, <1>3, <1>4, <1>5, <1>6 DEF Next, BootStep, GuestStep

(* What the guest finds when it starts, and the ROM as long as it runs, is *)
(* what the files say, for every file and every layout of the memory map.  *)
THEOREM BootImagesIntact == Spec => []ImagesIntact
<1>1. Init => ImagesInv
  BY BoundsStart, ResultStart DEF Init, ImagesInv, RomIn, FileIn, DtbIn, BiosIn, KernelIn
<1> QED
  BY <1>1, ImagesStep, ImagesInvIntact, PTL DEF Spec
=============================================================================
