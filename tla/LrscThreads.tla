---------------------------- MODULE LrscThreads ----------------------------
(***************************************************************************)
(* Threads of several address spaces that add to counters with LR/SC or    *)
(* AMO on the hart of Lrsc, interrupted anywhere.                          *)
(*                                                                         *)
(* The operating system is the environment: it performs an SC of its own   *)
(* before it returns to a thread, as Linux does, because the hart keeps    *)
(* the reservation over a trap.  A page may be write-protected until its   *)
(* first store faults (copy on write).                                     *)
(***************************************************************************)
EXTENDS Lrsc, FiniteSetsExt

CONSTANTS
  Threads,
  Amo,           \* threads that use AMOADD, the others LR and SC
  Space,         \* thread -> address space
  Frame,         \* address space -> the physical counter behind CounterVa
  CounterVa,     \* address of the counter, the same in every space
  KernelVa,      \* where the SC of the operating system goes
  Size,          \* access size
  Rounds,        \* bound: additions per thread
  MaxSwitches    \* bound: involuntary switches

ASSUME ThreadsAssumption ==
  /\ IsFiniteSet(Threads) /\ Amo \subseteq Threads /\ Size \in OpSizes
  /\ Rounds \in Nat /\ MaxSwitches \in Nat
  /\ Aligned(CounterVa, Size) /\ Aligned(KernelVa, Size)
  /\ Bytes(CounterVa, Size) \cap Bytes(KernelVa, Size) = {}

VARIABLES
  cur,        \* the running thread
  pc,         \* thread -> next instruction
  tmp,        \* thread -> the value LR read
  left,       \* thread -> additions to go
  mem,        \* frame -> counter
  cow,        \* frames that are write-protected
  switches    \* involuntary switches so far

threadVars == <<cur, pc, tmp, left, mem, cow, switches>>
vars == <<hartVars, threadVars>>

Frames == {Frame[Space[t]] : t \in Threads}
MyFrame(t) == Frame[Space[t]]

Init ==
  /\ HartInit
  /\ cur \in Threads
  /\ pc = [t \in Threads |-> IF t \in Amo THEN "amo" ELSE "lr"]
  /\ tmp = [t \in Threads |-> 0]
  /\ left = [t \in Threads |-> Rounds]
  /\ mem = [f \in Frames |-> 0]
  /\ cow \in SUBSET Frames
  /\ switches = 0

Running(t, i) == cur = t /\ left[t] > 0 /\ pc[t] = i
Fault(t) == MyFrame(t) \in cow

LoadReserved(t) ==
  /\ Running(t, "lr")
  /\ ExecLr(CounterVa, Size, FALSE)
  /\ tmp' = [tmp EXCEPT ![t] = mem[MyFrame(t)]]
  /\ pc' = [pc EXCEPT ![t] = "sc"]
  /\ UNCHANGED <<cur, left, mem, cow, switches>>

(* rd is 0 after a store and 1 after a miss; a store that faults traps     *)
(* before rd is written, with the reservation gone.                        *)
StoreConditional(t) ==
  /\ Running(t, "sc")
  /\ ExecSc(CounterVa, Size, Fault(t))
  /\ IF Hit(CounterVa, Size) /\ Fault(t)
     THEN pc' = [pc EXCEPT ![t] = "trap"] /\ UNCHANGED <<mem, left>>
     ELSE /\ mem' = IF ScStores(CounterVa, Size, Fault(t)) THEN [mem EXCEPT ![MyFrame(t)] = tmp[t] + 1] ELSE mem
          /\ left' = IF ScRd(CounterVa, Size) = 0 THEN [left EXCEPT ![t] = @ - 1] ELSE left
          /\ pc' = [pc EXCEPT ![t] = "lr"]
  /\ UNCHANGED <<cur, tmp, cow, switches>>

(* The load of an AMO is translated as a store, so that it traps before it *)
(* has done anything.                                                      *)
AmoAdd(t) ==
  /\ Running(t, "amo")
  /\ ExecOther
  /\ IF Fault(t)
     THEN pc' = [pc EXCEPT ![t] = "trap"] /\ UNCHANGED <<mem, left>>
     ELSE /\ mem' = [mem EXCEPT ![MyFrame(t)] = @ + 1]
          /\ left' = [left EXCEPT ![t] = @ - 1]
          /\ UNCHANGED pc
  /\ UNCHANGED <<cur, tmp, cow, switches>>

(* The handler makes the page writable and returns to the instruction that *)
(* faulted, by way of its own SC.                                          *)
PageFault(t) ==
  /\ Running(t, "trap")
  /\ cow' = cow \ {MyFrame(t)}
  /\ pc' = [pc EXCEPT ![t] = IF t \in Amo THEN "amo" ELSE "sc"]
  /\ ExecSc(KernelVa, Size, FALSE)
  /\ UNCHANGED <<cur, tmp, left, mem, switches>>

(* An interrupt between two instructions, and the return to any thread.    *)
Switch(u) ==
  /\ u # cur /\ left[cur] > 0 /\ pc[cur] # "trap" /\ switches < MaxSwitches
  /\ cur' = u /\ switches' = switches + 1
  /\ ExecSc(KernelVa, Size, FALSE)
  /\ UNCHANGED <<pc, tmp, left, mem, cow>>

(* A thread that is done gives the hart away.                              *)
Yield(u) ==
  /\ left[cur] = 0 /\ left[u] > 0
  /\ cur' = u
  /\ ExecSc(KernelVa, Size, FALSE)
  /\ UNCHANGED <<pc, tmp, left, mem, cow, switches>>

ThreadStep(t) == LoadReserved(t) \/ StoreConditional(t) \/ AmoAdd(t) \/ PageFault(t)

Next ==
  \/ \E t \in Threads : ThreadStep(t)
  \/ \E u \in Threads : Switch(u) \/ Yield(u)

(* The running thread makes its next step, and a finished one is replaced; *)
(* nothing forces an interrupt.                                            *)
Fairness == \A t \in Threads : WF_vars(ThreadStep(t)) /\ WF_vars(Yield(t))

Spec == Init /\ [][Next]_vars /\ Fairness

(* No addition is lost or made twice, whichever instruction a thread was   *)
(* interrupted at, whichever thread ran at the same virtual address in     *)
(* between and wherever its pages were protected (cpu.c 386-424).          *)
NoLostUpdate ==
  \A f \in Frames :
    LET made(t) == Rounds - left[t]
    IN  mem[f] = MapThenSumSet(made, {t \in Threads : MyFrame(t) = f})

(* Every thread finishes once the interrupts leave it alone between LR and *)
(* SC: a store that faults costs its reservation and not the progress      *)
(* (cpu.c 407-409).                                                        *)
AllFinish == <>(\A t \in Threads : left[t] = 0)
=============================================================================
