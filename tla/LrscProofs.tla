----------------------------- MODULE LrscProofs -----------------------------
(* Proofs about LR and SC: what an SC may store (Lrsc), and that threads   *)
(* lose no update (LrscThreads).                                           *)
EXTENDS LrscThreads, FiniteSetTheorems, WellFoundedInduction, TLAPS

-----------------------------------------------------------------------------
LEMMA SmallMod ==
  ASSUME NEW m \in Nat, NEW x \in Nat, x < m
  PROVE  x % m = x
  OBVIOUS

(* The bytes of an access that does not wrap.                              *)
LEMMA BytesAreInterval ==
  ASSUME VaMod \in Nat, NEW va \in Nat, NEW size \in Nat, va + size <= VaMod
  PROVE  Bytes(va, size) = va .. va + size - 1
<1>1. \A k \in 0 .. size - 1 : (va + k) % VaMod = va + k
  <2> SUFFICES ASSUME NEW k \in 0 .. size - 1 PROVE (va + k) % VaMod = va + k
    OBVIOUS
  <2>1. PICK x \in Nat : x = va + k /\ x < VaMod
    OBVIOUS
  <2> QED
    BY <2>1, SmallMod
<1>2. Bytes(va, size) = {va + k : k \in 0 .. size - 1}
  BY <1>1 DEF Bytes
<1>3. ASSUME NEW b \in va .. va + size - 1 PROVE \E k \in 0 .. size - 1 : b = va + k
  <2>1. b - va \in 0 .. size - 1 /\ b = va + (b - va)
    OBVIOUS
  <2> QED
    BY <2>1
<1> QED
  BY <1>2, <1>3

(* The end of a reservation minus the size of an SC, in unsigned           *)
(* arithmetic: the end 0 stands for the end of the address space.          *)
LEMMA EndMinusSize ==
  ASSUME VaMod \in Nat \ {0}, NEW va \in Nat, NEW s \in Nat \ {0}, NEW z \in Nat \ {0},
         va + s <= VaMod, z <= va + s
  PROVE  (((va + s) % VaMod) - z) % VaMod = va + s - z
<1>1. CASE va + s < VaMod
  <2>1. (va + s) % VaMod = va + s
    <3>1. PICK x \in Nat : x = va + s /\ x < VaMod
      BY <1>1
    <3> QED
      BY <3>1, SmallMod
  <2>2. PICK y \in Nat : y = va + s - z /\ y < VaMod
    BY <1>1
  <2>3. y % VaMod = y
    BY <2>2, SmallMod
  <2> QED
    BY <2>1, <2>2, <2>3
<1>2. CASE va + s = VaMod
  <2>1. (va + s) % VaMod = 0
    BY <1>2
  <2>2. (0 - z) % VaMod = VaMod - z
    <3>1. z <= VaMod /\ z > 0
      BY <1>2
    <3> QED
      BY <3>1
  <2> QED
    BY <1>2, <2>1, <2>2
<1> QED
  BY <1>1, <1>2

-----------------------------------------------------------------------------
(* A reservation is what the latest LR made it, at a place with room, and  *)
(* an SC that stores stays within it.                                      *)
Made(va, size) == RoomAt(va, size) /\ res = Reserve(va, size) /\ lr = Bytes(va, size)

ReservationInv ==
  /\ res.valid => \E va \in 0 .. VaMod - 1, size \in OpSizes : Made(va, size)
  /\ ScWithinReservation

LEMMA Sizes ==
  ASSUME NEW z \in OpSizes
  PROVE  VaMod \in Nat \ {0} /\ z \in Nat \ {0}
  BY LrscAssumption

LEMMA HartInitInv == HartInit => ReservationInv
  BY DEF HartInit, ReservationInv, ScWithinReservation, NoReservation, Quiet

LEMMA LrInv ==
  ASSUME ReservationInv, NEW va \in 0 .. VaMod - 1, NEW size \in OpSizes, NEW fault,
         Aligned(va, size) => RoomAt(va, size), ExecLr(va, size, fault)
  PROVE  ReservationInv'
<1>1. ScWithinReservation'
  BY DEF ExecLr, Quiet, ScWithinReservation
<1>2. CASE ~fault /\ Aligned(va, size)
  <2>1. Made(va, size)'
    BY <1>2 DEF ExecLr, Made, RoomAt
  <2> QED
    BY <1>1, <2>1 DEF ReservationInv
<1>3. CASE ~(~fault /\ Aligned(va, size))
  <2>1. res' = res /\ lr' = lr
    BY <1>3 DEF ExecLr
  <2> QED
    BY <1>1, <2>1 DEF ReservationInv, Made
<1> QED
  BY <1>2, <1>3

(* The comparison of EXEC_SC: a hit lies within the reservation.           *)
LEMMA HitWithin ==
  ASSUME NEW start \in 0 .. VaMod - 1, NEW s \in OpSizes, Made(start, s),
         NEW va \in 0 .. VaMod - 1, NEW z \in OpSizes, Hit(va, z)
  PROVE  Bytes(va, z) \subseteq lr
<1>1. VaMod \in Nat \ {0} /\ s \in Nat \ {0} /\ z \in Nat \ {0}
  BY Sizes
<1>2. start + s <= VaMod /\ z <= start + s /\ lr = Bytes(start, s)
  BY DEF Made, RoomAt
<1>3. res.addr_start = start /\ res.addr_end = (start + s) % VaMod
  BY DEF Made, Reserve
<1>4. (((start + s) % VaMod) - z) % VaMod = start + s - z
  BY <1>1, <1>2, EndMinusSize
<1>5. start <= va /\ va + z <= start + s
  BY <1>1, <1>3, <1>4 DEF Hit
<1>6. Bytes(start, s) = start .. start + s - 1
  BY <1>1, <1>2, BytesAreInterval
<1>7. Bytes(va, z) = va .. va + z - 1
  BY <1>1, <1>2, <1>5, BytesAreInterval
<1> QED
  BY <1>1, <1>2, <1>5, <1>6, <1>7

LEMMA ScInv ==
  ASSUME ReservationInv, NEW va \in 0 .. VaMod - 1, NEW size \in OpSizes, NEW fault, ExecSc(va, size, fault)
  PROVE  ReservationInv'
<1>1. ScWithinReservation'
  <2> SUFFICES ASSUME Hit(va, size) PROVE Bytes(va, size) \subseteq lr
    BY DEF ExecSc, ScStores, ScWithinReservation
  <2>1. PICK start \in 0 .. VaMod - 1, s \in OpSizes : Made(start, s)
    BY DEF ReservationInv, Hit
  <2> QED
    BY <2>1, HitWithin
<1>2. CASE Aligned(va, size)
  <2>1. ~res'.valid
    BY <1>2 DEF ExecSc, AfterSc
  <2> QED
    BY <1>1, <2>1 DEF ReservationInv
<1>3. CASE ~Aligned(va, size)
  <2>1. res' = res /\ lr' = lr
    BY <1>3 DEF ExecSc
  <2> QED
    BY <1>1, <2>1 DEF ReservationInv, Made
<1> QED
  BY <1>2, <1>3

LEMMA OtherInv ==
  ASSUME ReservationInv, ExecOther \/ CpuInit \/ UNCHANGED hartVars
  PROVE  ReservationInv'
  BY DEF ReservationInv, Made, ScWithinReservation, ExecOther, CpuInit, NoReservation, Quiet, hartVars

(* For every guest that stays away from address 0, every address width and *)
(* every pair of access sizes: an SC that stores writes only bytes that    *)
(* the latest LR read, with no SC between them (EXEC_LR, EXEC_SC).         *)
THEOREM LrscWithinReservation ==
  ASSUME AwayFromZero
  PROVE  AnySpec => []ScWithinReservation
<1>1. ASSUME ReservationInv, [AnyNext]_hartVars PROVE ReservationInv'
  <2>1. ASSUME NEW va \in Vas, NEW size \in OpSizes, NEW fault \in BOOLEAN, ExecLr(va, size, fault)
        PROVE  ReservationInv'
    BY <1>1, <2>1, LrInv, LrscAssumption DEF AwayFromZero
  <2>2. ASSUME NEW va \in Vas, NEW size \in OpSizes, NEW fault \in BOOLEAN, ExecSc(va, size, fault)
        PROVE  ReservationInv'
    BY <1>1, <2>2, ScInv, LrscAssumption
  <2> QED
    BY <1>1, <2>1, <2>2, OtherInv DEF AnyNext
<1>2. ReservationInv => ScWithinReservation
  BY DEF ReservationInv
<1> QED
  BY <1>1, <1>2, HartInitInv, PTL DEF AnySpec

-----------------------------------------------------------------------------
(* Sums over sets of threads.  MapThenSumSet walks a set by CHOOSE; Iter   *)
(* is the function its definition chooses, and the lemmas show that it     *)
(* exists and how it changes with one thread's count.                      *)
Chosen(s) == CHOOSE y \in s : TRUE

IsIter(it, l, D) ==
  it = [s \in D |-> IF s = {} THEN 0 ELSE (Rounds - l[Chosen(s)]) + it[s \ {Chosen(s)}]]

Iter(l, S) == CHOOSE it : IsIter(it, l, SUBSET S)

Sum(l, S) == Iter(l, S)[S]

LEMMA LeastNat ==
  ASSUME NEW T, T \subseteq Nat, T # {}
  PROVE  \E n \in T : \A m \in T : ~(m < n)
<1>1. \E n \in T : \A m \in T : ~(<<m, n>> \in OpToRel(<, Nat))
  BY WFMin, NatLessThanWellFounded
<1> QED
  BY <1>1 DEF OpToRel

(* Without its chosen element a set is smaller.                            *)
LEMMA Shrinks ==
  ASSUME NEW S, IsFiniteSet(S), NEW s \in SUBSET S, s # {}
  PROVE  /\ Chosen(s) \in s /\ s \ {Chosen(s)} \in SUBSET S
         /\ Cardinality(s) \in Nat
         /\ Cardinality(s \ {Chosen(s)}) = Cardinality(s) - 1
         /\ Cardinality(s) - 1 \in Nat
<1>1. Chosen(s) \in s
  BY DEF Chosen
<1>2. IsFiniteSet(s)
  BY FS_Subset
<1>3. Cardinality(s) \in Nat /\ Cardinality(s \ {Chosen(s)}) \in Nat
  BY <1>2, FS_CardinalityType, FS_RemoveElement
<1>4. Cardinality(s \ {Chosen(s)}) = Cardinality(s) - 1
  BY <1>1, <1>2, FS_RemoveElement
<1> QED
  BY <1>1, <1>3, <1>4

LEMMA IterExists ==
  ASSUME NEW S, IsFiniteSet(S), NEW l
  PROVE  IsIter(Iter(l, S), l, SUBSET S)
<1> DEFINE Upto(n) == {s \in SUBSET S : Cardinality(s) <= n}
           Good(n) == \E it : IsIter(it, l, Upto(n))
<1>1. ASSUME NEW s \in SUBSET S PROVE Cardinality(s) \in Nat /\ (Cardinality(s) = 0 <=> s = {})
  <2>1. IsFiniteSet(s)
    BY FS_Subset
  <2> QED
    BY <2>1, FS_CardinalityType, FS_EmptySet
<1>2. Good(0)
  <2>1. \A s \in Upto(0) : s = {}
    BY <1>1
  <2>2. IsIter([s \in Upto(0) |-> 0], l, Upto(0))
    BY <2>1 DEF IsIter
  <2> QED
    BY <2>2
<1>3. ASSUME NEW n \in Nat, Good(n) PROVE Good(n + 1)
  <2>1. PICK it : IsIter(it, l, Upto(n))
    BY <1>3
  <2> DEFINE next(s) == IF s = {} THEN 0 ELSE (Rounds - l[Chosen(s)]) + it[s \ {Chosen(s)}]
             big == [s \in Upto(n + 1) |-> next(s)]
  <2>2. \A s \in Upto(n) : it[s] = next(s)
    BY <2>1 DEF IsIter
  <2>3. ASSUME NEW s \in Upto(n + 1), s # {} PROVE s \ {Chosen(s)} \in Upto(n)
    BY <2>3, Shrinks
  <2>4. \A s \in Upto(n) : s \in Upto(n + 1)
    BY <1>1
  <2>5. \A s \in Upto(n + 1) : s # {} => big[s \ {Chosen(s)}] = it[s \ {Chosen(s)}]
    BY <2>2, <2>3, <2>4
  <2>6. big = [s \in Upto(n + 1) |-> IF s = {} THEN 0 ELSE (Rounds - l[Chosen(s)]) + big[s \ {Chosen(s)}]]
    BY <2>5
  <2>7. IsIter(big, l, Upto(n + 1))
    BY <2>6 DEF IsIter
  <2> QED
    BY <2>7
<1>4. \A n \in Nat : Good(n)
  <2> DEFINE Bad == {n \in Nat : ~Good(n)}
  <2> HIDE DEF Good
  <2> SUFFICES ASSUME Bad # {} PROVE FALSE
    OBVIOUS
  <2>1. PICK n \in Bad : \A m \in Bad : ~(m < n)
    BY LeastNat
  <2>2. n # 0 /\ n \in Nat
    BY <1>2
  <2>3. n - 1 \in Nat /\ n - 1 \notin Bad
    BY <2>1, <2>2
  <2>4. Good(n - 1)
    BY <2>3
  <2>5. Good((n - 1) + 1)
    BY <1>3, <2>3, <2>4
  <2> QED
    BY <2>2, <2>5
<1>5. Upto(Cardinality(S)) = SUBSET S
  BY FS_Subset
<1>6. Cardinality(S) \in Nat
  BY FS_CardinalityType
<1>7. \E it : IsIter(it, l, SUBSET S)
  BY <1>4, <1>5, <1>6
<1> QED
  BY <1>7 DEF Iter

LEMMA IterAt ==
  ASSUME NEW S, IsFiniteSet(S), NEW l, NEW s \in SUBSET S
  PROVE  Iter(l, S)[s] = IF s = {} THEN 0 ELSE (Rounds - l[Chosen(s)]) + Iter(l, S)[s \ {Chosen(s)}]
<1>1. PICK it : it = Iter(l, S) /\ IsIter(it, l, SUBSET S)
  BY IterExists
<1>2. it[s] = IF s = {} THEN 0 ELSE (Rounds - l[Chosen(s)]) + it[s \ {Chosen(s)}]
  BY <1>1 DEF IsIter
<1> QED
  BY <1>1, <1>2

(* The sum when nobody has done anything yet.                              *)
LEMMA SumZero ==
  ASSUME NEW S, IsFiniteSet(S), NEW l, Rounds \in Nat, \A t \in S : l[t] = Rounds
  PROVE  Sum(l, S) = 0
<1> DEFINE Bad == {n \in Nat : \E s \in SUBSET S : Cardinality(s) = n /\ Iter(l, S)[s] # 0}
<1>1. Bad = {}
  <2> SUFFICES ASSUME Bad # {} PROVE FALSE
    OBVIOUS
  <2>1. PICK n \in Bad : \A m \in Bad : ~(m < n)
    BY LeastNat
  <2>2. PICK s \in SUBSET S : Cardinality(s) = n /\ Iter(l, S)[s] # 0
    BY <2>1
  <2>3. s # {} /\ Iter(l, S)[s] = (Rounds - l[Chosen(s)]) + Iter(l, S)[s \ {Chosen(s)}]
    BY <2>2, IterAt
  <2>4. /\ Chosen(s) \in s /\ s \ {Chosen(s)} \in SUBSET S
        /\ Cardinality(s \ {Chosen(s)}) = n - 1 /\ n - 1 \in Nat
    BY <2>2, <2>3, Shrinks
  <2>5. Iter(l, S)[s \ {Chosen(s)}] = 0
    BY <2>1, <2>4
  <2> QED
    BY <2>2, <2>3, <2>4, <2>5
<1>2. Cardinality(S) \in Nat
  BY FS_CardinalityType
<1> QED
  BY <1>1, <1>2 DEF Sum

(* The sum when one thread has done one more.                              *)
LEMMA SumStep ==
  ASSUME NEW S, IsFiniteSet(S), Rounds \in Nat, NEW l, NEW k, NEW t,
         \A u \in S : l[u] \in Int /\ k[u] = IF u = t THEN l[u] - 1 ELSE l[u]
  PROVE  Sum(l, S) \in Int /\ Sum(k, S) = IF t \in S THEN Sum(l, S) + 1 ELSE Sum(l, S)
<1> DEFINE Ok(s) == /\ Iter(l, S)[s] \in Int
                    /\ Iter(k, S)[s] = IF t \in s THEN Iter(l, S)[s] + 1 ELSE Iter(l, S)[s]
           Bad == {n \in Nat : \E s \in SUBSET S : Cardinality(s) = n /\ ~Ok(s)}
<1>1. Bad = {}
  <2> SUFFICES ASSUME Bad # {} PROVE FALSE
    OBVIOUS
  <2>1. PICK n \in Bad : \A m \in Bad : ~(m < n)
    BY LeastNat
  <2>2. PICK s \in SUBSET S : Cardinality(s) = n /\ ~Ok(s)
    BY <2>1
  <2>3. s # {}
    <3> SUFFICES ASSUME s = {} PROVE FALSE
      OBVIOUS
    <3>1. Iter(l, S)[s] = 0 /\ Iter(k, S)[s] = 0
      BY IterAt
    <3> QED
      BY <2>2, <3>1
  <2>4. /\ Iter(l, S)[s] = (Rounds - l[Chosen(s)]) + Iter(l, S)[s \ {Chosen(s)}]
        /\ Iter(k, S)[s] = (Rounds - k[Chosen(s)]) + Iter(k, S)[s \ {Chosen(s)}]
    BY <2>3, IterAt
  <2>5. /\ Chosen(s) \in s /\ s \ {Chosen(s)} \in SUBSET S
        /\ Cardinality(s \ {Chosen(s)}) = n - 1 /\ n - 1 \in Nat
    BY <2>2, <2>3, Shrinks
  <2>6. Ok(s \ {Chosen(s)})
    BY <2>1, <2>5
  <2>7. Chosen(s) \in S /\ l[Chosen(s)] \in Int
    BY <2>5
  <2>8. CASE Chosen(s) = t
    BY <2>2, <2>4, <2>5, <2>6, <2>7, <2>8
  <2>9. CASE Chosen(s) # t
    BY <2>2, <2>4, <2>5, <2>6, <2>7, <2>9
  <2> QED
    BY <2>8, <2>9
<1>2. Cardinality(S) \in Nat
  BY FS_CardinalityType
<1>3. Ok(S)
  BY <1>1, <1>2
<1> QED
  BY <1>3 DEF Sum

LEMMA SumIsSum ==
  ASSUME NEW l, NEW S
  PROVE  MapThenSumSet(LAMBDA t : Rounds - l[t], S) = Sum(l, S)
  BY Zenon DEF MapThenSumSet, MapThenFoldSet, Sum, Iter, IsIter, Chosen

-----------------------------------------------------------------------------
(* While a reservation is held, its holder is the running thread, between  *)
(* its LR and its SC, and has read the current value: everything that      *)
(* could come between ends the reservation.                                *)
Of(f) == {t \in Threads : MyFrame(t) = f}

ThreadsType ==
  /\ cur \in Threads
  /\ pc \in [Threads -> {"lr", "sc", "amo", "trap"}]
  /\ left \in [Threads -> Int]
  /\ mem \in [Frames -> Int]
  /\ tmp \in [Threads -> Int]

HolderRead == res.valid => pc[cur] = "sc" /\ tmp[cur] = mem[MyFrame(cur)]

Counted == \A f \in Frames : mem[f] = Sum(left, Of(f))

ThreadsInv == ThreadsType /\ HolderRead /\ Counted

LEMMA CountedIsNoLostUpdate == Counted <=> NoLostUpdate
<1>1. \A f \in Frames : MapThenSumSet(LAMBDA t : Rounds - left[t], Of(f)) = Sum(left, Of(f))
  BY SumIsSum
<1> QED
  BY <1>1 DEF Counted, NoLostUpdate, Of

LEMMA FrameOf == ASSUME NEW t \in Threads PROVE MyFrame(t) \in Frames /\ t \in Of(MyFrame(t))
  BY DEF MyFrame, Frames, Of

LEMMA OfFinite == ASSUME NEW f PROVE IsFiniteSet(Of(f)) /\ Of(f) \subseteq Threads
  BY ThreadsAssumption, FS_Subset DEF Of

(* One addition in memory for one that a thread counts as made.            *)
LEMMA OneMore ==
  ASSUME ThreadsType, Counted, NEW t \in Threads,
         mem' = [mem EXCEPT ![MyFrame(t)] = mem[MyFrame(t)] + 1], left' = [left EXCEPT ![t] = left[t] - 1]
  PROVE  Counted'
<1> SUFFICES ASSUME NEW f \in Frames PROVE mem'[f] = Sum(left', Of(f))
  BY DEF Counted, Frames, Of, MyFrame
<1>1. \A u \in Of(f) : left[u] \in Int /\ left'[u] = IF u = t THEN left[u] - 1 ELSE left[u]
  BY OfFinite DEF ThreadsType
<1>2. Sum(left, Of(f)) \in Int /\ Sum(left', Of(f)) = IF t \in Of(f) THEN Sum(left, Of(f)) + 1 ELSE Sum(left, Of(f))
  <2>1. PICK l : l = left
    OBVIOUS
  <2>2. PICK k : k = left'
    OBVIOUS
  <2>3. PICK T : T = Of(f)
    OBVIOUS
  <2>4. IsFiniteSet(T)
    BY <2>3, OfFinite
  <2>5. \A u \in T : l[u] \in Int /\ k[u] = IF u = t THEN l[u] - 1 ELSE l[u]
    BY <1>1, <2>1, <2>2, <2>3
  <2>6. Rounds \in Nat
    BY ThreadsAssumption
  <2>7. Sum(l, T) \in Int /\ Sum(k, T) = IF t \in T THEN Sum(l, T) + 1 ELSE Sum(l, T)
    BY <2>4, <2>5, <2>6, SumStep
  <2> QED
    BY <2>1, <2>2, <2>3, <2>7
<1>3. mem[f] = Sum(left, Of(f))
  BY DEF Counted
<1>4. t \in Of(f) <=> MyFrame(t) = f
  BY DEF Of
<1> QED
  BY <1>2, <1>3, <1>4, FrameOf DEF ThreadsType

LEMMA SameCount ==
  ASSUME Counted, mem' = mem, left' = left
  PROVE  Counted'
  BY DEF Counted, Frames, Of, MyFrame

(* An SC of the operating system ends every reservation.                   *)
LEMMA KernelSc ==
  ASSUME ExecSc(KernelVa, Size, FALSE)
  PROVE  ~res'.valid
  BY ThreadsAssumption DEF ExecSc, AfterSc

LEMMA ThreadsInitInv == Init => ThreadsInv
<1> SUFFICES ASSUME Init PROVE ThreadsInv
  OBVIOUS
<1>1. ThreadsType
  BY ThreadsAssumption DEF Init, ThreadsType
<1>2. HolderRead
  BY DEF Init, HartInit, NoReservation, HolderRead
<1>3. Counted
  BY SumZero, OfFinite, ThreadsAssumption DEF Init, Counted
<1> QED
  BY <1>1, <1>2, <1>3 DEF ThreadsInv

LEMMA ScStepInv ==
  ASSUME ThreadsInv, NEW t \in Threads, StoreConditional(t)
  PROVE  ThreadsInv'
<1>1. ~res'.valid
  BY ThreadsAssumption DEF StoreConditional, ExecSc, AfterSc
<1>2. cur' = cur /\ tmp' = tmp /\ cur = t
  BY DEF StoreConditional, Running
<1>3. CASE Hit(CounterVa, Size) /\ Fault(t)
  <2>1. mem' = mem /\ left' = left /\ pc' = [pc EXCEPT ![t] = "trap"]
    BY <1>3 DEF StoreConditional
  <2> QED
    BY <1>1, <1>2, <2>1, SameCount DEF ThreadsInv, ThreadsType, HolderRead
<1>4. CASE Hit(CounterVa, Size) /\ ~Fault(t)
  <2>1. ScStores(CounterVa, Size, Fault(t)) /\ ScRd(CounterVa, Size) = 0
    BY <1>4, ThreadsAssumption DEF ScStores, ScRd
  <2>2. tmp[t] = mem[MyFrame(t)]
    BY <1>2, <1>4 DEF Hit, ThreadsInv, HolderRead
  <2>3. mem' = [mem EXCEPT ![MyFrame(t)] = mem[MyFrame(t)] + 1] /\ left' = [left EXCEPT ![t] = left[t] - 1]
    BY <1>4, <2>1, <2>2 DEF StoreConditional
  <2>4. pc' = [pc EXCEPT ![t] = "lr"]
    BY <1>4 DEF StoreConditional
  <2>5. ThreadsType'
    BY <1>2, <2>3, <2>4, FrameOf DEF ThreadsInv, ThreadsType, Frames
  <2> QED
    BY <1>1, <2>3, <2>5, OneMore DEF ThreadsInv, HolderRead
<1>5. CASE ~Hit(CounterVa, Size)
  <2>1. ~ScStores(CounterVa, Size, Fault(t)) /\ ScRd(CounterVa, Size) = 1
    BY <1>5 DEF ScStores, ScRd
  <2>2. mem' = mem /\ left' = left /\ pc' = [pc EXCEPT ![t] = "lr"]
    BY <1>5, <2>1 DEF StoreConditional
  <2> QED
    BY <1>1, <1>2, <2>2, SameCount DEF ThreadsInv, ThreadsType, HolderRead
<1> QED
  BY <1>3, <1>4, <1>5

LEMMA LrStepInv ==
  ASSUME ThreadsInv, NEW t \in Threads, LoadReserved(t)
  PROVE  ThreadsInv'
<1>1. /\ cur' = cur /\ cur = t /\ mem' = mem /\ left' = left
      /\ tmp' = [tmp EXCEPT ![t] = mem[MyFrame(t)]] /\ pc' = [pc EXCEPT ![t] = "sc"]
  BY DEF LoadReserved, Running
<1>2. ThreadsType' /\ HolderRead'
  BY <1>1, FrameOf DEF ThreadsInv, ThreadsType, HolderRead, MyFrame, Frames
<1> QED
  BY <1>1, <1>2, SameCount DEF ThreadsInv

LEMMA AmoStepInv ==
  ASSUME ThreadsInv, NEW t \in Threads, AmoAdd(t)
  PROVE  ThreadsInv'
<1>1. cur' = cur /\ cur = t /\ tmp' = tmp /\ pc[t] = "amo" /\ res' = res
  BY DEF AmoAdd, Running, ExecOther
<1>2. HolderRead'
  BY <1>1 DEF ThreadsInv, HolderRead
<1>3. CASE Fault(t)
  <2>1. mem' = mem /\ left' = left /\ pc' = [pc EXCEPT ![t] = "trap"]
    BY <1>3 DEF AmoAdd
  <2> QED
    BY <1>1, <1>2, <2>1, SameCount DEF ThreadsInv, ThreadsType
<1>4. CASE ~Fault(t)
  <2>1. /\ mem' = [mem EXCEPT ![MyFrame(t)] = mem[MyFrame(t)] + 1]
        /\ left' = [left EXCEPT ![t] = left[t] - 1] /\ pc' = pc
    BY <1>4 DEF AmoAdd
  <2>2. ThreadsType'
    BY <1>1, <2>1, FrameOf DEF ThreadsInv, ThreadsType, Frames
  <2> QED
    BY <1>2, <2>1, <2>2, OneMore DEF ThreadsInv
<1> QED
  BY <1>3, <1>4

LEMMA KernelStepInv ==
  ASSUME ThreadsInv, NEW t \in Threads, PageFault(t) \/ Switch(t) \/ Yield(t)
  PROVE  ThreadsInv'
<1>1. ~res'.valid
  BY KernelSc DEF PageFault, Switch, Yield
<1>2. mem' = mem /\ left' = left /\ tmp' = tmp /\ cur' \in Threads
  BY DEF PageFault, Switch, Yield, ThreadsInv, ThreadsType
<1>3. pc' \in [Threads -> {"lr", "sc", "amo", "trap"}]
  BY DEF PageFault, Switch, Yield, ThreadsInv, ThreadsType
<1> QED
  BY <1>1, <1>2, <1>3, SameCount DEF ThreadsInv, ThreadsType, HolderRead, Frames

LEMMA ThreadsStepInv == ThreadsInv /\ [Next]_vars => ThreadsInv'
<1> SUFFICES ASSUME ThreadsInv, [Next]_vars PROVE ThreadsInv'
  OBVIOUS
<1>1. CASE UNCHANGED vars
  <2>1. UNCHANGED <<cur, pc, tmp, left, mem, res>>
    BY <1>1 DEF vars, threadVars, hartVars
  <2> QED
    BY <2>1, SameCount DEF ThreadsInv, ThreadsType, HolderRead, Frames, MyFrame
<1> QED
  BY <1>1, LrStepInv, ScStepInv, AmoStepInv, KernelStepInv DEF Next, ThreadStep

(* Any number of threads in any address spaces, any number of rounds, any  *)
(* interleaving: no addition made with LR/SC or AMO is lost or made twice  *)
(* (EXEC_SC clears before it stores, EXEC_AMO is one step).                *)
THEOREM ThreadsNoLostUpdate == Spec => []NoLostUpdate
<1>1. ThreadsInv => NoLostUpdate
  BY CountedIsNoLostUpdate DEF ThreadsInv
<1> QED
  BY <1>1, ThreadsInitInv, ThreadsStepInv, PTL DEF Spec
=============================================================================
