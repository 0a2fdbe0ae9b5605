---------------------------- MODULE DeviceProofs ----------------------------
(* Proofs about the devices and the loop that runs them.  The execution    *)
(* loop of module Machine: a reboot is a power-on.  The UART of module     *)
(* Uart16550: the ring is the bounded queue of RxQueue, and waiting        *)
(* characters raise the interrupt level.  The console that polls it: lines *)
(* are returned as they were typed.                                        *)
EXTENDS Console, Machine, SequenceTheorems, FiniteSetTheorems, TLAPS

(* What the loop maintains: registers of the right kind, and a reset cause *)
(* that is recorded before the reboot it explains.                         *)
TypeOK ==
  /\ turn \in {"hart", "exec", "stopped"}
  /\ wfi \in BOOLEAN /\ poweroff \in BOOLEAN /\ reboot \in BOOLEAN
  /\ msip \in {0, 1} /\ mtime \in Times /\ mtimecmp \in Times /\ left \in Nat

CauseKnown == reboot => reset_cause = "REBOOT"

MachineInv == TypeOK /\ CauseKnown

-----------------------------------------------------------------------------
(* What the clock makes of the nanoseconds that passed is a register value *)
(* and a rest (clint_mtime_tick).                                          *)
LEMMA TickType ==
  ASSUME NEW base \in Times, NEW ns \in Nat
  PROVE  (base + ns \div TickNs) % (TimeMax + 1) \in Times /\ ns % TickNs \in Nat
<1>1. TickNs \in Nat \ {0} /\ TimeMax \in Nat
  BY MachineAssumption
<1>2. ns \div TickNs \in Nat /\ ns % TickNs \in Nat
  BY <1>1
<1>3. base \in Nat
  BY <1>1 DEF Times
<1>4. PICK t \in Nat : t = base + ns \div TickNs
  BY <1>2, <1>3
<1>5. t % (TimeMax + 1) \in 0 .. TimeMax
  BY <1>1
<1> QED
  BY <1>2, <1>4, <1>5 DEF Times

LEMMA InitInv == Init => MachineInv
<1>1. TimeMax \in Nat \ {0}
  BY MachineAssumption
<1> SUFFICES ASSUME Init PROVE MachineInv
  OBVIOUS
<1>2. turn = "hart" /\ lines = {} /\ wfi = FALSE /\ poweroff = FALSE /\ reboot = FALSE
  BY DEF Init, PowerOn
<1>3. msip = 0 /\ mtime = 0 /\ mtimecmp = TimeMax /\ left = 0
  BY DEF Init, PowerOn
<1>4. TypeOK
  <2>1. wfi \in BOOLEAN /\ poweroff \in BOOLEAN /\ reboot \in BOOLEAN
    BY <1>2, Zenon
  <2>2. msip \in {0, 1} /\ mtime \in Times /\ mtimecmp \in Times /\ left \in Nat
    BY <1>1, <1>3 DEF Times
  <2> QED
    BY <1>2, <2>1, <2>2, Zenon DEF TypeOK
<1>5. CauseKnown
  BY <1>2 DEF CauseKnown
<1> QED
  BY <1>4, <1>5 DEF MachineInv

(* An instruction of the hart.                                             *)
LEMMA HartStepInv ==
  ASSUME MachineInv,
         Sleep \/ Wfi \/ (\E t \in Times, b \in {0, 1} : Store(t, b)) \/ (\E cmd \in {1, 2} : Command(cmd))
  PROVE  MachineInv'
<1>1. turn' = "exec"
  BY DEF Sleep, Wfi, Store, Command, HartTurn
<1>3. wfi' \in BOOLEAN
  <2>1. wfi' = TRUE \/ wfi' = FALSE
    BY DEF Sleep, Wfi, Store, Command
  <2> QED
    BY <2>1, Zenon
<1>4. msip' \in {0, 1} /\ mtime' \in Times /\ mtimecmp' \in Times /\ left' \in Nat
  BY DEF MachineInv, TypeOK, Sleep, Wfi, Store, Command, WriteMsip, WriteMtimecmp, WriteMtime, NoWrite,
         syscon_write, clintVars
<1>5. poweroff' \in BOOLEAN /\ reboot' \in BOOLEAN /\ CauseKnown'
  <2>1. CASE UNCHANGED sysconVars
    BY <2>1, Zenon DEF MachineInv, TypeOK, CauseKnown, sysconVars
  <2>2. CASE \E cmd \in {1, 2} : Command(cmd)
    <3>1. \/ poweroff' = TRUE /\ reboot' = reboot /\ reset_cause' = reset_cause
          \/ reboot' = TRUE /\ reset_cause' = "REBOOT" /\ poweroff' = poweroff
      BY <2>2, Zenon DEF Command, syscon_write
    <3>2. poweroff' \in BOOLEAN /\ reboot' \in BOOLEAN
      BY <3>1, Zenon DEF MachineInv, TypeOK
    <3>3. CauseKnown'
      BY <3>1, Zenon DEF MachineInv, CauseKnown
    <3> QED
      BY <3>2, <3>3
  <2>3. (\E cmd \in {1, 2} : Command(cmd)) \/ UNCHANGED sysconVars
    BY DEF Sleep, Wfi, Store, WriteMsip, WriteMtimecmp, WriteMtime, NoWrite
  <2> QED
    BY <2>1, <2>2, <2>3
<1> QED
  BY <1>1, <1>3, <1>4, <1>5, Zenon DEF MachineInv, TypeOK

(* What device_reset leaves of the CLINT are register values.              *)
LEMMA BootedTypes ==
  ASSUME MachineInv
  PROVE  BootedTime \in Times /\ BootedCmp \in Times /\ BootedMsip \in {0, 1}
BY MachineAssumption DEF MachineInv, TypeOK, BootedTime, BootedCmp, BootedMsip, Times

(* The rest of an iteration, one that goes on or one that ends the loop.   *)
LEMMA RebootedInv ==
  ASSUME MachineInv, Rebooted, turn' \in {"hart", "stopped"}, mtime' \in Times, left' \in Nat
  PROVE  MachineInv'
<1>1. wfi' \in BOOLEAN
  BY Zenon DEF Rebooted
<1>2. mtimecmp' \in Times /\ msip' \in {0, 1}
  BY BootedTypes DEF Rebooted
<1>3. reboot' = FALSE /\ poweroff' = FALSE
  BY DEF Rebooted
<1>4. TypeOK'
  BY <1>1, <1>2, <1>3 DEF TypeOK
<1>5. CauseKnown'
  BY <1>3 DEF CauseKnown
<1> QED
  BY <1>4, <1>5 DEF MachineInv

LEMMA IterateInv ==
  ASSUME MachineInv, NEW d \in Advances, Iterate(d)
  PROVE  MachineInv'
<1>1. left + d \in Nat
  BY MachineAssumption DEF MachineInv, TypeOK
<1>2. mtime' \in Times /\ left' \in Nat
  BY <1>1, BootedTypes, TickType DEF Iterate, clint_mtime_tick
<1> QED
  BY <1>2, RebootedInv DEF Iterate

LEMMA StopBeforeTickInv ==
  ASSUME MachineInv, NEW why, StopBeforeTick(why)
  PROVE  MachineInv'
<1>1. mtime' \in Times /\ left' \in Nat
  BY BootedTypes DEF StopBeforeTick, MachineInv, TypeOK
<1> QED
  BY <1>1, RebootedInv DEF StopBeforeTick, Stop

LEMMA StepInv == MachineInv /\ [Next]_vars => MachineInv'
<1> SUFFICES ASSUME MachineInv, [Next]_vars PROVE MachineInv'
  OBVIOUS
<1>1. CASE Poweroff
  BY <1>1 DEF Poweroff, Stop, MachineInv, TypeOK, CauseKnown, clintVars, sysconVars
<1>2. CASE Timeout \/ DeviceError
  BY <1>2, StopBeforeTickInv DEF Timeout, DeviceError
<1>3. CASE UNCHANGED vars
  BY <1>3 DEF vars, MachineInv, TypeOK, CauseKnown
<1> QED
  BY <1>1, <1>2, <1>3, HartStepInv, IterateInv DEF Next, Stopped

(* A reboot leaves a machine that is as at power-on but for its cause,     *)
(* whatever was pending when the command was written (the reboot branch of *)
(* cpu_exec, clint_reset, syscon_reset).                                   *)
THEOREM MachineRebootIsPowerOn == Spec => RebootIsPowerOn
<1> DEFINE Down == "msip" \notin lines' /\ ("mtip" \in lines' => mtime' = TimeMax)
           Reboot == reboot /\ ~poweroff /\ turn = "exec" =>
                       /\ PowerOn' /\ reset_cause' = "REBOOT"
                       /\ "msip" \notin lines' /\ ("mtip" \in lines' => mtime' = TimeMax)
<1>1. ASSUME MachineInv, [Next]_vars PROVE [Reboot]_vars
  <2> SUFFICES ASSUME Next, ~UNCHANGED vars, reboot, ~poweroff, turn = "exec"
               PROVE  PowerOn' /\ reset_cause' = "REBOOT" /\ Down
    BY <1>1
  <2>1. (\E d \in Advances : Iterate(d)) \/ (\E why : StopBeforeTick(why))
    BY DEF Next, Sleep, Wfi, Store, Command, HartTurn, Poweroff, Timeout, DeviceError, Stopped
  <2>2. Rebooted /\ reset_cause' = reset_cause
    BY <2>1 DEF Iterate, StopBeforeTick
  <2>3. mtimecmp' = TimeMax /\ msip' = 0 /\ PowerOn'
    BY <2>2 DEF Rebooted, PowerOn, BootedCmp, BootedMsip
  <2>4. reset_cause' = "REBOOT"
    BY <1>1, <2>2 DEF MachineInv, CauseKnown
  <2>5. Down
    <3>1. CASE \E why : StopBeforeTick(why)
      BY <3>1 DEF StopBeforeTick
    <3>2. ASSUME NEW d \in Advances, Iterate(d) PROVE Down
      <4>1. MachineInv'
        BY <1>1, <3>2, IterateInv
      <4>2. "msip" \notin lines' /\ ("mtip" \in lines' => mtime' >= TimeMax)
        BY <2>3, <3>2 DEF Iterate, clint_irq_level
      <4> QED
        BY <4>1, <4>2, MachineAssumption DEF MachineInv, TypeOK, Times
    <3> QED
      BY <2>1, <3>1, <3>2
  <2> QED
    BY <2>3, <2>4, <2>5
<1>2. Spec => []MachineInv
  BY InitInv, StepInv, PTL DEF Spec
<1> QED
  BY <1>1, <1>2, PTL DEF Spec, RebootIsPowerOn

-----------------------------------------------------------------------------
(* The ring: pointers within it, the write pointer size slots after the    *)
(* read pointer, no more characters than the mode allows.                  *)
RingInv ==
  /\ data \in [Slots -> Chars] /\ rd_ptr \in Slots /\ wr_ptr \in Slots
  /\ size \in 0 .. Depth
  /\ wr_ptr = (rd_ptr + size) % Depth

ModeInv == fifo_on \in BOOLEAN /\ overrun \in BOOLEAN /\ (~fifo_on => size <= 1)

UartInv == RingInv /\ ModeInv /\ DataRaisesLevel

-----------------------------------------------------------------------------
(* A sum of two positions wraps at most once.                              *)
LEMMA ModOnce ==
  ASSUME NEW x \in Nat, x < 2 * Depth
  PROVE  x % Depth = IF x < Depth THEN x ELSE x - Depth
<1>1. Depth \in Nat \ {0}
  BY UartAssumption
<1>2. PICK m \in Nat : m = x % Depth
  BY <1>1
<1>3. PICK t \in Nat : t = x \div Depth
  BY <1>1
<1>4. x = Depth * t + m /\ m < Depth
  BY <1>1, <1>2, <1>3
<1>5. t = 0 \/ t = 1 \/ t >= 2
  BY <1>3
<1>6. t >= 2 => Depth * t >= 2 * Depth
  BY <1>1, <1>3
<1> QED
  BY <1>1, <1>2, <1>4, <1>5, <1>6

(* The slot of the k-th waiting character.                                 *)
SlotOf(k) == IF rd_ptr + k - 1 < Depth THEN rd_ptr + k - 1 ELSE rd_ptr + k - 1 - Depth

LEMMA SlotOfK ==
  ASSUME RingInv, NEW k \in 1 .. Depth + 1
  PROVE  /\ (rd_ptr + k - 1) % Depth = SlotOf(k)
         /\ SlotOf(k) \in Slots
         /\ \A j \in 1 .. Depth + 1 : j # k /\ j - k < Depth /\ k - j < Depth => SlotOf(j) # SlotOf(k)
<1>1. Depth \in Nat \ {0} /\ rd_ptr \in 0 .. Depth - 1
  BY UartAssumption DEF RingInv, Slots
<1>2. rd_ptr + k - 1 \in Nat /\ rd_ptr + k - 1 < 2 * Depth
  BY <1>1
<1>3. (rd_ptr + k - 1) % Depth = SlotOf(k)
  <2>1. PICK x \in Nat : x = rd_ptr + k - 1 /\ x < 2 * Depth
    BY <1>2
  <2>2. x % Depth = IF x < Depth THEN x ELSE x - Depth
    BY <2>1, ModOnce
  <2>3. (rd_ptr + k - 1) % Depth = x % Depth
    BY <2>1
  <2> QED
    BY <1>1, <2>1, <2>2, <2>3 DEF SlotOf
<1> QED
  BY <1>1, <1>2, <1>3 DEF SlotOf, Slots

LEMMA WritePtr == ASSUME RingInv PROVE wr_ptr = SlotOf(size + 1)
<1>1. size + 1 \in 1 .. Depth + 1 /\ rd_ptr + (size + 1) - 1 = rd_ptr + size
  BY UartAssumption DEF RingInv, Slots
<1>2. (rd_ptr + (size + 1) - 1) % Depth = SlotOf(size + 1)
  BY <1>1, SlotOfK
<1> QED
  BY <1>1, <1>2 DEF RingInv

LEMMA IncPtr ==
  ASSUME NEW p \in Slots
  PROVE  Inc(p) = (IF p + 1 = Depth THEN 0 ELSE p + 1) /\ Inc(p) \in Slots
<1>1. Depth \in Nat \ {0} /\ p \in 0 .. Depth - 1
  BY UartAssumption DEF Slots
<1>2. p + 1 \in Nat /\ p + 1 < 2 * Depth
  BY <1>1
<1>3. PICK x \in Nat : x = p + 1 /\ x < 2 * Depth
  BY <1>2
<1>4. x % Depth = IF x < Depth THEN x ELSE x - Depth
  BY <1>3, ModOnce
<1>5. Inc(p) = x % Depth
  BY <1>3 DEF Inc
<1> QED
  BY <1>1, <1>3, <1>4, <1>5 DEF Slots

(* The queue of the refinement mapping is a sequence of characters.        *)
QueueOK ==
  /\ Queue \in Seq(Chars) /\ Len(Queue) = size
  /\ \A k \in 1 .. size : Queue[k] = data[SlotOf(k)]

LEMMA QueueType == RingInv => QueueOK
<1> SUFFICES ASSUME RingInv PROVE QueueOK
  OBVIOUS
<1>1. size \in Nat /\ size <= Depth /\ Depth \in Nat
  BY UartAssumption DEF RingInv
<1>2. \A k \in 1 .. size : (rd_ptr + k - 1) % Depth = SlotOf(k) /\ SlotOf(k) \in Slots
  BY <1>1, SlotOfK
<1>3. \A k \in 1 .. size : data[(rd_ptr + k - 1) % Depth] \in Chars
  BY <1>2 DEF RingInv
<1>4. Queue \in [1 .. size -> Chars]
  BY <1>3 DEF Queue
<1>5. Queue \in Seq(Chars) /\ Len(Queue) = size
  BY <1>1, <1>4
<1> QED
  BY <1>2, <1>5 DEF Queue, QueueOK
-----------------------------------------------------------------------------
(* The three operations of the ring are those of the queue.                *)
LEMMA RingCleared ==
  ASSUME RingInv, rx_fifo_clear
  PROVE  RingInv' /\ Queue' = <<>>
<1>1. Depth \in Nat \ {0} /\ 0 \in Slots
  BY UartAssumption DEF Slots
<1>2. 0 % Depth = 0
  <2>1. PICK x \in Nat : x = 0 /\ x < 2 * Depth
    BY <1>1
  <2> QED
    BY <1>1, <2>1, ModOnce
<1>3. RingInv'
  BY <1>1, <1>2 DEF RingInv, rx_fifo_clear, Slots
<1>4. Queue' \in Seq(Chars) /\ Len(Queue') = 0
  <2>1. size' = 0
    BY DEF rx_fifo_clear
  <2>2. Queue' = [k \in 1 .. 0 |-> (data[(rd_ptr + k - 1) % Depth])']
    BY <2>1 DEF Queue
  <2> QED
    BY <2>2
<1> QED
  BY <1>3, <1>4

LEMMA RingWritten ==
  ASSUME RingInv, NEW c \in Chars, size < Depth,
         data' = [data EXCEPT ![wr_ptr] = c], size' = size + 1, wr_ptr' = Inc(wr_ptr), rd_ptr' = rd_ptr
  PROVE  RingInv' /\ Queue' = Append(Queue, c)
<1>1. Depth \in Nat \ {0} /\ rd_ptr \in 0 .. Depth - 1 /\ size \in 0 .. Depth - 1 /\ wr_ptr \in 0 .. Depth - 1
  BY UartAssumption DEF RingInv, Slots
<1>2. wr_ptr = SlotOf(size + 1)
  BY WritePtr
<1>3. wr_ptr' = IF wr_ptr + 1 = Depth THEN 0 ELSE wr_ptr + 1
  BY IncPtr DEF RingInv
<1>4. (rd_ptr + (size + 2) - 1) % Depth = SlotOf(size + 2)
  BY <1>1, SlotOfK
<1>5. wr_ptr' = SlotOf(size + 2)
  BY <1>1, <1>2, <1>3 DEF SlotOf
<1>6. wr_ptr' = (rd_ptr' + size') % Depth
  <2>1. rd_ptr + (size + 2) - 1 = rd_ptr' + size'
    BY <1>1
  <2> QED
    BY <1>4, <1>5, <2>1
<1>7. RingInv'
  BY <1>1, <1>3, <1>6 DEF RingInv, Slots
<1>8. \A k \in 1 .. size + 1 : SlotOf(k)' = SlotOf(k)
  BY DEF SlotOf
<1>9. /\ Queue' \in Seq(Chars) /\ Len(Queue') = size + 1
      /\ \A k \in 1 .. size + 1 : Queue'[k] = data'[SlotOf(k)]
  <2>1. QueueOK'
    BY <1>7, QueueType, PTL
  <2>2. /\ Queue' \in Seq(Chars) /\ Len(Queue') = size'
        /\ \A k \in 1 .. size' : Queue'[k] = data'[SlotOf(k)']
    BY <2>1 DEF QueueOK
  <2> QED
    BY <1>8, <2>2
<1>10. \A k \in 1 .. size : SlotOf(k) # wr_ptr /\ SlotOf(k) \in Slots
  BY <1>1, <1>2, SlotOfK
<1>11. Queue \in Seq(Chars) /\ Len(Queue) = size /\ \A k \in 1 .. size : Queue[k] = data[SlotOf(k)]
  BY QueueType DEF QueueOK
<1>12. \A k \in 1 .. size : Queue'[k] = Queue[k]
  BY <1>1, <1>9, <1>10, <1>11 DEF RingInv
<1>13. Queue'[size + 1] = c
  BY <1>1, <1>2, <1>9 DEF RingInv
<1> QED
  BY <1>1, <1>7, <1>9, <1>11, <1>12, <1>13

LEMMA RingRead ==
  ASSUME RingInv, size > 0, last' = data[rd_ptr], size' = size - 1, rd_ptr' = Inc(rd_ptr),
         UNCHANGED <<data, wr_ptr>>
  PROVE  RingInv' /\ Queue # <<>> /\ last' = Head(Queue) /\ Queue' = Tail(Queue)
<1>1. Depth \in Nat \ {0} /\ rd_ptr \in 0 .. Depth - 1 /\ size \in 1 .. Depth /\ wr_ptr \in 0 .. Depth - 1
  BY UartAssumption DEF RingInv, Slots
<1>2. rd_ptr' = IF rd_ptr + 1 = Depth THEN 0 ELSE rd_ptr + 1
  BY IncPtr DEF RingInv
<1>3. wr_ptr = SlotOf(size + 1)
  BY WritePtr
<1>4. wr_ptr' = (rd_ptr' + size') % Depth
  <2>1. PICK x \in Nat : x = rd_ptr' + size' /\ x < 2 * Depth
    BY <1>1, <1>2
  <2>2. x % Depth = IF x < Depth THEN x ELSE x - Depth
    BY <2>1, ModOnce
  <2> QED
    BY <1>1, <1>2, <1>3, <2>1, <2>2 DEF SlotOf
<1>5. RingInv'
  BY <1>1, <1>2, <1>4 DEF RingInv, Slots
<1>6. \A k \in 1 .. size - 1 : SlotOf(k)' = SlotOf(k + 1)
  BY <1>1, <1>2 DEF SlotOf
<1>7. /\ Queue' \in Seq(Chars) /\ Len(Queue') = size - 1
      /\ \A k \in 1 .. size - 1 : Queue'[k] = data[SlotOf(k + 1)]
  <2>1. QueueOK'
    BY <1>5, QueueType, PTL
  <2>2. /\ Queue' \in Seq(Chars) /\ Len(Queue') = size'
        /\ \A k \in 1 .. size' : Queue'[k] = data'[SlotOf(k)']
    BY <2>1 DEF QueueOK
  <2> QED
    BY <1>6, <2>2
<1>8. Queue \in Seq(Chars) /\ Len(Queue) = size /\ \A k \in 1 .. size : Queue[k] = data[SlotOf(k)]
  BY QueueType DEF QueueOK
<1>9. Queue[1] = data[rd_ptr]
  BY <1>1, <1>8 DEF SlotOf
<1>10. ASSUME NEW k \in 1 .. size - 1 PROVE Queue'[k] = Queue[k + 1]
  <2>1. k + 1 \in 1 .. size
    BY <1>1
  <2>2. Queue[k + 1] = data[SlotOf(k + 1)]
    BY <1>8, <2>1
  <2> QED
    BY <1>7, <2>2
<1> QED
  BY <1>1, <1>5, <1>7, <1>8, <1>9, <1>10

-----------------------------------------------------------------------------
(* What a step does to the queue: one of its operations, or nothing.       *)
QueueStep == Rx!QNext \/ UNCHANGED Rx!queueVars

LEMMA ClearStep ==
  ASSUME UartInv, rx_fifo_clear, fifo_on' \in BOOLEAN, last' = last
  PROVE  RingInv' /\ ModeInv' /\ QueueStep
<1>1. RingInv' /\ Queue' = <<>>
  BY RingCleared DEF UartInv
<1>2. ModeInv'
  <2>1. overrun' \in BOOLEAN
    BY Zenon DEF rx_fifo_clear
  <2>2. size' <= 1
    BY DEF rx_fifo_clear
  <2> QED
    BY <2>1, <2>2 DEF ModeInv
<1>3. Rx!Clear
  BY <1>1 DEF Rx!Clear, rx_fifo_clear
<1> QED
  BY <1>1, <1>2, <1>3 DEF QueueStep, Rx!QNext

LEMMA QuietStep ==
  ASSUME UartInv, UNCHANGED <<rxVars, fifo_on, last>>
  PROVE  RingInv' /\ ModeInv' /\ QueueStep
<1>1. RingInv' /\ ModeInv'
  BY DEF UartInv, RingInv, ModeInv, rxVars
<1>2. Queue' = Queue
  BY DEF Queue, rxVars
<1> QED
  BY <1>1, <1>2 DEF QueueStep, Rx!queueVars, rxVars

LEMMA ReadStep ==
  ASSUME UartInv, ReadRbr
  PROVE  RingInv' /\ ModeInv' /\ QueueStep
<1>1. CASE size = 0
  <2>1. RingInv' /\ ModeInv' /\ Queue' = Queue
    BY <1>1 DEF UartInv, RingInv, ModeInv, ReadRbr, rx_fifo_read, rxVars, ctrlVars, Queue
  <2>2. Queue = <<>>
    BY <1>1, QueueType DEF UartInv, QueueOK
  <2>3. Rx!ReadEmpty
    BY <1>1, <2>1, <2>2 DEF Rx!ReadEmpty, UartInv, RingInv, ReadRbr, rx_fifo_read, rxVars, ctrlVars
  <2> QED
    BY <2>1, <2>3 DEF QueueStep, Rx!QNext
<1>2. CASE size > 0
  <2>1. /\ last' = data[rd_ptr] /\ size' = size - 1 /\ rd_ptr' = Inc(rd_ptr)
        /\ UNCHANGED <<data, wr_ptr>> /\ UNCHANGED <<overrun, fifo_on>>
    BY <1>2 DEF ReadRbr, rx_fifo_read, ctrlVars
  <2>2. RingInv' /\ Queue # <<>> /\ last' = Head(Queue) /\ Queue' = Tail(Queue)
    BY <1>2, <2>1, RingRead DEF UartInv
  <2>3. ModeInv'
    BY <2>1 DEF UartInv, ModeInv, RingInv
  <2>4. Rx!Read
    BY <2>1, <2>2 DEF Rx!Read
  <2> QED
    BY <2>2, <2>3, <2>4 DEF QueueStep, Rx!QNext
<1> QED
  BY <1>1, <1>2 DEF UartInv, RingInv

LEMMA StatusStep ==
  ASSUME UartInv, ReadLsr
  PROVE  RingInv' /\ ModeInv' /\ QueueStep
<1>1. RingInv' /\ ModeInv'
  BY DEF UartInv, RingInv, ModeInv, ReadLsr, ctrlVars
<1>2. Rx!Status
  BY DEF Rx!Status, ReadLsr, ctrlVars, Queue
<1> QED
  BY <1>1, <1>2 DEF QueueStep, Rx!QNext

LEMMA InputStep ==
  ASSUME UartInv, uart16550_poll_input, UNCHANGED <<fifo_on, last>>
  PROVE  RingInv' /\ ModeInv' /\ QueueStep
<1>1. CASE UNCHANGED rxVars
  BY <1>1, QuietStep
<1>2. ASSUME size < Depth, NEW c \in Chars, rx_fifo_write(c)
      PROVE  RingInv' /\ ModeInv' /\ QueueStep
  <2>1. CASE Full
    <3>1. ~fifo_on /\ size = 1
      BY <1>2, <2>1, UartAssumption DEF Full, UartInv, RingInv
    <3>2. overrun' = TRUE /\ UNCHANGED <<data, rd_ptr, wr_ptr, size>>
      BY <1>2, <2>1 DEF rx_fifo_write
    <3>3. RingInv' /\ ModeInv' /\ Queue' = Queue
      BY <3>2 DEF UartInv, RingInv, ModeInv, Queue
    <3>4. Len(Queue) = 1
      BY <3>1, QueueType DEF UartInv, QueueOK
    <3>5. Rx!Drop
      BY <3>1, <3>2, <3>3, <3>4 DEF Rx!Drop
    <3> QED
      BY <3>3, <3>5 DEF QueueStep, Rx!QNext
  <2>2. CASE ~Full
    <3>1. /\ data' = [data EXCEPT ![wr_ptr] = c] /\ size' = size + 1 /\ wr_ptr' = Inc(wr_ptr)
          /\ rd_ptr' = rd_ptr /\ overrun' = overrun
      BY <1>2, <2>2 DEF rx_fifo_write
    <3>2. RingInv' /\ Queue' = Append(Queue, c)
      BY <1>2, <3>1, RingWritten DEF UartInv
    <3>3. size \in Nat /\ Depth \in Nat /\ (fifo_on \/ size < 1)
      BY <2>2, UartAssumption DEF Full, UartInv, RingInv, ModeInv
    <3>4. ModeInv'
      BY <3>1, <3>3 DEF UartInv, ModeInv
    <3>5. Rx!Arrive(c)
      BY <1>2, <3>1, <3>2, <3>3, QueueType DEF Rx!Arrive, UartInv, QueueOK
    <3> QED
      BY <3>2, <3>4, <3>5 DEF QueueStep, Rx!QNext
  <2> QED
    BY <2>1, <2>2
<1> QED
  BY <1>1, <1>2 DEF uart16550_poll_input

LEMMA GuestStepInv ==
  ASSUME UartInv, GuestStep
  PROVE  UartInv' /\ QueueStep
<1>1. DataRaisesLevel'
  BY DEF GuestStep, DataRaisesLevel
<1>2. RingInv' /\ ModeInv' /\ QueueStep
  <2>1. ASSUME NEW bits \in Iers, WriteIer(bits) PROVE RingInv' /\ ModeInv' /\ QueueStep
    BY <2>1, QuietStep DEF WriteIer
  <2>2. ASSUME NEW enable \in BOOLEAN, NEW clear \in BOOLEAN, NEW lvl \in 0 .. 3, WriteFcr(enable, clear, lvl)
        PROVE  RingInv' /\ ModeInv' /\ QueueStep
    <3>1. fifo_on' \in BOOLEAN /\ last' = last
      BY <2>2 DEF WriteFcr
    <3>2. rx_fifo_clear \/ UNCHANGED <<rxVars, fifo_on, last>>
      BY <2>2 DEF WriteFcr
    <3> QED
      BY <3>1, <3>2, ClearStep, QuietStep
  <2>3. ASSUME NEW b \in BOOLEAN, WriteLcr(b) PROVE RingInv' /\ ModeInv' /\ QueueStep
    BY <2>3, QuietStep DEF WriteLcr
  <2>4. CASE NoAccess
    BY <2>4, QuietStep DEF NoAccess, ctrlVars
  <2>5. CASE uart16550_reset
    BY <2>5, ClearStep DEF uart16550_reset
  <2> QED
    BY <2>1, <2>2, <2>3, <2>4, <2>5, ReadStep, StatusStep DEF GuestStep
<1> QED
  BY <1>1, <1>2 DEF UartInv

LEMMA DeviceStepInv ==
  ASSUME UartInv, DeviceStep
  PROVE  UartInv' /\ QueueStep
<1>1. RingInv' /\ ModeInv' /\ QueueStep
  BY InputStep DEF DeviceStep, ctrlVars
<1>2. ASSUME "ERBFI" \in ier', size' > 0 PROVE level' /\ iir'.id \in {2, 3, 6}
  <2> DEFINE c == Causes(size', overrun', fifo_on, trigger, ier)
  <2>1. c.cti
    BY <1>2 DEF DeviceStep, ctrlVars, Causes
  <2>2. iir' = [pending |-> c.rls \/ c.rda \/ c.cti \/ c.thre, id |-> Identify(c, iir.id), fifos |-> fifo_on]
    BY DEF DeviceStep, uart16550_irq_level
  <2>3. c.rls \in BOOLEAN /\ c.rda \in BOOLEAN
    BY <1>1 DEF Causes, ModeInv
  <2>4. Identify(c, iir.id) \in {2, 3, 6}
    BY <2>1, <2>3 DEF Identify
  <2> QED
    BY <2>1, <2>2, <2>4 DEF level
<1>3. DataRaisesLevel'
  BY <1>2 DEF DataRaisesLevel
<1> QED
  BY <1>1, <1>3 DEF UartInv

LEMMA UartStepInv == UartInv /\ [UartNext]_uartVars => UartInv' /\ [Rx!QNext]_Rx!queueVars
<1> SUFFICES ASSUME UartInv, [UartNext]_uartVars PROVE UartInv' /\ QueueStep
  BY DEF QueueStep
<1>1. CASE UNCHANGED uartVars
  <2>1. DataRaisesLevel'
    BY <1>1 DEF uartVars, UartInv, DataRaisesLevel, level
  <2> QED
    BY <1>1, <2>1, QuietStep DEF uartVars, rxVars, UartInv
<1> QED
  BY <1>1, GuestStepInv, DeviceStepInv DEF UartNext

LEMMA UartInitInv == UartInit => UartInv /\ Rx!QInit
<1> SUFFICES ASSUME UartInit PROVE UartInv /\ Rx!QInit
  OBVIOUS
<1>1. Depth \in Nat \ {0} /\ 0 % Depth = 0
  <2>1. Depth \in Nat \ {0}
    BY UartAssumption
  <2>2. PICK x \in Nat : x = 0 /\ x < 2 * Depth
    BY <2>1
  <2> QED
    BY <2>1, <2>2, ModOnce
<1>2. RingInv
  BY <1>1 DEF UartInit, RingInv, Slots
<1>3. ModeInv /\ DataRaisesLevel
  BY DEF UartInit, ModeInv, DataRaisesLevel
<1>4. Queue = <<>>
  BY <1>2, QueueType DEF UartInit, QueueOK
<1> QED
  BY <1>2, <1>3, <1>4 DEF UartInv, UartInit, Rx!QInit

(* A guest that has enabled the receive interrupt always finds the level   *)
(* up while a character waits, below the trigger level too                 *)
(* (uart16550_irq_level, with the character timeout due at once).          *)
THEOREM UartDataRaisesLevel == UartSpec => []DataRaisesLevel
<1>1. UartInv => DataRaisesLevel
  BY DEF UartInv
<1> QED
  BY <1>1, UartInitInv, UartStepInv, PTL DEF UartSpec

(* The ring with its two pointers, whatever its depth and in both modes,   *)
(* implements the bounded queue: characters are read in order, once, and   *)
(* one that is dropped sets the overrun bit (rx_fifo_read, rx_fifo_write,  *)
(* rx_fifo_clear and the register accesses that call them).                *)
THEOREM UartImplementsQueue == UartSpec => IsRxQueue
  BY UartInitInv, UartStepInv, PTL DEF UartSpec, IsRxQueue, Rx!QSpec

-----------------------------------------------------------------------------
(* The console.  Taken characters have left the ring, the line so far      *)
(* begins after position Start.                                            *)
Taken == Len(typed) - size
Start == Taken - n

(* What was typed and not taken waits in the ring.                         *)
InputInv ==
  /\ RingInv /\ fifo_on = TRUE /\ NL \in Chars
  /\ typed \in Seq(Chars) /\ size <= Len(typed)
  /\ \A k \in 1 .. size : Queue[k] = typed[Taken + k]
  /\ at = "rbr" => size > 0

(* text is what fits of len characters after position e.                   *)
Holds(text, e, len) ==
  /\ text \in Seq(Chars) /\ Len(text) = Fits(len)
  /\ \A j \in 1 .. Fits(len) : text[j] = typed[e + j]

LineInv ==
  /\ n \in Nat /\ bufsize \in Nat \ {0} /\ n <= Taken
  /\ Cardinality(NewlinesTo(Start)) = Len(returned) /\ (Start > 0 => typed[Start] = NL)
  /\ \A j \in Start + 1 .. Taken : typed[j] # NL
  /\ Holds(buf, Start, n)

(* Line k ends at e, and line 0 before the first character.                *)
Ends(e, k) == e \in 0 .. Len(typed) /\ Cardinality(NewlinesTo(e)) = k /\ (e > 0 => typed[e] = NL)

RightLine(r, k) ==
  \E e0, e1 \in 0 .. Len(typed) :
    /\ Ends(e0, k - 1) /\ Ends(e1, k)
    /\ r.count = e1 - e0 - 1 /\ Holds(r.text, e0, r.count)

ReturnedInv ==
  /\ returned \in Seq([text : Seq(Chars), count : Nat])
  /\ \A k \in 1 .. Len(returned) : RightLine(returned[k], k)

ConsoleInv == InputInv /\ LineInv /\ ReturnedInv

LEMMA NewlinesFinite ==
  ASSUME NEW i \in Nat
  PROVE  IsFiniteSet(NewlinesTo(i)) /\ Cardinality(NewlinesTo(i)) \in Nat
<1>1. IsFiniteSet(1 .. i)
  BY FS_Interval
<1>2. NewlinesTo(i) \in SUBSET (1 .. i)
  BY DEF NewlinesTo
<1> QED
  BY <1>1, <1>2, FS_Subset, FS_CardinalityType

(* One more newline between two positions counts.                          *)
LEMMA MoreNewlines ==
  ASSUME NEW i \in Nat, NEW j \in Nat, i < j, typed[j] = NL
  PROVE  Cardinality(NewlinesTo(i)) < Cardinality(NewlinesTo(j))
<1> DEFINE S == NewlinesTo(i) \cup {j}
<1>1. IsFiniteSet(NewlinesTo(i)) /\ Cardinality(NewlinesTo(i)) \in Nat /\ j \notin NewlinesTo(i)
  BY NewlinesFinite DEF NewlinesTo
<1>2. Cardinality(S) = Cardinality(NewlinesTo(i)) + 1
  BY <1>1, FS_AddElement
<1>3. S \in SUBSET NewlinesTo(j)
  BY DEF NewlinesTo
<1>4. IsFiniteSet(NewlinesTo(j)) /\ Cardinality(NewlinesTo(j)) \in Nat
  BY NewlinesFinite
<1>5. Cardinality(S) <= Cardinality(NewlinesTo(j))
  BY <1>3, <1>4, FS_Subset
<1> HIDE DEF S
<1> QED
  BY <1>1, <1>2, <1>4, <1>5

LEMMA NoNewlines ==
  ASSUME NEW i \in Nat, NEW j \in Nat, i <= j, \A x \in i + 1 .. j : typed[x] # NL
  PROVE  NewlinesTo(j) = NewlinesTo(i)
  BY DEF NewlinesTo

LEMMA OneEnd ==
  ASSUME NEW e, NEW f, NEW k, typed \in Seq(Chars), Ends(e, k), Ends(f, k)
  PROVE  e = f
<1>1. e \in Nat /\ f \in Nat /\ Cardinality(NewlinesTo(e)) = Cardinality(NewlinesTo(f))
  BY DEF Ends
<1>2. Cardinality(NewlinesTo(e)) \in Nat /\ Cardinality(NewlinesTo(f)) \in Nat
  BY <1>1, NewlinesFinite
<1>3. e < f => FALSE
  <2> SUFFICES ASSUME e < f PROVE FALSE
    OBVIOUS
  <2>1. typed[f] = NL
    BY <1>1 DEF Ends
  <2> QED
    BY <1>1, <1>2, <2>1, MoreNewlines
<1>4. f < e => FALSE
  <2> SUFFICES ASSUME f < e PROVE FALSE
    OBVIOUS
  <2>1. typed[e] = NL
    BY <1>1 DEF Ends
  <2> QED
    BY <1>1, <1>2, <2>1, MoreNewlines
<1> QED
  BY <1>1, <1>3, <1>4

LEMMA EndIsLineEnd ==
  ASSUME NEW e, NEW k \in Nat, typed \in Seq(Chars), Ends(e, k)
  PROVE  LineEnd(k) = e /\ (k = 0 <=> e = 0)
<1>1. e \in 0 .. Len(typed) /\ Cardinality(NewlinesTo(e)) = k /\ (e > 0 => typed[e] = NL) /\ Len(typed) \in Nat
  BY DEF Ends
<1>2. NewlinesTo(0) = {} /\ Cardinality(NewlinesTo(0)) = 0
  BY FS_EmptySet DEF NewlinesTo
<1>3. e = 0 => k = 0
  BY <1>1, <1>2
<1>4. k = 0 => e = 0
  <2> SUFFICES ASSUME k = 0, e > 0 PROVE FALSE
    BY <1>1
  <2>1. typed[e] = NL
    BY <1>1
  <2>2. Cardinality(NewlinesTo(0)) < Cardinality(NewlinesTo(e))
    BY <1>1, <2>1, MoreNewlines
  <2> QED
    BY <1>1, <1>2, <2>2
<1>5. CASE k = 0
  BY <1>4, <1>5 DEF LineEnd
<1>6. CASE k # 0
  <2>1. e \in DOMAIN typed /\ EndsLine(e, k)
    BY <1>1, <1>3, <1>6 DEF EndsLine
  <2>2. \A f \in DOMAIN typed : EndsLine(f, k) => Ends(f, k)
    BY DEF EndsLine, Ends
  <2>3. \A f \in DOMAIN typed : EndsLine(f, k) => f = e
    BY <2>2, OneEnd
  <2>4. LineEnd(k) = e
    BY <1>6, <2>1, <2>3 DEF LineEnd
  <2> QED
    BY <1>3, <1>6, <2>4
<1> QED
  BY <1>5, <1>6

(* The lines returned are the lines typed.                                 *)
LEMMA HoldsIsSubSeq ==
  ASSUME typed \in Seq(Chars), NEW t, NEW e0 \in 0 .. Len(typed), NEW e1 \in 0 .. Len(typed), e0 < e1,
         bufsize \in Nat \ {0}, Holds(t, e0, e1 - e0 - 1)
  PROVE  LET line == SubSeq(typed, e0 + 1, e1 - 1)
         IN  Len(line) = e1 - e0 - 1 /\ t = SubSeq(line, 1, Fits(Len(line)))
<1> DEFINE line == SubSeq(typed, e0 + 1, e1 - 1)
           c == e1 - e0 - 1
           cut == SubSeq(line, 1, Fits(c))
<1>1. e0 \in Nat /\ e1 \in Nat /\ Len(typed) \in Nat /\ c \in Nat /\ e0 + 1 \in 1 .. Len(typed) + 1 /\ e1 - 1 \in e0 .. Len(typed)
  OBVIOUS
<1>2. Fits(c) \in 0 .. c
  BY <1>1 DEF Fits
<1>3. /\ line \in Seq(Chars) /\ Len(line) = c
      /\ \A i \in 1 .. c : line[i] = typed[e0 + i]
  <2>1. /\ line \in Seq(Chars)
        /\ Len(line) = (e1 - 1) - (e0 + 1) + 1
        /\ \A i \in 1 .. (e1 - 1) - (e0 + 1) + 1 : line[i] = typed[(e0 + 1) + i - 1]
    BY <1>1, SubSeqProperties
  <2> QED
    BY <1>1, <2>1
<1> HIDE DEF line
<1>4. /\ cut \in Seq(Chars) /\ Len(cut) = Fits(c)
      /\ \A i \in 1 .. Fits(c) : cut[i] = line[i]
  <2>1. 1 \in 1 .. Len(line) + 1 /\ Fits(c) \in 1 - 1 .. Len(line)
    BY <1>1, <1>2, <1>3
  <2>2. /\ cut \in Seq(Chars)
        /\ Len(cut) = Fits(c) - 1 + 1
        /\ \A i \in 1 .. Fits(c) - 1 + 1 : cut[i] = line[1 + i - 1]
    BY <1>3, <2>1, SubSeqProperties
  <2> QED
    BY <1>2, <2>2
<1> HIDE DEF cut
<1>5. t \in Seq(Chars) /\ Len(t) = Fits(c) /\ \A i \in 1 .. Fits(c) : t[i] = cut[i]
  <2>1. t \in Seq(Chars) /\ Len(t) = Fits(c) /\ \A i \in 1 .. Fits(c) : t[i] = typed[e0 + i]
    BY DEF Holds
  <2>2. ASSUME NEW i \in 1 .. Fits(c) PROVE t[i] = cut[i]
    <3>1. i \in 1 .. c
      BY <1>1, <1>2
    <3> QED
      BY <1>3, <1>4, <2>1, <3>1
  <2> QED
    BY <2>1, <2>2
<1>6. t = cut
  BY <1>4, <1>5, SeqEqual
<1> QED
  BY <1>3, <1>6 DEF line, cut

LEMMA LinesRight == ConsoleInv => LinesAsTyped
<1> SUFFICES ASSUME ConsoleInv PROVE LinesAsTyped
  OBVIOUS
<1>1. typed \in Seq(Chars) /\ Len(typed) \in Nat /\ bufsize \in Nat \ {0} /\ Len(returned) \in Nat
  BY DEF ConsoleInv, InputInv, LineInv, ReturnedInv
<1>2. size \in Nat /\ Start \in Nat /\ Start <= Len(typed)
  BY <1>1, UartAssumption DEF ConsoleInv, InputInv, RingInv, LineInv, Taken, Start
<1>3. Len(returned) <= LineCount
  <2>1. NewlinesTo(Start) \in SUBSET NewlinesTo(Len(typed))
    BY <1>1, <1>2 DEF NewlinesTo
  <2>2. IsFiniteSet(NewlinesTo(Len(typed)))
    BY <1>1, NewlinesFinite
  <2>3. Cardinality(NewlinesTo(Start)) <= Cardinality(NewlinesTo(Len(typed)))
    BY <2>1, <2>2, FS_Subset
  <2> QED
    BY <2>3 DEF LineCount, ConsoleInv, LineInv
<1>4. ASSUME NEW k \in 1 .. Len(returned)
      PROVE  /\ returned[k].count = Len(Line(k))
             /\ returned[k].text = SubSeq(Line(k), 1, Fits(Len(Line(k))))
  <2>1. PICK e0 \in 0 .. Len(typed), e1 \in 0 .. Len(typed) :
          /\ Ends(e0, k - 1) /\ Ends(e1, k)
          /\ returned[k].count = e1 - e0 - 1 /\ Holds(returned[k].text, e0, returned[k].count)
    BY DEF ConsoleInv, ReturnedInv, RightLine
  <2>2. k \in Nat /\ k - 1 \in Nat
    BY <1>1
  <2>3. LineEnd(k) = e1 /\ LineEnd(k - 1) = e0
    BY <1>1, <2>1, <2>2, EndIsLineEnd
  <2>4. e0 < e1
    <3> SUFFICES ASSUME e1 <= e0 PROVE FALSE
      BY <1>1
    <3>1. e1 = e0 \/ Cardinality(NewlinesTo(e1)) < Cardinality(NewlinesTo(e0))
      <4>1. e1 < e0 => typed[e0] = NL
        BY <1>1, <2>1 DEF Ends
      <4> QED
        BY <1>1, <4>1, MoreNewlines
    <3> QED
      BY <2>1, <2>2, <3>1 DEF Ends
  <2>5. Line(k) = SubSeq(typed, e0 + 1, e1 - 1)
    BY <2>3 DEF Line
  <2>6. Holds(returned[k].text, e0, e1 - e0 - 1)
    BY <2>1
  <2>7. LET line == SubSeq(typed, e0 + 1, e1 - 1)
        IN  Len(line) = e1 - e0 - 1 /\ returned[k].text = SubSeq(line, 1, Fits(Len(line)))
    BY <1>1, <2>4, <2>6, HoldsIsSubSeq
  <2> QED
    BY <2>1, <2>5, <2>7
<1> QED
  BY <1>3, <1>4 DEF LinesAsTyped

(* What was said of the characters typed stays true when one more comes.   *)
LEMMA TypedGrows ==
  ASSUME typed \in Seq(Chars), typed' \in Seq(Chars), Len(typed) <= Len(typed'), bufsize' = bufsize,
         bufsize \in Nat \ {0}, \A i \in 1 .. Len(typed) : typed'[i] = typed[i]
  PROVE  /\ \A i \in 0 .. Len(typed) : (NewlinesTo(i))' = NewlinesTo(i)
         /\ \A t, e, len : e \in Nat /\ len \in Nat /\ e + len <= Len(typed) /\ Holds(t, e, len) =>
              (Holds(t, e, len))'
         /\ \A r, k : r.count \in Nat /\ RightLine(r, k) => (RightLine(r, k))'
<1>1. Len(typed) \in Nat /\ Len(typed') \in Nat
  OBVIOUS
<1>2. ASSUME NEW i \in 0 .. Len(typed) PROVE (NewlinesTo(i))' = NewlinesTo(i)
  BY <1>1 DEF NewlinesTo
<1>3. ASSUME NEW t, NEW e, NEW len, e \in Nat, len \in Nat, e + len <= Len(typed), Holds(t, e, len)
      PROVE  (Holds(t, e, len))'
  <2>1. (Fits(len))' = Fits(len) /\ Fits(len) \in 0 .. len
    BY <1>3 DEF Fits
  <2>2. \A j \in 1 .. Fits(len) : t[j] = typed[e + j]
    BY <1>3 DEF Holds
  <2>3. \A j \in 1 .. Fits(len) : t[j] = typed'[e + j]
    <3> SUFFICES ASSUME NEW j \in 1 .. Fits(len) PROVE t[j] = typed'[e + j]
      OBVIOUS
    <3>1. e + j \in 1 .. Len(typed)
      BY <1>1, <1>3, <2>1
    <3> QED
      BY <2>2, <3>1
  <2> QED
    BY <1>3, <2>1, <2>3 DEF Holds
<1>4. \A e, k : Ends(e, k) => (Ends(e, k))'
  BY <1>1, <1>2 DEF Ends
<1>5. ASSUME NEW r, NEW k, r.count \in Nat, RightLine(r, k)
      PROVE  (RightLine(r, k))'
  <2>1. PICK e0 \in 0 .. Len(typed), e1 \in 0 .. Len(typed) :
          /\ Ends(e0, k - 1) /\ Ends(e1, k)
          /\ r.count = e1 - e0 - 1 /\ Holds(r.text, e0, r.count)
    BY <1>5 DEF RightLine
  <2>2. e0 + r.count <= Len(typed) /\ e0 \in Nat
    BY <1>1, <1>5, <2>1
  <2>3. (Holds(r.text, e0, r.count))'
    BY <1>3, <1>5, <2>1, <2>2
  <2>4. e0 \in 0 .. Len(typed') /\ e1 \in 0 .. Len(typed')
    BY <1>1
  <2>5. (Ends(e0, k - 1))' /\ (Ends(e1, k))'
    BY <1>4, <2>1
  <2> QED
    BY <2>1, <2>3, <2>4, <2>5 DEF RightLine
<1> QED
  BY <1>2, <1>3, <1>5

LEMMA ConsoleFacts ==
  ASSUME ConsoleInv
  PROVE  /\ typed \in Seq(Chars) /\ Len(typed) \in Nat /\ size \in 0 .. Depth /\ Depth \in Nat \ {0}
         /\ Taken \in Nat /\ Taken + size = Len(typed) /\ Start \in Nat /\ Start + n = Taken
         /\ n \in Nat /\ bufsize \in Nat \ {0} /\ Len(returned) \in Nat
         /\ Queue \in Seq(Chars) /\ Len(Queue) = size
<1>1. typed \in Seq(Chars) /\ size \in 0 .. Depth /\ Depth \in Nat \ {0} /\ size <= Len(typed)
  BY UartAssumption DEF ConsoleInv, InputInv, RingInv
<1>2. n \in Nat /\ bufsize \in Nat \ {0} /\ n <= Taken /\ Len(returned) \in Nat
  BY DEF ConsoleInv, LineInv, ReturnedInv
<1>3. Queue \in Seq(Chars) /\ Len(Queue) = size
  BY QueueType DEF ConsoleInv, InputInv, QueueOK
<1>4. Taken \in Nat /\ Taken + size = Len(typed)
  BY <1>1 DEF Taken
<1> QED
  BY <1>1, <1>2, <1>3, <1>4 DEF Start

(* Lines and text depend on what was typed alone.                          *)
LEMMA ReturnedKept ==
  ASSUME ConsoleInv, typed' \in Seq(Chars), Len(typed) <= Len(typed'), bufsize' = bufsize, returned' = returned,
         \A i \in 1 .. Len(typed) : typed'[i] = typed[i]
  PROVE  ReturnedInv'
<1>1. typed \in Seq(Chars) /\ bufsize \in Nat \ {0} /\ returned \in Seq([text : Seq(Chars), count : Nat])
  BY ConsoleFacts DEF ConsoleInv, ReturnedInv
<1>2. \A r, k : r.count \in Nat /\ RightLine(r, k) => (RightLine(r, k))'
  BY <1>1, TypedGrows
<1>3. \A k \in 1 .. Len(returned) : returned[k].count \in Nat /\ RightLine(returned[k], k)
  <2> SUFFICES ASSUME NEW k \in 1 .. Len(returned) PROVE returned[k].count \in Nat /\ RightLine(returned[k], k)
    BY Zenon
  <2>1. returned[k] \in [text : Seq(Chars), count : Nat]
    BY <1>1, ElementOfSeq, Zenon
  <2>2. RightLine(returned[k], k)
    BY DEF ConsoleInv, ReturnedInv
  <2> QED
    BY <2>1, <2>2
<1>4. \A k \in 1 .. Len(returned) : RightLine(returned[k], k)'
  <2> SUFFICES ASSUME NEW k \in 1 .. Len(returned) PROVE RightLine(returned[k], k)'
    OBVIOUS
  <2>1. PICK r : r = returned[k]
    OBVIOUS
  <2>2. (RightLine(r, k))'
    BY <1>2, <1>3, <2>1
  <2> QED
    BY <2>1, <2>2 DEF RightLine
<1> QED
  BY <1>1, <1>4 DEF ReturnedInv

LEMMA LineKept ==
  ASSUME ConsoleInv, typed' \in Seq(Chars), Len(typed) <= Len(typed'), \A i \in 1 .. Len(typed) : typed'[i] = typed[i],
         Taken' = Taken, UNCHANGED <<bufsize, buf, n, returned>>
  PROVE  LineInv'
<1>1. /\ typed \in Seq(Chars) /\ Len(typed) \in Nat /\ bufsize \in Nat \ {0} /\ Taken \in Nat /\ Taken <= Len(typed)
      /\ Start \in Nat /\ Start + n = Taken /\ n \in Nat
  BY ConsoleFacts
<1>2. Start' = Start
  BY DEF Start
<1>3. /\ (NewlinesTo(Start))' = NewlinesTo(Start)
      /\ (Holds(buf, Start, n))'
  <2>1. PICK s \in Nat, m \in Nat, t \in {buf} : s = Start /\ m = n /\ t = buf
    BY <1>1
  <2>2. s \in 0 .. Len(typed) /\ s + m <= Len(typed) /\ Holds(t, s, m)
    BY <1>1, <2>1 DEF ConsoleInv, LineInv
  <2>3. (NewlinesTo(s))' = NewlinesTo(s) /\ (Holds(t, s, m))'
    BY <1>1, <2>1, <2>2, TypedGrows
  <2> QED
    BY <1>2, <2>1, <2>3 DEF NewlinesTo, Holds, Fits
<1>4. (Start > 0 => typed'[Start] = NL) /\ \A j \in Start + 1 .. Taken : typed'[j] # NL
  BY <1>1 DEF ConsoleInv, LineInv
<1> QED
  BY <1>1, <1>2, <1>3, <1>4 DEF ConsoleInv, LineInv

LEMMA ArrivesInv ==
  ASSUME ConsoleInv, NEW c \in Chars, size < Depth, rx_fifo_write(c), typed' = Append(typed, c),
         UNCHANGED <<fifo_on, driverVars>>
  PROVE  ConsoleInv'
<1>1. /\ typed \in Seq(Chars) /\ Len(typed) \in Nat /\ size \in Nat /\ Taken \in Nat /\ Taken + size = Len(typed)
      /\ Queue \in Seq(Chars) /\ Len(Queue) = size
  BY ConsoleFacts
<1>2. ~Full
  BY UartAssumption DEF Full, ConsoleInv, InputInv, RingInv
<1>3. /\ data' = [data EXCEPT ![wr_ptr] = c] /\ size' = size + 1 /\ wr_ptr' = Inc(wr_ptr) /\ rd_ptr' = rd_ptr
  BY <1>2 DEF rx_fifo_write
<1>4. RingInv' /\ Queue' = Append(Queue, c)
  BY <1>3, RingWritten DEF ConsoleInv, InputInv
<1>5. /\ typed' \in Seq(Chars) /\ Len(typed') = Len(typed) + 1 /\ typed'[Len(typed) + 1] = c
      /\ \A i \in 1 .. Len(typed) : typed'[i] = typed[i]
  BY <1>1
<1>6. Taken' = Taken
  BY <1>1, <1>3, <1>5 DEF Taken
<1>7. \A k \in 1 .. size' : Queue'[k] = typed'[Taken' + k]
  <2> SUFFICES ASSUME NEW k \in 1 .. size + 1 PROVE Queue'[k] = typed'[Taken + k]
    BY <1>3, <1>6
  <2>1. CASE k = size + 1
    BY <1>1, <1>4, <1>5, <2>1
  <2>2. CASE k \in 1 .. size
    <3>1. Queue'[k] = Queue[k]
      BY <1>1, <1>4, <2>2
    <3>2. Taken + k \in 1 .. Len(typed)
      BY <1>1, <2>2
    <3> QED
      BY <1>5, <2>2, <3>1, <3>2 DEF ConsoleInv, InputInv
  <2> QED
    BY <1>1, <2>1, <2>2
<1>8. InputInv'
  <2>1. size' > 0 /\ size' <= Len(typed')
    BY <1>1, <1>3, <1>5
  <2> QED
    BY <1>4, <1>5, <1>7, <2>1 DEF ConsoleInv, InputInv
<1>9. Len(typed) <= Len(typed') /\ UNCHANGED <<bufsize, buf, n, returned>>
  BY <1>1, <1>5 DEF driverVars
<1>10. LineInv'
  BY <1>5, <1>6, <1>9, LineKept
<1>11. ReturnedInv'
  BY <1>5, <1>9, ReturnedKept
<1> QED
  BY <1>8, <1>10, <1>11 DEF ConsoleInv

LEMMA SameInput ==
  ASSUME ConsoleInv, UNCHANGED <<data, rd_ptr, wr_ptr, size, fifo_on, typed>>, at' = "rbr" => size > 0
  PROVE  InputInv' /\ Taken' = Taken
<1>1. RingInv' /\ Queue' = Queue
  BY DEF ConsoleInv, InputInv, RingInv, Queue
<1>2. Taken' = Taken
  BY DEF Taken
<1> QED
  BY <1>1, <1>2 DEF ConsoleInv, InputInv

LEMMA PollInv ==
  ASSUME ConsoleInv, UNCHANGED <<data, rd_ptr, wr_ptr, size, fifo_on, typed, bufsize, buf, n, returned>>,
         at' = "rbr" => size > 0
  PROVE  ConsoleInv'
<1>1. InputInv' /\ Taken' = Taken
  BY SameInput
<1>2. typed' \in Seq(Chars) /\ Len(typed) <= Len(typed') /\ \A i \in 1 .. Len(typed) : typed'[i] = typed[i]
  <2>1. Len(typed) \in Nat /\ typed \in Seq(Chars)
    BY ConsoleFacts
  <2> QED
    BY <2>1
<1>3. LineInv'
  BY <1>1, <1>2, LineKept
<1>4. ReturnedInv'
  BY <1>2, ReturnedKept
<1> QED
  BY <1>1, <1>3, <1>4 DEF ConsoleInv

(* The character that uart_getchar returns is the next one typed.          *)
LEMMA TakenNext ==
  ASSUME ConsoleInv, at = "rbr", ReadRbr, at' = "lsr", typed' = typed
  PROVE  InputInv' /\ Taken' = Taken + 1 /\ last' = typed[Taken + 1] /\ Taken + 1 \in 1 .. Len(typed)
<1>1. /\ typed \in Seq(Chars) /\ Len(typed) \in Nat /\ size \in 0 .. Depth /\ Taken \in Nat /\ Taken + size = Len(typed)
      /\ Queue \in Seq(Chars) /\ Len(Queue) = size /\ Depth \in Nat
  BY ConsoleFacts
<1>2. size > 0
  BY DEF ConsoleInv, InputInv
<1>3. /\ last' = data[rd_ptr] /\ size' = size - 1 /\ rd_ptr' = Inc(rd_ptr)
      /\ UNCHANGED <<data, wr_ptr>> /\ fifo_on' = fifo_on
  BY <1>2 DEF ReadRbr, rx_fifo_read, ctrlVars
<1>4. RingInv' /\ Queue # <<>> /\ last' = Head(Queue) /\ Queue' = Tail(Queue)
  BY <1>2, <1>3, RingRead DEF ConsoleInv, InputInv
<1>5. last' = Queue[1] /\ \A k \in 1 .. size - 1 : Queue'[k] = Queue[k + 1]
  BY <1>1, <1>2, <1>4
<1>6. \A k \in 1 .. size : Queue[k] = typed[Taken + k]
  BY DEF ConsoleInv, InputInv
<1>7. Taken' = Taken + 1
  BY <1>1, <1>3 DEF Taken
<1>8. last' = typed[Taken + 1] /\ Taken + 1 \in 1 .. Len(typed)
  BY <1>1, <1>2, <1>5, <1>6
<1>9. \A k \in 1 .. size' : Queue'[k] = typed'[Taken' + k]
  <2> SUFFICES ASSUME NEW k \in 1 .. size - 1 PROVE Queue'[k] = typed[(Taken + 1) + k]
    BY <1>3, <1>7
  <2>1. k + 1 \in 1 .. size /\ Taken + (k + 1) = (Taken + 1) + k
    BY <1>1
  <2>2. Queue[k + 1] = typed[Taken + (k + 1)]
    BY <1>6, <2>1
  <2> QED
    BY <1>5, <2>1, <2>2
<1>10. size' <= Len(typed')
  BY <1>1, <1>3
<1>11. InputInv'
  BY <1>3, <1>4, <1>9, <1>10 DEF ConsoleInv, InputInv
<1> QED
  BY <1>7, <1>8, <1>11

LEMMA EndOfLine ==
  ASSUME ConsoleInv, InputInv', Taken' = Taken + 1, typed[Taken + 1] = NL, Taken + 1 \in 1 .. Len(typed), typed' = typed,
         returned' = Append(returned, [text |-> buf, count |-> n]), buf' = <<>>, n' = 0, bufsize' = bufsize
  PROVE  ConsoleInv'
<1>1. /\ typed \in Seq(Chars) /\ Len(typed) \in Nat /\ bufsize \in Nat \ {0} /\ Taken \in Nat
      /\ Start \in Nat /\ Start + n = Taken /\ n \in Nat /\ Len(returned) \in Nat
  BY ConsoleFacts
<1>2. Start' = Taken + 1
  BY <1>1 DEF Start
<1>3. /\ Cardinality(NewlinesTo(Start)) = Len(returned) /\ (Start > 0 => typed[Start] = NL)
      /\ \A j \in Start + 1 .. Taken : typed[j] # NL
      /\ Holds(buf, Start, n)
  BY DEF ConsoleInv, LineInv
<1>4. Cardinality(NewlinesTo(Taken + 1)) = Len(returned) + 1
  <2>1. NewlinesTo(Taken) = NewlinesTo(Start)
    BY <1>1, <1>3, NoNewlines
  <2>2. NewlinesTo(Taken + 1) = NewlinesTo(Taken) \cup {Taken + 1} /\ Taken + 1 \notin NewlinesTo(Taken)
    BY <1>1 DEF NewlinesTo
  <2>3. IsFiniteSet(NewlinesTo(Start))
    BY <1>1, NewlinesFinite
  <2> QED
    BY <1>3, <2>1, <2>2, <2>3, FS_AddElement
<1>5. Ends(Start, Len(returned)) /\ Ends(Taken + 1, Len(returned) + 1)
  BY <1>1, <1>3, <1>4 DEF Ends
<1> DEFINE r == [text |-> buf, count |-> n]
<1>6. RightLine(r, Len(returned) + 1)
  <2>1. r.count = (Taken + 1) - Start - 1 /\ r.text = buf /\ r.count = n
    BY <1>1
  <2>2. Start \in 0 .. Len(typed) /\ Taken + 1 \in 0 .. Len(typed)
    BY <1>1
  <2>3. Ends(Start, (Len(returned) + 1) - 1)
    BY <1>1, <1>5
  <2>4. Holds(r.text, Start, r.count)
    BY <1>3, <2>1
  <2> HIDE DEF r
  <2> QED
    BY <1>5, <2>1, <2>2, <2>3, <2>4 DEF RightLine
<1>7. r \in [text : Seq(Chars), count : Nat]
  BY <1>1, <1>3 DEF Holds
<1>8. returned \in Seq([text : Seq(Chars), count : Nat]) /\ \A k \in 1 .. Len(returned) : RightLine(returned[k], k)
  BY DEF ConsoleInv, ReturnedInv
<1> HIDE DEF r
<1>9. /\ returned' \in Seq([text : Seq(Chars), count : Nat]) /\ Len(returned') = Len(returned) + 1
      /\ \A k \in 1 .. Len(returned) : returned'[k] = returned[k]
      /\ returned'[Len(returned) + 1] = r
  <2>1. returned' = Append(returned, r)
    BY DEF r
  <2> QED
    BY <1>7, <1>8, <2>1, AppendProperties
<1>10. \A k \in 1 .. Len(returned') : RightLine(returned'[k], k)
  <2> SUFFICES ASSUME NEW k \in 1 .. Len(returned) + 1 PROVE RightLine(returned'[k], k)
    BY <1>9
  <2>1. CASE k \in 1 .. Len(returned)
    BY <1>8, <1>9, <2>1
  <2>2. CASE k = Len(returned) + 1
    BY <1>6, <1>9, <2>2
  <2> QED
    BY <1>1, <2>1, <2>2
<1>11. ReturnedInv'
  <2> SUFFICES ASSUME NEW k \in 1 .. Len(returned') PROVE RightLine(returned[k], k)'
    BY <1>9 DEF ReturnedInv
  <2>1. RightLine(returned'[k], k)
    BY <1>10
  <2> QED
    BY <2>1 DEF RightLine, Ends, Holds, Fits, NewlinesTo
<1>12. LineInv'
  <2>1. n' \in Nat /\ bufsize' \in Nat \ {0} /\ n' <= Taken'
    BY <1>1
  <2>2. (Cardinality(NewlinesTo(Start)))' = Len(returned') /\ typed'[Start'] = NL
    BY <1>2, <1>4, <1>9 DEF NewlinesTo
  <2>3. \A j \in Start' + 1 .. Taken' : typed'[j] # NL
    BY <1>1, <1>2
  <2>4. (Fits(n))' = 0
    BY <1>1 DEF Fits
  <2>5. (Holds(buf, Start, n))'
    BY <2>4 DEF Holds
  <2> QED
    BY <2>1, <2>2, <2>3, <2>5 DEF LineInv
<1> QED
  BY <1>11, <1>12 DEF ConsoleInv

LEMMA OneMore ==
  ASSUME ConsoleInv, InputInv', Taken' = Taken + 1, typed[Taken + 1] # NL, Taken + 1 \in 1 .. Len(typed), typed' = typed,
         returned' = returned, buf' = StoreChar(typed[Taken + 1]), n' = n + 1, bufsize' = bufsize
  PROVE  ConsoleInv'
<1>1. /\ typed \in Seq(Chars) /\ Len(typed) \in Nat /\ bufsize \in Nat \ {0} /\ Taken \in Nat
      /\ Start \in Nat /\ Start + n = Taken /\ n \in Nat
  BY ConsoleFacts
<1>2. Start' = Start
  BY <1>1 DEF Start
<1>3. /\ Cardinality(NewlinesTo(Start)) = Len(returned) /\ (Start > 0 => typed[Start] = NL)
      /\ \A j \in Start + 1 .. Taken : typed[j] # NL
      /\ buf \in Seq(Chars) /\ Len(buf) = Fits(n) /\ \A j \in 1 .. Fits(n) : buf[j] = typed[Start + j]
  BY DEF ConsoleInv, LineInv, Holds
<1>4. (Fits(n))' = IF n + 1 < bufsize THEN n + 1 ELSE bufsize - 1
  BY DEF Fits
<1>5. (Holds(buf, Start, n))'
  <2>1. CASE n < bufsize - 1
    <3>1. Fits(n) = n /\ (Fits(n))' = n + 1
      BY <1>1, <1>4, <2>1 DEF Fits
    <3>2. buf' = Append(buf, typed[Taken + 1]) /\ typed[Taken + 1] \in Chars
      BY <1>1, <2>1 DEF StoreChar
    <3>3. buf' \in Seq(Chars) /\ Len(buf') = n + 1 /\ buf'[n + 1] = typed[Start + (n + 1)] /\ \A j \in 1 .. n : buf'[j] = buf[j]
      <4>1. Start + (n + 1) = Taken + 1
        BY <1>1
      <4> QED
        BY <1>1, <1>3, <3>1, <3>2, <4>1
    <3>4. \A j \in 1 .. n + 1 : buf'[j] = typed[Start + j]
      <4> SUFFICES ASSUME NEW j \in 1 .. n + 1 PROVE buf'[j] = typed[Start + j]
        OBVIOUS
      <4>1. j = n + 1 \/ j \in 1 .. n
        BY <1>1
      <4> QED
        BY <1>3, <3>1, <3>3, <4>1
    <3> QED
      BY <1>2, <3>1, <3>3, <3>4 DEF Holds
  <2>2. CASE ~(n < bufsize - 1)
    <3>1. (Fits(n))' = Fits(n) /\ buf' = buf
      BY <1>1, <1>4, <2>2 DEF Fits, StoreChar
    <3> QED
      BY <1>2, <1>3, <3>1 DEF Holds
  <2> QED
    BY <2>1, <2>2
<1>6. LineInv'
  <2>1. n' \in Nat /\ bufsize' \in Nat \ {0} /\ n' <= Taken'
    BY <1>1
  <2>2. (Cardinality(NewlinesTo(Start)))' = Len(returned') /\ (Start' > 0 => typed'[Start'] = NL)
    BY <1>2, <1>3 DEF NewlinesTo
  <2>3. \A j \in Start' + 1 .. Taken' : typed'[j] # NL
    <3> SUFFICES ASSUME NEW j \in Start + 1 .. Taken + 1 PROVE typed[j] # NL
      BY <1>2
    <3>1. j = Taken + 1 \/ j \in Start + 1 .. Taken
      BY <1>1
    <3> QED
      BY <1>3, <3>1
  <2> QED
    BY <1>5, <2>1, <2>2, <2>3 DEF LineInv
<1>7. ReturnedInv'
  BY <1>1, ReturnedKept
<1> QED
  BY <1>6, <1>7 DEF ConsoleInv

LEMMA ConsoleStep == ConsoleInv /\ [ConsoleNext]_consoleVars => ConsoleInv'
<1> SUFFICES ASSUME ConsoleInv, [ConsoleNext]_consoleVars PROVE ConsoleInv'
  OBVIOUS
<1>1. CASE UNCHANGED consoleVars
  <2>1. UNCHANGED <<data, rd_ptr, wr_ptr, size, fifo_on, typed, bufsize, buf, n, returned>> /\ at' = at
    BY <1>1 DEF consoleVars, uartVars, driverVars
  <2> QED
    BY <2>1, PollInv DEF ConsoleInv, InputInv
<1>2. CASE ConsoleAccess /\ PollLsr
  <2>1. UNCHANGED <<data, rd_ptr, wr_ptr, size, fifo_on, typed, bufsize, buf, n, returned>>
    BY <1>2 DEF ConsoleAccess, PollLsr, ReadLsr, ctrlVars
  <2>2. at' = "rbr" => size > 0
    BY <1>2 DEF PollLsr
  <2> QED
    BY <2>1, <2>2, PollInv
<1>3. CASE ConsoleAccess /\ TakeChar
  <2>1. at = "rbr" /\ ReadRbr /\ at' = "lsr" /\ typed' = typed /\ bufsize' = bufsize
    BY <1>3 DEF ConsoleAccess, TakeChar
  <2>2. InputInv' /\ Taken' = Taken + 1 /\ last' = typed[Taken + 1] /\ Taken + 1 \in 1 .. Len(typed)
    BY <2>1, TakenNext
  <2>3. CASE last' = NL
    BY <1>3, <2>1, <2>2, <2>3, EndOfLine DEF TakeChar
  <2>4. CASE last' # NL
    BY <1>3, <2>1, <2>2, <2>4, OneMore DEF TakeChar
  <2> QED
    BY <2>3, <2>4
<1>4. CASE ConsoleDevice
  <2>1. UNCHANGED fifo_on /\ UNCHANGED driverVars
    BY <1>4 DEF ConsoleDevice, ctrlVars
  <2>2. ASSUME NEW c \in Chars, size < Depth, rx_fifo_write(c), typed' = Append(typed, c) PROVE ConsoleInv'
    BY <2>1, <2>2, ArrivesInv
  <2>3. CASE UNCHANGED <<rxVars, typed>>
    <3>1. UNCHANGED <<data, rd_ptr, wr_ptr, size, fifo_on, typed, bufsize, buf, n, returned>> /\ at' = at
      BY <2>1, <2>3 DEF rxVars, driverVars
    <3> QED
      BY <3>1, PollInv DEF ConsoleInv, InputInv
  <2> QED
    BY <1>4, <2>2, <2>3 DEF ConsoleDevice
<1>5. CASE ConsoleCompute
  <2>1. UNCHANGED <<data, rd_ptr, wr_ptr, size, fifo_on, typed, bufsize, buf, n, returned>> /\ at' = at
    BY <1>5 DEF ConsoleCompute, NoAccess, rxVars, ctrlVars, driverVars
  <2> QED
    BY <2>1, PollInv DEF ConsoleInv, InputInv
<1> QED
  BY <1>1, <1>2, <1>3, <1>4, <1>5 DEF ConsoleNext, ConsoleAccess

LEMMA ConsoleStart == ConsoleInit => ConsoleInv
<1> SUFFICES ASSUME ConsoleInit PROVE ConsoleInv
  OBVIOUS
<1>1. RingInv
  BY UartInitInv DEF ConsoleInit, UartInv
<1>2. typed = <<>> /\ size = 0 /\ n = 0 /\ buf = <<>> /\ returned = <<>> /\ at = "lsr" /\ fifo_on = TRUE
  BY DEF ConsoleInit, UartInit
<1>3. Taken = 0 /\ Start = 0 /\ Len(typed) = 0
  BY <1>2 DEF Taken, Start
<1>4. InputInv
  BY <1>1, <1>2, <1>3, ConsoleAssumption DEF InputInv
<1>5. bufsize \in Nat \ {0}
  BY ConsoleAssumption DEF ConsoleInit
<1>6. Cardinality(NewlinesTo(Start)) = 0
  BY <1>3, FS_EmptySet DEF NewlinesTo
<1>7. Holds(buf, Start, n)
  BY <1>2, <1>5 DEF Holds, Fits
<1>8. LineInv
  BY <1>2, <1>3, <1>5, <1>6, <1>7 DEF LineInv
<1>9. ReturnedInv
  BY <1>2 DEF ReturnedInv
<1> QED
  BY <1>4, <1>8, <1>9 DEF ConsoleInv

(* Every line the bare-metal uart_readline returns is the line the user    *)
(* typed, cut to its buffer and counted in full, for every buffer, every   *)
(* depth of the ring and every speed of typing.                            *)
THEOREM ConsoleLinesAsTyped == ConsoleSpec => []LinesAsTyped
  BY ConsoleStart, ConsoleStep, LinesRight, PTL DEF ConsoleSpec
=============================================================================
