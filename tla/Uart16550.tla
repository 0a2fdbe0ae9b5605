------------------------------ MODULE Uart16550 ------------------------------
(***************************************************************************)
(* The UART of the emulator (emulator/src/device/uart16550.c): the receive *)
(* ring buffer, FIFO control, and the interrupt identification.  Steps     *)
(* alternate as in cpu_exec: one instruction of the guest, which may       *)
(* access a register, then device_update and device_irq_level.             *)
(*                                                                         *)
(* The transmitter sends a character at once and keeps no state; the       *)
(* divisor, modem and scratch registers are plain storage and left out, as *)
(* is rx_fifo.underrun, which nothing reads.                               *)
(***************************************************************************)
EXTENDS Naturals, Sequences

CONSTANTS
  Depth,                   \* 16, the slots of the ring
  fifo_interrupt_level,    \* FCR[7:6] -> characters that trigger an interrupt
  Chars,                   \* what arrives on stdin
  NUL,                     \* what an empty receiver buffer reads as
  Iers                     \* the values the guest may give IER, sets of its bits

ASSUME UartAssumption ==
  /\ Depth \in Nat \ {0}
  /\ fifo_interrupt_level \in [0 .. 3 -> Nat]
  /\ Iers \subseteq SUBSET {"ERBFI", "ETBEI", "ELSI"}

VARIABLES
  data, rd_ptr, wr_ptr, size,   \* rx_fifo
  overrun,                      \* rx_fifo.overrun
  fifo_on, trigger,             \* FCR[0], FCR[7:6]
  dlab, ier,                    \* LCR[7], IER
  iir,                          \* IIR: [pending, id, fifos]
  last,                         \* what the last read of RBR returned
  mover                         \* who moves: "guest" or "devices"

rxVars   == <<data, rd_ptr, wr_ptr, size, overrun>>
ctrlVars == <<fifo_on, trigger, dlab, ier>>
uartVars == <<data, rd_ptr, wr_ptr, size, overrun, fifo_on, trigger, dlab, ier, iir, last, mover>>

Slots == 0 .. Depth - 1
Inc(ptr) == (ptr + 1) % Depth

-----------------------------------------------------------------------------
rx_fifo_clear ==
  /\ size' = 0 /\ wr_ptr' = 0 /\ rd_ptr' = 0
  /\ overrun' = FALSE
  /\ UNCHANGED data

Full == IF fifo_on THEN size = Depth ELSE size = 1

rx_fifo_write(c) ==
  \/ /\ Full
     /\ overrun' = TRUE
     /\ UNCHANGED <<data, rd_ptr, wr_ptr, size>>
  \/ /\ ~Full
     /\ data' = [data EXCEPT ![wr_ptr] = c]
     /\ size' = size + 1
     /\ wr_ptr' = Inc(wr_ptr)
     /\ UNCHANGED <<rd_ptr, overrun>>

FifoReadAfterInc ==                            \* mutant: the pointer moves before the read
  \/ size = 0 /\ last' = NUL /\ UNCHANGED rxVars
  \/ /\ size > 0
     /\ last' = data[Inc(rd_ptr)]
     /\ size' = size - 1 /\ rd_ptr' = Inc(rd_ptr)
     /\ UNCHANGED <<data, wr_ptr, overrun>>

rx_fifo_read ==
  \/ /\ size = 0
     /\ last' = NUL
     /\ UNCHANGED rxVars
  \/ /\ size > 0
     /\ last' = data[rd_ptr]
     /\ size' = size - 1
     /\ rd_ptr' = Inc(rd_ptr)
     /\ UNCHANGED <<data, wr_ptr, overrun>>

-----------------------------------------------------------------------------
(* Guest accesses.                                                         *)

(* By a reboot command, which takes effect before the devices' turn.       *)
uart16550_reset ==
  /\ rx_fifo_clear
  /\ fifo_on' = TRUE /\ trigger' = 3
  /\ dlab' = FALSE /\ ier' = {}
  /\ iir' = [pending |-> FALSE, id |-> 0, fifos |-> TRUE]
  /\ UNCHANGED last

WriteIer(bits) ==
  /\ ~dlab
  /\ ier' = bits
  /\ UNCHANGED <<rxVars, fifo_on, trigger, dlab, iir, last>>

WriteFcr(enable, clear, level) ==
  /\ IF enable # fifo_on \/ clear THEN rx_fifo_clear ELSE UNCHANGED rxVars
  /\ fifo_on' = enable /\ trigger' = level
  /\ UNCHANGED <<dlab, ier, iir, last>>

WriteLcr(b) ==
  /\ dlab' = b
  /\ UNCHANGED <<rxVars, fifo_on, trigger, ier, iir, last>>

ReadRbr ==
  /\ ~dlab
  /\ rx_fifo_read
  /\ UNCHANGED <<ctrlVars, iir>>

ReadLsr ==
  /\ overrun' = FALSE
  /\ UNCHANGED <<data, rd_ptr, wr_ptr, size, ctrlVars, iir, last>>

(* Any other instruction, and accesses to registers without effect.        *)
NoAccess == UNCHANGED <<rxVars, ctrlVars, iir, last>>

GuestStep ==
  /\ mover = "guest" /\ mover' = "devices"
  /\ \/ \E bits \in Iers : WriteIer(bits)
     \/ \E enable, clear \in BOOLEAN, level \in 0 .. 3 : WriteFcr(enable, clear, level)
     \/ \E b \in BOOLEAN : WriteLcr(b)
     \/ ReadRbr
     \/ ReadLsr
     \/ NoAccess
     \/ uart16550_reset

-----------------------------------------------------------------------------
(* The devices' turn.                                                      *)

(* stdin is only read while the ring has space, whatever the mode.         *)
uart16550_poll_input ==
  \/ size < Depth /\ \E c \in Chars : rx_fifo_write(c)
  \/ UNCHANGED rxVars         \* no input, end of file

CausesNoTimeout(sz, ovr, on, lvl, en) ==       \* mutant: characters below the trigger level wait
  [rls |-> "ELSI" \in en /\ ovr,
   rda |-> "ERBFI" \in en /\ sz >= (IF on THEN fifo_interrupt_level[lvl] ELSE 1),
   cti |-> FALSE,
   thre |-> "ETBEI" \in en]

(* The causes of an interrupt, by their IIR code, highest priority first.  *)
(* Without a timer the character timeout is due as soon as there is data.  *)
Causes(sz, ovr, on, lvl, en) ==
  [rls |-> "ELSI" \in en /\ ovr,
   rda |-> "ERBFI" \in en /\ sz >= (IF on THEN fifo_interrupt_level[lvl] ELSE 1),
   cti |-> "ERBFI" \in en /\ sz > 0,
   thre |-> "ETBEI" \in en]

Identify(c, old) ==
  CASE c.rls -> 3 [] ~c.rls /\ c.rda -> 2 [] ~c.rls /\ ~c.rda /\ c.cti -> 6
    [] ~c.rls /\ ~c.rda /\ ~c.cti /\ c.thre -> 1 [] OTHER -> old

level == iir.pending        \* what irq_level returned last

uart16550_irq_level ==
  LET c == Causes(size', overrun', fifo_on, trigger, ier)
  IN  iir' = [pending |-> c.rls \/ c.rda \/ c.cti \/ c.thre,
              id |-> Identify(c, iir.id), fifos |-> fifo_on]

DeviceStep ==
  /\ mover = "devices" /\ mover' = "guest"
  /\ uart16550_poll_input
  /\ uart16550_irq_level
  /\ UNCHANGED <<ctrlVars, last>>

(* malloc leaves the ring uninitialised, and so does reset.                *)
UartInit ==
  /\ data \in [Slots -> Chars]
  /\ rd_ptr = 0 /\ wr_ptr = 0 /\ size = 0 /\ overrun = FALSE
  /\ fifo_on = TRUE /\ trigger = 3
  /\ dlab = FALSE /\ ier = {}
  /\ iir = [pending |-> FALSE, id |-> 0, fifos |-> TRUE]
  /\ last = NUL
  /\ mover = "guest"

UartNext == GuestStep \/ DeviceStep

UartSpec == UartInit /\ [][UartNext]_uartVars

-----------------------------------------------------------------------------
(* The guest always finds the interrupt level in agreement with the        *)
(* buffer: when it has enabled the receive interrupt and there is a        *)
(* character, the level is up, below the trigger level too; so a guest     *)
(* that sleeps until the interrupt never misses the tail of its input.     *)
DataRaisesLevel ==
  mover = "guest" /\ "ERBFI" \in ier /\ size > 0 => level /\ iir.id \in {2, 3, 6}

(* The ring implements the bounded queue.                                  *)
Queue == [k \in 1 .. size |-> data[(rd_ptr + k - 1) % Depth]]

Rx == INSTANCE RxQueue WITH q <- Queue, on <- fifo_on, oe <- overrun, got <- last

(* The guest reads the characters in the order they arrived, none twice,   *)
(* none invented, and none is lost unless overrun says so.                 *)
IsRxQueue == Rx!QSpec
=============================================================================
