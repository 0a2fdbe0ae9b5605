------------------------------ MODULE Console ------------------------------
(***************************************************************************)
(* The bare-metal console (software/baremetal/drivers/uart16550) on the    *)
(* UART of the emulator: a program that reads line after line with         *)
(* uart_readline, with any number of instructions between two register     *)
(* accesses, while a user types at any speed.  uart_getchar polls LSR.DR   *)
(* and then reads RBR; nothing else touches the UART.                      *)
(***************************************************************************)
EXTENDS Uart16550, FiniteSets

CONSTANTS
  NL,           \* '\n'
  MaxTyped,     \* bound on the characters a user types
  BufSizes      \* the sizes a caller gives its buffer

ASSUME ConsoleAssumption == NL \in Chars /\ MaxTyped \in Nat /\ BufSizes \subseteq Nat \ {0}

VARIABLES
  at,           \* where uart_getchar is: "lsr" or "rbr"
  bufsize,      \* size
  buf, n,       \* the characters stored, and counted, of the line so far
  returned,     \* history: what every uart_readline returned
  typed         \* history: every character that arrived

driverVars == <<at, bufsize, buf, n, returned>>
consoleVars == <<uartVars, driverVars, typed>>

(* uart_readline with size 0 returns at once; a caller gives it more.      *)
ConsoleInit ==
  /\ UartInit
  /\ at = "lsr" /\ bufsize \in BufSizes
  /\ buf = <<>> /\ n = 0
  /\ returned = <<>> /\ typed = <<>>

(* while (LSR.DR == 0);                                                    *)
PollLsr ==
  /\ at = "lsr" /\ ReadLsr
  /\ at' = IF size > 0 THEN "rbr" ELSE "lsr"
  /\ UNCHANGED <<bufsize, buf, n, returned>>

StoreOneMore(c) == IF n < bufsize THEN Append(buf, c) ELSE buf    \* mutant: no room left for the NUL

StoreChar(c) == IF n < bufsize - 1 THEN Append(buf, c) ELSE buf

(* c = uart_getchar, and the body of the loop of uart_readline.            *)
TakeChar ==
  /\ at = "rbr" /\ ReadRbr
  /\ at' = "lsr"
  /\ IF last' = NL
     THEN /\ returned' = Append(returned, [text |-> buf, count |-> n])
          /\ buf' = <<>> /\ n' = 0
     ELSE /\ buf' = StoreChar(last') /\ n' = n + 1
          /\ UNCHANGED returned
  /\ UNCHANGED bufsize

ConsoleAccess ==
  /\ mover = "guest" /\ mover' = "devices"
  /\ PollLsr \/ TakeChar
  /\ UNCHANGED typed

(* An instruction of the driver or of its caller between two accesses.     *)
ConsoleCompute ==
  /\ mover = "guest" /\ mover' = "devices"
  /\ NoAccess
  /\ UNCHANGED <<driverVars, typed>>

(* The devices' turn.  Input is only polled while the ring has room, and   *)
(* the driver leaves the FIFO on, so the ring takes every character.       *)
ConsoleDevice ==
  /\ mover = "devices" /\ mover' = "guest"
  /\ \/ \E c \in Chars :
          /\ Len(typed) < MaxTyped /\ size < Depth
          /\ rx_fifo_write(c) /\ typed' = Append(typed, c)
     \/ UNCHANGED <<rxVars, typed>>
  /\ uart16550_irq_level
  /\ UNCHANGED <<ctrlVars, last, driverVars>>

ConsoleNext == ConsoleAccess \/ ConsoleCompute \/ ConsoleDevice

ConsoleSpec == ConsoleInit /\ [][ConsoleNext]_consoleVars

-----------------------------------------------------------------------------
(* What was typed, by lines: the newlines up to position i, the position   *)
(* that ends line k, and the line without its newline.                     *)
NewlinesTo(i) == {j \in 1 .. i : typed[j] = NL}

EndsLine(i, k) == i \in DOMAIN typed /\ typed[i] = NL /\ Cardinality(NewlinesTo(i)) = k

LineEnd(k) == IF k = 0 THEN 0 ELSE CHOOSE i \in DOMAIN typed : EndsLine(i, k)

Line(k) == SubSeq(typed, LineEnd(k - 1) + 1, LineEnd(k) - 1)

LineCount == Cardinality(NewlinesTo(Len(typed)))

(* What of so many characters fits into the buffer, before the NUL.        *)
Fits(len) == IF len < bufsize THEN len ELSE bufsize - 1

(* Every line uart_readline returns is the line that was typed, cut to     *)
(* size - 1 characters and counted in full, however the polling falls      *)
(* between the arrivals: no character is lost, repeated or carried into    *)
(* the next line (uart16550.c 43-62 of the driver, 62-97, 269 of the       *)
(* device).                                                                *)
LinesAsTyped ==
  /\ Len(returned) <= LineCount
  /\ \A k \in 1 .. Len(returned) :
       /\ returned[k].count = Len(Line(k))
       /\ returned[k].text = SubSeq(Line(k), 1, Fits(Len(Line(k))))

(* Every line that is ended is returned: the poll sees each character that *)
(* waits in the ring, and one that waits keeps no other from arriving.     *)
LinesReturned ==
  \A k \in 1 .. MaxTyped : LineCount >= k ~> Len(returned) >= k
=============================================================================
