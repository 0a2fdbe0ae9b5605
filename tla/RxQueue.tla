------------------------------- MODULE RxQueue -------------------------------
(***************************************************************************)
(* What the receive side of the UART promises to the guest: a bounded      *)
(* queue of characters in arrival order.  With the FIFO on it holds Depth  *)
(* characters and takes no more than fit; with the FIFO off it holds one,  *)
(* and a character that arrives in between is dropped and reported.        *)
(***************************************************************************)
EXTENDS Naturals, Sequences

CONSTANTS Depth, Chars, NUL

VARIABLES
  q,       \* the characters received and not yet read
  on,      \* the FIFO is enabled
  oe,      \* a character was dropped since the status was last read
  got      \* what the last read of the receiver buffer returned

queueVars == <<q, on, oe, got>>

QInit == q = <<>> /\ on = TRUE /\ oe = FALSE /\ got = NUL

Arrive(c) == Len(q) < (IF on THEN Depth ELSE 1) /\ q' = Append(q, c) /\ UNCHANGED <<on, oe, got>>

Drop == ~on /\ Len(q) = 1 /\ oe' = TRUE /\ UNCHANGED <<q, on, got>>

Read == q # <<>> /\ got' = Head(q) /\ q' = Tail(q) /\ UNCHANGED <<on, oe>>

ReadEmpty == q = <<>> /\ got' = NUL /\ UNCHANGED <<q, on, oe>>

Status == oe' = FALSE /\ UNCHANGED <<q, on, got>>

(* Emptied on request, and whenever the FIFO is switched on or off.        *)
Clear == q' = <<>> /\ oe' = FALSE /\ on' \in BOOLEAN /\ UNCHANGED got

QNext == (\E c \in Chars : Arrive(c)) \/ Drop \/ Read \/ ReadEmpty \/ Status \/ Clear

QSpec == QInit /\ [][QNext]_queueVars
=============================================================================
