------------------------------- MODULE MCLrsc -------------------------------
(* Two threads of one address space and one of another, at the same        *)
(* address, and a fourth that uses AMO; or one guest that issues LR and SC *)
(* of both sizes anywhere.                                                 *)
EXTENDS LrscThreads

MCSpace == [t \in Threads |-> IF t = "c" THEN "s2" ELSE "s1"]
MCFrame == [s \in {"s1", "s2"} |-> IF s = "s1" THEN "p" ELSE "q"]

(* The addresses of the guests are those of the theorems.                 *)
ASSUME MCAwayFromZero == AwayFromZero /\ RoomAt(CounterVa, Size)

VARIABLE guest

GuestInit == Init /\ guest \in {"threads", "any"}

GuestNext ==
  \/ guest = "threads" /\ Next /\ UNCHANGED guest
  \/ guest = "any" /\ AnyNext /\ UNCHANGED <<threadVars, guest>>

GuestSpec ==
  GuestInit /\ [][GuestNext]_<<vars, guest>>
    /\ \A t \in Threads : WF_<<vars, guest>>(guest = "threads" /\ ThreadStep(t) /\ UNCHANGED guest)
                       /\ WF_<<vars, guest>>(guest = "threads" /\ Yield(t) /\ UNCHANGED guest)

(* Every thread finishes: see LrscThreads.                                 *)
ThreadsFinish == guest = "threads" => AllFinish
=============================================================================
