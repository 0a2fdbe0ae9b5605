------------------------------- MODULE MCUart -------------------------------
(* A ring of three slots, so that it wraps at an odd place, and trigger    *)
(* levels below, at and above what it can hold with the FIFO off.  Two     *)
(* guests: any sequence of accesses, and the bare-metal console.           *)
EXTENDS Console

VARIABLE guest

MCLevels == <<1, 2, 2, 3>>
MCTrigger == [t \in 0 .. 3 |-> MCLevels[t + 1]]
MCIers == {{}, {"ERBFI"}, {"ERBFI", "ELSI"}, {"ETBEI"}}

(* The console's bytes before the ring is used for the first time do not   *)
(* matter: the other guest starts with any.                                *)
GuestInit ==
  \/ guest = "any" /\ ConsoleInit /\ bufsize = 1
  \/ guest = "console" /\ ConsoleInit /\ data = [i \in Slots |-> NL]

GuestNext ==
  /\ \/ guest = "any" /\ UartNext /\ UNCHANGED <<driverVars, typed>>
     \/ guest = "console" /\ ConsoleNext
  /\ UNCHANGED guest

ConsoleRuns(A) == guest = "console" /\ A /\ UNCHANGED guest

(* cpu_exec runs an instruction of the program and then the devices, over  *)
(* and over, and the program comes to its next register access after       *)
(* finitely many instructions; the user need not type.                     *)
GuestSpec ==
  /\ GuestInit /\ [][GuestNext]_<<consoleVars, guest>>
  /\ WF_<<consoleVars, guest>>(ConsoleRuns(ConsoleNext))
  /\ SF_<<consoleVars, guest>>(ConsoleRuns(ConsoleAccess))
=============================================================================
