------------------------------- MODULE Machine -------------------------------
(***************************************************************************)
(* The execution loop of the emulator (emulator/src/cpu/cpu_exec.c) with   *)
(* the timer (clint.c) and the system controller (syscon.c): an            *)
(* instruction of the hart, then power-off and reboot, the instruction     *)
(* limit, the clock, and the interrupt lines for the next instruction.     *)
(* Of the hart only WFI is kept, and of mip the two bits the timer drives; *)
(* module Hart has the rest.  cpu->halted is never set, so the loop ends   *)
(* only where Stop says.                                                   *)
(*                                                                         *)
(* Time is what the code reads of it: left is the host time that has       *)
(* passed since prev_time_ns, and the host clock advances by any of        *)
(* Advances between two updates.                                           *)
(***************************************************************************)
EXTENDS Naturals, FiniteSets

CONSTANTS
  TickNs,            \* nanoseconds per mtime tick, 10
  Advances,          \* how far the host clock may move between two updates
  TimeMax,           \* UINT64_MAX
  Limits             \* instruction limits the user may ask for, 0 for none

ASSUME MachineAssumption ==
  /\ TickNs \in Nat \ {0} /\ TimeMax \in Nat \ {0}
  /\ Advances \subseteq Nat /\ Limits \subseteq Nat

VARIABLES
  max_instruction,   \* the argument of cpu_exec
  turn,              \* "hart": cpu_step is next; "exec": the rest of the iteration
  status,            \* RUNNING, or what cpu_exec returned
  inst_count,
  wfi,               \* cpu->wfi
  lines,             \* cpu->msip and mtip, as a set
  msip, mtime, mtimecmp,      \* clint->reg
  left,              \* get_time() - clint->prev_time_ns
  poweroff, reboot, reset_cause    \* syscon

clintVars  == <<msip, mtime, mtimecmp, left>>
sysconVars == <<poweroff, reboot, reset_cause>>
vars == <<max_instruction, turn, status, inst_count, wfi, lines, msip, mtime, mtimecmp, left, poweroff, reboot, reset_cause>>

Times == 0 .. TimeMax

-----------------------------------------------------------------------------
(* Register writes of the guest.                                           *)

WriteMsip(b) == msip' = b /\ UNCHANGED <<mtime, mtimecmp, left, sysconVars>>
WriteMtimecmp(t) == mtimecmp' = t /\ UNCHANGED <<msip, mtime, left, sysconVars>>
WriteMtime(t) == mtime' = t /\ UNCHANGED <<msip, mtimecmp, left, sysconVars>>

(* Any other command is an access fault, see module Hart.                  *)
syscon_write(cmd) ==
  /\ \/ cmd = 1 /\ poweroff' = TRUE /\ UNCHANGED <<reboot, reset_cause>>
     \/ cmd = 2 /\ reboot' = TRUE /\ reset_cause' = "REBOOT" /\ UNCHANGED poweroff
  /\ UNCHANGED clintVars

NoWrite == UNCHANGED <<clintVars, sysconVars>>

HartTurn == turn = "hart" /\ turn' = "exec" /\ UNCHANGED <<max_instruction, status, inst_count, lines>>

SleepsOn == wfi /\ lines = {}

(* cpu_step of a sleeping hart whose lines are all down.                   *)
Sleep == HartTurn /\ SleepsOn /\ wfi' = TRUE /\ NoWrite

Wfi == HartTurn /\ ~SleepsOn /\ wfi' = TRUE /\ NoWrite

Store(t, b) ==
  /\ HartTurn /\ ~SleepsOn /\ wfi' = FALSE
  /\ WriteMsip(b) \/ WriteMtimecmp(t) \/ WriteMtime(t) \/ NoWrite

Command(cmd) == HartTurn /\ ~SleepsOn /\ wfi' = FALSE /\ syscon_write(cmd)

-----------------------------------------------------------------------------
(* The rest of the iteration.                                              *)

Stop(why) ==
  /\ turn = "exec" /\ status' = why
  /\ turn' = "stopped"

Poweroff ==
  /\ poweroff /\ Stop("POWEROFF")
  /\ UNCHANGED <<max_instruction, inst_count, wfi, lines, clintVars, sysconVars>>

(* The regs of the CLINT after device_reset, when a reboot is due.         *)
BootedCmpStale == mtimecmp                     \* mutant: the old compare value survives a reboot
BootedCmp == IF reboot THEN TimeMax ELSE mtimecmp
BootedTime == IF reboot THEN 0 ELSE mtime
BootedMsip == IF reboot THEN 0 ELSE msip

(* cpu_init and device_reset when a reboot is due, before the limit and    *)
(* the update.                                                             *)
Rebooted ==
  /\ wfi' = (wfi /\ ~reboot)
  /\ mtimecmp' = BootedCmp /\ msip' = BootedMsip
  /\ reboot' = FALSE /\ poweroff' = FALSE

(* clint_mtime_tick: whole ticks, the leftover nanoseconds are kept.       *)
TickDropsRest(d) ==                            \* mutant: prev_time_ns becomes the current time
  /\ mtime' = (BootedTime + (left + d) \div TickNs) % (TimeMax + 1)
  /\ left' = 0

clint_mtime_tick(d) ==
  /\ mtime' = (BootedTime + (left + d) \div TickNs) % (TimeMax + 1)
  /\ left' = (left + d) % TickNs

(* The lines are sampled after the registers are final for this iteration. *)
clint_irq_level ==
  lines' = {l \in {"msip", "mtip"} : IF l = "msip" THEN msip' = 1 ELSE mtime' >= mtimecmp'}

CountedAwake == IF wfi THEN inst_count ELSE inst_count + 1   \* mutant: sleeping is free
Counted == inst_count + 1

LimitHit == max_instruction > 0 /\ Counted >= max_instruction

Count == inst_count' = IF max_instruction > 0 THEN Counted ELSE 0   \* only the limit reads it

Iterate(d) ==
  /\ turn = "exec" /\ ~poweroff /\ ~LimitHit
  /\ turn' = "hart"
  /\ Rebooted
  /\ Count
  /\ clint_mtime_tick(d)
  /\ clint_irq_level
  /\ UNCHANGED <<max_instruction, status, reset_cause>>

(* The loop ends before the clock moves and the lines are sampled; a due   *)
(* reboot has been made and has cleared them.                              *)
StopBeforeTick(why) ==
  /\ Stop(why)
  /\ Rebooted
  /\ Count
  /\ mtime' = BootedTime
  /\ lines' = IF reboot THEN {} ELSE lines
  /\ UNCHANGED <<max_instruction, left, reset_cause>>

Timeout == ~poweroff /\ LimitHit /\ StopBeforeTick("TIMEOUT")

(* Polling or reading stdin fails.                                         *)
DeviceError == ~poweroff /\ ~LimitHit /\ StopBeforeTick("DEVICE_ERROR")

Stopped == turn = "stopped" /\ UNCHANGED vars

-----------------------------------------------------------------------------
PowerOn ==
  /\ wfi = FALSE
  /\ msip = 0 /\ mtimecmp = TimeMax
  /\ poweroff = FALSE /\ reboot = FALSE

Init ==
  /\ PowerOn
  /\ max_instruction \in Limits
  /\ turn = "hart" /\ status = "RUNNING" /\ inst_count = 0
  /\ lines = {} /\ mtime = 0 /\ left = 0
  /\ reset_cause = "POWER_ON"

Next ==
  \/ Sleep
  \/ Wfi
  \/ \E t \in Times, b \in {0, 1} : Store(t, b)
  \/ \E cmd \in {1, 2} : Command(cmd)
  \/ \E d \in Advances : Iterate(d)
  \/ Poweroff \/ Timeout \/ DeviceError
  \/ Stopped

Spec == Init /\ [][Next]_vars

(* The loop runs on, and the host clock never stops for good, however      *)
(* little it moves at a time.                                              *)
FairSpec ==
  /\ Spec
  /\ WF_vars(Next)
  /\ SF_vars(\E d \in Advances \ {0} : Iterate(d))

-----------------------------------------------------------------------------
(* A reboot leaves a machine that is as at power-on but for its reset      *)
(* cause, also when the loop then ends: no sleep, no pending command, no   *)
(* armed timer and no line from before, neither sampled from the old       *)
(* registers nor kept by the hart (cpu_exec.c 35-55).                      *)
RebootIsPowerOn ==
  [][reboot /\ ~poweroff /\ turn = "exec" =>
       /\ PowerOn' /\ reset_cause' = "REBOOT"
       /\ "msip" \notin lines' /\ ("mtip" \in lines' => mtime' = TimeMax)]_vars

(* The largest number of ticks one update can add.                         *)
Ticks == {(d + TickNs - 1) \div TickNs : d \in Advances}
MaxTicks == CHOOSE m \in Ticks : \A n \in Ticks : n <= m

(* A hart that sleeps with its timer set executes an instruction again,    *)
(* however slowly the host clock moves between two updates, unless the     *)
(* compare value is so close to the end of the counter that an update may  *)
(* step over it, or the loop ends at its limit or because stdin fails      *)
(* (clint.c 146-153).                                                      *)
TimerWakes ==
  (wfi /\ mtimecmp + MaxTicks <= TimeMax) ~>
    ((turn = "hart" /\ ~SleepsOn) \/ status \in {"TIMEOUT", "DEVICE_ERROR"})

(* A guest cannot outlive the instruction limit, not by sleeping and not   *)
(* by rebooting: the count goes on across both (cpu_exec.c 41-47).         *)
LimitStops == max_instruction > 0 ~> (status # "RUNNING")
=============================================================================
