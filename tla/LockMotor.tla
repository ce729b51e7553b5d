------------------------------ MODULE LockMotor ------------------------------
(***************************************************************************)
(* What the door-lock arbiter promises to the lock motor: the motor is     *)
(* given one command at a time, and once it has been told to open the      *)
(* doors because of a crash it is told nothing for LockoutTicks.           *)
(*                                                                         *)
(* The features, the request queue and the acknowledgements of the arbiter *)
(* are not visible here; DoorLockArbiter implements this specification.    *)
(***************************************************************************)
EXTENDS Naturals

CONSTANTS
    Tasks,       \* what the motor can be told to do
    CrashTasks,  \* the tasks that open the doors because of a crash
    Idle,        \* the motor is doing nothing
    LockoutTicks \* how long the motor is left alone after a crash task

VARIABLES
    motor, \* the task being executed, or Idle
    hold   \* ticks for which no task may be started

motorVars == <<motor, hold>>

MotorInit ==
    /\ motor = Idle
    /\ hold = 0

Start(t) ==
    /\ motor = Idle
    /\ hold = 0
    /\ motor' = t
    /\ hold' = IF t \in CrashTasks THEN LockoutTicks ELSE 0

Finish ==
    /\ motor # Idle
    /\ motor' = Idle
    /\ UNCHANGED hold

PassTime ==
    /\ hold > 0
    /\ hold' = hold - 1
    /\ UNCHANGED motor

PowerCycle ==
    /\ motor' = Idle
    /\ hold' = 0

MotorNext ==
    \/ \E t \in Tasks : Start(t)
    \/ Finish
    \/ PassTime
    \/ PowerCycle

MotorSpec == MotorInit /\ [][MotorNext]_motorVars
=============================================================================
