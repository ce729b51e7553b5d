--------------------------- MODULE MCDomainArbiter ---------------------------
(* The Puddle arbiter with one lamp, its mirror-fold gate and three of its *)
(* claimants; the window arbiter's motor stands for a configured default.  *)
EXTENDS DomainArbiter

CONSTANTS Welcome, Farewell, PerimeterAlarm, PowerWindow, Puddle, Motor

\* Welcome and Farewell share Medium, PerimeterAlarm has High.
MCAllowList ==
    {<<Welcome, Puddle, 2>>, <<Farewell, Puddle, 2>>, <<PerimeterAlarm, Puddle, 3>>,
     <<PowerWindow, Motor, 2>>}

MCOff == [s \in Signals |-> IF s = Motor THEN "STOPPED" ELSE "false"]

Ask(f, s, p, v) == [feature |-> f, signal |-> s, priority |-> p, value |-> v]

\* The alarm pulses the lamp; the last request has a priority of its own.
MCSubmittable ==
    {Ask(Welcome, Puddle, 2, "true"), Ask(Farewell, Puddle, 2, "false"),
     Ask(PerimeterAlarm, Puddle, 3, "true"), Ask(PowerWindow, Motor, 2, "UP"),
     Ask(Welcome, Puddle, 3, "true")}
=============================================================================
