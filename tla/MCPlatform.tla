----------------------------- MODULE MCPlatform -----------------------------
(***************************************************************************)
(* Instances of Platform for TLC.  A team is one user's or two users'      *)
(* evening: what they do, and how much of it.  One team looks at a single  *)
(* signal of the bus, at the grain of MockBus.                             *)
(***************************************************************************)
EXTENDS Platform, MockBus

Idle ==
    [part |-> "stack", clients |-> {}, does |-> {}, tiers |-> {}, values |-> {1, 2},
     kuksa |-> FALSE, calm |-> {}, disk |-> [f \in Files |-> None], budget |-> 0]

Line == <<"vehicle_line">>
Both == <<"vehicle_line", "variant">>

\* A car that left the line with calibrations of its own.
Factory == [f \in Files |-> IF f \in ConfigFiles THEN [seen |-> 1, unseen |-> 1] ELSE None]

\* The HMI has kept the old name of the light sensor.
OldNames == [s \in {"lux"} |-> "oldLux"]

One == {CHOOSE c \in Clients : TRUE}

Calm == {"bus", "starts"}

\* One HMI beside a plant model that moves, and a reboot.
Serve == [Idle EXCEPT !.clients = One, !.does = {"sensor", "plant", "reboot"}, !.budget = 3]

\* Two HMIs, one of which closes.
Two == [Idle EXCEPT !.clients = Clients, !.does = {"sensor", "leave"}, !.budget = 2]

\* Two HMIs set the configuration.
Sets == [Idle EXCEPT !.clients = Clients, !.does = {"set"}, !.budget = 2]

\* Two HMIs stage different values of one calibration and apply them.
Apply == [Idle EXCEPT !.calm = Calm, !.clients = Clients, !.does = {"apply"}, !.tiers = {Line},
                      !.budget = 2]

\* One applies both calibrations; steps of the saves fail, the power goes.
Fails == [Idle EXCEPT !.calm = Calm, !.clients = One, !.does = {"apply", "cut", "fail"},
                      !.tiers = {Both}, !.values = {2}, !.disk = Factory, !.budget = 2]

\* The power goes while a calibration and the plant model's state are saved.
Cut == [Idle EXCEPT !.calm = Calm, !.clients = One, !.does = {"plant", "apply", "cut"},
                    !.tiers = {Line}, !.values = {2}, !.disk = Factory, !.budget = 4]

\* One asks for a reboot while the other connects.
Late == [Idle EXCEPT !.calm = {"bus"}, !.clients = Clients, !.does = {"reboot"}, !.budget = 2]

Kuksa == [Idle EXCEPT !.does = {"kuksa"}, !.kuksa = TRUE, !.budget = 4]
Sleep == [Idle EXCEPT !.part = "inhibit"]
Frame == [Idle EXCEPT !.part = "wire"]

OneSignal == [Idle EXCEPT !.part = "bus"]

AllTeams == {Serve, Two, Sets, Apply, Fails, Cut, Late, Kuksa, Sleep, Frame, OneSignal}

\* For the disagreement with the HMI's comment.
ApplyTeams == {[Apply EXCEPT !.clients = One, !.disk = Factory, !.budget = 1]}

-----------------------------------------------------------------------------

MCInit == Init /\ BusInit

MCNext ==
    \/ Next /\ UNCHANGED signalVars
    \/ team.part = "bus" /\ BusNext /\ UNCHANGED vars

MCSpec == MCInit /\ [][MCNext]_<<vars, signalVars>>
=============================================================================
