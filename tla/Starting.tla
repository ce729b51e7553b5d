------------------------------ MODULE Starting ------------------------------
(***************************************************************************)
(* Starting the car: VehicleStartingControl                                *)
(* (src/vss-bridge/src/features/vehicle_starting_control.rs) with the key  *)
(* searches it awaits, the gear of plant_models/transmission.rs, whose     *)
(* interlock needs a live ignition, and the start taps of                  *)
(* features/nfc_entry.rs, which replace a search.                          *)
(*                                                                         *)
(* The control's select has no order.  While it awaits a search it reads   *)
(* nothing, and what it had read before may no longer be so afterwards.    *)
(* The backlight, the shift lock's lamp and the refused selector's echo    *)
(* are left out, DRIVE stands for every gear but PARK.                     *)
(***************************************************************************)
EXTENDS KeySearch

CONSTANTS
    Sources,     \* the values of key_source_cfg to consider
    Places,      \* with each of them, the zones keys are put in
    OtherScans,  \* the searches other features ask for
    HoldTicks,   \* START_PRESS_HOLD
    BypassTicks, \* NFC_BYPASS_WINDOW
    Budget       \* bound: with each source, how many things happen in the environment

ASSUME StartingAssumption ==
    /\ Sources \subseteq {"Peps", "KeyCylinder"}
    /\ OtherScans \subseteq Request
    /\ \A r \in OtherScans : r.by = "other"
    /\ {HoldTicks, BypassTicks} \subseteq Nat \ {0}
    /\ HoldTicks < BypassTicks
    /\ Places \in [Sources -> SUBSET Zones]
    /\ Budget \in [Sources -> Nat]

VARIABLES
    source,      \* key_source_cfg
    phase,       \* "idle", or awaiting the search of a "press" or a "turn"
    power,       \* power, and LowVoltageSystemState on the bus
    immobilizer, \* and ImmobilizerStatus on the bus
    session,     \* cylinder_session_authed
    brakeCache, gearCache, bypass, prevPressed, \* what the control has read
    braked,      \* the brake_applied a press that awaits its search was called with
    turnTo,      \* the position a turn that awaits its search goes to
    inhibited,   \* removal_inhibited, and on the bus
    preAuths,    \* brake_pre_auth tasks that have not submitted their search
    pressQ, cylinderQ, brakeQ, gearQ, bypassQ, \* values the control has not read
    cylinder,    \* IgnitionCylinder.Position on the bus
    gear, brakeSeen, ignitionLive, \* the transmission and what it has read
    selectQ, pedalQ, ignitionQ,    \* values it has not read
    brake,       \* the brake is applied
    held,        \* the driver holds the start button
    tapping,     \* NfcEntry has published the bypass of a tap and not yet its press
    taps,        \* ages, in ticks, of the taps whose tasks run (those of one age end as one)
    proof,       \* history: a key or a tap proved that the driver may start the car
    lapsed,      \* history: a tap's bypass has ended less than a tick ago
    budget       \* how many more things may happen in the environment

controlVars == <<source, phase, power, immobilizer, session, brakeCache, gearCache, bypass,
                 prevPressed, braked, turnTo, inhibited, preAuths, proof>>
streamVars  == <<pressQ, cylinderQ, brakeQ, gearQ, bypassQ, cylinder>>
gearVars    == <<gear, brakeSeen, ignitionLive, selectQ, pedalQ>>
tapVars     == <<tapping, taps, lapsed>>
driverVars  == <<brake, held, budget>>
vars == <<keyVars, searchVars, controlVars, streamVars, gearVars, ignitionQ, tapVars, driverVars>>

TypeOK ==
    /\ placed \in [Keys -> Zones] /\ zones \in [Keys -> Zones] /\ snapshot \in [Keys -> Zones]
    /\ paired \subseteq Keys
    /\ zoneQ \in [Keys -> Seq(Zones)]
    /\ searchQ \in Seq(Request) /\ search \in Request \cup {None} /\ ticks \in Nat
    /\ answer \in SUBSET Keys \cup {None}
    /\ observed \in [Keys -> Zones]
    /\ source \in {"Peps", "KeyCylinder"}
    /\ phase \in {"idle", "press", "turn"}
    /\ power \in {"OFF", "ACC", "ON", "START"}
    /\ immobilizer \in {"LOCKED", "AUTHENTICATING", "AUTHENTICATED", "FAILED"}
    /\ {session, brakeCache, bypass, prevPressed, braked, inhibited} \subseteq BOOLEAN
    /\ {gearCache, gear} \subseteq {"PARK", "DRIVE"}
    /\ {cylinder, turnTo} \subseteq {"LOCK", "OFF", "ACC", "ON", "START"}
    /\ {brakeSeen, ignitionLive, brake, held, tapping, lapsed, proof} \subseteq BOOLEAN
    /\ taps \subseteq 0..BypassTicks
    /\ budget \in 0..Budget[source]

-----------------------------------------------------------------------------
(* Power.                                                                  *)

Switch(p) ==
    /\ power' = p
    /\ ignitionQ' = IF p # power THEN Append(ignitionQ, p) ELSE ignitionQ

CycleNext == CASE power = "OFF" -> "ACC" [] power = "ACC" -> "ON" [] OTHER -> "OFF"

\* With the brake applied a press jumps to ON, but not out of it.
AfterPress(b) == IF b /\ power \in {"OFF", "ACC"} THEN "ON" ELSE CycleNext

ToPower(pos) == IF pos = "LOCK" THEN "OFF" ELSE pos

\* authenticate: a search no cached result may answer.
AuthenticateCoalesced(a) ==
    Submit([by |-> "start", scan |-> [legs |-> {a}, mode |-> "Authenticated"], reuse |-> TRUE])

Authenticate(a) ==
    Submit([by |-> "start", scan |-> [legs |-> {a}, mode |-> "Authenticated"], reuse |-> FALSE])

PreAuth == [by |-> "other", scan |-> [legs |-> {"Cabin"}, mode |-> "Authenticated"], reuse |-> TRUE]

\* A tap's bypass runs, or ended so lately that its end may be unread.
TapIsRecent == taps # {} \/ tapping \/ lapsed

\* A paired key was in the zone at some time since the search was requested.
KeyWasIn(z) == \E k \in paired : z \in known[k]

-----------------------------------------------------------------------------
(* The control's streams.                                                  *)

ReadBrake ==
    /\ phase = "idle"
    /\ brakeQ # <<>>
    /\ brakeQ' = Tail(brakeQ)
    /\ brakeCache' = Head(brakeQ)
    /\ preAuths' = IF brakeCache' /\ ~brakeCache /\ source = "Peps" /\ power \in {"OFF", "ACC"}
                   THEN preAuths + 1
                   ELSE preAuths
    /\ UNCHANGED <<source, phase, power, immobilizer, session, gearCache, bypass,
                   prevPressed, braked, turnTo, inhibited, proof>>
    /\ UNCHANGED <<keyVars, searchVars, pressQ, cylinderQ, gearQ, bypassQ, cylinder>>
    /\ UNCHANGED <<gearVars, ignitionQ, tapVars, driverVars>>

\* update_removal_inhibited.
Inhibit(g) == source = "KeyCylinder" /\ g # "PARK"

ReadGear ==
    /\ phase = "idle"
    /\ gearQ # <<>>
    /\ gearQ' = Tail(gearQ)
    /\ gearCache' = Head(gearQ)
    /\ inhibited' = Inhibit(gearCache')
    /\ UNCHANGED <<source, phase, power, immobilizer, session, brakeCache, bypass,
                   prevPressed, braked, turnTo, preAuths, proof>>
    /\ UNCHANGED <<keyVars, searchVars, pressQ, cylinderQ, brakeQ, bypassQ, cylinder>>
    /\ UNCHANGED <<gearVars, ignitionQ, tapVars, driverVars>>

ReadBypass ==
    /\ phase = "idle"
    /\ bypassQ # <<>>
    /\ bypassQ' = Tail(bypassQ)
    /\ bypass' = Head(bypassQ)
    /\ UNCHANGED <<source, phase, power, immobilizer, session, brakeCache, gearCache,
                   prevPressed, braked, turnTo, inhibited, preAuths, proof>>
    /\ UNCHANGED <<keyVars, searchVars, pressQ, cylinderQ, brakeQ, gearQ, cylinder>>
    /\ UNCHANGED <<gearVars, ignitionQ, tapVars, driverVars>>

\* Only a rising edge of the start button counts.
NextPress ==
    /\ phase = "idle" /\ source = "Peps"
    /\ pressQ # <<>>
    /\ pressQ' = Tail(pressQ)
    /\ prevPressed' = (Head(pressQ) # "release")
    /\ UNCHANGED <<source, session, brakeCache, gearCache, bypass, turnTo, inhibited, preAuths>>
    /\ UNCHANGED <<keyVars, cylinderQ, brakeQ, gearQ, bypassQ, cylinder>>
    /\ UNCHANGED <<gearVars, tapVars, driverVars>>

IsPress == Head(pressQ) # "release" /\ ~prevPressed

ReadNoPress ==
    /\ NextPress
    /\ ~IsPress
    /\ UNCHANGED <<searchVars, phase, power, ignitionQ, immobilizer, braked, proof>>

PressWithBypass ==
    /\ NextPress
    /\ IsPress /\ bypass
    /\ immobilizer' = "AUTHENTICATED"
    /\ Switch(AfterPress(brakeCache))
    /\ proof' = TapIsRecent
    /\ UNCHANGED <<searchVars, phase, braked>>

PressAndSearch ==
    /\ NextPress
    /\ IsPress /\ ~bypass
    /\ immobilizer' = "AUTHENTICATING"
    /\ braked' = brakeCache
    /\ phase' = "press"
    /\ Authenticate("Cabin")
    /\ UNCHANGED <<power, ignitionQ, proof>>
    /\ UNCHANGED <<zones, search, ticks, snapshot, cache, observed, answer>>

\* The awaited answer; nothing but the answer has been read meanwhile.
EndPress ==
    /\ phase = "press"
    /\ answer # None
    /\ answer' = None
    /\ phase' = "idle"
    /\ \/ answer = {} /\ immobilizer' = "FAILED" /\ UNCHANGED <<power, ignitionQ>>
       \/ answer # {} /\ immobilizer' = "AUTHENTICATED" /\ Switch(AfterPress(braked))
    /\ braked' = FALSE
    /\ proof' = KeyWasIn("Cabin")
    /\ known' = [k \in Keys |-> {}]
    /\ UNCHANGED <<source, session, brakeCache, gearCache, bypass,
                   prevPressed, turnTo, inhibited, preAuths>>
    /\ UNCHANGED <<keyVars, streamVars, gearVars, tapVars, driverVars>>
    /\ UNCHANGED <<zones, searchQ, search, ticks, snapshot, cache, observed>>

-----------------------------------------------------------------------------
(* The ignition cylinder.                                                  *)

NextTurn ==
    /\ phase = "idle" /\ source = "KeyCylinder"
    /\ cylinderQ # <<>>
    /\ UNCHANGED <<source, brakeCache, gearCache, bypass, prevPressed, braked, inhibited, preAuths>>
    /\ UNCHANGED <<keyVars, pressQ, brakeQ, gearQ, bypassQ>>
    /\ UNCHANGED <<gearVars, tapVars, driverVars>>

\* Out of PARK the cylinder snaps back to OFF, on the bus as well.
RefuseLock ==
    /\ NextTurn
    /\ Head(cylinderQ) = "LOCK" /\ gearCache # "PARK"
    /\ cylinder' = "OFF"
    /\ cylinderQ' = Append(Tail(cylinderQ), "OFF")
    /\ Switch("OFF")
    /\ UNCHANGED <<searchVars, phase, immobilizer, session, turnTo, proof>>

\* LOCK ends the session.
TurnToLock ==
    /\ NextTurn
    /\ Head(cylinderQ) = "LOCK" /\ gearCache = "PARK"
    /\ cylinderQ' = Tail(cylinderQ)
    /\ session' = FALSE
    /\ immobilizer' = "LOCKED"
    /\ Switch("OFF")
    /\ proof' = FALSE
    /\ UNCHANGED <<searchVars, phase, turnTo, cylinder>>

\* OFF needs no key, every other position only an authenticated session.
Turn ==
    /\ NextTurn
    /\ Head(cylinderQ) = "OFF" \/ (Head(cylinderQ) # "LOCK" /\ session)
    /\ cylinderQ' = Tail(cylinderQ)
    /\ Switch(ToPower(Head(cylinderQ)))
    /\ UNCHANGED <<searchVars, phase, immobilizer, session, turnTo, proof, cylinder>>

TurnAndSearch ==
    /\ NextTurn
    /\ Head(cylinderQ) \notin {"LOCK", "OFF"} /\ ~session
    /\ cylinderQ' = Tail(cylinderQ)
    /\ turnTo' = Head(cylinderQ)
    /\ immobilizer' = "AUTHENTICATING"
    /\ phase' = "turn"
    /\ Authenticate("Cylinder")
    /\ UNCHANGED <<power, ignitionQ, session, proof, cylinder>>
    /\ UNCHANGED <<zones, search, ticks, snapshot, cache, observed, answer>>

EndTurn ==
    /\ phase = "turn"
    /\ answer # None
    /\ answer' = None
    /\ phase' = "idle"
    /\ \/ answer = {} /\ immobilizer' = "FAILED" /\ UNCHANGED <<power, ignitionQ, session>>
       \/ answer # {} /\ immobilizer' = "AUTHENTICATED" /\ session' = TRUE /\ Switch(ToPower(turnTo))
    /\ turnTo' = "OFF"
    /\ proof' = KeyWasIn("Cylinder")
    /\ known' = [k \in Keys |-> {}]
    /\ UNCHANGED <<source, brakeCache, gearCache, bypass,
                   prevPressed, braked, inhibited, preAuths>>
    /\ UNCHANGED <<keyVars, streamVars, gearVars, tapVars, driverVars>>
    /\ UNCHANGED <<zones, searchQ, search, ticks, snapshot, cache, observed>>

\* A brake_pre_auth task submits its search; nobody reads the answer.
SubmitPreAuth ==
    /\ preAuths > 0
    /\ preAuths' = preAuths - 1
    /\ Submit(PreAuth)
    /\ UNCHANGED <<source, phase, power, immobilizer, session, brakeCache, gearCache, bypass,
                   prevPressed, braked, turnTo, inhibited, proof>>
    /\ UNCHANGED <<keyVars, streamVars, gearVars, ignitionQ, tapVars, driverVars>>
    /\ UNCHANGED <<zones, search, ticks, snapshot, cache, observed, answer>>

Control ==
    \/ ReadBrake \/ ReadGear \/ ReadBypass
    \/ ReadNoPress \/ PressWithBypass \/ PressAndSearch \/ EndPress
    \/ RefuseLock \/ TurnToLock \/ Turn \/ TurnAndSearch \/ EndTurn
    \/ SubmitPreAuth

-----------------------------------------------------------------------------
(* The transmission, and the interlock on the way out of PARK.             *)

SeePedal ==
    /\ pedalQ # <<>>
    /\ brakeSeen' = Head(pedalQ)
    /\ pedalQ' = Tail(pedalQ)
    /\ UNCHANGED <<gear, ignitionLive, selectQ, ignitionQ, gearQ>>

SeeIgnition ==
    /\ ignitionQ # <<>>
    /\ ignitionLive' = (Head(ignitionQ) \in {"ON", "START"})
    /\ ignitionQ' = Tail(ignitionQ)
    /\ UNCHANGED <<gear, brakeSeen, selectQ, pedalQ, gearQ>>

BlockedByBrake(want) == gear = "PARK" /\ want # "PARK" /\ ~brakeSeen

Blocked(want) == gear = "PARK" /\ want # "PARK" /\ (~brakeSeen \/ ~ignitionLive)

Shift ==
    /\ selectQ # <<>>
    /\ selectQ' = Tail(selectQ)
    /\ LET want == Head(selectQ) IN
        IF want = gear \/ Blocked(want)
        THEN UNCHANGED <<gear, gearQ>>
        ELSE gear' = want /\ gearQ' = Append(gearQ, want)
    /\ UNCHANGED <<brakeSeen, ignitionLive, pedalQ, ignitionQ>>

Transmission ==
    /\ SeePedal \/ SeeIgnition \/ Shift
    /\ UNCHANGED <<keyVars, searchVars, controlVars, pressQ, cylinderQ, brakeQ, bypassQ, cylinder>>
    /\ UNCHANGED <<tapVars, driverVars>>

-----------------------------------------------------------------------------
(* A start tap: the bypass, the press, and the task that takes both back.  *)

Spend == budget > 0 /\ budget' = budget - 1

\* (Without a start button nothing reads the press.)
Tap ==
    /\ source = "Peps"
    /\ Spend
    /\ ~tapping
    /\ tapping' = TRUE
    /\ bypassQ' = Append(bypassQ, TRUE)
    /\ UNCHANGED <<taps, lapsed, brake, held, pressQ, cylinderQ, brakeQ, gearQ, cylinder>>
    /\ UNCHANGED <<keyVars, searchVars, controlVars, gearVars, ignitionQ>>

TapPress ==
    /\ tapping
    /\ tapping' = FALSE
    /\ pressQ' = Append(pressQ, "tap")
    /\ taps' = taps \cup {0}
    /\ UNCHANGED <<lapsed, cylinderQ, brakeQ, gearQ, bypassQ, cylinder>>
    /\ UNCHANGED <<keyVars, searchVars, controlVars, gearVars, ignitionQ, driverVars>>

TapTick == {t + 1 : t \in taps}

Aged(n) == n \in TapTick

\* The task of a tap releases the button, and later ends the bypass.
TapsAge ==
    /\ pressQ' = IF Aged(HoldTicks) THEN Append(pressQ, "release") ELSE pressQ
    /\ bypassQ' = IF Aged(BypassTicks) THEN Append(bypassQ, FALSE) ELSE bypassQ
    /\ taps' = TapTick \ {BypassTicks}
    /\ lapsed' = Aged(BypassTicks)

-----------------------------------------------------------------------------
(* Time and the driver.                                                    *)

ControlCalm == phase # "idle" \/ (cylinderQ = <<>> /\ gearQ = <<>> /\ brakeQ = <<>>)

\* The driver moves the key or the lever when the tasks that are not waiting
\* have read what came before.
Calm == ControlCalm /\ selectQ = <<>> /\ pedalQ = <<>> /\ ignitionQ = <<>>

\* Whatever can be done in no time has been done.
Quiet ==
    /\ Calm /\ ~tapping /\ preAuths = 0
    /\ phase = "idle" => pressQ = <<>> /\ bypassQ = <<>>
    /\ answer = None
    /\ \A k \in Keys : zoneQ[k] = <<>>
    /\ IF search = None THEN searchQ = <<>> ELSE ticks > 0

Tick ==
    /\ Quiet
    /\ search # None \/ taps # {} \/ cache # <<>> \/ lapsed
    /\ SearchTick
    /\ TapsAge
    /\ UNCHANGED <<keyVars, controlVars, cylinderQ, brakeQ, gearQ, cylinder>>
    /\ UNCHANGED <<gearVars, ignitionQ, tapping, driverVars>>

MoveKey(k, z) ==
    /\ z \in Places[source]
    /\ Spend
    /\ placed[k] # z
    /\ placed' = [placed EXCEPT ![k] = z]
    /\ zoneQ' = [zoneQ EXCEPT ![k] = Append(@, z)]
    /\ known' = IF phase = "idle" THEN known ELSE [known EXCEPT ![k] = @ \cup {z}]
    /\ UNCHANGED <<paired, zones, searchQ, search, ticks, snapshot, cache, observed, answer>>
    /\ UNCHANGED <<controlVars, streamVars, gearVars, ignitionQ, tapVars, brake, held>>

AskSearch(r) ==
    /\ Spend
    /\ Submit(r)
    /\ UNCHANGED <<keyVars, zones, search, ticks, snapshot, cache, observed, answer>>
    /\ UNCHANGED <<controlVars, streamVars, gearVars, ignitionQ, tapVars, brake, held>>

UseButton ==
    /\ source = "Peps"
    /\ held' = ~held
    /\ IF held THEN UNCHANGED budget ELSE Spend
    /\ pressQ' = Append(pressQ, IF held THEN "release" ELSE "driver")
    /\ UNCHANGED <<cylinderQ, brakeQ, gearQ, bypassQ, cylinder, brake>>
    /\ UNCHANGED <<keyVars, searchVars, controlVars, gearVars, ignitionQ, tapVars>>

UseBrake ==
    /\ Spend
    /\ brake' = ~brake
    /\ brakeQ' = Append(brakeQ, brake')
    /\ pedalQ' = Append(pedalQ, brake')
    /\ UNCHANGED <<pressQ, cylinderQ, gearQ, bypassQ, cylinder, held>>
    /\ UNCHANGED <<keyVars, searchVars, controlVars, gear, brakeSeen, ignitionLive, selectQ, ignitionQ, tapVars>>

TurnKey(pos) ==
    /\ source = "KeyCylinder"
    /\ Spend
    /\ Calm
    /\ pos # cylinder
    /\ cylinder' = pos
    /\ cylinderQ' = Append(cylinderQ, pos)
    /\ UNCHANGED <<pressQ, brakeQ, gearQ, bypassQ, brake, held>>
    /\ UNCHANGED <<keyVars, searchVars, controlVars, gearVars, ignitionQ, tapVars>>

MoveLever(g) ==
    /\ source = "KeyCylinder"
    /\ Spend
    /\ Calm /\ phase = "idle"
    /\ selectQ' = Append(selectQ, g)
    /\ UNCHANGED <<gear, brakeSeen, ignitionLive, pedalQ, ignitionQ, brake, held>>
    /\ UNCHANGED <<keyVars, searchVars, controlVars, streamVars, tapVars>>

-----------------------------------------------------------------------------

\* A parked car, its key in some zone.
Init ==
    /\ source \in Sources
    /\ placed \in [Keys -> Places[source]] /\ zones = placed
    /\ zoneQ = [k \in Keys |-> <<>>]
    /\ paired \in SUBSET Keys
    /\ searchQ = <<>> /\ search = None /\ ticks = 0
    /\ snapshot = [k \in Keys |-> "Out"] /\ observed = [k \in Keys |-> "Out"]
    /\ cache = <<>> /\ answer = None
    /\ known = [k \in Keys |-> {}]
    /\ phase = "idle" /\ power = "OFF" /\ immobilizer = "LOCKED" /\ session = FALSE
    /\ brakeCache = FALSE /\ gearCache = "PARK" /\ bypass = FALSE /\ prevPressed = FALSE
    /\ braked = FALSE /\ turnTo = "OFF" /\ inhibited = FALSE /\ preAuths = 0
    /\ pressQ = <<>> /\ cylinderQ = <<>> /\ brakeQ = <<>> /\ gearQ = <<>> /\ bypassQ = <<>>
    /\ cylinder = "LOCK"
    /\ gear = "PARK" /\ brakeSeen = FALSE /\ ignitionLive = FALSE
    /\ selectQ = <<>> /\ pedalQ = <<>> /\ ignitionQ = <<>>
    /\ brake = FALSE /\ held = FALSE
    /\ tapping = FALSE /\ taps = {} /\ lapsed = FALSE
    /\ proof = FALSE
    /\ budget = Budget[source]

Searching ==
    /\ (\E k \in Keys : SeeZone(k)) \/ Coalesce \/ BeginSearch \/ EndSearch
    /\ UNCHANGED <<controlVars, streamVars, gearVars, ignitionQ, tapVars, driverVars>>

Driver ==
    \/ \E k \in Keys, z \in Zones : MoveKey(k, z)
    \/ \E r \in OtherScans : AskSearch(r)
    \/ UseButton
    \/ UseBrake
    \/ \E pos \in {"LOCK", "OFF", "ACC", "ON", "START"} : TurnKey(pos)
    \/ \E g \in {"PARK", "DRIVE"} : MoveLever(g)
    \/ Tap

Next ==
    \/ Control
    \/ Searching
    \/ Transmission
    \/ TapPress
    \/ Tick
    \/ Driver

Spec == Init /\ [][Next]_vars

\* While a task can take a step one of them does, and time passes when none can.
FairSpec == Spec /\ WF_vars(Control \/ Searching \/ Transmission \/ TapPress \/ Tick)

-----------------------------------------------------------------------------
(* Properties.                                                             *)

\* The car leaves OFF only with a proof: a paired key was in the cabin (at the
\* cylinder) after the press (the first turn since LOCK) was read, however long the
\* search waited and whatever older results there were, or a tap's bypass runs.
NoPowerWithoutKey == [][power = "OFF" /\ power' # "OFF" => proof']_vars

\* A search fails only if no paired key stayed in the zone all the time.
NoKeyIsOverlooked ==
    [][phase # "idle" /\ immobilizer' = "FAILED" /\ immobilizer # "FAILED" =>
            \A k \in paired : known[k] # {IF phase = "press" THEN "Cabin" ELSE "Cylinder"}]_vars

\* With a cylinder, a car that has no authenticated session is off and in PARK:
\* LOCK is refused out of PARK, and PARK is not left with the ignition off.
LockedCarIsParked == source = "KeyCylinder" /\ ~session => power = "OFF" /\ gear = "PARK"

\* Every press and every turn is decided, whoever else searches.
SearchIsAnswered == phase # "idle" ~> phase = "idle"
=============================================================================
