----------------------------- MODULE CabinLocks -----------------------------
(***************************************************************************)
(* The lock buttons and taps: SlamLock ("slam"), DoorTrimButton ("trim"),  *)
(* NfcEntry ("nfc"), CabinTrunkRelease ("release") and the AuthChannel     *)
(* plant ("auth").  The four doors are one signal, open when one of them   *)
(* is; the driver sits on the left.                                        *)
(***************************************************************************)
EXTENDS LockWorld

CONSTANTS
    InversionDelay, \* INVERSION_DELAY_MS, in ticks
    PressHold,      \* START_PRESS_HOLD
    BypassWindow    \* NFC_BYPASS_WINDOW

ASSUME CabinLocksAssumption ==
    /\ InversionDelay \in Nat \ {0}
    /\ PressHold \in Nat \ {0}
    /\ BypassWindow \in Nat
    /\ BypassWindow > PressHold

\* Unlocking from inside starts with the driver's door when that is configured.
UnlockFrom(side) == IF side = "left" /\ bus["twoStage"] THEN "UnlockDriver" ELSE "UnlockAll"

-----------------------------------------------------------------------------
(* SlamLock.  timer holds the sleeps of the spawned tasks, in the order    *)
(* they began, and commands what they will request.                        *)

SlamOrder == <<"status", "requestor", Of("lock", "left"), Of("lock", "right"), "eventNum", "open">>

SlamKeeps(s) ==
    /\ s \in {"status", "requestor", "open"}
    /\ ReadsInTurn("slam", SlamOrder, s)
    /\ Keeps("slam", s)

\* dispatch_inversion, after s was read.
Inverts(s, command) ==
    /\ React("slam", s,
             [mem["slam"] EXCEPT !.commands = Append(@, command),
                                 !.timer = Append(@, InversionDelay)],
             << <<"feedback", "mislock">> >>)
    /\ UNCHANGED world

\* maybe_invert
SlamHearsLock(side) ==
    /\ ReadsInTurn("slam", SlamOrder, Of("lock", side))
    /\ IF Val("slam", Of("lock", side)) /\ bus["protect"] /\ mem["slam"].open
       THEN Inverts(Of("lock", side), UnlockFrom(side))
       ELSE Passes("slam", Of("lock", side))

InvertedButPhone == {"KeyfobRke", "KeyfobPeps", "KeypadLock", "PhoneBle", "NfcCard", "NfcPhone"}

\* EXTERNAL_LOCK_INVERSION_REQUESTORS
InvertedRequestors ==
    {"KeyfobRke", "KeyfobPeps", "KeypadLock", "PhoneApp", "PhoneBle", "NfcCard", "NfcPhone"}

SlamHearsEvent ==
    /\ ReadsInTurn("slam", SlamOrder, "eventNum")
    /\ IF /\ bus["protect"]
          /\ mem["slam"].status \in Locked
          /\ mem["slam"].open
          /\ mem["slam"].requestor \in InvertedRequestors
       THEN Inverts("eventNum", "UnlockAll")
       ELSE Passes("slam", "eventNum")

SlamUnlocks ==
    /\ Runs("slam")
    /\ mem["slam"].commands # <<>>
    /\ Due("slam", 1)
    /\ Act("slam", [mem["slam"] EXCEPT !.commands = Tail(@), !.timer = Tail(@)],
           << <<"feedback", "unlock">> >>)
    /\ Order("SlamLock", Head(mem["slam"].commands))

Slam == \/ \E s \in {"status", "requestor", "open"} : SlamKeeps(s)
        \/ \E side \in Sides : SlamHearsLock(side)
        \/ SlamHearsEvent
        \/ SlamUnlocks

-----------------------------------------------------------------------------
(* DoorTrimButton.                                                         *)

TrimKeeps(s) ==
    /\ s \in {"status", "open"}
    /\ Reads("trim", s)
    /\ Keeps("trim", s)

Dispatches(t, s, who, command, feedback) ==
    /\ React(t, s, mem[t], << <<"feedback", feedback>> >>)
    /\ Order(who, command)

TrimHearsLock(side) ==
    /\ Reads("trim", Of("lock", side))
    /\ IF Val("trim", Of("lock", side)) /\ mem["trim"].status # "DOUBLE_LOCKED"
       THEN Dispatches("trim", Of("lock", side),
                       IF mem["trim"].open /\ ~bus["protect"] THEN "SlamLock" ELSE "DoorTrimButton",
                       "LockAll", "lock")
       ELSE Passes("trim", Of("lock", side))

\* unlock_command_for
TrimHearsUnlock(side) ==
    /\ Reads("trim", Of("unlock", side))
    /\ IF Val("trim", Of("unlock", side)) /\ mem["trim"].status # "DOUBLE_LOCKED"
       THEN Dispatches("trim", Of("unlock", side), "DoorTrimButton",
                       IF mem["trim"].status = "DRIVER_UNLOCKED" THEN "UnlockAll"
                                                                 ELSE UnlockFrom(side),
                       "unlock")
       ELSE Passes("trim", Of("unlock", side))

Trim == \/ \E s \in {"status", "open"} : TrimKeeps(s)
        \/ \E side \in Sides : TrimHearsLock(side) \/ TrimHearsUnlock(side)

-----------------------------------------------------------------------------
(* NfcEntry.  timer holds the sleeps of the tasks that end a press and,    *)
(* later, the bypass; pressed says which of the two.                       *)

Taps == {"NfcCard", "NfcPhone"}

NfcKeeps ==
    /\ Reads("nfc", "status")
    /\ Keeps("nfc", "status")

\* on_unlock_tap and on_start_tap, on the edge to the handle and to the button.
NfcHears(d) ==
    /\ Reads("nfc", Of("tap", d))
    /\ LET m == [mem["nfc"] EXCEPT !.at[d] = Val("nfc", Of("tap", d))]
           reaches(p) == m.at[d] = p /\ mem["nfc"].at[d] # p
       IN  CASE reaches("DriverHandle") /\ m.status # "UNLOCKED" ->
                    /\ React("nfc", Of("tap", d), m, << <<"feedback", "unlock">> >>)
                    /\ Order(d, "UnlockAll")
             [] reaches("PushButton") ->
                    /\ React("nfc", Of("tap", d),
                             [m EXCEPT !.timer = Append(@, PressHold),
                                       !.pressed = Append(@, TRUE)],
                             << <<"bypass", TRUE>>, <<"startStop", TRUE>> >>)
                    /\ UNCHANGED world
             [] OTHER -> React("nfc", Of("tap", d), m, <<>>) /\ UNCHANGED world

NfcLetsGo(i) ==
    /\ Due("nfc", i)
    /\ mem["nfc"].pressed[i]
    /\ Act("nfc", [mem["nfc"] EXCEPT !.pressed[i] = FALSE,
                                     !.timer[i] = BypassWindow - PressHold],
           << <<"startStop", FALSE>> >>)
    /\ UNCHANGED world

NfcEndsBypass(i) ==
    /\ Due("nfc", i)
    /\ ~mem["nfc"].pressed[i]
    /\ Act("nfc", [mem["nfc"] EXCEPT !.pressed = RemoveAt(@, i), !.timer = RemoveAt(@, i)],
           << <<"bypass", FALSE>> >>)
    /\ UNCHANGED world

Nfc == /\ Runs("nfc")
       /\ \/ NfcKeeps
          \/ \E d \in Taps : NfcHears(d)
          \/ \E i \in DOMAIN mem["nfc"].timer : NfcLetsGo(i) \/ NfcEndsBypass(i)

-----------------------------------------------------------------------------
(* CabinTrunkRelease and the AuthChannel plant.                            *)

ReleaseHears ==
    /\ Reads("release", "trunkSwitch")
    /\ React("release", "trunkSwitch", mem["release"],
             IF Val("release", "trunkSwitch") THEN TrunkPulse ELSE <<>>)
    /\ UNCHANGED world

\* classify_channel
Channel(who) ==
    CASE who \in {"KeyfobRke", "KeyfobPeps", "PassiveEntry"} -> "Keyfob"
      [] who \in {"PhoneApp", "PhoneBle"}                    -> "Phone"
      [] who \in {"NfcCard", "NfcPhone"}                     -> "Nfc"
      [] who = "KeypadLock"                                  -> "Keypad"
      [] who \in {"DoorTrimButton", "SlamLock"}              -> "Manual"
      [] who \in {"AutoLock", "AutoRelock", "WalkAwayLock", "CrashUnlock",
                  "DoubleLockRelease", "SmartUnlock", "SmartTrunkPop"} -> "Automated"
      [] OTHER                                               -> "Unknown"

AuthHears ==
    /\ Reads("auth", "requestor")
    /\ LET c == Channel(Val("auth", "requestor")) IN
        React("auth", "requestor", [mem["auth"] EXCEPT !.channel = c],
              IF c = mem["auth"].channel THEN <<>> ELSE << <<"authChannel", c>> >>)
    /\ UNCHANGED world

\* What each task follows, and its variables when it starts.
SlamTask(b) ==
    [follows |-> {"status", "requestor", "eventNum", "open"} \cup OfAll("lock", Sides),
     mem |-> [status |-> b["status"], requestor |-> b["requestor"], open |-> b["open"],
              commands |-> <<>>, timer |-> <<>>]]

TrimTask(b) ==
    [follows |-> {"status", "open"} \cup OfAll("lock", Sides) \cup OfAll("unlock", Sides),
     mem |-> [status |-> b["status"], open |-> b["open"], timer |-> NoTimer]]

NfcTask(b) ==
    [follows |-> {"status"} \cup OfAll("tap", Taps),
     mem |-> [status |-> b["status"], at |-> [d \in Taps |-> "NotPresent"], pressed |-> <<>>,
              timer |-> <<>>]]

ReleaseTask ==
    [follows |-> {"trunkSwitch"},
     mem |-> [timer |-> NoTimer]]

AuthTask(b) ==
    [follows |-> {"requestor"},
     mem |-> [channel |-> Channel(b["requestor"]), timer |-> NoTimer]]

CabinLocksStep == Slam \/ Trim \/ Nfc \/ ReleaseHears \/ AuthHears
=============================================================================
