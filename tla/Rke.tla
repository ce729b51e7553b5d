--------------------------------- MODULE Rke ---------------------------------
(***************************************************************************)
(* features/rke.rs ("rke"): radio messages of the fobs, authenticated by   *)
(* their rolling code, and the buttons pressed twice or together.          *)
(*                                                                         *)
(* mem.rke has per fob last, start and count (RollingCodeState; start 0    *)
(* for None), and per pending press the fob and the ticks left of its      *)
(* window: unlock, double (lock), trunk, panic and combo, with the first   *)
(* action of the combo.                                                    *)
(***************************************************************************)
EXTENDS Peps

CONSTANTS
    WindowNormal,   \* WINDOW_NORMAL
    WindowResync,   \* WINDOW_RESYNC
    ResyncRequired, \* RESYNC_REQUIRED
    PressWindow,    \* the 3 s windows of two presses
    ComboWindow     \* COMBO_WINDOW_MS

ASSUME RkeAssumption ==
    /\ {WindowNormal, WindowResync, ResyncRequired, PressWindow, ComboWindow} \subseteq Nat \ {0}
    /\ WindowNormal < WindowResync
    /\ ResyncRequired > 1

\* RollingCodeState.validate: the state of the fob's code after code, whose last
\* is code when it is accepted.
Accepts(code) == [last |-> code, start |-> 0, count |-> 0]

ValidateLate(r, code) ==
    LET next == r.start # 0 /\ code = r.start + r.count IN
    CASE code <= r.last \/ code - r.last > WindowResync -> [r EXCEPT !.start = 0, !.count = 0]
      [] code > r.last /\ code - r.last <= WindowNormal -> Accepts(code)
      [] OTHER ->
            IF ~next THEN [r EXCEPT !.start = code, !.count = 1]
            ELSE IF r.count >= ResyncRequired THEN Accepts(code)
            ELSE [r EXCEPT !.count = @ + 1]

Validate(r, code) ==
    LET next == r.start # 0 /\ code = r.start + r.count IN
    CASE code <= r.last \/ code - r.last > WindowResync -> [r EXCEPT !.start = 0, !.count = 0]
      [] code > r.last /\ code - r.last <= WindowNormal -> Accepts(code)
      [] OTHER ->
            IF ~next THEN [r EXCEPT !.start = code, !.count = 1]
            ELSE IF r.count + 1 >= ResyncRequired THEN Accepts(code)
            ELSE [r EXCEPT !.count = @ + 1]

\* The press of f is the second one of kind p.
Second(m, p, f) == m.pending[p] = f /\ m.timer[p] > 0

Waits(m, p, f) ==
    [m EXCEPT !.pending[p] = f, !.timer[p] = IF p = "combo" THEN ComboWindow ELSE PressWindow]

Clears(m, p) == [m EXCEPT !.pending[p] = None, !.timer[p] = Off]

\* handle_unlock
AfterUnlock(m, f) ==
    IF ~bus["twoStage"] \/ Second(m, "unlock", f)
    THEN [mem |-> Clears(m, "unlock"), news |-> << <<"feedback", "unlock">> >>, order |-> "UnlockAll"]
    ELSE [mem |-> Waits(m, "unlock", f), news |-> << <<"feedback", "unlock">> >>,
          order |-> "UnlockDriver"]

\* handle_lock
AfterLock(m, f) ==
    LET n      == Clears(m, "unlock")
        double == bus["doubleLock"] /\ Second(n, "double", f)
    IN  [mem   |-> IF double THEN Clears(n, "double")
                   ELSE IF bus["doubleLock"] THEN Waits(n, "double", f) ELSE n,
         news  |-> << <<"feedback", "lock">> >>,
         order |-> IF double THEN "DoubleLockAll" ELSE "LockAll"]

\* handle_trunk_release
AfterTrunk(m, f) ==
    IF Second(m, "trunk", f)
    THEN [mem |-> Clears(m, "trunk"), news |-> TrunkPulse \o << <<"feedback", "trunk_unlock">> >>,
          order |-> None]
    ELSE [mem |-> Waits(m, "trunk", f), news |-> <<>>, order |-> None]

\* handle_panic and bump_panic_event; only Double waits for a second press.
AfterPanic(m, f) ==
    IF bus["panicMode"] = "Double" /\ ~Second(m, "panic", f)
    THEN [mem |-> Waits(m, "panic", f), news |-> <<>>, order |-> None]
    ELSE [mem |-> [Clears(m, "panic") EXCEPT !.panics = (@ + 1) % 65536],
          news |-> << <<"panicEventNum", (m.panics + 1) % 65536>> >>, order |-> None]

After(m, f, action) ==
    CASE action = "UNLOCK"        -> AfterUnlock(m, f)
      [] action = "LOCK"          -> AfterLock(m, f)
      [] action = "TRUNK_RELEASE" -> AfterTrunk(m, f)
      [] action = "PANIC_ALARM"   -> AfterPanic(m, f)
      [] OTHER                    -> [mem |-> m, news |-> <<>>, order |-> None]

\* handle_authenticated: a lock and an unlock press of one fob close together
\* toggle two_stage_unlock; the first of them has been executed.
Executed(m, f, action) ==
    LET locks == action \in {"LOCK", "UNLOCK"}
        combo == locks /\ Second(m, "combo", f) /\ m.first # action
        n     == IF locks THEN [Waits(m, "combo", f) EXCEPT !.first = action]
                          ELSE Clears(m, "combo")
    IN  IF combo
        THEN [mem |-> Clears(m, "combo"), news |-> << <<"twoStage", ~bus["twoStage"]>> >>,
              order |-> None]
        ELSE After(n, f, action)

\* One of the rf branches of the select: what is not accepted changes the state of
\* the rolling code only.  world.heard[f] is history: the codes the task has read.
RkeHears(f) ==
    /\ Reads("rke", Of("rf", f))
    /\ LET msg  == Val("rke", Of("rf", f))
           code == Validate(mem["rke"].code[f], msg.code)
           m    == [mem["rke"] EXCEPT !.code[f] = code]
           w    == [world EXCEPT !.heard[f] = Append(@, msg.code)]
       IN  IF code.last = mem["rke"].code[f].last
           THEN React("rke", Of("rf", f), m, <<>>) /\ world' = w
           ELSE LET after == Executed(m, f, msg.action)
                IN  /\ React("rke", Of("rf", f), after.mem, after.news)
                    /\ world' = IF after.order = None THEN w
                                ELSE Ordered(w, "KeyfobRke", after.order)

\* The windows that have passed; the branch leaves pending_trunk_release, whose
\* age the next press checks.
RkeExpires ==
    /\ Runs("rke")
    /\ \E p \in DOMAIN mem["rke"].timer : Due("rke", p)
    /\ LET due == {p \in DOMAIN mem["rke"].timer : Due("rke", p)} IN
        Act("rke",
            [mem["rke"] EXCEPT
                !.pending = [p \in DOMAIN @ |-> IF p \in due \ {"trunk"} THEN None ELSE @[p]],
                !.timer   = [p \in DOMAIN @ |-> IF p \in due THEN Off ELSE @[p]]], <<>>)
    /\ UNCHANGED world

\* What the task follows, and its variables when it starts.
RkeTask ==
    [follows |-> OfAll("rf", Fobs),
     mem |-> [code |-> [f \in Fobs |-> Accepts(0)], first |-> None, panics |-> 0,
              pending |-> [p \in {"unlock", "double", "trunk", "panic", "combo"} |-> None],
              timer |-> Timers({"unlock", "double", "trunk", "panic", "combo"})]]

RkeStep == (\E f \in Fobs : RkeHears(f)) \/ RkeExpires

-----------------------------------------------------------------------------
(* The radio.                                                              *)

\* Fob f is pressed out of reach of the car (the plant model does not count such
\* presses; the windows are for the fobs that do), then in reach; or its last
\* message arrives a second time.
Radio(f, action, missed) ==
    /\ world.budget > 0
    /\ LET code == world.sent[f] + missed + 1 IN
        /\ Publish(<< <<Of("rf", f), [action |-> action, code |-> code]>> >>)
        /\ world' = [world EXCEPT !.budget = @ - 1, !.sent[f] = code]
    /\ UNCHANGED mem

RadioRepeats(f) ==
    /\ world.budget > 0
    /\ bus[Of("rf", f)] # None
    /\ Publish(<< <<Of("rf", f), bus[Of("rf", f)]>> >>)
    /\ world' = [world EXCEPT !.budget = @ - 1]
    /\ UNCHANGED mem
=============================================================================
