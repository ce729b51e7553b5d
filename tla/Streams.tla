------------------------------- MODULE Streams -------------------------------
(***************************************************************************)
(* Feature tasks on the signal bus, as features/*.rs and plant_models/*.rs *)
(* use it: a task subscribes to signals, select! hands it one value at a   *)
(* time, and its handler changes the task's own variables and publishes.   *)
(* The bus itself is MockBus; here a subscription is the queue of values   *)
(* the task has not read.                                                  *)
(*                                                                         *)
(* A behaviour runs the tasks in DOMAIN mem.  mem[t] is the task's local   *)
(* record; its field timer holds, by name, the ticks its sleeps have left. *)
(***************************************************************************)
EXTENDS Integers, SequencesExt

VARIABLES
    bus,    \* per signal: its value; the configuration a task reads is kept here too
    unread, \* per task and signal it follows: the values it has not read
    mem,    \* per task: its local variables
    world   \* what is outside the tasks

vars == <<bus, unread, mem, world>>

Off == -1

\* The signal s of key, door or side k, as the paths name it.
Of(s, k) == s \o "." \o k

OfAll(s, ks) == {Of(s, k) : k \in ks}

\* The sleeps a task has, none of them running.
NoTimer == [n \in {} |-> Off]

Timers(ns) == [n \in ns |-> Off]

-----------------------------------------------------------------------------

Runs(t) == t \in DOMAIN mem

Has(t, s) == Runs(t) /\ unread[t][s] # <<>>

Val(t, s) == Head(unread[t][s])

\* Everything the task follows and that it has read.
CaughtUp(t) == \A s \in DOMAIN unread[t] : unread[t][s] = <<>>

\* The values of new, and where it has none those of old.
Over(new, old) ==
    [x \in DOMAIN new \cup DOMAIN old |-> IF x \in DOMAIN new THEN new[x] ELSE old[x]]

\* news is the sequence of <<signal, value>> a handler publishes.
PlacesOf(news, s) == {i \in DOMAIN news : news[i][1] = s}

\* Of each signal the bus keeps the last value.
BusAfter(news) ==
    Over([s \in {news[i][1] : i \in DOMAIN news} |->
            LET own == PlacesOf(news, s)
            IN  news[CHOOSE i \in own : \A j \in own : j <= i][2]],
         bus)

\* What news says of s, in its order.
ValuesOf(news, s) ==
    LET own == PlacesOf(news, s)
    IN  [n \in 1..Cardinality(own) |->
            news[CHOOSE i \in own : Cardinality({j \in own : j <= i}) = n][2]]

Delivered(queues, news) ==
    [t \in DOMAIN queues |-> [s \in DOMAIN queues[t] |-> queues[t][s] \o ValuesOf(news, s)]]

Publish(news) ==
    /\ bus' = BusAfter(news)
    /\ unread' = Delivered(unread, news)

\* Task t goes on with local variables m after a sleep or an answer.
Act(t, m, news) ==
    /\ mem' = [mem EXCEPT ![t] = m]
    /\ Publish(news)

\* Task t handles the next value of s.
React(t, s, m, news) ==
    /\ mem' = [mem EXCEPT ![t] = m]
    /\ bus' = BusAfter(news)
    /\ unread' = Delivered([unread EXCEPT ![t][s] = Tail(@)], news)

\* The handler only keeps the value.
Keeps(t, s) ==
    /\ React(t, s, [mem[t] EXCEPT ![s] = Val(t, s)], <<>>)
    /\ UNCHANGED world

\* The handler returns early.
Passes(t, s) == React(t, s, mem[t], <<>>) /\ UNCHANGED world

\* A button, a door, the ignition, or another feature publishes v.
Happens(s, v) ==
    /\ world.budget > 0
    /\ bus[s] # v
    /\ world' = [world EXCEPT !.budget = @ - 1]
    /\ Publish(<< <<s, v>> >>)
    /\ UNCHANGED mem

-----------------------------------------------------------------------------
(* Time.                                                                   *)

Due(t, n) == Runs(t) /\ mem[t].timer[n] = 0

TimerRuns == \E t \in DOMAIN mem : \E n \in DOMAIN mem[t].timer : mem[t].timer[n] > 0

Passed(timer) == [n \in DOMAIN timer |-> IF timer[n] > 0 THEN timer[n] - 1 ELSE timer[n]]

\* A tick (a tenth of a second at least) passes when every sleep that has ended
\* has been handled and every task has read its streams; tasks that are waiting
\* for an answer may be late with both.
Tick(waiting) ==
    /\ TimerRuns
    /\ \A t \in DOMAIN mem \ waiting :
        /\ \A n \in DOMAIN mem[t].timer : mem[t].timer[n] # 0
        /\ CaughtUp(t)
    /\ mem' = [t \in DOMAIN mem |-> [mem[t] EXCEPT !.timer = Passed(@)]]
    /\ UNCHANGED <<bus, unread>>
=============================================================================
