---------------------------- MODULE SleepInhibit ----------------------------
(***************************************************************************)
(* SleepInhibitManager of sleep_inhibit.rs: features hold claims that keep *)
(* the processor awake; a reaper expires a claim that is held too long;    *)
(* the power manager waits until there is none.  main.rs does not use it.  *)
(*                                                                         *)
(* claims is only touched under its mutex, so a step is one critical       *)
(* section; a guard that is dropped has a task of its own remove its claim.*)
(***************************************************************************)
EXTENDS Integers, FiniteSets

CONSTANTS
    MaxClaims, \* claims made in a behaviour
    MaxHold,   \* the ticks a claim may be held
    Interval   \* the ticks between two rounds of the reaper

ASSUME SleepInhibitAssumption == MaxClaims \in Nat /\ MaxHold \in Nat /\ Interval \in Nat \ {0}

VARIABLES
    claims,   \* per claim in the map: the ticks since it was acquired
    count,    \* the value of the watch channel
    guards,   \* the guards that features hold
    removals, \* the removals that drops have spawned
    made,     \* how many claims have been made
    sleeping, \* the ticks until the reaper's next round
    waiter    \* the power manager: what it has seen of count, or that it has returned

inhibitVars == <<claims, count, guards, removals, made, sleeping, waiter>>

InhibitInit ==
    /\ claims = [i \in {} |-> 0]
    /\ count = 0
    /\ guards = {} /\ removals = {}
    /\ made = 0
    /\ sleeping = Interval
    /\ waiter = "idle"

\* The map and the channel change together; a send wakes who waits.
Hold(c) ==
    /\ claims' = c
    /\ count' = Cardinality(DOMAIN c)
    /\ waiter' = IF waiter = "waiting" THEN "woken" ELSE waiter

Without(ids) == [i \in DOMAIN claims \ ids |-> claims[i]]

\* acquire
Acquire ==
    /\ made < MaxClaims
    /\ made' = made + 1
    /\ Hold([i \in DOMAIN claims \cup {made'} |-> IF i = made' THEN 0 ELSE claims[i]])
    /\ guards' = guards \cup {made'}
    /\ UNCHANGED <<removals, sleeping>>

DropGuard(i) ==
    /\ i \in guards
    /\ guards' = guards \ {i}
    /\ removals' = removals \cup {i}
    /\ UNCHANGED <<claims, count, made, sleeping, waiter>>

\* remove_claim; the reaper may have been there before.
RemoveClaim(i) ==
    /\ i \in removals
    /\ removals' = removals \ {i}
    /\ Hold(Without({i}))
    /\ UNCHANGED <<guards, made, sleeping>>

\* Wrong: expired claims leave the map, and nobody is told.
HoldSilently(c) ==
    /\ claims' = c
    /\ UNCHANGED <<count, waiter>>

\* What the reaper leaves of the map.
ReapInto(c) == Hold(c)

\* reaper_loop
Reap ==
    /\ sleeping = 0
    /\ sleeping' = Interval
    /\ ReapInto(Without({i \in DOMAIN claims : claims[i] > MaxHold}))
    /\ UNCHANGED <<guards, removals, made>>

\* wait_until_sleep_ready: returns at a count of zero, else waits for a change.
Wait ==
    /\ waiter \in {"idle", "woken"}
    /\ waiter' = IF count = 0 THEN "returned" ELSE "waiting"
    /\ UNCHANGED <<claims, count, guards, removals, made, sleeping>>

InhibitTick ==
    /\ sleeping > 0
    /\ removals = {}
    /\ waiter # "woken"
    /\ claims # <<>>
    /\ sleeping' = sleeping - 1
    /\ claims' = [i \in DOMAIN claims |-> claims[i] + 1]
    /\ UNCHANGED <<count, guards, removals, made, waiter>>

InhibitNext ==
    \/ Acquire
    \/ \E i \in 1..MaxClaims : DropGuard(i) \/ RemoveClaim(i)
    \/ Reap
    \/ Wait
    \/ InhibitTick

\* A claim nobody gives back is gone one round after its time, and whoever waits for
\* sleep does not wait when no claim is left (sleep_inhibit.rs:9-12).
StuckClaimsExpire ==
    /\ \A i \in DOMAIN claims : claims[i] <= MaxHold + Interval
    /\ waiter = "waiting" => claims # <<>>
=============================================================================
