-------------------------------- MODULE Peps --------------------------------
(***************************************************************************)
(* The PEPS plant model (plant_models/peps): the fobs and phones as they   *)
(* answer the car ("peps").  It learns from the bus where a key is, so it  *)
(* may answer for a place the key has just left.  One select, unordered.   *)
(*                                                                         *)
(* A response stands for its nonce and a radio message for its action and  *)
(* rolling code: the MAC over them is right for the key that sends them.   *)
(* The answers to NFC challenges and approach polls are left out, nothing  *)
(* in the program sends those; so is the stagger between two answers.      *)
(***************************************************************************)
EXTENDS LockWorld

\* has_lf, supports_challenge_response and is_reachable
HasLf(z) == z \notin {"RfRange", "Out"}
Answerable(z) == HasLf(z) /\ z # "Approach"
Reachable(z) == z # "Out"

\* RssiResponse::for_zone: what the antennas at the driver's door, the passenger's door,
\* the hood, the trunk and in the cabin read, in dBm.
Rssi ==
    "Left"        :> <<-30, -65, -60, -70, -55>> @@
    "Right"       :> <<-65, -30, -60, -70, -55>> @@
    "Trunk"       :> <<-70, -70, -75, -30, -60>> @@
    "TrunkInside" :> <<-75, -75, -80, -25, -55>> @@
    "Cabin"       :> <<-50, -50, -55, -60, -25>> @@
    "Approach"    :> <<-75, -75, -75, -75, -80>>

\* The reading follows a key that moves, and is cleared when it leaves the antennas.
RssiNews(k, old, new) ==
    CASE old # new /\ HasLf(new)                -> << <<Of("rssi", k), Rssi[new]>> >>
      [] old # new /\ ~HasLf(new) /\ HasLf(old) -> << <<Of("rssi", k), None>> >>
      [] OTHER                                   -> <<>>

\* set_fob_zone and set_phone_zone
PepsHearsZone(k) ==
    /\ Has("peps", Of("placed", k))
    /\ LET z == Val("peps", Of("placed", k)) IN
        React("peps", Of("placed", k), [mem["peps"] EXCEPT !.zone[k] = z],
              RssiNews(k, mem["peps"].zone[k], z))
    /\ UNCHANGED world

\* handle_fob_button with press_button
PepsHearsButton(k) ==
    /\ Has("peps", Of("button", k))
    /\ LET action == Val("peps", Of("button", k))
           sends  == k \in Paired /\ Reachable(mem["peps"].zone[k]) /\ action # "NONE"
           code   == mem["peps"].counter[k] + 1
       IN  React("peps", Of("button", k),
                 IF sends THEN [mem["peps"] EXCEPT !.counter[k] = code] ELSE mem["peps"],
                 IF sends THEN << <<Of("rf", k), [action |-> action, code |-> code]>> >> ELSE <<>>)
    /\ UNCHANGED world

\* handle_lf_challenge and handle_ble_challenge
PepsHearsChallenge(s) ==
    /\ s \in {"lf", "ble"}
    /\ Has("peps", s)
    /\ LET who == {k \in IF s = "lf" THEN Fobs ELSE Phones : Answerable(mem["peps"].zone[k])}
       IN  React("peps", s, mem["peps"],
                 SetToSeq({<<Of("resp", k), Val("peps", s)>> : k \in who}))
    /\ UNCHANGED world

\* What the task follows, and its variables when it starts.
PepsTask(placed) ==
    [follows |-> {"lf", "ble"} \cup OfAll("placed", Keys) \cup OfAll("button", Fobs),
     mem |-> [zone |-> placed, counter |-> [k \in Fobs |-> 0], timer |-> NoTimer]]

PepsStep == \/ \E k \in Keys : PepsHearsZone(k)
            \/ \E k \in Fobs : PepsHearsButton(k)
            \/ \E s \in {"lf", "ble"} : PepsHearsChallenge(s)
=============================================================================
