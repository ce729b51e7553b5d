----------------------------- MODULE Calibration -----------------------------
(***************************************************************************)
(* PlatformConfig of config.rs, and the copy of it that an HMI shows.      *)
(*                                                                         *)
(* Three tiers: vehicle_line is read at boot and never changes, variant is *)
(* read at boot and may be set, dealer starts from its defaults and may be *)
(* set.  A tier is a record of two fields that stand for its many; what    *)
(* the field unseen stands for is not in the message build_config_msg      *)
(* makes, or not under the name the tier's parser knows it by.             *)
(***************************************************************************)
EXTENDS Storage

VARIABLES
    live,  \* the PlatformConfig of this boot
    loaded \* history: the two tiers as this boot read them

configVars == <<live, loaded>>

\* VehicleLineCal, VariantCal and DealerConfig, each with its Default.
VehicleLineCal == [seen |-> 0, unseen |-> 0]
VariantCal     == [seen |-> 0, unseen |-> 0]
DealerConfig   == [first |-> 0, second |-> 0]

Defaults == [vehicle_line |-> VehicleLineCal, variant |-> VariantCal, dealer |-> DealerConfig]

\* The tiers that have a file.
ASSUME CalibrationAssumption == ConfigFiles = {"vehicle_line", "variant"}

\* What a tier can be.
Calibrations == [seen : Int, unseen : Int]
DealerConfigs == [first : Int, second : Int]

\* load reads the two files, one after the other.
LoadTier(tier) ==
    /\ live' = [live EXCEPT ![tier] = Loaded(tier, Defaults[tier]),
                            !.dealer = IF tier = "vehicle_line" THEN DealerConfig ELSE @]
    /\ loaded' = [loaded EXCEPT ![tier] = live'[tier]]

\* build_config_msg
ConfigMsg ==
    [vehicle_line |-> [seen |-> live.vehicle_line.seen],
     variant      |-> [seen |-> live.variant.seen],
     dealer       |-> live.dealer]

\* The section the HMI sends: what it shows with the staged value over it.
Staged(view, tier, v) == [view[tier] EXCEPT !.seen = v]

\* serde's default attribute: a field that is missing has its default.
Parsed(tier, section) ==
    [field \in DOMAIN Defaults[tier] |->
        IF field \in DOMAIN section THEN section[field] ELSE Defaults[tier][field]]

\* The keys that config_set knows: the fields it may set.
Settable == {<<"dealer", "first">>, <<"dealer", "second">>, <<"variant", "seen">>}

\* An edit of a calibration keeps the fields it does not name, "the merged (current +
\* staged) cal sections" of vss-hmi.html:4437-4438.
ApplyKeepsTheRest ==
    [][\A f \in ConfigFiles :
        Loaded(f, Defaults[f])'.unseen = Loaded(f, Defaults[f]).unseen]_disk
=============================================================================
