---------------------------- MODULE MCStarting ----------------------------
(* Values for model checking Starting: one key, the searches of            *)
(* PassiveEntry and Welcome.                                               *)
EXTENDS Starting

MCScans ==
    {[by |-> "other", scan |-> [legs |-> {"AllApproach"}, mode |-> "Presence"], reuse |-> TRUE],
     [by |-> "other", scan |-> [legs |-> {"Cabin", "AllApproach"}, mode |-> "Authenticated"], reuse |-> FALSE]}

MCPlaces ==
    [s \in Sources |-> IF s = "Peps" THEN {"Cabin", "Approach", "Out"} ELSE {"Cylinder", "Out"}]

MCBudget == [s \in Sources |-> IF s = "Peps" THEN 3 ELSE 4]
=============================================================================
