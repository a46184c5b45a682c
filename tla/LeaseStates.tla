------------------------------ MODULE LeaseStates ------------------------------
(* The lifecycle of one physical lease: the five states of                     *)
(* resource/lease.rs and the transition table of resource/transition.rs, the   *)
(* only edges any ledger of the runtime may take.                              *)

LeaseState == {"Acquired", "InUse", "Closing", "Quarantined", "Closed"}

\* LEASE_TRANSITIONS: the edges of the table, as pairs <<from, to>>.
LeaseTransitions ==
    {<<"Acquired", "InUse">>,     <<"Acquired", "Closing">>,
     <<"Acquired", "Quarantined">>,
     <<"InUse", "Acquired">>,     <<"InUse", "Closing">>,
     <<"InUse", "Quarantined">>,
     <<"Closing", "Quarantined">>, <<"Closing", "Closed">>,
     <<"Quarantined", "Closed">>}

\* LeaseState::transition succeeds.
CanMove(from, to) == <<from, to>> \in LeaseTransitions

================================================================================
