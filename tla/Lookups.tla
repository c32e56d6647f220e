------------------------------ MODULE Lookups -------------------------------
(***************************************************************************)
(* What the resolver promises: a lookup that was accepted is told its      *)
(* result at most once, and nothing once it is dropped with the resolver.  *)
(***************************************************************************)
CONSTANT Handles

VARIABLE told

Init == told = [h \in Handles |-> "new"]

Moves == {<<"new", "asked">>, <<"asked", "told">>, <<"asked", "dropped">>}

Next == /\ told' \in [Handles -> {"new", "asked", "told", "dropped"}]
        /\ \A h \in Handles : told'[h] = told[h] \/ <<told[h], told'[h]>> \in Moves

Spec == Init /\ [][Next]_told
=============================================================================
