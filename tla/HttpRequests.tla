---------------------------- MODULE HttpRequests ----------------------------
(***************************************************************************)
(* What evhttp_make_request promises: a request is asked once and ends     *)
(* once, with a response, without one, or because the program gave it up.  *)
(***************************************************************************)
CONSTANT Reqs

VARIABLE fate

Ends == {"answered", "failed", "dropped"}

\* A request that cannot even be queued ends in the step that asks for it.
Moves == ({"new"} \X (Ends \cup {"asked"})) \cup ({"asked"} \X Ends)

Init == fate = [r \in Reqs |-> "new"]

\* One failure may end several requests, each in its own way.
Next == /\ fate' \in [Reqs -> Ends \cup {"new", "asked"}]
        /\ \A r \in Reqs : fate'[r] = fate[r] \/ <<fate[r], fate'[r]>> \in Moves

Spec == Init /\ [][Next]_fate
=============================================================================
