----------------------------- MODULE MCBackends -----------------------------
(***************************************************************************)
(* Instances of Backends and Signals for TLC.  The two share no state: a   *)
(* behaviour is one of the first or one of the second.                     *)
(***************************************************************************)
EXTENDS Backends, Signals

CONSTANTS r1, w1, rc1, rr1, c1, r2, f1, f2, a1, a2, b1, A, B   \* model values

MCev_fd == [ev \in Events |-> IF ev = r2 THEN 2 ELSE 1]
MCev_events == [ev \in Events |->
    CASE ev = w1 -> {"WRITE"} [] ev = c1 -> {"CLOSED"}
      [] ev = rc1 -> {"READ", "CLOSED"} [] OTHER -> {"READ"}]

MCev_base == [ev \in SigEvents |-> IF ev = b1 THEN B ELSE A]
MCev_signum == [ev \in SigEvents |-> IF ev = b1 THEN 2 ELSE 1]

\* Bound: the event that only repeats another one is not used with the backends
\* that queue changes; the one that waits for closing only is used with those
\* that wait for writing or for reading and closing.
Few == /\ method \in {"changelist", "kqueue"} => rr1 \notin events'[1]
       /\ c1 \in events'[1] => events'[1] \subseteq {c1, w1, rc1}

VARIABLE part

Init == /\ part \in {"backend", "signals"}
        /\ BackendInit /\ (part = "signals" => method = "epoll")
        /\ SigInit
Next == /\ part' = part
        /\ \/ part = "backend" /\ BackendNext /\ Few /\ UNCHANGED sigVars
           \/ part = "signals" /\ SigNext /\ UNCHANGED backendVars
Spec == Init /\ [][Next]_<<part, backendVars, sigVars>>
=============================================================================
