---------------------------- MODULE MCEventBase ----------------------------
(***************************************************************************)
(* Instances of EventBase for TLC: the callbacks are model values, their   *)
(* priorities and descriptors are given by the sets below.                 *)
(***************************************************************************)
EXTENDS EventBase

CONSTANTS
    io1, io2, sg1, tm1, tm2, df1, t1, t2,   \* model values
    Level1,            \* the callbacks of priority 1 (the others: 0)
    SharedFd, fd       \* the I/O events that watch one slot, and that slot

MCevcb_pri == [c \in Callbacks |-> IF c \in Level1 THEN 1 ELSE 0]

\* Every other event, and each internal one, has a descriptor of its own.
MCSlots ==
    [e \in IoEvents \cup Internal |-> IF e \in SharedFd THEN {fd} ELSE {e}]

\* Flag sets for event_base_loop.
NoFlags     == {{}}
AllFlags    == SUBSET {"ONCE", "NONBLOCK", "NO_EXIT_ON_EMPTY"}
StaysOpen   == {{"NO_EXIT_ON_EMPTY"}}
NoTime      == NoTV               \* no max_dispatch_time
=============================================================================
