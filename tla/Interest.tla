------------------------------ MODULE Interest ------------------------------
(***************************************************************************)
(* What evmap.c and a polling backend promise together: the conditions the *)
(* backend will poll a descriptor for are those of the events listed on    *)
(* it, whatever way the backend has of finding out about them, except on   *)
(* the descriptors the kernel would not take.                              *)
(***************************************************************************)
CONSTANTS Fds, Events, ev_fd, Kinds

VARIABLES
    asks,               \* what the backend can poll for on behalf of each event
    listed,             \* the events of each descriptor
    polled,             \* what each descriptor is polled for
    refused             \* the descriptors the kernel would not take

iVars == <<asks, listed, polled, refused>>

Union(evs) == UNION {asks[ev] : ev \in evs}

Polled(evs, bad) == [fd \in Fds |-> IF fd \in bad THEN {} ELSE Union(evs[fd])]

\* An event is listed or taken from the list.
Add(ev) == /\ ev \notin listed[ev_fd[ev]]
           /\ listed' = [listed EXCEPT ![ev_fd[ev]] = @ \cup {ev}]

Del(ev) == /\ ev \in listed[ev_fd[ev]]
           /\ listed' = [listed EXCEPT ![ev_fd[ev]] = @ \ {ev}]

\* With any step the kernel may refuse a descriptor, or take one again.
Change == /\ \/ \E ev \in Events : Add(ev) \/ Del(ev)
             \/ UNCHANGED listed
          /\ refused' \in SUBSET Fds
          /\ asks' = asks
          /\ polled' = Polled(listed', refused')

Init == /\ asks \in [Events -> SUBSET Kinds]
        /\ listed = [fd \in Fds |-> {}]
        /\ polled = [fd \in Fds |-> {}]
        /\ refused = {}

Spec == Init /\ [][Change]_iVars
=============================================================================
