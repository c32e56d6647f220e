------------------------------ MODULE Listener ------------------------------
(***************************************************************************)
(* The connection listener of listener.c over an ordinary event: the loop's*)
(* thread accepts in listener_read_cb and calls the program with the lock  *)
(* released; the program's other thread enables, disables, frees it or     *)
(* changes its callback.  event_del on a callback that is running in the   *)
(* loop's thread waits for it, unless the loop's thread itself calls it.   *)
(***************************************************************************)
EXTENDS Integers, FiniteSets

CONSTANTS Conns, NoConn   \* the connections that arrive

VARIABLES lev,        \* the listener
          holder,     \* the thread that holds its lock
          reading,    \* how far listener_read_cb is, and with which connection
          other,      \* what the other thread is doing
          conn        \* what became of each connection

levVars == <<lev, holder, reading, other, conn>>

Nobody == "nobody"
At(pc, c) == [pc |-> pc, c |-> c]
Resting == At("out", NoConn)

\* evconnlistener_new with LEV_OPT_THREADSAFE.
evconnlistener_new ==
    /\ lev = [cb |-> TRUE, errorcb |-> TRUE, enabled |-> TRUE, added |-> TRUE, refcnt |-> 1, held |-> TRUE, freed |-> FALSE]
    /\ holder = Nobody /\ reading = Resting /\ other = "out"
    /\ conn = [c \in Conns |-> "coming"]

Lock(t) == holder = Nobody /\ holder' = t
Unlock == holder' = Nobody

\* The loop may run the callback while the event is added.
Running == reading.pc # "out"

\* listener_decref_and_unlock where event_del need not wait.
decref(l) == IF l.refcnt = 1 THEN [l EXCEPT !.refcnt = 0, !.added = FALSE, !.freed = TRUE]
             ELSE [l EXCEPT !.refcnt = @ - 1]

-----------------------------------------------------------------------------
(* listener_read_cb. *)

Start == /\ reading = Resting /\ lev.added /\ ~lev.freed
         /\ reading' = At("lock", NoConn)
         /\ UNCHANGED <<lev, holder, other, conn>>

EnterAccept == /\ reading.pc = "lock" /\ Lock("loop")
               /\ reading' = At("accept", NoConn)
               /\ UNCHANGED <<lev, other, conn>>

\* One accept: nobody is left, or it failed and nobody wants to know.
AcceptEnds == /\ reading.pc = "accept" /\ Unlock
              /\ reading' = Resting
              /\ UNCHANGED <<lev, other, conn>>

AcceptFails == /\ reading.pc = "accept" /\ lev.errorcb /\ Unlock
               /\ lev' = [lev EXCEPT !.refcnt = @ + 1]
               /\ reading' = At("errorcb", NoConn)
               /\ UNCHANGED <<other, conn>>

\* The address is empty: closed, and the loop goes on.
AcceptNameless(c) == /\ reading.pc = "accept" /\ conn[c] = "coming"
                     /\ conn' = [conn EXCEPT ![c] = "closed"]
                     /\ UNCHANGED <<lev, holder, reading, other>>

\* Mutant: the callback is called without holding a reference.
accepts_unreferenced(c) ==
    /\ reading.pc = "accept" /\ conn[c] = "coming" /\ Unlock
    /\ conn' = [conn EXCEPT ![c] = IF lev.cb THEN "given" ELSE "closed"]
    /\ reading' = IF lev.cb THEN At("cb", c) ELSE Resting
    /\ UNCHANGED <<lev, other>>

Accepts(c) == /\ reading.pc = "accept" /\ conn[c] = "coming" /\ Unlock
              /\ conn' = [conn EXCEPT ![c] = IF lev.cb THEN "given" ELSE "closed"]
              /\ lev' = IF lev.cb THEN [lev EXCEPT !.refcnt = @ + 1] ELSE lev
              /\ reading' = IF lev.cb THEN At("cb", c) ELSE Resting
              /\ UNCHANGED other

CallbackReturns == /\ reading.pc \in {"cb", "errorcb"}
                   /\ reading' = [reading EXCEPT !.pc = IF @ = "cb" THEN "relock" ELSE "errorlock"]
                   /\ UNCHANGED <<lev, holder, other, conn>>

\* Back from the accept callback: the last reference goes, and the connection
\* with it, or the loop goes on.
AfterCallback == /\ reading.pc = "relock" /\ UNCHANGED other
                 /\ IF lev.refcnt = 1
                    THEN /\ holder = Nobody /\ lev' = decref(lev) /\ reading' = Resting
                         /\ conn' = [conn EXCEPT ![reading.c] = "closed"]
                         /\ UNCHANGED holder
                    ELSE /\ Lock("loop") /\ lev' = [lev EXCEPT !.refcnt = @ - 1]
                         /\ reading' = At("accept", NoConn)
                         /\ UNCHANGED conn

AfterErrorcb == /\ reading.pc = "errorlock" /\ holder = Nobody
                /\ lev' = decref(lev) /\ reading' = Resting
                /\ UNCHANGED <<holder, other, conn>>

listener_read_cb == \/ Start \/ EnterAccept \/ AcceptEnds \/ AcceptFails
                    \/ \E c \in Conns : AcceptNameless(c) \/ Accepts(c)
                    \/ CallbackReturns \/ AfterCallback \/ AfterErrorcb

-----------------------------------------------------------------------------
(* The program.  Thread t calls while it is not inside another call; the    *)
(* loop's thread calls from its callbacks.                                  *)

MayCall(t) == /\ lev.held /\ holder = Nobody
              /\ IF t = "loop" THEN reading.pc \in {"cb", "errorcb"} ELSE other = "out"

evconnlistener_enable(t) ==
    /\ MayCall(t)
    /\ lev' = [lev EXCEPT !.enabled = TRUE, !.added = @ \/ lev.cb]
    /\ UNCHANGED <<holder, reading, other, conn>>

evconnlistener_set_cb(t, on) ==
    /\ MayCall(t)
    /\ lev' = [lev EXCEPT !.cb = on, !.added = @ \/ (lev.enabled /\ ~lev.cb /\ on)]
    /\ UNCHANGED <<holder, reading, other, conn>>

evconnlistener_set_error_cb(t, on) ==
    /\ MayCall(t)
    /\ lev' = [lev EXCEPT !.errorcb = on]
    /\ UNCHANGED <<holder, reading, other, conn>>

\* evconnlistener_disable: event_del under the lock, in a step of its own when
\* it may have to wait.
evconnlistener_disable(t) ==
    /\ MayCall(t)
    /\ IF t = "loop" THEN /\ lev' = [lev EXCEPT !.enabled = FALSE, !.added = FALSE]
                          /\ UNCHANGED <<holder, other>>
       ELSE /\ Lock("other") /\ other' = "disable"
            /\ lev' = [lev EXCEPT !.enabled = FALSE]
    /\ UNCHANGED <<reading, conn>>

\* evconnlistener_free: the callbacks go at once, the listener with the last
\* reference.
evconnlistener_free(t) ==
    /\ MayCall(t)
    /\ LET l == [lev EXCEPT !.cb = FALSE, !.errorcb = FALSE, !.held = FALSE]
       IN IF t = "loop" \/ lev.refcnt > 1 THEN lev' = decref(l) /\ UNCHANGED <<holder, other>>
          ELSE Lock("other") /\ other' = "free" /\ lev' = [l EXCEPT !.refcnt = 0]
    /\ UNCHANGED <<reading, conn>>

\* event_del returns once the callback does not run.
event_del_returns ==
    /\ other # "out" /\ ~Running
    /\ lev' = [lev EXCEPT !.added = FALSE, !.freed = other = "free"]
    /\ other' = "out" /\ Unlock
    /\ UNCHANGED <<reading, conn>>

LevNext == \/ listener_read_cb
           \/ \E t \in {"loop", "other"} :
                \/ evconnlistener_enable(t) \/ evconnlistener_disable(t) \/ evconnlistener_free(t)
                \/ \E on \in BOOLEAN : evconnlistener_set_cb(t, on) \/ evconnlistener_set_error_cb(t, on)
           \/ event_del_returns

LevSpec == evconnlistener_new /\ [][LevNext]_levVars

-----------------------------------------------------------------------------
(* Properties. *)

\* The listener lives as long as listener_read_cb uses it, whoever frees it
\* and when (refcnt, listener_decref_and_unlock).
ListenerLives == lev.freed => ~Running /\ other = "out" /\ holder = Nobody

\* Whenever nobody holds the lock, an enabled listener with a callback listens
\* (evconnlistener_set_cb enables one that had none).
ListenerListens == holder = Nobody /\ lev.held /\ lev.enabled /\ lev.cb => lev.added

\* LEV_OPT_THREADSAFE: "safe to use from multiple threadcs at once".  The
\* other thread never waits, holding the lock, for a callback that waits for
\* the lock.
NoStandoff == ~(other # "out" /\ reading.pc \in {"lock", "relock", "errorlock"})

\* Whoever frees, disables or changes it, the listener outlives its callback
\* and listens when it should.
ListenerSafe == ListenerLives /\ ListenerListens
=============================================================================
