--------------------------- MODULE MeasuredWindow ---------------------------
(* What a pool of query clients promises to concurrency.py and churn.py, which*)
(* only ever see start return or raise, and stop return a window or raise.    *)
EXTENDS Integers

CONSTANT Clients

VARIABLES
    phase,       \* "warming", "open", then how it ended
    querying,    \* clients that may be sending queries to the engine
    delivered    \* clients whose spans of the window the caller's side holds

vars == <<phase, querying, delivered>>

Init == phase = "warming" /\ querying = {} /\ delivered = {}

(* Clients appear while the pool warms up and never after the window opened.  *)
Begin(c) == /\ phase = "warming"
            /\ querying' = querying \cup {c}
            /\ UNCHANGED <<phase, delivered>>

End(c) == /\ querying' = querying \ {c}
          /\ UNCHANGED <<phase, delivered>>

Open == /\ phase = "warming"
        /\ phase' = "open"
        /\ UNCHANGED <<querying, delivered>>

Deliver(c) == /\ phase = "open"
              /\ delivered' = delivered \cup {c}
              /\ UNCHANGED <<phase, querying>>

(* A window exists only when every client delivered and none is still at work.*)
Publish == /\ phase = "open"
           /\ delivered = Clients
           /\ querying = {}
           /\ phase' = "published"
           /\ UNCHANGED <<querying, delivered>>

(* A failure leaves nobody behind either.                                     *)
Raise == /\ phase \in {"warming", "open"}
         /\ phase' = "raised"
         /\ querying' = {}
         /\ UNCHANGED delivered

(* Out of processes: the caller is gone too, and nothing is promised.         *)
Crash == /\ phase = "warming"
         /\ phase' = "crashed"
         /\ UNCHANGED <<querying, delivered>>

Next == \/ Open \/ Publish \/ Raise \/ Crash
        \/ \E c \in Clients : Begin(c) \/ End(c) \/ Deliver(c)

Spec == Init /\ [][Next]_vars
=============================================================================
