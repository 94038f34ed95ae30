--------------------------- MODULE CircuitBreaker ---------------------------
(***************************************************************************)
(* What async_start and async_stop of stream.py promise the integration    *)
(* whose circuit-breaker switch calls them: the gateway, which serves one  *)
(* central at a time, is only taken while the switch is on, and is free    *)
(* once turning it off has completed.                                      *)
(***************************************************************************)
VARIABLES mode,    \* "off", "on", or "stopping" while async_stop runs
          linked   \* whether a link of this stream holds the gateway

vars == <<mode, linked>>

Init == mode = "off" /\ linked = FALSE

TurnOn == mode = "off" /\ mode' = "on" /\ UNCHANGED linked

\* The stream connects, and reconnects, by itself.
Link == mode = "on" /\ ~linked /\ linked' = TRUE /\ UNCHANGED mode

Unlink == linked /\ linked' = FALSE /\ UNCHANGED mode

TurnOff == mode = "on" /\ mode' = "stopping" /\ UNCHANGED linked

Freed == mode = "stopping" /\ mode' = "off" /\ linked' = FALSE

Next == TurnOn \/ Link \/ Unlink \/ TurnOff \/ Freed

Spec == Init /\ [][Next]_vars
=============================================================================
