------------------------------ MODULE FanTimer ------------------------------
(***************************************************************************)
(* What the timer promises to whoever wires a fan to the pin, and nothing  *)
(* of how: the README's "turn a pin on and off based on two simple         *)
(* timers".  Once the service is ready the fan runs for RunTicks or more,  *)
(* then stays off for RestTicks or more; the first run may come at once.   *)
(* A service that is asked to stop leaves the pin low.  There are no       *)
(* threads, locks, logs or handlers here.                                  *)
(***************************************************************************)
EXTENDS Naturals

CONSTANTS RunTicks, RestTicks,
          MaxHeld               \* bound: how far held counts

VARIABLES
  pin,      \* "LOW" or "HIGH"
  held,     \* ticks since the pin last changed
  service,  \* "down", "failed", "boot", "up" or "closing"
  fresh     \* the service is up and has not let the fan wait yet

fan == <<pin, held, service, fresh>>

Init == /\ pin \in {"LOW", "HIGH"}
        /\ held = MaxHeld
        /\ service = "down"
        /\ fresh = FALSE

Set(value) == /\ pin' = value
              /\ held' = IF pin = value THEN held ELSE 0

Become(from, to) == service \in from /\ service' = to

Boot == Become({"down", "failed"}, "boot") /\ UNCHANGED <<pin, held, fresh>>

Ready == Become({"boot"}, "up") /\ Set("LOW") /\ fresh' = TRUE

On == /\ service = "up" /\ pin = "LOW"
      /\ fresh \/ held >= RestTicks
      /\ Set("HIGH")
      /\ fresh' = FALSE /\ UNCHANGED service

\* The hour does not let the fan run: the first run waits like any other.
Wait == service = "up" /\ fresh /\ fresh' = FALSE /\ UNCHANGED <<pin, held, service>>

Off == /\ service = "up" /\ pin = "HIGH"
       /\ held >= RunTicks
       /\ Set("LOW")
       /\ UNCHANGED <<service, fresh>>

Close == Become({"up"}, "closing") /\ fresh' = FALSE /\ UNCHANGED <<pin, held>>

Clear == service \in {"boot", "closing"} /\ Set("LOW") /\ UNCHANGED <<service, fresh>>

Exit == Become({"closing"}, "down") /\ pin = "LOW" /\ UNCHANGED <<pin, held, fresh>>

\* A service stopped while it boots may not reach the pin yet.
Abort == Become({"boot"}, "down") /\ UNCHANGED <<pin, held, fresh>>

Fail == /\ Become({"boot", "up", "closing"}, "failed")
        /\ fresh' = FALSE
        /\ UNCHANGED <<pin, held>>

Tick == /\ held' = IF held < MaxHeld THEN held + 1 ELSE held
        /\ UNCHANGED <<pin, service, fresh>>

Next == Boot \/ Ready \/ On \/ Wait \/ Off \/ Close \/ Clear \/ Exit \/ Abort \/ Fail \/ Tick

Spec == Init /\ [][Next]_fan
=============================================================================
