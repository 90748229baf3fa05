------------------------------ MODULE Platform ------------------------------
(***************************************************************************)
(* What the process stands on: the GPIO pin as wiringPi drives it          *)
(* (pi_timer_gpio.c, the Raspberry Pi build) and the lock that syslog()    *)
(* and the allocator take inside log_message() (pi_utils.c).  The level of *)
(* the pin belongs to the board: it survives the process.                  *)
(***************************************************************************)
EXTENDS Settings

VARIABLES
  level,   \* level of the pin: "LOW" or "HIGH"
  held,    \* ticks since the level last changed, up to MaxAge
  wired,   \* this process has set wiringPi and the pin's mode up
  logger,  \* the thread inside log_message(), or "free"
  lag      \* lag[t]: ticks thread t has been ready to go on since it last waited

pinVars  == <<level, held, wired>>
platform == <<pinVars, logger, lag>>

Threads == {"main", "server"}

NoLag == [t \in Threads |-> 0]

PlatformTypeOK ==
  /\ level \in {"LOW", "HIGH"}
  /\ held \in 0 .. MaxAge
  /\ wired \in BOOLEAN
  /\ logger \in Threads \cup {"free"}
  /\ lag \in [Threads -> Nat]

\* Nothing is known of the level before the first process runs.
PlatformInit ==
  /\ level \in {"LOW", "HIGH"}
  /\ held = MaxAge
  /\ wired = FALSE
  /\ logger = "free"
  /\ lag = NoLag

\* set_gpio(): without wiringPiSetup() a write reaches no pin.
SetGpio(value) ==
  /\ level' = IF wired THEN value ELSE level
  /\ held'  = IF level' = level THEN held ELSE 0
  /\ UNCHANGED wired

\* setup_wring_pi() sets the pin's mode and leaves its level alone.
SetPinMode == wired' = TRUE /\ UNCHANGED <<level, held>>

(***************************************************************************)
(* A thread that logs holds the log lock meanwhile.                        *)
(***************************************************************************)
TakeLog(t) == logger = "free" /\ logger' = t
DropLog(t) == logger = t /\ logger' = "free"

\* Thread t is about to wait: for a time, or for a client.
Waits(t) == lag' = [lag EXCEPT ![t] = 0]
=============================================================================
