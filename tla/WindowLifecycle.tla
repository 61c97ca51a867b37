---------------------------- MODULE WindowLifecycle ----------------------------
(***************************************************************************)
(* What the rolling-market runner promises about a token of a window: it is *)
(* bought and sold any number of times from the start of its window on, and *)
(* settled after the window has ended; from its first settlement on it is   *)
(* not bought again.  It is settled once, unless a settlement that came to  *)
(* it is interrupted: that one is repeated, at most once an interruption.   *)
(***************************************************************************)
EXTENDS Integers

CONSTANTS
  Tokens,      \* pairs <<window, side>>, a window being the minute it starts at
  Interval,    \* minutes a window lasts
  Horizon      \* last minute (a bound of the model)

VARIABLES
  clock,       \* the current minute
  holding,     \* the tokens that are held
  count,       \* the number of settlements of each token
  again        \* tokens whose last settlement is to be repeated

Init ==
  /\ clock = 0
  /\ holding = {}
  /\ count = [t \in Tokens |-> 0]
  /\ again = {}

Tick ==
  /\ clock < Horizon
  /\ clock' = clock + 1
  /\ UNCHANGED <<holding, count, again>>

Buy(t) ==
  /\ t[1] <= clock
  /\ count[t] = 0
  /\ holding' = holding \cup {t}
  /\ UNCHANGED <<clock, count, again>>

Sell(t) ==
  /\ t \in holding
  /\ holding' = holding \ {t}
  /\ UNCHANGED <<clock, count, again>>

Settlement(t) ==
  /\ t[1] + Interval <= clock
  /\ count[t] = 0 \/ t \in again
  /\ count' = [count EXCEPT ![t] = @ + 1]
  /\ holding' = holding \ {t}
  /\ UNCHANGED clock

Settle(t) == Settlement(t) /\ again' = again \ {t}

\* The settlement of t is interrupted, and with it that of those settled before it.
Interrupt(t) ==
  /\ Settlement(t)
  /\ \E before \in SUBSET {x \in Tokens : count[x] > 0} : again' = again \cup before \cup {t}

Next == Tick \/ \E t \in Tokens : Buy(t) \/ Sell(t) \/ Settle(t) \/ Interrupt(t)

Spec == Init /\ [][Next]_<<clock, holding, count, again>>
===============================================================================
