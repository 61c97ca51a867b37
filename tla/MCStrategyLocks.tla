---------------------------- MODULE MCStrategyLocks ----------------------------
(* A runner with a Momentum, an OracleFrontrun and a sniper, and a portfolio. *)
EXTENDS StrategyLocks

MCOrder == <<"momentum", "volconv", "oracle", "portfolio">>

MCEntryStages ==
  [l \in Leaves |-> CASE l \in Momenta -> {2, 3} [] l \in Movers -> 1..4 [] OTHER -> {4}]

\* The default weights, in percent: warm-up, early, middle, end, dead zone.
MCWeight ==
  [l \in Wrapped |-> CASE l \in Momenta -> <<0, 40, 20, 0, 0>>
                       [] l \in Movers  -> <<50, 35, 40, 25, 0>>
                       [] OTHER         -> <<0, 0, 0, 50, 0>>]

MCStakes == [l \in Leaves |-> IF l \in Wrapped THEN {2} ELSE {1}]

MCPriority == [l \in Wrapped |-> CASE l \in Momenta -> 1 [] l \in Movers -> 3 [] OTHER -> 4]
===============================================================================
