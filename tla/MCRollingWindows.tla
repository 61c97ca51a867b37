---------------------------- MODULE MCRollingWindows ----------------------------
(* Windows of three minutes: long enough for the oracle's two-minute look-back to *)
(* leave a minute in which the end of a running window has no candle yet.  The    *)
(* price turns at the start of a window, or a minute later, or not at all.        *)
EXTENDS RollingWindows

MCPaths ==
  {[m \in 0..(Horizon + 1) |-> IF m < turn THEN 1 ELSE 2] : turn \in {Interval, Interval + 1}}
    \cup {[m \in 0..(Horizon + 1) |-> 1]}
===============================================================================
