-------------------------------- MODULE Learner --------------------------------
(***************************************************************************)
(* The learner of analytics/learner.py over many sessions of the program:   *)
(* a start reads the reports of all sessions before it, adjusts parameters  *)
(* and disables strategies; the session ends with a report of its own, if   *)
(* it does not crash before.  A session with --no-learn reads nothing and  *)
(* takes nothing off, but reports.  Parameters are in units of 1/10000.     *)
(***************************************************************************)
EXTENDS Integers, FiniteSets

CONSTANTS
  Names,          \* of strategies in the reports
  SessionResults, \* [trades, wins, pnl, narrow, factor] of one strategy in one session
  MaxSessions,    \* bound
  MinTrades,      \* MIN_TRADES_TO_LEARN
  ManyTrades,     \* the 20 trades of some rules
  BtcMinTrades    \* BTC5M_MIN_TRADES_TO_LEARN

ASSUME LearnerAssumption ==
  /\ SessionResults \subseteq [trades : Nat, wins : Nat, pnl : Int, narrow : BOOLEAN, factor : Nat]
  /\ \A r \in SessionResults : r.wins <= r.trades
  /\ {MaxSessions, MinTrades, ManyTrades, BtcMinTrades} \subseteq Nat

VARIABLES
  history,    \* what load_history makes of the reports that are there
  session,    \* how many sessions were started
  running,
  learns,     \* whether this session does: it has no --no-learn
  settings,   \* the parameters of this session
  disabled,   \* strategies that the last session to learn took off the command line
  redeemed    \* those of them that have since traded in a session without a loss

learnVars == <<history, session, running, learns, settings, disabled, redeemed>>

\* narrow: the last spread captured is below two cents; factors: the profit factors, in
\* percent, added up.
NoHistory == [trades |-> 0, wins |-> 0, pnl |-> 0, factors |-> 0, narrow |-> TRUE,
              sessions |-> 0, negative |-> 0]

Defaults == [gamma |-> 5000, whaleRate |-> 8000, minEdge |-> 1600]

LearnInit ==
  /\ history = [n \in Names |-> NoHistory]
  /\ session = 0 /\ running = FALSE /\ learns = FALSE
  /\ settings = Defaults /\ disabled = {} /\ redeemed = {}

\* Plausible bug: a session in which a strategy did not trade ends its losing streak.
ProcessedIdle(h, r) ==
  [trades |-> h.trades + r.trades, wins |-> h.wins + r.wins, pnl |-> h.pnl + r.pnl,
   factors |-> h.factors + r.factor, narrow |-> r.narrow, sessions |-> h.sessions + 1,
   negative |-> IF r.pnl < 0 THEN h.negative + 1 ELSE 0]

\* _process_report for one strategy.
Processed(h, r) ==
  IF r.trades = 0 THEN h
  ELSE [trades |-> h.trades + r.trades, wins |-> h.wins + r.wins, pnl |-> h.pnl + r.pnl,
        factors |-> h.factors + r.factor, narrow |-> r.narrow, sessions |-> h.sessions + 1,
        negative |-> IF r.pnl < 0 THEN h.negative + 1 ELSE 0]

\* The averages are running means: total wins per trade, factors per session.
WinsAbove(h, percent) == 100 * h.wins > percent * h.trades
WinsBelow(h, percent) == 100 * h.wins < percent * h.trades
FactorAbove(h, percent) == h.factors > percent * h.sessions
FactorBelow(h, percent) == h.factors < percent * h.sessions

Less(m, n) == IF m < n THEN m ELSE n
More(m, n) == IF m > n THEN m ELSE n

\* _clamp, relative to the value at hand.
Clamped(new, old) == More((old * 7) \div 10, Less((old * 13) \div 10, new))

AdjustMM(h, s) ==
  LET wider == IF h.narrow /\ h.sessions >= 3 THEN Clamped((s.gamma * 115) \div 100, s.gamma)
               ELSE s.gamma
  IN  [s EXCEPT !.gamma = IF WinsAbove(h, 80) /\ h.trades >= ManyTrades
                          THEN Clamped((wider * 90) \div 100, wider) ELSE wider]

AdjustWhale(h, s) ==
  IF WinsBelow(h, 40) THEN [s EXCEPT !.whaleRate = Less(@ + 500, 9500)]
  ELSE IF WinsAbove(h, 70) /\ h.pnl > 0 /\ h.trades >= ManyTrades
       THEN [s EXCEPT !.whaleRate = More(@ - 300, 7000)]
       ELSE s

AdjustBtc(h, s) ==
  LET raised == IF WinsBelow(h, 45) \/ FactorBelow(h, 100)
                THEN Less(More(s.minEdge + 200, 1400), 2000) ELSE s.minEdge
  IN  IF h.trades < BtcMinTrades \/ h.sessions < 3 THEN s
      ELSE [s EXCEPT !.minEdge = IF WinsAbove(h, 65) /\ FactorAbove(h, 120)
                                 THEN More(raised - 100, 800) ELSE raised]

\* Plausible bug: the parameters of the last session are what the next one starts from.
FromLast == settings

\* Every start has the configuration of the program.
StartsFrom == Defaults

Knows(n) == n \in Names /\ history[n].trades >= MinTrades

\* apply_learning: every name adjusts a parameter of its own, in whichever order.
Learned ==
  LET mm    == IF Knows("market_making") THEN AdjustMM(history["market_making"], StartsFrom)
               ELSE StartsFrom
      whale == IF Knows("whale_copy") THEN AdjustWhale(history["whale_copy"], mm) ELSE mm
  IN  IF Knows("btc_5m") THEN AdjustBtc(history["btc_5m"], whale) ELSE whale

\* get_disabled_strategies; run takes only these two off.
Disabled == {n \in Names : history[n].negative >= 3 /\ history[n].pnl < 0}
Removed == Disabled \cap {"market_making", "whale_copy"}

Start(learning) ==
  /\ ~running /\ session < MaxSessions
  /\ session' = session + 1 /\ running' = TRUE /\ learns' = learning
  /\ IF learning THEN settings' = Learned /\ disabled' = Removed /\ redeemed' = {}
                 ELSE settings' = StartsFrom /\ UNCHANGED <<disabled, redeemed>>
  /\ UNCHANGED history

\* Shutdown with a report.  A strategy that was taken off has no trades in it.
NoTrades == [trades |-> 0, wins |-> 0, pnl |-> 0, narrow |-> TRUE, factor |-> 0]

End(results) ==
  /\ running /\ running' = FALSE
  /\ learns => \A n \in disabled : results[n] = NoTrades
  /\ history' = [n \in Names |-> Processed(history[n], results[n])]
  /\ redeemed' = redeemed \cup {n \in disabled : results[n].trades > 0 /\ results[n].pnl >= 0}
  /\ UNCHANGED <<session, learns, settings, disabled>>

\* A crash, or a report that cannot be written or read.
EndUnreported ==
  /\ running /\ running' = FALSE
  /\ UNCHANGED <<history, session, learns, settings, disabled, redeemed>>

LearnNext ==
  \/ \E learning \in BOOLEAN : Start(learning)
  \/ EndUnreported
  \/ \E results \in [Names -> SessionResults \cup {NoTrades}] : End(results)

LearnSpec == LearnInit /\ [][LearnNext]_learnVars

-------------------------------------------------------------------------------
Within(new, old) == 10 * new >= 7 * old /\ 10 * new <= 13 * old

\* "Never adjusts more than +-30% from defaults in a single session", however many
\* sessions have taught the same thing before (apply_learning).
LearnedWithinBounds ==
  \A p \in DOMAIN Defaults : Within(settings[p], Defaults[p])

\* A strategy once taken off does not come back, crash or not, while the sessions learn:
\* it has no trades to end its losing streak with.  Only a session with --no-learn runs it,
\* and only if it trades there and does not lose may a later start give it back
\* (get_disabled_strategies, run).
DisabledForGood == [][disabled \ redeemed \subseteq disabled']_learnVars
===============================================================================
