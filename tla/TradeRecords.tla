----------------------------- MODULE TradeRecords ------------------------------
(***************************************************************************)
(* What a session leaves behind (analytics): the recorder makes round trips *)
(* out of fills, and the analysis at shutdown makes a report out of them.   *)
(* A record keeps the cost of its entry, the price times the size.          *)
(***************************************************************************)
EXTENDS Integers, Sequences, FiniteSets, Sums

CONSTANTS
  RecTokens, Sources,
  ReportName,    \* _normalize_strategy: a report's name for a source
  FillPrices, FillSizes,
  MaxFills       \* bound

ASSUME RecordAssumption ==
  /\ FillPrices \subseteq Nat \ {0} /\ FillSizes \subseteq Nat \ {0}
  /\ MaxFills \in Nat /\ Sources \subseteq DOMAIN ReportName
  /\ IsFiniteSet(RecTokens) /\ IsFiniteSet(Sources)

VARIABLES
  openTrades,    \* _open_trades: per token, of size 0 if there is none
  completed,     \* completed_trades
  fills,         \* how many there have been
  net, cash,     \* per token: shares bought and not sold, and money received
  odd,           \* tokens with an exit of another size than their entry
  report         \* NoReport before the shutdown

recordVars == <<openTrades, completed, fills, net, cash, odd, report>>

NoTrade == [side |-> "none", size |-> 0, cost |-> 0, strategy |-> "none"]
NoReport == <<>>

RecordInit ==
  /\ openTrades = [t \in RecTokens |-> NoTrade]
  /\ completed = <<>> /\ fills = 0 /\ odd = {} /\ report = NoReport
  /\ net = [t \in RecTokens |-> 0] /\ cash = [t \in RecTokens |-> 0]

Signed(side, n) == IF side = "BUY" THEN n ELSE -n

\* TradeRecord.close: the result of the whole entry, whatever the size of the exit.
Outcome(r, price) == Signed(r.side, price * r.size - r.cost)

\* Plausible bug: a second entry leaves the average price as it is.
JoinedAtFirstPrice(r, price, size) ==
  [r EXCEPT !.size = @ + size, !.cost = @ + (@ \div r.size) * size]

Joined(r, price, size) == [r EXCEPT !.size = @ + size, !.cost = @ + price * size]

\* The part of the entry that stays open, at the same price.
Remainder(r, size) ==
  IF size >= r.size THEN NoTrade
  ELSE [r EXCEPT !.size = @ - size, !.cost = (@ * (r.size - size)) \div r.size]

OnFill(t, side, price, size, source) ==
  LET r == openTrades[t]
      exits == r.size > 0 /\ r.side # side
  IN  /\ report = NoReport /\ fills < MaxFills
      /\ fills' = fills + 1
      /\ openTrades' = [openTrades EXCEPT ![t] =
           IF r.size = 0 THEN [side |-> side, size |-> size, cost |-> price * size,
                               strategy |-> source]
           ELSE IF exits THEN Remainder(r, size) ELSE Joined(r, price, size)]
      /\ completed' = IF exits
                      THEN Append(completed, [strategy |-> r.strategy, pnl |-> Outcome(r, price)])
                      ELSE completed
      /\ odd' = IF exits /\ size # r.size THEN odd \cup {t} ELSE odd
      /\ net' = [net EXCEPT ![t] = @ + Signed(side, size)]
      /\ cash' = [cash EXCEPT ![t] = @ - Signed(side, price * size)]
      /\ UNCHANGED report

TotalOf(trades) == SeqTotal([i \in DOMAIN trades |-> trades[i].pnl])

\* BaseAnalyzer.analyze, of the trades at the places I: only what is complete counts.
Analyzed(I) ==
  [trades |-> Cardinality(I),
   wins   |-> Cardinality({i \in I : completed[i].pnl > 0}),
   pnl    |-> SeqTotal([i \in DOMAIN completed |-> IF i \in I THEN completed[i].pnl ELSE 0])]

Named(name) == {i \in DOMAIN completed : ReportName[completed[i].strategy] = name}
ReportNames == {ReportName[s] : s \in Sources}

\* run_analysis.  Positions that shutdown closes are fills as any other.
RunAnalysis ==
  /\ report = NoReport
  /\ report' = [session    |-> Analyzed(DOMAIN completed),
                strategies |-> [n \in ReportNames |-> Analyzed(Named(n))]]
  /\ UNCHANGED <<openTrades, completed, fills, net, cash, odd>>

RecordNext ==
  \/ RunAnalysis
  \/ \E t \in RecTokens, side \in {"BUY", "SELL"}, p \in FillPrices, n \in FillSizes, s \in Sources :
       OnFill(t, side, p, n, s)

RecordSpec == RecordInit /\ [][RecordNext]_recordVars

-------------------------------------------------------------------------------
\* What a record costs, and what a sale in advance has brought.
Stake(t) == Signed(openTrades[t].side, openTrades[t].cost)

TotalAlong(S, f) == SumAlong(Enumeration(S), Cardinality(S), f)

\* As long as every exit has the size of its entry the records are the account: what is
\* open is what is held, and the results and the stakes together are the money that
\* came and went; and so are the totals of the report, all strategies together.  (An
\* exit of another size breaks both: the result of the whole entry counts for a part
\* of it, and what an exit takes beyond the entry is forgotten; _close_trade, close.)
RecordsAddUp ==
  odd = {} =>
    /\ \A t \in RecTokens : net[t] = Signed(openTrades[t].side, openTrades[t].size)
    /\ TotalOf(completed) = TotalAlong(RecTokens, [t \in RecTokens |-> cash[t] + Stake(t)])
    /\ report # NoReport =>
         /\ report.session.pnl = TotalOf(completed)
         /\ TotalAlong(ReportNames, [n \in ReportNames |-> report.strategies[n].pnl])
              = report.session.pnl
===============================================================================
