----------------------------- MODULE SignalResearch ----------------------------
(***************************************************************************)
(* The evaluation of signals on recorded data (research/signal_eval.py):    *)
(* records are taken in the order of their times, each forecaster may give  *)
(* a signal for a record, and the signals of a window are sampled.  Of the  *)
(* forecasters the model keeps one that looks at nothing, one that looks    *)
(* back at the asset's own price and one that looks back at the leader's.   *)
(***************************************************************************)
EXTENDS Integers, Sequences, FiniteSets

CONSTANTS
  RecAssets, Leader,
  Slugs,        \* windows; SlugAsset gives the asset of each
  SlugAsset,
  RecPrices,    \* 0 for a record without a price
  LastTime, MaxRecords, \* bounds
  Back,         \* how far the forecasters look back
  Sample,       \* --sample-seconds
  MostPrices    \* maxlen of the prices that are kept

ASSUME ResearchAssumption ==
  /\ Leader \in RecAssets /\ SlugAsset \in [Slugs -> RecAssets]
  /\ RecPrices \subseteq Nat /\ {LastTime, MaxRecords, Back, Sample} \subseteq Nat
  /\ MostPrices \in Nat \ {0}

VARIABLES
  records,     \* taken so far: [slug, ts, price]
  recent,      \* RollingState.prices: per asset, [ts, price]
  lastEmit,    \* last_emit_ts, -1 if there is none
  emitted,     \* signals: [strategy, slug, ts, price, up]
  forecast,    \* what forecasters gave, sampled or not
  evaluated    \* per strategy, [n, right]; NotYet before evaluate

signalVars == <<records, recent, lastEmit, emitted, forecast, evaluated>>

Forecasters == {"baseline", "momentum", "leadlag"}
NotYet == <<>>

SignalInit ==
  /\ records = <<>> /\ recent = [a \in RecAssets |-> <<>>]
  /\ lastEmit = [k \in Forecasters \X Slugs |-> -1]
  /\ emitted = <<>> /\ forecast = {} /\ evaluated = NotYet

LastOf(s) == s[Len(s)]

\* RollingState.add
Pushed(rows, ts, price) ==
  LET all == Append(rows, [ts |-> ts, price |-> price])
  IN  IF Len(all) > MostPrices THEN Tail(all) ELSE all

\* Plausible bug: the search does not stop where the rows become too young.
PriceAgoLatest(rows, target) == LastOf(rows).price

\* price_seconds_ago: the youngest row that is old enough, or else the first one.
PriceAgo(rows, target) ==
  LET old == {i \in DOMAIN rows : \A j \in 1..i : rows[j].ts <= target}
  IN  IF old = {} THEN rows[1].price ELSE rows[Cardinality(old)].price

\* The price a forecaster compares with, 0 if it gives no signal.
Reference(f, r, rows) ==
  CASE f = "baseline" -> 1
    [] f = "momentum" -> IF rows[SlugAsset[r.slug]] = <<>> \/ r.price = 0 THEN 0
                         ELSE PriceAgo(rows[SlugAsset[r.slug]], r.ts - Back)
    [] f = "leadlag"  -> IF SlugAsset[r.slug] = Leader \/ rows[Leader] = <<>> THEN 0
                         ELSE PriceAgo(rows[Leader], r.ts - Back)

Current(f, r, rows) ==
  CASE f = "baseline" -> 1 [] f = "momentum" -> r.price [] f = "leadlag" -> LastOf(rows[Leader]).price

\* should_emit
ShouldEmit(f, r) ==
  LET last == lastEmit[<<f, r.slug>>] IN Sample = 0 \/ last = -1 \/ r.ts - last >= Sample

SignalFor(f, r, rows) ==
  [strategy |-> f, slug |-> r.slug, ts |-> r.ts, against |-> Reference(f, r, rows),
   up |-> Current(f, r, rows) >= Reference(f, r, rows)]

\* One record of generate_signals: the state first, then every forecaster.
TakeRecord(r) ==
  /\ evaluated = NotYet /\ Len(records) < MaxRecords
  /\ records # <<>> => r.ts >= LastOf(records).ts
  /\ LET asset == SlugAsset[r.slug]
         rows  == IF r.price > 0 THEN [recent EXCEPT ![asset] = Pushed(@, r.ts, r.price)] ELSE recent
         given == {f \in Forecasters : Reference(f, r, rows) > 0}
         kept  == {f \in given : ShouldEmit(f, r)}
         Of(f) == IF f \in kept THEN <<SignalFor(f, r, rows)>> ELSE <<>>
     IN  /\ recent' = rows
         /\ lastEmit' = [k \in DOMAIN lastEmit |->
                           IF k[1] \in kept /\ k[2] = r.slug THEN r.ts ELSE lastEmit[k]]
         /\ emitted' = emitted \o Of("baseline") \o Of("momentum") \o Of("leadlag")
         /\ forecast' = forecast \cup {<<f, r.slug, r.ts>> : f \in given}
  /\ records' = Append(records, r)
  /\ UNCHANGED evaluated

\* compute_outcomes: by the window's last record, be it near the end or not.
LastRecord(slug) ==
  LET of == {i \in DOMAIN records : records[i].slug = slug}
  IN  records[CHOOSE i \in of : \A j \in of : j <= i]

\* The market's middle decides when it leans far enough, else the price and the strike.
WindowUp(slug, mids, strikePrice) ==
  mids[slug] = "up" \/ (mids[slug] = "open" /\ LastRecord(slug).price >= strikePrice)

\* evaluate: every signal of a window that has a record has an outcome.
Evaluate(mids, strikePrice) ==
  /\ evaluated = NotYet /\ records # <<>>
  /\ evaluated' = [f \in Forecasters |->
       LET mine == {i \in DOMAIN emitted : emitted[i].strategy = f}
       IN  [n |-> Cardinality(mine),
            right |-> Cardinality({i \in mine :
                        emitted[i].up = WindowUp(emitted[i].slug, mids, strikePrice)})]]
  /\ UNCHANGED <<records, recent, lastEmit, emitted, forecast>>

SignalNext ==
  \/ \E slug \in Slugs, ts \in 0..LastTime, p \in RecPrices :
       TakeRecord([slug |-> slug, ts |-> ts, price |-> p])
  \/ \E mids \in [Slugs -> {"up", "down", "open"}], strikePrice \in RecPrices : Evaluate(mids, strikePrice)

SignalSpec == SignalInit /\ [][SignalNext]_signalVars

-------------------------------------------------------------------------------
\* What was known of an asset's price up to a time: its records, of all.
Known(asset, ts) ==
  {i \in DOMAIN records :
     SlugAsset[records[i].slug] = asset /\ records[i].price > 0 /\ records[i].ts <= ts}

LooksBack(s) ==
  LET priced == Known(SlugAsset[s.slug], s.ts)
      aged  == {j \in priced : records[j].ts <= s.ts - Back}
  IN  \/ \E j \in aged : s.against = records[j].price /\ \A k \in aged : records[k].ts <= records[j].ts
      \/ /\ aged = {} \/ Cardinality(priced) > MostPrices
         /\ \E j \in priced : s.against = records[j].price

\* A momentum signal compares with no price younger than the span it looks back, unless
\* there is no older one among those kept, and never with one that came after it; the
\* signals of one forecaster for one window lie a sample apart, and none of its forecasts
\* is further than a sample from a signal; and each of them is evaluated once
\* (price_seconds_ago, should_emit, evaluate).
SignalsInOrder ==
  /\ \A i \in DOMAIN emitted : emitted[i].strategy = "momentum" => LooksBack(emitted[i])
  /\ \A i, j \in DOMAIN emitted :
       i < j /\ emitted[i].strategy = emitted[j].strategy /\ emitted[i].slug = emitted[j].slug
         => emitted[j].ts - emitted[i].ts >= Sample
  /\ \A f \in forecast : \E i \in DOMAIN emitted :
       /\ emitted[i].strategy = f[1] /\ emitted[i].slug = f[2]
       /\ emitted[i].ts <= f[3] /\ (f[3] - emitted[i].ts < Sample \/ emitted[i].ts = f[3])
  /\ evaluated # NotYet =>
       evaluated["baseline"].n + evaluated["momentum"].n + evaluated["leadlag"].n = Len(emitted)
===============================================================================
