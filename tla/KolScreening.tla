----------------------------- MODULE KolScreening ------------------------------
(***************************************************************************)
(* The two tools that score accounts by their tweets: run_mvp.py, which     *)
(* writes signals and a leaderboard, and find_kols.py, which ranks the      *)
(* accounts of one domain and may have the ranking redone by a language     *)
(* model.  Both read the tweets one by one, reject noise, put what is left  *)
(* to a judge that may be limited, be out of calls or fail, and add up.     *)
(*                                                                         *)
(* A tweet is what the patterns and the counters make of it.  Scores are in *)
(* thousandths.                                                            *)
(***************************************************************************)
EXTENDS Integers, Sequences, FiniteSets, Sums

CONSTANTS
  Handles, Domains,
  Rows,            \* the tweets that occur
  MaxRows,         \* bound, and --max_rows
  MaxCalls,        \* tweet_judge_max_calls, 0 for no cap
  MinScore,        \* tweet_judge_min_score
  Verdicts,        \* what the judge may answer
  Wanted,          \* the domain find_kols is asked for, or "any"
  MinSignals,      \* min_signals of find_kols
  Limits,          \* its count and llm_candidate_limit: the pairs that occur
  RerankScores     \* what the model may score an account, in thousandths

Tools == {"run_mvp", "find_kols"}

\* A row may lack the name of its account.
Nameless == ""

Tweet ==
  [handle : Handles \cup {Nameless}, spam : BOOLEAN, looksBack : BOOLEAN, forward : BOOLEAN,
   strength : Nat, deadline : BOOLEAN, domain : Domains]

Verdict ==
  [keep : BOOLEAN, quality : Nat, domain : Domains \cup {"same"}, deadline : BOOLEAN,
   falsifiable : {"same", "yes", "no"}]

ASSUME ScreeningAssumption ==
  /\ IsFiniteSet(Handles) /\ IsFiniteSet(Domains) /\ Nameless \notin Handles
  /\ "Other" \in Domains /\ "any" \notin Domains /\ "same" \notin Domains
  /\ Rows \subseteq Tweet /\ Verdicts \subseteq Verdict
  /\ MaxRows \in Nat /\ MaxCalls \in Nat /\ MinScore \in Nat
  /\ Wanted \in Domains \cup {"any"}
  /\ MinSignals \in Nat /\ Limits \subseteq [count : Nat, candidates : Nat]
  /\ RerankScores \subseteq Nat

VARIABLES
  tool,       \* which program runs
  judging,    \* --tweet_judge llm
  ranker,     \* --ranker of find_kols
  limits,
  rowsRead,
  stats,      \* per handle
  signals,    \* the signals kept, in order (find_kols keeps only their numbers)
  judge,      \* calls, skipped, failed, accepted, rejected
  ranked,     \* find_kols: the rows, <<>> before they are made
  screening   \* "reading", "ranking", "written" or "raised"

screenVars == <<tool, judging, ranker, limits, rowsRead, stats, signals, judge, ranked, screening>>

EmptyStats ==
  [tweets_seen |-> 0, noise_rejected |-> 0, weak_rejected |-> 0, signals |-> 0, score |-> 0,
   deadline_signals |-> 0, falsifiable_signals |-> 0, domains |-> [d \in Domains |-> 0]]

ScreenInit ==
  /\ tool \in Tools /\ judging \in BOOLEAN
  /\ ranker \in {"heuristic", "llm"} /\ (tool = "run_mvp" => ranker = "heuristic")
  /\ limits \in Limits
  /\ rowsRead = 0
  /\ stats = [h \in Handles |-> EmptyStats]
  /\ signals = <<>>
  /\ judge = [calls |-> 0, skipped |-> 0, failed |-> 0, accepted |-> 0, rejected |-> 0]
  /\ ranked = <<>>
  /\ screening = "reading"

-------------------------------------------------------------------------------
\* is_predictive_candidate: what a tweet is turned down for.
IsNamed(r) == r.handle # Nameless
IsNoise(r) == r.spam \/ (r.looksBack /\ ~r.forward)
IsWeak(r) == ~IsNoise(r) /\ (r.strength < 2 \/ ~r.forward)
IsCandidate(r) == ~IsNoise(r) /\ ~IsWeak(r)

\* build_signal
SignalOf(r) ==
  [handle |-> r.handle, domain |-> r.domain, deadline |-> r.deadline,
   falsifiable |-> r.domain # "Other",
   score |-> r.strength + (IF r.deadline THEN 2 ELSE 0) + (IF r.domain # "Other" THEN 1 ELSE 0)]

AtLeast(low, n) == IF n > low THEN n ELSE low

\* apply_tweet_judgment: the judge may correct the signal, and what it keeps is
\* worth more.
Corrected(s, v) ==
  [s EXCEPT !.domain = IF v.domain = "same" THEN @ ELSE v.domain,
            !.deadline = @ \/ v.deadline,
            !.falsifiable = IF v.falsifiable = "same" THEN @ ELSE v.falsifiable = "yes"]

Keeps(v) == v.keep /\ v.quality >= MinScore

Upgraded(s, v) == [Corrected(s, v) EXCEPT !.score = @ + AtLeast(0, v.quality - 5)]

OutOfCalls == MaxCalls > 0 /\ judge.calls >= MaxCalls

\* Plausible bug: the statistics go by the signal as the heuristics had it.
TalliedRaw(d, raw, s) ==
  [d EXCEPT !.signals = @ + 1, !.score = @ + raw.score,
            !.deadline_signals = @ + (IF raw.deadline THEN 1 ELSE 0),
            !.falsifiable_signals = @ + (IF raw.falsifiable THEN 1 ELSE 0),
            !.domains[raw.domain] = @ + 1]

\* A signal in the statistics of its account.
Tallied(d, raw, s) ==
  [d EXCEPT !.signals = @ + 1, !.score = @ + s.score,
            !.deadline_signals = @ + (IF s.deadline THEN 1 ELSE 0),
            !.falsifiable_signals = @ + (IF s.falsifiable THEN 1 ELSE 0),
            !.domains[s.domain] = @ + 1]

ReadsOne(r) ==
  /\ screening = "reading" /\ rowsRead < MaxRows
  /\ rowsRead' = rowsRead + 1
  /\ UNCHANGED <<tool, judging, ranker, limits, ranked>>

ReadNameless(r) ==
  /\ r.handle = Nameless /\ ReadsOne(r)
  /\ UNCHANGED <<stats, signals, judge, screening>>

Seen(h) == [stats[h] EXCEPT !.tweets_seen = @ + 1]

ReadNoise(r) ==
  /\ IsNamed(r) /\ IsNoise(r) /\ ReadsOne(r)
  /\ stats' = [stats EXCEPT ![r.handle] = [Seen(r.handle) EXCEPT !.noise_rejected = @ + 1]]
  /\ UNCHANGED <<signals, judge, screening>>

ReadWeak(r) ==
  /\ IsNamed(r) /\ IsWeak(r) /\ ReadsOne(r)
  /\ stats' = [stats EXCEPT ![r.handle] = [Seen(r.handle) EXCEPT !.weak_rejected = @ + 1]]
  /\ UNCHANGED <<signals, judge, screening>>

InWanted(s) == tool = "run_mvp" \/ Wanted = "any" \/ s.domain = Wanted

\* A signal is kept, as the judge has left it.
Keep(r, s) ==
  /\ stats' = [stats EXCEPT ![r.handle] =
                 IF InWanted(s)
                 THEN Tallied(Seen(r.handle), SignalOf(r), s)
                 ELSE [Seen(r.handle) EXCEPT !.domains[s.domain] = @ + 1]]
  /\ signals' = Append(signals, s)

KeepUnjudged(r) ==
  /\ IsNamed(r) /\ IsCandidate(r) /\ ReadsOne(r)
  /\ ~judging \/ OutOfCalls
  /\ Keep(r, SignalOf(r))
  /\ judge' = IF judging THEN [judge EXCEPT !.skipped = @ + 1] ELSE judge
  /\ UNCHANGED screening

JudgeKeeps(r, v) ==
  /\ IsNamed(r) /\ IsCandidate(r) /\ ReadsOne(r)
  /\ judging /\ ~OutOfCalls /\ Keeps(v)
  /\ Keep(r, Upgraded(SignalOf(r), v))
  /\ judge' = [judge EXCEPT !.calls = @ + 1, !.accepted = @ + 1]
  /\ UNCHANGED screening

JudgeRejects(r, v) ==
  /\ IsNamed(r) /\ IsCandidate(r) /\ ReadsOne(r)
  /\ judging /\ ~OutOfCalls /\ ~Keeps(v)
  /\ stats' = [stats EXCEPT ![r.handle] = [Seen(r.handle) EXCEPT !.weak_rejected = @ + 1]]
  /\ judge' = [judge EXCEPT !.calls = @ + 1, !.rejected = @ + 1]
  /\ UNCHANGED <<signals, screening>>

\* There is no key to call the judge with, it fails after its retries, or what it
\* answers cannot be read.  Nothing catches that: no file is written.
JudgeRaises(r, called, gaveUp) ==
  /\ IsNamed(r) /\ IsCandidate(r) /\ ReadsOne(r)
  /\ judging /\ ~OutOfCalls
  /\ stats' = [stats EXCEPT ![r.handle] = Seen(r.handle)]
  /\ gaveUp <= called
  /\ judge' = [judge EXCEPT !.calls = @ + called, !.failed = @ + gaveUp]
  /\ screening' = "raised"
  /\ UNCHANGED signals

-------------------------------------------------------------------------------
(* The ranking.                                                             *)

Share(part, whole, weight) == (part * weight * 1000) \div AtLeast(1, whole)

SumDomains(d) == SumAlong(Enumeration(Domains), Cardinality(Domains), d.domains)

TopDomain(d) == CHOOSE n \in {d.domains[x] : x \in Domains} : \A x \in Domains : d.domains[x] <= n

\* write_leaderboard: tweet_only_proxy_score
ProxyScore(d) ==
  d.score * 1000 + Share(d.signals, d.tweets_seen, 100) + Share(d.falsifiable_signals, d.signals, 20)
    + Share(d.deadline_signals, d.signals, 10) + Share(TopDomain(d), d.signals, 5)
    - Share(d.noise_rejected, d.tweets_seen, 10)

\* packet_to_row: final_score
FinalScore(d) ==
  d.score * 1000 + Share(d.signals, d.tweets_seen, 120) + Share(d.falsifiable_signals, d.signals, 30)
    + Share(d.deadline_signals, d.signals, 15) + Share(TopDomain(d), SumDomains(d), 10)
    - Share(d.noise_rejected, d.tweets_seen, 30)

\* A row and what it is sorted by.
RowOf(h, key) == [handle |-> h, signals |-> stats[h].signals, key |-> key, ranker |-> "heuristic"]

Known == {h \in Handles : stats[h].tweets_seen > 0}

Leaders == {RowOf(h, <<ProxyScore(stats[h]), stats[h].score, stats[h].signals>>) : h \in Known}

Listable ==
  {RowOf(h, <<FinalScore(stats[h]), stats[h].signals>>) :
     h \in {h \in Known : stats[h].signals >= MinSignals}}

\* Of two keys, the first comes no later when the best comes first.
Above(k, l) == \A i \in DOMAIN k : k[i] < l[i] => \E j \in 1..(i-1) : k[j] > l[j]

Sorted(q) == \A i \in 1..(Len(q) - 1) : Above(q[i].key, q[i+1].key)

\* The rows sorted; what is level may come in any order.
Rankings(S) ==
  {q \in [1..Cardinality(S) -> S] : {q[i] : i \in DOMAIN q} = S /\ Sorted(q)}

First(q, n) == SubSeq(q, 1, IF n < Len(q) THEN n ELSE Len(q))

\* run_mvp writes all its files at the end; the leaderboard has every account read.
WriteFiles ==
  /\ tool = "run_mvp" /\ screening = "reading"
  /\ ranked' \in Rankings(Leaders)
  /\ screening' = "written"
  /\ UNCHANGED <<tool, judging, ranker, limits, rowsRead, stats, signals, judge>>

\* find_kols lists those with enough signals, the best of them to be reranked.
RankCandidates ==
  /\ tool = "find_kols" /\ screening = "reading"
  /\ \E q \in Rankings(Listable) :
       ranked' = First(q, IF ranker = "llm" THEN AtLeast(limits.count, limits.candidates) ELSE limits.count)
  /\ screening' = "ranking"
  /\ UNCHANGED <<tool, judging, ranker, limits, rowsRead, stats, signals, judge>>

\* apply_llm_rerank: the model scores the first rows; where it fails, and for all
\* others, the heuristic score stays.
Reranked(q, scoreOf) ==
  [i \in DOMAIN q |->
     IF i > limits.candidates THEN [q[i] EXCEPT !.ranker = "heuristic_not_llm_scored"]
     ELSE IF scoreOf[i] = <<>> THEN [q[i] EXCEPT !.ranker = "llm_failed"]
     ELSE [q[i] EXCEPT !.ranker = "llm", !.key[1] = scoreOf[i][1]]]

\* Plausible bug: the rows stay in the order the heuristic scores gave them.
LeftAsRanked(rows) == {rows}

Resorted(rows) == Rankings({rows[i] : i \in DOMAIN rows})

WriteRanking ==
  /\ tool = "find_kols" /\ screening = "ranking" /\ ranker = "heuristic"
  /\ ranked' = First(ranked, limits.count)
  /\ screening' = "written"
  /\ UNCHANGED <<tool, judging, ranker, limits, rowsRead, stats, signals, judge>>

WriteReranked ==
  /\ tool = "find_kols" /\ screening = "ranking" /\ ranker = "llm"
  /\ \E scoreOf \in [DOMAIN ranked -> {<<>>} \cup {<<n>> : n \in RerankScores}] :
       \E q \in Resorted(Reranked(ranked, scoreOf)) : ranked' = First(q, limits.count)
  /\ screening' = "written"
  /\ UNCHANGED <<tool, judging, ranker, limits, rowsRead, stats, signals, judge>>

ReadRow(r) ==
  \/ ReadNoise(r) \/ ReadWeak(r) \/ ReadNameless(r) \/ KeepUnjudged(r)
  \/ \E called, gaveUp \in {0, 1} : JudgeRaises(r, called, gaveUp)
  \/ \E v \in Verdicts : JudgeKeeps(r, v) \/ JudgeRejects(r, v)

ScreenNext ==
  (\E r \in Rows : ReadRow(r)) \/ WriteFiles \/ RankCandidates \/ WriteRanking \/ WriteReranked

ScreenSpec == ScreenInit /\ [][ScreenNext]_screenVars

-------------------------------------------------------------------------------
SignalsOf(h) == {i \in DOMAIN signals : signals[i].handle = h}
CountedOf(h) == {i \in SignalsOf(h) : InWanted(signals[i])}

\* What the signals counted for an account score together.
ScoreOf(h) == SeqTotal([i \in 1..Len(signals) |-> IF i \in CountedOf(h) THEN signals[i].score ELSE 0])

\* The numbers an account is ranked by are those of its tweets, whatever the judge
\* made of them: every tweet is noise, weak or a signal; the sums are those of the
\* signals as corrected, of the domain asked for; every call of the judge kept or
\* turned down one signal, and none is made beyond the limit
\* (update_kol_stats_for_row, build_packets, TweetJudge).
ScreeningAccounts ==
  /\ \A h \in Handles :
       LET d == stats[h] IN
       /\ screening # "raised" =>
            d.tweets_seen = d.noise_rejected + d.weak_rejected + Cardinality(SignalsOf(h))
       /\ d.signals = Cardinality(CountedOf(h))
       /\ d.score = ScoreOf(h)
       /\ d.deadline_signals = Cardinality({i \in CountedOf(h) : signals[i].deadline})
       /\ d.falsifiable_signals = Cardinality({i \in CountedOf(h) : signals[i].falsifiable})
       /\ \A x \in Domains : d.domains[x] = Cardinality({i \in SignalsOf(h) : signals[i].domain = x})
  /\ MaxCalls > 0 => judge.calls <= MaxCalls
  /\ screening # "raised" => judge.calls = judge.accepted + judge.rejected
  /\ judging => judge.accepted + judge.skipped = Len(signals)

\* What is written is the ranking: every account once, sorted, of those with enough
\* signals as many as were asked for; without the language model nobody who is left
\* out comes before somebody listed (write_leaderboard, packet_to_row,
\* apply_llm_rerank and the two cuts in main of find_kols).
RankingComplete ==
  screening = "written" =>
    LET listed == {ranked[i].handle : i \in DOMAIN ranked}
        rows   == IF tool = "run_mvp" THEN Leaders ELSE Listable
    IN  /\ Sorted(ranked) /\ Cardinality(listed) = Len(ranked)
        /\ listed \subseteq {row.handle : row \in rows}
        /\ tool = "run_mvp" => Len(ranked) = Cardinality(rows)
        /\ tool = "find_kols" =>
             Len(ranked) = (IF Cardinality(rows) < limits.count THEN Cardinality(rows) ELSE limits.count)
        /\ ranker = "heuristic" =>
             \A row \in rows : row.handle \notin listed =>
               \A i \in DOMAIN ranked : Above(ranked[i].key, row.key)

\* Nothing is lost between a tweet and the ranking that is written.
ScreeningAddsUp == ScreeningAccounts /\ RankingComplete
===============================================================================
