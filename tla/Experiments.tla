------------------------------ MODULE Experiments ------------------------------
(***************************************************************************)
(* The research orchestrator (research/orchestrator.py): it runs the        *)
(* experiments of a specification one after the other, each a command that  *)
(* writes an artifact, judges what the artifact says by gates, and ranks    *)
(* what has passed.  Of the metrics a run is judged by, measure stands for  *)
(* those with a gate and score for score_result.                            *)
(***************************************************************************)
EXTENDS Integers, Sequences, FiniteSets

CONSTANTS
  Specs,        \* sequences of [mode, minCount, minMeasure], -1 for no gate
  Measurements, \* [count, measure, score, own], measure -1 for None, own for a row of this strategy
  MaxRows       \* bound: rows of a signal evaluation

ASSUME ExperimentAssumption ==
  /\ Specs \subseteq Seq([mode : {"replay", "signal_eval"},
                          minCount : Nat \cup {-1}, minMeasure : Nat \cup {-1}]) \ {<<>>}
  /\ Measurements \subseteq [count : Nat, measure : Nat \cup {-1}, score : Int, own : BOOLEAN]
  /\ MaxRows \in Nat

VARIABLES
  spec, dryRun,
  judged,      \* results: [metrics, failures]
  ranks,       \* per result, 0 for None
  advice,      \* recommendation, per result
  research     \* "invalid", "running", "written", "raised"

researchVars == <<spec, dryRun, judged, ranks, advice, research>>

NoMetrics == [count |-> 0, measure |-> -1, score |-> 0, own |-> TRUE]

\* validate_spec refuses a specification as a whole, before anything is run.
ResearchInit ==
  /\ spec \in Specs /\ dryRun \in BOOLEAN
  /\ judged = <<>> /\ ranks = <<>> /\ advice = <<>>
  /\ research \in {"invalid", "running"}

Experiment == spec[Len(judged) + 1]
Running == research = "running" /\ Len(judged) < Len(spec)

\* evaluate_gates: a gate on what was not measured fails; so does a run of nothing.
\* Replays measure everything: what is missing there counts as zero.
Failures(e, m) ==
  LET measured == IF e.mode = "replay" /\ m.measure = -1 THEN 0 ELSE m.measure
  IN  {g \in {"count", "measure", "missing", "nothing"} :
         CASE g = "count"   -> e.minCount # -1 /\ m.count < e.minCount
           [] g = "measure" -> e.minMeasure # -1 /\ measured # -1 /\ measured < e.minMeasure
           [] g = "missing" -> e.minMeasure # -1 /\ measured = -1
           [] g = "nothing" -> m.count = 0}

\* _pick_signal_row: the row of the strategy, or else the first one there is.
Picked(rows) ==
  IF rows = <<>> THEN NoMetrics
  ELSE IF \E i \in DOMAIN rows : rows[i].own
       THEN rows[CHOOSE i \in DOMAIN rows : rows[i].own /\ \A j \in 1..(i - 1) : ~rows[j].own]
       ELSE rows[1]

Judge(m, failures) ==
  /\ judged' = Append(judged, [metrics |-> m, failures |-> failures])
  /\ UNCHANGED <<spec, dryRun, ranks, advice, research>>

\* --dry-run, or a command that fails.
NotRun == Running /\ dryRun /\ Judge(NoMetrics, {"dry_run"})
CommandFails == Running /\ ~dryRun /\ Judge(NoMetrics, {"command"})

ReplayDone(m) ==
  /\ Running /\ ~dryRun /\ Experiment.mode = "replay"
  /\ Judge(m, Failures(Experiment, m))

SignalsDone(rows) ==
  /\ Running /\ ~dryRun /\ Experiment.mode = "signal_eval"
  /\ Judge(Picked(rows), Failures(Experiment, Picked(rows)))

\* An artifact that is missing or cannot be read: all results are lost.
ArtifactUnreadable ==
  /\ Running /\ ~dryRun
  /\ research' = "raised"
  /\ UNCHANGED <<spec, dryRun, judged, ranks, advice>>

Passes(r) == r.failures = {}
Passing == {i \in DOMAIN judged : Passes(judged[i])}
Score(i) == judged[i].metrics.score

\* Plausible bug: equal scores share a rank.
BeforeByScore(i, j) == Score(i) > Score(j)

\* The order of the stable sort, best first.
Before(i, j) == Score(i) > Score(j) \/ (Score(i) = Score(j) /\ i < j)

RankOf(i) == IF i \in Passing THEN 1 + Cardinality({j \in Passing : Before(j, i)}) ELSE 0

\* apply_ranking, over replays and signals alike, and the summary.
RankResults ==
  /\ research = "running" /\ Len(judged) = Len(spec)
  /\ ranks' = [i \in DOMAIN judged |-> RankOf(i)]
  /\ advice' = [i \in DOMAIN judged |->
                  CASE RankOf(i) = 0 -> "reject" [] RankOf(i) = 1 -> "promote_candidate"
                    [] OTHER -> "keep_testing"]
  /\ research' = "written"
  /\ UNCHANGED <<spec, dryRun, judged>>

RowSets == UNION {[1..n -> Measurements] : n \in 0..MaxRows}

ResearchNext ==
  \/ NotRun \/ CommandFails \/ ArtifactUnreadable \/ RankResults
  \/ \E m \in Measurements : ReplayDone(m)
  \/ \E rows \in RowSets : SignalsDone(rows)

ResearchSpec == ResearchInit /\ [][ResearchNext]_researchVars

-------------------------------------------------------------------------------
Best(i) == \A j \in Passing : Score(j) <= Score(i)

\* A summary has a result for every experiment, and of all that pass their own gates
\* exactly one, with the best score, is to be promoted, even when several have the same
\* score; nothing is promoted or kept that was not run, measured nothing, or is below a
\* gate that was measured (apply_ranking, evaluate_gates, run_experiment).
PromotesTheBest ==
  research = "written" =>
    /\ Len(judged) = Len(spec)
    /\ Cardinality({i \in DOMAIN advice : advice[i] = "promote_candidate"})
         = IF Passing = {} THEN 0 ELSE 1
    /\ \A i \in DOMAIN advice :
         /\ advice[i] = "promote_candidate" => Best(i)
         /\ advice[i] # "reject" =>
              /\ ~dryRun /\ judged[i].metrics.count > 0
              /\ judged[i].metrics.count >= spec[i].minCount
              /\ spec[i].mode = "signal_eval" => judged[i].metrics.measure >= spec[i].minMeasure
         /\ \A j \in DOMAIN advice : ranks[i] = ranks[j] /\ ranks[i] # 0 => i = j
===============================================================================
