--------------------------------- MODULE MCKol ---------------------------------
(***************************************************************************)
(* The programs of the KOL package side by side: a behaviour runs one of    *)
(* them, from its start to its end.                                        *)
(***************************************************************************)
EXTENDS TweetFetch, FetchPool, KolScreening, KolDiscovery

VARIABLE program

MCPages == {<<"t1", "t2">>, <<"t2", "t3">>, <<"t3", "t1", "t4">>, <<"t4", "t4">>}
MCSlices == [m \in Modes |-> IF m = "month" THEN <<"march", "april">> ELSE <<"monday">>]
MCWeeks == [s \in {"march", "april"} |-> IF s = "march" THEN <<"m1", "m2">> ELSE <<"a1">>]

\* A signal without and one with a deadline, one of no domain, a weak one, noise of
\* both kinds, and a row without an account.
Row(h, spam, back, forward, strength, deadline, domain) ==
  [handle |-> h, spam |-> spam, looksBack |-> back, forward |-> forward,
   strength |-> strength, deadline |-> deadline, domain |-> domain]

MCRows ==
  {Row("a", FALSE, FALSE, TRUE, 2, FALSE, "Crypto"), Row("b", FALSE, TRUE, TRUE, 3, TRUE, "Crypto"),
   Row("b", FALSE, FALSE, TRUE, 2, FALSE, "Other"), Row("a", FALSE, FALSE, FALSE, 2, FALSE, "Crypto"),
   Row("b", TRUE, FALSE, TRUE, 2, FALSE, "Crypto"), Row("c", FALSE, FALSE, TRUE, 2, TRUE, "Crypto"),
   Row("a", FALSE, TRUE, FALSE, 4, FALSE, "Other"), Row("", FALSE, FALSE, TRUE, 4, FALSE, "Other")}

MCVerdicts ==
  {[keep |-> TRUE, quality |-> 8, domain |-> "Other", deadline |-> TRUE, falsifiable |-> "no"],
   [keep |-> TRUE, quality |-> 6, domain |-> "Crypto", deadline |-> FALSE, falsifiable |-> "same"],
   [keep |-> TRUE, quality |-> 5, domain |-> "same", deadline |-> FALSE, falsifiable |-> "yes"],
   [keep |-> FALSE, quality |-> 9, domain |-> "same", deadline |-> FALSE, falsifiable |-> "yes"]}

MCLimits == {[count |-> 1, candidates |-> 2], [count |-> 2, candidates |-> 1]}

Query(type, text, quality, ok) ==
  [type |-> type, text |-> text, quality |-> quality, wellFormed |-> ok]

Good == Query("Latest", "good", 9, TRUE)
GoodTop == Query("Top", "good", 9, TRUE)
Fair == Query("Latest", "fair", 8, TRUE)
Poor == Query("Latest", "poor", 3, TRUE)
Broken == Query("Latest", "broken", 9, FALSE)

\* Enough, enough but poor, one twice, one of a wrong form, too few, none.
MCReplies ==
  {<<Fair, Good>>, <<Poor, Good>>, <<Good, Good, Fair>>, <<Broken, GoodTop, Good>>,
   <<Poor, Broken>>, <<Poor>>, <<>>}

MCTemplate == <<Good, Fair, GoodTop>>
MCFallback == <<Fair>>
MCAuthorOf == [t \in Found |-> CASE t = "f1" -> "x" [] t = "f2" -> "y" [] OTHER -> NoAuthor]

FetchIdle ==
  /\ topMode = "day" /\ cap = 0 /\ stack = <<>> /\ seenIds = {} /\ allTweets = <<>>
  /\ served = {} /\ refined = {} /\ fetching = "idle"
  /\ asked = {}

PoolIdle ==
  /\ stage = [u \in Users |-> "collected"] /\ pagesLeft = [u \in Users |-> 0]
  /\ attempt = [u \in Users |-> 0] /\ backoff = [u \in Users |-> 0]
  /\ holder = Nobody /\ untilNext = 0 /\ sinceGrant = Interval /\ spaced = TRUE
  /\ lines = [u \in Users |-> "all"] /\ failed = [u \in Users |-> 0]
  /\ failedFile = {} /\ finished = TRUE

ScreenIdle ==
  /\ tool = "run_mvp" /\ judging = FALSE /\ ranker = "heuristic" /\ rowsRead = 0
  /\ limits = [count |-> 1, candidates |-> 2]
  /\ stats = [h \in Handles |-> EmptyStats] /\ signals = <<>> /\ ranked = <<>>
  /\ judge = [calls |-> 0, skipped |-> 0, failed |-> 0, accepted |-> 0, rejected |-> 0]
  /\ screening = "raised"

DiscoveryIdle ==
  /\ planner = "manual" /\ mix = "both" /\ mayFallBack = FALSE
  /\ tries = 1 /\ plan = <<>> /\ onQuery = 0 /\ onPage = 1 /\ atCursor = NoNext
  /\ usedCursors = {} /\ seenTweets = {} /\ shown = {}
  /\ candidates = [a \in Authors |-> [queries |-> {}, tweets |-> 0]]
  /\ discovery = "raised"

Init ==
  \/ program = "fetch"    /\ FetchInit /\ PoolIdle /\ ScreenIdle /\ DiscoveryIdle
  \/ program = "pool"     /\ FetchIdle /\ PoolInit /\ ScreenIdle /\ DiscoveryIdle
  \/ program = "screen"   /\ FetchIdle /\ PoolIdle /\ ScreenInit /\ DiscoveryIdle
  \/ program = "discover" /\ FetchIdle /\ PoolIdle /\ ScreenIdle /\ DiscoveryInit

FetchRuns ==
  program = "fetch" /\ FetchNext /\ UNCHANGED <<program, poolVars, screenVars, discoveryVars>>

PoolRuns ==
  program = "pool" /\ PoolNext /\ UNCHANGED <<program, fetchVars, screenVars, discoveryVars>>

ScreenRuns ==
  program = "screen" /\ ScreenNext /\ UNCHANGED <<program, fetchVars, poolVars, discoveryVars>>

DiscoveryRuns ==
  program = "discover" /\ DiscoveryNext /\ UNCHANGED <<program, fetchVars, poolVars, screenVars>>

Next == FetchRuns \/ PoolRuns \/ ScreenRuns \/ DiscoveryRuns

Spec == Init /\ [][Next]_<<program, fetchVars, poolVars, screenVars, discoveryVars>> /\ PoolFairness
===============================================================================
