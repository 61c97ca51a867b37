------------------------------ MODULE OfflineProofs -----------------------------
(* Proofs about the programs that run beside the bot.                      *)
(*                                                                         *)
(* The KOL pipeline: the pool of fetching threads, whose accounts hold     *)
(* what the users really gave (FetchPool), the authors counted over the    *)
(* pages of a search (KolDiscovery), the tweets of one account, of which no *)
(* slice is lost when a search stalls (TweetFetch), and the accounts that  *)
(* are screened and ranked by their tweets (KolScreening).                 *)
(*                                                                         *)
(* The backtests: the replay of recorded markets trades a window once and  *)
(* its bankroll, curve, counters and drawdown say what the trades made     *)
(* (Replay and ReplayLedger); the portfolio built on it keeps its limits   *)
(* (ReplayPortfolio); the simulator's report adds up (Simulator).          *)
EXTENDS TweetFetch, FetchPool, KolDiscovery, KolScreening, Replay, ReplayPortfolio, Simulator, SumsProofs

-------------------------------------------------------------------------------
(* The pool of fetching threads                                            *)

Stages ==
  {"queued", "ready", "limited", "sent", "sleeping", "fetched", "raised", "collected"}

PoolTypeOK ==
  /\ stage \in [Users -> Stages]
  /\ pagesLeft \in [Users -> Nat]
  /\ holder \in Users \cup {Nobody}
  /\ untilNext \in Nat /\ sinceGrant \in 0..Interval
  /\ lines \in [Users -> {"none", "part", "all"}] /\ failed \in [Users -> Nat]
  /\ finished \in BOOLEAN

\* Until the limiter lets somebody through again, what is missing of its interval passes.
Spaced == spaced /\ Interval <= sinceGrant + untilNext

\* Who sleeps in the limiter is nowhere else.
HolderLimited == \A u \in Users : holder = u => stage[u] = "limited"

\* A fetch is at work as long as pages are left, and a user counts once it is collected.
Progress ==
  \A u \in Users :
    /\ stage[u] \in {"ready", "limited", "sent", "sleeping"} => pagesLeft[u] > 0
    /\ stage[u] = "fetched" => pagesLeft[u] = 0
    /\ stage[u] # "collected" => lines[u] = "none" /\ failed[u] = 0
    /\ stage[u] = "collected" => failed[u] = 1 \/ (failed[u] = 0 /\ lines[u] = "all")
    /\ lines[u] # "none" => pagesLeft[u] = 0

\* The end comes after all users, and what it wrote stays true.
Ended ==
  finished => /\ \A u \in Users : stage[u] = "collected"
              /\ Failures # {} => failedFile = Failures

PoolInv == PoolTypeOK /\ Spaced /\ HolderLimited /\ Progress /\ Ended

LEMMA PoolInitInv == PoolInit => PoolInv
<1> SUFFICES ASSUME PoolInit PROVE PoolInv
  OBVIOUS
<1>1. Interval \in Nat /\ Interval \in 0..Interval /\ MostPages \in Nat
  BY FetchPoolAssumption
<1>2. pagesLeft \in [Users -> Nat]
  BY <1>1 DEF PoolInit
<1>3. PoolTypeOK
  BY <1>1, <1>2 DEF PoolInit, PoolTypeOK, Stages
<1>4. Spaced
  BY <1>1 DEF PoolInit, Spaced
<1>5. HolderLimited
  BY FetchPoolAssumption DEF PoolInit, HolderLimited
<1>6. Progress
  BY DEF PoolInit, Progress
<1>7. Ended
  BY DEF PoolInit, Ended
<1> QED
  BY <1>3, <1>4, <1>5, <1>6, <1>7 DEF PoolInv

\* A step of one user's fetch that leaves the limiter and the output alone.
LEMMA FetchStepKeepsInv ==
  ASSUME PoolInv, NEW u \in Users, NEW at \in Stages, NEW n \in Nat,
         stage[u] \notin {"limited", "collected"}, at \notin {"limited", "collected"},
         stage' = [stage EXCEPT ![u] = at],
         pagesLeft' = [pagesLeft EXCEPT ![u] = n],
         at \in {"ready", "sent", "sleeping"} => n > 0,
         at = "fetched" => n = 0,
         UNCHANGED limiterVars, UNCHANGED outputVars
  PROVE  PoolInv'
<1> USE DEF limiterVars, outputVars
<1>1. PoolTypeOK'
  BY DEF PoolInv, PoolTypeOK
<1>2. Spaced'
  BY DEF PoolInv, Spaced
<1>3. HolderLimited'
  BY DEF PoolInv, PoolTypeOK, HolderLimited
<1>4. Progress'
  BY DEF PoolInv, PoolTypeOK, Progress
<1>5. Ended'
  BY DEF PoolInv, Ended
<1> QED
  BY <1>1, <1>2, <1>3, <1>4, <1>5 DEF PoolInv

\* The steps of a worker.
LEMMA WorkerStepKeepsInv ==
  ASSUME PoolInv, NEW u \in Users, WorkerStep(u)
  PROVE  PoolInv'
<1>1. /\ stage \in [Users -> Stages] /\ pagesLeft \in [Users -> Nat] /\ pagesLeft[u] \in Nat
      /\ pagesLeft = [pagesLeft EXCEPT ![u] = pagesLeft[u]]
  BY DEF PoolInv, PoolTypeOK
<1>2. CASE StartUser(u)
  <2> DEFINE at == StageFor(pagesLeft[u])
  <2>1. /\ at \in Stages /\ at \notin {"limited", "collected"}
        /\ at \in {"ready", "sent", "sleeping"} => pagesLeft[u] > 0
        /\ at = "fetched" => pagesLeft[u] = 0
    BY <1>1 DEF StageFor, Stages
  <2>2. /\ stage[u] = "queued" /\ stage' = [stage EXCEPT ![u] = at]
        /\ pagesLeft' = pagesLeft
        /\ UNCHANGED limiterVars /\ UNCHANGED outputVars
    BY <1>2 DEF StartUser
  <2> HIDE DEF at
  <2> QED
    BY <1>1, <2>1, <2>2, FetchStepKeepsInv
<1>3. CASE EnterLimiter(u)
  <2>1. /\ stage[u] = "ready" /\ holder = Nobody /\ holder' = u
        /\ stage' = [stage EXCEPT ![u] = "limited"]
        /\ UNCHANGED <<pagesLeft, untilNext, sinceGrant, spaced, lines, failed, failedFile, finished>>
    BY <1>3 DEF EnterLimiter, outputVars
  <2>2. PoolTypeOK'
    BY <2>1 DEF PoolInv, PoolTypeOK, Stages
  <2>3. Spaced'
    BY <2>1 DEF PoolInv, Spaced
  <2>4. HolderLimited'
    BY <1>1, <2>1 DEF HolderLimited
  <2>5. Progress'
    BY <1>1, <2>1 DEF PoolInv, Progress
  <2>6. Ended'
    BY <2>1 DEF PoolInv, Ended
  <2> QED
    BY <2>2, <2>3, <2>4, <2>5, <2>6 DEF PoolInv
<1>4. CASE Wakes(u)
  <2>1. /\ stage[u] = "sleeping" /\ stage' = [stage EXCEPT ![u] = "ready"]
        /\ pagesLeft' = pagesLeft
        /\ UNCHANGED limiterVars /\ UNCHANGED outputVars
    BY <1>4 DEF Wakes
  <2>2. pagesLeft[u] > 0
    BY <2>1 DEF PoolInv, Progress
  <2>3. "ready" \in Stages
    BY DEF Stages
  <2> QED
    BY <1>1, <2>1, <2>2, <2>3, FetchStepKeepsInv
<1>5. ASSUME NEW jitter \in 0..MaxJitter, LeaveLimiter(u, jitter) PROVE PoolInv'
  <2>1. /\ holder = u /\ untilNext = 0 /\ holder' = Nobody
        /\ untilNext' = Interval + jitter /\ sinceGrant' = 0
        /\ spaced' = (spaced /\ sinceGrant = Interval)
        /\ stage' = [stage EXCEPT ![u] = "sent"]
        /\ UNCHANGED <<pagesLeft, lines, failed, failedFile, finished>>
    BY <1>5 DEF LeaveLimiter, MayPass, outputVars
  <2>2. stage[u] = "limited"
    BY <2>1 DEF PoolInv, HolderLimited
  <2>3. Interval \in Nat /\ jitter \in Nat /\ sinceGrant \in 0..Interval
    BY FetchPoolAssumption DEF PoolInv, PoolTypeOK
  <2>4. PoolTypeOK'
    BY <2>1, <2>3 DEF PoolInv, PoolTypeOK, Stages
  <2>5. Spaced'
    <3>1. spaced /\ Interval <= sinceGrant + untilNext
      BY DEF PoolInv, Spaced
    <3>2. sinceGrant = Interval /\ Interval <= sinceGrant' + untilNext'
      <4> QED
        BY <2>1, <2>3, <3>1
    <3>3. spaced'
      BY <2>1, <3>1, <3>2, Zenon
    <3> QED
      BY <3>2, <3>3 DEF Spaced
  <2>6. HolderLimited'
    BY <2>1, FetchPoolAssumption DEF HolderLimited
  <2>7. Progress'
    BY <1>1, <2>1, <2>2 DEF PoolInv, Progress
  <2>8. Ended'
    BY <2>1, <2>2 DEF PoolInv, Ended, Failures
  <2> QED
    BY <2>4, <2>5, <2>6, <2>7, <2>8 DEF PoolInv
<1>6. ASSUME NEW a \in Answers, NEW sleep \in 0..LongBackoff, RequestAnswered(u, a, sleep)
      PROVE  PoolInv'
  <2>1. stage[u] = "sent" /\ UNCHANGED limiterVars /\ UNCHANGED outputVars
    BY <1>6 DEF RequestAnswered
  <2>2. pagesLeft[u] > 0 /\ pagesLeft[u] - 1 \in Nat
    BY <1>1, <2>1 DEF PoolInv, Progress
  <2>3. CASE a = "ok"
    <3> DEFINE n == pagesLeft[u] - 1
               at == StageFor(n)
    <3>1. /\ pagesLeft' = [pagesLeft EXCEPT ![u] = n]
          /\ stage' = [stage EXCEPT ![u] = at]
      BY <1>1, <1>6, <2>3, Zenon DEF RequestAnswered
    <3>2. n \in Nat
      BY <2>2
    <3> HIDE DEF n
    <3>3. /\ at \in Stages /\ at \notin {"limited", "collected"}
          /\ at \in {"ready", "sent", "sleeping"} => n > 0
          /\ at = "fetched" => n = 0
      BY <3>2 DEF StageFor, Stages
    <3> HIDE DEF at
    <3> QED
      BY <2>1, <3>1, <3>2, <3>3, FetchStepKeepsInv
  <2>4. CASE a # "ok" /\ Repeats(a, attempt[u])
    <3>1. stage' = [stage EXCEPT ![u] = "sleeping"] /\ pagesLeft' = pagesLeft
      BY <1>6, <2>4 DEF RequestAnswered
    <3>2. "sleeping" \in Stages
      BY DEF Stages
    <3> QED
      BY <1>1, <2>1, <2>2, <3>1, <3>2, FetchStepKeepsInv
  <2>5. CASE a # "ok" /\ ~Repeats(a, attempt[u])
    <3>1. stage' = [stage EXCEPT ![u] = "raised"] /\ pagesLeft' = pagesLeft
      BY <1>6, <2>5 DEF RequestAnswered
    <3>2. "raised" \in Stages
      BY DEF Stages
    <3> QED
      BY <1>1, <2>1, <3>1, <3>2, FetchStepKeepsInv
  <2> QED
    BY <2>3, <2>4, <2>5
<1> QED
  BY <1>2, <1>3, <1>4, <1>5, <1>6 DEF WorkerStep

\* The main thread takes what a worker returned.
LEMMA CollectKeepsInv ==
  ASSUME PoolInv, NEW u \in Users, Collect(u)
  PROVE  PoolInv'
<1>1. /\ stage[u] \in {"fetched", "raised"} /\ stage' = [stage EXCEPT ![u] = "collected"]
      /\ UNCHANGED <<pagesLeft, failedFile, finished, holder, untilNext, sinceGrant, spaced>>
  <2>1. stage[u] \in {"fetched", "raised"}
    BY DEF Collect, CollectTweets, WritingFails, CollectFailure
  <2> QED
    BY <2>1 DEF Collect, limiterVars
<1>2. /\ stage \in [Users -> Stages] /\ failed \in [Users -> Nat]
      /\ lines \in [Users -> {"none", "part", "all"}]
      /\ failed[u] = 0 /\ lines[u] = "none"
  BY <1>1 DEF PoolInv, PoolTypeOK, Progress
<1>3. \/ /\ stage[u] = "fetched"
         /\ lines' = [lines EXCEPT ![u] = "all"] /\ failed' = failed
      \/ /\ stage[u] = "fetched" /\ failed' = [failed EXCEPT ![u] = 1]
         /\ \E much \in {"part", "all"} : lines' = [lines EXCEPT ![u] = much]
      \/ /\ stage[u] = "raised" /\ failed' = [failed EXCEPT ![u] = 1]
         /\ lines' = lines
  <2>1. CASE CollectTweets(u)
    BY <2>1 DEF CollectTweets
  <2>2. CASE WritingFails(u)
    <3>1. stage[u] = "fetched" /\ \E much \in {"part", "all"} : lines' = [lines EXCEPT ![u] = much]
      BY <2>2 DEF WritingFails
    <3>2. failed' = [failed EXCEPT ![u] = 1]
      BY <1>2, <2>2 DEF WritingFails
    <3> QED
      BY <3>1, <3>2
  <2>3. CASE CollectFailure(u)
    BY <1>2, <2>3 DEF CollectFailure
  <2> QED
    BY <2>1, <2>2, <2>3 DEF Collect
<1>4. PoolTypeOK'
  BY <1>1, <1>2, <1>3 DEF PoolInv, PoolTypeOK, Stages
<1>5. Spaced'
  BY <1>1 DEF PoolInv, Spaced
<1>6. HolderLimited'
  BY <1>1, <1>2 DEF PoolInv, HolderLimited
<1>7. Progress'
  <2>1. ASSUME NEW v \in Users, v # u
        PROVE  stage'[v] = stage[v] /\ lines'[v] = lines[v] /\ failed'[v] = failed[v]
    BY <1>1, <1>2, <1>3, <2>1
  <2>2. stage'[u] = "collected" /\ (failed'[u] = 1 \/ (failed'[u] = 0 /\ lines'[u] = "all"))
    BY <1>1, <1>2, <1>3
  <2>3. lines'[u] # "none" => pagesLeft[u] = 0
    BY <1>2, <1>3 DEF PoolInv, Progress
  <2> QED
    BY <1>1, <2>1, <2>2, <2>3 DEF PoolInv, Progress
<1>8. Ended'
  BY <1>1 DEF PoolInv, Ended
<1> QED
  BY <1>4, <1>5, <1>6, <1>7, <1>8 DEF PoolInv

\* Time: as long as the interval is not over, the limiter waits at least as long as is
\* missing of it.
LEMMA TimePassesKeepsInv ==
  ASSUME PoolInv, TimePasses
  PROVE  PoolInv'
<1>1. /\ untilNext' = Less(untilNext)
      /\ sinceGrant' = IF sinceGrant < Interval THEN sinceGrant + 1 ELSE Interval
      /\ UNCHANGED <<stage, pagesLeft, holder, spaced, lines, failed, failedFile, finished>>
  BY DEF TimePasses, outputVars
<1>2. Interval \in Nat /\ untilNext \in Nat /\ sinceGrant \in 0..Interval
  BY FetchPoolAssumption DEF PoolInv, PoolTypeOK
<1>3. PoolTypeOK'
  BY <1>1, <1>2 DEF PoolInv, PoolTypeOK, Less
<1>4. Spaced'
  BY <1>1, <1>2 DEF PoolInv, Spaced, Less
<1>5. HolderLimited' /\ Progress' /\ Ended'
  BY <1>1 DEF PoolInv, HolderLimited, Progress, Ended, Failures
<1> QED
  BY <1>3, <1>4, <1>5 DEF PoolInv

LEMMA FinishKeepsInv ==
  ASSUME PoolInv, Finish
  PROVE  PoolInv'
<1>1. /\ \A u \in Users : stage[u] = "collected"
      /\ failedFile' = IF Failures # {} THEN Failures ELSE failedFile
      /\ finished' = TRUE
      /\ UNCHANGED <<stage, pagesLeft, lines, failed, holder, untilNext, sinceGrant, spaced>>
  BY DEF Finish, limiterVars
<1>2. PoolTypeOK' /\ Spaced' /\ HolderLimited' /\ Progress'
  BY <1>1 DEF PoolInv, PoolTypeOK, Spaced, HolderLimited, Progress
<1>3. Ended'
  BY <1>1 DEF Ended, Failures
<1> QED
  BY <1>2, <1>3 DEF PoolInv

LEMMA PoolNextInv ==
  ASSUME PoolInv, [PoolNext]_poolVars
  PROVE  PoolInv'
<1>1. CASE UNCHANGED poolVars
  BY <1>1 DEF poolVars, PoolInv, PoolTypeOK, Spaced, HolderLimited, Progress, Ended, Failures
<1> QED
  BY <1>1, WorkerStepKeepsInv, CollectKeepsInv, TimePassesKeepsInv, FinishKeepsInv DEF PoolNext

LEMMA PoolInvAccounts == PoolInv => FetchAccounts
<1> SUFFICES ASSUME PoolInv PROVE FetchAccounts
  OBVIOUS
<1>1. ASSUME NEW u \in Users
      PROVE  /\ failed[u] <= 1
             /\ lines[u] # "none" => pagesLeft[u] = 0
             /\ lines[u] = "part" => failed[u] = 1
             /\ finished /\ failed[u] = 0 => lines[u] = "all"
  <2>1. CASE stage[u] = "collected"
    BY <1>1, <2>1 DEF PoolInv, Progress
  <2>2. CASE stage[u] # "collected"
    BY <1>1, <2>2 DEF PoolInv, Progress, Ended
  <2> QED
    BY <2>1, <2>2
<1>2. finished /\ Failures # {} => failedFile = Failures
  BY DEF PoolInv, Ended
<1>3. spaced
  BY DEF PoolInv, Spaced
<1> QED
  BY <1>1, <1>2, <1>3 DEF FetchAccounts

\* For any number of users, workers and failures: two attempts are never let through
\* within the limiter's interval, and who is not among the failures is written in full.
THEOREM PoolAccounts == PoolSpec => []FetchAccounts
<1>1. PoolInv /\ [PoolNext]_poolVars => PoolInv'
  BY PoolNextInv
<1> QED
  BY <1>1, PoolInitInv, PoolInvAccounts, PTL DEF PoolSpec

-------------------------------------------------------------------------------
(* The count of an author's tweets                                         *)

SeenOf(a) == {t \in seenTweets : AuthorOf[t] = a}

Credited(a) ==
  /\ candidates[a].tweets = Cardinality(SeenOf(a))
  /\ \A x \in candidates[a].queries : \E t \in Found : AuthorOf[t] = a /\ <<t, x>> \in shown
  /\ IsFiniteSet(candidates[a].queries)
  /\ Cardinality(candidates[a].queries) <= candidates[a].tweets

CountInv == seenTweets \subseteq Found /\ \A a \in Authors : Credited(a)

LEMMA CountInitInv == DiscoveryInit => CountInv
<1> SUFFICES ASSUME DiscoveryInit PROVE CountInv
  OBVIOUS
<1>1. ASSUME NEW a \in Authors PROVE Credited(a)
  <2>1. candidates[a].queries = {} /\ candidates[a].tweets = 0 /\ SeenOf(a) = {}
    BY DEF DiscoveryInit, SeenOf
  <2> QED
    BY <2>1, FS_EmptySet DEF Credited
<1> QED
  BY <1>1 DEF DiscoveryInit, CountInv

\* What a page adds to an author: the tweets of his that no page had before, and, if
\* there is one, the text of the search.
LEMMA PageKeepsCount ==
  ASSUME CountInv, NEW page \in SUBSET Found, NEW other, SearchPage(page, other)
  PROVE  CountInv'
<1>1. /\ seenTweets' = seenTweets \cup page
      /\ seenTweets \subseteq Found /\ page \subseteq Found
  BY DEF SearchPage, CountInv
<1> DEFINE text == plan[onQuery].text
           new(a) == {t \in Fresh(page) : AuthorOf[t] = a}
<1>2. /\ candidates' = [a \in Authors |->
                          IF new(a) = {} THEN candidates[a]
                          ELSE [queries |-> candidates[a].queries \cup {text},
                                tweets |-> candidates[a].tweets + Cardinality(new(a))]]
      /\ shown' = shown \cup (page \X {text})
  BY DEF SearchPage
<1> HIDE DEF text
<1>3. ASSUME NEW a \in Authors PROVE Credited(a)'
  <2>1. Credited(a)
    BY DEF CountInv
  <2>2. /\ SeenOf(a)' = SeenOf(a) \cup new(a) /\ SeenOf(a) \cap new(a) = {}
        /\ SeenOf(a) \subseteq Found /\ new(a) \subseteq Found /\ new(a) \subseteq page
    BY <1>1 DEF SeenOf, Fresh
  <2>3. /\ IsFiniteSet(SeenOf(a)) /\ IsFiniteSet(new(a))
        /\ Cardinality(SeenOf(a)) \in Nat /\ Cardinality(new(a)) \in Nat
    BY <2>2, DiscoveryAssumption, FS_Subset, FS_CardinalityType
  <2>4. CASE new(a) = {}
    <3>1. SeenOf(a)' = SeenOf(a) /\ candidates'[a] = candidates[a]
      BY <1>2, <2>2, <2>4
    <3>2. shown \subseteq shown'
      BY <1>2
    <3> QED
      BY <2>1, <3>1, <3>2 DEF Credited
  <2>5. CASE new(a) # {}
    <3> DEFINE old == candidates[a].queries
    <3>1. candidates'[a].queries = old \cup {text}
          /\ candidates'[a].tweets = candidates[a].tweets + Cardinality(new(a))
      BY <1>2, <2>5
    <3>2. Cardinality(SeenOf(a)') = Cardinality(SeenOf(a)) + Cardinality(new(a))
      <4>1. Cardinality(SeenOf(a) \cup new(a))
              = Cardinality(SeenOf(a)) + Cardinality(new(a)) - Cardinality(SeenOf(a) \cap new(a))
        BY <2>3, FS_Union
      <4>2. Cardinality(SeenOf(a) \cap new(a)) = 0
        BY <2>2, FS_EmptySet
      <4> QED
        BY <2>2, <2>3, <4>1, <4>2
    <3>3. Cardinality(new(a)) >= 1
      <4>1. Cardinality(new(a)) # 0
        BY <2>3, <2>5, FS_EmptySet
      <4> HIDE DEF new
      <4> QED
        BY <2>3, <4>1
    <3>4. PICK t \in new(a) : TRUE
      BY <2>5
    <3>5. t \in Found /\ AuthorOf[t] = a /\ <<t, text>> \in shown'
      BY <1>2, <2>2, <3>4
    <3> HIDE DEF new
    <3>6. /\ IsFiniteSet(old) /\ Cardinality(old) \in Nat
          /\ Cardinality(old) <= candidates[a].tweets
          /\ candidates[a].tweets = Cardinality(SeenOf(a))
          /\ \A x \in old : \E v \in Found : AuthorOf[v] = a /\ <<v, x>> \in shown
      BY <2>1, FS_CardinalityType DEF Credited
    <3> HIDE DEF old
    <3>7. /\ IsFiniteSet(old \cup {text})
          /\ Cardinality(old \cup {text}) <= Cardinality(old) + 1
          /\ Cardinality(old \cup {text}) \in Nat
      <4>1. /\ IsFiniteSet(old \cup {text})
            /\ Cardinality(old \cup {text})
                 = IF text \in old THEN Cardinality(old) ELSE Cardinality(old) + 1
        BY <3>6, FS_AddElement
      <4> QED
        BY <3>6, <4>1
    <3>8. \A x \in old \cup {text} : \E v \in Found : AuthorOf[v] = a /\ <<v, x>> \in shown'
      BY <1>2, <3>5, <3>6
    <3>9. /\ candidates'[a].tweets = Cardinality(SeenOf(a)')
          /\ Cardinality(old \cup {text}) <= candidates'[a].tweets
      BY <2>3, <3>1, <3>2, <3>3, <3>6, <3>7
    <3> QED
      BY <3>1, <3>7, <3>8, <3>9 DEF Credited
  <2> QED
    BY <2>4, <2>5
<1> QED
  BY <1>1, <1>3 DEF CountInv, Authors

LEMMA CountNextInv ==
  ASSUME CountInv, [DiscoveryNext]_discoveryVars
  PROVE  CountInv'
<1>1. CASE UNCHANGED searchVars
  BY <1>1 DEF searchVars, CountInv, Credited, SeenOf
<1>2. CASE UNCHANGED discoveryVars
  BY <1>1, <1>2 DEF discoveryVars, searchVars
<1>3. CASE PlanStatic \/ PlannerFails \/ SearchRaises \/ WriteCandidates
  BY <1>1, <1>3 DEF PlanStatic, PlannerFails, SearchRaises, WriteCandidates, Planning
<1>4. ASSUME NEW items \in Replies,
             PlanManual(items) \/ PlannerAnswers(items) \/ PlannerAnswersShort(items)
      PROVE  CountInv'
  BY <1>1, <1>4
     DEF PlanManual, PlannerAnswers, PlannerAnswersShort, PlannerFails, Planning
<1>5. ASSUME NEW retryable \in BOOLEAN, PlannerHttpError(retryable) PROVE CountInv'
  BY <1>1, <1>5 DEF PlannerHttpError, Planning
<1> QED
  BY <1>2, <1>3, <1>4, <1>5, PageKeepsCount DEF DiscoveryNext

LEMMA CountInvCounted == CountInv => AuthorsCounted
  BY DEF CountInv, Credited, SeenOf, AuthorsCounted

\* For any plan and any pages: an author's count is the number of different tweets of
\* his that were shown, and every search he is credited with did show one.
THEOREM CountsAreTrue == DiscoverySpec => []AuthorsCounted
<1>1. CountInv /\ [DiscoveryNext]_discoveryVars => CountInv'
  BY CountNextInv
<1> QED
  BY <1>1, CountInitInv, CountInvCounted, PTL DEF DiscoverySpec

-------------------------------------------------------------------------------
(* The tweets of one user                                                  *)

FrameRecord ==
  [mode : Modes, todo : Seq(Slices), page : Nat, cursor : Cursors \cup {NoCursor},
   seenCursors : SUBSET Cursors, signatures : SUBSET Pages, empties : Nat]

\* A call has slices to do, months have weeks, and pages remembered were served.
SoundFrame(f, pagesOf) ==
  /\ f.todo # <<>>
  /\ f.mode = "month" => f.todo \in Seq(DOMAIN WeeksOf)
  /\ \A p \in f.signatures : ToSet(p) \subseteq pagesOf

SoundStack(st, pagesOf) ==
  st \in Seq(FrameRecord) /\ \A i \in DOMAIN st : SoundFrame(st[i], pagesOf)

\* The slices the calls of a stack have still to ask for, with their modes.
Due(st) == UNION {{f.mode} \X ToSet(f.todo) : f \in ToSet(st)}

WholeTime == {topMode} \X ToSet(SlicesOf[topMode])
WeeksRefined == UNION {{"week"} \X ToSet(WeeksOf[m]) : m \in refined}

\* What is kept of what was seen.
KeepsAll(known, kept) ==
  /\ kept \in Seq(Tweets)
  /\ \A i, j \in DOMAIN kept : kept[i] = kept[j] => i = j
  /\ ToSet(kept) = known \ Unwanted
  /\ cap > 0 => Len(kept) <= cap

FetchInv ==
  /\ topMode \in SliceModes /\ cap \in Nat
  /\ KeepsAll(seenIds, allTweets)
  /\ seenIds \subseteq served /\ served \subseteq Tweets
  /\ ~Capped => seenIds = served
  /\ SoundStack(stack, served)
  /\ refined \subseteq DOMAIN WeeksOf
  /\ WholeTime \cup WeeksRefined \subseteq asked \cup Due(stack)
  /\ fetching = "fetched" => stack = <<>> \/ Capped

\* The elements of sequences.
LEMMA ElementsConcat ==
  \A S : \A q, r \in Seq(S) :
    q \o r \in Seq(S) /\ ToSet(q \o r) = ToSet(q) \cup ToSet(r) /\ ToSet(q) \subseteq S
<1> SUFFICES ASSUME NEW S, NEW q \in Seq(S), NEW r \in Seq(S)
             PROVE  /\ q \o r \in Seq(S) /\ ToSet(q \o r) = ToSet(q) \cup ToSet(r)
                    /\ ToSet(q) \subseteq S
  OBVIOUS
<1>1. /\ Len(q \o r) = Len(q) + Len(r) /\ DOMAIN (q \o r) = 1..(Len(q) + Len(r))
      /\ \A i \in 1..(Len(q) + Len(r)) :
           (q \o r)[i] = IF i <= Len(q) THEN q[i] ELSE r[i - Len(q)]
  OBVIOUS
<1>2. ASSUME NEW i \in DOMAIN q PROVE q[i] \in ToSet(q \o r)
  <2>1. i \in 1..(Len(q) + Len(r)) /\ (q \o r)[i] = q[i]
    BY <1>1
  <2> QED
    BY <1>1, <2>1 DEF ToSet
<1>3. ASSUME NEW i \in DOMAIN r PROVE r[i] \in ToSet(q \o r)
  <2>1. Len(q) + i \in 1..(Len(q) + Len(r)) /\ (q \o r)[Len(q) + i] = r[i]
    BY <1>1
  <2> QED
    BY <1>1, <2>1 DEF ToSet
<1>4. ASSUME NEW i \in DOMAIN (q \o r) PROVE (q \o r)[i] \in ToSet(q) \cup ToSet(r)
  <2>1. i \in DOMAIN q \/ i - Len(q) \in DOMAIN r
    BY <1>1
  <2> QED
    BY <1>1, <2>1 DEF ToSet
<1>5. q \o r \in Seq(S) /\ ToSet(q) \subseteq S
  BY DEF ToSet
<1> QED
  BY <1>2, <1>3, <1>4, <1>5 DEF ToSet

LEMMA ElementOfSingle == \A x : ToSet(<<x>>) = {x}
  BY DEF ToSet

LEMMA ElementsAppend ==
  \A S : \A q \in Seq(S), x \in S :
    Append(q, x) \in Seq(S) /\ ToSet(Append(q, x)) = ToSet(q) \cup {x}
<1> SUFFICES ASSUME NEW S, NEW q \in Seq(S), NEW x \in S
             PROVE  Append(q, x) \in Seq(S) /\ ToSet(Append(q, x)) = ToSet(q) \cup {x}
  OBVIOUS
<1> DEFINE r == <<x>>
<1>1. Append(q, x) = q \o r /\ r \in Seq(S)
  OBVIOUS
<1>2. ToSet(r) = {x}
  BY ElementOfSingle
<1> HIDE DEF r
<1>3. q \o r \in Seq(S) /\ ToSet(q \o r) = ToSet(q) \cup ToSet(r)
  BY <1>1, ElementsConcat
<1> QED
  BY <1>1, <1>2, <1>3

LEMMA ElementsSplit ==
  ASSUME NEW S, NEW q \in Seq(S), q # <<>>
  PROVE  /\ Head(q) \in S /\ Tail(q) \in Seq(S)
         /\ ToSet(q) = {Head(q)} \cup ToSet(Tail(q))
         /\ q[Len(q)] \in S /\ SubSeq(q, 1, Len(q) - 1) \in Seq(S)
         /\ ToSet(q) = ToSet(SubSeq(q, 1, Len(q) - 1)) \cup {q[Len(q)]}
<1>1. Head(q) \in S /\ Tail(q) \in Seq(S) /\ q = <<Head(q)>> \o Tail(q)
  OBVIOUS
<1>2. ToSet(q) = {Head(q)} \cup ToSet(Tail(q))
  <2> DEFINE h == <<Head(q)>>
             t == Tail(q)
  <2>1. h \in Seq(S) /\ t \in Seq(S) /\ q = h \o t
    BY <1>1
  <2>2. ToSet(h) = {Head(q)}
    BY ElementOfSingle
  <2> HIDE DEF h, t
  <2>3. ToSet(h \o t) = ToSet(h) \cup ToSet(t)
    BY <2>1, ElementsConcat
  <2> QED
    BY <2>1, <2>2, <2>3 DEF t
<1>3. q[Len(q)] \in S /\ SubSeq(q, 1, Len(q) - 1) \in Seq(S)
      /\ q = Append(SubSeq(q, 1, Len(q) - 1), q[Len(q)])
  OBVIOUS
<1>4. ToSet(q) = ToSet(SubSeq(q, 1, Len(q) - 1)) \cup {q[Len(q)]}
  <2> DEFINE front == SubSeq(q, 1, Len(q) - 1)
             last  == q[Len(q)]
  <2>1. last \in S /\ front \in Seq(S) /\ q = Append(front, last)
    BY <1>3
  <2> HIDE DEF front, last
  <2>2. ToSet(Append(front, last)) = ToSet(front) \cup {last}
    BY <2>1, ElementsAppend
  <2> QED
    BY <2>1, <2>2 DEF front, last
<1> QED
  BY <1>1, <1>2, <1>3, <1>4

LEMMA NoElements == ToSet(<<>>) = {} /\ Due(<<>>) = {}
  BY DEF ToSet, Due

\* Stacks put together are sound, and what is due is put together.
LEMMA StacksTogether ==
  ASSUME NEW S, NEW st, SoundStack(st, S), NEW tt, SoundStack(tt, S)
  PROVE  SoundStack(st \o tt, S) /\ Due(st \o tt) = Due(st) \cup Due(tt)
<1>1. st \in Seq(FrameRecord) /\ tt \in Seq(FrameRecord)
  BY DEF SoundStack
<1>2. st \o tt \in Seq(FrameRecord) /\ ToSet(st \o tt) = ToSet(st) \cup ToSet(tt)
  BY <1>1, ElementsConcat
<1>3. \A f \in ToSet(st) \cup ToSet(tt) : SoundFrame(f, S)
  BY DEF SoundStack, ToSet
<1>4. \A i \in DOMAIN (st \o tt) : SoundFrame((st \o tt)[i], S)
  BY <1>2, <1>3 DEF ToSet
<1>5. Due(st \o tt) = Due(st) \cup Due(tt)
  BY <1>2 DEF Due
<1> QED
  BY <1>2, <1>4, <1>5 DEF SoundStack

LEMMA OneFrame ==
  ASSUME NEW S, NEW f \in FrameRecord, SoundFrame(f, S)
  PROVE  SoundStack(<<f>>, S) /\ Due(<<f>>) = {f.mode} \X ToSet(f.todo)
<1>1. <<f>> \in Seq(FrameRecord) /\ \A i \in DOMAIN <<f>> : <<f>>[i] = f
  OBVIOUS
<1>2. Due(<<f>>) = {f.mode} \X ToSet(f.todo)
  BY ElementOfSingle DEF Due
<1> QED
  BY <1>1, <1>2 DEF SoundStack

\* A call has all its slices to ask for.
LEMMA CallsAreSound ==
  ASSUME NEW S, NEW mode \in Modes, NEW slices \in Seq(Slices),
         mode = "month" => slices \in Seq(DOMAIN WeeksOf)
  PROVE  SoundStack(Call(mode, slices), S) /\ Due(Call(mode, slices)) = {mode} \X ToSet(slices)
<1>1. CASE slices = <<>>
  <2>1. Call(mode, slices) = <<>>
    BY <1>1 DEF Call
  <2>2. SoundStack(<<>>, S)
    BY DEF SoundStack
  <2> QED
    BY <1>1, <2>1, <2>2, NoElements
<1>2. CASE slices # <<>>
  <2> DEFINE f == Frame(mode, slices)
  <2>1. f \in FrameRecord /\ f.mode = mode /\ f.todo = slices /\ f.signatures = {}
    BY DEF Frame, FrameRecord
  <2>2. SoundFrame(f, S)
    BY <1>2, <2>1 DEF SoundFrame
  <2>3. Call(mode, slices) = <<f>>
    BY <1>2 DEF Call
  <2> HIDE DEF f
  <2> QED
    BY <2>1, <2>2, <2>3, OneFrame
<1> QED
  BY <1>1, <1>2

\* The innermost call and the calls below it.
LEMMA StackSplit ==
  ASSUME NEW S, SoundStack(stack, S), stack # <<>>
  PROVE  /\ Top \in FrameRecord /\ SoundFrame(Top, S)
         /\ SoundStack(Below, S)
         /\ Due(stack) = Due(Below) \cup ({Top.mode} \X ToSet(Top.todo))
<1>1. stack \in Seq(FrameRecord) /\ \A f \in ToSet(stack) : SoundFrame(f, S)
  BY DEF SoundStack, ToSet
<1>2. /\ Top \in FrameRecord /\ Below \in Seq(FrameRecord)
      /\ ToSet(stack) = ToSet(Below) \cup {Top}
  BY <1>1, ElementsSplit DEF Top, Below
<1>3. SoundFrame(Top, S) /\ \A f \in ToSet(Below) : SoundFrame(f, S)
  BY <1>1, <1>2
<1>4. SoundStack(Below, S)
  BY <1>2, <1>3 DEF SoundStack, ToSet
<1>5. Due(stack) = Due(Below) \cup ({Top.mode} \X ToSet(Top.todo))
  BY <1>2 DEF Due
<1> QED
  BY <1>2, <1>3, <1>4, <1>5

LEMMA TopSlice ==
  ASSUME NEW S, SoundStack(stack, S), stack # <<>>
  PROVE  /\ Top.mode \in Modes /\ Top.todo \in Seq(Slices) /\ Top.todo # <<>>
         /\ Tail(Top.todo) \in Seq(Slices)
         /\ Top.mode = "month" => Slice \in DOMAIN WeeksOf /\ Tail(Top.todo) \in Seq(DOMAIN WeeksOf)
         /\ ToSet(Top.todo) = {Slice} \cup ToSet(Tail(Top.todo))
<1>1. /\ Top.mode \in Modes /\ Top.todo \in Seq(Slices) /\ Top.todo # <<>>
      /\ Top.mode = "month" => Top.todo \in Seq(DOMAIN WeeksOf)
  BY StackSplit DEF FrameRecord, SoundFrame
<1>2. Tail(Top.todo) \in Seq(Slices) /\ ToSet(Top.todo) = {Slice} \cup ToSet(Tail(Top.todo))
  BY <1>1, ElementsSplit DEF Slice
<1>3. Top.mode = "month" => Slice \in DOMAIN WeeksOf /\ Tail(Top.todo) \in Seq(DOMAIN WeeksOf)
  BY <1>1, ElementsSplit DEF Slice
<1> QED
  BY <1>1, <1>2, <1>3

\* When a slice is over, it is all that is no longer due.
LEMMA SliceOverDue ==
  ASSUME NEW S, SoundStack(stack, S), stack # <<>>, NEW f, f.mode = Top.mode, f.todo = Top.todo
  PROVE  /\ SoundStack(SliceOver(f), S)
         /\ Due(stack) \subseteq Due(SliceOver(f)) \cup {<<Top.mode, Slice>>}
<1> DEFINE rest == Call(Top.mode, Tail(Top.todo))
<1>1. SoundStack(rest, S) /\ Due(rest) = {Top.mode} \X ToSet(Tail(Top.todo))
  BY TopSlice, CallsAreSound
<1>2. SliceOver(f) = Below \o rest
  BY DEF SliceOver
<1> HIDE DEF rest
<1>3. SoundStack(Below, S) /\ Due(stack) = Due(Below) \cup ({Top.mode} \X ToSet(Top.todo))
  BY StackSplit
<1>4. SoundStack(SliceOver(f), S) /\ Due(SliceOver(f)) = Due(Below) \cup Due(rest)
  BY <1>1, <1>2, <1>3, StacksTogether
<1> QED
  BY <1>1, <1>3, <1>4, TopSlice

\* A page that was of use: the slice goes on or is over.
LEMMA TurnPageDue ==
  ASSUME NEW S, SoundStack(stack, S), stack # <<>>,
         NEW f \in FrameRecord, SoundFrame(f, S), f.mode = Top.mode, f.todo = Top.todo,
         NEW cursor \in Cursors \cup {NoCursor}
  PROVE  /\ SoundStack(TurnPage(f, cursor), S)
         /\ Due(stack) \subseteq Due(TurnPage(f, cursor)) \cup {<<Top.mode, Slice>>}
<1> DEFINE g == [f EXCEPT !.page = @ + 1, !.cursor = cursor, !.seenCursors = @ \cup {cursor}]
<1>1. CASE TurnPage(f, cursor) = SliceOver(f)
  BY <1>1, SliceOverDue
<1>2. CASE cursor # NoCursor /\ TurnPage(f, cursor) = Append(Below, g)
  <2>1. g \in FrameRecord /\ g.mode = f.mode /\ g.todo = f.todo /\ g.signatures = f.signatures
    <3>1. cursor \in Cursors /\ f.page + 1 \in Nat
      BY <1>2 DEF FrameRecord
    <3>2. f.seenCursors \cup {cursor} \in SUBSET Cursors
      BY <3>1 DEF FrameRecord
    <3> QED
      BY <3>1, <3>2 DEF FrameRecord
  <2>2. SoundFrame(g, S)
    BY <2>1 DEF SoundFrame
  <2>3. TurnPage(f, cursor) = Append(Below, g)
    BY <1>2
  <2> HIDE DEF g
  <2>4. SoundStack(<<g>>, S) /\ Due(<<g>>) = {Top.mode} \X ToSet(Top.todo)
    BY <2>1, <2>2, OneFrame
  <2>5. SoundStack(Below, S) /\ Due(stack) = Due(Below) \cup ({Top.mode} \X ToSet(Top.todo))
    BY StackSplit
  <2>6. Append(Below, g) = Below \o <<g>>
    BY <2>1, <2>5 DEF SoundStack
  <2> QED
    BY <2>3, <2>4, <2>5, <2>6, StacksTogether
<1> QED
  BY <1>1, <1>2 DEF TurnPage

\* A page that was of no use: the slice is over, and a month starts again in weeks.
LEMMA StuckDue ==
  ASSUME NEW S, SoundStack(stack, S), stack # <<>>, SliceStuck, refined \subseteq DOMAIN WeeksOf
  PROVE  /\ SoundStack(stack', S)
         /\ Due(stack) \subseteq Due(stack') \cup {<<Top.mode, Slice>>}
         /\ refined' \subseteq DOMAIN WeeksOf
         /\ WeeksRefined' \subseteq WeeksRefined \cup Due(stack')
<1>1. /\ SoundStack(SliceOver(Top), S)
      /\ Due(stack) \subseteq Due(SliceOver(Top)) \cup {<<Top.mode, Slice>>}
  BY SliceOverDue
<1>2. CASE ~Refines(Top)
  <2>1. stack' = SliceOver(Top) /\ refined' = refined
    BY <1>2 DEF SliceStuck
  <2> QED
    BY <1>1, <2>1 DEF WeeksRefined
<1>3. CASE Refines(Top)
  <2> DEFINE weeks == Call("week", WeeksOf[Slice])
  <2>1. stack' = SliceOver(Top) \o weeks /\ refined' = refined \cup {Slice}
    BY <1>3 DEF SliceStuck
  <2>2. Slice \in DOMAIN WeeksOf /\ WeeksOf[Slice] \in Seq(Slices)
    BY <1>3, TopSlice, TweetFetchAssumption DEF Refines
  <2>3. SoundStack(weeks, S) /\ Due(weeks) = {"week"} \X ToSet(WeeksOf[Slice])
    BY <2>2, CallsAreSound DEF Modes
  <2> HIDE DEF weeks
  <2>4. SoundStack(stack', S) /\ Due(stack') = Due(SliceOver(Top)) \cup Due(weeks)
    BY <1>1, <2>1, <2>3, StacksTogether
  <2>5. WeeksRefined' \subseteq WeeksRefined \cup Due(weeks)
    BY <2>1, <2>3 DEF WeeksRefined
  <2> QED
    BY <1>1, <2>1, <2>2, <2>4, <2>5
<1> QED
  BY <1>2, <1>3

\* The loop over the tweets of a page: the recursion has a solution.
TakingOf(was, t) ==
  IF (cap > 0 /\ Len(was.kept) >= cap) \/ t \in was.seen THEN was
  ELSE [seen |-> was.seen \cup {t},
        kept |-> IF t \in Unwanted THEN was.kept ELSE Append(was.kept, t)]

TakingStart == [seen |-> seenIds, kept |-> allTweets]

LEMMA TakingsDefined ==
  ASSUME NEW page \in Seq(Tweets)
  PROVE  /\ Takings(page)[0] = TakingStart
         /\ \A k \in 0..Len(page) : k + 1 \in 0..Len(page) =>
              Takings(page)[k+1] = TakingOf(Takings(page)[k], page[k+1])
<1> DEFINE n == Len(page)
           Solves(t, k) == t = [i \in 0..k |-> IF i = 0 THEN TakingStart
                                               ELSE TakingOf(t[i-1], page[i])]
           S == {k \in Nat : k <= n => \E t : Solves(t, k)}
<1>0. n \in Nat
  OBVIOUS
<1>1. 0 \in S
  <2> DEFINE t == [i \in 0..0 |-> TakingStart]
  <2>1. Solves(t, 0)
    OBVIOUS
  <2> QED
    BY <2>1
<1>2. ASSUME NEW k \in Nat, k \in S PROVE k + 1 \in S
  <2>1. SUFFICES ASSUME k + 1 <= n PROVE \E t : Solves(t, k + 1)
    OBVIOUS
  <2> HIDE DEF n
  <2>2. PICK t : Solves(t, k)
    BY <1>0, <1>2, <2>1
  <2> DEFINE u == [i \in 0..(k+1) |-> IF i = k + 1 THEN TakingOf(t[k], page[k+1]) ELSE t[i]]
  <2>3. ASSUME NEW i \in 0..(k+1)
        PROVE  u[i] = IF i = 0 THEN TakingStart ELSE TakingOf(u[i-1], page[i])
    <3>1. CASE i = k + 1
      BY <3>1
    <3>2. CASE i # k + 1
      <4>1. i \in 0..k
        BY <3>2
      <4>2. t[i] = IF i = 0 THEN TakingStart ELSE TakingOf(t[i-1], page[i])
        BY <2>2, <4>1
      <4>3. i # 0 => i - 1 \in 0..(k+1) /\ i - 1 # k + 1
        BY <4>1
      <4> QED
        BY <3>2, <4>2, <4>3
    <3> QED
      BY <3>1, <3>2
  <2>4. Solves(u, k + 1)
    BY <2>3
  <2> QED
    BY <2>4
<1>3. n \in S
  <2> HIDE DEF S, n
  <2> QED
    BY <1>0, <1>1, <1>2, NatSetInduction
<1>4. \E t : Solves(t, n)
  BY <1>0, <1>3
<1>5. Solves(Takings(page), n)
  BY <1>4 DEF Takings, TakingOf, TakingStart
<1> DEFINE t == Takings(page)
<1>6. t = [i \in 0..n |-> IF i = 0 THEN TakingStart ELSE TakingOf(t[i-1], page[i])]
  BY <1>5
<1> HIDE DEF t, n
<1>7. t[0] = TakingStart
  BY <1>0, <1>6
<1>8. ASSUME NEW k \in 0..n, k + 1 \in 0..n PROVE t[k+1] = TakingOf(t[k], page[k+1])
  <2>1. (k + 1) - 1 = k /\ k + 1 # 0
    BY <1>0
  <2> QED
    BY <1>6, <1>8, <2>1
<1> QED
  BY <1>7, <1>8 DEF t, n

\* After k tweets, those are seen unless the cap is reached, and what is kept is what
\* was seen and is wanted.
TakenUpTo(page, k, r) ==
  /\ KeepsAll(r.seen, r.kept)
  /\ seenIds \subseteq r.seen /\ r.seen \subseteq seenIds \cup ToSet(page)
  /\ (cap > 0 /\ Len(r.kept) >= cap) \/ \A i \in 1..k : page[i] \in r.seen

LEMMA TakingKeepsAll ==
  ASSUME NEW page \in Seq(Tweets), NEW k \in Nat, k + 1 \in 1..Len(page), NEW r,
         cap \in Nat, TakenUpTo(page, k, r)
  PROVE  TakenUpTo(page, k + 1, TakingOf(r, page[k+1]))
<1> DEFINE t == page[k+1]
<1>1. t \in Tweets /\ t \in ToSet(page)
  BY DEF ToSet
<1>2. KeepsAll(r.seen, r.kept) /\ r.kept \in Seq(Tweets) /\ ToSet(r.kept) = r.seen \ Unwanted
  BY DEF TakenUpTo, KeepsAll
<1>3. CASE cap > 0 /\ Len(r.kept) >= cap
  BY <1>3 DEF TakingOf, TakenUpTo
<1>4. CASE ~(cap > 0 /\ Len(r.kept) >= cap) /\ t \in r.seen
  <2>1. TakingOf(r, t) = r
    BY <1>4 DEF TakingOf
  <2>2. \A i \in 1..(k+1) : page[i] \in r.seen
    <3>1. \A i \in 1..(k+1) : i \in 1..k \/ i = k + 1
      OBVIOUS
    <3> QED
      BY <1>4, <3>1 DEF TakenUpTo
  <2> QED
    BY <2>1, <2>2 DEF TakenUpTo
<1>5. CASE ~(cap > 0 /\ Len(r.kept) >= cap) /\ t \notin r.seen
  <2> DEFINE kept == IF t \in Unwanted THEN r.kept ELSE Append(r.kept, t)
             known == r.seen \cup {t}
             after == TakingOf(r, t)
  <2>1. after.seen = known /\ after.kept = kept
    BY <1>5 DEF TakingOf
  <2>2. \A i \in 1..(k+1) : page[i] \in known
    <3>1. \A i \in 1..(k+1) : i \in 1..k \/ i = k + 1
      OBVIOUS
    <3> QED
      BY <1>5, <3>1 DEF TakenUpTo
  <2> HIDE DEF t
  <2>3. KeepsAll(known, kept)
    <3>1. CASE t \in Unwanted
      BY <1>2, <3>1 DEF KeepsAll
    <3>2. CASE t \notin Unwanted
      <4>1. /\ kept \in Seq(Tweets) /\ ToSet(kept) = ToSet(r.kept) \cup {t}
            /\ Len(kept) = Len(r.kept) + 1 /\ DOMAIN kept = 1..(Len(r.kept) + 1)
            /\ \A i \in 1..Len(r.kept) : kept[i] = r.kept[i]
            /\ kept[Len(r.kept) + 1] = t
        BY <1>1, <1>2, <3>2, ElementsAppend
      <4>2. t \notin ToSet(r.kept)
        BY <1>2, <1>5
      <4> HIDE DEF kept
      <4>3. ASSUME NEW i \in DOMAIN kept, NEW j \in DOMAIN kept, kept[i] = kept[j] PROVE i = j
        <5>1. /\ i \in DOMAIN r.kept \/ i = Len(r.kept) + 1
              /\ j \in DOMAIN r.kept \/ j = Len(r.kept) + 1
          BY <1>2, <4>1, SMTT(30)
        <5>2. \A m \in DOMAIN r.kept : r.kept[m] # t /\ kept[m] = r.kept[m]
          BY <1>2, <4>1, <4>2, SMTT(30) DEF ToSet
        <5> QED
          BY <1>2, <4>1, <4>3, <5>1, <5>2 DEF KeepsAll
      <4>4. cap > 0 => Len(kept) <= cap
        BY <1>2, <1>5, <4>1
      <4>5. ToSet(kept) = known \ Unwanted
        BY <1>2, <3>2, <4>1
      <4> QED
        BY <4>1, <4>3, <4>4, <4>5 DEF KeepsAll
    <3> QED
      BY <3>1, <3>2
  <2>4. seenIds \subseteq known /\ known \subseteq seenIds \cup ToSet(page)
    BY <1>1 DEF TakenUpTo
  <2> HIDE DEF kept, known, after
  <2>5. TakenUpTo(page, k + 1, after)
    BY <2>1, <2>2, <2>3, <2>4 DEF TakenUpTo
  <2> QED
    BY <2>5 DEF after, t
<1> QED
  BY <1>3, <1>4, <1>5

LEMMA PageTaken ==
  ASSUME NEW page \in Seq(Tweets), cap \in Nat, KeepsAll(seenIds, allTweets)
  PROVE  LET r == Taking(page) IN
         /\ KeepsAll(r.seen, r.kept)
         /\ seenIds \subseteq r.seen /\ r.seen \subseteq seenIds \cup ToSet(page)
         /\ (cap > 0 /\ Len(r.kept) >= cap) \/ r.seen = seenIds \cup ToSet(page)
<1> DEFINE n == Len(page)
           S == {k \in 0..n : TakenUpTo(page, k, Takings(page)[k])}
<1>0. n \in Nat
  OBVIOUS
<1>1. 0 \in S
  <2>1. Takings(page)[0] = TakingStart
    BY TakingsDefined
  <2>2. TakenUpTo(page, 0, TakingStart)
    BY DEF TakenUpTo, TakingStart
  <2> QED
    BY <1>0, <2>1, <2>2
<1>2. ASSUME NEW k \in 0..n, k + 1 \in 0..n, k \in S PROVE k + 1 \in S
  <2>1. Takings(page)[k+1] = TakingOf(Takings(page)[k], page[k+1])
    BY <1>2, TakingsDefined
  <2>2. TakenUpTo(page, k, Takings(page)[k])
    BY <1>2
  <2>3. k \in Nat /\ k + 1 \in 1..Len(page)
    BY <1>0, <1>2
  <2>4. TakenUpTo(page, k + 1, TakingOf(Takings(page)[k], page[k+1]))
    BY <2>2, <2>3, TakingKeepsAll
  <2> QED
    BY <1>2, <2>1, <2>4
<1>3. n \in S
  <2> HIDE DEF S, n
  <2>1. 0..n \subseteq S
    BY <1>0, <1>1, <1>2, BoundedSetInduction
  <2> QED
    BY <1>0, <2>1
<1>4. TakenUpTo(page, n, Taking(page))
  BY <1>3 DEF Taking
<1>5. ASSUME NEW r, \A i \in 1..n : page[i] \in r.seen PROVE ToSet(page) \subseteq r.seen
  BY <1>5 DEF ToSet
<1> QED
  BY <1>4, <1>5 DEF TakenUpTo

LEMMA FetchInitInv == FetchInit => FetchInv
<1> SUFFICES ASSUME FetchInit PROVE FetchInv
  OBVIOUS
<1>1. topMode \in SliceModes /\ topMode \in Modes /\ cap \in Nat
  BY TweetFetchAssumption DEF FetchInit
<1>2. /\ SlicesOf[topMode] \in Seq(Slices)
      /\ topMode = "month" => SlicesOf[topMode] \in Seq(DOMAIN WeeksOf)
  BY <1>1, TweetFetchAssumption
<1>3. SoundStack(stack, {}) /\ Due(stack) = WholeTime
  <2>1. /\ SoundStack(Call(topMode, SlicesOf[topMode]), {})
        /\ Due(Call(topMode, SlicesOf[topMode])) = {topMode} \X ToSet(SlicesOf[topMode])
    BY <1>1, <1>2, CallsAreSound
  <2>2. stack = Call(topMode, SlicesOf[topMode])
    BY DEF FetchInit
  <2> QED
    BY <2>1, <2>2 DEF WholeTime
<1>4. KeepsAll(seenIds, allTweets)
  <2>1. ToSet(allTweets) = {} /\ allTweets = <<>> /\ seenIds = {}
    BY NoElements DEF FetchInit
  <2> QED
    BY <1>1, <2>1 DEF KeepsAll
<1>5. WeeksRefined = {}
  BY DEF FetchInit, WeeksRefined
<1> QED
  BY <1>1, <1>3, <1>4, <1>5 DEF FetchInit, FetchInv

LEMMA MorePages ==
  ASSUME NEW S, NEW st, SoundStack(st, S), NEW T, S \subseteq T
  PROVE  SoundStack(st, T)
  BY DEF SoundStack, SoundFrame

\* A slice that was asked for is no longer due: what a page does to the calls.
LEMMA AskKeepsInv ==
  ASSUME FetchInv, NEW page \in Seq(Tweets), Asks(page),
         SoundStack(stack', served'),
         Due(stack) \subseteq Due(stack') \cup {<<Top.mode, Slice>>},
         refined' \subseteq DOMAIN WeeksOf, WeeksRefined' \subseteq WeeksRefined \cup Due(stack'),
         KeepsAll(seenIds, allTweets)', seenIds' \subseteq served',
         Capped' \/ seenIds' = served'
  PROVE  FetchInv'
<1>1. /\ fetching = "running" /\ stack # <<>> /\ ~Capped
      /\ asked' = asked \cup {<<Top.mode, Slice>>}
      /\ served' = served \cup ToSet(page)
      /\ UNCHANGED <<topMode, cap, fetching>>
  BY DEF Asks, ToSet
<1>2. served' \subseteq Tweets
  BY <1>1, ElementsConcat DEF FetchInv
<1>3. WholeTime' = WholeTime
  BY <1>1 DEF WholeTime
<1>4. WholeTime \cup WeeksRefined \subseteq asked \cup Due(stack)
  BY DEF FetchInv
<1>5. WholeTime' \cup WeeksRefined' \subseteq asked' \cup Due(stack')
  BY <1>1, <1>3, <1>4
<1>6. topMode' \in SliceModes /\ cap' \in Nat /\ fetching' # "fetched"
  BY <1>1 DEF FetchInv
<1>7. /\ Due(stack)' = Due(stack') /\ SoundStack(stack, served)' /\ refined' \subseteq DOMAIN WeeksOf
      /\ KeepsAll(seenIds, allTweets)' /\ seenIds' \subseteq served'
      /\ ~Capped' => seenIds' = served'
  OBVIOUS
<1> QED
  BY <1>2, <1>5, <1>6, <1>7 DEF FetchInv

LEMMA FetchNextInv ==
  ASSUME FetchInv, [FetchNext]_fetchVars
  PROVE  FetchInv'
<1>1. ASSUME NEW page \in Seq(Tweets), Asks(page)
      PROVE  /\ stack # <<>> /\ SoundStack(stack, served) /\ SoundStack(stack, served')
             /\ served' = served \cup ToSet(page) /\ seenIds = served
             /\ KeepsAll(seenIds, allTweets) /\ cap \in Nat /\ cap' = cap
  <2>1. stack # <<>> /\ served' = served \cup ToSet(page) /\ ~Capped /\ cap' = cap
    BY <1>1 DEF Asks, ToSet
  <2>2. SoundStack(stack, served) /\ seenIds = served /\ KeepsAll(seenIds, allTweets) /\ cap \in Nat
    BY <2>1 DEF FetchInv
  <2> QED
    BY <2>1, <2>2, MorePages
<1>2. ASSUME NEW c \in Cursors \cup {NoCursor}, EmptyPage(c) PROVE FetchInv'
  <2>1. <<>> \in Seq(Tweets) /\ Asks(<<>>) /\ UNCHANGED <<seenIds, allTweets, refined>>
    BY <1>2 DEF EmptyPage
  <2>2. served' = served /\ cap' = cap
    BY <1>1, <2>1, NoElements
  <2> DEFINE f == [Top EXCEPT !.empties = 1]
  <2>3. Top \in FrameRecord /\ SoundFrame(Top, served')
    BY <1>1, <2>1, StackSplit
  <2>4. f \in FrameRecord /\ f.mode = Top.mode /\ f.todo = Top.todo /\ f.signatures = Top.signatures
    BY <2>3 DEF FrameRecord
  <2>5. SoundFrame(f, served')
    BY <2>3, <2>4 DEF SoundFrame
  <2>6. stack' = SliceOver(Top) \/ stack' = TurnPage(f, c)
    BY <1>2 DEF EmptyPage
  <2> HIDE DEF f
  <2>7. /\ SoundStack(stack', served')
        /\ Due(stack) \subseteq Due(stack') \cup {<<Top.mode, Slice>>}
    <3>0. SoundStack(stack, served') /\ stack # <<>>
      BY <1>1, <2>1
    <3>1. CASE stack' = SliceOver(Top)
      BY <3>0, <3>1, SliceOverDue
    <3>2. CASE stack' = TurnPage(f, c)
      BY <2>4, <2>5, <3>0, <3>2, TurnPageDue
    <3> QED
      BY <2>6, <3>1, <3>2
  <2>8. refined' \subseteq DOMAIN WeeksOf /\ WeeksRefined' \subseteq WeeksRefined \cup Due(stack')
    BY <2>1 DEF FetchInv, WeeksRefined
  <2>9. /\ KeepsAll(seenIds, allTweets)' /\ seenIds' = served'
    BY <1>1, <2>1, <2>2 DEF KeepsAll
  <2> QED
    BY <2>1, <2>7, <2>8, <2>9, AskKeepsInv
<1>3. ASSUME NEW p \in Pages, RepeatedPage(p) PROVE FetchInv'
  <2>1. p \in Seq(Tweets) /\ Asks(p) /\ p \in Top.signatures /\ SliceStuck
        /\ UNCHANGED <<seenIds, allTweets>>
    BY <1>3, TweetFetchAssumption DEF RepeatedPage
  <2>2. ToSet(p) \subseteq served
    BY <1>1, <2>1, StackSplit DEF SoundFrame
  <2>3. served' = served /\ cap' = cap
    BY <1>1, <2>1, <2>2
  <2>4. /\ SoundStack(stack', served')
        /\ Due(stack) \subseteq Due(stack') \cup {<<Top.mode, Slice>>}
        /\ refined' \subseteq DOMAIN WeeksOf /\ WeeksRefined' \subseteq WeeksRefined \cup Due(stack')
    <3>1. refined \subseteq DOMAIN WeeksOf
      BY DEF FetchInv
    <3> QED
      BY <1>1, <2>1, <3>1, StuckDue
  <2>5. /\ KeepsAll(seenIds, allTweets)' /\ seenIds' = served'
    BY <1>1, <2>1, <2>3 DEF KeepsAll
  <2> QED
    BY <2>1, <2>4, <2>5, AskKeepsInv
<1>4. ASSUME NEW c \in Cursors \cup {NoCursor}, NEW p \in Pages, NewPage(p, c) PROVE FetchInv'
  <2>1. p \in Seq(Tweets) /\ Asks(p)
        /\ seenIds' = Taking(p).seen /\ allTweets' = Taking(p).kept
    BY <1>4, TweetFetchAssumption DEF NewPage
  <2>2. /\ KeepsAll(seenIds', allTweets')
        /\ seenIds' \subseteq served'
        /\ (cap > 0 /\ Len(allTweets') >= cap) \/ seenIds' = served'
    BY <1>1, <2>1, PageTaken
  <2>3. KeepsAll(seenIds, allTweets)' /\ (Capped' \/ seenIds' = served')
    BY <1>1, <2>1, <2>2 DEF KeepsAll, Capped
  <2>4. /\ SoundStack(stack', served')
        /\ Due(stack) \subseteq Due(stack') \cup {<<Top.mode, Slice>>}
        /\ refined' \subseteq DOMAIN WeeksOf /\ WeeksRefined' \subseteq WeeksRefined \cup Due(stack')
    <3>1. refined \subseteq DOMAIN WeeksOf
      BY DEF FetchInv
    <3>2. CASE seenIds' = seenIds
      <4>1. SliceStuck
        BY <1>4, <3>2 DEF NewPage
      <4> QED
        BY <1>1, <2>1, <3>1, <4>1, StuckDue
    <3>3. CASE seenIds' # seenIds
      <4> DEFINE f == [Top EXCEPT !.signatures = @ \cup {p}, !.empties = 0]
      <4>1. stack' = TurnPage(f, c) /\ refined' = refined
        BY <1>4, <3>3 DEF NewPage
      <4>2. Top \in FrameRecord /\ SoundFrame(Top, served')
        BY <1>1, <2>1, StackSplit
      <4>3. /\ f \in FrameRecord /\ f.mode = Top.mode /\ f.todo = Top.todo
            /\ f.signatures = Top.signatures \cup {p}
        BY <4>2 DEF FrameRecord
      <4>4. SoundFrame(f, served')
        <5>1. ToSet(p) \subseteq served'
          BY <1>1, <2>1
        <5> QED
          BY <4>2, <4>3, <5>1 DEF SoundFrame
      <4> HIDE DEF f
      <4>5. /\ SoundStack(stack', served')
            /\ Due(stack) \subseteq Due(stack') \cup {<<Top.mode, Slice>>}
        BY <1>1, <2>1, <4>1, <4>3, <4>4, TurnPageDue
      <4> QED
        BY <3>1, <4>1, <4>5 DEF WeeksRefined
    <3> QED
      BY <3>2, <3>3
  <2> QED
    BY <2>1, <2>2, <2>3, <2>4, AskKeepsInv
<1>5. CASE RequestRaises \/ FetchReturns \/ UNCHANGED fetchVars
  <2>1. /\ UNCHANGED <<topMode, cap, stack, seenIds, allTweets, served, asked, refined>>
        /\ fetching' = "fetched" => (fetching = "fetched" \/ stack = <<>> \/ Capped)
    BY <1>5 DEF RequestRaises, FetchReturns, fetchVars
  <2> QED
    BY <2>1 DEF FetchInv, Capped, KeepsAll, WholeTime, WeeksRefined
<1> QED
  BY <1>2, <1>3, <1>4, <1>5 DEF FetchNext, Answered

LEMMA FetchInvComplete == FetchInv => FetchComplete
<1> SUFFICES ASSUME FetchInv PROVE FetchComplete
  OBVIOUS
<1>1. /\ \A i, j \in DOMAIN allTweets : allTweets[i] = allTweets[j] => i = j
      /\ cap > 0 => Len(allTweets) <= cap
      /\ ToSet(allTweets) = seenIds \ Unwanted
      /\ seenIds \subseteq served /\ (~Capped => seenIds = served)
  BY DEF FetchInv, KeepsAll
<1>2. ASSUME fetching = "fetched", ~Capped
      PROVE  /\ \A k \in DOMAIN SlicesOf[topMode] : <<topMode, SlicesOf[topMode][k]>> \in asked
             /\ \A s \in refined : \A k \in DOMAIN WeeksOf[s] : <<"week", WeeksOf[s][k]>> \in asked
  <2>1. Due(stack) = {}
    BY <1>2, NoElements DEF FetchInv
  <2>2. WholeTime \subseteq asked /\ WeeksRefined \subseteq asked
    BY <2>1 DEF FetchInv
  <2>3. ASSUME NEW k \in DOMAIN SlicesOf[topMode]
        PROVE  <<topMode, SlicesOf[topMode][k]>> \in WholeTime
    BY <2>3 DEF WholeTime, ToSet
  <2>4. ASSUME NEW s \in refined, NEW k \in DOMAIN WeeksOf[s]
        PROVE  <<"week", WeeksOf[s][k]>> \in WeeksRefined
    BY <2>4 DEF WeeksRefined, ToSet
  <2> QED
    BY <2>2, <2>3, <2>4
<1> QED
  BY <1>1, <1>2 DEF FetchComplete, ToSet

\* For any pages the server may give and any slices of the time: what is returned has
\* every wanted tweet once and none beyond the cap, and unless the cap ended the fetch,
\* every slice was asked for, in weeks too where it got stuck.
THEOREM NothingIsMissed == FetchSpec => []FetchComplete
<1>1. FetchInv /\ [FetchNext]_fetchVars => FetchInv'
  BY FetchNextInv
<1> QED
  BY <1>1, FetchInitInv, FetchInvComplete, PTL DEF FetchSpec

-------------------------------------------------------------------------------
(* The books of a replay                                                    *)

\* What the trades made, one after the other.
Gains(s) == [k \in 1..Len(s) |-> s[k].pnl]

\* The curve c goes from gain to gain in g, of length n.
Follow(c, g, n) == \A k \in 1..n : c[k+1] - c[k] = g[k]

\* Figures that add up: bankroll m, w wins and l losses, and the curve c from gain to
\* gain of the n trades.
FiguresOf(m, w, l, c, g, n) ==
  /\ m \in Int /\ w \in Nat /\ l \in Nat /\ c \in Seq(Int) /\ n \in Nat
  /\ Len(c) = n + 1 /\ c[1] = Start /\ m = c[n+1] /\ w + l = n
  /\ Follow(c, g, n)

\* h is g, of length n, and y after it.
Extends(h, g, n, y) == (\A k \in 1..n : h[k] = g[k]) /\ h[n+1] = y

\* One more trade and one more point keep figures that add up.
LEMMA FiguresGrow ==
  ASSUME NEW m, NEW w, NEW l, NEW c, NEW g, NEW n, FiguresOf(m, w, l, c, g, n),
         NEW h, NEW y \in Int, Extends(h, g, n, y),
         NEW d, NEW x, x = m + y, d \in Seq(Int), Len(d) = Len(c) + 1, Extends(d, c, Len(c), x),
         NEW won \in {0, 1}
  PROVE  FiguresOf(x, w + won, l + (1 - won), d, h, n + 1)
<1>1. /\ m \in Int /\ w \in Nat /\ l \in Nat /\ c \in Seq(Int) /\ n \in Nat
      /\ Len(c) = n + 1 /\ c[1] = Start /\ m = c[n+1] /\ w + l = n
  BY DEF FiguresOf
<1>2. \A k \in 1..n : c[k+1] - c[k] = g[k]
  BY DEF FiguresOf, Follow
<1>3. Len(d) = n + 2 /\ x \in Int
  BY <1>1
<1>4. d[n+2] = x /\ \A k \in 1..(n+1) : d[k] = c[k]
  BY <1>1 DEF Extends
<1>h. h[n+1] = y /\ \A k \in 1..n : h[k] = g[k]
  BY DEF Extends
<1>5. ASSUME NEW k \in 1..(n+1) PROVE d[k+1] - d[k] = h[k]
  <2>1. CASE k = n + 1
    <3>1. d[k+1] = x /\ d[k] = m /\ h[k] = y
      BY <1>1, <1>4, <1>h, <2>1
    <3>2. x - m = y
      BY <1>1
    <3> QED
      BY <3>1, <3>2, Zenon
  <2>2. CASE k # n + 1
    <3>1. k \in 1..n /\ k + 1 \in 1..(n+1)
      BY <1>1, <2>2
    <3> QED
      BY <1>2, <1>4, <1>h, <3>1
  <2> QED
    BY <2>1, <2>2
<1>6. w + won \in Nat /\ l + (1 - won) \in Nat /\ (w + won) + (l + (1 - won)) = n + 1
  BY <1>1
<1>7. d[1] = Start /\ n + 1 \in Nat /\ (n + 1) + 1 = n + 2
  BY <1>1, <1>4
<1> QED
  BY <1>3, <1>4, <1>5, <1>6, <1>7 DEF FiguresOf, Follow

\* What is appended comes after what was there.
LEMMA AppendExtends ==
  ASSUME NEW T, NEW s \in Seq(T), NEW u \in T, NEW z, z = Append(s, u)
  PROVE  z \in Seq(T) /\ Len(z) = Len(s) + 1 /\ Extends(z, s, Len(s), u)
BY DEF Extends

\* Books whose trades are in T, and that add up.
Ledger(b, T) ==
  /\ b.trades \in Seq(T)
  /\ FiguresOf(b.bankroll, b.wins, b.losses, b.curve, Gains(b.trades), Len(b.trades))

LEMMA LedgerAddsUpAlone ==
  ASSUME NEW T, NEW b, Ledger(b, T)
  PROVE  AddsUp(b)
<1> DEFINE c == b.curve
           s == b.trades
           n == Len(s)
<1>1. Len(c) = n + 1 /\ c[1] = Start /\ b.bankroll = c[n+1] /\ b.wins + b.losses = n
  BY DEF Ledger, FiguresOf
<1>2. \A k \in 1..n : c[k+1] - c[k] = Gains(s)[k]
  BY DEF Ledger, FiguresOf, Follow
<1>3. \A k \in 1..n : c[k+1] - c[k] = s[k].pnl
  BY <1>2 DEF Gains
<1> QED
  BY <1>1, <1>3 DEF AddsUp

LEMMA EmptyBookLedger ==
  ASSUME NEW T
  PROVE  Ledger(EmptyBook, T)
BY LedgerAssumption DEF Ledger, FiguresOf, Follow, EmptyBook

\* The gains of one more trade are the gains before and its own.
LEMMA GainsGrow ==
  ASSUME NEW T, NEW s \in Seq(T), NEW u \in T, NEW z, z = Append(s, u)
  PROVE  Extends(Gains(z), Gains(s), Len(s), u.pnl)
<1> DEFINE n == Len(s)
<1>1. n \in Nat /\ z \in Seq(T) /\ Len(z) = n + 1 /\ z[n+1] = u /\ \A k \in 1..n : z[k] = s[k]
  OBVIOUS
<1>2. n + 1 \in 1..Len(z)
  BY <1>1
<1>3. Gains(z)[n+1] = z[n+1].pnl
  BY <1>2 DEF Gains
<1>4. ASSUME NEW k \in 1..n PROVE Gains(z)[k] = Gains(s)[k]
  <2>1. k \in 1..Len(z) /\ z[k] = s[k]
    BY <1>1
  <2> QED
    BY <2>1 DEF Gains
<1> QED
  BY <1>1, <1>3, <1>4 DEF Extends

\* The books e are the books b and one more trade, won or not, that made y.
Grown(e, b, u, y, won) ==
  /\ e.bankroll = b.bankroll + y
  /\ e.wins = b.wins + won /\ e.losses = b.losses + (1 - won)
  /\ e.curve = Append(b.curve, b.bankroll + y)
  /\ e.trades = Append(b.trades, u)

LEMMA LedgerGrows ==
  ASSUME NEW T, NEW b, Ledger(b, T), NEW u \in T, NEW y \in Int, u.pnl = y,
         NEW won \in {0, 1}, NEW e, Grown(e, b, u, y, won)
  PROVE  Ledger(e, T)
<1> DEFINE s == b.trades
           z == e.trades
           n == Len(s)
           g == Gains(s)
           h == Gains(z)
           m == b.bankroll
           w == b.wins
           l == b.losses
           c == b.curve
           d == e.curve
           x == b.bankroll + y
<1>1. s \in Seq(T) /\ FiguresOf(m, w, l, c, g, n)
  BY DEF Ledger
<1>2. x = m + y /\ d = Append(c, x) /\ z = Append(s, u) /\ n = Len(s) /\ g = Gains(s) /\ h = Gains(z)
  BY DEF Grown
<1>3. e.bankroll = x /\ e.wins = w + won /\ e.losses = l + (1 - won)
  BY DEF Grown
<1> HIDE DEF s, z, n, g, h, m, w, l, c, d, x
<1>4. z \in Seq(T) /\ Len(z) = n + 1
  BY <1>1, <1>2, AppendExtends
<1>5. Extends(h, g, n, y)
  BY <1>1, <1>2, GainsGrow
<1>6. c \in Seq(Int) /\ x \in Int
  BY <1>1, <1>2 DEF FiguresOf
<1>7. d \in Seq(Int) /\ Len(d) = Len(c) + 1 /\ Extends(d, c, Len(c), x)
  BY <1>2, <1>6 DEF Extends
<1>8. FiguresOf(x, w + won, l + (1 - won), d, h, n + 1)
  BY <1>1, <1>2, <1>5, <1>7, FiguresGrow
<1>9. FiguresOf(e.bankroll, e.wins, e.losses, e.curve, Gains(e.trades), Len(e.trades))
  BY <1>2, <1>3, <1>4, <1>8 DEF z, d
<1> QED
  BY <1>4, <1>9 DEF Ledger, z

\* The trade as the books have it.
Closed(t, outcome, pnl) == [t EXCEPT !.outcome = outcome, !.pnl = pnl]

\* A trade that is entered with the profit it made keeps books that add up.
LEMMA EnteredLedger ==
  ASSUME NEW T, NEW b, NEW t, NEW outcome, NEW pnl \in Int, NEW fee,
         Ledger(b, T), NEW u \in T, u.pnl = pnl,
         u = Closed(t, outcome, pnl)
  PROVE  Ledger(Entered(b, t, outcome, pnl, fee), T)
<1> DEFINE e == Entered(b, t, outcome, pnl, fee)
           won == IF outcome = "WIN" THEN 1 ELSE 0
<1>1. Grown(e, b, u, pnl, won)
  BY DEF Entered, Grown, Closed
<1>2. won \in {0, 1}
  OBVIOUS
<1> HIDE DEF e, won
<1>3. Ledger(e, T)
  BY <1>1, <1>2, LedgerGrows
<1> QED
  BY <1>3 DEF e

-------------------------------------------------------------------------------
(* The drawdown of a curve                                                  *)

LEMMA FallType ==
  ASSUME NEW p \in Nat, NEW e \in Nat, p > 0, e <= p
  PROVE  Fall(p, e) \in Nat
BY DivisionRoundsDown DEF Fall

\* From a higher peak the fall to the same point is deeper.
LEMMA FallGrows ==
  ASSUME NEW p \in Nat, NEW q \in Nat, NEW e \in Nat, p > 0, p <= q, e <= p
  PROVE  Fall(p, e) <= Fall(q, e)
<1> DEFINE x == ((p - e) * 1000) \div p
<1>1. x \in Nat /\ x * p <= (p - e) * 1000
  BY DivisionRoundsDown
<1>2. Fall(p, e) = x /\ Fall(q, e) = ((q - e) * 1000) \div q
  BY DEF Fall
<1> HIDE DEF x
<1>3. x * p \in Nat /\ x * p <= 1000 * p
  BY <1>1
<1>4. x <= 1000
  BY <1>1, <1>3, QuotientBound
<1>5. (1000 - x) * p <= (1000 - x) * q
  BY <1>4, <1>1, ProductMonotonic
<1>6. (1000 - x) * p = 1000 * p - x * p /\ (1000 - x) * q = 1000 * q - x * q
  BY <1>1
<1>7. x * q \in Nat /\ x * q <= (q - e) * 1000
  BY <1>1, <1>3, <1>5, <1>6
<1>8. x <= ((q - e) * 1000) \div q
  BY <1>1, <1>7, QuotientLargest
<1> QED
  BY <1>2, <1>8

\* What the walk along a curve knows after i points: its peak is one of them and no
\* point is higher; its worst is one of the falls and none is deeper.
WalkedTo(c, i, r) ==
  /\ r.peak \in Nat /\ r.worst \in Nat
  /\ c[1] <= r.peak /\ \A a \in 1..i : c[a] <= r.peak
  /\ \E a \in DOMAIN c : a <= i + 1 /\ (i > 0 => a <= i) /\ c[a] = r.peak
  /\ \/ r.worst = 0
     \/ \E a, b \in 1..i : a <= b /\ c[b] <= c[a] /\ c[a] > 0 /\ r.worst = Fall(c[a], c[b])
  /\ \A a, b \in 1..i :
       a <= b /\ c[b] <= c[a] /\ c[a] > 0 => Fall(c[a], c[b]) <= r.worst

LEMMA WalkStart ==
  ASSUME NEW c \in Seq(Nat), c # <<>>
  PROVE  WalkedTo(c, 0, [peak |-> c[1], worst |-> 0])
<1>1. 1 \in DOMAIN c /\ c[1] \in Nat
  OBVIOUS
<1> QED
  BY <1>1 DEF WalkedTo

LEMMA WalkStep ==
  ASSUME NEW c \in Seq(Nat), c # <<>>, c[1] > 0, NEW i \in Nat, i + 1 <= Len(c), NEW r,
         WalkedTo(c, i, r)
  PROVE  WalkedTo(c, i + 1, Deepened(r, c[i+1]))
<1> DEFINE e == c[i+1]
           p == IF e > r.peak THEN e ELSE r.peak
           f == Fall(p, e)
           w == IF f > r.worst THEN f ELSE r.worst
           d == Deepened(r, e)
<1>1. d.peak = p /\ d.worst = w
  BY DEF Deepened
<1>2. /\ r.peak \in Nat /\ r.worst \in Nat
      /\ c[1] <= r.peak /\ \A a \in 1..i : c[a] <= r.peak
      /\ \E a \in DOMAIN c : a <= i + 1 /\ (i > 0 => a <= i) /\ c[a] = r.peak
  BY DEF WalkedTo
<1>3. e \in Nat /\ c[1] \in Nat /\ DOMAIN c = 1..Len(c) /\ Len(c) \in Nat /\ i + 1 \in DOMAIN c
      /\ \A a \in 1..(i+1) : c[a] \in Nat /\ a \in DOMAIN c
  OBVIOUS
<1>4. p \in Nat /\ p > 0 /\ e <= p /\ r.peak <= p
  BY <1>2, <1>3
<1>5. f \in Nat
  <2> HIDE DEF e, p
  <2> QED
    BY <1>3, <1>4, FallType DEF f
<1>6. w \in Nat /\ f <= w /\ r.worst <= w
  BY <1>2, <1>5
<1>7. c[1] <= p /\ \A a \in 1..(i+1) : c[a] <= p
  <2>1. ASSUME NEW a \in 1..(i+1) PROVE c[a] <= p
    <3>1. CASE a = i + 1
      BY <1>4, <3>1
    <3>2. CASE a # i + 1
      <4>1. a \in 1..i
        BY <3>2
      <4> QED
        BY <1>2, <1>3, <1>4, <4>1
    <3> QED
      BY <3>1, <3>2
  <2> QED
    BY <1>2, <1>3, <1>4, <2>1
<1>8. \E a \in DOMAIN c : a <= i + 1 /\ c[a] = p
  <2>1. CASE e > r.peak
    BY <1>3, <2>1
  <2>2. CASE ~(e > r.peak)
    BY <1>2, <1>3, <2>2
  <2> QED
    BY <2>1, <2>2
<1>9. \/ w = 0
      \/ \E a, b \in 1..(i+1) : a <= b /\ c[b] <= c[a] /\ c[a] > 0 /\ w = Fall(c[a], c[b])
  <2>1. CASE f > r.worst
    <3>1. PICK a \in DOMAIN c : a <= i + 1 /\ c[a] = p
      BY <1>8
    <3>2. a \in 1..(i+1) /\ i + 1 \in 1..(i+1)
      BY <1>3, <3>1
    <3> HIDE DEF p
    <3>3. w = Fall(c[a], c[i+1])
      BY <2>1, <3>1
    <3> QED
      BY <1>4, <3>1, <3>2, <3>3
  <2>2. CASE ~(f > r.worst)
    <3>1. w = r.worst
      BY <2>2
    <3>2. 1..i \subseteq 1..(i+1)
      OBVIOUS
    <3>3. \/ r.worst = 0
          \/ \E a, b \in 1..i : a <= b /\ c[b] <= c[a] /\ c[a] > 0 /\ r.worst = Fall(c[a], c[b])
      BY DEF WalkedTo
    <3> HIDE DEF w
    <3> QED
      BY <3>1, <3>2, <3>3, Zenon
  <2> QED
    BY <2>1, <2>2
<1>10. ASSUME NEW a \in 1..(i+1), NEW b \in 1..(i+1), a <= b, c[b] <= c[a], c[a] > 0
       PROVE  Fall(c[a], c[b]) <= w
  <2>1. CASE b = i + 1
    <3> DEFINE u == c[a]
    <3>1. u > 0 /\ u <= p /\ u \in Nat /\ e <= u /\ c[b] = e
      BY <1>3, <1>7, <1>10, <2>1
    <3> HIDE DEF e, p, u
    <3>2. Fall(u, e) \in Nat
      BY <1>3, <3>1, FallType
    <3>3. Fall(u, e) <= f
      BY <1>3, <1>4, <3>1, FallGrows DEF f
    <3> HIDE DEF w, f
    <3> QED
      BY <1>5, <1>6, <3>1, <3>2, <3>3 DEF u
  <2>2. CASE b # i + 1
    <3>1. a \in 1..i /\ b \in 1..i
      BY <1>10, <2>2
    <3>2. Fall(c[a], c[b]) <= r.worst
      BY <1>10, <3>1 DEF WalkedTo
    <3>3. Fall(c[a], c[b]) \in Nat
      <4> DEFINE u == c[a]
                 v == c[b]
      <4>1. u \in Nat /\ v \in Nat /\ u > 0 /\ v <= u
        BY <1>3, <1>10
      <4> HIDE DEF u, v
      <4>2. Fall(u, v) \in Nat
        BY <4>1, FallType
      <4> QED
        BY <4>2 DEF u, v
    <3> HIDE DEF w
    <3> QED
      BY <1>2, <1>6, <3>2, <3>3
  <2> QED
    BY <2>1, <2>2
<1> HIDE DEF e, p, f, w, d
<1>11. /\ i + 1 > 0
       /\ \E a \in DOMAIN c : a <= (i + 1) + 1 /\ (i + 1 > 0 => a <= i + 1) /\ c[a] = p
  BY <1>3, <1>8
<1>12. WalkedTo(c, i + 1, d)
  BY <1>1, <1>4, <1>6, <1>7, <1>9, <1>10, <1>11 DEF WalkedTo
<1> QED
  BY <1>12 DEF d, e

LEMMA WalkDefined ==
  ASSUME NEW c \in Seq(Nat), c # <<>>
  PROVE  /\ DrawdownWalk(c)[0] = [peak |-> c[1], worst |-> 0]
         /\ \A i \in 1..Len(c) : DrawdownWalk(c)[i] = Deepened(DrawdownWalk(c)[i-1], c[i])
<1> DEFINE n == Len(c)
           V == [peak : Int, worst : Int]
           start == [peak |-> c[1], worst |-> 0]
           F == [i \in 1..n |-> [x \in V |-> Deepened(x, c[i])]]
           Solves(t) == t = [i \in 0..n |-> IF i = 0 THEN start ELSE Deepened(t[i-1], c[i])]
<1>1. n \in Nat /\ start \in V
  OBVIOUS
<1>2. ASSUME NEW x \in V, NEW e \in Int PROVE Deepened(x, e) \in V
  BY <1>2 DEF Deepened, Fall
<1>3. F \in [1..n -> [V -> V]]
  <2>1. \A i \in 1..n : c[i] \in Int
    OBVIOUS
  <2> HIDE DEF V, n
  <2> QED
    BY <1>2, <2>1
<1>4. Recursion(n, V, start, F)
  <2> HIDE DEF n, V, start, F
  <2> QED
    BY <1>1, <1>3, RecursionDefined
<1>5. PICK t \in [0..n -> V] : t[0] = start /\ \A i \in 1..n : t[i] = F[i][t[i-1]]
  BY <1>4 DEF Recursion
<1>6. ASSUME NEW i \in 1..n PROVE t[i] = Deepened(t[i-1], c[i])
  <2>1. t[i-1] \in V
    <3>1. i - 1 \in 0..n
      BY <1>1
    <3> HIDE DEF V
    <3> QED
      BY <1>5, <3>1
  <2>2. t[i] = F[i][t[i-1]]
    BY <1>5
  <2> HIDE DEF V
  <2> QED
    BY <2>1, <2>2
<1>7. Solves(t)
  <2> HIDE DEF V, start, F
  <2> QED
    BY <1>1, <1>5, <1>6, SMTT(30)
<1>8. Solves(DrawdownWalk(c))
  BY <1>7 DEF DrawdownWalk
<1> DEFINE s == DrawdownWalk(c)
<1>9. s = [i \in 0..n |-> IF i = 0 THEN start ELSE Deepened(s[i-1], c[i])]
  BY <1>8
<1> HIDE DEF s, n, start
<1>10. s[0] = start
  BY <1>1, <1>9
<1>11. ASSUME NEW i \in 1..n PROVE s[i] = Deepened(s[i-1], c[i])
  <2>1. i \in 0..n /\ i # 0
    BY <1>1
  <2> QED
    BY <1>9, <2>1
<1> QED
  BY <1>10, <1>11 DEF s, n, start

\* The drawdown of a curve that starts above zero and never falls below it is the
\* deepest fall between any two of its points.
LEMMA DrawdownIsDeepest ==
  ASSUME NEW c \in Seq(Nat), c # <<>>, c[1] > 0
  PROVE  DeepestFall(c, MaxDrawdown(c))
<1> DEFINE n == Len(c)
           s == DrawdownWalk(c)
           S == {i \in 0..n : WalkedTo(c, i, s[i])}
<1>1. n \in Nat /\ n > 0
  OBVIOUS
<1>2. s[0] = [peak |-> c[1], worst |-> 0] /\ \A i \in 1..n : s[i] = Deepened(s[i-1], c[i])
  BY WalkDefined
<1> HIDE DEF s
<1>3. 0 \in S
  BY <1>1, <1>2, WalkStart
<1>4. ASSUME NEW i \in 0..n, i + 1 \in 0..n, i \in S PROVE i + 1 \in S
  <2>1. i \in Nat /\ i + 1 <= Len(c) /\ i + 1 \in 1..n /\ (i + 1) - 1 = i
    BY <1>1, <1>4
  <2>2. WalkedTo(c, i, s[i])
    BY <1>4
  <2>3. WalkedTo(c, i + 1, Deepened(s[i], c[i+1]))
    BY <2>1, <2>2, WalkStep
  <2>4. s[i+1] = Deepened(s[i], c[i+1])
    BY <1>2, <2>1
  <2> QED
    BY <1>4, <2>3, <2>4
<1>5. 0..n \subseteq S
  <2> HIDE DEF S, n
  <2> QED
    BY <1>1, <1>3, <1>4, BoundedSetInduction
<1>6. WalkedTo(c, n, s[n]) /\ MaxDrawdown(c) = s[n].worst
  BY <1>1, <1>5 DEF MaxDrawdown, s
<1> DEFINE w == s[n].worst
           P == {q \in (DOMAIN c) \X (DOMAIN c) :
                   q[1] <= q[2] /\ c[q[1]] >= c[q[2]] /\ c[q[1]] > 0}
           Falls == {((c[p[1]] - c[p[2]]) * 1000) \div c[p[1]] : p \in P}
<1>7. DOMAIN c = 1..n /\ \A a \in 1..n : c[a] \in Nat
  OBVIOUS
<1> HIDE DEF n
<1>8. ASSUME NEW a \in 1..n, NEW b \in 1..n, c[b] <= c[a], c[a] > 0
      PROVE  Fall(c[a], c[b]) = ((c[a] - c[b]) * 1000) \div c[a]
  BY <1>8 DEF Fall
<1>9. w \in Falls \cup {0}
  <2>1. CASE w = 0
    BY <2>1
  <2>2. CASE w # 0
    <3>1. PICK a \in 1..n, b \in 1..n :
            a <= b /\ c[b] <= c[a] /\ c[a] > 0 /\ w = Fall(c[a], c[b])
      BY <1>6, <2>2 DEF WalkedTo
    <3> DEFINE q == <<a, b>>
    <3>2. q \in P /\ q[1] = a /\ q[2] = b
      BY <1>7, <3>1
    <3>3. w = ((c[a] - c[b]) * 1000) \div c[a]
      BY <1>8, <3>1
    <3> HIDE DEF q, P
    <3>4. w = ((c[q[1]] - c[q[2]]) * 1000) \div c[q[1]]
      BY <3>2, <3>3
    <3> HIDE DEF w
    <3> QED
      BY <3>2, <3>4
  <2> QED
    BY <2>1, <2>2
<1>10. ASSUME NEW fall \in Falls PROVE fall <= w
  <2>1. PICK p \in P : fall = ((c[p[1]] - c[p[2]]) * 1000) \div c[p[1]]
    OBVIOUS
  <2> DEFINE a == p[1]
             b == p[2]
  <2>2. a \in 1..n /\ b \in 1..n /\ a <= b /\ c[b] <= c[a] /\ c[a] > 0
    BY <1>7
  <2>3. fall = ((c[a] - c[b]) * 1000) \div c[a]
    BY <2>1
  <2> HIDE DEF a, b
  <2>4. fall = Fall(c[a], c[b])
    BY <1>8, <2>2, <2>3, SMTT(30)
  <2> QED
    BY <1>6, <2>2, <2>4 DEF WalkedTo
<1> HIDE DEF w
<1>11. DeepestFall(c, w)
  BY <1>9, <1>10 DEF DeepestFall
<1> QED
  BY <1>6, <1>11 DEF w

-------------------------------------------------------------------------------
(* The books of one replay: paid for, never below zero, in order            *)

Cost(t) == t.shares * t.price

BookOK(b) ==
  /\ Ledger(b, TradeRecord)
  /\ PaidFromBankroll(b)
  /\ b.curve \in Seq(Nat)

\* The bankroll covers the trade twice: what it costs, and fees of no more than that.
Covered(b, t) ==
  /\ t \in TradeRecord
  /\ Cost(t) + Cost(t) <= b.bankroll
  /\ t.fee <= Cost(t)

InOrder(b) ==
  \A j \in 1..Len(b.trades) : \A i \in 1..(j-1) : b.trades[i].window < b.trades[j].window

\* All trades in the books are of windows before w.
Before(b, w) == \A i \in 1..Len(b.trades) : b.trades[i].window < w

\* All trades in the books are of windows in M.
Within(b, M) == \A i \in 1..Len(b.trades) : b.trades[i].window \in M

LEMMA TradeFields ==
  ASSUME NEW t \in TradeRecord
  PROVE  /\ t.shares \in Nat /\ t.price \in Nat /\ t.fee \in Nat /\ t.window \in Nat
         /\ Cost(t) \in Nat
<1>1. t.shares \in Nat /\ t.price \in Nat /\ t.fee \in Nat /\ t.window \in Nat
  BY LedgerAssumption DEF TradeRecord
<1> QED
  BY <1>1 DEF Cost

LEMMA ClosedType ==
  ASSUME NEW t \in TradeRecord, NEW outcome \in {"WIN", "LOSS", "STOP"}, NEW pnl \in Int
  PROVE  /\ Closed(t, outcome, pnl) \in TradeRecord
         /\ Closed(t, outcome, pnl).pnl = pnl
         /\ Closed(t, outcome, pnl).window = t.window
         /\ Cost(Closed(t, outcome, pnl)) = Cost(t)
<1> DEFINE u == Closed(t, outcome, pnl)
<1>1. u \in TradeRecord
  BY DEF Closed, TradeRecord
<1>2. u.pnl = pnl
  BY DEF Closed, TradeRecord
<1>3. u.window = t.window /\ u.shares = t.shares /\ u.price = t.price
  BY DEF Closed, TradeRecord
<1> QED
  BY <1>1, <1>2, <1>3 DEF Cost

LEMMA EnteredTrades ==
  ASSUME NEW b, NEW t, NEW outcome, NEW pnl, NEW fee
  PROVE  /\ Entered(b, t, outcome, pnl, fee).trades = Append(b.trades, Closed(t, outcome, pnl))
         /\ Entered(b, t, outcome, pnl, fee).curve = Append(b.curve, b.bankroll + pnl)
         /\ Entered(b, t, outcome, pnl, fee).bankroll = b.bankroll + pnl
BY DEF Entered, Closed

LEMMA EnteredBook ==
  ASSUME NEW b, BookOK(b), NEW t, Covered(b, t), NEW outcome \in {"WIN", "LOSS", "STOP"},
         NEW pnl \in Int, b.bankroll + pnl >= 0, NEW fee
  PROVE  BookOK(Entered(b, t, outcome, pnl, fee))
<1> DEFINE u == Closed(t, outcome, pnl)
           e == Entered(b, t, outcome, pnl, fee)
           x == b.bankroll + pnl
           n == Len(b.trades)
           s == b.trades
           c == b.curve
           z == e.trades
           d == e.curve
<1>1. u \in TradeRecord /\ u.pnl = pnl /\ Cost(u) = Cost(t) /\ Cost(t) \in Nat
  BY ClosedType, TradeFields DEF Covered
<1>2. Ledger(e, TradeRecord)
  <2> HIDE DEF e
  <2>1. Ledger(b, TradeRecord)
    BY DEF BookOK
  <2> QED
    BY <1>1, <2>1, EnteredLedger DEF e
<1>3. z = Append(s, u) /\ d = Append(c, x)
  BY EnteredTrades
<1>4. /\ s \in Seq(TradeRecord) /\ c \in Seq(Nat) /\ b.bankroll \in Int
      /\ Len(c) = n + 1 /\ c[n+1] = b.bankroll /\ n \in Nat /\ n = Len(s)
  BY DEF BookOK, Ledger, FiguresOf
<1>5. \A k \in 1..n : Cost(s[k]) <= c[k]
  BY DEF BookOK, PaidFromBankroll, Cost
<1>6. Cost(t) <= c[n+1]
  <2>1. Cost(t) + Cost(t) <= b.bankroll
    BY DEF Covered
  <2> HIDE DEF n, c
  <2> QED
    BY <1>1, <1>4, <2>1
<1>7. x \in Nat
  BY <1>4
<1> HIDE DEF u, e, x, s, c, z, d, n
<1>8. z \in Seq(TradeRecord) /\ Len(z) = n + 1 /\ Extends(z, s, n, u)
  <2>1. u \in TradeRecord /\ z = Append(s, u) /\ s \in Seq(TradeRecord)
    BY <1>1, <1>3, <1>4
  <2>2. z \in Seq(TradeRecord) /\ Len(z) = Len(s) + 1 /\ Extends(z, s, Len(s), u)
    BY <2>1, AppendExtends
  <2> QED
    BY <1>4, <2>2
<1>9. d \in Seq(Nat) /\ Extends(d, c, n + 1, x)
  BY <1>3, <1>4, <1>7 DEF Extends
<1>10. ASSUME NEW k \in 1..(n+1) PROVE Cost(z[k]) <= d[k]
  <2>1. d[k] = c[k]
    BY <1>9 DEF Extends
  <2>2. CASE k = n + 1
    <3>1. z[k] = u
      BY <1>8, <2>2 DEF Extends
    <3> QED
      BY <1>1, <1>6, <2>1, <2>2, <3>1
  <2>3. CASE k # n + 1
    <3>1. k \in 1..n
      BY <1>4, <2>3
    <3>2. z[k] = s[k]
      BY <1>8, <3>1 DEF Extends
    <3> QED
      BY <1>5, <2>1, <3>1, <3>2
  <2> QED
    BY <2>2, <2>3
<1>11. PaidFromBankroll(e)
  BY <1>8, <1>10 DEF PaidFromBankroll, Cost, z, d
<1> QED
  BY <1>2, <1>9, <1>11 DEF BookOK, e, d

\* A trade of a later window keeps the order of the books.
LEMMA EnteredOrder ==
  ASSUME NEW b, BookOK(b), InOrder(b), NEW t \in TradeRecord, Before(b, t.window),
         NEW outcome \in {"WIN", "LOSS", "STOP"}, NEW pnl \in Int, NEW fee
  PROVE  /\ InOrder(Entered(b, t, outcome, pnl, fee))
         /\ \A w \in Int : t.window < w => Before(Entered(b, t, outcome, pnl, fee), w)
         /\ \A M : Within(b, M) => Within(Entered(b, t, outcome, pnl, fee), M \cup {t.window})
<1> DEFINE u == Closed(t, outcome, pnl)
           z == Entered(b, t, outcome, pnl, fee).trades
           s == b.trades
           n == Len(s)
<1>1. u \in TradeRecord /\ u.window = t.window
  BY ClosedType, SMTT(30)
<1>f. t.window \in Nat
  BY TradeFields
<1>2. z = Append(s, u)
  BY EnteredTrades
<1>3. s \in Seq(TradeRecord) /\ n \in Nat
  BY DEF BookOK, Ledger
<1>t. \A k \in 1..n : s[k].window \in Nat
  BY <1>3, TradeFields
<1>b. \A k \in 1..n : s[k].window < t.window
  BY DEF Before
<1>o. \A j \in 1..n : \A i \in 1..(j-1) : s[i].window < s[j].window
  BY DEF InOrder
<1> HIDE DEF u, z, s, n
<1>4. Len(z) = n + 1 /\ z[n+1].window = t.window /\ \A k \in 1..n : z[k] = s[k]
  BY <1>1, <1>2, <1>3, AppendExtends DEF Extends, n
<1>5. ASSUME NEW j \in 1..(n+1), NEW i \in 1..(j-1) PROVE z[i].window < z[j].window
  <2>1. i \in 1..n
    BY <1>3, <1>5
  <2>2. CASE j = n + 1
    BY <1>4, <1>b, <2>1, <2>2
  <2>3. CASE j # n + 1
    <3>1. j \in 1..n
      BY <1>3, <2>3
    <3> QED
      BY <1>4, <1>o, <1>5, <2>1, <3>1
  <2> QED
    BY <2>2, <2>3
<1>6. ASSUME NEW k \in 1..(n+1) PROVE z[k].window \in Nat /\ z[k].window <= t.window
  <2>1. CASE k = n + 1
    BY <1>f, <1>4, <2>1
  <2>2. CASE k # n + 1
    <3>1. k \in 1..n
      BY <1>3, <2>2
    <3>2. z[k] = s[k] /\ s[k].window \in Nat /\ s[k].window < t.window
      BY <1>4, <1>b, <1>t, <3>1
    <3> QED
      BY <1>f, <3>2
  <2> QED
    BY <2>1, <2>2
<1>7. ASSUME NEW w \in Int, t.window < w, NEW k \in 1..(n+1) PROVE z[k].window < w
  BY <1>f, <1>6, <1>7
<1>8. ASSUME NEW M, Within(b, M), NEW k \in 1..(n+1) PROVE z[k].window \in M \cup {t.window}
  <2>1. CASE k = n + 1
    BY <1>4, <2>1
  <2>2. CASE k # n + 1
    <3>1. k \in 1..n
      BY <1>3, <2>2
    <3>2. s[k].window \in M
      BY <1>8, <3>1 DEF Within, s, n
    <3> QED
      BY <1>4, <3>1, <3>2
  <2> QED
    BY <2>1, <2>2
<1> QED
  BY <1>4, <1>5, <1>7, <1>8 DEF InOrder, Before, Within, z

\* A fee is never more than what the shares cost.
LEMMA FeeBound ==
  ASSUME NEW n \in Nat, NEW p \in 1..(Tick-1)
  PROVE  Fee(n, p) \in Nat /\ Fee(n, p) <= n * p
<1> DEFINE a == n * p
           f == FeeRate * (Tick - p)
           q == (n * FeeRate * p * (Tick - p)) \div (100 * Tick)
<1>1. a \in Nat /\ f \in Nat /\ 100 * Tick \in Nat /\ 100 * Tick > 0
  BY LedgerAssumption
<1>2. f <= 100 * Tick
  <2>1. FeeRate * (Tick - p) <= FeeRate * Tick
    BY LedgerAssumption, ProductMonotonic
  <2>2. Tick * FeeRate <= Tick * 100
    BY LedgerAssumption, ProductMonotonic
  <2> QED
    BY LedgerAssumption, <2>1, <2>2
<1>3. n * FeeRate * p * (Tick - p) = a * f
  BY LedgerAssumption
<1>4. a * f \in Nat /\ a * f <= a * (100 * Tick)
  <2> HIDE DEF a, f
  <2> QED
    BY <1>1, <1>2, ProductMonotonic
<1>5. q \in Nat /\ q * (100 * Tick) <= a * f
  <2> HIDE DEF a, f
  <2> QED
    BY <1>1, <1>3, <1>4, DivisionRoundsDown
<1> HIDE DEF q, a, f
<1>6. q * (100 * Tick) <= a * (100 * Tick)
  <2> DEFINE T == 100 * Tick
  <2>1. T \in Nat
    BY <1>1
  <2> HIDE DEF T
  <2>2. q * T \in Nat /\ a * T \in Nat
    BY <1>1, <1>5, <2>1
  <2>3. q * T <= a * f /\ a * f <= a * T
    BY <1>4, <1>5 DEF T
  <2>4. q * T <= a * T
    BY <1>4, <2>2, <2>3
  <2> QED
    BY <2>4 DEF T
<1>7. q <= a
  BY <1>1, <1>5, <1>6, QuotientBound
<1> QED
  BY <1>5, <1>7 DEF Fee, q, a

LEMMA BankrollIsNatural ==
  ASSUME NEW b, BookOK(b)
  PROVE  b.bankroll \in Nat
<1>1. /\ b.curve \in Seq(Nat) /\ Len(b.curve) = Len(b.trades) + 1 /\ Len(b.trades) \in Nat
      /\ b.bankroll = b.curve[Len(b.trades) + 1]
  BY DEF BookOK, Ledger, FiguresOf
<1> QED
  BY <1>1

\* The books e have one more trade, t, than the books b.
Takes(b, e, t) ==
  /\ BookOK(e)
  /\ InOrder(b) /\ Before(b, t.window) =>
       /\ InOrder(e)
       /\ \A w \in Int : t.window < w => Before(e, w)
       /\ \A M : Within(b, M) => Within(e, M \cup {t.window})

LEMMA EnteredTakes ==
  ASSUME NEW b, BookOK(b), NEW t, Covered(b, t), NEW outcome \in {"WIN", "LOSS", "STOP"},
         NEW pnl \in Int, b.bankroll + pnl >= 0, NEW fee
  PROVE  Takes(b, Entered(b, t, outcome, pnl, fee), t)
<1> DEFINE e == Entered(b, t, outcome, pnl, fee)
<1>1. BookOK(e)
  BY EnteredBook
<1>2. t \in TradeRecord
  BY DEF Covered
<1>3. ASSUME InOrder(b), Before(b, t.window)
      PROVE  /\ InOrder(e)
             /\ \A w \in Int : t.window < w => Before(e, w)
             /\ \A M : Within(b, M) => Within(e, M \cup {t.window})
  BY <1>2, <1>3, EnteredOrder
<1> HIDE DEF e
<1>4. Takes(b, e, t)
  BY <1>1, <1>3 DEF Takes
<1> QED
  BY <1>4 DEF e

LEMMA SettledTakes ==
  ASSUME NEW b, BookOK(b), NEW t, Covered(b, t), NEW winner \in Sides
  PROVE  Takes(b, Settled(b, t, winner), t)
<1> DEFINE outcome == IF t.side = winner THEN "WIN" ELSE "LOSS"
           pnl == Payout(t, winner)
<1>1. t \in TradeRecord /\ t.shares \in Nat /\ t.fee \in Nat /\ Cost(t) \in Nat /\ b.bankroll \in Nat
  BY TradeFields, BankrollIsNatural DEF Covered
<1>2. pnl \in Int /\ b.bankroll + pnl >= 0
  <2> DEFINE won == IF t.side = winner THEN t.shares * Tick ELSE 0
  <2>1. won \in Nat
    BY <1>1, LedgerAssumption
  <2>2. pnl = won - Cost(t) - t.fee
    BY DEF Payout, Cost
  <2>3. Cost(t) + Cost(t) <= b.bankroll /\ t.fee <= Cost(t)
    BY DEF Covered
  <2> HIDE DEF won, pnl
  <2> QED
    BY <1>1, <2>1, <2>2, <2>3
<1>3. outcome \in {"WIN", "LOSS", "STOP"}
  OBVIOUS
<1>4. Settled(b, t, winner) = Entered(b, t, outcome, pnl, t.fee)
  BY DEF Settled, Sides, None
<1> HIDE DEF outcome, pnl
<1>5. Takes(b, Entered(b, t, outcome, pnl, t.fee), t)
  BY <1>2, <1>3, EnteredTakes
<1> QED
  BY <1>4, <1>5

LEMMA StoppedTakes ==
  ASSUME NEW b, BookOK(b), NEW t, Covered(b, t), NEW bid \in 1..(Tick-1)
  PROVE  Takes(b, Stopped(b, t, bid), t)
<1> DEFINE exitFee == Fee(t.shares, bid)
           got == t.shares * bid
           pnl == t.shares * bid - t.shares * t.price - t.fee - exitFee
<1>1. t \in TradeRecord /\ t.shares \in Nat /\ t.fee \in Nat /\ Cost(t) \in Nat /\ b.bankroll \in Nat
  BY TradeFields, BankrollIsNatural DEF Covered
<1>2. exitFee \in Nat /\ exitFee <= got
  BY <1>1, FeeBound
<1>3. got \in Nat
  BY <1>1, LedgerAssumption
<1>4. pnl \in Int /\ b.bankroll + pnl >= 0
  <2>1. pnl = got - Cost(t) - t.fee - exitFee
    BY DEF Cost
  <2>2. Cost(t) + Cost(t) <= b.bankroll /\ t.fee <= Cost(t)
    BY DEF Covered
  <2> HIDE DEF pnl, got, exitFee
  <2> QED
    BY <1>1, <1>2, <1>3, <2>1, <2>2
<1>5. Stopped(b, t, bid) = Entered(b, t, "STOP", pnl, t.fee + exitFee)
  BY DEF Stopped
<1> HIDE DEF exitFee, pnl
<1>6. Takes(b, Entered(b, t, "STOP", pnl, t.fee + exitFee), t)
  BY <1>4, EnteredTakes
<1> QED
  BY <1>5, <1>6

\* A trade is sized so that the bankroll could pay for it twice.
LEMMA SharesAfforded ==
  ASSUME NEW k \in Strategies, NEW bankroll \in Nat, NEW price \in Nat, price > 0
  PROVE  /\ Shares(k, bankroll, price) \in Nat
         /\ Shares(k, bankroll, price) * price + Shares(k, bankroll, price) * price <= bankroll
<1> DEFINE P == Rules[k].part
           most == Rules[k].most
           part == IF bankroll > 0 THEN bankroll \div P ELSE 0
           stake == IF part < most THEN part ELSE most
           n == IF stake < MinStake THEN 0 ELSE stake \div price
<1>1. P \in Nat /\ P > 1 /\ most \in Nat
  BY ReplayAssumption DEF Rule
<1>2. part \in Nat /\ part * P <= bankroll
  <2>1. CASE bankroll > 0
    <3> HIDE DEF P
    <3>1. bankroll \div P \in Nat /\ (bankroll \div P) * P <= bankroll
      BY <1>1, DivisionRoundsDown
    <3> QED
      BY <2>1, <3>1
  <2>2. CASE ~(bankroll > 0)
    BY <1>1, <2>2
  <2> QED
    BY <2>1, <2>2
<1>3. part + part <= bankroll
  <2> HIDE DEF P, part
  <2>1. part * 2 <= part * P
    BY <1>1, <1>2, ProductMonotonic
  <2>2. part * P \in Nat
    BY <1>1, <1>2
  <2> QED
    BY <1>2, <2>1, <2>2
<1>4. stake \in Nat /\ stake <= part
  BY <1>1, <1>2
<1>5. n \in Nat /\ n * price <= stake
  <2> HIDE DEF stake
  <2>1. stake \div price \in Nat /\ (stake \div price) * price <= stake
    BY <1>4, DivisionRoundsDown
  <2> QED
    BY <1>4, <2>1
<1>6. n * price \in Nat
  <2> HIDE DEF n
  <2> QED
    BY <1>5
<1>7. Shares(k, bankroll, price) = n
  BY DEF Shares
<1> HIDE DEF n, stake, part
<1> QED
  BY <1>2, <1>3, <1>4, <1>5, <1>6, <1>7

-------------------------------------------------------------------------------
(* The replay of one strategy                                               *)

\* Later in the file, and not in an earlier window.
LEMMA WindowsFollow ==
  ASSUME NEW r \in Records, NEW q \in Records, TimeOf(q) <= TimeOf(r)
  PROVE  q.window <= r.window
<1>1. /\ r.window \in Nat /\ q.window \in Nat /\ r.left \in Nat
      /\ q.left \in Nat /\ q.left <= WindowLength - 1 /\ WindowLength \in Nat /\ WindowLength > 0
  BY ReplayAssumption DEF Records, Windows
<1> SUFFICES ASSUME q.window >= r.window + 1 PROVE FALSE
  BY <1>1
<1> DEFINE a == r.window + 1
           b == q.window + 1
<1>2. a \in Nat /\ b \in Nat /\ a + 1 <= b
  BY <1>1
<1>3. TimeOf(r) = a * WindowLength - r.left /\ TimeOf(q) = b * WindowLength - q.left
  BY DEF TimeOf
<1> HIDE DEF a, b
<1>4. WindowLength * (a + 1) <= WindowLength * b
  BY <1>1, <1>2, ProductMonotonic
<1>5. WindowLength * (a + 1) = a * WindowLength + WindowLength /\ WindowLength * b = b * WindowLength
  BY <1>1, <1>2
<1>6. a * WindowLength \in Nat /\ b * WindowLength \in Nat
  BY <1>1, <1>2
<1> QED
  BY <1>1, <1>3, <1>4, <1>5, <1>6

LEMMA RecordFields ==
  ASSUME NEW r \in Records
  PROVE  /\ r # NoRecord
         /\ r.window \in Windows /\ r.window \in Nat /\ r.left \in Nat
         /\ TimeOf(r) \in Int
         /\ r.sig \in Sides \cup {None}
         /\ \A side \in Sides : PriceOf(r, side) \in 1..(Tick-1)
<1>1. /\ r.window \in Windows /\ r.window \in Nat /\ r.left \in Nat /\ r.up \in 1..(Tick-1)
      /\ r.sig \in Sides \cup {None}
  <2>1. r.window \in Windows /\ r.left \in 0..(WindowLength-1) /\ r.up \in Prices
    BY DEF Records
  <2>2. r.sig \in Sides \cup {None}
    BY DEF Records
  <2>3. r.left \in Nat /\ r.up \in 1..(Tick-1)
    <3>1. Prices \subseteq 1..(Tick-1)
      BY ReplayAssumption
    <3>2. WindowLength \in Nat
      BY ReplayAssumption
    <3>3. r.up \in 1..(Tick-1)
      BY <2>1, <3>1
    <3>4. r.left \in Nat
      BY <2>1, <3>2
    <3> QED
      BY <3>3, <3>4
  <2>4. r.window \in Nat
    BY <2>1, ReplayAssumption DEF Windows
  <2> QED
    BY <2>1, <2>2, <2>3, <2>4
<1>2. r # NoRecord
  BY DEF Records, NoRecord
<1>3. TimeOf(r) \in Int
  BY <1>1, ReplayAssumption DEF TimeOf
<1>4. \A side \in Sides : PriceOf(r, side) \in 1..(Tick-1)
  BY <1>1, LedgerAssumption DEF PriceOf
<1> QED
  BY <1>1, <1>2, <1>3, <1>4

ReplayTypeOK ==
  /\ kind \in Kinds /\ winners \in [Windows -> Sides]
  /\ rec \in Records \cup {NoRecord}
  /\ clock \in Int /\ lastTs \in Int
  /\ window \in Windows \cup {NoWindow}
  /\ trade \in TradeRecord \cup {NoTrade}
  /\ marked \subseteq Windows
  /\ done \in BOOLEAN

\* The money: the books are in order, and the open trade can be paid for.
MoneyInv ==
  /\ BookOK(book)
  /\ trade # NoTrade => Covered(book, trade)
  /\ done => trade = NoTrade /\ DeepestFall(book.curve, drawdown)

\* A stop-loss has closed the trade of this window: the snipe has marked it.
StoppedOut ==
  kind = "snipe" /\ trade = NoTrade /\ window \in marked /\ Before(book, window + 1)

\* The windows: what is in the books comes before the window the loop is in.
OrderInv ==
  /\ InOrder(book)
  /\ kind # "rl" => window = rec.window
  /\ kind # "leadlag" /\ rec # NoRecord => clock = TimeOf(rec)
  /\ trade # NoTrade => kind # "rl" /\ trade.window = window /\ (kind = "snipe" => window \in marked)
  /\ kind = "rl" => Within(book, marked) /\ \A w \in marked : w <= rec.window
  /\ kind # "rl" /\ ~done => Before(book, window) \/ StoppedOut

ReplayInv == ReplayTypeOK /\ MoneyInv /\ OrderInv

LEMMA ReplayInitInv == ReplayInit => ReplayInv
<1> SUFFICES ASSUME ReplayInit PROVE ReplayInv
  OBVIOUS
<1>0. kind \in Kinds /\ kind \in Strategies
  BY ReplayAssumption DEF ReplayInit
<1>1. ReplayTypeOK
  <2>1. Cooldown[kind] \in Nat
    BY <1>0, ReplayAssumption
  <2>2. lastTs \in Int
    BY <2>1 DEF ReplayInit
  <2>3. kind \in Kinds /\ winners \in [Windows -> Sides] /\ rec \in Records \cup {NoRecord}
    BY <1>0 DEF ReplayInit
  <2>4. window \in Windows \cup {NoWindow} /\ trade \in TradeRecord \cup {NoTrade}
    BY DEF ReplayInit
  <2>5. clock = 0 /\ marked = {} /\ done = FALSE
    BY DEF ReplayInit
  <2>6. clock \in Int
    BY <2>5
  <2>7. marked \subseteq Windows /\ done \in BOOLEAN
    BY <2>5, Zenon
  <2> QED
    BY <2>2, <2>3, <2>4, <2>6, <2>7 DEF ReplayTypeOK
<1>2. book = EmptyBook /\ EmptyBook.trades = <<>> /\ EmptyBook.curve = <<Start>>
  BY DEF ReplayInit, EmptyBook
<1>3. BookOK(book)
  <2>1. Ledger(book, TradeRecord)
    BY <1>2, EmptyBookLedger
  <2>2. PaidFromBankroll(book)
    BY <1>2 DEF PaidFromBankroll
  <2>3. book.curve \in Seq(Nat)
    BY <1>2, LedgerAssumption
  <2> QED
    BY <2>1, <2>2, <2>3 DEF BookOK
<1>4. MoneyInv
  BY <1>3 DEF MoneyInv, ReplayInit
<1>5. InOrder(book) /\ Before(book, window) /\ Within(book, marked)
  BY <1>2 DEF InOrder, Before, Within
<1>6. OrderInv
  BY <1>5 DEF OrderInv, ReplayInit, NoRecord, NoWindow
<1> QED
  BY <1>1, <1>4, <1>6 DEF ReplayInv

\* What the loop has after settling, in the window of the record r.
InWindow(r) ==
  /\ BookOK(BookAt(r)) /\ InOrder(BookAt(r))
  /\ HeldAt(r) # NoTrade =>
       /\ Covered(BookAt(r), HeldAt(r)) /\ HeldAt(r).window = r.window
       /\ kind = "snipe" => r.window \in marked
  /\ \/ Before(BookAt(r), r.window)
     \/ /\ kind = "snipe" /\ HeldAt(r) = NoTrade /\ r.window \in marked
        /\ Before(BookAt(r), r.window + 1)

LEMMA SettlingTurn ==
  ASSUME ReplayInv, ~done, kind # "rl", NEW r \in Records, window <= r.window
  PROVE  InWindow(r)
<1>1. /\ BookOK(book) /\ InOrder(book)
      /\ trade # NoTrade => Covered(book, trade) /\ trade.window = window
      /\ trade # NoTrade /\ kind = "snipe" => window \in marked
      /\ Before(book, window) \/ StoppedOut
  BY DEF ReplayInv, MoneyInv, OrderInv
<1>2. r.window \in Nat /\ window \in Int /\ (trade # NoTrade => trade.window \in Nat)
  BY <1>1, RecordFields, TradeFields DEF ReplayInv, ReplayTypeOK, Windows, NoWindow, Covered
<1>3. CASE ~Turns(r)
  <2>1. BookAt(r) = book /\ HeldAt(r) = trade /\ r.window = window
    BY <1>3 DEF BookAt, HeldAt, Turns
  <2> QED
    BY <1>1, <2>1 DEF InWindow, StoppedOut
<1>4. CASE Turns(r)
  <2>1. HeldAt(r) = NoTrade /\ window < r.window
    BY <1>2, <1>4 DEF HeldAt, Turns
  <2>2. BookOK(BookAt(r)) /\ InOrder(BookAt(r)) /\ Before(BookAt(r), r.window)
    <3>1. CASE trade = NoTrade
      <4>1. BookAt(r) = book
        BY <3>1 DEF BookAt
      <4>2. \A i \in 1..Len(book.trades) : book.trades[i].window \in Nat
        <5>1. book.trades \in Seq(TradeRecord)
          BY <1>1 DEF BookOK, Ledger
        <5> QED
          BY <5>1, TradeFields
      <4>3. Before(book, window) \/ Before(book, window + 1)
        BY <1>1 DEF StoppedOut
      <4>4. Before(book, r.window)
        BY <1>2, <2>1, <4>2, <4>3 DEF Before
      <4> QED
        BY <1>1, <4>1, <4>4
    <3>2. CASE trade # NoTrade
      <4>1. window \in Windows
        BY <1>1, <1>2, <3>2 DEF ReplayInv, ReplayTypeOK, NoWindow
      <4>2. winners[trade.window] \in Sides
        BY <1>1, <3>2, <4>1 DEF ReplayInv, ReplayTypeOK
      <4>3. BookAt(r) = Settled(book, trade, winners[trade.window])
        BY <1>4, <3>2 DEF BookAt
      <4>4. Takes(book, BookAt(r), trade)
        BY <1>1, <3>2, <4>2, <4>3, SettledTakes
      <4>5. Before(book, trade.window)
        BY <1>1, <3>2 DEF StoppedOut
      <4>6. trade.window < r.window /\ r.window \in Int
        BY <1>1, <1>2, <2>1, <3>2
      <4> QED
        BY <1>1, <4>4, <4>5, <4>6 DEF Takes
    <3> QED
      BY <3>1, <3>2
  <2> QED
    BY <2>1, <2>2 DEF InWindow
<1> QED
  BY <1>3, <1>4

\* The trade of an entry is covered by the books it is entered on.
LEMMA EntryCovered ==
  ASSUME kind \in Kinds, NEW r \in Records, NEW side, side \in Sides \cup {None}, Enters(r, side),
         BookOK(BookAt(r)), NEW now \in Int
  PROVE  /\ Covered(BookAt(r), TradeOn(r, side))
         /\ TradeOn(r, side).window = r.window
         /\ Covered(BookAt(r), [TradeOn(r, side) EXCEPT !.ts = now])
         /\ [TradeOn(r, side) EXCEPT !.ts = now].window = r.window
<1> DEFINE price == PriceOf(r, side)
           bankroll == BookAt(r).bankroll
           n == Shares(kind, bankroll, price)
           t == TradeOn(r, side)
           u == [t EXCEPT !.ts = now]
<1>1. side \in Sides /\ n > 0
  BY DEF Enters
<1>2. price \in 1..(Tick-1) /\ price \in Nat /\ price > 0
  BY <1>1, RecordFields, LedgerAssumption
<1>3. bankroll \in Nat
  BY BankrollIsNatural
<1>4. kind \in Strategies
  BY ReplayAssumption
<1>5. n \in Nat /\ n * price + n * price <= bankroll
  <2> HIDE DEF price, bankroll
  <2> QED
    BY <1>2, <1>3, <1>4, SharesAfforded
<1>6. Fee(n, price) \in Nat /\ Fee(n, price) <= n * price
  <2> HIDE DEF price, n
  <2> QED
    BY <1>2, <1>5, FeeBound
<1>7. t = [strategy |-> kind, window |-> r.window, side |-> side, price |-> price,
           shares |-> n, fee |-> Fee(n, price), ts |-> TimeOf(r), left |-> r.left,
           outcome |-> None, pnl |-> 0]
  BY DEF TradeOn
<1>8. u = [strategy |-> kind, window |-> r.window, side |-> side, price |-> price,
           shares |-> n, fee |-> Fee(n, price), ts |-> now, left |-> r.left,
           outcome |-> None, pnl |-> 0]
  BY DEF TradeOn
<1>9. r.window \in Nat /\ r.left \in Nat /\ TimeOf(r) \in Int
  BY RecordFields
<1> HIDE DEF price, bankroll, n, t, u
<1>10. t \in TradeRecord /\ u \in TradeRecord
  BY <1>1, <1>2, <1>4, <1>5, <1>6, <1>7, <1>8, <1>9 DEF TradeRecord
<1>11. /\ Cost(t) = n * price /\ t.fee = Fee(n, price) /\ t.window = r.window
       /\ Cost(u) = n * price /\ u.fee = Fee(n, price) /\ u.window = r.window
  BY <1>7, <1>8 DEF Cost
<1>12. Covered(BookAt(r), t) /\ Covered(BookAt(r), u)
  BY <1>5, <1>6, <1>10, <1>11 DEF Covered, bankroll
<1> QED
  BY <1>11, <1>12 DEF t, u

\* One turn of any loop but the learned policy's: it settles, and holds or enters.
Turn(r) ==
  /\ kind' = kind /\ winners' = winners /\ done' = done
  /\ rec' = r /\ window' = r.window
  /\ clock' \in Int /\ (kind # "leadlag" => clock' = TimeOf(r))
  /\ lastTs' \in Int /\ marked' \subseteq Windows
  /\ book' = BookAt(r)
  /\ \/ /\ trade' = HeldAt(r)
        /\ kind = "snipe" => marked' = marked
     \/ /\ HeldAt(r) = NoTrade
        /\ Covered(BookAt(r), trade') /\ trade'.window = r.window
        /\ kind = "snipe" => r.window \notin marked /\ r.window \in marked'

LEMMA TurnKeepsInv ==
  ASSUME ReplayInv, ~done, kind # "rl", NEW r \in Records, window <= r.window, Turn(r)
  PROVE  ReplayInv'
<1>1. InWindow(r)
  BY SettlingTurn
<1>2. /\ r # NoRecord /\ r.window \in Windows /\ r.window \in Nat
  BY RecordFields
<1>3. trade' \in TradeRecord \cup {NoTrade}
  <2>1. HeldAt(r) \in TradeRecord \cup {NoTrade}
    BY DEF ReplayInv, ReplayTypeOK, HeldAt
  <2> QED
    BY <2>1 DEF Turn, Covered
<1>4. ReplayTypeOK'
  BY <1>2, <1>3 DEF ReplayTypeOK, ReplayInv, Turn
<1>5. MoneyInv'
  <2>1. BookOK(book')
    BY <1>1 DEF InWindow, Turn
  <2>2. trade' # NoTrade => Covered(book', trade')
    BY <1>1 DEF InWindow, Turn
  <2>3. ~done'
    BY DEF Turn
  <2> QED
    BY <2>1, <2>2, <2>3 DEF MoneyInv
<1>6. OrderInv'
  <2>1. InOrder(book')
    BY <1>1 DEF InWindow, Turn
  <2>2. window' = rec'.window /\ kind' # "rl" /\ (kind' # "leadlag" => clock' = TimeOf(rec'))
    BY DEF Turn
  <2>3. trade' # NoTrade => trade'.window = window' /\ (kind' = "snipe" => window' \in marked')
    BY <1>1 DEF InWindow, Turn
  <2>4. Before(book', window') \/ StoppedOut'
    <3>1. book' = BookAt(r) /\ window' = r.window /\ kind' = kind
      BY DEF Turn
    <3>2. CASE Before(BookAt(r), r.window)
      BY <3>1, <3>2
    <3>3. CASE ~Before(BookAt(r), r.window)
      <4>1. kind = "snipe" /\ HeldAt(r) = NoTrade /\ r.window \in marked /\ Before(BookAt(r), r.window + 1)
        BY <1>1, <3>3 DEF InWindow
      <4>2. trade' = NoTrade /\ marked' = marked
        BY <4>1 DEF Turn
      <4> QED
        BY <3>1, <4>1, <4>2 DEF StoppedOut
    <3> QED
      BY <3>2, <3>3
  <2> QED
    BY <2>1, <2>2, <2>3, <2>4 DEF OrderInv
<1> QED
  BY <1>4, <1>5, <1>6 DEF ReplayInv

\* A record that follows in the file is not of an earlier window.
LEMMA NextRecord ==
  ASSUME ReplayInv, kind # "leadlag", NEW r \in Records, Reads(r)
  PROVE  /\ ~done /\ rec.window <= r.window
         /\ kind' = kind /\ winners' = winners /\ done' = done /\ rec' = r /\ clock' = TimeOf(r)
         /\ drawdown' = drawdown
         /\ TimeOf(r) \in Int /\ TimeOf(r) - lastTs \in Int
<1>1. /\ ~done /\ TimeOf(r) > clock
      /\ kind' = kind /\ winners' = winners /\ done' = done /\ rec' = r /\ clock' = TimeOf(r)
      /\ drawdown' = drawdown
  BY DEF Reads, Follows
<1>2. TimeOf(r) \in Int /\ r.window \in Nat
  BY RecordFields
<1>3. clock \in Int /\ lastTs \in Int /\ rec \in Records \cup {NoRecord}
  BY DEF ReplayInv, ReplayTypeOK
<1>4. rec.window <= r.window
  <2>1. CASE rec = NoRecord
    BY <1>2, <2>1 DEF NoRecord
  <2>2. CASE rec # NoRecord
    <3>1. rec \in Records /\ TimeOf(rec) = clock
      BY <1>3, <2>2 DEF ReplayInv, OrderInv
    <3>2. TimeOf(rec) <= TimeOf(r)
      BY <1>1, <1>2, <1>3, <3>1
    <3> QED
      BY <3>1, <3>2, WindowsFollow
  <2> QED
    BY <2>1, <2>2
<1> QED
  BY <1>1, <1>2, <1>3, <1>4

\* The loops that hold to the end: oracle, momentum, convergence and volatility, and
\* the snipe unless it is stopped out.
LEMMA HoldsOrEntersTurn ==
  ASSUME ReplayInv, kind \notin {"rl", "leadlag"}, NEW r \in Records, Reads(r),
         NEW side \in Sides \cup {None}, HoldsOrEnters(r, side),
         lastTs' \in Int, marked' \subseteq Windows,
         kind = "snipe" =>
           IF Enters(r, side) THEN r.window \notin marked /\ r.window \in marked'
           ELSE marked' = marked
  PROVE  ReplayInv'
<1>1. /\ ~done /\ rec.window <= r.window
      /\ kind' = kind /\ winners' = winners /\ done' = done /\ rec' = r /\ clock' = TimeOf(r)
      /\ TimeOf(r) \in Int
  BY NextRecord
<1>2. kind # "rl" /\ window <= r.window
  BY <1>1 DEF ReplayInv, OrderInv
<1>3. /\ book' = BookAt(r) /\ window' = r.window
      /\ trade' = IF Enters(r, side) THEN TradeOn(r, side) ELSE HeldAt(r)
  BY DEF HoldsOrEnters
<1>4. ASSUME Enters(r, side)
      PROVE  HeldAt(r) = NoTrade /\ Covered(BookAt(r), trade') /\ trade'.window = r.window
  <2>1. BookOK(BookAt(r)) /\ kind \in Kinds
    BY <1>1, <1>2, SettlingTurn DEF InWindow, ReplayInv, ReplayTypeOK
  <2>2. Covered(BookAt(r), TradeOn(r, side)) /\ TradeOn(r, side).window = r.window
    BY <1>1, <1>4, <2>1, EntryCovered
  <2> QED
    BY <1>3, <1>4, <2>2 DEF Enters
<1>5. Turn(r)
  BY <1>1, <1>3, <1>4 DEF Turn
<1> QED
  BY <1>1, <1>2, <1>5, TurnKeepsInv

LEMMA OracleKeepsInv ==
  ASSUME ReplayInv, NEW r \in Records, OracleStep(r)
  PROVE  ReplayInv'
<1> DEFINE side == OracleWant(r)
<1>1. side \in Sides \cup {None}
  BY RecordFields DEF OracleWant
<1>2. /\ kind = "oracle" /\ Reads(r) /\ HoldsOrEnters(r, side)
      /\ lastTs' = IF Enters(r, side) THEN TimeOf(r) ELSE lastTs
      /\ marked' = marked
  BY DEF OracleStep
<1>3. lastTs' \in Int /\ marked' \subseteq Windows
  BY <1>2, RecordFields DEF ReplayInv, ReplayTypeOK
<1> HIDE DEF side
<1> QED
  BY <1>1, <1>2, <1>3, HoldsOrEntersTurn

LEMMA MomentumKeepsInv ==
  ASSUME ReplayInv, NEW r \in Records, MomentumStep(r)
  PROVE  ReplayInv'
<1> DEFINE want == MomentumWant(r)
           held == HeldAt(r) # NoTrade
           count == IF held \/ want = None THEN PendingAt(r) ELSE Counted(PendingAt(r), want)
           side == IF count.n >= Confirmations THEN want ELSE None
<1>1. side \in Sides \cup {None}
  <2>1. want \in Sides \cup {None}
    BY RecordFields DEF MomentumWant
  <2> QED
    BY <2>1
<1>2. kind = "momentum" /\ Reads(r) /\ HoldsOrEnters(r, side) /\ lastTs' = lastTs /\ marked' = marked
  BY DEF MomentumStep
<1>3. lastTs' \in Int /\ marked' \subseteq Windows
  BY <1>2 DEF ReplayInv, ReplayTypeOK
<1> HIDE DEF side
<1> QED
  BY <1>1, <1>2, <1>3, HoldsOrEntersTurn

LEMMA ConvergenceKeepsInv ==
  ASSUME ReplayInv, NEW r \in Records, ConvergenceStep(r)
  PROVE  ReplayInv'
<1> DEFINE side == ConvergenceWant(r)
<1>1. side \in Sides \cup {None}
  BY DEF ConvergenceWant, Certain, Sides
<1>2. kind = "convergence" /\ Reads(r) /\ HoldsOrEnters(r, side) /\ lastTs' = lastTs /\ marked' = marked
  BY DEF ConvergenceStep
<1>3. lastTs' \in Int /\ marked' \subseteq Windows
  BY <1>2 DEF ReplayInv, ReplayTypeOK
<1> HIDE DEF side
<1> QED
  BY <1>1, <1>2, <1>3, HoldsOrEntersTurn

LEMMA VolConvKeepsInv ==
  ASSUME ReplayInv, NEW r \in Records, VolConvStep(r)
  PROVE  ReplayInv'
<1> DEFINE side == VolConvWant(r)
<1>1. side \in Sides \cup {None}
  BY RecordFields DEF VolConvWant
<1>2. /\ kind = "volconv" /\ Reads(r) /\ HoldsOrEnters(r, side) /\ lastTs' = lastTs
      /\ marked' = IF Enters(r, side) THEN {r.window} ELSE marked
  BY DEF VolConvStep
<1>3. lastTs' \in Int /\ marked' \subseteq Windows
  BY <1>2, RecordFields DEF ReplayInv, ReplayTypeOK
<1> HIDE DEF side
<1> QED
  BY <1>1, <1>2, <1>3, HoldsOrEntersTurn

LEMMA SnipeKeepsInv ==
  ASSUME ReplayInv, NEW r \in Records, SnipeStep(r)
  PROVE  ReplayInv'
<1> DEFINE side == SnipeWant(r)
<1>1. side \in Sides \cup {None}
  BY RecordFields DEF SnipeWant
<1>2. /\ kind = "snipe" /\ Reads(r) /\ HoldsOrEnters(r, side) /\ lastTs' = lastTs
      /\ marked' = IF Enters(r, side) THEN {r.window} ELSE marked
  BY DEF SnipeStep
<1>3. lastTs' \in Int /\ marked' \subseteq Windows
  BY <1>2, RecordFields DEF ReplayInv, ReplayTypeOK
<1>4. Enters(r, side) => r.window \notin marked
  BY DEF Enters, SnipeWant
<1> HIDE DEF side
<1>5. IF Enters(r, side) THEN r.window \notin marked /\ r.window \in marked' ELSE marked' = marked
  BY <1>2, <1>4
<1> QED
  BY <1>1, <1>2, <1>3, <1>5, HoldsOrEntersTurn

\* The stop-loss closes the trade of the window that goes on.
LEMMA SnipeStopsKeepsInv ==
  ASSUME ReplayInv, NEW r \in Records, SnipeStops(r)
  PROVE  ReplayInv'
<1>1. /\ kind = "snipe" /\ Reads(r) /\ StopsOut(r)
      /\ book' = Stopped(book, trade, PriceOf(r, trade.side)) /\ trade' = NoTrade
      /\ window' = window /\ lastTs' = lastTs /\ marked' = marked
  BY DEF SnipeStops
<1>2. /\ ~done /\ rec.window <= r.window
      /\ kind' = kind /\ winners' = winners /\ done' = done /\ rec' = r /\ clock' = TimeOf(r)
      /\ TimeOf(r) \in Int
  BY <1>1, NextRecord
<1>3. trade # NoTrade /\ r.window = window
  BY <1>1 DEF StopsOut, HeldAt, Turns
<1>4. /\ BookOK(book) /\ Covered(book, trade) /\ trade.window = window /\ window \in marked
      /\ InOrder(book) /\ Before(book, window)
  BY <1>1, <1>2, <1>3 DEF ReplayInv, MoneyInv, OrderInv, StoppedOut
<1>5. PriceOf(r, trade.side) \in 1..(Tick-1)
  <2>1. trade.side \in Sides
    BY <1>4 DEF Covered, TradeRecord
  <2> QED
    BY <2>1, RecordFields
<1>6. Takes(book, book', trade)
  BY <1>1, <1>4, <1>5, StoppedTakes
<1>7. r.window \in Windows /\ r.window \in Nat
  BY RecordFields
<1>8. BookOK(book') /\ InOrder(book') /\ Before(book', window + 1)
  <2>1. window \in Nat /\ window + 1 \in Int /\ window < window + 1
    BY <1>3, <1>7
  <2> QED
    BY <1>4, <1>6, <2>1 DEF Takes
<1>9. ReplayTypeOK'
  BY <1>1, <1>2, <1>7 DEF ReplayInv, ReplayTypeOK
<1>10. MoneyInv'
  BY <1>1, <1>2, <1>8 DEF MoneyInv
<1>11. StoppedOut'
  BY <1>1, <1>2, <1>4, <1>8 DEF StoppedOut
<1>12. OrderInv'
  BY <1>1, <1>2, <1>3, <1>8, <1>11 DEF OrderInv
<1> QED
  BY <1>9, <1>10, <1>12 DEF ReplayInv

\* The learned policy settles its trade at once.
LEMMA RLKeepsInv ==
  ASSUME ReplayInv, NEW r \in Records, RLStep(r)
  PROVE  ReplayInv'
<1> DEFINE enters == RLWant(r) # None
<1>1. /\ kind = "rl" /\ Reads(r)
      /\ book' = IF enters THEN Settled(book, TradeOn(r, r.sig), winners[r.window]) ELSE book
      /\ marked' = IF enters THEN marked \cup {r.window} ELSE marked
      /\ lastTs' = IF enters THEN TimeOf(r) ELSE lastTs
      /\ window' = window /\ trade' = trade
  BY DEF RLStep
<1>2. /\ ~done /\ rec.window <= r.window
      /\ kind' = kind /\ winners' = winners /\ done' = done /\ rec' = r /\ clock' = TimeOf(r)
      /\ TimeOf(r) \in Int
  BY <1>1, NextRecord
<1>3. /\ trade = NoTrade /\ BookOK(book) /\ InOrder(book) /\ Within(book, marked)
      /\ \A w \in marked : w <= rec.window
  BY <1>1 DEF ReplayInv, MoneyInv, OrderInv
<1>4. r.window \in Windows /\ r.window \in Nat /\ r.sig \in Sides \cup {None} /\ r # NoRecord
  BY RecordFields
<1>5. /\ marked \subseteq Windows /\ winners[r.window] \in Sides /\ kind \in Kinds /\ lastTs \in Int
      /\ rec.window \in Int /\ \A w \in Windows : w \in Int
  <2>1. rec.window \in Int
    BY RecordFields DEF ReplayInv, ReplayTypeOK, NoRecord
  <2> QED
    BY <1>4, <2>1 DEF ReplayInv, ReplayTypeOK, Windows
<1>6. marked' \subseteq Windows /\ \A w \in marked' : w <= r.window
  <2>1. \A w \in marked : w <= r.window
    BY <1>2, <1>3, <1>4, <1>5
  <2> QED
    BY <1>1, <1>4, <1>5, <2>1
<1>7. BookOK(book') /\ InOrder(book') /\ Within(book', marked')
  <2>1. CASE ~enters
    BY <1>1, <1>3, <2>1
  <2>2. CASE enters
    <3> DEFINE t == TradeOn(r, r.sig)
    <3>1. BookAt(r) = book
      BY <1>3 DEF BookAt
    <3>2. Enters(r, r.sig) /\ r.window \notin marked
      BY <1>3, <2>2, <3>1 DEF RLWant, Enters, HeldAt
    <3>3. Covered(book, t) /\ t.window = r.window
      BY <1>2, <1>3, <1>4, <1>5, <3>1, <3>2, EntryCovered
    <3>4. Takes(book, Settled(book, t, winners[r.window]), t)
      <4> HIDE DEF t
      <4> QED
        BY <1>3, <1>5, <3>3, SettledTakes
    <3>5. Takes(book, book', t)
      BY <1>1, <2>2, <3>4
    <3>6. Before(book, r.window)
      <4>1. ASSUME NEW i \in 1..Len(book.trades) PROVE book.trades[i].window < r.window
        <5> DEFINE w == book.trades[i].window
        <5>1. w \in marked
          BY <1>3 DEF Within
        <5>2. w \in Int /\ w <= r.window /\ w # r.window
          BY <1>2, <1>3, <1>4, <1>5, <3>2, <5>1
        <5> HIDE DEF w
        <5>3. w < r.window
          BY <1>4, <5>2
        <5> QED
          BY <5>3 DEF w
      <4> QED
        BY <4>1 DEF Before
    <3> HIDE DEF t
    <3> QED
      BY <1>1, <1>3, <2>2, <3>3, <3>5, <3>6 DEF Takes
  <2> QED
    BY <2>1, <2>2
<1>8. ReplayTypeOK'
  BY <1>1, <1>2, <1>4, <1>5, <1>6 DEF ReplayInv, ReplayTypeOK
<1>9. MoneyInv'
  BY <1>1, <1>2, <1>3, <1>7 DEF MoneyInv
<1>10. OrderInv'
  BY <1>1, <1>2, <1>3, <1>6, <1>7 DEF OrderInv
<1> QED
  BY <1>8, <1>9, <1>10 DEF ReplayInv

\* Lead-lag skips records, but never goes back to an earlier window.
LEMMA LeadLagKeepsInv ==
  ASSUME ReplayInv, NEW r \in Records, NEW now \in Int, LeadLagStep(r, now)
  PROVE  ReplayInv'
<1> DEFINE side == LeadLagWant(r, r.sig, now)
<1>1. /\ kind = "leadlag" /\ ~done /\ clock' = now
      /\ rec # NoRecord => TimeOf(rec) < TimeOf(r) \/ [rec EXCEPT !.sig = r.sig] = r
      /\ rec' = r /\ book' = BookAt(r) /\ window' = r.window
      /\ trade' = IF Enters(r, side) THEN [TradeOn(r, side) EXCEPT !.ts = now] ELSE HeldAt(r)
      /\ lastTs' = IF Enters(r, side) THEN now ELSE lastTs
      /\ kind' = kind /\ winners' = winners /\ marked' = marked /\ done' = done
  BY DEF LeadLagStep
<1>2. side \in Sides \cup {None}
  BY RecordFields DEF LeadLagWant
<1> HIDE DEF side
<1>3. window <= r.window
  <2>1. window = rec.window /\ rec \in Records \cup {NoRecord}
    BY <1>1 DEF ReplayInv, ReplayTypeOK, OrderInv
  <2>2. r.window \in Nat
    BY RecordFields
  <2>3. CASE rec = NoRecord
    BY <2>1, <2>2, <2>3 DEF NoRecord
  <2>4. CASE rec # NoRecord /\ TimeOf(rec) < TimeOf(r)
    <3>1. rec \in Records /\ TimeOf(rec) \in Int /\ TimeOf(r) \in Int
      BY <2>1, <2>4, RecordFields
    <3> QED
      BY <2>1, <2>4, <3>1, WindowsFollow
  <2>5. CASE rec # NoRecord /\ [rec EXCEPT !.sig = r.sig] = r
    <3>1. rec \in Records
      BY <2>1, <2>5
    <3>2. r.window = rec.window
      BY <2>5, <3>1 DEF Records
    <3> QED
      BY <2>1, <2>2, <3>2
  <2> QED
    BY <1>1, <2>3, <2>4, <2>5
<1>4. ASSUME Enters(r, side)
      PROVE  HeldAt(r) = NoTrade /\ Covered(BookAt(r), trade') /\ trade'.window = r.window
  <2>1. BookOK(BookAt(r)) /\ kind \in Kinds
    BY <1>1, <1>3, SettlingTurn DEF InWindow, ReplayInv, ReplayTypeOK
  <2> DEFINE u == [TradeOn(r, side) EXCEPT !.ts = now]
  <2>2. Covered(BookAt(r), u) /\ u.window = r.window
    BY <1>2, <1>4, <2>1, EntryCovered
  <2>3. trade' = u
    BY <1>1, <1>4
  <2> HIDE DEF u
  <2> QED
    BY <1>4, <2>2, <2>3 DEF Enters
<1>5. lastTs' \in Int /\ clock' \in Int /\ marked' \subseteq Windows
  BY <1>1 DEF ReplayInv, ReplayTypeOK
<1>6. Turn(r)
  BY <1>1, <1>4, <1>5 DEF Turn
<1> QED
  BY <1>1, <1>3, <1>6, TurnKeepsInv

LEMMA EndOfFileKeepsInv ==
  ASSUME ReplayInv, EndOfFile
  PROVE  ReplayInv'
<1>1. /\ ~done /\ trade' = NoTrade /\ done' = TRUE
      /\ book' = IF trade # NoTrade THEN Settled(book, trade, winners[trade.window]) ELSE book
      /\ drawdown' = MaxDrawdown(book'.curve)
      /\ kind' = kind /\ winners' = winners /\ rec' = rec /\ clock' = clock /\ window' = window
      /\ lastTs' = lastTs /\ marked' = marked
  BY DEF EndOfFile
<1>2. BookOK(book) /\ InOrder(book) /\ (kind = "rl" => trade = NoTrade /\ Within(book, marked))
  BY DEF ReplayInv, MoneyInv, OrderInv
<1>3. BookOK(book') /\ InOrder(book') /\ (kind = "rl" => Within(book', marked))
  <2>1. CASE trade = NoTrade
    BY <1>1, <1>2, <2>1
  <2>2. CASE trade # NoTrade
    <3>1. Covered(book, trade) /\ kind # "rl" /\ trade.window = window /\ Before(book, window)
      BY <1>1, <2>2 DEF ReplayInv, MoneyInv, OrderInv, StoppedOut
    <3>2. window \in Windows
      <4>1. window # NoWindow
        BY <3>1, TradeFields DEF Covered, NoWindow
      <4> QED
        BY <4>1 DEF ReplayInv, ReplayTypeOK
    <3>3. winners[trade.window] \in Sides
      BY <3>1, <3>2 DEF ReplayInv, ReplayTypeOK
    <3>4. Takes(book, book', trade)
      BY <1>1, <1>2, <2>2, <3>1, <3>3, SettledTakes
    <3> QED
      BY <1>2, <3>1, <3>4 DEF Takes
  <2> QED
    BY <2>1, <2>2
<1>4. DeepestFall(book'.curve, drawdown')
  <2> DEFINE c == book'.curve
  <2>1. c \in Seq(Nat) /\ c # <<>> /\ c[1] = Start
    BY <1>3 DEF BookOK, Ledger, FiguresOf
  <2>2. c[1] > 0
    BY <2>1, LedgerAssumption
  <2> HIDE DEF c
  <2>3. DeepestFall(c, MaxDrawdown(c))
    BY <2>1, <2>2, DrawdownIsDeepest
  <2> QED
    BY <1>1, <2>3 DEF c
<1>5. ReplayTypeOK'
  BY <1>1 DEF ReplayInv, ReplayTypeOK
<1>6. MoneyInv'
  BY <1>1, <1>3, <1>4 DEF MoneyInv
<1>7. OrderInv'
  BY <1>1, <1>3 DEF ReplayInv, OrderInv
<1> QED
  BY <1>5, <1>6, <1>7 DEF ReplayInv

LEMMA ReplayKeepsInv == ReplayInv /\ [ReplayNext]_replayVars => ReplayInv'
<1> SUFFICES ASSUME ReplayInv, [ReplayNext]_replayVars PROVE ReplayInv'
  OBVIOUS
<1>1. ASSUME NEW r \in Records, ReplayStep(r) PROVE ReplayInv'
  <2>1. ASSUME NEW lag \in 0..MaxLag, LeadLagStep(r, TimeOf(r) + lag) PROVE ReplayInv'
    <3> DEFINE now == TimeOf(r) + lag
    <3>1. now \in Int
      BY RecordFields, ReplayAssumption
    <3>2. LeadLagStep(r, now)
      BY <2>1
    <3> HIDE DEF now
    <3> QED
      BY <3>1, <3>2, LeadLagKeepsInv
  <2> QED
    BY <1>1, <2>1, OracleKeepsInv, MomentumKeepsInv, ConvergenceKeepsInv, SnipeKeepsInv,
       SnipeStopsKeepsInv, VolConvKeepsInv, RLKeepsInv DEF ReplayStep
<1>2. CASE EndOfFile
  BY <1>2, EndOfFileKeepsInv
<1>3. CASE UNCHANGED replayVars
  BY <1>3 DEF replayVars, ReplayInv, ReplayTypeOK, MoneyInv, OrderInv, StoppedOut
<1> QED
  BY <1>1, <1>2, <1>3 DEF ReplayNext

LEMMA ReplayInvariance == ReplaySpec => []ReplayInv
<1>1. ReplayInit => ReplayInv
  BY ReplayInitInv
<1>2. ReplayInv /\ [ReplayNext]_replayVars => ReplayInv'
  BY ReplayKeepsInv
<1> QED
  BY <1>1, <1>2, PTL DEF ReplaySpec

\* Whatever the records, rules and winners, no strategy trades a window twice.
THEOREM WindowsTradedOnce == ReplaySpec => []OneTradeAWindow
<1>1. ASSUME ReplayInv PROVE OneTradeAWindow
  <2>1. trade # NoTrade => Before(book, trade.window)
    BY <1>1 DEF ReplayInv, MoneyInv, OrderInv, StoppedOut
  <2> QED
    BY <1>1, <2>1 DEF ReplayInv, OrderInv, InOrder, Before, OneTradeAWindow
<1> QED
  BY <1>1, ReplayInvariance, PTL

\* What a replay reports is what its trades made.
THEOREM ReplayAddsUp == ReplaySpec => []LedgerAddsUp
<1>1. ASSUME ReplayInv PROVE LedgerAddsUp
  <2>1. AddsUp(book)
    BY <1>1, LedgerAddsUpAlone DEF ReplayInv, MoneyInv, BookOK
  <2> QED
    BY <1>1, <2>1 DEF ReplayInv, MoneyInv, BookOK, LedgerAddsUp
<1> QED
  BY <1>1, ReplayInvariance, PTL

-------------------------------------------------------------------------------
(* The caps of the portfolio                                                *)

Admission == [slot : Slots, size : Nat]

\* The window of an asset, of which one trade at most is taken.
Place(s) == <<s[2], s[3]>>

EntryOf(o, s) == s[3] * WindowSeconds + WindowSeconds - o[s].left
EndOf(o, s) == EntryOf(o, s) + o[s].left

SizeIn(adm, I) == SeqTotal([i \in 1..Len(adm) |-> IF i \in I THEN adm[i].size ELSE 0])

\* What was taken up to the k-th trade and is not over when that one is entered.
LiveAt(o, adm, k) == {i \in 1..k : EndOf(o, adm[i].slot) > EntryOf(o, adm[k].slot)}

Stakes == (Start * TotalShare) \div 100

CapKept(o, adm) == \A k \in 1..Len(adm) : SizeIn(adm, LiveAt(o, adm, k) \cup {k}) <= Stakes

\* One trade for each place, in the order of their entry.
Later(o, s, t) == EntryOf(o, s) <= EntryOf(o, t) /\ Place(s) # Place(t)
Queued(o, adm) == \A k \in 1..Len(adm) : \A i \in 1..(k-1) : Later(o, adm[i].slot, adm[k].slot)

LEMMA SizesType ==
  ASSUME NEW adm \in Seq(Admission), NEW I
  PROVE  [i \in 1..Len(adm) |-> IF i \in I THEN adm[i].size ELSE 0] \in Seq(Int)
<1> DEFINE g == [i \in 1..Len(adm) |-> IF i \in I THEN adm[i].size ELSE 0]
<1>1. \A i \in 1..Len(adm) : adm[i].size \in Nat
  <2>1. \A i \in 1..Len(adm) : adm[i] \in Admission
    OBVIOUS
  <2> QED
    BY <2>1 DEF Admission
<1>2. \A i \in 1..Len(adm) : g[i] \in Int
  BY <1>1
<1>3. Len(adm) \in Nat
  OBVIOUS
<1> QED
  BY <1>2, <1>3

LEMMA SizeGrows ==
  ASSUME NEW adm \in Seq(Admission), NEW a \in Admission, NEW I
  PROVE  /\ SizeIn(adm, I) \in Int
         /\ SizeIn(Append(adm, a), I) = SizeIn(adm, I) + (IF Len(adm) + 1 \in I THEN a.size ELSE 0)
<1> DEFINE n == Len(adm)
           z == Append(adm, a)
           g == [i \in 1..n |-> IF i \in I THEN adm[i].size ELSE 0]
           h == [i \in 1..Len(z) |-> IF i \in I THEN z[i].size ELSE 0]
           x == IF n + 1 \in I THEN a.size ELSE 0
<1>1. n \in Nat /\ Len(z) = n + 1 /\ z[n+1] = a /\ \A i \in 1..n : z[i] = adm[i]
  OBVIOUS
<1>2. g \in Seq(Int)
  BY SizesType
<1>3. x \in Int
  BY DEF Admission
<1>4. h \in Seq(Int)
  <2>1. z \in Seq(Admission)
    OBVIOUS
  <2> HIDE DEF z
  <2> QED
    BY <2>1, SizesType
<1>5. Len(g) = n /\ Len(h) = n + 1
  BY <1>1
<1>6. h[n+1] = x
  BY <1>1
<1>7. \A i \in 1..n : h[i] = g[i]
  <2> SUFFICES ASSUME NEW i \in 1..n PROVE h[i] = g[i]
    OBVIOUS
  <2>1. i \in 1..Len(z)
    BY <1>1
  <2> QED
    BY <1>1, <2>1
<1>8. SeqTotal(h) = SeqTotal(g) + x /\ SeqTotal(g) \in Int
  <2> HIDE DEF h, x, g, n
  <2>1. SeqTotal(h) = SeqTotal(g) + h[Len(g)+1]
    BY <1>2, <1>4, <1>5, <1>7, SeqTotalExtend
  <2> QED
    BY <1>2, <1>5, <1>6, <2>1, SeqTotalType
<1> QED
  BY <1>8 DEF SizeIn

\* Only what is in the sequence has a size.
LEMMA SizeOfSame ==
  ASSUME NEW adm \in Seq(Admission), NEW I, NEW J, \A i \in 1..Len(adm) : i \in I <=> i \in J
  PROVE  SizeIn(adm, I) = SizeIn(adm, J)
<1>1. [i \in 1..Len(adm) |-> IF i \in I THEN adm[i].size ELSE 0] =
      [i \in 1..Len(adm) |-> IF i \in J THEN adm[i].size ELSE 0]
  OBVIOUS
<1> QED
  BY <1>1 DEF SizeIn

\* A trade that is no greater than what the live ones leave keeps the cap.
LEMMA CapsGrow ==
  ASSUME NEW o, NEW adm \in Seq(Admission), CapKept(o, adm), NEW a \in Admission,
         SizeIn(adm, {i \in 1..Len(adm) : EndOf(o, adm[i].slot) > EntryOf(o, a.slot)}) + a.size <= Stakes
  PROVE  CapKept(o, Append(adm, a))
<1> DEFINE n == Len(adm)
           z == Append(adm, a)
           O == {i \in 1..n : EndOf(o, adm[i].slot) > EntryOf(o, a.slot)}
<1>1. n \in Nat /\ Len(z) = n + 1 /\ z[n+1] = a /\ \A i \in 1..n : z[i] = adm[i]
  OBVIOUS
<1>2. ASSUME NEW k \in 1..(n+1) PROVE SizeIn(z, LiveAt(o, z, k) \cup {k}) <= Stakes
  <2>1. CASE k = n + 1
    <3> DEFINE I == LiveAt(o, z, n + 1) \cup {n + 1}
    <3>1. \A i \in 1..n : i \in I <=> i \in O
      <4>1. \A i \in 1..n : i \in 1..(n+1) /\ i # n + 1
        BY <1>1
      <4>2. \A i \in 1..n : i \in I <=> EndOf(o, z[i].slot) > EntryOf(o, z[n+1].slot)
        BY <4>1 DEF LiveAt
      <4> QED
        BY <1>1, <4>2
    <3>2. n + 1 \in I
      OBVIOUS
    <3>3. SizeIn(adm, I) = SizeIn(adm, O)
      <4> HIDE DEF I, O
      <4> QED
        BY <3>1, SizeOfSame
    <3>4. SizeIn(z, I) = SizeIn(adm, I) + a.size
      <4> HIDE DEF I
      <4> QED
        BY <3>2, SizeGrows
    <3> HIDE DEF O
    <3>5. SizeIn(z, I) <= Stakes
      <4> HIDE DEF I
      <4>1. SizeIn(adm, O) + a.size <= Stakes
        BY DEF O
      <4> QED
        BY <3>3, <3>4, <4>1
    <3> QED
      BY <2>1, <3>5
  <2>2. CASE k # n + 1
    <3>1. k \in 1..n /\ ~(n + 1 \in 1..k) /\ n + 1 # k /\ \A i \in 1..k : i \in 1..n
      BY <1>1, <2>2
    <3>2. LiveAt(o, z, k) = LiveAt(o, adm, k)
      BY <1>1, <3>1 DEF LiveAt
    <3> DEFINE I == LiveAt(o, adm, k) \cup {k}
    <3>3. ~(n + 1 \in I)
      BY <3>1 DEF LiveAt
    <3>4. SizeIn(adm, I) <= Stakes
      BY <3>1 DEF CapKept
    <3>5. SizeIn(z, I) = SizeIn(adm, I) + 0 /\ SizeIn(adm, I) \in Int
      <4> HIDE DEF I
      <4> QED
        BY <3>3, SizeGrows
    <3>6. SizeIn(z, I) <= Stakes
      <4> HIDE DEF I
      <4> QED
        BY <3>4, <3>5
    <3> QED
      BY <3>2, <3>6
  <2> QED
    BY <2>1, <2>2
<1> QED
  BY <1>1, <1>2 DEF CapKept

LEMMA QueueGrows ==
  ASSUME NEW o, NEW adm \in Seq(Admission), Queued(o, adm), NEW a \in Admission,
         \A i \in 1..Len(adm) : Later(o, adm[i].slot, a.slot)
  PROVE  Queued(o, Append(adm, a))
<1> DEFINE n == Len(adm)
           z == Append(adm, a)
<1>1. n \in Nat /\ Len(z) = n + 1 /\ z[n+1] = a /\ \A i \in 1..n : z[i] = adm[i]
  OBVIOUS
<1>2. ASSUME NEW k \in 1..(n+1), NEW i \in 1..(k-1) PROVE Later(o, z[i].slot, z[k].slot)
  <2>1. i \in 1..n
    BY <1>1
  <2>2. CASE k = n + 1
    BY <1>1, <2>1, <2>2
  <2>3. CASE k # n + 1
    <3>1. k \in 1..n
      BY <1>1, <2>3
    <3> QED
      BY <1>1, <2>1, <3>1 DEF Queued
  <2> QED
    BY <2>2, <2>3
<1> QED
  BY <1>1, <1>2 DEF Queued

-------------------------------------------------------------------------------
(* The portfolio takes one trade a window, within its caps                  *)

\* No two slots waiting are of one place, and all come after what was taken.
Apart(W) == \A s, t \in W : Place(s) = Place(t) => s = t
AfterAll(W, o, adm) == \A s \in W : \A i \in 1..Len(adm) : Later(o, adm[i].slot, s)

PortfolioInv ==
  /\ offers \in [Slots -> OfferTerms \cup {NoOffer}]
  /\ admitted \in Seq(Admission)
  /\ waiting \in Seq(SUBSET Slots)
  /\ waiting = <<>> => admitted = <<>>
  /\ waiting # <<>> => Apart(waiting[1]) /\ AfterAll(waiting[1], offers, admitted)
  /\ CapKept(offers, admitted) /\ Queued(offers, admitted)
  /\ results # <<>> => \A a \in Assets : AddsUp(results[1][a])

LEMMA PortfolioInitInv == PortfolioInit => PortfolioInv
BY DEF PortfolioInit, PortfolioInv, CapKept, Queued

\* The highest rank of a place is one slot alone.
LEMMA ChosenApart == Chosen \in SUBSET Slots /\ Apart(Chosen)
<1>1. Chosen \in SUBSET Slots
  BY DEF Chosen, Eligible
<1>2. ASSUME NEW s \in Chosen, NEW t \in Chosen, Place(s) = Place(t) PROVE s = t
  <2>1. s \in Slots /\ t \in Slots
    BY <1>1
  <2>2. Slots \subseteq (DOMAIN Rank) \X Assets \X Nat
    BY PortfolioAssumption
  <2>3. s \in (DOMAIN Rank) \X Assets \X Nat /\ t \in (DOMAIN Rank) \X Assets \X Nat
    BY <2>1, <2>2
  <2>4. Beats(s, t) /\ Beats(t, s)
    BY <1>2 DEF Chosen, Place
  <2>5. s[2] = t[2] /\ s[3] = t[3]
    BY <1>2 DEF Place
  <2>6. s[1] \in DOMAIN Rank /\ t[1] \in DOMAIN Rank
    BY <2>3
  <2>7. s[1] = t[1]
    <3>1. CASE s[1] = "snipe" \/ t[1] = "snipe"
      BY <2>4, <3>1 DEF Beats
    <3>2. CASE s[1] # "snipe" /\ t[1] # "snipe"
      <4>1. Rank[s[1]] >= Rank[t[1]] /\ Rank[t[1]] >= Rank[s[1]]
        BY <2>4, <3>2 DEF Beats
      <4>2. \A c, d \in DOMAIN Rank : Rank[c] \in Nat /\ (Rank[c] = Rank[d] => c = d)
        BY PortfolioAssumption
      <4>3. Rank[s[1]] \in Nat /\ Rank[t[1]] \in Nat
        BY <2>6, <4>2
      <4>4. Rank[s[1]] = Rank[t[1]]
        BY <4>1, <4>3
      <4> QED
        BY <2>6, <4>2, <4>4
    <3> QED
      BY <3>1, <3>2
  <2> QED
    BY <2>3, <2>5, <2>7
<1> QED
  BY <1>1, <1>2 DEF Apart

LEMMA OfferFields ==
  ASSUME offers \in [Slots -> OfferTerms \cup {NoOffer}], NEW s \in Slots
  PROVE  offers[s].left \in 0..WindowSeconds /\ offers[s].size \in Nat /\ offers[s].gain \in Int
<1>1. OfferTerms \subseteq [left : 0..WindowSeconds, size : Nat \ {0}, gain : Int]
  BY PortfolioAssumption
<1>2. offers[s] \in OfferTerms \cup {NoOffer}
  OBVIOUS
<1>3. CASE offers[s] \in OfferTerms
  BY <1>1, <1>3
<1>4. CASE offers[s] = NoOffer
  BY <1>4 DEF NoOffer, WindowSeconds
<1> QED
  BY <1>2, <1>3, <1>4

\* What a slot is allowed is a number, and within what the open positions leave.
LEMMA AllowedFits ==
  ASSUME PortfolioInv, NEW slot \in Slots
  PROVE  /\ Allowed(slot) \in Int
         /\ SizeIn(admitted, OpenAt(EntryTs(slot))) + Allowed(slot) <= Stakes
<1> DEFINE size == offers[slot].size
           sleeve == SleeveCap(slot)
           used == UsedOf(slot)
           open == SizeOf(OpenAt(EntryTs(slot)))
           wcap == (Start * WindowShare) \div 100
<1>1. size \in Int
  BY OfferFields DEF PortfolioInv
<1>s. Start \in Nat
  BY LedgerAssumption
<1>2. sleeve \in Int
  <2>1. offers[slot].left \in 0..WindowSeconds
    BY OfferFields DEF PortfolioInv
  <2>2. Regime(offers[slot].left) \in Regimes
    BY <2>1 DEF Regime, Regimes, WindowSeconds
  <2>3. slot[1] \in DOMAIN Rank
    <3>1. Slots \subseteq (DOMAIN Rank) \X Assets \X Nat
      BY PortfolioAssumption
    <3> QED
      BY <3>1
  <2>4. Weights \in [Regimes -> [DOMAIN Rank -> 0..100]]
    BY PortfolioAssumption
  <2>5. Weights[Regime(offers[slot].left)][slot[1]] \in 0..100
    BY <2>2, <2>3, <2>4
  <2>6. Start * Weights[Regime(offers[slot].left)][slot[1]] \in Nat
    BY <1>s, <2>5
  <2> QED
    BY <2>6 DEF SleeveCap
<1>3. \A I : SizeOf(I) \in Int
  <2>1. \A I : SizeIn(admitted, I) \in Int
    <3> SUFFICES ASSUME NEW I PROVE SizeIn(admitted, I) \in Int
      OBVIOUS
    <3>1. admitted \in Seq(Admission)
      BY DEF PortfolioInv
    <3>2. [i \in 1..Len(admitted) |-> IF i \in I THEN admitted[i].size ELSE 0] \in Seq(Int)
      BY <3>1, SizesType
    <3> QED
      BY <3>2, SeqTotalType DEF SizeIn
  <2> QED
    BY <2>1 DEF SizeOf, SizeIn
<1>4. used \in Int /\ open \in Int
  BY <1>3 DEF UsedOf
<1>5. wcap \in Int /\ Stakes \in Int
  BY <1>s, PortfolioAssumption DEF Stakes
<1>6. Allowed(slot) = Least(Least(size, sleeve), Least(wcap - used, Stakes - open))
  BY DEF Allowed, Stakes
<1>7. open = SizeIn(admitted, OpenAt(EntryTs(slot)))
  BY DEF SizeOf, SizeIn
<1> HIDE DEF size, sleeve, used, open, wcap
<1> QED
  BY <1>1, <1>2, <1>4, <1>5, <1>6, <1>7 DEF Least

LEMMA AdmitKeepsInv ==
  ASSUME PortfolioInv, NEW slot \in Slots, Admit(slot)
  PROVE  PortfolioInv'
<1> DEFINE W == waiting[1]
<1>0. /\ offers' = offers /\ results' = results /\ waiting' = <<W \ {slot}>> /\ slot \in W
      /\ waiting # <<>> /\ \A other \in W : EntryTs(slot) <= EntryTs(other)
  BY DEF Admit
<1>1. /\ admitted \in Seq(Admission) /\ W \in SUBSET Slots
      /\ Apart(W) /\ AfterAll(W, offers, admitted)
      /\ CapKept(offers, admitted) /\ Queued(offers, admitted)
  BY <1>0 DEF PortfolioInv
<1>2. waiting'[1] = W \ {slot} /\ waiting' \in Seq(SUBSET Slots) /\ waiting' # <<>>
  BY <1>0, <1>1
<1>3. Apart(W \ {slot})
  BY <1>1 DEF Apart
<1>4. AfterAll(W \ {slot}, offers, admitted)
  BY <1>1 DEF AfterAll
<1>5. \A s \in W \ {slot} : Later(offers, slot, s)
  <2> SUFFICES ASSUME NEW s \in W \ {slot} PROVE Later(offers, slot, s)
    OBVIOUS
  <2>1. EntryTs(slot) <= EntryTs(s)
    BY <1>0
  <2>2. EntryOf(offers, slot) <= EntryOf(offers, s)
    BY <2>1 DEF EntryTs, EntryOf
  <2>3. Place(slot) # Place(s)
    BY <1>0, <1>1 DEF Apart
  <2> QED
    BY <2>2, <2>3 DEF Later
<1>6. /\ admitted' \in Seq(Admission)
      /\ AfterAll(W \ {slot}, offers, admitted')
      /\ CapKept(offers, admitted') /\ Queued(offers, admitted')
  <2>1. CASE Allowed(slot) < MinAdmitted
    <3>1. admitted' = admitted
      BY <2>1 DEF Admit
    <3> QED
      BY <1>1, <1>4, <3>1
  <2>2. CASE ~(Allowed(slot) < MinAdmitted)
    <3> DEFINE a == [slot |-> slot, size |-> Allowed(slot)]
    <3>1. admitted' = Append(admitted, a)
      BY <2>2 DEF Admit
    <3>2. a \in Admission
      <4>1. Allowed(slot) \in Int
        BY AllowedFits
      <4>2. MinAdmitted \in Nat
        BY PortfolioAssumption
      <4>3. Allowed(slot) \in Nat
        BY <2>2, <4>1, <4>2
      <4> QED
        BY <4>3 DEF Admission
    <3>3. a.slot = slot /\ a.size = Allowed(slot)
      OBVIOUS
    <3> HIDE DEF a
    <3>4. \A i \in 1..Len(admitted) : Later(offers, admitted[i].slot, a.slot)
      BY <1>0, <1>1, <3>3 DEF AfterAll
    <3>5. Queued(offers, admitted')
      BY <1>1, <3>1, <3>2, <3>4, QueueGrows
    <3>6. CapKept(offers, admitted')
      <4>1. OpenAt(EntryTs(slot)) =
            {i \in 1..Len(admitted) : EndOf(offers, admitted[i].slot) > EntryOf(offers, a.slot)}
        BY <3>3 DEF OpenAt, EndTs, EntryTs, EndOf, EntryOf
      <4>2. SizeIn(admitted, OpenAt(EntryTs(slot))) + a.size <= Stakes
        BY <3>3, AllowedFits
      <4> QED
        BY <1>1, <3>1, <3>2, <4>1, <4>2, CapsGrow
    <3>7. AfterAll(W \ {slot}, offers, admitted')
      <4> SUFFICES ASSUME NEW s \in W \ {slot}, NEW i \in 1..Len(admitted')
                   PROVE  Later(offers, admitted'[i].slot, s)
        BY DEF AfterAll
      <4>1. CASE i = Len(admitted) + 1
        <5>1. admitted'[i] = a
          BY <1>1, <3>1, <4>1
        <5> QED
          BY <1>5, <3>3, <5>1
      <4>2. CASE i # Len(admitted) + 1
        <5>1. i \in 1..Len(admitted) /\ admitted'[i] = admitted[i]
          BY <1>1, <3>1, <3>2, <4>2
        <5> QED
          BY <1>4, <5>1 DEF AfterAll
      <4> QED
        BY <4>1, <4>2
    <3>8. admitted' \in Seq(Admission)
      BY <1>1, <3>1, <3>2
    <3> QED
      BY <3>5, <3>6, <3>7, <3>8
  <2> QED
    BY <2>1, <2>2
<1> HIDE DEF W
<1>7. results' # <<>> => \A a \in Assets : AddsUp(results'[1][a])
  BY <1>0 DEF PortfolioInv
<1>8. offers' \in [Slots -> OfferTerms \cup {NoOffer}]
  BY <1>0 DEF PortfolioInv
<1> QED
  BY <1>0, <1>2, <1>3, <1>6, <1>7, <1>8 DEF PortfolioInv

TakenTrade == [slot : Slots, size : Nat, outcome : {None, "WIN", "LOSS"}, pnl : Int]

PortfolioBooks ==
  {b \in [bankroll : Int, fees : Int, wins : Nat, losses : Nat, curve : Seq(Int),
          trades : Seq(TakenTrade)] : Ledger(b, TakenTrade)}

\* A trade goes into books that add up and leaves books that add up.
LEMMA BooksStay ==
  ASSUME offers \in [Slots -> OfferTerms \cup {NoOffer}],
         NEW b \in PortfolioBooks, NEW a \in Admission, NEW asset
  PROVE  BooksAfter(b, a, asset) \in PortfolioBooks
<1> DEFINE outcome == IF PnlOf(a) > 0 THEN "WIN" ELSE "LOSS"
           pnl == PnlOf(a)
           e == Entered(b, TradeOf(a), outcome, pnl, 0)
           u == Closed(TradeOf(a), outcome, pnl)
           T == TakenTrade
<1>1. a.slot \in Slots /\ a.size \in Nat
  BY DEF Admission
<1>2. pnl \in Int
  BY <1>1, OfferFields DEF PnlOf
<1>3. u = [slot |-> a.slot, size |-> a.size, outcome |-> outcome, pnl |-> pnl]
  <2> DEFINE t == [slot |-> a.slot, size |-> a.size, outcome |-> None, pnl |-> 0]
  <2>1. u = [t EXCEPT !.outcome = outcome, !.pnl = pnl]
    BY DEF Closed, TradeOf
  <2> HIDE DEF outcome, pnl, u
  <2> QED
    BY <2>1
<1>4. outcome \in {None, "WIN", "LOSS"}
  OBVIOUS
<1>5. u \in TakenTrade /\ u.pnl = pnl
  <2> HIDE DEF outcome, pnl, u
  <2> QED
    BY <1>1, <1>2, <1>3, <1>4 DEF TakenTrade
<1>6. /\ b.bankroll \in Int /\ b.fees \in Int /\ b.wins \in Nat /\ b.losses \in Nat
      /\ b.curve \in Seq(Int) /\ b.trades \in Seq(T) /\ Ledger(b, T)
  BY DEF PortfolioBooks
<1>7. Ledger(e, T)
  <2> DEFINE t == TradeOf(a)
  <2>1. u = Closed(t, outcome, pnl)
    OBVIOUS
  <2> HIDE DEF outcome, pnl, u, t, T
  <2>2. u \in T
    BY <1>5 DEF T
  <2>3. Ledger(Entered(b, t, outcome, pnl, 0), T)
    BY <1>2, <1>5, <1>6, <2>1, <2>2, EnteredLedger
  <2> QED
    BY <2>3 DEF t
<1>8. e \in [bankroll : Int, fees : Int, wins : Nat, losses : Nat, curve : Seq(Int), trades : Seq(T)]
  <2>1. e = [bankroll |-> b.bankroll + pnl, fees |-> b.fees + 0,
             wins |-> b.wins + (IF outcome = "WIN" THEN 1 ELSE 0),
             losses |-> b.losses + (IF outcome = "WIN" THEN 0 ELSE 1),
             curve |-> Append(b.curve, b.bankroll + pnl),
             trades |-> Append(b.trades, u)]
    BY DEF Entered, Closed
  <2> HIDE DEF outcome, pnl, u, e, T
  <2>2. u \in T
    BY <1>5 DEF T
  <2>3. Append(b.curve, b.bankroll + pnl) \in Seq(Int) /\ Append(b.trades, u) \in Seq(T)
    BY <1>2, <1>6, <2>2
  <2>4. /\ b.bankroll + pnl \in Int /\ b.fees + 0 \in Int
        /\ b.wins + (IF outcome = "WIN" THEN 1 ELSE 0) \in Nat
        /\ b.losses + (IF outcome = "WIN" THEN 0 ELSE 1) \in Nat
    BY <1>2, <1>6
  <2> QED
    BY <2>1, <2>3, <2>4
<1>9. e \in PortfolioBooks
  <2> HIDE DEF e
  <2> QED
    BY <1>7, <1>8 DEF PortfolioBooks
<1> QED
  BY <1>9 DEF BooksAfter

LEMMA EmptyBooks == EmptyBook \in PortfolioBooks
<1>1. EmptyBook \in [bankroll : Int, fees : Int, wins : Nat, losses : Nat, curve : Seq(Int),
                     trades : Seq(TakenTrade)]
  BY LedgerAssumption DEF EmptyBook
<1> QED
  BY <1>1, EmptyBookLedger DEF PortfolioBooks

\* The books of an asset are made of the trades one after the other.
LEMMA BooksAddUp ==
  ASSUME PortfolioInv, NEW asset
  PROVE  AddsUp(BooksOf(asset))
<1> DEFINE n == Len(admitted)
           V == PortfolioBooks
           F == [i \in 1..n |-> [b \in V |-> BooksAfter(b, admitted[i], asset)]]
           Solves(t) == t = [i \in 0..n |-> IF i = 0 THEN EmptyBook
                                           ELSE BooksAfter(t[i-1], admitted[i], asset)]
<1>1. n \in Nat /\ EmptyBook \in V /\ \A i \in 1..n : admitted[i] \in Admission
  BY EmptyBooks DEF PortfolioInv
<1>2. F \in [1..n -> [V -> V]]
  <2>1. \A i \in 1..n : \A b \in V : BooksAfter(b, admitted[i], asset) \in V
    BY <1>1, BooksStay DEF PortfolioInv
  <2> HIDE DEF V, n
  <2> QED
    BY <2>1
<1>3. Recursion(n, V, EmptyBook, F)
  <2> HIDE DEF n, V, F
  <2> QED
    BY <1>1, <1>2, RecursionDefined
<1>4. PICK t \in [0..n -> V] : t[0] = EmptyBook /\ \A i \in 1..n : t[i] = F[i][t[i-1]]
  BY <1>3 DEF Recursion
<1>5. ASSUME NEW i \in 1..n PROVE t[i] = BooksAfter(t[i-1], admitted[i], asset)
  <2>1. t[i-1] \in V
    <3>1. i - 1 \in 0..n
      BY <1>1
    <3> HIDE DEF V
    <3> QED
      BY <1>4, <3>1
  <2>2. t[i] = F[i][t[i-1]]
    BY <1>4
  <2> HIDE DEF V
  <2> QED
    BY <2>1, <2>2
<1>6. Solves(t)
  <2> HIDE DEF V, F
  <2> QED
    BY <1>1, <1>4, <1>5
<1>7. Solves(BooksAlong(asset))
  BY <1>6 DEF BooksAlong
<1> DEFINE s == BooksAlong(asset)
           Sound == {i \in 0..n : s[i] \in V}
<1>8. s = [i \in 0..n |-> IF i = 0 THEN EmptyBook ELSE BooksAfter(s[i-1], admitted[i], asset)]
  BY <1>7
<1> HIDE DEF s, n, V, Solves
<1>9. 0..n \subseteq Sound
  <2>1. 0 \in Sound
    BY <1>1, <1>8
  <2>2. ASSUME NEW i \in 0..n, i + 1 \in 0..n, i \in Sound PROVE i + 1 \in Sound
    <3>1. i + 1 \in 1..n /\ (i + 1) - 1 = i /\ i + 1 # 0
      BY <1>1, <2>2
    <3>2. s[i+1] = BooksAfter(s[i], admitted[i+1], asset)
      BY <1>8, <2>2, <3>1
    <3>3. BooksAfter(s[i], admitted[i+1], asset) \in V
      BY <1>1, <2>2, <3>1, BooksStay DEF V, PortfolioInv
    <3> QED
      BY <2>2, <3>2, <3>3
  <2> HIDE DEF Sound
  <2> QED
    BY <1>1, <2>1, <2>2, BoundedSetInduction
<1>10. s[n] \in V
  BY <1>1, <1>9
<1> QED
  BY <1>10, LedgerAddsUpAlone DEF BooksOf, s, n, V, PortfolioBooks

LEMMA SelectKeepsInv ==
  ASSUME PortfolioInv, SelectCandidates
  PROVE  PortfolioInv'
<1>1. /\ waiting = <<>> /\ waiting' = <<Chosen>>
      /\ offers' = offers /\ admitted' = admitted /\ results' = results
  BY DEF SelectCandidates
<1>2. admitted = <<>>
  BY <1>1 DEF PortfolioInv
<1>3. AfterAll(Chosen, offers, admitted)
  BY <1>2 DEF AfterAll
<1> DEFINE C == Chosen
<1> HIDE DEF C
<1>4. C \in SUBSET Slots /\ Apart(C) /\ AfterAll(C, offers, admitted) /\ waiting' = <<C>>
  BY <1>1, <1>3, ChosenApart DEF C
<1>5. waiting' \in Seq(SUBSET Slots) /\ waiting'[1] = C /\ waiting' # <<>>
  BY <1>4
<1> QED
  BY <1>1, <1>4, <1>5 DEF PortfolioInv

LEMMA BuildKeepsInv ==
  ASSUME PortfolioInv, BuildResults
  PROVE  PortfolioInv'
<1>1. /\ results' = <<[a \in Assets |-> BooksOf(a)]>>
      /\ offers' = offers /\ admitted' = admitted /\ waiting' = waiting
  BY DEF BuildResults
<1>2. ASSUME NEW a \in Assets PROVE AddsUp(results'[1][a])
  <2>1. results'[1][a] = BooksOf(a)
    BY <1>1
  <2> QED
    BY <2>1, BooksAddUp
<1> QED
  BY <1>1, <1>2 DEF PortfolioInv

LEMMA PortfolioNextInv == PortfolioInv /\ [PortfolioNext]_portfolioVars => PortfolioInv'
<1> SUFFICES ASSUME PortfolioInv, [PortfolioNext]_portfolioVars PROVE PortfolioInv'
  OBVIOUS
<1>1. CASE SelectCandidates
  BY <1>1, SelectKeepsInv
<1>2. ASSUME NEW s \in Slots, Admit(s) PROVE PortfolioInv'
  BY <1>2, AdmitKeepsInv
<1>3. CASE BuildResults
  BY <1>3, BuildKeepsInv
<1>4. CASE UNCHANGED portfolioVars
  BY <1>4 DEF portfolioVars, PortfolioInv
<1> QED
  BY <1>1, <1>2, <1>3, <1>4 DEF PortfolioNext

LEMMA PortfolioInvCaps == PortfolioInv => PortfolioCaps
<1> SUFFICES ASSUME PortfolioInv PROVE PortfolioCaps
  OBVIOUS
<1>1. CapKept(offers, admitted) /\ Queued(offers, admitted) /\ admitted \in Seq(Admission)
  BY DEF PortfolioInv
<1>2. ASSUME NEW k \in 1..Len(admitted)
      PROVE  LET ts   == EntryTs(admitted[k].slot)
                 live == {i \in 1..k : EndTs(admitted[i].slot) > ts}
             IN  SizeOf(live \cup {k}) <= (Start * TotalShare) \div 100
  <2>1. {i \in 1..k : EndTs(admitted[i].slot) > EntryTs(admitted[k].slot)} =
        LiveAt(offers, admitted, k)
    BY DEF LiveAt, EndTs, EntryTs, EndOf, EntryOf
  <2>2. SizeIn(admitted, LiveAt(offers, admitted, k) \cup {k}) <= Stakes
    BY <1>1 DEF CapKept
  <2>3. SizeOf(LiveAt(offers, admitted, k) \cup {k}) <= Stakes
    BY <2>2 DEF SizeOf, SizeIn
  <2> QED
    BY <2>1, <2>3 DEF Stakes
<1>3. ASSUME NEW k \in 1..Len(admitted), NEW i \in 1..(k-1)
      PROVE  /\ EntryTs(admitted[i].slot) <= EntryTs(admitted[k].slot)
             /\ <<admitted[i].slot[2], admitted[i].slot[3]>> #
                  <<admitted[k].slot[2], admitted[k].slot[3]>>
  <2>1. Later(offers, admitted[i].slot, admitted[k].slot)
    BY <1>1 DEF Queued
  <2> QED
    BY <2>1 DEF Later, EntryOf, EntryTs, Place
<1> QED
  BY <1>2, <1>3 DEF PortfolioCaps, PortfolioInv

\* The portfolio takes one trade for each asset and window, in the order of their entry;
\* whenever it takes one, what is open with it is within the share of the bankroll; and
\* the books of every asset add up, for any offers, weights and ranks that are all
\* different (_select_candidates, _build_results).
THEOREM PortfolioWithinCaps == PortfolioSpec => []PortfolioCaps
<1>1. PortfolioInit => PortfolioInv
  BY PortfolioInitInv
<1>2. PortfolioInv /\ [PortfolioNext]_portfolioVars => PortfolioInv'
  BY PortfolioNextInv
<1>3. PortfolioInv => PortfolioCaps
  BY PortfolioInvCaps
<1> QED
  BY <1>1, <1>2, <1>3, PTL DEF PortfolioSpec

-------------------------------------------------------------------------------
(* What a strategy of the simulator decides                                 *)

SimTrade ==
  [window : Nat, strategy : RunnerNames, side : Sides \cup {None}, at : 1..Samples,
   pnl : Int, won : BOOLEAN]

\* A sample that favours a side favours the one its walk has, at a price in the band.
LEMMA FavouredSide ==
  ASSUME current \in Inputs, NEW k \in 1..Samples, NEW needed
  PROVE  /\ current.walk[k] \in Sides \cup {None}
         /\ Favoured(k, needed) \in Sides \cup {None}
         /\ Favoured(k, needed) # None =>
              /\ Favoured(k, needed) = current.walk[k]
              /\ PastPrice(current.quotes, current.walk[k], k) \in PriceBand
<1>1. current.walk \in Walks
  BY DEF Inputs
<1>2. Walks \subseteq [1..Samples -> Sides \cup {None}]
  BY SimulatorAssumption
<1>3. current.walk[k] \in Sides \cup {None}
  BY <1>1, <1>2
<1> QED
  BY <1>3 DEF Favoured

Counts == [side : Sides \cup {None}, n : Nat]

NoCount == [side |-> None, n |-> 0]

LEMMA AgreedDefined ==
  ASSUME current \in Inputs
  PROVE  /\ Agreed[0] = NoCount
         /\ \A k \in 1..Samples : Agreed[k] = AgreedAfter(Agreed[k-1], k)
<1> DEFINE n == Samples
           V == Counts
           F == [i \in 1..n |-> [x \in V |-> AgreedAfter(x, i)]]
           Solves(t) == t = [i \in 0..n |-> IF i = 0 THEN NoCount ELSE AgreedAfter(t[i-1], i)]
<1>1. n \in Nat /\ NoCount \in V
  BY SimulatorAssumption DEF Counts, NoCount
<1>2. ASSUME NEW x \in V, NEW i \in 1..n PROVE AgreedAfter(x, i) \in V
  <2>1. SideAt(i) \in Sides \cup {None}
    BY FavouredSide DEF SideAt
  <2>2. x.n \in Nat
    BY DEF Counts
  <2> QED
    BY <2>1, <2>2 DEF AgreedAfter, Counts
<1>3. F \in [1..n -> [V -> V]]
  <2> HIDE DEF V, n
  <2> QED
    BY <1>2
<1>4. Recursion(n, V, NoCount, F)
  <2> HIDE DEF n, V, F
  <2> QED
    BY <1>1, <1>3, RecursionDefined
<1>5. PICK t \in [0..n -> V] : t[0] = NoCount /\ \A i \in 1..n : t[i] = F[i][t[i-1]]
  BY <1>4 DEF Recursion
<1>6. ASSUME NEW i \in 1..n PROVE t[i] = AgreedAfter(t[i-1], i)
  <2>1. t[i-1] \in V
    <3>1. i - 1 \in 0..n
      BY <1>1
    <3> HIDE DEF V
    <3> QED
      BY <1>5, <3>1
  <2>2. t[i] = F[i][t[i-1]]
    BY <1>5
  <2> HIDE DEF V
  <2> QED
    BY <2>1, <2>2
<1>7. Solves(t)
  <2> HIDE DEF V, F
  <2> QED
    BY <1>1, <1>5, <1>6
<1>8. Solves(Agreed)
  BY <1>7 DEF Agreed, NoCount
<1> DEFINE s == Agreed
<1>9. s = [i \in 0..n |-> IF i = 0 THEN NoCount ELSE AgreedAfter(s[i-1], i)]
  BY <1>8
<1> HIDE DEF s, n
<1>10. s[0] = NoCount
  BY <1>1, <1>9
<1>11. ASSUME NEW i \in 1..n PROVE s[i] = AgreedAfter(s[i-1], i)
  <2>1. i \in 0..n /\ i # 0
    BY <1>1
  <2> QED
    BY <1>9, <2>1
<1> QED
  BY <1>10, <1>11 DEF s, n

\* The samples that may enter, from one to another.
Between(j, k) == {m \in EntryAges : j <= m /\ m <= k}

LEMMA BetweenFinite ==
  ASSUME NEW j, NEW k
  PROVE  IsFiniteSet(Between(j, k)) /\ Cardinality(Between(j, k)) \in Nat
<1>1. EntryAges \subseteq 1..Samples /\ Samples \in Nat
  BY SimulatorAssumption
<1>2. IsFiniteSet(1..Samples)
  BY <1>1, FS_Interval
<1>3. Between(j, k) \subseteq 1..Samples
  BY <1>1 DEF Between
<1> QED
  BY <1>2, <1>3, FS_Subset, FS_CardinalityType

LEMMA BetweenNext ==
  ASSUME NEW j \in Int, NEW k \in Int, j <= k + 1
  PROVE  /\ k + 1 \notin EntryAges => Between(j, k + 1) = Between(j, k)
         /\ k + 1 \in EntryAges => Between(j, k + 1) = Between(j, k) \cup {k + 1}
         /\ k + 1 \notin Between(j, k)
<1>1. EntryAges \subseteq Int
  BY SimulatorAssumption
<1>2. \A m \in EntryAges : m <= k + 1 <=> m <= k \/ m = k + 1
  BY <1>1
<1>3. \A m : m \in Between(j, k + 1) <=> m \in Between(j, k) \/ (m \in EntryAges /\ m = k + 1)
  <2> SUFFICES ASSUME NEW m, m \in EntryAges
               PROVE  m \in Between(j, k + 1) <=> m \in Between(j, k) \/ m = k + 1
    BY DEF Between
  <2>1. m \in Int /\ (m = k + 1 => j <= m)
    BY <1>1
  <2>2. CASE m = k + 1
    BY <1>2, <2>1, <2>2 DEF Between
  <2>3. CASE m # k + 1
    BY <1>2, <2>1, <2>3 DEF Between
  <2> QED
    BY <2>2, <2>3
<1>4. k + 1 \notin Between(j, k)
  BY DEF Between
<1> DEFINE A == Between(j, k)
           B == Between(j, k + 1)
<1> HIDE DEF A, B
<1>5. \A m : m \in B <=> m \in A \/ (m \in EntryAges /\ m = k + 1)
  BY <1>3 DEF A, B
<1>6. k + 1 \notin EntryAges => B = A
  BY <1>5
<1>7. k + 1 \in EntryAges => B = A \cup {k + 1}
  BY <1>5
<1> QED
  BY <1>4, <1>6, <1>7 DEF A, B

LEMMA BetweenOne ==
  ASSUME NEW k \in EntryAges
  PROVE  Between(k, k) = {k}
<1>1. EntryAges \subseteq Int
  BY SimulatorAssumption
<1>2. \A m \in EntryAges : k <= m /\ m <= k <=> m = k
  BY <1>1
<1>3. k <= k
  BY <1>1
<1> QED
  BY <1>2, <1>3 DEF Between

\* A run of samples up to k, as many as counted, that all want the side counted.
RunUpTo(c, k) ==
  \E j \in EntryAges : /\ j <= k
                       /\ Cardinality(Between(j, k)) = c.n
                       /\ \A m \in Between(j, k) : SideAt(m) = c.side

CountSound(c, k) ==
  c \in Counts /\ (c.n > 0 => c.side # None /\ RunUpTo(c, k))

LEMMA CountGrows ==
  ASSUME current \in Inputs, NEW k \in 0..Samples, k + 1 \in 1..Samples, NEW c, CountSound(c, k)
  PROVE  CountSound(AgreedAfter(c, k + 1), k + 1)
<1> DEFINE d == AgreedAfter(c, k + 1)
<1>0. EntryAges \subseteq 1..Samples /\ Samples \in Nat /\ EntryAges \subseteq Int
  BY SimulatorAssumption
<1>1. c \in Counts /\ c.n \in Nat /\ c.side \in Sides \cup {None}
  BY DEF CountSound, Counts
<1>2. CASE k + 1 \notin EntryAges
  <2>1. d = c
    BY <1>2 DEF AgreedAfter
  <2>2. \A j \in EntryAges : j <= k => Between(j, k + 1) = Between(j, k)
    <3> SUFFICES ASSUME NEW j \in EntryAges, j <= k PROVE Between(j, k + 1) = Between(j, k)
      OBVIOUS
    <3>1. j \in Int /\ k \in Int /\ j <= k + 1
      BY <1>0
    <3> QED
      BY <1>2, <3>1, BetweenNext
  <2>3. RunUpTo(c, k) => RunUpTo(c, k + 1)
    <3> SUFFICES ASSUME RunUpTo(c, k) PROVE RunUpTo(c, k + 1)
      OBVIOUS
    <3>1. PICK j \in EntryAges : /\ j <= k
                                 /\ Cardinality(Between(j, k)) = c.n
                                 /\ \A m \in Between(j, k) : SideAt(m) = c.side
      BY DEF RunUpTo
    <3>2. j <= k + 1
      BY <1>0, <3>1
    <3> QED
      BY <2>2, <3>1, <3>2 DEF RunUpTo
  <2> QED
    BY <2>1, <2>3 DEF CountSound
<1>3. CASE k + 1 \in EntryAges /\ SideAt(k + 1) = None
  <2>1. d = [side |-> None, n |-> 0]
    BY <1>3 DEF AgreedAfter
  <2> QED
    BY <2>1 DEF CountSound, Counts
<1>4. CASE k + 1 \in EntryAges /\ SideAt(k + 1) # None
  <2> DEFINE w == SideAt(k + 1)
  <2>1. w \in Sides \cup {None} /\ w # None
    BY <1>4, FavouredSide DEF SideAt
  <2>2. d = [side |-> w, n |-> IF w = c.side THEN c.n + 1 ELSE 1]
    BY <1>4 DEF AgreedAfter
  <2> HIDE DEF d, w
  <2>3. d \in Counts /\ d.side = w
    BY <1>1, <2>1, <2>2 DEF Counts
  <2>4. CASE w = c.side /\ c.n > 0
    <3>1. PICK j \in EntryAges : /\ j <= k
                                 /\ Cardinality(Between(j, k)) = c.n
                                 /\ \A m \in Between(j, k) : SideAt(m) = c.side
      BY <2>4 DEF CountSound, RunUpTo
    <3>2. Between(j, k + 1) = Between(j, k) \cup {k + 1} /\ k + 1 \notin Between(j, k) /\ j <= k + 1
      <4>1. j \in Int /\ k \in Int /\ j <= k + 1
        BY <1>0, <3>1
      <4> QED
        BY <1>4, <4>1, BetweenNext
    <3>3. Cardinality(Between(j, k + 1)) = c.n + 1
      BY <3>1, <3>2, BetweenFinite, FS_AddElement
    <3>4. \A m \in Between(j, k + 1) : SideAt(m) = w
      BY <2>4, <3>1, <3>2 DEF w
    <3>5. RunUpTo(d, k + 1)
      BY <2>2, <2>3, <2>4, <3>2, <3>3, <3>4 DEF RunUpTo
    <3> QED
      BY <2>1, <2>3, <3>5 DEF CountSound, d
  <2>5. CASE ~(w = c.side /\ c.n > 0)
    <3>1. d.n = 1
      BY <1>1, <2>2, <2>5
    <3>2. Between(k + 1, k + 1) = {k + 1}
      BY <1>4, BetweenOne
    <3>3. Cardinality(Between(k + 1, k + 1)) = 1
      BY <3>2, FS_Singleton
    <3>4. \A m \in Between(k + 1, k + 1) : SideAt(m) = w
      BY <3>2 DEF w
    <3>5. RunUpTo(d, k + 1)
      BY <1>0, <1>4, <2>3, <3>1, <3>3, <3>4 DEF RunUpTo
    <3> QED
      BY <2>1, <2>3, <3>5 DEF CountSound, d
  <2> QED
    BY <2>4, <2>5 DEF d
<1> QED
  BY <1>2, <1>3, <1>4

LEMMA AgreedSound ==
  ASSUME current \in Inputs
  PROVE  \A k \in 0..Samples : CountSound(Agreed[k], k)
<1> DEFINE S == {k \in 0..Samples : CountSound(Agreed[k], k)}
<1>1. Samples \in Nat
  BY SimulatorAssumption
<1>2. 0 \in S
  BY <1>1, AgreedDefined DEF CountSound, Counts, NoCount
<1>3. ASSUME NEW k \in 0..Samples, k + 1 \in 0..Samples, k \in S PROVE k + 1 \in S
  <2>1. k + 1 \in 1..Samples /\ (k + 1) - 1 = k
    BY <1>1, <1>3
  <2>2. Agreed[k+1] = AgreedAfter(Agreed[k], k + 1)
    BY <2>1, AgreedDefined
  <2>3. CountSound(AgreedAfter(Agreed[k], k + 1), k + 1)
    BY <1>3, <2>1, CountGrows
  <2> QED
    BY <1>3, <2>2, <2>3
<1>4. 0..Samples \subseteq S
  <2> HIDE DEF S
  <2> QED
    BY <1>1, <1>2, <1>3, BoundedSetInduction
<1> QED
  BY <1>4

\* Some number of a set is the least.
LEMMA LeastOfNaturals ==
  ASSUME NEW S \in SUBSET Nat, S # {}
  PROVE  \E x \in S : \A y \in S : x <= y
<1> SUFFICES ASSUME \A x \in S : ~ \A y \in S : x <= y PROVE FALSE
  OBVIOUS
<1> DEFINE T == {n \in Nat : \A y \in S : n < y}
<1>1. 0 \in T
  <2> SUFFICES ASSUME NEW y \in S PROVE 0 < y
    OBVIOUS
  <2>1. y # 0
    <3>1. \A z \in S : 0 <= z
      OBVIOUS
    <3> QED
      BY <3>1
  <2> QED
    BY <2>1
<1>2. ASSUME NEW n \in Nat, n \in T PROVE n + 1 \in T
  <2> SUFFICES ASSUME NEW y \in S PROVE n + 1 < y
    OBVIOUS
  <2>1. \A z \in S : n + 1 <= z
    BY <1>2
  <2>2. y # n + 1
    BY <2>1
  <2> QED
    BY <2>1, <2>2
<1>3. Nat \subseteq T
  <2> HIDE DEF T
  <2> QED
    BY <1>1, <1>2, NatSetInduction
<1>4. PICK x \in S : TRUE
  OBVIOUS
<1>5. x < x
  BY <1>3, <1>4
<1> QED
  BY <1>4, <1>5

\* The trade rests on a run of samples that all want its side.
Confirmed(t) ==
  \E j \in EntryAges : /\ Cardinality(Between(j, t.at)) >= Confirms
                       /\ \A k \in Between(j, t.at) : SideAt(k) = t.side

\* A decision is for a sample with a price in the band.
LEMMA DecisionSound ==
  ASSUME current \in Inputs, NEW s, DecidedAt(s) # 0
  PROVE  /\ DecidedAt(s) \in 1..Samples
         /\ PastPrice(current.quotes, current.walk[DecidedAt(s)], DecidedAt(s)) \in PriceBand
         /\ s \in Confirming =>
              \E j \in EntryAges :
                /\ Cardinality(Between(j, DecidedAt(s))) >= Confirms
                /\ \A k \in Between(j, DecidedAt(s)) : SideAt(k) = current.walk[DecidedAt(s)]
<1>0. /\ EntryAges \subseteq 1..Samples /\ Samples \in Nat /\ LegacySample \in 1..Samples
      /\ Confirms \in Nat /\ Confirms > 0
  BY SimulatorAssumption
<1>1. CASE s \in Confirming
  <2> DEFINE enough == {k \in EntryAges : Agreed[k].n >= Confirms}
             k == DecidedAt(s)
  <2>1. k = IF enough = {} THEN 0 ELSE CHOOSE x \in enough : \A j \in enough : x <= j
    BY <1>1 DEF DecidedAt, ConfirmedAt
  <2>2. enough # {}
    BY <2>1
  <2>3. \E x \in enough : \A j \in enough : x <= j
    <3>1. enough \in SUBSET Nat
      BY <1>0
    <3> HIDE DEF enough
    <3> QED
      BY <2>2, <3>1, LeastOfNaturals
  <2>4. k \in EntryAges /\ Agreed[k].n >= Confirms
    BY <2>1, <2>2, <2>3
  <2> HIDE DEF k, enough
  <2>5. k \in 1..Samples /\ k \in 0..Samples
    BY <1>0, <2>4
  <2>6. CountSound(Agreed[k], k)
    BY <2>5, AgreedSound
  <2>7. Agreed[k].n > 0 /\ Agreed[k].side # None
    BY <1>0, <2>4, <2>6 DEF CountSound, Counts
  <2>8. PICK j \in EntryAges : /\ j <= k
                               /\ Cardinality(Between(j, k)) = Agreed[k].n
                               /\ \A m \in Between(j, k) : SideAt(m) = Agreed[k].side
    BY <2>6, <2>7 DEF CountSound, RunUpTo
  <2>9. k \in Between(j, k)
    BY <1>0, <2>4, <2>8 DEF Between
  <2>10. SideAt(k) = Agreed[k].side /\ SideAt(k) # None
    BY <2>7, <2>8, <2>9
  <2>11. SideAt(k) = current.walk[k] /\ PastPrice(current.quotes, current.walk[k], k) \in PriceBand
    BY <2>5, <2>10, FavouredSide DEF SideAt
  <2> QED
    BY <2>4, <2>5, <2>8, <2>10, <2>11 DEF k
<1>2. CASE s \notin Confirming
  <2>1. DecidedAt(s) = LegacySample /\ LegacySide(LegacySample) # None
    BY <1>2 DEF DecidedAt, LegacyAt
  <2> QED
    BY <1>0, <1>2, <2>1, FavouredSide DEF LegacySide
<1> QED
  BY <1>1, <1>2

-------------------------------------------------------------------------------
(* The simulator: types                                                     *)

SimTypeOK ==
  /\ index \in 0..RunWindows /\ next \in 1..(Len(Runners) + 1) /\ history \in Nat
  /\ index < RunWindows => current \in Inputs
  /\ cooldownUntil \in [RunnerNames -> Nat] /\ consecutiveLosses \in [RunnerNames -> Nat]
  /\ simTrades \in Seq(SimTrade)
  /\ equity \in Int /\ peak \in Int /\ simDrawdown \in Int
  /\ equityCurve \in Seq(Int)

LEMMA SettledType ==
  ASSUME SimTypeOK, index < RunWindows, NEW s \in RunnerNames, NEW slip \in Slips, DecidedAt(s) # 0
  PROVE  SettledAt(s, DecidedAt(s), slip) \in SimTrade
<1> DEFINE k == DecidedAt(s)
           side == current.walk[k]
           price == PastPrice(current.quotes, side, k)
           fill == price + slip
           shares == Stake \div fill
           fees == Fee(shares, fill)
           pnl == IF side = current.outcome THEN shares * (Tick - fill) - fees ELSE 0 - Stake - fees
<1>1. current \in Inputs /\ index \in Nat
  BY SimulatorAssumption DEF SimTypeOK
<1>2. k \in 1..Samples /\ price \in PriceBand
  BY <1>1, DecisionSound
<1>3. side \in Sides \cup {None}
  BY <1>1, <1>2, FavouredSide
<1>4. PriceBand \subseteq 1..(Tick-1) /\ Stake \in Nat /\ Slips \subseteq Nat
  BY SimulatorAssumption
<1>5. Tick \in Nat /\ Tick > 1 /\ FeeRate \in Nat
  BY LedgerAssumption
<1>6. fill \in Nat /\ fill > 0
  <2> HIDE DEF price
  <2> QED
    BY <1>2, <1>4, <1>5
<1> HIDE DEF k, side, price, fill
<1>7. shares \in Nat
  BY <1>4, <1>6, DivisionRoundsDown
<1> HIDE DEF shares
<1>8. fees \in Int
  <2>1. shares * FeeRate \in Int
    BY <1>5, <1>7
  <2>2. shares * FeeRate * fill \in Int
    BY <1>6, <2>1
  <2>3. Tick - fill \in Int
    BY <1>5, <1>6
  <2>4. shares * FeeRate * fill * (Tick - fill) \in Int
    BY <2>2, <2>3
  <2>5. 100 * Tick \in Nat /\ 100 * Tick > 0
    BY <1>5
  <2> DEFINE a == shares * FeeRate * fill * (Tick - fill)
             b == 100 * Tick
  <2>6. fees = a \div b
    BY DEF Fee
  <2> HIDE DEF a, b
  <2>7. a \in Int /\ b \in Nat /\ b > 0
    BY <2>4, <2>5 DEF a, b
  <2> QED
    BY <2>6, <2>7
<1> HIDE DEF fees
<1>9. pnl \in Int
  <2>1. Tick - fill \in Int
    BY <1>5, <1>6
  <2>2. shares * (Tick - fill) \in Int
    BY <1>7, <2>1
  <2> QED
    BY <1>4, <1>8, <2>2
<1>10. SettledAt(s, k, slip) =
       [window |-> index, strategy |-> s, side |-> side, at |-> k, pnl |-> pnl, won |-> pnl > 0]
  BY DEF SettledAt, side, price, fill, shares, fees
<1> HIDE DEF pnl
<1>11. (pnl > 0) \in BOOLEAN
  OBVIOUS
<1>12. SettledAt(s, k, slip) \in SimTrade
  BY <1>1, <1>2, <1>3, <1>9, <1>10, <1>11 DEF SimTrade
<1> QED
  BY <1>12 DEF k

LEMMA SimTypeInit == SimulatorInit => SimTypeOK
<1> SUFFICES ASSUME SimulatorInit PROVE SimTypeOK
  OBVIOUS
<1>1. RunWindows \in Nat /\ Len(Runners) \in Nat
  BY SimulatorAssumption
<1>2. Start \in Int
  BY LedgerAssumption
<1>3. index < RunWindows => current \in Inputs
  BY <1>1 DEF SimulatorInit
<1> QED
  BY <1>1, <1>2, <1>3 DEF SimulatorInit, SimTypeOK

\* What a trade changes.
LEMMA TradeFacts ==
  ASSUME SimTypeOK, NEW s \in RunnerNames, NEW slip \in Slips, TradeBy(s, slip)
  PROVE  \E t \in SimTrade :
           /\ t = SettledAt(s, DecidedAt(s), slip)
           /\ t.window = index /\ t.strategy = s /\ t.at = DecidedAt(s)
           /\ t.side = current.walk[DecidedAt(s)] /\ DecidedAt(s) # 0
           /\ simTrades' = Append(simTrades, t)
           /\ equity' = equity + t.pnl
           /\ peak' = Higher(peak, equity + t.pnl)
           /\ simDrawdown' = Higher(simDrawdown, Higher(peak, equity + t.pnl) - (equity + t.pnl))
           /\ consecutiveLosses' =
                [consecutiveLosses EXCEPT ![s] = IF t.won THEN 0 ELSE consecutiveLosses[s] + 1]
           /\ cooldownUntil' = [cooldownUntil EXCEPT ![s] = index + 2]
           /\ next' = next + 1 /\ next <= Len(Runners)
           /\ index < RunWindows /\ index \in Nat
           /\ cooldownUntil[s] <= index /\ consecutiveLosses[s] < LossLimit
           /\ index' = index /\ current' = current /\ history' = history
           /\ equityCurve' = equityCurve /\ report' = report
<1> DEFINE t == SettledAt(s, DecidedAt(s), slip)
<1>1. index < RunWindows /\ next <= Len(Runners) /\ DecidedAt(s) # 0
  BY DEF TradeBy, Running
<1>2. t \in SimTrade
  BY <1>1, SettledType
<1>3. t.window = index /\ t.strategy = s /\ t.at = DecidedAt(s) /\ t.side = current.walk[DecidedAt(s)]
  BY DEF SettledAt
<1>4. /\ simTrades' = Append(simTrades, t)
      /\ equity' = equity + t.pnl
      /\ next' = next + 1
      /\ cooldownUntil' = [cooldownUntil EXCEPT ![s] = index + 2]
      /\ index' = index /\ current' = current /\ history' = history
      /\ equityCurve' = equityCurve /\ report' = report
  BY DEF TradeBy
<1>5. peak' = Higher(peak, equity + t.pnl)
  BY DEF TradeBy
<1>6. simDrawdown' = Higher(simDrawdown, Higher(peak, equity + t.pnl) - (equity + t.pnl))
  BY DEF TradeBy, FallAfter
<1>7. consecutiveLosses' =
        [consecutiveLosses EXCEPT ![s] = IF t.won THEN 0 ELSE consecutiveLosses[s] + 1]
  BY DEF TradeBy
<1>8. cooldownUntil[s] <= index /\ consecutiveLosses[s] < LossLimit
  BY DEF TradeBy, MayTrade
<1>9. index \in Nat
  BY DEF SimTypeOK
<1> HIDE DEF t
<1> QED
  BY <1>1, <1>2, <1>3, <1>4, <1>5, <1>6, <1>7, <1>8, <1>9 DEF t

LEMMA SimTypeNext == SimTypeOK /\ [SimulatorNext]_simulatorVars => SimTypeOK'
<1> SUFFICES ASSUME SimTypeOK, [SimulatorNext]_simulatorVars PROVE SimTypeOK'
  OBVIOUS
<1>0. /\ RunWindows \in Nat /\ Len(Runners) \in Nat /\ HistoryKept \in Nat /\ Samples \in Nat
      /\ Runners \in Seq(STRING)
  BY SimulatorAssumption
<1>1. ASSUME NEW s \in RunnerNames, NoTradeBy(s) PROVE SimTypeOK'
  <2>1. next' \in 1..(Len(Runners) + 1)
    BY <1>0, <1>1 DEF NoTradeBy, Running, SimTypeOK
  <2> QED
    BY <1>1, <2>1 DEF NoTradeBy, SimTypeOK
<1>2. ASSUME NEW s \in RunnerNames, NEW slip \in Slips, TradeBy(s, slip) PROVE SimTypeOK'
  <2>1. PICK t \in SimTrade :
           /\ simTrades' = Append(simTrades, t)
           /\ equity' = equity + t.pnl
           /\ peak' = Higher(peak, equity + t.pnl)
           /\ simDrawdown' = Higher(simDrawdown, Higher(peak, equity + t.pnl) - (equity + t.pnl))
           /\ consecutiveLosses' =
                [consecutiveLosses EXCEPT ![s] = IF t.won THEN 0 ELSE consecutiveLosses[s] + 1]
           /\ cooldownUntil' = [cooldownUntil EXCEPT ![s] = index + 2]
           /\ next' = next + 1 /\ next <= Len(Runners)
           /\ index < RunWindows /\ index \in Nat
           /\ index' = index /\ current' = current /\ history' = history
           /\ equityCurve' = equityCurve
    BY <1>2, TradeFacts
  <2>2. t.pnl \in Int
    BY DEF SimTrade
  <2>3. equity' \in Int /\ peak' \in Int
    BY <2>1, <2>2 DEF SimTypeOK, Higher
  <2>4. simDrawdown' \in Int
    BY <2>1, <2>2 DEF SimTypeOK, Higher
  <2>5. simTrades' \in Seq(SimTrade)
    BY <2>1 DEF SimTypeOK
  <2>6. cooldownUntil' \in [RunnerNames -> Nat] /\ consecutiveLosses' \in [RunnerNames -> Nat]
    BY <2>1, SMTT(30) DEF SimTypeOK
  <2>7. next' \in 1..(Len(Runners) + 1)
    BY <1>0, <2>1 DEF SimTypeOK
  <2>8. /\ index' \in 0..RunWindows /\ history' \in Nat /\ equityCurve' \in Seq(Int)
        /\ index' < RunWindows => current' \in Inputs
    BY <2>1 DEF SimTypeOK
  <2> QED
    BY <2>3, <2>4, <2>5, <2>6, <2>7, <2>8 DEF SimTypeOK
<1>3. ASSUME NEW input \in Inputs, NextWindow(input) PROVE SimTypeOK'
  <2>1. index' \in 0..RunWindows /\ next' \in 1..(Len(Runners) + 1)
    BY <1>0, <1>3 DEF NextWindow, SimTypeOK
  <2>2. history' \in Nat
    BY <1>0, <1>3 DEF NextWindow, SimTypeOK
  <2>3. equityCurve' \in Seq(Int)
    BY <1>3 DEF NextWindow, SimTypeOK
  <2>4. index' < RunWindows => current' \in Inputs
    BY <1>3 DEF NextWindow
  <2> QED
    BY <1>3, <2>1, <2>2, <2>3, <2>4 DEF NextWindow, SimTypeOK
<1>4. CASE EndOfRun
  BY <1>4 DEF EndOfRun, SimTypeOK
<1>5. CASE UNCHANGED simulatorVars
  BY <1>5 DEF simulatorVars, SimTypeOK
<1> QED
  BY <1>1, <1>2, <1>3, <1>4, <1>5 DEF SimulatorNext

-------------------------------------------------------------------------------
(* The simulator: strategies that sit out and stop                          *)

\* The trades of a strategy among the i-th to the j-th of ts.
By(ts, s, i, j) == {k \in i..j : ts[k].strategy = s}

\* Nobody is free before the second window after its trade.
Rested(ts, x, c) ==
  \A i \in 1..Len(ts) : ts[i].window <= x /\ ts[i].window + 2 <= c[ts[i].strategy]

SatOut(ts) ==
  \A j \in 1..Len(ts) : \A i \in 1..(j-1) :
    ts[i].strategy = ts[j].strategy => ts[j].window >= ts[i].window + 2

\* The losses counted are at least those in a row at the end.
LossesCounted(ts, l) ==
  \A s \in RunnerNames : \A i \in 1..(Len(ts) + 1) :
    (\A k \in By(ts, s, i, Len(ts)) : ~ts[k].won) => Cardinality(By(ts, s, i, Len(ts))) <= l[s]

StoppedAtLimit(ts) ==
  \A j \in 1..Len(ts) : \A i \in 1..(j-1) :
    Cardinality(By(ts, ts[j].strategy, i, j-1)) >= LossLimit =>
      \E k \in By(ts, ts[j].strategy, i, j-1) : ts[k].won

LEMMA ByFinite ==
  ASSUME NEW ts, NEW s, NEW i \in Int, NEW j \in Int
  PROVE  IsFiniteSet(By(ts, s, i, j)) /\ Cardinality(By(ts, s, i, j)) \in Nat
<1>1. IsFiniteSet(i..j)
  BY FS_Interval
<1>2. By(ts, s, i, j) \subseteq i..j
  BY DEF By
<1> QED
  BY <1>1, <1>2, FS_Subset, FS_CardinalityType

Longer(z, ts, t) == z = Append(ts, t)

LEMMA AppendedTrade ==
  ASSUME NEW ts \in Seq(SimTrade), NEW t \in SimTrade, NEW z, Longer(z, ts, t)
  PROVE  /\ Len(ts) \in Nat /\ Len(z) = Len(ts) + 1 /\ z[Len(ts)+1] = t
         /\ \A i \in 1..Len(ts) : z[i] = ts[i]
         /\ z \in Seq(SimTrade)
BY DEF Longer

LEMMA TradeTyped ==
  ASSUME NEW ts \in Seq(SimTrade), NEW i \in 1..Len(ts)
  PROVE  /\ ts[i] \in SimTrade /\ ts[i].window \in Nat /\ ts[i].strategy \in RunnerNames
         /\ ts[i].won \in BOOLEAN /\ ts[i].pnl \in Int
<1>1. ts[i] \in SimTrade
  OBVIOUS
<1> QED
  BY <1>1 DEF SimTrade

LEMMA RestedGrows ==
  ASSUME NEW ts \in Seq(SimTrade), NEW t \in SimTrade, NEW z, Longer(z, ts, t),
         NEW x \in Nat, NEW c \in [RunnerNames -> Nat], Rested(ts, x, c), SatOut(ts),
         t.window = x, c[t.strategy] <= x
  PROVE  Rested(z, x, [c EXCEPT ![t.strategy] = x + 2]) /\ SatOut(z)
<1> DEFINE n == Len(ts)
           d == [c EXCEPT ![t.strategy] = x + 2]
<1>1. n \in Nat /\ Len(z) = n + 1 /\ z[n+1] = t /\ \A i \in 1..n : z[i] = ts[i]
  BY AppendedTrade
<1>2. t.strategy \in RunnerNames
  BY DEF SimTrade
<1>3. ASSUME NEW i \in 1..n
      PROVE  /\ ts[i].window \in Nat /\ ts[i].strategy \in RunnerNames
             /\ ts[i].window <= x /\ ts[i].window + 2 <= c[ts[i].strategy]
  BY TradeTyped DEF Rested
<1>4. d[t.strategy] = x + 2 /\ \A q \in RunnerNames : q # t.strategy => d[q] = c[q]
  BY <1>2
<1> HIDE DEF d
<1>5. ASSUME NEW i \in 1..(n+1) PROVE z[i].window <= x /\ z[i].window + 2 <= d[z[i].strategy]
  <2>1. CASE i = n + 1
    BY <1>1, <1>4, <2>1
  <2>2. CASE i # n + 1
    <3>1. i \in 1..n /\ z[i] = ts[i]
      BY <1>1, <2>2
    <3>2. CASE ts[i].strategy = t.strategy
      <4>1. ts[i].window + 2 <= x + 2
        BY <1>3, <3>1
      <4> QED
        BY <1>3, <1>4, <3>1, <3>2, <4>1
    <3>3. CASE ts[i].strategy # t.strategy
      BY <1>3, <1>4, <3>1, <3>3
    <3> QED
      BY <3>2, <3>3
  <2> QED
    BY <2>1, <2>2
<1>6. ASSUME NEW j \in 1..(n+1), NEW i \in 1..(j-1), z[i].strategy = z[j].strategy
      PROVE  z[j].window >= z[i].window + 2
  <2>1. i \in 1..n /\ z[i] = ts[i]
    BY <1>1
  <2>2. CASE j = n + 1
    <3>1. ts[i].strategy = t.strategy
      BY <1>1, <1>6, <2>1, <2>2
    <3>2. ts[i].window + 2 <= c[t.strategy] /\ ts[i].window \in Nat /\ c[t.strategy] \in Nat
      BY <1>2, <1>3, <2>1, <3>1
    <3>3. ts[i].window + 2 <= x
      BY <3>2, SMTT(30)
    <3> QED
      BY <1>1, <2>1, <2>2, <3>2, <3>3
  <2>3. CASE j # n + 1
    <3>1. j \in 1..n /\ z[j] = ts[j]
      BY <1>1, <2>3
    <3> QED
      BY <1>6, <2>1, <3>1 DEF SatOut
  <2> QED
    BY <2>2, <2>3
<1> QED
  BY <1>1, <1>5, <1>6 DEF Rested, SatOut, d

\* Whose trades they were before, they are after one more.
LEMMA ByStays ==
  ASSUME NEW ts \in Seq(SimTrade), NEW t \in SimTrade, NEW z, Longer(z, ts, t), NEW s,
         NEW i \in 1..(Len(ts) + 1), NEW j \in 1..Len(ts)
  PROVE  By(z, s, i, j) = By(ts, s, i, j)
<1>1. Len(ts) \in Nat /\ \A k \in 1..Len(ts) : z[k] = ts[k]
  BY AppendedTrade
<1>2. \A k \in i..j : z[k] = ts[k]
  BY <1>1
<1> QED
  BY <1>2 DEF By

LEMMA ByGrows ==
  ASSUME NEW ts \in Seq(SimTrade), NEW t \in SimTrade, NEW z, Longer(z, ts, t), NEW s,
         NEW i \in 1..(Len(ts) + 1)
  PROVE  /\ By(z, s, i, Len(ts) + 1) =
              By(ts, s, i, Len(ts)) \cup (IF t.strategy = s THEN {Len(ts) + 1} ELSE {})
         /\ Len(ts) + 1 \notin By(ts, s, i, Len(ts))
         /\ \A k \in By(ts, s, i, Len(ts)) : z[k] = ts[k]
<1> DEFINE n == Len(ts)
<1>1. n \in Nat /\ z[n+1] = t /\ \A k \in 1..n : z[k] = ts[k]
  BY AppendedTrade
<1>3. \A k \in By(ts, s, i, n) : k \in 1..n /\ z[k] = ts[k]
  BY <1>1 DEF By
<1>4. n + 1 \notin By(ts, s, i, n)
  BY <1>1, <1>3
<1>5. \A k : k \in By(z, s, i, n + 1) <=>
        k \in By(ts, s, i, n) \/ (t.strategy = s /\ k = n + 1)
  <2> SUFFICES ASSUME NEW k
               PROVE  k \in By(z, s, i, n + 1) <=>
                        k \in By(ts, s, i, n) \/ (t.strategy = s /\ k = n + 1)
    OBVIOUS
  <2>1. CASE k = n + 1
    <3>1. k \in i..(n+1)
      BY <1>1, <2>1
    <3> QED
      BY <1>1, <1>4, <2>1, <3>1 DEF By
  <2>2. CASE k # n + 1
    <3>1. k \in i..(n+1) <=> k \in i..n
      BY <1>1, <2>2
    <3>2. k \in i..n => z[k] = ts[k]
      BY <1>1
    <3> QED
      BY <2>2, <3>1, <3>2 DEF By
  <2> QED
    BY <2>1, <2>2
<1>6. By(z, s, i, n + 1) = By(ts, s, i, n) \cup (IF t.strategy = s THEN {n + 1} ELSE {})
  <2> DEFINE A == By(ts, s, i, n)
             B == By(z, s, i, n + 1)
  <2>1. \A k : k \in B <=> k \in A \/ (t.strategy = s /\ k = n + 1)
    BY <1>5
  <2> HIDE DEF A, B
  <2>2. B = A \cup (IF t.strategy = s THEN {n + 1} ELSE {})
    BY <2>1
  <2> QED
    BY <2>2 DEF A, B
<1> QED
  BY <1>3, <1>4, <1>6

LEMMA LossesGrow ==
  ASSUME NEW ts \in Seq(SimTrade), NEW t \in SimTrade, NEW z, Longer(z, ts, t),
         NEW l \in [RunnerNames -> Nat], LossesCounted(ts, l), StoppedAtLimit(ts),
         l[t.strategy] < LossLimit
  PROVE  /\ LossesCounted(z, [l EXCEPT ![t.strategy] = IF t.won THEN 0 ELSE l[t.strategy] + 1])
         /\ StoppedAtLimit(z)
<1> DEFINE n == Len(ts)
           m == [l EXCEPT ![t.strategy] = IF t.won THEN 0 ELSE l[t.strategy] + 1]
<1>1. n \in Nat /\ Len(z) = n + 1 /\ z[n+1] = t /\ \A i \in 1..n : z[i] = ts[i]
  BY AppendedTrade
<1>2. t.strategy \in RunnerNames /\ LossLimit \in Nat
  BY SimulatorAssumption DEF SimTrade
<1>3. /\ m[t.strategy] = (IF t.won THEN 0 ELSE l[t.strategy] + 1)
      /\ \A q \in RunnerNames : q # t.strategy => m[q] = l[q]
      /\ \A q \in RunnerNames : m[q] \in Nat
  BY <1>2
<1> HIDE DEF m
<1>4. ASSUME NEW s \in RunnerNames, NEW i \in 1..(n + 2),
             \A k \in By(z, s, i, n + 1) : ~z[k].won
      PROVE  Cardinality(By(z, s, i, n + 1)) <= m[s]
  <2>1. CASE i = n + 2
    <3>1. By(z, s, i, n + 1) = {}
      BY <1>1, <2>1 DEF By
    <3>2. Cardinality({}) = 0
      BY FS_EmptySet
    <3>3. Cardinality(By(z, s, i, n + 1)) = 0
      BY <3>1, <3>2
    <3> QED
      BY <1>3, <3>3
  <2>2. CASE i # n + 2
    <3> DEFINE A == By(ts, s, i, n)
               B == By(z, s, i, n + 1)
    <3>1. i \in 1..(n + 1)
      BY <1>1, <2>2
    <3>2. /\ B = A \cup (IF t.strategy = s THEN {n + 1} ELSE {})
          /\ n + 1 \notin A /\ \A k \in A : z[k] = ts[k]
      BY <3>1, ByGrows
    <3>3. IsFiniteSet(A) /\ Cardinality(A) \in Nat
      BY <1>1, <3>1, ByFinite
    <3>4. (\A k \in A : ~ts[k].won) => Cardinality(A) <= l[s]
      BY <3>1 DEF LossesCounted
    <3>5. \A k \in B : ~z[k].won
      BY <1>4
    <3> HIDE DEF A, B
    <3>6. Cardinality(A) <= l[s]
      BY <3>2, <3>4, <3>5
    <3>7. CASE t.strategy = s
      <4>1. Cardinality(B) = Cardinality(A) + 1
        BY <3>2, <3>3, <3>7, FS_AddElement
      <4>2. ~t.won
        BY <1>1, <3>2, <3>5, <3>7
      <4>3. m[s] = l[s] + 1
        BY <1>3, <3>7, <4>2
      <4>4. Cardinality(B) <= m[s]
        BY <3>3, <3>6, <4>1, <4>3
      <4> QED
        BY <4>4 DEF B
    <3>8. CASE t.strategy # s
      <4>1. B = A /\ m[s] = l[s]
        BY <1>3, <3>2, <3>8
      <4> QED
        BY <3>6, <4>1 DEF B
    <3> QED
      BY <3>7, <3>8
  <2> QED
    BY <2>1, <2>2
<1>5. ASSUME NEW j \in 1..(n + 1), NEW i \in 1..(j-1),
             Cardinality(By(z, z[j].strategy, i, j-1)) >= LossLimit
      PROVE  \E k \in By(z, z[j].strategy, i, j-1) : z[k].won
  <2>1. i \in 1..(n + 1) /\ j - 1 \in 1..n
    BY <1>1
  <2> DEFINE s == z[j].strategy
             A == By(ts, s, i, j-1)
  <2>2. By(z, s, i, j-1) = A
    <3> DEFINE end == j - 1
    <3> HIDE DEF s, end
    <3>1. i \in 1..(Len(ts) + 1) /\ end \in 1..Len(ts)
      BY <2>1 DEF end
    <3>2. By(z, s, i, end) = By(ts, s, i, end)
      BY <3>1, ByStays
    <3> QED
      BY <3>2 DEF end
  <2>3. \A k \in A : z[k] = ts[k]
    BY <1>1, <2>1 DEF By
  <2>4. \E k \in A : ts[k].won
    <3>1. CASE j = n + 1
      <4>1. s = t.strategy /\ j - 1 = n
        BY <1>1, <3>1
      <4>2. Cardinality(A) >= LossLimit
        BY <1>5, <2>2
      <4>3. (\A k \in A : ~ts[k].won) => Cardinality(A) <= l[s]
        BY <1>2, <2>1, <4>1 DEF LossesCounted
      <4>4. Cardinality(A) \in Nat /\ l[s] \in Nat
        BY <1>2, <2>1, <4>1, ByFinite
      <4> HIDE DEF A, s
      <4>5. l[s] < LossLimit
        BY <4>1
      <4>6. ~(Cardinality(A) <= l[s])
        BY <1>2, <4>2, <4>4, <4>5
      <4> QED
        BY <4>3, <4>6
    <3>2. CASE j # n + 1
      <4>1. j \in 1..n /\ s = ts[j].strategy
        BY <1>1, <3>2
      <4>2. Cardinality(A) >= LossLimit
        BY <1>5, <2>2
      <4> QED
        BY <4>1, <4>2 DEF StoppedAtLimit
    <3> QED
      BY <3>1, <3>2
  <2> QED
    BY <2>2, <2>3, <2>4
<1>6. n + 2 = Len(z) + 1 /\ Len(z) = n + 1
  BY <1>1
<1>7. LossesCounted(z, m)
  BY <1>4, <1>6 DEF LossesCounted
<1>8. StoppedAtLimit(z)
  BY <1>5, <1>6 DEF StoppedAtLimit
<1> QED
  BY <1>7, <1>8 DEF m

\* What the trades of the window being simulated rest on.
BackedNow == \A i \in 1..Len(simTrades) :
  simTrades[i].strategy \in Confirming /\ simTrades[i].window = index => Confirmed(simTrades[i])

StopInv ==
  /\ Rested(simTrades, index, cooldownUntil) /\ SatOut(simTrades)
  /\ LossesCounted(simTrades, consecutiveLosses) /\ StoppedAtLimit(simTrades)
  /\ BackedNow

LEMMA StopInit == SimulatorInit => StopInv
<1> SUFFICES ASSUME SimulatorInit PROVE StopInv
  OBVIOUS
<1>1. simTrades = <<>> /\ Len(simTrades) = 0
  BY DEF SimulatorInit
<1>2. LossesCounted(simTrades, consecutiveLosses)
  <2> SUFFICES ASSUME NEW s \in RunnerNames, NEW i \in 1..(Len(simTrades) + 1)
               PROVE  Cardinality(By(simTrades, s, i, Len(simTrades))) <= consecutiveLosses[s]
    BY DEF LossesCounted
  <2>1. i = 1
    BY <1>1
  <2>2. By(simTrades, s, i, Len(simTrades)) = {}
    BY <1>1, <2>1 DEF By
  <2>3. Cardinality({}) = 0
    BY FS_EmptySet
  <2>4. consecutiveLosses[s] = 0
    BY DEF SimulatorInit
  <2>5. Cardinality(By(simTrades, s, i, Len(simTrades))) = 0
    BY <2>2, <2>3
  <2> QED
    BY <2>4, <2>5
<1> QED
  BY <1>1, <1>2 DEF StopInv, Rested, SatOut, StoppedAtLimit, BackedNow

\* Nothing about the trades, losses and rests changes, and the window stays.
LEMMA StopSame ==
  ASSUME StopInv,
         /\ simTrades' = simTrades /\ index' = index /\ current' = current /\ history' = history
         /\ cooldownUntil' = cooldownUntil /\ consecutiveLosses' = consecutiveLosses
  PROVE  StopInv'
<1>1. \A t : Confirmed(t)' <=> Confirmed(t)
  BY DEF Confirmed, SideAt, Favoured
<1>2. BackedNow'
  BY <1>1 DEF BackedNow, StopInv
<1> QED
  BY <1>2 DEF StopInv

LEMMA StopTrade ==
  ASSUME SimTypeOK, StopInv, NEW s \in RunnerNames, NEW slip \in Slips, TradeBy(s, slip)
  PROVE  StopInv'
<1>1. PICK t \in SimTrade :
           /\ t = SettledAt(s, DecidedAt(s), slip)
           /\ t.window = index /\ t.strategy = s /\ t.at = DecidedAt(s)
           /\ t.side = current.walk[DecidedAt(s)] /\ DecidedAt(s) # 0
           /\ simTrades' = Append(simTrades, t)
           /\ consecutiveLosses' =
                [consecutiveLosses EXCEPT ![s] = IF t.won THEN 0 ELSE consecutiveLosses[s] + 1]
           /\ cooldownUntil' = [cooldownUntil EXCEPT ![s] = index + 2]
           /\ index < RunWindows /\ index \in Nat
           /\ cooldownUntil[s] <= index /\ consecutiveLosses[s] < LossLimit
           /\ index' = index /\ current' = current /\ history' = history
  BY TradeFacts
<1>2. /\ simTrades \in Seq(SimTrade) /\ cooldownUntil \in [RunnerNames -> Nat]
      /\ consecutiveLosses \in [RunnerNames -> Nat]
  BY DEF SimTypeOK
<1>3. Longer(simTrades', simTrades, t)
  BY <1>1 DEF Longer
<1>4. Rested(simTrades', index', cooldownUntil') /\ SatOut(simTrades')
  <2>1. Rested(simTrades, index, cooldownUntil) /\ SatOut(simTrades)
    BY DEF StopInv
  <2> DEFINE d == [cooldownUntil EXCEPT ![t.strategy] = index + 2]
  <2>2. cooldownUntil' = d /\ cooldownUntil[t.strategy] <= index /\ t.window = index /\ index \in Nat
    BY <1>1
  <2>3. Rested(simTrades', index, d) /\ SatOut(simTrades')
    BY <1>2, <1>3, <2>1, <2>2, RestedGrows
  <2> HIDE DEF d
  <2> QED
    BY <1>1, <2>2, <2>3
<1>5. LossesCounted(simTrades', consecutiveLosses') /\ StoppedAtLimit(simTrades')
  <2>1. LossesCounted(simTrades, consecutiveLosses) /\ StoppedAtLimit(simTrades)
    BY DEF StopInv
  <2> DEFINE d == [consecutiveLosses EXCEPT ![t.strategy] =
                     IF t.won THEN 0 ELSE consecutiveLosses[t.strategy] + 1]
  <2>2. consecutiveLosses' = d /\ consecutiveLosses[t.strategy] < LossLimit
    BY <1>1
  <2> HIDE DEF d
  <2>3. LossesCounted(simTrades', d) /\ StoppedAtLimit(simTrades')
    BY <1>2, <1>3, <2>1, <2>2, LossesGrow DEF d
  <2> QED
    BY <2>2, <2>3
<1>6. BackedNow'
  <2>1. \A k : SideAt(k)' = SideAt(k)
    BY <1>1 DEF SideAt, Favoured
  <2>2. t.strategy \in Confirming => Confirmed(t)
    <3>1. current \in Inputs
      BY <1>1 DEF SimTypeOK
    <3>2. s \in Confirming =>
            \E j \in EntryAges :
              /\ Cardinality(Between(j, DecidedAt(s))) >= Confirms
              /\ \A k \in Between(j, DecidedAt(s)) : SideAt(k) = current.walk[DecidedAt(s)]
      BY <1>1, <3>1, DecisionSound
    <3> QED
      BY <1>1, <3>2 DEF Confirmed
  <2> SUFFICES ASSUME NEW i \in 1..Len(simTrades'),
                      simTrades'[i].strategy \in Confirming, simTrades'[i].window = index'
               PROVE  Confirmed(simTrades[i])'
    BY DEF BackedNow
  <2>3. /\ Len(simTrades) \in Nat /\ Len(simTrades') = Len(simTrades) + 1
        /\ simTrades'[Len(simTrades)+1] = t
        /\ \A k \in 1..Len(simTrades) : simTrades'[k] = simTrades[k]
    BY <1>2, <1>3, AppendedTrade
  <2>4. Confirmed(simTrades'[i])
    <3>1. CASE i = Len(simTrades) + 1
      BY <2>2, <2>3, <3>1
    <3>2. CASE i # Len(simTrades) + 1
      <4>1. i \in 1..Len(simTrades) /\ simTrades'[i] = simTrades[i]
        BY <2>3, <3>2
      <4> QED
        BY <1>1, <4>1 DEF StopInv, BackedNow
    <3> QED
      BY <3>1, <3>2
  <2> QED
    BY <2>1, <2>4 DEF Confirmed
<1> QED
  BY <1>4, <1>5, <1>6 DEF StopInv

LEMMA StopNextWindow ==
  ASSUME SimTypeOK, StopInv, NEW input, NextWindow(input)
  PROVE  StopInv'
<1>1. /\ index' = index + 1 /\ simTrades' = simTrades
      /\ cooldownUntil' = cooldownUntil /\ consecutiveLosses' = consecutiveLosses
  BY DEF NextWindow
<1>2. index \in Nat /\ simTrades \in Seq(SimTrade)
  BY SimulatorAssumption DEF SimTypeOK
<1>3. \A i \in 1..Len(simTrades) : simTrades[i].window \in Nat /\ simTrades[i].window <= index
  BY <1>2, TradeTyped DEF StopInv, Rested
<1>4. Rested(simTrades, index + 1, cooldownUntil)
  <2>1. \A i \in 1..Len(simTrades) : simTrades[i].window <= index + 1
    BY <1>2, <1>3
  <2> QED
    BY <2>1 DEF StopInv, Rested
<1>5. BackedNow'
  <2>1. \A i \in 1..Len(simTrades) : simTrades[i].window # index + 1
    BY <1>2, <1>3
  <2> QED
    BY <1>1, <2>1 DEF BackedNow
<1> QED
  BY <1>1, <1>4, <1>5 DEF StopInv

LEMMA StopNext == SimTypeOK /\ StopInv /\ [SimulatorNext]_simulatorVars => StopInv'
<1> SUFFICES ASSUME SimTypeOK, StopInv, [SimulatorNext]_simulatorVars PROVE StopInv'
  OBVIOUS
<1>1. ASSUME NEW s \in RunnerNames, NoTradeBy(s) PROVE StopInv'
  BY <1>1, StopSame DEF NoTradeBy
<1>2. ASSUME NEW s \in RunnerNames, NEW slip \in Slips, TradeBy(s, slip) PROVE StopInv'
  BY <1>2, StopTrade
<1>3. ASSUME NEW input \in Inputs, NextWindow(input) PROVE StopInv'
  BY <1>3, StopNextWindow
<1>4. CASE EndOfRun
  BY <1>4, StopSame DEF EndOfRun
<1>5. CASE UNCHANGED simulatorVars
  BY <1>5, StopSame DEF simulatorVars
<1> QED
  BY <1>1, <1>2, <1>3, <1>4, <1>5 DEF SimulatorNext

LEMMA StopInvStops == SimTypeOK /\ StopInv => StrategiesStop
<1> SUFFICES ASSUME SimTypeOK, StopInv PROVE StrategiesStop
  OBVIOUS
<1>1. \A s, i, j : TradesOf(s, i, j) = By(simTrades, s, i, j)
  BY DEF TradesOf, By
<1>2. ASSUME NEW j \in 1..Len(simTrades), NEW i \in 1..(j-1)
      PROVE  LET s == simTrades[j].strategy
             IN  /\ simTrades[i].strategy = s => simTrades[j].window >= simTrades[i].window + 2
                 /\ Cardinality(TradesOf(s, i, j-1)) >= LossLimit =>
                      \E k \in TradesOf(s, i, j-1) : simTrades[k].won
  BY <1>1 DEF StopInv, SatOut, StoppedAtLimit
<1>3. ASSUME NEW i \in 1..Len(simTrades),
             simTrades[i].strategy \in Confirming, simTrades[i].window = index
      PROVE  \E j \in EntryAges :
               LET samples == {k \in EntryAges : j <= k /\ k <= simTrades[i].at}
               IN  /\ Cardinality(samples) >= Confirms
                   /\ \A k \in samples : SideAt(k) = simTrades[i].side
  BY <1>3 DEF StopInv, BackedNow, Confirmed, Between
<1> QED
  BY <1>2, <1>3 DEF StrategiesStop

\* A strategy sits out the window after each of its trades and makes none after its limit
\* of losses in a row, and a trade that has to be confirmed rests on as many samples in a
\* row that wanted its side, for any strategies, walks, quotes and limits (run,
\* evaluate_window).
THEOREM StrategiesDoStop == SimulatorSpec => []StrategiesStop
<1>1. SimulatorInit => SimTypeOK /\ StopInv
  BY SimTypeInit, StopInit
<1>2. SimTypeOK /\ StopInv /\ [SimulatorNext]_simulatorVars => (SimTypeOK /\ StopInv)'
  BY SimTypeNext, StopNext
<1>3. SimTypeOK /\ StopInv => StrategiesStop
  BY StopInvStops
<1> QED
  BY <1>1, <1>2, <1>3, PTL DEF SimulatorSpec

-------------------------------------------------------------------------------
(* The simulator's report                                                   *)

\* Equity after so many trades of ts.
EquityIn(ts, n) == Start + PartialSums([i \in 1..Len(ts) |-> ts[i].pnl], Len(ts))[n]

LEMMA EquityType ==
  ASSUME NEW ts \in Seq(SimTrade), NEW n \in 0..Len(ts)
  PROVE  EquityIn(ts, n) \in Int
<1> DEFINE g == [i \in 1..Len(ts) |-> ts[i].pnl]
<1>1. Len(ts) \in Nat /\ Start \in Int
  BY LedgerAssumption
<1>2. g \in [1..Len(ts) -> Int]
  BY TradeTyped
<1> HIDE DEF g
<1>3. PartialSums(g, Len(ts))[n] \in Int
  BY <1>1, <1>2, PartialSumsType
<1> QED
  BY <1>1, <1>3 DEF EquityIn, g

LEMMA EquityGrows ==
  ASSUME NEW ts \in Seq(SimTrade), NEW t \in SimTrade, NEW z, Longer(z, ts, t)
  PROVE  /\ \A n \in 0..Len(ts) : EquityIn(z, n) = EquityIn(ts, n)
         /\ EquityIn(z, Len(ts) + 1) = EquityIn(ts, Len(ts)) + t.pnl
<1> DEFINE n == Len(ts)
           g == [i \in 1..n |-> ts[i].pnl]
           h == [i \in 1..(n+1) |-> z[i].pnl]
<1>1. n \in Nat /\ Len(z) = n + 1 /\ z[n+1] = t /\ z \in Seq(SimTrade) /\ \A i \in 1..n : z[i] = ts[i]
  BY AppendedTrade
<1>2. g \in [1..n -> Int]
  BY TradeTyped
<1>3. h \in [1..(n+1) -> Int]
  <2>1. \A i \in 1..(n+1) : z[i].pnl \in Int
    BY <1>1, TradeTyped
  <2> QED
    BY <2>1
<1>4. \A i \in 1..n : g[i] = h[0 + i]
  <2> SUFFICES ASSUME NEW i \in 1..n PROVE g[i] = h[0 + i]
    OBVIOUS
  <2>1. 0 + i = i /\ i \in 1..(n+1)
    BY <1>1
  <2> QED
    BY <1>1, <2>1
<1>5. h[n+1] = t.pnl
  BY <1>1
<1>6. Start \in Int /\ t.pnl \in Int
  BY LedgerAssumption DEF SimTrade
<1>7. \A i \in 0..n : EquityIn(ts, i) = Start + PartialSums(g, n)[i]
  BY DEF EquityIn
<1>8. \A i \in 0..(n+1) : EquityIn(z, i) = Start + PartialSums(h, n+1)[i]
  BY <1>1 DEF EquityIn
<1> HIDE DEF g, h, n
<1>9. n + 1 \in Nat /\ 0 \in Nat /\ 0 + n <= n + 1 /\ 0 \in 0..n /\ n \in 0..n
  BY <1>1
<1>10. PartialSums(h, n+1)[0] = 0
  BY <1>3, <1>9, PartialSumsStep
<1>11. \A i \in 0..n : PartialSums(h, n+1)[0 + i] = PartialSums(h, n+1)[0] + PartialSums(g, n)[i]
  BY <1>1, <1>2, <1>3, <1>4, <1>9, PartialSumsShift, ZenonT(40)
<1>12. \A i \in 0..n : PartialSums(g, n)[i] \in Int
  BY <1>1, <1>2, PartialSumsType
<1>13. \A i \in 0..n : PartialSums(h, n+1)[i] = PartialSums(g, n)[i]
  <2> SUFFICES ASSUME NEW i \in 0..n PROVE PartialSums(h, n+1)[i] = PartialSums(g, n)[i]
    OBVIOUS
  <2>1. 0 + i = i
    BY <1>1
  <2> QED
    BY <1>10, <1>11, <1>12, <2>1
<1>14. PartialSums(h, n+1)[n+1] = PartialSums(h, n+1)[n] + h[n+1]
  <2>1. n \in 0..(n+1) /\ n + 1 \in 0..(n+1)
    BY <1>1
  <2> QED
    BY <1>3, <1>9, <2>1, PartialSumsStep
<1>15. \A i \in 0..n : EquityIn(z, i) = EquityIn(ts, i)
  <2>1. \A i \in 0..n : i \in 0..(n+1)
    BY <1>1
  <2> QED
    BY <1>7, <1>8, <1>13, <2>1
<1>16. EquityIn(z, n+1) = EquityIn(ts, n) + t.pnl
  <2>1. n + 1 \in 0..(n+1)
    BY <1>1
  <2>2. EquityIn(z, n+1) = Start + (PartialSums(g, n)[n] + t.pnl)
    BY <1>5, <1>8, <1>9, <1>13, <1>14, <2>1
  <2>3. EquityIn(ts, n) = Start + PartialSums(g, n)[n]
    BY <1>7, <1>9
  <2>4. PartialSums(g, n)[n] \in Int
    BY <1>9, <1>12
  <2> QED
    BY <1>6, <2>2, <2>3, <2>4
<1> QED
  BY <1>15, <1>16 DEF n

\* A point of the curve: equity after the trades of the windows before.
PointOf(ts, i, v) ==
  \E n \in 0..Len(ts) : (\A k \in 1..Len(ts) : k <= n <=> ts[k].window < i) /\ v = EquityIn(ts, n)

\* p is the greatest equity after any trade.
PeakOf(ts, p) ==
  /\ \E a \in 0..Len(ts) : p = EquityIn(ts, a)
  /\ \A a \in 0..Len(ts) : EquityIn(ts, a) <= p

\* d is the greatest fall from one equity to a later one.
FallIn(ts, d) ==
  /\ \E a, b \in 0..Len(ts) : a <= b /\ d = EquityIn(ts, a) - EquityIn(ts, b)
  /\ \A a, b \in 0..Len(ts) : a <= b => EquityIn(ts, a) - EquityIn(ts, b) <= d

LEMMA PointStays ==
  ASSUME NEW ts \in Seq(SimTrade), NEW t \in SimTrade, NEW z, Longer(z, ts, t),
         NEW i \in Int, i <= t.window, NEW v, PointOf(ts, i, v)
  PROVE  PointOf(z, i, v)
<1>1. PICK n \in 0..Len(ts) :
        (\A k \in 1..Len(ts) : k <= n <=> ts[k].window < i) /\ v = EquityIn(ts, n)
  BY DEF PointOf
<1>2. /\ Len(ts) \in Nat /\ Len(z) = Len(ts) + 1 /\ z[Len(ts)+1] = t
      /\ \A k \in 1..Len(ts) : z[k] = ts[k]
  BY AppendedTrade
<1>3. t.window \in Nat
  BY DEF SimTrade
<1>4. ASSUME NEW k \in 1..Len(z) PROVE k <= n <=> z[k].window < i
  <2>1. CASE k = Len(ts) + 1
    <3>1. ~(k <= n)
      BY <1>2, <2>1
    <3>2. ~(t.window < i)
      BY <1>3
    <3> QED
      BY <1>2, <2>1, <3>1, <3>2
  <2>2. CASE k # Len(ts) + 1
    <3>1. k \in 1..Len(ts)
      BY <1>2, <2>2
    <3> QED
      BY <1>1, <1>2, <3>1
  <2> QED
    BY <2>1, <2>2
<1>5. n \in 0..Len(z) /\ v = EquityIn(z, n)
  BY <1>1, <1>2, EquityGrows
<1> QED
  BY <1>4, <1>5 DEF PointOf

LEMMA HigherOf ==
  ASSUME NEW a \in Int, NEW b \in Int
  PROVE  /\ Higher(a, b) \in Int /\ Higher(a, b) >= a /\ Higher(a, b) >= b
         /\ Higher(a, b) = a \/ Higher(a, b) = b
BY DEF Higher

LEMMA PeakGrows ==
  ASSUME NEW ts \in Seq(SimTrade), NEW t \in SimTrade, NEW z, Longer(z, ts, t),
         NEW p \in Int, PeakOf(ts, p), NEW e \in Int, e = EquityIn(z, Len(ts) + 1)
  PROVE  PeakOf(z, Higher(p, e))
<1> DEFINE n == Len(ts)
<1>1. n \in Nat /\ Len(z) = n + 1
  BY AppendedTrade
<1>2. \A a \in 0..n : EquityIn(z, a) = EquityIn(ts, a) /\ EquityIn(ts, a) \in Int
  BY EquityGrows, EquityType
<1>3. /\ Higher(p, e) \in Int /\ Higher(p, e) >= p /\ Higher(p, e) >= e
      /\ Higher(p, e) = p \/ Higher(p, e) = e
  BY HigherOf
<1>4. PICK a \in 0..n : p = EquityIn(ts, a)
  BY DEF PeakOf
<1> HIDE DEF n
<1>5. \E x \in 0..(n+1) : Higher(p, e) = EquityIn(z, x)
  <2>1. a \in 0..(n+1) /\ n + 1 \in 0..(n+1)
    BY <1>1
  <2> QED
    BY <1>2, <1>3, <1>4, <2>1 DEF n
<1>6. ASSUME NEW x \in 0..(n+1) PROVE EquityIn(z, x) <= Higher(p, e)
  <2>1. CASE x = n + 1
    BY <1>3, <2>1 DEF n
  <2>2. CASE x # n + 1
    <3>1. x \in 0..n
      BY <1>1, <2>2
    <3>2. EquityIn(ts, x) <= p
      BY <3>1 DEF PeakOf, n
    <3> QED
      BY <1>2, <1>3, <3>1, <3>2
  <2> QED
    BY <2>1, <2>2
<1> QED
  BY <1>1, <1>5, <1>6 DEF PeakOf

LEMMA FallGrowsBy ==
  ASSUME NEW ts \in Seq(SimTrade), NEW t \in SimTrade, NEW z, Longer(z, ts, t),
         NEW e \in Int, e = EquityIn(z, Len(ts) + 1), NEW q \in Int, PeakOf(z, q),
         NEW d \in Int, FallIn(ts, d)
  PROVE  FallIn(z, Higher(d, q - e))
<1> DEFINE n == Len(ts)
           w == Higher(d, q - e)
<1>1. n \in Nat /\ Len(z) = n + 1
  BY AppendedTrade
<1>2. \A a \in 0..n : EquityIn(z, a) = EquityIn(ts, a) /\ EquityIn(ts, a) \in Int
  BY EquityGrows, EquityType
<1>3. w \in Int /\ w >= d /\ w >= q - e /\ (w = d \/ w = q - e)
  <2> DEFINE f == q - e
  <2>1. f \in Int
    OBVIOUS
  <2>2. w = Higher(d, f)
    OBVIOUS
  <2> HIDE DEF f, w
  <2>3. w \in Int /\ w >= d /\ w >= f /\ (w = d \/ w = f)
    BY <2>1, <2>2, HigherOf
  <2> QED
    BY <2>3 DEF f
<1>4. PICK a \in 0..n, b \in 0..n : a <= b /\ d = EquityIn(ts, a) - EquityIn(ts, b)
  BY DEF FallIn
<1>5. PICK c \in 0..(n+1) : q = EquityIn(z, c)
  BY <1>1 DEF PeakOf
<1>n. \A x, y \in 0..n : x <= y => EquityIn(ts, x) - EquityIn(ts, y) <= d
  BY DEF FallIn
<1>e. e = EquityIn(z, n + 1)
  OBVIOUS
<1> HIDE DEF n, w
<1>6. \E x, y \in 0..(n+1) : x <= y /\ w = EquityIn(z, x) - EquityIn(z, y)
  <2>1. CASE w = d
    <3>1. a \in 0..(n+1) /\ b \in 0..(n+1)
      BY <1>1
    <3> QED
      BY <1>2, <1>4, <2>1, <3>1
  <2>2. CASE w = q - e
    <3>1. n + 1 \in 0..(n+1) /\ c <= n + 1
      BY <1>1
    <3> QED
      BY <1>5, <1>e, <2>2, <3>1
  <2> QED
    BY <1>3, <2>1, <2>2
<1>7. ASSUME NEW x \in 0..(n+1), NEW y \in 0..(n+1), x <= y
      PROVE  EquityIn(z, x) - EquityIn(z, y) <= w
  <2>1. CASE y = n + 1
    <3>1. EquityIn(z, x) <= q
      BY <1>1 DEF PeakOf
    <3>2. EquityIn(z, x) \in Int
      <4>1. CASE x = n + 1
        BY <1>e, <4>1
      <4>2. CASE x # n + 1
        <5>1. x \in 0..n
          BY <1>1, <4>2
        <5> QED
          BY <1>2, <5>1
      <4> QED
        BY <4>1, <4>2
    <3>3. EquityIn(z, x) - e <= w
      BY <1>3, <3>1, <3>2, SMTT(30)
    <3> QED
      BY <1>e, <2>1, <3>3
  <2>2. CASE y # n + 1
    <3>1. x \in 0..n /\ y \in 0..n
      BY <1>1, <1>7, <2>2
    <3>2. EquityIn(ts, x) - EquityIn(ts, y) <= d
      BY <1>7, <1>n, <3>1
    <3>3. EquityIn(ts, x) \in Int /\ EquityIn(ts, y) \in Int
      BY <1>2, <3>1
    <3>4. EquityIn(ts, x) - EquityIn(ts, y) <= w
      BY <1>3, <3>2, <3>3, SMTT(30)
    <3> QED
      BY <1>2, <3>1, <3>4
  <2> QED
    BY <2>1, <2>2
<1> QED
  BY <1>1, <1>6, <1>7 DEF FallIn, w

ReportInv ==
  /\ equity = EquityIn(simTrades, Len(simTrades))
  /\ Len(equityCurve) = index
  /\ \A i \in 1..index : PointOf(simTrades, i, equityCurve[i])
  /\ PeakOf(simTrades, peak) /\ FallIn(simTrades, simDrawdown)
  /\ report # <<>> => index = RunWindows /\ report[1] = equity - Start

LEMMA ReportInit == SimulatorInit => ReportInv
<1> SUFFICES ASSUME SimulatorInit PROVE ReportInv
  OBVIOUS
<1>1. simTrades = <<>> /\ Len(simTrades) = 0 /\ simTrades \in Seq(SimTrade)
  BY DEF SimulatorInit
<1>2. EquityIn(simTrades, 0) = Start
  <2> DEFINE g == [i \in 1..Len(simTrades) |-> simTrades[i].pnl]
  <2>1. g \in [1..Len(simTrades) -> Int] /\ Len(simTrades) \in Nat
    BY <1>1
  <2> HIDE DEF g
  <2>2. PartialSums(g, Len(simTrades))[0] = 0
    BY <2>1, PartialSumsStep
  <2>3. Start \in Int
    BY LedgerAssumption
  <2> QED
    BY <2>2, <2>3 DEF EquityIn, g
<1>3. Start \in Int /\ \A a \in 0..0 : a = 0
  BY LedgerAssumption
<1>4. PeakOf(simTrades, Start) /\ FallIn(simTrades, 0)
  BY <1>1, <1>2, <1>3 DEF PeakOf, FallIn
<1> QED
  BY <1>1, <1>2, <1>4 DEF SimulatorInit, ReportInv

LEMMA ReportTrade ==
  ASSUME SimTypeOK, ReportInv, NEW s \in RunnerNames, NEW slip \in Slips, TradeBy(s, slip)
  PROVE  ReportInv'
<1>1. PICK t \in SimTrade :
           /\ t.window = index
           /\ simTrades' = Append(simTrades, t)
           /\ equity' = equity + t.pnl
           /\ peak' = Higher(peak, equity + t.pnl)
           /\ simDrawdown' = Higher(simDrawdown, Higher(peak, equity + t.pnl) - (equity + t.pnl))
           /\ index < RunWindows /\ index \in Nat
           /\ index' = index /\ equityCurve' = equityCurve /\ report' = report
  BY TradeFacts
<1>2. /\ simTrades \in Seq(SimTrade) /\ Longer(simTrades', simTrades, t)
      /\ equity \in Int /\ peak \in Int /\ simDrawdown \in Int /\ t.pnl \in Int
  BY <1>1 DEF SimTypeOK, Longer, SimTrade
<1>3. equity' = EquityIn(simTrades', Len(simTrades) + 1) /\ equity' \in Int
  BY <1>1, <1>2, EquityGrows DEF ReportInv
<1>4. Len(simTrades') = Len(simTrades) + 1
  BY <1>2, AppendedTrade
<1> DEFINE e == equity'
           z == simTrades'
<1> HIDE DEF e, z
<1>5. e \in Int /\ e = EquityIn(z, Len(simTrades) + 1) /\ Longer(z, simTrades, t)
  BY <1>2, <1>3 DEF e, z
<1>6. PeakOf(z, Higher(peak, e))
  BY <1>2, <1>5, PeakGrows DEF ReportInv
<1>7. peak' = Higher(peak, e) /\ simDrawdown' = Higher(simDrawdown, peak' - e)
  BY <1>1 DEF e
<1>8. peak' \in Int
  BY <1>2, <1>5, <1>7, HigherOf
<1>9. FallIn(z, Higher(simDrawdown, peak' - e))
  BY <1>2, <1>5, <1>6, <1>7, <1>8, FallGrowsBy DEF ReportInv
<1>10. \A i \in 1..index : PointOf(z, i, equityCurve[i])
  <2> SUFFICES ASSUME NEW i \in 1..index PROVE PointOf(z, i, equityCurve[i])
    OBVIOUS
  <2>1. i \in Int /\ i <= t.window
    BY <1>1
  <2>2. PointOf(simTrades, i, equityCurve[i])
    BY DEF ReportInv
  <2> DEFINE v == equityCurve[i]
  <2> HIDE DEF v
  <2>3. PointOf(simTrades, i, v)
    BY <2>2 DEF v
  <2>4. PointOf(z, i, v)
    BY <1>2, <1>5, <2>1, <2>3, PointStays
  <2> QED
    BY <2>4 DEF v
<1>11. /\ equity' = EquityIn(simTrades', Len(simTrades'))
       /\ PeakOf(simTrades', peak') /\ FallIn(simTrades', simDrawdown')
       /\ Len(equityCurve') = index'
       /\ \A i \in 1..index' : PointOf(simTrades', i, equityCurve'[i])
  BY <1>1, <1>3, <1>4, <1>6, <1>7, <1>9, <1>10 DEF z, ReportInv
<1>12. report' = <<>>
  BY <1>1 DEF ReportInv
<1> QED
  BY <1>11, <1>12 DEF ReportInv

LEMMA ReportNextWindow ==
  ASSUME SimTypeOK, StopInv, ReportInv, NEW input, NextWindow(input)
  PROVE  ReportInv'
<1>1. /\ index < RunWindows /\ index' = index + 1 /\ equityCurve' = Append(equityCurve, equity)
      /\ simTrades' = simTrades /\ equity' = equity /\ peak' = peak
      /\ simDrawdown' = simDrawdown /\ report' = report
  BY DEF NextWindow
<1>2. /\ index \in Nat /\ equityCurve \in Seq(Int) /\ equity \in Int /\ Len(equityCurve) = index
      /\ simTrades \in Seq(SimTrade) /\ RunWindows \in Nat
  BY SimulatorAssumption DEF SimTypeOK, ReportInv
<1>3. /\ Len(equityCurve') = index + 1 /\ equityCurve'[index+1] = equity
      /\ \A i \in 1..index : equityCurve'[i] = equityCurve[i]
  BY <1>1, <1>2
<1>4. PointOf(simTrades, index + 1, equity)
  <2>1. Len(simTrades) \in 0..Len(simTrades)
    BY <1>2
  <2>2. \A k \in 1..Len(simTrades) : simTrades[k].window \in Nat /\ simTrades[k].window <= index
    BY <1>2, TradeTyped DEF StopInv, Rested
  <2>3. \A k \in 1..Len(simTrades) : k <= Len(simTrades) /\ simTrades[k].window < index + 1
    BY <1>2, <2>1, <2>2
  <2>4. equity = EquityIn(simTrades, Len(simTrades))
    BY DEF ReportInv
  <2> QED
    BY <2>1, <2>3, <2>4 DEF PointOf
<1>5. ASSUME NEW i \in 1..(index+1) PROVE PointOf(simTrades, i, equityCurve'[i])
  <2>1. CASE i = index + 1
    BY <1>3, <1>4, <2>1
  <2>2. CASE i # index + 1
    <3>1. i \in 1..index
      BY <1>2, <2>2
    <3> QED
      BY <1>3, <3>1 DEF ReportInv
  <2> QED
    BY <2>1, <2>2
<1>6. report' = <<>>
  BY <1>1, <1>2 DEF ReportInv
<1> QED
  BY <1>1, <1>3, <1>5, <1>6 DEF ReportInv

LEMMA ReportSame ==
  ASSUME ReportInv,
         /\ simTrades' = simTrades /\ equity' = equity /\ equityCurve' = equityCurve
         /\ index' = index /\ peak' = peak /\ simDrawdown' = simDrawdown,
         report' = report \/ (index = RunWindows /\ report' = <<equity - Start, peak>>)
  PROVE  ReportInv'
<1>1. report' # <<>> => index' = RunWindows /\ report'[1] = equity' - Start
  BY DEF ReportInv
<1> QED
  BY <1>1 DEF ReportInv

LEMMA ReportNext ==
  SimTypeOK /\ StopInv /\ ReportInv /\ [SimulatorNext]_simulatorVars => ReportInv'
<1> SUFFICES ASSUME SimTypeOK, StopInv, ReportInv, [SimulatorNext]_simulatorVars PROVE ReportInv'
  OBVIOUS
<1>1. ASSUME NEW s \in RunnerNames, NoTradeBy(s) PROVE ReportInv'
  BY <1>1, ReportSame DEF NoTradeBy
<1>2. ASSUME NEW s \in RunnerNames, NEW slip \in Slips, TradeBy(s, slip) PROVE ReportInv'
  BY <1>2, ReportTrade
<1>3. ASSUME NEW input \in Inputs, NextWindow(input) PROVE ReportInv'
  BY <1>3, ReportNextWindow
<1>4. CASE EndOfRun
  BY <1>4, ReportSame DEF EndOfRun
<1>5. CASE UNCHANGED simulatorVars
  BY <1>5, ReportSame DEF simulatorVars
<1> QED
  BY <1>1, <1>2, <1>3, <1>4, <1>5 DEF SimulatorNext

LEMMA ReportInvAddsUp == ReportInv => SimulatorAddsUp
<1> SUFFICES ASSUME ReportInv PROVE SimulatorAddsUp
  OBVIOUS
<1>1. \A n : EquityAfter(n) = EquityIn(simTrades, n)
  BY DEF EquityAfter, EquityIn
<1>2. equity = EquityAfter(Len(simTrades)) /\ Len(equityCurve) = index
  BY <1>1 DEF ReportInv
<1>3. \A i \in 1..index :
        \E n \in 0..Len(simTrades) :
          /\ \A k \in 1..Len(simTrades) : k <= n <=> simTrades[k].window < i
          /\ equityCurve[i] = EquityAfter(n)
  BY <1>1 DEF ReportInv, PointOf
<1>4. /\ \E a, b \in 0..Len(simTrades) : a <= b /\ simDrawdown = EquityAfter(a) - EquityAfter(b)
      /\ \A a, b \in 0..Len(simTrades) : a <= b => EquityAfter(a) - EquityAfter(b) <= simDrawdown
  BY <1>1 DEF ReportInv, FallIn
<1>5. report # <<>> => report[1] = EquityAfter(Len(simTrades)) - Start
  BY <1>2 DEF ReportInv
<1> QED
  BY <1>2, <1>3, <1>4, <1>5 DEF SimulatorAddsUp

\* What the simulator reports is made of its trades: equity, the curve at the end of every
\* window, the profit, and a drawdown that is the greatest fall between any two moments,
\* also within a window, for any strategies, walks, quotes and slippage (run).
THEOREM SimulationAddsUp == SimulatorSpec => []SimulatorAddsUp
<1>1. SimulatorInit => SimTypeOK /\ StopInv /\ ReportInv
  BY SimTypeInit, StopInit, ReportInit
<1>2. SimTypeOK /\ StopInv /\ ReportInv /\ [SimulatorNext]_simulatorVars =>
        (SimTypeOK /\ StopInv /\ ReportInv)'
  BY SimTypeNext, StopNext, ReportNext
<1>3. SimTypeOK /\ StopInv /\ ReportInv => SimulatorAddsUp
  BY ReportInvAddsUp
<1> QED
  BY <1>1, <1>2, <1>3, PTL DEF SimulatorSpec
-------------------------------------------------------------------------------
(* The screening of accounts.  What a tweet changes in the statistics of    *)
(* its account is what its signal adds to the signals; and a ranking has    *)
(* every row once, so that the cuts leave the best.                         *)

SignalRecord == [handle : Handles, domain : Domains, deadline : BOOLEAN, falsifiable : BOOLEAN, score : Nat]

JudgeCounts == [calls : Nat, skipped : Nat, failed : Nat, accepted : Nat, rejected : Nat]

AccountStats ==
  [tweets_seen : Nat, noise_rejected : Nat, weak_rejected : Nat, signals : Nat, score : Nat,
   deadline_signals : Nat, falsifiable_signals : Nat, domains : [Domains -> Nat]]

ScreenTypes ==
  /\ tool \in Tools /\ ranker \in {"heuristic", "llm"} /\ (tool = "run_mvp" => ranker = "heuristic")
  /\ limits \in Limits
  /\ stats \in [Handles -> AccountStats]
  /\ signals \in Seq(SignalRecord)
  /\ judge \in JudgeCounts
  /\ screening \in {"reading", "ranking", "written", "raised"}

\* What the statistics of an account say of its signals.
Account(h) ==
  /\ stats[h].signals = Cardinality(CountedOf(h))
  /\ stats[h].score = ScoreOf(h)
  /\ stats[h].deadline_signals = Cardinality({i \in CountedOf(h) : signals[i].deadline})
  /\ stats[h].falsifiable_signals = Cardinality({i \in CountedOf(h) : signals[i].falsifiable})
  /\ \A x \in Domains : stats[h].domains[x] = Cardinality({i \in SignalsOf(h) : signals[i].domain = x})

Judged ==
  /\ MaxCalls > 0 => judge.calls <= MaxCalls
  /\ screening # "raised" => judge.calls = judge.accepted + judge.rejected
  /\ judging => judge.accepted + judge.skipped = Len(signals)

AllSeen ==
  screening # "raised" => \A h \in Handles :
    stats[h].tweets_seen = stats[h].noise_rejected + stats[h].weak_rejected + Cardinality(SignalsOf(h))

\* A set of indices over one element more.
LEMMA IndicesGrow ==
  ASSUME NEW n \in Nat, NEW A \in SUBSET (1..n), NEW B \in SUBSET (1..(n+1)),
         \A i \in 1..n : i \in B <=> i \in A
  PROVE  /\ Cardinality(A) \in Nat /\ Cardinality(B) \in Nat
         /\ n + 1 \in B => Cardinality(B) = Cardinality(A) + 1
         /\ n + 1 \notin B => Cardinality(B) = Cardinality(A)
<1>1. IsFiniteSet(1..n) /\ n + 1 \notin 1..n
  BY FS_Interval
<1>2. IsFiniteSet(A) /\ n + 1 \notin A
  BY <1>1, FS_Subset
<1>t. \A i \in 1..(n+1) : i \in 1..n \/ i = n + 1
  OBVIOUS
<1>3. n + 1 \in B => B = A \cup {n + 1}
  <2>1. \A i \in B : i \in 1..n \/ i = n + 1
    BY <1>t
  <2>2. \A i \in A : i \in 1..n
    OBVIOUS
  <2> QED
    BY <2>1, <2>2, Zenon
<1>4. n + 1 \notin B => B = A
  <2>1. \A i \in B : i \in 1..n \/ i = n + 1
    BY <1>t
  <2>2. \A i \in A : i \in 1..n
    OBVIOUS
  <2> QED
    BY <2>1, <2>2, Zenon
<1>5. IsFiniteSet(A \cup {n + 1}) /\ Cardinality(A \cup {n + 1}) = Cardinality(A) + 1
  BY <1>2, FS_AddElement
<1> QED
  BY <1>2, <1>3, <1>4, <1>5, FS_CardinalityType

\* What a signal kept adds to the numbers of its account, and to no other's.
LEMMA KeepAddsUp ==
  ASSUME ScreenTypes, \A h \in Handles : Account(h), tool' = tool,
         NEW r, NEW s \in SignalRecord, s.handle = r.handle, Keep(r, s)
  PROVE  /\ stats' \in [Handles -> AccountStats] /\ signals' \in Seq(SignalRecord)
         /\ Len(signals') = Len(signals) + 1
         /\ \A h \in Handles : Account(h)'
         /\ \A h \in Handles :
              /\ Cardinality(SignalsOf(h)) \in Nat
              /\ Cardinality(SignalsOf(h)') = Cardinality(SignalsOf(h)) + (IF h = r.handle THEN 1 ELSE 0)
              /\ stats'[h].tweets_seen = stats[h].tweets_seen + (IF h = r.handle THEN 1 ELSE 0)
              /\ stats'[h].noise_rejected = stats[h].noise_rejected
              /\ stats'[h].weak_rejected = stats[h].weak_rejected
<1> DEFINE n == Len(signals)
<1>1. /\ n \in Nat /\ signals' = Append(signals, s) /\ signals' \in Seq(SignalRecord)
      /\ Len(signals') = n + 1 /\ DOMAIN signals = 1..n /\ DOMAIN signals' = 1..(n+1)
      /\ signals'[n+1] = s /\ \A i \in 1..n : signals'[i] = signals[i]
  BY DEF Keep, ScreenTypes
<1>2. s.handle \in Handles /\ s.domain \in Domains /\ s.score \in Nat
  BY DEF SignalRecord
<1>3. \A q : InWanted(q)' <=> InWanted(q)
  BY DEF InWanted
<1>4. /\ stats \in [Handles -> AccountStats]
      /\ stats' = [stats EXCEPT ![s.handle] =
                     IF InWanted(s) THEN Tallied(Seen(s.handle), SignalOf(r), s)
                     ELSE [Seen(s.handle) EXCEPT !.domains[s.domain] = @ + 1]]
  BY DEF Keep, ScreenTypes
<1> DEFINE d == stats[s.handle]
           e == stats'[s.handle]
<1>5. d \in AccountStats /\ d.domains \in [Domains -> Nat]
  BY <1>2, <1>4 DEF AccountStats
<1>6. /\ InWanted(s) =>
           e = [tweets_seen |-> d.tweets_seen + 1, noise_rejected |-> d.noise_rejected,
                weak_rejected |-> d.weak_rejected, signals |-> d.signals + 1, score |-> d.score + s.score,
                deadline_signals |-> d.deadline_signals + (IF s.deadline THEN 1 ELSE 0),
                falsifiable_signals |-> d.falsifiable_signals + (IF s.falsifiable THEN 1 ELSE 0),
                domains |-> [d.domains EXCEPT ![s.domain] = @ + 1]]
      /\ ~InWanted(s) =>
           e = [tweets_seen |-> d.tweets_seen + 1, noise_rejected |-> d.noise_rejected,
                weak_rejected |-> d.weak_rejected, signals |-> d.signals, score |-> d.score,
                deadline_signals |-> d.deadline_signals, falsifiable_signals |-> d.falsifiable_signals,
                domains |-> [d.domains EXCEPT ![s.domain] = @ + 1]]
  BY <1>2, <1>4, <1>5 DEF Tallied, Seen, AccountStats
<1>7. \A h \in Handles : h # s.handle => stats'[h] = stats[h]
  BY <1>4
<1> HIDE DEF d, e, n
<1>8. e \in AccountStats
  BY <1>2, <1>5, <1>6 DEF AccountStats
<1>9. stats' \in [Handles -> AccountStats]
  BY <1>2, <1>4, <1>7, <1>8 DEF e
<1>10. ASSUME NEW h \in Handles
       PROVE  LET mine == IF h = s.handle THEN 1 ELSE 0
                  kept == IF h = s.handle /\ InWanted(s) THEN 1 ELSE 0
              IN  /\ Cardinality(SignalsOf(h)) \in Nat
                  /\ Cardinality(SignalsOf(h)') = Cardinality(SignalsOf(h)) + mine
                  /\ Cardinality(CountedOf(h)) \in Nat
                  /\ Cardinality(CountedOf(h)') = Cardinality(CountedOf(h)) + kept
  <2>1. /\ SignalsOf(h) \in SUBSET (1..n) /\ SignalsOf(h)' \in SUBSET (1..(n+1))
        /\ \A i \in 1..n : i \in SignalsOf(h)' <=> i \in SignalsOf(h)
        /\ n + 1 \in SignalsOf(h)' <=> h = s.handle
    BY <1>1 DEF SignalsOf
  <2>2. /\ CountedOf(h) \in SUBSET (1..n) /\ CountedOf(h)' \in SUBSET (1..(n+1))
        /\ \A i \in 1..n : i \in CountedOf(h)' <=> i \in CountedOf(h)
        /\ n + 1 \in CountedOf(h)' <=> h = s.handle /\ InWanted(s)
    BY <1>1, <1>3, <2>1 DEF CountedOf
  <2>3. /\ Cardinality(SignalsOf(h)) \in Nat
        /\ n + 1 \in SignalsOf(h)' => Cardinality(SignalsOf(h)') = Cardinality(SignalsOf(h)) + 1
        /\ n + 1 \notin SignalsOf(h)' => Cardinality(SignalsOf(h)') = Cardinality(SignalsOf(h))
    BY <1>1, <2>1, IndicesGrow
  <2>4. /\ Cardinality(CountedOf(h)) \in Nat
        /\ n + 1 \in CountedOf(h)' => Cardinality(CountedOf(h)') = Cardinality(CountedOf(h)) + 1
        /\ n + 1 \notin CountedOf(h)' => Cardinality(CountedOf(h)') = Cardinality(CountedOf(h))
    BY <1>1, <2>2, IndicesGrow
  <2> QED
    BY <2>1, <2>2, <2>3, <2>4
<1>11. ASSUME NEW h \in Handles
       PROVE  /\ CountedOf(h) \in SUBSET (1..n) /\ SignalsOf(h) \in SUBSET (1..n)
              /\ CountedOf(h)' \in SUBSET (1..(n+1)) /\ SignalsOf(h)' \in SUBSET (1..(n+1))
              /\ \A i \in 1..n : (i \in CountedOf(h)' <=> i \in CountedOf(h))
                                 /\ (i \in SignalsOf(h)' <=> i \in SignalsOf(h))
              /\ n + 1 \in CountedOf(h)' <=> h = s.handle /\ InWanted(s)
              /\ n + 1 \in SignalsOf(h)' <=> h = s.handle
  BY <1>1, <1>3 DEF CountedOf, SignalsOf
<1>12. ASSUME NEW h \in Handles
       PROVE  LET Late(q) == {i \in CountedOf(h) : q[i].deadline}
                  dated == Cardinality({i \in CountedOf(h) : signals[i].deadline})
              IN  /\ dated \in Nat
                  /\ Cardinality({i \in CountedOf(h)' : signals'[i].deadline}) =
                       dated + (IF h = s.handle /\ InWanted(s) /\ s.deadline THEN 1 ELSE 0)
  <2> DEFINE A == {i \in CountedOf(h) : signals[i].deadline}
             B == {i \in CountedOf(h)' : signals'[i].deadline}
  <2>1. /\ A \in SUBSET (1..n) /\ B \in SUBSET (1..(n+1)) /\ \A i \in 1..n : i \in B <=> i \in A
        /\ n + 1 \in B <=> h = s.handle /\ InWanted(s) /\ s.deadline
    BY <1>1, <1>11
  <2> HIDE DEF A, B
  <2>2. /\ Cardinality(A) \in Nat
        /\ n + 1 \in B => Cardinality(B) = Cardinality(A) + 1
        /\ n + 1 \notin B => Cardinality(B) = Cardinality(A)
    BY <1>1, <2>1, IndicesGrow
  <2> QED
    BY <2>1, <2>2 DEF A, B
<1>13. ASSUME NEW h \in Handles
       PROVE  LET tested == Cardinality({i \in CountedOf(h) : signals[i].falsifiable})
              IN  /\ tested \in Nat
                  /\ Cardinality({i \in CountedOf(h)' : signals'[i].falsifiable}) =
                       tested + (IF h = s.handle /\ InWanted(s) /\ s.falsifiable THEN 1 ELSE 0)
  <2> DEFINE A == {i \in CountedOf(h) : signals[i].falsifiable}
             B == {i \in CountedOf(h)' : signals'[i].falsifiable}
  <2>1. /\ A \in SUBSET (1..n) /\ B \in SUBSET (1..(n+1)) /\ \A i \in 1..n : i \in B <=> i \in A
        /\ n + 1 \in B <=> h = s.handle /\ InWanted(s) /\ s.falsifiable
    BY <1>1, <1>11
  <2> HIDE DEF A, B
  <2>2. /\ Cardinality(A) \in Nat
        /\ n + 1 \in B => Cardinality(B) = Cardinality(A) + 1
        /\ n + 1 \notin B => Cardinality(B) = Cardinality(A)
    BY <1>1, <2>1, IndicesGrow
  <2> QED
    BY <2>1, <2>2 DEF A, B
<1>14. ASSUME NEW h \in Handles, NEW x \in Domains
       PROVE  LET there == Cardinality({i \in SignalsOf(h) : signals[i].domain = x})
              IN  /\ there \in Nat
                  /\ Cardinality({i \in SignalsOf(h)' : signals'[i].domain = x}) =
                       there + (IF h = s.handle /\ s.domain = x THEN 1 ELSE 0)
  <2> DEFINE A == {i \in SignalsOf(h) : signals[i].domain = x}
             B == {i \in SignalsOf(h)' : signals'[i].domain = x}
  <2>1. /\ A \in SUBSET (1..n) /\ B \in SUBSET (1..(n+1)) /\ \A i \in 1..n : i \in B <=> i \in A
        /\ n + 1 \in B <=> h = s.handle /\ s.domain = x
    BY <1>1, <1>11
  <2> HIDE DEF A, B
  <2>2. /\ Cardinality(A) \in Nat
        /\ n + 1 \in B => Cardinality(B) = Cardinality(A) + 1
        /\ n + 1 \notin B => Cardinality(B) = Cardinality(A)
    BY <1>1, <2>1, IndicesGrow
  <2> QED
    BY <2>1, <2>2 DEF A, B
<1>15. ASSUME NEW h \in Handles
       PROVE  ScoreOf(h)' = ScoreOf(h) + (IF h = s.handle /\ InWanted(s) THEN s.score ELSE 0)
  <2> DEFINE f == [i \in 1..n |-> IF i \in CountedOf(h) THEN signals[i].score ELSE 0]
             g == [i \in 1..(n+1) |-> IF i \in CountedOf(h)' THEN signals'[i].score ELSE 0]
  <2>1. \A i \in 1..n : signals[i] \in SignalRecord
    BY <1>1 DEF ScreenTypes
  <2>2. \A i \in 1..n : f[i] \in Int
    BY <2>1 DEF SignalRecord
  <2>3. \A i \in 1..n : g[i] = f[i]
    BY <1>1, <1>11
  <2>4. g[n+1] = IF h = s.handle /\ InWanted(s) THEN s.score ELSE 0
    BY <1>1, <1>11
  <2>5. f \in Seq(Int) /\ Len(f) = n
    BY <1>1, <2>2
  <2>6. g \in Seq(Int) /\ Len(g) = n + 1
    <3>1. \A i \in 1..(n+1) : g[i] \in Int
      <4> SUFFICES ASSUME NEW i \in 1..(n+1) PROVE g[i] \in Int
        OBVIOUS
      <4>1. i \in 1..n \/ i = n + 1
        BY <1>1
      <4> QED
        BY <1>2, <2>2, <2>3, <2>4, <4>1
    <3> QED
      BY <1>1, <3>1
  <2>7. ScoreOf(h) = SeqTotal(f)
    BY DEF ScoreOf, n
  <2>8. ScoreOf(h)' = SeqTotal(g)
    BY <1>1 DEF ScoreOf
  <2> HIDE DEF f, g
  <2>9. SeqTotal(g) = SeqTotal(f) + g[n+1]
    BY <2>3, <2>5, <2>6, SeqTotalExtend
  <2> QED
    BY <2>4, <2>7, <2>8, <2>9
<1>16. ASSUME NEW h \in Handles
       PROVE  /\ Account(h)'
              /\ stats'[h].tweets_seen = stats[h].tweets_seen + (IF h = s.handle THEN 1 ELSE 0)
              /\ stats'[h].noise_rejected = stats[h].noise_rejected
              /\ stats'[h].weak_rejected = stats[h].weak_rejected
  <2>0. Account(h)
    OBVIOUS
  <2>1. CASE h # s.handle
    <3>1. stats'[h] = stats[h] /\ stats[h] \in AccountStats
      BY <1>4, <1>7, <2>1
    <3>2. \A x \in Domains : stats[h].domains[x] = Cardinality({i \in SignalsOf(h)' : signals'[i].domain = x})
      <4> SUFFICES ASSUME NEW x \in Domains
                   PROVE  stats[h].domains[x] = Cardinality({i \in SignalsOf(h)' : signals'[i].domain = x})
        OBVIOUS
      <4>1. stats[h].domains[x] = Cardinality({i \in SignalsOf(h) : signals[i].domain = x})
        BY <2>0 DEF Account
      <4> HIDE <2>0
      <4>2. LET there == Cardinality({i \in SignalsOf(h) : signals[i].domain = x})
            IN  there \in Nat /\ Cardinality({i \in SignalsOf(h)' : signals'[i].domain = x}) = there + 0
        BY <1>14, <2>1
      <4> QED
        BY <4>1, <4>2
    <3>3. ScoreOf(h)' = ScoreOf(h)
      <4>1. ScoreOf(h) \in Int
        BY <2>0, <3>1 DEF Account, AccountStats
      <4> QED
        BY <1>15, <2>1, <4>1
    <3>4. /\ stats[h].signals = Cardinality(CountedOf(h)')
          /\ stats[h].deadline_signals = Cardinality({i \in CountedOf(h)' : signals'[i].deadline})
          /\ stats[h].falsifiable_signals = Cardinality({i \in CountedOf(h)' : signals'[i].falsifiable})
      BY <1>10, <1>12, <1>13, <2>0, <2>1 DEF Account
    <3>5. Account(h)'
      BY <2>0, <3>1, <3>2, <3>3, <3>4 DEF Account
    <3> QED
      BY <2>1, <3>1, <3>5 DEF AccountStats
  <2>2. CASE h = s.handle
    <3>1. stats'[h] = e /\ stats[h] = d
      BY <2>2 DEF d, e
    <3>2. /\ d.signals = Cardinality(CountedOf(h)) /\ d.score = ScoreOf(h)
          /\ d.deadline_signals = Cardinality({i \in CountedOf(h) : signals[i].deadline})
          /\ d.falsifiable_signals = Cardinality({i \in CountedOf(h) : signals[i].falsifiable})
          /\ \A x \in Domains : d.domains[x] = Cardinality({i \in SignalsOf(h) : signals[i].domain = x})
      BY <2>0, <3>1 DEF Account
    <3>3. /\ d.signals \in Nat /\ d.score \in Nat /\ d.deadline_signals \in Nat
          /\ d.falsifiable_signals \in Nat /\ d.tweets_seen \in Nat
      BY <1>5 DEF AccountStats
    <3>4. e.domains = [d.domains EXCEPT ![s.domain] = @ + 1]
      BY <1>6
    <3>5. \A x \in Domains : e.domains[x] = Cardinality({i \in SignalsOf(h)' : signals'[i].domain = x})
      <4> SUFFICES ASSUME NEW x \in Domains
                   PROVE  e.domains[x] = Cardinality({i \in SignalsOf(h)' : signals'[i].domain = x})
        OBVIOUS
      <4>1. d.domains[x] \in Nat /\ e.domains[x] = d.domains[x] + (IF x = s.domain THEN 1 ELSE 0)
        BY <1>2, <1>5, <3>4
      <4>2. LET there == Cardinality({i \in SignalsOf(h) : signals[i].domain = x})
            IN  Cardinality({i \in SignalsOf(h)' : signals'[i].domain = x}) =
                  there + (IF s.domain = x THEN 1 ELSE 0)
        BY <1>14, <2>2
      <4>3. d.domains[x] = Cardinality({i \in SignalsOf(h) : signals[i].domain = x})
        BY <3>2
      <4> QED
        BY <4>1, <4>2, <4>3
    <3>6. /\ e.signals = Cardinality(CountedOf(h)')
          /\ e.score = ScoreOf(h)'
          /\ e.deadline_signals = Cardinality({i \in CountedOf(h)' : signals'[i].deadline})
          /\ e.falsifiable_signals = Cardinality({i \in CountedOf(h)' : signals'[i].falsifiable})
      <4>1. CASE InWanted(s)
        <5>1. /\ e.signals = d.signals + 1 /\ e.score = d.score + s.score
              /\ e.deadline_signals = d.deadline_signals + (IF s.deadline THEN 1 ELSE 0)
              /\ e.falsifiable_signals = d.falsifiable_signals + (IF s.falsifiable THEN 1 ELSE 0)
          BY <1>6, <4>1
        <5>2. Cardinality({i \in CountedOf(h)' : signals'[i].deadline}) =
                d.deadline_signals + (IF s.deadline THEN 1 ELSE 0)
          BY <1>12, <2>2, <3>2, <4>1
        <5>3. Cardinality({i \in CountedOf(h)' : signals'[i].falsifiable}) =
                d.falsifiable_signals + (IF s.falsifiable THEN 1 ELSE 0)
          BY <1>13, <2>2, <3>2, <4>1
        <5> QED
          BY <1>10, <1>15, <2>2, <3>2, <4>1, <5>1, <5>2, <5>3
      <4>2. CASE ~InWanted(s)
        <5>1. /\ e.signals = d.signals /\ e.score = d.score
              /\ e.deadline_signals = d.deadline_signals
              /\ e.falsifiable_signals = d.falsifiable_signals
          BY <1>6, <4>2
        <5>2. Cardinality({i \in CountedOf(h)' : signals'[i].deadline}) = d.deadline_signals
          BY <1>12, <2>2, <3>2, <3>3, <4>2
        <5>3. Cardinality({i \in CountedOf(h)' : signals'[i].falsifiable}) = d.falsifiable_signals
          BY <1>13, <2>2, <3>2, <3>3, <4>2
        <5> QED
          BY <1>10, <1>15, <2>2, <3>2, <3>3, <4>2, <5>1, <5>2, <5>3
      <4> QED
        BY <4>1, <4>2
    <3>7. Account(h)'
      BY <3>1, <3>5, <3>6 DEF Account
    <3>8. /\ e.tweets_seen = d.tweets_seen + 1 /\ e.noise_rejected = d.noise_rejected
          /\ e.weak_rejected = d.weak_rejected
      BY <1>6
    <3> QED
      BY <2>2, <3>1, <3>7, <3>8
  <2> QED
    BY <2>1, <2>2
<1> QED
  BY <1>1, <1>9, <1>10, <1>16 DEF n

AccountsInv == ScreenTypes /\ (\A h \in Handles : Account(h)) /\ Judged /\ AllSeen

\* What a tweet is turned into, and what the judge makes of it, is a signal of its account.
LEMMA SignalOfType ==
  ASSUME NEW r \in Rows, IsNamed(r)
  PROVE  SignalOf(r) \in SignalRecord /\ SignalOf(r).handle = r.handle /\ r.handle \in Handles
<1>1. r \in Tweet
  BY ScreeningAssumption DEF ScreeningAssumption
<1> QED
  BY <1>1 DEF SignalOf, SignalRecord, Tweet, IsNamed

LEMMA UpgradedType ==
  ASSUME NEW s \in SignalRecord, NEW v \in Verdicts
  PROVE  Upgraded(s, v) \in SignalRecord /\ Upgraded(s, v).handle = s.handle
<1>1. v \in Verdict
  BY ScreeningAssumption DEF ScreeningAssumption
<1>2. Corrected(s, v) \in SignalRecord /\ Corrected(s, v).handle = s.handle
  BY <1>1 DEF Corrected, SignalRecord, Verdict
<1>3. AtLeast(0, v.quality - 5) \in Nat
  BY <1>1 DEF AtLeast, Verdict
<1> QED
  BY <1>2, <1>3 DEF Upgraded, SignalRecord

\* An account with one tweet more, and what of it was noise or weak.
Turned(d, noise, weak) ==
  [tweets_seen |-> d.tweets_seen + 1, noise_rejected |-> d.noise_rejected + noise,
   weak_rejected |-> d.weak_rejected + weak, signals |-> d.signals, score |-> d.score,
   deadline_signals |-> d.deadline_signals, falsifiable_signals |-> d.falsifiable_signals,
   domains |-> d.domains]

TurnedAway(k, noise, weak) == stats' = [stats EXCEPT ![k] = Turned(stats[k], noise, weak)]

LEMMA TurnedIs ==
  ASSUME NEW d \in AccountStats
  PROVE  LET more == [d EXCEPT !.tweets_seen = @ + 1]
         IN  /\ more = Turned(d, 0, 0)
             /\ [more EXCEPT !.noise_rejected = @ + 1] = Turned(d, 1, 0)
             /\ [more EXCEPT !.weak_rejected = @ + 1] = Turned(d, 0, 1)
<1>1. /\ d.noise_rejected + 0 = d.noise_rejected /\ d.weak_rejected + 0 = d.weak_rejected
  BY DEF AccountStats
<1>2. d = [tweets_seen |-> d.tweets_seen, noise_rejected |-> d.noise_rejected,
           weak_rejected |-> d.weak_rejected, signals |-> d.signals, score |-> d.score,
           deadline_signals |-> d.deadline_signals, falsifiable_signals |-> d.falsifiable_signals,
           domains |-> d.domains]
  BY DEF AccountStats
<1> DEFINE more == [d EXCEPT !.tweets_seen = @ + 1]
<1>3. more = [tweets_seen |-> d.tweets_seen + 1, noise_rejected |-> d.noise_rejected,
           weak_rejected |-> d.weak_rejected, signals |-> d.signals, score |-> d.score,
           deadline_signals |-> d.deadline_signals, falsifiable_signals |-> d.falsifiable_signals,
           domains |-> d.domains]
  BY <1>2
<1>4. more = Turned(d, 0, 0)
  BY <1>1, <1>3 DEF Turned
<1> HIDE DEF more
<1>5. [more EXCEPT !.noise_rejected = @ + 1] = Turned(d, 1, 0)
  BY <1>1, <1>3 DEF Turned
<1>6. [more EXCEPT !.weak_rejected = @ + 1] = Turned(d, 0, 1)
  BY <1>1, <1>3 DEF Turned
<1> QED
  BY <1>4, <1>5, <1>6 DEF more

\* A tweet that becomes no signal changes what was seen and rejected, and no other number.
LEMMA RejectAddsUp ==
  ASSUME ScreenTypes, \A h \in Handles : Account(h), tool' = tool, signals' = signals,
         NEW k \in Handles, NEW a \in Nat, NEW b \in Nat,
         TurnedAway(k, a, b)
  PROVE  /\ stats' \in [Handles -> AccountStats] /\ signals' \in Seq(SignalRecord)
         /\ \A h \in Handles : Account(h)'
         /\ AllSeen /\ screening # "raised" /\ a + b = 1 => AllSeen'
<1>1. stats \in [Handles -> AccountStats] /\ stats[k] \in AccountStats /\ signals \in Seq(SignalRecord)
  BY DEF ScreenTypes
<1>2. /\ stats[k].tweets_seen \in Nat /\ stats[k].noise_rejected \in Nat /\ stats[k].weak_rejected \in Nat
      /\ stats[k].signals \in Nat /\ stats[k].score \in Nat /\ stats[k].deadline_signals \in Nat
      /\ stats[k].falsifiable_signals \in Nat /\ stats[k].domains \in [Domains -> Nat]
  BY <1>1 DEF AccountStats
<1>3. /\ stats'[k].tweets_seen = stats[k].tweets_seen + 1
      /\ stats'[k].noise_rejected = stats[k].noise_rejected + a
      /\ stats'[k].weak_rejected = stats[k].weak_rejected + b
      /\ stats'[k].signals = stats[k].signals /\ stats'[k].score = stats[k].score
      /\ stats'[k].deadline_signals = stats[k].deadline_signals
      /\ stats'[k].falsifiable_signals = stats[k].falsifiable_signals
      /\ stats'[k].domains = stats[k].domains
      /\ stats'[k] \in AccountStats
      /\ \A h \in Handles : h # k => stats'[h] = stats[h]
      /\ DOMAIN stats' = Handles
  <2>1. Turned(stats[k], a, b) \in AccountStats
    BY <1>2 DEF AccountStats, Turned
  <2>2. /\ stats'[k] = Turned(stats[k], a, b) /\ DOMAIN stats' = Handles
        /\ \A h \in Handles : h # k => stats'[h] = stats[h]
    BY <1>1 DEF TurnedAway
  <2> QED
    BY <2>1, <2>2 DEF Turned
<1>4. stats' \in [Handles -> AccountStats]
  <2>1. \A h \in Handles : stats'[h] \in AccountStats
    BY <1>1, <1>3
  <2>2. stats' = [h \in Handles |-> stats'[h]]
    BY <1>1 DEF TurnedAway
  <2> QED
    BY <2>1, <2>2
<1>5. \A h \in Handles : SignalsOf(h)' = SignalsOf(h) /\ CountedOf(h)' = CountedOf(h) /\ ScoreOf(h)' = ScoreOf(h)
  BY DEF SignalsOf, CountedOf, ScoreOf, InWanted
<1>6. \A h \in Handles :
        /\ stats'[h].signals = stats[h].signals /\ stats'[h].score = stats[h].score
        /\ stats'[h].deadline_signals = stats[h].deadline_signals
        /\ stats'[h].falsifiable_signals = stats[h].falsifiable_signals
        /\ stats'[h].domains = stats[h].domains
  BY <1>3
<1>7. ASSUME NEW h \in Handles PROVE Account(h)'
  <2>1. Account(h)
    OBVIOUS
  <2> QED
    BY <1>5, <1>6, <2>1 DEF Account
<1>8. ASSUME AllSeen, screening # "raised", a + b = 1, NEW h \in Handles
      PROVE  stats'[h].tweets_seen =
               stats'[h].noise_rejected + stats'[h].weak_rejected + Cardinality(SignalsOf(h)')
  <2>1. stats[h].tweets_seen = stats[h].noise_rejected + stats[h].weak_rejected + Cardinality(SignalsOf(h))
    BY <1>8 DEF AllSeen
  <2>2. Cardinality(SignalsOf(h)) \in Nat
    <3>1. 0 \in Int /\ Len(signals) \in Int /\ 1 \in Int
      BY <1>1
    <3>2. IsFiniteSet(1..Len(signals))
      BY <3>1, FS_Interval
    <3>3. SignalsOf(h) \subseteq 1..Len(signals)
      BY <1>1 DEF SignalsOf
    <3> QED
      BY <3>2, <3>3, FS_Subset, FS_CardinalityType
  <2>3. SignalsOf(h)' = SignalsOf(h)
    BY <1>5
  <2>4. CASE h = k
    BY <1>2, <1>3, <1>8, <2>1, <2>2, <2>3, <2>4
  <2>5. CASE h # k
    BY <1>3, <2>1, <2>3, <2>5
  <2> QED
    BY <2>4, <2>5
<1> QED
  BY <1>1, <1>4, <1>7, <1>8 DEF AllSeen

LEMMA AccountsStart == ScreenInit => AccountsInv
<1> SUFFICES ASSUME ScreenInit PROVE AccountsInv
  OBVIOUS
<1>1. /\ signals = <<>> /\ Len(signals) = 0 /\ signals \in Seq(SignalRecord) /\ DOMAIN signals = {}
      /\ stats = [h \in Handles |-> EmptyStats]
  BY DEF ScreenInit
<1>2. EmptyStats \in AccountStats
  BY DEF EmptyStats, AccountStats
<1>3. ScreenTypes
  BY <1>1, <1>2 DEF ScreenInit, ScreenTypes, JudgeCounts
<1>4. \A h \in Handles : SignalsOf(h) = {} /\ CountedOf(h) = {}
  BY <1>1 DEF SignalsOf, CountedOf
<1>5. Cardinality({}) = 0
  BY FS_EmptySet
<1>6. ASSUME NEW h \in Handles PROVE Account(h)
  <2>1. /\ stats[h].signals = 0 /\ stats[h].score = 0 /\ stats[h].deadline_signals = 0
        /\ stats[h].falsifiable_signals = 0 /\ \A x \in Domains : stats[h].domains[x] = 0
    BY <1>1 DEF EmptyStats
  <2>2. /\ {i \in CountedOf(h) : signals[i].deadline} = {}
        /\ {i \in CountedOf(h) : signals[i].falsifiable} = {}
        /\ \A x \in Domains : {i \in SignalsOf(h) : signals[i].domain = x} = {}
    BY <1>4
  <2>3. ScoreOf(h) = 0
    <3>1. [i \in 1..Len(signals) |-> IF i \in CountedOf(h) THEN signals[i].score ELSE 0] = <<>>
      BY <1>1
    <3> QED
      BY <3>1, SeqTotalEmpty DEF ScoreOf
  <2> QED
    BY <1>4, <1>5, <2>1, <2>2, <2>3 DEF Account
<1>7. Judged
  BY <1>1, ScreeningAssumption DEF ScreenInit, Judged
<1>8. AllSeen
  <2>1. \A h \in Handles : stats[h].tweets_seen = 0 /\ stats[h].noise_rejected = 0 /\ stats[h].weak_rejected = 0
    BY <1>1 DEF EmptyStats
  <2> QED
    BY <1>4, <1>5, <2>1 DEF AllSeen
<1> QED
  BY <1>3, <1>6, <1>7, <1>8 DEF AccountsInv

\* A call adds to what the judge has done.
LEMMA OneMoreCall ==
  ASSUME NEW j \in JudgeCounts, NEW c \in {0, 1}, NEW g \in {0, 1}
  PROVE  /\ [j EXCEPT !.calls = @ + c, !.accepted = @ + g] \in JudgeCounts
         /\ [j EXCEPT !.calls = @ + c, !.rejected = @ + g] \in JudgeCounts
         /\ [j EXCEPT !.calls = @ + c, !.failed = @ + g] \in JudgeCounts
<1> DEFINE i == [j EXCEPT !.calls = @ + c]
<1>1. /\ j.calls + c \in Nat /\ j.failed + g \in Nat /\ j.accepted + g \in Nat /\ j.rejected + g \in Nat
  BY DEF JudgeCounts
<1>2. i \in JudgeCounts
  BY <1>1 DEF JudgeCounts
<1>3. /\ [j EXCEPT !.calls = @ + c, !.accepted = @ + g] = [i EXCEPT !.accepted = j.accepted + g]
      /\ [j EXCEPT !.calls = @ + c, !.rejected = @ + g] = [i EXCEPT !.rejected = j.rejected + g]
      /\ [j EXCEPT !.calls = @ + c, !.failed = @ + g] = [i EXCEPT !.failed = j.failed + g]
  OBVIOUS
<1> HIDE DEF i
<1>4. \A n \in Nat : /\ [i EXCEPT !.accepted = n] \in JudgeCounts
                      /\ [i EXCEPT !.rejected = n] \in JudgeCounts
                      /\ [i EXCEPT !.failed = n] \in JudgeCounts
  BY <1>2 DEF JudgeCounts
<1> QED
  BY <1>1, <1>3, <1>4

\* Reading one tweet keeps the accounts.
LEMMA ReadKeepsAccounts ==
  ASSUME AccountsInv, NEW r \in Rows, ReadRow(r)
  PROVE  AccountsInv'
<1>1. /\ screening = "reading" /\ tool' = tool /\ judging' = judging /\ ranker' = ranker
      /\ limits' = limits
  BY DEF ReadRow, ReadNoise, ReadWeak, ReadNameless, KeepUnjudged, JudgeRaises, JudgeKeeps,
         JudgeRejects, ReadsOne
<1>2. /\ ScreenTypes /\ \A h \in Handles : Account(h)
  BY DEF AccountsInv
<1>3. /\ Judged /\ AllSeen /\ screening # "raised"
      /\ MaxCalls \in Nat
      /\ judge \in JudgeCounts
      /\ signals \in Seq(SignalRecord) /\ Len(signals) \in Nat
      /\ stats \in [Handles -> AccountStats]
  BY <1>1, ScreeningAssumption DEF AccountsInv, ScreenTypes
<1>k. ASSUME NEW k \in Handles
      PROVE  /\ Seen(k) = Turned(stats[k], 0, 0)
             /\ [Seen(k) EXCEPT !.noise_rejected = @ + 1] = Turned(stats[k], 1, 0)
             /\ [Seen(k) EXCEPT !.weak_rejected = @ + 1] = Turned(stats[k], 0, 1)
             /\ stats[k].noise_rejected \in Nat /\ stats[k].weak_rejected \in Nat
             /\ stats[k].tweets_seen \in Nat
  <2>1. stats[k] \in AccountStats
    BY <1>3
  <2>2. stats[k].noise_rejected \in Nat /\ stats[k].weak_rejected \in Nat /\ stats[k].tweets_seen \in Nat
    BY <2>1 DEF AccountStats
  <2> QED
    BY <2>1, <2>2, TurnedIs DEF Seen
<1>4. ASSUME NEW k \in Handles, signals' = signals, NEW a \in Nat, NEW b \in Nat,
             TurnedAway(k, a, b)
      PROVE  /\ stats' \in [Handles -> AccountStats] /\ signals' \in Seq(SignalRecord)
             /\ \A h \in Handles : Account(h)'
             /\ a + b = 1 => AllSeen'
  BY <1>1, <1>2, <1>3, <1>4, RejectAddsUp
<1>z. 0 \in Nat /\ 1 \in Nat /\ 0 + 1 = 1 /\ 1 + 0 = 1
  OBVIOUS
<1>5. ASSUME NEW s \in SignalRecord, s.handle = r.handle, Keep(r, s), screening' = screening
      PROVE  /\ stats' \in [Handles -> AccountStats] /\ signals' \in Seq(SignalRecord)
             /\ \A h \in Handles : Account(h)'
             /\ AllSeen'
             /\ Len(signals') = Len(signals) + 1
  <2>1. /\ stats' \in [Handles -> AccountStats] /\ signals' \in Seq(SignalRecord)
        /\ Len(signals') = Len(signals) + 1
        /\ \A h \in Handles : Account(h)'
        /\ \A h \in Handles :
             /\ Cardinality(SignalsOf(h)) \in Nat
             /\ Cardinality(SignalsOf(h)') = Cardinality(SignalsOf(h)) + (IF h = r.handle THEN 1 ELSE 0)
             /\ stats'[h].tweets_seen = stats[h].tweets_seen + (IF h = r.handle THEN 1 ELSE 0)
             /\ stats'[h].noise_rejected = stats[h].noise_rejected
             /\ stats'[h].weak_rejected = stats[h].weak_rejected
    BY <1>1, <1>2, <1>5, KeepAddsUp
  <2>2. ASSUME NEW h \in Handles
        PROVE  stats'[h].tweets_seen =
                 stats'[h].noise_rejected + stats'[h].weak_rejected + Cardinality(SignalsOf(h)')
    <3>1. stats[h].tweets_seen = stats[h].noise_rejected + stats[h].weak_rejected + Cardinality(SignalsOf(h))
      BY <1>3 DEF AllSeen
    <3>2. /\ stats[h].tweets_seen \in Nat /\ stats[h].noise_rejected \in Nat /\ stats[h].weak_rejected \in Nat
          /\ Cardinality(SignalsOf(h)) \in Nat
      BY <1>k, <2>1
    <3>3. /\ Cardinality(SignalsOf(h)') = Cardinality(SignalsOf(h)) + (IF h = r.handle THEN 1 ELSE 0)
          /\ stats'[h].tweets_seen = stats[h].tweets_seen + (IF h = r.handle THEN 1 ELSE 0)
          /\ stats'[h].noise_rejected = stats[h].noise_rejected
          /\ stats'[h].weak_rejected = stats[h].weak_rejected
      BY <2>1
    <3> HIDE <2>1
    <3> QED
      BY <3>1, <3>2, <3>3
  <2> QED
    BY <2>1, <2>2 DEF AllSeen
<1>6. CASE ReadNameless(r)
  <2>1. stats' = stats /\ signals' = signals /\ judge' = judge /\ screening' = screening
    BY <1>6 DEF ReadNameless
  <2>2. ScreenTypes' /\ Judged' /\ AllSeen'
    BY <1>1, <1>2, <1>3, <2>1 DEF ScreenTypes, JudgeCounts, Judged, AllSeen, SignalsOf
  <2>3. \A h \in Handles : Account(h)'
    <3>1. \A h \in Handles : /\ SignalsOf(h)' = SignalsOf(h) /\ CountedOf(h)' = CountedOf(h)
                             /\ ScoreOf(h)' = ScoreOf(h)
      BY <1>1, <2>1 DEF ScoreOf, CountedOf, SignalsOf, InWanted
    <3> SUFFICES ASSUME NEW h \in Handles PROVE Account(h)'
      OBVIOUS
    <3>2. Account(h)
      BY <1>2
    <3> QED
      BY <2>1, <3>1, <3>2 DEF Account
  <2> QED
    BY <2>2, <2>3 DEF AccountsInv
<1>7. CASE ReadNoise(r)
  <2>1. /\ r.handle \in Handles /\ signals' = signals /\ judge' = judge /\ screening' = screening
    BY <1>7, SignalOfType DEF ReadNoise
  <2>2. TurnedAway(r.handle, 1, 0)
    BY <1>7, <1>k, <2>1 DEF ReadNoise, TurnedAway
  <2>3. /\ stats' \in [Handles -> AccountStats] /\ signals' \in Seq(SignalRecord)
        /\ \A h \in Handles : Account(h)'
        /\ AllSeen'
    BY <1>4, <1>z, <2>1, <2>2, Zenon
  <2> QED
    BY <1>1, <1>2, <1>3, <2>1, <2>3 DEF AccountsInv, ScreenTypes, JudgeCounts, Judged
<1>8. CASE ReadWeak(r)
  <2>1. /\ r.handle \in Handles /\ signals' = signals /\ judge' = judge /\ screening' = screening
    BY <1>8, SignalOfType DEF ReadWeak
  <2>2. TurnedAway(r.handle, 0, 1)
    BY <1>8, <1>k, <2>1 DEF ReadWeak, TurnedAway
  <2>3. /\ stats' \in [Handles -> AccountStats] /\ signals' \in Seq(SignalRecord)
        /\ \A h \in Handles : Account(h)'
        /\ AllSeen'
    BY <1>4, <1>z, <2>1, <2>2, Zenon
  <2> QED
    BY <1>1, <1>2, <1>3, <2>1, <2>3 DEF AccountsInv, ScreenTypes, JudgeCounts, Judged
<1>9. CASE KeepUnjudged(r)
  <2>1. /\ Keep(r, SignalOf(r)) /\ SignalOf(r) \in SignalRecord /\ SignalOf(r).handle = r.handle
        /\ screening' = screening
        /\ judge' = IF judging THEN [judge EXCEPT !.skipped = @ + 1] ELSE judge
    BY <1>9, SignalOfType DEF KeepUnjudged
  <2>2. /\ stats' \in [Handles -> AccountStats] /\ signals' \in Seq(SignalRecord)
        /\ \A h \in Handles : Account(h)'
        /\ AllSeen'
        /\ Len(signals') = Len(signals) + 1
    BY <1>5, <2>1
  <2>j. judge' \in JudgeCounts
    BY <1>3, <2>1 DEF JudgeCounts
  <2>3. ScreenTypes'
    BY <1>1, <1>2, <2>1, <2>2, <2>j DEF ScreenTypes
  <2>4. Judged'
    BY <1>1, <1>3, <2>1, <2>2 DEF JudgeCounts, Judged
  <2> QED
    BY <2>2, <2>3, <2>4 DEF AccountsInv
<1>10. ASSUME NEW v \in Verdicts, JudgeKeeps(r, v) PROVE AccountsInv'
  <2>1. /\ Keep(r, Upgraded(SignalOf(r), v)) /\ Upgraded(SignalOf(r), v) \in SignalRecord
        /\ Upgraded(SignalOf(r), v).handle = r.handle
        /\ screening' = screening
        /\ judge' = [judge EXCEPT !.calls = @ + 1, !.accepted = @ + 1]
        /\ ~OutOfCalls /\ judging
    BY <1>10, SignalOfType, UpgradedType DEF JudgeKeeps
  <2>2. /\ stats' \in [Handles -> AccountStats] /\ signals' \in Seq(SignalRecord)
        /\ \A h \in Handles : Account(h)'
        /\ AllSeen'
        /\ Len(signals') = Len(signals) + 1
    BY <1>5, <2>1
  <2>j. judge' \in JudgeCounts
    BY <1>3, <2>1, OneMoreCall
  <2>3. ScreenTypes'
    BY <1>1, <1>2, <2>1, <2>2, <2>j DEF ScreenTypes
  <2>4. Judged'
    BY <1>1, <1>3, <2>1, <2>2 DEF JudgeCounts, Judged, OutOfCalls
  <2> QED
    BY <2>2, <2>3, <2>4 DEF AccountsInv
<1>11. ASSUME NEW v \in Verdicts, JudgeRejects(r, v) PROVE AccountsInv'
  <2>0. r.handle \in Handles /\ signals' = signals
    BY <1>11, SignalOfType DEF JudgeRejects
  <2>1. /\ r.handle \in Handles /\ signals' = signals /\ screening' = screening
        /\ judge' = [judge EXCEPT !.calls = @ + 1, !.rejected = @ + 1]
        /\ ~OutOfCalls /\ judging
    BY <1>11, SignalOfType DEF JudgeRejects
  <2>2. TurnedAway(r.handle, 0, 1)
    BY <1>11, <1>k, <2>1 DEF JudgeRejects, TurnedAway
  <2>3. /\ stats' \in [Handles -> AccountStats] /\ signals' \in Seq(SignalRecord)
        /\ \A h \in Handles : Account(h)'
        /\ AllSeen'
    BY <1>4, <1>z, <2>0, <2>2, Zenon
  <2>4. Judged'
    BY <1>1, <1>3, <2>1 DEF JudgeCounts, Judged, OutOfCalls
  <2>j. judge' \in JudgeCounts
    BY <1>3, <2>1, OneMoreCall
  <2>5. ScreenTypes'
    BY <1>1, <1>2, <2>1, <2>3, <2>j DEF ScreenTypes
  <2> QED
    BY <2>3, <2>4, <2>5 DEF AccountsInv
<1>12. ASSUME NEW called \in {0, 1}, NEW gaveUp \in {0, 1}, JudgeRaises(r, called, gaveUp) PROVE AccountsInv'
  <2>1. /\ r.handle \in Handles /\ signals' = signals /\ screening' = "raised"
        /\ judge' = [judge EXCEPT !.calls = @ + called, !.failed = @ + gaveUp]
        /\ ~OutOfCalls /\ judging
    BY <1>12, SignalOfType DEF JudgeRaises
  <2>2. TurnedAway(r.handle, 0, 0)
    BY <1>12, <1>k, <2>1 DEF JudgeRaises, TurnedAway
  <2>3. /\ stats' \in [Handles -> AccountStats] /\ signals' \in Seq(SignalRecord)
        /\ \A h \in Handles : Account(h)'
    BY <1>4, <1>z, <2>1, <2>2, Zenon
  <2>4. Judged' /\ AllSeen'
    BY <1>1, <1>3, <2>1 DEF JudgeCounts, Judged, OutOfCalls, AllSeen
  <2>j. judge' \in JudgeCounts
    BY <1>3, <2>1, OneMoreCall
  <2>5. ScreenTypes'
    BY <1>1, <1>2, <2>1, <2>3, <2>j DEF ScreenTypes
  <2> QED
    BY <2>3, <2>4, <2>5 DEF AccountsInv
<1> QED
  BY <1>6, <1>7, <1>8, <1>9, <1>10, <1>11, <1>12 DEF ReadRow

-------------------------------------------------------------------------------
(* Rankings.  A key is a tuple of two or three numbers; rows of a set to be *)
(* ranked differ in their handles.                                          *)

Keyed(k, m) == DOMAIN k = 1..m /\ \A i \in 1..m : k[i] \in Int

Rankable(S, m) ==
  /\ IsFiniteSet(S)
  /\ \A row \in S : Keyed(row.key, m)
  /\ \A row, other \in S : row.handle = other.handle => row = other

\* Nothing comes before itself, and what comes before something comes before what follows.
LEMMA AboveReflexive ==
  ASSUME NEW m \in {2, 3}, NEW k, Keyed(k, m)
  PROVE  Above(k, k)
  BY DEF Above, Keyed

LEMMA AboveTwo ==
  ASSUME NEW k, NEW l, Keyed(k, 2), Keyed(l, 2)
  PROVE  Above(k, l) <=> k[1] >= l[1] /\ (k[2] >= l[2] \/ k[1] > l[1])
<1>1. /\ 1 \in 1..2 /\ 2 \in 1..2 /\ \A i \in 1..2 : i = 1 \/ i = 2
      /\ 1..(1-1) = {} /\ 1..(2-1) = {1}
  OBVIOUS
<1>2. k[1] \in Int /\ k[2] \in Int /\ l[1] \in Int /\ l[2] \in Int /\ DOMAIN k = 1..2
  BY <1>1 DEF Keyed
<1>3. Above(k, l) <=> /\ k[1] < l[1] => \E j \in 1..(1-1) : k[j] > l[j]
                      /\ k[2] < l[2] => \E j \in 1..(2-1) : k[j] > l[j]
  BY <1>1, <1>2 DEF Above
<1> QED
  BY <1>1, <1>2, <1>3

LEMMA AboveThree ==
  ASSUME NEW k, NEW l, Keyed(k, 3), Keyed(l, 3)
  PROVE  Above(k, l) <=> /\ k[1] >= l[1] /\ (k[2] >= l[2] \/ k[1] > l[1])
                         /\ k[3] >= l[3] \/ k[1] > l[1] \/ k[2] > l[2]
<1>1. /\ 1 \in 1..3 /\ 2 \in 1..3 /\ 3 \in 1..3 /\ \A i \in 1..3 : i = 1 \/ i = 2 \/ i = 3
      /\ 1..(1-1) = {} /\ 1..(2-1) = {1} /\ 1..(3-1) = {1, 2}
  OBVIOUS
<1>2. /\ k[1] \in Int /\ k[2] \in Int /\ k[3] \in Int /\ l[1] \in Int /\ l[2] \in Int /\ l[3] \in Int
      /\ DOMAIN k = 1..3
  BY <1>1 DEF Keyed
<1>3. Above(k, l) <=> /\ k[1] < l[1] => \E j \in 1..(1-1) : k[j] > l[j]
                      /\ k[2] < l[2] => \E j \in 1..(2-1) : k[j] > l[j]
                      /\ k[3] < l[3] => \E j \in 1..(3-1) : k[j] > l[j]
  BY <1>1, <1>2 DEF Above
<1> QED
  BY <1>1, <1>2, <1>3

LEMMA AboveTransitive ==
  ASSUME NEW m \in {2, 3}, NEW k, NEW l, NEW p, Keyed(k, m), Keyed(l, m), Keyed(p, m),
         Above(k, l), Above(l, p)
  PROVE  Above(k, p)
<1>1. CASE m = 2
  <2>1. /\ k[1] \in Int /\ k[2] \in Int /\ l[1] \in Int /\ l[2] \in Int /\ p[1] \in Int /\ p[2] \in Int
    BY <1>1 DEF Keyed
  <2>2. /\ k[1] >= l[1] /\ (k[2] >= l[2] \/ k[1] > l[1])
        /\ l[1] >= p[1] /\ (l[2] >= p[2] \/ l[1] > p[1])
    BY <1>1, AboveTwo
  <2>3. k[1] >= p[1] /\ (k[2] >= p[2] \/ k[1] > p[1])
    BY <2>1, <2>2
  <2> QED
    BY <1>1, <2>3, AboveTwo
<1>2. CASE m = 3
  <2>1. /\ k[1] \in Int /\ k[2] \in Int /\ l[1] \in Int /\ l[2] \in Int /\ p[1] \in Int /\ p[2] \in Int
        /\ k[3] \in Int /\ l[3] \in Int /\ p[3] \in Int
    BY <1>2 DEF Keyed
  <2>2. /\ k[1] >= l[1] /\ (k[2] >= l[2] \/ k[1] > l[1])
        /\ k[3] >= l[3] \/ k[1] > l[1] \/ k[2] > l[2]
        /\ l[1] >= p[1] /\ (l[2] >= p[2] \/ l[1] > p[1])
        /\ l[3] >= p[3] \/ l[1] > p[1] \/ l[2] > p[2]
    BY <1>2, AboveThree
  <2>3. /\ k[1] >= p[1] /\ (k[2] >= p[2] \/ k[1] > p[1])
        /\ k[3] >= p[3] \/ k[1] > p[1] \/ k[2] > p[2]
    BY <2>1, <2>2
  <2> QED
    BY <1>2, <2>3, AboveThree
<1> QED
  BY <1>1, <1>2

\* A ranking has every row of the set once, and whatever comes first is above the rest.
LEMMA RankingOnce ==
  ASSUME NEW m \in {2, 3}, NEW S, Rankable(S, m), NEW q \in Rankings(S)
  PROVE  /\ q \in Seq(S) /\ Len(q) = Cardinality(S) /\ Cardinality(S) \in Nat /\ DOMAIN q = 1..Len(q)
         /\ Sorted(q)
         /\ \A i, j \in 1..Len(q) : q[i].handle = q[j].handle => i = j
         /\ \A row \in S : \E i \in 1..Len(q) : q[i] = row
         /\ \A i, j \in 1..Len(q) : i <= j => Above(q[i].key, q[j].key)
<1> DEFINE n == Cardinality(S)
<1>1. n \in Nat
  BY FS_CardinalityType DEF Rankable
<1>2. q \in [1..n -> S] /\ {q[i] : i \in DOMAIN q} = S /\ Sorted(q)
  BY DEF Rankings
<1> HIDE DEF n
<1>3. q \in Seq(S) /\ Len(q) = n /\ DOMAIN q = 1..n
  BY <1>1, <1>2
<1>4. \A row \in S : \E i \in 1..n : q[i] = row
  BY <1>2, <1>3
<1>5. \A i, j \in 1..n : q[i] = q[j] => i = j
  <2>1. q \in Surjection(1..n, S)
    BY <1>2, <1>4 DEF Surjection
  <2>2. IsFiniteSet(1..n) /\ Cardinality(1..n) = n
    BY <1>1, FS_Interval
  <2>3. q \in Injection(1..n, S)
    BY <2>1, <2>2, FS_Surjection DEF n
  <2> QED
    BY <2>3 DEF Injection, IsInjective
<1>6. \A i, j \in 1..n : q[i].handle = q[j].handle => i = j
  BY <1>2, <1>5 DEF Rankable
<1>7. ASSUME NEW i \in 1..n
      PROVE  \A j \in 1..n : i <= j => Above(q[i].key, q[j].key)
  <2> DEFINE T == {d \in 0..n : i + d <= n => Above(q[i].key, q[i + d].key)}
  <2>1. \A j \in 1..n : Keyed(q[j].key, m)
    BY <1>2 DEF Rankable
  <2>2. 0 \in T
    BY <1>1, <2>1, AboveReflexive
  <2>3. ASSUME NEW d \in 0..n, d + 1 \in 0..n, d \in T PROVE d + 1 \in T
    <3> SUFFICES ASSUME i + (d + 1) <= n PROVE Above(q[i].key, q[i + (d + 1)].key)
      BY <2>3
    <3>1. i + d \in 1..n /\ (i + d) + 1 \in 1..n /\ (i + d) + 1 = i + (d + 1) /\ i + d \in 1..(n - 1)
      BY <1>1
    <3>2. Above(q[i].key, q[i + d].key)
      BY <2>3, <3>1
    <3>3. Above(q[i + d].key, q[(i + d) + 1].key)
      BY <1>2, <1>3, <3>1 DEF Sorted
    <3> QED
      BY <2>1, <3>1, <3>2, <3>3, AboveTransitive
  <2> HIDE DEF T
  <2>4. 0..n \subseteq T
    BY <1>1, <2>2, <2>3, BoundedSetInduction
  <2>5. ASSUME NEW j \in 1..n, i <= j PROVE Above(q[i].key, q[j].key)
    <3>1. j - i \in 0..n /\ i + (j - i) = j
      BY <1>1, <2>5
    <3>2. j - i \in T
      BY <2>4, <3>1
    <3> QED
      BY <3>1, <3>2 DEF T
  <2> QED
    BY <2>5
<1> QED
  BY <1>1, <1>2, <1>3, <1>4, <1>6, <1>7 DEF n

\* What a cut of a ranking says of the rows.
CutOf(r, S, n) ==
  LET listed == {r[i].handle : i \in DOMAIN r} IN
  /\ r \in Seq(S) /\ Len(r) = Least(Cardinality(S), n)
  /\ Sorted(r) /\ Cardinality(listed) = Len(r)
  /\ listed \subseteq {row.handle : row \in S}
  /\ \A i, j \in 1..Len(r) : r[i].handle = r[j].handle => i = j
  /\ \A row \in S : row.handle \notin listed => \A i \in DOMAIN r : Above(r[i].key, row.key)

LEMMA FirstOf ==
  ASSUME NEW S, NEW q \in Seq(S), NEW n \in Nat
  PROVE  /\ First(q, n) \in Seq(S) /\ Len(First(q, n)) = Least(Len(q), n)
         /\ DOMAIN First(q, n) = 1..Least(Len(q), n)
         /\ \A i \in 1..Least(Len(q), n) : First(q, n)[i] = q[i]
<1> DEFINE l == IF n < Len(q) THEN n ELSE Len(q)
<1>1. l \in Nat /\ l <= Len(q) /\ l = Least(Len(q), n) /\ Len(q) \in Nat
  BY DEF Least
<1>2. First(q, n) = SubSeq(q, 1, l)
  BY DEF First
<1> HIDE DEF l
<1>3. /\ SubSeq(q, 1, l) \in Seq(S) /\ Len(SubSeq(q, 1, l)) = l
      /\ \A i \in 1..l : SubSeq(q, 1, l)[i] = q[i]
  BY <1>1
<1> QED
  BY <1>1, <1>2, <1>3

LEMMA CutListed ==
  ASSUME NEW m \in {2, 3}, NEW S, Rankable(S, m), NEW q \in Rankings(S), NEW n \in Nat
  PROVE  CutOf(First(q, n), S, n)
<1> DEFINE r == First(q, n)
           l == Least(Len(q), n)
           listed == {r[i].handle : i \in DOMAIN r}
<1>1. /\ q \in Seq(S) /\ Len(q) = Cardinality(S) /\ Cardinality(S) \in Nat /\ DOMAIN q = 1..Len(q)
      /\ Sorted(q)
      /\ \A i, j \in 1..Len(q) : q[i].handle = q[j].handle => i = j
      /\ \A row \in S : \E i \in 1..Len(q) : q[i] = row
      /\ \A i, j \in 1..Len(q) : i <= j => Above(q[i].key, q[j].key)
  BY RankingOnce
<1>2. r \in Seq(S) /\ Len(r) = l /\ DOMAIN r = 1..l /\ \A i \in 1..l : r[i] = q[i]
  <2>1. q \in Seq(S)
    BY <1>1
  <2> QED
    BY <2>1, FirstOf, Zenon
<1>3. l \in Nat /\ l <= Len(q)
  BY <1>1 DEF Least
<1> HIDE DEF r, l
<1>4. Sorted(r)
  <2>1. ASSUME NEW i \in 1..(Len(r) - 1) PROVE Above(r[i].key, r[i+1].key)
    <3>1. i \in 1..l /\ i + 1 \in 1..l /\ i \in 1..Len(q) /\ i + 1 \in 1..Len(q) /\ i <= i + 1
      BY <1>1, <1>2, <1>3
    <3> QED
      BY <1>1, <1>2, <3>1
  <2> QED
    BY <2>1 DEF Sorted
<1>5. \A i, j \in 1..l : r[i].handle = r[j].handle => i = j
  BY <1>1, <1>2, <1>3
<1>6. Cardinality(listed) = l
  <2> DEFINE f == [i \in 1..l |-> r[i].handle]
  <2>1. f \in [1..l -> listed] /\ \A x \in listed : \E i \in 1..l : f[i] = x
    BY <1>2
  <2>2. \A i, j \in 1..l : f[i] = f[j] => i = j
    BY <1>5
  <2> HIDE DEF f, listed
  <2>3. f \in Surjection(1..l, listed) /\ f \in Injection(1..l, listed)
    BY <2>1, <2>2 DEF Surjection, Injection, IsInjective
  <2>4. IsFiniteSet(1..l) /\ Cardinality(1..l) = l
    BY <1>3, FS_Interval
  <2> QED
    BY <2>3, <2>4, FS_Surjection
<1>7. listed \subseteq {row.handle : row \in S}
  BY <1>2
<1>8. ASSUME NEW row \in S, row.handle \notin listed, NEW i \in DOMAIN r
      PROVE  Above(r[i].key, row.key)
  <2>1. PICK j \in 1..Len(q) : q[j] = row
    BY <1>1
  <2>2. j \notin 1..l
    BY <1>2, <1>8, <2>1
  <2>3. i \in 1..l /\ i \in 1..Len(q) /\ i <= j
    BY <1>1, <1>2, <1>3, <2>2
  <2> QED
    BY <1>1, <1>2, <2>1, <2>3
<1>9. Len(r) = Least(Cardinality(S), n)
  BY <1>1, <1>2 DEF l
<1> QED
  BY <1>2, <1>4, <1>5, <1>6, <1>7, <1>8, <1>9 DEF CutOf, r

\* Cut once more, where nothing more is cut off or something is.
LEMMA CutTwice ==
  ASSUME NEW S, NEW q \in Seq(S), NEW n \in Nat
  PROVE  First(First(q, n), n) = First(q, n)
<1>1. First(q, n) \in Seq(S) /\ Len(First(q, n)) = Least(Len(q), n)
  BY FirstOf, Zenon
<1> DEFINE p == First(q, n)
<1> HIDE DEF p
<1>2. p \in Seq(S) /\ Len(p) \in Nat /\ Len(p) <= n
  <2>1. Len(q) \in Nat
    OBVIOUS
  <2> QED
    BY <1>1, <2>1 DEF p, Least
<1>3. First(p, n) = SubSeq(p, 1, Len(p))
  BY <1>2 DEF First
<1>4. SubSeq(p, 1, Len(p)) = p
  BY <1>2
<1> QED
  BY <1>3, <1>4 DEF p

\* Values that are bounded have a greatest one.
LEMMA GreatestValue ==
  ASSUME NEW D, IsFiniteSet(D), NEW f \in [D -> Nat], NEW y \in D
  PROVE  \E x \in D : \A z \in D : f[z] <= f[x]
<1> DEFINE W == {b \in Nat : \A z \in D : f[z] <= b}
<1>1. W # {}
  BY SumOfNaturals
<1>2. PICK b \in W : \A c \in W : b <= c
  <2> HIDE DEF W
  <2>1. W \in SUBSET Nat
    BY DEF W
  <2> QED
    BY <1>1, <2>1, LeastOfNaturals
<1>3. b \in Nat /\ \A z \in D : f[z] <= b /\ f[z] \in Nat
  BY <1>2
<1> SUFFICES ASSUME \A x \in D : f[x] # b PROVE FALSE
  BY <1>3
<1>4. b - 1 \in Nat /\ \A z \in D : f[z] <= b - 1
  BY <1>3
<1> QED
  BY <1>2, <1>3, <1>4

\* What an account is ranked by is a number.
LEMMA ShareType ==
  ASSUME NEW part \in Nat, NEW whole \in Nat, NEW weight \in Nat
  PROVE  Share(part, whole, weight) \in Nat
<1>1. part * weight * 1000 \in Nat /\ AtLeast(1, whole) \in Nat /\ AtLeast(1, whole) > 0
  BY DEF AtLeast
<1> QED
  BY <1>1, DivisionRoundsDown DEF Share

LEMMA ScoresAreNumbers ==
  ASSUME NEW d \in AccountStats
  PROVE  ProxyScore(d) \in Int /\ FinalScore(d) \in Int
<1>1. /\ d.tweets_seen \in Nat /\ d.noise_rejected \in Nat /\ d.signals \in Nat /\ d.score \in Nat
      /\ d.deadline_signals \in Nat /\ d.falsifiable_signals \in Nat /\ d.domains \in [Domains -> Nat]
  BY DEF AccountStats
<1>2. TopDomain(d) \in Nat
  <2>1. IsFiniteSet(Domains) /\ "Other" \in Domains
    BY ScreeningAssumption
  <2>2. \E x \in Domains : \A z \in Domains : d.domains[z] <= d.domains[x]
    BY <1>1, <2>1, GreatestValue
  <2>3. \E n \in {d.domains[x] : x \in Domains} : \A x \in Domains : d.domains[x] <= n
    BY <2>2
  <2>4. TopDomain(d) \in {d.domains[x] : x \in Domains}
    BY <2>3 DEF TopDomain
  <2> QED
    BY <1>1, <2>4
<1>3. SumDomains(d) \in Nat
  BY <1>1, ScreeningAssumption, SumOfNaturals DEF SumDomains
<1>4. /\ Share(d.signals, d.tweets_seen, 100) \in Nat /\ Share(d.falsifiable_signals, d.signals, 20) \in Nat
      /\ Share(d.deadline_signals, d.signals, 10) \in Nat /\ Share(TopDomain(d), d.signals, 5) \in Nat
      /\ Share(d.noise_rejected, d.tweets_seen, 10) \in Nat /\ Share(d.signals, d.tweets_seen, 120) \in Nat
      /\ Share(d.falsifiable_signals, d.signals, 30) \in Nat /\ Share(d.deadline_signals, d.signals, 15) \in Nat
      /\ Share(TopDomain(d), SumDomains(d), 10) \in Nat /\ Share(d.noise_rejected, d.tweets_seen, 30) \in Nat
  BY <1>1, <1>2, <1>3, ShareType
<1> QED
  BY <1>1, <1>4 DEF ProxyScore, FinalScore

LEMMA RowsRankable ==
  ASSUME stats \in [Handles -> AccountStats]
  PROVE  Rankable(Leaders, 3) /\ Rankable(Listable, 2)
<1> DEFINE K == Known
           L == {h \in Known : stats[h].signals >= MinSignals}
           KeyThree(h) == <<ProxyScore(stats[h]), stats[h].score, stats[h].signals>>
           KeyTwo(h) == <<FinalScore(stats[h]), stats[h].signals>>
<1>1. /\ IsFiniteSet(Handles) /\ K \subseteq Handles /\ L \subseteq Handles
  BY ScreeningAssumption DEF Known
<1>2. IsFiniteSet(K) /\ IsFiniteSet(L)
  BY <1>1, FS_Subset
<1>3. ASSUME NEW h \in Handles
      PROVE  Keyed(KeyThree(h), 3) /\ Keyed(KeyTwo(h), 2)
  <2>1. ProxyScore(stats[h]) \in Int /\ FinalScore(stats[h]) \in Int
    BY ScoresAreNumbers
  <2>2. stats[h].score \in Int /\ stats[h].signals \in Int
    BY DEF AccountStats
  <2>3. /\ DOMAIN KeyThree(h) = 1..3 /\ DOMAIN KeyTwo(h) = 1..2
        /\ \A i \in 1..3 : i = 1 \/ i = 2 \/ i = 3
        /\ \A i \in 1..2 : i = 1 \/ i = 2
    OBVIOUS
  <2>4. /\ KeyThree(h)[1] = ProxyScore(stats[h]) /\ KeyThree(h)[2] = stats[h].score
        /\ KeyThree(h)[3] = stats[h].signals /\ KeyTwo(h)[1] = FinalScore(stats[h])
        /\ KeyTwo(h)[2] = stats[h].signals
    OBVIOUS
  <2> HIDE DEF KeyThree, KeyTwo
  <2>5. /\ \A i \in 1..3 : KeyThree(h)[i] \in Int
        /\ \A i \in 1..2 : KeyTwo(h)[i] \in Int
    BY <2>1, <2>2, <2>3, <2>4
  <2> QED
    BY <2>3, <2>5 DEF Keyed
<1>4. /\ Leaders = {RowOf(h, KeyThree(h)) : h \in K} /\ Listable = {RowOf(h, KeyTwo(h)) : h \in L}
  BY DEF Leaders, Listable
<1> HIDE DEF K, L, KeyThree, KeyTwo
<1>5. \A h, k : RowOf(h, k).handle = h /\ RowOf(h, k).key = k
  BY DEF RowOf
<1>6. IsFiniteSet(Leaders)
  <2> DEFINE f == [h \in K |-> RowOf(h, KeyThree(h))]
  <2>1. f \in Surjection(K, Leaders)
    BY <1>4 DEF Surjection
  <2> QED
    BY <1>2, <2>1, FS_Surjection
<1>7. IsFiniteSet(Listable)
  <2> DEFINE f == [h \in L |-> RowOf(h, KeyTwo(h))]
  <2>1. f \in Surjection(L, Listable)
    BY <1>4 DEF Surjection
  <2> QED
    BY <1>2, <2>1, FS_Surjection
<1>8. /\ \A row \in Leaders : Keyed(row.key, 3)
      /\ \A row, other \in Leaders : row.handle = other.handle => row = other
  BY <1>1, <1>3, <1>4, <1>5
<1>9. /\ \A row \in Listable : Keyed(row.key, 2)
      /\ \A row, other \in Listable : row.handle = other.handle => row = other
  BY <1>1, <1>3, <1>4, <1>5
<1> QED
  BY <1>6, <1>7, <1>8, <1>9 DEF Rankable

IsRow(row) ==
  row = [handle |-> row.handle, signals |-> row.signals, key |-> row.key, ranker |-> row.ranker]

\* The language model changes the first number of the key and says who ranked.
LEMMA RerankedRow ==
  ASSUME NEW row, IsRow(row), Keyed(row.key, 2), NEW n \in Nat, NEW by
  PROVE  /\ [row EXCEPT !.ranker = by].handle = row.handle
         /\ [row EXCEPT !.ranker = by].key = row.key
         /\ [row EXCEPT !.ranker = by, !.key[1] = n].handle = row.handle
         /\ Keyed([row EXCEPT !.ranker = by, !.key[1] = n].key, 2)
<1>1. [row EXCEPT !.ranker = by] =
        [handle |-> row.handle, signals |-> row.signals, key |-> row.key, ranker |-> by]
  BY DEF IsRow
<1>2. [row EXCEPT !.ranker = by, !.key[1] = n] =
        [handle |-> row.handle, signals |-> row.signals, key |-> [row.key EXCEPT ![1] = n], ranker |-> by]
  <2> DEFINE mid == [row EXCEPT !.ranker = by]
             key == [row.key EXCEPT ![1] = n]
  <2>1. mid = [handle |-> row.handle, signals |-> row.signals, key |-> row.key, ranker |-> by]
    BY <1>1
  <2>2. [row EXCEPT !.ranker = by, !.key[1] = n] = [mid EXCEPT !.key = key]
    OBVIOUS
  <2> HIDE DEF mid, key
  <2>3. [mid EXCEPT !.key = key] =
          [handle |-> row.handle, signals |-> row.signals, key |-> key, ranker |-> by]
    BY <2>1
  <2> QED
    BY <2>2, <2>3 DEF key
<1>3. Keyed([row.key EXCEPT ![1] = n], 2)
  BY DEF Keyed
<1> QED
  BY <1>1, <1>2, <1>3

LEMMA RerankedRows ==
  ASSUME NEW S, Rankable(S, 2), \A row \in S : IsRow(row),
         NEW p, NEW c, CutOf(p, S, c), limits.candidates \in Nat,
         NEW scoreOf \in [DOMAIN p -> {<<>>} \cup {<<n>> : n \in RerankScores}]
  PROVE  LET T == {Reranked(p, scoreOf)[i] : i \in DOMAIN Reranked(p, scoreOf)}
         IN  /\ Rankable(T, 2) /\ Cardinality(T) = Len(p)
             /\ \A row \in T : \E old \in S : row.handle = old.handle
<1> DEFINE W == Reranked(p, scoreOf)
           T == {W[i] : i \in DOMAIN W}
           n == Len(p)
<1>1. /\ p \in Seq(S) /\ n \in Nat /\ DOMAIN p = 1..n /\ \A i \in 1..n : p[i] \in S
      /\ \A i, j \in 1..n : p[i].handle = p[j].handle => i = j
  BY DEF CutOf
<1> HIDE DEF n
<1>2. DOMAIN W = 1..n
  BY <1>1 DEF Reranked
<1>3. ASSUME NEW i \in 1..n PROVE W[i].handle = p[i].handle /\ Keyed(W[i].key, 2)
  <2>1. IsRow(p[i]) /\ Keyed(p[i].key, 2)
    BY <1>1 DEF Rankable
  <2>2. W[i] = IF i > limits.candidates THEN [p[i] EXCEPT !.ranker = "heuristic_not_llm_scored"]
               ELSE IF scoreOf[i] = <<>> THEN [p[i] EXCEPT !.ranker = "llm_failed"]
               ELSE [p[i] EXCEPT !.ranker = "llm", !.key[1] = scoreOf[i][1]]
    BY <1>1 DEF Reranked
  <2>3. CASE i > limits.candidates
    <3>1. W[i] = [p[i] EXCEPT !.ranker = "heuristic_not_llm_scored"]
      BY <2>2, <2>3
    <3> QED
      BY <2>1, <3>1, RerankedRow
  <2>4. CASE ~(i > limits.candidates) /\ scoreOf[i] = <<>>
    <3>1. W[i] = [p[i] EXCEPT !.ranker = "llm_failed"]
      BY <2>2, <2>4
    <3> QED
      BY <2>1, <3>1, RerankedRow
  <2>5. CASE ~(i > limits.candidates) /\ scoreOf[i] # <<>>
    <3>1. W[i] = [p[i] EXCEPT !.ranker = "llm", !.key[1] = scoreOf[i][1]]
      BY <2>2, <2>5
    <3>2. PICK m \in RerankScores : scoreOf[i] = <<m>>
      BY <1>1, <2>5
    <3>3. scoreOf[i][1] \in Nat
      BY <3>2, ScreeningAssumption
    <3> QED
      BY <2>1, <3>1, <3>3, RerankedRow
  <2> QED
    BY <2>3, <2>4, <2>5
<1> HIDE DEF W
<1>4. W \in Surjection(1..n, T)
  <2>1. W = [i \in 1..n |-> W[i]]
    BY <1>1 DEF W, Reranked
  <2>2. \A x \in T : \E i \in 1..n : W[i] = x
    BY <1>2
  <2>3. \A i \in 1..n : W[i] \in T
    BY <1>2
  <2> HIDE DEF T
  <2> QED
    BY <2>1, <2>2, <2>3 DEF Surjection
<1>5. \A i, j \in 1..n : W[i].handle = W[j].handle => i = j
  BY <1>1, <1>3
<1>6. W \in Injection(1..n, T)
  BY <1>4, <1>5 DEF Surjection, Injection, IsInjective
<1>7. IsFiniteSet(1..n) /\ Cardinality(1..n) = n
  <2>1. n \in Int /\ 1 \in Int /\ (IF 1 > n THEN 0 ELSE n - 1 + 1) = n
    BY <1>1
  <2> QED
    BY <2>1, FS_Interval
<1>8. IsFiniteSet(T) /\ Cardinality(T) = n
  <2> HIDE DEF T
  <2> QED
    BY <1>4, <1>6, <1>7, FS_Surjection
<1>9. /\ \A row \in T : Keyed(row.key, 2)
      /\ \A row, other \in T : row.handle = other.handle => row = other
  BY <1>2, <1>3, <1>5
<1>10. \A row \in T : \E old \in S : row.handle = old.handle
  BY <1>1, <1>2, <1>3
<1> QED
  BY <1>8, <1>9, <1>10 DEF Rankable, W, n

\* While the rows wait to be listed, they are the first ones of a ranking.
RankedFirst ==
  screening = "ranking" =>
    /\ tool = "find_kols"
    /\ \E q \in Rankings(Listable) :
         ranked = First(q, IF ranker = "llm" THEN AtLeast(limits.count, limits.candidates) ELSE limits.count)

ScreenInv == AccountsInv /\ RankedFirst /\ RankingComplete

\* What is written was made of the accounts as they are.
LEMMA WritingKeeps ==
  ASSUME AccountsInv, screening # "raised", screening' \in {"ranking", "written"},
         UNCHANGED <<tool, judging, ranker, limits, rowsRead, stats, signals, judge>>
  PROVE  /\ AccountsInv' /\ Leaders' = Leaders /\ Listable' = Listable
<1>1. ScreenTypes' /\ Judged' /\ AllSeen'
  BY DEF AccountsInv, ScreenTypes, Judged, AllSeen, SignalsOf
<1>2. \A h \in Handles : /\ SignalsOf(h)' = SignalsOf(h) /\ CountedOf(h)' = CountedOf(h)
                         /\ ScoreOf(h)' = ScoreOf(h)
  BY DEF ScoreOf, CountedOf, SignalsOf, InWanted
<1>3. ASSUME NEW h \in Handles PROVE Account(h)'
  <2>1. Account(h)
    BY DEF AccountsInv
  <2> QED
    BY <1>2, <2>1 DEF Account
<1>4. Leaders' = Leaders /\ Listable' = Listable
  BY DEF Leaders, Listable, Known, RowOf
<1> QED
  BY <1>1, <1>3, <1>4 DEF AccountsInv

LEMMA LimitsAreNumbers ==
  ASSUME ScreenTypes
  PROVE  limits.count \in Nat /\ limits.candidates \in Nat
<1>1. limits \in [count : Nat, candidates : Nat]
  BY ScreeningAssumption DEF ScreenTypes
<1> QED
  BY <1>1

LEMMA ListableAreRows == \A row \in Listable : IsRow(row)
  BY DEF Listable, RowOf, IsRow

LEMMA WriteFilesKeeps ==
  ASSUME ScreenInv, WriteFiles
  PROVE  ScreenInv'
<1>1. /\ AccountsInv /\ stats \in [Handles -> AccountStats] /\ tool = "run_mvp" /\ tool' = tool
      /\ ranked' \in Rankings(Leaders) /\ screening' = "written" /\ screening = "reading"
  BY DEF ScreenInv, AccountsInv, ScreenTypes, WriteFiles
<1>2. AccountsInv' /\ Leaders' = Leaders /\ Listable' = Listable
  BY <1>1, WritingKeeps DEF WriteFiles
<1>3. Rankable(Leaders, 3)
  BY <1>1, RowsRankable
<1> DEFINE q == ranked'
           c == Cardinality(Leaders)
<1>4. q \in Seq(Leaders) /\ Len(q) = c /\ c \in Nat
  BY <1>1, <1>3, RankingOnce
<1>5. First(q, c) = q
  <2>1. First(q, c) = SubSeq(q, 1, Len(q))
    BY <1>4 DEF First
  <2> HIDE DEF q, c
  <2> QED
    BY <1>4, <2>1
<1>6. CutOf(q, Leaders, c)
  BY <1>1, <1>3, <1>4, <1>5, CutListed
<1>7. RankingComplete'
  BY <1>1, <1>2, <1>4, <1>6 DEF RankingComplete, CutOf
<1>8. RankedFirst'
  BY <1>1 DEF RankedFirst
<1> QED
  BY <1>2, <1>7, <1>8 DEF ScreenInv

LEMMA RankCandidatesKeeps ==
  ASSUME ScreenInv, RankCandidates
  PROVE  ScreenInv'
<1>1. /\ AccountsInv /\ tool = "find_kols" /\ screening' = "ranking" /\ screening = "reading"
      /\ tool' = tool /\ ranker' = ranker /\ limits' = limits
  BY DEF ScreenInv, RankCandidates
<1>2. AccountsInv' /\ Leaders' = Leaders /\ Listable' = Listable
  BY <1>1, WritingKeeps DEF RankCandidates
<1>3. RankedFirst'
  BY <1>1, <1>2 DEF RankedFirst, RankCandidates
<1>4. RankingComplete'
  BY <1>1 DEF RankingComplete
<1> QED
  BY <1>2, <1>3, <1>4 DEF ScreenInv

LEMMA WriteRankingKeeps ==
  ASSUME ScreenInv, WriteRanking
  PROVE  ScreenInv'
<1>1. /\ AccountsInv /\ ScreenTypes /\ stats \in [Handles -> AccountStats] /\ tool = "find_kols" /\ tool' = tool
      /\ screening = "ranking" /\ screening' = "written" /\ ranker = "heuristic" /\ ranker' = ranker
      /\ limits' = limits /\ ranked' = First(ranked, limits.count)
  BY DEF ScreenInv, AccountsInv, ScreenTypes, WriteRanking
<1>2. AccountsInv' /\ Leaders' = Leaders /\ Listable' = Listable
  BY <1>1, WritingKeeps DEF WriteRanking
<1>3. Rankable(Listable, 2) /\ limits.count \in Nat
  BY <1>1, RowsRankable, LimitsAreNumbers
<1>4. PICK q \in Rankings(Listable) : ranked = First(q, limits.count)
  BY <1>1 DEF ScreenInv, RankedFirst
<1>5. q \in Seq(Listable)
  BY <1>3, RankingOnce
<1>6. ranked' = First(q, limits.count)
  BY <1>1, <1>3, <1>4, <1>5, CutTwice
<1>7. CutOf(ranked', Listable, limits.count)
  BY <1>3, <1>6, CutListed
<1>8. RankingComplete'
  BY <1>1, <1>2, <1>7 DEF RankingComplete, CutOf, Least
<1>9. RankedFirst'
  BY <1>1 DEF RankedFirst
<1> QED
  BY <1>2, <1>8, <1>9 DEF ScreenInv

LEMMA WriteRerankedKeeps ==
  ASSUME ScreenInv, WriteReranked
  PROVE  ScreenInv'
<1>1. /\ AccountsInv /\ ScreenTypes /\ stats \in [Handles -> AccountStats] /\ tool = "find_kols" /\ tool' = tool
      /\ screening = "ranking" /\ screening' = "written" /\ ranker = "llm" /\ ranker' = ranker
      /\ limits' = limits
  BY DEF ScreenInv, AccountsInv, ScreenTypes, WriteReranked
<1>2. AccountsInv' /\ Leaders' = Leaders /\ Listable' = Listable
  BY <1>1, WritingKeeps DEF WriteReranked
<1>3. Rankable(Listable, 2) /\ limits.count \in Nat /\ limits.candidates \in Nat
  BY <1>1, RowsRankable, LimitsAreNumbers
<1> DEFINE most == AtLeast(limits.count, limits.candidates)
<1>4. most \in Nat /\ limits.count <= most
  BY <1>3 DEF AtLeast
<1>5. PICK q \in Rankings(Listable) : ranked = First(q, most)
  BY <1>1 DEF ScreenInv, RankedFirst
<1> HIDE DEF most
<1>6. CutOf(ranked, Listable, most)
  BY <1>3, <1>4, <1>5, CutListed
<1>7. PICK scoreOf \in [DOMAIN ranked -> {<<>>} \cup {<<n>> : n \in RerankScores}] :
        \E p \in Resorted(Reranked(ranked, scoreOf)) : ranked' = First(p, limits.count)
  BY DEF WriteReranked
<1> DEFINE W == Reranked(ranked, scoreOf)
           T == {W[i] : i \in DOMAIN W}
<1>8. /\ Rankable(T, 2) /\ Cardinality(T) = Len(ranked)
      /\ \A row \in T : \E old \in Listable : row.handle = old.handle
  BY <1>3, <1>6, RerankedRows, ListableAreRows
<1>9. PICK p \in Rankings(T) : ranked' = First(p, limits.count)
  BY <1>7 DEF Resorted
<1> HIDE DEF T, W
<1>10. CutOf(ranked', T, limits.count)
  BY <1>3, <1>8, <1>9, CutListed
<1>11. Len(ranked') = Least(Cardinality(Listable), limits.count)
  <2>1. Cardinality(Listable) \in Nat
    BY <1>3, FS_CardinalityType DEF Rankable
  <2>2. Len(ranked') = Least(Least(Cardinality(Listable), most), limits.count)
    BY <1>6, <1>8, <1>10 DEF CutOf
  <2> QED
    BY <1>3, <1>4, <2>1, <2>2 DEF Least
<1>12. {ranked'[i].handle : i \in DOMAIN ranked'} \subseteq {row.handle : row \in Listable}
  <2>1. {ranked'[i].handle : i \in DOMAIN ranked'} \subseteq {row.handle : row \in T}
    BY <1>10 DEF CutOf
  <2>2. {row.handle : row \in T} \subseteq {row.handle : row \in Listable}
    BY <1>8
  <2> QED
    BY <2>1, <2>2
<1>13. Sorted(ranked') /\ Cardinality({ranked'[i].handle : i \in DOMAIN ranked'}) = Len(ranked')
  BY <1>10 DEF CutOf
<1>14. RankingComplete'
  BY <1>1, <1>2, <1>11, <1>12, <1>13 DEF RankingComplete, Least
<1>15. RankedFirst'
  BY <1>1 DEF RankedFirst
<1> QED
  BY <1>2, <1>14, <1>15 DEF ScreenInv

LEMMA ScreenStart == ScreenInit => ScreenInv
  BY AccountsStart DEF ScreenInit, ScreenInv, RankedFirst, RankingComplete

LEMMA ScreenStep == ScreenInv /\ [ScreenNext]_screenVars => ScreenInv'
<1> SUFFICES ASSUME ScreenInv, [ScreenNext]_screenVars PROVE ScreenInv'
  OBVIOUS
<1>1. ASSUME NEW r \in Rows, ReadRow(r) PROVE ScreenInv'
  <2>1. AccountsInv'
    BY <1>1, ReadKeepsAccounts DEF ScreenInv
  <2>2. screening' \in {"reading", "raised"}
    BY <1>1 DEF ReadRow, ReadNoise, ReadWeak, ReadNameless, KeepUnjudged, JudgeRaises, JudgeKeeps,
                JudgeRejects, ReadsOne
  <2> QED
    BY <2>1, <2>2 DEF ScreenInv, RankedFirst, RankingComplete
<1>2. CASE UNCHANGED screenVars
  <2>1. /\ UNCHANGED <<tool, judging, ranker, limits, rowsRead, stats, signals, judge, ranked, screening>>
    BY <1>2 DEF screenVars
  <2>2. Leaders' = Leaders /\ Listable' = Listable
    BY <2>1 DEF Leaders, Listable, Known, RowOf
  <2>3. RankedFirst' /\ RankingComplete'
    BY <2>1, <2>2 DEF ScreenInv, RankedFirst, RankingComplete
  <2>4. ScreenTypes' /\ Judged' /\ AllSeen'
    BY <2>1 DEF ScreenInv, AccountsInv, ScreenTypes, Judged, AllSeen, SignalsOf
  <2>5. \A h \in Handles : /\ SignalsOf(h)' = SignalsOf(h) /\ CountedOf(h)' = CountedOf(h)
                           /\ ScoreOf(h)' = ScoreOf(h)
    BY <2>1 DEF ScoreOf, CountedOf, SignalsOf, InWanted
  <2>6. ASSUME NEW h \in Handles PROVE Account(h)'
    <3>1. Account(h)
      BY DEF ScreenInv, AccountsInv
    <3> QED
      BY <2>1, <2>5, <3>1 DEF Account
  <2> QED
    BY <2>3, <2>4, <2>6 DEF ScreenInv, AccountsInv
<1> QED
  BY <1>1, <1>2, WriteFilesKeeps, RankCandidatesKeeps, WriteRankingKeeps, WriteRerankedKeeps DEF ScreenNext

\* For any accounts, tweets, judge and limits, and whatever the language model makes of the
\* ranking: the numbers of an account are those of its tweets and signals, the judge's
\* calls are counted and within their limit, and what is written has its accounts once,
\* sorted, as many as there are or were asked for; without the language model nobody left
\* out comes before anybody listed.
THEOREM ScreeningIsSound == ScreenSpec => []ScreeningAddsUp
<1>1. ScreenInv => ScreeningAddsUp
  BY DEF ScreenInv, AccountsInv, Account, Judged, AllSeen, ScreeningAddsUp, ScreeningAccounts
<1> QED
  BY <1>1, ScreenStart, ScreenStep, PTL DEF ScreenSpec
===============================================================================
