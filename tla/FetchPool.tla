------------------------------- MODULE FetchPool -------------------------------
(***************************************************************************)
(* The threads of fetch_complete_tweets.py: a pool of workers fetches the   *)
(* users' tweets, every attempt at a request waits for the limiter, failed  *)
(* attempts are repeated, and the main thread writes what the workers       *)
(* return, in the order in which they finish.                               *)
(*                                                                         *)
(* A user needs some number of pages (TweetFetch says which).  Time passes  *)
(* by TimePasses; only distances are kept: how long until the limiter lets  *)
(* the next one through, and how long since the last one.                       *)
(***************************************************************************)
EXTENDS Naturals, FiniteSets

\* No thread holds the limiter's lock.
Nobody == "nobody"

CONSTANTS
  Users,        \* read_usernames: every name once
  Workers,
  MostPages,    \* bound: pages a user needs
  MaxRetries,   \* max_retries of request_json
  Interval,     \* 1 / qps
  MaxJitter,
  LongBackoff   \* bound: longest sleep between attempts

ASSUME FetchPoolAssumption ==
  /\ IsFiniteSet(Users) /\ Users # {} /\ Nobody \notin Users
  /\ Workers \in Nat \ {0} /\ MostPages \in Nat /\ MaxRetries \in Nat \ {0, 1}
  /\ Interval \in Nat \ {0} /\ MaxJitter \in Nat /\ LongBackoff \in Nat

VARIABLES
  stage,        \* what a user's fetch is at
  pagesLeft,
  attempt,
  backoff,      \* how long a sleep between attempts goes on
  holder,       \* who sleeps in the limiter, with its lock
  untilNext,    \* time until next_time, 0 if it is past
  sinceGrant,   \* time since the limiter let one through, counted up to Interval
  spaced,       \* nobody was let through too early
  lines,        \* how much of a user's tweets is in the file
  failed,       \* users in the list of failures, with how often
  failedFile,   \* what the file of failures holds
  finished      \* the program has ended

poolVars == <<stage, pagesLeft, attempt, backoff, holder, untilNext, sinceGrant, spaced,
              lines, failed, failedFile, finished>>

\* What a server or the network can answer an attempt with.
Answers == {"ok", "401", "429", "5xx", "4xx", "network", "malformed"}

PoolInit ==
  /\ stage = [u \in Users |-> "queued"]
  /\ pagesLeft \in [Users -> 0..MostPages]
  /\ attempt = [u \in Users |-> 0]
  /\ backoff = [u \in Users |-> 0]
  /\ holder = Nobody /\ untilNext = 0 /\ sinceGrant = Interval /\ spaced = TRUE
  /\ lines = [u \in Users |-> "none"] /\ failed = [u \in Users |-> 0]
  /\ failedFile \in {{}, Users}
  /\ finished = FALSE

-------------------------------------------------------------------------------
limiterVars == <<holder, untilNext, sinceGrant, spaced>>
outputVars == <<lines, failed, failedFile, finished>>

AtWork == {u \in Users : stage[u] \in {"ready", "limited", "sent", "sleeping"}}

\* The next request of a user, or the end of the fetch.
StageFor(pages) == IF pages = 0 THEN "fetched" ELSE "ready"

\* A worker takes a user off the queue.
StartUser(u) ==
  /\ stage[u] = "queued"
  /\ Cardinality(AtWork) < Workers
  /\ stage' = [stage EXCEPT ![u] = StageFor(pagesLeft[u])]
  /\ attempt' = [attempt EXCEPT ![u] = 1]
  /\ UNCHANGED <<pagesLeft, backoff>> /\ UNCHANGED limiterVars /\ UNCHANGED outputVars

\* QpsLimiter.wait: the lock is held during the sleep.
EnterLimiter(u) ==
  /\ stage[u] = "ready" /\ holder = Nobody
  /\ holder' = u
  /\ stage' = [stage EXCEPT ![u] = "limited"]
  /\ UNCHANGED <<pagesLeft, attempt, backoff, untilNext, sinceGrant, spaced>>
  /\ UNCHANGED outputVars

\* Plausible bug: the lock is all that keeps threads apart.
MayPassLocked == holder # Nobody

MayPass == untilNext = 0

LeaveLimiter(u, jitter) ==
  /\ holder = u /\ MayPass
  /\ holder' = Nobody
  /\ untilNext' = Interval + jitter
  /\ sinceGrant' = 0
  /\ spaced' = (spaced /\ sinceGrant = Interval)
  /\ stage' = [stage EXCEPT ![u] = "sent"]
  /\ UNCHANGED <<pagesLeft, attempt, backoff>> /\ UNCHANGED outputVars

\* request_json: whether an attempt that got this answer is repeated.  A 429 always
\* is, but after the last attempt there is none.
Repeats(answer, n) ==
  \/ answer = "401" /\ n < 2
  \/ answer \in {"429", "5xx", "network"} /\ n < MaxRetries

\* Plausible bug: attempts that are told to come back later are not counted.
AttemptUncounted(u) == attempt[u]

AttemptAfter(u) == attempt[u] + 1

RequestAnswered(u, answer, sleep) ==
  /\ stage[u] = "sent"
  /\ IF answer = "ok" THEN
       /\ pagesLeft' = [pagesLeft EXCEPT ![u] = @ - 1]
       /\ stage' = [stage EXCEPT ![u] = StageFor(pagesLeft[u] - 1)]
       /\ attempt' = [attempt EXCEPT ![u] = 1]
       /\ UNCHANGED backoff
     ELSE IF Repeats(answer, attempt[u]) THEN
       /\ stage' = [stage EXCEPT ![u] = "sleeping"]
       /\ attempt' = [attempt EXCEPT ![u] = AttemptAfter(u)]
       /\ backoff' = [backoff EXCEPT ![u] = sleep]
       /\ UNCHANGED pagesLeft
     ELSE
       /\ stage' = [stage EXCEPT ![u] = "raised"]
       /\ UNCHANGED <<pagesLeft, attempt, backoff>>
  /\ UNCHANGED limiterVars /\ UNCHANGED outputVars

Wakes(u) ==
  /\ stage[u] = "sleeping" /\ backoff[u] = 0
  /\ stage' = [stage EXCEPT ![u] = "ready"]
  /\ UNCHANGED <<pagesLeft, attempt, backoff>> /\ UNCHANGED limiterVars /\ UNCHANGED outputVars

Less(n) == IF n > 0 THEN n - 1 ELSE 0

\* Time passes for the limiter and for those asleep.
TimePasses ==
  /\ untilNext > 0 \/ sinceGrant < Interval \/ \E u \in Users : backoff[u] > 0
  /\ untilNext' = Less(untilNext)
  /\ sinceGrant' = IF sinceGrant < Interval THEN sinceGrant + 1 ELSE Interval
  /\ backoff' = [u \in Users |-> Less(backoff[u])]
  /\ UNCHANGED <<stage, pagesLeft, attempt, holder, spaced>> /\ UNCHANGED outputVars

\* The loop over as_completed takes the result of a user: the tweets, which are written
\* one by one, or the exception of the fetch.
CollectTweets(u) ==
  /\ stage[u] = "fetched"
  /\ lines' = [lines EXCEPT ![u] = "all"]
  /\ UNCHANGED failed

\* The same try encloses the writing: whatever raises there, at a tweet or at the flush
\* behind the last one, makes the user a failure with lines in the file.
WritingFails(u) ==
  /\ stage[u] = "fetched"
  /\ \E much \in {"part", "all"} : lines' = [lines EXCEPT ![u] = much]
  /\ failed' = [failed EXCEPT ![u] = @ + 1]

CollectFailure(u) ==
  /\ stage[u] = "raised"
  /\ failed' = [failed EXCEPT ![u] = @ + 1]
  /\ UNCHANGED lines

Collect(u) ==
  /\ CollectTweets(u) \/ WritingFails(u) \/ CollectFailure(u)
  /\ stage' = [stage EXCEPT ![u] = "collected"]
  /\ UNCHANGED <<pagesLeft, attempt, backoff, failedFile, finished>> /\ UNCHANGED limiterVars

Failures == {u \in Users : failed[u] > 0}

\* The file of failures is written if there are any: otherwise it stays as the last
\* program left it.
Finish ==
  /\ ~finished
  /\ \A u \in Users : stage[u] = "collected"
  /\ failedFile' = IF Failures # {} THEN Failures ELSE failedFile
  /\ finished' = TRUE
  /\ UNCHANGED <<stage, pagesLeft, attempt, backoff, lines, failed>>
  /\ UNCHANGED limiterVars

WorkerStep(u) ==
  \/ StartUser(u) \/ EnterLimiter(u) \/ Wakes(u)
  \/ \E jitter \in 0..MaxJitter : LeaveLimiter(u, jitter)
  \/ \E a \in Answers, sleep \in 0..LongBackoff : RequestAnswered(u, a, sleep)

PoolNext == (\E u \in Users : WorkerStep(u) \/ Collect(u)) \/ TimePasses \/ Finish

\* Threads run, sleeps end and every request is answered or times out.
PoolFairness ==
  /\ \A u \in Users : WF_poolVars(WorkerStep(u)) /\ WF_poolVars(Collect(u))
  /\ WF_poolVars(TimePasses) /\ WF_poolVars(Finish)

PoolSpec == PoolInit /\ [][PoolNext]_poolVars /\ PoolFairness

-------------------------------------------------------------------------------
\* Two attempts at requests are never let through within the limiter's interval,
\* whoever makes them and however they are delayed.  A line of a user is written only
\* when the fetch came to its end; a user is a failure at most once, and in the end who is
\* none has all tweets in the file: a user written in part is among the failures, and the
\* file of failures, if there was any, is those of this program (QpsLimiter.wait, main).
FetchAccounts ==
  /\ spaced
  /\ \A u \in Users :
       /\ failed[u] <= 1
       /\ lines[u] # "none" => pagesLeft[u] = 0
       /\ lines[u] = "part" => failed[u] = 1
       /\ finished /\ failed[u] = 0 => lines[u] = "all"
  /\ finished /\ Failures # {} => failedFile = Failures

\* The program ends, though requests may fail in any way: the threads neither wait
\* for each other in the limiter nor repeat an attempt for ever.
FetchEnds == <>finished
===============================================================================
