----------------------------- MODULE KolDiscovery ------------------------------
(***************************************************************************)
(* search_discovery.py: plan the searches of a domain (by hand, from the    *)
(* templates, or by a language model that may be asked again and may be     *)
(* replaced by a fallback), then go through the result pages of every       *)
(* search and count, for every author, the tweets that were found.          *)
(*                                                                         *)
(* A query is its type, its text, the quality its words give it, and        *)
(* whether it has the form of a query.                                     *)
(***************************************************************************)
EXTENDS Integers, SequencesExt

CONSTANTS
  Replies,          \* what a planner may come up with: sequences of queries
  Template,         \* the templates of the domain, Latest and Top
  FallbackQueries,  \* what the words of the domain give
  QueryCount,
  Retries,          \* query_planner_retries
  MinQuality,       \* min_query_quality, 0 for none
  PagesPerQuery,
  Found, AuthorOf,  \* the tweets that can be found, and whose they are
  NextCursors

QueryTypes == {"Latest", "Top"}
Mixes == {"latest", "top", "both"}
NoAuthor == "none"
NoNext == ""

IsQuery(q) ==
  q \in [type : QueryTypes, text : STRING, quality : Int, wellFormed : BOOLEAN]

ASSUME DiscoveryAssumption ==
  /\ \A r \in Replies \cup {Template, FallbackQueries} : \A i \in DOMAIN r : IsQuery(r[i])
  /\ QueryCount \in Nat \ {0} /\ Retries \in Nat \ {0}
  /\ MinQuality \in Nat /\ PagesPerQuery \in Nat
  /\ IsFiniteSet(Found) /\ DOMAIN AuthorOf = Found /\ NoNext \notin NextCursors

VARIABLES
  planner,      \* "manual", "static" or "llm"
  mix,          \* query_type_mix
  mayFallBack,  \* allow_query_fallback
  tries,        \* attempt of plan_queries_with_llm
  plan,         \* the queries
  onQuery,      \* the one being searched, 0 before
  onPage, atCursor, usedCursors,
  seenTweets,
  candidates,   \* per author: the texts that found a tweet, and how many tweets
  shown,        \* every tweet of every page with the text it was shown for
  discovery     \* "planning", "searching", "written" or "raised"

discoveryVars == <<planner, mix, mayFallBack, tries, plan, onQuery, onPage, atCursor,
                   usedCursors, seenTweets, candidates, shown, discovery>>

Authors == {AuthorOf[t] : t \in Found} \ {NoAuthor}

DiscoveryInit ==
  /\ planner \in {"manual", "static", "llm"} /\ mix \in Mixes /\ mayFallBack \in BOOLEAN
  /\ tries = 1 /\ plan = <<>>
  /\ onQuery = 0 /\ onPage = 1 /\ atCursor = NoNext /\ usedCursors = {}
  /\ seenTweets = {} /\ shown = {}
  /\ candidates = [a \in Authors |-> [queries |-> {}, tweets |-> 0]]
  /\ discovery = "planning"

-------------------------------------------------------------------------------
(* The plan.                                                                *)

Cut(q, n) == SubSeq(q, 1, IF n < Len(q) THEN n ELSE Len(q))

\* validate_query_item
Fits(q) == q.wellFormed /\ (mix = "latest" => q.type = "Latest") /\ (mix = "top" => q.type = "Top")

SameQuery(q, r) == q.type = r.type /\ q.text = r.text

Has(s, q) == \E i \in DOMAIN s : SameQuery(s[i], q)

\* add_valid_query, over all of them.
Distinct(items) ==
  FoldLeft(LAMBDA s, q : IF Has(s, q) THEN s ELSE Append(s, q), <<>>, SelectSeq(items, Fits))

\* parse_planned_queries and recover_queries_from_malformed_text stop when they have enough.
Parsed(items) == Cut(Distinct(items), QueryCount)

\* score_and_rank_queries: the best first, what is level in the order it came in.
Ranked(s) ==
  FoldLeft(LAMBDA r, q :
             InsertAt(r, 1 + Len(SelectSeq(r, LAMBDA x : x.quality >= q.quality)), q),
           <<>>, s)

Selected(s) ==
  LET strong == SelectSeq(Ranked(s), LAMBDA q : q.quality >= MinQuality)
  IN  IF MinQuality = 0 \/ (Len(strong) < QueryCount /\ Len(s) >= QueryCount)
      THEN Cut(Ranked(s), QueryCount)
      ELSE Cut(strong, QueryCount)

\* What an answer of the model comes to: <<>> if it has to be asked again.
PlannedBy(items) ==
  LET s == Selected(Parsed(items)) IN IF Len(s) < QueryCount THEN <<>> ELSE s

searchVars == <<onPage, atCursor, usedCursors, seenTweets, candidates, shown>>

Planning == discovery = "planning" /\ UNCHANGED <<planner, mix, mayFallBack>> /\ UNCHANGED searchVars

Search(queries) ==
  /\ plan' = queries /\ onQuery' = 1
  /\ discovery' = "searching"

GivesUp == discovery' = "raised" /\ UNCHANGED <<plan, onQuery>>

\* By hand: no limit on their number, but there must be one.
PlanManual(items) ==
  /\ planner = "manual" /\ items # <<>> /\ Planning
  /\ LET typed == [i \in DOMAIN items |->
                     [items[i] EXCEPT !.type = IF mix = "top" THEN "Top" ELSE "Latest"]]
     IN  IF Distinct(typed) = <<>> THEN GivesUp ELSE Search(Distinct(typed))
  /\ UNCHANGED tries

PlanStatic ==
  /\ planner = "static" /\ Planning
  /\ LET of(type) == SelectSeq(Template, LAMBDA q : q.type = type)
     IN  Search(Cut((IF mix = "top" THEN <<>> ELSE of("Latest"))
                      \o (IF mix = "latest" THEN <<>> ELSE of("Top")), QueryCount))
  /\ UNCHANGED tries

PlannerAnswers(items) ==
  /\ planner = "llm" /\ Planning
  /\ PlannedBy(items) # <<>>
  /\ Search(PlannedBy(items))
  /\ UNCHANGED tries

\* Anything but an HTTP error: ask again, or fall back where that is allowed.
PlannerFails ==
  /\ planner = "llm" /\ Planning
  /\ IF tries < Retries THEN tries' = tries + 1 /\ UNCHANGED <<plan, onQuery, discovery>>
     ELSE /\ IF mayFallBack /\ Parsed(FallbackQueries) # <<>>
             THEN Search(Parsed(FallbackQueries))
             ELSE GivesUp
          /\ UNCHANGED tries

PlannerAnswersShort(items) == PlannedBy(items) = <<>> /\ PlannerFails

\* An HTTP error is never fallen back from.
PlannerHttpError(retryable) ==
  /\ planner = "llm" /\ Planning
  /\ IF retryable /\ tries < Retries
     THEN tries' = tries + 1 /\ UNCHANGED <<plan, onQuery, discovery>>
     ELSE GivesUp /\ UNCHANGED tries

-------------------------------------------------------------------------------
(* The search.                                                              *)

Searching == discovery = "searching" /\ onQuery <= Len(plan) /\ PagesPerQuery > 0

\* Plausible bug: a tweet shown for two searches counts for both.
FreshInQuery(page) ==
  {t \in page : onPage = 1 \/ <<t, plan[onQuery].text>> \notin shown}

Fresh(page) == {t \in page : t \notin seenTweets}

\* A page of results; what comes next ends the search when there is no cursor, the
\* cursor was used before, or these were pages enough.
SearchPage(page, next) ==
  /\ Searching
  /\ LET text == plan[onQuery].text
         found(a) == {t \in Fresh(page) : AuthorOf[t] = a}
     IN  /\ candidates' = [a \in Authors |->
                             IF found(a) = {} THEN candidates[a]
                             ELSE [queries |-> candidates[a].queries \cup {text},
                                   tweets |-> candidates[a].tweets + Cardinality(found(a))]]
         /\ shown' = shown \cup (page \X {text})
  /\ seenTweets' = seenTweets \cup page
  /\ IF next = NoNext \/ next \in usedCursors \/ onPage = PagesPerQuery
     THEN onQuery' = onQuery + 1 /\ onPage' = 1 /\ atCursor' = NoNext /\ usedCursors' = {}
     ELSE /\ onPage' = onPage + 1 /\ atCursor' = next /\ usedCursors' = usedCursors \cup {next}
          /\ UNCHANGED onQuery
  /\ UNCHANGED <<planner, mix, mayFallBack, tries, plan, discovery>>

\* A request that fails is not repeated: all that was found is lost.
SearchRaises ==
  /\ Searching /\ discovery' = "raised"
  /\ UNCHANGED <<planner, mix, mayFallBack, tries, plan, onQuery>> /\ UNCHANGED searchVars

WriteCandidates ==
  /\ discovery = "searching" /\ (onQuery > Len(plan) \/ PagesPerQuery = 0)
  /\ discovery' = "written"
  /\ UNCHANGED <<planner, mix, mayFallBack, tries, plan, onQuery>> /\ UNCHANGED searchVars

DiscoveryNext ==
  \/ PlanStatic \/ PlannerFails \/ SearchRaises \/ WriteCandidates
  \/ \E items \in Replies : PlanManual(items) \/ PlannerAnswers(items) \/ PlannerAnswersShort(items)
  \/ \E retryable \in BOOLEAN : PlannerHttpError(retryable)
  \/ \E page \in SUBSET Found, next \in NextCursors \cup {NoNext} : SearchPage(page, next)

DiscoverySpec == DiscoveryInit /\ [][DiscoveryNext]_discoveryVars

-------------------------------------------------------------------------------
\* An author's count is the number of different tweets shown of him, however often
\* pages and searches repeat them; and every search he is credited with did show
\* one of them (the loops over queries, pages and tweets in main).
AuthorsCounted ==
  \A a \in Authors :
    /\ candidates[a].tweets = Cardinality({t \in seenTweets : AuthorOf[t] = a})
    /\ \A x \in candidates[a].queries : \E t \in Found : AuthorOf[t] = a /\ <<t, x>> \in shown
    /\ Cardinality(candidates[a].queries) <= candidates[a].tweets
===============================================================================
