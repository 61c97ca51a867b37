------------------------------ MODULE TweetFetch -------------------------------
(***************************************************************************)
(* fetch_user_complete: all tweets of one user, time slice by time slice,   *)
(* newest first, page by page.  A page seen before, or one with nothing     *)
(* new, ends a slice, but a slice of a month is then asked again in weeks.  *)
(*                                                                         *)
(* The calls of fetch_slice_recursive are a stack of frames; a page stands  *)
(* for a request that was answered in the end (FetchPool has the requests). *)
(* What a page holds, whether there is a next one and under which cursor is *)
(* the server's choice: it may repeat itself.                               *)
(***************************************************************************)
EXTENDS Sequences, Naturals, FiniteSets

CONSTANTS
  Tweets,
  Unwanted,       \* tweets the command line excludes (replies, retweets)
  Pages,          \* the pages that occur, sequences of tweets
  Cursors,
  SliceModes,     \* --slice: the modes that occur
  Slices,         \* the stretches of time that occur
  SlicesOf,       \* per mode, the slices of the whole time, newest first
  WeeksOf,        \* per slice of a month its weeks, newest first
  MaxPages,       \* max_pages_per_slice
  Caps            \* max_tweets_per_user: the values that occur, 0 for none

Modes == {"day", "week", "month"}

NoCursor == ""

ASSUME TweetFetchAssumption ==
  /\ Unwanted \subseteq Tweets
  /\ Pages \subseteq Seq(Tweets)
  /\ NoCursor \notin Cursors
  /\ SliceModes \subseteq Modes
  /\ \A m \in SliceModes : SlicesOf[m] \in Seq(Slices)
  /\ "month" \in SliceModes => SlicesOf["month"] \in Seq(DOMAIN WeeksOf)
  /\ \A s \in DOMAIN WeeksOf : WeeksOf[s] \in Seq(Slices)
  /\ MaxPages \in Nat \ {0} /\ Caps \subseteq Nat

VARIABLES
  topMode, cap,
  stack,      \* the calls of fetch_slice_recursive, the innermost last
  seenIds,
  allTweets,
  served,     \* every tweet of every page, to state what may not be lost
  asked,      \* every slice that was asked for
  refined,    \* the slices that were asked again in weeks
  fetching    \* "running", "fetched" or "raised"

fetchVars == <<topMode, cap, stack, seenIds, allTweets, served, asked, refined, fetching>>

\* A call at the start of its first slice.
Frame(mode, slices) ==
  [mode |-> mode, todo |-> slices, page |-> 1, cursor |-> NoCursor,
   seenCursors |-> {}, signatures |-> {}, empties |-> 0]

\* A call of fetch_slice_recursive: nothing, if there is no slice.
Call(mode, slices) == IF slices = <<>> THEN <<>> ELSE <<Frame(mode, slices)>>

FetchInit ==
  /\ topMode \in SliceModes /\ cap \in Caps
  /\ stack = Call(topMode, SlicesOf[topMode])
  /\ seenIds = {} /\ allTweets = <<>>
  /\ served = {} /\ asked = {} /\ refined = {}
  /\ fetching = "running"

-------------------------------------------------------------------------------
Capped == cap > 0 /\ Len(allTweets) >= cap

Top == stack[Len(stack)]
Below == SubSeq(stack, 1, Len(stack) - 1)
Slice == Head(Top.todo)

\* The slice is over: the next one, from its first page, or back to the caller.
SliceOver(frame) == Below \o Call(frame.mode, Tail(frame.todo))

\* finer_slice_mode: the slice goes on in weeks, then it is over.
Refines(frame) == frame.mode = "month" /\ frame.page > 1

SliceStuck ==
  /\ stack' = IF Refines(Top)
              THEN SliceOver(Top) \o Call("week", WeeksOf[Slice])
              ELSE SliceOver(Top)
  /\ refined' = IF Refines(Top) THEN refined \cup {Slice} ELSE refined

\* What follows a page that was of use: the next one, unless there is none, its
\* cursor was used before, or the slice has had enough of them.
TurnPage(frame, cursor) ==
  IF \/ cursor = NoCursor
     \/ cursor = frame.cursor
     \/ cursor \in frame.seenCursors
     \/ frame.page = MaxPages
  THEN SliceOver(frame)
  ELSE Append(Below, [frame EXCEPT !.page = @ + 1, !.cursor = cursor,
                                   !.seenCursors = @ \cup {cursor}])

\* Plausible bug: a page is taken whole, whatever repeats in it or goes beyond the cap.
TakingAll(page) ==
  [seen |-> seenIds \cup {page[k] : k \in DOMAIN page},
   kept |-> allTweets \o SelectSeq(page, LAMBDA t : t \notin seenIds \cup Unwanted)]

\* The tweets of a page, one by one: those seen are skipped, those excluded are
\* only marked as seen; the loop ends at the cap.
Takings(page) ==
  LET Take[k \in 0..Len(page)] ==
        IF k = 0 THEN [seen |-> seenIds, kept |-> allTweets]
        ELSE LET was == Take[k-1]
                 t   == page[k]
             IN  IF (cap > 0 /\ Len(was.kept) >= cap) \/ t \in was.seen THEN was
                 ELSE [seen |-> was.seen \cup {t},
                       kept |-> IF t \in Unwanted THEN was.kept ELSE Append(was.kept, t)]
  IN  Take

Taking(page) == Takings(page)[Len(page)]

Asks(page) ==
  /\ fetching = "running" /\ stack # <<>> /\ ~Capped
  /\ asked' = asked \cup {<<Top.mode, Slice>>}
  /\ served' = served \cup {page[k] : k \in DOMAIN page}
  /\ UNCHANGED <<topMode, cap, fetching>>

EmptyPage(cursor) ==
  /\ Asks(<<>>)
  /\ stack' = IF Top.empties = 1
              THEN SliceOver(Top)
              ELSE TurnPage([Top EXCEPT !.empties = 1], cursor)
  /\ UNCHANGED <<seenIds, allTweets, refined>>

RepeatedPage(page) ==
  /\ Asks(page) /\ page # <<>>
  /\ page \in Top.signatures
  /\ SliceStuck
  /\ UNCHANGED <<seenIds, allTweets>>

NewPage(page, cursor) ==
  /\ Asks(page) /\ page # <<>>
  /\ page \notin Top.signatures
  /\ seenIds' = Taking(page).seen /\ allTweets' = Taking(page).kept
  /\ IF seenIds' = seenIds
     THEN SliceStuck
     ELSE /\ stack' = TurnPage([Top EXCEPT !.signatures = @ \cup {page}, !.empties = 0], cursor)
          /\ UNCHANGED refined

\* A request fails for good: nothing of the user is returned.
RequestRaises ==
  /\ fetching = "running" /\ stack # <<>> /\ ~Capped
  /\ fetching' = "raised"
  /\ UNCHANGED <<topMode, cap, stack, seenIds, allTweets, served, asked, refined>>

\* No slice is left, or the cap returns from every call.
FetchReturns ==
  /\ fetching = "running"
  /\ stack = <<>> \/ Capped
  /\ fetching' = "fetched"
  /\ UNCHANGED <<topMode, cap, stack, seenIds, allTweets, served, asked, refined>>

Answered ==
  \/ \E c \in Cursors \cup {NoCursor} : EmptyPage(c) \/ (\E p \in Pages : NewPage(p, c))
  \/ \E p \in Pages : RepeatedPage(p)

FetchNext == Answered \/ RequestRaises \/ FetchReturns

FetchSpec == FetchInit /\ [][FetchNext]_fetchVars

-------------------------------------------------------------------------------
\* What is returned is complete as far as the server gave it: no tweet twice, none
\* beyond the cap, none that was excluded; and unless the cap ended it, every
\* wanted tweet of every page is in it, every slice was asked for, and a slice
\* that got stuck was asked for in all its weeks, though the loops break off early
\* in six places (fetch_slice_recursive).
FetchComplete ==
  /\ \A i, j \in DOMAIN allTweets : allTweets[i] = allTweets[j] => i = j
  /\ cap > 0 => Len(allTweets) <= cap
  /\ \A i \in DOMAIN allTweets : allTweets[i] \in served \ Unwanted
  /\ ~Capped => served \ Unwanted \subseteq {allTweets[i] : i \in DOMAIN allTweets}
  /\ fetching = "fetched" /\ ~Capped =>
       /\ \A k \in DOMAIN SlicesOf[topMode] : <<topMode, SlicesOf[topMode][k]>> \in asked
       /\ \A s \in refined : \A k \in DOMAIN WeeksOf[s] : <<"week", WeeksOf[s][k]>> \in asked
===============================================================================
