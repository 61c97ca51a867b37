------------------------------- MODULE QuoteCache ------------------------------
(***************************************************************************)
(* The quotes of data_pipeline/price_feeds.py: a cache that several callers *)
(* share, with no lock held while the service is asked.  A price is told by *)
(* the moment at which it was the price.                                   *)
(***************************************************************************)
EXTENDS Integers

CONSTANTS
  Callers,
  Freshness,   \* FINDATA_CACHE_TTL_SECONDS
  GreatestAge, \* FINDATA_MAX_CACHE_AGE_SECONDS
  LastMoment   \* bound

ASSUME QuoteAssumption ==
  {Freshness, GreatestAge, LastMoment} \subseteq Nat /\ Freshness <= GreatestAge

VARIABLES
  moment,
  quote,     \* _CACHE of one symbol: [price, fetchedAt], NoQuote if there is none
  calling,   \* per caller: when its request was sent, NotCalling if it has none
  served     \* per caller: its last answer, [price, since, at], or NoQuote

quoteVars == <<moment, quote, calling, served>>

NoQuote == <<>>
NotCalling == -1

QuoteInit ==
  /\ moment = 0 /\ quote = NoQuote
  /\ calling = [c \in Callers |-> NotCalling] /\ served = [c \in Callers |-> NoQuote]

Serve(c, price, since) == served' = [served EXCEPT ![c] = [price |-> price, since |-> since, at |-> moment]]

IsFresh == quote # NoQuote /\ moment - quote.fetchedAt < Freshness
IsUsable == quote # NoQuote /\ moment - quote.fetchedAt <= GreatestAge

\* get_asset_price, with the lock: the cache, or a request.
FromCache(c) ==
  /\ calling[c] = NotCalling /\ IsFresh
  /\ Serve(c, quote.price, moment)
  /\ UNCHANGED <<moment, quote, calling>>

AskForQuote(c) ==
  /\ calling[c] = NotCalling /\ ~IsFresh
  /\ calling' = [calling EXCEPT ![c] = moment]
  /\ UNCHANGED <<moment, quote, served>>

\* Plausible bug: a quote is dated by its arrival.
AtArrival(c) == moment

\* now was read before the request was sent.
FetchedAt(c) == calling[c]

\* The service answers with a price of some moment since; it replaces what another
\* caller has stored meanwhile, be that younger or not.
Quoted(c, price) ==
  /\ calling[c] # NotCalling /\ price \in calling[c]..moment
  /\ quote' = [price |-> price, fetchedAt |-> FetchedAt(c)]
  /\ Serve(c, price, calling[c])
  /\ calling' = [calling EXCEPT ![c] = NotCalling]
  /\ UNCHANGED moment

\* get_asset_price_cached: no answer, no price, a price that is marked stale.
NotQuoted(c) ==
  /\ calling[c] # NotCalling
  /\ IF IsUsable THEN Serve(c, quote.price, calling[c]) ELSE UNCHANGED served
  /\ calling' = [calling EXCEPT ![c] = NotCalling]
  /\ UNCHANGED <<moment, quote>>

MomentPasses == moment < LastMoment /\ moment' = moment + 1 /\ UNCHANGED <<quote, calling, served>>

QuoteNext ==
  \/ MomentPasses
  \/ \E c \in Callers : FromCache(c) \/ AskForQuote(c) \/ NotQuoted(c)
  \/ \E c \in Callers, price \in 0..LastMoment : Quoted(c, price)

QuoteSpec == QuoteInit /\ [][QuoteNext]_quoteVars

-------------------------------------------------------------------------------
\* A caller is never given a price that is older than the greatest age, unless its own
\* request took that long: neither by the cache, nor after a failed request, nor when
\* the answer to a slow request has replaced the one to a quick request
\* (get_asset_price, get_asset_price_cached).
QuoteIsYoung ==
  \A c \in Callers : served[c] # NoQuote =>
    \/ served[c].price >= served[c].since
    \/ served[c].at - served[c].price <= GreatestAge
===============================================================================
