------------------------------ MODULE WhaleCopies ------------------------------
(***************************************************************************)
(* WhaleCopy (strategies/v2/whale.py): it compares what the traders at the  *)
(* top of the leaderboard hold with what they held at its last look, and    *)
(* copies what they have added.  They trade between the looks.  The prices  *)
(* of tokens are abstracted to whether they are in the tails.               *)
(***************************************************************************)
EXTENDS Integers, Sequences, FiniteSets, SequencesExt

CONSTANTS
  Whales, WhaleTokens,
  Holdings,     \* sizes a whale may hold
  MaxMoves, MaxCycles, \* bounds
  MinMove,      \* the least addition that is copied
  PerWhale,     \* MAX_SIGNALS_PER_WHALE
  PerCycle      \* MAX_SIGNALS_PER_CYCLE

ASSUME WhaleAssumption ==
  /\ IsFiniteSet(Whales) /\ IsFiniteSet(WhaleTokens) /\ "idle" \notin Whales
  /\ 0 \in Holdings /\ Holdings \subseteq Nat
  /\ {MaxMoves, MaxCycles} \subseteq Nat
  /\ {MinMove, PerWhale, PerCycle} \subseteq Nat \ {0}

VARIABLES
  holds,       \* what each whale really holds
  moves, cycles,
  whales,      \* _whales, in the order they were found
  known,       \* _known_positions, 0 for what is not in it
  initialized,
  looking,     \* the whales this cycle has still to look at, or Idle
  signals,     \* of this cycle
  gained,      \* what a whale has added since the first snapshot
  copied,      \* what was copied of it
  flawed       \* whales that were not seen whole at every look

whaleVars == <<holds, moves, cycles, whales, known, initialized, looking, signals,
               gained, copied, flawed>>

Idle == <<"idle">>
NothingOf == [w \in Whales |-> [t \in WhaleTokens |-> 0]]

WhaleInit ==
  /\ holds \in [Whales -> [WhaleTokens -> Holdings]]
  /\ moves = 0 /\ cycles = 0 /\ whales = <<>> /\ known = NothingOf
  /\ initialized = FALSE /\ looking = Idle /\ signals = <<>>
  /\ gained = NothingOf /\ copied = NothingOf /\ flawed = {}

Trade(w, t, size) ==
  /\ moves < MaxMoves /\ size # holds[w][t]
  /\ moves' = moves + 1
  /\ holds' = [holds EXCEPT ![w][t] = size]
  /\ gained' = [gained EXCEPT ![w][t] = @ + (IF size > holds[w][t] THEN size - holds[w][t] ELSE 0)]
  /\ UNCHANGED <<cycles, whales, known, initialized, looking, signals, copied, flawed>>

\* step: the leaderboard, when ten minutes are over, may name new whales; a request
\* that fails leaves them as they are.  A whale found after the snapshot has none.
Begin(found) ==
  /\ looking = Idle /\ cycles < MaxCycles
  /\ cycles' = cycles + 1
  /\ whales' = whales \o found
  /\ flawed' = IF initialized THEN flawed \cup ToSet(found) ELSE flawed
  /\ looking' = whales \o found /\ signals' = <<>>
  /\ UNCHANGED <<holds, moves, known, initialized, gained, copied>>

Held(w) == {t \in WhaleTokens : holds[w][t] > 0}

KnownOf(w, shown) == [t \in WhaleTokens |-> IF t \in shown THEN holds[w][t] ELSE 0]

\* _snapshot_all, one whale: no signals, and known is what the rows show.  They are no more
\* than the request asks for, and none when it fails or one of them cannot be read.
Snapshot(shown) ==
  /\ looking # Idle /\ ~initialized /\ looking # <<>>
  /\ LET w == Head(looking)
     IN  /\ shown \subseteq Held(w)
         /\ known' = [known EXCEPT ![w] = KnownOf(w, shown)]
         /\ gained' = [gained EXCEPT ![w] = NothingOf[w]]
         /\ flawed' = IF shown = Held(w) THEN flawed ELSE flawed \cup {w}
  /\ looking' = Tail(looking)
  /\ UNCHANGED <<holds, moves, cycles, whales, initialized, signals, copied>>

SnapshotDone ==
  /\ looking = <<>> /\ ~initialized
  /\ initialized' = TRUE /\ looking' = Idle
  /\ UNCHANGED <<holds, moves, cycles, whales, known, signals, gained, copied, flawed>>

Added(w, t) == holds[w][t] - known[w][t]

IsMove(w, t, tails) == Added(w, t) >= MinMove /\ t \notin tails

\* The row after which _check_whale stops: the one that gives the last signal it may.
MovesUpTo(w, rows, tails, i) == Cardinality({j \in 1..i : IsMove(w, rows[j], tails)})
IsLast(w, rows, tails, i) == IsMove(w, rows[i], tails) /\ MovesUpTo(w, rows, tails, i) = PerWhale
LastRow(w, rows, tails) ==
  IF \E i \in DOMAIN rows : IsLast(w, rows, tails, i)
  THEN CHOOSE i \in DOMAIN rows : IsLast(w, rows, tails, i)
  ELSE Len(rows)

\* Plausible bug: a token in the tails is left out before it is written down.
SeenOutsideTails(w, rows, last, tails) ==
  KnownOf(w, ToSet(SubSeq(rows, 1, last)) \ tails)

\* What is known after the rows up to the last one: only what they show.
SeenIn(w, rows, last, tails) == KnownOf(w, ToSet(SubSeq(rows, 1, last)))

SignalsOfRows(w, rows, last, tails) ==
  SelectSeq(SubSeq(rows, 1, last), LAMBDA t : IsMove(w, t, tails))

\* step takes the first ones only.
Fitting(new) == SubSeq(new, 1, IF PerCycle - Len(signals) < Len(new) THEN PerCycle - Len(signals) ELSE Len(new))

Copies(w, new) ==
  /\ signals' = signals \o new
  /\ copied' = [copied EXCEPT ![w] = [t \in WhaleTokens |->
                  @[t] + (IF t \in ToSet(new) THEN Added(w, t) ELSE 0)]]

NextWhale(count) == looking' = IF count >= PerCycle THEN <<>> ELSE Tail(looking)

\* _check_whale: the rows are of what the whale holds, of some of it when there are
\* more than the request asks for.
Check(rows, tails) ==
  /\ looking # Idle /\ initialized /\ looking # <<>>
  /\ LET w    == Head(looking)
         last == LastRow(w, rows, tails)
         new  == SignalsOfRows(w, rows, last, tails)
     IN  /\ ToSet(rows) \subseteq Held(w)
         /\ known' = [known EXCEPT ![w] = SeenIn(w, rows, last, tails)]
         /\ flawed' = IF last < Len(rows) \/ ToSet(rows) # Held(w) THEN flawed \cup {w} ELSE flawed
         /\ Copies(w, Fitting(new)) /\ NextWhale(Len(signals) + Len(new))
  /\ UNCHANGED <<holds, moves, cycles, whales, initialized, gained>>

\* A row that cannot be read raises: the signals before it are given all the same, and
\* what is known stays as it was.  A request that fails gives no rows at all.
CheckRaises(rows, tails) ==
  /\ looking # Idle /\ initialized /\ looking # <<>>
  /\ LET w    == Head(looking)
         new  == SignalsOfRows(w, rows, Len(rows), tails)
     IN  /\ ToSet(rows) \subseteq Held(w) /\ LastRow(w, rows, tails) = Len(rows)
         /\ Len(new) < PerWhale
         /\ flawed' = IF Fitting(new) = <<>> THEN flawed ELSE flawed \cup {w}
         /\ Copies(w, Fitting(new)) /\ NextWhale(Len(signals) + Len(new))
  /\ UNCHANGED <<holds, moves, cycles, whales, known, initialized, gained>>

CycleDone ==
  /\ looking = <<>> /\ initialized
  /\ looking' = Idle /\ signals' = <<>>
  /\ UNCHANGED <<holds, moves, cycles, whales, known, initialized, gained, copied, flawed>>

Rows(w) == {r \in BoundedSeq(Held(w), Cardinality(WhaleTokens)) : IsInjective(r)}

WhaleNext ==
  \/ SnapshotDone \/ CycleDone
  \/ \E w \in Whales, t \in WhaleTokens, n \in Holdings : Trade(w, t, n)
  \/ \E found \in {<<>>} \cup {<<w>> : w \in Whales \ ToSet(whales)} \cup
                   (IF whales = <<>> THEN {SetToSeq(Whales)} ELSE {}) : Begin(found)
  \/ \E shown \in SUBSET WhaleTokens : Snapshot(shown)
  \/ /\ looking # Idle /\ looking # <<>>
     /\ \E rows \in Rows(Head(looking)), tails \in SUBSET WhaleTokens :
          Check(rows, tails) \/ CheckRaises(rows, tails)

WhaleSpec == WhaleInit /\ [][WhaleNext]_whaleVars

-------------------------------------------------------------------------------
\* "No false signals from empty baseline" (whale.py:8): what is copied of a whale is
\* never more than what it has added since the first snapshot.  It holds of the whales
\* whose looks were all whole, the first snapshot too; a look that stops at the cap of
\* signals, that raises in the middle, that does not show every position (the request asks
\* for 50), or that has no snapshot before it forgets what was known, or copies it again.
NoMoveCopiedTwice ==
  \A w \in Whales \ flawed, t \in WhaleTokens : copied[w][t] <= gained[w][t]
===============================================================================
