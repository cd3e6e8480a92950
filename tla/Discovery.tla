----------------------------- MODULE Discovery ------------------------------
(***************************************************************************)
(* Discovering the contracts of a Polymarket target (discover_resolutions  *)
(* in polymarket_metadata.py).  A series is probed slug by slug on the     *)
(* five-minute grid of the date by a pool of threads; a slug target is     *)
(* fetched alone.  Each thread asks Gamma for the market, asks price       *)
(* services for the price at the contract's start and at its end, and      *)
(* builds a resolution per outcome with its settlement payout.             *)
(*                                                                         *)
(* A slug is named by the start of its contract.  Gamma, Vatic and Binance *)
(* are outside the repository: Gamma lists contracts and resolves them     *)
(* while the call runs.  A resolved market's payload may name the winner,  *)
(* give final prices and flag tokens, each for any of the outcomes; prices *)
(* may lag behind a winner that is named.  An open market's payload may    *)
(* give live prices, for any of the outcomes.  Vatic's price is the one a  *)
(* market settles with, Binance's a proxy that may lie on either side of   *)
(* it.  Any request may fail at any time.                                  *)
(***************************************************************************)
EXTENDS Integers, FiniteSets

CONSTANTS
  Slugs,     \* contracts of the series Gamma may list
  Midnight,  \* the date's first tick
  Day,       \* ticks in a day
  Interval,  \* ticks of a contract, and of the grid
  Workers,   \* threads of the pool
  Tries,     \* attempts at a market of a series
  Series,    \* the target is the whole series
  Winner,    \* per slug: the outcome the contract resolves to
  Shapes,    \* what a payload may tell, see PayloadOf
  None

Outcomes == {"Up", "Down"}

NextMidnight == Midnight + Day

\* _iter_series_candidate_slugs.
Grid == {t \in Midnight..(NextMidnight - 1) : (t - Midnight) % Interval = 0}

\* The contracts that start on the date.
OfTheDate == {s \in Slugs : Midnight <= s /\ s < NextMidnight}

ASSUME TimeAssumption  == Midnight \in Nat /\ Day \in Nat \ {0} /\ Interval \in Nat \ {0}
ASSUME SlugsAssumption == Slugs \subseteq Nat /\ IsFiniteSet(Slugs) /\ OfTheDate \subseteq Grid
ASSUME TriesAssumption == Tries \in Nat \ {0}
ASSUME WinnerAssumption == Winner \in [Slugs -> Outcomes]
ASSUME SeriesAssumption == Series \notin Nat

\* A shape says whether the winner is named, which outcomes have a price that
\* parses, whether those are live prices, and which have a token that is
\* flagged as won or lost.
ASSUME ShapesAssumption ==
  Shapes \subseteq [named : BOOLEAN, prices : SUBSET Outcomes, live : BOOLEAN,
                   tokens : SUBSET Outcomes]

\* None is no outcome, payout, flag, or quote.
ASSUME NoneAssumption ==
  /\ None \notin Int \cup Outcomes \cup BOOLEAN
  /\ None \notin [Outcomes -> Int \cup {None}]
  /\ None \notin [price : Int, quality : {"exact", "proxy"}]

VARIABLES
  target,    \* Series or a slug
  gamma,     \* per slug: "unlisted", "open" or "resolved"
  before,    \* history: gamma when the call began
  proxied,   \* history: slugs with a price that came from Binance
  todo,      \* candidates no thread has taken yet
  worker,    \* per thread: position and local variables
  failures,  \* candidates given up
  out,       \* per slug: payouts of its two resolutions, None without any
  told,      \* history: outcomes of a resolution its payload told of
  phase,     \* "running", "returned" or "raised"
  answer     \* contracts of the answer

outside == <<target, gamma, before>>
vars == <<outside, proxied, todo, worker, failures, out, told, phase, answer>>

-----------------------------------------------------------------------------
(* Payloads, prices and payouts.                                           *)

\* Payouts and prices of outcomes are counted in hundredths.
Pays(won) == IF won THEN 100 ELSE 0
NoPayout == [o \in Outcomes |-> None]

\* Live prices of an open market, one for each outcome.
Live == [o \in Outcomes |-> IF o = "Up" THEN 60 ELSE 40]

\* The payload of a shape: per outcome its price and its token's flag, if any.
PayloadOf(s, shape) ==
  [winning |-> IF shape.named THEN Winner[s] ELSE None,
   prices  |-> [o \in Outcomes |-> IF o \notin shape.prices THEN None
                                  ELSE IF shape.live THEN Live[o] ELSE Pays(o = Winner[s])],
   tokens  |-> [o \in Outcomes |-> IF o \in shape.tokens THEN o = Winner[s] ELSE None]]

Listed(s) == s \in Slugs /\ gamma[s] # "unlisted"

\* What Gamma may answer for a market while it is open, and once it is resolved.
OpenPayloads(s) ==
  {PayloadOf(s, shape) : shape \in {x \in Shapes : ~x.named /\ x.live /\ x.tokens = {}}}

ResolvedPayloads(s) ==
  {PayloadOf(s, shape) : shape \in {x \in Shapes : x.live => x.named}}

Payloads(s) ==
  IF ~Listed(s) THEN {}
  ELSE IF gamma[s] = "open" THEN OpenPayloads(s) ELSE ResolvedPayloads(s)

\* The settling price at the contract's start is 2, and above or below it at
\* the end.  A quote is exact (Vatic), a proxy (Binance or Binance US), or
\* missing when all of them fail.
SettlingPrice(s, end) == IF ~end THEN 2 ELSE IF Winner[s] = "Up" THEN 3 ELSE 1

Quotes(s, end) ==
  IF s \notin Slugs THEN {}
  ELSE {None, [price |-> SettlingPrice(s, end), quality |-> "exact"]}
         \cup {[price |-> p, quality |-> "proxy"] : p \in {1, 3}}

\* The comparison of the two quotes.
Compared(beat, settle, o) ==
  IF beat = None \/ settle = None THEN None
  ELSE IF beat.price = settle.price THEN None
  ELSE Pays(o = IF settle.price > beat.price THEN "Up" ELSE "Down")

\* Mutant of Payout: prices are taken before the winner that is named.
PayoutPricesFirst(payload, beat, settle, o) ==
  IF payload.prices[o] # None THEN payload.prices[o]
  ELSE IF payload.winning # None THEN Pays(o = payload.winning)
  ELSE IF payload.tokens[o] # None THEN Pays(payload.tokens[o])
  ELSE Compared(beat, settle, o)

\* _settlement_payout_from_payload falls through from one source to the next
\* for each outcome on its own: the winner Gamma names, the outcome's price,
\* its token, the two quotes.  A market off the five-minute series, or with
\* outcomes of other names, has no quotes.
Payout(payload, beat, settle, o) ==
  IF payload.winning # None THEN Pays(o = payload.winning)
  ELSE IF payload.prices[o] # None THEN payload.prices[o]
  ELSE IF payload.tokens[o] # None THEN Pays(payload.tokens[o])
  ELSE Compared(beat, settle, o)

\* The outcomes whose payout does not need the quotes.
TellsOf(payload) ==
  {o \in Outcomes : \/ payload.winning # None
                    \/ payload.prices[o] # None
                    \/ payload.tokens[o] # None}

-----------------------------------------------------------------------------
(* The pool.                                                               *)

Positions == {"idle", "fetch", "price_to_beat", "settlement_price"}

Idle == [pc |-> "idle", slug |-> None, attempt |-> 0, payload |-> None, beat |-> None]

Candidates(t) == IF t = Series THEN Grid ELSE {t}
Wanted(t) == IF t = Series THEN OfTheDate ELSE {t}

\* A contract that does not touch the window is dropped silently.
OutOfWindow(s) == target = Series /\ (s + Interval < Midnight \/ s > NextMidnight - 1)

Free(w) == worker' = [worker EXCEPT ![w] = Idle]

\* The slug goes to the list of failures, without a resolution.
GiveUp(w) ==
  /\ failures' = failures \cup {worker[w].slug}
  /\ Free(w)
  /\ UNCHANGED <<outside, proxied, todo, out, told, phase, answer>>

Init ==
  /\ target \in {Series} \cup Slugs
  /\ gamma \in [Slugs -> {"unlisted", "open", "resolved"}]
  /\ before = gamma
  /\ proxied = {}
  /\ todo = Candidates(target)
  /\ worker = [w \in Workers |-> Idle]
  /\ failures = {}
  /\ out = [s \in Slugs |-> None]
  /\ told = [s \in Slugs |-> {}]
  /\ phase = "running"
  /\ answer = {}

\* Gamma lists a contract, and resolves it.
List(s) ==
  /\ phase = "running"
  /\ gamma[s] = "unlisted"
  /\ gamma' = [gamma EXCEPT ![s] = "open"]
  /\ UNCHANGED <<target, before, proxied, todo, worker, failures, out, told, phase, answer>>

Resolve(s) ==
  /\ phase = "running"
  /\ gamma[s] = "open"
  /\ gamma' = [gamma EXCEPT ![s] = "resolved"]
  /\ UNCHANGED <<target, before, proxied, todo, worker, failures, out, told, phase, answer>>

\* A thread takes the first of the candidates left.
Take(w, s) ==
  /\ worker[w].pc = "idle"
  /\ s \in todo
  /\ \A t \in todo : s <= t
  /\ worker' = [worker EXCEPT ![w] = [Idle EXCEPT !.pc = "fetch", !.slug = s]]
  /\ todo' = todo \ {s}
  /\ UNCHANGED <<outside, proxied, failures, out, told, phase, answer>>

\* Gamma answers with the market.
Found(w, payload) ==
  /\ worker[w].pc = "fetch"
  /\ IF OutOfWindow(worker[w].slug)
       THEN Free(w)
       ELSE worker' = [worker EXCEPT ![w] =
              [@ EXCEPT !.pc = "price_to_beat", !.payload = payload]]
  /\ UNCHANGED <<outside, proxied, todo, failures, out, told, phase, answer>>

\* A 404: a series goes on without the slug, a slug target raises.
NotFound(w) ==
  /\ worker[w].pc = "fetch"
  /\ ~Listed(worker[w].slug)
  /\ IF target = Series
       THEN /\ Free(w)
            /\ UNCHANGED <<outside, proxied, todo, failures, out, told, phase, answer>>
       ELSE GiveUp(w)

\* Mutant of LastTry: one attempt too many.
LastTryLate(w) == target # Series \/ worker[w].attempt = Tries

LastTry(w) == target # Series \/ worker[w].attempt = Tries - 1

\* Mutants of FetchError: the last error is dropped; errors are not counted.
FetchErrorDropped(w) ==
  /\ worker[w].pc = "fetch"
  /\ IF LastTry(w) THEN Free(w)
     ELSE worker' = [worker EXCEPT ![w].attempt = @ + 1]
  /\ UNCHANGED <<outside, proxied, todo, failures, out, told, phase, answer>>

FetchErrorUncounted(w) ==
  /\ worker[w].pc = "fetch"
  /\ worker' = [worker EXCEPT ![w].attempt = (@ + 1) % 2]
  /\ UNCHANGED <<outside, proxied, todo, failures, out, told, phase, answer>>

\* Any other answer is an error, retried for a series.
FetchError(w) ==
  /\ worker[w].pc = "fetch"
  /\ IF LastTry(w)
       THEN GiveUp(w)
       ELSE /\ worker' = [worker EXCEPT ![w].attempt = @ + 1]
            /\ UNCHANGED <<outside, proxied, todo, failures, out, told, phase, answer>>

\* A price that came from Binance is on record.
Noted(s, quote) ==
  proxied' = IF quote # None /\ quote.quality = "proxy" THEN proxied \cup {s} ELSE proxied

\* _fetch_price_to_beat for the contract's start.
PriceToBeat(w, quote) ==
  /\ worker[w].pc = "price_to_beat"
  /\ worker' = [worker EXCEPT ![w] = [@ EXCEPT !.pc = "settlement_price", !.beat = quote]]
  /\ Noted(worker[w].slug, quote)
  /\ UNCHANGED <<outside, todo, failures, out, told, phase, answer>>

\* ... and for its end; then the thread builds one resolution per outcome.
SettlementPrice(w, quote) ==
  /\ worker[w].pc = "settlement_price"
  /\ out' = [out EXCEPT ![worker[w].slug] =
       [o \in Outcomes |-> Payout(worker[w].payload, worker[w].beat, quote, o)]]
  /\ told' = [told EXCEPT ![worker[w].slug] = TellsOf(worker[w].payload)]
  /\ Noted(worker[w].slug, quote)
  /\ Free(w)
  /\ UNCHANGED <<outside, todo, failures, phase, answer>>

\* A payload or a price that cannot be parsed.
Break(w) ==
  /\ worker[w].pc \in {"price_to_beat", "settlement_price"}
  /\ GiveUp(w)

Resolved == {s \in Slugs : out[s] # None}

\* All futures are done: one failure fails the call.
Finish ==
  /\ phase = "running"
  /\ todo = {}
  /\ \A w \in Workers : worker[w].pc = "idle"
  /\ IF failures = {}
       THEN phase' = "returned" /\ answer' = Resolved
       ELSE phase' = "raised" /\ answer' = {}
  /\ UNCHANGED <<outside, proxied, todo, worker, failures, out, told>>

Work(w) ==
  \/ \E s \in todo : Take(w, s)
  \/ \E payload \in Payloads(worker[w].slug) : Found(w, payload)
  \/ NotFound(w)
  \/ FetchError(w)
  \/ \E quote \in Quotes(worker[w].slug, FALSE) : PriceToBeat(w, quote)
  \/ \E quote \in Quotes(worker[w].slug, TRUE) : SettlementPrice(w, quote)
  \/ Break(w)

Next ==
  \/ \E s \in Slugs : List(s)
  \/ \E s \in Slugs : Resolve(s)
  \/ \E w \in Workers : Work(w)
  \/ Finish

Spec == Init /\ [][Next]_vars

\* Requests end, if by a timeout, and threads run.  How they end is not
\* assumed: all of them may fail.
FairSpec == Spec /\ (\A w \in Workers : WF_vars(Work(w))) /\ WF_vars(Finish)

-----------------------------------------------------------------------------
(* Properties.                                                             *)

AnyPayload ==
  [winning : Outcomes \cup {None}, prices : [Outcomes -> 0..100 \cup {None}],
   tokens : [Outcomes -> BOOLEAN \cup {None}]]
AnyQuote == [price : 1..3, quality : {"exact", "proxy"}] \cup {None}

WorkerState ==
  [pc : Positions, slug : Nat \cup {None}, attempt : 0..(Tries - 1),
   payload : AnyPayload \cup {None}, beat : AnyQuote]

\* A thread at work has a candidate; past the fetch it has the payload of a
\* listed contract, and then a quote of its start.
WorkerOK(w) ==
  LET me == worker[w] IN
  /\ me.pc # "idle" => me.slug \in Candidates(target)
  /\ me.pc \in {"price_to_beat", "settlement_price"} =>
       Listed(me.slug) /\ me.payload \in OpenPayloads(me.slug) \cup ResolvedPayloads(me.slug)
  /\ me.pc = "settlement_price" => me.beat \in Quotes(me.slug, FALSE)

\* Every variable keeps its type.
TypeOK ==
  /\ target \in {Series} \cup Slugs
  /\ gamma \in [Slugs -> {"unlisted", "open", "resolved"}]
  /\ before \in [Slugs -> {"unlisted", "open", "resolved"}]
  /\ proxied \subseteq Slugs
  /\ todo \subseteq Candidates(target)
  /\ worker \in [Workers -> WorkerState]
  /\ \A w \in Workers : WorkerOK(w)
  /\ failures \subseteq Candidates(target)
  /\ out \in [Slugs -> [Outcomes -> 0..100 \cup {None}] \cup {None}]
  /\ told \in [Slugs -> SUBSET Outcomes]
  /\ phase \in {"running", "returned", "raised"}
  /\ answer \subseteq Slugs

\* A discovery that returns is complete: no error of any thread makes it
\* answer with a part (test_discover_resolutions_retries_and_fails_on_gamma_errors
\* looks at one failing slug).
Promise == INSTANCE DiscoveryPromise WITH
  listed <- {s \in Slugs : Listed(s)},
  had    <- {s \in Slugs : before[s] # "unlisted"},
  wanted <- Wanted(target)

KeepsPromise == Promise!Spec

\* What one side of a contract pays: what its outcome is worth, or nothing is
\* known, or a live price, which can only be of a contract that Gamma had not
\* resolved when the call began.  Anything else was decided by a proxy price,
\* and only where Gamma told nothing of that side.
PaysRightly(s, o) ==
  \/ out[s][o] \in {None, Pays(o = Winner[s])}
  \/ out[s][o] = Live[o] /\ before[s] # "resolved"
  \/ s \in proxied /\ o \notin told[s]

\* The payouts of the two sides are those of one bet: a whole together, or
\* both unknown.
PaysWhole(s) == out[s] = NoPayout \/ (None \notin {out[s][o] : o \in Outcomes}
                                      /\ out[s]["Up"] + out[s]["Down"] = 100)

\* Whatever mixture of sources the two sides of a contract are paid from, each
\* pays rightly, and they are those of one bet unless Gamma told of one side
\* alone: then the other is decided by the quotes, or unknown.
PayoutsSettle ==
  \A s \in answer :
    /\ \A o \in Outcomes : PaysRightly(s, o)
    /\ told[s] \in {{}, Outcomes} => PaysWhole(s)

\* A discovery ends, whatever fails: no slug is retried for ever.
DiscoveryEnds == phase = "running" ~> phase # "running"

=============================================================================
