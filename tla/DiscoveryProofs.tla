-------------------------- MODULE DiscoveryProofs ---------------------------
(***************************************************************************)
(* Theorems about Discovery: its types, that it keeps DiscoveryPromise for *)
(* any number of threads, slugs and attempts, and that the payouts of the  *)
(* answer settle.                                                          *)
(***************************************************************************)
EXTENDS Discovery, TLAPS

\* Gamma only moves on.
GammaMovesOn ==
  \A s \in Slugs : /\ before[s] # "unlisted" => gamma[s] # "unlisted"
                   /\ before[s] = "resolved" => gamma[s] = "resolved"

\* A wanted contract that was listed when the call began is still a
\* candidate, with a thread, given up, or resolved.
InPool(s) ==
  \/ s \in todo
  \/ \E w \in Workers : worker[w].pc # "idle" /\ worker[w].slug = s
  \/ s \in failures
  \/ out[s] # None

NothingDropped ==
  \A s \in Wanted(target) : before[s] # "unlisted" => InPool(s)

\* Only wanted and listed contracts are resolved.
NothingInvented == \A s \in Slugs : out[s] # None => Listed(s) /\ s \in Wanted(target)

EmptyAnswer == phase = "running" => answer = {}

PoolInv == GammaMovesOn /\ NothingDropped /\ NothingInvented /\ EmptyAnswer

Inv == TypeOK /\ PoolInv

-----------------------------------------------------------------------------
\* The grid of a series holds exactly its contracts of the date; no candidate
\* lies outside the window (the two bounds of _discover_series agree).
LEMMA CandidatesLemma ==
  ASSUME target \in {Series} \cup Slugs
  PROVE  /\ Candidates(target) \subseteq Nat
         /\ Wanted(target) \subseteq Candidates(target)
         /\ Wanted(target) \subseteq Slugs
         /\ \A s \in Candidates(target) \cap Slugs : s \in Wanted(target)
         /\ \A s \in Candidates(target) : ~OutOfWindow(s)
<1>1. CASE target = Series
  <2>1. Candidates(target) = Grid /\ Wanted(target) = OfTheDate
    BY <1>1 DEF Candidates, Wanted
  <2>2. NextMidnight \in Nat
    BY TimeAssumption DEF NextMidnight
  <2>3. \A s \in Grid : s \in Nat /\ Midnight <= s /\ s <= NextMidnight - 1
    BY <2>2, TimeAssumption DEF Grid
  <2>4. OfTheDate \subseteq Grid /\ OfTheDate \subseteq Slugs
    BY SlugsAssumption DEF OfTheDate
  <2>5. Grid \cap Slugs \subseteq OfTheDate
    BY <2>2, <2>3, TimeAssumption DEF OfTheDate
  <2>6. \A s \in Grid : ~OutOfWindow(s)
    BY <2>2, <2>3, TimeAssumption DEF OutOfWindow
  <2> QED BY <2>1, <2>3, <2>4, <2>5, <2>6
<1>2. CASE target # Series
  BY <1>2, SlugsAssumption, SeriesAssumption DEF Candidates, Wanted, OutOfWindow
<1> QED BY <1>1, <1>2

\* Whatever Gamma may answer for a contract.
AllPayloads(s) == OpenPayloads(s) \cup ResolvedPayloads(s)

\* The payload of any shape has a payload's type.
LEMMA PayloadLemma ==
  ASSUME NEW s \in Slugs, NEW shape \in Shapes
  PROVE  PayloadOf(s, shape) \in AnyPayload
<1>1. Winner[s] \in Outcomes
  BY WinnerAssumption
<1>2. \A o \in Outcomes : Live[o] \in 0..100 /\ Pays(o = Winner[s]) \in 0..100
  BY DEF Live, Pays, Outcomes
<1>3. [o \in Outcomes |-> IF o \notin shape.prices THEN None
                         ELSE IF shape.live THEN Live[o] ELSE Pays(o = Winner[s])]
        \in [Outcomes -> 0..100 \cup {None}]
  BY <1>2
<1>4. [o \in Outcomes |-> IF o \in shape.tokens THEN o = Winner[s] ELSE None]
        \in [Outcomes -> BOOLEAN \cup {None}]
  <2>1. \A o \in Outcomes : (o = Winner[s]) \in BOOLEAN
    OBVIOUS
  <2> QED BY <2>1
<1> QED BY <1>1, <1>3, <1>4 DEF PayloadOf, AnyPayload

\* What Gamma and the price services answer has the payload's and the quote's
\* type.
LEMMA EvidenceLemma ==
  ASSUME NEW s
  PROVE  /\ Payloads(s) \subseteq AllPayloads(s)
         /\ s \in Slugs => AllPayloads(s) \subseteq AnyPayload
         /\ Quotes(s, FALSE) \subseteq AnyQuote
         /\ Quotes(s, TRUE) \subseteq AnyQuote
         /\ Payloads(s) # {} => Listed(s)
<1>1. s \in Slugs => AllPayloads(s) \subseteq AnyPayload
  BY PayloadLemma DEF AllPayloads, OpenPayloads, ResolvedPayloads
<1>2. Quotes(s, FALSE) \subseteq AnyQuote /\ Quotes(s, TRUE) \subseteq AnyQuote
  BY DEF Quotes, AnyQuote, SettlingPrice
<1>3. Payloads(s) \subseteq AllPayloads(s)
  BY DEF Payloads, AllPayloads
<1>4. Payloads(s) # {} => Listed(s)
  BY DEF Payloads
<1> QED BY <1>1, <1>2, <1>3, <1>4

\* A payout is a number of hundredths, or unknown.
LEMMA PayoutLemma ==
  ASSUME NEW payload \in AnyPayload, NEW beat \in AnyQuote, NEW settle \in AnyQuote,
         NEW o \in Outcomes
  PROVE  Payout(payload, beat, settle, o) \in 0..100 \cup {None}
<1>1. \A c : Pays(c) \in 0..100
  BY DEF Pays
<1>2. Compared(beat, settle, o) \in 0..100 \cup {None}
  BY <1>1 DEF Compared
<1>3. payload.prices[o] \in 0..100 \cup {None}
  BY DEF AnyPayload
<1> QED BY <1>1, <1>2, <1>3 DEF Payout

-----------------------------------------------------------------------------
(* Types.                                                                  *)

\* What a thread's record must meet, whichever thread holds it.
RecordOK(r) ==
  /\ r \in WorkerState
  /\ r.pc # "idle" => r.slug \in Candidates(target)
  /\ r.pc \in {"price_to_beat", "settlement_price"} =>
       Listed(r.slug) /\ r.payload \in AllPayloads(r.slug)
  /\ r.pc = "settlement_price" => r.beat \in Quotes(r.slug, FALSE)

\* A step of one thread leaves the others as they are.
LEMMA MoveLemma ==
  ASSUME TypeOK, NEW w \in Workers, NEW r, RecordOK(r),
         worker' = [worker EXCEPT ![w] = r], UNCHANGED <<target, gamma>>
  PROVE  /\ worker' \in [Workers -> WorkerState]
         /\ \A x \in Workers : WorkerOK(x)'
         /\ worker'[w] = r
         /\ \A x \in Workers \ {w} : worker'[x] = worker[x]
<1>1. worker \in [Workers -> WorkerState] /\ \A x \in Workers : WorkerOK(x)
  BY DEF TypeOK
<1>2. /\ worker' \in [Workers -> WorkerState]
      /\ worker'[w] = r
      /\ \A x \in Workers \ {w} : worker'[x] = worker[x]
  BY <1>1 DEF RecordOK
<1>3. ASSUME NEW x \in Workers PROVE WorkerOK(x)'
  <2>1. CASE x = w
    BY <1>2, <2>1 DEF RecordOK, WorkerOK, Listed, AllPayloads
  <2>2. CASE x # w
    BY <1>1, <1>2, <2>2 DEF WorkerOK, Listed
  <2> QED BY <2>1, <2>2
<1> QED BY <1>2, <1>3

LEMMA IdleLemma == RecordOK(Idle)
<1>1. 0 \in 0..(Tries - 1)
  BY TriesAssumption
<1> QED BY <1>1 DEF RecordOK, Idle, WorkerState, Positions, AnyQuote

LEMMA TypeInit == Init => TypeOK
<1> SUFFICES ASSUME Init PROVE TypeOK
  OBVIOUS
<1>1. \A w \in Workers : worker[w] = Idle /\ WorkerOK(w)
  BY DEF Init, WorkerOK, Idle
<1>2. worker \in [Workers -> WorkerState]
  BY IdleLemma DEF Init, RecordOK
<1>3. /\ out \in [Slugs -> [Outcomes -> 0..100 \cup {None}] \cup {None}]
      /\ told \in [Slugs -> SUBSET Outcomes]
  BY DEF Init
<1> QED BY <1>1, <1>2, <1>3 DEF Init, TypeOK

LEMMA TypeStep == TypeOK /\ [Next]_vars => TypeOK'
<1> SUFFICES ASSUME TypeOK, [Next]_vars PROVE TypeOK'
  OBVIOUS
<1>1. CASE UNCHANGED vars
  BY <1>1 DEF TypeOK, vars, outside, WorkerOK, Listed
<1>2. ASSUME NEW s \in Slugs, List(s) \/ Resolve(s) PROVE TypeOK'
  <2>1. \A x : Listed(x) => Listed(x)'
    BY <1>2 DEF TypeOK, List, Resolve, Listed
  <2>2. gamma' \in [Slugs -> {"unlisted", "open", "resolved"}]
    BY <1>2 DEF TypeOK, List, Resolve
  <2>3. \A w \in Workers : WorkerOK(w)'
    BY <1>2, <2>1 DEF TypeOK, List, Resolve, WorkerOK
  <2> QED BY <1>2, <2>2, <2>3 DEF TypeOK, List, Resolve
<1>3. ASSUME NEW w \in Workers, Work(w) PROVE TypeOK'
  <2>0. worker[w] \in WorkerState /\ WorkerOK(w) /\ RecordOK(worker[w])
    BY DEF TypeOK, WorkerOK, RecordOK, AllPayloads
  <2>1. ASSUME NEW s \in todo, Take(w, s) PROVE TypeOK'
    <3> DEFINE r == [Idle EXCEPT !.pc = "fetch", !.slug = s]
    <3>1. s \in Candidates(target) /\ s \in Nat
      BY <2>1, CandidatesLemma DEF TypeOK
    <3>2. RecordOK(r)
      BY <3>1, IdleLemma DEF RecordOK, Idle, WorkerState, Positions
    <3>3. worker' = [worker EXCEPT ![w] = r] /\ UNCHANGED <<target, gamma>>
      BY <2>1 DEF Take, outside
    <3> HIDE DEF r
    <3> QED BY <2>1, <3>2, <3>3, MoveLemma DEF TypeOK, Take, outside
  <2>2. ASSUME Free(w), UNCHANGED <<outside, todo, phase, answer>>,
               failures' \subseteq Candidates(target), proxied' \subseteq Slugs,
               out' \in [Slugs -> [Outcomes -> 0..100 \cup {None}] \cup {None}],
               told' \in [Slugs -> SUBSET Outcomes]
        PROVE  TypeOK'
    <3>1. worker' = [worker EXCEPT ![w] = Idle] /\ UNCHANGED <<target, gamma>>
      BY <2>2 DEF Free, outside
    <3> QED BY <2>2, <3>1, MoveLemma, IdleLemma DEF TypeOK, outside
  <2>3. ASSUME NEW payload \in Payloads(worker[w].slug), Found(w, payload) PROVE TypeOK'
    <3>1. CASE OutOfWindow(worker[w].slug)
      BY <2>2, <2>3, <3>1 DEF Found, TypeOK, outside
    <3>2. CASE ~OutOfWindow(worker[w].slug)
      <4> DEFINE r == [worker[w] EXCEPT !.pc = "price_to_beat", !.payload = payload]
      <4>1. /\ payload \in AllPayloads(worker[w].slug)
            /\ Listed(worker[w].slug)
        BY <2>3, EvidenceLemma
      <4>2. payload \in AnyPayload
        BY <4>1, EvidenceLemma DEF Listed
      <4>3. worker[w].slug \in Candidates(target)
        BY <2>0, <2>3 DEF Found, RecordOK
      <4>4. RecordOK(r)
        BY <2>0, <4>1, <4>2, <4>3 DEF RecordOK, WorkerState, Positions
      <4>5. worker' = [worker EXCEPT ![w] = r] /\ UNCHANGED <<target, gamma>>
        BY <2>3, <3>2 DEF Found, outside
      <4> HIDE DEF r
      <4> QED BY <2>3, <4>4, <4>5, MoveLemma DEF TypeOK, Found, outside
    <3> QED BY <3>1, <3>2
  <2>4. ASSUME GiveUp(w), worker[w].pc # "idle" PROVE TypeOK'
    BY <2>0, <2>2, <2>4 DEF GiveUp, TypeOK, outside, RecordOK
  <2>5. ASSUME NotFound(w) PROVE TypeOK'
    BY <2>2, <2>4, <2>5 DEF NotFound, TypeOK, outside
  <2>6. ASSUME FetchError(w) PROVE TypeOK'
    <3>1. CASE LastTry(w)
      BY <2>4, <2>6, <3>1 DEF FetchError
    <3>2. CASE ~LastTry(w)
      <4> DEFINE r == [worker[w] EXCEPT !.attempt = @ + 1]
      <4>1. worker[w].attempt + 1 \in 0..(Tries - 1)
        BY <2>0, <3>2, TriesAssumption DEF LastTry, WorkerState
      <4>2. RecordOK(r)
        BY <2>0, <4>1 DEF RecordOK, WorkerState
      <4>3. worker' = [worker EXCEPT ![w] = r] /\ UNCHANGED <<target, gamma>>
        BY <2>6, <3>2 DEF FetchError, outside
      <4> HIDE DEF r
      <4> QED BY <2>6, <3>2, <4>2, <4>3, MoveLemma DEF TypeOK, FetchError, outside
    <3> QED BY <3>1, <3>2
  <2>7. ASSUME NEW quote, Noted(worker[w].slug, quote), quote # None => worker[w].slug \in Slugs
        PROVE  proxied' \subseteq Slugs
    BY <2>7 DEF Noted, TypeOK
  <2>8. ASSUME NEW quote \in Quotes(worker[w].slug, FALSE), PriceToBeat(w, quote)
        PROVE  TypeOK'
    <3> DEFINE r == [worker[w] EXCEPT !.pc = "settlement_price", !.beat = quote]
    <3>1. quote \in AnyQuote /\ worker[w].slug \in Slugs
      BY <2>0, <2>8, EvidenceLemma DEF PriceToBeat, RecordOK, Listed
    <3>2. RecordOK(r)
      BY <2>0, <2>8, <3>1 DEF RecordOK, WorkerState, Positions, PriceToBeat
    <3>3. worker' = [worker EXCEPT ![w] = r] /\ UNCHANGED <<target, gamma>>
      BY <2>8 DEF PriceToBeat, outside
    <3>4. proxied' \subseteq Slugs
      BY <2>7, <2>8, <3>1 DEF PriceToBeat
    <3> HIDE DEF r
    <3> QED BY <2>8, <3>2, <3>3, <3>4, MoveLemma DEF TypeOK, PriceToBeat, outside
  <2>9. ASSUME NEW quote \in Quotes(worker[w].slug, TRUE), SettlementPrice(w, quote)
        PROVE  TypeOK'
    <3>1. /\ quote \in AnyQuote /\ worker[w].slug \in Slugs
          /\ worker[w].payload \in AnyPayload /\ worker[w].beat \in AnyQuote
      BY <2>0, <2>9, EvidenceLemma DEF SettlementPrice, RecordOK, WorkerState, Listed, Positions
    <3>2. [o \in Outcomes |-> Payout(worker[w].payload, worker[w].beat, quote, o)]
            \in [Outcomes -> 0..100 \cup {None}]
      BY <3>1, PayoutLemma
    <3>3. out' \in [Slugs -> [Outcomes -> 0..100 \cup {None}] \cup {None}]
      BY <2>9, <3>1, <3>2 DEF SettlementPrice, TypeOK
    <3>4. proxied' \subseteq Slugs
      BY <2>7, <2>9, <3>1 DEF SettlementPrice
    <3>5. told' \in [Slugs -> SUBSET Outcomes]
      BY <2>9, <3>1 DEF SettlementPrice, TypeOK, TellsOf
    <3> QED BY <2>2, <2>9, <3>3, <3>4, <3>5 DEF SettlementPrice, TypeOK, outside
  <2>10. ASSUME Break(w) PROVE TypeOK'
    BY <2>4, <2>10 DEF Break
  <2> QED BY <1>3, <2>1, <2>3, <2>5, <2>6, <2>8, <2>9, <2>10 DEF Work
<1>4. ASSUME Finish PROVE TypeOK'
  BY <1>4 DEF Finish, TypeOK, outside, Resolved, WorkerOK, Listed
<1> QED BY <1>1, <1>2, <1>3, <1>4 DEF Next

\* Every variable keeps its type: a thread at work holds a candidate, and past
\* the fetch the payload of a listed contract.
THEOREM TypeCorrect == Spec => []TypeOK
  BY TypeInit, TypeStep, PTL DEF Spec

-----------------------------------------------------------------------------
(* The answer is complete.                                                 *)

LEMMA PoolInit == Init => PoolInv
<1> SUFFICES ASSUME Init PROVE PoolInv
  OBVIOUS
<1>1. GammaMovesOn /\ EmptyAnswer
  BY DEF Init, GammaMovesOn, EmptyAnswer
<1>2. NothingDropped
  BY CandidatesLemma DEF Init, NothingDropped, InPool
<1>3. NothingInvented
  BY DEF Init, NothingInvented
<1> QED BY <1>1, <1>2, <1>3 DEF PoolInv

\* A thread that is done with its slug has it given up or resolved, unless
\* the slug is none that the call must report.
LEMMA FreeLemma ==
  ASSUME TypeOK, PoolInv, NEW w \in Workers, Free(w), UNCHANGED <<outside, todo, phase, answer>>,
         failures \subseteq failures',
         \A s \in Slugs : out[s] # None => out'[s] # None,
         \A s \in Slugs : out'[s] # None /\ out[s] = None => Listed(s) /\ s \in Wanted(target),
         LET s == worker[w].slug IN
           \/ s \notin Wanted(target)
           \/ before[s] = "unlisted"
           \/ s \in failures'
           \/ out'[s] # None
  PROVE  PoolInv'
<1>1. /\ worker'[w] = Idle
      /\ \A x \in Workers \ {w} : worker'[x] = worker[x]
  BY MoveLemma, IdleLemma DEF Free, outside
<1>2. Wanted(target) \subseteq Slugs
  BY CandidatesLemma DEF TypeOK
<1>3. ASSUME NEW s \in Wanted(target), before[s] # "unlisted" PROVE InPool(s)'
  <2>1. InPool(s)
    BY <1>3 DEF PoolInv, NothingDropped
  <2>2. CASE s \in todo \/ s \in failures \/ out[s] # None
    BY <1>2, <2>2 DEF InPool
  <2>3. ASSUME NEW x \in Workers, worker[x].pc # "idle", worker[x].slug = s PROVE InPool(s)'
    <3>1. CASE x = w
      BY <1>3, <2>3, <3>1 DEF InPool
    <3>2. CASE x # w
      BY <1>1, <2>3, <3>2 DEF InPool
    <3> QED BY <3>1, <3>2
  <2> QED BY <2>1, <2>2, <2>3 DEF InPool
<1>4. NothingDropped'
  BY <1>3 DEF NothingDropped, outside, Wanted
<1>5. NothingInvented'
  BY DEF PoolInv, NothingInvented, outside, Listed, Wanted
<1> QED BY <1>4, <1>5 DEF PoolInv, GammaMovesOn, EmptyAnswer, outside

\* A thread that goes on with its slug drops nothing.
LEMMA GoOnLemma ==
  ASSUME TypeOK, PoolInv, NEW w \in Workers, NEW r, worker' = [worker EXCEPT ![w] = r],
         r.pc # "idle", r.slug = worker[w].slug,
         UNCHANGED <<outside, todo, failures, out, phase, answer>>
  PROVE  PoolInv'
<1>1. /\ worker'[w] = r
      /\ \A x \in Workers \ {w} : worker'[x] = worker[x]
  BY DEF TypeOK
<1>2. ASSUME NEW s \in Wanted(target), before[s] # "unlisted" PROVE InPool(s)'
  BY <1>1, <1>2 DEF PoolInv, NothingDropped, InPool
<1>3. NothingDropped'
  BY <1>2 DEF NothingDropped, outside, Wanted
<1> QED BY <1>3 DEF PoolInv, GammaMovesOn, NothingInvented, EmptyAnswer, outside, Listed, Wanted

LEMMA PoolStep == TypeOK /\ PoolInv /\ [Next]_vars => PoolInv'
<1> SUFFICES ASSUME TypeOK, PoolInv, [Next]_vars PROVE PoolInv'
  OBVIOUS
<1>1. CASE UNCHANGED vars
  BY <1>1 DEF PoolInv, GammaMovesOn, NothingDropped, NothingInvented, EmptyAnswer, InPool,
              vars, outside, Listed, Wanted
<1>2. ASSUME NEW s \in Slugs, List(s) \/ Resolve(s) PROVE PoolInv'
  <2>1. /\ \A x \in Slugs : gamma[x] # "unlisted" => gamma'[x] # "unlisted"
        /\ \A x \in Slugs : gamma[x] = "resolved" => gamma'[x] = "resolved"
        /\ UNCHANGED <<target, before, todo, worker, failures, out, phase, answer>>
    BY <1>2 DEF TypeOK, List, Resolve
  <2>2. GammaMovesOn'
    BY <2>1 DEF PoolInv, GammaMovesOn
  <2>3. NothingInvented'
    BY <2>1 DEF PoolInv, NothingInvented, Listed, Wanted
  <2>4. NothingDropped' /\ EmptyAnswer'
    BY <2>1 DEF PoolInv, NothingDropped, EmptyAnswer, InPool, Wanted
  <2> QED BY <2>2, <2>3, <2>4 DEF PoolInv
<1>3. ASSUME NEW w \in Workers, Work(w) PROVE PoolInv'
  <2>0. RecordOK(worker[w])
    BY DEF TypeOK, WorkerOK, RecordOK, AllPayloads
  <2>1. ASSUME NEW s \in todo, Take(w, s) PROVE PoolInv'
    <3>1. /\ worker'[w].pc # "idle" /\ worker'[w].slug = s
          /\ \A x \in Workers \ {w} : worker'[x] = worker[x]
      BY <2>1 DEF Take, TypeOK, Idle
    <3>2. ASSUME NEW t \in Wanted(target), before[t] # "unlisted" PROVE InPool(t)'
      BY <2>1, <3>1, <3>2 DEF PoolInv, NothingDropped, InPool, Take
    <3>3. NothingDropped'
      BY <2>1, <3>2 DEF NothingDropped, Take, outside, Wanted
    <3> QED BY <2>1, <3>3 DEF PoolInv, GammaMovesOn, NothingInvented, EmptyAnswer, Take, outside,
                             Listed, Wanted
  <2>2. ASSUME NEW payload \in Payloads(worker[w].slug), Found(w, payload) PROVE PoolInv'
    <3> DEFINE r == [worker[w] EXCEPT !.pc = "price_to_beat", !.payload = payload]
    <3>1. ~OutOfWindow(worker[w].slug)
      BY <2>0, <2>2, CandidatesLemma DEF TypeOK, Found, RecordOK
    <3>2. worker' = [worker EXCEPT ![w] = r]
      BY <2>2, <3>1 DEF Found
    <3>3. r.pc # "idle" /\ r.slug = worker[w].slug
      BY <2>0 DEF RecordOK, WorkerState
    <3> HIDE DEF r
    <3> QED BY <2>2, <3>2, <3>3, GoOnLemma DEF Found, outside
  <2>3. ASSUME GiveUp(w) PROVE PoolInv'
    BY <2>3, FreeLemma DEF GiveUp, outside
  <2>4. ASSUME NotFound(w) PROVE PoolInv'
    <3>1. CASE target = Series
      <4>1. worker[w].slug \notin Slugs \/ before[worker[w].slug] = "unlisted"
        BY <2>4 DEF NotFound, Listed, PoolInv, GammaMovesOn
      <4>2. Wanted(target) \subseteq Slugs
        BY CandidatesLemma DEF TypeOK
      <4>3. worker[w].slug \notin Wanted(target) \/ before[worker[w].slug] = "unlisted"
        BY <4>1, <4>2
      <4> QED BY <2>4, <3>1, <4>3, FreeLemma DEF NotFound, outside
    <3>2. CASE target # Series
      BY <2>3, <2>4, <3>2 DEF NotFound
    <3> QED BY <3>1, <3>2
  <2>5. ASSUME FetchError(w) PROVE PoolInv'
    <3>1. CASE LastTry(w)
      BY <2>3, <2>5, <3>1 DEF FetchError
    <3>2. CASE ~LastTry(w)
      <4> DEFINE r == [worker[w] EXCEPT !.attempt = @ + 1]
      <4>1. worker' = [worker EXCEPT ![w] = r]
        BY <2>5, <3>2 DEF FetchError
      <4>2. r.pc # "idle" /\ r.slug = worker[w].slug
        BY <2>0, <2>5 DEF FetchError, RecordOK, WorkerState
      <4> HIDE DEF r
      <4> QED BY <2>5, <3>2, <4>1, <4>2, GoOnLemma DEF FetchError, outside
    <3> QED BY <3>1, <3>2
  <2>6. ASSUME NEW quote, PriceToBeat(w, quote) PROVE PoolInv'
    <3> DEFINE r == [worker[w] EXCEPT !.pc = "settlement_price", !.beat = quote]
    <3>1. worker' = [worker EXCEPT ![w] = r]
      BY <2>6 DEF PriceToBeat
    <3>2. r.pc # "idle" /\ r.slug = worker[w].slug
      BY <2>0 DEF RecordOK, WorkerState
    <3> HIDE DEF r
    <3> QED BY <2>6, <3>1, <3>2, GoOnLemma DEF PriceToBeat, outside
  <2>7. ASSUME NEW quote \in Quotes(worker[w].slug, TRUE), SettlementPrice(w, quote)
        PROVE  PoolInv'
    <3> DEFINE s == worker[w].slug
               paid == [o \in Outcomes |-> Payout(worker[w].payload, worker[w].beat, quote, o)]
    <3>1. s \in Candidates(target) /\ Listed(s)
      BY <2>0, <2>7 DEF SettlementPrice, RecordOK
    <3>2. s \in Slugs /\ s \in Wanted(target)
      BY <3>1, CandidatesLemma DEF Listed, TypeOK
    <3>3. out' = [out EXCEPT ![s] = paid]
      BY <2>7 DEF SettlementPrice
    <3>4. paid # None
      <4>1. /\ worker[w].payload \in AnyPayload /\ worker[w].beat \in AnyQuote
            /\ quote \in AnyQuote
        BY <2>0, <2>7, <3>2, EvidenceLemma DEF SettlementPrice, RecordOK, WorkerState
      <4>2. paid \in [Outcomes -> 0..100 \cup {None}]
        BY <4>1, PayoutLemma
      <4> QED BY <4>2, NoneAssumption
    <3>5. out'[s] # None /\ \A t \in Slugs \ {s} : out'[t] = out[t]
      BY <3>2, <3>3, <3>4 DEF TypeOK
    <3> HIDE DEF s, paid
    <3>6. \A t \in Slugs : out[t] # None => out'[t] # None
      BY <3>5
    <3>7. \A t \in Slugs : out'[t] # None /\ out[t] = None => t = s
      BY <3>5
    <3> QED BY <2>7, <3>1, <3>2, <3>5, <3>6, <3>7, FreeLemma DEF SettlementPrice, outside, s
  <2>8. ASSUME Break(w) PROVE PoolInv'
    BY <2>3, <2>8 DEF Break
  <2> QED BY <1>3, <2>1, <2>2, <2>4, <2>5, <2>6, <2>7, <2>8 DEF Work
<1>4. ASSUME Finish PROVE PoolInv'
  <2>1. UNCHANGED <<target, gamma, before, todo, worker, failures, out>> /\ phase' # "running"
    BY <1>4 DEF Finish, outside
  <2> QED BY <2>1 DEF PoolInv, GammaMovesOn, NothingDropped, NothingInvented, EmptyAnswer, InPool,
                     Listed, Wanted
<1> QED BY <1>1, <1>2, <1>3, <1>4 DEF Next

LEMMA InvCorrect == Spec => []Inv
<1>1. Init => Inv
  BY TypeInit, PoolInit DEF Inv
<1>2. Inv /\ [Next]_vars => Inv'
  BY TypeStep, PoolStep DEF Inv
<1> QED BY <1>1, <1>2, PTL DEF Spec

LEMMA PromiseInit == Init => Promise!Init
  BY CandidatesLemma DEF Init, Promise!Init, Listed

LEMMA PromiseStep == Inv /\ [Next]_vars => [Promise!Next]_(Promise!vars)
<1> SUFFICES ASSUME Inv, [Next]_vars PROVE [Promise!Next]_(Promise!vars)
  OBVIOUS
<1> USE DEF Inv
<1>0. TypeOK /\ PoolInv
  OBVIOUS
<1>1. ASSUME UNCHANGED <<target, gamma, before, phase, answer>> PROVE UNCHANGED Promise!vars
  BY <1>1 DEF Promise!vars, Listed, Wanted
<1>2. CASE UNCHANGED vars
  BY <1>1, <1>2 DEF vars, outside
<1>3. ASSUME NEW s \in Slugs, List(s) PROVE Promise!List(s)
  <2>1. gamma' = [gamma EXCEPT ![s] = "open"] /\ gamma[s] = "unlisted"
    BY <1>3 DEF List
  <2>2. {x \in Slugs : Listed(x)}' = {x \in Slugs : Listed(x)} \cup {s} /\ ~Listed(s)
    BY <2>1 DEF TypeOK, Listed
  <2> QED BY <1>3, <2>2 DEF Promise!List, List, Wanted
<1>4. ASSUME NEW s \in Slugs, Resolve(s) PROVE UNCHANGED Promise!vars
  <2>1. {x \in Slugs : Listed(x)}' = {x \in Slugs : Listed(x)}
    BY <1>4 DEF Resolve, TypeOK, Listed
  <2> QED BY <1>4, <2>1 DEF Resolve, Promise!vars, Wanted
<1>5. ASSUME NEW w \in Workers, Work(w) PROVE UNCHANGED Promise!vars
  <2>1. UNCHANGED <<target, gamma, before, phase, answer>>
    BY <1>5 DEF Work, Take, Found, NotFound, FetchError, PriceToBeat, SettlementPrice, Break,
                GiveUp, outside
  <2> QED BY <1>1, <2>1
<1>6. ASSUME Finish PROVE Promise!Next
  <2>1. /\ phase = "running" /\ todo = {} /\ \A w \in Workers : worker[w].pc = "idle"
        /\ UNCHANGED <<target, gamma, before, todo, worker, failures, out>>
    BY <1>6 DEF Finish, outside
  <2>2. /\ {x \in Slugs : Listed(x)}' = {x \in Slugs : Listed(x)}
        /\ {x \in Slugs : before[x] # "unlisted"}' = {x \in Slugs : before[x] # "unlisted"}
        /\ Wanted(target)' = Wanted(target)
    BY <2>1 DEF Listed, Wanted
  <2>3. CASE failures = {}
    <3>1. phase' = "returned" /\ answer' = Resolved
      BY <1>6, <2>3 DEF Finish
    <3>2. {x \in Slugs : before[x] # "unlisted"} \cap Wanted(target) \subseteq Resolved
      BY <2>1, <2>3 DEF PoolInv, NothingDropped, InPool, Resolved
    <3>3. Resolved \subseteq {x \in Slugs : Listed(x)} \cap Wanted(target)
      BY DEF PoolInv, NothingInvented, Resolved
    <3>4. Promise!Return(Resolved) /\ Resolved \in SUBSET Slugs
      BY <2>1, <2>2, <3>1, <3>2, <3>3 DEF Promise!Return, Resolved
    <3> QED BY <3>4 DEF Promise!Next
  <2>4. CASE failures # {}
    <3>1. phase' = "raised" /\ answer' = {} /\ answer = {}
      BY <1>6, <2>1, <2>4 DEF Finish, PoolInv, EmptyAnswer
    <3>2. Promise!Raise
      BY <2>1, <2>2, <3>1 DEF Promise!Raise
    <3> QED BY <3>2 DEF Promise!Next
  <2> QED BY <2>3, <2>4
<1> QED BY <1>2, <1>3, <1>4, <1>5, <1>6 DEF Next, Promise!Next

\* A discovery that returns names every contract of the date that Gamma listed
\* when it began and none that Gamma does not list, whatever failed on the way
\* and however the threads took turns.
THEOREM DiscoveryKeepsPromise == Spec => KeepsPromise
  BY InvCorrect, PromiseInit, PromiseStep, PTL DEF Spec, KeepsPromise, Promise!Spec

-----------------------------------------------------------------------------
(* The payouts settle.                                                     *)

SettledRight(s) ==
  /\ \A o \in Outcomes : PaysRightly(s, o)
  /\ told[s] \in {{}, Outcomes} => PaysWhole(s)

\* The evidence a thread holds: the payload of an open market is of a contract
\* that was not resolved when the call began, and a proxy quote is on record.
EvidenceOK(w) ==
  LET me == worker[w] IN
  /\ me.pc \in {"price_to_beat", "settlement_price"} =>
       \/ before[me.slug] # "resolved"
       \/ me.payload \in ResolvedPayloads(me.slug)
  /\ me.pc = "settlement_price" =>
       me.beat = None \/ me.beat.quality # "proxy" \/ me.slug \in proxied

PayInv ==
  /\ \A s \in Slugs : out[s] # None => SettledRight(s)
  /\ \A w \in Workers : EvidenceOK(w)
  /\ answer \subseteq Resolved

Proxied(quote) == quote # None /\ quote.quality = "proxy"

\* What two quotes tell of a contract: the same winner to both sides, or
\* nothing to both; without a proxy never the loser.
LEMMA ComparedLemma ==
  ASSUME NEW s \in Slugs, NEW beat \in Quotes(s, FALSE), NEW settle \in Quotes(s, TRUE)
  PROVE  \/ \A o \in Outcomes : Compared(beat, settle, o) = None
         \/ \E x \in Outcomes :
              /\ \A o \in Outcomes : Compared(beat, settle, o) = Pays(o = x)
              /\ x = Winner[s] \/ Proxied(beat) \/ Proxied(settle)
<1>1. CASE beat = None \/ settle = None
  BY <1>1 DEF Compared
<1>2. CASE beat # None /\ settle # None
  <2>1. /\ beat.price \in 1..3 /\ settle.price \in 1..3
        /\ ~Proxied(beat) => beat.price = 2
        /\ ~Proxied(settle) => settle.price = IF Winner[s] = "Up" THEN 3 ELSE 1
    BY <1>2 DEF Quotes, SettlingPrice, Proxied
  <2>2. CASE beat.price = settle.price
    BY <1>2, <2>2 DEF Compared
  <2>3. CASE beat.price # settle.price
    <3> DEFINE x == IF settle.price > beat.price THEN "Up" ELSE "Down"
    <3>1. x \in Outcomes
      BY DEF Outcomes
    <3>2. \A o \in Outcomes : Compared(beat, settle, o) = Pays(o = x)
      BY <1>2, <2>3 DEF Compared
    <3>3. ~Proxied(beat) /\ ~Proxied(settle) => x = Winner[s]
      BY <2>1, WinnerAssumption DEF Outcomes
    <3> HIDE DEF x
    <3> QED BY <3>1, <3>2, <3>3
  <2> QED BY <2>2, <2>3
<1> QED BY <1>1, <1>2

\* The fall-through, source by source.  A side that an open market tells of is
\* paid its live price.
LEMMA OpenLemma ==
  ASSUME NEW s \in Slugs, NEW payload \in OpenPayloads(s), NEW beat, NEW settle,
         NEW o \in TellsOf(payload)
  PROVE  Payout(payload, beat, settle, o) = Live[o]
<1>1. PICK shape \in Shapes : /\ ~shape.named /\ shape.live /\ shape.tokens = {}
                             /\ payload = PayloadOf(s, shape)
  BY DEF OpenPayloads
<1>2. o \in Outcomes
  BY DEF TellsOf
<1>3. /\ payload.winning = None
      /\ payload.prices[o] = IF o \notin shape.prices THEN None ELSE Live[o]
      /\ payload.tokens[o] = None
  BY <1>1, <1>2 DEF PayloadOf
<1>4. payload.prices[o] # None
  BY <1>3 DEF TellsOf
<1> QED BY <1>3, <1>4 DEF Payout

\* A side that a resolved market tells of is paid what it is worth, whichever
\* source tells, also where prices lag behind a winner that is named.
LEMMA ResolvedLemma ==
  ASSUME NEW s \in Slugs, NEW payload \in ResolvedPayloads(s), NEW beat, NEW settle,
         NEW o \in TellsOf(payload)
  PROVE  Payout(payload, beat, settle, o) = Pays(o = Winner[s])
<1>1. PICK shape \in Shapes : /\ shape.live => shape.named
                             /\ payload = PayloadOf(s, shape)
  BY DEF ResolvedPayloads
<1>2. o \in Outcomes /\ Winner[s] # None
  BY WinnerAssumption, NoneAssumption DEF TellsOf
<1>3. /\ payload.winning = IF shape.named THEN Winner[s] ELSE None
      /\ payload.prices[o] = IF o \notin shape.prices THEN None
                             ELSE IF shape.live THEN Live[o] ELSE Pays(o = Winner[s])
      /\ payload.tokens[o] = IF o \in shape.tokens THEN o = Winner[s] ELSE None
  BY <1>1, <1>2 DEF PayloadOf
<1>4. CASE shape.named
  BY <1>2, <1>3, <1>4 DEF Payout
<1>5. CASE ~shape.named /\ o \in shape.prices
  <2>1. payload.winning = None /\ payload.prices[o] = Pays(o = Winner[s])
    BY <1>1, <1>3, <1>5
  <2>2. Pays(o = Winner[s]) # None
    BY NoneAssumption DEF Pays
  <2> QED BY <2>1, <2>2 DEF Payout
<1>6. CASE ~shape.named /\ o \notin shape.prices
  <2>1. payload.winning = None /\ payload.prices[o] = None
    BY <1>3, <1>6
  <2>2. payload.tokens[o] # None
    BY <2>1 DEF TellsOf
  <2>3. payload.tokens[o] = (o = Winner[s])
    BY <1>3, <2>2
  <2> QED BY <2>1, <2>2, <2>3 DEF Payout
<1> QED BY <1>4, <1>5, <1>6

\* A side the payload does not tell of is paid by the quotes.
LEMMA SilentLemma ==
  ASSUME NEW payload, NEW beat, NEW settle, NEW o \in Outcomes, o \notin TellsOf(payload)
  PROVE  Payout(payload, beat, settle, o) = Compared(beat, settle, o)
  BY DEF Payout, TellsOf

\* Two payouts that name one winner, or are live, are those of one bet.
LEMMA WholeLemma ==
  ASSUME NEW s, \/ \A o \in Outcomes : out'[s][o] = Live[o]
                \/ \E x \in Outcomes : \A o \in Outcomes : out'[s][o] = Pays(o = x)
  PROVE  PaysWhole(s)'
<1>1. \A o \in Outcomes : Live[o] = IF o = "Up" THEN 60 ELSE 40
  BY DEF Live
<1>2. /\ \A o \in Outcomes : out'[s][o] \in 0..100
      /\ out'[s]["Up"] + out'[s]["Down"] = 100
  BY <1>1 DEF Pays, Outcomes
<1> QED BY <1>2, NoneAssumption DEF PaysWhole

LEMMA PayInit == Init => PayInv
  BY DEF Init, PayInv, EvidenceOK, Idle, Resolved

\* Steps that build no resolution leave what is paid; a record grows.
LEMMA KeepLemma ==
  ASSUME PayInv, proxied \subseteq proxied', UNCHANGED <<before, out, told, answer>>,
         \A w \in Workers : EvidenceOK(w)'
  PROVE  PayInv'
  BY DEF PayInv, SettledRight, PaysWhole, PaysRightly, Resolved

\* The evidence of a thread that did not move.
LEMMA EvidenceStays ==
  ASSUME NEW w \in Workers, EvidenceOK(w), worker'[w] = worker[w], before' = before,
         proxied \subseteq proxied'
  PROVE  EvidenceOK(w)'
  BY DEF EvidenceOK

LEMMA PayStep == Inv /\ PayInv /\ [Next]_vars => PayInv'
<1> SUFFICES ASSUME Inv, PayInv, [Next]_vars PROVE PayInv'
  OBVIOUS
<1>0. TypeOK /\ PoolInv /\ (\A w \in Workers : EvidenceOK(w)) /\ worker \in [Workers -> WorkerState]
  BY DEF Inv, PayInv, TypeOK
<1>1. CASE UNCHANGED vars
  BY <1>0, <1>1, KeepLemma, EvidenceStays DEF vars, outside
<1>2. ASSUME NEW s \in Slugs, List(s) \/ Resolve(s) PROVE PayInv'
  BY <1>0, <1>2, KeepLemma, EvidenceStays DEF List, Resolve
<1>3. ASSUME NEW w \in Workers, Work(w) PROVE PayInv'
  <2>0. RecordOK(worker[w]) /\ EvidenceOK(w)
    BY <1>0 DEF TypeOK, WorkerOK, RecordOK, AllPayloads
  <2>1. ASSUME NEW r, worker' = [worker EXCEPT ![w] = r], UNCHANGED <<before, out, told, answer>>,
               proxied \subseteq proxied', EvidenceOK(w)'
        PROVE  PayInv'
    <3>1. \A x \in Workers \ {w} : worker'[x] = worker[x]
      BY <1>0, <2>1
    <3>2. \A x \in Workers : EvidenceOK(x)'
      BY <1>0, <2>1, <3>1, EvidenceStays
    <3> QED BY <2>1, <3>2, KeepLemma
  <2>2. ASSUME worker' = [worker EXCEPT ![w] = Idle] PROVE EvidenceOK(w)'
    BY <1>0, <2>2 DEF EvidenceOK, Idle
  <2>3. ASSUME NEW s \in todo, Take(w, s) PROVE PayInv'
    <3>1. worker'[w].pc = "fetch"
      BY <1>0, <2>3 DEF Take, Idle
    <3>2. EvidenceOK(w)'
      BY <3>1 DEF EvidenceOK
    <3> QED BY <2>1, <2>3, <3>2 DEF Take, outside
  <2>4. ASSUME NEW payload \in Payloads(worker[w].slug), Found(w, payload) PROVE PayInv'
    <3>1. CASE OutOfWindow(worker[w].slug)
      BY <2>1, <2>2, <2>4, <3>1 DEF Found, Free, outside
    <3>2. CASE ~OutOfWindow(worker[w].slug)
      <4>1. /\ worker'[w].pc = "price_to_beat" /\ worker'[w].slug = worker[w].slug
            /\ worker'[w].payload = payload
        BY <1>0, <2>4, <3>2 DEF Found, WorkerState
      <4>2. Listed(worker[w].slug)
        BY <2>4, EvidenceLemma
      <4>a. UNCHANGED <<before, out, told, answer, proxied>>
        BY <2>4 DEF Found, outside
      <4>6. EvidenceOK(w)'
        <5>1. CASE before[worker[w].slug] = "resolved"
          <6>1. gamma[worker[w].slug] = "resolved"
            BY <1>0, <4>2, <5>1 DEF PoolInv, GammaMovesOn, Listed
          <6>2. payload \in ResolvedPayloads(worker[w].slug)
            BY <2>4, <4>2, <6>1 DEF Payloads
          <6> QED BY <4>1, <4>a, <6>2 DEF EvidenceOK
        <5>2. CASE before[worker[w].slug] # "resolved"
          BY <4>1, <4>a, <5>2 DEF EvidenceOK
        <5> QED BY <5>1, <5>2
      <4>7. worker' = [worker EXCEPT ![w] =
                         [worker[w] EXCEPT !.pc = "price_to_beat", !.payload = payload]]
        BY <2>4, <3>2 DEF Found
      <4> QED BY <2>1, <4>a, <4>6, <4>7
    <3> QED BY <3>1, <3>2
  <2>5. ASSUME GiveUp(w) PROVE PayInv'
    BY <2>1, <2>2, <2>5 DEF GiveUp, Free, outside
  <2>6. ASSUME NotFound(w) PROVE PayInv'
    BY <2>1, <2>2, <2>5, <2>6 DEF NotFound, Free, outside
  <2>7. ASSUME FetchError(w) PROVE PayInv'
    <3>1. CASE LastTry(w)
      BY <2>5, <2>7, <3>1 DEF FetchError
    <3>2. CASE ~LastTry(w)
      <4>1. worker'[w].pc = "fetch"
        BY <1>0, <2>7, <3>2 DEF FetchError, WorkerState
      <4>2. EvidenceOK(w)'
        BY <4>1 DEF EvidenceOK
      <4> QED BY <2>1, <2>7, <3>2, <4>2 DEF FetchError, outside
    <3> QED BY <3>1, <3>2
  <2>8. ASSUME NEW quote \in Quotes(worker[w].slug, FALSE), PriceToBeat(w, quote) PROVE PayInv'
    <3>1. /\ worker'[w].pc = "settlement_price" /\ worker'[w].slug = worker[w].slug
          /\ worker'[w].payload = worker[w].payload /\ worker'[w].beat = quote
          /\ worker[w].pc = "price_to_beat"
      BY <1>0, <2>8 DEF PriceToBeat, WorkerState
    <3>2. /\ proxied \subseteq proxied'
          /\ quote = None \/ quote.quality # "proxy" \/ worker[w].slug \in proxied'
      BY <2>8 DEF PriceToBeat, Noted
    <3>3. EvidenceOK(w)'
      BY <2>0, <2>8, <3>1, <3>2 DEF EvidenceOK, PriceToBeat, outside
    <3> QED BY <2>1, <2>8, <3>2, <3>3 DEF PriceToBeat, outside
  <2>9. ASSUME NEW quote \in Quotes(worker[w].slug, TRUE), SettlementPrice(w, quote) PROVE PayInv'
    <3>s. PICK s, payload, beat : s = worker[w].slug /\ payload = worker[w].payload
                                  /\ beat = worker[w].beat
      OBVIOUS
    <3>p. PICK paid : paid = [o \in Outcomes |-> Payout(payload, beat, quote, o)]
      OBVIOUS
    <3>1. /\ s \in Slugs /\ payload \in AllPayloads(s)
          /\ beat \in Quotes(s, FALSE) /\ quote \in Quotes(s, TRUE)
      BY <2>0, <2>9, <3>s DEF SettlementPrice, RecordOK, Listed
    <3>2. proxied \subseteq proxied' /\ (Proxied(quote) => s \in proxied')
      BY <2>9, <3>s DEF SettlementPrice, Noted, Proxied
    <3>3. /\ Proxied(beat) => s \in proxied'
          /\ payload \in ResolvedPayloads(s) \/ before[s] # "resolved"
      BY <2>0, <2>9, <3>2, <3>s DEF SettlementPrice, EvidenceOK, Proxied
    <3>4. /\ out' = [out EXCEPT ![s] = paid] /\ told' = [told EXCEPT ![s] = TellsOf(payload)]
          /\ UNCHANGED <<before, answer>> /\ Free(w)
      BY <2>9, <3>s, <3>p DEF SettlementPrice, outside
    <3>a. paid \in [Outcomes -> 0..100 \cup {None}]
      <4>1. payload \in AnyPayload /\ beat \in AnyQuote /\ quote \in AnyQuote
        BY <3>1, EvidenceLemma
      <4> QED BY <3>p, <4>1, PayoutLemma
    <3>6. paid # None
      BY <3>a, NoneAssumption
    <3>7. /\ out'[s] = paid /\ told'[s] = TellsOf(payload)
          /\ \A t \in Slugs \ {s} : out'[t] = out[t] /\ told'[t] = told[t]
      BY <1>0, <3>1, <3>4 DEF TypeOK
    <3>8. SettledRight(s)'
      <4>1. Winner[s] \in Outcomes
        BY <3>1, WinnerAssumption
      <4>2. \A o \in Outcomes : out'[s][o] = Payout(payload, beat, quote, o)
        BY <3>7, <3>p
      <4>3. \A o \in Outcomes \ told'[s] : out'[s][o] = Compared(beat, quote, o)
        BY <3>7, <4>2, SilentLemma
      <4>4. \/ \A o \in told'[s] : out'[s][o] = Pays(o = Winner[s])
            \/ /\ before[s] # "resolved"
               /\ \A o \in told'[s] : out'[s][o] = Live[o]
        <5>1. \A o \in told'[s] : o \in TellsOf(payload) /\ o \in Outcomes
          BY <3>7 DEF TellsOf
        <5>2. CASE payload \in ResolvedPayloads(s)
          BY <3>1, <4>2, <5>1, <5>2, ResolvedLemma
        <5>3. CASE payload \notin ResolvedPayloads(s)
          <6>1. payload \in OpenPayloads(s)
            BY <3>1, <5>3 DEF AllPayloads
          <6> QED BY <3>1, <3>3, <4>2, <5>1, <5>3, <6>1, OpenLemma
        <5> QED BY <5>2, <5>3
      <4>5. \/ \A o \in Outcomes : Compared(beat, quote, o) = None
            \/ \E x \in Outcomes :
                 /\ \A o \in Outcomes : Compared(beat, quote, o) = Pays(o = x)
                 /\ x = Winner[s] \/ s \in proxied'
        <5>1. Proxied(beat) \/ Proxied(quote) => s \in proxied'
          BY <3>2, <3>3
        <5>2. \/ \A o \in Outcomes : Compared(beat, quote, o) = None
              \/ \E x \in Outcomes :
                   /\ \A o \in Outcomes : Compared(beat, quote, o) = Pays(o = x)
                   /\ x = Winner[s] \/ Proxied(beat) \/ Proxied(quote)
          BY <3>1, ComparedLemma
        <5> QED BY <5>1, <5>2
      <4>6. ASSUME NEW o \in Outcomes PROVE PaysRightly(s, o)'
        <5>1. CASE o \in told'[s]
          BY <3>4, <4>4, <5>1 DEF PaysRightly
        <5>2. CASE o \notin told'[s]
          BY <4>3, <4>5, <5>2 DEF PaysRightly
        <5> QED BY <5>1, <5>2
      <4>7. ASSUME told'[s] = Outcomes PROVE PaysWhole(s)'
        BY <4>1, <4>4, <4>7, WholeLemma
      <4>8. ASSUME told'[s] = {} PROVE PaysWhole(s)'
        <5>1. CASE \A o \in Outcomes : out'[s][o] = None
          <6>1. paid = NoPayout
            BY <3>7, <3>a, <5>1 DEF NoPayout
          <6> QED BY <3>7, <6>1 DEF PaysWhole, NoPayout
        <5>2. CASE \E x \in Outcomes : \A o \in Outcomes : out'[s][o] = Pays(o = x)
          BY <5>2, WholeLemma
        <5> QED BY <4>3, <4>5, <4>8, <5>1, <5>2
      <4> QED BY <4>6, <4>7, <4>8 DEF SettledRight
    <3>9. \A t \in Slugs \ {s} : out'[t] # None => SettledRight(t)'
      BY <3>2, <3>4, <3>7 DEF PayInv, SettledRight, PaysWhole, PaysRightly, NoPayout
    <3>10. \A x \in Workers : EvidenceOK(x)'
      <4>1. \A x \in Workers \ {w} : worker'[x] = worker[x]
        BY <1>0, <3>4 DEF Free
      <4>2. EvidenceOK(w)'
        BY <2>2, <3>4 DEF Free
      <4> QED BY <1>0, <3>2, <3>4, <4>1, <4>2, EvidenceStays
    <3>11. answer' \subseteq Resolved'
      BY <3>4, <3>6, <3>7 DEF PayInv, Resolved
    <3>12. \A t \in Slugs : out'[t] # None => SettledRight(t)'
      BY <3>8, <3>9
    <3> QED BY <3>10, <3>11, <3>12 DEF PayInv
  <2>10. ASSUME Break(w) PROVE PayInv'
    BY <2>5, <2>10 DEF Break
  <2> QED BY <1>3, <2>3, <2>4, <2>6, <2>7, <2>8, <2>9, <2>10 DEF Work
<1>4. ASSUME Finish PROVE PayInv'
  <2>1. UNCHANGED <<before, proxied, worker, out, told>> /\ (answer' = Resolved \/ answer' = {})
    BY <1>4 DEF Finish, outside
  <2> QED BY <2>1 DEF PayInv, SettledRight, PaysWhole, PaysRightly, Resolved, EvidenceOK
<1> QED BY <1>1, <1>2, <1>3, <1>4 DEF Next

\* Whichever sources the sides of a contract are paid from, each side's payout
\* is what its outcome is worth, unknown, or a live price of a contract that
\* was open when the call began; a proxy price decides only a side Gamma told
\* nothing of.  The two sides are those of one bet unless Gamma told of one
\* alone.
THEOREM PayoutsAlwaysSettle == Spec => []PayoutsSettle
<1>1. Init => PayInv
  BY PayInit
<1>2. Inv /\ PayInv /\ [Next]_vars => PayInv'
  BY PayStep
<1>3. PayInv => PayoutsSettle
  BY DEF PayInv, PayoutsSettle, SettledRight, Resolved
<1> QED BY <1>1, <1>2, <1>3, InvCorrect, PTL DEF Spec

=============================================================================
