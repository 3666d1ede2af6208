------------------------- MODULE ContinuousBarrier -------------------------
(***************************************************************************)
(* A continuously monitored barrier on a simulated path                    *)
(* (compile/simulation.rs, payoff/barrier.rs, payoff/barrier_bridge.rs,    *)
(* processes/black_scholes.rs, processes/local_vol_valuation.rs).          *)
(*                                                                         *)
(* The compiler merges the contract's dates with the ex-dates.  The path   *)
(* is then walked date by date: a diffusion interval up to the cum side of *)
(* the date, a certain hit when a dividend takes the price through the     *)
(* barrier, the next interval from the ex side.  Black-Scholes walks the   *)
(* observation points, local volatility every node of its time grid; each  *)
(* in an exact and in a smoothed variant.                                  *)
(*                                                                         *)
(* Dates are day numbers, the valuation date is 0.  A bridge probability   *)
(* strictly between 0 and 1 is one half.  A smoothed hit weight is none,   *)
(* part or full: exact outside the band around the barrier.  Weights of    *)
(* adjoints, variances and carry curves are left out.                      *)
(***************************************************************************)
EXTENDS AffineDividends, FiniteSets

CONSTANTS
  Contracts,    \* [direction, level, monitoring, expiry, hit]; level in eighths,
                \* hit the declared history: a set with at most one Boolean
  Dividends,    \* sequences of dividends, by ex-date
  States,       \* what the path may be on a date, in halves of the forward
  GridTimes,    \* nodes of the local-volatility surface besides 0 and expiry
  HalfWidth,    \* of the smoothing band, in eighths
  Strike, Notional, Rebate   \* of the call paid at expiry, in eighths

VARIABLES
  contract, dividends,
  process,    \* "black_scholes" or "local_vol"
  smoothed,   \* the smoothed payoff was asked for
  path,       \* the state on every date from the valuation date on
  phase,
  at,         \* index into Walked of the date to be walked next
  intervals,  \* diffusion intervals: [from, to, left, right], two coordinates
  factors,    \* smoothed: [kind, weight] of every hit factor
  initialHit, jumpHit,
  survival    \* twice the survival weight, once it is known
inputs == <<contract, dividends, process, smoothed, path>>
vars == <<contract, dividends, process, smoothed, path, phase, at, intervals, factors,
          initialHit, jumpHit, survival>>
-----------------------------------------------------------------------------
(* Compilation.                                                            *)

Ascending(times) == SetToSortSeq(times, LAMBDA s, t : s < t)
MonitoringEnd == CHOOSE t \in contract.monitoring : \A s \in contract.monitoring : s <= t
ExDates == {dividends[k].time : k \in DOMAIN dividends}
IsExDate(t) == t \in ExDates

(* Mutant: ex-dates between the contract's dates are not added.            *)
MutObservationTimes == {t \in contract.monitoring : t > 0} \cup {contract.expiry}
ObservationTimes ==
  {t \in contract.monitoring : t > 0} \cup {contract.expiry}
    \cup {t \in ExDates : t > 0 /\ t <= MonitoringEnd}

GridNodes ==
  {0, contract.expiry} \cup {t \in GridTimes : t < contract.expiry} \cup ObservationTimes
    \cup {t \in ExDates : t <= contract.expiry}

(* The dates walked, first to last; a grid starts with the valuation date. *)
Walked ==
  Ascending({t \in (IF process = "local_vol" THEN GridNodes \ {0} ELSE ObservationTimes) :
               t <= MonitoringEnd})

PostCoordinate(t) == CoordinateAfterTime(dividends, t)
PreCoordinate(t) ==
  IF IsExDate(t)
  THEN (CHOOSE e \in Range(EventTimeline(dividends)) : e.time = t).before
  ELSE PostCoordinate(t)

(* Where the first interval starts.                                        *)
StartCoordinate ==
  IF process = "local_vol" THEN PostCoordinate(0) ELSE InitialCoordinate(dividends)
(* Mutant: the interval behind a dividend starts from its cum side.        *)
MutLeftCoordinate(i) ==
  IF i = 1 THEN StartCoordinate ELSE PreCoordinate(Walked[i - 1])
LeftCoordinate(i) ==
  IF i = 1 THEN StartCoordinate ELSE PostCoordinate(Walked[i - 1])
LeftTime(i) == IF i = 1 THEN 0 ELSE Walked[i - 1]

(* A bridge has a barrier in its own coordinates only above the reserve.   *)
HasBarrier(c) == contract.level > c.cash

PreparedCoordinates ==
  {[cash |-> 0, keep |-> 4]} \cup {PostCoordinate(t) : t \in ObservationTimes}
    \cup {PreCoordinate(t) : t \in ObservationTimes}

Refusal ==
  IF Residual(dividends) <= 0 THEN "escrow"
  ELSE IF /\ smoothed /\ contract.direction = "up"
          /\ TRUE \notin contract.hit /\ MonitoringEnd >= 0
          /\ \E c \in PreparedCoordinates : HalfWidth >= contract.level - c.cash
       THEN "safe_distance"
       ELSE "none"

ResolvedSurvival ==
  IF TRUE \in contract.hit THEN {0}
  ELSE IF MonitoringEnd < 0 THEN {2}
  ELSE {}

JumpCount ==
  Cardinality({t \in (IF process = "local_vol" THEN Range(Walked) \cup {0} ELSE Range(Walked)) :
                 IsExDate(t)})
EndpointCount == 1 + Len(Walked) - JumpCount
-----------------------------------------------------------------------------
(* One date of a path.                                                     *)

PriceAt(c, t) == Price(dividends, c, path[t])
Touched(price) ==
  IF contract.direction = "up" THEN price >= contract.level ELSE price <= contract.level
PreTouched(t) == Touched(PriceAt(PreCoordinate(t), t))
PostTouched(t) == Touched(PriceAt(PostCoordinate(t), t))
JumpContact(t) == IsExDate(t) /\ (PreTouched(t) \/ PostTouched(t))

Interval(i) == [from |-> LeftTime(i), to |-> Walked[i],
                left |-> LeftCoordinate(i), right |-> PreCoordinate(Walked[i])]
IntervalTouched(v) == Touched(PriceAt(v.left, v.from)) \/ Touched(PriceAt(v.right, v.to))

(* Smoothed weights by the signed distance past the barrier.               *)
Distance(price) ==
  IF contract.direction = "up" THEN price - contract.level ELSE contract.level - price
HitWeight(distance) ==
  IF distance >= HalfWidth THEN "full" ELSE IF distance <= -HalfWidth THEN "none" ELSE "part"

EndpointFactor(c, t) == [kind |-> "endpoint", weight |-> HitWeight(Distance(PriceAt(c, t)))]

(* The smoothed maximum of two close distances is above both, by less than *)
(* the half width.                                                         *)
JumpFactor(t) ==
  LET pre == Distance(PriceAt(PreCoordinate(t), t))
      post == Distance(PriceAt(PostCoordinate(t), t))
      score == IF pre > post THEN pre ELSE post
      close == pre - post < HalfWidth /\ post - pre < HalfWidth
  IN  [kind |-> "jump",
       weight |-> IF close /\ score > -2 * HalfWidth /\ score < HalfWidth
                  THEN "part" ELSE HitWeight(score)]
-----------------------------------------------------------------------------
Init ==
  /\ contract \in Contracts /\ dividends \in Dividends
  /\ process \in {"black_scholes", "local_vol"} /\ smoothed \in BOOLEAN
  /\ process = "local_vol" => contract.expiry > 0
  /\ path \in {p \in [0..contract.expiry -> States] : p[0] = 2}
  /\ phase = "compile" /\ at = 1
  /\ intervals = <<>> /\ factors = <<>>
  /\ initialHit = FALSE /\ jumpHit = FALSE /\ survival = {}

Refuse ==
  /\ phase = "compile" /\ Refusal # "none"
  /\ phase' = "refused"
  /\ UNCHANGED <<inputs, at, intervals, factors, initialHit, jumpHit, survival>>

Resolve ==
  /\ phase = "compile" /\ Refusal = "none" /\ ResolvedSurvival # {}
  /\ survival' = ResolvedSurvival /\ phase' = "done"
  /\ UNCHANGED <<inputs, at, intervals, factors, initialHit, jumpHit>>

(* Black-Scholes and both smoothed walks need the barrier at the start;    *)
(* the exact local-volatility walk looks for it with its first interval.   *)
StartFails == ~HasBarrier(StartCoordinate) /\ (process = "black_scholes" \/ smoothed)

StartWalk ==
  /\ phase = "compile" /\ Refusal = "none" /\ ResolvedSurvival = {}
  /\ IF StartFails
     THEN /\ phase' = "failed"
          /\ UNCHANGED <<initialHit, factors>>
     ELSE /\ phase' = "walk"
          /\ initialHit' = (~smoothed /\ Touched(8 * Spot))
          /\ factors' = IF smoothed THEN <<EndpointFactor(StartCoordinate, 0)>> ELSE <<>>
  /\ UNCHANGED <<inputs, at, intervals, jumpHit, survival>>

Stopped ==
  \/ at > Len(Walked)
  \/ ~smoothed /\ (initialHit \/ (at > 1 /\ JumpContact(Walked[at - 1])))

Needed(i) ==
  {PreCoordinate(Walked[i]),
   IF process = "local_vol" THEN LeftCoordinate(i) ELSE PostCoordinate(Walked[i])}

StepFails ==
  /\ phase = "walk" /\ ~Stopped
  /\ \E c \in Needed(at) : ~HasBarrier(c)
  /\ phase' = "failed"
  /\ UNCHANGED <<inputs, at, intervals, factors, initialHit, jumpHit, survival>>

WalkInterval(i) ==
  intervals' = IF Walked[i] > LeftTime(i) THEN Append(intervals, Interval(i)) ELSE intervals

ExactStep ==
  /\ phase = "walk" /\ ~smoothed /\ ~Stopped
  /\ \A c \in Needed(at) : HasBarrier(c)
  /\ WalkInterval(at)
  /\ jumpHit' = (JumpContact(Walked[at]) /\ ~PreTouched(Walked[at]))
  /\ at' = at + 1
  /\ UNCHANGED <<inputs, phase, factors, initialHit, survival>>

(* Mutant: an ex-date gets the factor of its cum side besides its own.     *)
MutSmoothedStep ==
  /\ phase = "walk" /\ smoothed /\ ~Stopped
  /\ \A c \in Needed(at) : HasBarrier(c)
  /\ WalkInterval(at)
  /\ factors' = factors \o <<EndpointFactor(PreCoordinate(Walked[at]), Walked[at])>>
                  \o (IF IsExDate(Walked[at]) THEN <<JumpFactor(Walked[at])>> ELSE <<>>)
  /\ at' = at + 1
  /\ UNCHANGED <<inputs, phase, initialHit, jumpHit, survival>>
SmoothedStep ==
  /\ phase = "walk" /\ smoothed /\ ~Stopped
  /\ \A c \in Needed(at) : HasBarrier(c)
  /\ WalkInterval(at)
  /\ factors' =
       IF Walked[at] = LeftTime(at) THEN factors
       ELSE Append(factors,
              IF IsExDate(Walked[at]) THEN JumpFactor(Walked[at])
              ELSE EndpointFactor(PreCoordinate(Walked[at]), Walked[at]))
  /\ at' = at + 1
  /\ UNCHANGED <<inputs, phase, initialHit, jumpHit, survival>>

EndpointHit == initialHit \/ \E v \in Range(intervals) : IntervalTouched(v)

(* Smoothed intervals end at the barrier when the distance is past the band *)
BridgeEnds(v) ==
  HitWeight(Distance(PriceAt(v.left, v.from))) = "full"
    \/ HitWeight(Distance(PriceAt(v.right, v.to))) = "full"

Survival ==
  LET hit == IF smoothed
             THEN \/ \E f \in Range(factors) : f.weight = "full"
                  \/ \E v \in Range(intervals) : BridgeEnds(v)
             ELSE EndpointHit \/ jumpHit
      certain == intervals = <<>> /\ \A f \in Range(factors) : f.weight = "none"
  IN  IF hit THEN 0 ELSE IF certain THEN 2 ELSE 1

FinishWalk ==
  /\ phase = "walk" /\ Stopped
  /\ survival' = {Survival}
  /\ phase' = "done"
  /\ UNCHANGED <<inputs, at, intervals, factors, initialHit, jumpHit>>

Next == Refuse \/ Resolve \/ StartWalk \/ StepFails \/ ExactStep \/ SmoothedStep \/ FinishWalk

Spec == Init /\ [][Next]_vars
-----------------------------------------------------------------------------
(* What is paid at expiry, twice over, by style and survival.              *)

Terminal == PriceAt(PostCoordinate(contract.expiry), contract.expiry)
Vanilla == Notional * (IF Terminal > Strike THEN Terminal - Strike ELSE 0)

Payoff(style, s) ==
  IF ResolvedSurvival # {}
  THEN LET active == s = (IF style = "knock_out" THEN 2 ELSE 0)
       IN  2 * (IF active THEN Vanilla ELSE Rebate)
  ELSE IF style = "knock_out" THEN 2 * Rebate + s * (Vanilla - Rebate)
                              ELSE 2 * Vanilla + s * (Rebate - Vanilla)
-----------------------------------------------------------------------------
(* What the contract says, independently of any walk.                      *)

(* The dates on which the process shows the price while it is monitored.   *)
Watched ==
  {t \in {0} \cup contract.monitoring \cup ExDates
          \cup (IF process = "local_vol" THEN GridTimes ELSE {}) :
     0 <= t /\ t <= MonitoringEnd}
CumContact(t) == PreTouched(t)
ExContact(t) == IsExDate(t) /\ PostTouched(t)
Contact == \E t \in Watched : CumContact(t) \/ ExContact(t)
HitInFact == TRUE \in contract.hit \/ Contact
Survives(weights) == weights # {0}

TypeOK ==
  /\ contract \in Contracts /\ dividends \in Dividends
  /\ process \in {"black_scholes", "local_vol"} /\ smoothed \in BOOLEAN
  /\ path \in [0..contract.expiry -> States]
  /\ phase \in {"compile", "refused", "walk", "failed", "done"}
  /\ at \in 1..Len(Walked) + 1
  /\ Range(factors) \subseteq [kind : {"endpoint", "jump"}, weight : {"none", "part", "full"}]
  /\ \A v \in Range(intervals) : v.from < v.to
  /\ initialHit \in BOOLEAN /\ jumpHit \in BOOLEAN
  /\ survival \in SUBSET (0..2)

(* The escrow pays the dividends and nothing else: the two ways to compute *)
(* a coordinate agree with the timeline, a dividend lowers the price by    *)
(* its cash and its share, the reserve never runs negative and is empty    *)
(* after the last cash dividend (compile_reserve, event_timeline,          *)
(* coordinate_after_time, coordinate_before_event).                        *)
EscrowPaysDividends ==
  Residual(dividends) > 0 =>
    \A k \in DOMAIN dividends :
      LET entry == EventTimeline(dividends)[k]
          d == dividends[k]
      IN  /\ entry.before = CoordinateBeforeEvent(dividends, k)
          /\ entry.after = CoordinateAfterTime(dividends, d.time)
          /\ entry.before.cash >= 0 /\ entry.after.cash >= 0
          /\ \A x \in States :
               2 * Price(dividends, entry.after, x)
                 = d.keep * Price(dividends, entry.before, x) - 16 * d.cash

(* The walk knocks the contract exactly when the price was at the barrier  *)
(* on some side of some watched date, whatever the process: no contact is  *)
(* lost between the dates of the contract and the ex-dates, none invented  *)
(* (continuous_barrier_bridge, local_vol_continuous_barrier_bridge).       *)
ContactsAreHits ==
  phase = "done" /\ ~smoothed => (HitInFact <=> ~Survives(survival))

(* A jump is never part of a diffusion: the intervals follow each other    *)
(* from the valuation date on, and no dividend lies between the two ends   *)
(* of one, so both ends have the same coordinate.                          *)
JumpsOutsideIntervals ==
  \A i \in DOMAIN intervals :
    /\ intervals[i].from = (IF i = 1 THEN 0 ELSE intervals[i - 1].to)
    /\ intervals[i].left = intervals[i].right

(* The diagnostics tell the kinds of hits apart: what only a dividend did  *)
(* is not counted as an endpoint hit, nor the other way round.             *)
HitsAreNamed ==
  phase = "done" /\ ~smoothed /\ TRUE \notin contract.hit =>
    /\ EndpointHit => \E t \in Watched : CumContact(t)
    /\ jumpHit => \E t \in Watched : ExContact(t) /\ ~CumContact(t)
                    /\ \A s \in Watched : s < t => ~ExContact(s)
    /\ Contact => EndpointHit \/ jumpHit

(* Outside the band the smoothed contract is the contract: when no side of *)
(* a watched date is within two half widths of the barrier, every factor   *)
(* is decided and the smoothed walk ends where the exact one does.         *)
ClearOfBand(price) == Distance(price) >= 2 * HalfWidth \/ Distance(price) <= -2 * HalfWidth
SmoothingIsLocal ==
  (/\ phase = "done" /\ smoothed /\ TRUE \notin contract.hit
   /\ \A t \in Watched : /\ ClearOfBand(PriceAt(PreCoordinate(t), t))
                         /\ ClearOfBand(PriceAt(PostCoordinate(t), t)))
    => /\ \A f \in Range(factors) : f.weight # "part"
       /\ Contact <=> ~Survives(survival)

(* The numbers of smoothed endpoints and jumps that the plan announces are *)
(* the numbers of factors that every path is given.                        *)
FactorsAsAnnounced ==
  (/\ phase = "done" /\ smoothed /\ ResolvedSurvival = {} /\ contract.expiry > 0) =>
    /\ Len(SelectSeq(factors, LAMBDA f : f.kind = "jump")) = JumpCount
    /\ Len(SelectSeq(factors, LAMBDA f : f.kind = "endpoint")) = EndpointCount

(* The two styles split one vanilla and one rebate between them, and a     *)
(* certain fate pays exactly one of each (continuous_barrier_payoff_terms) *)
StylesShareThePayoff ==
  phase = "done" => \A s \in survival :
    /\ Payoff("knock_out", s) + Payoff("knock_in", s) = 2 * (Vanilla + Rebate)
    /\ s = 0 => Payoff("knock_out", s) = 2 * Rebate /\ Payoff("knock_in", s) = 2 * Vanilla
    /\ s = 2 => Payoff("knock_out", s) = 2 * Vanilla /\ Payoff("knock_in", s) = 2 * Rebate

(* Dividends are paid from the escrow and jump between the intervals.      *)
DividendsStayOutside ==
  /\ TypeOK
  /\ EscrowPaysDividends
  /\ JumpsOutsideIntervals

(* A contact is a hit, is told apart by its kind, and decides the payoff.  *)
ContactsDecide ==
  /\ ContactsAreHits
  /\ HitsAreNamed
  /\ StylesShareThePayoff

(* The smoothed walk differs from the exact one near the barrier only.     *)
SmoothingAgrees ==
  /\ SmoothingIsLocal
  /\ FactorsAsAnnounced

(* "A jump that touches or crosses a Barrier is a deterministic hit"       *)
(* (path-dependence-roadmap-v0.1.md): also one on the valuation date.      *)
JumpsAreHits ==
  (/\ phase = "done" /\ ~smoothed /\ TRUE \notin contract.hit
   /\ \E t \in Watched : ExContact(t)) => survival = {0}
=============================================================================
