---------------------------- MODULE MCHistories ----------------------------
(* The history of contracts, in the replay that records it and in the      *)
(* request that states it: the statements of PathFixings are contracts of  *)
(* the kind that PricingRequest accepts, on dates of their own, so that a  *)
(* behaviour is about one of the two, and the other rests.                 *)
EXTENDS PathFixings

CONSTANTS Products, Days, Risks

VARIABLES
  task,  \* "fixings" or "request"
  product, today, matches, lsm, model, risk, requestPhase, requestError, plans

requestVars == <<product, today, matches, lsm, model, risk, requestPhase, requestError, plans>>
Request == INSTANCE PricingRequest WITH phase <- requestPhase, error <- requestError

RequestRests ==
  /\ product = CHOOSE p \in Products : TRUE
  /\ today = CHOOSE d \in Days : TRUE
  /\ matches = TRUE /\ lsm = "none" /\ model = "constant"
  /\ risk = [measures |-> {}, smoothing |-> <<>>, ladder |-> <<>>]

MCInit ==
  /\ task \in {"fixings", "request"}
  /\ task = "fixings" => RequestRests
  /\ Init /\ Request!Init

MCNext ==
  \/ task = "fixings" /\ Next /\ UNCHANGED <<task, requestVars>>
  \/ task = "request" /\ Request!Next /\ UNCHANGED <<task, vars>>

MCSpec == MCInit /\ [][MCNext]_<<task, vars, requestVars>>

(* What PricingRequest says of a request, in its instance here.            *)
AcceptedIsPriced == task = "request" => Request!AcceptedIsPriced
RiskIsServed == task = "request" => Request!RiskIsServed
FixedIsPriced == task = "request" => Request!FixedIsPriced
-----------------------------------------------------------------------------
(* Snapshots on days 1, 3 and 4; an observation on day 2, between two of    *)
(* them; a lookback listed on day 3 that shares the first fixing.           *)
Observation(date, weight) == [date |-> date, weight |-> weight, id |-> date]
MCContracts ==
  {[name |-> "asian", kind |-> "asian", side |-> "call", strike |-> 24, listed |-> 1,
    observations |-> <<Observation(1, 1), Observation(2, 2), Observation(4, 1)>>],
   [name |-> "lookback", kind |-> "lookback", side |-> "put", strike |-> 9, listed |-> 3,
    observations |-> <<Observation(1, 1), Observation(3, 1), Observation(4, 1)>>],
   [name |-> "high", kind |-> "lookback", side |-> "call", strike |-> 6, listed |-> 1,
    observations |-> <<Observation(1, 1), Observation(2, 1), Observation(4, 1)>>]}
Fixing(id, date, value, available) == [id |-> id, date |-> date, value |-> value, available |-> available]
MCFixings ==
  {Fixing(1, 1, 5, 1), Fixing(1, 1, 9, 1), Fixing(2, 2, 8, 2), Fixing(2, 2, 6, 2), Fixing(2, 1, 8, 2),
   Fixing(3, 3, 4, 3), Fixing(3, 3, 7, 3), Fixing(4, 4, 3, 4), Fixing(4, 4, 9, 4), Fixing(4, 4, 9, 5)}
MCPortfolio == {"asian"}
MCCalendar == <<1, 3, 4>>
-----------------------------------------------------------------------------
(* Contracts over days 0 to 3, valued on days 1 to 3, with every history   *)
(* that a client may state, right or wrong.                                *)
Vanillas ==
  {[kind |-> "european", side |-> "call", strike |-> 10, notional |-> 2, expiry |-> d] : d \in 0..3}
  \cup {[kind |-> "american", side |-> "call", strike |-> 10, notional |-> 2, dates |-> ds] :
          ds \in {<<0, 2>>, <<1, 2>>, <<2, 3>>}}
Digitals ==
  {[kind |-> "digital", side |-> "put", strike |-> 13, payout |-> 3, payoutKind |-> "cash",
    expiry |-> d, payment |-> 2] : d \in {0, 2}}
Optional(value) == {<<>>, <<value>>}
Weighted(date, weight, fixing) == [date |-> date, weight |-> weight, fixing |-> fixing]
Asians ==
  {[kind |-> "asian", side |-> "call", strike |-> 32, notional |-> 2, payment |-> 3,
    observations |-> <<Weighted(0, 1, f), Weighted(1, 1, g), Weighted(2, 2, h)>>] :
     f \in Optional(11), g \in Optional(7), h \in Optional(9)}
Lookbacks ==
  {[kind |-> "lookback", side |-> "put", strike |-> 10, notional |-> 2, valuation |-> 0, payment |-> 3,
    dates |-> ds, extremum |-> x, todaysFixing |-> f] :
     ds \in {<<0, 1, 3>>, <<1, 2>>, <<0>>}, x \in Optional(11), f \in Optional(7)}
Barriers ==
  {[kind |-> "barrier", side |-> "call", strike |-> 10, notional |-> 2, expiry |-> 2, payment |-> 3,
    barrier |-> 12, direction |-> "up", style |-> s, rebate |-> <<>>, jumps |-> {},
    valuation |-> <<>>, dates |-> ds, hit |-> h, monitoring |-> m] :
     ds \in {<<0>>, <<1, 2>>, <<0, 1, 2>>}, h \in {<<>>, <<TRUE>>, <<FALSE>>},
     s \in {"knock_in", "knock_out"}, m \in {"discrete", "continuous"}}
MCProducts == Vanillas \cup Digitals \cup Asians \cup Lookbacks \cup Barriers

MCRisks ==
  {[measures |-> ms, smoothing |-> s, ladder |-> l] :
     ms \in {{}, {"delta"}, {"delta", "vega_kt"}}, s \in Optional(2),
     l \in {<<>>, <<1>>, <<3, 2, 1>>, <<1, 3, 2>>, <<2, 2>>}}
=============================================================================
