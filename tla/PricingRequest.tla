--------------------------- MODULE PricingRequest ---------------------------
(***************************************************************************)
(* A pricing request (api/request.rs) from the contract that is stated to  *)
(* the plans that are compiled for it (engine/risk/pricing.rs).            *)
(*                                                                         *)
(* A request is validated once, and again when its risk is exchanged with  *)
(* with_risk.  The plans of a width ladder are compiled from copies whose  *)
(* risk is replaced without validation.  The validated request, not the    *)
(* compiler, decides what can be priced: the payoff graphs that            *)
(* PayoffProducts builds are the compiler's side of that agreement.        *)
(*                                                                         *)
(* User-defined graphs, markets, models beyond their kind and engine       *)
(* settings are left out.                                                  *)
(***************************************************************************)
EXTENDS PayoffProducts, ContractHistory, FiniteSets

CONSTANTS
  Products,   \* as in PayoffProducts, with the payment date, valuation open
  Days,       \* valuation dates
  Risks       \* [measures, smoothing, ladder, terms]: see Requests below

VARIABLES
  product, today,
  matches,    \* currency and underlying are those of the market
  lsm,        \* "none", "independent" or "overlapping"
  model,      \* "constant" or "local" volatility
  risk,
  phase, error,
  plans       \* the compiled plans: [risk, graph], those of the ladder first
contractVars == <<product, today, matches, lsm, model>>
vars == <<product, today, matches, lsm, model, risk, phase, error, plans>>
-----------------------------------------------------------------------------
SupportsPathwiseRisk(p) ==
  \/ p.kind \in {"european", "asian", "lookback"}
  \/ p.kind = "barrier" /\ p.monitoring = "continuous"

RequestsRisk(r) == r.measures # {}

LsmErrors(p, l) ==
  IF p.kind # "american" THEN IF l = "none" THEN <<>> ELSE <<"UnexpectedLsm">>
  ELSE CASE l = "none" -> <<"MissingLsm">>
         [] l = "overlapping" -> <<"TrainingValuationPathOverlap">>
         [] OTHER -> <<>>

Discontinuous(p) == p.kind \in {"digital", "barrier"}
RiskErrors(p, m, r) ==
  (IF "vega_kt" \in r.measures /\ m = "constant" THEN <<"VegaKtForConstantVolatility">> ELSE <<>>)
  \o (IF r.smoothing # <<>> /\ ~Discontinuous(p) THEN <<"SmoothingUnsupported">> ELSE <<>>)
  \o (IF r.ladder # <<>> /\ r.smoothing = <<>> THEN <<"LadderRequiresPrimary">> ELSE <<>>)
  \o (IF /\ RequestsRisk(r) /\ ~SupportsPathwiseRisk(p) /\ p.kind # "american"
         /\ ~(Discontinuous(p) /\ r.smoothing # <<>>)
      THEN <<"RiskForDiscontinuousProduct">> ELSE <<>>)

(* new_with_lsm: everything wrong with a request; the first is reported.   *)
Errors(r) ==
  (IF ~matches THEN <<"MarketMismatch">> ELSE <<>>)
  \o (IF PaymentDate(product) < today THEN <<"PaymentBeforeValuation">> ELSE <<>>)
  \o (IF Expiry(product) < today /\ ~PayoffDeterminedBy(product, today)
      THEN <<"ExpiryBeforeValuation">> ELSE <<>>)
  \o (IF product.kind = "american"
      THEN (IF lsm = "none" THEN <<>> ELSE HistoryErrors(product, today)) \o LsmErrors(product, lsm)
      ELSE LsmErrors(product, lsm) \o HistoryErrors(product, today))
  \o RiskErrors(product, model, r)

(* PayoffSmoothingWidthLadder::new: widths strictly up or strictly down.   *)
MonotoneWidths(ladder) ==
  \/ \A i \in 1..Len(ladder) - 1 : ladder[i] < ladder[i + 1]
  \/ \A i \in 1..Len(ladder) - 1 : ladder[i] > ladder[i + 1]

(* The copy for one width.                                                 *)
(* Mutant: the copy loses the smoothing with the ladder.                   *)
MutWidthRisk(r, k) == [r EXCEPT !.ladder = <<>>, !.smoothing = <<>>]
WidthRisk(r, k) == [r EXCEPT !.ladder = <<>>, !.smoothing = <<r.ladder[k]>>]

(* The contract as the compiler reads it on the valuation date.            *)
Stated ==
  CASE product.kind = "barrier" -> [product EXCEPT !.valuation = <<today>>]
    [] product.kind = "lookback" -> [product EXCEPT !.valuation = today]
    [] OTHER -> product

ObservedDates(graph) ==
  {n.opcode.data : n \in {x \in Range(graph.nodes) : x.opcode.name \in Observations}}

(* compile_local_vol_runtime: a local-volatility surface has two nodes at  *)
(* least and must end at the last time that is simulated, which is today   *)
(* when the payoff observes nothing.  The surface is that of the contract. *)
Simulated(graph) == ObservedDates(graph) # {} /\ Expiry(product) > today
PlanError(graph) ==
  IF graph.error # "none" THEN graph.error
  ELSE IF model = "local" /\ ~Simulated(graph) THEN "InvalidLocalVolatilityTimeGrid"
  ELSE "none"

Plan(r) ==
  LET graph == SourceGraph(Stated)
  IN  [risk |-> r, graph |-> graph, error |-> PlanError(graph)]
-----------------------------------------------------------------------------
Init ==
  /\ product \in Products /\ today \in Days
  /\ matches \in BOOLEAN /\ lsm \in {"none", "independent", "overlapping"}
  /\ model \in {"constant", "local"}
  /\ risk \in {r \in Risks : MonotoneWidths(r.ladder)}
  /\ phase = "stated" /\ error = "none" /\ plans = <<>>

Refuse ==
  /\ phase = "stated" /\ Errors(risk) # <<>>
  /\ error' = Errors(risk)[1] /\ phase' = "refused"
  /\ UNCHANGED <<contractVars, risk, plans>>

Accept ==
  /\ phase = "stated" /\ Errors(risk) = <<>>
  /\ phase' = "accepted"
  /\ UNCHANGED <<contractVars, risk, error, plans>>

(* with_risk: the request is given up for one that is validated anew.      *)
WithRisk ==
  /\ phase = "accepted" /\ plans = <<>>
  /\ risk' \in {r \in Risks : MonotoneWidths(r.ladder)}
  /\ phase' = "stated"
  /\ UNCHANGED <<contractVars, error, plans>>

Fails(plan) == plan.error # "none"

CompileWidth ==
  /\ phase = "accepted" /\ Len(plans) < Len(risk.ladder)
  /\ LET plan == Plan(WidthRisk(risk, Len(plans) + 1))
     IN  IF Fails(plan)
         THEN phase' = "failed" /\ error' = plan.error /\ UNCHANGED plans
         ELSE plans' = Append(plans, plan) /\ UNCHANGED <<phase, error>>
  /\ UNCHANGED <<contractVars, risk>>

CompilePrimary ==
  /\ phase = "accepted" /\ Len(plans) = Len(risk.ladder)
  /\ LET plan == Plan(risk)
     IN  IF Fails(plan)
         THEN phase' = "failed" /\ error' = plan.error /\ UNCHANGED plans
         ELSE plans' = Append(plans, plan) /\ phase' = "compiled" /\ UNCHANGED error
  /\ UNCHANGED <<contractVars, risk>>

Next == Refuse \/ Accept \/ WithRisk \/ CompileWidth \/ CompilePrimary

Spec == Init /\ [][Next]_vars
-----------------------------------------------------------------------------
TypeOK ==
  /\ product \in Products /\ today \in Days /\ risk \in Risks
  /\ phase \in {"stated", "refused", "accepted", "compiled", "failed"}
  /\ phase \in {"stated", "accepted", "compiled"} => error = "none"
  /\ Len(plans) <= Len(risk.ladder) + 1
  /\ phase = "compiled" => Len(plans) = Len(risk.ladder) + 1

(* What validation accepts, the compiler can build, unless a local         *)
(* volatility has nothing to act on; and no payoff observes a price before *)
(* the valuation date: such a price would be drawn as if it were still to  *)
(* come (new_with_lsm, build_source_graph, compile_local_vol_runtime).     *)
NothingToSimulate ==
  \/ Expiry(product) <= today \/ PayoffDeterminedBy(product, today)
  \/ product.kind = "barrier" /\ product.style = "knock_out" /\ product.hit = <<TRUE>>
AcceptedIsBuildable ==
  /\ phase = "failed" => model = "local" /\ NothingToSimulate
  /\ \A i \in DOMAIN plans : \A d \in ObservedDates(plans[i].graph) : d >= today

(* What the documentation says of a contract whose payoff is determined:   *)
(* it has a price, and no market risk.                                     *)
FixedIsPriced == PayoffDeterminedBy(product, today) => phase # "failed"

(* A contract is refused for its history only when pricing it on that day  *)
(* would be wrong: it has dates in the past and no record of them, or a    *)
(* record of dates that have not passed.                                   *)
Recorded(p) ==
  CASE p.kind = "asian" -> {o.date : o \in {x \in Range(p.observations) : x.fixing # <<>>}}
    [] p.kind = "barrier" -> IF p.hit # <<>> THEN {d \in Dates(p) : d < today} ELSE {}
    [] p.kind = "lookback" -> (IF p.extremum # <<>> THEN {d \in Dates(p) : d < today} ELSE {})
                                \cup (IF p.todaysFixing # <<>> THEN {today} \cap Dates(p) ELSE {})
    [] OTHER -> {}
CompiledKnowsItsPast ==
  phase = "compiled" =>
    /\ {d \in Dates(Stated) : d < today} \subseteq Recorded(product)
    /\ \A d \in Recorded(product) : d <= today
    /\ Recorded(product) \cap ObservedDates(plans[Len(plans)].graph) = {}

(* No derivative is taken through an indicator that is not smoothed: the   *)
(* tape would give it the derivative zero.  A continuous barrier is priced *)
(* by its bridges, not by its graph; an American contract by its policy.   *)
RiskIsDifferentiable ==
  \A i \in DOMAIN plans :
    (/\ RequestsRisk(plans[i].risk) /\ plans[i].risk.smoothing = <<>>
     /\ \E n \in Range(plans[i].graph.nodes) : n.opcode.name = "indicator")
      => product.kind = "barrier" /\ product.monitoring = "continuous"

(* The copies of the width ladder are never validated, and would have been *)
(* accepted: each asks for the measures of the request, once smoothed with *)
(* every width of the ladder (PricingPlan::compile, replace_risk).         *)
CopiesAreAcceptable ==
  \A i \in DOMAIN plans :
    /\ Errors(plans[i].risk) = <<>>
    /\ plans[i].risk.measures = risk.measures
    /\ i <= Len(risk.ladder) => plans[i].risk.ladder = <<>>

(* A request that is accepted can be priced, and is priced right.          *)
AcceptedIsPriced ==
  /\ TypeOK
  /\ AcceptedIsBuildable
  /\ CompiledKnowsItsPast

(* A request for risk that is accepted is one that its copies may serve.   *)
RiskIsServed ==
  /\ RiskIsDifferentiable
  /\ CopiesAreAcceptable
=============================================================================
