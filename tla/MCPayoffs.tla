----------------------------- MODULE MCPayoffs -----------------------------
(* Graphs for the tape: those of contracts over dates 0 (past), 1 (the     *)
(* valuation), 2 (a dividend) and 3 (the expiry), on paths that start at   *)
(* the valuation date, and any small ones.                                 *)
EXTENDS PayoffTape, PayoffProducts

Sides == {"call", "put"}
Vanillas ==
  {[kind |-> "european", side |-> s, strike |-> 10, notional |-> 2, expiry |-> 3] : s \in Sides}
  \cup {[kind |-> "american", side |-> s, strike |-> 10, notional |-> 2, dates |-> <<2, 3>>] : s \in Sides}
Digitals ==
  {[kind |-> "digital", side |-> s, strike |-> 13, payout |-> 3, payoutKind |-> k, expiry |-> 3] :
     s \in Sides, k \in {"cash", "asset"}}
Asian(s, fixing) ==
  [kind |-> "asian", side |-> s, strike |-> 32, notional |-> 2, observations |->
     <<[date |-> 0, weight |-> 1, fixing |-> <<11>>], [date |-> 1, weight |-> 1, fixing |-> fixing],
       [date |-> 2, weight |-> 2, fixing |-> <<>>]>>]
Asians == {Asian(s, fixing) : s \in Sides, fixing \in {<<>>, <<7>>}}
Lookback(s, dates, extremum, fixing) ==
  [kind |-> "lookback", side |-> s, strike |-> 10, notional |-> 2, valuation |-> 1,
   dates |-> dates, extremum |-> extremum, todaysFixing |-> fixing]
Lookbacks ==
  {Lookback(s, <<0, 1, 3>>, <<11>>, fixing) : s \in Sides, fixing \in {<<>>, <<7>>}}
  \cup {Lookback(s, <<1, 2>>, <<>>, fixing) : s \in Sides, fixing \in {<<>>, <<14>>}}
  \cup {Lookback(s, <<0>>, <<11>>, <<>>) : s \in Sides}
  \cup {Lookback("call", <<0>>, <<>>, <<>>)}

Barrier(direction, style, rebate, jumps, h) ==
  [kind |-> "barrier", side |-> IF style = "knock_in" THEN "call" ELSE "put", strike |-> 10,
   notional |-> 2, expiry |-> 3, barrier |-> IF direction = "up" THEN 12 ELSE 8,
   direction |-> direction, style |-> style, rebate |-> rebate, jumps |-> jumps,
   valuation |-> h.valuation, dates |-> h.dates, hit |-> h.hit, monitoring |-> h.monitoring]
History(monitoring, valuation, dates, hit) ==
  [monitoring |-> monitoring, valuation |-> valuation, dates |-> dates, hit |-> hit]
Histories ==
  {History("discrete", <<1>>, <<0, 1, 2>>, <<FALSE>>), History("discrete", <<1>>, <<0, 2>>, <<TRUE>>),
   History("continuous", <<1>>, <<0, 1, 2>>, <<TRUE>>), History("discrete", <<1>>, <<1, 2>>, <<>>),
   History("discrete", <<1>>, <<0>>, <<FALSE>>), History("discrete", <<>>, <<1, 3>>, <<>>),
   History("discrete", <<1>>, <<0, 2>>, <<>>), History("discrete", <<1>>, <<1, 2>>, <<TRUE>>),
   History("discrete", <<>>, <<1, 2>>, <<FALSE>>)}
Barriers ==
  {Barrier(direction, style, rebate, jumps, h) : direction \in {"up", "down"},
     style \in {"knock_in", "knock_out"}, rebate \in {<<>>, <<3>>}, jumps \in {{}, {2}}, h \in Histories}

MCProducts == Vanillas \cup Digitals \cup Asians \cup Lookbacks \cup Barriers
ProductPaths == {[spot |-> (1 :> a) @@ (2 :> b) @@ (3 :> c), pre |-> 2 :> d] :
                   a \in {8, 10}, b \in {10, 12}, c \in {9, 13}, d \in {8, 12}}
ProductLimits == [source_nodes |-> 40, outputs |-> 2, dependency_edges |-> 60,
                  compiled_opcodes |-> 40, value_slots |-> 40, state_slots |-> 3, events |-> 3]
-----------------------------------------------------------------------------
(* Every graph of three nodes over three leaves and the operations below,  *)
(* whose output is the node pushed second, and a few chosen graphs.        *)
Leaves == {Literal(0), Literal(2), TerminalSpot(1)}
UnaryOn(S) == {Unary("negate", i) : i \in S}
BinaryOn(names, S) == {Binary(name, i, j) : name \in names, i \in S, j \in S}
MCOps == Leaves \cup UnaryOn({0, 1}) \cup BinaryOn({"divide", "maximum"}, 0..2)

Graph(nodes, outputs) ==
  [error |-> "none", nodes |-> nodes, outputs |-> outputs, product |-> [kind |-> "none"]]
Node(id, opcode) == [id |-> id, opcode |-> opcode]

Triples ==
  {Graph(<<Node(2, n2), Node(0, n0), Node(1, n1)>>, <<1>>) :
     n0 \in MCOps, n1 \in BinaryOn({"divide", "multiply", "subtract"}, 0..2), n2 \in MCOps}

Hits == PushAll(<<TerminalSpot(1), TerminalSpot(2), Binary("barrier_hit_state", 0, 1),
                  Binary("barrier_hit_state", 2, 1), Binary("minimum", 2, 3),
                  Unary("indicator", 4), Binary("add", 4, 4)>>)
Chosen ==
  {Graph(<<>>, <<>>), Graph(<<Node(3, Literal(1))>>, <<>>),
   Graph(<<Node(3, Literal(1)), Node(3, TerminalSpot(1))>>, <<3>>),
   Graph(<<Node(3, Literal(1))>>, <<4>>), Graph(<<Node(3, Unary("negate", 4))>>, <<3>>),
   Graph(<<Node(3, TerminalSpot(1))>>, <<3, 3, 3, 3>>),
   Graph(<<Node(3, TerminalSpot(5))>>, <<3>>), Graph(<<Node(3, PreDividendSpot(5))>>, <<3>>),
   Graph(PushAll(<<PreDividendSpot(1), PreDividendSpot(1), Binary("add", 0, 1)>>), <<2>>),
   Graph(PushAll(<<Literal(0), Literal(2), Binary("maximum", 0, 1), TerminalSpot(1),
                   Binary("multiply", 2, 3)>>), <<4>>),
   Graph(Hits, <<3, 5>>), Graph(Hits, <<6, 4, 2>>), Graph(Hits, <<5, 6>>),
   Graph(PushAll([k \in 1..8 |-> TerminalSpot(1)]), <<3>>)}

TapePaths == {[spot |-> (1 :> s) @@ (2 :> 3), pre |-> 1 :> 2] : s \in {-1, 3}}
TapeLimits == [source_nodes |-> 7, outputs |-> 3, dependency_edges |-> 9,
               compiled_opcodes |-> 6, value_slots |-> 6, state_slots |-> 2, events |-> 2]

MCCases ==
  [graph : {SourceGraph(p) : p \in MCProducts}, path : ProductPaths, limits : {ProductLimits}] \cup
  [graph : Triples \cup Chosen, path : TapePaths, limits : {TapeLimits}]
-----------------------------------------------------------------------------
(* Whatever the path, the compiled tape pays what the contract says: past  *)
(* fixings are taken from the specification and never observed, a barrier  *)
(* is watched from the valuation date on and on both sides of a dividend,  *)
(* and what is not active pays the rebate (compile.rs build_source_graph). *)
PaysContract ==
  phase = "done" /\ graph.product.kind # "none" =>
    values[outputSlots[wanted]] = Pays(graph.product, path, wanted)

(* A contract is priced exactly when its history is clear: no missing      *)
(* observation, no fold or limit stops it.                                 *)
PricedIfHistoryClear == graph.product.kind # "none" =>
  /\ phase \in {"order", "compiled", "forward", "reverse", "done"} => HistoryClear(graph.product)
  /\ phase = "failed" => ~HistoryClear(graph.product) \/ error \in {"InvalidOutputIndex", "NoOutputs"}

(* A contract is paid as written if and only if its history is known.      *)
PaidIfPriced == PaysContract /\ PricedIfHistoryClear
=============================================================================
