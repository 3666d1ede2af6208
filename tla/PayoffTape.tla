----------------------------- MODULE PayoffTape -----------------------------
(***************************************************************************)
(* A payoff graph is compiled to a tape (engine/payoff/compile.rs), the    *)
(* tape is run on one path, and one of its outputs is differentiated by a  *)
(* reverse sweep (engine/payoff/tape.rs).  The size estimate, which only   *)
(* refuses, and the fingerprints are left out.                             *)
(***************************************************************************)
EXTENDS PayoffGraph, FiniteSets, TLC

CONSTANT Cases  \* [graph, path, limits]: what may be compiled, run on what, within what

VARIABLES
  graph,        \* [error, nodes |-> a sequence of [id, opcode], outputs |-> of ids, product]
  path,         \* [spot |-> the value per date observed, pre |-> the same before dividends]
  limits,       \* GraphLimitPolicy
  wanted,       \* index of the output to differentiate
  phase, error,
  indegree, ready, topological, folded,
  tape,         \* opcodes whose operands are slots; the n-th writes slot n
  slotOf,       \* source_to_slot
  outputSlots,
  values, pc, adjoints,
  terminalAdjoints, preDividendAdjoints

request == <<graph, path, limits, wanted>>
ordered == <<indegree, ready, topological, folded>>
lowered == <<tape, slotOf, outputSlots>>
evaluation == <<values, pc, adjoints, terminalAdjoints, preDividendAdjoints>>
vars == <<graph, path, limits, wanted, phase, error, indegree, ready, topological, folded,
          tape, slotOf, outputSlots, values, pc, adjoints, terminalAdjoints,
          preDividendAdjoints>>

Ids == {n.id : n \in Range(graph.nodes)}
NodeOf(id) == (CHOOSE n \in Range(graph.nodes) : n.id = id).opcode
ArgsOf(id) == NodeOf(id).args
Edges == {<<id, k>> \in Ids \X {1, 2} : k \in DOMAIN ArgsOf(id)}
Empty == [x \in {} |-> 0]
-----------------------------------------------------------------------------
Init ==
  /\ \E c \in Cases : graph = c.graph /\ path = c.path /\ limits = c.limits
  /\ wanted \in 1..Len(graph.outputs) + 1
  /\ phase = "source" /\ error = "none"
  /\ indegree = Empty /\ ready = {} /\ topological = <<>> /\ folded = Empty
  /\ tape = <<>> /\ slotOf = Empty /\ outputSlots = <<>>
  /\ values = <<>> /\ pc = 0 /\ adjoints = <<>>
  /\ terminalAdjoints = <<>> /\ preDividendAdjoints = <<>>

Fail(why) ==
  /\ phase' = "failed" /\ error' = why
  /\ UNCHANGED <<request, ordered, lowered, evaluation>>

(* The checks of compile before it orders the nodes, in their order; a     *)
(* product that could not be turned into a graph never gets that far.      *)
Refusal ==
  IF graph.error # "none" THEN graph.error
  ELSE IF Len(graph.nodes) > limits.source_nodes \/ Len(graph.outputs) > limits.outputs
       THEN "SoftLimitExceeded"
  ELSE IF graph.outputs = <<>> THEN "NoOutputs"
  ELSE IF Cardinality(Ids) < Len(graph.nodes) THEN "DuplicateNodeId"
  ELSE IF Cardinality(Edges) > limits.dependency_edges THEN "SoftLimitExceeded"
  ELSE IF ~ Range(graph.outputs) \subseteq Ids THEN "UnknownOutput"
  ELSE IF \E <<id, k>> \in Edges : ArgsOf(id)[k] \notin Ids THEN "UnknownOperand"
  ELSE "none"

Refuse == phase = "source" /\ Refusal # "none" /\ Fail(Refusal)

StartOrder ==
  /\ phase = "source" /\ Refusal = "none"
  /\ indegree' = [id \in Ids |-> Len(ArgsOf(id))]
  /\ ready' = {id \in Ids : ArgsOf(id) = <<>>}
  /\ phase' = "order"
  /\ UNCHANGED <<request, error, topological, folded, lowered, evaluation>>

NotConstant == Prime + 1

(* fold_node.                                                              *)
Fold(id) ==
  LET opcode == NodeOf(id)
      operands == [k \in DOMAIN opcode.args |-> folded[opcode.args[k]]]
  IN  CASE opcode.name = "literal" -> opcode.data
        [] opcode.name \in Observations -> NotConstant
        [] OTHER -> IF NotConstant \in Range(operands) THEN NotConstant
                    ELSE FoldValue(opcode.name, operands)

(* One node of the topological loop.  An operand used twice counts twice.  *)
Uses(destination, id) == Cardinality({k \in DOMAIN ArgsOf(destination) : ArgsOf(destination)[k] = id})

OrderNode ==
  /\ phase = "order" /\ ready # {}
  /\ LET id == CHOOSE i \in ready : \A j \in ready : i <= j
         value == Fold(id)
     IN  IF value = NonFinite THEN Fail("NonFiniteConstantFold")
         ELSE /\ topological' = Append(topological, id)
              /\ folded' = folded @@ (id :> value)
              /\ indegree' = [d \in Ids |-> indegree[d] - Uses(d, id)]
              /\ ready' = (ready \ {id}) \cup {d \in Ids : indegree[d] > 0 /\ indegree'[d] = 0}
              /\ UNCHANGED <<request, phase, error, lowered, evaluation>>

RefuseCycle ==
  /\ phase = "order" /\ ready = {}
  /\ Len(topological) # Cardinality(Ids)
  /\ Fail("Cycle")

(* reachable_nodes.                                                        *)
Reachable ==
  LET Spread(found, k) == found \cup UNION {Range(ArgsOf(id)) : id \in found}
  IN  FoldLeft(Spread, Range(graph.outputs), [k \in 1..Cardinality(Ids) |-> k])

Named(name) == {id \in Reachable : NodeOf(id).name = name}

TooLarge ==
  \/ Cardinality(Reachable) > limits.compiled_opcodes
  \/ Cardinality(Reachable) > limits.value_slots
  \/ Cardinality(Named("barrier_hit_state")) > limits.state_slots
  \/ Cardinality(Named("pre_dividend_spot")) > limits.events

Numbered == LET reached == Reachable IN SelectSeq(topological, LAMBDA id : id \in reached)

(* compile_opcode, or the literal that the node folds to.                  *)
Lower(id, slots) ==
  LET opcode == NodeOf(id)
  IN  IF folded[id] # NotConstant THEN Literal(folded[id])
      ELSE [opcode EXCEPT !.args = [k \in DOMAIN opcode.args |-> slots[opcode.args[k]]]]

LowerNodes ==
  /\ phase = "order" /\ ready = {}
  /\ Len(topological) = Cardinality(Ids)
  /\ IF TooLarge THEN Fail("SoftLimitExceeded")
     ELSE \E order \in {Numbered} :
          /\ slotOf' = [id \in Range(order) |-> CHOOSE n \in DOMAIN order : order[n] = id]
          /\ tape' = [n \in DOMAIN order |-> Lower(order[n], slotOf')]
          /\ outputSlots' = [k \in DOMAIN graph.outputs |-> slotOf'[graph.outputs[k]]]
          /\ phase' = "compiled"
          /\ UNCHANGED <<request, error, ordered, evaluation>>
-----------------------------------------------------------------------------
(* evaluate_output_with_observation_adjoints_and_values.                   *)
Zeros == [n \in DOMAIN tape |-> 0]

Evaluate ==
  /\ phase = "compiled"
  /\ IF wanted \notin DOMAIN outputSlots THEN Fail("InvalidOutputIndex")
     ELSE /\ values' = Zeros /\ pc' = 1
          /\ phase' = "forward"
          /\ UNCHANGED <<request, error, ordered, lowered, adjoints,
                         terminalAdjoints, preDividendAdjoints>>

Operands(slots) == [k \in DOMAIN tape[pc].args |-> slots[tape[pc].args[k]]]
Missing(quotes) == tape[pc].data \notin DOMAIN quotes

Store(value) ==
  /\ values' = [values EXCEPT ![pc] = value]
  /\ pc' = pc + 1
  /\ UNCHANGED <<request, phase, error, ordered, lowered, adjoints,
                 terminalAdjoints, preDividendAdjoints>>

ExecuteOpcode ==
  /\ phase = "forward" /\ pc <= Len(tape)
  /\ CASE tape[pc].name = "literal" -> Store(tape[pc].data)
       [] tape[pc].name = "terminal_spot" ->
            IF Missing(path.spot) THEN Fail("MissingObservation")
            ELSE Store(path.spot[tape[pc].data])
       [] tape[pc].name = "pre_dividend_spot" ->
            IF Missing(path.pre) THEN Fail("MissingPreDividendObservation")
            ELSE Store(path.pre[tape[pc].data])
       [] OTHER ->
            LET value == Execute(tape[pc].name, Operands(values))
            IN  IF value = NonFinite THEN Fail("NonFiniteRuntimeValue") ELSE Store(value)

StartReverse ==
  /\ phase = "forward" /\ pc > Len(tape)
  /\ adjoints' = [Zeros EXCEPT ![outputSlots[wanted]] = 1]
  /\ pc' = Len(tape)
  /\ phase' = "reverse"
  /\ UNCHANGED <<request, error, ordered, lowered, values, terminalAdjoints, preDividendAdjoints>>

(* add_adjoint of each operand in turn: one used twice gains twice.        *)
(* Mutant: it gains the last only.                                         *)
MutGain(n, gains) ==
  LET uses == {k \in DOMAIN gains : tape[pc].args[k] = n}
  IN  IF uses = {} THEN 0 ELSE gains[CHOOSE k \in uses : \A j \in uses : j <= k]

Gain(n, gains) ==
  FoldLeft(LAMBDA total, k : IF tape[pc].args[k] = n THEN total + gains[k] ELSE total, 0,
           [k \in DOMAIN gains |-> k])

Accumulated(n, gains) == Residue(adjoints[n] + Gain(n, gains))

ReverseOpcode ==
  /\ phase = "reverse" /\ pc > 0
  /\ LET opcode == tape[pc]
         gains == Pullback(opcode.name, Operands(values), adjoints[pc])
         observed == [date |-> opcode.data, value |-> adjoints[pc]]
     IN  /\ adjoints' = [n \in DOMAIN adjoints |-> Accumulated(n, gains)]
         /\ terminalAdjoints' =
              IF opcode.name = "terminal_spot" THEN Append(terminalAdjoints, observed)
              ELSE terminalAdjoints
         /\ preDividendAdjoints' =
              IF opcode.name = "pre_dividend_spot" THEN Append(preDividendAdjoints, observed)
              ELSE preDividendAdjoints
  /\ pc' = pc - 1
  /\ UNCHANGED <<request, phase, error, ordered, lowered, values>>

Return ==
  /\ phase = "reverse" /\ pc = 0
  /\ phase' = "done"
  /\ UNCHANGED <<request, error, ordered, lowered, evaluation>>

Next ==
  \/ Refuse
  \/ StartOrder
  \/ OrderNode
  \/ RefuseCycle
  \/ LowerNodes
  \/ Evaluate
  \/ ExecuteOpcode
  \/ StartReverse
  \/ ReverseOpcode
  \/ Return

Spec == Init /\ [][Next]_vars
-----------------------------------------------------------------------------
TypeOK ==
  /\ phase \in {"source", "order", "compiled", "forward", "reverse", "done", "failed"}
  /\ error # "none" <=> phase = "failed"
  /\ ready \subseteq Ids
  /\ \A id \in DOMAIN indegree : indegree[id] \in 0..2
  /\ DOMAIN folded = Range(topological)
  /\ \A n \in DOMAIN values : values[n] \in -Half..Half
  /\ \A n \in DOMAIN adjoints : adjoints[n] \in -Half..Half

(* Every slot is written once, before the opcodes that read it and after   *)
(* them in the reverse sweep, whatever order the nodes were pushed in      *)
(* (compile.rs, InternalOrdering is never returned).                       *)
OperandsBeforeUse ==
  \A n \in DOMAIN tape : \A m \in Range(tape[n].args) : m < n

(* What a graph means: the value of each node, read off its definition.    *)
Meaning ==
  LET value[id \in Ids] ==
        LET opcode == NodeOf(id)
            a == [k \in DOMAIN opcode.args |-> value[opcode.args[k]]]
        IN  CASE opcode.name = "literal" -> opcode.data
              [] opcode.name = "terminal_spot" ->
                   IF opcode.data \in DOMAIN path.spot THEN path.spot[opcode.data] ELSE NonFinite
              [] opcode.name = "pre_dividend_spot" ->
                   IF opcode.data \in DOMAIN path.pre THEN path.pre[opcode.data] ELSE NonFinite
              [] OTHER -> IF NonFinite \in Range(a) THEN NonFinite ELSE Execute(opcode.name, a)
  IN  value

(* Folding constants, dropping what no output needs and renumbering keep   *)
(* the meaning: each compiled node has the value that the graph gives it,  *)
(* and an evaluation fails only at a node that some output needs.          *)
TapeKeepsMeaning ==
  /\ phase = "forward" =>
       \A id \in DOMAIN slotOf : slotOf[id] < pc => values[slotOf[id]] = Meaning[id]
  /\ error \in {"NonFiniteRuntimeValue", "MissingObservation", "MissingPreDividendObservation"} =>
       \E id \in Reachable : Meaning[id] = NonFinite
  /\ phase = "reverse" => \A id \in Reachable : Meaning[id] # NonFinite

(* The nodes below a node, itself only if it is on a cycle.                *)
Below(id) ==
  LET within[n \in 1..Cardinality(Ids)] ==
        IF n = 1 THEN Range(ArgsOf(id))
        ELSE LET nearer == within[n - 1]
             IN  nearer \cup UNION {Range(ArgsOf(i)) : i \in nearer}
  IN  within[Cardinality(Ids)]

Cyclic == \E id \in Ids : id \in Below(id)
Constant(id) == \A i \in Below(id) \cup {id} : NodeOf(i).name \notin Observations

(* compile refuses a cycle exactly when there is one, and a constant that  *)
(* is not finite wherever it is, needed or not.                            *)
CompiledForCause ==
  /\ error = "Cycle" => Cyclic
  /\ error = "NonFiniteConstantFold" =>
       \E id \in Ids : id \notin Below(id) /\ Constant(id) /\
         (\A i \in Below(id) : i \notin Below(i)) /\ Meaning[id] = NonFinite
  /\ phase = "compiled" => ~Cyclic /\ \A id \in Ids : Constant(id) => Meaning[id] # NonFinite

(* What a tape is for: every slot is written before it is read, and every  *)
(* value means what the graph says, or there is a cause to refuse it.      *)
TapeIsFaithful ==
  /\ TypeOK
  /\ OperandsBeforeUse
  /\ TapeKeepsMeaning
  /\ CompiledForCause

(* The derivative of each node in the direction of one observation, by the *)
(* rules of differentiation in the forward direction.                      *)
Slope(name, a, t) ==
  CASE name = "add" -> t[1] + t[2]
    [] name = "subtract" -> t[1] - t[2]
    [] name = "multiply" -> t[1] * a[2] + a[1] * t[2]
    [] name = "divide" -> Quotient(Residue(t[1] - Quotient(a[1], a[2]) * t[2]), a[2])
    [] name = "minimum" -> IF a[1] > a[2] THEN t[2] ELSE t[1]
    [] name = "maximum" -> IF a[1] < a[2] THEN t[2] ELSE t[1]
    [] name = "indicator" -> 0
    [] name = "barrier_hit_state" -> t[1] + t[2] - t[1] * a[2] - a[1] * t[2]
    [] name = "negate" -> -t[1]

Derivative(kind, date) ==
  LET meaning == Meaning
      slope[id \in Ids] ==
        LET opcode == NodeOf(id)
            arg == [k \in DOMAIN opcode.args |-> meaning[opcode.args[k]]]
            t == [k \in DOMAIN opcode.args |-> slope[opcode.args[k]]]
        IN  CASE opcode.name = "literal" -> 0
              [] opcode.name \in Observations ->
                   IF opcode.name = kind /\ opcode.data = date THEN 1 ELSE 0
              [] OTHER -> Residue(Slope(opcode.name, arg, t))
  IN  slope

Reported(list, date) ==
  Residue(FoldLeft(LAMBDA total, o : IF o.date = date THEN total + o.value ELSE total, 0, list))

(* The adjoints reported for a date sum to the derivative of the wanted    *)
(* output with respect to the observation of that date.                    *)
ReverseIsDerivative ==
  phase = "done" =>
    /\ \A date \in DOMAIN path.spot :
         Reported(terminalAdjoints, date) = Derivative("terminal_spot", date)[graph.outputs[wanted]]
    /\ \A date \in DOMAIN path.pre :
         Reported(preDividendAdjoints, date) =
           Derivative("pre_dividend_spot", date)[graph.outputs[wanted]]
=============================================================================
