---------------------------- MODULE PayoffGraph ----------------------------
(***************************************************************************)
(* Payoff graphs (product/graph.rs) and the arithmetic of their opcodes    *)
(* (engine/payoff/tape.rs, compile.rs).                                    *)
(*                                                                         *)
(* Numbers are residues modulo a prime, held between -Half and Half: every *)
(* opcode is then exact, derivatives included, small integers are          *)
(* themselves, and dividing by zero is the one operation whose result is   *)
(* not finite.  There is one underlying, and no smoothed opcode.           *)
(***************************************************************************)
EXTENDS Integers, Sequences, SequencesExt

CONSTANT Prime

ASSUME PrimeAssumption ==
  Prime \in Nat /\ Prime > 2 /\ \A d \in 2..Prime - 1 : Prime % d # 0

Half == (Prime - 1) \div 2
Residue(x) == ((x + Half) % Prime) - Half
NonFinite == Prime
Quotient(x, y) == CHOOSE q \in -Half..Half : Residue(q * y) = x
-----------------------------------------------------------------------------
(* A source opcode: its name, its operands, and the value of a literal or  *)
(* the date of an observation.                                             *)
Opcode(name, args, data) == [name |-> name, args |-> args, data |-> data]
Literal(value) == Opcode("literal", <<>>, value)
TerminalSpot(date) == Opcode("terminal_spot", <<>>, date)
PreDividendSpot(date) == Opcode("pre_dividend_spot", <<>>, date)
Unary(name, input) == Opcode(name, <<input>>, 0)
Binary(name, left, right) == Opcode(name, <<left, right>>, 0)

Observations == {"terminal_spot", "pre_dividend_spot"}

(* execute_opcode, on the values of the operands.                          *)
Execute(name, a) ==
  CASE name = "add" -> Residue(a[1] + a[2])
    [] name = "subtract" -> Residue(a[1] - a[2])
    [] name = "multiply" -> Residue(a[1] * a[2])
    [] name = "divide" -> IF a[2] = 0 THEN NonFinite ELSE Quotient(a[1], a[2])
    [] name = "minimum" -> IF a[1] <= a[2] THEN a[1] ELSE a[2]
    [] name = "maximum" -> IF a[1] >= a[2] THEN a[1] ELSE a[2]
    [] name = "indicator" -> IF a[1] >= 0 THEN 1 ELSE 0
    [] name = "barrier_hit_state" -> Residue(a[1] + (1 - a[1]) * a[2])
    [] name = "negate" -> -a[1]

(* fold_node has a table of its own, with the same entries.                *)
(* Mutant: its maximum takes the smaller one.                              *)
MutFoldValue(name, a) == Execute(IF name = "maximum" THEN "minimum" ELSE name, a)
FoldValue(name, a) == Execute(name, a)

(* reverse_opcode: what the adjoint of each operand gains, for an output   *)
(* adjoint s.                                                              *)
DividePullback(a, s) ==
  <<Quotient(s, a[2]), Quotient(Residue(-s * a[1]), Residue(a[2] * a[2]))>>

HitPullback(a, s) == <<Residue(s * (1 - a[2])), Residue(s * (1 - a[1]))>>

Pullback(name, a, s) ==
  CASE name = "add" -> <<s, s>>
    [] name = "subtract" -> <<s, -s>>
    [] name = "multiply" -> <<Residue(s * a[2]), Residue(s * a[1])>>
    [] name = "divide" -> DividePullback(a, s)
    [] name = "minimum" -> IF a[1] <= a[2] THEN <<s, 0>> ELSE <<0, s>>
    [] name = "maximum" -> IF a[1] >= a[2] THEN <<s, 0>> ELSE <<0, s>>
    [] name = "indicator" -> <<0>>
    [] name = "barrier_hit_state" -> HitPullback(a, s)
    [] name = "negate" -> <<-s>>
    [] OTHER -> <<>>
-----------------------------------------------------------------------------
(* SourceGraphBuilder: a node's identifier is its position, from zero.     *)
PushAll(opcodes) == [i \in DOMAIN opcodes |-> [id |-> i - 1, opcode |-> opcodes[i]]]
=============================================================================
