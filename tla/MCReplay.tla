------------------------------ MODULE MCReplay ------------------------------
(* Instances of the replay for TLC: a target that is settled late, a hedge *)
(* candidate, and a few market snapshots per valuation date.               *)
EXTENDS ReplayProperties

CONSTANTS t, h, spot, f

MCContracts == {t, h}
MCHedgeable == {h}
MCListedOn == [c \in MCContracts |-> 0]
MCStrike == (t :> 10) @@ (h :> 8)

Quotes(s, q, m) == (spot :> s) @@ (h :> q) @@ (t :> m)

Market(s, q, m, b, flows) ==
  [mid |-> Quotes(s, q, m), half |-> 2, model |-> (h :> q) @@ (t :> m),
   lending |-> 1, borrowing |-> 2, stockBorrow |-> 1, dividend |-> 0,
   discount |-> 9, numeraire |-> b, flows |-> flows]

NoFlows == [x \in {} |-> 0]
Low  == Market(8, 4, 4, 2, NoFlows)
High == Market(14, 6, 6, 3, NoFlows)
PaysDividend == [High EXCEPT !.dividend = 1]
Funded == [Low EXCEPT !.flows = (f :> 20), !.numeraire = 6]
Drawn  == [High EXCEPT !.flows = (f :> -30)]

(* Four dates: the target expires on the third and pays on the fourth, the *)
(* hedge expires with the last one.  Decisions are sized for one snapshot  *)
(* and filled at the next, whose prices make the basket too dear or its    *)
(* gross notional too large.                                               *)
LedgerAt == <<1, 2, 4, 5>>
LedgerExpiry == (t :> 4) @@ (h :> 5)
LedgerPaymentDay == (t :> 5) @@ (h :> 6)
LedgerSnapshots == <<{Low}, {Low, High, Funded}, {Low, PaysDividend}, {High, Drawn}>>
LedgerPortfolio ==
  << [contract |-> t, quantity |-> -1, price |-> 8, fee |-> 1],
     [contract |-> t, quantity |-> -1, price |-> 4, fee |-> 0],
     [contract |-> t, quantity |-> 1, price |-> 4, fee |-> 0] >>

(* Three dates for runs that stop, fail, are lost and start again: the     *)
(* capital movement f may be supplied at either of the last two dates; the *)
(* target is paid on day 4, and the hedge expires on it: a day between two *)
(* of the schedule.                                                        *)
ResumeAt == <<1, 3, 5>>
ResumeExpiry == (t :> 3) @@ (h :> 4)
ResumePaymentDay == (t :> 4) @@ (h :> 4)
ResumeSnapshots == <<{High}, {Low, High, Funded}, {Low, Funded}>>
ResumePortfolio == << [contract |-> t, quantity |-> -1, price |-> 6, fee |-> 1] >>
=============================================================================
