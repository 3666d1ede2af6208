-------------------------- MODULE AffineDividends --------------------------
(***************************************************************************)
(* Discrete dividends as an affine change of coordinates                   *)
(* (market/dividend.rs): the cash of all coming dividends is held in       *)
(* escrow, the rest of the price is a continuous state, and between two    *)
(* ex-dates  price = reserve + scale * state.                              *)
(*                                                                         *)
(* Exact arithmetic without carry curves.  A proportional dividend takes   *)
(* one half, at most two are paid, and amounts are counted in eighths of a *)
(* price unit: a coordinate is the reserve in eighths and the kept share   *)
(* in quarters, a state is a number of halves of the forward.              *)
(***************************************************************************)
EXTENDS Integers, Sequences, SequencesExt

CONSTANT Spot   \* the price today, in whole units

(* A dividend: its ex-date, its cash and the halves of the price it leaves *)
Dividend(time, cash, keep) == [time |-> time, cash |-> cash, keep |-> keep]

(* The escrow today: each cash amount divided by the shares kept up to and *)
(* including its own ex-date.                                              *)
Reserve(dividends) ==
  FoldLeft(LAMBDA acc, d : LET share == acc.share * (3 - d.keep)
                           IN  [share |-> share, cash |-> acc.cash + d.cash * share],
           [share |-> 1, cash |-> 0], dividends).cash
Residual(dividends) == Spot - Reserve(dividends)

InitialCoordinate(dividends) == [cash |-> 8 * Reserve(dividends), keep |-> 4]

After(c, d) == [cash |-> ((c.cash * d.keep) \div 2) - 8 * d.cash,
                keep |-> (c.keep * d.keep) \div 2]

(* The price at a coordinate, for a state on the same path.                *)
Price(dividends, c, state) == c.cash + Residual(dividends) * c.keep * state

NoCash(dividends) == \A i \in DOMAIN dividends : dividends[i].cash = 0
Emptied(c) == [c EXCEPT !.cash = 0]

CoordinateAfterTime(dividends, t) ==
  LET paid == SelectSeq(dividends, LAMBDA d : d.time <= t)
      c == FoldLeft(After, InitialCoordinate(dividends), paid)
  IN  IF NoCash(SelectSeq(dividends, LAMBDA d : d.time > t)) THEN Emptied(c) ELSE c

CoordinateBeforeEvent(dividends, k) ==
  LET c == FoldLeft(After, InitialCoordinate(dividends), SubSeq(dividends, 1, k - 1))
  IN  IF NoCash(SubSeq(dividends, k, Len(dividends))) THEN Emptied(c) ELSE c

(* Both sides of every ex-date, in one pass.                               *)
EventTimeline(dividends) ==
  FoldLeft(LAMBDA entries, d :
             LET k == Len(entries) + 1
                 before == IF k = 1 THEN InitialCoordinate(dividends) ELSE Last(entries).after
                 after == After(before, d)
             IN  Append(entries,
                   [time |-> d.time, before |-> before,
                    after |-> IF NoCash(SubSeq(dividends, k + 1, Len(dividends)))
                              THEN Emptied(after) ELSE after]),
           <<>>, dividends)
=============================================================================
