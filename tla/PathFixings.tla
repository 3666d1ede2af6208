---------------------------- MODULE PathFixings ----------------------------
(***************************************************************************)
(* Dated path fixings in a replay (path_history.py, engine.py): how the    *)
(* fixings of an Asian or lookback contract enter the book, what the       *)
(* pricer is told of them, and what the contract settles at.               *)
(*                                                                         *)
(* A snapshot is processed in place: its fixings are checked against the   *)
(* book and merged with it, booked contract by contract, read by the       *)
(* settlements and by the valuations.  A failure anywhere rolls back to    *)
(* the last committed state, and a resumed run may be given other data for *)
(* the snapshot that failed.                                               *)
(*                                                                         *)
(* The pricer's side is that of PayoffProducts and ContractHistory: the    *)
(* statement of a contract is a product, and has the payoff of one.        *)
(* Orders, cash and prices are those of SnapshotReplay and left out here:  *)
(* any listed contract may be valued, and bought once it was.              *)
(***************************************************************************)
EXTENDS PayoffProducts, ContractHistory

CONSTANTS
  Contracts,     \* [name, kind, side, strike, observations, listed]; an
                 \* observation is [date, weight, id]
  Fixings0,      \* fixings that may be supplied: [id, date, value, available]
  Portfolio,     \* names of the contracts held at the start
  Calendar       \* the days of the snapshots, a sequence

Ids == {o.id : o \in UNION {Range(c.observations) : c \in Contracts}}
Names == {c.name : c \in Contracts}
None == <<>>

ASSUME ContractAssumption ==
  /\ \A c, d \in Contracts : c.name = d.name => c = d
  /\ \A c \in Contracts :
       /\ c.listed \in Int /\ c.strike \in Int
       /\ c.observations # <<>> /\ c.observations \in Seq([date : Int, weight : Int, id : Ids])
  /\ \A c \in Contracts : \A i, j \in DOMAIN c.observations :
       /\ i < j => c.observations[i].date < c.observations[j].date
       /\ i # j => c.observations[i].id # c.observations[j].id

(* What is held at the start is listed by then and has not expired.        *)
ASSUME HistoryAssumption ==
  /\ Calendar # <<>> /\ Calendar \in Seq(Int)
  /\ \A i, j \in DOMAIN Calendar : i < j => Calendar[i] < Calendar[j]
  /\ \A f \in Fixings0 : f.available \in Int /\ f.value \in Int
  /\ Portfolio \subseteq Names
  /\ \A c \in Contracts : c.name \in Portfolio =>
       c.listed <= Calendar[1] /\ Calendar[1] < c.observations[Len(c.observations)].date

VARIABLES
  index,    \* the next snapshot
  phase,    \* "between", "booking", "settling" or "valuing"
  resolved, \* the snapshot's fixings merged with the book: none, or one,
            \* for each identifier
  book,     \* state["path_fixings"]
  held,
  todo,     \* contracts still to book or to settle
  valued,   \* contracts valued by this snapshot
  settled,  \* [name, payoff] of the contracts that expired
  stated,   \* [name, day, product] given to the pricer
  saved     \* the savepoint: book, held, settled, stated
vars == <<index, phase, resolved, book, held, todo, valued, settled, stated, saved>>

Today == Calendar[index]
ExpiryDay(c) == c.observations[Len(c.observations)].date
Listed(c) == c.listed <= Today
Live(c) == Listed(c) /\ Today < ExpiryDay(c)
-----------------------------------------------------------------------------
(* SettlementFixing: available now, and dated like the observation.        *)
Available(f) == f.available <= Today
Usable(f, o) == Available(f) /\ f.date = o.date

(* The observations that have come, the first ones of the contract, and    *)
(* the fixings they find.                                                  *)
Due(c) ==
  LET come == {k \in DOMAIN c.observations : c.observations[k].date <= Today}
  IN  [k \in come |-> c.observations[k]]
Missing(c) == \E o \in Range(Due(c)) : resolved[o.id] = None
Mismatched(c) == \E o \in Range(Due(c)) : resolved[o.id] # None /\ ~Usable(resolved[o.id][1], o)
Known(c) == [k \in DOMAIN Due(c) |-> resolved[Due(c)[k].id][1].value]

(* native_product.                                                         *)
(* Mutant: the extremes are taken the wrong way round.                     *)
MutExtremum(side, values) == IF side = "call" THEN Least(values) ELSE Greatest(values)
Extremum(side, values) == IF side = "call" THEN Greatest(values) ELSE Least(values)

AsianStatement(c) ==
  [kind |-> "asian", side |-> c.side, strike |-> c.strike, notional |-> 1, payment |-> ExpiryDay(c),
   observations |-> [k \in DOMAIN c.observations |->
     LET o == c.observations[k]
     IN  [date |-> o.date, weight |-> o.weight,
          fixing |-> IF k \in DOMAIN Due(c) THEN <<Known(c)[k]>> ELSE None]]]

Past(c) == {k \in DOMAIN Due(c) : Due(c)[k].date < Today}

LookbackStatement(c) ==
  [kind |-> "lookback", side |-> c.side, strike |-> c.strike, notional |-> 1, payment |-> ExpiryDay(c),
   valuation |-> Today, dates |-> [k \in DOMAIN c.observations |-> c.observations[k].date],
   extremum |-> IF Past(c) = {} THEN None ELSE <<Extremum(c.side, {Known(c)[k] : k \in Past(c)})>>,
   todaysFixing |->
     LET now == {k \in DOMAIN Due(c) : Due(c)[k].date = Today}
     IN  IF now = {} THEN None ELSE <<Known(c)[CHOOSE k \in now : TRUE]>>]

Statement(c) == IF c.kind = "asian" THEN AsianStatement(c) ELSE LookbackStatement(c)

(* observed_payoff.                                                        *)
ObservedPayoff(c) ==
  LET underlying == IF c.kind = "asian"
                    THEN SumFunction([k \in DOMAIN Due(c) |-> Due(c)[k].weight * Known(c)[k]])
                    ELSE Extremum(c.side, Range(Known(c)))
      intrinsic == IF c.side = "call" THEN underlying - c.strike ELSE c.strike - underlying
  IN  IF intrinsic > 0 THEN intrinsic ELSE 0
-----------------------------------------------------------------------------
Init ==
  /\ index = 1 /\ phase = "between"
  /\ resolved = [id \in Ids |-> None] /\ book = resolved
  /\ held = Portfolio /\ todo = {} /\ valued = {} /\ settled = {} /\ stated = {}
  /\ saved = <<book, held, settled, stated>>

(* The fixings are checked one by one, then against the book; the merge    *)
(* prefers the snapshot's.  Data that fails a check leaves everything as   *)
(* it was, for a resumed run to try again.                                 *)
Contradicts(offer) == \E id \in Ids : book[id] # None /\ offer[id] \notin {None, book[id]}

Receive ==
  /\ phase = "between" /\ index <= Len(Calendar)
  /\ \E offer \in [Ids -> {None} \cup {<<f>> : f \in Fixings0}] :
       /\ \A id \in Ids : offer[id] # None => offer[id][1].id = id /\ Available(offer[id][1])
       /\ ~Contradicts(offer)
       /\ resolved' = [id \in Ids |-> IF offer[id] # None THEN offer[id] ELSE book[id]]
  /\ saved' = <<book, held, settled, stated>>
  /\ todo' = {c \in Contracts : Listed(c)}
  /\ phase' = "booking"
  /\ UNCHANGED <<index, book, held, valued, settled, stated>>

(* One contract of resolve's loop: all that is due and supplied is booked, *)
(* whether the contract is held or not.                                    *)
Booked(c) == {o.id : o \in {x \in Range(Due(c)) : resolved[x.id] # None}}

Book(c) ==
  /\ phase = "booking" /\ c \in todo /\ ~Mismatched(c)
  /\ book' = [id \in Ids |-> IF id \in Booked(c) THEN resolved[id] ELSE book[id]]
  /\ todo' = todo \ {c}
  /\ UNCHANGED <<index, phase, resolved, held, valued, settled, stated, saved>>

BookingDone ==
  /\ phase = "booking" /\ todo = {}
  /\ phase' = "settling" /\ todo' = {c \in Contracts : c.name \in held /\ ExpiryDay(c) <= Today}
  /\ UNCHANGED <<index, resolved, book, held, valued, settled, stated, saved>>

(* A held contract that expires needs every one of its fixings.            *)
Settle(c) ==
  /\ phase = "settling" /\ c \in todo
  /\ ExpiryDay(c) = Today /\ ~Missing(c) /\ ~Mismatched(c)
  /\ settled' = settled \cup {[name |-> c.name, payoff |-> ObservedPayoff(c)]}
  /\ held' = held \ {c.name} /\ todo' = todo \ {c}
  /\ UNCHANGED <<index, phase, resolved, book, valued, stated, saved>>

SettlingDone ==
  /\ phase = "settling" /\ todo = {}
  /\ phase' = "valuing"
  /\ UNCHANGED <<index, resolved, book, held, todo, valued, settled, stated, saved>>

(* risk: a contract is priced at most once by a snapshot.                  *)
Value(c) ==
  /\ phase = "valuing" /\ c.name \notin valued
  /\ Live(c)
  /\ ~Missing(c) /\ ~Mismatched(c)
  /\ valued' = valued \cup {c.name}
  /\ stated' = stated \cup {[name |-> c.name, day |-> Today, product |-> Statement(c)]}
  /\ UNCHANGED <<index, phase, resolved, book, held, todo, settled, saved>>

Forget ==
  /\ phase' = "between" /\ todo' = {} /\ valued' = {}
  /\ resolved' = [id \in Ids |-> None]

(* Whatever is held has been valued; an order may add what else has been.  *)
Commit ==
  /\ phase = "valuing" /\ held \subseteq valued
  /\ \E bought \in SUBSET valued : held' = held \cup bought
  /\ index' = index + 1
  /\ saved' = <<book, held', settled, stated>>
  /\ Forget
  /\ UNCHANGED <<book, settled, stated>>

(* Mutant: the book is not part of what is restored.                       *)
MutRollback == book' = book /\ held' = saved[2] /\ settled' = saved[3] /\ stated' = saved[4]
Rollback == book' = saved[1] /\ held' = saved[2] /\ settled' = saved[3] /\ stated' = saved[4]

Fail ==
  /\ phase # "between"
  /\ Rollback /\ Forget
  /\ UNCHANGED <<index, saved>>

Next ==
  \/ Receive \/ BookingDone \/ SettlingDone \/ Commit \/ Fail
  \/ \E c \in Contracts : Book(c) \/ Settle(c) \/ Value(c)

Spec == Init /\ [][Next]_vars
-----------------------------------------------------------------------------
TypeOK ==
  /\ index \in 1..Len(Calendar) + 1
  /\ phase \in {"between", "booking", "settling", "valuing"}
  /\ \A id \in Ids : \A f \in Range(book[id]) \cup Range(resolved[id]) : f \in Fixings0 /\ f.id = id
  /\ held \subseteq Names /\ valued \subseteq Names /\ todo \subseteq Contracts
  /\ phase = "between" /\ index > 1 =>
       \A c \in Contracts : c.name \in held => ExpiryDay(c) > Calendar[index - 1]

(* Between snapshots the book holds nothing that was not to be had at the  *)
(* last committed one: the data of a snapshot that failed binds nobody     *)
(* (_savepoint, _rollback; resolve writes the book in place).              *)
BookIsCommitted ==
  phase = "between" =>
    \A id \in Ids : \A f \in Range(book[id]) : index > 1 /\ f.available <= Calendar[index - 1]

(* What the pricer is told is what a pricing request accepts on that day   *)
(* (native_product against new_with_lsm).                                  *)
StatementsAreAccepted ==
  \A s \in stated :
    /\ HistoryErrors(s.product, s.day) = <<>>
    /\ Expiry(s.product) >= s.day

(* A contract is priced for what it will settle at: each statement made of *)
(* it, completed with the fixings that came later, pays the settlement.    *)
(* It fails if a fixing that was used is revised, counted twice or lost    *)
(* (resolve, native_product, settlement).                                  *)
PathOf(c) ==
  [spot |-> [day \in {o.date : o \in Range(c.observations)} |->
     LET id == (CHOOSE o \in Range(c.observations) : o.date = day).id
     IN  book[id][1].value]]
PricedAsSettled ==
  \A c \in Contracts : \A x \in {y \in settled : y.name = c.name} :
    /\ \A o \in Range(c.observations) : book[o.id] # None
    /\ \A s \in {y \in stated : y.name = c.name} : Pays(s.product, PathOf(c), 1) = x.payoff

(* Contracts that share a fixing are told the same of it, on every day,    *)
(* and the book agrees with all of them.                                   *)
ToldSo(s) ==
  IF s.product.kind = "asian"
  THEN {<<o.date, o.fixing[1]>> : o \in {x \in Range(s.product.observations) : x.fixing # None}}
  ELSE IF s.product.todaysFixing = None THEN {} ELSE {<<s.day, s.product.todaysFixing[1]>>}
SharedFixingsAgree ==
  \A s \in stated : \A c \in {x \in Contracts : x.name = s.name} : \A told \in ToldSo(s) :
    \E o \in Range(c.observations) : o.date = told[1] /\ book[o.id] # None /\ book[o.id][1].value = told[2]

(* The book is one for all contracts and of committed snapshots only.      *)
BookIsShared ==
  /\ TypeOK
  /\ BookIsCommitted
  /\ SharedFixingsAgree

(* Pricing is told what it accepts and what settlement will say.           *)
PricingFollowsBook ==
  /\ StatementsAreAccepted
  /\ PricedAsSettled
=============================================================================
