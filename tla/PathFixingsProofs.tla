------------------------- MODULE PathFixingsProofs -------------------------
(***************************************************************************)
(* Theorems about the fixings of a replay: the book holds nothing but what *)
(* committed snapshots knew, all contracts are told the same of a fixing   *)
(* they share, and the pricer accepts what it is told.                     *)
(***************************************************************************)
EXTENDS PathFixings, SequenceFacts

(* A book, or a merged snapshot: none or one fixing for each identifier.   *)
IsBook(b) ==
  /\ DOMAIN b = Ids /\ b = [id \in Ids |-> b[id]]
  /\ \A id \in Ids : b[id] = None \/ \E f \in Fixings0 : f.id = id /\ b[id] = <<f>>

(* SharedFixingsAgree and StatementsAreAccepted, of any book and any       *)
(* statements.                                                             *)
TellsOf(b, c, told) ==
  \E o \in Range(c.observations) : o.date = told[1] /\ b[o.id] # None /\ b[o.id][1].value = told[2]
Agree(b, told) ==
  \A s \in told : \A c \in {x \in Contracts : x.name = s.name} : \A t \in ToldSo(s) : TellsOf(b, c, t)
Accepted(s) == HistoryErrors(s.product, s.day) = <<>> /\ Expiry(s.product) >= s.day

(* What a contract settles at by a book that has all of its fixings.       *)
Complete(b, c) == \A k \in DOMAIN c.observations : b[c.observations[k].id] # None
ValueIn(b, c, k) == b[c.observations[k].id][1].value
Underlying(b, c) ==
  IF c.kind = "asian"
  THEN SumFunction([k \in DOMAIN c.observations |-> c.observations[k].weight * ValueIn(b, c, k)])
  ELSE Extremum(c.side, {ValueIn(b, c, k) : k \in DOMAIN c.observations})
Settlement(b, c) ==
  LET intrinsic == IF c.side = "call" THEN Underlying(b, c) - c.strike ELSE c.strike - Underlying(b, c)
  IN  IF intrinsic > 0 THEN intrinsic ELSE 0

(* What was settled is what the book says.                                 *)
SettledTrue(b, done) ==
  \A c \in Contracts : \A x \in {y \in done : y.name = c.name} : Complete(b, c) /\ x.payoff = Settlement(b, c)

(* What was stated pays what the contract settles at, by whatever complete *)
(* book the book may grow into.                                            *)
Books == {b \in [Ids -> {None} \cup {<<f>> : f \in Fixings0}] : IsBook(b)}
Extends(later, b) == \A id \in Ids : b[id] # None => later[id] = b[id]
PathIn(b, c) ==
  [spot |-> [day \in {o.date : o \in Range(c.observations)} |->
     LET id == (CHOOSE o \in Range(c.observations) : o.date = day).id
     IN  b[id][1].value]]
Foretells(b, c, product) ==
  \A later \in Books :
    Extends(later, b) /\ Complete(later, c) => Pays(product, PathIn(later, c), 1) = Settlement(later, c)
StatedTrue(b, told) ==
  \A c \in Contracts : \A s \in {y \in told : y.name = c.name} : Foretells(b, c, s.product)

(* What is true of the state and of the savepoint.                         *)
Sound(b, h, done, told) ==
  /\ IsBook(b) /\ h \subseteq Names
  /\ Agree(b, told) /\ \A s \in told : Accepted(s)
  /\ SettledTrue(b, done) /\ StatedTrue(b, told)

(* What a commit has left, and a savepoint keeps.                          *)
Committed(b, h) ==
  /\ \A id \in Ids : b[id] # None => index > 1 /\ b[id][1].available <= Calendar[index - 1]
  /\ \A c \in Contracts : c.name \in h =>
       /\ index > 1 => ExpiryDay(c) > Calendar[index - 1]
       /\ index <= Len(Calendar) => Listed(c)

(* In a snapshot: the merge contradicts the book nowhere and is of fixings *)
(* to be had; contracts that were booked find in the book what they find   *)
(* in the merge.                                                           *)
Merged ==
  /\ \A id \in Ids : book[id] # None => resolved[id] = book[id]
  /\ \A id \in Ids : resolved[id] # None => resolved[id][1].available <= Today
IsBooked(c) == \A o \in Range(Due(c)) : book[o.id] = resolved[o.id]

InSnapshot ==
  /\ index <= Len(Calendar)
  /\ Sound(saved[1], saved[2], saved[3], saved[4]) /\ Committed(saved[1], saved[2])
  /\ Merged
  /\ \A c \in Contracts : c.name \in held => Listed(c)
  /\ \A c \in todo : Listed(c)
  /\ \A c \in Contracts : Listed(c) /\ (phase = "booking" => c \notin todo) => IsBooked(c)
  /\ \A name \in valued : \E c \in Contracts : c.name = name /\ Live(c)

Inv ==
  /\ index \in 1..Len(Calendar) + 1
  /\ phase \in {"between", "booking", "settling", "valuing"}
  /\ IsBook(resolved) /\ valued \subseteq Names /\ todo \subseteq Contracts
  /\ Sound(book, held, settled, stated)
  /\ phase = "between" => Committed(book, held) /\ valued = {}
  /\ phase # "between" => InSnapshot
-----------------------------------------------------------------------------
(* A contract has observations, on dates of its own.                       *)
LEMMA ObservationFacts ==
  ASSUME NEW c \in Contracts
  PROVE  /\ c.observations \in Seq([date : Int, weight : Int, id : Ids])
         /\ Len(c.observations) \in Nat \ {0}
         /\ DOMAIN c.observations = 1..Len(c.observations)
         /\ \A k \in DOMAIN c.observations : /\ c.observations[k].date \in Int /\ c.observations[k].id \in Ids
              /\ c.observations[k].weight \in Int
<1> DEFINE Obs == [date : Int, weight : Int, id : Ids]
<1>1. c.observations \in Seq(Obs) /\ c.observations # <<>>
  BY ContractAssumption
<1> HIDE DEF Obs
<1>2. Len(c.observations) \in Nat /\ DOMAIN c.observations = 1..Len(c.observations)
  BY <1>1
<1>3. Len(c.observations) # 0
  BY <1>1
<1>4. \A k \in DOMAIN c.observations : c.observations[k] \in Obs
  BY <1>1, <1>2
<1> QED BY <1>1, <1>2, <1>3, <1>4 DEF Obs

LEMMA Day ==
  ASSUME index \in 1..Len(Calendar)
  PROVE  /\ Today \in Int /\ Len(Calendar) \in Nat
         /\ index > 1 => Calendar[index - 1] \in Int /\ Calendar[index - 1] < Today
<1>1. Calendar \in Seq(Int) /\ \A i, j \in DOMAIN Calendar : i < j => Calendar[i] < Calendar[j]
  BY HistoryAssumption
<1>2. Len(Calendar) \in Nat /\ DOMAIN Calendar = 1..Len(Calendar)
  BY <1>1
<1>3. Today \in Int
  BY <1>1, <1>2 DEF Today
<1>4. ASSUME index > 1 PROVE Calendar[index - 1] \in Int /\ Calendar[index - 1] < Today
  <2>1. index - 1 \in DOMAIN Calendar /\ index \in DOMAIN Calendar /\ index - 1 < index
    BY <1>2, <1>4
  <2> QED BY <1>1, <1>2, <2>1 DEF Today
<1> QED BY <1>2, <1>3, <1>4

(* The observations that have come.                                        *)
LEMMA DueFacts ==
  ASSUME NEW c \in Contracts
  PROVE  /\ DOMAIN Due(c) = {k \in DOMAIN c.observations : c.observations[k].date <= Today}
         /\ \A k \in DOMAIN Due(c) : k \in DOMAIN c.observations /\ Due(c)[k] = c.observations[k]
         /\ Range(Due(c)) \subseteq Range(c.observations)
         /\ \A o \in Range(Due(c)) : o.id \in Ids
<1>1. DOMAIN Due(c) = {k \in DOMAIN c.observations : c.observations[k].date <= Today}
  BY DEF Due
<1>2. \A k \in DOMAIN Due(c) : k \in DOMAIN c.observations /\ Due(c)[k] = c.observations[k]
  BY DEF Due
<1> QED BY <1>1, <1>2, ObservationFacts DEF Range

(* The last observation is dated last.                                     *)
LEMMA LastIsLast ==
  ASSUME NEW c \in Contracts
  PROVE  \A k \in DOMAIN c.observations : c.observations[k].date <= ExpiryDay(c)
<1> DEFINE n == Len(c.observations)
<1>1. n \in DOMAIN c.observations
  BY ObservationFacts
<1> SUFFICES ASSUME NEW k \in DOMAIN c.observations PROVE c.observations[k].date <= c.observations[n].date
  BY DEF ExpiryDay
<1>2. k = n \/ k < n
  BY ObservationFacts
<1>3. k < n => c.observations[k].date < c.observations[n].date
  BY <1>1, ContractAssumption
<1> QED BY <1>1, <1>2, <1>3, ObservationFacts

(* What a statement says of a fixing is what the book has of it.           *)
LEMMA ToldFromBook ==
  ASSUME NEW c \in Contracts, IsBooked(c), ~Missing(c),
         NEW t \in ToldSo([name |-> c.name, day |-> Today, product |-> Statement(c)])
  PROVE  TellsOf(book, c, t)
<1>1. \A k \in DOMAIN Due(c) :
        /\ book[Due(c)[k].id] # None /\ Known(c)[k] = book[Due(c)[k].id][1].value
        /\ Due(c)[k] \in Range(c.observations) /\ Due(c)[k] = c.observations[k]
        /\ k \in DOMAIN c.observations
  <2> SUFFICES ASSUME NEW k \in DOMAIN Due(c)
               PROVE  /\ book[Due(c)[k].id] # None /\ Known(c)[k] = book[Due(c)[k].id][1].value
                      /\ Due(c)[k] \in Range(c.observations) /\ Due(c)[k] = c.observations[k]
                      /\ k \in DOMAIN c.observations
    OBVIOUS
  <2>1. Due(c)[k] \in Range(Due(c))
    BY DEF Range
  <2>2. resolved[Due(c)[k].id] # None /\ book[Due(c)[k].id] = resolved[Due(c)[k].id]
    BY <2>1 DEF Missing, IsBooked
  <2>3. Known(c)[k] = resolved[Due(c)[k].id][1].value
    BY DEF Known
  <2> QED BY <2>1, <2>2, <2>3, DueFacts
<1>2. SUFFICES \E k \in DOMAIN Due(c) : t[1] = c.observations[k].date /\ t[2] = Known(c)[k]
  BY <1>1 DEF TellsOf
<1>3. CASE c.kind = "asian"
  <2> DEFINE Stated(k) == [date |-> c.observations[k].date, weight |-> c.observations[k].weight,
                           fixing |-> IF k \in DOMAIN Due(c) THEN <<Known(c)[k]>> ELSE None]
             p == Statement(c)
  <2>1. p.kind = "asian" /\ p.observations = [k \in DOMAIN c.observations |-> Stated(k)]
    BY <1>3 DEF Statement, AsianStatement
  <2>2. t \in {<<o.date, o.fixing[1]>> : o \in {x \in Range(p.observations) : x.fixing # None}}
    BY <2>1 DEF ToldSo
  <2>3. PICK k \in DOMAIN c.observations : Stated(k).fixing # None /\ t = <<Stated(k).date, Stated(k).fixing[1]>>
    BY <2>1, <2>2 DEF Range
  <2>4. k \in DOMAIN Due(c) /\ t = <<c.observations[k].date, Known(c)[k]>>
    BY <2>3
  <2> QED BY <2>4
<1>4. CASE c.kind # "asian"
  <2> DEFINE now == {k \in DOMAIN Due(c) : Due(c)[k].date = Today}
             p == Statement(c)
  <2>1. /\ p.kind = "lookback"
        /\ p.todaysFixing = IF now = {} THEN None ELSE <<Known(c)[CHOOSE k \in now : TRUE]>>
    BY <1>4 DEF Statement, LookbackStatement
  <2>2. p.todaysFixing # None /\ t = <<Today, p.todaysFixing[1]>>
    BY <2>1 DEF ToldSo
  <2>3. now # {} /\ t = <<Today, Known(c)[CHOOSE k \in now : TRUE]>>
    BY <2>1, <2>2
  <2>4. (CHOOSE k \in now : TRUE) \in now
    BY <2>3
  <2>5. \E k \in now : t[1] = Today /\ t[2] = Known(c)[k]
    BY <2>3, <2>4
  <2> QED BY <2>5, <1>1
<1> QED BY <1>3, <1>4

(* A live contract whose due fixings are there is stated as the pricer     *)
(* accepts it.                                                             *)
LEMMA LatestIsLate ==
  ASSUME NEW c \in Contracts
  PROVE  Latest({c.observations[k].date : k \in DOMAIN c.observations}) >= ExpiryDay(c)
<1> DEFINE S == {c.observations[k].date : k \in DOMAIN c.observations}
           n == Len(c.observations)
<1>1. n \in DOMAIN c.observations /\ ExpiryDay(c) \in S /\ S \subseteq Int
  BY ObservationFacts DEF ExpiryDay
<1>2. \A k \in DOMAIN c.observations : c.observations[k].date <= ExpiryDay(c)
  BY LastIsLast
<1>3. \E d \in S : \A e \in S : e <= d
  BY <1>1, <1>2
<1>4. Latest(S) \in S /\ \A e \in S : e <= Latest(S)
  BY <1>3 DEF Latest
<1> QED BY <1>1, <1>4

LEMMA AsianErrors ==
  ASSUME NEW p, NEW day, p.kind = "asian",
         \A o \in Range(p.observations) : /\ ~(o.fixing # <<>> /\ o.date > day)
                                          /\ ~(o.fixing = <<>> /\ o.date < day)
  PROVE  HistoryErrors(p, day) = <<>> /\ Dates(p) = {o.date : o \in Range(p.observations)}
<1>1. Dates(p) = {o.date : o \in Range(p.observations)}
  BY Zenon DEF Dates
<1>2. HistoryErrors(p, day) = <<>>
  BY Zenon DEF HistoryErrors
<1> QED BY <1>1, <1>2

LEMMA LookbackErrors ==
  ASSUME NEW p, NEW day, p.kind = "lookback",
         p.todaysFixing # <<>> => day \in Dates(p),
         HasPast(p, day) = (p.extremum # <<>>)
  PROVE  HistoryErrors(p, day) = <<>> /\ Dates(p) = Range(p.dates)
<1>1. Dates(p) = Range(p.dates)
  BY Zenon DEF Dates
<1>2. HistoryErrors(p, day) = <<>>
  BY Zenon DEF HistoryErrors
<1> QED BY <1>1, <1>2

LEMMA StatementAccepted ==
  ASSUME NEW c \in Contracts, index \in 1..Len(Calendar), Live(c)
  PROVE  Accepted([name |-> c.name, day |-> Today, product |-> Statement(c)])
<1> DEFINE p == Statement(c)
           D == {c.observations[k].date : k \in DOMAIN c.observations}
<1>1. Today \in Int /\ \A k \in DOMAIN c.observations : c.observations[k].date \in Int
  BY Day, ObservationFacts
<1>2. Latest(D) >= Today
  <2>1. Latest(D) >= ExpiryDay(c) /\ Today < ExpiryDay(c)
    BY LatestIsLate DEF Live
  <2>2. ExpiryDay(c) \in Int
    BY ObservationFacts DEF ExpiryDay
  <2>3. Latest(D) \in Int
    <3>1. ExpiryDay(c) \in D /\ \A d \in D : d <= ExpiryDay(c)
      <4>1. Len(c.observations) \in DOMAIN c.observations
        BY ObservationFacts
      <4>2. \A k \in DOMAIN c.observations : k < Len(c.observations) \/ k = Len(c.observations)
        BY ObservationFacts
      <4> QED BY <4>1, <4>2, <1>1, ContractAssumption DEF ExpiryDay
    <3>2. \E d \in D : \A e \in D : e <= d
      BY <3>1
    <3>3. Latest(D) \in D
      BY <3>2 DEF Latest
    <3> QED BY <3>3, <1>1
  <2> QED BY <1>1, <2>1, <2>2, <2>3
<1>3. CASE c.kind = "asian"
  <2> DEFINE Stated(k) == [date |-> c.observations[k].date, weight |-> c.observations[k].weight,
                           fixing |-> IF k \in DOMAIN Due(c) THEN <<Known(c)[k]>> ELSE None]
  <2>1. p.kind = "asian" /\ p.observations = [k \in DOMAIN c.observations |-> Stated(k)]
    BY <1>3 DEF Statement, AsianStatement
  <2>2. Range(p.observations) = {Stated(k) : k \in DOMAIN c.observations}
    BY <2>1 DEF Range
  <2>3. \A k \in DOMAIN c.observations :
          /\ Stated(k).fixing # <<>> => Stated(k).date <= Today
          /\ Stated(k).fixing = <<>> => ~(Stated(k).date <= Today)
    BY DueFacts DEF None
  <2>4. \A o \in Range(p.observations) : /\ ~(o.fixing # <<>> /\ o.date > Today)
                                         /\ ~(o.fixing = <<>> /\ o.date < Today)
    BY <1>1, <2>2, <2>3, SMTT(30)
  <2>5. HistoryErrors(p, Today) = <<>> /\ Dates(p) = {o.date : o \in Range(p.observations)}
    BY <2>1, <2>4, AsianErrors
  <2>6. Dates(p) = D
    <3>1. \A o : o \in Range(p.observations) <=> \E k \in DOMAIN c.observations : o = Stated(k)
      BY <2>2
    <3>2. \A d : d \in {o.date : o \in Range(p.observations)} <=> \E k \in DOMAIN c.observations : d = Stated(k).date
      BY <3>1
    <3> QED BY <2>5, <3>2
  <2>7. Expiry(p) = Latest(D)
    BY <2>1, <2>6 DEF Expiry
  <2> QED BY <2>5, <2>7, <1>2 DEF Accepted
<1>4. CASE c.kind # "asian"
  <2> DEFINE now == {k \in DOMAIN Due(c) : Due(c)[k].date = Today}
  <2>1. /\ p.kind = "lookback"
        /\ p.todaysFixing = IF now = {} THEN None ELSE <<Known(c)[CHOOSE k \in now : TRUE]>>
        /\ p.extremum = IF Past(c) = {} THEN None ELSE <<Extremum(c.side, {Known(c)[k] : k \in Past(c)})>>
        /\ p.dates = [k \in DOMAIN c.observations |-> c.observations[k].date]
    BY <1>4 DEF Statement, LookbackStatement
  <2>2. Dates(p) = Range(p.dates) /\ Range(p.dates) = D
    BY <2>1 DEF Dates, Range
  <2>3. p.todaysFixing # <<>> => Today \in D
    BY <2>1, DueFacts DEF None
  <2>4. \A k : k \in Past(c) <=> k \in DOMAIN c.observations /\ c.observations[k].date < Today
    <3>1. ASSUME NEW k \in DOMAIN c.observations, c.observations[k].date < Today PROVE k \in DOMAIN Due(c)
      <4>1. c.observations[k].date \in Int /\ Today \in Int
        BY <1>1
      <4>2. c.observations[k].date <= Today
        BY <3>1, <4>1
      <4> QED BY <4>2, DueFacts
    <3> QED BY <3>1, DueFacts DEF Past
  <2>5. HasPast(p, Today) = (p.extremum # <<>>)
    <3>1. HasPast(p, Today) <=> Past(c) # {}
      BY <2>2, <2>4 DEF HasPast
    <3>2. p.extremum # <<>> <=> Past(c) # {}
      BY <2>1 DEF None
    <3>3. HasPast(p, Today) <=> p.extremum # <<>>
      BY <3>1, <3>2
    <3> QED BY <3>3 DEF HasPast
  <2>6. HistoryErrors(p, Today) = <<>>
    BY <2>1, <2>2, <2>3, <2>5, LookbackErrors
  <2>7. Expiry(p) = Latest(D)
    BY <2>1, <2>2 DEF Expiry
  <2> QED BY <2>6, <2>7, <1>2 DEF Accepted
<1> QED BY <1>3, <1>4
-----------------------------------------------------------------------------
(* Extremes.                                                               *)
LEMMA Extremes ==
  ASSUME NEW S, IsFiniteSet(S), S \subseteq Int, S # {}
  PROVE  /\ Greatest(S) \in S /\ \A y \in S : y <= Greatest(S)
         /\ Least(S) \in S /\ \A y \in S : Least(S) <= y
<1> DEFINE HasBoth(s) == (\E x \in s : \A y \in s : y <= x) /\ (\E x \in s : \A y \in s : x <= y)
           T == {n \in Nat : \A s \in SUBSET S : s # {} /\ Cardinality(s) <= n => HasBoth(s)}
<1>1. 0 \in T
  <2>1. ASSUME NEW s \in SUBSET S, s # {} PROVE ~(Cardinality(s) <= 0)
    <3>1. Cardinality(s) \in Nat /\ Cardinality(s) # 0
      BY <2>1, SmallerSets
    <3> QED BY <3>1
  <2> QED BY <2>1
<1>2. ASSUME NEW n \in Nat, n \in T PROVE n + 1 \in T
  <2> SUFFICES ASSUME NEW s \in SUBSET S, s # {}, Cardinality(s) <= n + 1 PROVE HasBoth(s)
    OBVIOUS
  <2>1. PICK z \in s : TRUE
    OBVIOUS
  <2> DEFINE r == s \ {z}
  <2>2. r \in SUBSET S /\ s = r \cup {z} /\ z \in Int /\ s \subseteq Int
    OBVIOUS
  <2>3. Cardinality(r) <= n
    <3>1. Cardinality(s) \in Nat /\ Cardinality(r) = Cardinality(s) - 1
      BY SmallerSets
    <3> QED BY <3>1
  <2> HIDE DEF r
  <2>4. CASE r = {}
    BY <2>2, <2>4
  <2>5. CASE r # {}
    <3>1. HasBoth(r)
      BY <1>2, <2>2, <2>3, <2>5
    <3>2. PICK x \in r : \A y \in r : y <= x
      BY <3>1
    <3>3. PICK w \in r : \A y \in r : w <= y
      BY <3>1
    <3>4. \E v \in s : \A y \in s : y <= v
      <4>1. CASE z <= x
        BY <2>2, <3>2, <4>1
      <4>2. CASE ~(z <= x)
        <5>1. \A y \in s : y <= z
          BY <2>2, <3>2, <4>2
        <5> QED BY <5>1
      <4> QED BY <4>1, <4>2
    <3>5. \E v \in s : \A y \in s : v <= y
      <4>1. CASE w <= z
        BY <2>2, <3>3, <4>1
      <4>2. CASE ~(w <= z)
        <5>1. \A y \in s : z <= y
          BY <2>2, <3>3, <4>2
        <5> QED BY <5>1
      <4> QED BY <4>1, <4>2
    <3> QED BY <3>4, <3>5
  <2> QED BY <2>4, <2>5
<1>3. Cardinality(S) \in Nat /\ S \in SUBSET S
  BY SmallerSets
<1>4. Cardinality(S) \in T
  <2> HIDE DEF T
  <2> QED BY <1>1, <1>2, <1>3, Induction
<1>5. HasBoth(S)
  BY <1>3, <1>4
<1> QED BY <1>5 DEF Greatest, Least

LEMMA GreatestIs ==
  ASSUME NEW S, S \subseteq Int, NEW x \in S, \A y \in S : y <= x
  PROVE  Greatest(S) = x
<1>1. \E z \in S : \A y \in S : y <= z
  OBVIOUS
<1>2. Greatest(S) \in S /\ \A y \in S : y <= Greatest(S)
  BY <1>1 DEF Greatest
<1>3. Greatest(S) \in Int /\ x \in Int /\ Greatest(S) <= x /\ x <= Greatest(S)
  BY <1>2
<1> QED BY <1>3

LEMMA LeastIs ==
  ASSUME NEW S, S \subseteq Int, NEW x \in S, \A y \in S : x <= y
  PROVE  Least(S) = x
<1>1. \E z \in S : \A y \in S : z <= y
  OBVIOUS
<1>2. Least(S) \in S /\ \A y \in S : Least(S) <= y
  BY <1>1 DEF Least
<1>3. Least(S) \in Int /\ x \in Int /\ Least(S) <= x /\ x <= Least(S)
  BY <1>2
<1> QED BY <1>3

LEMMA ExtremumType ==
  ASSUME NEW side, NEW S, IsFiniteSet(S), S \subseteq Int, S # {}
  PROVE  Extremum(side, S) \in Int
BY Extremes DEF Extremum

(* An extremum may be taken of a part first.                               *)
LEMMA ExtremumOfParts ==
  ASSUME NEW side, NEW A, NEW B, IsFiniteSet(A), IsFiniteSet(B), A \subseteq Int, B \subseteq Int, A # {}
  PROVE  Extremum(side, A \cup B) = Extremum(side, B \cup {Extremum(side, A)})
<1> DEFINE e == Extremum(side, A)
           all == A \cup B
           x == Extremum(side, all)
<1>1. IsFiniteSet(all) /\ all \subseteq Int /\ all # {}
  BY FS_Union
<1>2. CASE side = "call"
  <2>1. e \in A /\ \A y \in A : y <= e
    BY <1>2, Extremes DEF Extremum
  <2>2. x \in all /\ \A y \in all : y <= x
    BY <1>1, <1>2, Extremes DEF Extremum
  <2>3. x \in B \cup {e} /\ (\A y \in B \cup {e} : y <= x) /\ B \cup {e} \subseteq Int
    <3> HIDE DEF x, e
    <3>1. x \in Int /\ e \in Int
      BY <1>1, <2>1, <2>2
    <3>2. x \in A => x <= e /\ e <= x
      BY <2>1, <2>2
    <3>3. x \in B \/ x = e
      BY <2>2, <3>1, <3>2
    <3> QED BY <1>1, <2>1, <2>2, <3>1, <3>3
  <2> HIDE DEF e, x
  <2>4. Greatest(B \cup {e}) = x
    BY <2>3, GreatestIs
  <2> QED BY <1>2, <2>4 DEF Extremum, e, x
<1>3. CASE side # "call"
  <2>1. e \in A /\ \A y \in A : e <= y
    BY <1>3, Extremes DEF Extremum
  <2>2. x \in all /\ \A y \in all : x <= y
    BY <1>1, <1>3, Extremes DEF Extremum
  <2>3. x \in B \cup {e} /\ (\A y \in B \cup {e} : x <= y) /\ B \cup {e} \subseteq Int
    <3> HIDE DEF x, e
    <3>1. x \in Int /\ e \in Int
      BY <1>1, <2>1, <2>2
    <3>2. x \in A => x <= e /\ e <= x
      BY <2>1, <2>2
    <3>3. x \in B \/ x = e
      BY <2>2, <3>1, <3>2
    <3> QED BY <1>1, <2>1, <2>2, <3>1, <3>3
  <2> HIDE DEF e, x
  <2>4. Least(B \cup {e}) = x
    BY <2>3, LeastIs
  <2> QED BY <1>3, <2>4 DEF Extremum, e, x
<1> QED BY <1>2, <1>3

(* The positive part, as the contract and as the pricer write it.          *)
LEMMA PositivePart ==
  ASSUME NEW x \in Int
  PROVE  1 * Greatest({0, x}) = IF x > 0 THEN x ELSE 0
<1>1. CASE x > 0
  <2>1. Greatest({0, x}) = x
    BY <1>1, GreatestIs
  <2> QED BY <1>1, <2>1
<1>2. CASE ~(x > 0)
  <2>1. Greatest({0, x}) = 0
    BY <1>2, GreatestIs
  <2> QED BY <1>2, <2>1
<1> QED BY <1>1, <1>2
-----------------------------------------------------------------------------
(* Settlements and what foretells them.                                    *)
LEMMA RangeOfOne ==
  ASSUME NEW x
  PROVE  Range(<<x>>) = {x}
<1>1. DOMAIN <<x>> = {1} /\ <<x>>[1] = x
  OBVIOUS
<1> QED BY <1>1 DEF Range

LEMMA PaysAsian ==
  ASSUME NEW p, NEW path, p.kind = "asian"
  PROVE  Pays(p, path, 1) = Vanilla(p, Average(p, path))
BY Zenon DEF Pays

LEMMA PaysLookback ==
  ASSUME NEW p, NEW path, p.kind = "lookback"
  PROVE  Pays(p, path, 1) = Vanilla(p, IF p.side = "call" THEN Greatest(Fixings(p, path)) ELSE Least(Fixings(p, path)))
BY Zenon DEF Pays

LEMMA ValuesInBook ==
  ASSUME NEW b, IsBook(b), NEW c \in Contracts, NEW K \in SUBSET DOMAIN c.observations,
         \A k \in K : b[c.observations[k].id] # None
  PROVE  /\ \A k \in K : ValueIn(b, c, k) \in Int
         /\ IsFiniteSet({ValueIn(b, c, k) : k \in K}) /\ {ValueIn(b, c, k) : k \in K} \subseteq Int
<1>1. ASSUME NEW k \in K PROVE ValueIn(b, c, k) \in Int
  <2>1. b[c.observations[k].id] # None /\ c.observations[k].id \in Ids
    BY ObservationFacts
  <2>2. PICK f \in Fixings0 : b[c.observations[k].id] = <<f>>
    BY <2>1 DEF IsBook
  <2> QED BY <2>2, HistoryAssumption DEF ValueIn
<1>2. IsFiniteSet(K)
  <2>1. IsFiniteSet(1..Len(c.observations))
    BY ObservationFacts, FS_Interval
  <2> QED BY <2>1, ObservationFacts, FS_Subset
<1>3. IsFiniteSet({ValueIn(b, c, k) : k \in K})
  <2> DEFINE V == {ValueIn(b, c, k) : k \in K}
             f == [k \in K |-> ValueIn(b, c, k)]
  <2>1. f \in Surjection(K, V)
    BY DEF Surjection
  <2> QED BY <1>2, <2>1, FS_Surjection
<1> QED BY <1>1, <1>3

LEMMA UnderlyingType ==
  ASSUME NEW b, IsBook(b), NEW c \in Contracts, Complete(b, c)
  PROVE  Underlying(b, c) \in Int
<1> DEFINE K == DOMAIN c.observations
<1>1. \A k \in K : b[c.observations[k].id] # None
  BY DEF Complete
<1>2. /\ \A k \in K : ValueIn(b, c, k) \in Int
      /\ IsFiniteSet({ValueIn(b, c, k) : k \in K}) /\ {ValueIn(b, c, k) : k \in K} \subseteq Int
  BY <1>1, ValuesInBook
<1>3. CASE c.kind = "asian"
  <2>1. \A k \in K : c.observations[k].weight \in Int
    BY ObservationFacts
  <2>2. [k \in K |-> c.observations[k].weight * ValueIn(b, c, k)] \in [K -> Int]
    BY <1>2, <2>1
  <2>3. IsFiniteSet(K)
    BY ObservationFacts, FS_Interval
  <2> QED BY <1>3, <2>2, <2>3, SumType DEF Underlying
<1>4. CASE c.kind # "asian"
  <2>1. {ValueIn(b, c, k) : k \in K} # {}
    BY ObservationFacts
  <2> QED BY <1>2, <1>4, <2>1, ExtremumType DEF Underlying
<1> QED BY <1>3, <1>4

(* A contract that expires settles at what the book says.                  *)
LEMMA SettlesFromBook ==
  ASSUME NEW c \in Contracts, index \in 1..Len(Calendar), ExpiryDay(c) = Today, IsBooked(c), ~Missing(c)
  PROVE  Complete(book, c) /\ ObservedPayoff(c) = Settlement(book, c)
<1> DEFINE K == DOMAIN c.observations
<1>1. DOMAIN Due(c) = K
  <2>1. \A k \in K : c.observations[k].date <= Today
    BY LastIsLast
  <2> QED BY <2>1, DueFacts
<1>2. \A k \in K : /\ Due(c)[k] = c.observations[k] /\ Due(c)[k] \in Range(Due(c))
                   /\ book[c.observations[k].id] # None /\ Known(c)[k] = ValueIn(book, c, k)
  <2> SUFFICES ASSUME NEW k \in K
               PROVE  /\ Due(c)[k] = c.observations[k] /\ Due(c)[k] \in Range(Due(c))
                      /\ book[c.observations[k].id] # None /\ Known(c)[k] = ValueIn(book, c, k)
    OBVIOUS
  <2>1. Due(c)[k] = c.observations[k] /\ Due(c)[k] \in Range(Due(c))
    BY <1>1, DueFacts DEF Range
  <2>2. resolved[Due(c)[k].id] # None /\ book[Due(c)[k].id] = resolved[Due(c)[k].id]
    BY <2>1 DEF Missing, IsBooked
  <2>3. Known(c)[k] = resolved[Due(c)[k].id][1].value
    BY <1>1 DEF Known
  <2> QED BY <2>1, <2>2, <2>3 DEF ValueIn
<1>3. Complete(book, c)
  BY <1>2 DEF Complete
<1>4. [k \in DOMAIN Due(c) |-> Due(c)[k].weight * Known(c)[k]]
      = [k \in K |-> c.observations[k].weight * ValueIn(book, c, k)]
  BY <1>1, <1>2
<1>5. Range(Known(c)) = {ValueIn(book, c, k) : k \in K}
  <2>1. DOMAIN Known(c) = K
    BY <1>1 DEF Known
  <2> QED BY <1>2, <2>1 DEF Range
<1>6. ObservedPayoff(c) = Settlement(book, c)
  BY <1>4, <1>5 DEF ObservedPayoff, Settlement, Underlying
<1> QED BY <1>3, <1>6

(* A statement made from the book pays what the contract settles at, by    *)
(* whatever complete book this one may grow into.                          *)
LEMMA StatementForetells ==
  ASSUME NEW c \in Contracts, index \in 1..Len(Calendar), IsBooked(c), ~Missing(c)
  PROVE  Foretells(book, c, Statement(c))
<1> SUFFICES ASSUME NEW b \in Books, Extends(b, book), Complete(b, c)
             PROVE  Pays(Statement(c), PathIn(b, c), 1) = Settlement(b, c)
  BY DEF Foretells
<1> DEFINE K == DOMAIN c.observations
           V(k) == ValueIn(b, c, k)
           date(k) == c.observations[k].date
           p == Statement(c)
           path == PathIn(b, c)
<1>1. IsBook(b) /\ \A k \in K : b[c.observations[k].id] # None
  BY DEF Books, Complete
<1>2. /\ \A k \in K : V(k) \in Int
      /\ \A J \in SUBSET K : IsFiniteSet({V(k) : k \in J}) /\ {V(k) : k \in J} \subseteq Int
  BY <1>1, ValuesInBook
<1>3. ASSUME NEW k \in DOMAIN Due(c) PROVE Known(c)[k] = V(k)
  <2>1. Due(c)[k] \in Range(Due(c)) /\ Due(c)[k] = c.observations[k] /\ Due(c)[k].id \in Ids
    BY DueFacts DEF Range
  <2>2. resolved[Due(c)[k].id] # None /\ book[Due(c)[k].id] = resolved[Due(c)[k].id]
    BY <2>1 DEF Missing, IsBooked
  <2>3. b[Due(c)[k].id] = resolved[Due(c)[k].id]
    BY <2>1, <2>2 DEF Extends
  <2>4. Known(c)[k] = resolved[Due(c)[k].id][1].value
    BY DEF Known
  <2> QED BY <2>1, <2>3, <2>4 DEF ValueIn
<1>4. ASSUME NEW k \in K PROVE path.spot[date(k)] = V(k)
  <2> DEFINE o == CHOOSE o \in Range(c.observations) : o.date = date(k)
  <2>1. o \in Range(c.observations) /\ o.date = date(k)
    BY DEF Range
  <2>2. o = c.observations[k]
    <3>1. PICK j \in K : o = c.observations[j]
      BY <2>1 DEF Range
    <3>2. j \in Nat /\ k \in Nat /\ date(j) \in Int /\ date(k) \in Int
      BY ObservationFacts, SMTT(30)
    <3>3. ~(j < k) /\ ~(k < j)
      BY <2>1, <3>1, <3>2, ContractAssumption, SMTT(30)
    <3> QED BY <3>1, <3>2, <3>3
  <2>3. date(k) \in {x.date : x \in Range(c.observations)}
    BY DEF Range
  <2>4. path.spot[date(k)] = b[o.id][1].value
    BY <2>3 DEF PathIn
  <2> QED BY <2>2, <2>4 DEF ValueIn
<1>5. Underlying(b, c) \in Int /\ c.strike \in Int
  BY <1>1, UnderlyingType, ContractAssumption
<1>6. /\ p.side = c.side /\ p.strike = c.strike /\ p.notional = 1
      /\ p.kind = IF c.kind = "asian" THEN "asian" ELSE "lookback"
  BY DEF Statement, AsianStatement, LookbackStatement
<1>7. Vanilla(p, Underlying(b, c)) = Settlement(b, c)
  <2> DEFINE x == IF c.side = "call" THEN Underlying(b, c) - c.strike ELSE c.strike - Underlying(b, c)
  <2>1. x \in Int
    BY <1>5
  <2>2. Vanilla(p, Underlying(b, c)) = 1 * Greatest({0, x})
    BY <1>6 DEF Vanilla
  <2>3. Settlement(b, c) = IF x > 0 THEN x ELSE 0
    BY DEF Settlement
  <2> HIDE DEF x
  <2> QED BY <2>1, <2>2, <2>3, PositivePart
<1>8. CASE c.kind = "asian"
  <2> DEFINE Stated(k) == [date |-> c.observations[k].date, weight |-> c.observations[k].weight,
                           fixing |-> IF k \in DOMAIN Due(c) THEN <<Known(c)[k]>> ELSE None]
  <2>1. p.observations = [k \in K |-> Stated(k)]
    BY <1>8 DEF Statement, AsianStatement
  <2>2. ASSUME NEW k \in K
        PROVE  LET o == p.observations[k]
               IN  o.weight * (IF o.fixing # <<>> THEN o.fixing[1] ELSE path.spot[o.date])
                   = c.observations[k].weight * V(k)
    <3>1. p.observations[k] = Stated(k)
      BY <2>1
    <3>2. CASE k \in DOMAIN Due(c)
      BY <1>3, <3>1, <3>2
    <3>3. CASE k \notin DOMAIN Due(c)
      BY <1>4, <3>1, <3>3 DEF None
    <3> QED BY <3>2, <3>3
  <2>3. DOMAIN p.observations = K
    BY <2>1
  <2>4. Average(p, path) = SumFunction([k \in K |-> c.observations[k].weight * V(k)])
    BY <2>2, <2>3 DEF Average
  <2>5. Average(p, path) = Underlying(b, c)
    BY <1>8, <2>4 DEF Underlying
  <2>6. p.kind = "asian"
    BY <1>6, <1>8
  <2>7. Pays(p, path, 1) = Vanilla(p, Average(p, path))
    BY <2>6, PaysAsian
  <2> QED BY <1>7, <2>5, <2>7
<1>9. CASE c.kind # "asian"
  <2> DEFINE now == {k \in DOMAIN Due(c) : Due(c)[k].date = Today}
             before == Past(c)
             A == {V(k) : k \in before}
             B == {V(k) : k \in K \ before}
  <2>1. /\ p.todaysFixing = IF now = {} THEN None ELSE <<Known(c)[CHOOSE k \in now : TRUE]>>
        /\ p.extremum = IF before = {} THEN None ELSE <<Extremum(c.side, {Known(c)[k] : k \in before})>>
        /\ p.dates = [k \in K |-> date(k)] /\ p.valuation = Today
    BY <1>9 DEF Statement, LookbackStatement
  <2>2. Today \in Int /\ \A k \in K : date(k) \in Int
    BY Day, ObservationFacts
  <2>3. before \subseteq DOMAIN Due(c) /\ before \subseteq K /\ \A k \in K : k \in before <=> date(k) < Today
    <3>1. ASSUME NEW k \in K, date(k) < Today PROVE k \in DOMAIN Due(c)
      <4>1. date(k) <= Today
        BY <2>2, <3>1
      <4> QED BY <4>1, DueFacts
    <3> QED BY <3>1, DueFacts DEF Past
  <2>4. {Known(c)[k] : k \in before} = A
    BY <1>3, <2>3
  <2>5. ASSUME NEW k \in K, date(k) >= Today
        PROVE  (IF date(k) = p.valuation /\ p.todaysFixing # <<>> THEN p.todaysFixing[1] ELSE path.spot[date(k)]) = V(k)
    <3>1. CASE date(k) = Today
      <4>1. k \in now
        <5>1. date(k) <= Today
          BY <2>2, <3>1
        <5>2. k \in DOMAIN Due(c) /\ Due(c)[k] = c.observations[k]
          BY <5>1, DueFacts
        <5> QED BY <3>1, <5>2
      <4>2. \A j \in now : j = k
        <5> SUFFICES ASSUME NEW j \in now PROVE j = k
          OBVIOUS
        <5>0. j \in K /\ Due(c)[j] = c.observations[j] /\ Due(c)[j].date = Today
          BY DueFacts
        <5>1. j \in K /\ date(j) = date(k) /\ j \in Nat /\ k \in Nat /\ date(j) \in Int
          BY <2>2, <3>1, <5>0, ObservationFacts, SMTT(30)
        <5>2. ~(j < k) /\ ~(k < j)
          BY <5>1, ContractAssumption
        <5> QED BY <5>1, <5>2
      <4>3. (CHOOSE j \in now : TRUE) = k
        BY <4>1, <4>2
      <4>4. p.todaysFixing = <<V(k)>>
        BY <1>3, <2>1, <4>1, <4>3
      <4> QED BY <1>4, <4>4
    <3>2. CASE date(k) # Today
      BY <1>4, <2>1, <3>2
    <3> QED BY <3>1, <3>2
  <2>6. Fixings(p, path) = B \cup Range(p.extremum)
    <3> DEFINE F(d) == IF d = p.valuation /\ p.todaysFixing # <<>> THEN p.todaysFixing[1] ELSE path.spot[d]
               D == {d \in Range(p.dates) : d >= p.valuation}
    <3>1. \A d : d \in D <=> \E k \in K \ before : d = date(k)
      BY <2>1, <2>2, <2>3 DEF Range
    <3>2. \A k \in K \ before : F(date(k)) = V(k)
      BY <2>2, <2>3, <2>5
    <3> HIDE DEF F, D
    <3>3. {F(d) : d \in D} = B
      BY <3>1, <3>2
    <3> QED BY <3>3 DEF Fixings, F, D
  <2>7. A \cup B = {V(k) : k \in K}
    BY <2>3
  <2>8. /\ IsFiniteSet(A) /\ IsFiniteSet(B) /\ A \subseteq Int /\ B \subseteq Int
    <3>1. before \in SUBSET K /\ K \ before \in SUBSET K
      BY <2>3
    <3> QED BY <1>2, <3>1
  <2>9. Extremum(c.side, Fixings(p, path)) = Underlying(b, c)
    <3>1. Underlying(b, c) = Extremum(c.side, A \cup B)
      BY <1>9, <2>7 DEF Underlying
    <3>2. CASE before = {}
      <4>1. Range(p.extremum) = {} /\ A = {}
        BY <2>1, <3>2 DEF Range, None
      <4>2. Fixings(p, path) = A \cup B
        BY <2>6, <4>1
      <4> QED BY <3>1, <4>2
    <3>3. CASE before # {}
      <4>1. p.extremum = <<Extremum(c.side, A)>> /\ A # {}
        BY <2>1, <2>4, <3>3, ZenonT(40)
      <4>2. Range(p.extremum) = {Extremum(c.side, A)}
        BY <4>1, RangeOfOne
      <4> HIDE DEF A, B
      <4>3. Extremum(c.side, A \cup B) = Extremum(c.side, B \cup {Extremum(c.side, A)})
        BY <2>8, <4>1, ExtremumOfParts
      <4> QED BY <2>6, <3>1, <4>2, <4>3
    <3> QED BY <3>2, <3>3
  <2>10. p.kind = "lookback"
    BY <1>6, <1>9
  <2>11. Pays(p, path, 1) = Vanilla(p, Extremum(c.side, Fixings(p, path)))
    BY <1>6, <2>10, PaysLookback DEF Extremum
  <2> QED BY <1>7, <2>9, <2>11
<1> QED BY <1>8, <1>9
-----------------------------------------------------------------------------
(* The steps.                                                              *)
LEMMA Unchanged ==
  ASSUME Inv, UNCHANGED vars
  PROVE  Inv'
<1>1. index' = index /\ phase' = phase /\ resolved' = resolved /\ book' = book /\ held' = held
      /\ todo' = todo /\ valued' = valued /\ settled' = settled /\ stated' = stated /\ saved' = saved
  BY DEF vars
<1>2. Today' = Today
  BY <1>1 DEF Today
<1>3. (\A c \in Contracts : Listed(c) /\ (phase = "booking" => c \notin todo) => IsBooked(c))'
      <=> \A c \in Contracts : Listed(c) /\ (phase = "booking" => c \notin todo) => IsBooked(c)
  BY <1>1, <1>2 DEF Listed, IsBooked, Due
<1>4. (\A name \in valued : \E c \in Contracts : c.name = name /\ Live(c))'
      <=> \A name \in valued : \E c \in Contracts : c.name = name /\ Live(c)
  BY <1>1, <1>2 DEF Listed, Live
<1>5. (\A c \in Contracts : c.name \in held => Listed(c))' <=> \A c \in Contracts : c.name \in held => Listed(c)
  BY <1>1, <1>2 DEF Listed
<1>6. (\A c \in todo : Listed(c))' <=> \A c \in todo : Listed(c)
  BY <1>1, <1>2 DEF Listed
<1>7. Committed(book, held)' <=> Committed(book, held)
  BY <1>1, <1>2 DEF Committed, Listed
<1>8. Committed(saved[1], saved[2])' <=> Committed(saved[1], saved[2])
  BY <1>1, <1>2 DEF Committed, Listed
<1> QED BY <1>1, <1>2, <1>3, <1>4, <1>5, <1>6, <1>7, <1>8 DEF Inv, InSnapshot, Merged

(* The inductive invariant holds at first.                                 *)
LEMMA InitInv == Init => Inv
<1> SUFFICES ASSUME Init PROVE Inv
  OBVIOUS
<1>1. Len(Calendar) \in Nat
  BY HistoryAssumption
<1>2. IsBook(resolved) /\ IsBook(book) /\ \A id \in Ids : book[id] = None
  BY DEF Init, IsBook
<1>3. Sound(book, held, settled, stated)
  BY <1>2, HistoryAssumption DEF Init, Sound, Agree, SettledTrue, StatedTrue
<1>4. \A c \in Contracts : c.name \in held => Listed(c)
  BY HistoryAssumption DEF Init, Listed, Today
<1>5. Committed(book, held)
  BY <1>2, <1>4 DEF Init, Committed
<1> QED BY <1>1, <1>2, <1>3, <1>5 DEF Init, Inv

(* A book that only grows still says what was told from it, settles as it  *)
(* did, and can grow into less.                                            *)
LEMMA BooksGrow ==
  ASSUME NEW b, NEW later, NEW done, NEW told, Extends(later, b),
         Agree(b, told), SettledTrue(b, done), StatedTrue(b, told)
  PROVE  Agree(later, told) /\ SettledTrue(later, done) /\ StatedTrue(later, told)
<1>1. \A c \in Contracts : \A o \in Range(c.observations) : o.id \in Ids
  BY ObservationFacts DEF Range
<1>2. Agree(later, told)
  <2> SUFFICES ASSUME NEW s \in told, NEW c \in {x \in Contracts : x.name = s.name}, NEW t \in ToldSo(s)
               PROVE  TellsOf(later, c, t)
    BY DEF Agree
  <2>1. PICK o \in Range(c.observations) : o.date = t[1] /\ b[o.id] # None /\ b[o.id][1].value = t[2]
    BY DEF Agree, TellsOf
  <2>2. later[o.id] = b[o.id]
    BY <1>1, <2>1 DEF Extends
  <2> QED BY <2>1, <2>2 DEF TellsOf
<1>3. SettledTrue(later, done)
  <2> SUFFICES ASSUME NEW c \in Contracts, NEW x \in {y \in done : y.name = c.name}
               PROVE  Complete(later, c) /\ x.payoff = Settlement(later, c)
    BY DEF SettledTrue
  <2>1. Complete(b, c) /\ x.payoff = Settlement(b, c)
    BY DEF SettledTrue
  <2>2. \A k \in DOMAIN c.observations : later[c.observations[k].id] = b[c.observations[k].id]
    BY <2>1, ObservationFacts DEF Complete, Extends
  <2>3. Complete(later, c) /\ \A k \in DOMAIN c.observations : ValueIn(later, c, k) = ValueIn(b, c, k)
    BY <2>1, <2>2 DEF Complete, ValueIn
  <2>4. Underlying(later, c) = Underlying(b, c)
    <3>1. [k \in DOMAIN c.observations |-> c.observations[k].weight * ValueIn(later, c, k)]
          = [k \in DOMAIN c.observations |-> c.observations[k].weight * ValueIn(b, c, k)]
      BY <2>3
    <3>2. {ValueIn(later, c, k) : k \in DOMAIN c.observations} = {ValueIn(b, c, k) : k \in DOMAIN c.observations}
      BY <2>3
    <3> QED BY <3>1, <3>2 DEF Underlying
  <2> QED BY <2>1, <2>3, <2>4 DEF Settlement
<1>4. StatedTrue(later, told)
  <2> SUFFICES ASSUME NEW c \in Contracts, NEW s \in {y \in told : y.name = c.name}
               PROVE  Foretells(later, c, s.product)
    BY DEF StatedTrue
  <2>1. Foretells(b, c, s.product)
    BY DEF StatedTrue
  <2>2. \A b2 : Extends(b2, later) => Extends(b2, b)
    BY DEF Extends
  <2> QED BY <2>1, <2>2 DEF Foretells
<1> QED BY <1>2, <1>3, <1>4

LEMMA ReceiveStep ==
  ASSUME Inv, Receive
  PROVE  Inv'
<1>1. PICK offer \in [Ids -> {None} \cup {<<f>> : f \in Fixings0}] :
        /\ \A id \in Ids : offer[id] # None => offer[id][1].id = id /\ Available(offer[id][1])
        /\ ~Contradicts(offer)
        /\ resolved' = [id \in Ids |-> IF offer[id] # None THEN offer[id] ELSE book[id]]
  BY Zenon DEF Receive
<1>2. /\ phase = "between" /\ index \in 1..Len(Calendar) /\ index' = index
      /\ phase' = "booking" /\ todo' = {c \in Contracts : Listed(c)}
      /\ book' = book /\ held' = held /\ valued' = valued /\ settled' = settled /\ stated' = stated
      /\ saved' = <<book, held, settled, stated>>
  BY Day DEF Receive, Inv
<1>3. Sound(book, held, settled, stated) /\ Committed(book, held) /\ valued = {}
  BY <1>2 DEF Inv
<1>4. Today' = Today /\ \A c : Listed(c)' <=> Listed(c)
  BY <1>2 DEF Today, Listed
<1>5. IsBook(resolved')
  <2>1. \A id \in Ids : \/ resolved'[id] = None
                        \/ \E f \in Fixings0 : f.id = id /\ resolved'[id] = <<f>>
    <3> SUFFICES ASSUME NEW id \in Ids, resolved'[id] # None
                 PROVE  \E f \in Fixings0 : f.id = id /\ resolved'[id] = <<f>>
      OBVIOUS
    <3>1. CASE offer[id] = None
      BY <1>1, <1>3, <3>1 DEF Sound, IsBook
    <3>2. CASE offer[id] # None
      <4>1. PICK f \in Fixings0 : offer[id] = <<f>>
        BY <3>2
      <4>2. f.id = id
        BY <1>1, <3>2, <4>1
      <4> QED BY <1>1, <3>2, <4>1, <4>2
    <3> QED BY <3>1, <3>2
  <2> QED BY <1>1, <2>1 DEF IsBook
<1>6. Merged'
  <2>1. \A id \in Ids : book[id] # None => resolved'[id] = book[id]
    BY <1>1 DEF Contradicts
  <2>2. ASSUME NEW id \in Ids, resolved'[id] # None PROVE resolved'[id][1].available <= Today
    <3>1. CASE offer[id] # None
      BY <1>1, <3>1 DEF Available
    <3>2. CASE offer[id] = None
      <4>1. resolved'[id] = book[id] /\ book[id] # None
        BY <1>1, <2>2, <3>2
      <4>2. index > 1 /\ book[id][1].available <= Calendar[index - 1]
        BY <1>3, <4>1 DEF Committed
      <4>3. book[id][1].available \in Int
        BY <1>3, <4>1, HistoryAssumption DEF Sound, IsBook
      <4> QED BY <1>2, <4>1, <4>2, <4>3, Day
    <3> QED BY <3>1, <3>2
  <2> QED BY <1>2, <1>4, <2>1, <2>2 DEF Merged
<1>7. Committed(book, held)'
  BY <1>2, <1>3, <1>4 DEF Committed
<1>8. Len(Calendar) \in Nat /\ index <= Len(Calendar) /\ \A c \in Contracts : c.name \in held => Listed(c)
  BY <1>2, <1>3, HistoryAssumption DEF Committed
<1>9. InSnapshot'
  <2>1. saved'[1] = book /\ saved'[2] = held /\ saved'[3] = settled /\ saved'[4] = stated
    BY <1>2
  <2>2. (Sound(saved[1], saved[2], saved[3], saved[4]) /\ Committed(saved[1], saved[2]))'
    BY <1>2, <1>3, <1>7, <2>1 DEF Sound
  <2> QED BY <1>2, <1>3, <1>4, <1>6, <1>8, <2>2 DEF InSnapshot
<1>10. Sound(book, held, settled, stated)'
  BY <1>2, <1>3 DEF Sound
<1> QED BY <1>2, <1>3, <1>5, <1>9, <1>10 DEF Inv

(* In a snapshot the day, the merge and the savepoint stay.                *)
InPlace == index' = index /\ resolved' = resolved /\ saved' = saved

LEMMA DayStays ==
  ASSUME InPlace
  PROVE  /\ Today' = Today /\ \A c : Listed(c)' = Listed(c) /\ Live(c)' = Live(c) /\ Due(c)' = Due(c)
         /\ Committed(saved[1], saved[2])' = Committed(saved[1], saved[2])
<1>1. Today' = Today
  BY DEF InPlace, Today
<1>2. \A c : Listed(c)' = Listed(c) /\ Live(c)' = Live(c) /\ Due(c)' = Due(c)
  BY <1>1 DEF Listed, Live, Due
<1> QED BY <1>1, <1>2 DEF InPlace, Committed

LEMMA BookStep ==
  ASSUME Inv, NEW c \in Contracts, Book(c)
  PROVE  Inv'
<1>1. /\ phase = "booking" /\ phase' = phase /\ c \in todo /\ todo' = todo \ {c} /\ InPlace
      /\ book' = [id \in Ids |-> IF id \in Booked(c) THEN resolved[id] ELSE book[id]]
      /\ held' = held /\ valued' = valued /\ settled' = settled /\ stated' = stated
  BY DEF Book, InPlace
<1>2. InSnapshot /\ Sound(book, held, settled, stated) /\ IsBook(resolved)
  BY <1>1 DEF Inv
<1>3. IsBook(book')
  BY <1>1, <1>2 DEF Sound, IsBook
<1>4. \A id \in Ids : book[id] # None => book'[id] = book[id]
  BY <1>1, <1>2 DEF InSnapshot, Merged
<1>5. Agree(book', stated) /\ SettledTrue(book', settled) /\ StatedTrue(book', stated)
  BY <1>2, <1>4, BooksGrow DEF Sound, Extends
<1>6. Sound(book, held, settled, stated)'
  BY <1>1, <1>2, <1>3, <1>5 DEF Sound
<1>7. Merged'
  BY <1>1, <1>2, DayStays DEF InSnapshot, Merged, InPlace
<1>8. ASSUME NEW d \in Contracts, Listed(d)', (phase = "booking" => d \notin todo)' PROVE IsBooked(d)'
  <2> SUFFICES ASSUME NEW o \in Range(Due(d)) PROVE book'[o.id] = resolved[o.id]
    BY <1>1, DayStays DEF IsBooked, InPlace
  <2>1. o.id \in Ids
    BY DueFacts
  <2>2. CASE d = c
    <3>1. resolved[o.id] # None => o.id \in Booked(c)
      BY <2>2 DEF Booked
    <3>2. resolved[o.id] = None => book[o.id] = None
      BY <1>2, <2>1 DEF InSnapshot, Merged
    <3> QED BY <1>1, <2>1, <3>1, <3>2
  <2>3. CASE d # c
    <3>1. IsBooked(d)
      BY <1>1, <1>2, <1>8, <2>3, DayStays DEF InSnapshot
    <3> QED BY <1>1, <2>1, <3>1 DEF IsBooked
  <2> QED BY <2>2, <2>3
<1>9. InSnapshot'
  BY <1>1, <1>2, <1>7, <1>8, DayStays DEF InSnapshot, InPlace
<1> QED BY <1>1, <1>2, <1>6, <1>9 DEF Inv, InPlace

(* Only the point the snapshot has reached changes.                        *)
LEMMA PhaseStep ==
  ASSUME Inv, InPlace, phase # "between", phase' \in {"settling", "valuing"}, phase = "booking" => todo = {},
         book' = book, valued' = valued, stated' = stated, held' \subseteq held,
         todo' \subseteq todo \/ todo' \subseteq {c \in Contracts : c.name \in held},
         SettledTrue(book', settled')
  PROVE  Inv'
<1>1. InSnapshot /\ Sound(book, held, settled, stated) /\ todo \subseteq Contracts
  BY DEF Inv
<1>2. \A c \in Contracts : Listed(c) => IsBooked(c)
  BY <1>1 DEF InSnapshot
<1>3. \A c \in Contracts : Listed(c)' => IsBooked(c)'
  BY <1>2, DayStays DEF IsBooked, InPlace
<1>4. Merged'
  BY <1>1, DayStays DEF InSnapshot, Merged, InPlace
<1>5. (\A c \in Contracts : c.name \in held' => Listed(c)') /\ \A c \in todo' : Listed(c)'
  BY <1>1, DayStays DEF InSnapshot
<1>6. InSnapshot'
  <2>1. (Sound(saved[1], saved[2], saved[3], saved[4]) /\ Committed(saved[1], saved[2]))'
    BY <1>1, DayStays DEF InSnapshot, InPlace, Sound
  <2>2. (\A name \in valued : \E c \in Contracts : c.name = name /\ Live(c))'
    BY <1>1, DayStays DEF InSnapshot
  <2> QED BY <1>1, <1>3, <1>4, <1>5, <2>1, <2>2 DEF InSnapshot, InPlace
<1>7. Sound(book, held, settled, stated)'
  BY <1>1 DEF Sound
<1> QED BY <1>1, <1>6, <1>7 DEF Inv, InPlace

LEMMA DoneStep ==
  ASSUME Inv, BookingDone \/ SettlingDone
  PROVE  Inv'
<1>1. /\ InPlace /\ phase # "between" /\ phase' \in {"settling", "valuing"}
      /\ phase = "booking" => todo = {}
      /\ book' = book /\ valued' = valued /\ settled' = settled /\ stated' = stated /\ held' = held
      /\ todo' \subseteq todo \/ todo' \subseteq {c \in Contracts : c.name \in held}
  BY DEF BookingDone, SettlingDone, InPlace
<1>2. SettledTrue(book', settled')
  BY <1>1 DEF Inv, Sound
<1> QED BY <1>1, <1>2, PhaseStep

(* A settlement is what the book says.                                     *)
LEMMA SettleStep ==
  ASSUME Inv, NEW c \in Contracts, Settle(c)
  PROVE  Inv'
<1>1. /\ InPlace /\ phase = "settling" /\ phase' = phase /\ c \in todo
      /\ ExpiryDay(c) = Today /\ ~Missing(c)
      /\ settled' = settled \cup {[name |-> c.name, payoff |-> ObservedPayoff(c)]}
      /\ book' = book /\ valued' = valued /\ stated' = stated /\ held' \subseteq held /\ todo' \subseteq todo
  BY DEF Settle, InPlace
<1>2. InSnapshot /\ SettledTrue(book, settled)
  BY <1>1 DEF Inv, Sound
<1>3. IsBooked(c)
  BY <1>1, <1>2 DEF InSnapshot
<1>4. index \in 1..Len(Calendar)
  BY <1>2, HistoryAssumption DEF Inv, InSnapshot
<1>5. Complete(book, c) /\ ObservedPayoff(c) = Settlement(book, c)
  BY <1>1, <1>3, <1>4, SettlesFromBook
<1>6. SettledTrue(book', settled')
  <2> DEFINE new == [name |-> c.name, payoff |-> ObservedPayoff(c)]
  <2> SUFFICES ASSUME NEW d \in Contracts, NEW x \in settled \cup {new}, x.name = d.name
               PROVE  Complete(book, d) /\ x.payoff = Settlement(book, d)
    BY <1>1 DEF SettledTrue
  <2>1. CASE x \in settled
    BY <1>2, <2>1 DEF SettledTrue
  <2>2. CASE x = new
    <3>1. d = c
      BY <2>2, ContractAssumption
    <3> QED BY <1>5, <2>2, <3>1
  <2> QED BY <2>1, <2>2
<1> QED BY <1>1, <1>6, PhaseStep

(* A statement is made from the book, and as the pricer accepts it.        *)
LEMMA ValueStep ==
  ASSUME Inv, NEW c \in Contracts, Value(c)
  PROVE  Inv'
<1> DEFINE s == [name |-> c.name, day |-> Today, product |-> Statement(c)]
<1>1. /\ phase = "valuing" /\ phase' = phase /\ InPlace /\ Live(c) /\ ~Missing(c)
      /\ valued' = valued \cup {c.name} /\ stated' = stated \cup {s}
      /\ book' = book /\ held' = held /\ settled' = settled /\ todo' = todo
  BY DEF Value, InPlace
<1>2. InSnapshot /\ Sound(book, held, settled, stated)
  BY <1>1 DEF Inv
<1>3. index \in 1..Len(Calendar)
  BY <1>2, HistoryAssumption DEF Inv, InSnapshot
<1>4. \A d \in Contracts : Listed(d) => IsBooked(d)
  BY <1>1, <1>2 DEF InSnapshot
<1>5. Accepted(s)
  BY <1>1, <1>3, StatementAccepted
<1>6. \A t \in ToldSo(s) : TellsOf(book, c, t)
  <2>1. IsBooked(c)
    BY <1>1, <1>4 DEF Live
  <2> QED BY <1>1, <2>1, ToldFromBook
<1>7. Agree(book, stated')
  <2> SUFFICES ASSUME NEW u \in stated \cup {s}, NEW d \in {x \in Contracts : x.name = u.name}, NEW t \in ToldSo(u)
               PROVE  TellsOf(book, d, t)
    BY <1>1 DEF Agree
  <2>1. CASE u \in stated
    BY <1>2, <2>1 DEF Sound, Agree
  <2>2. CASE u = s
    <3>1. d = c
      BY <2>2, ContractAssumption
    <3> QED BY <1>6, <2>2, <3>1
  <2> QED BY <2>1, <2>2
<1>8. Sound(book, held, settled, stated)'
  <2>1. Foretells(book, c, Statement(c))
    BY <1>1, <1>3, <1>4, StatementForetells DEF Live
  <2>2. StatedTrue(book, stated \cup {s})
    <3> SUFFICES ASSUME NEW d \in Contracts, NEW u \in stated \cup {s}, u.name = d.name
                 PROVE  Foretells(book, d, u.product)
      BY DEF StatedTrue
    <3>1. CASE u \in stated
      BY <1>2, <3>1 DEF Sound, StatedTrue
    <3>2. CASE u = s
      <4>1. d = c
        BY <3>2, ContractAssumption
      <4> QED BY <2>1, <3>2, <4>1
    <3> QED BY <3>1, <3>2
  <2>3. \A u \in stated' : Accepted(u)
    BY <1>1, <1>2, <1>5 DEF Sound
  <2> QED BY <1>1, <1>2, <1>7, <2>2, <2>3 DEF Sound
<1>9. c.name \in Names
  BY DEF Names
<1>10. Merged'
  BY <1>1, <1>2, DayStays DEF InSnapshot, Merged, InPlace
<1>11. \A d \in Contracts : Listed(d)' => IsBooked(d)'
  BY <1>1, <1>4, DayStays DEF IsBooked, InPlace
<1>12. \A name \in valued' : \E d \in Contracts : d.name = name /\ Live(d)'
  BY <1>1, <1>2, DayStays DEF InSnapshot
<1>13. InSnapshot'
  <2>1. (Sound(saved[1], saved[2], saved[3], saved[4]) /\ Committed(saved[1], saved[2]))'
    BY <1>2, <1>1, DayStays DEF InSnapshot, InPlace, Sound
  <2>2. (\A d \in Contracts : d.name \in held' => Listed(d)') /\ \A d \in todo' : Listed(d)'
    BY <1>1, <1>2, DayStays DEF InSnapshot
  <2> QED BY <1>1, <1>2, <1>10, <1>11, <1>12, <2>1, <2>2 DEF InSnapshot, InPlace
<1> QED BY <1>1, <1>8, <1>9, <1>13 DEF Inv, InPlace

(* What a commit leaves was to be had by then, and expires later.          *)
LEMMA CommitStep ==
  ASSUME Inv, Commit
  PROVE  Inv'
<1>1. /\ phase = "valuing" /\ phase' = "between" /\ index' = index + 1
      /\ book' = book /\ settled' = settled /\ stated' = stated /\ todo' = {} /\ valued' = {}
      /\ resolved' = [id \in Ids |-> None]
      /\ held' \subseteq valued
  BY DEF Commit, Forget
<1>2. InSnapshot /\ Sound(book, held, settled, stated) /\ valued \subseteq Names
  BY <1>1 DEF Inv
<1>3. Len(Calendar) \in Nat /\ index \in 1..Len(Calendar) /\ index' - 1 = index /\ index' > 1
      /\ index' \in 1..Len(Calendar) + 1
  BY <1>1, <1>2, HistoryAssumption DEF Inv, InSnapshot
<1>4. ASSUME NEW id \in Ids, book[id] # None PROVE book[id][1].available <= Today
  BY <1>2, <1>4 DEF InSnapshot, Merged
<1>5. ASSUME NEW c \in Contracts, c.name \in held'
      PROVE  ExpiryDay(c) > Today /\ (index' <= Len(Calendar) => Listed(c)')
  <2>1. PICK d \in Contracts : d.name = c.name /\ Live(d)
    BY <1>1, <1>2, <1>5 DEF InSnapshot
  <2>2. d = c
    BY <2>1, ContractAssumption
  <2>3. ExpiryDay(c) \in Int /\ Today \in Int
    BY <1>3, Day, ObservationFacts DEF ExpiryDay
  <2>4. ASSUME index' <= Len(Calendar) PROVE c.listed <= Calendar[index']
    <3>1. index \in DOMAIN Calendar /\ index' \in DOMAIN Calendar /\ index < index'
      BY <1>1, <1>3, <2>4, HistoryAssumption
    <3>2. Calendar[index] \in Int /\ Calendar[index'] \in Int /\ Calendar[index] < Calendar[index']
      BY <3>1, HistoryAssumption
    <3>3. c.listed \in Int /\ c.listed <= Calendar[index]
      BY <2>1, <2>2, ContractAssumption DEF Live, Listed, Today
    <3> QED BY <3>2, <3>3
  <2> QED BY <2>1, <2>2, <2>3, <2>4 DEF Live, Listed, Today
<1>6. Committed(book, held)'
  <2>1. \A id \in Ids : book'[id] # None => index' > 1 /\ book'[id][1].available <= Calendar[index' - 1]
    BY <1>1, <1>3, <1>4 DEF Today
  <2>2. ASSUME NEW c \in Contracts, c.name \in held'
        PROVE  (index' > 1 => ExpiryDay(c) > Calendar[index' - 1]) /\ (index' <= Len(Calendar) => Listed(c)')
    BY <1>3, <1>5, <2>2 DEF Today
  <2> QED BY <2>1, <2>2 DEF Committed
<1>7. Sound(book, held, settled, stated)'
  BY <1>1, <1>2 DEF Sound
<1>8. IsBook(resolved')
  BY <1>1 DEF IsBook
<1> QED BY <1>1, <1>3, <1>6, <1>7, <1>8 DEF Inv

(* A failure goes back to what the last commit has left.                   *)
LEMMA FailStep ==
  ASSUME Inv, Fail
  PROVE  Inv'
<1>1. /\ phase # "between" /\ phase' = "between" /\ index' = index
      /\ book' = saved[1] /\ held' = saved[2] /\ settled' = saved[3] /\ stated' = saved[4] /\ todo' = {} /\ valued' = {}
      /\ resolved' = [id \in Ids |-> None]
  BY DEF Fail, Rollback, Forget
<1>2. Sound(saved[1], saved[2], saved[3], saved[4]) /\ Committed(saved[1], saved[2])
  BY <1>1 DEF Inv, InSnapshot
<1>3. Sound(book', held', settled', stated') /\ Committed(book, held)'
  <2>1. \A c : Listed(c)' <=> Listed(c)
    BY <1>1 DEF Listed, Today
  <2> QED BY <1>1, <1>2, <2>1 DEF Committed
<1>4. IsBook(resolved')
  BY <1>1 DEF IsBook
<1>5. Sound(book, held, settled, stated)'
  BY <1>3 DEF Sound
<1> QED BY <1>1, <1>3, <1>4, <1>5 DEF Inv

(* The book stays true: in every state it holds what the last committed    *)
(* snapshot knew and what the one in hand has been given, contradicted by  *)
(* nothing, and every statement agrees with it (path_history.py's resolve, *)
(* engine.py's savepoint and rollback).                                    *)
THEOREM BookStaysTrue == Spec => []Inv
<1>1. Inv /\ [Next]_vars => Inv'
  <2> SUFFICES ASSUME Inv, [Next]_vars PROVE Inv'
    OBVIOUS
  <2>1. CASE Receive
    BY <2>1, ReceiveStep
  <2>2. CASE BookingDone \/ SettlingDone
    BY <2>2, DoneStep
  <2>3. CASE \E c \in Contracts : Book(c)
    BY <2>3, BookStep
  <2>4. CASE \E c \in Contracts : Value(c)
    BY <2>4, ValueStep
  <2>8. CASE \E c \in Contracts : Settle(c)
    BY <2>8, SettleStep
  <2>5. CASE Commit
    BY <2>5, CommitStep
  <2>6. CASE Fail
    BY <2>6, FailStep
  <2>7. CASE UNCHANGED vars
    BY <2>7, Unchanged
  <2> QED BY <2>1, <2>2, <2>3, <2>4, <2>5, <2>6, <2>7, <2>8 DEF Next
<1> QED BY <1>1, InitInv, PTL DEF Spec

(* However often snapshots fail and are tried again with other data: the   *)
(* book between snapshots holds nothing that was not to be had at the last *)
(* committed one, no expired contract is held, and contracts that share a  *)
(* fixing are told what the book says of it (resolve, _rollback).          *)
THEOREM BookStaysShared == Spec => []BookIsShared
<1>1. Inv => BookIsShared
  <2> SUFFICES ASSUME Inv PROVE BookIsShared
    OBVIOUS
  <2>1. IsBook(book) /\ IsBook(resolved) /\ Agree(book, stated) /\ held \subseteq Names
    BY DEF Inv, Sound
  <2>2. \A id \in Ids : \A f \in Range(book[id]) : f \in Fixings0 /\ f.id = id /\ book[id] = <<f>>
    BY <2>1 DEF IsBook, Range, None
  <2>3. \A id \in Ids : \A f \in Range(resolved[id]) : f \in Fixings0 /\ f.id = id
    BY <2>1 DEF IsBook, Range, None
  <2>4. TypeOK
    BY <2>1, <2>2, <2>3 DEF Inv, TypeOK, Committed
  <2>5. BookIsCommitted
    <3> SUFFICES ASSUME phase = "between", NEW id \in Ids, NEW f \in Range(book[id])
                 PROVE  index > 1 /\ f.available <= Calendar[index - 1]
      BY DEF BookIsCommitted
    <3>1. book[id] = <<f>> /\ book[id] # None /\ book[id][1] = f
      BY <2>2, SMTT(30) DEF None
    <3>2. Committed(book, held)
      BY DEF Inv
    <3> QED BY <3>1, <3>2 DEF Committed
  <2>6. SharedFixingsAgree
    BY <2>1 DEF SharedFixingsAgree, Agree, TellsOf
  <2> QED BY <2>4, <2>5, <2>6 DEF BookIsShared
<1> QED BY <1>1, BookStaysTrue, PTL

(* What the pricer is told of a path contract, on whatever day and after   *)
(* whatever failures, is a history it accepts; and completed with what     *)
(* came later it pays what the contract settles at (native_product and     *)
(* observed_payoff, against new_with_lsm and the payoffs).                 *)
THEOREM PricingKeepsToBook == Spec => []PricingFollowsBook
<1>1. Inv => PricingFollowsBook
  <2> SUFFICES ASSUME Inv PROVE PricingFollowsBook
    OBVIOUS
  <2>1. /\ IsBook(book) /\ SettledTrue(book, settled) /\ StatedTrue(book, stated)
        /\ \A s \in stated : Accepted(s)
    BY DEF Inv, Sound
  <2>2. StatementsAreAccepted
    BY <2>1 DEF Accepted, StatementsAreAccepted
  <2>3. book \in Books /\ Extends(book, book)
    BY <2>1 DEF Books, IsBook, Extends
  <2>4. ASSUME NEW c \in Contracts, NEW x \in {y \in settled : y.name = c.name}
        PROVE  /\ \A o \in Range(c.observations) : book[o.id] # None
               /\ \A s \in {y \in stated : y.name = c.name} : Pays(s.product, PathOf(c), 1) = x.payoff
    <3>1. Complete(book, c) /\ x.payoff = Settlement(book, c)
      BY <2>1 DEF SettledTrue
    <3>2. \A o \in Range(c.observations) : book[o.id] # None
      BY <3>1 DEF Complete, Range
    <3>3. PathOf(c) = PathIn(book, c)
      BY DEF PathOf, PathIn
    <3>4. ASSUME NEW s \in {y \in stated : y.name = c.name}
          PROVE  Pays(s.product, PathOf(c), 1) = x.payoff
      <4>1. Foretells(book, c, s.product)
        BY <2>1 DEF StatedTrue
      <4> QED BY <2>3, <3>1, <3>3, <4>1 DEF Foretells
    <3> QED BY <3>2, <3>4
  <2>5. PricedAsSettled
    BY <2>4 DEF PricedAsSettled
  <2> QED BY <2>2, <2>5 DEF PricingFollowsBook
<1> QED BY <1>1, BookStaysTrue, PTL
=============================================================================
