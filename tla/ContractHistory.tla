-------------------------- MODULE ContractHistory --------------------------
(***************************************************************************)
(* The dates of a contract (product/spec.rs) and the history that a        *)
(* request must state with it (api/request.rs).                            *)
(***************************************************************************)
EXTENDS Integers, Sequences, SequencesExt

Latest(S) == CHOOSE d \in S : \A e \in S : e <= d
Dates(p) ==
  CASE p.kind = "asian" -> {o.date : o \in Range(p.observations)}
    [] p.kind \in {"european", "digital"} -> {}
    [] OTHER -> Range(p.dates)
Expiry(p) == IF p.kind \in {"american", "asian", "lookback"} THEN Latest(Dates(p)) ELSE p.expiry
PaymentDate(p) == IF p.kind \in {"european", "american"} THEN Expiry(p) ELSE p.payment

PayoffDeterminedBy(p, day) ==
  \/ p.kind = "asian" /\ \A o \in Range(p.observations) : o.fixing # <<>>
  \/ p.kind = "lookback" /\ p.extremum # <<>> /\ \A d \in Dates(p) : d < day

HasPast(p, day) == \E d \in Dates(p) : d < day

(* Mutant: a lookback needs no record of what it observed.                 *)
MutLookbackHistory(p, day) ==
  CASE p.kind = "american" -> IF HasPast(p, day) THEN <<"AmericanPastExercise">> ELSE <<>>
    [] p.kind = "asian" ->
         IF \E o \in Range(p.observations) : \/ o.fixing # <<>> /\ o.date > day
                                             \/ o.fixing = <<>> /\ o.date < day
         THEN <<"AsianHistory">> ELSE <<>>
    [] p.kind = "barrier" -> IF HasPast(p, day) # (p.hit # <<>>) THEN <<"BarrierHistory">> ELSE <<>>
    [] OTHER -> <<>>

(* What is wrong with the history of a contract on a day, in the order of  *)
(* the checks.                                                             *)
HistoryErrors(p, day) ==
  CASE p.kind = "american" -> IF HasPast(p, day) THEN <<"AmericanPastExercise">> ELSE <<>>
    [] p.kind = "asian" ->
         IF \E o \in Range(p.observations) : \/ o.fixing # <<>> /\ o.date > day
                                             \/ o.fixing = <<>> /\ o.date < day
         THEN <<"AsianHistory">> ELSE <<>>
    [] p.kind = "barrier" -> IF HasPast(p, day) # (p.hit # <<>>) THEN <<"BarrierHistory">> ELSE <<>>
    [] p.kind = "lookback" ->
         IF p.todaysFixing # <<>> /\ day \notin Dates(p) THEN <<"LookbackFixing">>
         ELSE IF HasPast(p, day) # (p.extremum # <<>>) THEN <<"LookbackExtremum">> ELSE <<>>
    [] OTHER -> <<>>
=============================================================================
