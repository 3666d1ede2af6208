---------------------------- MODULE ProviderCache ----------------------------
(***************************************************************************)
(* The memoization of RustPricingProvider: threads evaluate contracts on   *)
(* snapshots at the same time, sharing the provider's current snapshot     *)
(* cache (provider_cache.py).  Native pricing runs without a lock, so that *)
(* other threads publish, switch the snapshot or clear the cache meanwhile.*)
(*                                                                         *)
(* The pricing path is that of the quote-controlled sampling policy, which *)
(* uses both stores of a snapshot cache: the results, and the native audit *)
(* and risk of every priced piece (the contract and the virtual control).  *)
(***************************************************************************)
EXTENDS Integers, SequencesExt

CONSTANTS
  Threads, Snapshots, Contracts,
  Control,    \* the virtual quote-control contract
  Surface,    \* Surface[s][c]: the shared market and basis of a request
  Rejected,   \* pieces whose native audit fails its acceptance gate
  Capacity,   \* cache_max_entries
  MaxCalls,   \* bound: calls in one behaviour
  MaxClears   \* bound: clear_cache calls in one behaviour

None == "none"

ASSUME CacheAssumption ==
  /\ Capacity \in Nat \ {0} /\ MaxCalls \in Nat /\ MaxClears \in Nat
  /\ None \notin Snapshots
  /\ \A s \in Snapshots, c \in Contracts : Surface[s][c] # None

VARIABLES
  caches,   \* every SnapshotCache object created; the provider holds the last
  call,     \* per thread, its call of evaluate
  calls,    \* calls made
  clears    \* clear_cache calls made

vars == <<caches, call, calls, clears>>
-----------------------------------------------------------------------------
(* BoundedCache: entries <<key, value>>, the least recently used first.    *)

Has(entries, key) == \E i \in DOMAIN entries : entries[i][1] = key
Place(entries, key) == CHOOSE i \in DOMAIN entries : entries[i][1] = key
Entry(entries, key) == entries[Place(entries, key)][2]
Without(entries, key) ==
  IF Has(entries, key) THEN RemoveAt(entries, Place(entries, key)) ELSE entries

Touched(entries, key) ==
  IF Has(entries, key) THEN Append(Without(entries, key), <<key, Entry(entries, key)>>)
  ELSE entries

Stored(entries, key, value) ==
  LET all == Append(Without(entries, key), <<key, value>>)
  IN  IF Len(all) > Capacity THEN Tail(all) ELSE all

EmptyCache(s) == [snapshot |-> s, shared |-> None, results |-> <<>>, native |-> <<>>]
-----------------------------------------------------------------------------
(* The keys fingerprint all that the values depend on.                     *)
ResultKey(s, c) == <<s, c>>
PieceKey(s, c, piece) == IF piece = Control THEN <<Control, Surface[s][c]>> ELSE <<s, piece>>

(* What pricing gives for a key: the native code is deterministic.         *)
PieceRisk(key) == [kind |-> "piece", of |-> key]
Passes(key) == key \notin Rejected
Pieces(c) == <<Control, c>>

RiskOf(key, parts) == [kind |-> "risk", of |-> key, parts |-> parts]
Failure(code) == [kind |-> "error", code |-> code]
NoAnswer == [kind |-> "no_answer"]

IdleCall == [at |-> "idle", snapshot |-> None, contract |-> None, cache |-> 0,
             left |-> <<>>, parts |-> <<>>, answer |-> NoAnswer]

Init ==
  /\ caches = <<EmptyCache(None)>>
  /\ call = [t \in Threads |-> IdleCall]
  /\ calls = 0
  /\ clears = 0

Mine(t) == caches[call[t].cache]
SurfaceOf(t) == Surface[call[t].snapshot][call[t].contract]
Agrees(t) == Mine(t).shared = None \/ Mine(t).shared = SurfaceOf(t)
KeyOf(t) == ResultKey(call[t].snapshot, call[t].contract)
PieceOf(t) == PieceKey(call[t].snapshot, call[t].contract, Head(call[t].left))

Goto(t, at) == call' = [call EXCEPT ![t].at = at]
Answer(t, answer) == call' = [call EXCEPT ![t].at = "idle", ![t].answer = answer]
Counters == UNCHANGED <<calls, clears>>
-----------------------------------------------------------------------------
(* Mutant: the cache of another snapshot inherits the agreed surface.      *)
MutBegin(t, s, c) ==
  /\ call[t].at = "idle" /\ calls < MaxCalls
  /\ caches' = IF Last(caches).snapshot = s THEN caches
               ELSE Append(caches, [EmptyCache(s) EXCEPT !.shared = Last(caches).shared])
  /\ call' = [call EXCEPT ![t] = [IdleCall EXCEPT
                !.at = "check", !.snapshot = s, !.contract = c, !.cache = Len(caches')]]
  /\ calls' = calls + 1
  /\ UNCHANGED clears

(* _snapshot_cache: the provider's cache, replaced for another snapshot.   *)
Begin(t, s, c) ==
  /\ call[t].at = "idle" /\ calls < MaxCalls
  /\ caches' = IF Last(caches).snapshot = s THEN caches ELSE Append(caches, EmptyCache(s))
  /\ call' = [call EXCEPT ![t] = [IdleCall EXCEPT
                !.at = "check", !.snapshot = s, !.contract = c, !.cache = Len(caches')]]
  /\ calls' = calls + 1
  /\ UNCHANGED clears

ClearCache ==
  /\ clears < MaxClears
  /\ caches' = Append(caches, EmptyCache(None))
  /\ clears' = clears + 1
  /\ UNCHANGED <<call, calls>>

CheckSurface(t) ==
  /\ call[t].at = "check"
  /\ IF Agrees(t) THEN Goto(t, "lookup") ELSE Answer(t, Failure("surface_mismatch"))
  /\ UNCHANGED caches /\ Counters

Lookup(t) ==
  /\ call[t].at = "lookup"
  /\ caches' = [caches EXCEPT ![call[t].cache].results = Touched(@, KeyOf(t))]
  /\ IF Has(Mine(t).results, KeyOf(t))
       THEN Answer(t, Entry(Mine(t).results, KeyOf(t)))
       ELSE call' = [call EXCEPT ![t].at = "piece", ![t].left = Pieces(call[t].contract)]
  /\ Counters

(* Mutant: a kept audit is taken for an accepted one.                      *)
MutReusePiece(t) ==
  /\ call[t].at = "piece" /\ call[t].left # <<>>
  /\ Has(Mine(t).native, PieceOf(t))
  /\ caches' = [caches EXCEPT ![call[t].cache].native = Touched(@, PieceOf(t))]
  /\ call' = [call EXCEPT ![t].left = Tail(@),
                          ![t].parts = Append(@, Entry(Mine(t).native, PieceOf(t)).risk)]
  /\ Counters

(* A piece that was priced before: its audit faces the same gate.          *)
ReusePiece(t) ==
  /\ call[t].at = "piece" /\ call[t].left # <<>>
  /\ Has(Mine(t).native, PieceOf(t))
  /\ caches' = [caches EXCEPT ![call[t].cache].native = Touched(@, PieceOf(t))]
  /\ LET entry == Entry(Mine(t).native, PieceOf(t))
     IN  IF entry.passed
           THEN call' = [call EXCEPT ![t].left = Tail(@), ![t].parts = Append(@, entry.risk)]
           ELSE Answer(t, Failure("portfolio_gamma_failure"))
  /\ Counters

MissPiece(t) ==
  /\ call[t].at = "piece" /\ call[t].left # <<>>
  /\ ~Has(Mine(t).native, PieceOf(t))
  /\ Goto(t, "native")
  /\ UNCHANGED caches /\ Counters

(* The native audit is done.  A rejected one is kept without a risk.       *)
RejectPiece(t) ==
  /\ call[t].at = "native"
  /\ ~Passes(PieceOf(t))
  /\ caches' = [caches EXCEPT ![call[t].cache].native =
                  Stored(@, PieceOf(t), [passed |-> FALSE, risk |-> NoAnswer])]
  /\ Answer(t, Failure("portfolio_gamma_failure"))
  /\ Counters

AcceptPiece(t) ==
  /\ call[t].at = "native"
  /\ Passes(PieceOf(t))
  /\ caches' = [caches EXCEPT ![call[t].cache].native =
                  Stored(@, PieceOf(t), [passed |-> TRUE, risk |-> PieceRisk(PieceOf(t))])]
  /\ call' = [call EXCEPT ![t].at = "piece", ![t].left = Tail(@),
                          ![t].parts = Append(@, PieceRisk(PieceOf(t)))]
  /\ Counters

(* Calibration, native pricing or a mandatory gate fails: nothing is kept. *)
FailNative(t) ==
  /\ call[t].at \in {"piece", "native"}
  /\ Answer(t, Failure("native_pricing_failure"))
  /\ UNCHANGED caches /\ Counters

(* Mutants: publishes without checking the surface again; publishes in the *)
(* cache that the provider has now.                                        *)
MutStoreUnchecked(t) ==
  /\ call[t].at = "piece" /\ call[t].left = <<>>
  /\ LET result == RiskOf(KeyOf(t), call[t].parts)
     IN  /\ caches' = [caches EXCEPT
                         ![call[t].cache].shared = SurfaceOf(t),
                         ![call[t].cache].results = Stored(@, KeyOf(t), result)]
         /\ Answer(t, result)
  /\ Counters

MutStoreInCurrent(t) ==
  /\ call[t].at = "piece" /\ call[t].left = <<>>
  /\ Agrees(t)
  /\ LET result == RiskOf(KeyOf(t), call[t].parts)
     IN  /\ caches' = [caches EXCEPT
                         ![Len(caches)].shared = SurfaceOf(t),
                         ![Len(caches)].results = Stored(@, KeyOf(t), result)]
         /\ Answer(t, result)
  /\ Counters

(* store: the surface is checked again under the lock that publishes.      *)
Store(t) ==
  /\ call[t].at = "piece" /\ call[t].left = <<>>
  /\ Agrees(t)
  /\ LET result == RiskOf(KeyOf(t), call[t].parts)
     IN  /\ caches' = [caches EXCEPT
                         ![call[t].cache].shared = SurfaceOf(t),
                         ![call[t].cache].results = Stored(@, KeyOf(t), result)]
         /\ Answer(t, result)
  /\ Counters

RefuseStore(t) ==
  /\ call[t].at = "piece" /\ call[t].left = <<>>
  /\ ~Agrees(t)
  /\ Answer(t, Failure("surface_mismatch"))
  /\ UNCHANGED caches /\ Counters
-----------------------------------------------------------------------------
Continue(t) ==
  \/ CheckSurface(t) \/ Lookup(t)
  \/ ReusePiece(t) \/ MissPiece(t) \/ RejectPiece(t) \/ AcceptPiece(t) \/ FailNative(t)
  \/ Store(t) \/ RefuseStore(t)

Next ==
  \/ \E t \in Threads, s \in Snapshots, c \in Contracts : Begin(t, s, c)
  \/ ClearCache
  \/ \E t \in Threads : Continue(t)

Spec == Init /\ [][Next]_vars
-----------------------------------------------------------------------------
Places == {"idle", "check", "lookup", "piece", "native"}
AllPieces == Contracts \union {Control}
PieceKeys == {PieceKey(s, c, piece) : s \in Snapshots, c \in Contracts, piece \in AllPieces}
PieceRisks == {PieceRisk(key) : key \in PieceKeys}
Audits == [passed : BOOLEAN, risk : PieceRisks \union {NoAnswer}]
Risks == [kind : {"risk"}, of : Snapshots \X Contracts, parts : Seq(PieceRisks)]
Failures == {Failure(code) : code \in {"surface_mismatch", "portfolio_gamma_failure",
                                       "native_pricing_failure"}}
Surfaces == {Surface[s][c] : s \in Snapshots, c \in Contracts}

CallSet ==
  [at : Places, snapshot : Snapshots \union {None}, contract : Contracts \union {None},
   cache : Nat, left : Seq(AllPieces), parts : Seq(PieceRisks),
   answer : {NoAnswer} \union Risks \union Failures]

CacheSet ==
  [snapshot : Snapshots \union {None}, shared : Surfaces \union {None},
   results : Seq((Snapshots \X Contracts) \X Risks), native : Seq(PieceKeys \X Audits)]

(* The shapes of the calls and the caches, which stay within capacity.     *)
TypeOK ==
  /\ call \in [Threads -> CallSet] /\ caches \in Seq(CacheSet) /\ caches # <<>>
  /\ \A t \in Threads : call[t].at # "idle" => call[t].cache \in DOMAIN caches
  /\ \A n \in DOMAIN caches :
       Len(caches[n].results) <= Capacity /\ Len(caches[n].native) <= Capacity
  /\ calls \in 0..MaxCalls /\ clears \in 0..MaxClears

(* "A concurrent call on another date must not mix or repopulate the       *)
(* provider's new cache" (quote_control.py): whatever a cache object holds *)
(* is of its own snapshot, and a cleared cache stays empty.                *)
OwnSnapshotOnly ==
  \A n \in DOMAIN caches :
    LET own == caches[n].snapshot
    IN  /\ \A i \in DOMAIN caches[n].results : caches[n].results[i][1][1] = own
        /\ \A i \in DOMAIN caches[n].native :
             \E c \in Contracts, piece \in Contracts \union {Control} :
               own # None /\ caches[n].native[i][1] = PieceKey(own, c, piece)

(* The instruments of one cache share one market and reporting surface,    *)
(* also when calls that disagree passed the first check side by side.      *)
OneSurface ==
  \A n \in DOMAIN caches : \A i \in DOMAIN caches[n].results :
    LET key == caches[n].results[i][1]
    IN  Surface[key[1]][key[2]] = caches[n].shared

(* A risk that evaluate returns is the one an uncached evaluation of this  *)
(* contract on this snapshot gives; no rejected audit is behind it, not    *)
(* even one that the cache kept for diagnosis.                             *)
Uncached(s, c) ==
  RiskOf(ResultKey(s, c),
         [i \in DOMAIN Pieces(c) |-> PieceRisk(PieceKey(s, c, Pieces(c)[i]))])

AnswersAsUncached ==
  \A t \in Threads :
    call[t].answer.kind = "risk" =>
      LET s == call[t].snapshot
          c == call[t].contract
      IN  /\ call[t].answer = Uncached(s, c)
          /\ \A i \in DOMAIN Pieces(c) : Passes(PieceKey(s, c, Pieces(c)[i]))

(* A call is refused for its surface only against a result that was        *)
(* published in the cache it holds, not against one of another snapshot.   *)
RefusedForCause ==
  \A t \in Threads :
    call[t].answer = Failure("surface_mismatch") =>
      Mine(t).shared \in {Surface[call[t].snapshot][c] : c \in Contracts} \ {SurfaceOf(t)}

(* Calls and cache objects keep to their own snapshot and surface.         *)
CachesStayApart ==
  /\ TypeOK
  /\ OwnSnapshotOnly
  /\ OneSurface

(* SnapshotCache.store never moves a cache to another surface.             *)
SurfaceSticks ==
  [][\A n \in DOMAIN caches : caches[n].shared # None => caches'[n].shared = caches[n].shared]_vars
=============================================================================
