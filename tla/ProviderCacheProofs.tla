------------------------- MODULE ProviderCacheProofs -------------------------
(***************************************************************************)
(* Proofs about the snapshot caches of RustPricingProvider, for any number *)
(* of threads, snapshots and contracts, any capacity and any surfaces.     *)
(*                                                                         *)
(* The inductive invariant says what may be in a cache object: only what   *)
(* an uncached evaluation on its snapshot would give, under the surface it *)
(* agreed on; and what a call in flight has collected: the risks of the    *)
(* pieces it has behind it, all of them accepted.                          *)
(***************************************************************************)
EXTENDS ProviderCache, TLAPS

Accepted(s, c) == \A i \in DOMAIN Pieces(c) : Passes(PieceKey(s, c, Pieces(c)[i]))

Audit(key) ==
  [passed |-> Passes(key), risk |-> IF Passes(key) THEN PieceRisk(key) ELSE NoAnswer]

(* What the stores of a cache of a snapshot with this surface may hold.    *)
SoundResults(own, shared) ==
  {e \in (Snapshots \X Contracts) \X Risks :
     own \in Snapshots /\ \E c \in Contracts :
       Surface[own][c] = shared /\ Accepted(own, c) /\ e = <<ResultKey(own, c), Uncached(own, c)>>}

SoundAudits(own) ==
  {e \in PieceKeys \X Audits :
     own \in Snapshots /\ \E c \in Contracts, piece \in AllPieces :
       LET key == PieceKey(own, c, piece) IN e = <<key, Audit(key)>>}

SoundCache(cache) ==
  /\ cache.shared # None =>
       cache.snapshot \in Snapshots /\ \E c \in Contracts : cache.shared = Surface[cache.snapshot][c]
  /\ cache.results \in Seq(SoundResults(cache.snapshot, cache.shared))
  /\ cache.native \in Seq(SoundAudits(cache.snapshot))

(* The parts of the first k pieces of a contract.                          *)
PartsOf(s, c, k) == [i \in 1..k |-> PieceRisk(PieceKey(s, c, Pieces(c)[i]))]

Collecting(t) ==
  LET s == call[t].snapshot
      c == call[t].contract
  IN  \E k \in 0..Len(Pieces(c)) :
        /\ call[t].left = SubSeq(Pieces(c), k + 1, Len(Pieces(c)))
        /\ call[t].parts = PartsOf(s, c, k)
        /\ \A i \in 1..k : Passes(PieceKey(s, c, Pieces(c)[i]))

(* A call holds a cache of its own snapshot; without an answer until idle. *)
InFlight(t) ==
  /\ call[t].snapshot \in Snapshots /\ call[t].contract \in Contracts
  /\ call[t].cache \in DOMAIN caches /\ Mine(t).snapshot = call[t].snapshot

SoundCall(t) ==
  /\ call[t].at # "idle" => InFlight(t) /\ call[t].answer = NoAnswer
  /\ call[t].at \in {"check", "lookup"} => call[t].parts = <<>>
  /\ call[t].at \in {"piece", "native"} => Collecting(t)
  /\ call[t].at = "native" => call[t].left # <<>>
  /\ call[t].answer.kind = "risk" =>
       /\ call[t].answer = Uncached(call[t].snapshot, call[t].contract)
       /\ Accepted(call[t].snapshot, call[t].contract)
  /\ call[t].answer = Failure("surface_mismatch") =>
       InFlight(t) /\ Mine(t).shared # None /\ Mine(t).shared # SurfaceOf(t)

SoundCaches ==
  /\ caches \in Seq(CacheSet) /\ caches # <<>>
  /\ \A n \in DOMAIN caches :
       /\ Len(caches[n].results) <= Capacity /\ Len(caches[n].native) <= Capacity
       /\ SoundCache(caches[n])

SoundCalls == call \in [Threads -> CallSet] /\ \A t \in Threads : SoundCall(t)

(* The inductive invariant.                                                *)
CachesSound ==
  /\ SoundCaches /\ SoundCalls
  /\ calls \in 0..MaxCalls /\ clears \in 0..MaxClears

(* What a step does to the cache objects that exist: they keep their       *)
(* snapshots, and a surface that was agreed on.                            *)
CachesKept ==
  \A n \in DOMAIN caches :
    /\ n \in DOMAIN caches' /\ caches'[n].snapshot = caches[n].snapshot
    /\ caches[n].shared # None => caches'[n].shared = caches[n].shared
-----------------------------------------------------------------------------
(* The least-recently-used stores.                                         *)

(* A sequence over a set is one over every larger set.                     *)
LEMMA SeqWidens ==
  ASSUME NEW S, NEW T, S \subseteq T, NEW s \in Seq(S)
  PROVE  s \in Seq(T)
  OBVIOUS

(* Sequences with the same elements are the same.                          *)
LEMMA SameElements ==
  ASSUME NEW S, NEW s \in Seq(S), NEW t \in Seq(S), Len(s) = Len(t),
         \A i \in 1..Len(s) : s[i] = t[i]
  PROVE  s = t
  OBVIOUS

(* What is left of a sequence after its first k elements.                  *)
LEMMA RestOf ==
  ASSUME NEW S, NEW p \in Seq(S), NEW k \in 0..Len(p)
  PROVE  LET rest == SubSeq(p, k + 1, Len(p))
         IN  /\ rest \in Seq(S) /\ Len(rest) = Len(p) - k
             /\ k = 0 => rest = p
             /\ k < Len(p) => /\ rest # <<>> /\ Head(rest) = p[k + 1]
                              /\ Tail(rest) = SubSeq(p, k + 2, Len(p))
<1> DEFINE rest == SubSeq(p, k + 1, Len(p))
           after == SubSeq(p, k + 2, Len(p))
<1>1. rest \in Seq(S) /\ Len(rest) = Len(p) - k /\ \A i \in 1..Len(p) - k : rest[i] = p[k + i]
  OBVIOUS
<1>2. k < Len(p) => /\ after \in Seq(S) /\ Len(after) = Len(p) - k - 1
                    /\ \A i \in 1..Len(p) - k - 1 : after[i] = p[k + 1 + i]
  OBVIOUS
<1> HIDE DEF rest, after
<1>3. k = 0 => rest = p
  BY <1>1
<1>4. CASE k < Len(p)
  <2>1. rest # <<>> /\ Head(rest) = p[k + 1]
    BY <1>1, <1>4
  <2>2. /\ Tail(rest) \in Seq(S) /\ Len(Tail(rest)) = Len(p) - k - 1
        /\ \A i \in 1..Len(p) - k - 1 : Tail(rest)[i] = p[k + 1 + i]
    BY <1>1, <1>4, <2>1
  <2>3. Tail(rest) = after
    <3> DEFINE tail == Tail(rest)
    <3>1. tail \in Seq(S) /\ after \in Seq(S) /\ Len(tail) = Len(after)
      BY <1>2, <1>4, <2>2
    <3>2. \A i \in 1..Len(tail) : tail[i] = after[i]
      BY <1>2, <1>4, <2>2
    <3> HIDE DEF tail
    <3>3. tail = after
      BY <3>1, <3>2, SameElements
    <3> QED
      BY <3>3 DEF tail
  <2> QED
    BY <1>1, <1>3, <2>1, <2>3 DEF rest, after
<1> QED
  BY <1>1, <1>3, <1>4 DEF rest

(* Without takes one entry out, of a key that is there.                    *)
LEMMA WithoutShrinks ==
  ASSUME NEW S, NEW entries \in Seq(S), NEW key
  PROVE  /\ Without(entries, key) \in Seq(S)
         /\ Has(entries, key) => Len(Without(entries, key)) = Len(entries) - 1
         /\ ~Has(entries, key) => Without(entries, key) = entries
<1>1. CASE ~Has(entries, key)
  BY <1>1 DEF Without
<1>2. CASE Has(entries, key)
  <2> DEFINE i == Place(entries, key)
  <2>1. i \in 1..Len(entries)
    BY <1>2 DEF Has, Place
  <2> DEFINE before == SubSeq(entries, 1, i - 1)
             after == SubSeq(entries, i + 1, Len(entries))
  <2>2. Without(entries, key) = before \o after
    BY <1>2 DEF Without, RemoveAt
  <2>3. before \in Seq(S) /\ after \in Seq(S)
        /\ Len(before) = i - 1 /\ Len(after) = Len(entries) - i
    <3> HIDE DEF i
    <3> QED
      BY <2>1
  <2>4. before \o after \in Seq(S) /\ Len(before \o after) = Len(entries) - 1
    <3> HIDE DEF i, before, after
    <3>1. before \o after \in Seq(S) /\ Len(before \o after) = Len(before) + Len(after)
      BY <2>3
    <3> QED
      BY <2>1, <2>3, <3>1
  <2> QED
    BY <1>2, <2>2, <2>4
<1> QED
  BY <1>1, <1>2

(* A hit finds an entry of the key, and leaves the same entries behind.    *)
LEMMA TouchedKeeps ==
  ASSUME NEW S, \A e \in S : e = <<e[1], e[2]>>, NEW entries \in Seq(S), NEW key
  PROVE  /\ Touched(entries, key) \in Seq(S)
         /\ Len(Touched(entries, key)) = Len(entries)
         /\ Has(entries, key) => <<key, Entry(entries, key)>> \in S
<1>1. CASE ~Has(entries, key)
  BY <1>1 DEF Touched
<1>2. CASE Has(entries, key)
  <2> DEFINE i == Place(entries, key)
  <2>1. i \in 1..Len(entries) /\ entries[i][1] = key
    BY <1>2 DEF Has, Place
  <2>2. entries[i] = <<key, entries[i][2]>> /\ entries[i] \in S
    BY <2>1
  <2>3. <<key, Entry(entries, key)>> \in S
    BY <2>2 DEF Entry
  <2>4. Without(entries, key) \in Seq(S) /\ Len(Without(entries, key)) = Len(entries) - 1
    BY <1>2, WithoutShrinks
  <2> QED
    BY <1>2, <2>3, <2>4 DEF Touched
<1> QED
  BY <1>1, <1>2

(* A store keeps the cache within capacity and adds nothing but its entry. *)
LEMMA StoredKeeps ==
  ASSUME NEW S, NEW entries \in Seq(S), Len(entries) <= Capacity, NEW key, NEW value,
         <<key, value>> \in S
  PROVE  Stored(entries, key, value) \in Seq(S) /\ Len(Stored(entries, key, value)) <= Capacity
<1> DEFINE less == Without(entries, key)
           e == <<key, value>>
           all == Append(less, e)
<1>1. less \in Seq(S) /\ Len(less) <= Capacity /\ e \in S
  BY WithoutShrinks, CacheAssumption
<1>2. all \in Seq(S) /\ Len(all) <= Capacity + 1 /\ Len(all) > 0
  <2> HIDE DEF less, e
  <2>1. Append(less, e) \in Seq(S) /\ Len(Append(less, e)) = Len(less) + 1
    BY <1>1
  <2> QED
    BY <1>1, <2>1, CacheAssumption
<1>3. Stored(entries, key, value) = IF Len(all) > Capacity THEN Tail(all) ELSE all
  BY DEF Stored
<1> HIDE DEF all
<1>4. Len(all) > 0 => Tail(all) \in Seq(S) /\ Len(Tail(all)) = Len(all) - 1
  BY <1>2
<1> QED
  BY <1>2, <1>3, <1>4, CacheAssumption
-----------------------------------------------------------------------------
(* The cache objects.                                                      *)

(* Replacing one cache object by a sound one of the same snapshot, which   *)
(* keeps an agreed surface, is sound.                                      *)
LEMMA CacheReplaced ==
  ASSUME SoundCaches, NEW n \in DOMAIN caches, NEW new \in CacheSet,
         Len(new.results) <= Capacity, Len(new.native) <= Capacity, SoundCache(new),
         new.snapshot = caches[n].snapshot,
         caches[n].shared # None => new.shared = caches[n].shared,
         caches' = [caches EXCEPT ![n] = new]
  PROVE  SoundCaches' /\ CachesKept
<1>1. caches \in Seq(CacheSet) /\ caches # <<>>
  BY DEF SoundCaches
<1>2. caches' \in Seq(CacheSet) /\ Len(caches') = Len(caches)
  BY <1>1
<1>3. \A m \in DOMAIN caches : caches'[m] = IF m = n THEN new ELSE caches[m]
  BY <1>1
<1>4. DOMAIN caches' = DOMAIN caches
  BY <1>1, <1>2
<1> QED
  BY <1>1, <1>2, <1>3, <1>4 DEF SoundCaches, CachesKept

(* So is one more, empty one.                                              *)
LEMMA CacheAdded ==
  ASSUME SoundCaches, NEW s \in Snapshots \union {None}, caches' = Append(caches, EmptyCache(s))
  PROVE  SoundCaches' /\ CachesKept
<1>1. caches \in Seq(CacheSet)
  BY DEF SoundCaches
<1>2. EmptyCache(s) \in CacheSet /\ Len(EmptyCache(s).results) <= Capacity
      /\ Len(EmptyCache(s).native) <= Capacity
  BY CacheAssumption DEF EmptyCache, CacheSet
<1>3. SoundCache(EmptyCache(s))
  BY DEF SoundCache, EmptyCache
<1>4. caches' \in Seq(CacheSet) /\ Len(caches') = Len(caches) + 1
  BY <1>1, <1>2
<1>5. \A m \in DOMAIN caches' : IF m = Len(caches) + 1 THEN caches'[m] = EmptyCache(s)
                                ELSE m \in DOMAIN caches /\ caches'[m] = caches[m]
  BY <1>1, <1>2, <1>4
<1>6. \A m \in DOMAIN caches : m \in DOMAIN caches' /\ caches'[m] = caches[m]
  BY <1>1, <1>2, <1>4
<1>7. SoundCaches'
  BY <1>2, <1>3, <1>4, <1>5 DEF SoundCaches
<1> QED
  BY <1>6, <1>7 DEF CachesKept

(* A lookup of a result only reorders the store, and a hit is sound.       *)
LEMMA ResultsTouched ==
  ASSUME SoundCaches, NEW n \in DOMAIN caches, NEW key,
         caches' = [caches EXCEPT ![n].results = Touched(@, key)]
  PROVE  /\ SoundCaches' /\ CachesKept
         /\ Has(caches[n].results, key) =>
              <<key, Entry(caches[n].results, key)>>
                \in SoundResults(caches[n].snapshot, caches[n].shared)
<1> DEFINE S == SoundResults(caches[n].snapshot, caches[n].shared)
           new == [caches[n] EXCEPT !.results = Touched(@, key)]
<1>1. caches[n] \in CacheSet /\ SoundCache(caches[n])
      /\ Len(caches[n].results) <= Capacity /\ Len(caches[n].native) <= Capacity
  BY DEF SoundCaches
<1>2. S \subseteq (Snapshots \X Contracts) \X Risks /\ caches[n].results \in Seq(S)
  BY <1>1 DEF SoundResults, SoundCache
<1> HIDE DEF S
<1>3. Touched(caches[n].results, key) \in Seq(S)
      /\ Len(Touched(caches[n].results, key)) = Len(caches[n].results)
      /\ (Has(caches[n].results, key) => <<key, Entry(caches[n].results, key)>> \in S)
  <2>1. \A e \in S : e = <<e[1], e[2]>>
    BY <1>2
  <2> QED
    BY <1>2, <2>1, TouchedKeeps
<1>4. Touched(caches[n].results, key) \in Seq((Snapshots \X Contracts) \X Risks)
  BY <1>2, <1>3, SeqWidens
<1>5. /\ new \in CacheSet /\ new.snapshot = caches[n].snapshot /\ new.shared = caches[n].shared
      /\ new.results = Touched(caches[n].results, key) /\ new.native = caches[n].native
  BY <1>1, <1>4 DEF CacheSet
<1>6. caches' = [caches EXCEPT ![n] = new]
  OBVIOUS
<1> HIDE DEF new
<1>7. SoundCache(new)
  BY <1>1, <1>3, <1>5 DEF SoundCache, S
<1>8. SoundCaches' /\ CachesKept
  BY <1>1, <1>3, <1>5, <1>6, <1>7, CacheReplaced
<1> QED
  BY <1>3, <1>8 DEF S

(* So does one of an audit.                                                *)
LEMMA NativeTouched ==
  ASSUME SoundCaches, NEW n \in DOMAIN caches, NEW key,
         caches' = [caches EXCEPT ![n].native = Touched(@, key)]
  PROVE  /\ SoundCaches' /\ CachesKept
         /\ Has(caches[n].native, key) =>
              <<key, Entry(caches[n].native, key)>> \in SoundAudits(caches[n].snapshot)
<1> DEFINE S == SoundAudits(caches[n].snapshot)
           new == [caches[n] EXCEPT !.native = Touched(@, key)]
<1>1. caches[n] \in CacheSet /\ SoundCache(caches[n])
      /\ Len(caches[n].results) <= Capacity /\ Len(caches[n].native) <= Capacity
  BY DEF SoundCaches
<1>2. S \subseteq PieceKeys \X Audits /\ caches[n].native \in Seq(S)
  BY <1>1 DEF SoundAudits, SoundCache
<1> HIDE DEF S
<1>3. Touched(caches[n].native, key) \in Seq(S)
      /\ Len(Touched(caches[n].native, key)) = Len(caches[n].native)
      /\ (Has(caches[n].native, key) => <<key, Entry(caches[n].native, key)>> \in S)
  <2>1. \A e \in S : e = <<e[1], e[2]>>
    BY <1>2
  <2> QED
    BY <1>2, <2>1, TouchedKeeps
<1>4. Touched(caches[n].native, key) \in Seq(PieceKeys \X Audits)
  BY <1>2, <1>3, SeqWidens
<1>5. /\ new \in CacheSet /\ new.snapshot = caches[n].snapshot /\ new.shared = caches[n].shared
      /\ new.native = Touched(caches[n].native, key) /\ new.results = caches[n].results
  BY <1>1, <1>4 DEF CacheSet
<1>6. caches' = [caches EXCEPT ![n] = new]
  OBVIOUS
<1> HIDE DEF new
<1>7. SoundCache(new)
  BY <1>1, <1>3, <1>5 DEF SoundCache, S
<1>8. SoundCaches' /\ CachesKept
  BY <1>1, <1>3, <1>5, <1>6, <1>7, CacheReplaced
<1> QED
  BY <1>3, <1>8 DEF S

(* Keeping a sound audit is sound.                                         *)
LEMMA NativeStored ==
  ASSUME SoundCaches, NEW n \in DOMAIN caches, NEW key, NEW audit,
         <<key, audit>> \in SoundAudits(caches[n].snapshot),
         caches' = [caches EXCEPT ![n].native = Stored(@, key, audit)]
  PROVE  SoundCaches' /\ CachesKept
<1> DEFINE S == SoundAudits(caches[n].snapshot)
           new == [caches[n] EXCEPT !.native = Stored(@, key, audit)]
<1>1. caches[n] \in CacheSet /\ SoundCache(caches[n])
      /\ Len(caches[n].results) <= Capacity /\ Len(caches[n].native) <= Capacity
  BY DEF SoundCaches
<1>2. S \subseteq PieceKeys \X Audits /\ caches[n].native \in Seq(S)
  BY <1>1 DEF SoundAudits, SoundCache
<1> HIDE DEF S
<1>3. Stored(caches[n].native, key, audit) \in Seq(S)
      /\ Len(Stored(caches[n].native, key, audit)) <= Capacity
  BY <1>1, <1>2, StoredKeeps DEF S
<1>4. Stored(caches[n].native, key, audit) \in Seq(PieceKeys \X Audits)
  BY <1>2, <1>3, SeqWidens
<1>5. /\ new \in CacheSet /\ new.snapshot = caches[n].snapshot /\ new.shared = caches[n].shared
      /\ new.native = Stored(caches[n].native, key, audit) /\ new.results = caches[n].results
  BY <1>1, <1>4 DEF CacheSet
<1>6. caches' = [caches EXCEPT ![n] = new]
  OBVIOUS
<1> HIDE DEF new
<1>7. SoundCache(new)
  BY <1>1, <1>3, <1>5 DEF SoundCache, S
<1> QED
  BY <1>1, <1>3, <1>5, <1>6, <1>7, CacheReplaced

(* Publishing the uncached result under a surface that agrees is sound.    *)
LEMMA ResultStored ==
  ASSUME SoundCaches, NEW n \in DOMAIN caches, NEW c \in Contracts,
         caches[n].snapshot \in Snapshots, Accepted(caches[n].snapshot, c),
         Uncached(caches[n].snapshot, c) \in Risks,
         NEW surface, surface = Surface[caches[n].snapshot][c],
         caches[n].shared = None \/ caches[n].shared = surface,
         caches' = [caches EXCEPT
                      ![n].shared = surface,
                      ![n].results = Stored(@, ResultKey(caches[n].snapshot, c),
                                            Uncached(caches[n].snapshot, c))]
  PROVE  SoundCaches' /\ CachesKept
<1> DEFINE own == caches[n].snapshot
           key == ResultKey(own, c)
           value == Uncached(own, c)
           stored == Stored(caches[n].results, key, value)
           S == SoundResults(own, surface)
           new == [caches[n] EXCEPT !.shared = surface, !.results = stored]
<1>1. caches[n] \in CacheSet /\ SoundCache(caches[n])
      /\ Len(caches[n].results) <= Capacity /\ Len(caches[n].native) <= Capacity
  BY DEF SoundCaches
<1>2. SoundResults(own, caches[n].shared) \subseteq S
  BY CacheAssumption DEF SoundResults
<1>3. S \subseteq (Snapshots \X Contracts) \X Risks /\ <<key, value>> \in S
  BY DEF SoundResults, ResultKey
<1>4. caches[n].results \in Seq(S)
  <2> HIDE DEF S
  <2> QED
    BY <1>1, <1>2, SeqWidens DEF SoundCache
<1>5. stored \in Seq(S) /\ Len(stored) <= Capacity
  <2> HIDE DEF S, key, value
  <2> QED
    BY <1>1, <1>3, <1>4, StoredKeeps
<1>6. stored \in Seq((Snapshots \X Contracts) \X Risks)
  <2> HIDE DEF S, stored
  <2> QED
    BY <1>3, <1>5, SeqWidens
<1>7. surface \in Surfaces
  BY DEF Surfaces
<1>8. /\ new \in CacheSet /\ new.snapshot = own /\ new.shared = surface
      /\ new.results = stored /\ new.native = caches[n].native
  <2> HIDE DEF stored
  <2> QED
    BY <1>1, <1>6, <1>7 DEF CacheSet
<1>9. caches' = [caches EXCEPT ![n] = new]
  BY <1>1 DEF CacheSet, SoundCaches
<1> HIDE DEF new, stored
<1>10. SoundCache(new)
  BY <1>1, <1>5, <1>8 DEF SoundCache
<1>11. caches[n].shared # None => new.shared = caches[n].shared
  BY <1>8
<1> QED
  BY <1>1, <1>5, <1>8, <1>9, <1>10, <1>11, CacheReplaced

(* The audit of a piece, as it is kept, is sound for the piece's snapshot. *)
LEMMA AuditSound ==
  ASSUME NEW s \in Snapshots, NEW c \in Contracts, NEW piece \in AllPieces
  PROVE  LET key == PieceKey(s, c, piece)
         IN  /\ key \in PieceKeys /\ PieceRisk(key) \in PieceRisks /\ Audit(key) \in Audits
             /\ <<key, Audit(key)>> \in SoundAudits(s)
<1> DEFINE key == PieceKey(s, c, piece)
<1>1. key \in PieceKeys
  BY DEF PieceKeys
<1>2. PieceRisk(key) \in PieceRisks
  BY <1>1 DEF PieceRisks
<1> HIDE DEF key
<1>3. Audit(key) \in Audits
  BY <1>2 DEF Audit, Audits, Passes
<1>4. <<key, Audit(key)>> \in SoundAudits(s)
  BY <1>1, <1>3 DEF SoundAudits, key
<1> QED
  BY <1>1, <1>2, <1>3, <1>4 DEF key

(* What a call has collected is made of risks of pieces.                   *)
LEMMA PartsTyped ==
  ASSUME NEW s \in Snapshots, NEW c \in Contracts
  PROVE  /\ Len(Pieces(c)) = 2 /\ DOMAIN Pieces(c) = 1..2 /\ Pieces(c) \in Seq(AllPieces)
         /\ \A k \in 0..2 : PartsOf(s, c, k) \in Seq(PieceRisks) /\ Len(PartsOf(s, c, k)) = k
         /\ Uncached(s, c) = RiskOf(ResultKey(s, c), PartsOf(s, c, 2))
         /\ Uncached(s, c) \in Risks
<1>1. Len(Pieces(c)) = 2 /\ DOMAIN Pieces(c) = 1..2 /\ Pieces(c) \in Seq(AllPieces)
  BY DEF Pieces, AllPieces
<1>2. \A i \in 1..2 : PieceRisk(PieceKey(s, c, Pieces(c)[i])) \in PieceRisks
  <2>1. \A i \in 1..2 : Pieces(c)[i] \in AllPieces
    BY DEF Pieces, AllPieces
  <2> QED
    BY <2>1, AuditSound
<1>3. ASSUME NEW k \in 0..2
      PROVE  PartsOf(s, c, k) \in Seq(PieceRisks) /\ Len(PartsOf(s, c, k)) = k
  BY <1>2 DEF PartsOf
<1>4. Uncached(s, c) = RiskOf(ResultKey(s, c), PartsOf(s, c, 2))
  BY <1>1 DEF Uncached, PartsOf
<1>5. Uncached(s, c) \in Risks
  BY <1>3, <1>4 DEF RiskOf, ResultKey, Risks
<1> QED
  BY <1>1, <1>3, <1>4, <1>5
-----------------------------------------------------------------------------
(* The calls in flight.                                                    *)

(* The calls of other threads stay sound when the caches are kept.         *)
LEMMA OthersSound ==
  ASSUME SoundCalls, CachesKept, NEW u \in Threads, call'[u] = call[u]
  PROVE  SoundCall(u)'
<1>1. SoundCall(u)
  BY DEF SoundCalls
<1>2. InFlight(u) => InFlight(u)' /\ Mine(u)'.snapshot = Mine(u).snapshot
  BY DEF InFlight, CachesKept, Mine
<1>3. InFlight(u) /\ Mine(u).shared # None => Mine(u)'.shared = Mine(u).shared
  BY DEF InFlight, CachesKept, Mine
<1>4. SurfaceOf(u)' = SurfaceOf(u)
  BY DEF SurfaceOf
<1>5. Collecting(u) => Collecting(u)'
  BY DEF Collecting
<1> QED
  BY <1>1, <1>2, <1>3, <1>4, <1>5 DEF SoundCall

(* A step of one thread's call.                                            *)
LEMMA CallStep ==
  ASSUME CachesSound, SoundCaches', CachesKept, Counters, NEW t \in Threads, NEW new \in CallSet,
         call' = [call EXCEPT ![t] = new], SoundCall(t)'
  PROVE  CachesSound'
<1>1. call' \in [Threads -> CallSet]
  BY DEF CachesSound, SoundCalls
<1>2. ASSUME NEW u \in Threads PROVE SoundCall(u)'
  <2>1. CASE u = t
    BY <2>1
  <2>2. CASE u # t
    <3>1. call'[u] = call[u]
      BY <2>2 DEF CachesSound, SoundCalls
    <3> QED
      BY <3>1, OthersSound DEF CachesSound
  <2> QED
    BY <2>1, <2>2
<1> QED
  BY <1>1, <1>2 DEF CachesSound, SoundCalls, Counters

(* The step by which a call returns an answer that is sound for it.        *)
LEMMA AnswerStep ==
  ASSUME CachesSound, SoundCaches', CachesKept, Counters, NEW t \in Threads, call[t].at # "idle",
         NEW answer \in Risks \union Failures, Answer(t, answer),
         answer.kind = "risk" => /\ answer = Uncached(call[t].snapshot, call[t].contract)
                                 /\ Accepted(call[t].snapshot, call[t].contract),
         answer = Failure("surface_mismatch") => ~Agrees(t)
  PROVE  CachesSound'
<1> DEFINE new == [call[t] EXCEPT !.at = "idle", !.answer = answer]
<1>1. call[t] \in CallSet /\ SoundCall(t)
  BY DEF CachesSound, SoundCalls
<1>2. call' = [call EXCEPT ![t] = new]
  BY DEF Answer
<1>3. new \in CallSet
  BY <1>1 DEF CallSet, Places
<1>4. call'[t] = new
  BY <1>2 DEF CachesSound, SoundCalls
<1>5. /\ new.at = "idle" /\ new.answer = answer /\ new.snapshot = call[t].snapshot
      /\ new.contract = call[t].contract /\ new.cache = call[t].cache
  BY <1>1 DEF CallSet
<1>6. InFlight(t) /\ InFlight(t)'
  BY <1>1, <1>4, <1>5 DEF SoundCall, InFlight, CachesKept, Mine
<1>7. ~Agrees(t) => Mine(t)'.shared # None /\ Mine(t)'.shared # SurfaceOf(t)'
  BY <1>4, <1>5, <1>6 DEF Agrees, InFlight, Mine, CachesKept, SurfaceOf
<1> HIDE DEF new
<1>8. SoundCall(t)'
  BY <1>4, <1>5, <1>6, <1>7 DEF SoundCall
<1> QED
  BY <1>2, <1>3, <1>8, CallStep
-----------------------------------------------------------------------------
(* The steps.                                                              *)

(* Steps that leave the caches alone keep them.                            *)
LEMMA CachesUnchanged ==
  ASSUME SoundCaches, UNCHANGED caches
  PROVE  SoundCaches' /\ CachesKept
  BY DEF SoundCaches, CachesKept

(* The call that begins holds the provider's cache, which is of its        *)
(* snapshot now.                                                           *)
LEMMA BeginStep ==
  ASSUME CachesSound, NEW t \in Threads, NEW s \in Snapshots, NEW c \in Contracts, Begin(t, s, c)
  PROVE  CachesSound' /\ CachesKept
<1> DEFINE new == [IdleCall EXCEPT !.at = "check", !.snapshot = s, !.contract = c,
                                   !.cache = Len(caches')]
<1>1. SoundCaches' /\ CachesKept
  <2>1. CASE caches' = caches
    BY <2>1, CachesUnchanged DEF CachesSound
  <2>2. CASE caches' = Append(caches, EmptyCache(s))
    BY <2>2, CacheAdded DEF CachesSound
  <2> QED
    BY <2>1, <2>2 DEF Begin
<1>2. Len(caches') \in DOMAIN caches' /\ caches'[Len(caches')].snapshot = s
  <2>1. caches \in Seq(CacheSet) /\ caches # <<>> /\ EmptyCache(s).snapshot = s
    BY DEF CachesSound, SoundCaches, EmptyCache
  <2>2. CASE caches' = caches
    BY <2>1, <2>2 DEF Begin, Last, EmptyCache
  <2>3. CASE caches' = Append(caches, EmptyCache(s))
    <3> DEFINE e == EmptyCache(s)
    <3> HIDE DEF e
    <3>1. Len(Append(caches, e)) = Len(caches) + 1
          /\ Append(caches, e)[Len(caches) + 1] = e
      BY <2>1
    <3>2. Len(caches) + 1 \in DOMAIN Append(caches, e)
      BY <2>1
    <3> QED
      BY <2>1, <2>3, <3>1, <3>2 DEF e
  <2> QED
    BY <2>2, <2>3 DEF Begin
<1>3. call' = [call EXCEPT ![t] = new]
  BY DEF Begin
<1>4. Len(caches') \in Nat
  BY <1>1 DEF SoundCaches
<1>5. /\ new.at = "check" /\ new.snapshot = s /\ new.contract = c /\ new.answer = NoAnswer
      /\ new.cache = Len(caches') /\ new.parts = <<>> /\ new \in CallSet
  <2>1. \A n \in Nat :
         LET begun == [IdleCall EXCEPT !.at = "check", !.snapshot = s, !.contract = c, !.cache = n]
         IN  /\ begun.at = "check" /\ begun.snapshot = s /\ begun.contract = c
             /\ begun.answer = NoAnswer /\ begun.cache = n /\ begun.parts = <<>>
             /\ begun \in CallSet
    <3>1. IdleCall.answer = NoAnswer /\ IdleCall.parts = <<>> /\ IdleCall \in CallSet
      BY DEF IdleCall, CallSet, Places
    <3> QED
      BY <3>1 DEF CallSet, Places
  <2> QED
    BY <1>4, <2>1
<1> HIDE DEF new
<1>6. call' \in [Threads -> CallSet] /\ call'[t] = new
  BY <1>3, <1>5 DEF CachesSound, SoundCalls
<1>7. SoundCall(t)'
  BY <1>2, <1>5, <1>6 DEF SoundCall, InFlight, Mine, NoAnswer, Failure
<1>8. ASSUME NEW u \in Threads, u # t PROVE SoundCall(u)'
  <2>1. call'[u] = call[u]
    BY <1>3, <1>8 DEF CachesSound, SoundCalls
  <2> QED
    BY <1>1, <2>1, OthersSound DEF CachesSound
<1>9. calls' \in 0..MaxCalls /\ clears' = clears
  BY CacheAssumption DEF CachesSound, Begin
<1> QED
  BY <1>1, <1>6, <1>7, <1>8, <1>9 DEF CachesSound, SoundCalls

(* clear_cache takes nothing from the calls in flight.                     *)
LEMMA ClearStep ==
  ASSUME CachesSound, ClearCache
  PROVE  CachesSound' /\ CachesKept
<1>1. SoundCaches' /\ CachesKept
  BY CacheAdded DEF CachesSound, ClearCache
<1>2. \A u \in Threads : SoundCall(u)'
  BY <1>1, OthersSound DEF CachesSound, ClearCache
<1>3. clears' \in 0..MaxClears /\ calls' = calls /\ call' = call
  BY CacheAssumption DEF CachesSound, ClearCache
<1> QED
  BY <1>1, <1>2, <1>3 DEF CachesSound, SoundCalls

(* The first check of the surface.                                         *)
LEMMA CheckSurfaceStep ==
  ASSUME CachesSound, NEW t \in Threads, CheckSurface(t)
  PROVE  CachesSound' /\ CachesKept
<1>1. SoundCaches' /\ CachesKept
  BY CachesUnchanged DEF CachesSound, CheckSurface
<1>2. call[t] \in CallSet /\ SoundCall(t)
  BY DEF CachesSound, SoundCalls
<1>3. CASE Agrees(t)
  <2> DEFINE new == [call[t] EXCEPT !.at = "lookup"]
  <2>1. call' = [call EXCEPT ![t] = new] /\ Counters
    BY <1>3 DEF CheckSurface, Goto
  <2>2. /\ new \in CallSet /\ new.at = "lookup" /\ new.answer = call[t].answer
        /\ new.snapshot = call[t].snapshot /\ new.contract = call[t].contract
        /\ new.cache = call[t].cache /\ new.parts = call[t].parts
    BY <1>2 DEF CallSet, Places
  <2> HIDE DEF new
  <2>3. call'[t] = new
    BY <2>1 DEF CachesSound, SoundCalls
  <2>4. SoundCall(t)'
    BY <1>1, <1>2, <2>2, <2>3
       DEF SoundCall, InFlight, Mine, CachesKept, CheckSurface, NoAnswer, Failure
  <2> QED
    BY <1>1, <2>1, <2>2, <2>4, CallStep
<1>4. CASE ~Agrees(t)
  <2>1. Failure("surface_mismatch").kind # "risk" /\ Failure("surface_mismatch") \in Failures
    BY DEF Failure, Failures
  <2> QED
    BY <1>1, <1>4, <2>1, AnswerStep DEF CheckSurface
<1> QED
  BY <1>3, <1>4

(* A failure other than a surface mismatch.                                *)
LEMMA OtherFailure ==
  ASSUME NEW code \in {"portfolio_gamma_failure", "native_pricing_failure"}
  PROVE  /\ Failure(code) \in Failures /\ Failure(code).kind # "risk"
         /\ Failure(code) # Failure("surface_mismatch")
<1>1. Failure(code).code = code /\ Failure("surface_mismatch").code = "surface_mismatch"
  BY DEF Failure
<1> QED
  BY <1>1 DEF Failure, Failures

(* A cached result answers the call; a miss starts with the first piece.   *)
LEMMA LookupStep ==
  ASSUME CachesSound, NEW t \in Threads, Lookup(t)
  PROVE  CachesSound' /\ CachesKept
<1> DEFINE n == call[t].cache
           s == call[t].snapshot
           c == call[t].contract
           found == Entry(caches[n].results, KeyOf(t))
<1>1. call[t] \in CallSet /\ SoundCall(t) /\ call[t].at = "lookup"
  BY DEF CachesSound, SoundCalls, Lookup
<1>2. /\ InFlight(t) /\ call[t].answer = NoAnswer
      /\ n \in DOMAIN caches /\ s \in Snapshots /\ c \in Contracts /\ caches[n].snapshot = s
  BY <1>1 DEF SoundCall, InFlight, Mine
<1>3. /\ SoundCaches' /\ CachesKept
      /\ Has(caches[n].results, KeyOf(t)) =>
           <<KeyOf(t), found>> \in SoundResults(s, caches[n].shared)
  BY <1>2, ResultsTouched DEF Lookup, CachesSound
<1>4. CASE Has(Mine(t).results, KeyOf(t))
  <2>1. <<KeyOf(t), found>> \in SoundResults(s, caches[n].shared)
    BY <1>3, <1>4 DEF Mine
  <2>2. PICK d \in Contracts : /\ Accepted(s, d) /\ <<KeyOf(t), found>> = <<ResultKey(s, d), Uncached(s, d)>>
                               /\ found \in Risks
    BY <2>1 DEF SoundResults
  <2>3. d = c /\ found = Uncached(s, c)
    BY <2>2 DEF KeyOf, ResultKey
  <2>4. found # Failure("surface_mismatch")
    BY <2>2 DEF Risks, Failure
  <2>5. Answer(t, found) /\ Counters
    BY <1>4 DEF Lookup, Mine
  <2> QED
    BY <1>1, <1>3, <2>2, <2>3, <2>4, <2>5, AnswerStep
<1>5. CASE ~Has(Mine(t).results, KeyOf(t))
  <2> DEFINE new == [call[t] EXCEPT !.at = "piece", !.left = Pieces(c)]
  <2>1. call' = [call EXCEPT ![t] = new] /\ Counters
    BY <1>5 DEF Lookup
  <2>2. Pieces(c) \in Seq(AllPieces) /\ Len(Pieces(c)) = 2
    BY <1>2, PartsTyped
  <2>3. /\ new \in CallSet /\ new.at = "piece" /\ new.left = Pieces(c)
        /\ new.parts = call[t].parts /\ new.answer = NoAnswer
        /\ new.snapshot = s /\ new.contract = c /\ new.cache = n
    BY <1>1, <1>2, <2>2 DEF CallSet, Places
  <2> HIDE DEF new
  <2>4. call'[t] = new
    BY <2>1 DEF CachesSound, SoundCalls
  <2>5. InFlight(t)'
    BY <1>2, <1>3, <2>3, <2>4 DEF InFlight, CachesKept, Mine
  <2>6. Collecting(t)'
    <3>1. SubSeq(Pieces(c), 1, 2) = Pieces(c)
      <4>1. Pieces(c) \in Seq(AllPieces) /\ Len(Pieces(c)) = 2 /\ 0 \in 0..2
        BY <2>2
      <4> HIDE DEF c
      <4> QED
        BY <4>1, RestOf
    <3>2. PartsOf(s, c, 0) = <<>>
      BY DEF PartsOf
    <3> QED
      BY <1>1, <2>2, <2>3, <2>4, <3>1, <3>2 DEF Collecting, SoundCall
  <2>7. SoundCall(t)'
    BY <2>3, <2>4, <2>5, <2>6 DEF SoundCall, NoAnswer, Failure
  <2> QED
    BY <1>3, <2>1, <2>3, <2>7, CallStep
<1> QED
  BY <1>4, <1>5

(* The piece that a call works on is the next of its contract's.           *)
LEMMA NextPiece ==
  ASSUME NEW t \in Threads, InFlight(t), Collecting(t)
  PROVE  LET s == call[t].snapshot
             c == call[t].contract
         IN  /\ call[t].left = <<>> => call[t].parts = PartsOf(s, c, 2) /\ Accepted(s, c)
             /\ call[t].left # <<>> => \E k \in 0..1 :
                  /\ PieceOf(t) = PieceKey(s, c, Pieces(c)[k + 1]) /\ Pieces(c)[k + 1] \in AllPieces
                  /\ Tail(call[t].left) = SubSeq(Pieces(c), k + 2, 2)
                  /\ Append(call[t].parts, PieceRisk(PieceOf(t))) = PartsOf(s, c, k + 1)
                  /\ \A i \in 1..k : Passes(PieceKey(s, c, Pieces(c)[i]))
<1> DEFINE s == call[t].snapshot
           c == call[t].contract
<1>1. s \in Snapshots /\ c \in Contracts
  BY DEF InFlight
<1>2. Len(Pieces(c)) = 2 /\ DOMAIN Pieces(c) = 1..2 /\ Pieces(c) \in Seq(AllPieces)
  BY <1>1, PartsTyped
<1>3. PICK k \in 0..2 : /\ call[t].left = SubSeq(Pieces(c), k + 1, 2)
                        /\ call[t].parts = PartsOf(s, c, k)
                        /\ \A i \in 1..k : Passes(PieceKey(s, c, Pieces(c)[i]))
  BY <1>2 DEF Collecting
<1>4. CASE k = 2
  <2>1. call[t].left = <<>>
    <3> HIDE DEF s, c
    <3> QED
      BY <1>2, <1>3, <1>4
  <2> QED
    BY <1>2, <1>3, <1>4, <2>1 DEF Accepted
<1>5. CASE k \in 0..1
  <2> DEFINE p == Pieces(c)
  <2>1. /\ call[t].left # <<>> /\ Head(call[t].left) = p[k + 1]
        /\ Tail(call[t].left) = SubSeq(p, k + 2, 2) /\ p[k + 1] \in AllPieces
    <3> HIDE DEF p
    <3>1. p \in Seq(AllPieces) /\ Len(p) = 2 /\ k \in 0..Len(p) /\ k < Len(p)
      BY <1>2, <1>5 DEF p
    <3>2. call[t].left = SubSeq(p, k + 1, Len(p))
      BY <1>3, <3>1 DEF p
    <3>3. LET rest == SubSeq(p, k + 1, Len(p))
          IN  rest # <<>> /\ Head(rest) = p[k + 1] /\ Tail(rest) = SubSeq(p, k + 2, Len(p))
      BY <3>1, RestOf
    <3>4. p[k + 1] \in AllPieces
      BY <3>1
    <3> QED
      BY <3>1, <3>2, <3>3, <3>4
  <2>2. PieceOf(t) = PieceKey(s, c, p[k + 1])
    BY <2>1 DEF PieceOf
  <2>3. Append(PartsOf(s, c, k), PieceRisk(PieceKey(s, c, p[k + 1]))) = PartsOf(s, c, k + 1)
    <3>1. PartsOf(s, c, k) \in Seq(PieceRisks) /\ Len(PartsOf(s, c, k)) = k
      BY <1>1, <1>5, PartsTyped
    <3>2. PartsOf(s, c, k + 1) \in Seq(PieceRisks) /\ Len(PartsOf(s, c, k + 1)) = k + 1
      <4>1. k + 1 \in 0..2
        BY <1>5
      <4> QED
        BY <1>1, <4>1, PartsTyped
    <3>3. \A i \in 1..k + 1 : PartsOf(s, c, k + 1)[i] = PieceRisk(PieceKey(s, c, p[i]))
      BY <1>5 DEF PartsOf
    <3>4. \A i \in 1..k : PartsOf(s, c, k)[i] = PieceRisk(PieceKey(s, c, p[i]))
      BY <1>5 DEF PartsOf
    <3> HIDE DEF s, c, p
    <3> QED
      BY <1>5, <3>1, <3>2, <3>3, <3>4
  <2> QED
    BY <1>3, <1>5, <2>1, <2>2, <2>3
<1> QED
  BY <1>3, <1>4, <1>5

(* An accepted piece is collected.                                         *)
LEMMA CollectStep ==
  ASSUME CachesSound, NEW t \in Threads, call[t].at \in {"piece", "native"}, call[t].left # <<>>,
         Passes(PieceOf(t)), SoundCaches', CachesKept, Counters,
         call' = [call EXCEPT ![t].at = "piece", ![t].left = Tail(@),
                              ![t].parts = Append(@, PieceRisk(PieceOf(t)))]
  PROVE  CachesSound'
<1> DEFINE s == call[t].snapshot
           c == call[t].contract
           left == Tail(call[t].left)
           parts == Append(call[t].parts, PieceRisk(PieceOf(t)))
           new == [call[t] EXCEPT !.at = "piece", !.left = left, !.parts = parts]
<1>1. call[t] \in CallSet /\ SoundCall(t) /\ InFlight(t) /\ Collecting(t)
  BY DEF CachesSound, SoundCalls, SoundCall
<1>2. call[t].answer = NoAnswer
  BY <1>1 DEF SoundCall
<1>3. PICK k \in 0..1 : /\ PieceOf(t) = PieceKey(s, c, Pieces(c)[k + 1])
                        /\ left = SubSeq(Pieces(c), k + 2, 2) /\ parts = PartsOf(s, c, k + 1)
                        /\ \A i \in 1..k : Passes(PieceKey(s, c, Pieces(c)[i]))
  BY <1>1, NextPiece
<1>4. left \in Seq(AllPieces) /\ parts \in Seq(PieceRisks) /\ Len(Pieces(c)) = 2
  <2>1. s \in Snapshots /\ c \in Contracts
    BY <1>1 DEF InFlight
  <2>2. Pieces(c) \in Seq(AllPieces) /\ Len(Pieces(c)) = 2
    BY <2>1, PartsTyped
  <2>3. SubSeq(Pieces(c), k + 2, 2) \in Seq(AllPieces)
    <3> HIDE DEF c
    <3> QED
      BY <2>2
  <2>4. k + 1 \in 0..2
    OBVIOUS
  <2>5. PartsOf(s, c, k + 1) \in Seq(PieceRisks)
    BY <2>1, <2>4, PartsTyped
  <2> QED
    BY <1>3, <2>2, <2>3, <2>5
<1> HIDE DEF left, parts
<1>5. /\ new \in CallSet /\ new.at = "piece" /\ new.left = left /\ new.parts = parts
      /\ new.answer = NoAnswer /\ new.snapshot = s /\ new.contract = c
      /\ new.cache = call[t].cache
  BY <1>1, <1>2, <1>4 DEF CallSet, Places
<1>6. call' = [call EXCEPT ![t] = new]
  BY DEF left, parts, CachesSound, SoundCalls
<1> HIDE DEF new
<1>7. call'[t] = new
  BY <1>6 DEF CachesSound, SoundCalls
<1>8. InFlight(t)'
  BY <1>1, <1>5, <1>7 DEF InFlight, CachesKept, Mine
<1>9. Collecting(t)'
  <2>1. \A i \in 1..k + 1 : Passes(PieceKey(s, c, Pieces(c)[i]))
    BY <1>3
  <2>2. /\ call'[t].snapshot = s /\ call'[t].contract = c /\ k + 1 \in 0..Len(Pieces(c))
        /\ call'[t].left = SubSeq(Pieces(c), (k + 1) + 1, Len(Pieces(c)))
        /\ call'[t].parts = PartsOf(s, c, k + 1)
    <3>1. (k + 1) + 1 = k + 2 /\ k + 1 \in 0..2
      OBVIOUS
    <3> QED
      BY <1>3, <1>4, <1>5, <1>7, <3>1
  <2> QED
    BY <2>1, <2>2 DEF Collecting
<1>10. SoundCall(t)'
  <2>1. call'[t].at = "piece" /\ call'[t].answer = NoAnswer
    BY <1>5, <1>7
  <2>2. NoAnswer.kind # "risk" /\ NoAnswer # Failure("surface_mismatch")
    BY DEF NoAnswer, Failure
  <2> QED
    BY <1>8, <1>9, <2>1, <2>2 DEF SoundCall
<1> QED
  BY <1>5, <1>6, <1>10, CallStep

(* A call between two pieces, or in native pricing, has no answer yet.     *)
LEMMA Pricing ==
  ASSUME CachesSound, NEW t \in Threads, call[t].at \in {"piece", "native"}
  PROVE  /\ InFlight(t) /\ Collecting(t) /\ call[t].at # "idle"
         /\ call[t].cache \in DOMAIN caches /\ caches[call[t].cache].snapshot = call[t].snapshot
  BY DEF CachesSound, SoundCalls, SoundCall, InFlight, Mine

(* The audit of the piece that a call works on is sound for its cache.     *)
LEMMA OwnAudit ==
  ASSUME NEW t \in Threads, InFlight(t), Collecting(t), call[t].left # <<>>
  PROVE  <<PieceOf(t), Audit(PieceOf(t))>> \in SoundAudits(call[t].snapshot)
<1> DEFINE s == call[t].snapshot
           c == call[t].contract
<1>1. PICK k \in 0..1 : /\ PieceOf(t) = PieceKey(s, c, Pieces(c)[k + 1])
                        /\ Pieces(c)[k + 1] \in AllPieces
  BY NextPiece
<1> QED
  BY <1>1, AuditSound DEF InFlight

(* A kept audit that was accepted is reused, a rejected one refuses.       *)
LEMMA ReusePieceStep ==
  ASSUME CachesSound, NEW t \in Threads, ReusePiece(t)
  PROVE  CachesSound' /\ CachesKept
<1> DEFINE n == call[t].cache
           entry == Entry(caches[n].native, PieceOf(t))
<1>1. /\ InFlight(t) /\ Collecting(t) /\ call[t].at = "piece" /\ call[t].left # <<>>
      /\ n \in DOMAIN caches /\ caches[n].snapshot = call[t].snapshot
  BY Pricing DEF ReusePiece
<1>2. /\ SoundCaches' /\ CachesKept /\ Counters
      /\ <<PieceOf(t), entry>> \in SoundAudits(call[t].snapshot)
  BY <1>1, NativeTouched DEF ReusePiece, CachesSound, Mine
<1>3. entry = Audit(PieceOf(t))
  BY <1>2 DEF SoundAudits
<1>4. CASE Passes(PieceOf(t))
  <2>1. entry.passed /\ entry.risk = PieceRisk(PieceOf(t))
    BY <1>3, <1>4 DEF Audit
  <2>2. call' = [call EXCEPT ![t].left = Tail(@), ![t].parts = Append(@, PieceRisk(PieceOf(t)))]
    BY <2>1 DEF ReusePiece, Mine
  <2>3. call' = [call EXCEPT ![t].at = "piece", ![t].left = Tail(@),
                             ![t].parts = Append(@, PieceRisk(PieceOf(t)))]
    BY <1>1, <2>2 DEF CachesSound, SoundCalls, CallSet
  <2> QED
    BY <1>1, <1>2, <1>4, <2>3, CollectStep
<1>5. CASE ~Passes(PieceOf(t))
  <2>1. ~entry.passed
    BY <1>3, <1>5 DEF Audit
  <2>2. Answer(t, Failure("portfolio_gamma_failure"))
    BY <2>1 DEF ReusePiece, Mine
  <2> QED
    BY <1>1, <1>2, <2>2, AnswerStep, OtherFailure
<1> QED
  BY <1>4, <1>5

(* A piece that is not in the cache goes to native pricing.                *)
LEMMA MissPieceStep ==
  ASSUME CachesSound, NEW t \in Threads, MissPiece(t)
  PROVE  CachesSound' /\ CachesKept
<1> DEFINE new == [call[t] EXCEPT !.at = "native"]
<1>1. SoundCaches' /\ CachesKept /\ Counters
  BY CachesUnchanged DEF CachesSound, MissPiece
<1>2. InFlight(t) /\ Collecting(t) /\ call[t] \in CallSet /\ SoundCall(t) /\ call[t].at = "piece"
  BY Pricing DEF CachesSound, SoundCalls, MissPiece
<1>3. call' = [call EXCEPT ![t] = new]
  BY DEF MissPiece, Goto
<1>4. /\ new \in CallSet /\ new.at = "native" /\ new.left = call[t].left
      /\ new.parts = call[t].parts /\ new.answer = call[t].answer
      /\ new.snapshot = call[t].snapshot /\ new.contract = call[t].contract
      /\ new.cache = call[t].cache
  BY <1>2 DEF CallSet, Places
<1> HIDE DEF new
<1>5. call'[t] = new
  BY <1>3 DEF CachesSound, SoundCalls
<1>6. InFlight(t)'
  BY <1>1, <1>2, <1>4, <1>5 DEF InFlight, CachesKept, Mine
<1>7. Collecting(t)'
  BY <1>2, <1>4, <1>5 DEF Collecting
<1>8. SoundCall(t)'
  <2>1. call'[t].answer = NoAnswer /\ call'[t].left # <<>>
    BY <1>2, <1>4, <1>5 DEF SoundCall, MissPiece
  <2>2. NoAnswer.kind # "risk" /\ NoAnswer # Failure("surface_mismatch")
    BY DEF NoAnswer, Failure
  <2> QED
    BY <1>4, <1>5, <1>6, <1>7, <2>1, <2>2 DEF SoundCall
<1> QED
  BY <1>1, <1>3, <1>4, <1>8, CallStep

(* A rejected audit is kept for diagnosis, and refuses the call.           *)
LEMMA RejectPieceStep ==
  ASSUME CachesSound, NEW t \in Threads, RejectPiece(t)
  PROVE  CachesSound' /\ CachesKept
<1>1. /\ InFlight(t) /\ Collecting(t) /\ call[t].at # "idle" /\ call[t].left # <<>>
      /\ call[t].cache \in DOMAIN caches
      /\ caches[call[t].cache].snapshot = call[t].snapshot
  BY Pricing DEF RejectPiece, CachesSound, SoundCalls, SoundCall
<1>2. Audit(PieceOf(t)) = [passed |-> FALSE, risk |-> NoAnswer]
  <2>1. Passes(PieceOf(t)) = FALSE
    BY DEF RejectPiece, Passes
  <2> QED
    BY <2>1 DEF Audit
<1>3. SoundCaches' /\ CachesKept
  BY <1>1, <1>2, OwnAudit, NativeStored DEF RejectPiece, CachesSound
<1> QED
  BY <1>1, <1>3, AnswerStep, OtherFailure DEF RejectPiece

(* An accepted audit is kept, and its risk collected.                      *)
LEMMA AcceptPieceStep ==
  ASSUME CachesSound, NEW t \in Threads, AcceptPiece(t)
  PROVE  CachesSound' /\ CachesKept
<1>1. /\ InFlight(t) /\ Collecting(t) /\ call[t].at = "native" /\ call[t].left # <<>>
      /\ call[t].cache \in DOMAIN caches
      /\ caches[call[t].cache].snapshot = call[t].snapshot
  BY Pricing DEF AcceptPiece, CachesSound, SoundCalls, SoundCall
<1>2. Audit(PieceOf(t)) = [passed |-> TRUE, risk |-> PieceRisk(PieceOf(t))]
  BY DEF AcceptPiece, Audit
<1>3. SoundCaches' /\ CachesKept
  BY <1>1, <1>2, OwnAudit, NativeStored DEF AcceptPiece, CachesSound
<1> QED
  BY <1>1, <1>3, CollectStep DEF AcceptPiece

(* Nothing is kept of a failed pricing.                                    *)
LEMMA FailNativeStep ==
  ASSUME CachesSound, NEW t \in Threads, FailNative(t)
  PROVE  CachesSound' /\ CachesKept
<1>1. SoundCaches' /\ CachesKept /\ call[t].at # "idle"
  BY CachesUnchanged DEF CachesSound, FailNative
<1> QED
  BY <1>1, AnswerStep, OtherFailure DEF FailNative

(* What is published is what an uncached evaluation gives.                 *)
LEMMA StoreStep ==
  ASSUME CachesSound, NEW t \in Threads, Store(t)
  PROVE  CachesSound' /\ CachesKept
<1> DEFINE n == call[t].cache
           s == call[t].snapshot
           c == call[t].contract
<1>1. /\ InFlight(t) /\ Collecting(t) /\ call[t].at # "idle" /\ call[t].left = <<>>
      /\ n \in DOMAIN caches /\ caches[n].snapshot = s /\ s \in Snapshots /\ c \in Contracts
  BY Pricing DEF Store, InFlight
<1>2. Accepted(s, c) /\ RiskOf(KeyOf(t), call[t].parts) = Uncached(s, c)
  BY <1>1, NextPiece, PartsTyped DEF KeyOf
<1>3. Uncached(s, c) \in Risks
  BY <1>1, PartsTyped
<1>4. /\ caches' = [caches EXCEPT ![n].shared = SurfaceOf(t),
                                  ![n].results = Stored(@, ResultKey(s, c), Uncached(s, c))]
      /\ Answer(t, Uncached(s, c)) /\ Counters
  BY <1>2 DEF Store, KeyOf
<1>5. caches[n].shared = None \/ caches[n].shared = SurfaceOf(t)
  BY DEF Store, Agrees, Mine
<1>6. SoundCaches' /\ CachesKept
  BY <1>1, <1>2, <1>3, <1>4, <1>5, ResultStored DEF CachesSound, SurfaceOf
<1>7. Uncached(s, c) # Failure("surface_mismatch")
  BY <1>3 DEF Risks, Failure
<1> QED
  BY <1>1, <1>2, <1>3, <1>4, <1>6, <1>7, AnswerStep

(* The second check of the surface refuses like the first.                 *)
LEMMA RefuseStoreStep ==
  ASSUME CachesSound, NEW t \in Threads, RefuseStore(t)
  PROVE  CachesSound' /\ CachesKept
<1>1. SoundCaches' /\ CachesKept /\ call[t].at # "idle" /\ ~Agrees(t)
  BY CachesUnchanged DEF CachesSound, RefuseStore
<1>2. Failure("surface_mismatch").kind # "risk" /\ Failure("surface_mismatch") \in Failures
  BY DEF Failure, Failures
<1> QED
  BY <1>1, <1>2, AnswerStep DEF RefuseStore
-----------------------------------------------------------------------------
(* The theorems.                                                           *)

(* The caches are sound in the initial state.                              *)
LEMMA InitSound == Init => CachesSound
<1> SUFFICES ASSUME Init PROVE CachesSound
  OBVIOUS
<1>1. EmptyCache(None) \in CacheSet /\ EmptyCache(None).snapshot = None
      /\ EmptyCache(None).shared = None /\ EmptyCache(None).results = <<>>
      /\ EmptyCache(None).native = <<>>
  BY DEF EmptyCache, CacheSet
<1> DEFINE e == EmptyCache(None)
<1> HIDE DEF e
<1>2. caches = <<e>>
  BY DEF Init, e
<1>3. SoundCache(e)
  BY <1>1 DEF SoundCache, e
<1>4. SoundCaches
  BY <1>1, <1>2, <1>3, CacheAssumption DEF SoundCaches, e
<1>5. IdleCall \in CallSet /\ IdleCall.at = "idle" /\ IdleCall.answer = NoAnswer
  BY DEF IdleCall, CallSet, Places
<1>6. NoAnswer.kind # "risk" /\ NoAnswer # Failure("surface_mismatch")
  BY DEF NoAnswer, Failure
<1>7. SoundCalls
  BY <1>5, <1>6 DEF Init, SoundCalls, SoundCall
<1> QED
  BY <1>4, <1>7, CacheAssumption DEF Init, CachesSound

(* Every step keeps them sound, and keeps each its snapshot and surface.   *)
LEMMA NextSound == CachesSound /\ [Next]_vars => CachesSound' /\ CachesKept
<1> SUFFICES ASSUME CachesSound, [Next]_vars PROVE CachesSound' /\ CachesKept
  OBVIOUS
<1>1. ASSUME NEW t \in Threads, Continue(t) PROVE CachesSound' /\ CachesKept
  BY <1>1, CheckSurfaceStep, LookupStep, ReusePieceStep, MissPieceStep, RejectPieceStep,
     AcceptPieceStep, FailNativeStep, StoreStep, RefuseStoreStep DEF Continue
<1>2. CASE UNCHANGED vars
  <2>1. SoundCaches' /\ CachesKept
    BY <1>2, CachesUnchanged DEF CachesSound, vars
  <2>2. \A u \in Threads : SoundCall(u)'
    BY <1>2, <2>1, OthersSound DEF CachesSound, vars
  <2> QED
    BY <1>2, <2>1, <2>2 DEF CachesSound, SoundCalls, vars
<1> QED
  BY <1>1, <1>2, BeginStep, ClearStep DEF Next

(* Every cache object holds only what an uncached evaluation on its own    *)
(* snapshot and agreed surface gives, whatever threads do side by side.    *)
THEOREM CachesStaySound == Spec => []CachesSound
<1>1. CachesSound /\ [Next]_vars => CachesSound'
  BY NextSound
<1> QED
  BY <1>1, InitSound, PTL DEF Spec

(* Calls and cache objects keep to their snapshot and surface: a call that *)
(* outlives its snapshot or a clear_cache neither mixes nor repopulates.   *)
THEOREM CachesStayApartAlways == Spec => []CachesStayApart
<1>1. ASSUME CachesSound PROVE TypeOK
  BY <1>1 DEF CachesSound, SoundCaches, SoundCalls, SoundCall, InFlight, TypeOK
<1>2. ASSUME CachesSound PROVE OwnSnapshotOnly
  <2> SUFFICES ASSUME NEW n \in DOMAIN caches
               PROVE  LET own == caches[n].snapshot
                      IN  /\ \A i \in DOMAIN caches[n].results : caches[n].results[i][1][1] = own
                          /\ \A i \in DOMAIN caches[n].native :
                               \E c \in Contracts, piece \in Contracts \union {Control} :
                                 own # None /\ caches[n].native[i][1] = PieceKey(own, c, piece)
    BY DEF OwnSnapshotOnly
  <2> DEFINE own == caches[n].snapshot
  <2>1. SoundCache(caches[n])
    BY <1>2 DEF CachesSound, SoundCaches
  <2>2. ASSUME NEW i \in DOMAIN caches[n].results PROVE caches[n].results[i][1][1] = own
    <3>1. caches[n].results[i] \in SoundResults(own, caches[n].shared)
      BY <2>1 DEF SoundCache
    <3> QED
      BY <3>1 DEF SoundResults, ResultKey
  <2>3. ASSUME NEW i \in DOMAIN caches[n].native
        PROVE  \E c \in Contracts, piece \in Contracts \union {Control} :
                 own # None /\ caches[n].native[i][1] = PieceKey(own, c, piece)
    <3>1. caches[n].native[i] \in SoundAudits(own)
      BY <2>1 DEF SoundCache
    <3> QED
      BY <3>1, CacheAssumption DEF SoundAudits, AllPieces
  <2> QED
    BY <2>2, <2>3
<1>3. ASSUME CachesSound PROVE OneSurface
  <2> SUFFICES ASSUME NEW n \in DOMAIN caches, NEW i \in DOMAIN caches[n].results
               PROVE  LET key == caches[n].results[i][1]
                      IN  Surface[key[1]][key[2]] = caches[n].shared
    BY DEF OneSurface
  <2>1. SoundCache(caches[n])
    BY <1>3 DEF CachesSound, SoundCaches
  <2>2. caches[n].results[i] \in SoundResults(caches[n].snapshot, caches[n].shared)
    BY <2>1 DEF SoundCache
  <2> QED
    BY <2>2 DEF SoundResults, ResultKey
<1>4. CachesSound => CachesStayApart
  BY <1>1, <1>2, <1>3 DEF CachesStayApart
<1> QED
  BY <1>4, CachesStaySound, PTL

(* A risk that evaluate returns is that of an uncached evaluation, with    *)
(* every audit behind it accepted.                                         *)
THEOREM AnswersAreUncached == Spec => []AnswersAsUncached
<1>1. CachesSound => AnswersAsUncached
  BY DEF CachesSound, SoundCalls, SoundCall, AnswersAsUncached, Accepted
<1> QED
  BY <1>1, CachesStaySound, PTL

(* A surface mismatch is reported only against another contract's surface  *)
(* that was published in the cache that the call holds.                    *)
THEOREM RefusalsHaveCause == Spec => []RefusedForCause
<1>1. ASSUME CachesSound, NEW t \in Threads, call[t].answer = Failure("surface_mismatch")
      PROVE  Mine(t).shared \in {Surface[call[t].snapshot][c] : c \in Contracts} \ {SurfaceOf(t)}
  <2>1. InFlight(t) /\ Mine(t).shared # None /\ Mine(t).shared # SurfaceOf(t)
    BY <1>1 DEF CachesSound, SoundCalls, SoundCall
  <2>2. SoundCache(Mine(t)) /\ Mine(t).snapshot = call[t].snapshot
    BY <1>1, <2>1 DEF CachesSound, SoundCaches, InFlight, Mine
  <2> QED
    BY <2>1, <2>2 DEF SoundCache
<1>2. CachesSound => RefusedForCause
  BY <1>1 DEF RefusedForCause
<1> QED
  BY <1>2, CachesStaySound, PTL

(* SnapshotCache.store never moves a cache to another surface.             *)
THEOREM SurfacesStick == Spec => SurfaceSticks
<1>1. CachesSound /\ [Next]_vars =>
        [\A n \in DOMAIN caches : caches[n].shared # None => caches'[n].shared = caches[n].shared]_vars
  BY NextSound DEF CachesKept
<1> QED
  BY <1>1, CachesStaySound, PTL DEF Spec, SurfaceSticks
=============================================================================
