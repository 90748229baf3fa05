---------------------------- MODULE StrMapProofs ----------------------------
(* Proofs about the string map for every set of keys, hash, capacity and    *)
(* inputs.                                                                  *)
EXTENDS StrMap, Minima, FiniteSetTheorems, TLAPS

Pair == [key : Keys, value : Text, room : Nat]

\* What a call under way knows of its key.
CallOK ==
  /\ (at = "none" => ~live) /\ (at \notin {"none", "idle"} => live)
  /\ ~live => buckets = Fresh
  /\ at \in {"key", "value", "pairs"} => ~Exists(key)
  /\ at \in {"grow", "copy"} => Exists(key)
  /\ at = "grow" => Len(GetValue(key)) < Len(value)

\* The inductive invariant.
MapInv == TypeOK /\ OnePairPerKey /\ ValueFits /\ CopyFits /\ CallOK

-----------------------------------------------------------------------------
(* Texts and chains.                                                        *)

\* A set of naturals has a least element, the one Min chooses.
LEMMA MinIn == ASSUME NEW S \in SUBSET Nat, S /= {}
               PROVE  Min(S) \in S /\ \A i \in S : Min(S) <= i
<1>1. \E x \in S : \A y \in S : x <= y
  BY LeastIn
<1>2. QED
  BY <1>1 DEF Min

\* Positions in a text are bounded, so they have a greatest one as well.
LEMMA MaxIn == ASSUME NEW n \in Nat, NEW S \in SUBSET (1 .. n), S /= {}
               PROVE  Max(S) \in S
<1> DEFINE M == {n - i : i \in S}
<1>1. M \in SUBSET Nat /\ M /= {}
  <2>1. \A i \in S : n - i \in Nat
    OBVIOUS
  <2>2. QED
    BY <2>1
<1>2. PICK m \in M : \A j \in M : m <= j
  BY <1>1, MinIn
<1>3. PICK x \in S : m = n - x
  BY <1>2
<1>4. ASSUME NEW y \in S PROVE x >= y
  <2>1. n - y \in M
    OBVIOUS
  <2>2. QED
    BY <1>2, <1>3, <2>1
<1>5. QED
  BY <1>4 DEF Max

\* Joining texts gives a text.
LEMMA ListedText == ASSUME NEW s \in Text, NEW t \in Text
                    PROVE  Listed(s, t) \in Text
<1>1. <<Comma, Blank>> \in Seq(Chars)
  BY DEF Chars
<1>2. QED
  BY <1>1 DEF Text, Listed

\* Trimming a text gives a text.
LEMMA TrimText == ASSUME NEW t \in Text
                  PROVE  Trim(t) \in Text
<1>1. CASE Solid(t) = {}
  BY <1>1 DEF Trim, Text
<1>2. CASE Solid(t) /= {}
  <2>1. Len(t) \in Nat /\ Solid(t) \in SUBSET (1 .. Len(t)) /\ Solid(t) \in SUBSET Nat
    BY DEF Solid, Text
  <2>2. Min(Solid(t)) \in 1 .. Len(t) /\ Max(Solid(t)) \in 1 .. Len(t)
    BY <1>2, <2>1, MinIn, MaxIn
  <2>3. SubSeq(t, Min(Solid(t)), Max(Solid(t))) \in Seq(Chars)
    BY <2>1, <2>2 DEF Text
  <2>4. QED
    BY <1>2, <2>3 DEF Trim, Text
<1>3. QED
  BY <1>1, <1>2

\* A hash picks one of the buckets.
LEMMA IndexTyped == ASSUME NEW k \in Keys
                    PROVE  IndexOf(k) \in Indices
<1>1. ASSUME NEW a \in Nat, NEW b \in Nat \ {0}
      PROVE  a % b \in 0 .. b - 1
  BY <1>1, SMT
<1>2. QED
  BY <1>1, CapacityAssumption, HashAssumption DEF IndexOf, Indices

\* The only pair with a key is the one get_pair() finds.
LEMMA OnlyPair ==
  ASSUME NEW c, NEW i \in DOMAIN c, DOMAIN c \subseteq Int,
         \A j \in DOMAIN c : c[i].key = c[j].key => i = j
  PROVE  Matches(c, c[i].key) = {i} /\ GetPair(c, c[i].key) = i
<1>1. Matches(c, c[i].key) = {i}
  BY DEF Matches
<1>2. QED
  BY <1>1 DEF GetPair

\* A key that exists has its one pair in its own chain.
LEMMA PlaceFound ==
  ASSUME TypeOK, OnePairPerKey, NEW k \in Keys, Exists(k)
  PROVE  /\ Chain(k) \in Seq(Pair)
         /\ Place(k) \in DOMAIN Chain(k)
         /\ Chain(k)[Place(k)] \in Pair
         /\ Chain(k)[Place(k)].key = k
         /\ Matches(Chain(k), k) = {Place(k)}
<1>1. IndexOf(k) \in Indices
  BY IndexTyped
<1>2. Chain(k) \in Seq(Pair)
  BY <1>1 DEF TypeOK, Chain, Pair
<1>3. PICK i \in DOMAIN Chain(k) : Chain(k)[i].key = k
  BY DEF Exists, Matches
<1>4. \A j \in DOMAIN Chain(k) : Chain(k)[i].key = Chain(k)[j].key => i = j
  BY <1>1, <1>3 DEF OnePairPerKey, Chain
<1>5. Matches(Chain(k), k) = {i} /\ Place(k) = i
  <2>1. DOMAIN Chain(k) \subseteq Int
    BY <1>2
  <2>2. Matches(Chain(k), Chain(k)[i].key) = {i}
        /\ GetPair(Chain(k), Chain(k)[i].key) = i
    BY <1>4, <2>1, OnlyPair
  <2>3. QED
    BY <1>3, <2>2 DEF Place
<1>6. QED
  BY <1>2, <1>3, <1>5

\* The current value of a key is a text.
LEMMA GetValueText ==
  ASSUME TypeOK, OnePairPerKey, NEW k \in Keys, Exists(k)
  PROVE  GetValue(k) \in Text
BY PlaceFound DEF GetValue, Pair

\* Writing to the pair of a key leaves every key where it was.
LEMMA Rewritten ==
  ASSUME TypeOK, OnePairPerKey, key \in Keys, Exists(key),
         NEW p \in Pair, p.key = key,
         buckets' = [buckets EXCEPT ![IndexOf(key)][Place(key)] = p]
  PROVE  /\ buckets' \in [Indices -> Seq(Pair)]
         /\ \A b \in Indices :
              /\ DOMAIN buckets'[b] = DOMAIN buckets[b]
              /\ \A i \in DOMAIN buckets[b] :
                   /\ buckets'[b][i].key = buckets[b][i].key
                   /\ buckets'[b][i] =
                        IF b = IndexOf(key) /\ i = Place(key) THEN p
                        ELSE buckets[b][i]
<1>1. /\ Chain(key) \in Seq(Pair) /\ Place(key) \in DOMAIN Chain(key)
      /\ Chain(key)[Place(key)].key = key
      /\ IndexOf(key) \in Indices
  BY PlaceFound, IndexTyped
<1>2. buckets \in [Indices -> Seq(Pair)]
  BY DEF TypeOK, Pair
<1> DEFINE d == [Chain(key) EXCEPT ![Place(key)] = p]
<1>3. d \in Seq(Pair) /\ DOMAIN d = DOMAIN Chain(key)
  BY <1>1
<1>4. buckets' = [buckets EXCEPT ![IndexOf(key)] = d]
  BY DEF Chain
<1>5. \A i \in DOMAIN d : d[i] = IF i = Place(key) THEN p ELSE Chain(key)[i]
  BY <1>1
<1> HIDE DEF d
<1>6. buckets' \in [Indices -> Seq(Pair)]
  BY <1>1, <1>2, <1>3, <1>4
<1>7. ASSUME NEW b \in Indices, b /= IndexOf(key)
      PROVE  buckets'[b] = buckets[b]
  BY <1>2, <1>4, <1>7
<1>8. buckets'[IndexOf(key)] = d /\ buckets[IndexOf(key)] = Chain(key)
  BY <1>1, <1>2, <1>4 DEF Chain
<1>9. QED
  BY <1>1, <1>3, <1>5, <1>6, <1>7, <1>8

\* A new pair goes to the end of the chain of its key, and nothing moves.
LEMMA Linked ==
  ASSUME TypeOK, key \in Keys, NEW p \in Pair,
         buckets' = [buckets EXCEPT ![IndexOf(key)] = Append(@, p)]
  PROVE  /\ buckets' \in [Indices -> Seq(Pair)]
         /\ \A b \in Indices \ {IndexOf(key)} : buckets'[b] = buckets[b]
         /\ Len(Chain(key)) \in Nat
         /\ DOMAIN Chain(key) = 1 .. Len(Chain(key))
         /\ DOMAIN buckets'[IndexOf(key)] = 1 .. Len(Chain(key)) + 1
         /\ \A i \in DOMAIN Chain(key) : buckets'[IndexOf(key)][i] = Chain(key)[i]
         /\ buckets'[IndexOf(key)][Len(Chain(key)) + 1] = p
<1>1. /\ IndexOf(key) \in Indices /\ buckets \in [Indices -> Seq(Pair)]
      /\ Chain(key) \in Seq(Pair)
  BY IndexTyped DEF TypeOK, Pair, Chain
<1> DEFINE d == Append(Chain(key), p)
<1>2. /\ d \in Seq(Pair) /\ Len(Chain(key)) \in Nat
      /\ DOMAIN Chain(key) = 1 .. Len(Chain(key))
      /\ DOMAIN d = 1 .. Len(Chain(key)) + 1
      /\ \A i \in DOMAIN Chain(key) : d[i] = Chain(key)[i]
      /\ d[Len(Chain(key)) + 1] = p
  BY <1>1
<1>3. buckets' = [buckets EXCEPT ![IndexOf(key)] = d]
  BY DEF Chain
<1> HIDE DEF d
<1>4. QED
  BY <1>1, <1>2, <1>3

-----------------------------------------------------------------------------
(* The invariant.                                                           *)

\* The parts of the invariant that speak of the chains only.
ChainsOK ==
  /\ buckets \in [Indices -> Seq(Pair)]
  /\ OnePairPerKey
  /\ ValueFits

\* Empty chains satisfy every part that speaks of them.
LEMMA FreshChains == /\ buckets = Fresh => ChainsOK
                     /\ buckets' = Fresh => ChainsOK'
<1>1. ASSUME NEW f, f = Fresh
      PROVE  f \in [Indices -> Seq(Pair)] /\ \A b \in Indices : DOMAIN f[b] = {}
  <2>1. << >> \in Seq(Pair) /\ DOMAIN << >> = {}
    OBVIOUS
  <2>2. QED
    BY <1>1, <2>1 DEF Fresh
<1>2. QED
  BY <1>1 DEF ChainsOK, OnePairPerKey, ValueFits

\* As do chains that a step leaves alone.
LEMMA SameChains == MapInv /\ UNCHANGED buckets => ChainsOK'
  BY DEF MapInv, TypeOK, Pair, ChainsOK, OnePairPerKey, ValueFits

\* Writing a value that fits to the pair of its key keeps the chains right.
LEMMA RewrittenChains ==
  ASSUME MapInv, Exists(key), NEW p \in Pair, p.key = key, Len(p.value) < p.room,
         buckets' = [buckets EXCEPT ![IndexOf(key)][Place(key)] = p]
  PROVE  /\ ChainsOK'
         /\ \A k \in Keys :
              /\ Matches(buckets'[IndexOf(k)], k) = Matches(Chain(k), k)
              /\ GetPair(buckets'[IndexOf(k)], k) = Place(k)
         /\ buckets'[IndexOf(key)][Place(key)] = p
<1>1. TypeOK /\ OnePairPerKey /\ ValueFits /\ key \in Keys
  BY DEF MapInv, TypeOK
<1>2. /\ buckets' \in [Indices -> Seq(Pair)]
      /\ \A b \in Indices :
           /\ DOMAIN buckets'[b] = DOMAIN buckets[b]
           /\ \A i \in DOMAIN buckets[b] :
                /\ buckets'[b][i].key = buckets[b][i].key
                /\ buckets'[b][i] =
                     IF b = IndexOf(key) /\ i = Place(key) THEN p
                     ELSE buckets[b][i]
  BY <1>1, Rewritten
<1>3. OnePairPerKey'
  <2> SUFFICES ASSUME NEW b \in Indices, NEW i \in DOMAIN buckets'[b]
               PROVE  /\ IndexOf(buckets'[b][i].key) = b
                      /\ \A j \in DOMAIN buckets'[b] :
                           buckets'[b][i].key = buckets'[b][j].key => i = j
    BY DEF OnePairPerKey, IndexOf
  <2>1. \A j \in DOMAIN buckets'[b] :
          j \in DOMAIN buckets[b] /\ buckets'[b][j].key = buckets[b][j].key
    BY <1>2
  <2>2. QED
    BY <1>1, <2>1 DEF OnePairPerKey
<1>4. ValueFits'
  BY <1>1, <1>2 DEF ValueFits
<1>5. ASSUME NEW k \in Keys
      PROVE  /\ Matches(buckets'[IndexOf(k)], k) = Matches(Chain(k), k)
             /\ GetPair(buckets'[IndexOf(k)], k) = Place(k)
  <2>1. IndexOf(k) \in Indices
    BY IndexTyped
  <2>2. Matches(buckets'[IndexOf(k)], k) = Matches(Chain(k), k)
    BY <1>2, <2>1, Zenon DEF Matches, Chain
  <2>3. QED
    BY <2>2, Zenon DEF GetPair, Place
<1>6. buckets'[IndexOf(key)][Place(key)] = p
  BY <1>1, <1>2, PlaceFound, IndexTyped DEF Chain
<1>7. QED
  BY <1>2, <1>3, <1>4, <1>5, <1>6 DEF ChainsOK

\* Linking a pair for a key that has none keeps the chains right.
LEMMA LinkedChains ==
  ASSUME MapInv, ~Exists(key), NEW p \in Pair, p.key = key, Len(p.value) < p.room,
         buckets' = [buckets EXCEPT ![IndexOf(key)] = Append(@, p)]
  PROVE  ChainsOK'
<1>1. /\ TypeOK /\ OnePairPerKey /\ ValueFits /\ key \in Keys
      /\ IndexOf(key) \in Indices
  BY IndexTyped DEF MapInv, TypeOK
<1> DEFINE n == Len(Chain(key)) + 1
<1>2. /\ buckets' \in [Indices -> Seq(Pair)]
      /\ \A b \in Indices \ {IndexOf(key)} : buckets'[b] = buckets[b]
      /\ Len(Chain(key)) \in Nat
      /\ DOMAIN Chain(key) = 1 .. Len(Chain(key))
      /\ DOMAIN buckets'[IndexOf(key)] = 1 .. n
      /\ \A i \in DOMAIN Chain(key) : buckets'[IndexOf(key)][i] = Chain(key)[i]
      /\ buckets'[IndexOf(key)][n] = p
  BY <1>1, Linked
<1>3. n \in Nat /\ 1 .. n = (1 .. Len(Chain(key))) \cup {n}
  BY <1>2
<1> HIDE DEF n
<1>4. \A i \in DOMAIN Chain(key) : Chain(key)[i].key /= key
  BY DEF Exists, Matches
<1>5. OnePairPerKey'
  <2> SUFFICES ASSUME NEW b \in Indices, NEW i \in DOMAIN buckets'[b]
               PROVE  /\ IndexOf(buckets'[b][i].key) = b
                      /\ \A j \in DOMAIN buckets'[b] :
                           buckets'[b][i].key = buckets'[b][j].key => i = j
    BY DEF OnePairPerKey, IndexOf
  <2>1. CASE b /= IndexOf(key)
    BY <1>1, <1>2, <2>1 DEF OnePairPerKey
  <2>2. CASE b = IndexOf(key) /\ i /= n
    <3>1. i \in DOMAIN Chain(key) /\ buckets'[b][i] = Chain(key)[i]
      BY <1>2, <1>3, <2>2
    <3>2. \A j \in DOMAIN Chain(key) : Chain(key)[i].key = Chain(key)[j].key => i = j
      BY <1>1, <3>1 DEF OnePairPerKey, Chain
    <3>3. IndexOf(Chain(key)[i].key) = b
      BY <1>1, <2>2, <3>1 DEF OnePairPerKey, Chain
    <3>4. IndexOf(buckets'[b][i].key) = b
      BY <3>1, <3>3, Zenon
    <3>5. \A j \in DOMAIN buckets'[b] :
            \/ j = n /\ buckets'[b][j].key = key
            \/ j \in DOMAIN Chain(key) /\ buckets'[b][j] = Chain(key)[j]
      BY <1>2, <1>3, <2>2
    <3>6. ASSUME NEW j \in DOMAIN buckets'[b],
                 buckets'[b][i].key = buckets'[b][j].key
          PROVE  i = j
      BY <1>4, <3>1, <3>2, <3>5, <3>6, Zenon
    <3>7. QED
      BY <3>4, <3>6
  <2>3. CASE b = IndexOf(key) /\ i = n
    <3>1. buckets'[b][i].key = key
      BY <1>2, <2>3
    <3>2. \A j \in DOMAIN buckets'[b] :
            j = n \/ (j \in DOMAIN Chain(key) /\ buckets'[b][j] = Chain(key)[j])
      BY <1>2, <1>3, <2>3
    <3>3. IndexOf(buckets'[b][i].key) = b
      BY <2>3, <3>1, Zenon
    <3>4. ASSUME NEW j \in DOMAIN buckets'[b],
                 buckets'[b][i].key = buckets'[b][j].key
          PROVE  i = j
      BY <1>4, <2>3, <3>1, <3>2, <3>4
    <3>5. QED
      BY <3>3, <3>4
  <2>4. QED
    BY <2>1, <2>2, <2>3
<1>6. ValueFits'
  <2> SUFFICES ASSUME NEW b \in Indices, NEW i \in DOMAIN buckets'[b]
               PROVE  Len(buckets'[b][i].value) < buckets'[b][i].room
    BY DEF ValueFits
  <2>1. CASE b /= IndexOf(key)
    BY <1>1, <1>2, <2>1 DEF ValueFits
  <2>2. CASE b = IndexOf(key) /\ i /= n
    <3>1. i \in DOMAIN Chain(key) /\ buckets'[b][i] = Chain(key)[i]
      BY <1>2, <1>3, <2>2
    <3>2. QED
      BY <1>1, <2>2, <3>1 DEF ValueFits, Chain
  <2>3. CASE b = IndexOf(key) /\ i = n
    BY <1>2, <2>3
  <2>4. QED
    BY <2>1, <2>2, <2>3
<1>7. QED
  BY <1>2, <1>5, <1>6 DEF ChainsOK

\* The rest of the type invariant.
ArgsOK ==
  /\ live \in BOOLEAN
  /\ at \in {"none", "idle", "lookup", "grow", "copy", "key", "value", "pairs"}
  /\ key \in Keys /\ value \in Text /\ joined \in BOOLEAN
  /\ result \in BOOLEAN

LEMMA MapInvParts ==
  /\ MapInv <=> ChainsOK /\ ArgsOK /\ CopyFits /\ CallOK
  /\ MapInv' <=> ChainsOK' /\ ArgsOK' /\ CopyFits' /\ CallOK'
BY DEF MapInv, TypeOK, Pair, ChainsOK, ArgsOK

LEMMA MapInit == Init => MapInv
<1> SUFFICES ASSUME Init PROVE MapInv
  OBVIOUS
<1>1. ChainsOK
  BY FreshChains DEF Init
<1>2. ArgsOK
  <2>1. << >> \in Text
    BY DEF Text
  <2>2. QED
    BY <2>1 DEF Init, ArgsOK
<1>3. CopyFits /\ CallOK
  BY DEF Init, CopyFits, CallOK
<1>4. QED
  BY <1>1, <1>2, <1>3, MapInvParts

\* A call between two others, or the first step of a put, reads the chains.
LEMMA CallStep ==
  ASSUME MapInv, NEW k \in Keys, NEW v \in Inputs, Put(k, v) \/ Add(k, v)
  PROVE  MapInv'
<1> USE MapInvParts
<1>1. v \in Text /\ TypeOK /\ OnePairPerKey
  BY InputsAssumption DEF MapInv
<1>2. ASSUME NEW r \in BOOLEAN, at = "idle", Return(r) PROVE MapInv'
  <2>1. ChainsOK'
    BY <1>2, SameChains DEF Return
  <2>2. ArgsOK' /\ CopyFits' /\ CallOK'
    BY <1>2 DEF Return, args, ArgsOK, CopyFits, CallOK
  <2>3. QED
    BY <2>1, <2>2
<1>3. ASSUME live, NEW w \in Text, NEW own \in BOOLEAN, Enter(k, w, own) PROVE MapInv'
  <2>1. ChainsOK'
    BY <1>3, SameChains DEF Enter
  <2>2. ArgsOK' /\ CopyFits' /\ CallOK'
    BY <1>3 DEF Enter, ArgsOK, CopyFits, CallOK
  <2>3. QED
    BY <2>1, <2>2
<1>4. CASE Put(k, v)
  BY <1>1, <1>2, <1>3, <1>4 DEF Put
<1>5. CASE AddNothing(v)
  BY <1>2, <1>5 DEF AddNothing
<1>6. CASE AddNew(k, v)
  BY <1>1, <1>3, <1>6 DEF AddNew
<1>7. CASE AddListed(k, v)
  <2>1. Listed(GetValue(k), Trim(v)) \in Text
    BY <1>1, <1>7, GetValueText, TrimText, ListedText DEF AddListed
  <2>2. QED
    BY <1>2, <1>3, <1>7, <2>1 DEF AddListed
<1>8. QED
  BY <1>2, <1>4, <1>5, <1>6, <1>7 DEF Add

\* Every step of a put keeps the invariant, whichever allocation fails.
LEMMA PutStepKeeps == ASSUME MapInv, PutStep PROVE MapInv'
<1> USE MapInvParts
<1>1. /\ TypeOK /\ OnePairPerKey /\ ValueFits /\ ArgsOK /\ ChainsOK
      /\ Len(value) \in Nat /\ key \in Keys /\ value \in Text
  <2>1. TypeOK /\ OnePairPerKey /\ ValueFits
    BY DEF MapInv
  <2>2. Len(value) \in Nat /\ key \in Keys /\ value \in Text
    BY <2>1 DEF TypeOK, Text
  <2>3. QED
    BY <2>1, <2>2
<1>2. ASSUME NEW r \in BOOLEAN, NEW n, Finish(r, n), live, ChainsOK' PROVE MapInv'
  <2>1. << >> \in Text
    BY DEF Text
  <2>2. ArgsOK' /\ CopyFits' /\ CallOK'
    BY <1>2, <2>1 DEF Finish, ArgsOK, CopyFits, CallOK
  <2>3. QED
    BY <1>2, <2>2
<1>3. ASSUME UNCHANGED buckets PROVE ChainsOK'
  BY <1>3, SameChains
<1>4. CASE Lookup
  <2>1. ChainsOK' /\ ArgsOK'
    BY <1>3, <1>4 DEF Lookup, args, ArgsOK
  <2>2. CallOK'
    BY <1>4 DEF Lookup, args, CallOK, Exists, GetValue, Place, Chain
  <2>3. CopyFits'
    <3>1. CASE at' /= "copy"
      BY <3>1 DEF CopyFits
    <3>2. CASE at' = "copy"
      <4>1. Exists(key) /\ ~(Len(GetValue(key)) < Len(value))
        BY <1>4, <3>2 DEF Lookup
      <4>2. Len(GetValue(key)) < Chain(key)[Place(key)].room
        BY <1>1, <4>1, PlaceFound, IndexTyped DEF ValueFits, GetValue, Chain
      <4>3. Len(GetValue(key)) \in Nat /\ Chain(key)[Place(key)].room \in Nat
        BY <1>1, <4>1, PlaceFound DEF GetValue, Pair, Text
      <4>4. Len(value) < Chain(key)[Place(key)].room
        BY <1>1, <4>1, <4>2, <4>3
      <4>5. QED
        BY <1>4, <4>1, <4>4 DEF CopyFits, Lookup, args, Exists, Place, Chain
    <3>3. QED
      BY <3>1, <3>2
  <2>4. QED
    BY <2>1, <2>2, <2>3
<1>5. CASE AllocateKey
  BY <1>2, <1>3, <1>5
     DEF AllocateKey, Allocate, args, ArgsOK, CopyFits, CallOK, Exists, Chain
<1>6. CASE AllocateValue
  BY <1>2, <1>3, <1>6
     DEF AllocateValue, Allocate, args, ArgsOK, CopyFits, CallOK, Exists, Chain
<1> DEFINE old == Chain(key)[Place(key)]
<1>7. ASSUME Exists(key)
      PROVE  /\ old \in Pair /\ old.key = key /\ GetValue(key) = old.value
             /\ Len(old.value) \in Nat /\ Len(old.value) < old.room
  BY <1>1, <1>7, PlaceFound, IndexTyped DEF Pair, Text, GetValue, ValueFits, Chain
<1>8. CASE Grow
  <2>1. Exists(key) /\ live /\ Len(GetValue(key)) < Len(value)
    BY <1>8 DEF Grow, MapInv, CallOK
  <2>2. CASE Finish(FALSE, 0) /\ UNCHANGED buckets
    BY <1>2, <1>3, <2>1, <2>2
  <2>3. CASE ~(Finish(FALSE, 0) /\ UNCHANGED buckets)
    <3> DEFINE p == [old EXCEPT !.room = Len(value) + 1]
    <3>1. /\ p \in Pair /\ p.key = key /\ Len(p.value) < p.room
          /\ p.room = Len(value) + 1
      BY <1>1, <1>7, <2>1 DEF Pair
    <3>2. /\ at' = "copy"
          /\ buckets' = [buckets EXCEPT ![IndexOf(key)][Place(key)] = p]
          /\ UNCHANGED <<live, args, heap, result>>
      BY <1>8, <2>3 DEF Grow, Chain
    <3> HIDE DEF p
    <3>3. /\ ChainsOK'
          /\ Matches(buckets'[IndexOf(key)], key) = Matches(Chain(key), key)
          /\ GetPair(buckets'[IndexOf(key)], key) = Place(key)
          /\ buckets'[IndexOf(key)][Place(key)] = p
      BY <1>1, <2>1, <3>1, <3>2, RewrittenChains
    <3>4. ArgsOK'
      BY <1>1, <3>2 DEF ArgsOK, args
    <3>5. Exists(key)' /\ Chain(key)'[Place(key)'] = p
      BY <2>1, <3>2, <3>3 DEF args, Exists, Place, Chain, IndexOf
    <3>6. CallOK'
      BY <2>1, <3>2, <3>5 DEF CallOK
    <3>7. CopyFits'
      BY <1>1, <3>1, <3>2, <3>5 DEF CopyFits, args
    <3>8. QED
      BY <3>3, <3>4, <3>6, <3>7
  <2>4. QED
    BY <2>2, <2>3
<1>9. CASE Copy
  <2>1. Exists(key) /\ live /\ Len(value) < old.room
    BY <1>9 DEF Copy, MapInv, CallOK, CopyFits
  <2> DEFINE p == [old EXCEPT !.value = value]
  <2>2. p \in Pair /\ p.key = key /\ Len(p.value) < p.room
    BY <1>1, <1>7, <2>1 DEF Pair
  <2>3. buckets' = [buckets EXCEPT ![IndexOf(key)][Place(key)] = p]
    BY <1>9 DEF Copy, Chain
  <2> HIDE DEF p
  <2>4. ChainsOK'
    BY <2>1, <2>2, <2>3, RewrittenChains
  <2>5. QED
    BY <1>2, <1>9, <2>1, <2>4 DEF Copy
<1>10. CASE Link
  <2>1. ~Exists(key) /\ live
    BY <1>10 DEF Link, MapInv, CallOK
  <2>2. CASE Finish(FALSE, -2) /\ UNCHANGED buckets
    BY <1>2, <1>3, <2>1, <2>2
  <2>3. CASE ~(Finish(FALSE, -2) /\ UNCHANGED buckets)
    <3> DEFINE p == [key |-> key, value |-> value, room |-> Len(value) + 1]
    <3>1. p \in Pair /\ p.key = key /\ Len(p.value) < p.room
      BY <1>1 DEF Pair
    <3>2. /\ buckets' = [buckets EXCEPT ![IndexOf(key)] = Append(@, p)]
          /\ Finish(TRUE, IF Chain(key) = << >> THEN 1 ELSE 0)
      BY <1>10, <2>3 DEF Link
    <3> HIDE DEF p
    <3>3. ChainsOK'
      BY <2>1, <3>1, <3>2, LinkedChains
    <3>4. QED
      BY <1>2, <2>1, <3>2, <3>3
  <2>4. QED
    BY <2>2, <2>3
<1>11. QED
  BY <1>4, <1>5, <1>6, <1>8, <1>9, <1>10 DEF PutStep

\* The invariant is inductive.
LEMMA MapStep == MapInv /\ [Next]_mapVars => MapInv'
<1> SUFFICES ASSUME MapInv, [Next]_mapVars PROVE MapInv'
  OBVIOUS
<1> USE MapInvParts
<1>1. CASE UNCHANGED mapVars
  <2>1. ChainsOK'
    BY <1>1, SameChains DEF mapVars
  <2>2. ArgsOK' /\ CopyFits' /\ CallOK'
    BY <1>1 DEF mapVars, args, ArgsOK, CopyFits, CallOK, Exists, Place, GetValue, Chain
  <2>3. QED
    BY <2>1, <2>2
<1>2. CASE New
  <2>1. ChainsOK'
    BY <1>2, FreshChains DEF New
  <2>2. ArgsOK' /\ CopyFits' /\ CallOK'
    BY <1>2 DEF New, args, ArgsOK, CopyFits, CallOK
  <2>3. QED
    BY <2>1, <2>2
<1>3. CASE Delete
  <2>1. ChainsOK'
    BY <1>3, FreshChains DEF Delete
  <2>2. ArgsOK' /\ CopyFits' /\ CallOK'
    BY <1>3 DEF Delete, args, ArgsOK, CopyFits, CallOK
  <2>3. QED
    BY <2>1, <2>2
<1>4. CASE Enum
  <2>1. ChainsOK'
    BY <1>4, SameChains DEF Enum, Return
  <2>2. ArgsOK' /\ CopyFits' /\ CallOK'
    BY <1>4 DEF Enum, Return, args, ArgsOK, CopyFits, CallOK
  <2>3. QED
    BY <2>1, <2>2
<1>5. CASE PutStep
  BY <1>5, PutStepKeeps
<1>6. CASE \E k \in Keys, v \in Inputs : Put(k, v) \/ Add(k, v)
  BY <1>6, CallStep
<1>7. QED
  BY <1>1, <1>2, <1>3, <1>4, <1>5, <1>6 DEF Next

\* The invariant holds in every state.
LEMMA MapInvHolds == Spec => []MapInv
<1>1. QED
  BY MapInit, MapStep, PTL DEF Spec

\* pi_strmap.c keeps its variables in their types.
THEOREM MapTypesHold == Spec => []TypeOK
<1>1. MapInv => TypeOK
  BY DEF MapInv
<1>2. QED
  BY <1>1, MapInvHolds, PTL

\* No sequence of calls and failed allocations gives a key a second pair, or
\* a pair in a bucket where get_pair() does not look for it.
THEOREM OnePairPerKeyHolds == Spec => []OnePairPerKey
<1>1. MapInv => OnePairPerKey
  BY DEF MapInv
<1>2. QED
  BY <1>1, MapInvHolds, PTL

\* Every value lies inside its block, although pi_strmap_put() looks at the
\* length of the old value and not at the size of its block.
THEOREM ValueFitsHolds == Spec => []ValueFits
<1>1. MapInv => ValueFits
  BY DEF MapInv
<1>2. QED
  BY <1>1, MapInvHolds, PTL

\* The strcpy() of a put finds its pair and room for the new value, at the
\* time it is done.
THEOREM CopyFitsHolds == Spec => []CopyFits
<1>1. MapInv => CopyFits
  BY DEF MapInv
<1>2. QED
  BY <1>1, MapInvHolds, PTL

-----------------------------------------------------------------------------
(* The blocks of the heap.                                                  *)

\* The count of pairs is that of a finite set, and what is joined belongs to a
\* call under way.
HeapInv ==
  /\ MapInv
  /\ at \in {"none", "idle"} => ~joined
  /\ IsFiniteSet(Places)
  /\ NothingLost

\* There are finitely many buckets, so the sums are of numbers.
LEMMA BlocksTyped ==
  ASSUME IsFiniteSet(Places)
  PROVE  /\ IsFiniteSet(Used) /\ Cardinality(Used) \in Nat
         /\ GetCount \in Nat /\ MapBlocks \in Nat
<1>1. IsFiniteSet(Indices)
  BY FS_Interval, CapacityAssumption DEF Indices
<1>2. IsFiniteSet(Used)
  BY <1>1, FS_Subset DEF Used
<1>3. Cardinality(Used) \in Nat /\ Cardinality(Places) \in Nat
  BY <1>2, FS_CardinalityType
<1>4. QED
  BY <1>2, <1>3 DEF GetCount, MapBlocks

\* An empty map is two blocks: its record and its array of buckets.
LEMMA FreshBlocks ==
  /\ buckets = Fresh => IsFiniteSet(Places) /\ MapBlocks = 2
  /\ buckets' = Fresh => IsFiniteSet(Places') /\ MapBlocks' = 2
<1>1. \A i \in Indices : Fresh[i] = << >> /\ DOMAIN Fresh[i] = {}
  <2>1. DOMAIN << >> = {}
    OBVIOUS
  <2>2. QED
    BY <2>1 DEF Fresh
<1>2. IsFiniteSet({}) /\ Cardinality({}) = 0
  BY FS_EmptySet
<1>3. ASSUME buckets = Fresh PROVE Places = {} /\ Used = {}
  BY <1>1, <1>3 DEF Places, Used
<1>4. ASSUME buckets' = Fresh PROVE Places' = {} /\ Used' = {}
  BY <1>1, <1>4 DEF Places, Used
<1>5. QED
  BY <1>2, <1>3, <1>4 DEF MapBlocks, GetCount

\* A step that leaves every chain as long as it was allocates none of its blocks.
LEMMA SameBlocks ==
  ASSUME buckets \in [Indices -> Seq(Pair)], buckets' \in [Indices -> Seq(Pair)],
         \A b \in Indices : DOMAIN buckets'[b] = DOMAIN buckets[b]
  PROVE  Places' = Places /\ MapBlocks' = MapBlocks
<1>1. Places' = Places
  BY DEF Places
<1>2. \A b \in Indices : buckets'[b] = << >> <=> buckets[b] = << >>
  <2>1. \A s \in Seq(Pair) : s = << >> <=> DOMAIN s = {}
    <3>1. \A s \in Seq(Pair) : s = << >> <=> Len(s) = 0
      OBVIOUS
    <3>2. \A s \in Seq(Pair) : Len(s) \in Nat /\ DOMAIN s = 1 .. Len(s)
      OBVIOUS
    <3>3. \A n \in Nat : 1 .. n = {} <=> n = 0
      <4>1. \A n \in Nat \ {0} : 1 \in 1 .. n
        OBVIOUS
      <4>2. 1 .. 0 = {}
        OBVIOUS
      <4>3. QED
        BY <4>1, <4>2
    <3>4. QED
      BY <3>1, <3>2, <3>3, Zenon
  <2>2. QED
    BY <2>1
<1>3. Used' = Used
  BY <1>2 DEF Used
<1>4. QED
  BY <1>1, <1>3 DEF MapBlocks, GetCount

\* A new pair is a key, a value and, for the first of a bucket, its array.
LEMMA LinkedBlocks ==
  ASSUME TypeOK, key \in Keys, NEW p \in Pair, IsFiniteSet(Places),
         buckets' = [buckets EXCEPT ![IndexOf(key)] = Append(@, p)]
  PROVE  /\ IsFiniteSet(Places')
         /\ MapBlocks' = MapBlocks + 2 + (IF Chain(key) = << >> THEN 1 ELSE 0)
<1> DEFINE h == IndexOf(key)
           n == Len(Chain(key)) + 1
<1>1. h \in Indices /\ Chain(key) = buckets[h]
  BY IndexTyped DEF Chain
<1>2. /\ buckets' \in [Indices -> Seq(Pair)]
      /\ \A b \in Indices \ {h} : buckets'[b] = buckets[b]
      /\ Len(Chain(key)) \in Nat
      /\ DOMAIN buckets[h] = 1 .. Len(Chain(key))
      /\ DOMAIN buckets'[h] = 1 .. n
  BY <1>1, Linked
<1>3. /\ 1 .. n = (1 .. Len(Chain(key))) \cup {n}
      /\ n \notin DOMAIN buckets[h] /\ 1 .. n /= {}
  BY <1>2
<1> HIDE DEF h, n
<1>4. DOMAIN buckets'[h] = DOMAIN buckets[h] \cup {n}
  BY <1>2, <1>3
<1>5. Places' = Places \cup {<<h, n>>}
  BY <1>1, <1>2, <1>4 DEF Places
<1>6. <<h, n>> \notin Places
  BY <1>3 DEF Places
<1>7. Used' = Used \cup {h}
  <2>1. buckets'[h] /= << >>
    <3>1. DOMAIN << >> = {}
      OBVIOUS
    <3>2. QED
      BY <1>2, <1>3, <3>1
  <2>2. QED
    BY <1>1, <1>2, <2>1 DEF Used
<1>8. h \in Used <=> Chain(key) /= << >>
  BY <1>1 DEF Used
<1>9. /\ IsFiniteSet(Places') /\ Cardinality(Places') = Cardinality(Places) + 1
  BY <1>5, <1>6, FS_AddElement
<1>10. Cardinality(Used') = Cardinality(Used) + (IF Chain(key) = << >> THEN 1 ELSE 0)
  <2>1. Cardinality(Used') = IF h \in Used THEN Cardinality(Used) ELSE Cardinality(Used) + 1
    BY <1>7, BlocksTyped, FS_AddElement
  <2>2. QED
    BY <1>8, <2>1, BlocksTyped
<1>11. QED
  BY <1>9, <1>10, BlocksTyped DEF MapBlocks, GetCount

LEMMA HeapInit == Init => HeapInv
<1> SUFFICES ASSUME Init PROVE HeapInv
  OBVIOUS
<1>1. IsFiniteSet(Places) /\ MapInv
  BY FreshBlocks, MapInit DEF Init
<1>2. NothingLost
  BY DEF Init, NothingLost, Held
<1>3. QED
  BY <1>1, <1>2 DEF HeapInv, Init

\* A call that starts, or is answered at once, holds at most what it joined.
LEMMA HeapCallStep ==
  ASSUME HeapInv, NEW k \in Keys, NEW v \in Inputs, Put(k, v) \/ Add(k, v)
  PROVE  HeapInv'
<1>1. MapInv' /\ ~joined /\ MapBlocks \in Nat /\ at = "idle"
  BY CallStep, BlocksTyped DEF HeapInv, Put, Add, AddNothing, AddNew, AddListed
<1>2. UNCHANGED <<live, buckets>>
  BY DEF Put, Add, AddNothing, AddNew, AddListed, Enter, Return
<1>3. Places' = Places /\ MapBlocks' = MapBlocks
  BY <1>2 DEF Places, MapBlocks, GetCount, Used
<1>4. CASE \E r \in BOOLEAN : Return(r)
  BY <1>1, <1>3, <1>4 DEF HeapInv, Return, args, NothingLost, Held
<1>5. CASE \E w : \E own \in BOOLEAN : Enter(k, w, own)
  BY <1>1, <1>3, <1>5 DEF HeapInv, Enter, NothingLost, Held
<1>6. (\E r \in BOOLEAN : Return(r)) \/ (\E w : \E own \in BOOLEAN : Enter(k, w, own))
  <2>1. CASE Put(k, v)
    BY <2>1, Zenon DEF Put
  <2>2. CASE Add(k, v)
    BY <2>2, Zenon DEF Add, AddNothing, AddNew, AddListed
  <2>3. QED
    BY <2>1, <2>2
<1>7. QED
  BY <1>4, <1>5, <1>6

\* Every step of a put accounts for its blocks, whichever allocation fails.
LEMMA HeapPutStep == ASSUME HeapInv, PutStep PROVE HeapInv'
<1>1. /\ MapInv' /\ TypeOK /\ OnePairPerKey /\ CallOK
      /\ MapBlocks \in Nat /\ joined \in BOOLEAN /\ key \in Keys /\ value \in Text
      /\ IsFiniteSet(Places) /\ NothingLost /\ buckets \in [Indices -> Seq(Pair)]
  <2>1. MapInv
    BY DEF HeapInv
  <2>2. TypeOK /\ OnePairPerKey /\ CallOK /\ buckets \in [Indices -> Seq(Pair)]
    BY <2>1, MapInvParts DEF MapInv, ChainsOK
  <2>3. joined \in BOOLEAN /\ key \in Keys /\ value \in Text
    BY <2>2 DEF TypeOK
  <2>4. QED
    BY <2>1, <2>2, <2>3, PutStepKeeps, BlocksTyped DEF HeapInv
<1>2. ASSUME UNCHANGED buckets PROVE Places' = Places /\ MapBlocks' = MapBlocks
  BY <1>2 DEF Places, MapBlocks, GetCount, Used
<1>3. ASSUME NEW n \in Int, at' = "idle", ~joined', live, live', IsFiniteSet(Places'),
             heap' = heap + n - (IF joined THEN 1 ELSE 0),
             at \in {"grow", "copy", "key", "value", "pairs"},
             MapBlocks' = MapBlocks + n
                          + (IF at = "value" THEN 1 ELSE IF at = "pairs" THEN 2 ELSE 0)
      PROVE  HeapInv'
  <2>1. heap = Held + MapBlocks /\ Held' = 0 /\ (NothingLost' <=> heap' = MapBlocks')
    BY <1>1, <1>3 DEF NothingLost, Held
  <2>2. heap' = MapBlocks'
    BY <1>1, <1>3, <2>1 DEF Held
  <2>3. QED
    BY <1>1, <1>3, <2>1, <2>2 DEF HeapInv
<1>4. CASE Lookup
  BY <1>1, <1>2, <1>4 DEF Lookup, args, HeapInv, NothingLost, Held
<1>5. CASE AllocateKey
  <2>1. at = "key" /\ live /\ UNCHANGED buckets
    BY <1>1, <1>5 DEF AllocateKey, Allocate, CallOK
  <2>2. CASE ~(at' = "value" /\ heap' = heap + 1 /\ UNCHANGED <<live, args, result>>)
    <3>1. Finish(FALSE, -0)
      BY <1>5, <2>2 DEF AllocateKey, Allocate
    <3>2. QED
      BY <1>1, <1>2, <1>3, <2>1, <3>1 DEF Finish
  <2>3. CASE at' = "value" /\ heap' = heap + 1 /\ UNCHANGED <<live, args, result>>
    BY <1>1, <1>2, <2>1, <2>3 DEF args, HeapInv, NothingLost, Held
  <2>4. QED
    BY <2>2, <2>3
<1>6. CASE AllocateValue
  <2>1. at = "value" /\ live /\ UNCHANGED buckets
    BY <1>1, <1>6 DEF AllocateValue, Allocate, CallOK
  <2>2. CASE ~(at' = "pairs" /\ heap' = heap + 1 /\ UNCHANGED <<live, args, result>>)
    <3>1. Finish(FALSE, -1)
      BY <1>6, <2>2 DEF AllocateValue, Allocate
    <3>2. QED
      BY <1>1, <1>2, <1>3, <2>1, <3>1 DEF Finish
  <2>3. CASE at' = "pairs" /\ heap' = heap + 1 /\ UNCHANGED <<live, args, result>>
    BY <1>1, <1>2, <2>1, <2>3 DEF args, HeapInv, NothingLost, Held
  <2>4. QED
    BY <2>2, <2>3
<1>7. ASSUME Exists(key), NEW p \in Pair, p.key = key,
             buckets' = [buckets EXCEPT ![IndexOf(key)][Place(key)] = p]
      PROVE  Places' = Places /\ MapBlocks' = MapBlocks
  BY <1>1, <1>7, Rewritten, SameBlocks
<1> DEFINE old == Chain(key)[Place(key)]
<1>8. Exists(key) => old \in Pair /\ old.key = key
  BY <1>1, PlaceFound
<1>9. CASE Grow
  <2>1. Exists(key) /\ at = "grow" /\ live /\ Len(value) \in Nat
    BY <1>1, <1>9 DEF Grow, CallOK, Text
  <2>2. CASE Finish(FALSE, 0) /\ UNCHANGED buckets
    BY <1>1, <1>2, <1>3, <2>1, <2>2 DEF Finish
  <2>3. CASE ~(Finish(FALSE, 0) /\ UNCHANGED buckets)
    <3> DEFINE p == [old EXCEPT !.room = Len(value) + 1]
    <3>1. p \in Pair /\ p.key = key
      BY <1>8, <2>1 DEF Pair
    <3>2. /\ at' = "copy"
          /\ buckets' = [buckets EXCEPT ![IndexOf(key)][Place(key)] = p]
          /\ UNCHANGED <<live, args, heap, result>>
      BY <1>9, <2>3 DEF Grow, Chain
    <3> HIDE DEF p
    <3>3. Places' = Places /\ MapBlocks' = MapBlocks
      BY <1>7, <2>1, <3>1, <3>2
    <3>4. QED
      BY <1>1, <2>1, <3>2, <3>3 DEF args, HeapInv, NothingLost, Held
  <2>4. QED
    BY <2>2, <2>3
<1>10. CASE Copy
  <2>1. Exists(key) /\ at = "copy" /\ live
    BY <1>1, <1>10 DEF Copy, CallOK
  <2> DEFINE p == [old EXCEPT !.value = value]
  <2>2. p \in Pair /\ p.key = key
    BY <1>1, <1>8, <2>1 DEF Pair
  <2>3. buckets' = [buckets EXCEPT ![IndexOf(key)][Place(key)] = p]
    BY <1>10 DEF Copy, Chain
  <2> HIDE DEF p
  <2>4. Places' = Places /\ MapBlocks' = MapBlocks
    BY <1>7, <2>1, <2>2, <2>3
  <2>5. /\ at' = "idle" /\ ~joined' /\ live' /\ IsFiniteSet(Places')
        /\ heap' = heap + 0 - (IF joined THEN 1 ELSE 0)
        /\ MapBlocks' = MapBlocks + 0
    BY <1>1, <1>10, <2>1, <2>4 DEF Copy, Finish
  <2>6. QED
    BY <1>3, <2>1, <2>5
<1>11. CASE Link
  <2>1. at = "pairs" /\ live /\ Len(value) \in Nat
    BY <1>1, <1>11 DEF Link, CallOK, Text
  <2>2. CASE Finish(FALSE, -2) /\ UNCHANGED buckets
    BY <1>1, <1>2, <1>3, <2>1, <2>2 DEF Finish
  <2>3. CASE ~(Finish(FALSE, -2) /\ UNCHANGED buckets)
    <3> DEFINE p == [key |-> key, value |-> value, room |-> Len(value) + 1]
               b == IF Chain(key) = << >> THEN 1 ELSE 0
    <3>1. p \in Pair /\ b \in Int
      BY <1>1, <2>1 DEF Pair
    <3>2. /\ buckets' = [buckets EXCEPT ![IndexOf(key)] = Append(@, p)]
          /\ Finish(TRUE, b)
      BY <1>11, <2>3 DEF Link
    <3>3. MapBlocks' = MapBlocks + 2 + b /\ IsFiniteSet(Places')
      BY <1>1, <3>1, <3>2, LinkedBlocks
    <3> HIDE DEF p, b
    <3>4. QED
      BY <1>1, <1>3, <2>1, <3>1, <3>2, <3>3 DEF Finish
  <2>4. QED
    BY <2>2, <2>3
<1>12. QED
  BY <1>4, <1>5, <1>6, <1>9, <1>10, <1>11 DEF PutStep

\* The invariant is inductive.
LEMMA HeapStep == HeapInv /\ [Next]_mapVars => HeapInv'
<1> SUFFICES ASSUME HeapInv, [Next]_mapVars PROVE HeapInv'
  OBVIOUS
<1>1. /\ MapInv' /\ MapInv /\ CallOK /\ MapBlocks \in Nat
      /\ IsFiniteSet(Places) /\ NothingLost
  BY MapStep, BlocksTyped DEF HeapInv, MapInv
<1>2. ASSUME UNCHANGED buckets PROVE Places' = Places /\ MapBlocks' = MapBlocks
  BY <1>2 DEF Places, MapBlocks, GetCount, Used
<1>3. CASE UNCHANGED mapVars
  BY <1>1, <1>2, <1>3 DEF mapVars, args, HeapInv, NothingLost, Held
<1>4. CASE New
  <2>1. IsFiniteSet(Places') /\ MapBlocks' = 2 /\ ~joined /\ ~live /\ heap = 0
    BY <1>1, <1>4, FreshBlocks DEF New, HeapInv, CallOK, NothingLost, Held
  <2>2. PICK blocks \in 0 .. 2 :
          /\ live' = (blocks = 2)
          /\ heap' = heap + blocks - (IF blocks = 1 THEN 1 ELSE 0)
    BY <1>4 DEF New
  <2>3. heap' = IF live' THEN 2 ELSE 0
    <3>1. heap' = IF blocks = 2 THEN 2 ELSE 0
      BY <2>1, <2>2
    <3>2. CASE blocks = 2
      BY <2>2, <3>1, <3>2
    <3>3. CASE blocks /= 2
      BY <2>2, <3>1, <3>3
    <3>4. QED
      BY <3>2, <3>3
  <2>4. at' = "idle" /\ ~joined'
    BY <1>4, <2>1 DEF New, args
  <2>5. QED
    BY <1>1, <2>1, <2>3, <2>4 DEF HeapInv, NothingLost, Held
<1>5. CASE Delete
  <2>1. IsFiniteSet(Places') /\ ~joined
    BY <1>5, FreshBlocks DEF Delete, HeapInv
  <2>2. heap' = 0
    BY <1>1, <1>5, <2>1 DEF Delete, NothingLost, Held
  <2>3. QED
    BY <1>1, <1>5, <2>1, <2>2 DEF Delete, args, HeapInv, NothingLost, Held
<1>6. CASE Enum
  BY <1>1, <1>2, <1>6 DEF Enum, Return, args, HeapInv, NothingLost, Held
<1>7. CASE PutStep
  BY <1>7, HeapPutStep
<1>8. CASE \E k \in Keys, v \in Inputs : Put(k, v) \/ Add(k, v)
  BY <1>8, HeapCallStep
<1>9. QED
  BY <1>3, <1>4, <1>5, <1>6, <1>7, <1>8 DEF Next

\* No sequence of calls and failed allocations loses a block of pi_strmap.c or
\* frees one twice: what the heap holds is what a delete would free.
THEOREM NothingLostHolds == Spec => []NothingLost
<1>1. HeapInv => NothingLost
  BY DEF HeapInv
<1>2. QED
  BY <1>1, HeapInit, HeapStep, PTL DEF Spec

-----------------------------------------------------------------------------
(* The map implements the abstract one: the table is what get_pair() finds. *)

\* A step that does not touch the chains does not touch the table.
LEMMA SameTable == ASSUME UNCHANGED buckets PROVE Table' = Table
  BY DEF Table, Exists, GetValue, Place, Chain

\* A new or deleted map is empty.
LEMMA FreshTable == /\ buckets = Fresh => Table = Map!Empty
                    /\ buckets' = Fresh => Table' = Map!Empty
<1>1. \A k \in Keys : Matches(Fresh[IndexOf(k)], k) = {}
  <2>1. DOMAIN << >> = {}
    OBVIOUS
  <2>2. QED
    BY <2>1, IndexTyped DEF Fresh, Matches
<1>2. QED
  BY <1>1 DEF Table, Map!Empty, Exists, Chain

\* The write of a value that is there already changes one entry.
LEMMA RewrittenTable ==
  ASSUME MapInv, Exists(key), NEW p \in Pair, p.key = key, Len(p.value) < p.room,
         buckets' = [buckets EXCEPT ![IndexOf(key)][Place(key)] = p]
  PROVE  Table' = [k \in DOMAIN Table \cup {key} |->
                     IF k = key THEN p.value ELSE Table[k]]
<1>1. TypeOK /\ OnePairPerKey /\ key \in Keys
  BY DEF MapInv, TypeOK
<1>2. /\ \A k \in Keys :
           /\ Matches(buckets'[IndexOf(k)], k) = Matches(Chain(k), k)
           /\ GetPair(buckets'[IndexOf(k)], k) = Place(k)
      /\ buckets'[IndexOf(key)][Place(key)] = p
  BY RewrittenChains
<1>3. \A k \in Keys : Exists(k)' <=> Exists(k)
  BY <1>2 DEF Exists, Chain, IndexOf
<1>4. ASSUME NEW k \in Keys, Exists(k)
      PROVE  GetValue(k)' = IF k = key THEN p.value ELSE GetValue(k)
  <2>1. GetValue(k)' = buckets'[IndexOf(k)][Place(k)].value
    BY <1>2 DEF GetValue, Place, Chain, IndexOf
  <2>2. CASE k = key
    BY <1>2, <2>1, <2>2
  <2>3. CASE k /= key
    <3>1. /\ IndexOf(k) \in Indices /\ Place(k) \in DOMAIN Chain(k)
          /\ Chain(k)[Place(k)].key = k
      BY <1>1, <1>4, PlaceFound, IndexTyped
    <3>2. Chain(key)[Place(key)].key = key
      BY <1>1, PlaceFound
    <3>3. ~(IndexOf(k) = IndexOf(key) /\ Place(k) = Place(key))
      BY <2>3, <3>1, <3>2 DEF Chain
    <3>4. buckets'[IndexOf(k)][Place(k)] = buckets[IndexOf(k)][Place(k)]
      BY <1>1, <3>1, <3>3, Rewritten DEF Chain
    <3>5. QED
      BY <2>1, <2>3, <3>4 DEF GetValue, Chain
  <2>4. QED
    BY <2>2, <2>3
<1>5. DOMAIN Table = {j \in Keys : Exists(j)} /\ key \in DOMAIN Table
  BY <1>1 DEF Table
<1>6. QED
  BY <1>3, <1>4, <1>5 DEF Table

\* The link of a new pair adds one entry.
LEMMA LinkedTable ==
  ASSUME MapInv, ~Exists(key), NEW p \in Pair, p.key = key,
         buckets' = [buckets EXCEPT ![IndexOf(key)] = Append(@, p)]
  PROVE  Table' = [k \in DOMAIN Table \cup {key} |->
                     IF k = key THEN p.value ELSE Table[k]]
<1>1. /\ TypeOK /\ OnePairPerKey /\ key \in Keys
      /\ IndexOf(key) \in Indices
  BY IndexTyped DEF MapInv, TypeOK
<1> DEFINE n == Len(Chain(key)) + 1
           new == buckets'[IndexOf(key)]
<1>2. /\ \A b \in Indices \ {IndexOf(key)} : buckets'[b] = buckets[b]
      /\ Len(Chain(key)) \in Nat
      /\ DOMAIN Chain(key) = 1 .. Len(Chain(key))
      /\ DOMAIN new = 1 .. n
      /\ \A i \in DOMAIN Chain(key) : new[i] = Chain(key)[i]
      /\ new[n] = p
  BY <1>1, Linked
<1>3. n \in Nat /\ 1 .. n = (1 .. Len(Chain(key))) \cup {n}
      /\ n \notin DOMAIN Chain(key)
  BY <1>2
<1> HIDE DEF n, new
<1>4. Matches(new, key) = {n}
  BY <1>2, <1>3 DEF Exists, Matches
<1>5. ASSUME NEW k \in Keys, k /= key
      PROVE  /\ Matches(buckets'[IndexOf(k)], k) = Matches(Chain(k), k)
             /\ \A i \in Matches(Chain(k), k) :
                  buckets'[IndexOf(k)][i] = Chain(k)[i]
  <2>1. IndexOf(k) \in Indices
    BY IndexTyped
  <2>2. CASE IndexOf(k) = IndexOf(key)
    <3>1. Chain(k) = Chain(key) /\ buckets'[IndexOf(k)] = new
      BY <2>2 DEF Chain, new
    <3>2. Matches(new, k) = Matches(Chain(key), k)
      BY <1>2, <1>3, <1>5 DEF Matches
    <3>3. \A i \in Matches(Chain(key), k) : new[i] = Chain(key)[i]
      BY <1>2 DEF Matches
    <3>4. QED
      BY <3>1, <3>2, <3>3
  <2>3. CASE IndexOf(k) /= IndexOf(key)
    BY <1>2, <2>1, <2>3 DEF Chain
  <2>4. QED
    BY <2>2, <2>3
<1>6. ASSUME NEW k \in Keys, k = key
      PROVE  Exists(k)' /\ GetValue(k)' = p.value
  <2>1. GetPair(new, key) = n
    BY <1>3, <1>4 DEF GetPair
  <2>2. QED
    BY <1>2, <1>4, <1>6, <2>1 DEF Exists, GetValue, Place, Chain, IndexOf, new
<1>7. ASSUME NEW k \in Keys, k /= key
      PROVE  (Exists(k)' <=> Exists(k)) /\ (Exists(k) => GetValue(k)' = GetValue(k))
  <2>1. (Exists(k)' <=> Exists(k)) /\ Place(k)' = Place(k)
    BY <1>5, <1>7, Zenon DEF Exists, Place, GetPair, Chain, IndexOf
  <2>2. ASSUME Exists(k) PROVE GetValue(k)' = GetValue(k)
    <3>1. Place(k) \in Matches(Chain(k), k)
      BY <1>1, <2>2, PlaceFound
    <3>2. QED
      BY <1>5, <1>7, <2>1, <3>1 DEF GetValue, Chain, IndexOf
  <2>3. QED
    BY <2>1, <2>2
<1>8. DOMAIN Table = {j \in Keys : Exists(j)} /\ {j \in Keys : Exists(j)'} = DOMAIN Table \cup {key}
  BY <1>1, <1>6, <1>7 DEF Table
<1>9. QED
  BY <1>6, <1>7, <1>8 DEF Table

\* What an initial state shows is an empty map that is not there yet.
LEMMA MapsInit == Init => Map!Init
<1> SUFFICES ASSUME Init PROVE Map!Init
  OBVIOUS
<1>1. Table = Map!Empty
  BY FreshTable DEF Init
<1>2. QED
  BY <1>1 DEF Init, Asked, Map!Init

\* Both speak of the same texts.
LEMMA SameTexts == /\ \A t : Map!Trim(t) = Trim(t)
                   /\ \A t, u : Map!Listed(t, u) = Listed(t, u)
BY Zenon DEF Map!Trim, Map!Solid, Map!Blank, Map!Min, Map!Max, Map!Listed, Map!Comma,
             Trim, Solid, Blank, Min, Max, Listed, Comma

\* A call asks for an association, or is answered at once.
LEMMA MapsCall ==
  ASSUME MapInv, NEW k \in Keys, NEW v \in Inputs, Put(k, v) \/ Add(k, v)
  PROVE  Map!Next
<1>1. ASSUME at = "idle", NEW r \in BOOLEAN, Return(r) PROVE Map!Next
  <2>1. Table' = Table
    BY <1>1, SameTable DEF Return
  <2>2. Map!Answer(r)
    BY <1>1, <2>1 DEF Return, Asked, args, Map!Answer
  <2>3. QED
    BY <2>2 DEF Map!Next
<1>2. ASSUME at = "idle", live, NEW w, NEW own, Enter(k, w, own) PROVE Map!Ask(k, w)
  <2>1. Table' = Table
    BY <1>2, SameTable DEF Enter
  <2>2. QED
    BY <1>2, <2>1 DEF Enter, Asked, Map!Ask
<1>3. Exists(k) => k \in DOMAIN Table /\ Table[k] = GetValue(k)
  BY DEF Table
<1>4. ~Exists(k) => k \notin DOMAIN Table
  BY DEF Table
<1>5. CASE Put(k, v)
  <2>1. CASE live
    BY <1>2, <1>5, <2>1 DEF Put, Map!Next
  <2>2. CASE ~live
    BY <1>1, <1>5, <2>2 DEF Put
  <2>3. QED
    BY <2>1, <2>2
<1>6. CASE AddNothing(v)
  BY <1>1, <1>6 DEF AddNothing
<1>7. CASE AddNew(k, v)
  <2>1. Map!Ask(k, v) /\ Trim(v) /= << >> /\ k \notin DOMAIN Table
    BY <1>2, <1>4, <1>7 DEF AddNew
  <2>2. Map!AskAdd(k, v)
    BY <2>1, SameTexts DEF Map!AskAdd
  <2>3. QED
    BY <2>2 DEF Map!Next
<1>8. CASE AddListed(k, v)
  <2>1. CASE Return(FALSE)
    BY <1>1, <1>8, <2>1 DEF AddListed
  <2>2. CASE Enter(k, Listed(GetValue(k), Trim(v)), TRUE)
    <3>1. /\ Map!Ask(k, Listed(Table[k], Trim(v)))
          /\ Trim(v) /= << >> /\ k \in DOMAIN Table
      BY <1>2, <1>3, <1>8, <2>2 DEF AddListed
    <3>2. Map!AskAdd(k, v)
      BY <3>1, SameTexts DEF Map!AskAdd
    <3>3. QED
      BY <3>2 DEF Map!Next
  <2>3. QED
    BY <1>8, <2>1, <2>2 DEF AddListed
<1>9. CASE at = "idle" /\ ~live /\ Return(FALSE)
  BY <1>1, <1>9
<1>10. QED
  BY <1>5, <1>6, <1>7, <1>8, <1>9 DEF Add

\* A step of a put is invisible, makes the whole association or none of it.
LEMMA MapsPutStep == ASSUME MapInv, PutStep PROVE [Map!Next]_Map!vars
<1>1. /\ TypeOK /\ OnePairPerKey /\ CallOK /\ CopyFits /\ ArgsOK /\ key \in Keys
      /\ value \in Text /\ Len(value) \in Nat
  <2>1. TypeOK /\ OnePairPerKey /\ CallOK /\ CopyFits /\ ArgsOK
    BY MapInvParts DEF MapInv
  <2>2. key \in Keys /\ value \in Text
    BY <2>1 DEF TypeOK
  <2>3. QED
    BY <2>1, <2>2 DEF Text
<1> DEFINE ask == [key |-> key, value |-> value]
<1>2. ASSUME UNCHANGED <<live, args, result>>, UNCHANGED Table,
             at \notin {"none", "idle"}, at' \notin {"none", "idle"}
      PROVE  UNCHANGED Map!vars
  BY <1>2 DEF Map!vars, Asked, args
<1>3. ASSUME NEW n, Finish(FALSE, n), UNCHANGED buckets, at \notin {"none", "idle"}
      PROVE  Map!Next
  <2>1. Table' = Table
    BY <1>3, SameTable
  <2>2. Map!Fail
    BY <1>3, <2>1 DEF Finish, Asked, Map!Fail
  <2>3. QED
    BY <2>2 DEF Map!Next
<1>4. ASSUME NEW n, Finish(TRUE, n), at \notin {"none", "idle"},
             Table' = [k \in DOMAIN Table \cup {key} |->
                         IF k = key THEN value ELSE Table[k]]
      PROVE  Map!Next
  <2>1. Asked = {ask} /\ Asked' = {} /\ result' = TRUE /\ UNCHANGED live
    BY <1>4 DEF Finish, Asked
  <2>2. ask.key = key /\ ask.value = value
    OBVIOUS
  <2> HIDE DEF ask
  <2>3. Map!Succeed
    BY <1>4, <2>1, <2>2 DEF Map!Succeed
  <2>4. QED
    BY <2>3 DEF Map!Next
<1>5. CASE Lookup
  BY <1>2, <1>5, SameTable DEF Lookup
<1>6. CASE AllocateKey
  BY <1>2, <1>3, <1>6, SameTable DEF AllocateKey, Allocate
<1>7. CASE AllocateValue
  BY <1>2, <1>3, <1>7, SameTable DEF AllocateValue, Allocate
<1> DEFINE old == Chain(key)[Place(key)]
<1>8. ASSUME Exists(key)
      PROVE  /\ old \in Pair /\ old.key = key /\ GetValue(key) = old.value
             /\ Len(old.value) \in Nat /\ Len(old.value) < old.room
             /\ key \in DOMAIN Table /\ Table[key] = old.value
  BY <1>1, <1>8, PlaceFound, IndexTyped
     DEF Pair, Text, GetValue, MapInv, ValueFits, Chain, Table
<1>9. CASE Grow
  <2>1. Exists(key) /\ Len(GetValue(key)) < Len(value) /\ at = "grow"
    BY <1>1, <1>9 DEF Grow, CallOK
  <2>2. CASE Finish(FALSE, 0) /\ UNCHANGED buckets
    BY <1>3, <2>1, <2>2
  <2>3. CASE ~(Finish(FALSE, 0) /\ UNCHANGED buckets)
    <3> DEFINE p == [old EXCEPT !.room = Len(value) + 1]
    <3>1. /\ p \in Pair /\ p.key = key /\ Len(p.value) < p.room
          /\ p.value = old.value
      BY <1>1, <1>8, <2>1 DEF Pair
    <3>2. /\ at' = "copy"
          /\ buckets' = [buckets EXCEPT ![IndexOf(key)][Place(key)] = p]
          /\ UNCHANGED <<live, args, heap, result>>
      BY <1>9, <2>3 DEF Grow, Chain
    <3> HIDE DEF p
    <3>3. Table' = [k \in DOMAIN Table \cup {key} |->
                      IF k = key THEN p.value ELSE Table[k]]
      BY <2>1, <3>1, <3>2, RewrittenTable
    <3>4. Table = [k \in DOMAIN Table |-> Table[k]]
      BY DEF Table
    <3>5. Table' = Table
      BY <1>8, <2>1, <3>1, <3>3, <3>4
    <3>6. QED
      BY <1>2, <2>1, <3>2, <3>5
  <2>4. QED
    BY <2>2, <2>3
<1>10. CASE Copy
  <2>1. Exists(key) /\ Len(value) < old.room /\ at = "copy"
    BY <1>1, <1>10 DEF Copy, CallOK, CopyFits
  <2> DEFINE p == [old EXCEPT !.value = value]
  <2>2. p \in Pair /\ p.key = key /\ Len(p.value) < p.room /\ p.value = value
    BY <1>1, <1>8, <2>1 DEF Pair
  <2>3. buckets' = [buckets EXCEPT ![IndexOf(key)][Place(key)] = p]
    BY <1>10 DEF Copy, Chain
  <2> HIDE DEF p
  <2>4. Table' = [k \in DOMAIN Table \cup {key} |->
                    IF k = key THEN p.value ELSE Table[k]]
    BY <2>1, <2>2, <2>3, RewrittenTable
  <2>5. QED
    BY <1>4, <1>10, <2>1, <2>2, <2>4 DEF Copy
<1>11. CASE Link
  <2>1. ~Exists(key) /\ at = "pairs"
    BY <1>1, <1>11 DEF Link, CallOK
  <2>2. CASE Finish(FALSE, -2) /\ UNCHANGED buckets
    BY <1>3, <2>1, <2>2
  <2>3. CASE ~(Finish(FALSE, -2) /\ UNCHANGED buckets)
    <3> DEFINE p == [key |-> key, value |-> value, room |-> Len(value) + 1]
    <3>1. p \in Pair /\ p.key = key /\ p.value = value
      BY <1>1 DEF Pair
    <3>2. /\ buckets' = [buckets EXCEPT ![IndexOf(key)] = Append(@, p)]
          /\ Finish(TRUE, IF Chain(key) = << >> THEN 1 ELSE 0)
      BY <1>11, <2>3 DEF Link
    <3> HIDE DEF p
    <3>3. Table' = [k \in DOMAIN Table \cup {key} |->
                      IF k = key THEN p.value ELSE Table[k]]
      BY <2>1, <3>1, <3>2, LinkedTable
    <3>4. QED
      BY <1>4, <2>1, <3>1, <3>2, <3>3
  <2>4. QED
    BY <2>2, <2>3
<1>12. QED
  BY <1>5, <1>6, <1>7, <1>9, <1>10, <1>11 DEF PutStep

\* Every step is one of the abstract map or invisible to it.
LEMMA MapsStep == MapInv /\ [Next]_mapVars => [Map!Next]_Map!vars
<1> SUFFICES ASSUME MapInv, [Next]_mapVars PROVE [Map!Next]_Map!vars
  OBVIOUS
<1>1. CASE UNCHANGED mapVars
  BY <1>1, SameTable DEF mapVars, args, Asked, Map!vars
<1>2. CASE New
  <2>1. ~live /\ Table = Map!Empty /\ Table' = Map!Empty /\ at = "none" /\ at' = "idle"
    BY <1>2, FreshTable DEF New, MapInv, CallOK
  <2>2. Asked = {} /\ Asked' = {} /\ UNCHANGED result /\ live' \in BOOLEAN
    BY <1>2, <2>1 DEF New, Asked
  <2>3. CASE live'
    BY <2>1, <2>2, <2>3 DEF Map!Create, Map!Next
  <2>4. CASE ~live'
    BY <2>1, <2>2, <2>4 DEF Map!vars, MapInv, TypeOK
  <2>5. QED
    BY <2>3, <2>4
<1>3. CASE Delete
  <2>1. /\ Table' = Map!Empty /\ at = "idle" /\ at' = "none" /\ live' = FALSE
        /\ UNCHANGED result
    BY <1>3, FreshTable DEF Delete
  <2>2. Asked = {} /\ Asked' = {}
    BY <2>1 DEF Asked
  <2>3. CASE live
    BY <2>1, <2>2, <2>3 DEF Map!Delete, Map!Next
  <2>4. CASE ~live
    <3>1. Table = Map!Empty
      BY <2>4, FreshTable DEF MapInv, CallOK
    <3>2. QED
      BY <2>1, <2>2, <2>4, <3>1 DEF Map!vars, MapInv, TypeOK
  <2>5. QED
    BY <2>3, <2>4
<1>4. CASE Enum
  <2>1. Table' = Table /\ result' = live /\ UNCHANGED live /\ at = "idle" /\ at' = "idle"
    BY <1>4, SameTable DEF Enum, Return
  <2>2. live \in BOOLEAN
    BY DEF MapInv, TypeOK
  <2>3. Map!Answer(live)
    BY <2>1 DEF Asked, Map!Answer
  <2>4. QED
    BY <2>2, <2>3 DEF Map!Next
<1>5. CASE PutStep
  BY <1>5, MapsPutStep
<1>6. CASE \E k \in Keys, v \in Inputs : Put(k, v) \/ Add(k, v)
  BY <1>6, MapsCall
<1>7. QED
  BY <1>1, <1>2, <1>3, <1>4, <1>5, <1>6 DEF Next

\* The puts and adds of pi_strmap.c implement the map that pi_strmap.h promises:
\* collisions and failed allocations included, each takes effect as a whole or
\* not at all.  What an enumeration returns is left open.
THEOREM MapImplemented == Spec => ImplementsMap
<1>1. QED
  BY MapsInit, MapInvHolds, MapsStep, PTL DEF Spec, ImplementsMap, Map!Spec
=============================================================================
