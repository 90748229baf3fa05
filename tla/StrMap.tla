------------------------------- MODULE StrMap -------------------------------
(* pi_strmap.c: a hash map of strings with a chain of pairs per bucket.     *)
(* Every allocation may fail, and a put allocates up to three blocks one    *)
(* after the other, so a put is a step per allocation.  A map belongs to    *)
(* one thread: calls do not overlap.                                        *)
EXTENDS Texts

CONSTANTS
  Keys,       \* the strings used as keys
  Inputs,     \* the strings a caller passes as values
  Capacity,   \* the argument of pi_strmap_new()
  Hash,       \* hash() of every key: any function, collisions included
  MaxText     \* bound: the longest list an add is asked to build

ASSUME CapacityAssumption == Capacity \in Nat \ {0}
ASSUME HashAssumption == Hash \in [Keys -> Nat]
ASSUME InputsAssumption == Inputs \subseteq Text

VARIABLES
  live,       \* the map is not NULL
  buckets,    \* the chain of pairs of every bucket; room is malloc()ed bytes
  at,         \* "none" before new and after delete, "idle" between calls,
              \* else where pi_strmap_put() is
  key, value, \* its arguments
  joined,     \* value is the buffer of asprintf() that pi_strmap_add() frees
  heap,       \* the blocks allocated and not freed
  result      \* what the last call returned

args == <<key, value, joined>>
mapVars == <<live, buckets, at, args, heap, result>>

Indices == 0 .. Capacity - 1
IndexOf(k) == Hash[k] % Capacity
Chain(k) == buckets[IndexOf(k)]
Fresh == [i \in Indices |-> << >>]

\* get_pair() walks a chain to the first pair with that key.
Matches(chain, k) == {i \in DOMAIN chain : chain[i].key = k}
GetPair(chain, k) == CHOOSE i \in Matches(chain, k) :
                       \A j \in Matches(chain, k) : i <= j

Exists(k) == Matches(Chain(k), k) /= {}
Place(k) == GetPair(Chain(k), k)
GetValue(k) == Chain(k)[Place(k)].value

\* Where there is a pair: the bucket and its place in the chain.
Places == UNION {{i} \X DOMAIN buckets[i] : i \in Indices}
Used == {i \in Indices : buckets[i] /= << >>}

GetCount == Cardinality(Places)

\* What pi_strmap_delete() frees: the map, the array of buckets, the pairs of
\* every bucket that has some, and a key and a value for each pair.
MapBlocks == 2 + Cardinality(Used) + 2 * GetCount

Init ==
  /\ live = FALSE
  /\ buckets = Fresh
  /\ at = "none"
  /\ key \in Keys /\ value = << >> /\ joined = FALSE
  /\ heap = 0
  /\ result = TRUE

\* pi_strmap_new(): when the second allocation fails the first is freed.
New ==
  /\ at = "none"
  /\ at' = "idle"
  /\ buckets' = Fresh
  /\ \E blocks \in 0 .. 2 :
       /\ live' = (blocks = 2)
       /\ heap' = heap + blocks - (IF blocks = 1 THEN 1 ELSE 0)
  /\ UNCHANGED <<args, result>>

\* debug_thread() passes what pi_strmap_new() returned, NULL included.
Delete ==
  /\ at = "idle"
  /\ at' = "none"
  /\ live' = FALSE
  /\ buckets' = Fresh
  /\ heap' = heap - (IF live THEN MapBlocks ELSE 0)
  /\ UNCHANGED <<args, result>>

\* A call that returns at once.
Return(r) ==
  /\ result' = r
  /\ UNCHANGED <<live, buckets, at, args, heap>>

\* A call that gets as far as the lookup of pi_strmap_put().
Enter(k, v, own) ==
  /\ at' = "lookup"
  /\ key' = k /\ value' = v /\ joined' = own
  /\ heap' = heap + (IF own THEN 1 ELSE 0)
  /\ UNCHANGED <<live, buckets, result>>

Put(k, v) ==
  /\ at = "idle"
  /\ IF live THEN Enter(k, v, FALSE) ELSE Return(FALSE)

AddNothing(v) ==
  /\ at = "idle" /\ live
  /\ Trim(v) = << >>
  /\ Return(TRUE)

AddNew(k, v) ==
  /\ at = "idle" /\ live
  /\ Trim(v) /= << >> /\ ~Exists(k)
  /\ Enter(k, v, FALSE)

\* Mutant: the new entry goes in front of the list.
AddListedInFrontMut(k, v) ==
  /\ at = "idle" /\ live
  /\ Trim(v) /= << >> /\ Exists(k)
  /\ Len(Listed(Trim(v), GetValue(k))) <= MaxText
  /\ Enter(k, Listed(Trim(v), GetValue(k)), TRUE) \/ Return(FALSE)

AddListed(k, v) ==
  /\ at = "idle" /\ live
  /\ Trim(v) /= << >> /\ Exists(k)
  /\ Len(Listed(GetValue(k), Trim(v))) <= MaxText
  /\ Enter(k, Listed(GetValue(k), Trim(v)), TRUE) \/ Return(FALSE)

Add(k, v) ==
  \/ at = "idle" /\ ~live /\ Return(FALSE)
  \/ AddNothing(v)
  \/ AddNew(k, v)
  \/ AddListed(k, v)

\* pi_strmap_put() returns, and pi_strmap_add() frees what it joined; blocks
\* is what the last step allocated, less what it freed.  The local value is gone.
Finish(r, blocks) ==
  /\ at' = "idle"
  /\ result' = r
  /\ value' = << >> /\ joined' = FALSE
  /\ heap' = heap + blocks - (IF joined THEN 1 ELSE 0)
  /\ UNCHANGED <<live, key>>

\* Mutant: the length of the old value is taken with its terminator.
LookupTerminatorMut ==
  /\ at = "lookup"
  /\ at' = IF ~Exists(key) THEN "key"
           ELSE IF Len(GetValue(key)) + 1 < Len(value) THEN "grow" ELSE "copy"
  /\ UNCHANGED <<live, buckets, args, heap, result>>

\* Mutant: the chain is not searched first.
LookupSkippedMut ==
  /\ at = "lookup"
  /\ at' = "key"
  /\ UNCHANGED <<live, buckets, args, heap, result>>

Lookup ==
  /\ at = "lookup"
  /\ at' = IF ~Exists(key) THEN "key"
           ELSE IF Len(GetValue(key)) < Len(value) THEN "grow" ELSE "copy"
  /\ UNCHANGED <<live, buckets, args, heap, result>>

\* Mutant: the terminator is forgotten.
GrowNoTerminatorMut ==
  /\ at = "grow"
  /\ \/ /\ at' = "copy"
        /\ buckets' = [buckets EXCEPT ![IndexOf(key)][Place(key)].room =
                         Len(value)]
        /\ UNCHANGED <<live, args, heap, result>>
     \/ Finish(FALSE, 0) /\ UNCHANGED buckets

\* Mutant: the block is resized by the difference of the lengths.
GrowByDifferenceMut ==
  /\ at = "grow"
  /\ \/ /\ at' = "copy"
        /\ buckets' = [buckets EXCEPT ![IndexOf(key)][Place(key)].room =
                         Len(GetValue(key)) - Len(value)]
        /\ UNCHANGED <<live, args, heap, result>>
     \/ Finish(FALSE, 0) /\ UNCHANGED buckets

Grow ==
  /\ at = "grow"
  /\ \/ /\ at' = "copy"
        /\ buckets' = [buckets EXCEPT ![IndexOf(key)][Place(key)].room =
                         Len(value) + 1]
        /\ UNCHANGED <<live, args, heap, result>>
     \/ Finish(FALSE, 0) /\ UNCHANGED buckets

Copy ==
  /\ at = "copy"
  /\ buckets' = [buckets EXCEPT ![IndexOf(key)][Place(key)].value = value]
  /\ Finish(TRUE, 0)

\* Mutant: a failure keeps the blocks of the steps before it.
AllocateLeakMut(here, next, held) ==
  /\ at = here
  /\ UNCHANGED buckets
  /\ \/ /\ at' = next
        /\ heap' = heap + 1
        /\ UNCHANGED <<live, args, result>>
     \/ Finish(FALSE, 0)

\* The key and then the value are allocated; a failure frees the key again.
Allocate(here, next, held) ==
  /\ at = here
  /\ UNCHANGED buckets
  /\ \/ /\ at' = next
        /\ heap' = heap + 1
        /\ UNCHANGED <<live, args, result>>
     \/ Finish(FALSE, -held)

AllocateKey == Allocate("key", "value", 0)
AllocateValue == Allocate("value", "pairs", 1)

\* The array of pairs: allocated for the first, reallocated for a later one.
Link ==
  /\ at = "pairs"
  /\ \/ /\ buckets' = [buckets EXCEPT ![IndexOf(key)] =
             Append(@, [key |-> key, value |-> value, room |-> Len(value) + 1])]
        /\ Finish(TRUE, IF Chain(key) = << >> THEN 1 ELSE 0)
     \/ Finish(FALSE, -2) /\ UNCHANGED buckets

\* pi_strmap_enum(): the callback sees the pairs until it returns false.  Only a
\* NULL map makes the result false, an enumeration that stopped does not.
Enum ==
  /\ at = "idle"
  /\ Return(live)

PutStep == Lookup \/ Grow \/ Copy \/ AllocateKey \/ AllocateValue \/ Link

Next ==
  \/ New
  \/ Delete
  \/ \E k \in Keys, v \in Inputs : Put(k, v) \/ Add(k, v)
  \/ Enum
  \/ PutStep

Spec == Init /\ [][Next]_mapVars

-----------------------------------------------------------------------------
TypeOK ==
  /\ live \in BOOLEAN
  /\ buckets \in [Indices -> Seq([key : Keys, value : Text, room : Nat])]
  /\ at \in {"none", "idle", "lookup", "grow", "copy", "key", "value", "pairs"}
  /\ key \in Keys /\ value \in Text /\ joined \in BOOLEAN
  /\ result \in BOOLEAN

\* It is a map: a pair is in the bucket of its key, and no key has two pairs,
\* so what get_pair() finds first is all there is to find.
OnePairPerKey ==
  \A b \in Indices : \A i \in DOMAIN buckets[b] :
    /\ IndexOf(buckets[b][i].key) = b
    /\ \A j \in DOMAIN buckets[b] :
         buckets[b][i].key = buckets[b][j].key => i = j

\* Every value lies inside its block.  pi_strmap_put() compares the new value
\* with the length of the old one, not with the size of its block.
ValueFits ==
  \A b \in Indices : \A i \in DOMAIN buckets[b] :
    Len(buckets[b][i].value) < buckets[b][i].room

\* The strcpy() over an old value finds its pair and room for the new one.
CopyFits ==
  at = "copy" => Exists(key) /\ Len(value) < Chain(key)[Place(key)].room

\* No block is lost: between calls the heap holds what pi_strmap_delete()
\* would free and nothing else, whichever allocations failed, and a call under
\* way holds its own blocks on top of that.
Held ==
  (IF at = "value" THEN 1 ELSE IF at = "pairs" THEN 2 ELSE 0)
  + (IF joined THEN 1 ELSE 0)

NothingLost == heap = Held + (IF live THEN MapBlocks ELSE 0)

\* For its puts and adds the map is the one pi_strmap.h promises, failed
\* allocations included.  What an enumeration returns is not part of this: the
\* header says true if it completed and false otherwise, the code says true.
Table == [k \in {j \in Keys : Exists(j)} |-> GetValue(k)]
Asked == IF at \in {"none", "idle"} THEN {} ELSE {[key |-> key, value |-> value]}
Map == INSTANCE AbstractMap WITH table <- Table, asked <- Asked

ImplementsMap == Map!Spec
=============================================================================
