------------------------------ MODULE HashMap -------------------------------
(***************************************************************************)
(* hashmap.c: the open-addressing table behind the tunnels, mac_index and  *)
(* tun->macs, with linear probing and tombstones.                          *)
(*                                                                         *)
(* A slot is Empty, Deleted or a pair of key and value; map->cap is the    *)
(* number of slots.  An iteration excludes other changes of its map, as in *)
(* every caller; hashmap_iter_remove is the exception.                     *)
(***************************************************************************)
EXTENDS Naturals, FiniteSets, FiniteSetsExt

CONSTANTS Keys,
          Values,
          Hash,      \* Hash[k]: hash of k; keys may collide
          MinCap,    \* HASHMAP_MIN_CAP, a power of two
          Empty,     \* SLOT_EMPTY
          Deleted,   \* SLOT_DELETED
          NotFound   \* SIZE_MAX

ASSUME HashMapAssumption ==
  /\ Hash \in [Keys -> Nat]
  /\ MinCap \in Nat /\ \E n \in 2 .. MinCap : MinCap = 2 ^ n
  /\ Empty # Deleted /\ {Empty, Deleted} \cap (Keys \X Values) = {}
  /\ NotFound \notin Nat

VARIABLES slots,      \* map->slots
          count,      \* live entries
          occupied,   \* occupied and deleted slots
          it,         \* the iterator: on, next slot, current slot, valid
          keysHeld, valuesHeld,   \* history: objects given to the map and not freed yet
          peak,       \* history: largest count since the table was created or cleared
          start, visits   \* history: keys when the iteration began, visits of each

vars == <<slots, count, occupied, it, keysHeld, valuesHeld, peak, start, visits>>
iteration == <<it, start, visits>>

Cap(t) == Cardinality(DOMAIN t)
NewTable(c) == [n \in 0 .. c - 1 |-> Empty]
Live(s) == s \notin {Empty, Deleted}
Key(s) == s[1]
Value(s) == s[2]

\* The entries, as hashmap_keys lists them.
hashmap_keys == {Key(slots[j]) : j \in {n \in DOMAIN slots : Live(slots[n])}}

Init ==
  /\ slots = NewTable(MinCap)
  /\ count = 0 /\ occupied = 0
  /\ it = [on |-> FALSE, slot |-> 0, current |-> NotFound, valid |-> FALSE]
  /\ keysHeld = 0 /\ valuesHeld = 0
  /\ peak = 0
  /\ start = {} /\ visits = [k \in Keys |-> 0]

-----------------------------------------------------------------------------
(* find and resize.                                                        *)

\* The slot looked at in round n, in a table of c slots.
Probe(c, k, n) == (Hash[k] + n) % c

\* Mutant of Stops: a tombstone ends the search.
StopsAtTombstone(t, k) ==
  LET c == Cap(t)
  IN  {n \in 0 .. c - 1 : LET s == t[Probe(c, k, n)] IN ~Live(s) \/ Key(s) = k}

\* The rounds that end the search: an empty slot, or the key.
Stops(t, k) ==
  LET c == Cap(t)
  IN  {n \in 0 .. c - 1 : LET s == t[Probe(c, k, n)] IN s = Empty \/ (Live(s) /\ Key(s) = k)}

find(t, k) ==
  LET stops == Stops(t, k)
      j == Probe(Cap(t), k, Min(stops))
  IN  IF stops = {} \/ t[j] = Empty THEN NotFound ELSE j

\* *insert_at when the key is not there: the first tombstone on the way, or the
\* empty slot that ended the search.
InsertAt(t, k) ==
  LET c == Cap(t)
      end == IF Stops(t, k) = {} THEN c ELSE Min(Stops(t, k))
      tombs == {n \in 0 .. end - 1 : t[Probe(c, k, n)] = Deleted}
  IN  IF tombs # {} THEN Probe(c, k, Min(tombs))
      ELSE IF end < c THEN Probe(c, k, end) ELSE NotFound

\* Put slot s where linear probing leads from its hash.
Place(t, s) ==
  LET c == Cap(t)
      n == Min({m \in 0 .. c - 1 : ~Live(t[Probe(c, Key(s), m)])})
  IN  [t EXCEPT ![Probe(c, Key(s), n)] = s]

\* The live slots of t, in their order, into a table of c slots.
resize(t, c) ==
  LET moved[n \in 0 .. Cap(t)] ==
        IF n = 0 THEN NewTable(c)
        ELSE IF Live(t[n - 1]) THEN Place(moved[n - 1], t[n - 1]) ELSE moved[n - 1]
  IN  moved[Cap(t)]

-----------------------------------------------------------------------------
(* Operations.                                                             *)

\* Mutant of NewCap: churn of few entries doubles the table.
NewCapDoubles == 2 * Cap(slots)

\* Double only when live entries need the room.
NewCap == IF (count + 1) * 2 > Cap(slots) THEN 2 * Cap(slots) ELSE Cap(slots)

\* Keep an empty slot to end the search.
NeedsRehash == (occupied + 1) * 4 >= Cap(slots) * 3

\* Mutant of Replace: the duplicate key stays allocated.
ReplaceLeaksKey(t, j, v) ==
  /\ slots' = [t EXCEPT ![j] = <<Key(@), v>>]
  /\ keysHeld' = keysHeld + 1
  /\ UNCHANGED <<count, valuesHeld, peak>>

\* The key is there: the caller's key and the old value are freed.
Replace(t, j, v) ==
  /\ slots' = [t EXCEPT ![j] = <<Key(@), v>>]
  /\ UNCHANGED <<count, keysHeld, valuesHeld, peak>>

hashmap_insert(k, v) ==
  /\ ~it.on
  /\ LET t == IF NeedsRehash THEN resize(slots, NewCap) ELSE slots
         used == IF NeedsRehash THEN count ELSE occupied
         at == InsertAt(t, k)
     IN  IF find(t, k) # NotFound
         THEN Replace(t, find(t, k), v) /\ occupied' = used
         ELSE /\ slots' = [t EXCEPT ![at] = <<k, v>>]
              /\ occupied' = IF t[at] = Empty THEN used + 1 ELSE used
              /\ count' = count + 1
              /\ keysHeld' = keysHeld + 1 /\ valuesHeld' = valuesHeld + 1
              /\ peak' = Max({peak, count'})
  /\ UNCHANGED iteration

\* Mutant of Erase: the slot becomes empty and cuts probe chains.
EraseToEmpty(j) ==
  /\ slots' = [slots EXCEPT ![j] = Empty]
  /\ count' = count - 1 /\ occupied' = occupied - 1
  /\ keysHeld' = keysHeld - 1 /\ valuesHeld' = valuesHeld - 1

\* Free the entry in slot j and leave a tombstone.
Erase(j) ==
  /\ slots' = [slots EXCEPT ![j] = Deleted]
  /\ count' = count - 1
  /\ keysHeld' = keysHeld - 1 /\ valuesHeld' = valuesHeld - 1
  /\ UNCHANGED occupied

hashmap_remove(k) ==
  /\ ~it.on
  /\ find(slots, k) # NotFound
  /\ Erase(find(slots, k))
  /\ UNCHANGED <<peak, iteration>>

\* Every live entry is freed, the table is new and small.
hashmap_remove_all ==
  /\ ~it.on
  /\ slots' = NewTable(MinCap)
  /\ LET n == Cardinality({j \in DOMAIN slots : Live(slots[j])})
     IN  keysHeld' = keysHeld - n /\ valuesHeld' = valuesHeld - n
  /\ count' = 0 /\ occupied' = 0 /\ peak' = 0
  /\ UNCHANGED iteration

hashmap_iter_init ==
  /\ ~it.on
  /\ it' = [on |-> TRUE, slot |-> 0, current |-> NotFound, valid |-> FALSE]
  /\ start' = hashmap_keys
  /\ visits' = [k \in Keys |-> 0]
  /\ UNCHANGED <<slots, count, occupied, keysHeld, valuesHeld, peak>>

hashmap_iter_next ==
  /\ it.on
  /\ LET ahead == {j \in DOMAIN slots : j >= it.slot /\ Live(slots[j])}
         j == Min(ahead)
     IN  IF ahead # {}
         THEN /\ it' = [it EXCEPT !.slot = j + 1, !.current = j, !.valid = TRUE]
              /\ visits' = [visits EXCEPT ![Key(slots[j])] = @ + 1]
         ELSE /\ it' = [it EXCEPT !.slot = Cap(slots), !.valid = FALSE]
              /\ UNCHANGED visits
  /\ UNCHANGED <<slots, count, occupied, keysHeld, valuesHeld, peak, start>>

\* Mutant of hashmap_iter_remove: the slot after the removed one is skipped.
hashmap_iter_remove_Skips ==
  /\ it.on /\ it.valid
  /\ Erase(it.current)
  /\ it' = [it EXCEPT !.valid = FALSE, !.slot = Min({@ + 1, Cap(slots)})]
  /\ UNCHANGED <<peak, start, visits>>

hashmap_iter_remove ==
  /\ it.on /\ it.valid
  /\ Erase(it.current)
  /\ it' = [it EXCEPT !.valid = FALSE]
  /\ UNCHANGED <<peak, start, visits>>

\* The caller's loop is over, or left early as in provision_del.
IterEnd ==
  /\ it.on
  /\ it' = [on |-> FALSE, slot |-> 0, current |-> NotFound, valid |-> FALSE]
  /\ start' = {} /\ visits' = [k \in Keys |-> 0]
  /\ UNCHANGED <<slots, count, occupied, keysHeld, valuesHeld, peak>>

Next ==
  \/ \E k \in Keys, v \in Values : hashmap_insert(k, v)
  \/ \E k \in Keys : hashmap_remove(k)
  \/ hashmap_remove_all
  \/ hashmap_iter_init \/ hashmap_iter_next \/ hashmap_iter_remove \/ IterEnd

Spec == Init /\ [][Next]_vars

-----------------------------------------------------------------------------
(* Properties.                                                             *)

\* What hashmap_lookup answers, for every key it finds.
hashmap_lookup ==
  LET at == [k \in Keys |-> find(slots, k)]
  IN  [k \in {x \in Keys : at[x] # NotFound} |-> Value(slots[at[k]])]

Dict == INSTANCE Dictionary WITH dict <- hashmap_lookup

\* Seen through hashmap_lookup, the table is a dictionary: no insertion, removal or
\* rehash makes another key appear, vanish or change its value, however keys
\* collide and tombstones lie (find and resize).
ImplementsDictionary == Dict!Spec

\* Every live slot is the one lookup finds for its key, so no key is stored twice
\* behind a tombstone; count and occupied are what their comments say, and
\* hashmap_keys, which allocates count pointers, fits its buffer.
CountersExact ==
  /\ \A j \in DOMAIN slots : Live(slots[j]) => find(slots, Key(slots[j])) = j
  /\ count = Cardinality({j \in DOMAIN slots : Live(slots[j])})
  /\ occupied = Cardinality({j \in DOMAIN slots : slots[j] # Empty})

\* "there is always an empty slot to terminate probing" (hashmap_insert), and yet the
\* table is at most four times what the live entries ever needed: churn of distinct
\* keys does not grow it (hashmap_insert rehashes at the same size).
CapacityBounded ==
  /\ \E j \in DOMAIN slots : slots[j] = Empty
  /\ Cap(slots) = MinCap \/ Cap(slots) < 4 * (peak + 1)

\* Every key and value given to the map is freed exactly once: the map holds one
\* of each per live entry, also after a duplicate insertion.
HeldExact == keysHeld = count /\ valuesHeld = count

\* An iteration shows every entry there was at its begin, once, also when entries
\* are removed on the way; at its end it has shown them all.
IterationExact ==
  it.on => /\ \A k \in Keys : visits[k] <= IF k \in start THEN 1 ELSE 0
           /\ it.slot = Cap(slots) => \A k \in start : visits[k] = 1

=============================================================================
