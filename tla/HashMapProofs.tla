---------------------------- MODULE HashMapProofs ---------------------------
(***************************************************************************)
(* Theorems about HashMap, for every hash function, every set of keys and  *)
(* values and every smallest size: the safety properties, from the         *)
(* inductive invariant IInv, and the refinement of Dictionary.             *)
(***************************************************************************)
EXTENDS HashMap, FiniteSetTheorems, TLAPS

-----------------------------------------------------------------------------
(* Facts about tables: what probing meets, what find, insert_at and resize *)
(* compute, and what a write to a slot changes.  They rest on induction    *)
(* over numbers, from the well-foundedness of < (NatSetInduction).         *)

\* A set of numbers that is not empty has a least one, which Min returns: the first
\* round of a search that ends it.
LEMMA LeastNat ==
  ASSUME NEW T, T \subseteq Nat, T # {}
  PROVE  Min(T) \in T /\ \A y \in T : Min(T) <= y
<1>1. IsWellFoundedOn(OpToRel(<, Nat), Nat)
  BY NatLessThanWellFounded, Zenon
<1>2. PICK x \in T : \A y \in T : ~(<<y, x>> \in OpToRel(<, Nat))
  BY <1>1, WFMin, Zenon
<1>3. \A y \in T : ~(y < x)
  BY <1>2, Zenon DEF OpToRel
<1>4. \E z \in T : \A y \in T : z <= y
  BY <1>3
<1>. QED BY <1>4, Zenon DEF Min

\* The larger of two numbers.
LEMMA MaxTwo ==
  ASSUME NEW a \in Nat, NEW b \in Nat, NEW m, m = Max({a, b})
  PROVE  m \in {a, b} /\ m >= a /\ m >= b
<1>1. \E x \in {a, b} : \A y \in {a, b} : x >= y
  BY DEF Max
<1>2. m \in {a, b} /\ \A y \in {a, b} : m >= y
  BY <1>1, Zenon DEF Max
<1>. QED BY <1>2, Zenon

\* Induction, for sets of numbers: from the least number that is left out.
LEMMA NatSetInduction ==
  ASSUME NEW T, 0 \in T, \A n \in Nat : n \in T => n + 1 \in T
  PROVE  Nat \subseteq T
<1>. SUFFICES ASSUME Nat \ T # {} PROVE FALSE
  BY Zenon
<1>1. Min(Nat \ T) \in Nat \ T /\ \A y \in Nat \ T : Min(Nat \ T) <= y
  BY LeastNat, Zenon
<1>. DEFINE x == Min(Nat \ T)
<1>2. x \in Nat /\ x \notin T /\ \A y \in Nat \ T : x <= y
  BY <1>1, Zenon
<1>. HIDE DEF x
<1>3. x # 0 /\ x - 1 \in Nat
  BY <1>2
<1>4. x - 1 \in T
  BY <1>2, <1>3
<1>5. x - 1 + 1 \in T
  BY <1>3, <1>4, Zenon
<1>. QED BY <1>2, <1>5

\* Round n of the loop of resize, from the table f[n - 1] the earlier rounds left.
Moved(f, t, c, n) ==
  IF n = 0 THEN NewTable(c)
  ELSE IF Live(t[n - 1]) THEN Place(f[n - 1], t[n - 1]) ELSE f[n - 1]

\* f holds the table after every round up to N.
Moves(f, t, c, N) == f = [n \in 0 .. N |-> Moved(f, t, c, n)]

\* The loop of resize computes a table in every round: the recursion that defines
\* it has a solution, built round by round.
LEMMA MovedExists ==
  ASSUME NEW t, NEW c
  PROVE  \A N \in Nat : \E f : Moves(f, t, c, N)
<1>. DEFINE T == {m \in Nat : \E f : Moves(f, t, c, m)}
<1>1. 0 \in T
  <2>. DEFINE f == [n \in 0 .. 0 |-> NewTable(c)]
  <2>1. f = [n \in 0 .. 0 |-> Moved(f, t, c, n)]
    BY DEF Moved
  <2>2. Moves(f, t, c, 0)
    BY <2>1, Zenon DEF Moves
  <2>. QED BY <2>2, Zenon
<1>2. ASSUME NEW m \in Nat, m \in T PROVE m + 1 \in T
  <2>1. PICK f : Moves(f, t, c, m)
    BY <1>2, Zenon
  <2>. DEFINE g == [n \in 0 .. m + 1 |-> IF n = m + 1 THEN Moved(f, t, c, n) ELSE f[n]]
  <2>2. \A n \in 0 .. m : g[n] = f[n]
    OBVIOUS
  <2>3. \A n \in 0 .. m + 1 : Moved(g, t, c, n) = Moved(f, t, c, n)
    BY <2>2 DEF Moved
  <2>4. \A n \in 0 .. m : f[n] = Moved(f, t, c, n)
    BY <2>1, Zenon DEF Moves
  <2>5. g = [n \in 0 .. m + 1 |-> Moved(g, t, c, n)]
    BY <2>3, <2>4
  <2>6. Moves(g, t, c, m + 1)
    BY <2>5, Zenon DEF Moves
  <2>. HIDE DEF g
  <2>. QED BY <2>6
<1>3. Nat \subseteq T
  <2>. HIDE DEF T
  <2>. QED BY <1>1, <1>2, NatSetInduction, Zenon
<1>. QED BY <1>3, Zenon

\* resize returns the table after the last round.
LEMMA ResizeUnfolds ==
  ASSUME NEW t, NEW c, Cap(t) \in Nat
  PROVE  \E f : Moves(f, t, c, Cap(t)) /\ resize(t, c) = f[Cap(t)]
<1>1. \E f : Moves(f, t, c, Cap(t))
  BY MovedExists, Zenon
<1>2. \E f : f = [n \in 0 .. Cap(t) |-> Moved(f, t, c, n)]
  BY <1>1, Zenon DEF Moves
<1>. DEFINE f == CHOOSE g : g = [n \in 0 .. Cap(t) |-> Moved(g, t, c, n)]
<1>3. f = [n \in 0 .. Cap(t) |-> Moved(f, t, c, n)]
  BY <1>2, Zenon
<1>4. resize(t, c) = f[Cap(t)]
  BY Zenon DEF resize, Moved
<1>5. Moves(f, t, c, Cap(t))
  BY <1>3, Zenon DEF Moves
<1>. QED BY <1>4, <1>5, Zenon

-----------------------------------------------------------------------------
\* Arithmetic: two numbers less than c apart with one remainder are equal.
LEMMA ModUnique ==
  ASSUME NEW a \in Nat, NEW b \in Nat, NEW c \in Nat \ {0},
         a % c = b % c, a <= b, b - a < c
  PROVE  a = b
<1>1. a = c * (a \div c) + (a % c) /\ a \div c \in Int
  OBVIOUS
<1>2. b = c * (b \div c) + (b % c) /\ b \div c \in Int
  OBVIOUS
<1>. DEFINE q == (b \div c) - (a \div c)
<1>3. q \in Int /\ b - a = c * q
  BY <1>1, <1>2
<1>. HIDE DEF q
<1>4. q < 1
  <2>. SUFFICES ASSUME q >= 1 PROVE FALSE
    BY <1>3
  <2>1. c * q >= c
    BY <1>3
  <2>. QED BY <2>1, <1>3
<1>5. q > 0 - 1
  <2>. SUFFICES ASSUME q <= 0 - 1 PROVE FALSE
    BY <1>3
  <2>1. c * q < 0
    BY <1>3
  <2>. QED BY <2>1, <1>3
<1>6. q = 0
  BY <1>3, <1>4, <1>5
<1>. QED BY <1>3, <1>6

\* Arithmetic: the remainder of c * q + r.
LEMMA ModIs ==
  ASSUME NEW c \in Nat \ {0}, NEW q \in Nat, NEW r \in 0 .. c - 1
  PROVE  (c * q + r) % c = r
OBVIOUS

\* Arithmetic: a step past a remainder wraps around at most once.
LEMMA ModShift ==
  ASSUME NEW a \in Nat, NEW c \in Nat \ {0}, NEW n \in 0 .. c - 1
  PROVE  (a + n) % c = IF (a % c) + n < c THEN (a % c) + n ELSE (a % c) + n - c
<1>1. a = c * (a \div c) + (a % c) /\ a \div c \in Nat /\ a % c \in 0 .. c - 1
  OBVIOUS
<1>. DEFINE q == a \div c  r == a % c
<1>2. a = c * q + r /\ q \in Nat /\ r \in 0 .. c - 1
  BY <1>1, Zenon
<1>. HIDE DEF q, r
<1>3. CASE r + n < c
  <2>1. a + n = c * q + (r + n) /\ r + n \in 0 .. c - 1
    BY <1>2, <1>3
  <2>2. (a + n) % c = r + n
    BY <1>2, <2>1, ModIs, Zenon
  <2>. QED BY <1>3, <2>2, Zenon DEF r
<1>4. CASE r + n >= c
  <2>1. a + n = c * (q + 1) + (r + n - c) /\ r + n - c \in 0 .. c - 1 /\ q + 1 \in Nat
    BY <1>2, <1>4
  <2>2. (c * (q + 1) + (r + n - c)) % c = r + n - c
    <3>. DEFINE p == q + 1  d == r + n - c
    <3>1. p \in Nat /\ d \in 0 .. c - 1
      BY <2>1, Zenon
    <3>. HIDE DEF p, d
    <3>2. (c * p + d) % c = d
      BY <3>1, ModIs, Zenon
    <3>. QED BY <3>2, Zenon DEF p, d
  <2>3. (a + n) % c = r + n - c
    BY <2>1, <2>2, Zenon
  <2>. QED BY <1>4, <1>2, <2>3 DEF r
<1>. QED BY <1>2, <1>3, <1>4

-----------------------------------------------------------------------------
\* Probing stays in the table (find, `& mask`).
LEMMA ProbeIn ==
  ASSUME NEW c \in Nat \ {0}, NEW k \in Keys, NEW n \in 0 .. c - 1
  PROVE  Probe(c, k, n) \in 0 .. c - 1
<1>1. Hash[k] \in Nat
  BY HashMapAssumption, Zenon
<1>. QED BY <1>1 DEF Probe

\* Within one turn, probing meets no slot twice.
LEMMA ProbeOnce ==
  ASSUME NEW c \in Nat \ {0}, NEW k \in Keys, NEW n \in 0 .. c - 1, NEW m \in 0 .. c - 1,
         Probe(c, k, n) = Probe(c, k, m)
  PROVE  n = m
<1>1. Hash[k] \in Nat
  BY HashMapAssumption, Zenon
<1>2. (Hash[k] + n) % c = (Hash[k] + m) % c /\ Hash[k] + n \in Nat /\ Hash[k] + m \in Nat
  BY <1>1, SMTT(60) DEF Probe
<1>. DEFINE a == Hash[k] + n  b == Hash[k] + m
<1>3. a \in Nat /\ b \in Nat /\ b - a = m - n /\ a - b = n - m
  BY <1>1
<1>6. a % c = b % c
  BY <1>2, Zenon
<1>. HIDE DEF a, b
<1>4. CASE n <= m
  <2>1. a <= b /\ b - a < c
    BY <1>3, <1>4
  <2>2. a = b
    BY <1>3, <1>6, <2>1, ModUnique, Zenon
  <2>. QED BY <1>3, <2>2
<1>5. CASE m <= n
  <2>1. b <= a /\ a - b < c
    BY <1>3, <1>5
  <2>2. b = a
    BY <1>3, <1>6, <2>1, ModUnique, Zenon
  <2>. QED BY <1>3, <2>2
<1>. QED BY <1>4, <1>5

\* Within one turn, probing meets every slot.
LEMMA ProbeAll ==
  ASSUME NEW c \in Nat \ {0}, NEW k \in Keys, NEW j \in 0 .. c - 1
  PROVE  \E n \in 0 .. c - 1 : Probe(c, k, n) = j
<1>1. Hash[k] \in Nat
  BY HashMapAssumption, Zenon
<1>. DEFINE r == Hash[k] % c
<1>2. r \in 0 .. c - 1
  BY <1>1
<1>3. \A n \in 0 .. c - 1 : Probe(c, k, n) = IF r + n < c THEN r + n ELSE r + n - c
  BY <1>1, ModShift, Zenon DEF Probe
<1>. HIDE DEF r
<1>4. CASE r <= j
  <2>1. j - r \in 0 .. c - 1 /\ r + (j - r) = j /\ j < c
    BY <1>2, <1>4
  <2>2. Probe(c, k, j - r) = j
    BY <1>3, <2>1, Zenon
  <2>. QED BY <2>1, <2>2, Zenon
<1>5. CASE j < r
  <2>1. j - r + c \in 0 .. c - 1 /\ r + (j - r + c) - c = j /\ ~(r + (j - r + c) < c)
    BY <1>2, <1>5
  <2>2. Probe(c, k, j - r + c) = j
    BY <1>3, <2>1, Zenon
  <2>. QED BY <2>1, <2>2, Zenon
<1>. QED BY <1>2, <1>4, <1>5

-----------------------------------------------------------------------------
\* What a slot can hold.
Slots == {Empty, Deleted} \cup (Keys \X Values)

\* No key is in two slots.
Distinct(t, c) ==
  \A i, j \in 0 .. c - 1 : Live(t[i]) /\ Live(t[j]) /\ Key(t[i]) = Key(t[j]) => i = j

\* No empty slot lies between the hash of a key and the slot that holds it.
Reached(t, c) ==
  \A k \in Keys : \A n \in 0 .. c - 1 :
    Live(t[Probe(c, k, n)]) /\ Key(t[Probe(c, k, n)]) = k
      => \A m \in 0 .. n - 1 : t[Probe(c, k, m)] # Empty

\* A table of c slots that find can search.
Sound(t, c) ==
  /\ c \in Nat \ {0} /\ t \in [0 .. c - 1 -> Slots]
  /\ Distinct(t, c) /\ Reached(t, c)

\* Key k is in the table.
Holds(t, c, k) == \E j \in 0 .. c - 1 : Live(t[j]) /\ Key(t[j]) = k

\* A live slot is a pair of key and value.
LEMMA SlotLive ==
  /\ \A s \in Slots : Live(s) <=> s \in Keys \X Values
  /\ \A s \in Slots : Live(s) => Key(s) \in Keys /\ Value(s) \in Values /\ s = <<Key(s), Value(s)>>
  /\ \A k \in Keys, v \in Values :
       <<k, v>> \in Slots /\ Live(<<k, v>>) /\ Key(<<k, v>>) = k /\ Value(<<k, v>>) = v
  /\ Empty \in Slots /\ Deleted \in Slots /\ ~Live(Empty) /\ ~Live(Deleted)
BY HashMapAssumption DEF Slots, Live, Key, Value

\* Cap is the number of slots.
LEMMA CapIs ==
  ASSUME NEW c \in Nat, NEW t, DOMAIN t = 0 .. c - 1
  PROVE  Cap(t) = c
<1>1. Cardinality(0 .. c - 1) = IF 0 > c - 1 THEN 0 ELSE c - 1 - 0 + 1
  BY FS_Interval
<1>. QED BY <1>1 DEF Cap

\* find returns the slot that holds the key, past tombstones and other keys.
LEMMA FindHolder ==
  ASSUME NEW t, NEW c, Sound(t, c), NEW j \in 0 .. c - 1, NEW k \in Keys,
         Live(t[j]), Key(t[j]) = k
  PROVE  find(t, k) = j
<1>1. c \in Nat \ {0} /\ Cap(t) = c
  BY CapIs, Zenon DEF Sound
<1>2. PICK n \in 0 .. c - 1 : Probe(c, k, n) = j
  BY <1>1, ProbeAll
<1>3. Stops(t, k) = {m \in 0 .. c - 1 : \/ t[Probe(c, k, m)] = Empty
                                        \/ Live(t[Probe(c, k, m)]) /\ Key(t[Probe(c, k, m)]) = k}
  BY <1>1, Zenon DEF Stops
<1>4. n \in Stops(t, k)
  BY <1>2, <1>3, Zenon
<1>5. ASSUME NEW m \in Stops(t, k) PROVE n <= m
  <2>1. m \in 0 .. c - 1
    BY <1>3, Zenon
  <2>2. CASE t[Probe(c, k, m)] = Empty
    BY <2>1, <2>2, <1>1, <1>2 DEF Sound, Reached
  <2>3. CASE Live(t[Probe(c, k, m)]) /\ Key(t[Probe(c, k, m)]) = k
    <3>1. Probe(c, k, m) = j
      BY <1>1, <2>1, <2>3, ProbeIn, Zenon DEF Sound, Distinct
    <3>2. m = n
      BY <1>1, <1>2, <2>1, <3>1, ProbeOnce
    <3>. QED BY <3>2, <2>1
  <2>. QED BY <1>3, <2>2, <2>3, Zenon
<1>6. Stops(t, k) \subseteq Nat /\ Stops(t, k) # {}
  BY <1>1, <1>3, <1>4
<1>7. Min(Stops(t, k)) \in Stops(t, k) /\ \A y \in Stops(t, k) : Min(Stops(t, k)) <= y
  BY <1>6, LeastNat, Zenon
<1>8. Min(Stops(t, k)) = n
  BY <1>4, <1>5, <1>6, <1>7
<1>9. t[j] # Empty
  BY Zenon DEF Live
<1>. QED BY <1>1, <1>2, <1>6, <1>8, <1>9, Zenon DEF find

\* find returns SIZE_MAX for a key that no slot holds.
LEMMA FindNone ==
  ASSUME NEW t, NEW c, Sound(t, c), NEW k \in Keys, ~Holds(t, c, k)
  PROVE  find(t, k) = NotFound
<1>1. c \in Nat \ {0} /\ Cap(t) = c
  BY CapIs, Zenon DEF Sound
<1>2. Stops(t, k) = {m \in 0 .. c - 1 : \/ t[Probe(c, k, m)] = Empty
                                        \/ Live(t[Probe(c, k, m)]) /\ Key(t[Probe(c, k, m)]) = k}
  BY <1>1, Zenon DEF Stops
<1>3. Stops(t, k) \subseteq Nat
  BY <1>1, <1>2
<1>4. \A m \in Stops(t, k) : t[Probe(c, k, m)] = Empty
  BY <1>1, <1>2, ProbeIn, Zenon DEF Holds
<1>5. Stops(t, k) # {} => Min(Stops(t, k)) \in Stops(t, k)
  BY <1>3, LeastNat, Zenon
<1>6. Stops(t, k) # {} => t[Probe(c, k, Min(Stops(t, k)))] = Empty
  BY <1>4, <1>5, Zenon
<1>. QED BY <1>1, <1>6, Zenon DEF find

\* What find returns, for every key.
LEMMA FindIs ==
  ASSUME NEW t, NEW c, Sound(t, c), NEW k \in Keys
  PROVE  /\ find(t, k) # NotFound <=> Holds(t, c, k)
         /\ find(t, k) # NotFound
              => find(t, k) \in 0 .. c - 1 /\ Live(t[find(t, k)]) /\ Key(t[find(t, k)]) = k
<1>1. CASE Holds(t, c, k)
  <2>1. PICK j \in 0 .. c - 1 : Live(t[j]) /\ Key(t[j]) = k
    BY <1>1, Zenon DEF Holds
  <2>2. find(t, k) = j
    BY <2>1, FindHolder, Zenon
  <2>3. j # NotFound
    BY HashMapAssumption DEF Sound
  <2>. QED BY <1>1, <2>1, <2>2, <2>3, Zenon
<1>2. CASE ~Holds(t, c, k)
  BY <1>2, FindNone, Zenon
<1>. QED BY <1>1, <1>2, Zenon

-----------------------------------------------------------------------------
\* Table u is t with s written to slot j.
Writes(u, t, j, s) == u = [t EXCEPT ![j] = s]

\* Writing a new key to the first free slot of its way, or to a tombstone before
\* it, keeps the table sound.
LEMMA PutSound ==
  ASSUME NEW t, NEW c, Sound(t, c), NEW k \in Keys, NEW v \in Values, ~Holds(t, c, k),
         NEW n \in 0 .. c - 1, ~Live(t[Probe(c, k, n)]),
         \A m \in 0 .. n - 1 : t[Probe(c, k, m)] # Empty,
         NEW u, Writes(u, t, Probe(c, k, n), <<k, v>>)
  PROVE  Sound(u, c)
<1>. DEFINE p == Probe(c, k, n)
<1>1. c \in Nat \ {0} /\ t \in [0 .. c - 1 -> Slots]
  BY Zenon DEF Sound
<1>2. p \in 0 .. c - 1
  BY <1>1, ProbeIn, Zenon
<1>3. <<k, v>> \in Slots /\ Live(<<k, v>>) /\ Key(<<k, v>>) = k /\ <<k, v>> # Empty
  BY SlotLive, Zenon
<1>4. u \in [0 .. c - 1 -> Slots] /\ u[p] = <<k, v>> /\ \A i \in 0 .. c - 1 : i # p => u[i] = t[i]
  BY <1>1, <1>2, <1>3, Zenon DEF Writes
<1>5. Distinct(u, c)
  BY <1>3, <1>4, <1>2, Zenon DEF Distinct, Sound, Holds
<1>6. Reached(u, c)
  <2>. SUFFICES ASSUME NEW q \in Keys, NEW i \in 0 .. c - 1,
                       Live(u[Probe(c, q, i)]), Key(u[Probe(c, q, i)]) = q,
                       NEW m \in 0 .. i - 1
                PROVE  u[Probe(c, q, m)] # Empty
    BY Zenon DEF Reached
  <2>0. m \in 0 .. c - 1
    BY <1>1
  <2>1. Probe(c, q, i) \in 0 .. c - 1 /\ Probe(c, q, m) \in 0 .. c - 1
    BY <1>1, <2>0, ProbeIn, Zenon
  <2>2. CASE Probe(c, q, i) = p
    <3>1. q = k
      BY <2>2, <1>3, <1>4, Zenon
    <3>2. i = n
      BY <2>2, <3>1, <1>1, ProbeOnce, Zenon
    <3>3. t[Probe(c, q, m)] # Empty
      BY <3>1, <3>2, Zenon
    <3>. QED BY <3>3, <2>1, <1>3, <1>4, Zenon
  <2>3. CASE Probe(c, q, i) # p
    <3>1. Live(t[Probe(c, q, i)]) /\ Key(t[Probe(c, q, i)]) = q
      BY <2>1, <2>3, <1>4, Zenon
    <3>2. t[Probe(c, q, m)] # Empty
      BY <3>1, Zenon DEF Sound, Reached
    <3>. QED BY <3>2, <2>1, <1>3, <1>4, Zenon
  <2>. QED BY <2>2, <2>3, Zenon
<1>. QED BY <1>1, <1>4, <1>5, <1>6, Zenon DEF Sound

\* Slot j is free, on the way of key k, with no empty slot before it.
FirstFree(t, c, k, j) ==
  \E n \in 0 .. c - 1 : /\ j = Probe(c, k, n)
                        /\ ~Live(t[Probe(c, k, n)])
                        /\ \A m \in 0 .. n - 1 : t[Probe(c, k, m)] # Empty

\* *insert_at is such a slot.
LEMMA InsertAtIs ==
  ASSUME NEW t, NEW c, Sound(t, c), NEW k \in Keys, ~Holds(t, c, k),
         \E j \in 0 .. c - 1 : t[j] = Empty
  PROVE  FirstFree(t, c, k, InsertAt(t, k))
<1> SUFFICES \E n \in 0 .. c - 1 : /\ InsertAt(t, k) = Probe(c, k, n)
                                   /\ ~Live(t[Probe(c, k, n)])
                                   /\ \A m \in 0 .. n - 1 : t[Probe(c, k, m)] # Empty
  BY Zenon DEF FirstFree
<1>1. c \in Nat \ {0} /\ Cap(t) = c
  BY CapIs, Zenon DEF Sound
<1>2. Stops(t, k) = {m \in 0 .. c - 1 : \/ t[Probe(c, k, m)] = Empty
                                        \/ Live(t[Probe(c, k, m)]) /\ Key(t[Probe(c, k, m)]) = k}
  BY <1>1, Zenon DEF Stops
<1>3. Stops(t, k) = {m \in 0 .. c - 1 : t[Probe(c, k, m)] = Empty}
  BY <1>1, <1>2, ProbeIn, Zenon DEF Holds
<1>4. Stops(t, k) # {} /\ Stops(t, k) \subseteq Nat
  BY <1>1, <1>3, ProbeAll
<1>. DEFINE end == Min(Stops(t, k))
            tombs == {n \in 0 .. end - 1 : t[Probe(c, k, n)] = Deleted}
<1>5. end \in Stops(t, k) /\ \A y \in Stops(t, k) : end <= y
  BY <1>4, LeastNat, Zenon
<1>6. end \in 0 .. c - 1 /\ t[Probe(c, k, end)] = Empty /\ end < c
  BY <1>1, <1>3, <1>5
<1>7. \A m \in 0 .. end - 1 : t[Probe(c, k, m)] # Empty
  <2>. HIDE DEF end
  <2>1. \A m \in 0 .. end - 1 : m \in 0 .. c - 1 /\ ~(end <= m)
    BY <1>1, <1>6
  <2>. QED BY <2>1, <1>3, <1>5, Zenon
<1>8. InsertAt(t, k) = IF tombs # {} THEN Probe(c, k, Min(tombs)) ELSE Probe(c, k, end)
  BY <1>1, <1>4, <1>6, Zenon DEF InsertAt
<1>. HIDE DEF end
<1>9. CASE tombs # {}
  <2>1. tombs \subseteq Nat
    BY <1>6
  <2>2. Min(tombs) \in tombs
    BY <1>9, <2>1, LeastNat, Zenon
  <2>. DEFINE n == Min(tombs)
  <2>3. n \in 0 .. end - 1 /\ t[Probe(c, k, n)] = Deleted
    BY <2>2, Zenon
  <2>4. InsertAt(t, k) = Probe(c, k, n)
    BY <1>8, <1>9, Zenon
  <2>. HIDE DEF n, tombs
  <2>5. n \in 0 .. c - 1 /\ \A m \in 0 .. n - 1 : m \in 0 .. end - 1
    BY <1>1, <2>3, <1>6
  <2>6. ~Live(t[Probe(c, k, n)])
    BY <2>3, Zenon DEF Live
  <2>. QED BY <2>4, <2>5, <2>6, <1>7, Zenon
<1>10. CASE tombs = {}
  BY <1>6, <1>7, <1>8, <1>10, SlotLive, Zenon
<1>. QED BY <1>9, <1>10, Zenon

\* resize writes to the first slot on the key's way that is not occupied.
LEMMA PlaceIs ==
  ASSUME NEW t, NEW c, Sound(t, c), NEW s, Key(s) \in Keys,
         \E j \in 0 .. c - 1 : ~Live(t[j])
  PROVE  \E n \in 0 .. c - 1 : /\ Writes(Place(t, s), t, Probe(c, Key(s), n), s)
                               /\ ~Live(t[Probe(c, Key(s), n)])
                               /\ \A m \in 0 .. n - 1 : Live(t[Probe(c, Key(s), m)])
<1>1. c \in Nat \ {0} /\ Cap(t) = c
  BY CapIs, Zenon DEF Sound
<1>. DEFINE free == {m \in 0 .. c - 1 : ~Live(t[Probe(c, Key(s), m)])}
            n == Min(free)
<1>2. free # {} /\ free \subseteq Nat
  BY <1>1, ProbeAll
<1>3. n \in free /\ \A y \in free : n <= y
  BY <1>2, LeastNat, Zenon
<1>4. Writes(Place(t, s), t, Probe(c, Key(s), n), s)
  BY <1>1, Zenon DEF Place, Writes
<1>5. n \in 0 .. c - 1 /\ ~Live(t[Probe(c, Key(s), n)])
  BY <1>3, Zenon
<1>6. \A m \in 0 .. n - 1 : Live(t[Probe(c, Key(s), m)])
  <2>. HIDE DEF n
  <2>. QED BY <1>1, <1>3, <1>5
<1>. HIDE DEF n
<1>. QED BY <1>4, <1>5, <1>6, Zenon

\* A tombstone keeps the table sound: it cuts no key off.
LEMMA EraseSound ==
  ASSUME NEW t, NEW c, Sound(t, c), NEW j \in 0 .. c - 1, NEW u, Writes(u, t, j, Deleted)
  PROVE  Sound(u, c)
<1>1. c \in Nat \ {0} /\ t \in [0 .. c - 1 -> Slots] /\ Deleted # Empty /\ ~Live(Deleted)
  BY HashMapAssumption, SlotLive, Zenon DEF Sound
<1>2. u \in [0 .. c - 1 -> Slots] /\ u[j] = Deleted /\ \A i \in 0 .. c - 1 : i # j => u[i] = t[i]
  BY <1>1, SlotLive, Zenon DEF Writes
<1>3. \A i \in 0 .. c - 1 : Live(u[i]) => u[i] = t[i]
  BY <1>1, <1>2, Zenon
<1>4. \A i \in 0 .. c - 1 : t[i] # Empty => u[i] # Empty
  BY <1>1, <1>2, Zenon
<1>5. Distinct(u, c)
  BY <1>3, Zenon DEF Distinct, Sound
<1>6. Reached(u, c)
  <2>. SUFFICES ASSUME NEW q \in Keys, NEW i \in 0 .. c - 1,
                       Live(u[Probe(c, q, i)]), Key(u[Probe(c, q, i)]) = q,
                       NEW m \in 0 .. i - 1
                PROVE  u[Probe(c, q, m)] # Empty
    BY Zenon DEF Reached
  <2>1. m \in 0 .. c - 1
    BY <1>1
  <2>2. Probe(c, q, i) \in 0 .. c - 1 /\ Probe(c, q, m) \in 0 .. c - 1
    BY <1>1, <2>1, ProbeIn, Zenon
  <2>3. t[Probe(c, q, m)] # Empty
    BY <2>2, <1>3, Zenon DEF Sound, Reached
  <2>. QED BY <2>2, <2>3, <1>4, Zenon
<1>. QED BY <1>1, <1>2, <1>5, <1>6, Zenon DEF Sound

\* A new value in place keeps the table sound.
LEMMA ReplaceSound ==
  ASSUME NEW t, NEW c, Sound(t, c), NEW j \in 0 .. c - 1, Live(t[j]), NEW v \in Values,
         NEW u, Writes(u, t, j, <<Key(t[j]), v>>)
  PROVE  Sound(u, c)
<1>. DEFINE w == <<Key(t[j]), v>>
<1>1. c \in Nat \ {0} /\ t \in [0 .. c - 1 -> Slots] /\ t[j] \in Slots
  BY Zenon DEF Sound
<1>2. w \in Slots /\ Live(w) /\ Key(w) = Key(t[j]) /\ w # Empty
  BY <1>1, SlotLive, Zenon
<1>. HIDE DEF w
<1>3. u \in [0 .. c - 1 -> Slots] /\ u[j] = w /\ \A i \in 0 .. c - 1 : i # j => u[i] = t[i]
  BY <1>1, <1>2, Zenon DEF w, Writes
<1>4. \A i \in 0 .. c - 1 : (Live(u[i]) <=> Live(t[i])) /\ (Live(t[i]) => Key(u[i]) = Key(t[i]))
  BY <1>2, <1>3, Zenon
<1>5. \A i \in 0 .. c - 1 : t[i] # Empty => u[i] # Empty
  BY <1>2, <1>3, Zenon
<1>6. Distinct(u, c)
  BY <1>4, Zenon DEF Distinct, Sound
<1>7. Reached(u, c)
  <2>. SUFFICES ASSUME NEW q \in Keys, NEW i \in 0 .. c - 1,
                       Live(u[Probe(c, q, i)]), Key(u[Probe(c, q, i)]) = q,
                       NEW m \in 0 .. i - 1
                PROVE  u[Probe(c, q, m)] # Empty
    BY Zenon DEF Reached
  <2>1. m \in 0 .. c - 1
    BY <1>1
  <2>2. Probe(c, q, i) \in 0 .. c - 1 /\ Probe(c, q, m) \in 0 .. c - 1
    BY <1>1, <2>1, ProbeIn, Zenon
  <2>3. t[Probe(c, q, m)] # Empty
    BY <2>2, <1>4, Zenon DEF Sound, Reached
  <2>. QED BY <2>2, <2>3, <1>5, Zenon
<1>. QED BY <1>1, <1>3, <1>6, <1>7, Zenon DEF Sound

-----------------------------------------------------------------------------
\* The occupied slots, and those that are not empty.
LiveAt(t) == {j \in DOMAIN t : Live(t[j])}
UsedAt(t) == {j \in DOMAIN t : t[j] # Empty}

\* The pairs a table holds.
Content(t, c) == {s \in Keys \X Values : \E j \in 0 .. c - 1 : t[j] = s}

\* Both are finite, and no larger than the table.
LEMMA Finite ==
  ASSUME NEW t, NEW c \in Nat, DOMAIN t = 0 .. c - 1
  PROVE  /\ IsFiniteSet(0 .. c - 1) /\ Cardinality(0 .. c - 1) = c
         /\ IsFiniteSet(LiveAt(t)) /\ Cardinality(LiveAt(t)) \in 0 .. c
         /\ IsFiniteSet(UsedAt(t)) /\ Cardinality(UsedAt(t)) \in 0 .. c
<1>1. IsFiniteSet(0 .. c - 1) /\ Cardinality(0 .. c - 1) = c
  BY FS_Interval
<1>2. LiveAt(t) \in SUBSET (0 .. c - 1) /\ UsedAt(t) \in SUBSET (0 .. c - 1)
  BY Zenon DEF LiveAt, UsedAt
<1>3. IsFiniteSet(LiveAt(t)) /\ Cardinality(LiveAt(t)) <= c
  BY <1>1, <1>2, FS_Subset
<1>4. IsFiniteSet(UsedAt(t)) /\ Cardinality(UsedAt(t)) <= c
  BY <1>1, <1>2, FS_Subset
<1>5. Cardinality(LiveAt(t)) \in Nat /\ Cardinality(UsedAt(t)) \in Nat
  BY <1>3, <1>4, FS_CardinalityType, Zenon
<1>. QED BY <1>1, <1>3, <1>4, <1>5

\* With fewer than c of them, one slot is left over.
LEMMA SlotLeft ==
  ASSUME NEW t, NEW c \in Nat, DOMAIN t = 0 .. c - 1
  PROVE  /\ Cardinality(LiveAt(t)) < c => \E j \in 0 .. c - 1 : ~Live(t[j])
         /\ Cardinality(UsedAt(t)) < c => \E j \in 0 .. c - 1 : t[j] = Empty
<1>1. Cardinality(0 .. c - 1) = c /\ Cardinality(LiveAt(t)) \in 0 .. c /\ Cardinality(UsedAt(t)) \in 0 .. c
  BY Finite, Zenon
<1>2. (\A j \in 0 .. c - 1 : Live(t[j])) => LiveAt(t) = 0 .. c - 1
  BY Zenon DEF LiveAt
<1>3. (\A j \in 0 .. c - 1 : t[j] # Empty) => UsedAt(t) = 0 .. c - 1
  BY Zenon DEF UsedAt
<1>. QED BY <1>1, <1>2, <1>3

\* Writing a pair to a free slot adds one to count, and to occupied when the slot
\* was empty (hashmap_insert).
LEMMA FillCounts ==
  ASSUME NEW t, NEW c \in Nat, DOMAIN t = 0 .. c - 1, NEW j \in 0 .. c - 1, ~Live(t[j]),
         NEW s, Live(s), NEW u, Writes(u, t, j, s)
  PROVE  /\ Cardinality(LiveAt(u)) = Cardinality(LiveAt(t)) + 1
         /\ Cardinality(UsedAt(u)) = Cardinality(UsedAt(t)) + (IF t[j] = Empty THEN 1 ELSE 0)
<1>1. DOMAIN u = 0 .. c - 1 /\ u[j] = s /\ \A i \in 0 .. c - 1 : i # j => u[i] = t[i]
  BY Zenon DEF Writes
<1>2. LiveAt(u) = LiveAt(t) \cup {j} /\ j \notin LiveAt(t)
  BY <1>1 DEF LiveAt
<1>3. UsedAt(u) = UsedAt(t) \cup {j} /\ (j \in UsedAt(t) <=> t[j] # Empty)
  BY <1>1, Zenon DEF UsedAt, Live
<1>4. IsFiniteSet(LiveAt(t)) /\ IsFiniteSet(UsedAt(t)) /\ Cardinality(UsedAt(t)) \in Nat
  BY Finite
<1>5. Cardinality(LiveAt(u)) = Cardinality(LiveAt(t)) + 1
  BY <1>2, <1>4, FS_AddElement, Zenon
<1>6. Cardinality(UsedAt(u)) = IF j \in UsedAt(t) THEN Cardinality(UsedAt(t)) ELSE Cardinality(UsedAt(t)) + 1
  BY <1>3, <1>4, FS_AddElement, Zenon
<1>. QED BY <1>3, <1>4, <1>5, <1>6

\* A tombstone takes one from count and leaves occupied (hashmap_remove).
LEMMA EraseCounts ==
  ASSUME NEW t, NEW c \in Nat, DOMAIN t = 0 .. c - 1, NEW j \in 0 .. c - 1, Live(t[j]),
         NEW u, Writes(u, t, j, Deleted)
  PROVE  /\ Cardinality(LiveAt(u)) = Cardinality(LiveAt(t)) - 1
         /\ Cardinality(UsedAt(u)) = Cardinality(UsedAt(t))
<1>1. DOMAIN u = 0 .. c - 1 /\ u[j] = Deleted /\ \A i \in 0 .. c - 1 : i # j => u[i] = t[i]
  BY Zenon DEF Writes
<1>2. LiveAt(u) = LiveAt(t) \ {j} /\ j \in LiveAt(t)
  BY <1>1, SlotLive, Zenon DEF LiveAt
<1>3. UsedAt(u) = UsedAt(t)
  BY <1>1, HashMapAssumption, Zenon DEF UsedAt, Live
<1>4. IsFiniteSet(LiveAt(t))
  BY Finite, Zenon
<1>. QED BY <1>2, <1>3, <1>4, FS_RemoveElement, Zenon

\* A new value in place changes neither.
LEMMA ReplaceCounts ==
  ASSUME NEW t, NEW j \in DOMAIN t, Live(t[j]), NEW s, Live(s), NEW u, Writes(u, t, j, s)
  PROVE  LiveAt(u) = LiveAt(t) /\ UsedAt(u) = UsedAt(t)
<1>1. DOMAIN u = DOMAIN t /\ u[j] = s /\ \A i \in DOMAIN t : i # j => u[i] = t[i]
  BY Zenon DEF Writes
<1>. QED BY <1>1, Zenon DEF LiveAt, UsedAt, Live

\* A table from xcalloc is sound and holds nothing.
LEMMA NewTableIs ==
  ASSUME NEW c \in Nat \ {0}
  PROVE  /\ Sound(NewTable(c), c)
         /\ Content(NewTable(c), c) = {}
         /\ \A j \in 0 .. c - 1 : NewTable(c)[j] = Empty
         /\ LiveAt(NewTable(c)) = {} /\ UsedAt(NewTable(c)) = {}
<1>1. NewTable(c) \in [0 .. c - 1 -> Slots] /\ \A j \in 0 .. c - 1 : NewTable(c)[j] = Empty
  BY Zenon DEF NewTable, Slots
<1>2. ~Live(Empty)
  BY SlotLive, Zenon
<1>3. Empty \notin Keys \X Values
  BY HashMapAssumption, Zenon
<1>4. Distinct(NewTable(c), c)
  BY <1>1, <1>2, Zenon DEF Distinct
<1>5. Reached(NewTable(c), c)
  BY <1>1, <1>2, ProbeIn, Zenon DEF Reached
<1>6. Content(NewTable(c), c) = {}
  BY <1>1, <1>3, Zenon DEF Content
<1>7. LiveAt(NewTable(c)) = {} /\ UsedAt(NewTable(c)) = {}
  BY <1>1, <1>2, Zenon DEF LiveAt, UsedAt
<1>. QED BY <1>1, <1>4, <1>5, <1>6, <1>7, Zenon DEF Sound

-----------------------------------------------------------------------------
\* The first n slots of t.
Prefix(t, n) == [j \in 0 .. n - 1 |-> t[j]]

\* After n rounds of resize, the new table holds the live pairs of those slots.
MovedRight(f, t, c, n) ==
  /\ Sound(f[n], c)
  /\ \A j \in 0 .. c - 1 : f[n][j] # Deleted
  /\ Content(f[n], c) = Content(t, n)
  /\ Cardinality(LiveAt(f[n])) = Cardinality(LiveAt(Prefix(t, n)))

\* resize keeps the pairs and their number, drops every tombstone and leaves a
\* sound table, whenever the new size has room for one entry more.
LEMMA ResizeIs ==
  ASSUME NEW t, NEW b, Sound(t, b), NEW c \in Nat \ {0}, Cardinality(LiveAt(t)) < c
  PROVE  /\ Sound(resize(t, c), c)
         /\ \A j \in 0 .. c - 1 : resize(t, c)[j] # Deleted
         /\ Content(resize(t, c), c) = Content(t, b)
         /\ Cardinality(LiveAt(resize(t, c))) = Cardinality(LiveAt(t))
<1>1. b \in Nat \ {0} /\ t \in [0 .. b - 1 -> Slots] /\ Cap(t) = b
  BY CapIs, Zenon DEF Sound
<1>2. PICK f : Moves(f, t, c, b) /\ resize(t, c) = f[b]
  BY <1>1, ResizeUnfolds, Zenon
<1>3. \A n \in 0 .. b : f[n] = Moved(f, t, c, n)
  BY <1>2, Zenon DEF Moves
<1>. DEFINE T == {n \in Nat : n <= b => MovedRight(f, t, c, n)}
<1>4. 0 \in T
  <2>1. f[0] = NewTable(c)
    BY <1>1, <1>3 DEF Moved
  <2>2. Content(t, 0) = {} /\ LiveAt(Prefix(t, 0)) = {}
    BY DEF Content, LiveAt, Prefix
  <2>3. \A j \in 0 .. c - 1 : f[0][j] # Deleted
    BY <2>1, NewTableIs, HashMapAssumption, Zenon
  <2>. QED BY <2>1, <2>2, <2>3, NewTableIs, Zenon DEF MovedRight
<1>5. ASSUME NEW n \in Nat, n \in T PROVE n + 1 \in T
  <2>. SUFFICES ASSUME n + 1 <= b PROVE MovedRight(f, t, c, n + 1)
    OBVIOUS
  <2>1. n \in 0 .. b - 1 /\ n + 1 \in 0 .. b /\ n + 1 # 0 /\ n + 1 - 1 = n /\ n <= b
    BY <1>1
  <2>2. MovedRight(f, t, c, n)
    BY <1>5, <2>1, Zenon
  <2>3. f[n + 1] = IF Live(t[n]) THEN Place(f[n], t[n]) ELSE f[n]
    BY <1>3, <2>1 DEF Moved
  <2>. DEFINE p == Prefix(t, n)  q == Prefix(t, n + 1)
  <2>4. DOMAIN p = 0 .. n - 1 /\ DOMAIN q = 0 .. n
    BY DEF Prefix
  <2>5. \A i \in 0 .. n - 1 : p[i] = t[i]
    BY Zenon DEF Prefix
  <2>6. \A i \in 0 .. n : q[i] = t[i]
    BY DEF Prefix
  <2>. HIDE DEF p, q
  <2>7. CASE ~Live(t[n])
    <3>1. LiveAt(q) = LiveAt(p)
      BY <2>4, <2>5, <2>6, <2>7 DEF LiveAt
    <3>2. t[n] \notin Keys \X Values
      BY <1>1, <2>1, <2>7, SlotLive, Zenon
    <3>3. Content(t, n + 1) = Content(t, n)
      BY <3>2 DEF Content
    <3>. QED BY <2>2, <2>3, <2>7, <3>1, <3>3, Zenon DEF MovedRight, p, q
  <2>8. CASE Live(t[n])
    <3>1. LiveAt(q) = LiveAt(p) \cup {n} /\ n \notin LiveAt(p)
      BY <2>4, <2>5, <2>6, <2>8, SMTT(60) DEF LiveAt
    <3>2. IsFiniteSet(LiveAt(p)) /\ IsFiniteSet(LiveAt(t)) /\ Cardinality(LiveAt(p)) \in Nat
      BY <1>1, <2>4, Finite
    <3>3. Cardinality(LiveAt(q)) = Cardinality(LiveAt(p)) + 1
      BY <3>1, <3>2, FS_AddElement, Zenon
    <3>4. LiveAt(p) \in SUBSET LiveAt(t)
      BY <1>1, <2>1, <2>4, <2>5 DEF LiveAt
    <3>5. Cardinality(LiveAt(p)) <= Cardinality(LiveAt(t)) /\ Cardinality(LiveAt(t)) \in Nat
      BY <3>2, <3>4, FS_Subset, FS_CardinalityType, Zenon
    <3>6. Cardinality(LiveAt(f[n])) < c
      BY <2>2, <3>2, <3>5 DEF MovedRight, p
    <3>7. Sound(f[n], c) /\ DOMAIN f[n] = 0 .. c - 1 /\ f[n] \in [0 .. c - 1 -> Slots]
      BY <2>2, Zenon DEF MovedRight, Sound
    <3>8. \E j \in 0 .. c - 1 : ~Live(f[n][j])
      BY <3>6, <3>7, SlotLeft, Zenon
    <3>9. t[n] \in Keys \X Values /\ Key(t[n]) \in Keys /\ Value(t[n]) \in Values
          /\ t[n] = <<Key(t[n]), Value(t[n])>>
      BY <1>1, <2>1, <2>8, SlotLive, Zenon
    <3>10. PICK m \in 0 .. c - 1 :
             /\ Writes(Place(f[n], t[n]), f[n], Probe(c, Key(t[n]), m), t[n])
             /\ ~Live(f[n][Probe(c, Key(t[n]), m)])
             /\ \A i \in 0 .. m - 1 : Live(f[n][Probe(c, Key(t[n]), i)])
      BY <3>7, <3>8, <3>9, PlaceIs, Zenon
    <3>. DEFINE k == Key(t[n])  at == Probe(c, k, m)  u == f[n + 1]
    <3>11. Writes(u, f[n], at, t[n]) /\ at \in 0 .. c - 1
      BY <2>3, <2>8, <3>9, <3>10, ProbeIn, Zenon
    <3>12. ~Holds(f[n], c, k)
      <4>. SUFFICES ASSUME NEW j \in 0 .. c - 1, Live(f[n][j]), Key(f[n][j]) = k PROVE FALSE
        BY Zenon DEF Holds
      <4>1. f[n][j] \in Content(f[n], c)
        BY <3>7, SlotLive, Zenon DEF Content
      <4>2. f[n][j] \in Content(t, n)
        BY <4>1, <2>2, Zenon DEF MovedRight
      <4>3. PICK i \in 0 .. n - 1 : t[i] = f[n][j]
        BY <4>2, Zenon DEF Content
      <4>4. i \in 0 .. b - 1 /\ i # n
        BY <1>1, <2>1
      <4>. QED BY <4>3, <4>4, <2>1, <2>8, Zenon DEF Sound, Distinct
    <3>13. \A i \in 0 .. m - 1 : f[n][Probe(c, k, i)] # Empty
      BY <3>10, SlotLive, Zenon
    <3>. HIDE DEF u
    <3>14. Sound(u, c)
      <4>1. Writes(u, f[n], at, <<k, Value(t[n])>>)
        BY <3>9, <3>11, Zenon
      <4>. QED BY <4>1, <3>7, <3>9, <3>10, <3>12, <3>13, PutSound, Zenon
    <3>15. \A j \in 0 .. c - 1 : u[j] # Deleted
      <4>1. t[n] # Deleted
        BY <2>8, SlotLive, Zenon
      <4>2. \A j \in 0 .. c - 1 : f[n][j] # Deleted
        BY <2>2, Zenon DEF MovedRight
      <4>. QED BY <4>1, <4>2, <3>11, <3>7, Zenon DEF Writes
    <3>16. Content(u, c) = Content(f[n], c) \cup {t[n]}
      <4>1. ~Live(f[n][at])
        BY <3>10, Zenon
      <4>. HIDE DEF at
      <4>2. u[at] = t[n] /\ \A i \in 0 .. c - 1 : i # at => u[i] = f[n][i]
        BY <3>7, <3>11, Zenon DEF Writes
      <4>3. f[n][at] \notin Keys \X Values
        BY <4>1, <3>7, <3>11, SlotLive, Zenon
      <4>. QED BY <4>2, <4>3, <3>9, <3>11 DEF Content
    <3>17. Content(t, n + 1) = Content(t, n) \cup {t[n]}
      BY <3>9, SMTT(60) DEF Content
    <3>18. Cardinality(LiveAt(u)) = Cardinality(LiveAt(f[n])) + 1
      BY <3>7, <3>10, <3>11, <2>8, FillCounts, SMTT(60)
    <3>. QED BY <2>2, <3>3, <3>14, <3>15, <3>16, <3>17, <3>18, Zenon DEF MovedRight, u, p, q
  <2>. QED BY <2>7, <2>8, Zenon
<1>6. b \in T
  <2>. HIDE DEF T
  <2>. QED BY <1>1, <1>4, <1>5, NatSetInduction, Zenon
<1>7. MovedRight(f, t, c, b)
  BY <1>1, <1>6
<1>8. LiveAt(Prefix(t, b)) = LiveAt(t)
  BY <1>1, Zenon DEF LiveAt, Prefix
<1>. QED BY <1>2, <1>7, <1>8, Zenon DEF MovedRight

-----------------------------------------------------------------------------
\* Key k is in the table with value v.
Has(t, c, k, v) == \E j \in 0 .. c - 1 : t[j] = <<k, v>>

\* What hashmap_lookup answers from table t.
Answers(t) == [k \in {x \in Keys : find(t, x) # NotFound} |-> Value(t[find(t, k)])]

\* A lookup finds a key exactly when the table has it, with the value it has.
LEMMA AnswersIs ==
  ASSUME NEW t, NEW c, Sound(t, c), NEW k \in Keys
  PROVE  /\ k \in DOMAIN Answers(t) <=> \E v \in Values : Has(t, c, k, v)
         /\ \A v \in Values : Has(t, c, k, v) => Answers(t)[k] = v
<1>1. t \in [0 .. c - 1 -> Slots]
  BY Zenon DEF Sound
<1>2. k \in DOMAIN Answers(t) <=> Holds(t, c, k)
  BY FindIs, Zenon DEF Answers
<1>3. ASSUME NEW v \in Values, Has(t, c, k, v)
      PROVE  k \in DOMAIN Answers(t) /\ Answers(t)[k] = v
  <2>1. PICK j \in 0 .. c - 1 : t[j] = <<k, v>>
    BY <1>3, Zenon DEF Has
  <2>2. Live(t[j]) /\ Key(t[j]) = k /\ Value(t[j]) = v
    BY <2>1, SlotLive, Zenon
  <2>3. find(t, k) = j /\ Holds(t, c, k)
    BY <2>2, FindHolder, Zenon DEF Holds
  <2>4. find(t, k) # NotFound
    BY <2>3, FindIs, Zenon
  <2>. QED BY <2>2, <2>3, <2>4, Zenon DEF Answers
<1>4. ASSUME Holds(t, c, k) PROVE \E v \in Values : Has(t, c, k, v)
  <2>1. PICK j \in 0 .. c - 1 : Live(t[j]) /\ Key(t[j]) = k
    BY <1>4, Zenon DEF Holds
  <2>2. Value(t[j]) \in Values /\ t[j] = <<k, Value(t[j])>>
    BY <1>1, <2>1, SlotLive, Zenon
  <2>. QED BY <2>2, Zenon DEF Has
<1>. QED BY <1>2, <1>3, <1>4, Zenon

\* The answers are a function on keys.
LEMMA AnswersDomain ==
  ASSUME NEW t
  PROVE  /\ DOMAIN Answers(t) \subseteq Keys
         /\ Answers(t) = [k \in DOMAIN Answers(t) |-> Answers(t)[k]]
BY Zenon DEF Answers

\* When the table changes by one pair, so do the answers.
LEMMA PutAnswers ==
  ASSUME NEW t, NEW b, Sound(t, b), NEW u, NEW c, Sound(u, c),
         NEW k \in Keys, NEW v \in Values,
         \A q \in Keys, w \in Values :
           Has(u, c, q, w) <=> IF q = k THEN w = v ELSE Has(t, b, q, w)
  PROVE  Answers(u) = [x \in DOMAIN Answers(t) \cup {k} |-> IF x = k THEN v ELSE Answers(t)[x]]
<1>1. DOMAIN Answers(u) = DOMAIN Answers(t) \cup {k}
  BY AnswersIs, AnswersDomain, SMTT(60)
<1>2. ASSUME NEW q \in DOMAIN Answers(u), q # k PROVE Answers(u)[q] = Answers(t)[q]
  BY <1>2, <1>1, AnswersIs, AnswersDomain, Zenon
<1>3. Answers(u)[k] = v
  BY AnswersIs, Zenon
<1>. QED BY <1>1, <1>2, <1>3, AnswersDomain, Zenon

\* When the table loses one key, so do the answers.
LEMMA DropAnswers ==
  ASSUME NEW t, NEW b, Sound(t, b), NEW u, NEW c, Sound(u, c), NEW k \in Keys,
         \A q \in Keys, w \in Values : Has(u, c, q, w) <=> q # k /\ Has(t, b, q, w)
  PROVE  Answers(u) = Restrict(Answers(t), DOMAIN Answers(t) \ {k})
<1>1. DOMAIN Answers(u) = DOMAIN Answers(t) \ {k}
  <2>1. ASSUME NEW q \in Keys
        PROVE  q \in DOMAIN Answers(u) <=> q \in DOMAIN Answers(t) /\ q # k
    BY AnswersIs, Zenon
  <2>. QED BY <2>1, AnswersDomain, Zenon
<1>2. ASSUME NEW q \in DOMAIN Answers(u) PROVE Answers(u)[q] = Answers(t)[q]
  BY <1>2, <1>1, AnswersIs, AnswersDomain, Zenon
<1>. QED BY <1>1, <1>2, AnswersDomain, Zenon DEF Restrict

\* A table that holds nothing has no answers.
LEMMA NoAnswers ==
  ASSUME NEW t, NEW c, Sound(t, c), \A q \in Keys, w \in Values : ~Has(t, c, q, w)
  PROVE  Answers(t) = <<>>
<1>1. DOMAIN Answers(t) = {}
  BY AnswersIs, AnswersDomain, Zenon
<1>. QED BY <1>1, AnswersDomain

\* What hashmap_insert does to a table that has the key.
LEMMA ReplaceTable ==
  ASSUME NEW t, NEW c, Sound(t, c), NEW k \in Keys, NEW v \in Values,
         NEW j \in 0 .. c - 1, Live(t[j]), Key(t[j]) = k, NEW u, Writes(u, t, j, <<k, v>>)
  PROVE  /\ Sound(u, c) /\ Cap(u) = c
         /\ LiveAt(u) = LiveAt(t) /\ UsedAt(u) = UsedAt(t)
         /\ \A q \in Keys, w \in Values :
              Has(u, c, q, w) <=> IF q = k THEN w = v ELSE Has(t, c, q, w)
<1>1. c \in Nat \ {0} /\ DOMAIN t = 0 .. c - 1 /\ t \in [0 .. c - 1 -> Slots]
  BY Zenon DEF Sound
<1>3. Sound(u, c)
  BY ReplaceSound, Zenon
<1>4. Cap(u) = c
  BY <1>1, <1>3, CapIs, Zenon DEF Sound
<1>5. Live(<<k, v>>)
  BY SlotLive, Zenon
<1>6. LiveAt(u) = LiveAt(t) /\ UsedAt(u) = UsedAt(t)
  BY <1>1, <1>5, ReplaceCounts, Zenon
<1>7. u[j] = <<k, v>> /\ \A i \in 0 .. c - 1 : i # j => u[i] = t[i]
  BY <1>1, Zenon DEF Writes
<1>8. ASSUME NEW q \in Keys, NEW w \in Values
      PROVE  Has(u, c, q, w) <=> IF q = k THEN w = v ELSE Has(t, c, q, w)
  <2>1. \A i \in 0 .. c - 1 : i # j => t[i] # <<k, w>>
    BY SlotLive, Zenon DEF Sound, Distinct
  <2>2. t[j] # <<q, w>> \/ q = k
    BY SlotLive, Zenon
  <2>. QED BY <1>7, <2>1, <2>2 DEF Has
<1>. QED BY <1>3, <1>4, <1>6, <1>8, Zenon

\* What hashmap_insert does to a table that has not the key.
LEMMA FillTable ==
  ASSUME NEW t, NEW c, Sound(t, c), NEW k \in Keys, NEW v \in Values, ~Holds(t, c, k),
         NEW n \in 0 .. c - 1, ~Live(t[Probe(c, k, n)]),
         \A m \in 0 .. n - 1 : t[Probe(c, k, m)] # Empty,
         NEW j, j = Probe(c, k, n), NEW u, Writes(u, t, j, <<k, v>>)
  PROVE  /\ Sound(u, c) /\ Cap(u) = c
         /\ Cardinality(LiveAt(u)) = Cardinality(LiveAt(t)) + 1
         /\ Cardinality(UsedAt(u)) = Cardinality(UsedAt(t)) + (IF t[j] = Empty THEN 1 ELSE 0)
         /\ \A q \in Keys, w \in Values :
              Has(u, c, q, w) <=> IF q = k THEN w = v ELSE Has(t, c, q, w)
<1>1. c \in Nat \ {0} /\ DOMAIN t = 0 .. c - 1 /\ t \in [0 .. c - 1 -> Slots]
  BY Zenon DEF Sound
<1>2. j \in 0 .. c - 1 /\ ~Live(t[j])
  BY <1>1, ProbeIn, Zenon
<1>4. Sound(u, c)
  BY PutSound, Zenon
<1>5. Cap(u) = c
  BY <1>1, <1>4, CapIs, Zenon DEF Sound
<1>6. Live(<<k, v>>)
  BY SlotLive, Zenon
<1>7. /\ Cardinality(LiveAt(u)) = Cardinality(LiveAt(t)) + 1
      /\ Cardinality(UsedAt(u)) = Cardinality(UsedAt(t)) + (IF t[j] = Empty THEN 1 ELSE 0)
  BY <1>1, <1>2, <1>6, FillCounts, SMTT(60)
<1>8. u[j] = <<k, v>> /\ \A i \in 0 .. c - 1 : i # j => u[i] = t[i]
  BY <1>1, <1>2, Zenon DEF Writes
<1>9. ASSUME NEW q \in Keys, NEW w \in Values
      PROVE  Has(u, c, q, w) <=> IF q = k THEN w = v ELSE Has(t, c, q, w)
  <2>1. \A i \in 0 .. c - 1 : t[i] # <<k, w>>
    BY SlotLive DEF Holds
  <2>2. t[j] # <<q, w>>
    BY <1>2, SlotLive, Zenon
  <2>. QED BY <1>2, <1>8, <2>1, <2>2, SMTT(60) DEF Has
<1>. QED BY <1>4, <1>5, <1>7, <1>9, Zenon

\* What a removal does to a table.
LEMMA EraseTable ==
  ASSUME NEW t, NEW c, Sound(t, c), NEW j \in 0 .. c - 1, Live(t[j]),
         NEW u, Writes(u, t, j, Deleted)
  PROVE  /\ Sound(u, c) /\ Cap(u) = c
         /\ Cardinality(LiveAt(u)) = Cardinality(LiveAt(t)) - 1
         /\ Cardinality(UsedAt(u)) = Cardinality(UsedAt(t))
         /\ \A q \in Keys, w \in Values : Has(u, c, q, w) <=> q # Key(t[j]) /\ Has(t, c, q, w)
<1>1. c \in Nat \ {0} /\ DOMAIN t = 0 .. c - 1 /\ t \in [0 .. c - 1 -> Slots]
  BY Zenon DEF Sound
<1>2. Sound(u, c)
  BY EraseSound, Zenon
<1>3. Cap(u) = c
  BY <1>1, <1>2, CapIs, Zenon DEF Sound
<1>4. /\ Cardinality(LiveAt(u)) = Cardinality(LiveAt(t)) - 1
      /\ Cardinality(UsedAt(u)) = Cardinality(UsedAt(t))
  BY <1>1, EraseCounts, Zenon
<1>5. u[j] = Deleted /\ \A i \in 0 .. c - 1 : i # j => u[i] = t[i]
  BY <1>1, Zenon DEF Writes
<1>6. ASSUME NEW q \in Keys, NEW w \in Values
      PROVE  Has(u, c, q, w) <=> q # Key(t[j]) /\ Has(t, c, q, w)
  <2>1. \A i \in 0 .. c - 1 : i # j => t[i] # <<Key(t[j]), w>>
    BY <1>1, SlotLive, Zenon DEF Sound, Distinct
  <2>2. t[j] # <<q, w>> \/ q = Key(t[j])
    BY SlotLive, Zenon
  <2>3. Deleted # <<q, w>>
    BY SlotLive, Zenon
  <2>. QED BY <1>5, <2>1, <2>2, <2>3, Zenon DEF Has
<1>. QED BY <1>2, <1>3, <1>4, <1>6, Zenon

-----------------------------------------------------------------------------
(* The steps of HashMap.                                                   *)

\* The inductive invariant, for the table and its counters: the load stays below
\* three quarters, and the room is what the live entries once needed.
Table ==
  /\ Sound(slots, Cap(slots))
  /\ count = Cardinality(LiveAt(slots)) /\ occupied = Cardinality(UsedAt(slots))
  /\ occupied * 4 < Cap(slots) * 3
  /\ peak \in Nat /\ count <= peak
  /\ Cap(slots) = MinCap \/ Cap(slots) < 4 * (peak + 1)
  /\ keysHeld = count /\ valuesHeld = count

\* Table t, of c slots, can take one entry more, and has the pairs of slots.
Roomy(t, c, used) ==
  /\ Sound(t, c)
  /\ count = Cardinality(LiveAt(t)) /\ used = Cardinality(UsedAt(t))
  /\ (used + 1) * 4 < c * 3
  /\ c = MinCap \/ c < 4 * (peak + 1)
  /\ \A q \in Keys, w \in Values : Has(t, c, q, w) <=> Has(slots, Cap(slots), q, w)

\* Live slots are among those that are not empty.
LEMMA CountsFit ==
  ASSUME Table
  PROVE  /\ Cap(slots) \in Nat \ {0} /\ DOMAIN slots = 0 .. Cap(slots) - 1
         /\ count \in Nat /\ occupied \in Nat /\ count <= occupied
<1>. DEFINE c == Cap(slots)
<1>1. c \in Nat \ {0} /\ DOMAIN slots = 0 .. c - 1
  BY Zenon DEF Table, Sound
<1>2. LiveAt(slots) \in SUBSET UsedAt(slots)
  BY Zenon DEF LiveAt, UsedAt, Live
<1>3. IsFiniteSet(UsedAt(slots)) /\ Cardinality(UsedAt(slots)) \in Nat /\ Cardinality(LiveAt(slots)) \in Nat
  <2>. HIDE DEF c
  <2>. QED BY <1>1, Finite
<1>4. Cardinality(LiveAt(slots)) <= Cardinality(UsedAt(slots))
  BY <1>2, <1>3, FS_Subset, Zenon
<1>. QED BY <1>1, <1>3, <1>4, Zenon DEF Table

\* A rehash makes room, at the same size or at twice the size.
LEMMA RehashIs ==
  ASSUME Table, NeedsRehash
  PROVE  Roomy(resize(slots, NewCap), NewCap, count)
<1>. DEFINE c == Cap(slots)  d == NewCap  u == resize(slots, d)
<1>1. c \in Nat \ {0} /\ count \in Nat /\ occupied \in Nat /\ count <= occupied /\ occupied * 4 < c * 3
  BY CountsFit, Zenon DEF Table
<1>2. d = IF (count + 1) * 2 > c THEN 2 * c ELSE c
  BY Zenon DEF NewCap
<1>3. peak \in Nat /\ count <= peak /\ (c = MinCap \/ c < 4 * (peak + 1))
  BY Zenon DEF Table
<1>. HIDE DEF c, d
<1>4. d \in Nat \ {0} /\ count < d /\ (count + 1) * 4 < d * 3
  BY <1>1, <1>2
<1>5. d = MinCap \/ d < 4 * (peak + 1)
  BY <1>1, <1>2, <1>3
<1>6. Sound(slots, c) /\ count = Cardinality(LiveAt(slots))
  BY Zenon DEF Table, c
<1>7. /\ Sound(u, d)
      /\ \A j \in 0 .. d - 1 : u[j] # Deleted
      /\ Content(u, d) = Content(slots, c)
      /\ Cardinality(LiveAt(u)) = count
  BY <1>4, <1>6, ResizeIs, Zenon
<1>. HIDE DEF u
<1>8. UsedAt(u) = LiveAt(u)
  BY <1>7, Zenon DEF UsedAt, LiveAt, Live, Sound
<1>9. ASSUME NEW q \in Keys, NEW w \in Values PROVE Has(u, d, q, w) <=> Has(slots, c, q, w)
  <2>1. <<q, w>> \in Content(u, d) <=> <<q, w>> \in Content(slots, c)
    BY <1>7, Zenon
  <2>. QED BY <2>1, Zenon DEF Content, Has
<1>10. Roomy(u, d, count)
  BY <1>4, <1>5, <1>7, <1>8, <1>9, Zenon DEF Roomy, c
<1>. QED BY <1>10, Zenon DEF u, d

\* hashmap_insert searches a table with room, rehashed or not.
LEMMA RoomIs ==
  ASSUME Table, NEW t, t = IF NeedsRehash THEN resize(slots, NewCap) ELSE slots,
         NEW used, used = IF NeedsRehash THEN count ELSE occupied
  PROVE  \E c : Roomy(t, c, used)
<1>1. CASE NeedsRehash
  BY <1>1, RehashIs, Zenon
<1>2. CASE ~NeedsRehash
  <2>1. Cap(slots) \in Nat \ {0} /\ occupied \in Nat
    BY CountsFit, Zenon
  <2>2. (occupied + 1) * 4 < Cap(slots) * 3
    BY <1>2, <2>1 DEF NeedsRehash
  <2>3. Roomy(slots, Cap(slots), occupied)
    BY <2>2, Zenon DEF Roomy, Table
  <2>. QED BY <1>2, <2>3, Zenon
<1>. QED BY <1>1, <1>2, Zenon

\* Room means an empty slot.
LEMMA RoomLeft ==
  ASSUME NEW t, NEW c, NEW used, Roomy(t, c, used)
  PROVE  /\ c \in Nat \ {0} /\ DOMAIN t = 0 .. c - 1 /\ t \in [0 .. c - 1 -> Slots]
         /\ used \in Nat /\ count \in Nat
         /\ \E j \in 0 .. c - 1 : t[j] = Empty
<1>1. c \in Nat \ {0} /\ DOMAIN t = 0 .. c - 1 /\ t \in [0 .. c - 1 -> Slots]
  BY Zenon DEF Roomy, Sound
<1>2. used \in Nat /\ count \in Nat
  BY <1>1, Finite DEF Roomy
<1>3. Cardinality(UsedAt(t)) < c
  BY <1>1, <1>2 DEF Roomy
<1>4. \E j \in 0 .. c - 1 : t[j] = Empty
  BY <1>1, <1>3, SlotLeft, Zenon
<1>. QED BY <1>1, <1>2, <1>4, Zenon

-----------------------------------------------------------------------------
\* The step makes k answer v and changes no other answer.
Becomes(k, v) ==
  \A q \in Keys, w \in Values :
    Has(slots', Cap(slots'), q, w) <=> IF q = k THEN w = v ELSE Has(slots, Cap(slots), q, w)

\* Table, in the next state, from its parts.
LEMMA TableFrom ==
  ASSUME NEW c \in Nat \ {0}, Sound(slots', c), Cap(slots') = c,
         count' = Cardinality(LiveAt(slots')), occupied' = Cardinality(UsedAt(slots')),
         occupied' * 4 < c * 3, peak' \in Nat, count' <= peak',
         c = MinCap \/ c < 4 * (peak' + 1), keysHeld' = count', valuesHeld' = count'
  PROVE  Table'
BY Zenon DEF Table

\* hashmap_insert keeps Table, also across a rehash, and is an insertion.
LEMMA InsertStep ==
  ASSUME Table, NEW k \in Keys, NEW v \in Values, hashmap_insert(k, v)
  PROVE  Table' /\ Becomes(k, v)
<1>. DEFINE t == IF NeedsRehash THEN resize(slots, NewCap) ELSE slots
            used == IF NeedsRehash THEN count ELSE occupied
            at == InsertAt(t, k)
<1>1. IF find(t, k) # NotFound
      THEN Replace(t, find(t, k), v) /\ occupied' = used
      ELSE /\ slots' = [t EXCEPT ![at] = <<k, v>>]
           /\ occupied' = IF t[at] = Empty THEN used + 1 ELSE used
           /\ count' = count + 1
           /\ keysHeld' = keysHeld + 1 /\ valuesHeld' = valuesHeld + 1
           /\ peak' = Max({peak, count'})
  BY Zenon DEF hashmap_insert
<1>2. PICK c : Roomy(t, c, used)
  BY RoomIs, Zenon
<1>. HIDE DEF t, used
<1>3. /\ c \in Nat \ {0} /\ DOMAIN t = 0 .. c - 1 /\ t \in [0 .. c - 1 -> Slots]
      /\ used \in Nat /\ count \in Nat
      /\ \E j \in 0 .. c - 1 : t[j] = Empty
  BY <1>2, RoomLeft, Zenon
<1>4. /\ Sound(t, c) /\ count = Cardinality(LiveAt(t)) /\ used = Cardinality(UsedAt(t))
      /\ (used + 1) * 4 < c * 3 /\ (c = MinCap \/ c < 4 * (peak + 1))
  BY <1>2, Zenon DEF Roomy
<1>5. peak \in Nat /\ count <= peak /\ keysHeld = count /\ valuesHeld = count
  BY Zenon DEF Table
<1>6. \A q \in Keys, w \in Values : Has(t, c, q, w) <=> Has(slots, Cap(slots), q, w)
  BY <1>2, Zenon DEF Roomy
<1>7. CASE find(t, k) # NotFound
  <2>. DEFINE j == find(t, k)
  <2>1. j \in 0 .. c - 1 /\ Live(t[j]) /\ Key(t[j]) = k
    BY <1>4, <1>7, FindIs, Zenon
  <2>2. slots' = [t EXCEPT ![j] = <<Key(t[j]), v>>]
    BY <1>1, <1>7, Zenon DEF Replace
  <2>3. occupied' = used /\ UNCHANGED <<count, keysHeld, valuesHeld, peak>>
    BY <1>1, <1>7, Zenon DEF Replace
  <2>. HIDE DEF j
  <2>4. Writes(slots', t, j, <<k, v>>)
    BY <2>1, <2>2, Zenon DEF Writes
  <2>5. /\ Sound(slots', c) /\ Cap(slots') = c
        /\ LiveAt(slots') = LiveAt(t) /\ UsedAt(slots') = UsedAt(t)
        /\ \A q \in Keys, w \in Values :
             Has(slots', c, q, w) <=> IF q = k THEN w = v ELSE Has(t, c, q, w)
    BY <1>4, <2>1, <2>4, ReplaceTable, SMTT(60)
  <2>6. Table'
    <3>1. occupied' * 4 < c * 3
      BY <1>3, <1>4, <2>3, SMTT(60)
    <3>2. count' = Cardinality(LiveAt(slots')) /\ occupied' = Cardinality(UsedAt(slots'))
      BY <1>4, <2>3, <2>5, Zenon
    <3>. QED BY <1>3, <1>4, <1>5, <2>3, <2>5, <3>1, <3>2, TableFrom, Zenon
  <2>7. Becomes(k, v)
    BY <1>6, <2>5, Zenon DEF Becomes
  <2>. QED BY <2>6, <2>7, Zenon
<1>8. CASE find(t, k) = NotFound
  <2>1. ~Holds(t, c, k)
    BY <1>4, <1>8, FindIs, Zenon
  <2>2. PICK n \in 0 .. c - 1 : /\ at = Probe(c, k, n)
                                /\ ~Live(t[Probe(c, k, n)])
                                /\ \A m \in 0 .. n - 1 : t[Probe(c, k, m)] # Empty
    <3>1. FirstFree(t, c, k, at)
      BY <1>3, <1>4, <2>1, InsertAtIs, Zenon
    <3>. QED BY <3>1, Zenon DEF FirstFree
  <2>3. Writes(slots', t, at, <<k, v>>)
    BY <1>1, <1>8, Zenon DEF Writes
  <2>4. /\ occupied' = IF t[at] = Empty THEN used + 1 ELSE used
        /\ count' = count + 1 /\ keysHeld' = keysHeld + 1 /\ valuesHeld' = valuesHeld + 1
        /\ peak' = Max({peak, count'})
    BY <1>1, <1>8, Zenon
  <2>. HIDE DEF at
  <2>5. /\ Sound(slots', c) /\ Cap(slots') = c
        /\ Cardinality(LiveAt(slots')) = count + 1
        /\ Cardinality(UsedAt(slots')) = used + (IF t[at] = Empty THEN 1 ELSE 0)
        /\ \A q \in Keys, w \in Values :
             Has(slots', c, q, w) <=> IF q = k THEN w = v ELSE Has(t, c, q, w)
    BY <1>4, <2>1, <2>2, <2>3, FillTable, SMTT(60)
  <2>6. peak' \in Nat /\ peak' >= peak /\ peak' >= count + 1
    BY <1>3, <1>5, <2>4, MaxTwo, SMTT(60)
  <2>7. Table'
    <3>1. occupied' = Cardinality(UsedAt(slots')) /\ occupied' <= used + 1 /\ occupied' \in Nat
      BY <1>3, <2>4, <2>5, SMTT(60)
    <3>2. occupied' * 4 < c * 3
      BY <1>3, <1>4, <3>1, SMTT(60)
    <3>3. count' = Cardinality(LiveAt(slots')) /\ count' <= peak'
          /\ keysHeld' = count' /\ valuesHeld' = count'
      BY <1>5, <2>4, <2>5, <2>6, Zenon
    <3>4. c = MinCap \/ c < 4 * (peak' + 1)
      <4>1. c < 4 * (peak + 1) => c < 4 * (peak' + 1)
        <5>1. \A a, b \in Nat : a <= b /\ c < 4 * (a + 1) => c < 4 * (b + 1)
          BY <1>3
        <5>2. peak \in Nat /\ peak' \in Nat /\ peak <= peak'
          BY <1>5, <2>6, Zenon
        <5>. QED BY <5>1, <5>2, Zenon
      <4>. QED BY <4>1, <1>4, Zenon
    <3>. QED BY <1>3, <2>5, <2>6, <3>1, <3>2, <3>3, <3>4, TableFrom, ZenonT(60)
  <2>8. Becomes(k, v)
    BY <1>6, <2>5, Zenon DEF Becomes
  <2>. QED BY <2>7, <2>8, Zenon
<1>. QED BY <1>7, <1>8, Zenon

\* The step removes k and changes no other answer.
Loses(k) ==
  \A q \in Keys, w \in Values :
    Has(slots', Cap(slots'), q, w) <=> q # k /\ Has(slots, Cap(slots), q, w)

\* Erase keeps Table, and is a removal.
LEMMA EraseStep ==
  ASSUME Table, NEW j \in DOMAIN slots, Live(slots[j]), Erase(j), UNCHANGED peak
  PROVE  /\ Table' /\ Loses(Key(slots[j])) /\ Cap(slots') = Cap(slots)
         /\ DOMAIN slots' = DOMAIN slots /\ slots'[j] = Deleted
         /\ \A i \in DOMAIN slots : i # j => slots'[i] = slots[i]
<1>. DEFINE c == Cap(slots)  k == Key(slots[j])
<1>1. c \in Nat \ {0} /\ DOMAIN slots = 0 .. c - 1 /\ count \in Nat /\ Sound(slots, c)
  BY CountsFit, Zenon DEF Table
<1>2. /\ occupied * 4 < c * 3 /\ peak \in Nat /\ count <= peak
      /\ c = MinCap \/ c < 4 * (peak + 1)
      /\ keysHeld = count /\ valuesHeld = count
      /\ count = Cardinality(LiveAt(slots)) /\ occupied = Cardinality(UsedAt(slots))
  BY Zenon DEF Table
<1>3. Writes(slots', slots, j, Deleted)
  BY Zenon DEF Erase, Writes
<1>4. /\ count' = count - 1 /\ keysHeld' = keysHeld - 1 /\ valuesHeld' = valuesHeld - 1
      /\ occupied' = occupied
  BY Zenon DEF Erase
<1>. HIDE DEF c
<1>5. /\ Sound(slots', c) /\ Cap(slots') = c
      /\ Cardinality(LiveAt(slots')) = Cardinality(LiveAt(slots)) - 1
      /\ Cardinality(UsedAt(slots')) = Cardinality(UsedAt(slots))
      /\ \A q \in Keys, w \in Values : Has(slots', c, q, w) <=> q # k /\ Has(slots, c, q, w)
  BY <1>1, <1>3, EraseTable, Zenon
<1>6. Table'
  <2>1. count' <= peak'
    BY <1>1, <1>2, <1>4, SMTT(60)
  <2>. QED BY <1>1, <1>2, <1>4, <1>5, <2>1, TableFrom, ZenonT(60)
<1>7. Loses(k)
  BY <1>5, Zenon DEF Loses, c
<1>8. /\ DOMAIN slots' = DOMAIN slots /\ slots'[j] = Deleted
      /\ \A i \in DOMAIN slots : i # j => slots'[i] = slots[i]
  BY <1>3, Zenon DEF Writes
<1>. QED BY <1>5, <1>6, <1>7, <1>8, Zenon DEF c

\* HASHMAP_MIN_CAP is not zero.
LEMMA MinCapIs == MinCap \in Nat \ {0}
BY HashMapAssumption

\* A new table, with counters reset, satisfies Table.
LEMMA NewTableStep ==
  ASSUME slots' = NewTable(MinCap), count' = 0, occupied' = 0, peak' = 0,
         keysHeld' = 0, valuesHeld' = 0
  PROVE  Table' /\ \A q \in Keys, w \in Values : ~Has(slots', Cap(slots'), q, w)
<1>. DEFINE c == MinCap
<1>1. c \in Nat \ {0}
  BY MinCapIs, Zenon
<1>. HIDE DEF c
<1>2. /\ Sound(slots', c) /\ Content(slots', c) = {}
      /\ LiveAt(slots') = {} /\ UsedAt(slots') = {}
  BY <1>1, NewTableIs, Zenon DEF c
<1>3. Cap(slots') = c
  BY <1>1, <1>2, CapIs, Zenon DEF Sound
<1>4. Cardinality({}) = 0
  BY FS_EmptySet, Zenon
<1>5. Table'
  <2>1. count' = Cardinality(LiveAt(slots')) /\ occupied' = Cardinality(UsedAt(slots'))
    BY <1>2, <1>4, Zenon
  <2>2. occupied' * 4 < c * 3 /\ peak' \in Nat /\ count' <= peak'
    BY <1>1, SMTT(60)
  <2>3. keysHeld' = count' /\ valuesHeld' = count' /\ c = MinCap
    BY Zenon DEF c
  <2>. QED BY <1>1, <1>2, <1>3, <2>1, <2>2, <2>3, TableFrom, Zenon
<1>6. ASSUME NEW q \in Keys, NEW w \in Values PROVE ~Has(slots', c, q, w)
  <2>1. <<q, w>> \notin Content(slots', c)
    BY <1>2, Zenon
  <2>. QED BY <2>1, ZenonT(60) DEF Content, Has
<1>. QED BY <1>3, <1>5, <1>6, Zenon

-----------------------------------------------------------------------------
\* The inductive invariant, for an iteration: the live slots behind it.slot are
\* visited and those ahead are not, and a key that is neither visited nor ahead was
\* not there at the start.
Visiting ==
  /\ it.slot \in 0 .. Cap(slots)
  /\ it.valid => /\ it.current \in DOMAIN slots /\ it.current < it.slot
                 /\ Live(slots[it.current])
  /\ start \subseteq Keys
  /\ \A j \in DOMAIN slots :
       Live(slots[j]) => /\ Key(slots[j]) \in start
                         /\ visits[Key(slots[j])] = IF j < it.slot THEN 1 ELSE 0
  /\ \A k \in Keys : visits[k] <= IF k \in start THEN 1 ELSE 0
  /\ \A k \in start :
       \/ visits[k] = 1
       \/ \E j \in DOMAIN slots : j >= it.slot /\ Live(slots[j]) /\ Key(slots[j]) = k

\* The iterator; outside an iteration only its type matters.
Iter ==
  /\ it \in [on : BOOLEAN, slot : Nat, current : Nat \cup {NotFound}, valid : BOOLEAN]
  /\ visits \in [Keys -> Nat]
  /\ it.on => Visiting

IInv == Table /\ Iter

\* Live slots hold keys.
LEMMA LiveKeys ==
  ASSUME Table
  PROVE  \A j \in DOMAIN slots : Live(slots[j]) => Key(slots[j]) \in Keys
<1>1. \A j \in DOMAIN slots : slots[j] \in Slots
  BY Zenon DEF Table, Sound
<1>. QED BY <1>1, SlotLive, Zenon

\* hashmap_new establishes the invariant.
LEMMA InitInv == Init => IInv
<1>. SUFFICES ASSUME Init PROVE IInv
  BY Zenon
<1>1. Table
  <2>. DEFINE c == MinCap
  <2>1. c \in Nat \ {0}
    BY MinCapIs, Zenon
  <2>2. slots = NewTable(c) /\ count = 0 /\ occupied = 0 /\ peak = 0 /\ keysHeld = 0 /\ valuesHeld = 0
    BY Zenon DEF Init
  <2>. HIDE DEF c
  <2>3. Sound(slots, c) /\ LiveAt(slots) = {} /\ UsedAt(slots) = {}
    BY <2>1, <2>2, NewTableIs, Zenon
  <2>4. Cap(slots) = c
    BY <2>1, <2>3, CapIs, Zenon DEF Sound
  <2>5. Cardinality({}) = 0
    BY FS_EmptySet, Zenon
  <2>. QED BY <2>1, <2>2, <2>3, <2>4, <2>5, SMTT(60) DEF Table, c
<1>2. Iter
  BY Zenon DEF Init, Iter
<1>. QED BY <1>1, <1>2, Zenon DEF IInv

\* hashmap_iter_init begins with every key ahead.
LEMMA InitStep ==
  ASSUME Table, hashmap_iter_init
  PROVE  Iter'
<1>1. /\ it' = [on |-> TRUE, slot |-> 0, current |-> NotFound, valid |-> FALSE]
      /\ start' = hashmap_keys /\ visits' = [k \in Keys |-> 0] /\ slots' = slots
  BY Zenon DEF hashmap_iter_init
<1>2. Cap(slots) \in Nat /\ DOMAIN slots = 0 .. Cap(slots) - 1
  BY CountsFit, Zenon
<1>3. start' \subseteq Keys
  BY <1>1, LiveKeys, Zenon DEF hashmap_keys
<1>4. \A j \in DOMAIN slots : Live(slots[j]) => Key(slots[j]) \in start'
  BY <1>1, Zenon DEF hashmap_keys
<1>5. \A k \in start' : \E j \in DOMAIN slots : j >= 0 /\ Live(slots[j]) /\ Key(slots[j]) = k
  BY <1>1, <1>2 DEF hashmap_keys
<1>6. \A k \in Keys : visits'[k] = 0
  BY <1>1, Zenon
<1>7. it'.slot = 0 /\ it'.valid = FALSE
  BY <1>1, Zenon
<1>8. 0 \in 0 .. Cap(slots) /\ \A j \in DOMAIN slots : ~(j < 0)
  BY <1>2
<1>9. Visiting'
  <2>1. \A j \in DOMAIN slots : Live(slots[j]) => visits'[Key(slots[j])] = 0
    BY <1>6, LiveKeys, Zenon
  <2>2. \A k \in Keys : visits'[k] <= IF k \in start' THEN 1 ELSE 0
    BY <1>6
  <2>. QED BY <1>1, <1>3, <1>4, <1>5, <1>7, <1>8, <2>1, <2>2, ZenonT(60) DEF Visiting
<1>. QED BY <1>1, <1>9, Zenon DEF Iter

\* hashmap_iter_next visits the first live slot ahead, or ends.
LEMMA NextStep ==
  ASSUME Table, Iter, hashmap_iter_next
  PROVE  Iter'
<1>. DEFINE c == Cap(slots)
            ahead == {j \in DOMAIN slots : j >= it.slot /\ Live(slots[j])}
            j == Min(ahead)
<1>1. c \in Nat /\ DOMAIN slots = 0 .. c - 1
  BY CountsFit, Zenon
<1>2. /\ it \in [on : BOOLEAN, slot : Nat, current : Nat \cup {NotFound}, valid : BOOLEAN]
      /\ visits \in [Keys -> Nat] /\ it.on /\ Visiting
  BY Zenon DEF Iter, hashmap_iter_next
<1>3. slots' = slots /\ start' = start
  BY Zenon DEF hashmap_iter_next
<1>4. CASE ahead # {}
  <2>1. ahead \subseteq Nat
    BY <1>1
  <2>2. j \in ahead /\ \A i \in ahead : j <= i
    BY <1>4, <2>1, LeastNat, Zenon
  <2>. DEFINE k == Key(slots[j])
  <2>3. /\ it' = [it EXCEPT !.slot = j + 1, !.current = j, !.valid = TRUE]
        /\ visits' = [visits EXCEPT ![k] = @ + 1]
    BY <1>4, Zenon DEF hashmap_iter_next
  <2>4. j \in 0 .. c - 1 /\ j >= it.slot /\ Live(slots[j]) /\ k \in Keys
    BY <2>2, <1>1, LiveKeys, Zenon
  <2>5. \A i \in 0 .. c - 1 : i >= it.slot /\ Live(slots[i]) => j <= i
    BY <2>2, <1>1, Zenon
  <2>. HIDE DEF j
  <2>6. k \in start /\ visits[k] = 0
    BY <1>1, <1>2, <2>4, SMTT(60) DEF Visiting
  <2>. HIDE DEF k
  <2>7. visits' \in [Keys -> Nat] /\ visits'[k] = 1 /\ \A q \in Keys : q # k => visits'[q] = visits[q]
    BY <1>2, <2>3, <2>4, <2>6, SMTT(60)
  <2>8. /\ it' \in [on : BOOLEAN, slot : Nat, current : Nat \cup {NotFound}, valid : BOOLEAN]
        /\ it'.slot = j + 1 /\ it'.current = j /\ it'.valid = TRUE
    <3>1. j \in Nat /\ j + 1 \in Nat
      BY <1>1, <2>4, SMTT(60)
    <3>. QED BY <1>2, <2>3, <3>1, Zenon
  <2>9. ASSUME NEW i \in 0 .. c - 1, Live(slots[i])
        PROVE  visits'[Key(slots[i])] = IF i < j + 1 THEN 1 ELSE 0
    <3>1. Key(slots[i]) \in Keys /\ visits[Key(slots[i])] = IF i < it.slot THEN 1 ELSE 0
      BY <1>1, <1>2, <2>9, LiveKeys, Zenon DEF Visiting
    <3>2. CASE i = j
      BY <3>2, <2>7, <2>4, SMTT(60) DEF k
    <3>3. CASE i # j
      <4>1. Key(slots[i]) # k
        BY <1>1, <2>4, <2>9, <3>3, Zenon DEF Table, Sound, Distinct, k
      <4>2. i < it.slot <=> i < j + 1
        BY <1>1, <1>2, <2>4, <2>5, <2>9, <3>3, SMTT(60)
      <4>. QED BY <4>1, <4>2, <3>1, <2>7, Zenon
    <3>. QED BY <3>2, <3>3, Zenon
  <2>10. ASSUME NEW q \in start
         PROVE  \/ visits'[q] = 1
                \/ \E i \in DOMAIN slots : i >= j + 1 /\ Live(slots[i]) /\ Key(slots[i]) = q
    <3>1. q \in Keys
      BY <1>2, Zenon DEF Visiting
    <3>2. CASE q = k
      BY <3>2, <2>7, Zenon
    <3>3. CASE q # k /\ visits[q] = 1
      BY <3>1, <3>3, <2>7, Zenon
    <3>4. CASE q # k /\ visits[q] # 1
      <4>1. PICK i \in DOMAIN slots : i >= it.slot /\ Live(slots[i]) /\ Key(slots[i]) = q
        BY <3>4, <1>2, Zenon DEF Visiting
      <4>2. i # j /\ j <= i /\ i \in 0 .. c - 1
        BY <4>1, <3>4, <1>1, <2>5, Zenon DEF k
      <4>3. i >= j + 1
        BY <4>2, <2>4, SMTT(60)
      <4>. QED BY <4>1, <4>3, Zenon
    <3>. QED BY <3>2, <3>3, <3>4, Zenon
  <2>11. \A q \in Keys : visits'[q] <= IF q \in start THEN 1 ELSE 0
    BY <1>2, <2>6, <2>7, SMTT(60) DEF Visiting
  <2>12. j + 1 \in 0 .. c /\ j < j + 1
    BY <1>1, <2>4, SMTT(60)
  <2>13. start \subseteq Keys /\ \A i \in DOMAIN slots : Live(slots[i]) => Key(slots[i]) \in start
    BY <1>2, Zenon DEF Visiting
  <2>14. Visiting'
    BY <1>1, <1>3, <2>4, <2>8, <2>9, <2>10, <2>11, <2>12, <2>13, SMTT(60) DEF Visiting
  <2>. QED BY <2>7, <2>8, <2>14, Zenon DEF Iter
<1>5. CASE ahead = {}
  <2>1. it' = [it EXCEPT !.slot = c, !.valid = FALSE] /\ visits' = visits
    BY <1>5, Zenon DEF hashmap_iter_next
  <2>. HIDE DEF c
  <2>2. /\ it' \in [on : BOOLEAN, slot : Nat, current : Nat \cup {NotFound}, valid : BOOLEAN]
        /\ it'.slot = c /\ it'.valid = FALSE
    BY <1>1, <1>2, <2>1, Zenon
  <2>3. \A i \in 0 .. c - 1 : Live(slots[i]) => i < it.slot /\ i < c
    BY <1>1, <1>2, <1>5, SMTT(60)
  <2>4. \A q \in start : visits[q] = 1
    BY <1>2, <1>5, Zenon DEF Visiting
  <2>5. Visiting'
    BY <1>1, <1>2, <1>3, <2>1, <2>2, <2>3, <2>4, SMTT(60) DEF Visiting, c
  <2>. QED BY <1>2, <2>1, <2>2, <2>5, Zenon DEF Iter
<1>. QED BY <1>4, <1>5, Zenon

\* hashmap_iter_remove removes the entry just visited and disturbs neither the
\* table nor the iteration.
LEMMA IterRemoveStep ==
  ASSUME Table, Iter, hashmap_iter_remove
  PROVE  Table' /\ Iter' /\ \E k \in DOMAIN Answers(slots) : Loses(k)
<1>. DEFINE j == it.current  k == Key(slots[j])
<1>1. Visiting /\ it.on /\ it.valid /\ Erase(j) /\ UNCHANGED peak
  BY Zenon DEF Iter, hashmap_iter_remove
<1>2. j \in DOMAIN slots /\ Live(slots[j]) /\ j < it.slot
  BY <1>1, Zenon DEF Visiting
<1>3. it' = [it EXCEPT !.valid = FALSE] /\ UNCHANGED <<start, visits>>
  BY Zenon DEF hashmap_iter_remove
<1>4. /\ Table' /\ Loses(k) /\ Cap(slots') = Cap(slots)
      /\ DOMAIN slots' = DOMAIN slots /\ slots'[j] = Deleted
      /\ \A i \in DOMAIN slots : i # j => slots'[i] = slots[i]
  BY <1>1, <1>2, EraseStep, Zenon
<1>5. /\ it \in [on : BOOLEAN, slot : Nat, current : Nat \cup {NotFound}, valid : BOOLEAN]
      /\ visits \in [Keys -> Nat]
  BY Zenon DEF Iter
<1>6. /\ it' \in [on : BOOLEAN, slot : Nat, current : Nat \cup {NotFound}, valid : BOOLEAN]
      /\ it'.slot = it.slot /\ it'.valid = FALSE
  BY <1>3, <1>5, Zenon
<1>. HIDE DEF j, k
<1>7. \A i \in DOMAIN slots : Live(slots'[i]) => slots'[i] = slots[i]
  BY <1>4, SlotLive, Zenon
<1>8. \A i \in DOMAIN slots : i >= it.slot => slots'[i] = slots[i]
  <2>1. DOMAIN slots \subseteq Nat
    BY CountsFit
  <2>. QED BY <1>2, <1>4, <1>5, <2>1, SMTT(60)
<1>9. Visiting'
  <2>1. Cap(slots)' = Cap(slots)
    BY <1>4, Zenon
  <2>2. it'.slot \in 0 .. Cap(slots')
    BY <1>1, <1>4, <1>6, Zenon DEF Visiting
  <2>3. \A i \in DOMAIN slots' :
          Live(slots'[i]) => /\ Key(slots'[i]) \in start'
                             /\ visits'[Key(slots'[i])] = IF i < it'.slot THEN 1 ELSE 0
    BY <1>1, <1>3, <1>4, <1>6, <1>7, SMTT(60) DEF Visiting
  <2>4. \A q \in start' :
          \/ visits'[q] = 1
          \/ \E i \in DOMAIN slots' : i >= it'.slot /\ Live(slots'[i]) /\ Key(slots'[i]) = q
    BY <1>1, <1>3, <1>4, <1>6, <1>8, SMTT(60) DEF Visiting
  <2>5. start' \subseteq Keys /\ \A q \in Keys : visits'[q] <= IF q \in start' THEN 1 ELSE 0
    BY <1>1, <1>3, Zenon DEF Visiting
  <2>. QED BY <1>6, <2>2, <2>3, <2>4, <2>5, Zenon DEF Visiting
<1>10. Iter'
  BY <1>3, <1>5, <1>6, <1>9, Zenon DEF Iter
<1>11. k \in DOMAIN Answers(slots)
  <2>1. Cap(slots) \in Nat /\ DOMAIN slots = 0 .. Cap(slots) - 1 /\ slots[j] \in Slots
        /\ Sound(slots, Cap(slots))
    BY CountsFit, <1>2, Zenon DEF Table, Sound
  <2>2. k \in Keys /\ Value(slots[j]) \in Values /\ slots[j] = <<k, Value(slots[j])>>
    BY <1>2, <2>1, SlotLive, Zenon DEF k
  <2>3. Has(slots, Cap(slots), k, Value(slots[j]))
    BY <1>2, <2>1, <2>2, Zenon DEF Has
  <2>. QED BY <2>1, <2>2, <2>3, AnswersIs, Zenon
<1>. QED BY <1>4, <1>10, <1>11, Zenon

\* hashmap_remove keeps Table, and is a removal.
LEMMA RemoveStep ==
  ASSUME Table, NEW k \in Keys, hashmap_remove(k)
  PROVE  Table' /\ Loses(k) /\ k \in DOMAIN Answers(slots)
<1>. DEFINE c == Cap(slots)  j == find(slots, k)
<1>1. j # NotFound /\ Erase(j) /\ UNCHANGED peak
  BY Zenon DEF hashmap_remove
<1>2. Sound(slots, c) /\ DOMAIN slots = 0 .. c - 1
  BY CountsFit, Zenon DEF Table
<1>3. j \in DOMAIN slots /\ Live(slots[j]) /\ Key(slots[j]) = k
  BY <1>1, <1>2, FindIs, Zenon
<1>4. k \in DOMAIN Answers(slots)
  BY <1>1, Zenon DEF Answers
<1>. HIDE DEF j
<1>. QED BY <1>1, <1>3, <1>4, EraseStep, Zenon

\* hashmap_remove_all leaves a small table that holds nothing.
LEMMA ClearStep ==
  ASSUME Table, hashmap_remove_all
  PROVE  Table' /\ \A q \in Keys, w \in Values : ~Has(slots', Cap(slots'), q, w)
<1>1. {j \in DOMAIN slots : Live(slots[j])} = LiveAt(slots)
  BY Zenon DEF LiveAt
<1>2. keysHeld = Cardinality(LiveAt(slots)) /\ valuesHeld = Cardinality(LiveAt(slots))
      /\ count \in Nat /\ count = Cardinality(LiveAt(slots))
  BY CountsFit, Zenon DEF Table
<1>3. /\ keysHeld' = keysHeld - Cardinality(LiveAt(slots))
      /\ valuesHeld' = valuesHeld - Cardinality(LiveAt(slots))
  BY <1>1, Zenon DEF hashmap_remove_all
<1>4. keysHeld' = 0 /\ valuesHeld' = 0
  BY <1>2, <1>3
<1>. QED BY <1>4, NewTableStep, Zenon DEF hashmap_remove_all

\* Every operation keeps the invariant.
LEMMA NextInv == IInv /\ [Next]_vars => IInv'
<1>. SUFFICES ASSUME IInv, [Next]_vars PROVE IInv'
  BY Zenon
<1>. USE DEF IInv
<1>1. ASSUME ~it.on, UNCHANGED iteration PROVE Iter'
  BY <1>1, Zenon DEF Iter, iteration
<1>2. ASSUME UNCHANGED <<slots, count, occupied, keysHeld, valuesHeld, peak>> PROVE Table'
  BY <1>2, Zenon DEF Table
<1>3. ASSUME NEW k \in Keys, NEW v \in Values, hashmap_insert(k, v) PROVE IInv'
  <2>1. ~it.on /\ UNCHANGED iteration
    BY <1>3, Zenon DEF hashmap_insert
  <2>. QED BY <1>1, <1>3, <2>1, InsertStep, ZenonT(60)
<1>4. ASSUME NEW k \in Keys, hashmap_remove(k) PROVE IInv'
  <2>1. ~it.on /\ UNCHANGED iteration
    BY <1>4, Zenon DEF hashmap_remove
  <2>. QED BY <1>1, <1>4, <2>1, RemoveStep, ZenonT(60)
<1>5. CASE hashmap_remove_all
  <2>1. ~it.on /\ UNCHANGED iteration
    BY <1>5, Zenon DEF hashmap_remove_all
  <2>. QED BY <1>1, <1>5, <2>1, ClearStep, Zenon
<1>6. CASE hashmap_iter_init
  BY <1>2, <1>6, InitStep, Zenon DEF hashmap_iter_init
<1>7. CASE hashmap_iter_next
  BY <1>2, <1>7, NextStep, ZenonT(60) DEF hashmap_iter_next
<1>8. CASE hashmap_iter_remove
  BY <1>8, IterRemoveStep, Zenon
<1>9. CASE IterEnd
  <2>1. it' = [on |-> FALSE, slot |-> 0, current |-> NotFound, valid |-> FALSE]
        /\ visits' = [k \in Keys |-> 0]
    BY <1>9, Zenon DEF IterEnd
  <2>2. Iter'
    BY <2>1, Zenon DEF Iter
  <2>. QED BY <1>2, <1>9, <2>2, Zenon DEF IterEnd
<1>10. CASE UNCHANGED vars
  BY <1>10, Zenon DEF vars, Table, Iter, Visiting
<1>. QED BY <1>3, <1>4, <1>5, <1>6, <1>7, <1>8, <1>9, <1>10, Zenon DEF Next

\* For every hash function, however keys collide, the table stays sound, its load
\* bounded and its iteration on course.
THEOREM TableInvariant == Spec => []IInv
BY InitInv, NextInv, PTL DEF Spec

\* The invariant implies the properties of HashMap.
LEMMA InvSafe == IInv => CountersExact /\ CapacityBounded /\ HeldExact /\ IterationExact
<1>. SUFFICES ASSUME IInv PROVE CountersExact /\ CapacityBounded /\ HeldExact /\ IterationExact
  BY Zenon
<1>. USE DEF IInv
<1>. DEFINE c == Cap(slots)
<1>1. c \in Nat \ {0} /\ DOMAIN slots = 0 .. c - 1 /\ Sound(slots, c) /\ occupied \in Nat
  BY CountsFit, Zenon DEF Table
<1>. HIDE DEF c
<1>2. \A j \in DOMAIN slots : Live(slots[j]) => find(slots, Key(slots[j])) = j
  BY <1>1, LiveKeys, FindHolder, Zenon
<1>3. CountersExact
  BY <1>2, Zenon DEF CountersExact, Table, LiveAt, UsedAt
<1>4. CapacityBounded
  <2>1. Cardinality(UsedAt(slots)) < c
    BY <1>1, SMTT(60) DEF Table, c
  <2>2. \E j \in DOMAIN slots : slots[j] = Empty
    BY <1>1, <2>1, SlotLeft, Zenon
  <2>. QED BY <2>2, Zenon DEF CapacityBounded, Table
<1>5. HeldExact
  BY Zenon DEF HeldExact, Table
<1>6. IterationExact
  <2>. SUFFICES ASSUME it.on PROVE
           /\ \A k \in Keys : visits[k] <= IF k \in start THEN 1 ELSE 0
           /\ it.slot = Cap(slots) => \A k \in start : visits[k] = 1
    BY Zenon DEF IterationExact
  <2>1. Visiting
    BY Zenon DEF Iter
  <2>2. ~ \E j \in DOMAIN slots : j >= c
    BY <1>1
  <2>. QED BY <2>1, <2>2, SMTT(60) DEF Visiting, c
<1>. QED BY <1>3, <1>4, <1>5, <1>6, Zenon

\* find returns the slot of every entry, and count and occupied are exact
\* (hashmap_insert, hashmap_remove, hashmap_iter_remove).
THEOREM CountersAlwaysExact == Spec => []CountersExact
BY TableInvariant, InvSafe, PTL

\* Each key and value given to the map is freed once, or is still in a slot
\* (hashmap_insert, hashmap_remove, hashmap_remove_all).
THEOREM HeldAlwaysExact == Spec => []HeldExact
BY TableInvariant, InvSafe, PTL

\* There is always an empty slot to end the search, and churn of distinct keys does
\* not grow the table (hashmap_insert).
THEOREM Bounded == Spec => []CapacityBounded
BY TableInvariant, InvSafe, PTL

\* An iteration visits every entry once, also when it removes entries on its way
\* (hashmap_iter_next, hashmap_iter_remove).
THEOREM VisitedOnce == Spec => []IterationExact
BY TableInvariant, InvSafe, PTL

-----------------------------------------------------------------------------
\* hashmap_lookup, before and after a step, in terms of Answers.
LEMMA LookupIs == hashmap_lookup = Answers(slots) /\ hashmap_lookup' = Answers(slots')
<1>1. hashmap_lookup = Answers(slots)
  <2>. DEFINE at == [k \in Keys |-> find(slots, k)]
  <2>1. {x \in Keys : at[x] # NotFound} = {x \in Keys : find(slots, x) # NotFound}
    BY Zenon
  <2>2. \A k \in Keys : at[k] = find(slots, k)
    BY Zenon
  <2>. HIDE DEF at
  <2>3. [k \in {x \in Keys : at[x] # NotFound} |-> Value(slots[at[k]])] = Answers(slots)
    BY <2>1, <2>2, Zenon DEF Answers
  <2>. QED BY <2>3, Zenon DEF hashmap_lookup, at
<1>2. hashmap_lookup' = Answers(slots')
  <2>. DEFINE at == [k \in Keys |-> find(slots', k)]
  <2>1. {x \in Keys : at[x] # NotFound} = {x \in Keys : find(slots', x) # NotFound}
    BY Zenon
  <2>2. \A k \in Keys : at[k] = find(slots', k)
    BY Zenon
  <2>. HIDE DEF at
  <2>3. [k \in {x \in Keys : at[x] # NotFound} |-> Value(slots'[at[k]])] = Answers(slots')
    BY <2>1, <2>2, Zenon DEF Answers
  <2>. QED BY <2>3, Zenon DEF hashmap_lookup, at
<1>. QED BY <1>1, <1>2, Zenon

\* A new map is the empty dictionary.
LEMMA RefineInit == Init => Dict!Init
<1>. SUFFICES ASSUME Init PROVE hashmap_lookup = <<>>
  BY Zenon DEF Dict!Init
<1>1. slots = NewTable(MinCap) /\ MinCap \in Nat \ {0}
  BY MinCapIs, Zenon DEF Init
<1>2. Sound(slots, MinCap) /\ Content(slots, MinCap) = {}
  BY <1>1, NewTableIs, Zenon
<1>3. ASSUME NEW q \in Keys, NEW w \in Values PROVE ~Has(slots, MinCap, q, w)
  <2>1. <<q, w>> \notin Content(slots, MinCap)
    BY <1>2, Zenon
  <2>. QED BY <2>1, Zenon DEF Content, Has
<1>. QED BY <1>2, <1>3, NoAnswers, LookupIs, ZenonT(60)

\* Every operation is a step of the dictionary or leaves it alone.
LEMMA RefineNext == IInv /\ IInv' /\ [Next]_vars => [Dict!Next]_hashmap_lookup
<1>. SUFFICES ASSUME IInv, IInv', [Next]_vars PROVE [Dict!Next]_hashmap_lookup
  BY Zenon
<1>. DEFINE c == Cap(slots)  d == Cap(slots')
<1>1. Sound(slots, c) /\ Sound(slots', d)
  BY Zenon DEF IInv, Table
<1>2. hashmap_lookup = Answers(slots) /\ hashmap_lookup' = Answers(slots')
  BY LookupIs, Zenon
<1>3. ASSUME NEW k \in Keys, NEW v \in Values, hashmap_insert(k, v) PROVE Dict!Next
  <2>1. Becomes(k, v)
    BY <1>3, InsertStep, Zenon DEF IInv
  <2>2. Answers(slots') = [x \in DOMAIN Answers(slots) \cup {k} |-> IF x = k THEN v ELSE Answers(slots)[x]]
    BY <1>1, <2>1, PutAnswers, SMTT(60) DEF Becomes
  <2>3. Dict!Put(k, v)
    BY <1>2, <2>2, Zenon DEF Dict!Put
  <2>. QED BY <2>3, Zenon DEF Dict!Next
<1>4. ASSUME NEW k \in DOMAIN Answers(slots), Loses(k) PROVE Dict!Next
  <2>1. k \in Keys
    BY AnswersDomain, Zenon
  <2>2. Answers(slots') = Restrict(Answers(slots), DOMAIN Answers(slots) \ {k})
    BY <1>1, <1>4, <2>1, DropAnswers, SMTT(60) DEF Loses
  <2>3. Dict!Drop(k)
    BY <1>2, <2>2, Zenon DEF Dict!Drop, Dict!Restrict, Restrict
  <2>. QED BY <1>2, <2>3, Zenon DEF Dict!Next
<1>5. ASSUME NEW k \in Keys, hashmap_remove(k) PROVE Dict!Next
  BY <1>4, <1>5, RemoveStep, ZenonT(60) DEF IInv
<1>6. CASE hashmap_remove_all
  <2>1. Answers(slots') = <<>>
    BY <1>1, <1>6, ClearStep, NoAnswers, Zenon DEF IInv
  <2>. QED BY <1>2, <2>1, Zenon DEF Dict!Next, Dict!Clear
<1>7. CASE hashmap_iter_remove
  <2>1. PICK k \in DOMAIN Answers(slots) : Loses(k)
    BY <1>7, IterRemoveStep, Zenon DEF IInv
  <2>. QED BY <1>4, <2>1, Zenon
<1>8. CASE slots' = slots
  BY <1>2, <1>8, Zenon
<1>9. CASE hashmap_iter_init \/ hashmap_iter_next \/ IterEnd \/ UNCHANGED vars
  BY <1>8, <1>9, Zenon DEF hashmap_iter_init, hashmap_iter_next, IterEnd, vars
<1>. QED BY <1>3, <1>5, <1>6, <1>7, <1>9, Zenon DEF Next

\* The hash table implements the dictionary: for every hash function, no insertion,
\* removal or rehash makes another key appear, vanish or change its value
\* (hashmap.c: find, resize).
THEOREM Refines == Spec => ImplementsDictionary
BY RefineInit, RefineNext, TableInvariant, PTL DEF Spec, ImplementsDictionary, Dict!Spec

=============================================================================
