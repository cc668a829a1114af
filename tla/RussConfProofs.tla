--------------------------- MODULE RussConfProofs ---------------------------
(***************************************************************************)
(* Proofs about RussConf, for any names, options, values, files and growth *)
(* of arrays: an array never has more elements than places, and what is    *)
(* done to the arrays is what RussMap says of maps.                        *)
(***************************************************************************)
EXTENDS RussConf, SequenceTheorems, WellFoundedInduction, TLAPS

-----------------------------------------------------------------------------
(* Counting, and loops.                                                    *)

LEMMA LeastNumber ==
    ASSUME NEW S, S \subseteq Nat, S # {}
    PROVE  \E n \in S : \A m \in S : n <= m
<1> DEFINE R == {ss \in Nat \X Nat : ss[1] < ss[2]}
<1>1. IsWellFoundedOn(R, Nat)
  BY Zenon, NatLessThanWellFounded DEF OpToRel
<1>2. \A m, n \in Nat : m < n => <<m, n>> \in R
  OBVIOUS
<1> HIDE DEF R
<1>3. PICK n \in S : \A m \in S : <<m, n>> \notin R
  BY <1>1, WFMin
<1>4. n \in Nat /\ \A m \in S : m \in Nat /\ ~(m < n)
  BY <1>2, <1>3
<1> QED
  BY <1>4

\* What holds at first, and after each turn, holds after all turns.
LEMMA Turns ==
    ASSUME NEW N \in Nat, NEW S, 0 \in S, \A n \in 0..N - 1 : n \in S => n + 1 \in S
    PROVE  \A n \in 0..N : n \in S
<1> DEFINE Bad == {n \in 0..N : n \notin S}
<1>1. SUFFICES ASSUME Bad # {} PROVE FALSE
  OBVIOUS
<1>2. PICK n \in Bad : \A m \in Bad : n <= m
  <2>1. Bad \subseteq Nat
    OBVIOUS
  <2> QED
    BY <1>1, <2>1, LeastNumber
<1>3. n # 0 /\ n \in 0..N /\ n - 1 \in 0..N - 1 /\ (n - 1) + 1 = n /\ ~(n <= n - 1)
  BY <1>2
<1>4. n - 1 \in S
  BY <1>2, <1>3
<1> QED
  BY <1>2, <1>3, <1>4

\* A turn makes a member of D from one; f[n] is what there is after n turns.
Steps(step, N, D) == \A n \in 1..N, d \in D : step[n][d] \in D
Looped(f, step, N, D, start) ==
    f[0] = start /\ (\A n \in 0..N : f[n] \in D) /\ \A n \in 1..N : f[n] = step[n][f[n - 1]]

LEMMA LoopMakes ==
    ASSUME NEW N \in Nat, NEW D, NEW start \in D, NEW step, Steps(step, N, D)
    PROVE  \E f : Looped(f, step, N, D, start)
<1>1. \A n \in 1..N, d \in D : step[n][d] \in D
  BY DEF Steps
<1> DEFINE Made(f, n) == f \in [0..n -> D] /\ f[0] = start /\ \A m \in 1..n : f[m] = step[m][f[m - 1]]
           S == {n \in 0..N : \E f : Made(f, n)}
<1>2. 0 \in S
  <2> DEFINE f == [n \in 0..0 |-> start]
  <2>1. Made(f, 0)
    OBVIOUS
  <2>2. 0 \in 0..N
    OBVIOUS
  <2> HIDE DEF Made
  <2> QED
    BY <2>1, <2>2
<1>3. ASSUME NEW n \in 0..N - 1, n \in S PROVE n + 1 \in S
  <2>1. PICK f : Made(f, n)
    BY <1>3
  <2>2. step[n + 1][f[n]] \in D
    <3>1. f[n] \in D /\ n + 1 \in 1..N
      BY <2>1
    <3> QED
      BY <1>1, <3>1
  <2> DEFINE g == [m \in 0..n + 1 |-> IF m = n + 1 THEN step[n + 1][f[n]] ELSE f[m]]
  <2>3. g \in [0..n + 1 -> D]
    BY <2>1, <2>2
  <2>4. g[0] = start
    BY <2>1
  <2>5. ASSUME NEW m \in 1..n + 1 PROVE g[m] = step[m][g[m - 1]]
    <3>1. m - 1 \in 0..n + 1 /\ m - 1 # n + 1 /\ g[m - 1] = f[m - 1]
      OBVIOUS
    <3>2. CASE m = n + 1
      <4>1. g[m] = step[n + 1][f[n]] /\ m - 1 = n
        BY <3>2
      <4> HIDE DEF g
      <4> QED
        BY <3>1, <3>2, <4>1
    <3>3. CASE m # n + 1
      <4>1. m \in 1..n /\ g[m] = f[m]
        BY <3>3
      <4> HIDE DEF g
      <4> QED
        BY <2>1, <3>1, <4>1
    <3> QED
      BY <3>2, <3>3
  <2> HIDE DEF g
  <2>6. Made(g, n + 1)
    BY <2>3, <2>4, <2>5
  <2> HIDE DEF Made
  <2> QED
    BY <2>6
<1>4. N \in S
  <2> HIDE DEF S
  <2> QED
    BY <1>2, <1>3, Turns
<1>5. PICK f : Made(f, N)
  BY <1>4
<1>6. Looped(f, step, N, D, start)
  BY <1>5 DEF Looped
<1> QED
  BY <1>6

-----------------------------------------------------------------------------
(* Arrays whose elements have different keys.                              *)

Unique(seq) == \A i, j \in DOMAIN seq : seq[i].key = seq[j].key => i = j

LEMMA PosIs ==
    ASSUME NEW T, NEW seq \in Seq(T), NEW key
    PROVE  /\ Has(seq, key) <=> key \in Keys(seq)
           /\ Has(seq, key) => Pos(seq, key) \in DOMAIN seq /\ seq[Pos(seq, key)].key = key
<1> DEFINE I == {i \in 1..Len(seq) : seq[i].key = key}
<1>1. Pos(seq, key) = IF I # {} THEN Min(I) ELSE 0
  BY DEF Pos, SelectInSeq
<1>2. DOMAIN seq = 1..Len(seq) /\ Len(seq) \in Nat
  BY LenProperties
<1>3. I # {} => Min(I) \in I
  <2> SUFFICES ASSUME I # {} PROVE Min(I) \in I
    OBVIOUS
  <2>1. I \subseteq Nat
    BY <1>2
  <2>2. \E n \in I : \A m \in I : n <= m
    BY <2>1, LeastNumber
  <2> QED
    BY <2>2 DEF Min
<1>4. key \in Keys(seq) <=> I # {}
  BY <1>2 DEF Keys
<1>5. I # {} => Pos(seq, key) \in DOMAIN seq /\ seq[Pos(seq, key)].key = key /\ Pos(seq, key) # 0
  BY <1>1, <1>2, <1>3
<1>6. I = {} => Pos(seq, key) = 0
  BY <1>1
<1> HIDE DEF I
<1> QED
  BY <1>4, <1>5, <1>6 DEF Has

LEMMA PosOf ==
    ASSUME NEW T, NEW seq \in Seq(T), Unique(seq), NEW i \in DOMAIN seq
    PROVE  Has(seq, seq[i].key) /\ Pos(seq, seq[i].key) = i
<1>1. seq[i].key \in Keys(seq)
  BY DEF Keys
<1>2. Has(seq, seq[i].key)
  BY <1>1, PosIs
<1>3. Pos(seq, seq[i].key) \in DOMAIN seq /\ seq[Pos(seq, seq[i].key)].key = seq[i].key
  BY <1>2, PosIs
<1> QED
  BY <1>2, <1>3 DEF Unique

LEMMA Replaced ==
    ASSUME NEW T, NEW seq \in Seq(T), Unique(seq), NEW i \in DOMAIN seq, NEW e \in T, e.key = seq[i].key,
           NEW new, new = [seq EXCEPT ![i] = e]
    PROVE  /\ new \in Seq(T) /\ Len(new) = Len(seq) /\ DOMAIN new = DOMAIN seq
           /\ Unique(new) /\ Keys(new) = Keys(seq)
           /\ \A j \in DOMAIN new : new[j] = IF j = i THEN e ELSE seq[j]
<1>1. DOMAIN seq = 1..Len(seq) /\ Len(seq) \in Nat /\ seq \in [1..Len(seq) -> T]
  BY LenProperties
<1>2. new \in [1..Len(seq) -> T] /\ DOMAIN new = DOMAIN seq
  BY <1>1
<1>3. new \in Seq(T) /\ Len(new) = Len(seq)
  BY <1>1, <1>2
<1>4. \A j \in DOMAIN new : new[j] = IF j = i THEN e ELSE seq[j]
  BY <1>1
<1>5. \A j \in DOMAIN seq : new[j].key = seq[j].key
  BY <1>2, <1>4
<1> HIDE <1>1
<1>6. Unique(new)
  BY <1>2, <1>5 DEF Unique
<1>7. Keys(new) = Keys(seq)
  BY <1>2, <1>5 DEF Keys
<1> QED
  BY <1>2, <1>3, <1>4, <1>6, <1>7

\* A name, for the provers, of one application of Append.
Longer(new, seq, e) == new = Append(seq, e)

LEMMA Lengthened ==
    ASSUME NEW T, NEW seq \in Seq(T), Unique(seq), NEW e \in T, ~Has(seq, e.key), NEW new, Longer(new, seq, e)
    PROVE  /\ new \in Seq(T) /\ Len(new) = Len(seq) + 1 /\ DOMAIN new = 1..Len(seq) + 1
           /\ Unique(new) /\ Keys(new) = Keys(seq) \cup {e.key}
           /\ \A j \in DOMAIN seq : j \in DOMAIN new /\ new[j] = seq[j]
           /\ new[Len(seq) + 1] = e
<1>1. DOMAIN seq = 1..Len(seq) /\ Len(seq) \in Nat
  BY LenProperties
<1>2. new \in Seq(T) /\ Len(new) = Len(seq) + 1
  BY AppendProperties DEF Longer
<1>3. DOMAIN new = 1..Len(seq) + 1
  BY <1>1, <1>2, LenProperties
<1>4. (\A j \in DOMAIN seq : j \in DOMAIN new /\ new[j] = seq[j]) /\ new[Len(seq) + 1] = e
  BY <1>1, <1>3, AppendProperties DEF Longer
<1>5. \A j \in DOMAIN new : j \in DOMAIN seq \/ j = Len(seq) + 1
  BY <1>1, <1>3
<1>6. \A j \in DOMAIN seq : seq[j].key # e.key
  BY PosIs DEF Keys
<1>7. Unique(new)
  BY <1>4, <1>5, <1>6 DEF Unique
<1>8. Keys(new) = Keys(seq) \cup {e.key}
  <2>1. Len(seq) + 1 \in DOMAIN new
    BY <1>1, <1>3
  <2> QED
    BY <1>4, <1>5, <2>1 DEF Keys
<1> QED
  BY <1>2, <1>3, <1>4, <1>7, <1>8

LEMMA Vacated ==
    ASSUME NEW T, NEW seq \in Seq(T), Unique(seq), NEW i \in DOMAIN seq, NEW new, new = Vacate(seq, i)
    PROVE  /\ new \in Seq(T) /\ Len(new) = Len(seq) - 1
           /\ Unique(new) /\ (\A x : x \in Keys(new) <=> x \in Keys(seq) /\ x # seq[i].key)
           /\ \A j \in DOMAIN new : \E l \in DOMAIN seq : l # i /\ new[j] = seq[l]
<1> DEFINE n == Len(seq)
           moved == [seq EXCEPT ![i] = seq[n]]
<1>1. DOMAIN seq = 1..n /\ n \in Nat /\ n > 0 /\ seq \in [1..n -> T] /\ n \in DOMAIN seq
  BY LenProperties
<1>2. moved \in [1..n -> T] /\ \A j \in 1..n : moved[j] = IF j = i THEN seq[n] ELSE seq[j]
  BY <1>1
<1>3. new = SubSeq(moved, 1, n - 1)
  BY DEF Vacate
<1>4. /\ new \in Seq(T) /\ Len(new) = n - 1
      /\ \A j \in 1..n - 1 : new[j] = moved[j]
  <2>1. moved \in Seq(T) /\ Len(moved) = n
    BY <1>1, <1>2
  <2> HIDE DEF moved
  <2>2. \A j \in 1..n - 1 : moved[j] \in T
    BY <1>1, <1>2
  <2> HIDE DEF n
  <2>3. /\ new \in Seq(T) /\ Len(new) = IF 1 <= n - 1 THEN n - 1 - 1 + 1 ELSE 0
        /\ \A j \in 1..n - 1 - 1 + 1 : new[j] = moved[1 + j - 1]
    BY <1>1, <1>3, <2>2, SubSeqProperties
  <2> QED
    BY <1>1, <2>3
<1>5. DOMAIN new = 1..n - 1
  BY <1>1, <1>4, LenProperties
<1> DEFINE Old(j) == IF j = i THEN n ELSE j
<1>6. \A j \in 1..n - 1 : Old(j) \in 1..n /\ Old(j) # i /\ new[j] = seq[Old(j)]
  <2> HIDE DEF moved
  <2> QED
    BY <1>1, <1>2, <1>4
<1>7. \A l \in 1..n : l # i => \E j \in 1..n - 1 : Old(j) = l
  <2> SUFFICES ASSUME NEW l \in 1..n, l # i PROVE \E j \in 1..n - 1 : Old(j) = l
    OBVIOUS
  <2>1. CASE l = n
    <3>1. i \in 1..n - 1 /\ Old(i) = l
      BY <1>1, <2>1
    <3> QED
      BY <3>1
  <2>2. CASE l # n
    <3>1. l \in 1..n - 1
      <4> HIDE DEF n
      <4> QED
        BY <1>1, <2>2
    <3>2. Old(l) = l
      OBVIOUS
    <3> QED
      BY <3>1, <3>2
  <2> QED
    BY <2>1, <2>2
<1>8. \A j, k \in 1..n - 1 : Old(j) = Old(k) => j = k
  BY <1>1
<1> HIDE DEF n, moved, Old
<1>9. Unique(new)
  BY <1>1, <1>5, <1>6, <1>8 DEF Unique
<1>10. Keys(new) = Keys(seq) \ {seq[i].key}
  <2>1. \A j \in DOMAIN new : new[j].key \in Keys(seq) \ {seq[i].key}
    BY <1>1, <1>5, <1>6 DEF Unique, Keys
  <2>2. \A l \in DOMAIN seq : seq[l].key # seq[i].key => \E j \in DOMAIN new : new[j].key = seq[l].key
    <3> SUFFICES ASSUME NEW l \in DOMAIN seq, seq[l].key # seq[i].key PROVE \E j \in DOMAIN new : new[j].key = seq[l].key
      OBVIOUS
    <3>1. PICK j \in 1..n - 1 : Old(j) = l
      BY <1>1, <1>7
    <3> QED
      BY <1>5, <1>6, <3>1
  <2> QED
    BY <2>1, <2>2 DEF Keys
<1>11. \A x : x \in Keys(new) <=> x \in Keys(seq) /\ x # seq[i].key
  BY <1>10
<1> QED
  BY <1>1, <1>4, <1>5, <1>6, <1>9, <1>11 DEF n

-----------------------------------------------------------------------------
(* Sections and objects, and the maps they stand for.                      *)

Item == [key : Options, val : Values]
Sections ==
    {sec \in [key : Names, items : Seq(Item), cap : Nat] : Unique(sec.items) /\ Len(sec.items) <= sec.cap}
Confs ==
    {c \in [secs : Seq(Sections), cap : Nat] : Unique(c.secs) /\ Len(c.secs) <= c.cap}

LEMMA ItemMapIs ==
    ASSUME NEW T, NEW items \in Seq(T), Unique(items)
    PROVE  /\ DOMAIN ItemMap(items) = Keys(items)
           /\ \A i \in DOMAIN items : ItemMap(items)[items[i].key] = items[i].val
<1>1. ASSUME NEW i \in DOMAIN items PROVE ItemMap(items)[items[i].key] = items[i].val
  <2>1. Pos(items, items[i].key) = i /\ items[i].key \in Keys(items)
    BY PosOf DEF Keys
  <2> QED
    BY <2>1 DEF ItemMap
<1> QED
  BY <1>1 DEF ItemMap

LEMMA ItemMapEquals ==
    ASSUME NEW T, NEW items \in Seq(T), Unique(items),
           NEW f, f = [k \in DOMAIN f |-> f[k]], DOMAIN f = Keys(items),
           \A i \in DOMAIN items : f[items[i].key] = items[i].val
    PROVE  ItemMap(items) = f
<1>1. ASSUME NEW k \in Keys(items) PROVE items[Pos(items, k)].val = f[k]
  <2>1. PICK i \in DOMAIN items : items[i].key = k
    BY DEF Keys
  <2>2. Pos(items, k) = i
    BY <2>1, PosOf
  <2> QED
    BY <2>1, <2>2
<1>2. ItemMap(items) = [k \in Keys(items) |-> f[k]]
  BY <1>1 DEF ItemMap
<1> QED
  BY <1>2

LEMMA ConfMapIs ==
    ASSUME NEW c \in Confs
    PROVE  /\ DOMAIN ConfMap(c) = Keys(c.secs)
           /\ \A i \in DOMAIN c.secs : ConfMap(c)[c.secs[i].key] = ItemMap(c.secs[i].items)
<1>1. c.secs \in Seq(Sections) /\ Unique(c.secs)
  BY DEF Confs
<1>2. ASSUME NEW i \in DOMAIN c.secs PROVE ConfMap(c)[c.secs[i].key] = ItemMap(c.secs[i].items)
  <2>1. Pos(c.secs, c.secs[i].key) = i /\ c.secs[i].key \in Keys(c.secs)
    BY <1>1, PosOf DEF Keys
  <2> QED
    BY <2>1 DEF ConfMap
<1> QED
  BY <1>2 DEF ConfMap

LEMMA ConfMapEquals ==
    ASSUME NEW c \in Confs,
           NEW m, m = [s \in DOMAIN m |-> m[s]], DOMAIN m = Keys(c.secs),
           \A i \in DOMAIN c.secs : m[c.secs[i].key] = ItemMap(c.secs[i].items)
    PROVE  ConfMap(c) = m
<1>1. c.secs \in Seq(Sections) /\ Unique(c.secs)
  BY DEF Confs
<1>2. ASSUME NEW s \in Keys(c.secs) PROVE ItemMap(c.secs[Pos(c.secs, s)].items) = m[s]
  <2>1. PICK i \in DOMAIN c.secs : c.secs[i].key = s
    BY DEF Keys
  <2>2. Pos(c.secs, s) = i
    BY <1>1, <2>1, PosOf
  <2> QED
    BY <2>1, <2>2
<1>3. ConfMap(c) = [s \in Keys(c.secs) |-> m[s]]
  BY <1>2 DEF ConfMap
<1> QED
  BY <1>3

\* A map of maps.
Mapping(m) ==
    /\ m = [s \in DOMAIN m |-> m[s]]
    /\ \A s \in DOMAIN m : m[s] = [k \in DOMAIN m[s] |-> m[s][k]]

LEMMA ItemMapping == \A items : ItemMap(items) = [k \in DOMAIN ItemMap(items) |-> ItemMap(items)[k]]
BY DEF ItemMap

LEMMA ConfMapping == \A c : Mapping(ConfMap(c))
<1> SUFFICES ASSUME NEW c PROVE Mapping(ConfMap(c))
  OBVIOUS
<1> DEFINE m == ConfMap(c)
<1>1. m = [s \in DOMAIN m |-> m[s]] /\ \A s \in DOMAIN m : m[s] = ItemMap(c.secs[Pos(c.secs, s)].items)
  BY DEF ConfMap
<1> HIDE DEF m
<1>2. ASSUME NEW s \in DOMAIN m PROVE m[s] = [k \in DOMAIN m[s] |-> m[s][k]]
  BY <1>1, ItemMapping
<1> QED
  BY <1>1, <1>2 DEF Mapping, m

LEMMA CapacityIs ==
    ASSUME NEW len \in Nat, NEW cap \in Nat, len <= cap
    PROVE  Capacity(len, cap) \in Nat /\ len + 1 <= Capacity(len, cap)
BY ConfAssumption DEF ConfAssumption, Capacity

\* The map of one setting.
One(k, v) == [x \in {k} |-> v]

LEMMA PutIs ==
    ASSUME NEW sec \in Sections, NEW k \in Options, NEW v \in Values
    PROVE  /\ Put(sec, k, v) \in Sections /\ Put(sec, k, v).key = sec.key
           /\ ItemMap(Put(sec, k, v).items) = Map!Onto(One(k, v), ItemMap(sec.items))
<1> DEFINE item == [key |-> k, val |-> v]
           new == Put(sec, k, v)
           m == ItemMap(sec.items)
           f == Map!Onto(One(k, v), m)
<1>1. /\ sec \in [key : Names, items : Seq(Item), cap : Nat]
      /\ sec.items \in Seq(Item) /\ Unique(sec.items) /\ sec.cap \in Nat /\ sec.key \in Names /\ Len(sec.items) <= sec.cap
      /\ item \in Item /\ item.key = k /\ item.val = v
  BY DEF Sections, Item
<1>2. f = [x \in DOMAIN f |-> f[x]] /\ DOMAIN f = {k} \cup DOMAIN m /\ f[k] = v /\ \A x \in DOMAIN m : x # k => f[x] = m[x]
  BY DEF Map!Onto, One
<1>3. DOMAIN m = Keys(sec.items) /\ \A i \in DOMAIN sec.items : m[sec.items[i].key] = sec.items[i].val
  BY <1>1, ItemMapIs
<1> HIDE DEF item, m, f
<1>4. CASE Has(sec.items, k)
  <2> DEFINE p == Pos(sec.items, k)
             t == [sec.items EXCEPT ![p] = item]
  <2>1. p \in DOMAIN sec.items /\ sec.items[p].key = k /\ k \in Keys(sec.items)
    BY <1>1, <1>4, PosIs
  <2>2. new = [sec EXCEPT !.items = t]
    BY <1>1, <1>4 DEF Put, item
  <2> HIDE DEF p, t
  <2>3. /\ t \in Seq(Item) /\ Len(t) = Len(sec.items) /\ DOMAIN t = DOMAIN sec.items
        /\ Unique(t) /\ Keys(t) = Keys(sec.items)
        /\ \A j \in DOMAIN t : t[j] = IF j = p THEN item ELSE sec.items[j]
    BY <1>1, <2>1, Replaced DEF t
  <2>4. new.items = t /\ new.key = sec.key /\ new.cap = sec.cap /\ new \in [key : Names, items : Seq(Item), cap : Nat]
    BY <1>1, <2>2, <2>3
  <2> HIDE DEF new
  <2>5. new \in Sections
    BY <1>1, <2>3, <2>4 DEF Sections
  <2>6. \A j \in DOMAIN t : f[t[j].key] = t[j].val
    <3> SUFFICES ASSUME NEW j \in DOMAIN t PROVE f[t[j].key] = t[j].val
      OBVIOUS
    <3>1. CASE j = p
      BY <1>1, <1>2, <2>3, <3>1
    <3>2. CASE j # p
      <4>1. t[j] = sec.items[j] /\ sec.items[j].key # k /\ sec.items[j].key \in DOMAIN m
        BY <1>1, <1>3, <2>1, <2>3, <3>2 DEF Unique, Keys
      <4> QED
        BY <1>2, <1>3, <2>3, <4>1
    <3> QED
      BY <3>1, <3>2
  <2>7. DOMAIN f = Keys(t)
    BY <1>2, <1>3, <2>1, <2>3
  <2>8. ItemMap(t) = f
    BY <1>2, <2>3, <2>6, <2>7, ItemMapEquals
  <2> QED
    BY <2>4, <2>5, <2>8 DEF new, f, m
<1>5. CASE ~Has(sec.items, k)
  <2> DEFINE t == Append(sec.items, item)
             cap == Capacity(Len(sec.items), sec.cap)
  <2>1. new = [sec EXCEPT !.items = t, !.cap = cap]
    BY <1>1, <1>5 DEF Put, item
  <2> HIDE DEF t, cap
  <2>2. /\ t \in Seq(Item) /\ Len(t) = Len(sec.items) + 1 /\ DOMAIN t = 1..Len(sec.items) + 1
        /\ Unique(t) /\ Keys(t) = Keys(sec.items) \cup {k}
        /\ \A j \in DOMAIN sec.items : j \in DOMAIN t /\ t[j] = sec.items[j]
        /\ t[Len(sec.items) + 1] = item
    <3>1. ~Has(sec.items, item.key) /\ item.key = k /\ item \in Item
      BY <1>1, <1>5
    <3>2. Longer(t, sec.items, item)
      BY DEF t, Longer
    <3>3. sec.items \in Seq(Item) /\ Unique(sec.items)
      BY <1>1
    <3>4. /\ t \in Seq(Item) /\ Len(t) = Len(sec.items) + 1 /\ DOMAIN t = 1..Len(sec.items) + 1
          /\ Unique(t) /\ Keys(t) = Keys(sec.items) \cup {item.key}
          /\ \A j \in DOMAIN sec.items : j \in DOMAIN t /\ t[j] = sec.items[j]
          /\ t[Len(sec.items) + 1] = item
      BY <3>1, <3>2, <3>3, Lengthened
    <3> QED
      BY <3>1, <3>4
  <2>3. DOMAIN sec.items = 1..Len(sec.items) /\ Len(sec.items) \in Nat
    BY <1>1, LenProperties
  <2>4. cap \in Nat /\ Len(t) <= cap
    BY <1>1, <2>2, <2>3, CapacityIs DEF cap
  <2>5. new.items = t /\ new.key = sec.key /\ new.cap = cap /\ new \in [key : Names, items : Seq(Item), cap : Nat]
    BY <1>1, <2>1, <2>2, <2>4
  <2> HIDE DEF new
  <2>6. new \in Sections
    BY <2>2, <2>4, <2>5 DEF Sections
  <2>7. \A j \in DOMAIN t : f[t[j].key] = t[j].val
    <3> SUFFICES ASSUME NEW j \in DOMAIN t PROVE f[t[j].key] = t[j].val
      OBVIOUS
    <3>1. CASE j = Len(sec.items) + 1
      BY <1>1, <1>2, <2>2, <3>1
    <3>2. CASE j # Len(sec.items) + 1
      <4>1. j \in DOMAIN sec.items
        BY <2>2, <2>3, <3>2
      <4>2. t[j] = sec.items[j] /\ sec.items[j].key \in DOMAIN m
        BY <1>3, <2>2, <4>1 DEF Keys
      <4>3. sec.items[j].key # k
        BY <1>1, <1>5, <4>1, PosIs DEF Keys
      <4> QED
        BY <1>2, <1>3, <4>1, <4>2, <4>3
    <3> QED
      BY <3>1, <3>2
  <2>8. DOMAIN f = Keys(t)
    BY <1>2, <1>3, <2>2
  <2>9. ItemMap(t) = f
    <3>1. t \in Seq(Item) /\ Unique(t) /\ f = [x \in DOMAIN f |-> f[x]]
      BY <1>2, <2>2
    <3> QED
      BY <2>7, <2>8, <3>1, ItemMapEquals
  <2> QED
    BY <2>5, <2>6, <2>9 DEF new, f, m
<1> QED
  BY <1>4, <1>5

LEMMA AddedIs ==
    ASSUME NEW c \in Confs, NEW s \in Names
    PROVE  /\ Added(c, s) \in Confs /\ Keys(Added(c, s).secs) = Keys(c.secs) \cup {s}
           /\ ConfMap(Added(c, s)) = Map!With(ConfMap(c), s, Map!None)
<1> DEFINE new == Added(c, s)
           m == ConfMap(c)
           f == Map!With(m, s, Map!None)
<1>1. /\ c \in [secs : Seq(Sections), cap : Nat] /\ c.secs \in Seq(Sections) /\ Unique(c.secs)
      /\ c.cap \in Nat /\ Len(c.secs) <= c.cap /\ Len(c.secs) \in Nat /\ DOMAIN c.secs = 1..Len(c.secs)
  BY LenProperties DEF Confs
<1>2. /\ DOMAIN m = Keys(c.secs) /\ \A i \in DOMAIN c.secs : m[c.secs[i].key] = ItemMap(c.secs[i].items)
      /\ Mapping(m)
  BY ConfMapIs, ConfMapping
<1>3. /\ f = [t \in DOMAIN f |-> f[t]] /\ DOMAIN f = DOMAIN m \cup {s}
      /\ f[s] = Map!At(m, s) /\ \A t \in DOMAIN m : f[t] = m[t]
  <2>1. f = [t \in DOMAIN f |-> f[t]] /\ DOMAIN f = DOMAIN m \cup {s} /\ f[s] = Map!Onto(Map!None, Map!At(m, s))
        /\ \A t \in DOMAIN m : t # s => f[t] = m[t]
    BY DEF Map!With
  <2>2. Map!At(m, s) = [k \in DOMAIN Map!At(m, s) |-> Map!At(m, s)[k]]
    <3>1. CASE s \in DOMAIN m
      BY <1>2, <3>1 DEF Map!At, Mapping
    <3>2. CASE s \notin DOMAIN m
      BY <3>2 DEF Map!At, Map!None
    <3> QED
      BY <3>1, <3>2
  <2>3. DOMAIN Map!None = {}
    BY DEF Map!None
  <2>4. Map!Onto(Map!None, Map!At(m, s)) = Map!At(m, s)
    <3> DEFINE a == Map!At(m, s)
               n == Map!None
    <3>1. Map!Onto(n, a) = [k \in DOMAIN n \cup DOMAIN a |-> IF k \in DOMAIN n THEN n[k] ELSE a[k]]
      BY DEF Map!Onto
    <3> HIDE DEF a, n
    <3>2. Map!Onto(n, a) = [k \in DOMAIN a |-> a[k]]
      BY <2>3, <3>1 DEF n
    <3> QED
      BY <2>2, <3>2 DEF a, n
  <2>5. s \in DOMAIN m => Map!At(m, s) = m[s]
    BY DEF Map!At
  <2> QED
    BY <2>1, <2>4, <2>5
<1> HIDE DEF m, f
<1>4. CASE Has(c.secs, s)
  <2>1. new = c /\ s \in Keys(c.secs)
    BY <1>1, <1>4, PosIs DEF Added
  <2>2. DOMAIN f = Keys(c.secs) /\ \A i \in DOMAIN c.secs : f[c.secs[i].key] = ItemMap(c.secs[i].items)
    BY <1>2, <1>3, <2>1 DEF Keys
  <2>3. ConfMap(c) = f
    BY <1>3, <2>2, ConfMapEquals
  <2> QED
    BY <2>1, <2>3 DEF f, m
<1>5. CASE ~Has(c.secs, s)
  <2> DEFINE e == NewSection(s)
             t == Append(c.secs, e)
             cap == Capacity(Len(c.secs), c.cap)
  <2>1. new = [secs |-> t, cap |-> cap]
    BY <1>5 DEF Added
  <2>2. e \in Sections /\ e.key = s /\ e.items = <<>>
    <3>1. e = [key |-> s, items |-> <<>>, cap |-> Grow] /\ Grow \in Nat /\ Len(<<>>) = 0 /\ <<>> \in Seq(Item)
      BY ConfAssumption DEF ConfAssumption, NewSection
    <3>2. Unique(<<>>)
      BY DEF Unique
    <3> HIDE DEF e
    <3> QED
      BY <3>1, <3>2 DEF Sections
  <2> HIDE DEF e, t, cap
  <2>3. /\ t \in Seq(Sections) /\ Len(t) = Len(c.secs) + 1 /\ DOMAIN t = 1..Len(c.secs) + 1
        /\ Unique(t) /\ Keys(t) = Keys(c.secs) \cup {s}
        /\ \A j \in DOMAIN c.secs : j \in DOMAIN t /\ t[j] = c.secs[j]
        /\ t[Len(c.secs) + 1] = e
    <3>1. ~Has(c.secs, e.key) /\ e.key = s /\ e \in Sections
      BY <1>5, <2>2
    <3>2. Longer(t, c.secs, e)
      BY DEF t, Longer
    <3>3. c.secs \in Seq(Sections) /\ Unique(c.secs)
      BY <1>1
    <3>4. /\ t \in Seq(Sections) /\ Len(t) = Len(c.secs) + 1 /\ DOMAIN t = 1..Len(c.secs) + 1
          /\ Unique(t) /\ Keys(t) = Keys(c.secs) \cup {e.key}
          /\ \A j \in DOMAIN c.secs : j \in DOMAIN t /\ t[j] = c.secs[j]
          /\ t[Len(c.secs) + 1] = e
      BY <3>1, <3>2, <3>3, Lengthened
    <3> QED
      BY <3>1, <3>4
  <2>4. cap \in Nat /\ Len(t) <= cap
    BY <1>1, <2>3, CapacityIs DEF cap
  <2>5. new \in Confs /\ new.secs = t
    BY <2>1, <2>3, <2>4 DEF Confs
  <2>6. ItemMap(<<>>) = Map!None
    BY DEF ItemMap, Map!None, Keys
  <2>7. s \notin DOMAIN m
    BY <1>1, <1>2, <1>5, PosIs
  <2>8. \A j \in DOMAIN t : f[t[j].key] = ItemMap(t[j].items)
    <3> SUFFICES ASSUME NEW j \in DOMAIN t PROVE f[t[j].key] = ItemMap(t[j].items)
      OBVIOUS
    <3>1. CASE j = Len(c.secs) + 1
      BY <1>3, <2>2, <2>3, <2>6, <2>7, <3>1 DEF Map!At
    <3>2. CASE j # Len(c.secs) + 1
      <4>1. j \in DOMAIN c.secs
        BY <1>1, <2>3, <3>2
      <4>2. t[j] = c.secs[j] /\ c.secs[j].key \in DOMAIN m
        BY <1>2, <2>3, <4>1 DEF Keys
      <4> QED
        BY <1>2, <1>3, <4>1, <4>2
    <3> QED
      BY <3>1, <3>2
  <2> HIDE DEF new
  <2>9. ConfMap(new) = f
    <3>1. DOMAIN f = Keys(new.secs) /\ f = [x \in DOMAIN f |-> f[x]]
      BY <1>2, <1>3, <2>3, <2>5
    <3>2. \A j \in DOMAIN new.secs : f[new.secs[j].key] = ItemMap(new.secs[j].items)
      BY <2>5, <2>8
    <3> QED
      BY <2>5, <3>1, <3>2, ConfMapEquals
  <2> QED
    BY <2>3, <2>5, <2>9 DEF new, f, m
<1> QED
  BY <1>4, <1>5

LEMMA SetInIs ==
    ASSUME NEW c \in Confs, NEW s \in Keys(c.secs), NEW k \in Options, NEW v \in Values
    PROVE  /\ SetIn(c, s, k, v) \in Confs /\ Keys(SetIn(c, s, k, v).secs) = Keys(c.secs)
           /\ ConfMap(SetIn(c, s, k, v)) = Map!With(ConfMap(c), s, One(k, v))
<1> DEFINE m == ConfMap(c)
           p == Pos(c.secs, s)
           e == Put(c.secs[p], k, v)
           t == [c.secs EXCEPT ![p] = e]
           new == SetIn(c, s, k, v)
           one == One(k, v)
           f == Map!With(m, s, one)
<1>1. /\ c \in [secs : Seq(Sections), cap : Nat] /\ c.secs \in Seq(Sections) /\ Unique(c.secs)
      /\ c.cap \in Nat /\ Len(c.secs) <= c.cap
  BY DEF Confs
<1>2. p \in DOMAIN c.secs /\ c.secs[p].key = s
  BY <1>1, PosIs
<1>3. c.secs[p] \in Sections
  BY <1>1, <1>2
<1>4. /\ DOMAIN m = Keys(c.secs) /\ \A i \in DOMAIN c.secs : m[c.secs[i].key] = ItemMap(c.secs[i].items)
  BY ConfMapIs
<1>5. e \in Sections /\ e.key = s /\ ItemMap(e.items) = Map!Onto(one, ItemMap(c.secs[p].items))
  BY <1>2, <1>3, PutIs
<1>6. new = [c EXCEPT !.secs = t]
  BY <1>1 DEF SetIn
<1>7. /\ f = [x \in DOMAIN f |-> f[x]] /\ DOMAIN f = Keys(c.secs)
      /\ f[s] = Map!Onto(one, m[s]) /\ \A x \in DOMAIN m : x # s => f[x] = m[x]
  BY <1>4 DEF Map!With, Map!At
<1> HIDE DEF m, p, e, t, one, f
<1>8. /\ t \in Seq(Sections) /\ Len(t) = Len(c.secs) /\ DOMAIN t = DOMAIN c.secs
      /\ Unique(t) /\ Keys(t) = Keys(c.secs)
      /\ \A j \in DOMAIN t : t[j] = IF j = p THEN e ELSE c.secs[j]
  BY <1>1, <1>2, <1>5, Replaced DEF t
<1>9. new \in Confs /\ new.secs = t
  <2>1. new \in [secs : Seq(Sections), cap : Nat] /\ new.secs = t /\ new.cap = c.cap
    BY <1>1, <1>6, <1>8
  <2> HIDE DEF new
  <2> QED
    BY <1>1, <1>8, <2>1 DEF Confs
<1>10. \A j \in DOMAIN t : f[t[j].key] = ItemMap(t[j].items)
  <2> SUFFICES ASSUME NEW j \in DOMAIN t PROVE f[t[j].key] = ItemMap(t[j].items)
    OBVIOUS
  <2>1. CASE j = p
    BY <1>2, <1>4, <1>5, <1>7, <1>8, <2>1
  <2>2. CASE j # p
    <3>1. t[j] = c.secs[j] /\ c.secs[j].key # s /\ c.secs[j].key \in DOMAIN m
      BY <1>1, <1>2, <1>4, <1>8, <2>2 DEF Unique, Keys
    <3> QED
      BY <1>4, <1>7, <1>8, <3>1
  <2> QED
    BY <2>1, <2>2
<1> HIDE DEF new
<1>11. ConfMap(new) = f
  BY <1>7, <1>8, <1>9, <1>10, ConfMapEquals
<1> QED
  BY <1>8, <1>9, <1>11 DEF new, f, m, one

-----------------------------------------------------------------------------
(* Maps put together.                                                      *)

LEMMA OntoAgain ==
    ASSUME NEW a, NEW b, NEW c
    PROVE  Map!Onto(a, Map!Onto(b, c)) = Map!Onto(Map!Onto(a, b), c)
<1> DEFINE l == Map!Onto(a, Map!Onto(b, c))
           r == Map!Onto(Map!Onto(a, b), c)
           bc == Map!Onto(b, c)
           ab == Map!Onto(a, b)
<1>1. bc = [k \in DOMAIN b \cup DOMAIN c |-> IF k \in DOMAIN b THEN b[k] ELSE c[k]]
  BY DEF Map!Onto
<1>2. ab = [k \in DOMAIN a \cup DOMAIN b |-> IF k \in DOMAIN a THEN a[k] ELSE b[k]]
  BY DEF Map!Onto
<1>3. l = [k \in DOMAIN a \cup DOMAIN bc |-> IF k \in DOMAIN a THEN a[k] ELSE bc[k]]
  BY DEF Map!Onto
<1>4. r = [k \in DOMAIN ab \cup DOMAIN c |-> IF k \in DOMAIN ab THEN ab[k] ELSE c[k]]
  BY DEF Map!Onto
<1> HIDE DEF l, r, ab, bc
<1>5. DOMAIN l = DOMAIN a \cup DOMAIN b \cup DOMAIN c /\ DOMAIN r = DOMAIN l
  BY <1>1, <1>2, <1>3, <1>4
<1>6. \A k \in DOMAIN l : l[k] = r[k]
  BY <1>1, <1>2, <1>3, <1>4
<1>7. l = [k \in DOMAIN l |-> l[k]] /\ r = [k \in DOMAIN r |-> r[k]]
  BY <1>3, <1>4
<1>8. l = r
  BY <1>5, <1>6, <1>7
<1> QED
  BY <1>8 DEF l, r

\* A name, for the provers, of being a function.
IsFcn(f) == f = [x \in DOMAIN f |-> f[x]]

LEMMA SameFcn ==
    ASSUME NEW f, NEW g, IsFcn(f), IsFcn(g),
           \A x : x \in DOMAIN f <=> x \in DOMAIN g, \A x \in DOMAIN f : f[x] = g[x]
    PROVE  f = g
<1>1. DOMAIN f = DOMAIN g
  OBVIOUS
<1> QED
  BY <1>1 DEF IsFcn

LEMMA NoneIs ==
    ASSUME NEW n, n = Map!None
    PROVE  IsFcn(n) /\ DOMAIN n = {} /\ \A t : Map!At(n, t) = n
<1>1. DOMAIN n = {}
  BY DEF Map!None
<1>2. IsFcn(n)
  BY DEF Map!None, IsFcn
<1> QED
  BY <1>1, <1>2 DEF Map!At

LEMMA OntoNone ==
    ASSUME NEW f, IsFcn(f), NEW n, n = Map!None
    PROVE  Map!Onto(f, n) = f /\ Map!Onto(n, f) = f
<1>1. DOMAIN n = {}
  BY NoneIs
<1>2. Map!Onto(f, n) = [k \in DOMAIN f \cup DOMAIN n |-> IF k \in DOMAIN f THEN f[k] ELSE n[k]]
  BY DEF Map!Onto
<1>3. Map!Onto(n, f) = [k \in DOMAIN n \cup DOMAIN f |-> IF k \in DOMAIN n THEN n[k] ELSE f[k]]
  BY DEF Map!Onto
<1>4. Map!Onto(f, n) = [k \in DOMAIN f |-> f[k]] /\ Map!Onto(n, f) = [k \in DOMAIN f |-> f[k]]
  BY <1>1, <1>2, <1>3
<1> QED
  BY <1>4 DEF IsFcn

\* Where a map has no section it has no settings there.
LEMMA AtIs ==
    ASSUME NEW m, Mapping(m), NEW s
    PROVE  IsFcn(Map!At(m, s))
<1>1. CASE s \in DOMAIN m
  BY <1>1 DEF Map!At, Mapping, IsFcn
<1>2. CASE s \notin DOMAIN m
  <2>1. Map!At(m, s) = Map!None
    BY <1>2 DEF Map!At
  <2> QED
    BY <2>1, NoneIs
<1> QED
  BY <1>1, <1>2

LEMMA WithIs ==
    ASSUME NEW m, NEW s, NEW x, NEW w, w = Map!With(m, s, x)
    PROVE  /\ IsFcn(w) /\ (\A t : t \in DOMAIN w <=> t \in DOMAIN m \/ t = s)
           /\ w[s] = Map!Onto(x, Map!At(m, s)) /\ Map!At(w, s) = w[s]
           /\ \A t \in DOMAIN m : t # s => w[t] = m[t]
<1>1. w = [t \in DOMAIN m \cup {s} |-> IF t = s THEN Map!Onto(x, Map!At(m, s)) ELSE m[t]]
  BY DEF Map!With
<1>2. /\ (\A t : t \in DOMAIN w <=> t \in DOMAIN m \/ t = s) /\ w[s] = Map!Onto(x, Map!At(m, s))
      /\ \A t \in DOMAIN m : t # s => w[t] = m[t]
  BY <1>1
<1>3. IsFcn(w)
  BY <1>1 DEF IsFcn
<1>4. Map!At(w, s) = w[s]
  BY <1>2 DEF Map!At
<1> QED
  BY <1>2, <1>3, <1>4

LEMMA AtOther ==
    ASSUME NEW m, NEW s, NEW x, NEW w, w = Map!With(m, s, x), NEW t, t # s
    PROVE  Map!At(w, t) = Map!At(m, t)
<1>1. (\A u : u \in DOMAIN w <=> u \in DOMAIN m \/ u = s) /\ \A u \in DOMAIN m : u # s => w[u] = m[u]
  BY WithIs
<1> QED
  BY <1>1 DEF Map!At

LEMMA MergeIs ==
    ASSUME NEW m, NEW n, NEW g, g = Map!Merge(m, n)
    PROVE  /\ IsFcn(g) /\ (\A t : t \in DOMAIN g <=> t \in DOMAIN m \/ t \in DOMAIN n)
           /\ \A t \in DOMAIN g : g[t] = Map!Onto(Map!At(n, t), Map!At(m, t))
           /\ \A t : Map!At(g, t) = Map!Onto(Map!At(n, t), Map!At(m, t))
<1>1. g = [t \in DOMAIN m \cup DOMAIN n |-> Map!Onto(Map!At(n, t), Map!At(m, t))]
  BY DEF Map!Merge
<1>2. /\ (\A t : t \in DOMAIN g <=> t \in DOMAIN m \/ t \in DOMAIN n)
      /\ \A t \in DOMAIN g : g[t] = Map!Onto(Map!At(n, t), Map!At(m, t))
  BY <1>1
<1>3. IsFcn(g)
  BY <1>1 DEF IsFcn
<1>4. ASSUME NEW t PROVE Map!At(g, t) = Map!Onto(Map!At(n, t), Map!At(m, t))
  <2>1. CASE t \in DOMAIN g
    BY <1>2, <2>1 DEF Map!At
  <2>2. CASE t \notin DOMAIN g
    <3>1. Map!At(g, t) = Map!None /\ Map!At(n, t) = Map!None /\ Map!At(m, t) = Map!None
      BY <1>2, <2>2 DEF Map!At
    <3> QED
      BY <3>1, NoneIs, OntoNone
  <2> QED
    BY <2>1, <2>2
<1> QED
  BY <1>2, <1>3, <1>4

LEMMA WithTwice ==
    ASSUME NEW m, NEW s, NEW x, NEW y, NEW w, w = Map!With(m, s, x)
    PROVE  Map!With(w, s, y) = Map!With(m, s, Map!Onto(y, x))
<1> SUFFICES ASSUME NEW l, l = Map!With(w, s, y), NEW r, r = Map!With(m, s, Map!Onto(y, x)) PROVE l = r
  OBVIOUS
<1>1. (\A t : t \in DOMAIN w <=> t \in DOMAIN m \/ t = s) /\ Map!At(w, s) = Map!Onto(x, Map!At(m, s)) /\ \A t \in DOMAIN m : t # s => w[t] = m[t]
  BY WithIs
<1>2. /\ IsFcn(l) /\ (\A t : t \in DOMAIN l <=> t \in DOMAIN w \/ t = s) /\ l[s] = Map!Onto(y, Map!At(w, s))
      /\ \A t \in DOMAIN w : t # s => l[t] = w[t]
  BY WithIs
<1>3. /\ IsFcn(r) /\ (\A t : t \in DOMAIN r <=> t \in DOMAIN m \/ t = s) /\ r[s] = Map!Onto(Map!Onto(y, x), Map!At(m, s))
      /\ \A t \in DOMAIN m : t # s => r[t] = m[t]
  BY WithIs
<1>4. l[s] = r[s]
  <2>1. Map!Onto(y, Map!Onto(x, Map!At(m, s))) = Map!Onto(Map!Onto(y, x), Map!At(m, s))
    BY OntoAgain
  <2> QED
    BY <1>1, <1>2, <1>3, <2>1
<1>5. (\A t : t \in DOMAIN l <=> t \in DOMAIN r) /\ \A t \in DOMAIN l : l[t] = r[t]
  BY <1>1, <1>2, <1>3, <1>4
<1> QED
  BY <1>2, <1>3, <1>5, SameFcn

LEMMA WithMerge ==
    ASSUME NEW m, NEW n, NEW s, NEW x, NEW g, g = Map!Merge(m, n), NEW w, w = Map!With(n, s, x)
    PROVE  Map!With(g, s, x) = Map!Merge(m, w)
<1> SUFFICES ASSUME NEW l, l = Map!With(g, s, x), NEW r, r = Map!Merge(m, w) PROVE l = r
  OBVIOUS
<1>1. /\ IsFcn(l) /\ (\A t : t \in DOMAIN l <=> t \in DOMAIN g \/ t = s) /\ l[s] = Map!Onto(x, Map!At(g, s))
      /\ \A t \in DOMAIN g : t # s => l[t] = g[t]
  BY WithIs
<1>2. /\ IsFcn(r) /\ (\A t : t \in DOMAIN r <=> t \in DOMAIN m \/ t \in DOMAIN w)
      /\ \A t \in DOMAIN r : r[t] = Map!Onto(Map!At(w, t), Map!At(m, t))
  BY MergeIs
<1>3. /\ (\A t : t \in DOMAIN g <=> t \in DOMAIN m \/ t \in DOMAIN n)
      /\ \A t \in DOMAIN g : g[t] = Map!Onto(Map!At(n, t), Map!At(m, t))
      /\ Map!At(g, s) = Map!Onto(Map!At(n, s), Map!At(m, s))
  BY MergeIs
<1>4. (\A t : t \in DOMAIN w <=> t \in DOMAIN n \/ t = s) /\ Map!At(w, s) = Map!Onto(x, Map!At(n, s))
  BY WithIs
<1>5. l[s] = r[s]
  <2>1. s \in DOMAIN r
    BY <1>2, <1>4
  <2>2. r[s] = Map!Onto(Map!Onto(x, Map!At(n, s)), Map!At(m, s))
    BY <1>2, <1>4, <2>1
  <2>3. l[s] = Map!Onto(x, Map!Onto(Map!At(n, s), Map!At(m, s)))
    BY <1>1, <1>3
  <2> QED
    BY <2>2, <2>3, OntoAgain
<1>6. (\A t : t \in DOMAIN l <=> t \in DOMAIN r)
  BY <1>1, <1>2, <1>3, <1>4
<1>7. ASSUME NEW t \in DOMAIN l, t # s PROVE l[t] = r[t]
  <2>1. Map!At(w, t) = Map!At(n, t)
    BY <1>7, AtOther
  <2> QED
    BY <1>1, <1>2, <1>3, <1>4, <1>6, <1>7, <2>1
<1> QED
  BY <1>1, <1>2, <1>5, <1>6, <1>7, SameFcn

LEMMA MergeNone ==
    ASSUME NEW m, Mapping(m), NEW n, n = Map!None
    PROVE  Map!Merge(m, n) = m /\ Map!Merge(n, m) = m
<1> SUFFICES ASSUME NEW a, a = Map!Merge(m, n), NEW b, b = Map!Merge(n, m) PROVE a = m /\ b = m
  OBVIOUS
<1>1. DOMAIN n = {} /\ \A t : Map!At(n, t) = n
  BY NoneIs
<1>2. IsFcn(a) /\ (\A t : t \in DOMAIN a <=> t \in DOMAIN m \/ t \in DOMAIN n) /\ \A t \in DOMAIN a : a[t] = Map!Onto(Map!At(n, t), Map!At(m, t))
  BY MergeIs
<1>3. IsFcn(b) /\ (\A t : t \in DOMAIN b <=> t \in DOMAIN n \/ t \in DOMAIN m) /\ \A t \in DOMAIN b : b[t] = Map!Onto(Map!At(m, t), Map!At(n, t))
  BY MergeIs
<1>4. IsFcn(m) /\ \A t \in DOMAIN m : IsFcn(m[t]) /\ Map!At(m, t) = m[t]
  BY DEF Mapping, IsFcn, Map!At
<1>5. \A t \in DOMAIN m : Map!Onto(n, m[t]) = m[t] /\ Map!Onto(m[t], n) = m[t]
  BY <1>4, OntoNone
<1>6. (\A t : t \in DOMAIN a <=> t \in DOMAIN m) /\ \A t \in DOMAIN a : a[t] = m[t]
  BY <1>1, <1>2, <1>4, <1>5
<1>7. (\A t : t \in DOMAIN b <=> t \in DOMAIN m) /\ \A t \in DOMAIN b : b[t] = m[t]
  BY <1>1, <1>3, <1>4, <1>5
<1> QED
  BY <1>2, <1>3, <1>4, <1>6, <1>7, SameFcn

LEMMA MergeEmptySection ==
    ASSUME NEW m, Mapping(m), NEW s, NEW n, n = Map!None, NEW w, w = Map!With(n, s, n)
    PROVE  Map!Merge(w, m) = Map!With(m, s, n)
<1> SUFFICES ASSUME NEW l, l = Map!Merge(w, m), NEW r, r = Map!With(m, s, n) PROVE l = r
  OBVIOUS
<1>1. IsFcn(n) /\ DOMAIN n = {} /\ \A t : Map!At(n, t) = n
  BY NoneIs
<1>2. Map!Onto(n, n) = n
  BY <1>1, OntoNone
<1>3. (\A t : t \in DOMAIN w <=> t = s) /\ \A t : Map!At(w, t) = n
  <2>1. (\A t : t \in DOMAIN w <=> t \in DOMAIN n \/ t = s) /\ Map!At(w, s) = Map!Onto(n, Map!At(n, s))
    BY WithIs
  <2>2. ASSUME NEW t, t # s PROVE Map!At(w, t) = Map!At(n, t)
    BY <2>2, AtOther
  <2> QED
    BY <1>1, <1>2, <2>1, <2>2
<1>4. IsFcn(l) /\ (\A t : t \in DOMAIN l <=> t \in DOMAIN w \/ t \in DOMAIN m) /\ \A t \in DOMAIN l : l[t] = Map!Onto(Map!At(m, t), Map!At(w, t))
  BY MergeIs
<1>5. /\ IsFcn(r) /\ (\A t : t \in DOMAIN r <=> t \in DOMAIN m \/ t = s) /\ r[s] = Map!Onto(n, Map!At(m, s))
      /\ \A t \in DOMAIN m : t # s => r[t] = m[t]
  BY WithIs
<1>6. \A t : Map!Onto(Map!At(m, t), n) = Map!At(m, t) /\ Map!Onto(n, Map!At(m, t)) = Map!At(m, t)
  BY AtIs, OntoNone
<1>7. \A t \in DOMAIN m : Map!At(m, t) = m[t]
  BY DEF Map!At
<1>8. (\A t : t \in DOMAIN l <=> t \in DOMAIN r)
  BY <1>3, <1>4, <1>5
<1>9. \A t \in DOMAIN l : l[t] = Map!At(m, t)
  BY <1>3, <1>4, <1>6
<1>10. \A t \in DOMAIN r : r[t] = Map!At(m, t)
  BY <1>5, <1>6, <1>7
<1> QED
  BY <1>4, <1>5, <1>8, <1>9, <1>10, SameFcn

-----------------------------------------------------------------------------
(* Merging: the items of a section, and the sections of an object, one      *)
(* after the other.                                                         *)

\* What the first n items say, and the first n sections.
ItemsTo(items, n) == [k \in {items[i].key : i \in 1..n} |-> items[Pos(items, k)].val]
SectionsTo(secs, n) == [s \in {secs[i].key : i \in 1..n} |-> ItemMap(secs[Pos(secs, s)].items)]

LEMMA ItemsToIs ==
    ASSUME NEW T, NEW items \in Seq(T), Unique(items)
    PROVE  /\ ItemsTo(items, 0) = Map!None
           /\ ItemsTo(items, Len(items)) = ItemMap(items)
           /\ \A n \in 1..Len(items) :
                 ItemsTo(items, n) = Map!Onto(One(items[n].key, items[n].val), ItemsTo(items, n - 1))
<1>1. DOMAIN items = 1..Len(items) /\ Len(items) \in Nat
  BY LenProperties
<1>2. ItemsTo(items, 0) = Map!None
  <2>1. {items[i].key : i \in 1..0} = {}
    OBVIOUS
  <2> QED
    BY <2>1 DEF ItemsTo, Map!None
<1>3. ItemsTo(items, Len(items)) = ItemMap(items)
  <2>1. {items[i].key : i \in 1..Len(items)} = Keys(items)
    BY <1>1 DEF Keys
  <2> QED
    BY <2>1 DEF ItemsTo, ItemMap
<1>4. ASSUME NEW n \in 1..Len(items)
      PROVE  ItemsTo(items, n) = Map!Onto(One(items[n].key, items[n].val), ItemsTo(items, n - 1))
  <2> DEFINE p == ItemsTo(items, n - 1)
             q == ItemsTo(items, n)
             one == One(items[n].key, items[n].val)
             r == Map!Onto(one, p)
  <2>1. Pos(items, items[n].key) = n
    BY <1>1, PosOf
  <2>2. /\ IsFcn(q) /\ (\A k : k \in DOMAIN q <=> \E i \in 1..n : k = items[i].key)
        /\ \A k \in DOMAIN q : q[k] = items[Pos(items, k)].val
    BY DEF ItemsTo, IsFcn
  <2>3. /\ IsFcn(p) /\ (\A k : k \in DOMAIN p <=> \E i \in 1..n - 1 : k = items[i].key)
        /\ \A k \in DOMAIN p : p[k] = items[Pos(items, k)].val
    BY DEF ItemsTo, IsFcn
  <2>4. (\A k : k \in DOMAIN one <=> k = items[n].key) /\ one[items[n].key] = items[n].val
    BY DEF One
  <2>5. r = [k \in DOMAIN one \cup DOMAIN p |-> IF k \in DOMAIN one THEN one[k] ELSE p[k]]
    BY DEF Map!Onto
  <2> HIDE DEF p, q, one, r
  <2>6. /\ IsFcn(r) /\ (\A k : k \in DOMAIN r <=> k \in DOMAIN one \/ k \in DOMAIN p)
        /\ \A k \in DOMAIN r : r[k] = IF k \in DOMAIN one THEN one[k] ELSE p[k]
    BY <2>5 DEF IsFcn
  <2>7. \A i : i \in 1..n <=> i \in 1..n - 1 \/ i = n
    BY <1>1
  <2>8. \A k : k \in DOMAIN q <=> k \in DOMAIN r
    BY <2>2, <2>3, <2>4, <2>6, <2>7
  <2>9. \A k \in DOMAIN q : q[k] = r[k]
    BY <2>1, <2>2, <2>3, <2>4, <2>6, <2>8
  <2>10. q = r
    BY <2>2, <2>6, <2>8, <2>9, SameFcn
  <2> QED
    BY <2>10 DEF p, q, one, r
<1> QED
  BY <1>2, <1>3, <1>4

LEMMA SectionsToIs ==
    ASSUME NEW c \in Confs, NEW secs, secs = c.secs
    PROVE  /\ SectionsTo(secs, 0) = Map!None
           /\ SectionsTo(secs, Len(secs)) = ConfMap(c)
           /\ \A n \in 1..Len(secs) :
                 SectionsTo(secs, n) = Map!With(SectionsTo(secs, n - 1), secs[n].key, ItemMap(secs[n].items))
<1>1. DOMAIN secs = 1..Len(secs) /\ Len(secs) \in Nat /\ secs \in Seq(Sections) /\ Unique(secs)
  BY LenProperties DEF Confs
<1>2. SectionsTo(secs, 0) = Map!None
  <2>1. {secs[i].key : i \in 1..0} = {}
    OBVIOUS
  <2> QED
    BY <2>1 DEF SectionsTo, Map!None
<1>3. SectionsTo(secs, Len(secs)) = ConfMap(c)
  <2>1. {secs[i].key : i \in 1..Len(secs)} = Keys(secs)
    BY <1>1 DEF Keys
  <2> QED
    BY <2>1 DEF SectionsTo, ConfMap
<1>4. ASSUME NEW n \in 1..Len(secs)
      PROVE  SectionsTo(secs, n) = Map!With(SectionsTo(secs, n - 1), secs[n].key, ItemMap(secs[n].items))
  <2> DEFINE p == SectionsTo(secs, n - 1)
             q == SectionsTo(secs, n)
             s == secs[n].key
             x == ItemMap(secs[n].items)
             r == Map!With(p, s, x)
  <2>1. Pos(secs, s) = n /\ n \in DOMAIN secs
    BY <1>1, PosOf
  <2>2. /\ IsFcn(q) /\ (\A k : k \in DOMAIN q <=> \E i \in 1..n : k = secs[i].key)
        /\ \A k \in DOMAIN q : q[k] = ItemMap(secs[Pos(secs, k)].items)
    BY DEF SectionsTo, IsFcn
  <2>3. /\ IsFcn(p) /\ (\A k : k \in DOMAIN p <=> \E i \in 1..n - 1 : k = secs[i].key)
        /\ \A k \in DOMAIN p : p[k] = ItemMap(secs[Pos(secs, k)].items)
    BY DEF SectionsTo, IsFcn
  <2>4. IsFcn(x)
    BY ItemMapping DEF IsFcn
  <2>5. s = secs[n].key /\ x = ItemMap(secs[n].items)
    OBVIOUS
  <2> HIDE DEF p, q, s, x, r
  <2>6. /\ IsFcn(r) /\ (\A k : k \in DOMAIN r <=> k \in DOMAIN p \/ k = s) /\ r[s] = Map!Onto(x, Map!At(p, s))
        /\ \A k \in DOMAIN p : k # s => r[k] = p[k]
    <3>1. r = Map!With(p, s, x)
      BY DEF r
    <3> QED
      BY <3>1, WithIs
  <2>7. \A i : i \in 1..n <=> i \in 1..n - 1 \/ i = n
    BY <1>1
  <2>8. s \notin DOMAIN p
    <3>1. \A i \in 1..n - 1 : i \in DOMAIN secs /\ i # n
      BY <1>1
    <3> QED
      BY <1>1, <2>1, <2>3, <2>5, <3>1 DEF Unique
  <2>9. r[s] = x
    <3>1. Map!At(p, s) = Map!None
      BY <2>8 DEF Map!At
    <3> QED
      BY <2>4, <2>6, <3>1, OntoNone
  <2>10. \A k : k \in DOMAIN q <=> k \in DOMAIN r
    BY <2>2, <2>3, <2>5, <2>6, <2>7
  <2>11. \A k \in DOMAIN q : q[k] = r[k]
    BY <2>1, <2>2, <2>3, <2>5, <2>6, <2>9, <2>10
  <2>12. q = r
    BY <2>2, <2>6, <2>10, <2>11, SameFcn
  <2> QED
    BY <2>12 DEF p, q, s, x, r
<1> QED
  BY <1>2, <1>3, <1>4

ConfsWith(s) == {d \in Confs : s \in Keys(d.secs)}

LEMMA SetAllMade ==
    ASSUME NEW c \in Confs, NEW s \in Names, NEW items \in Seq(Item),
           NEW D, D = ConfsWith(s)
    PROVE  \E f \in [0..Len(items) -> D] :
              /\ f[0] = Added(c, s) /\ f[Len(items)] = SetAll(c, s, items)
              /\ \A n \in 1..Len(items) : f[n] = SetIn(f[n - 1], s, items[n].key, items[n].val)
<1> DEFINE N == Len(items)
           start == Added(c, s)
           step == [n \in 1..N |-> [d \in D |-> SetIn(d, s, items[n].key, items[n].val)]]
<1>1. N \in Nat /\ \A n \in 1..N : items[n].key \in Options /\ items[n].val \in Values
  <2>1. \A n \in 1..N : items[n] \in Item
    BY LenProperties
  <2> QED
    BY <2>1, LenProperties DEF Item
<1>2. start \in D
  BY AddedIs DEF ConfsWith
<1>3. \A n \in 1..N, d \in D : SetIn(d, s, items[n].key, items[n].val) \in D
  <2> SUFFICES ASSUME NEW n \in 1..N, NEW d \in D PROVE SetIn(d, s, items[n].key, items[n].val) \in D
    OBVIOUS
  <2>1. d \in Confs /\ s \in Keys(d.secs) /\ items[n].key \in Options /\ items[n].val \in Values
    BY <1>1 DEF ConfsWith
  <2>2. SetIn(d, s, items[n].key, items[n].val) \in Confs
        /\ Keys(SetIn(d, s, items[n].key, items[n].val).secs) = Keys(d.secs)
    BY <2>1, SetInIs
  <2> QED
    BY <2>1, <2>2 DEF ConfsWith
<1>4. \A n \in 1..N, d \in D : step[n][d] \in D /\ step[n][d] = SetIn(d, s, items[n].key, items[n].val)
  BY <1>3
<1> DEFINE Is(f) == f = [n \in 0..N |-> IF n = 0 THEN start ELSE SetIn(f[n - 1], s, items[n].key, items[n].val)]
<1>5. \E f : Is(f)
  <2> HIDE DEF step, start, N
  <2>1. Steps(step, N, D)
    BY <1>4 DEF Steps
  <2>2. PICK f : Looped(f, step, N, D, start)
    BY <1>1, <1>2, <2>1, LoopMakes
  <2>3. f[0] = start /\ (\A n \in 0..N : f[n] \in D) /\ \A n \in 1..N : f[n] = step[n][f[n - 1]]
    BY <2>2 DEF Looped
  <2>4. \A n \in 1..N : f[n] = SetIn(f[n - 1], s, items[n].key, items[n].val)
    <3>1. \A n \in 1..N : n - 1 \in 0..N
      BY <1>1
    <3>2. \A n \in 1..N : f[n - 1] \in D
      BY <2>3, <3>1
    <3> QED
      BY <1>4, <2>3, <3>2
  <2> DEFINE g == [n \in 0..N |-> f[n]]
  <2>5. \A n \in 1..N : n - 1 \in 0..N
    BY <1>1
  <2>6. \A n \in 0..N : n # 0 => n \in 1..N
    BY <1>1
  <2>7. \A n \in 0..N : f[n] = IF n = 0 THEN start ELSE SetIn(g[n - 1], s, items[n].key, items[n].val)
    BY <2>3, <2>4, <2>5, <2>6
  <2>8. Is(g)
    BY <2>7
  <2> QED
    BY <2>8
<1> DEFINE made == CHOOSE f : Is(f)
<1>6. SetAll(c, s, items) = made[N]
  BY DEF SetAll
<1>7. Is(made)
  <2> HIDE DEF Is
  <2> QED
    BY <1>5
<1> HIDE DEF made, step
<1>8. made[0] = start /\ \A n \in 1..N : made[n] = SetIn(made[n - 1], s, items[n].key, items[n].val)
  <2>1. 0 \in 0..N /\ \A n \in 1..N : n \in 0..N /\ n # 0
    BY <1>1
  <2> HIDE DEF start, N
  <2> QED
    BY <1>7, <2>1
<1>9. \A n \in 0..N : made[n] \in D
  <2> DEFINE S == {n \in 0..N : made[n] \in D}
  <2>1. 0 \in S
    BY <1>1, <1>2, <1>8
  <2>2. \A n \in 0..N - 1 : n \in S => n + 1 \in S
    <3> SUFFICES ASSUME NEW n \in 0..N - 1, n \in S PROVE n + 1 \in S
      OBVIOUS
    <3> HIDE DEF N
    <3>1. n + 1 \in 1..N /\ n + 1 \in 0..N /\ (n + 1) - 1 = n
      BY <1>1
    <3> QED
      BY <1>3, <1>8, <3>1
  <2> HIDE DEF S
  <2>3. \A n \in 0..N : n \in S
    BY <1>1, <2>1, <2>2, Turns
  <2> QED
    BY <2>3 DEF S
<1>10. made \in [0..N -> D]
  <2> HIDE DEF N, start
  <2> QED
    BY <1>7, <1>9
<1> QED
  BY <1>6, <1>8, <1>10

LEMMA SetAllIs ==
    ASSUME NEW c \in Confs, NEW s \in Names, NEW items \in Seq(Item), Unique(items)
    PROVE  /\ SetAll(c, s, items) \in Confs
           /\ ConfMap(SetAll(c, s, items)) = Map!With(ConfMap(c), s, ItemMap(items))
<1> DEFINE N == Len(items)
           D == ConfsWith(s)
           m == ConfMap(c)
<1>1. N \in Nat /\ \A n \in 1..N : items[n].key \in Options /\ items[n].val \in Values
  <2>1. \A n \in 1..N : items[n] \in Item
    BY LenProperties
  <2> QED
    BY <2>1, LenProperties DEF Item
<1>2. PICK f \in [0..N -> D] :
         /\ f[0] = Added(c, s) /\ f[N] = SetAll(c, s, items)
         /\ \A n \in 1..N : f[n] = SetIn(f[n - 1], s, items[n].key, items[n].val)
  BY SetAllMade
<1>3. /\ ItemsTo(items, 0) = Map!None /\ ItemsTo(items, N) = ItemMap(items)
      /\ \A n \in 1..N : ItemsTo(items, n) = Map!Onto(One(items[n].key, items[n].val), ItemsTo(items, n - 1))
  BY ItemsToIs
<1> DEFINE S == {n \in 0..N : ConfMap(f[n]) = Map!With(m, s, ItemsTo(items, n))}
<1>4. 0 \in S
  <2>1. ConfMap(f[0]) = Map!With(m, s, Map!None)
    BY <1>2, AddedIs
  <2> QED
    BY <1>1, <1>3, <2>1
<1>5. ASSUME NEW n \in 0..N - 1, n \in S PROVE n + 1 \in S
  <2> HIDE DEF N, D
  <2> DEFINE k == items[n + 1].key
             one == One(k, items[n + 1].val)
             w == ConfMap(f[n])
             x == ItemsTo(items, n)
  <2>1. n + 1 \in 1..N /\ n + 1 \in 0..N /\ n \in 0..N /\ (n + 1) - 1 = n
    BY <1>1
  <2>2. f[n + 1] = SetIn(f[n], s, k, items[n + 1].val)
    BY <1>2, <2>1
  <2>3. f[n] \in Confs /\ s \in Keys(f[n].secs) /\ k \in Options /\ items[n + 1].val \in Values
    BY <1>1, <1>2, <2>1 DEF D, ConfsWith
  <2>4. ConfMap(f[n + 1]) = Map!With(w, s, one)
    BY <2>2, <2>3, SetInIs
  <2>5. w = Map!With(m, s, x)
    BY <1>5
  <2>6. ItemsTo(items, n + 1) = Map!Onto(one, x)
    BY <1>3, <2>1
  <2> HIDE DEF one, w, x, m
  <2>7. Map!With(w, s, one) = Map!With(m, s, Map!Onto(one, x))
    BY <2>5, WithTwice
  <2> QED
    BY <2>1, <2>4, <2>6, <2>7
<1>6. N \in S
  <2> HIDE DEF S, N
  <2>1. \A n \in 0..N : n \in S
    BY <1>1, <1>4, <1>5, Turns
  <2> QED
    BY <1>1, <2>1
<1>7. f[N] \in Confs
  <2>1. N \in 0..N
    BY <1>1
  <2> QED
    BY <1>2, <2>1 DEF ConfsWith
<1> QED
  BY <1>2, <1>3, <1>6, <1>7

\* f[n] is what there is after n sections of d.
UpdateTurns(f, c, d, secs) ==
    /\ f[0] = c /\ (\A n \in 0..Len(secs) : f[n] \in Confs) /\ f[Len(secs)] = Updated(c, d)
    /\ \A n \in 1..Len(secs) : f[n] = SetAll(f[n - 1], secs[n].key, secs[n].items)

LEMMA UpdatedMade ==
    ASSUME NEW c \in Confs, NEW d \in Confs, NEW secs, secs = d.secs
    PROVE  \E f : UpdateTurns(f, c, d, secs)
<1> DEFINE N == Len(secs)
           step == [n \in 1..N |-> [e \in Confs |-> SetAll(e, secs[n].key, secs[n].items)]]
<1>1. N \in Nat /\ \A n \in 1..N : secs[n].key \in Names /\ secs[n].items \in Seq(Item) /\ Unique(secs[n].items)
  <2>1. secs \in Seq(Sections)
    BY DEF Confs
  <2>2. \A n \in 1..N : secs[n] \in Sections
    BY <2>1, LenProperties
  <2> QED
    BY <2>1, <2>2, LenProperties DEF Sections
<1>2. \A n \in 1..N, e \in Confs : SetAll(e, secs[n].key, secs[n].items) \in Confs
  BY <1>1, SetAllIs
<1>3. \A n \in 1..N, e \in Confs : step[n][e] \in Confs /\ step[n][e] = SetAll(e, secs[n].key, secs[n].items)
  BY <1>2
<1> DEFINE Is(f) == f = [n \in 0..N |-> IF n = 0 THEN c ELSE SetAll(f[n - 1], secs[n].key, secs[n].items)]
<1>4. \E f : Is(f)
  <2> HIDE DEF step, N
  <2>1. Steps(step, N, Confs)
    BY <1>3 DEF Steps
  <2>2. PICK f : Looped(f, step, N, Confs, c)
    BY <1>1, <2>1, LoopMakes
  <2>3. f[0] = c /\ (\A n \in 0..N : f[n] \in Confs) /\ \A n \in 1..N : f[n] = step[n][f[n - 1]]
    BY <2>2 DEF Looped
  <2>4. \A n \in 1..N : n - 1 \in 0..N
    BY <1>1
  <2>5. \A n \in 1..N : f[n] = SetAll(f[n - 1], secs[n].key, secs[n].items)
    BY <1>3, <2>3, <2>4
  <2> DEFINE g == [n \in 0..N |-> f[n]]
  <2>6. \A n \in 0..N : n # 0 => n \in 1..N
    BY <1>1
  <2>7. \A n \in 0..N : f[n] = IF n = 0 THEN c ELSE SetAll(g[n - 1], secs[n].key, secs[n].items)
    BY <2>3, <2>4, <2>5, <2>6
  <2>8. Is(g)
    BY <2>7
  <2> QED
    BY <2>8
<1> DEFINE made == CHOOSE f : Is(f)
<1>5. Updated(c, d) = made[N]
  BY DEF Updated
<1>6. Is(made)
  <2> HIDE DEF Is
  <2> QED
    BY <1>4
<1> HIDE DEF made, step
<1>7. made[0] = c /\ \A n \in 1..N : made[n] = SetAll(made[n - 1], secs[n].key, secs[n].items)
  <2>1. 0 \in 0..N /\ \A n \in 1..N : n \in 0..N /\ n # 0
    BY <1>1
  <2> HIDE DEF N
  <2> QED
    BY <1>6, <2>1
<1>8. \A n \in 0..N : made[n] \in Confs
  <2> DEFINE S == {n \in 0..N : made[n] \in Confs}
  <2>1. 0 \in S
    BY <1>1, <1>7
  <2>2. \A n \in 0..N - 1 : n \in S => n + 1 \in S
    <3> SUFFICES ASSUME NEW n \in 0..N - 1, n \in S PROVE n + 1 \in S
      OBVIOUS
    <3> HIDE DEF N
    <3>1. n + 1 \in 1..N /\ n + 1 \in 0..N /\ (n + 1) - 1 = n
      BY <1>1
    <3> QED
      BY <1>2, <1>7, <3>1
  <2> HIDE DEF S
  <2>3. \A n \in 0..N : n \in S
    BY <1>1, <2>1, <2>2, Turns
  <2> QED
    BY <2>3 DEF S
<1>9. UpdateTurns(made, c, d, secs)
  BY <1>5, <1>7, <1>8 DEF UpdateTurns
<1> QED
  BY <1>9

LEMMA UpdatedIs ==
    ASSUME NEW c \in Confs, NEW d \in Confs
    PROVE  Updated(c, d) \in Confs /\ ConfMap(Updated(c, d)) = Map!Merge(ConfMap(c), ConfMap(d))
<1> SUFFICES ASSUME NEW secs, secs = d.secs
             PROVE  Updated(c, d) \in Confs /\ ConfMap(Updated(c, d)) = Map!Merge(ConfMap(c), ConfMap(d))
  OBVIOUS
<1> DEFINE N == Len(secs)
           m == ConfMap(c)
<1>1. N \in Nat /\ \A n \in 1..N : secs[n].key \in Names /\ secs[n].items \in Seq(Item) /\ Unique(secs[n].items)
  <2>1. secs \in Seq(Sections)
    BY DEF Confs
  <2>2. \A n \in 1..N : secs[n] \in Sections
    BY <2>1, LenProperties
  <2> QED
    BY <2>1, <2>2, LenProperties DEF Sections
<1>2. PICK f : UpdateTurns(f, c, d, secs)
  BY UpdatedMade
<1>3. /\ f[0] = c /\ (\A n \in 0..N : f[n] \in Confs) /\ f[N] = Updated(c, d)
      /\ \A n \in 1..N : f[n] = SetAll(f[n - 1], secs[n].key, secs[n].items)
  BY <1>2 DEF UpdateTurns
<1>4. /\ SectionsTo(secs, 0) = Map!None /\ SectionsTo(secs, N) = ConfMap(d)
      /\ \A n \in 1..N : SectionsTo(secs, n) = Map!With(SectionsTo(secs, n - 1), secs[n].key, ItemMap(secs[n].items))
  BY SectionsToIs
<1> DEFINE S == {n \in 0..N : ConfMap(f[n]) = Map!Merge(m, SectionsTo(secs, n))}
<1>5. 0 \in S
  <2>1. Mapping(m)
    BY ConfMapping
  <2> HIDE DEF m
  <2>2. Map!Merge(m, Map!None) = m
    BY <2>1, MergeNone
  <2> QED
    BY <1>1, <1>3, <1>4, <2>2 DEF m
<1>6. ASSUME NEW n \in 0..N - 1, n \in S PROVE n + 1 \in S
  <2> HIDE DEF N
  <2> DEFINE s == secs[n + 1].key
             x == ItemMap(secs[n + 1].items)
             g == ConfMap(f[n])
             p == SectionsTo(secs, n)
             w == SectionsTo(secs, n + 1)
  <2>1. n + 1 \in 1..N /\ n + 1 \in 0..N /\ n \in 0..N /\ (n + 1) - 1 = n
    BY <1>1
  <2>2. f[n] \in Confs /\ f[n + 1] = SetAll(f[n], s, secs[n + 1].items)
    BY <1>3, <2>1
  <2>3. ConfMap(f[n + 1]) = Map!With(g, s, x)
    BY <1>1, <2>1, <2>2, SetAllIs
  <2>4. g = Map!Merge(m, p)
    BY <1>6
  <2>5. w = Map!With(p, s, x)
    BY <1>4, <2>1
  <2> HIDE DEF s, x, g, p, w, m
  <2>6. Map!With(g, s, x) = Map!Merge(m, w)
    BY <2>4, <2>5, WithMerge
  <2> QED
    BY <2>1, <2>3, <2>6 DEF w
<1>7. N \in S
  <2> HIDE DEF S, N
  <2>1. \A n \in 0..N : n \in S
    BY <1>1, <1>5, <1>6, Turns
  <2> QED
    BY <1>1, <2>1
<1>8. f[N] \in Confs
  <2>1. N \in 0..N
    BY <1>1
  <2> QED
    BY <1>3, <2>1
<1> QED
  BY <1>3, <1>4, <1>7, <1>8

-----------------------------------------------------------------------------
(* Reading: what a file says comes over what there is.                     *)

ReadStates == {r \in [conf : Confs, cur : Names, ok : {TRUE, FALSE}] : r.cur \in Keys(r.conf.secs)}

LEMMA NewConfIs == NewConf \in Confs /\ ConfMap(NewConf) = Map!None /\ ~Has(NewConf.secs, Default)
<1>1. NewConf = [secs |-> <<>>, cap |-> Grow] /\ Grow \in Nat /\ <<>> \in Seq(Sections) /\ Len(<<>>) = 0
  BY ConfAssumption DEF NewConf, ConfAssumption
<1>2. Unique(<<>>) /\ Keys(<<>>) = {}
  BY DEF Unique, Keys
<1>3. NewConf.secs = <<>>
  BY <1>1
<1>4. ~Has(NewConf.secs, Default)
  BY <1>1, <1>2, <1>3, PosIs
<1>5. ConfMap(NewConf) = Map!None
  BY <1>2, <1>3 DEF ConfMap, Map!None
<1>6. NewConf \in Confs
  BY <1>1, <1>2, <1>3 DEF Confs
<1> QED
  BY <1>4, <1>5, <1>6

LEMMA ReadStateIs ==
    ASSUME NEW r \in ReadStates
    PROVE  /\ r.conf \in Confs /\ r.cur \in Names /\ r.cur \in Keys(r.conf.secs)
           /\ r \in [conf : Confs, cur : Names, ok : {TRUE, FALSE}]
BY DEF ReadStates

LEMMA ReadLineSection ==
    ASSUME NEW r \in ReadStates, NEW s \in Names, r.ok, NEW new, new = ReadLine(r, SecLine(s))
    PROVE  new \in ReadStates /\ new.conf = Added(r.conf, s) /\ new.cur = s /\ new.ok
<1> DEFINE l == SecLine(s)
<1>1. l.k = "section" /\ l.key = s /\ l.k # "setting" /\ l.k # "bad"
  BY DEF SecLine
<1> HIDE DEF l
<1>2. ReadLine(r, l) = ReadSection(r, l)
  BY <1>1, Zenon DEF ReadLine
<1>3. r \in [conf : Confs, cur : Names, ok : {TRUE, FALSE}] /\ r.conf \in Confs
  BY ReadStateIs
<1>4. new = [r EXCEPT !.conf = Added(@, l.key), !.cur = l.key]
  BY <1>2 DEF ReadSection, l
<1> DEFINE a == Added(r.conf, s)
<1>5. a \in Confs /\ s \in Keys(a.secs)
  BY <1>3, AddedIs
<1>6. new = [r EXCEPT !.conf = a, !.cur = s]
  BY <1>1, <1>3, <1>4
<1> HIDE DEF a
<1>7. new.conf = a /\ new.cur = s /\ new.ok = r.ok /\ new \in [conf : Confs, cur : Names, ok : {TRUE, FALSE}]
  BY <1>3, <1>5, <1>6
<1> QED
  BY <1>5, <1>7 DEF ReadStates, a

LEMMA ReadLineSetting ==
    ASSUME NEW r \in ReadStates, NEW k \in Options, NEW v \in Values, r.ok, NEW new, new = ReadLine(r, SetLine(k, v))
    PROVE  new \in ReadStates /\ new.conf = SetIn(r.conf, r.cur, k, v) /\ new.cur = r.cur /\ new.ok
<1> DEFINE l == SetLine(k, v)
<1>1. l.k = "setting" /\ l.key = k /\ l.val = v /\ l.k # "section" /\ l.k # "bad"
  BY DEF SetLine
<1> HIDE DEF l
<1>2. ReadLine(r, l) = [r EXCEPT !.conf = SetIn(@, r.cur, l.key, l.val)]
  BY <1>1, Zenon DEF ReadLine
<1>3. /\ r \in [conf : Confs, cur : Names, ok : {TRUE, FALSE}] /\ r.conf \in Confs
      /\ r.cur \in Names /\ r.cur \in Keys(r.conf.secs)
  BY ReadStateIs
<1> DEFINE a == SetIn(r.conf, r.cur, k, v)
<1>4. new = [r EXCEPT !.conf = a]
  BY <1>1, <1>2, <1>3 DEF l
<1>5. a \in Confs /\ Keys(a.secs) = Keys(r.conf.secs)
  BY <1>3, SetInIs
<1> HIDE DEF a
<1>6. new.conf = a /\ new.cur = r.cur /\ new.ok = r.ok /\ new \in [conf : Confs, cur : Names, ok : {TRUE, FALSE}]
  BY <1>3, <1>4, <1>5
<1> QED
  BY <1>3, <1>5, <1>6 DEF ReadStates, a

LEMMA ReadLineBad ==
    ASSUME NEW r \in ReadStates, r.ok, NEW new, new = ReadLine(r, BadLine)
    PROVE  new \in ReadStates /\ new.conf = r.conf /\ new.cur = r.cur /\ ~new.ok
<1> DEFINE l == BadLine
<1>1. l.k = "bad" /\ l.k # "section" /\ l.k # "setting"
  BY DEF BadLine
<1> HIDE DEF l
<1>2. ReadLine(r, l) = [r EXCEPT !.ok = FALSE]
  BY <1>1, Zenon DEF ReadLine
<1>3. r \in [conf : Confs, cur : Names, ok : {TRUE, FALSE}] /\ r.cur \in Keys(r.conf.secs)
  BY ReadStateIs
<1>4. new = [r EXCEPT !.ok = FALSE]
  BY <1>2 DEF l
<1>5. new.conf = r.conf /\ new.cur = r.cur /\ ~new.ok /\ new \in [conf : Confs, cur : Names, ok : {TRUE, FALSE}]
  BY <1>3, <1>4
<1> QED
  BY <1>3, <1>5 DEF ReadStates

LEMMA ReadLineFailed ==
    ASSUME NEW r, NEW l, ~r.ok
    PROVE  ReadLine(r, l) = r
BY Zenon DEF ReadLine

LEMMA LineIs ==
    ASSUME NEW l \in Lines
    PROVE  \/ \E s \in Names : l = SecLine(s)
           \/ \E k \in Options, v \in Values : l = SetLine(k, v)
           \/ l = BadLine
BY DEF Lines

LEMMA ReadLineStays ==
    ASSUME NEW r \in ReadStates, NEW l \in Lines
    PROVE  ReadLine(r, l) \in ReadStates
<1>1. CASE ~r.ok
  BY <1>1, ReadLineFailed
<1>2. CASE r.ok
  BY <1>2, LineIs, ReadLineSection, ReadLineSetting, ReadLineBad
<1> QED
  BY <1>1, <1>2

\* f[n] is what there is after n lines.
ReadStart(c) == [conf |-> Added(c, Default), cur |-> Default, ok |-> TRUE]
ReadTurns(f, c, lines) ==
    /\ f[0] = ReadStart(c) /\ (\A n \in 0..Len(lines) : f[n] \in ReadStates)
    /\ f[Len(lines)] = ReadFrom(c, lines)
    /\ \A n \in 1..Len(lines) : f[n] = ReadLine(f[n - 1], lines[n])

LEMMA ReadStartIs ==
    ASSUME NEW c \in Confs, NEW r, r = ReadStart(c)
    PROVE  /\ r \in ReadStates /\ r.conf = Added(c, Default) /\ r.cur = Default /\ r.ok
           /\ ConfMap(r.conf) = Map!With(ConfMap(c), Default, Map!None)
<1> DEFINE a == Added(c, Default)
<1>1. Default \in Names
  BY ConfAssumption DEF ConfAssumption
<1>2. a \in Confs /\ Default \in Keys(a.secs) /\ ConfMap(a) = Map!With(ConfMap(c), Default, Map!None)
  BY <1>1, AddedIs
<1>3. r = [conf |-> a, cur |-> Default, ok |-> TRUE]
  BY DEF ReadStart
<1> HIDE DEF a
<1>4. r \in ReadStates /\ r.conf = a /\ r.cur = Default /\ r.ok
  BY <1>1, <1>2, <1>3 DEF ReadStates
<1> QED
  BY <1>2, <1>4 DEF a

LEMMA ReadMade ==
    ASSUME NEW c \in Confs, ~Has(c.secs, Default), NEW lines \in Seq(Lines)
    PROVE  \E f : ReadTurns(f, c, lines)
<1> DEFINE N == Len(lines)
           start == ReadStart(c)
           step == [n \in 1..N |-> [r \in ReadStates |-> ReadLine(r, lines[n])]]
<1>1. N \in Nat /\ \A n \in 1..N : lines[n] \in Lines
  BY LenProperties
<1>2. start \in ReadStates
  BY ReadStartIs
<1>3. \A n \in 1..N, r \in ReadStates : ReadLine(r, lines[n]) \in ReadStates
  BY <1>1, ReadLineStays
<1>4. \A n \in 1..N, r \in ReadStates : step[n][r] \in ReadStates /\ step[n][r] = ReadLine(r, lines[n])
  BY <1>3
<1> DEFINE Is(f) == f = [n \in 0..N |-> IF n = 0 THEN start ELSE ReadLine(f[n - 1], lines[n])]
<1>5. \E f : Is(f)
  <2> HIDE DEF step, start, N
  <2>1. Steps(step, N, ReadStates)
    BY <1>4 DEF Steps
  <2>2. PICK f : Looped(f, step, N, ReadStates, start)
    BY <1>1, <1>2, <2>1, LoopMakes
  <2>3. f[0] = start /\ (\A n \in 0..N : f[n] \in ReadStates) /\ \A n \in 1..N : f[n] = step[n][f[n - 1]]
    BY <2>2 DEF Looped
  <2>4. \A n \in 1..N : n - 1 \in 0..N
    BY <1>1
  <2>5. \A n \in 1..N : f[n] = ReadLine(f[n - 1], lines[n])
    BY <1>4, <2>3, <2>4
  <2> DEFINE g == [n \in 0..N |-> f[n]]
  <2>6. \A n \in 0..N : n # 0 => n \in 1..N
    BY <1>1
  <2>7. \A n \in 0..N : f[n] = IF n = 0 THEN start ELSE ReadLine(g[n - 1], lines[n])
    BY <2>3, <2>4, <2>5, <2>6
  <2>8. Is(g)
    BY <2>7
  <2> QED
    BY <2>8
<1> DEFINE made == CHOOSE f : Is(f)
<1>6. ReadFrom(c, lines) = made[N]
  BY DEF ReadFrom, ReadStart
<1>7. Is(made)
  <2> HIDE DEF Is
  <2> QED
    BY <1>5
<1> HIDE DEF made, step, start
<1>8. made[0] = start /\ \A n \in 1..N : made[n] = ReadLine(made[n - 1], lines[n])
  <2>1. 0 \in 0..N /\ \A n \in 1..N : n \in 0..N /\ n # 0
    BY <1>1
  <2> HIDE DEF N
  <2> QED
    BY <1>7, <2>1
<1>9. \A n \in 0..N : made[n] \in ReadStates
  <2> DEFINE S == {n \in 0..N : made[n] \in ReadStates}
  <2>1. 0 \in S
    BY <1>1, <1>2, <1>8
  <2>2. \A n \in 0..N - 1 : n \in S => n + 1 \in S
    <3> SUFFICES ASSUME NEW n \in 0..N - 1, n \in S PROVE n + 1 \in S
      OBVIOUS
    <3> HIDE DEF N
    <3>1. n + 1 \in 1..N /\ n + 1 \in 0..N /\ (n + 1) - 1 = n
      BY <1>1
    <3> QED
      BY <1>3, <1>8, <3>1
  <2> HIDE DEF S
  <2>3. \A n \in 0..N : n \in S
    BY <1>1, <2>1, <2>2, Turns
  <2> QED
    BY <2>3 DEF S
<1>10. ReadTurns(made, c, lines)
  BY <1>6, <1>8, <1>9 DEF ReadTurns, start
<1> QED
  BY <1>10

\* Two readings of the same lines, one into an empty object.
SameReading(r, q, m) ==
    r.cur = q.cur /\ (r.ok => q.ok) /\ (q.ok => r.ok) /\ ConfMap(r.conf) = Map!Merge(m, ConfMap(q.conf))

LEMMA SameStart ==
    ASSUME NEW c \in Confs
    PROVE  SameReading(ReadStart(c), ReadStart(NewConf), ConfMap(c))
<1> SUFFICES ASSUME NEW r, r = ReadStart(c), NEW q, q = ReadStart(NewConf), NEW m, m = ConfMap(c), NEW n, n = Map!None
             PROVE  SameReading(r, q, m)
  OBVIOUS
<1>1. r.cur = Default /\ r.ok /\ ConfMap(r.conf) = Map!With(m, Default, n)
  BY ReadStartIs
<1>2. q.cur = Default /\ q.ok /\ ConfMap(q.conf) = Map!With(n, Default, n)
  BY NewConfIs, ReadStartIs
<1>3. Map!Merge(m, n) = m
  BY ConfMapping, MergeNone
<1>4. Map!With(m, Default, n) = Map!Merge(m, Map!With(n, Default, n))
  BY <1>3, WithMerge
<1> QED
  BY <1>1, <1>2, <1>4 DEF SameReading

LEMMA SameLine ==
    ASSUME NEW r \in ReadStates, NEW q \in ReadStates, NEW m, SameReading(r, q, m), NEW l \in Lines
    PROVE  SameReading(ReadLine(r, l), ReadLine(q, l), m)
<1> SUFFICES ASSUME NEW a, a = ReadLine(r, l), NEW b, b = ReadLine(q, l) PROVE SameReading(a, b, m)
  OBVIOUS
<1>1. /\ r.cur = q.cur /\ (r.ok => q.ok) /\ (q.ok => r.ok) /\ ConfMap(r.conf) = Map!Merge(m, ConfMap(q.conf))
      /\ r.conf \in Confs /\ q.conf \in Confs /\ r.cur \in Keys(r.conf.secs) /\ q.cur \in Keys(q.conf.secs)
  BY ReadStateIs DEF SameReading
<1>2. CASE ~r.ok
  <2>1. a = r /\ b = q
    BY <1>1, <1>2, ReadLineFailed
  <2> QED
    BY <2>1
<1>3. ASSUME NEW s \in Names, r.ok, l = SecLine(s) PROVE SameReading(a, b, m)
  <2>1. a.conf = Added(r.conf, s) /\ a.cur = s /\ a.ok /\ b.conf = Added(q.conf, s) /\ b.cur = s /\ b.ok
    BY <1>1, <1>3, ReadLineSection
  <2>2. ConfMap(a.conf) = Map!With(ConfMap(r.conf), s, Map!None) /\ ConfMap(b.conf) = Map!With(ConfMap(q.conf), s, Map!None)
    BY <1>1, <2>1, AddedIs
  <2>3. Map!With(ConfMap(r.conf), s, Map!None) = Map!Merge(m, Map!With(ConfMap(q.conf), s, Map!None))
    BY <1>1, WithMerge
  <2> QED
    BY <2>1, <2>2, <2>3 DEF SameReading
<1>4. ASSUME NEW k \in Options, NEW v \in Values, r.ok, l = SetLine(k, v) PROVE SameReading(a, b, m)
  <2>1. /\ a.conf = SetIn(r.conf, r.cur, k, v) /\ a.cur = r.cur /\ a.ok
        /\ b.conf = SetIn(q.conf, q.cur, k, v) /\ b.cur = q.cur /\ b.ok
    BY <1>1, <1>4, ReadLineSetting
  <2>2. /\ ConfMap(a.conf) = Map!With(ConfMap(r.conf), r.cur, One(k, v))
        /\ ConfMap(b.conf) = Map!With(ConfMap(q.conf), r.cur, One(k, v))
    BY <1>1, <2>1, SetInIs
  <2>3. Map!With(ConfMap(r.conf), r.cur, One(k, v)) = Map!Merge(m, Map!With(ConfMap(q.conf), r.cur, One(k, v)))
    BY <1>1, WithMerge
  <2> QED
    BY <1>1, <2>1, <2>2, <2>3 DEF SameReading
<1>5. ASSUME r.ok, l = BadLine PROVE SameReading(a, b, m)
  <2>1. a.conf = r.conf /\ a.cur = r.cur /\ ~a.ok /\ b.conf = q.conf /\ b.cur = q.cur /\ ~b.ok
    BY <1>1, <1>5, ReadLineBad
  <2> QED
    BY <1>1, <2>1 DEF SameReading
<1> QED
  BY <1>2, <1>3, <1>4, <1>5, LineIs

LEMMA ReadFromIs ==
    ASSUME NEW c \in Confs, NEW lines \in Seq(Lines)
    PROVE  /\ ReadFrom(c, lines).conf \in Confs
           /\ \/ ConfMap(ReadFrom(c, lines).conf) = ConfMap(c)
              \/ ConfMap(ReadFrom(c, lines).conf) = Map!Merge(ConfMap(c), FileMap(lines))
<1>1. CASE Has(c.secs, Default)
  <2>1. ReadFrom(c, lines) = [conf |-> c, cur |-> Default, ok |-> FALSE]
    BY <1>1 DEF ReadFrom
  <2>2. ReadFrom(c, lines).conf = c
    BY <2>1
  <2> QED
    BY <2>2
<1>2. CASE ~Has(c.secs, Default)
  <2> DEFINE N == Len(lines)
             m == ConfMap(c)
  <2>1. N \in Nat /\ \A n \in 1..N : lines[n] \in Lines
    BY LenProperties
  <2>2. PICK f : ReadTurns(f, c, lines)
    BY <1>2, ReadMade
  <2>3. PICK g : ReadTurns(g, NewConf, lines)
    BY NewConfIs, ReadMade
  <2>4. /\ f[0] = ReadStart(c) /\ (\A n \in 0..N : f[n] \in ReadStates) /\ f[N] = ReadFrom(c, lines)
        /\ \A n \in 1..N : f[n] = ReadLine(f[n - 1], lines[n])
    BY <2>2 DEF ReadTurns
  <2>5. /\ g[0] = ReadStart(NewConf) /\ (\A n \in 0..N : g[n] \in ReadStates) /\ g[N] = ReadFrom(NewConf, lines)
        /\ \A n \in 1..N : g[n] = ReadLine(g[n - 1], lines[n])
    BY <2>3 DEF ReadTurns
  <2> DEFINE S == {n \in 0..N : SameReading(f[n], g[n], m)}
  <2>6. 0 \in S
    BY <2>1, <2>4, <2>5, SameStart
  <2> HIDE DEF N, m
  <2>7. ASSUME NEW n \in 0..N - 1, n \in S PROVE n + 1 \in S
    <3>1. n + 1 \in 1..N /\ n + 1 \in 0..N /\ n \in 0..N /\ (n + 1) - 1 = n
      BY <2>1
    <3>2. f[n] \in ReadStates /\ g[n] \in ReadStates /\ SameReading(f[n], g[n], m) /\ lines[n + 1] \in Lines
      BY <2>1, <2>4, <2>5, <2>7, <3>1
    <3>3. f[n + 1] = ReadLine(f[n], lines[n + 1]) /\ g[n + 1] = ReadLine(g[n], lines[n + 1])
      BY <2>4, <2>5, <3>1
    <3>4. SameReading(ReadLine(f[n], lines[n + 1]), ReadLine(g[n], lines[n + 1]), m)
      BY <3>2, SameLine
    <3> QED
      BY <3>1, <3>3, <3>4
  <2>8. SameReading(f[N], g[N], m)
    <3> HIDE DEF S
    <3>1. \A n \in 0..N : n \in S
      BY <2>1, <2>6, <2>7, Turns
    <3>2. N \in S
      BY <2>1, <3>1
    <3> QED
      BY <3>2 DEF S
  <2>9. ConfMap(ReadFrom(c, lines).conf) = Map!Merge(m, FileMap(lines))
    BY <2>4, <2>5, <2>8 DEF SameReading, FileMap
  <2>10. ReadFrom(c, lines).conf \in Confs
    <3>1. N \in 0..N
      BY <2>1
    <3> QED
      BY <2>4, <3>1, ReadStateIs
  <2> QED
    BY <2>9, <2>10 DEF m
<1> QED
  BY <1>1, <1>2

-----------------------------------------------------------------------------
(* Writing: what is written is read again.                                  *)

\* The lines of a section, after the first a lines.
SectionAt(lines, a, sec) ==
    /\ lines[a + 1] = SecLine(sec.key)
    /\ \A j \in 1..Len(sec.items) : lines[a + 1 + j] = SetLine(sec.items[j].key, sec.items[j].val)

\* a[n] is the number of lines of the first n sections.
Layout(a, lines, secs) ==
    /\ lines \in Seq(Lines) /\ a[0] = 0 /\ a[Len(secs)] = Len(lines)
    /\ \A n \in 0..Len(secs) : a[n] \in 0..Len(lines)
    /\ \A n \in 1..Len(secs) :
          a[n] = a[n - 1] + 1 + Len(secs[n].items) /\ SectionAt(lines, a[n - 1], secs[n])

LEMMA SectionLinesIs ==
    ASSUME NEW sec \in Sections, NEW lines, lines = SectionLines(sec)
    PROVE  /\ lines \in Seq(Lines) /\ Len(lines) = Len(sec.items) + 1
           /\ SectionAt(lines, 0, sec)
<1> DEFINE items == sec.items
           N == Len(items)
<1>1. items \in Seq(Item) /\ sec.key \in Names
  BY DEF Sections
<1>2. N \in Nat /\ \A j \in 1..N : items[j] \in Item
  BY <1>1, LenProperties
<1>3. \A j \in 1..N : items[j].key \in Options /\ items[j].val \in Values
  BY <1>2 DEF Item
<1>4. lines = [j \in 1..N + 1 |-> IF j = 1 THEN SecLine(sec.key) ELSE SetLine(items[j - 1].key, items[j - 1].val)]
  BY DEF SectionLines
<1> HIDE DEF items, N
<1>5. SecLine(sec.key) \in Lines /\ \A j \in 1..N : SetLine(items[j].key, items[j].val) \in Lines
  BY <1>1, <1>3 DEF Lines
<1>6. \A j \in 1..N + 1 : j # 1 => j - 1 \in 1..N
  BY <1>2
<1>7. \A j \in 1..N + 1 : lines[j] \in Lines
  BY <1>4, <1>5, <1>6
<1>8. lines \in [1..N + 1 -> Lines]
  BY <1>4, <1>7
<1>9. lines \in Seq(Lines) /\ Len(lines) = N + 1
  BY <1>2, <1>8
<1>10. lines[0 + 1] = SecLine(sec.key)
  BY <1>2, <1>4
<1>11. \A j \in 1..N : lines[0 + 1 + j] = SetLine(items[j].key, items[j].val)
  <2> SUFFICES ASSUME NEW j \in 1..N PROVE lines[0 + 1 + j] = SetLine(items[j].key, items[j].val)
    OBVIOUS
  <2>1. 0 + 1 + j = j + 1 /\ j + 1 \in 1..N + 1 /\ j + 1 # 1 /\ (j + 1) - 1 = j
    BY <1>2
  <2> QED
    BY <1>4, <2>1
<1> QED
  BY <1>9, <1>10, <1>11 DEF SectionAt, items, N

\* w[n] is what is written after n sections.
WriteTurns(w, c, secs) ==
    /\ w[0] = <<>> /\ (\A n \in 0..Len(secs) : w[n] \in Seq(Lines)) /\ w[Len(secs)] = Written(c)
    /\ \A n \in 1..Len(secs) : w[n] = w[n - 1] \o SectionLines(secs[n])

LEMMA WriteMade ==
    ASSUME NEW c \in Confs, NEW secs, secs = c.secs
    PROVE  \E w : WriteTurns(w, c, secs)
<1> DEFINE N == Len(secs)
           step == [n \in 1..N |-> [l \in Seq(Lines) |-> l \o SectionLines(secs[n])]]
<1>1. N \in Nat /\ \A n \in 1..N : secs[n] \in Sections
  <2>1. secs \in Seq(Sections)
    BY DEF Confs
  <2> QED
    BY <2>1, LenProperties
<1>2. \A n \in 1..N : SectionLines(secs[n]) \in Seq(Lines)
  BY <1>1, SectionLinesIs
<1>3. \A n \in 1..N, l \in Seq(Lines) : l \o SectionLines(secs[n]) \in Seq(Lines)
  <2> SUFFICES ASSUME NEW n \in 1..N, NEW l \in Seq(Lines) PROVE l \o SectionLines(secs[n]) \in Seq(Lines)
    OBVIOUS
  <2> QED
    BY <1>2, ConcatProperties
<1>4. \A n \in 1..N, l \in Seq(Lines) : step[n][l] \in Seq(Lines) /\ step[n][l] = l \o SectionLines(secs[n])
  BY <1>3
<1>5. <<>> \in Seq(Lines)
  OBVIOUS
<1> DEFINE Is(f) == f = [n \in 0..N |-> IF n = 0 THEN <<>> ELSE f[n - 1] \o SectionLines(secs[n])]
<1>6. \E f : Is(f)
  <2> HIDE DEF step, N
  <2>1. Steps(step, N, Seq(Lines))
    BY <1>4 DEF Steps
  <2>2. PICK f : Looped(f, step, N, Seq(Lines), <<>>)
    BY <1>1, <1>5, <2>1, LoopMakes
  <2>3. f[0] = <<>> /\ (\A n \in 0..N : f[n] \in Seq(Lines)) /\ \A n \in 1..N : f[n] = step[n][f[n - 1]]
    BY <2>2 DEF Looped
  <2>4. \A n \in 1..N : n - 1 \in 0..N
    BY <1>1
  <2>5. \A n \in 1..N : f[n] = f[n - 1] \o SectionLines(secs[n])
    BY <1>4, <2>3, <2>4
  <2> DEFINE g == [n \in 0..N |-> f[n]]
  <2>6. \A n \in 0..N : n # 0 => n \in 1..N
    BY <1>1
  <2>7. \A n \in 0..N : f[n] = IF n = 0 THEN <<>> ELSE g[n - 1] \o SectionLines(secs[n])
    <3>1. \A n \in 1..N : g[n - 1] = f[n - 1]
      BY <2>4
    <3> HIDE DEF g
    <3> QED
      BY <2>3, <2>5, <2>6, <3>1
  <2>8. Is(g)
    BY <2>7
  <2> QED
    BY <2>8
<1> DEFINE made == CHOOSE f : Is(f)
<1>7. Written(c) = made[N]
  BY DEF Written
<1>8. Is(made)
  <2> HIDE DEF Is
  <2> QED
    BY <1>6
<1> HIDE DEF made, step
<1>9. made[0] = <<>> /\ \A n \in 1..N : made[n] = made[n - 1] \o SectionLines(secs[n])
  <2>1. 0 \in 0..N /\ \A n \in 1..N : n \in 0..N /\ n # 0
    BY <1>1
  <2> HIDE DEF N
  <2> QED
    BY <1>8, <2>1
<1>10. \A n \in 0..N : made[n] \in Seq(Lines)
  <2> DEFINE S == {n \in 0..N : made[n] \in Seq(Lines)}
  <2>1. 0 \in S
    <3>1. made[0] = <<>>
      BY <1>9
    <3>2. made[0] \in Seq(Lines)
      BY <1>5, <3>1
    <3>3. 0 \in 0..N
      BY <1>1
    <3> QED
      BY <3>2, <3>3
  <2>2. \A n \in 0..N - 1 : n \in S => n + 1 \in S
    <3> SUFFICES ASSUME NEW n \in 0..N - 1, n \in S PROVE n + 1 \in S
      OBVIOUS
    <3> HIDE DEF N
    <3>1. n + 1 \in 1..N /\ n + 1 \in 0..N /\ (n + 1) - 1 = n
      BY <1>1
    <3> QED
      BY <1>3, <1>9, <3>1
  <2> HIDE DEF S
  <2>3. \A n \in 0..N : n \in S
    BY <1>1, <2>1, <2>2, Turns
  <2> QED
    BY <2>3 DEF S
<1>11. WriteTurns(made, c, secs)
  BY <1>7, <1>9, <1>10 DEF WriteTurns
<1> QED
  BY <1>11

\* A name, for the provers, of one concatenation.
Joins(w, u, v) == w = u \o v

LEMMA Joined ==
    ASSUME NEW T, NEW u \in Seq(T), NEW v \in Seq(T), NEW w, Joins(w, u, v)
    PROVE  /\ w \in Seq(T) /\ Len(w) = Len(u) + Len(v)
           /\ \A i \in 1..Len(u) : w[i] = u[i]
           /\ \A i \in 1..Len(v) : w[Len(u) + i] = v[i]
<1>1. Len(u) \in Nat /\ Len(v) \in Nat
  BY LenProperties
<1>2. w \in Seq(T) /\ Len(w) = Len(u) + Len(v)
  BY ConcatProperties DEF Joins
<1>3. \A i \in 1..Len(u) + Len(v) : w[i] = IF i <= Len(u) THEN u[i] ELSE v[i - Len(u)]
  BY ConcatProperties DEF Joins
<1>4. \A i \in 1..Len(u) : w[i] = u[i]
  BY <1>1, <1>3
<1>5. ASSUME NEW i \in 1..Len(v) PROVE w[Len(u) + i] = v[i]
  <2>1. Len(u) + i \in 1..Len(u) + Len(v) /\ ~(Len(u) + i <= Len(u)) /\ (Len(u) + i) - Len(u) = i
    BY <1>1
  <2> QED
    BY <1>3, <2>1
<1> QED
  BY <1>2, <1>4, <1>5

LEMMA WrittenLayout ==
    ASSUME NEW c \in Confs, NEW secs, secs = c.secs
    PROVE  \E a : Layout(a, Written(c), secs)
<1> DEFINE N == Len(secs)
           whole == Written(c)
<1>1. N \in Nat /\ \A n \in 1..N : secs[n] \in Sections
  <2>1. secs \in Seq(Sections)
    BY DEF Confs
  <2> QED
    BY <2>1, LenProperties
<1>2. PICK w : WriteTurns(w, c, secs)
  BY WriteMade
<1>3. /\ w[0] = <<>> /\ (\A n \in 0..N : w[n] \in Seq(Lines)) /\ w[N] = whole
      /\ \A n \in 1..N : w[n] = w[n - 1] \o SectionLines(secs[n])
  BY <1>2 DEF WriteTurns
<1> HIDE DEF N, whole
<1>4. \A n \in 0..N : Len(w[n]) \in Nat
  BY <1>3, LenProperties
<1>5. ASSUME NEW n \in 1..N
      PROVE  /\ Len(w[n]) = Len(w[n - 1]) + 1 + Len(secs[n].items)
             /\ \A i \in 1..Len(w[n - 1]) : w[n][i] = w[n - 1][i]
             /\ SectionAt(w[n], Len(w[n - 1]), secs[n])
  <2> DEFINE u == w[n - 1]
             sec == secs[n]
             v == SectionLines(sec)
             K == Len(sec.items)
  <2>1. n - 1 \in 0..N /\ sec \in Sections /\ u \in Seq(Lines)
    BY <1>1, <1>3
  <2>2. v \in Seq(Lines) /\ Len(v) = K + 1 /\ SectionAt(v, 0, sec)
    BY <2>1, SectionLinesIs
  <2>3. Joins(w[n], u, v)
    BY <1>3 DEF Joins
  <2>4. K \in Nat /\ Len(u) \in Nat
    <3>1. sec.items \in Seq(Item)
      BY <2>1 DEF Sections
    <3> QED
      BY <2>1, <3>1, LenProperties
  <2>5. v[0 + 1] = SecLine(sec.key) /\ \A j \in 1..K : v[0 + 1 + j] = SetLine(sec.items[j].key, sec.items[j].val)
    BY <2>2 DEF SectionAt
  <2> HIDE DEF v, u, sec
  <2>6. /\ Len(w[n]) = Len(u) + Len(v) /\ (\A i \in 1..Len(u) : w[n][i] = u[i])
        /\ \A i \in 1..Len(v) : w[n][Len(u) + i] = v[i]
    <3> DEFINE new == w[n]
    <3>1. u \in Seq(Lines) /\ v \in Seq(Lines) /\ Joins(new, u, v)
      BY <2>1, <2>2, <2>3
    <3> HIDE DEF new
    <3>2. /\ Len(new) = Len(u) + Len(v) /\ (\A i \in 1..Len(u) : new[i] = u[i])
          /\ \A i \in 1..Len(v) : new[Len(u) + i] = v[i]
      BY <3>1, Joined
    <3> QED
      BY <3>2 DEF new
  <2> HIDE DEF K
  <2>7. Len(w[n]) = Len(u) + 1 + K
    BY <2>2, <2>4, <2>6
  <2>8. w[n][Len(u) + 1] = SecLine(sec.key)
    BY <2>2, <2>4, <2>5, <2>6
  <2>9. \A j \in 1..K : w[n][Len(u) + 1 + j] = SetLine(sec.items[j].key, sec.items[j].val)
    <3> SUFFICES ASSUME NEW j \in 1..K PROVE w[n][Len(u) + 1 + j] = SetLine(sec.items[j].key, sec.items[j].val)
      OBVIOUS
    <3>1. 0 + 1 + j \in 1..Len(v) /\ Len(u) + (0 + 1 + j) = Len(u) + 1 + j
      BY <2>2, <2>4
    <3> QED
      BY <2>5, <2>6, <3>1
  <2>10. SectionAt(w[n], Len(u), sec)
    BY <2>8, <2>9 DEF SectionAt, K
  <2> QED
    BY <2>6, <2>7, <2>10 DEF u, sec, K
<1> DEFINE Prefix(n) == Len(w[n]) <= Len(whole) /\ \A i \in 1..Len(w[n]) : whole[i] = w[n][i]
<1>6. \A n \in 0..N : Prefix(n)
  <2> SUFFICES ASSUME NEW n \in 0..N PROVE Prefix(n)
    OBVIOUS
  <2> DEFINE Before(m) == Len(w[n]) <= Len(w[m]) /\ \A i \in 1..Len(w[n]) : w[m][i] = w[n][i]
             S == {m \in 0..N : n <= m => Before(m)}
  <2>1. 0 \in S
    <3>1. 0 \in 0..N /\ (n <= 0 => n = 0)
      BY <1>1
    <3>2. Len(w[0]) <= Len(w[0])
      BY <1>4, <3>1
    <3> QED
      BY <3>1, <3>2
  <2>2. ASSUME NEW m \in 0..N - 1, m \in S PROVE m + 1 \in S
    <3>1. m + 1 \in 1..N /\ m + 1 \in 0..N /\ m \in 0..N /\ (m + 1) - 1 = m
      BY <1>1
    <3>2. Len(w[m + 1]) \in Nat /\ Len(w[m]) \in Nat /\ Len(w[n]) \in Nat
      BY <1>4, <3>1
    <3>3. CASE n <= m
      <4>1. Before(m)
        BY <2>2, <3>3
      <4>2. /\ Len(w[m + 1]) = Len(w[m]) + 1 + Len(secs[m + 1].items)
            /\ \A i \in 1..Len(w[m]) : w[m + 1][i] = w[m][i]
        BY <1>5, <3>1
      <4>3. Len(secs[m + 1].items) \in Nat
        <5>1. secs[m + 1].items \in Seq(Item)
          BY <1>1, <3>1 DEF Sections
        <5> QED
          BY <5>1, LenProperties
      <4>4. Len(w[n]) <= Len(w[m + 1])
        <5> DEFINE x == Len(w[n])
                   y == Len(w[m])
                   z == Len(w[m + 1])
                   k == Len(secs[m + 1].items)
        <5>1. x \in Nat /\ y \in Nat /\ z \in Nat /\ k \in Nat /\ x <= y /\ z = y + 1 + k
          BY <3>2, <4>1, <4>2, <4>3
        <5> HIDE DEF x, y, z, k
        <5>2. x <= z
          BY <5>1
        <5> QED
          BY <5>2 DEF x, z
      <4>5. \A i \in 1..Len(w[n]) : i \in 1..Len(w[m])
        BY <3>2, <4>1
      <4>6. \A i \in 1..Len(w[n]) : w[m + 1][i] = w[n][i]
        BY <4>1, <4>2, <4>5
      <4> QED
        BY <3>1, <4>4, <4>6
    <3>4. CASE ~(n <= m)
      <4>1. n <= m + 1 => n = m + 1
        BY <1>1, <3>4
      <4>2. Len(w[n]) <= Len(w[n])
        BY <3>2
      <4> QED
        BY <3>1, <4>1, <4>2
    <3> QED
      BY <3>3, <3>4
  <2>3. N \in S
    <3> HIDE DEF S
    <3>1. \A m \in 0..N : m \in S
      BY <1>1, <2>1, <2>2, Turns
    <3> QED
      BY <1>1, <3>1
  <2>4. n <= N
    BY <1>1
  <2> QED
    BY <1>3, <2>3, <2>4
<1> DEFINE a == [n \in 0..N |-> Len(w[n])]
<1>7. \A n \in 0..N : a[n] \in 0..Len(whole)
  <2>1. Len(whole) \in Nat
    BY <1>1, <1>3, <1>4
  <2> QED
    BY <1>4, <1>6, <2>1
<1>8. ASSUME NEW n \in 1..N
      PROVE  a[n] = a[n - 1] + 1 + Len(secs[n].items) /\ SectionAt(whole, a[n - 1], secs[n])
  <2>1. n \in 0..N /\ n - 1 \in 0..N
    BY <1>1
  <2>2. a[n] = Len(w[n]) /\ a[n - 1] = Len(w[n - 1])
    BY <2>1
  <2> DEFINE b == a[n - 1]
             sec == secs[n]
             K == Len(sec.items)
  <2>3. Len(w[n]) = b + 1 + K /\ SectionAt(w[n], b, sec)
    BY <1>5, <2>2
  <2>4. b \in Nat /\ K \in Nat
    <3>1. sec.items \in Seq(Item)
      BY <1>1 DEF Sections
    <3> QED
      BY <1>4, <2>1, <2>2, <3>1, LenProperties
  <2>5. Prefix(n)
    BY <1>6, <2>1
  <2> HIDE DEF a, b, sec
  <2>6. w[n][b + 1] = SecLine(sec.key) /\ \A j \in 1..K : w[n][b + 1 + j] = SetLine(sec.items[j].key, sec.items[j].val)
    BY <2>3 DEF SectionAt
  <2> HIDE DEF K
  <2>7. b + 1 \in 1..Len(w[n]) /\ \A j \in 1..K : b + 1 + j \in 1..Len(w[n])
    BY <2>3, <2>4
  <2>8. whole[b + 1] = SecLine(sec.key)
    BY <2>5, <2>6, <2>7
  <2>9. \A j \in 1..K : whole[b + 1 + j] = SetLine(sec.items[j].key, sec.items[j].val)
    BY <2>5, <2>6, <2>7
  <2>10. SectionAt(whole, b, sec)
    BY <2>8, <2>9 DEF SectionAt, K
  <2> QED
    BY <2>2, <2>3, <2>10 DEF b, sec, K
<1>9. a[0] = 0 /\ a[N] = Len(whole) /\ whole \in Seq(Lines)
  <2>1. 0 \in 0..N /\ N \in 0..N
    BY <1>1
  <2>2. Len(w[0]) = 0
    BY <1>3
  <2> QED
    BY <1>3, <2>1, <2>2
<1> HIDE DEF a
<1>10. Layout(a, whole, secs)
  BY <1>7, <1>8, <1>9 DEF Layout, N
<1> QED
  BY <1>10 DEF whole

\* From line a to line N, f[n] is what there is after n lines.
Reading(f, lines, a, N) ==
    (\A n \in a..N : f[n] \in ReadStates) /\ \A n \in a + 1..N : f[n] = ReadLine(f[n - 1], lines[n])

\* A name, for the provers, of the number of items.
Sized(sec, K) == Len(sec.items) = K

\* Reading the lines of a section sets what it says.
LEMMA ReadSectionLines ==
    ASSUME NEW f, NEW lines, NEW a \in Nat, NEW sec \in Sections, SectionAt(lines, a, sec),
           NEW K \in Nat, Sized(sec, K), NEW N \in Nat, N = a + 1 + K,
           Reading(f, lines, a, N), f[a].ok
    PROVE  f[N].ok /\ ConfMap(f[N].conf) = Map!With(ConfMap(f[a].conf), sec.key, ItemMap(sec.items))
<1> DEFINE items == sec.items
           s == sec.key
           m == ConfMap(f[a].conf)
<1>1. items \in Seq(Item) /\ Unique(items) /\ s \in Names /\ Len(items) = K
  BY DEF Sections, Sized
<1>2. K \in Nat /\ \A j \in 1..K : items[j].key \in Options /\ items[j].val \in Values
  <2>1. \A j \in 1..K : items[j] \in Item
    BY <1>1, LenProperties
  <2> QED
    BY <1>1, <2>1, LenProperties DEF Item
<1>3. lines[a + 1] = SecLine(s) /\ \A j \in 1..K : lines[a + 1 + j] = SetLine(items[j].key, items[j].val)
  <2>1. lines[a + 1] = SecLine(s) /\ \A j \in 1..Len(items) : lines[a + 1 + j] = SetLine(items[j].key, items[j].val)
    BY DEF SectionAt
  <2> HIDE DEF items
  <2> QED
    BY <1>1, <2>1
<1>4. /\ ItemsTo(items, 0) = Map!None /\ ItemsTo(items, K) = ItemMap(items)
      /\ \A n \in 1..K : ItemsTo(items, n) = Map!Onto(One(items[n].key, items[n].val), ItemsTo(items, n - 1))
  BY <1>1, ItemsToIs
<1>5. (\A n \in a..N : f[n] \in ReadStates) /\ \A n \in a + 1..N : f[n] = ReadLine(f[n - 1], lines[n])
  BY DEF Reading
<1> HIDE DEF items, s, m
<1> DEFINE r(j) == f[a + 1 + j]
           Good(j) == r(j).ok /\ r(j).cur = s /\ ConfMap(r(j).conf) = Map!With(m, s, ItemsTo(items, j))
           S == {j \in 0..K : Good(j)}
<1>6. 0 \in S
  <2>1. K \in Nat
    BY <1>2
  <2>2. a + 1 + 0 = a + 1 /\ a + 1 \in a + 1..N /\ a \in a..N /\ (a + 1) - 1 = a
    <3>1. a + 1 + 0 = a + 1 /\ (a + 1) - 1 = a
      OBVIOUS
    <3>2. a + 1 \in a + 1..N
      OBVIOUS
    <3>3. a \in a..N
      OBVIOUS
    <3> QED
      BY <3>1, <3>2, <3>3
  <2>3. r(0) = ReadLine(f[a], SecLine(s)) /\ f[a] \in ReadStates /\ f[a].conf \in Confs
    BY <1>3, <1>5, <2>2, ReadStateIs
  <2> HIDE DEF r
  <2>4. r(0).conf = Added(f[a].conf, s) /\ r(0).cur = s /\ r(0).ok
    BY <1>1, <2>3, ReadLineSection
  <2>5. ConfMap(r(0).conf) = Map!With(m, s, Map!None)
    BY <1>1, <2>3, <2>4, AddedIs DEF m
  <2> QED
    BY <1>2, <1>4, <2>4, <2>5
<1>7. ASSUME NEW j \in 0..K - 1, j \in S PROVE j + 1 \in S
  <2>1. /\ j + 1 \in 1..K /\ j + 1 \in 0..K /\ (j + 1) - 1 = j
        /\ a + 1 + (j + 1) \in a + 1..N /\ a + 1 + j \in a..N /\ (a + 1 + (j + 1)) - 1 = a + 1 + j
    BY <1>2
  <2> DEFINE k == items[j + 1].key
             v == items[j + 1].val
             q == r(j)
             new == r(j + 1)
             w == ConfMap(q.conf)
             x == ItemsTo(items, j)
  <2>2. new = ReadLine(q, SetLine(k, v)) /\ q \in ReadStates
    BY <1>3, <1>5, <2>1
  <2>3. q.ok /\ q.cur = s /\ w = Map!With(m, s, x)
    BY <1>7
  <2>4. k \in Options /\ v \in Values
    BY <1>2, <2>1
  <2>5. ItemsTo(items, j + 1) = Map!Onto(One(k, v), x)
    BY <1>4, <2>1
  <2> HIDE DEF k, v, q, new, x, r
  <2>6. new.conf = SetIn(q.conf, s, k, v) /\ new.cur = s /\ new.ok
    BY <2>2, <2>3, <2>4, ReadLineSetting
  <2>7. q.conf \in Confs /\ s \in Keys(q.conf.secs)
    BY <2>2, <2>3, ReadStateIs
  <2>8. ConfMap(new.conf) = Map!With(w, s, One(k, v))
    BY <2>4, <2>6, <2>7, SetInIs
  <2> HIDE DEF w
  <2>9. Map!With(w, s, One(k, v)) = Map!With(m, s, Map!Onto(One(k, v), x))
    BY <2>3, WithTwice
  <2>10. Good(j + 1)
    BY <2>5, <2>6, <2>8, <2>9 DEF new
  <2> HIDE DEF Good
  <2> QED
    BY <2>1, <2>10
<1>8. K \in S
  <2> HIDE DEF S
  <2>1. \A j \in 0..K : j \in S
    BY <1>2, <1>6, <1>7, Turns
  <2> QED
    BY <1>2, <2>1
<1>9. Good(K) /\ r(K) = f[N]
  BY <1>8
<1> QED
  BY <1>4, <1>9 DEF items, s, m

LEMMA PassIs ==
    ASSUME NEW d \in Confs, NEW r, r = ReadFrom(NewConf, Written(d))
    PROVE  r.conf \in Confs /\ ConfMap(r.conf) = Map!With(ConfMap(d), Default, Map!None)
<1> SUFFICES ASSUME NEW secs, secs = d.secs, NEW lines, lines = Written(d),
                    NEW none, none = Map!None, NEW base, base = Map!With(none, Default, none)
             PROVE  r.conf \in Confs /\ ConfMap(r.conf) = Map!With(ConfMap(d), Default, none)
  OBVIOUS
<1> DEFINE N == Len(secs)
           L == Len(lines)
<1>1. N \in Nat /\ \A n \in 1..N : secs[n] \in Sections
  <2>1. secs \in Seq(Sections)
    BY DEF Confs
  <2> QED
    BY <2>1, LenProperties
<1>2. PICK a : Layout(a, lines, secs)
  BY WrittenLayout
<1>3. /\ lines \in Seq(Lines) /\ a[0] = 0 /\ a[N] = L /\ (\A n \in 0..N : a[n] \in 0..L)
      /\ \A n \in 1..N : a[n] = a[n - 1] + 1 + Len(secs[n].items) /\ SectionAt(lines, a[n - 1], secs[n])
  BY <1>2 DEF Layout
<1>4. L \in Nat
  BY <1>3, LenProperties
<1>5. PICK f : ReadTurns(f, NewConf, lines)
  BY <1>3, NewConfIs, ReadMade
<1>6. /\ f[0] = ReadStart(NewConf) /\ (\A n \in 0..L : f[n] \in ReadStates) /\ f[L] = r
      /\ \A n \in 1..L : f[n] = ReadLine(f[n - 1], lines[n])
  BY <1>5 DEF ReadTurns
<1>7. /\ SectionsTo(secs, 0) = none /\ SectionsTo(secs, N) = ConfMap(d)
      /\ \A n \in 1..N : SectionsTo(secs, n) = Map!With(SectionsTo(secs, n - 1), secs[n].key, ItemMap(secs[n].items))
  BY SectionsToIs
<1> HIDE DEF N, L
<1> DEFINE Good(n) == f[a[n]].ok /\ ConfMap(f[a[n]].conf) = Map!Merge(base, SectionsTo(secs, n))
           S == {n \in 0..N : Good(n)}
<1>8. 0 \in S
  <2>1. f[0].ok /\ ConfMap(f[0].conf) = base
    BY <1>6, NewConfIs, ReadStartIs
  <2>2. Map!Merge(base, none) = base
    <3>1. Mapping(base)
      BY <2>1, ConfMapping
    <3> QED
      BY <3>1, MergeNone
  <2> QED
    BY <1>1, <1>3, <1>7, <2>1, <2>2
<1>9. ASSUME NEW n \in 0..N - 1, n \in S PROVE n + 1 \in S
  <2>1. n + 1 \in 1..N /\ n + 1 \in 0..N /\ n \in 0..N /\ (n + 1) - 1 = n
    BY <1>1
  <2> DEFINE b == a[n]
             e == a[n + 1]
             sec == secs[n + 1]
             s == sec.key
             x == ItemMap(sec.items)
             g == ConfMap(f[b].conf)
             p == SectionsTo(secs, n)
             w == SectionsTo(secs, n + 1)
  <2>2. sec \in Sections /\ b \in 0..L /\ e \in 0..L /\ e = b + 1 + Len(sec.items) /\ SectionAt(lines, b, sec)
    BY <1>1, <1>3, <2>1
  <2>3. f[b].ok /\ g = Map!Merge(base, p)
    BY <1>9
  <2>4. w = Map!With(p, s, x)
    BY <1>7, <2>1
  <2> HIDE DEF b, e, sec, p, w
  <2> DEFINE K == Len(sec.items)
  <2>5. b \in 0..L /\ e \in 0..L /\ e = b + 1 + K
    BY <2>2
  <2> HIDE DEF K
  <2>6. b \in Nat /\ e \in Nat /\ \A i \in b..e : i \in 0..L
    BY <1>4, <2>5
  <2>7. \A i \in b + 1..e : i \in 1..L
    BY <1>4, <2>5
  <2>8. f[e].ok /\ ConfMap(f[e].conf) = Map!With(g, s, x)
    <3>1. \A i \in b..e : f[i] \in ReadStates
      BY <1>6, <2>6
    <3>2. \A i \in b + 1..e : f[i] = ReadLine(f[i - 1], lines[i])
      BY <1>6, <2>7
    <3>3. Sized(sec, K) /\ Reading(f, lines, b, e)
      BY <3>1, <3>2 DEF K, Reading, Sized
    <3>4. K \in Nat
      <4>1. sec.items \in Seq(Item)
        BY <2>2 DEF Sections
      <4> QED
        BY <4>1, LenProperties DEF K
    <3>5. b \in Nat /\ e \in Nat /\ e = b + 1 + K /\ sec \in Sections /\ SectionAt(lines, b, sec) /\ f[b].ok
      BY <2>2, <2>3, <2>6, <2>5
    <3> HIDE DEF s, x, g
    <3>6. f[e].ok /\ ConfMap(f[e].conf) = Map!With(ConfMap(f[b].conf), sec.key, ItemMap(sec.items))
      BY <3>3, <3>5, <3>4, ReadSectionLines
    <3> QED
      BY <3>6 DEF g, s, x
  <2> HIDE DEF s, x, g
  <2>9. Map!With(g, s, x) = Map!Merge(base, w)
    BY <2>3, <2>4, WithMerge
  <2>10. Good(n + 1)
    BY <2>8, <2>9 DEF e, w
  <2> HIDE DEF Good
  <2> QED
    BY <2>1, <2>10
<1>10. N \in S
  <2> HIDE DEF S
  <2>1. \A n \in 0..N : n \in S
    BY <1>1, <1>8, <1>9, Turns
  <2> QED
    BY <1>1, <2>1
<1>11. ConfMap(r.conf) = Map!Merge(base, ConfMap(d))
  BY <1>3, <1>6, <1>7, <1>10
<1>12. Map!Merge(base, ConfMap(d)) = Map!With(ConfMap(d), Default, none)
  BY ConfMapping, MergeEmptySection
<1>13. r.conf \in Confs
  <2>1. L \in 0..L
    BY <1>4
  <2>2. r \in ReadStates
    BY <1>6, <2>1
  <2> QED
    BY <2>2, ReadStateIs
<1> QED
  BY <1>11, <1>12, <1>13

-----------------------------------------------------------------------------
(* Removing.                                                               *)

LEMMA WithoutIs ==
    ASSUME NEW f, NEW k, NEW w, w = Map!Without(f, k)
    PROVE  /\ IsFcn(w) /\ (\A x : x \in DOMAIN w <=> x \in DOMAIN f /\ x # k)
           /\ \A x \in DOMAIN w : w[x] = f[x]
<1>1. w = [x \in DOMAIN f \ {k} |-> f[x]]
  BY DEF Map!Without
<1> QED
  BY <1>1 DEF IsFcn

LEMMA WithoutNothing ==
    ASSUME NEW f, IsFcn(f), NEW k, k \notin DOMAIN f
    PROVE  Map!Without(f, k) = f
<1> SUFFICES ASSUME NEW w, w = Map!Without(f, k) PROVE w = f
  OBVIOUS
<1>1. /\ IsFcn(w) /\ (\A x : x \in DOMAIN w <=> x \in DOMAIN f /\ x # k)
      /\ \A x \in DOMAIN w : w[x] = f[x]
  BY WithoutIs
<1>2. \A x : x \in DOMAIN w <=> x \in DOMAIN f
  BY <1>1
<1> QED
  BY <1>1, <1>2, SameFcn

LEMMA VacatedItems ==
    ASSUME NEW sec \in Sections, NEW k, Has(sec.items, k), NEW t, t = Vacate(sec.items, Pos(sec.items, k))
    PROVE  /\ t \in Seq(Item) /\ Unique(t) /\ Len(t) <= sec.cap
           /\ ItemMap(t) = Map!Without(ItemMap(sec.items), k)
<1> DEFINE items == sec.items
           i == Pos(items, k)
           m == ItemMap(items)
           f == Map!Without(m, k)
<1>1. items \in Seq(Item) /\ Unique(items) /\ Len(items) <= sec.cap /\ sec.cap \in Nat
  BY DEF Sections
<1>2. i \in DOMAIN items /\ items[i].key = k
  BY <1>1, PosIs
<1>3. DOMAIN m = Keys(items) /\ \A j \in DOMAIN items : m[items[j].key] = items[j].val
  BY <1>1, ItemMapIs
<1>4. Len(items) \in Nat
  BY <1>1, LenProperties
<1>5. t = Vacate(items, i)
  OBVIOUS
<1> HIDE DEF items, i, m
<1>6. IsFcn(f) /\ (\A x : x \in DOMAIN f <=> x \in DOMAIN m /\ x # k) /\ \A x \in DOMAIN f : f[x] = m[x]
  BY WithoutIs
<1> HIDE DEF f
<1>7. /\ t \in Seq(Item) /\ Len(t) = Len(items) - 1
      /\ Unique(t) /\ (\A x : x \in Keys(t) <=> x \in Keys(items) /\ x # items[i].key)
      /\ \A j \in DOMAIN t : \E l \in DOMAIN items : l # i /\ t[j] = items[l]
  BY <1>1, <1>2, <1>5, Vacated
<1>8. Len(t) <= sec.cap
  BY <1>1, <1>4, <1>7
<1>9. DOMAIN f = Keys(t)
  BY <1>2, <1>3, <1>6, <1>7
<1>10. \A j \in DOMAIN t : f[t[j].key] = t[j].val
  <2> SUFFICES ASSUME NEW j \in DOMAIN t PROVE f[t[j].key] = t[j].val
    OBVIOUS
  <2>1. PICK l \in DOMAIN items : t[j] = items[l]
    BY <1>7
  <2>2. t[j].key \in Keys(t)
    BY DEF Keys
  <2> QED
    BY <1>3, <1>6, <1>9, <2>1, <2>2
<1>11. ItemMap(t) = f
  BY <1>6, <1>7, <1>9, <1>10, ItemMapEquals DEF IsFcn
<1> QED
  BY <1>7, <1>8, <1>11 DEF f, m, items

\* Names, for the provers, of what is left.
OptionGone(new, c, p, k) == new = [c EXCEPT !.secs[p].items = Vacate(@, Pos(@, k))]
OptionLost(m, s, k) == [m EXCEPT ![s] = Map!Without(@, k)]
SectionGone(new, c, s) == new = [c EXCEPT !.secs = Vacate(@, Pos(@, s))]

LEMMA OptionRemoved ==
    ASSUME NEW c \in Confs, NEW s, NEW k, NEW p \in DOMAIN c.secs, c.secs[p].key = s,
           Has(c.secs[p].items, k), NEW new, OptionGone(new, c, p, k)
    PROVE  new \in Confs /\ ConfMap(new) = OptionLost(ConfMap(c), s, k)
<1> DEFINE secs == c.secs
           sec == secs[p]
           t == Vacate(sec.items, Pos(sec.items, k))
           e == [sec EXCEPT !.items = t]
           u == [secs EXCEPT ![p] = e]
           m == ConfMap(c)
           f == [m EXCEPT ![s] = Map!Without(@, k)]
<1>1. /\ c \in [secs : Seq(Sections), cap : Nat] /\ secs \in Seq(Sections) /\ Unique(secs)
      /\ c.cap \in Nat /\ Len(secs) <= c.cap
  BY DEF Confs
<1>2. p \in DOMAIN secs /\ secs[p].key = s /\ s \in Keys(secs)
  BY DEF Keys
<1>3. sec \in Sections
  BY <1>1, <1>2
<1>4. sec \in [key : Names, items : Seq(Item), cap : Nat] /\ sec.key = s
  BY <1>2, <1>3 DEF Sections
<1>5. /\ t \in Seq(Item) /\ Unique(t) /\ Len(t) <= sec.cap
      /\ ItemMap(t) = Map!Without(ItemMap(sec.items), k)
  <2> HIDE DEF sec
  <2> QED
    BY <1>3, VacatedItems DEF sec
<1>6. new = [c EXCEPT !.secs = u]
  BY <1>1 DEF OptionGone
<1>7. DOMAIN m = Keys(secs) /\ \A i \in DOMAIN secs : m[secs[i].key] = ItemMap(secs[i].items)
  BY ConfMapIs
<1> HIDE DEF secs, m, t
<1>8. /\ f = [x \in DOMAIN f |-> f[x]] /\ DOMAIN f = DOMAIN m /\ f[s] = Map!Without(m[s], k)
      /\ \A x \in DOMAIN m : x # s => f[x] = m[x]
  BY <1>2, <1>7
<1> HIDE DEF f
<1>9. e \in Sections /\ e.key = s /\ e.items = t
  <2> HIDE DEF sec
  <2>1. e \in [key : Names, items : Seq(Item), cap : Nat] /\ e.key = s /\ e.items = t /\ e.cap = sec.cap
    BY <1>4, <1>5
  <2> HIDE DEF e
  <2> QED
    BY <1>5, <2>1 DEF Sections
<1> HIDE DEF e, u
<1>10. /\ u \in Seq(Sections) /\ Len(u) = Len(secs) /\ DOMAIN u = DOMAIN secs
      /\ Unique(u) /\ Keys(u) = Keys(secs)
      /\ \A j \in DOMAIN u : u[j] = IF j = p THEN e ELSE secs[j]
  BY <1>1, <1>2, <1>9, Replaced DEF u
<1>11. new \in Confs /\ new.secs = u
  <2>1. new \in [secs : Seq(Sections), cap : Nat] /\ new.secs = u /\ new.cap = c.cap
    BY <1>1, <1>6, <1>10
  <2> QED
    BY <1>1, <1>10, <2>1 DEF Confs
<1>12. \A j \in DOMAIN u : f[u[j].key] = ItemMap(u[j].items)
  <2> SUFFICES ASSUME NEW j \in DOMAIN u PROVE f[u[j].key] = ItemMap(u[j].items)
    OBVIOUS
  <2>1. CASE j = p
    <3>1. m[s] = ItemMap(sec.items)
      BY <1>2, <1>7
    <3> HIDE DEF sec
    <3> QED
      BY <1>5, <1>8, <1>9, <1>10, <2>1, <3>1
  <2>2. CASE j # p
    <3>1. u[j] = secs[j] /\ secs[j].key # s /\ secs[j].key \in DOMAIN m
      BY <1>1, <1>2, <1>7, <1>10, <2>2 DEF Unique, Keys
    <3> QED
      BY <1>7, <1>8, <1>10, <3>1
  <2> QED
    BY <2>1, <2>2
<1>13. ConfMap(new) = f
  BY <1>7, <1>8, <1>10, <1>11, <1>12, ConfMapEquals
<1> QED
  BY <1>11, <1>13 DEF f, m, OptionLost

LEMMA SectionRemoved ==
    ASSUME NEW c \in Confs, NEW s, Has(c.secs, s), NEW new, SectionGone(new, c, s)
    PROVE  new \in Confs /\ ConfMap(new) = Map!Without(ConfMap(c), s)
<1> DEFINE secs == c.secs
           i == Pos(secs, s)
           t == Vacate(secs, i)
           m == ConfMap(c)
           f == Map!Without(m, s)
<1>1. /\ c \in [secs : Seq(Sections), cap : Nat] /\ secs \in Seq(Sections) /\ Unique(secs)
      /\ c.cap \in Nat /\ Len(secs) <= c.cap
  BY DEF Confs
<1>2. i \in DOMAIN secs /\ secs[i].key = s
  BY <1>1, PosIs
<1>3. new = [c EXCEPT !.secs = t]
  BY <1>1 DEF SectionGone
<1>4. DOMAIN m = Keys(secs) /\ \A j \in DOMAIN secs : m[secs[j].key] = ItemMap(secs[j].items)
  BY ConfMapIs
<1>5. Len(secs) \in Nat
  BY <1>1, LenProperties
<1> HIDE DEF secs, i, m
<1>6. IsFcn(f) /\ (\A x : x \in DOMAIN f <=> x \in DOMAIN m /\ x # s) /\ \A x \in DOMAIN f : f[x] = m[x]
  BY WithoutIs
<1> HIDE DEF f, t
<1>7. /\ t \in Seq(Sections) /\ Len(t) = Len(secs) - 1
      /\ Unique(t) /\ (\A x : x \in Keys(t) <=> x \in Keys(secs) /\ x # secs[i].key)
      /\ \A j \in DOMAIN t : \E l \in DOMAIN secs : l # i /\ t[j] = secs[l]
  <2>1. t = Vacate(secs, i)
    BY DEF t
  <2> QED
    BY <1>1, <1>2, <2>1, Vacated
<1>8. Len(t) <= c.cap
  BY <1>1, <1>5, <1>7
<1>9. new \in Confs /\ new.secs = t
  <2>1. new \in [secs : Seq(Sections), cap : Nat] /\ new.secs = t /\ new.cap = c.cap
    BY <1>1, <1>3, <1>7
  <2> QED
    BY <1>7, <1>8, <2>1 DEF Confs
<1>10. DOMAIN f = Keys(t)
  BY <1>2, <1>4, <1>6, <1>7
<1>11. \A j \in DOMAIN t : f[t[j].key] = ItemMap(t[j].items)
  <2> SUFFICES ASSUME NEW j \in DOMAIN t PROVE f[t[j].key] = ItemMap(t[j].items)
    OBVIOUS
  <2>1. PICK l \in DOMAIN secs : t[j] = secs[l]
    BY <1>7
  <2>2. t[j].key \in Keys(t)
    BY DEF Keys
  <2> QED
    BY <1>4, <1>6, <1>10, <2>1, <2>2
<1>12. ConfMap(new) = f
  BY <1>6, <1>9, <1>10, <1>11, ConfMapEquals DEF IsFcn
<1> QED
  BY <1>9, <1>12 DEF f, m

-----------------------------------------------------------------------------
(* What each call is among those of RussMap.                               *)

LEMMA WithWith ==
    ASSUME NEW m, NEW s, NEW k, NEW v
    PROVE  Map!With(Map!With(m, s, Map!None), s, One(k, v)) = Map!With(m, s, One(k, v))
<1> SUFFICES ASSUME NEW n, n = Map!None, NEW x, x = One(k, v)
             PROVE  Map!With(Map!With(m, s, n), s, x) = Map!With(m, s, x)
  OBVIOUS
<1>1. IsFcn(x)
  BY DEF IsFcn, One
<1>2. Map!Onto(x, n) = x
  BY <1>1, OntoNone
<1> QED
  BY <1>2, WithTwice

LEMMA MergeSame ==
    ASSUME NEW m, Mapping(m)
    PROVE  Map!Merge(m, m) = m
<1> SUFFICES ASSUME NEW g, g = Map!Merge(m, m) PROVE g = m
  OBVIOUS
<1>1. /\ IsFcn(g) /\ (\A t : t \in DOMAIN g <=> t \in DOMAIN m \/ t \in DOMAIN m)
      /\ \A t \in DOMAIN g : g[t] = Map!Onto(Map!At(m, t), Map!At(m, t))
  BY MergeIs
<1>2. IsFcn(m) /\ \A t \in DOMAIN m : IsFcn(m[t]) /\ Map!At(m, t) = m[t]
  BY DEF Mapping, IsFcn, Map!At
<1>3. ASSUME NEW x, IsFcn(x) PROVE Map!Onto(x, x) = x
  <2>1. Map!Onto(x, x) = [k \in DOMAIN x |-> x[k]]
    BY DEF Map!Onto
  <2> QED
    BY <1>3, <2>1 DEF IsFcn
<1>4. \A t : t \in DOMAIN g <=> t \in DOMAIN m
  BY <1>1
<1>5. \A t \in DOMAIN g : g[t] = m[t]
  BY <1>1, <1>2, <1>3, <1>4
<1> QED
  BY <1>1, <1>2, <1>4, <1>5, SameFcn

LEMMA EffectAdd ==
    ASSUME NEW c, c.op = "add section", NEW m, NEW other
    PROVE  Map!Effect(c, m, other) = {Map!With(m, c.s, Map!None)}
BY Zenon DEF Map!Effect

LEMMA EffectRemoveOption ==
    ASSUME NEW c, c.op = "remove option", NEW m, NEW other
    PROVE  /\ c.s \in DOMAIN m => OptionLost(m, c.s, c.k) \in Map!Effect(c, m, other)
           /\ c.s \notin DOMAIN m => m \in Map!Effect(c, m, other)
<1>1. Map!Effect(c, m, other) = {IF c.s \in DOMAIN m THEN [m EXCEPT ![c.s] = Map!Without(@, c.k)] ELSE m}
  BY Zenon DEF Map!Effect
<1> QED
  BY <1>1 DEF OptionLost

LEMMA EffectSet ==
    ASSUME NEW c, c.op = "set", NEW m, NEW other
    PROVE  Map!Effect(c, m, other) = {Map!With(m, c.s, One(c.k, c.v))}
BY Zenon DEF Map!Effect, One

LEMMA EffectRemoveSection ==
    ASSUME NEW c, c.op = "remove section", NEW m, NEW other
    PROVE  Map!Effect(c, m, other) = {Map!Without(m, c.s)}
BY Zenon DEF Map!Effect

LEMMA EffectUpdateSection ==
    ASSUME NEW c, c.op = "update section", NEW m, NEW other
    PROVE  /\ c.t \in DOMAIN other => Map!With(m, c.s, other[c.t]) \in Map!Effect(c, m, other)
           /\ c.t \notin DOMAIN other => m \in Map!Effect(c, m, other)
<1>1. Map!Effect(c, m, other) = {IF c.t \in DOMAIN other THEN Map!With(m, c.s, other[c.t]) ELSE m}
  BY Zenon DEF Map!Effect
<1> QED
  BY <1>1

LEMMA EffectUpdate ==
    ASSUME NEW c, c.op = "update", NEW m, NEW other
    PROVE  Map!Effect(c, m, other) = {Map!Merge(m, other)}
BY Zenon DEF Map!Effect

LEMMA EffectDup ==
    ASSUME NEW c, c.op = "dup", NEW m, NEW other
    PROVE  Map!Effect(c, m, other) = {other}
BY Zenon DEF Map!Effect

LEMMA EffectPass ==
    ASSUME NEW c, c.op = "pass", NEW m, NEW other
    PROVE  Map!Effect(c, m, other) = {Map!With(other, Default, Map!None)}
BY Zenon DEF Map!Effect

LEMMA EffectRead ==
    ASSUME NEW c, c.op = "read", NEW m, NEW other
    PROVE  Map!Effect(c, m, other) = {m, Map!Merge(m, FileMap(c.f))}
BY Zenon DEF Map!Effect

\* A change of one object that the call allows is a step of RussMap.
LEMMA Changed ==
    ASSUME conf \in [Objs -> Confs], NEW o \in Objs, NEW p \in Objs, NEW new \in Confs,
           conf' = [conf EXCEPT ![o] = new], call'.op # "none", call'.o = o, call'.p = p,
           ConfMap(new) \in Map!Effect(call', ConfMap(conf[o]), ConfMap(conf[p]))
    PROVE  conf' \in [Objs -> Confs] /\ Map!Next
<1>1. conf' \in [Objs -> Confs]
  OBVIOUS
<1> DEFINE old == [x \in Objs |-> ConfMap(conf[x])]
           after == [x \in Objs |-> ConfMap(conf'[x])]
<1>2. after = [old EXCEPT ![o] = ConfMap(new)]
  OBVIOUS
<1>3. old[call'.o] = ConfMap(conf[o]) /\ old[call'.p] = ConfMap(conf[p])
  OBVIOUS
<1> DEFINE E == Map!Effect(call', ConfMap(conf[o]), ConfMap(conf[p]))
<1>4. Map!Next <=> \E c \in {call'} :
                      /\ c.op # "none"
                      /\ \E m \in Map!Effect(c, old[c.o], old[c.p]) : after = [old EXCEPT ![c.o] = m]
  BY DEF Map!Next
<1> HIDE DEF old, after
<1>5. \E m \in Map!Effect(call', old[call'.o], old[call'.p]) : after = [old EXCEPT ![call'.o] = m]
  BY <1>2, <1>3
<1> QED
  BY <1>1, <1>4, <1>5

\* So is a call that changes nothing.
LEMMA Unchanged ==
    ASSUME conf \in [Objs -> Confs], NEW o \in Objs, NEW p \in Objs,
           conf' = conf, call'.op # "none", call'.o = o, call'.p = p,
           ConfMap(conf[o]) \in Map!Effect(call', ConfMap(conf[o]), ConfMap(conf[p]))
    PROVE  conf' \in [Objs -> Confs] /\ Map!Next
<1>1. conf' = [conf EXCEPT ![o] = conf[o]] /\ conf[o] \in Confs
  OBVIOUS
<1> QED
  BY <1>1, Changed

LEMMA AddSectionStep ==
    ASSUME conf \in [Objs -> Confs], NEW o \in Objs, NEW s \in Names, AddSection(o, s)
    PROVE  conf' \in [Objs -> Confs] /\ Map!Next
<1> DEFINE new == Added(conf[o], s)
<1>1. conf' = [conf EXCEPT ![o] = new] /\ call' = [op |-> "add section", o |-> o, p |-> o, s |-> s]
  BY DEF AddSection, Change
<1>2. call'.op = "add section" /\ call'.op # "none" /\ call'.o = o /\ call'.p = o /\ call'.s = s
  BY <1>1
<1>3. new \in Confs /\ ConfMap(new) = Map!With(ConfMap(conf[o]), s, Map!None)
  BY AddedIs
<1>4. ConfMap(new) \in Map!Effect(call', ConfMap(conf[o]), ConfMap(conf[o]))
  BY <1>2, <1>3, EffectAdd, ZenonT(40)
<1> HIDE DEF new
<1> QED
  BY <1>1, <1>2, <1>3, <1>4, Changed

LEMMA SetStep ==
    ASSUME conf \in [Objs -> Confs], NEW o \in Objs, NEW s \in Names, NEW k \in Options, NEW v \in Values, Set(o, s, k, v)
    PROVE  conf' \in [Objs -> Confs] /\ Map!Next
<1> DEFINE a == Added(conf[o], s)
           new == SetIn(a, s, k, v)
<1>1. conf' = [conf EXCEPT ![o] = new] /\ call' = [op |-> "set", o |-> o, p |-> o, s |-> s, k |-> k, v |-> v]
  BY DEF Set, Change
<1>2. call'.op = "set" /\ call'.op # "none" /\ call'.o = o /\ call'.p = o /\ call'.s = s /\ call'.k = k /\ call'.v = v
  BY <1>1
<1>3. a \in Confs /\ s \in Keys(a.secs) /\ ConfMap(a) = Map!With(ConfMap(conf[o]), s, Map!None)
  BY AddedIs
<1> HIDE DEF a
<1>4. new \in Confs /\ ConfMap(new) = Map!With(ConfMap(a), s, One(k, v))
  BY <1>3, SetInIs
<1>5. ConfMap(new) = Map!With(ConfMap(conf[o]), s, One(k, v))
  BY <1>3, <1>4, WithWith
<1>6. ConfMap(new) \in Map!Effect(call', ConfMap(conf[o]), ConfMap(conf[o]))
  BY <1>2, <1>5, EffectSet
<1> HIDE DEF new
<1> QED
  BY <1>1, <1>2, <1>4, <1>6, Changed

LEMMA RemoveOptionStep ==
    ASSUME conf \in [Objs -> Confs], NEW o \in Objs, NEW s, NEW k, RemoveOption(o, s, k)
    PROVE  conf' \in [Objs -> Confs] /\ Map!Next
<1> DEFINE c == conf[o]
           p == Pos(c.secs, s)
           m == ConfMap(c)
<1>1. call' = [op |-> "remove option", o |-> o, p |-> o, s |-> s, k |-> k]
  BY DEF RemoveOption
<1>2. call'.op = "remove option" /\ call'.op # "none" /\ call'.o = o /\ call'.p = o /\ call'.s = s /\ call'.k = k
  BY <1>1
<1>3. c \in Confs /\ c.secs \in Seq(Sections) /\ Unique(c.secs)
  BY DEF Confs
<1>4. /\ DOMAIN m = Keys(c.secs) /\ \A i \in DOMAIN c.secs : m[c.secs[i].key] = ItemMap(c.secs[i].items)
      /\ Mapping(m)
  BY <1>3, ConfMapIs, ConfMapping
<1>5. Has(c.secs, s) => p \in DOMAIN c.secs /\ c.secs[p].key = s /\ c.secs[p] \in Sections
  BY <1>3, PosIs
<1>6. Has(c.secs, s) <=> s \in DOMAIN m
  BY <1>3, <1>4, PosIs
<1>7. CASE Has(c.secs, s) /\ Has(c.secs[p].items, k)
  <2> DEFINE new == [c EXCEPT !.secs[p].items = Vacate(@, Pos(@, k))]
  <2>1. conf' = [conf EXCEPT ![o] = new]
    BY <1>7 DEF RemoveOption, Change
  <2>2. OptionGone(new, c, p, k)
    BY DEF OptionGone
  <2> HIDE DEF new, p, c
  <2>3. new \in Confs /\ ConfMap(new) = OptionLost(m, s, k)
    BY <1>3, <1>5, <1>7, <2>2, OptionRemoved
  <2> HIDE DEF m
  <2>4. ConfMap(new) \in Map!Effect(call', m, m)
    BY <1>2, <1>6, <1>7, <2>3, EffectRemoveOption
  <2> QED
    BY <1>2, <2>1, <2>3, <2>4, Changed DEF m, c
<1>8. CASE ~(Has(c.secs, s) /\ Has(c.secs[p].items, k))
  <2>1. conf' = conf
    BY <1>8 DEF RemoveOption
  <2>2. s \in DOMAIN m => [m EXCEPT ![s] = Map!Without(@, k)] = m
    <3> SUFFICES ASSUME s \in DOMAIN m PROVE [m EXCEPT ![s] = Map!Without(@, k)] = m
      OBVIOUS
    <3>1. ~Has(c.secs[p].items, k) /\ p \in DOMAIN c.secs /\ m[s] = ItemMap(c.secs[p].items) /\ c.secs[p] \in Sections
      BY <1>4, <1>5, <1>6, <1>8
    <3>2. DOMAIN m[s] = Keys(c.secs[p].items) /\ c.secs[p].items \in Seq(Item)
      BY <3>1 DEF Sections, ItemMap
    <3>3. k \notin DOMAIN m[s]
      BY <3>1, <3>2, PosIs
    <3>4. IsFcn(m[s]) /\ m = [x \in DOMAIN m |-> m[x]]
      BY <1>4 DEF Mapping, IsFcn
    <3>5. Map!Without(m[s], k) = m[s]
      BY <3>3, <3>4, WithoutNothing
    <3> HIDE DEF m
    <3> QED
      BY <3>4, <3>5
  <2> HIDE DEF m
  <2>3. m \in Map!Effect(call', m, m)
    <3>1. s \in DOMAIN m => OptionLost(m, s, k) = m
      BY <2>2 DEF OptionLost
    <3> QED
      BY <1>2, <3>1, EffectRemoveOption
  <2> QED
    BY <1>2, <2>1, <2>3, Unchanged DEF m
<1> QED
  BY <1>7, <1>8

LEMMA RemoveSectionStep ==
    ASSUME conf \in [Objs -> Confs], NEW o \in Objs, NEW s, RemoveSection(o, s)
    PROVE  conf' \in [Objs -> Confs] /\ Map!Next
<1> DEFINE c == conf[o]
           m == ConfMap(c)
<1>1. call' = [op |-> "remove section", o |-> o, p |-> o, s |-> s]
  BY DEF RemoveSection
<1>2. call'.op = "remove section" /\ call'.op # "none" /\ call'.o = o /\ call'.p = o /\ call'.s = s
  BY <1>1
<1>3. c \in Confs /\ c.secs \in Seq(Sections)
  BY DEF Confs
<1>4. DOMAIN m = Keys(c.secs) /\ Mapping(m)
  BY <1>3, ConfMapIs, ConfMapping
<1>5. CASE Has(c.secs, s)
  <2> DEFINE new == [c EXCEPT !.secs = Vacate(@, Pos(@, s))]
  <2>1. conf' = [conf EXCEPT ![o] = new]
    BY <1>5 DEF RemoveSection, Change
  <2>2. SectionGone(new, c, s)
    BY DEF SectionGone
  <2> HIDE DEF new, c
  <2>3. new \in Confs /\ ConfMap(new) = Map!Without(m, s)
    BY <1>3, <1>5, <2>2, SectionRemoved
  <2> HIDE DEF m
  <2>4. ConfMap(new) \in Map!Effect(call', m, m)
    BY <1>2, <2>3, EffectRemoveSection
  <2> QED
    BY <1>2, <2>1, <2>3, <2>4, Changed DEF m, c
<1>6. CASE ~Has(c.secs, s)
  <2>1. conf' = conf
    BY <1>6 DEF RemoveSection
  <2>2. s \notin DOMAIN m /\ IsFcn(m)
    BY <1>3, <1>4, <1>6, PosIs DEF Mapping, IsFcn
  <2> HIDE DEF m
  <2>3. Map!Without(m, s) = m
    BY <2>2, WithoutNothing
  <2>4. m \in Map!Effect(call', m, m)
    BY <1>2, <2>3, EffectRemoveSection
  <2> QED
    BY <1>2, <2>1, <2>4, Unchanged DEF m
<1> QED
  BY <1>5, <1>6

LEMMA UpdateSectionStep ==
    ASSUME conf \in [Objs -> Confs], NEW o \in Objs, NEW s \in Names, NEW p \in Objs, NEW t, UpdateSection(o, s, p, t)
    PROVE  conf' \in [Objs -> Confs] /\ Map!Next
<1> DEFINE d == conf[p]
           secs == d.secs
           m == ConfMap(conf[o])
           other == ConfMap(d)
<1>1. call' = [op |-> "update section", o |-> o, p |-> p, s |-> s, t |-> t]
  BY DEF UpdateSection
<1>2. call'.op = "update section" /\ call'.op # "none" /\ call'.o = o /\ call'.p = p /\ call'.s = s /\ call'.t = t
  BY <1>1
<1>3. conf[o] \in Confs /\ d \in Confs /\ secs \in Seq(Sections)
  BY DEF Confs
<1>4. DOMAIN other = Keys(secs) /\ \A i \in DOMAIN secs : other[secs[i].key] = ItemMap(secs[i].items)
  BY <1>3, ConfMapIs
<1>5. Has(secs, t) <=> t \in DOMAIN other
  BY <1>3, <1>4, PosIs
<1>6. CASE Has(secs, t)
  <2> DEFINE i == Pos(secs, t)
             items == secs[i].items
             new == SetAll(conf[o], s, items)
  <2>1. conf' = [conf EXCEPT ![o] = new]
    BY <1>6 DEF UpdateSection, Change
  <2>2. i \in DOMAIN secs /\ secs[i].key = t
    BY <1>3, <1>6, PosIs
  <2>3. secs[i] \in Sections /\ other[t] = ItemMap(items)
    BY <1>3, <1>4, <2>2
  <2>4. items \in Seq(Item) /\ Unique(items)
    BY <2>3 DEF Sections
  <2> HIDE DEF items, d, secs
  <2>5. new \in Confs /\ ConfMap(new) = Map!With(m, s, other[t])
    BY <1>3, <2>3, <2>4, SetAllIs
  <2> HIDE DEF m, other, new
  <2>6. ConfMap(new) \in Map!Effect(call', m, other)
    BY <1>2, <1>5, <1>6, <2>5, EffectUpdateSection
  <2> QED
    BY <1>2, <2>1, <2>5, <2>6, Changed DEF m, other, d
<1>7. CASE ~Has(secs, t)
  <2>1. conf' = conf
    BY <1>7 DEF UpdateSection
  <2> HIDE DEF m, other
  <2>2. m \in Map!Effect(call', m, other)
    BY <1>2, <1>5, <1>7, EffectUpdateSection
  <2> QED
    BY <1>2, <2>1, <2>2, Unchanged DEF m, other
<1> QED
  BY <1>6, <1>7

LEMMA UpdateStep ==
    ASSUME conf \in [Objs -> Confs], NEW o \in Objs, NEW p \in Objs, Update(o, p)
    PROVE  conf' \in [Objs -> Confs] /\ Map!Next
<1> DEFINE new == IF o = p THEN conf[o] ELSE Updated(conf[o], conf[p])
           m == ConfMap(conf[o])
           other == ConfMap(conf[p])
<1>1. conf' = [conf EXCEPT ![o] = new] /\ call' = [op |-> "update", o |-> o, p |-> p]
  BY DEF Update, Change
<1>2. call'.op = "update" /\ call'.op # "none" /\ call'.o = o /\ call'.p = p
  BY <1>1
<1>3. new \in Confs /\ ConfMap(new) = Map!Merge(m, other)
  <2>1. CASE o = p
    <3>1. Mapping(m)
      BY ConfMapping
    <3>2. m = other /\ new = conf[o]
      BY <2>1
    <3> HIDE DEF new, m, other
    <3>3. Map!Merge(m, other) = m
      BY <3>1, <3>2, MergeSame
    <3> QED
      BY <3>2, <3>3 DEF m
  <2>2. CASE o # p
    BY <2>2, UpdatedIs
  <2> QED
    BY <2>1, <2>2
<1> HIDE DEF new, m, other
<1>4. ConfMap(new) \in Map!Effect(call', m, other)
  BY <1>2, <1>3, EffectUpdate
<1> QED
  BY <1>1, <1>2, <1>3, <1>4, Changed DEF m, other

LEMMA DupStep ==
    ASSUME conf \in [Objs -> Confs], NEW o \in Objs, NEW p \in Objs, Dup(o, p)
    PROVE  conf' \in [Objs -> Confs] /\ Map!Next
<1> DEFINE new == Updated(NewConf, conf[p])
           m == ConfMap(conf[o])
           other == ConfMap(conf[p])
<1>1. conf' = [conf EXCEPT ![o] = new] /\ call' = [op |-> "dup", o |-> o, p |-> p]
  BY DEF Dup, Change
<1>2. call'.op = "dup" /\ call'.op # "none" /\ call'.o = o /\ call'.p = p
  BY <1>1
<1>3. new \in Confs /\ ConfMap(new) = Map!Merge(Map!None, other)
  BY NewConfIs, UpdatedIs
<1>4. Map!Merge(Map!None, other) = other
  <2>1. Mapping(other)
    BY ConfMapping
  <2> HIDE DEF other
  <2> QED
    BY <2>1, MergeNone
<1> HIDE DEF new, m, other
<1>5. ConfMap(new) \in Map!Effect(call', m, other)
  BY <1>2, <1>3, <1>4, EffectDup
<1> QED
  BY <1>1, <1>2, <1>3, <1>5, Changed DEF m, other

LEMMA PassStep ==
    ASSUME conf \in [Objs -> Confs], NEW o \in Objs, NEW p \in Objs, Pass(o, p)
    PROVE  conf' \in [Objs -> Confs] /\ Map!Next
<1> DEFINE new == ReadFrom(NewConf, Written(conf[p])).conf
           m == ConfMap(conf[o])
           other == ConfMap(conf[p])
<1>1. conf' = [conf EXCEPT ![o] = new] /\ call' = [op |-> "pass", o |-> o, p |-> p]
  BY DEF Pass, Change
<1>2. call'.op = "pass" /\ call'.op # "none" /\ call'.o = o /\ call'.p = p
  BY <1>1
<1>3. new \in Confs /\ ConfMap(new) = Map!With(other, Default, Map!None)
  BY PassIs
<1> HIDE DEF new, m, other
<1>4. ConfMap(new) \in Map!Effect(call', m, other)
  BY <1>2, <1>3, EffectPass
<1> QED
  BY <1>1, <1>2, <1>3, <1>4, Changed DEF m, other

LEMMA ReadStep ==
    ASSUME conf \in [Objs -> Confs], NEW o \in Objs, NEW f \in Files, Read(o, f)
    PROVE  conf' \in [Objs -> Confs] /\ Map!Next
<1> DEFINE new == ReadFrom(conf[o], f).conf
           m == ConfMap(conf[o])
<1>1. conf' = [conf EXCEPT ![o] = new] /\ call' = [op |-> "read", o |-> o, p |-> o, f |-> f]
  BY DEF Read, Change
<1>2. call'.op = "read" /\ call'.op # "none" /\ call'.o = o /\ call'.p = o /\ call'.f = f
  BY <1>1
<1>3. f \in Seq(Lines) /\ conf[o] \in Confs
  BY FileAssumption DEF FileAssumption
<1>4. new \in Confs /\ (ConfMap(new) = m \/ ConfMap(new) = Map!Merge(m, FileMap(f)))
  BY <1>3, ReadFromIs
<1> HIDE DEF new, m
<1>5. ConfMap(new) \in Map!Effect(call', m, m)
  BY <1>2, <1>4, EffectRead
<1> QED
  BY <1>1, <1>2, <1>4, <1>5, Changed DEF m

-----------------------------------------------------------------------------
(* The inductive invariant, and the theorems.                              *)

Phases == {"load", "ready", "failed", "crashed"}

\* Objects are such that no two sections have one name, no two items of a section
\* have one option, and every array has places for its elements.
ConfInv == conf \in [Objs -> Confs] /\ phase \in Phases

LEMMA InitInv ==
    ASSUME Init
    PROVE  ConfInv
<1>1. conf = [o \in Objs |-> NewConf] /\ phase = "load"
  BY DEF Init
<1>2. NewConf \in Confs
  BY NewConfIs
<1> QED
  BY <1>1, <1>2 DEF ConfInv, Phases

LEMMA LoadStep ==
    ASSUME ConfInv, Load
    PROVE  ConfInv' /\ (Map!Next \/ UNCHANGED <<conf, call>>)
<1>1. conf \in [Objs -> Confs] /\ phase \in Phases /\ Loaded \in Objs
  BY ConfAssumption DEF ConfInv, ConfAssumption
<1>2. CASE ArgSet
  <2>1. PICK s \in Names, k \in Options, v \in Values : Set(Loaded, s, k, v)
    BY <1>2 DEF ArgSet
  <2>2. phase' = phase
    BY <1>2 DEF ArgSet
  <2> QED
    BY <1>1, <2>1, <2>2, SetStep DEF ConfInv
<1>3. CASE ArgDeleteOption
  <2>1. PICK s \in Names, k \in Options : RemoveOption(Loaded, s, k)
    BY <1>3 DEF ArgDeleteOption
  <2>2. phase' = phase
    BY <1>3 DEF ArgDeleteOption
  <2> QED
    BY <1>1, <2>1, <2>2, RemoveOptionStep DEF ConfInv
<1>4. CASE ArgDeleteSection
  <2>1. PICK s \in Names : RemoveSection(Loaded, s)
    BY <1>4 DEF ArgDeleteSection
  <2>2. phase' \in Phases
    BY <1>4 DEF ArgDeleteSection, Phases
  <2> QED
    BY <1>1, <2>1, <2>2, RemoveSectionStep DEF ConfInv
<1>5. CASE ArgFile
  <2>1. PICK f \in Files : Read(Loaded, f) /\ phase' = IF ReadFrom(conf[Loaded], f).ok THEN "load" ELSE "failed"
    BY <1>5 DEF ArgFile
  <2>2. phase' \in Phases
    BY <2>1 DEF Phases
  <2> QED
    BY <1>1, <2>1, <2>2, ReadStep DEF ConfInv
<1>6. CASE ArgBad \/ ArgEnd
  <2>1. phase' \in Phases /\ conf' = conf /\ call' = call
    BY <1>6 DEF ArgBad, ArgEnd, Phases
  <2> QED
    BY <1>1, <2>1 DEF ConfInv
<1> QED
  BY <1>2, <1>3, <1>4, <1>5, <1>6 DEF Load

LEMMA RunStep ==
    ASSUME ConfInv, Run
    PROVE  ConfInv' /\ Map!Next
<1>1. conf \in [Objs -> Confs] /\ phase \in Phases /\ Loaded \in Objs
  BY ConfAssumption DEF ConfInv, ConfAssumption
<1>2. phase' \in Phases
  BY <1>1 DEF Run
<1>3. SUFFICES conf' \in [Objs -> Confs] /\ Map!Next
  BY <1>2 DEF ConfInv
<1>4. ASSUME NEW s \in Names, AddSection(Loaded, s) \/ RemoveSection(Loaded, s)
      PROVE  conf' \in [Objs -> Confs] /\ Map!Next
  BY <1>1, <1>4, AddSectionStep, RemoveSectionStep
<1>5. ASSUME NEW s \in Names, NEW k \in Options, RemoveOption(Loaded, s, k)
      PROVE  conf' \in [Objs -> Confs] /\ Map!Next
  BY <1>1, <1>5, RemoveOptionStep
<1>6. ASSUME NEW s \in Names, NEW k \in Options, NEW v \in Values, Set(Loaded, s, k, v)
      PROVE  conf' \in [Objs -> Confs] /\ Map!Next
  BY <1>1, <1>6, SetStep
<1>7. ASSUME NEW f \in Files, Read(Loaded, f)
      PROVE  conf' \in [Objs -> Confs] /\ Map!Next
  BY <1>1, <1>7, ReadStep
<1>8. ASSUME NEW p \in Objs, NEW s \in Names, NEW t \in Names, UpdateSection(Loaded, s, p, t)
      PROVE  conf' \in [Objs -> Confs] /\ Map!Next
  BY <1>1, <1>8, UpdateSectionStep
<1>9. ASSUME NEW p \in Objs, Update(Loaded, p)
      PROVE  conf' \in [Objs -> Confs] /\ Map!Next
  BY <1>1, <1>9, UpdateStep
<1>10. ASSUME NEW o \in Objs, Dup(o, Loaded) \/ Pass(o, Loaded)
      PROVE  conf' \in [Objs -> Confs] /\ Map!Next
  BY <1>1, <1>10, DupStep, PassStep
<1> QED
  BY <1>4, <1>5, <1>6, <1>7, <1>8, <1>9, <1>10, Zenon DEF Run

LEMMA NextStep ==
    ASSUME ConfInv, [Next]_vars
    PROVE  ConfInv' /\ (Map!Next \/ UNCHANGED <<conf, call>>)
<1>1. CASE Next
  BY <1>1, LoadStep, RunStep DEF Next
<1>2. CASE UNCHANGED vars
  BY <1>2 DEF vars, ConfInv
<1> QED
  BY <1>1, <1>2

LEMMA ConfAlways == Spec => []ConfInv
<1>1. Init => ConfInv
  BY InitInv
<1>2. ConfInv /\ [Next]_vars => ConfInv'
  BY NextStep
<1> QED
  BY <1>1, <1>2, PTL DEF Spec

\* However long a program sets, removes, merges, copies, reads and writes, every
\* section and option has a name the program used, and no array of sections or of
\* items is written behind its end: it grows in time, whatever the growth is (conf.c).
THEOREM TypeCorrect == Spec => []TypeOK
<1>1. ConfInv => TypeOK
  <2> SUFFICES ASSUME ConfInv PROVE TypeOK
    OBVIOUS
  <2>1. phase \in {"load", "ready", "failed", "crashed"}
    BY DEF ConfInv, Phases
  <2>2. ASSUME NEW o \in Objs
        PROVE  /\ Keys(conf[o].secs) \subseteq Names
               /\ Len(conf[o].secs) <= conf[o].cap
               /\ \A i \in DOMAIN conf[o].secs :
                     LET sec == conf[o].secs[i]
                     IN  /\ Len(sec.items) <= sec.cap
                         /\ \A j \in DOMAIN sec.items :
                               sec.items[j].key \in Options /\ sec.items[j].val \in Values
    <3> DEFINE c == conf[o]
    <3>1. c \in Confs
      BY DEF ConfInv
    <3>2. c.secs \in Seq(Sections) /\ Len(c.secs) <= c.cap
      BY <3>1 DEF Confs
    <3>3. \A i \in DOMAIN c.secs : c.secs[i] \in Sections
      BY <3>2
    <3> HIDE DEF c
    <3>4. \A i \in DOMAIN c.secs : c.secs[i].key \in Names
      BY <3>3 DEF Sections
    <3>5. Keys(c.secs) \subseteq Names
      BY <3>4 DEF Keys
    <3>6. ASSUME NEW sec \in Sections
          PROVE  /\ Len(sec.items) <= sec.cap
                 /\ \A j \in DOMAIN sec.items : sec.items[j].key \in Options /\ sec.items[j].val \in Values
      <4>1. sec.items \in Seq(Item) /\ Len(sec.items) <= sec.cap
        BY DEF Sections
      <4>2. \A j \in DOMAIN sec.items : sec.items[j] \in Item
        BY <4>1
      <4> QED
        BY <4>1, <4>2 DEF Item
    <3>7. \A i \in DOMAIN c.secs :
             LET sec == c.secs[i]
             IN  /\ Len(sec.items) <= sec.cap
                 /\ \A j \in DOMAIN sec.items :
                       sec.items[j].key \in Options /\ sec.items[j].val \in Values
      BY <3>3, <3>6
    <3> QED
      BY <3>2, <3>5, <3>7 DEF c
  <2> QED
    BY <2>1, <2>2 DEF TypeOK
<1> QED
  BY <1>1, ConfAlways, PTL

\* Every call does to the arrays what RussMap says of maps: removing one element,
\* which moves the last one to its place, loses no other; merging overwrites and
\* keeps; a copy is equal; and what is written to another program is what it reads
\* (russ_conf_set2(), _remove(), _update(), _dup(), _writefd(), _readfd()).
THEOREM MapImplemented == Spec => ImplementsMap
<1>1. Init => Map!Init
  <2> SUFFICES ASSUME Init PROVE Map!Init
    OBVIOUS
  <2>1. conf = [o \in Objs |-> NewConf] /\ call = [op |-> "none"]
    BY DEF Init
  <2>2. [o \in Objs |-> ConfMap(conf[o])] = [o \in Objs |-> Map!None]
    BY <2>1, NewConfIs
  <2> QED
    BY <2>1, <2>2 DEF Map!Init
<1>2. ConfInv /\ [Next]_vars => [Map!Next]_(Map!vars)
  <2> SUFFICES ASSUME ConfInv, [Next]_vars PROVE [Map!Next]_(Map!vars)
    OBVIOUS
  <2>1. CASE Map!Next
    BY <2>1
  <2>2. CASE UNCHANGED <<conf, call>>
    <3>1. UNCHANGED Map!vars
      BY <2>2 DEF Map!vars
    <3> QED
      BY <3>1
  <2> QED
    BY <2>1, <2>2, NextStep
<1> QED
  BY <1>1, <1>2, ConfAlways, PTL DEF Spec, ImplementsMap, Map!Spec
=============================================================================
