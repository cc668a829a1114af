------------------------- MODULE RussForwardProofs -------------------------
(***************************************************************************)
(* Proofs about RussForward, for any servers, links, settings and calls:   *)
(* from the value it was last given, by the client or by a russset, the    *)
(* loop count is raised by every pass of the plus server, and no pass goes *)
(* beyond PLUS_COUNT_MAX.                                                  *)
(*                                                                         *)
(* First what a handler makes of the attributes of a request: russset puts *)
(* one setting after the other, russplus raises the count, the others pass *)
(* them on.  Then the chain of processes, of which each has the request    *)
(* the one before made.                                                    *)
(***************************************************************************)
EXTENDS RussForward, FiniteSetTheorems, SequenceTheorems, WellFoundedInduction, TLAPS

-----------------------------------------------------------------------------
(* Attributes.                                                             *)

LEMMA LeastNumber ==
    ASSUME NEW S, S \subseteq Nat, S # {}
    PROVE  \E n \in S : \A m \in S : n <= m
<1> DEFINE R == {ss \in Nat \X Nat : ss[1] < ss[2]}
<1>1. IsWellFoundedOn(R, Nat)
  BY Zenon, NatLessThanWellFounded DEF OpToRel
<1>2. \A m, n \in Nat : m < n => <<m, n>> \in R
  OBVIOUS
<1> HIDE DEF R
<1>3. PICK n \in S : \A m \in S : <<m, n>> \notin R
  BY <1>1, WFMin
<1>4. n \in Nat /\ \A m \in S : m \in Nat /\ ~(m < n)
  BY <1>2, <1>3
<1>5. \A m \in S : n <= m
  BY <1>4
<1> QED
  BY <1>5

\* A sequence has its own elements.
LEMMA ElementsOf ==
    ASSUME NEW s, Sequence(s)
    PROVE  s \in [1..Len(s) -> Range(s)]
BY Zenon, LenProperties DEF Sequence

LEMMA LengthOf ==
    ASSUME NEW s, Sequence(s)
    PROVE  Len(s) \in Nat
BY LenProperties DEF Sequence

LEMMA SeqIs ==
    ASSUME NEW S, NEW n \in Nat, NEW s \in [1..n -> S]
    PROVE  Sequence(s) /\ Len(s) = n
<1>1. s \in [1..n -> Range(s)]
  BY DEF Range
<1>2. s \in Seq(Range(s))
  BY <1>1, SeqDef
<1>3. Len(s) \in Nat /\ DOMAIN s = 1..Len(s) /\ DOMAIN s = 1..n
  BY <1>1, <1>2, LenProperties
<1> QED
  BY <1>2, <1>3 DEF Sequence

\* The place of the first attribute of a name.
LEMMA FindIs ==
    ASSUME NEW s, Sequence(s), NEW name
    PROVE  \/ /\ FindPrefix(s, name) = -1 /\ \A i \in 1..Len(s) : s[i].name # name
           \/ \E n \in 1..Len(s) :
                 /\ FindPrefix(s, name) = n - 1 /\ s[n].name = name
                 /\ \A i \in 1..Len(s) : s[i].name = name => n <= i
<1> DEFINE I == {i \in 1..Len(s) : s[i].name = name}
<1>1. FindPrefix(s, name) = (IF I # {} THEN Min(I) ELSE 0) - 1
  BY DEF FindPrefix, SelectInSeq
<1>2. Len(s) \in Nat
  BY LengthOf
<1>3. I \subseteq Nat /\ \A i \in I : i \in 1..Len(s) /\ s[i].name = name
  BY <1>2
<1>4. \A i \in 1..Len(s) : s[i].name = name => i \in I
  OBVIOUS
<1> HIDE DEF I
<1>5. CASE I = {}
  BY <1>1, <1>4, <1>5
<1>6. CASE I # {}
  <2>1. Min(I) \in I /\ \A i \in I : Min(I) <= i
    <3>1. \E n \in I : \A i \in I : n <= i
      BY <1>3, <1>6, LeastNumber
    <3> QED
      BY <3>1 DEF Min
  <2>2. FindPrefix(s, name) = Min(I) - 1
    BY <1>1, <1>6
  <2> QED
    BY <1>3, <1>4, <2>1, <2>2
<1> QED
  BY <1>5, <1>6

\* The count depends on the attributes of its name alone.
LEMMA SameCount ==
    ASSUME NEW s, Sequence(s), NEW t, Sequence(t), Len(s) <= Len(t),
           \A i \in 1..Len(s) : (t[i].name = CountName => t[i] = s[i]) /\ (s[i].name = CountName => t[i] = s[i]),
           \A i \in 1..Len(t) : i > Len(s) => t[i].name # CountName
    PROVE  PlusCount(t) = PlusCount(s)
<1>1. Len(s) \in Nat /\ Len(t) \in Nat
  BY LengthOf
<1>2. CASE \A i \in 1..Len(s) : s[i].name # CountName
  <2>1. \A i \in 1..Len(t) : t[i].name # CountName
    BY <1>1, <1>2
  <2>2. FindPrefix(s, CountName) = -1 /\ FindPrefix(t, CountName) = -1
    BY <1>2, <2>1, FindIs
  <2> QED
    BY <2>2 DEF PlusCount
<1>3. CASE \E i \in 1..Len(s) : s[i].name = CountName
  <2>1. PICK n \in 1..Len(s) :
           /\ FindPrefix(s, CountName) = n - 1 /\ s[n].name = CountName
           /\ \A i \in 1..Len(s) : s[i].name = CountName => n <= i
    BY <1>3, FindIs
  <2>2. t[n] = s[n] /\ n \in 1..Len(t)
    BY <1>1, <2>1
  <2>3. PICK m \in 1..Len(t) :
           /\ FindPrefix(t, CountName) = m - 1 /\ t[m].name = CountName
           /\ \A i \in 1..Len(t) : t[i].name = CountName => m <= i
    BY <2>1, <2>2, FindIs
  <2>4. m \in 1..Len(s) /\ s[m].name = CountName
    BY <1>1, <2>3
  <2>5. m = n
    <3>1. m <= n /\ n <= m
      BY <2>1, <2>2, <2>3, <2>4
    <3> QED
      BY <1>1, <3>1
  <2>6. ~(n - 1 < 0) /\ (n - 1) + 1 = n
    BY <1>1
  <2> QED
    BY <2>1, <2>2, <2>3, <2>5, <2>6 DEF PlusCount
<1> QED
  BY <1>2, <1>3

\* An attribute of another name is put.
LEMMA UpdateKeeps ==
    ASSUME NEW s, Sequence(s), NEW x, x.name # CountName
    PROVE  LET t == Update(s, FindPrefix(s, x.name), x)
           IN  Sequence(t) /\ PlusCount(t) = PlusCount(s)
<1> DEFINE t == Update(s, FindPrefix(s, x.name), x)
           S == Range(s) \cup {x}
<1>1. Len(s) \in Nat /\ s \in [1..Len(s) -> S] /\ s \in Seq(S)
  <2>1. s \in [1..Len(s) -> Range(s)]
    BY Zenon, ElementsOf
  <2>2. s \in [1..Len(s) -> S]
    BY <2>1
  <2>3. Len(s) \in Nat
    BY LengthOf
  <2> HIDE DEF S
  <2> QED
    BY <2>2, <2>3, SeqDef
<1>2. x \in S
  OBVIOUS
<1> HIDE DEF S
<1>3. CASE FindPrefix(s, x.name) = -1
  <2>1. t = Append(s, x)
    BY <1>3 DEF Update
  <2> HIDE DEF t
  <2>2. /\ t \in Seq(S) /\ Len(t) = Len(s) + 1
        /\ \A i \in 1..Len(s) : t[i] = s[i]
        /\ t[Len(s) + 1] = x
    BY <1>1, <1>2, <2>1, AppendProperties
  <2>3. Sequence(t)
    BY <2>2, SeqIs, LenProperties
  <2>4. \A i \in 1..Len(t) : i > Len(s) => t[i].name # CountName
    <3>1. \A i \in 1..Len(t) : i > Len(s) => i = Len(s) + 1
      BY <1>1, <2>2
    <3> QED
      BY <2>2, <3>1
  <2>5. Len(s) <= Len(t)
    BY <1>1, <2>2
  <2>6. PlusCount(t) = PlusCount(s)
    BY <2>2, <2>3, <2>4, <2>5, SameCount
  <2> QED
    BY <2>3, <2>6 DEF t
<1>4. CASE FindPrefix(s, x.name) # -1
  <2>1. PICK n \in 1..Len(s) : FindPrefix(s, x.name) = n - 1 /\ s[n].name = x.name
    BY <1>4, FindIs
  <2>2. t = [s EXCEPT ![n] = x]
    <3>1. (n - 1) + 1 = n
      BY <1>1
    <3> QED
      BY <1>4, <2>1, <3>1 DEF Update
  <2> HIDE DEF t
  <2>3. /\ t \in [1..Len(s) -> S]
        /\ \A i \in 1..Len(s) : i # n => t[i] = s[i]
        /\ t[n] = x
    BY <1>1, <1>2, <2>2
  <2>4. Sequence(t) /\ Len(t) = Len(s)
    BY <1>1, <2>3, SeqIs
  <2>5. \A i \in 1..Len(s) : (t[i].name = CountName => t[i] = s[i]) /\ (s[i].name = CountName => t[i] = s[i])
    BY <2>1, <2>3
  <2>6. Len(s) <= Len(t) /\ \A i \in 1..Len(t) : ~(i > Len(s))
    BY <1>1, <2>4
  <2>7. PlusCount(t) = PlusCount(s)
    BY <2>4, <2>5, <2>6, SameCount
  <2> QED
    BY <2>4, <2>7 DEF t
<1> QED
  BY <1>3, <1>4

\* The first attribute of the name is the count.
LEMMA CountAt ==
    ASSUME NEW s, Sequence(s), NEW n \in 1..Len(s), s[n].name = CountName,
           \A i \in 1..Len(s) : s[i].name = CountName => n <= i
    PROVE  PlusCount(s) = s[n].value
<1>1. Len(s) \in Nat
  BY LengthOf
<1>2. PICK m \in 1..Len(s) :
         /\ FindPrefix(s, CountName) = m - 1 /\ s[m].name = CountName
         /\ \A i \in 1..Len(s) : s[i].name = CountName => m <= i
  BY FindIs
<1>3. m = n
  <2>1. m <= n /\ n <= m
    BY <1>2
  <2> QED
    BY <1>1, <2>1
<1>4. ~(n - 1 < 0) /\ (n - 1) + 1 = n
  BY <1>1
<1> QED
  BY <1>2, <1>3, <1>4 DEF PlusCount

\* The count is put.
LEMMA UpdateCounts ==
    ASSUME NEW s, Sequence(s), NEW x, x.name = CountName
    PROVE  LET t == Update(s, FindPrefix(s, x.name), x)
           IN  Sequence(t) /\ PlusCount(t) = x.value
<1> DEFINE t == Update(s, FindPrefix(s, x.name), x)
           S == Range(s) \cup {x}
<1>1. Len(s) \in Nat /\ s \in [1..Len(s) -> S] /\ s \in Seq(S)
  <2>1. s \in [1..Len(s) -> Range(s)]
    BY Zenon, ElementsOf
  <2>2. s \in [1..Len(s) -> S]
    BY <2>1
  <2>3. Len(s) \in Nat
    BY LengthOf
  <2> HIDE DEF S
  <2> QED
    BY <2>2, <2>3, SeqDef
<1>2. x \in S
  OBVIOUS
<1> HIDE DEF S
<1>3. CASE FindPrefix(s, x.name) = -1
  <2>1. t = Append(s, x)
    BY <1>3 DEF Update
  <2> HIDE DEF t
  <2>2. /\ t \in Seq(S) /\ Len(t) = Len(s) + 1
        /\ \A i \in 1..Len(s) : t[i] = s[i]
        /\ t[Len(s) + 1] = x
    BY <1>1, <1>2, <2>1, AppendProperties
  <2>3. Sequence(t)
    BY <2>2, SeqIs, LenProperties
  <2>4. \A i \in 1..Len(s) : s[i].name # CountName
    <3>1. ~\E n \in 1..Len(s) : FindPrefix(s, x.name) = n - 1
      BY <1>1, <1>3
    <3> QED
      BY <3>1, FindIs
  <2>5. \A i \in 1..Len(t) : t[i].name = CountName => Len(s) + 1 <= i
    <3>1. \A i \in 1..Len(t) : i \in 1..Len(s) \/ Len(s) + 1 <= i
      BY <1>1, <2>2
    <3> QED
      BY <2>2, <2>4, <3>1
  <2>6. Len(s) + 1 \in 1..Len(t) /\ t[Len(s) + 1].name = CountName
    BY <1>1, <2>2
  <2>7. PlusCount(t) = x.value
    BY <2>2, <2>3, <2>5, <2>6, CountAt
  <2> QED
    BY <2>3, <2>7 DEF t
<1>4. CASE FindPrefix(s, x.name) # -1
  <2>1. PICK n \in 1..Len(s) :
           /\ FindPrefix(s, x.name) = n - 1
           /\ \A i \in 1..Len(s) : s[i].name = CountName => n <= i
    BY <1>4, FindIs
  <2>2. t = [s EXCEPT ![n] = x]
    <3>1. (n - 1) + 1 = n
      BY <1>1
    <3> QED
      BY <1>4, <2>1, <3>1 DEF Update
  <2> HIDE DEF t
  <2>3. /\ t \in [1..Len(s) -> S]
        /\ \A i \in 1..Len(s) : i # n => t[i] = s[i]
        /\ t[n] = x
    BY <1>1, <1>2, <2>2
  <2>4. Sequence(t) /\ Len(t) = Len(s)
    BY <1>1, <2>3, SeqIs
  <2>5. n \in 1..Len(t) /\ t[n].name = CountName /\ \A i \in 1..Len(t) : t[i].name = CountName => n <= i
    <3>1. n <= n
      BY <1>1
    <3> QED
      BY <2>1, <2>3, <2>4, <3>1
  <2>6. PlusCount(t) = x.value
    BY <2>3, <2>4, <2>5, CountAt
  <2> QED
    BY <2>4, <2>6 DEF t
<1> QED
  BY <1>3, <1>4

\* The count is raised.
LEMMA CountedRaises ==
    ASSUME NEW s, Sequence(s)
    PROVE  Sequence(Counted(s)) /\ PlusCount(Counted(s)) = Raised(PlusCount(s))
<1> DEFINE x == [name |-> CountName, value |-> Raised(PlusCount(s))]
           t == Counted(s)
           S == Range(s) \cup {x}
<1>1. Len(s) \in Nat /\ s \in [1..Len(s) -> S] /\ s \in Seq(S)
  <2>1. s \in [1..Len(s) -> Range(s)]
    BY Zenon, ElementsOf
  <2>2. s \in [1..Len(s) -> S]
    BY <2>1
  <2>3. Len(s) \in Nat
    BY LengthOf
  <2> HIDE DEF S
  <2> QED
    BY <2>2, <2>3, SeqDef
<1>2. x \in S
  OBVIOUS
<1> HIDE DEF S
<1>3. x.name = CountName /\ x.value = Raised(PlusCount(s))
  OBVIOUS
<1>4. Sequence(t) /\ Len(t) \in Nat /\ 1 <= Len(t) /\ t[1] = x
  <2>1. CASE FindPrefix(s, CountName) = 0
    <3>1. t = [s EXCEPT ![1] = x]
      BY <2>1 DEF Counted, Update
    <3>2. 1 \in 1..Len(s)
      <4>1. PICK n \in 1..Len(s) : FindPrefix(s, CountName) = n - 1
        BY <2>1, FindIs
      <4> QED
        BY <1>1
    <3> HIDE DEF t, x
    <3>3. t \in [1..Len(s) -> S] /\ t[1] = x
      BY <1>1, <1>2, <3>1, <3>2
    <3>4. Sequence(t) /\ Len(t) = Len(s)
      BY <1>1, <3>3, SeqIs
    <3> QED
      BY <1>1, <3>2, <3>3, <3>4
  <2>2. CASE FindPrefix(s, CountName) # 0
    <3>1. t = <<x>> \o s
      BY <2>2 DEF Counted
    <3> HIDE DEF t, x
    <3>2. <<x>> \in Seq(S) /\ Len(<<x>>) = 1 /\ <<x>>[1] = x
      BY <1>2
    <3>3. t \in Seq(S) /\ Len(t) = 1 + Len(s) /\ t[1] = x
      BY <1>1, <3>1, <3>2, ConcatProperties
    <3>4. Sequence(t)
      BY <3>3, SeqIs, LenProperties
    <3> QED
      BY <1>1, <3>3, <3>4
  <2> QED
    BY <2>1, <2>2
<1> HIDE DEF t, x
<1>5. FindPrefix(t, CountName) = 0
  <2>1. 1 \in 1..Len(t) /\ t[1].name = CountName
    BY <1>3, <1>4
  <2>2. PICK n \in 1..Len(t) :
           /\ FindPrefix(t, CountName) = n - 1
           /\ \A i \in 1..Len(t) : t[i].name = CountName => n <= i
    BY <1>4, <2>1, FindIs
  <2>3. n = 1
    <3>1. n <= 1
      BY <2>1, <2>2
    <3> QED
      BY <1>4, <3>1
  <2> QED
    BY <2>2, <2>3
<1>6. PlusCount(t) = Raised(PlusCount(s))
  BY <1>3, <1>4, <1>5 DEF PlusCount
<1> QED
  BY <1>4, <1>6 DEF t
-----------------------------------------------------------------------------
(* One setting after the other: Applied() is what its recursion says.      *)

Base(r) == [ok |-> TRUE, attrv |-> r.attrv, argv |-> r.argv]
Makes(g, r, s, n) == g = [m \in 0..n |-> IF m = 0 THEN Base(r) ELSE Apply(g[m - 1], s[m])]

LEMMA MakesNext ==
    ASSUME NEW r, NEW s, NEW n \in Nat, NEW g, Makes(g, r, s, n)
    PROVE  \E h : Makes(h, r, s, n + 1)
<1> DEFINE h == [m \in 0..n + 1 |-> IF m = n + 1 THEN Apply(g[n], s[n + 1]) ELSE g[m]]
<1>1. \A m \in 0..n : g[m] = IF m = 0 THEN Base(r) ELSE Apply(g[m - 1], s[m])
  BY DEF Makes
<1>2. \A m \in 0..n + 1 : h[m] = IF m = 0 THEN Base(r) ELSE Apply(h[m - 1], s[m])
  <2> SUFFICES ASSUME NEW m \in 0..n + 1
               PROVE  h[m] = IF m = 0 THEN Base(r) ELSE Apply(h[m - 1], s[m])
    OBVIOUS
  <2>1. CASE m = 0
    BY <1>1, <2>1
  <2>2. CASE m \in 1..n
    <3>1. m \in 0..n /\ m # 0 /\ m # n + 1 /\ m - 1 \in 0..n + 1 /\ m - 1 # n + 1
      BY <2>2
    <3>2. h[m] = g[m] /\ h[m - 1] = g[m - 1]
      BY <3>1
    <3> QED
      BY <1>1, <3>1, <3>2
  <2>3. CASE m = n + 1
    <3>1. m # 0 /\ m - 1 = n /\ n \in 0..n + 1 /\ n # n + 1
      BY <2>3
    <3>2. h[m] = Apply(g[n], s[m]) /\ h[m - 1] = g[n]
      BY <2>3, <3>1
    <3> QED
      BY <3>1, <3>2
  <2> QED
    BY <2>1, <2>2, <2>3
<1>3. h = [m \in 0..n + 1 |-> h[m]]
  OBVIOUS
<1> HIDE DEF h
<1>4. h = [m \in 0..n + 1 |-> IF m = 0 THEN Base(r) ELSE Apply(h[m - 1], s[m])]
  BY <1>2, <1>3
<1> QED
  BY <1>4 DEF Makes

LEMMA MakesFor ==
    ASSUME NEW r, NEW s, NEW n \in Nat
    PROVE  \E g : Makes(g, r, s, n)
<1> DEFINE S == {m \in Nat : \A g : ~Makes(g, r, s, m)}
<1>1. SUFFICES S = {}
  BY <1>1
<1>2. SUFFICES ASSUME S # {} PROVE FALSE
  OBVIOUS
<1>3. PICK m \in S : \A k \in S : m <= k
  BY <1>2, LeastNumber
<1>4. m \in Nat /\ \A g : ~Makes(g, r, s, m)
  BY <1>3
<1>5. CASE m = 0
  <2> DEFINE g == [k \in 0..0 |-> Base(r)]
  <2>1. g = [k \in 0..0 |-> IF k = 0 THEN Base(r) ELSE Apply(g[k - 1], s[k])]
    OBVIOUS
  <2>2. Makes(g, r, s, 0)
    BY <2>1 DEF Makes
  <2> QED
    BY <1>4, <1>5, <2>2
<1>6. CASE m # 0
  <2>1. m - 1 \in Nat /\ (m - 1) + 1 = m /\ ~(m <= m - 1)
    BY <1>4, <1>6
  <2>2. m - 1 \notin S
    BY <1>3, <2>1
  <2>3. PICK g : Makes(g, r, s, m - 1)
    BY <2>1, <2>2
  <2>4. \E h : Makes(h, r, s, (m - 1) + 1)
    BY <2>1, <2>3, MakesNext
  <2> QED
    BY <1>4, <2>1, <2>4
<1> QED
  BY <1>5, <1>6

LEMMA AppliedIs ==
    ASSUME NEW r, NEW s, Len(s) \in Nat
    PROVE  \E g : Makes(g, r, s, Len(s)) /\ Applied(r, s) = g[Len(s)]
<1> DEFINE made == CHOOSE made : Makes(made, r, s, Len(s))
<1>1. Makes(made, r, s, Len(s))
  BY MakesFor
<1>2. Applied(r, s) = made[Len(s)]
  BY DEF Applied, Makes, Base
<1> QED
  BY <1>1, <1>2

\* What n settings of s have made of a request, unless one was refused: the count
\* is what the last one that names it says, or what it was.
Names(c) == c \in DOMAIN Settings /\ Settings[c].name = CountName
LastOne(s, n, i) == i \in 1..n /\ Names(s[i]) /\ \A j \in i + 1..n : ~Names(s[j])
NoneOf(s, n) == \A i \in 1..n : ~Names(s[i])
Made(m, r, s, n) ==
    /\ m = [ok |-> m.ok, attrv |-> m.attrv, argv |-> m.argv]
    /\ Sequence(m.attrv)
    /\ m.ok => /\ NoneOf(s, n) => PlusCount(m.attrv) = PlusCount(r.attrv)
               /\ \A i : LastOne(s, n, i) => PlusCount(m.attrv) = Settings[s[i]].value

\* One setting more.
LEMMA LastNext ==
    ASSUME NEW s, NEW n \in Nat
    PROVE  /\ NoneOf(s, n + 1) => NoneOf(s, n)
           /\ ~Names(s[n + 1]) => \A i : LastOne(s, n + 1, i) => LastOne(s, n, i)
           /\ Names(s[n + 1]) => ~NoneOf(s, n + 1) /\ \A i : LastOne(s, n + 1, i) => i = n + 1
<1>1. NoneOf(s, n + 1) => NoneOf(s, n)
  BY DEF NoneOf
<1>2. ASSUME ~Names(s[n + 1]), NEW i, LastOne(s, n + 1, i) PROVE LastOne(s, n, i)
  <2>1. i \in 1..n
    BY <1>2 DEF LastOne
  <2>2. \A j \in i + 1..n : j \in i + 1..n + 1
    BY <2>1
  <2> QED
    BY <1>2, <2>1, <2>2 DEF LastOne
<1>3. ASSUME Names(s[n + 1]), NEW i, LastOne(s, n + 1, i) PROVE i = n + 1
  <2>1. i \in 1..n + 1 /\ n + 1 \notin i + 1..n + 1
    BY <1>3 DEF LastOne
  <2> QED
    BY <2>1
<1>4. Names(s[n + 1]) => ~NoneOf(s, n + 1)
  BY DEF NoneOf
<1> QED
  BY <1>1, <1>2, <1>3, <1>4

LEMMA ApplyMakes ==
    ASSUME NEW r, NEW s, NEW n \in Nat, NEW m, Made(m, r, s, n)
    PROVE  Made(Apply(m, s[n + 1]), r, s, n + 1)
<1> DEFINE c == s[n + 1]
           t == Apply(m, c)
           x == [name |-> Settings[c].name, value |-> Settings[c].value]
           a == Update(m.attrv, FindPrefix(m.attrv, x.name), x)
           refused == ~m.ok \/ c \notin DOMAIN Settings
<1>1. /\ m = [ok |-> m.ok, attrv |-> m.attrv, argv |-> m.argv]
      /\ Sequence(m.attrv)
  BY DEF Made
<1>2. \/ t = [m EXCEPT !.ok = FALSE]
      \/ m.ok /\ c \in DOMAIN Settings /\ t = [m EXCEPT !.attrv = a]
      \/ m.ok /\ ~Names(c) /\ \E v : t = [m EXCEPT !.argv = v]
  <2>1. CASE refused
    BY <2>1 DEF Apply
  <2>2. CASE ~refused /\ Settings[c].name # ""
    BY <2>2 DEF Apply
  <2>3. CASE ~refused /\ Settings[c].name = "" /\ Settings[c].index \in -1..Len(m.argv) - 1
    <3>1. ~Names(c)
      BY <2>3 DEF Names, CountName
    <3>2. \E v : t = [m EXCEPT !.argv = v]
      BY <2>3 DEF Apply
    <3> QED
      BY <2>3, <3>1, <3>2
  <2>4. CASE ~refused /\ Settings[c].name = "" /\ Settings[c].index \notin -1..Len(m.argv) - 1
    BY <2>4 DEF Apply
  <2> QED
    BY <2>1, <2>2, <2>3, <2>4
<1>3. Sequence(a)
  BY <1>1, UpdateKeeps, UpdateCounts
<1>4. c \in DOMAIN Settings /\ ~Names(c) => PlusCount(a) = PlusCount(m.attrv)
  <2>1. c \in DOMAIN Settings /\ ~Names(c) => x.name # CountName
    BY DEF Names
  <2> HIDE DEF x
  <2> QED
    BY <1>1, <2>1, UpdateKeeps
<1>5. Names(c) => PlusCount(a) = Settings[c].value
  <2>1. (Names(c) => x.name = CountName) /\ x.value = Settings[c].value
    BY DEF Names
  <2> HIDE DEF x
  <2> QED
    BY <1>1, <2>1, UpdateCounts
<1> HIDE DEF t, x, a, c
<1>6. m.ok => /\ NoneOf(s, n) => PlusCount(m.attrv) = PlusCount(r.attrv)
              /\ \A i : LastOne(s, n, i) => PlusCount(m.attrv) = Settings[s[i]].value
  BY DEF Made
<1>7. /\ NoneOf(s, n + 1) => NoneOf(s, n)
      /\ ~Names(c) => \A i : LastOne(s, n + 1, i) => LastOne(s, n, i)
      /\ Names(c) => ~NoneOf(s, n + 1) /\ \A i : LastOne(s, n + 1, i) => i = n + 1
  BY LastNext DEF c
<1>8. CASE t = [m EXCEPT !.ok = FALSE]
  <2>1. t = [ok |-> FALSE, attrv |-> m.attrv, argv |-> m.argv]
    BY <1>1, <1>8
  <2>2. t = [ok |-> t.ok, attrv |-> t.attrv, argv |-> t.argv] /\ t.attrv = m.attrv /\ ~t.ok
    BY <2>1
  <2> QED
    BY <1>1, <2>2 DEF Made, t, c
<1>9. CASE m.ok /\ c \in DOMAIN Settings /\ t = [m EXCEPT !.attrv = a]
  <2>1. t = [ok |-> m.ok, attrv |-> a, argv |-> m.argv]
    BY <1>1, <1>9
  <2>2. t = [ok |-> t.ok, attrv |-> t.attrv, argv |-> t.argv] /\ t.attrv = a
    BY <2>1
  <2>3. NoneOf(s, n + 1) => PlusCount(a) = PlusCount(r.attrv)
    BY <1>4, <1>6, <1>7, <1>9
  <2>4. ASSUME NEW i, LastOne(s, n + 1, i) PROVE PlusCount(a) = Settings[s[i]].value
    <3>1. CASE Names(c)
      BY <1>5, <1>7, <2>4, <3>1 DEF c
    <3>2. CASE ~Names(c)
      BY <1>4, <1>6, <1>7, <1>9, <2>4, <3>2
    <3> QED
      BY <3>1, <3>2
  <2> QED
    BY <1>3, <2>2, <2>3, <2>4 DEF Made, t, c
<1>10. CASE m.ok /\ ~Names(c) /\ \E v : t = [m EXCEPT !.argv = v]
  <2>1. PICK v : t = [m EXCEPT !.argv = v]
    BY <1>10
  <2>2. t = [ok |-> m.ok, attrv |-> m.attrv, argv |-> v]
    BY <1>1, <2>1
  <2>3. t = [ok |-> t.ok, attrv |-> t.attrv, argv |-> t.argv] /\ t.attrv = m.attrv
    BY <2>2
  <2> QED
    BY <1>1, <1>6, <1>7, <1>10, <2>3 DEF Made, t, c
<1> QED
  BY <1>2, <1>8, <1>9, <1>10

\* The settings of russset leave the count as it is, or make it what the last one
\* that names it says.
LEMMA AppliedMakes ==
    ASSUME NEW r, Sequence(r.attrv), NEW s, Len(s) \in Nat
    PROVE  Made(Applied(r, s), r, s, Len(s))
<1>1. PICK g : Makes(g, r, s, Len(s)) /\ Applied(r, s) = g[Len(s)]
  BY AppliedIs
<1>2. \A m \in 0..Len(s) : g[m] = IF m = 0 THEN Base(r) ELSE Apply(g[m - 1], s[m])
  BY <1>1 DEF Makes
<1> DEFINE S == {m \in 0..Len(s) : ~Made(g[m], r, s, m)}
<1>3. S \subseteq Nat
  OBVIOUS
<1>4. CASE S = {}
  BY <1>1, <1>4
<1>5. CASE S # {}
  <2>1. PICK m \in S : \A k \in S : m <= k
    <3> HIDE DEF S
    <3> QED
      BY <1>5, <1>3, LeastNumber
  <2>2. m \in 0..Len(s) /\ ~Made(g[m], r, s, m)
    BY <2>1
  <2>3. CASE m = 0
    <3>1. g[m] = Base(r)
      BY <1>2, <2>2, <2>3
    <3>2. Made(Base(r), r, s, 0)
      <4>1. \A i : ~LastOne(s, 0, i)
        BY DEF LastOne
      <4> QED
        BY <4>1 DEF Made, Base
    <3> QED
      BY <2>2, <2>3, <3>1, <3>2
  <2>4. CASE m # 0
    <3>1. m - 1 \in 0..Len(s) /\ ~(m <= m - 1) /\ m - 1 \in Nat /\ (m - 1) + 1 = m
      BY <2>2, <2>4
    <3>2. m - 1 \notin S
      BY <2>1, <3>1
    <3>3. Made(g[m - 1], r, s, m - 1)
      BY <3>1, <3>2
    <3>4. g[m] = Apply(g[m - 1], s[m])
      BY <1>2, <2>2, <2>4
    <3>5. Made(Apply(g[m - 1], s[(m - 1) + 1]), r, s, (m - 1) + 1)
      BY <3>1, <3>3, ApplyMakes
    <3> QED
      BY <2>2, <3>1, <3>4, <3>5
  <2> QED
    BY <2>3, <2>4
<1> QED
  BY <1>4, <1>5

-----------------------------------------------------------------------------
(* Paths.                                                                  *)

LEMMA ConcatIs ==
    ASSUME NEW s, Sequence(s), NEW t, Sequence(t)
    PROVE  Sequence(s \o t)
<1> DEFINE S == Range(s) \cup Range(t)
<1>1. s \in [1..Len(s) -> Range(s)] /\ t \in [1..Len(t) -> Range(t)]
  BY ElementsOf
<1>2. s \in [1..Len(s) -> S] /\ t \in [1..Len(t) -> S]
  BY <1>1
<1>3. Len(s) \in Nat /\ Len(t) \in Nat
  BY LengthOf
<1> HIDE DEF S
<1>4. s \in Seq(S) /\ t \in Seq(S)
  BY <1>2, <1>3, SeqDef
<1>5. s \o t \in Seq(S)
  BY <1>4, ConcatProperties
<1> QED
  BY <1>5, SeqIs, LenProperties

LEMMA SubSeqIs ==
    ASSUME NEW s, Sequence(s), NEW m \in Nat, NEW n \in Int, 1 <= m, n <= Len(s)
    PROVE  Sequence(SubSeq(s, m, n))
<1>1. s \in [1..Len(s) -> Range(s)]
  BY ElementsOf
<1>2. Len(s) \in Nat
  BY LengthOf
<1>3. \A i \in m..n : s[i] \in Range(s)
  BY <1>1, <1>2
<1>4. SubSeq(s, m, n) \in Seq(Range(s))
  BY <1>3, SubSeqProperties
<1> QED
  BY <1>4, SeqIs, LenProperties

LEMMA FromIs ==
    ASSUME NEW s, Sequence(s), NEW n \in Nat, 1 <= n
    PROVE  Sequence(From(s, n))
<1>1. Len(s) \in Nat
  BY LengthOf
<1> QED
  BY <1>1, SubSeqIs DEF From

LEMMA TailIs ==
    ASSUME NEW s, Sequence(s), s # <<>>
    PROVE  Sequence(Tail(s))
<1>1. s \in Seq(Range(s))
  BY DEF Sequence
<1>2. Tail(s) \in Seq(Range(s))
  BY <1>1, HeadTailProperties
<1> QED
  BY <1>2, SeqIs, LenProperties

LEMMA TupleIs ==
    /\ Sequence(<<>>)
    /\ \A a : Sequence(<<a>>)
    /\ \A a, b : Sequence(<<a, b>>)
    /\ \A a, b, c : Sequence(<<a, b, c>>)
<1>1. ASSUME NEW S, NEW s \in Seq(S) PROVE Sequence(s)
  BY SeqIs, LenProperties
<1>2. Sequence(<<>>)
  <2>1. <<>> \in Seq({})
    OBVIOUS
  <2> QED
    BY <1>1, <2>1
<1>3. ASSUME NEW a PROVE Sequence(<<a>>)
  <2>1. <<a>> \in Seq({a})
    OBVIOUS
  <2> QED
    BY <1>1, <2>1
<1>4. ASSUME NEW a, NEW b PROVE Sequence(<<a, b>>)
  <2>1. <<a, b>> \in Seq({a, b})
    OBVIOUS
  <2> QED
    BY <1>1, <2>1
<1>5. ASSUME NEW a, NEW b, NEW c PROVE Sequence(<<a, b, c>>)
  <2>1. <<a, b, c>> \in Seq({a, b, c})
    OBVIOUS
  <2> QED
    BY <1>1, <2>1
<1> QED
  BY <1>2, <1>3, <1>5, <1>4

LEMMA LeastIs ==
    ASSUME NEW S, S \subseteq Nat, S # {}
    PROVE  Least(S) \in S
<1>1. \E n \in S : \A m \in S : n <= m
  BY LeastNumber
<1> QED
  BY <1>1 DEF Least

LEMMA CutIs ==
    ASSUME NEW path, Sequence(path), NEW S, Cuts(path, S) # {}
    PROVE  /\ Least(Cuts(path, S)) \in Nat
           /\ 1 <= Least(Cuts(path, S)) /\ Least(Cuts(path, S)) <= Len(path)
           /\ SubSeq(path, 1, Least(Cuts(path, S))) \in S
<1> DEFINE n == Least(Cuts(path, S))
<1>1. Len(path) \in Nat
  BY LengthOf
<1>2. Cuts(path, S) \subseteq Nat
  BY <1>1 DEF Cuts
<1>3. n \in Cuts(path, S)
  BY <1>2, LeastIs
<1> HIDE DEF n
<1>4. n \in 1..Len(path) /\ SubSeq(path, 1, n) \in S
  BY <1>3 DEF Cuts
<1>5. n \in Nat /\ 1 <= n /\ n <= Len(path)
  BY <1>1, <1>4
<1> QED
  BY <1>4, <1>5 DEF n

LEMMA FollowIs ==
    ASSUME NEW path, Sequence(path), Cuts(path, DOMAIN Links) # {}
    PROVE  Sequence(Follow(path))
<1> DEFINE n == Least(Cuts(path, DOMAIN Links))
           l == Links[SubSeq(path, 1, n)]
<1>1. n \in Nat /\ 1 <= n /\ n <= Len(path) /\ SubSeq(path, 1, n) \in DOMAIN Links
  BY CutIs
<1>2. Sequence(l.to)
  BY <1>1, SiteAssumption
<1>3. Follow(path) = (IF l.abs THEN l.to ELSE SubSeq(path, 1, n - 1) \o l.to) \o From(path, n + 1)
  BY DEF Follow
<1> HIDE DEF n, l
<1>4. Sequence(SubSeq(path, 1, n - 1))
  <2>1. Len(path) \in Nat
    BY LengthOf
  <2>2. n - 1 \in Int /\ n - 1 <= Len(path)
    BY <1>1, <2>1
  <2> QED
    BY <2>2, SubSeqIs
<1>5. Sequence(From(path, n + 1))
  BY <1>1, FromIs
<1>6. Sequence(SubSeq(path, 1, n - 1) \o l.to)
  BY <1>2, <1>4, ConcatIs
<1> QED
  BY <1>2, <1>3, <1>5, <1>6, ConcatIs

\* One link after the other: Resolve() is what its recursion says.
Further(p) == IF Cuts(p, DOMAIN Links) = {} THEN p ELSE Follow(p)
Walks(g, path, n) == g = [m \in 0..n |-> IF m = 0 THEN path ELSE Further(g[m - 1])]

LEMMA WalksNext ==
    ASSUME NEW path, NEW n \in Nat, NEW g, Walks(g, path, n)
    PROVE  \E h : Walks(h, path, n + 1)
<1> DEFINE h == [m \in 0..n + 1 |-> IF m = n + 1 THEN Further(g[n]) ELSE g[m]]
<1>1. \A m \in 0..n : g[m] = IF m = 0 THEN path ELSE Further(g[m - 1])
  BY DEF Walks
<1>2. \A m \in 0..n + 1 : h[m] = IF m = 0 THEN path ELSE Further(h[m - 1])
  <2> SUFFICES ASSUME NEW m \in 0..n + 1
               PROVE  h[m] = IF m = 0 THEN path ELSE Further(h[m - 1])
    OBVIOUS
  <2>1. CASE m = 0
    BY <1>1, <2>1
  <2>2. CASE m \in 1..n
    <3>1. m \in 0..n /\ m # 0 /\ m # n + 1 /\ m - 1 \in 0..n + 1 /\ m - 1 # n + 1
      BY <2>2
    <3>2. h[m] = g[m] /\ h[m - 1] = g[m - 1]
      BY <3>1
    <3> QED
      BY <1>1, <3>1, <3>2
  <2>3. CASE m = n + 1
    <3>1. m # 0 /\ m - 1 = n /\ n \in 0..n + 1 /\ n # n + 1
      BY <2>3
    <3>2. h[m] = Further(g[n]) /\ h[m - 1] = g[n]
      BY <2>3, <3>1
    <3> QED
      BY <3>1, <3>2
  <2> QED
    BY <2>1, <2>2, <2>3
<1>3. h = [m \in 0..n + 1 |-> h[m]]
  OBVIOUS
<1> HIDE DEF h
<1>4. h = [m \in 0..n + 1 |-> IF m = 0 THEN path ELSE Further(h[m - 1])]
  BY <1>2, <1>3
<1> QED
  BY <1>4 DEF Walks

LEMMA WalksFor ==
    ASSUME NEW path, NEW n \in Nat
    PROVE  \E g : Walks(g, path, n)
<1> DEFINE S == {m \in Nat : \A g : ~Walks(g, path, m)}
<1>1. SUFFICES S = {}
  BY <1>1
<1>2. SUFFICES ASSUME S # {} PROVE FALSE
  OBVIOUS
<1>3. PICK m \in S : \A k \in S : m <= k
  BY <1>2, LeastNumber
<1>4. m \in Nat /\ \A g : ~Walks(g, path, m)
  BY <1>3
<1>5. CASE m = 0
  <2> DEFINE g == [k \in 0..0 |-> path]
  <2>1. g = [k \in 0..0 |-> IF k = 0 THEN path ELSE Further(g[k - 1])]
    OBVIOUS
  <2>2. Walks(g, path, 0)
    BY <2>1 DEF Walks
  <2> QED
    BY <1>4, <1>5, <2>2
<1>6. CASE m # 0
  <2>1. m - 1 \in Nat /\ (m - 1) + 1 = m /\ ~(m <= m - 1)
    BY <1>4, <1>6
  <2>2. m - 1 \notin S
    BY <1>3, <2>1
  <2>3. PICK g : Walks(g, path, m - 1)
    BY <2>1, <2>2
  <2>4. \E h : Walks(h, path, (m - 1) + 1)
    BY <2>1, <2>3, WalksNext
  <2> QED
    BY <1>4, <2>1, <2>4
<1> QED
  BY <1>5, <1>6

LEMMA ResolveIs ==
    ASSUME NEW path, Sequence(path)
    PROVE  Sequence(Resolve(path))
<1> DEFINE after == CHOOSE after : Walks(after, path, LinksMax)
<1>1. LinksMax \in Nat
  BY ForwardAssumption
<1>2. Walks(after, path, LinksMax)
  BY <1>1, WalksFor
<1>3. Resolve(path) = IF Cuts(after[LinksMax], DOMAIN Links) = {} THEN after[LinksMax] ELSE NoPath
  BY DEF Resolve, Walks, Further
<1> HIDE DEF after
<1>4. \A m \in 0..LinksMax : after[m] = IF m = 0 THEN path ELSE Further(after[m - 1])
  BY <1>2 DEF Walks
<1> DEFINE S == {m \in 0..LinksMax : ~Sequence(after[m])}
<1>5. S = {}
  <2> SUFFICES ASSUME S # {} PROVE FALSE
    OBVIOUS
  <2>1. S \subseteq Nat
    BY <1>1
  <2>2. PICK m \in S : \A k \in S : m <= k
    <3> HIDE DEF S
    <3> QED
      BY <2>1, LeastNumber
  <2>3. m \in 0..LinksMax /\ ~Sequence(after[m])
    BY <2>2
  <2>4. CASE m = 0
    BY <1>4, <2>3, <2>4
  <2>5. CASE m # 0
    <3>1. m - 1 \in 0..LinksMax /\ ~(m <= m - 1)
      BY <1>1, <2>3, <2>5
    <3>2. m - 1 \notin S
      BY <2>2, <3>1
    <3>3. Sequence(after[m - 1])
      BY <3>1, <3>2
    <3>4. after[m] = Further(after[m - 1])
      BY <1>4, <2>3, <2>5
    <3>5. Sequence(Further(after[m - 1]))
      BY <3>3, FollowIs DEF Further
    <3> QED
      BY <2>3, <3>4, <3>5
  <2> QED
    BY <2>4, <2>5
<1>6. Sequence(after[LinksMax])
  BY <1>1, <1>5
<1> QED
  BY <1>3, <1>6, TupleIs DEF NoPath

\* A path leads to a server, or to none.
LEMMA SplitIs ==
    ASSUME NEW path, Sequence(path)
    PROVE  /\ Split(path).addr = NoPath \/ Split(path).addr \in DOMAIN Site
           /\ Sequence(Split(path).rest)
<1> DEFINE p == Resolve(path)
           ns == Cuts(p, DOMAIN Site)
           n == Least(ns)
<1>1. Sequence(p)
  BY ResolveIs
<1>2. CASE p # <<>> /\ p[1] = "+"
  <2>1. Split(path) = [addr |-> PlusAddr, rest |-> Tail(p)]
    BY <1>2 DEF Split
  <2> HIDE DEF p
  <2>2. Sequence(Tail(p))
    BY <1>1, <1>2, TailIs
  <2> QED
    BY <2>1, <2>2, ForwardAssumption
<1>3. CASE ~(p # <<>> /\ p[1] = "+") /\ ns # {}
  <2>1. Split(path) = [addr |-> SubSeq(p, 1, n), rest |-> From(p, n + 1)]
    BY <1>3 DEF Split
  <2> HIDE DEF p
  <2>2. n \in Nat /\ 1 <= n /\ SubSeq(p, 1, n) \in DOMAIN Site
    BY <1>1, <1>3, CutIs
  <2> HIDE DEF n
  <2>3. Sequence(From(p, n + 1))
    BY <1>1, <2>2, FromIs
  <2> QED
    BY <2>1, <2>2, <2>3
<1>4. CASE ~(p # <<>> /\ p[1] = "+") /\ ns = {}
  <2>1. Split(path) = [addr |-> NoPath, rest |-> <<>>]
    BY <1>4 DEF Split
  <2> QED
    BY <2>1, TupleIs
<1> QED
  BY <1>2, <1>3, <1>4

-----------------------------------------------------------------------------
(* What the handlers dial.                                                 *)

IsRequest(r) ==
    /\ {"path", "attrv", "argv"} \subseteq DOMAIN r
    /\ Sequence(r.path) /\ Sequence(r.attrv)

\* A plan p of the server s for the request r: what is dialed, if anything is, is
\* a request, at a server or nowhere, that has the count of r, or what a russset
\* was to make it, or what russplus raises it to.
Passes(p, r, s) ==
    p.do = "dial" =>
        /\ IsRequest(p.req)
        /\ p.addr = NoPath \/ p.addr \in DOMAIN Site
        /\ s.kind = "plus" => /\ PlusCount(p.req.attrv) = Raised(PlusCount(r.attrv))
                              /\ ~(Raised(PlusCount(r.attrv)) > PlusMax)
        /\ SetBy(s, r) => PlusCount(p.req.attrv) = CountFrom(r)
        /\ s.kind # "plus" /\ ~SetBy(s, r) => PlusCount(p.req.attrv) = PlusCount(r.attrv)

LEMMA DialsIs ==
    ASSUME NEW r, IsRequest(r), NEW path, Sequence(path), NEW limit
    PROVE  /\ IsRequest(Dials(r, path, limit).req)
           /\ Dials(r, path, limit).addr = NoPath \/ Dials(r, path, limit).addr \in DOMAIN Site
           /\ Dials(r, path, limit).req.attrv = r.attrv
<1> DEFINE to == Split(path)
           q == [r EXCEPT !.path = to.rest]
<1>1. (to.addr = NoPath \/ to.addr \in DOMAIN Site) /\ Sequence(to.rest)
  BY SplitIs
<1>2. Dials(r, path, limit).req = q /\ Dials(r, path, limit).addr = to.addr
  BY DEF Dials
<1> HIDE DEF to
<1>3. DOMAIN q = DOMAIN r /\ q.path = to.rest /\ q.attrv = r.attrv
  BY DEF IsRequest
<1> HIDE DEF q
<1>4. IsRequest(q)
  BY <1>1, <1>3 DEF IsRequest
<1> QED
  BY <1>1, <1>2, <1>3, <1>4

LEMMA DialsPasses ==
    ASSUME NEW r, IsRequest(r), NEW path, Sequence(path), NEW limit, NEW s, s.kind \notin {"set", "plus"}
    PROVE  Passes(Dials(r, path, limit), r, s)
<1>1. s.kind # "plus" /\ ~SetBy(s, r)
  BY DEF SetBy
<1> QED
  BY <1>1, DialsIs DEF Passes

LEMMA SaysPasses ==
    /\ \A st, r, s : Passes(Says(st), r, s)
    /\ \A what, r, s : what # "dial" => Passes(Does(what), r, s)
BY DEF Passes, Says, Does

LEMMA RedirPasses ==
    ASSUME NEW a \in DOMAIN Site, Site[a].kind = "redir", NEW r, IsRequest(r)
    PROVE  Passes(Redir(Site[a], r), r, Site[a])
<1> DEFINE s == Site[a]
           i == SelectInSeq(Sections, LAMBDA x : x \in DOMAIN s.spath)
           I == {j \in 1..Len(Sections) : Sections[j] \in DOMAIN s.spath}
<1>1. i = IF I # {} THEN Min(I) ELSE 0
  BY DEF SelectInSeq
<1>2. I \subseteq Nat /\ \A j \in I : Sections[j] \in DOMAIN s.spath
  BY DEF Sections
<1>3. \/ Redir(s, r) = Does("mute") \/ Redir(s, r) = Does("silent")
      \/ i # 0 /\ Redir(s, r) = Dials(r, s.spath[Sections[i]] \o r.path, FALSE)
  BY DEF Redir
<1>4. s.kind = "redir" /\ \A x \in DOMAIN s.spath : Sequence(s.spath[x])
  BY SiteAssumption
<1> HIDE DEF s, i, I
<1>5. CASE Redir(s, r) = Does("mute") \/ Redir(s, r) = Does("silent")
  BY <1>5, SaysPasses DEF s
<1>6. CASE i # 0 /\ Redir(s, r) = Dials(r, s.spath[Sections[i]] \o r.path, FALSE)
  <2>1. i \in I
    <3>1. I # {} /\ i = Min(I)
      BY <1>1, <1>6
    <3>2. \E n \in I : \A m \in I : n <= m
      BY <1>2, <3>1, LeastNumber
    <3> QED
      BY <3>1, <3>2 DEF Min
  <2>2. Sequence(s.spath[Sections[i]])
    BY <1>2, <1>4, <2>1
  <2>3. Sequence(s.spath[Sections[i]] \o r.path)
    BY <2>2, ConcatIs DEF IsRequest
  <2> QED
    BY <1>4, <1>6, <2>3, DialsPasses DEF s
<1> QED
  BY <1>3, <1>5, <1>6

LEMMA MredirPasses ==
    ASSUME NEW a \in DOMAIN Site, Site[a].kind = "mredir", NEW r, IsRequest(r)
    PROVE  Passes(Mredir(Site[a], r), r, Site[a])
<1> DEFINE s == Site[a]
           to == s.spaths[r.path[1]] \o Tail(r.path)
<1>1. s.kind = "mredir" /\ \A x \in DOMAIN s.spaths : Sequence(s.spaths[x])
  BY SiteAssumption
<1> HIDE DEF s
<1>2. CASE r.path # <<>> /\ r.path[1] \in DOMAIN s.spaths
  <2>1. Sequence(s.spaths[r.path[1]]) /\ Sequence(Tail(r.path))
    BY <1>1, <1>2, TailIs DEF IsRequest
  <2>2. Sequence(to)
    BY <2>1, ConcatIs
  <2>3. Mredir(s, r) = Dials(r, to, FALSE)
    BY <1>2 DEF Mredir
  <2> QED
    BY <1>1, <2>2, <2>3, DialsPasses DEF s
<1>3. CASE ~(r.path # <<>> /\ r.path[1] \in DOMAIN s.spaths)
  <2>1. \E st : Mredir(s, r) = Says(st)
    BY <1>3 DEF Mredir
  <2> QED
    BY <2>1, SaysPasses DEF s
<1> QED
  BY <1>2, <1>3

LEMMA PassPasses ==
    ASSUME NEW s, s.kind = "pass", NEW r, IsRequest(r)
    PROVE  Passes(Pass(s, r), r, s)
<1>1. Pass(s, r) = Dials(r, r.path, FALSE) \/ \E st : Pass(s, r) = Says(st)
  BY DEF Pass
<1>2. Sequence(r.path)
  BY DEF IsRequest
<1> QED
  BY <1>1, <1>2, DialsPasses, SaysPasses

\* The settings of a request end before ".".
LEMMA SettingsIs ==
    ASSUME NEW r, IsRequest(r)
    PROVE  /\ Dot(r.path) \in Nat /\ Dot(r.path) <= Len(r.path)
           /\ Sequence(SettingsOf(r)) /\ Len(SettingsOf(r)) \in Nat
           /\ DOMAIN SettingsOf(r) = 1..Len(SettingsOf(r))
<1> DEFINE dot == Dot(r.path)
           I == {j \in 1..Len(r.path) : r.path[j] = "."}
           s == SettingsOf(r)
<1>1. Sequence(r.path)
  BY DEF IsRequest
<1>2. Len(r.path) \in Nat
  BY <1>1, LengthOf
<1>3. dot \in Nat /\ dot <= Len(r.path)
  <2>1. dot = IF I # {} THEN Min(I) ELSE 0
    BY DEF Dot, SelectInSeq
  <2>2. I \subseteq Nat /\ \A j \in I : j <= Len(r.path)
    BY <1>2
  <2> HIDE DEF dot, I
  <2>3. I # {} => Min(I) \in I
    <3>1. I # {} => \E n \in I : \A m \in I : n <= m
      BY <2>2, LeastNumber
    <3> QED
      BY <3>1 DEF Min
  <2>4. CASE I = {}
    BY <1>2, <2>1, <2>4
  <2>5. CASE I # {}
    <3>1. dot \in I
      BY <2>1, <2>3, <2>5
    <3> QED
      BY <2>2, <3>1
  <2> QED
    BY <2>4, <2>5
<1>4. Sequence(s)
  <2>1. dot # 0 => Sequence(SubSeq(r.path, 1, dot - 1))
    <3> HIDE DEF dot
    <3>1. dot - 1 \in Int /\ dot - 1 <= Len(r.path)
      BY <1>2, <1>3
    <3> QED
      BY <1>1, <3>1, SubSeqIs
  <2> QED
    BY <1>1, <2>1, TupleIs DEF SettingsOf
<1> HIDE DEF s
<1>5. Len(s) \in Nat
  BY <1>4, LengthOf
<1>6. DOMAIN s = 1..Len(s)
  <2>1. s \in [1..Len(s) -> Range(s)]
    BY <1>4, ElementsOf
  <2> QED
    BY <2>1
<1> QED
  BY <1>3, <1>4, <1>5, <1>6 DEF s

\* The last setting that names the count, when there is one.
LEMMA CountSetIs ==
    ASSUME NEW r, IsRequest(r)
    PROVE  LET s == SettingsOf(r)
           IN  /\ CountSet(r) = {} => NoneOf(s, Len(s))
               /\ CountSet(r) # {} => \E i \in 1..Len(s) :
                      LastOne(s, Len(s), i) /\ CountFrom(r) = Settings[s[i]].value
<1> DEFINE s == SettingsOf(r)
           C == CountSet(r)
           N == Len(s)
<1>1. N \in Nat /\ DOMAIN s = 1..N
  BY SettingsIs
<1>2. \A i : i \in C <=> i \in 1..N /\ Names(s[i])
  BY <1>1 DEF CountSet, Names
<1>3. CountFrom(r) = Settings[s[Max(C)]].value
  BY DEF CountFrom
<1> HIDE DEF s, C, N
<1>4. C = {} => NoneOf(s, N)
  BY <1>2 DEF NoneOf
<1>5. ASSUME C # {} PROVE Max(C) \in C /\ \A y \in C : Max(C) >= y
  <2> DEFINE D == {d \in 0..N : N - d \in C}
  <2>1. D \subseteq Nat
    OBVIOUS
  <2>2. D # {}
    <3>1. PICK i \in C : TRUE
      BY <1>5
    <3>2. i \in 1..N
      BY <1>2, <3>1
    <3>3. N - i \in 0..N /\ N - (N - i) = i
      BY <1>1, <3>2
    <3> QED
      BY <3>1, <3>3
  <2>3. PICK d \in D : \A e \in D : d <= e
    <3> HIDE DEF D
    <3> QED
      BY <2>1, <2>2, LeastNumber
  <2>4. d \in 0..N /\ N - d \in C
    BY <2>3
  <2>5. ASSUME NEW y \in C PROVE N - d >= y
    <3>1. y \in 1..N
      BY <1>2, <2>5
    <3>2. N - y \in 0..N /\ N - (N - y) = y
      BY <1>1, <3>1
    <3>3. N - y \in D
      BY <2>5, <3>2
    <3>4. d <= N - y
      BY <2>3, <3>3
    <3> QED
      BY <1>1, <2>4, <3>1, <3>4
  <2>6. \E x \in C : \A y \in C : x >= y
    BY <2>4, <2>5
  <2> QED
    BY <2>6 DEF Max
<1>6. ASSUME C # {} PROVE \E i \in 1..N : LastOne(s, N, i) /\ CountFrom(r) = Settings[s[i]].value
  <2> DEFINE i == Max(C)
  <2>1. i \in C /\ \A y \in C : i >= y
    BY <1>5, <1>6
  <2>2. CountFrom(r) = Settings[s[i]].value
    BY <1>3
  <2> HIDE DEF i
  <2>3. i \in 1..N /\ Names(s[i])
    BY <1>2, <2>1
  <2>4. ASSUME NEW j \in i + 1..N, Names(s[j]) PROVE FALSE
    <3>1. j \in 1..N /\ ~(i >= j)
      BY <1>1, <2>3, <2>4
    <3> QED
      BY <1>2, <2>1, <2>4, <3>1
  <2> QED
    BY <2>2, <2>3, <2>4 DEF LastOne
<1> QED
  BY <1>4, <1>6 DEF s, C, N

\* What a setting makes of the count is an int.
LEMMA CountFromIs ==
    ASSUME NEW r, IsRequest(r), CountSet(r) # {}
    PROVE  CountFrom(r) \in Int
<1> DEFINE s == SettingsOf(r)
<1>1. PICK i \in 1..Len(s) : LastOne(s, Len(s), i) /\ CountFrom(r) = Settings[s[i]].value
  BY CountSetIs
<1> HIDE DEF s
<1>2. Settings[s[i]].value \in CInt
  BY <1>1, CallAssumption DEF LastOne, Names
<1> QED
  BY <1>1, <1>2, ForwardAssumption DEF CInt

LEMMA SetPasses ==
    ASSUME NEW s, s.kind = "set", NEW r, IsRequest(r)
    PROVE  Passes(Set(s, r), r, s)
<1> DEFINE dot == Dot(r.path)
           settings == SettingsOf(r)
           made == Applied(r, settings)
           q == [r EXCEPT !.attrv = made.attrv, !.argv = made.argv]
<1>1. Sequence(r.path) /\ Sequence(r.attrv)
  BY DEF IsRequest
<1>2. dot \in Nat /\ Len(settings) \in Nat
  BY SettingsIs
<1>3. \/ \E st : Set(s, r) = Says(st)
      \/ made.ok /\ Set(s, r) = Dials(q, From(r.path, dot + 1), TRUE)
  BY DEF Set
<1>4. Made(made, r, settings, Len(settings))
  BY <1>1, <1>2, AppliedMakes
<1>5. /\ CountSet(r) = {} => NoneOf(settings, Len(settings))
      /\ CountSet(r) # {} => \E i \in 1..Len(settings) :
             LastOne(settings, Len(settings), i) /\ CountFrom(r) = Settings[settings[i]].value
  BY CountSetIs
<1> HIDE DEF dot, settings, made
<1>6. Sequence(made.attrv)
  BY <1>4 DEF Made
<1>7. made.ok => /\ CountSet(r) = {} => PlusCount(made.attrv) = PlusCount(r.attrv)
                 /\ CountSet(r) # {} => PlusCount(made.attrv) = CountFrom(r)
  BY <1>4, <1>5 DEF Made
<1>8. DOMAIN q = DOMAIN r /\ q.path = r.path /\ q.attrv = made.attrv
  BY DEF IsRequest
<1> HIDE DEF q
<1>9. IsRequest(q) /\ q.attrv = made.attrv
  BY <1>1, <1>6, <1>8 DEF IsRequest
<1>10. Sequence(From(r.path, dot + 1))
  BY <1>1, <1>2, FromIs
<1>11. ASSUME made.ok PROVE Passes(Dials(q, From(r.path, dot + 1), TRUE), r, s)
  <2> DEFINE d == Dials(q, From(r.path, dot + 1), TRUE)
  <2>1. IsRequest(d.req) /\ (d.addr = NoPath \/ d.addr \in DOMAIN Site) /\ d.req.attrv = q.attrv
    BY <1>9, <1>10, DialsIs
  <2>2. /\ SetBy(s, r) => PlusCount(d.req.attrv) = CountFrom(r)
        /\ ~SetBy(s, r) => PlusCount(d.req.attrv) = PlusCount(r.attrv)
    BY <1>7, <1>9, <1>11, <2>1 DEF SetBy
  <2> HIDE DEF d
  <2>3. Passes(d, r, s)
    BY <2>1, <2>2 DEF Passes
  <2> QED
    BY <2>3 DEF d
<1> QED
  BY <1>3, <1>11, SaysPasses

LEMMA PlusPasses ==
    ASSUME NEW a \in DOMAIN Site, Site[a].kind = "plus", NEW r, IsRequest(r)
    PROVE  Passes(Plus(a, r), r, Site[a])
<1> DEFINE dirs == Search[a]
           i == SelectInSeq(dirs, LAMBDA d : d \notin DOMAIN Site /\ Resolve(Append(d, r.path[1])) \in DOMAIN Site)
           I == {j \in 1..Len(dirs) : dirs[j] \notin DOMAIN Site /\ Resolve(Append(dirs[j], r.path[1])) \in DOMAIN Site}
           q == [r EXCEPT !.attrv = Counted(@)]
           low == ~(Raised(PlusCount(r.attrv)) > PlusMax)
<1>1. Sequence(dirs) /\ \A j \in DOMAIN dirs : Sequence(dirs[j])
  BY SiteAssumption
<1>2. i = IF I # {} THEN Min(I) ELSE 0
  BY DEF SelectInSeq
<1>3. \/ \E st : Plus(a, r) = Says(st)
      \/ low /\ i # 0 /\ Plus(a, r) = Dials(q, dirs[i] \o r.path, FALSE)
  BY DEF Plus
<1>4. Len(dirs) \in Nat /\ DOMAIN dirs = 1..Len(dirs)
  <2>1. Len(dirs) \in Nat
    BY <1>1, LengthOf
  <2>2. dirs \in [1..Len(dirs) -> Range(dirs)]
    BY <1>1, ElementsOf
  <2> HIDE DEF dirs
  <2> QED
    BY <2>1, <2>2
<1>5. I \subseteq Nat /\ I \subseteq 1..Len(dirs)
  BY <1>4
<1>6. Sequence(r.path) /\ Sequence(r.attrv)
  BY DEF IsRequest
<1>7. Sequence(Counted(r.attrv)) /\ PlusCount(Counted(r.attrv)) = Raised(PlusCount(r.attrv))
  BY <1>6, CountedRaises
<1>8. DOMAIN q = DOMAIN r /\ q.path = r.path /\ q.attrv = Counted(r.attrv)
  BY DEF IsRequest
<1> HIDE DEF dirs, i, I, q
<1>9. IsRequest(q)
  BY <1>6, <1>7, <1>8 DEF IsRequest
<1>10. ASSUME low, i # 0 PROVE Passes(Dials(q, dirs[i] \o r.path, FALSE), r, Site[a])
  <2> DEFINE d == Dials(q, dirs[i] \o r.path, FALSE)
  <2>1. i \in I
    <3>1. I # {} /\ i = Min(I)
      BY <1>2, <1>10
    <3>2. \E n \in I : \A m \in I : n <= m
      BY <1>5, <3>1, LeastNumber
    <3> QED
      BY <3>1, <3>2 DEF Min
  <2>2. Sequence(dirs[i])
    BY <1>1, <1>4, <1>5, <2>1
  <2>3. Sequence(dirs[i] \o r.path)
    BY <1>6, <2>2, ConcatIs
  <2>4. IsRequest(d.req) /\ (d.addr = NoPath \/ d.addr \in DOMAIN Site) /\ d.req.attrv = q.attrv
    BY <1>9, <2>3, DialsIs
  <2>5. PlusCount(d.req.attrv) = Raised(PlusCount(r.attrv)) /\ ~SetBy(Site[a], r)
    BY <1>7, <1>8, <2>4 DEF SetBy
  <2> HIDE DEF d
  <2>6. Passes(d, r, Site[a])
    BY <1>10, <2>4, <2>5 DEF Passes
  <2> QED
    BY <2>6 DEF d
<1> QED
  BY <1>3, <1>10, SaysPasses

LEMMA TargetPathIs ==
    ASSUME NEW a \in DOMAIN Site, Site[a].kind = "pnet", NEW r, IsRequest(r)
    PROVE  Sequence(TargetPath(Site[a], r))
<1> DEFINE s == Site[a]
           t == Target(s, IdIndex(s, r.path[2]))
           rest == From(r.path, 3)
           cgroup == IF t.cgroup = "" THEN <<>> ELSE <<"cgroup", t.cgroup>>
           x == <<r.path[2]>>
           y == <<t.userhost>>
           z == <<t.userhost, "+", "exec">>
<1>1. Sequence(s.relay)
  BY SiteAssumption
<1>2. Sequence(rest)
  BY FromIs DEF IsRequest
<1>3. Sequence(cgroup) /\ Sequence(x) /\ Sequence(y) /\ Sequence(z)
  BY TupleIs
<1>4. \/ TargetPath(s, r) = s.relay \o x \o rest
      \/ TargetPath(s, r) = rest
      \/ TargetPath(s, r) = s.relay \o y \o rest
      \/ TargetPath(s, r) = s.relay \o z \o cgroup \o rest
  BY DEF TargetPath, PathTo
<1> HIDE DEF rest, cgroup, x, y, z, t
<1>5. Sequence(s.relay \o x) /\ Sequence(s.relay \o y) /\ Sequence(s.relay \o z)
  BY <1>1, <1>3, ConcatIs
<1>6. Sequence(s.relay \o x \o rest) /\ Sequence(s.relay \o y \o rest)
  BY <1>2, <1>5, ConcatIs
<1>7. Sequence(s.relay \o z \o cgroup)
  BY <1>3, <1>5, ConcatIs
<1>8. Sequence(s.relay \o z \o cgroup \o rest)
  BY <1>2, <1>7, ConcatIs
<1> QED
  BY <1>2, <1>4, <1>6, <1>8

LEMMA PnetPasses ==
    ASSUME NEW a \in DOMAIN Site, Site[a].kind = "pnet", NEW r, IsRequest(r)
    PROVE  Passes(Pnet(Site[a], r), r, Site[a])
<1> DEFINE s == Site[a]
           node == Find("pnet", r.path)
           rest == Says(Fallback("pnet", node, r.op))
<1>1. \E st : rest = Says(st)
  OBVIOUS
<1>2. /\ Pnet(s, r) \in {rest, PnetRoute(s, r, rest), PnetTop(s, r, rest), PnetTarget(s, r, rest), PnetOther(s, r)}
  BY DEF Pnet
<1>3. Passes(PnetOther(s, r), r, s)
  <2>1. Sequence(TargetPath(s, r)) /\ s.kind \notin {"set", "plus"}
    BY TargetPathIs
  <2>2. PnetOther(s, r) = Does("mute") \/ PnetOther(s, r) = Dials(r, TargetPath(s, r), TRUE)
    BY DEF PnetOther
  <2> QED
    BY <2>1, <2>2, DialsPasses, SaysPasses
<1> HIDE DEF node, rest, s
<1>4. \E st : PnetRoute(s, r, rest) = Says(st)
  BY <1>1 DEF PnetRoute
<1>5. \E st : PnetTop(s, r, rest) = Says(st)
  BY <1>1 DEF PnetTop
<1>6. \E st : PnetTarget(s, r, rest) = Says(st)
  BY <1>1 DEF PnetTarget
<1>7. Passes(Pnet(s, r), r, s)
  BY <1>1, <1>2, <1>3, <1>4, <1>5, <1>6, SaysPasses
<1> QED
  BY <1>7 DEF s

\* Whatever a server is and is asked for.
LEMMA HandlePasses ==
    ASSUME NEW a \in DOMAIN Site, NEW r, IsRequest(r)
    PROVE  Passes(Handle(a, r), r, Site[a])
<1> DEFINE k == Site[a].kind
<1>1. k \in Kinds
  BY SiteAssumption
<1>2. CASE k = "redir"
  BY <1>2, RedirPasses DEF Handle
<1>3. CASE k = "mredir"
  BY <1>3, MredirPasses DEF Handle
<1>4. CASE k = "pass"
  BY <1>4, PassPasses DEF Handle
<1>5. CASE k = "set"
  BY <1>5, SetPasses DEF Handle
<1>6. CASE k = "plus"
  BY <1>6, PlusPasses DEF Handle
<1>7. CASE k = "pnet"
  BY <1>7, PnetPasses, SaysPasses DEF Handle
<1>8. CASE k \in {"service", "hang"}
  BY <1>8, SaysPasses DEF Handle
<1> QED
  BY <1>1, <1>2, <1>3, <1>4, <1>5, <1>6, <1>7, <1>8 DEF Kinds

-----------------------------------------------------------------------------
(* The chain.                                                              *)

Early == {"none", "idle", "new", "ready"}
Late == {"dial", "wait", "heard", "hup", "failed", "left", "say", "serve", "gone", "killed"}

\* A process is there when all those before it have dialed.
Chain(p) == \A h \in Hops, k \in 0..MaxHops : p[h] # "none" /\ k < h => p[k] \notin Early
\* A handler does what its server does with the request.
Planned(p, f, r, w) == \A h \in Hops : p[h] = "ready" => w[h] = Handle(f[h], r[h])
\* A request has the count it was last given, and one more for every plus server
\* it has been through since.
SetsIn(f, r, g) == g = 0 \/ SetBy(Site[f[g]], r[g])
SetIn(c, r, g) == IF g = 0 THEN PlusCount(c.attrv) ELSE CountFrom(r[g])
Since(c, f, r, g, h) == SetsIn(f, r, g) /\ (\A k \in g + 1..h - 1 : ~SetsIn(f, r, k)) /\ SetIn(c, r, g) # IntMax
PlusBetween(f, g, h) == {k \in g + 1..h - 1 : Site[f[k]].kind = "plus"}
Counts(c, f, r, g, h) ==
    /\ PlusCount(r[h].attrv) = SetIn(c, r, g) + Cardinality(PlusBetween(f, g, h))
    /\ PlusBetween(f, g, h) # {} => SetIn(c, r, g) + Cardinality(PlusBetween(f, g, h)) <= PlusMax
Carries(c, f, r, h) ==
    /\ f[h] \in DOMAIN Site /\ IsRequest(r[h])
    /\ \A g \in 0..h - 1 : Since(c, f, r, g, h) => Counts(c, f, r, g, h)
Carried(c, p, f, r) == \A h \in Hops : p[h] # "none" => Carries(c, f, r, h)

ForwardInv ==
    /\ call \in Calls
    /\ pc \in [0..MaxHops -> Early \cup Late]
    /\ srv = [h \in Hops |-> srv[h]] /\ req = [h \in Hops |-> req[h]] /\ plan = [h \in Hops |-> plan[h]]
    /\ Chain(pc) /\ Planned(pc, srv, req, plan) /\ Carried(call, pc, srv, req)

LEMMA PlusBetweenNext ==
    ASSUME NEW f, NEW g \in Nat, NEW h \in Nat, g < h
    PROVE  /\ Cardinality(PlusBetween(f, g, h)) \in Nat
           /\ Cardinality(PlusBetween(f, g, h)) = 0 <=> PlusBetween(f, g, h) = {}
           /\ Site[f[h]].kind = "plus" =>
                 Cardinality(PlusBetween(f, g, h + 1)) = Cardinality(PlusBetween(f, g, h)) + 1
           /\ Site[f[h]].kind # "plus" => PlusBetween(f, g, h + 1) = PlusBetween(f, g, h)
<1> DEFINE A == PlusBetween(f, g, h)
           B == PlusBetween(f, g, h + 1)
<1>1. IsFiniteSet(A)
  <2>1. IsFiniteSet(g + 1..h - 1)
    BY FS_Interval
  <2>2. A \subseteq g + 1..h - 1
    BY DEF PlusBetween
  <2> QED
    BY <2>1, <2>2, FS_Subset
<1>2. Cardinality(A) \in Nat /\ (Cardinality(A) = 0 <=> A = {})
  BY <1>1, FS_CardinalityType, FS_EmptySet
<1>3. h \notin A
  BY DEF PlusBetween
<1>4. B = IF Site[f[h]].kind = "plus" THEN A \cup {h} ELSE A
  <2>1. (h + 1) - 1 = h
    OBVIOUS
  <2>2. \A k : k \in g + 1..h <=> k \in g + 1..h - 1 \/ k = h
    OBVIOUS
  <2> QED
    BY <2>1, <2>2 DEF PlusBetween
<1> HIDE DEF A, B
<1>5. CASE Site[f[h]].kind = "plus"
  BY <1>1, <1>2, <1>3, <1>4, <1>5, FS_AddElement DEF A, B
<1>6. CASE Site[f[h]].kind # "plus"
  BY <1>2, <1>4, <1>6 DEF A, B
<1> QED
  BY <1>5, <1>6

\* What is said of a chain depends on its processes so far.
LEMMA CarriesSame ==
    ASSUME NEW c, NEW f, NEW e, NEW r, NEW q, NEW h \in Nat, 1 <= h,
           Carries(c, f, r, h), \A k \in 1..h : e[k] = f[k] /\ q[k] = r[k]
    PROVE  Carries(c, e, q, h)
<1>1. e[h] = f[h] /\ q[h] = r[h]
  OBVIOUS
<1>2. ASSUME NEW g \in 0..h - 1, Since(c, e, q, g, h) PROVE Counts(c, e, q, g, h)
  <2>1. g \in Nat /\ \A k \in g + 1..h - 1 : k \in 1..h /\ k # 0
    OBVIOUS
  <2>2. g # 0 => g \in 1..h
    OBVIOUS
  <2>3. (SetsIn(e, q, g) <=> SetsIn(f, r, g)) /\ SetIn(c, q, g) = SetIn(c, r, g)
    BY <2>2 DEF SetsIn, SetIn
  <2>4. \A k \in g + 1..h - 1 : SetsIn(e, q, k) <=> SetsIn(f, r, k)
    BY <2>1 DEF SetsIn
  <2>5. Since(c, f, r, g, h)
    BY <1>2, <2>3, <2>4 DEF Since
  <2>6. PlusBetween(e, g, h) = PlusBetween(f, g, h)
    BY <2>1 DEF PlusBetween
  <2>7. Counts(c, f, r, g, h)
    BY <2>5 DEF Carries
  <2> QED
    BY <1>1, <2>3, <2>6, <2>7 DEF Counts
<1>3. f[h] \in DOMAIN Site /\ IsRequest(r[h])
  BY DEF Carries
<1> QED
  BY <1>1, <1>2, <1>3 DEF Carries

\* The count that a call comes with is an int.
LEMMA CallCount ==
    ASSUME NEW c \in Calls
    PROVE  PlusCount(c.attrv) \in Int
<1>1. Sequence(c.attrv) /\ \A i \in DOMAIN c.attrv : c.attrv[i].name = CountName => c.attrv[i].value \in CInt
  BY CallAssumption
<1>2. c.attrv \in [1..Len(c.attrv) -> Range(c.attrv)] /\ Len(c.attrv) \in Nat
  BY <1>1, ElementsOf, LengthOf
<1>3. CASE FindPrefix(c.attrv, CountName) = -1
  BY <1>3 DEF PlusCount
<1>4. CASE \E n \in 1..Len(c.attrv) : FindPrefix(c.attrv, CountName) = n - 1 /\ c.attrv[n].name = CountName
  <2>1. PICK n \in 1..Len(c.attrv) : FindPrefix(c.attrv, CountName) = n - 1 /\ c.attrv[n].name = CountName
    BY <1>4
  <2>2. ~(n - 1 < 0) /\ (n - 1) + 1 = n
    BY <1>2
  <2>3. PlusCount(c.attrv) = c.attrv[n].value
    BY <2>1, <2>2 DEF PlusCount
  <2>4. c.attrv[n].value \in CInt
    BY <1>1, <1>2, <2>1
  <2> QED
    BY <2>3, <2>4, ForwardAssumption DEF CInt
<1> QED
  BY <1>1, <1>3, <1>4, FindIs

\* A chain of h processes, and another that begins with it.
CarriedTo(c, f, r, h) == \A k \in 1..h : Carries(c, f, r, k)
Extends(e, f, q, r, h) == \A k \in 1..h : e[k] = f[k] /\ q[k] = r[k]

\* A process that dials as planned passes the count on.
LEMMA CarriesOn ==
    ASSUME NEW c \in Calls, NEW f, NEW r, NEW q, NEW e, NEW h \in Nat, 1 <= h, NEW p,
           CarriedTo(c, f, r, h), Extends(e, f, q, r, h), Passes(p, r[h], Site[f[h]]), p.do = "dial", p.addr # NoPath,
           e[h + 1] = p.addr, q[h + 1] = p.req
    PROVE  Carries(c, e, q, h + 1)
<1>0. (\A k \in 1..h : Carries(c, f, r, k)) /\ \A k \in 1..h : e[k] = f[k] /\ q[k] = r[k]
  BY DEF CarriedTo, Extends
<1>1. e[h] = f[h] /\ q[h] = r[h] /\ Carries(c, e, q, h)
  BY <1>0, CarriesSame
<1>2. IsRequest(p.req) /\ p.addr \in DOMAIN Site
  BY DEF Passes
<1>3. PlusMax \in Nat /\ IntMax \in Nat /\ PlusMax < IntMax
  BY ForwardAssumption
<1> SUFFICES ASSUME NEW g \in 0..h, Since(c, e, q, g, h + 1)
             PROVE  Counts(c, e, q, g, h + 1)
  BY <1>2 DEF Carries
<1> DEFINE v == SetIn(c, q, g)
           n == Cardinality(PlusBetween(e, g, h))
           m == Cardinality(PlusBetween(e, g, h + 1))
           s == Site[e[h]]
           old == PlusCount(q[h].attrv)
           new == PlusCount(q[h + 1].attrv)
<1>4. v \in Int /\ v # IntMax /\ g \in Nat
  <2>1. CASE g = 0
    BY <2>1, CallCount DEF SetIn, Since
  <2>2. CASE g # 0
    <3>1. g \in 1..h /\ SetBy(Site[e[g]], q[g])
      BY <2>2 DEF Since, SetsIn
    <3>2. IsRequest(q[g]) /\ CountSet(q[g]) # {}
      BY <1>0, <3>1 DEF Carries, SetBy
    <3>3. CountFrom(q[g]) \in Int
      BY <3>2, CountFromIs
    <3> QED
      BY <2>2, <3>3 DEF SetIn, Since
  <2> QED
    BY <2>1, <2>2
<1>5. /\ s.kind = "plus" => new = Raised(old) /\ ~(Raised(old) > PlusMax)
      /\ SetBy(s, q[h]) => new = CountFrom(q[h])
      /\ s.kind # "plus" /\ ~SetBy(s, q[h]) => new = old
  BY <1>1 DEF Passes
<1>6. CASE g = h
  <2>1. PlusBetween(e, h, h + 1) = {}
    BY DEF PlusBetween
  <2>2. m = 0
    BY <1>6, <2>1, FS_EmptySet
  <2>3. SetBy(s, q[h]) /\ v = CountFrom(q[h])
    BY <1>6 DEF Since, SetsIn, SetIn
  <2> HIDE DEF v, m, new, s
  <2>4. new = v + m
    BY <1>4, <1>5, <2>2, <2>3
  <2> QED
    BY <1>6, <2>1, <2>4 DEF Counts, v, m, new
<1>7. CASE g # h
  <2>1. g \in 0..h - 1 /\ g < h
    BY <1>4, <1>7
  <2>2. Since(c, e, q, g, h) /\ ~SetsIn(e, q, h)
    <3>1. \A k \in g + 1..h - 1 : k \in g + 1..(h + 1) - 1
      BY <1>4
    <3>2. h \in g + 1..(h + 1) - 1
      BY <1>4, <2>1
    <3> QED
      BY <3>1, <3>2 DEF Since
  <2>3. Counts(c, e, q, g, h)
    BY <1>1, <2>1, <2>2 DEF Carries
  <2>4. old = v + n /\ (PlusBetween(e, g, h) # {} => v + n <= PlusMax)
    BY <2>3 DEF Counts
  <2>5. ~SetBy(s, q[h])
    BY <2>2 DEF SetsIn
  <2>6. /\ n \in Nat /\ (n = 0 <=> PlusBetween(e, g, h) = {})
        /\ s.kind = "plus" => m = n + 1
        /\ s.kind # "plus" => PlusBetween(e, g, h + 1) = PlusBetween(e, g, h)
    BY <1>4, <2>1, PlusBetweenNext
  <2>7. CASE s.kind = "plus"
    <3> HIDE DEF v, n, m, old, new, s
    <3>1. old # IntMax
      BY <1>3, <1>4, <2>4, <2>6
    <3>2. Raised(old) = v + n + 1
      BY <1>4, <2>4, <2>6, <3>1 DEF Raised
    <3>3. new = v + m /\ v + m <= PlusMax
      BY <1>3, <1>4, <1>5, <2>6, <2>7, <3>2
    <3> QED
      BY <3>3 DEF Counts, v, m, new
  <2>8. CASE s.kind # "plus"
    <3>1. PlusBetween(e, g, h + 1) = PlusBetween(e, g, h)
      BY <2>6, <2>8
    <3>2. new = old
      BY <1>5, <2>5, <2>8
    <3> QED
      BY <2>4, <3>1, <3>2 DEF Counts
  <2> QED
    BY <2>7, <2>8
<1> QED
  BY <1>6, <1>7

\* The request of the client has the count of the client.
LEMMA CarriesFirst ==
    ASSUME NEW c \in Calls, NEW e, NEW q, NEW d, d = Dials(Request(c), c.path, c.limit), d.addr # NoPath,
           e[1] = d.addr, q[1] = d.req
    PROVE  Carries(c, e, q, 1)
<1> DEFINE r == Request(c)
<1>1. Sequence(c.path) /\ Sequence(c.attrv)
  BY CallAssumption
<1>2. IsRequest(r) /\ r.attrv = c.attrv
  BY <1>1 DEF Request, IsRequest
<1> HIDE DEF r
<1>3. IsRequest(d.req) /\ d.addr \in DOMAIN Site /\ d.req.attrv = c.attrv
  <2>1. d = Dials(r, c.path, c.limit)
    BY DEF r
  <2> QED
    BY <1>1, <1>2, <2>1, DialsIs
<1>4. PlusCount(c.attrv) \in Int
  BY CallCount
<1>5. PlusBetween(e, 0, 1) = {} /\ Cardinality(PlusBetween(e, 0, 1)) = 0
  <2>1. PlusBetween(e, 0, 1) = {}
    BY DEF PlusBetween
  <2> QED
    BY <2>1, FS_EmptySet
<1>6. Counts(c, e, q, 0, 1)
  BY <1>3, <1>4, <1>5 DEF Counts, SetIn
<1>7. \A g \in 0..1 - 1 : g = 0
  OBVIOUS
<1> QED
  BY <1>3, <1>6, <1>7 DEF Carries

\* A step that dials nobody.
Quiet(h, p) ==
    /\ h \in 0..MaxHops /\ pc[h] # "none"
    /\ p \in Late /\ pc' = [pc EXCEPT ![h] = p]
    /\ UNCHANGED <<srv, req, plan>>

LEMMA HopsIs == \A h \in Hops : h \in 0..MaxHops /\ h \in Nat /\ 1 <= h
BY ForwardAssumption DEF Hops

LEMMA QuietStep ==
    ASSUME ForwardInv, UNCHANGED call, NEW h, NEW p, Quiet(h, p)
    PROVE  ForwardInv'
<1>1. \A k \in 0..MaxHops : pc'[k] = IF k = h THEN p ELSE pc[k]
  BY DEF ForwardInv, Quiet
<1>2. p \notin Early /\ p # "none" /\ p # "ready"
  BY DEF Quiet, Late, Early
<1>3. h \in 0..MaxHops /\ pc[h] # "none" /\ p \in Late /\ srv' = srv /\ req' = req /\ plan' = plan
  BY DEF Quiet
<1>4. pc' \in [0..MaxHops -> Early \cup Late]
  BY <1>3 DEF ForwardInv, Quiet
<1>5. \A k \in 0..MaxHops : pc'[k] # "none" => pc[k] # "none"
  BY <1>1, <1>3
<1>6. Chain(pc')
  BY <1>1, <1>2, <1>5, HopsIs DEF ForwardInv, Chain
<1>7. Planned(pc', srv', req', plan')
  BY <1>1, <1>2, <1>3, HopsIs DEF ForwardInv, Planned
<1>8. Carried(call, pc', srv', req')
  BY <1>3, <1>5, HopsIs DEF ForwardInv, Carried
<1> QED
  BY <1>3, <1>4, <1>6, <1>7, <1>8 DEF ForwardInv

\* A process begins.
LEMMA BeginStep ==
    ASSUME ForwardInv, UNCHANGED call, NEW h \in Hops, Begin(h)
    PROVE  ForwardInv'
<1>1. h \in 0..MaxHops
  BY HopsIs
<1>2. pc[h] = "new" /\ plan' = [plan EXCEPT ![h] = Handle(srv[h], req[h])] /\ srv' = srv /\ req' = req
  BY DEF Begin
<1>3. PICK p \in {"ready", "gone"} : pc' = [pc EXCEPT ![h] = p]
  BY DEF Begin, Goto
<1>4. \A k \in 0..MaxHops : pc'[k] = IF k = h THEN p ELSE pc[k]
  BY <1>1, <1>3 DEF ForwardInv
<1>5. p \in Early \cup Late /\ p # "none"
  BY <1>3 DEF Early, Late
<1>6. pc' \in [0..MaxHops -> Early \cup Late]
  BY <1>1, <1>3, <1>5 DEF ForwardInv
<1>7. \A k \in 0..MaxHops : pc'[k] # "none" => pc[k] # "none"
  BY <1>2, <1>4
<1>8. Chain(pc')
  <2> SUFFICES ASSUME NEW j \in Hops, NEW k \in 0..MaxHops, pc'[j] # "none", k < j
               PROVE  pc'[k] \notin Early
    BY DEF Chain
  <2>1. j \in 0..MaxHops
    BY HopsIs
  <2>2. pc[k] \notin Early
    BY <1>7, <2>1 DEF ForwardInv, Chain
  <2>3. k # h
    BY <1>2, <2>2 DEF Early
  <2> QED
    BY <1>4, <2>2, <2>3
<1>9. plan' = [k \in Hops |-> plan'[k]] /\ \A k \in Hops : plan'[k] = IF k = h THEN Handle(srv[h], req[h]) ELSE plan[k]
  BY <1>2 DEF ForwardInv
<1>10. Planned(pc', srv', req', plan')
  <2> SUFFICES ASSUME NEW k \in Hops, pc'[k] = "ready"
               PROVE  plan'[k] = Handle(srv[k], req[k])
    BY <1>2 DEF Planned
  <2>1. CASE k = h
    BY <1>9, <2>1
  <2>2. CASE k # h
    <3>1. pc[k] = "ready" /\ plan'[k] = plan[k]
      BY <1>4, <1>9, <2>2, HopsIs
    <3> QED
      BY <3>1 DEF ForwardInv, Planned
  <2> QED
    BY <2>1, <2>2
<1>11. Carried(call, pc', srv', req')
  BY <1>2, <1>7, HopsIs DEF ForwardInv, Carried
<1> QED
  BY <1>2, <1>6, <1>8, <1>9, <1>10, <1>11 DEF ForwardInv

\* A process dials the next.
LEMMA DialStep ==
    ASSUME ForwardInv, UNCHANGED call, NEW h \in 0..MaxHops, NEW d, DialTo(h, d), plan' = plan,
           pc[h] \in {"idle", "ready"},
           \A e, q : /\ e[h + 1] = d.addr /\ q[h + 1] = d.req
                     /\ \A k \in 1..h : e[k] = srv[k] /\ q[k] = req[k]
                     => Carries(call, e, q, h + 1)
    PROVE  ForwardInv'
<1>1. MaxHops \in Nat
  BY ForwardAssumption
<1>2. /\ d.addr # NoPath /\ h < MaxHops
      /\ pc' = [pc EXCEPT ![h] = "dial", ![h + 1] = "new"]
      /\ srv' = [srv EXCEPT ![h + 1] = d.addr]
      /\ req' = [req EXCEPT ![h + 1] = d.req]
  BY DEF DialTo
<1>3. h \in Nat /\ h + 1 \in Hops /\ h + 1 \in 0..MaxHops /\ h + 1 # h
  BY <1>1, <1>2 DEF Hops
<1>4. \A k \in 0..MaxHops : pc'[k] = IF k = h + 1 THEN "new" ELSE IF k = h THEN "dial" ELSE pc[k]
  BY <1>2, <1>3 DEF ForwardInv
<1>5. pc' \in [0..MaxHops -> Early \cup Late]
  <2>1. "new" \in Early \cup Late /\ "dial" \in Early \cup Late
    BY DEF Early, Late
  <2> QED
    BY <1>2, <1>3, <2>1 DEF ForwardInv
<1>6. /\ srv' = [k \in Hops |-> srv'[k]] /\ \A k \in Hops : srv'[k] = IF k = h + 1 THEN d.addr ELSE srv[k]
      /\ req' = [k \in Hops |-> req'[k]] /\ \A k \in Hops : req'[k] = IF k = h + 1 THEN d.req ELSE req[k]
  BY <1>2, <1>3 DEF ForwardInv
<1>7. \A j \in Hops : j > h => pc[j] = "none"
  <2> SUFFICES ASSUME NEW j \in Hops, j > h, pc[j] # "none" PROVE FALSE
    OBVIOUS
  <2>1. h < j
    BY <1>3, HopsIs
  <2>2. pc[h] \notin Early
    BY <2>1 DEF ForwardInv, Chain
  <2> QED
    BY <2>2 DEF Early
<1>8. \A j \in Hops : pc'[j] # "none" => j <= h + 1
  <2> SUFFICES ASSUME NEW j \in Hops, ~(j <= h + 1) PROVE pc'[j] = "none"
    OBVIOUS
  <2>1. j \in 0..MaxHops /\ j > h /\ j # h + 1 /\ j # h
    BY <1>3, HopsIs
  <2> QED
    BY <1>4, <1>7, <2>1
<1>9. \A j \in Hops : pc'[j] # "none" /\ j <= h => pc[j] # "none" /\ Carries(call, srv, req, j)
  <2> SUFFICES ASSUME NEW j \in Hops, pc'[j] # "none", j <= h PROVE pc[j] # "none"
    BY DEF ForwardInv, Carried
  <2>1. j \in 0..MaxHops /\ j # h + 1
    BY <1>3, HopsIs
  <2> QED
    BY <1>4, <2>1
<1>10. Chain(pc')
  <2> SUFFICES ASSUME NEW j \in Hops, NEW k \in 0..MaxHops, pc'[j] # "none", k < j
               PROVE  pc'[k] \notin Early
    BY DEF Chain
  <2>1. k \in Nat /\ j \in Nat /\ j \in 0..MaxHops
    BY <1>1, HopsIs
  <2>2. k <= h /\ k # h + 1
    BY <1>3, <1>8, <2>1
  <2>3. CASE k = h
    BY <1>4, <2>2, <2>3 DEF Early
  <2>4. CASE k # h
    <3>1. k < h /\ h \in Hops
      BY <1>1, <1>2, <1>3, <2>1, <2>2, <2>4 DEF Hops
    <3>2. pc[h] # "none"
      OBVIOUS
    <3>3. pc[k] \notin Early
      BY <3>1, <3>2 DEF ForwardInv, Chain
    <3> QED
      BY <1>4, <2>2, <2>4, <3>3
  <2> QED
    BY <2>3, <2>4
<1>11. Planned(pc', srv', req', plan')
  <2> SUFFICES ASSUME NEW k \in Hops, pc'[k] = "ready"
               PROVE  plan[k] = Handle(srv'[k], req'[k])
    BY DEF Planned
  <2>1. k # h + 1 /\ pc[k] = "ready"
    BY <1>4, HopsIs
  <2>2. plan[k] = Handle(srv[k], req[k])
    BY <2>1 DEF ForwardInv, Planned
  <2> QED
    BY <1>6, <2>1, <2>2
<1>12. Carried(call, pc', srv', req')
  <2> SUFFICES ASSUME NEW j \in Hops, pc'[j] # "none"
               PROVE  Carries(call, srv', req', j)
    BY DEF Carried
  <2>1. j \in Nat /\ 1 <= j /\ j <= MaxHops
    BY <1>1 DEF Hops
  <2>2. \A k \in 1..h : srv'[k] = srv[k] /\ req'[k] = req[k]
    <3>1. \A k \in 1..h : k \in Hops /\ k # h + 1
      BY <1>1, <1>2, <1>3 DEF Hops
    <3> QED
      BY <1>6, <3>1
  <2>3. CASE j = h + 1
    <3>1. srv'[h + 1] = d.addr /\ req'[h + 1] = d.req
      BY <1>3, <1>6
    <3>2. Carries(call, srv', req', h + 1)
      BY <2>2, <3>1
    <3> QED
      BY <2>3, <3>2
  <2>4. CASE j # h + 1
    <3>1. j <= h
      BY <1>3, <1>8, <2>1, <2>4
    <3>2. Carries(call, srv, req, j)
      BY <1>9, <3>1
    <3>3. \A k \in 1..j : srv'[k] = srv[k] /\ req'[k] = req[k]
      BY <1>3, <2>1, <2>2, <3>1
    <3> QED
      BY <2>1, <3>2, <3>3, CarriesSame
  <2> QED
    BY <2>3, <2>4
<1> QED
  BY <1>5, <1>6, <1>10, <1>11, <1>12 DEF ForwardInv

LEMMA ForwardInit == Init => ForwardInv
<1> SUFFICES ASSUME Init PROVE ForwardInv
  OBVIOUS
<1>1. \A h \in Hops : pc[h] = "none"
  <2>1. \A h \in Hops : h \in 0..MaxHops /\ h # 0
    BY HopsIs
  <2> QED
    BY <2>1 DEF Init
<1>2. call \in Calls /\ pc \in [0..MaxHops -> Early \cup Late]
  BY DEF Init, Early
<1>3. srv = [h \in Hops |-> srv[h]] /\ req = [h \in Hops |-> req[h]] /\ plan = [h \in Hops |-> plan[h]]
  BY DEF Init
<1>4. Chain(pc) /\ Planned(pc, srv, req, plan) /\ Carried(call, pc, srv, req)
  BY <1>1 DEF Chain, Planned, Carried
<1> QED
  BY <1>2, <1>3, <1>4 DEF ForwardInv

LEMMA StartStep ==
    ASSUME ForwardInv, UNCHANGED call, Start
    PROVE  ForwardInv'
<1> DEFINE d == Dials(Request(call), call.path, call.limit)
<1>1. DialTo(0, d) /\ plan' = plan /\ pc[0] = "idle" /\ d.addr # NoPath
  BY DEF Start, DialTo
<1>2. call \in Calls
  BY DEF ForwardInv
<1>3. 0 \in 0..MaxHops
  BY ForwardAssumption
<1>4. \A e, q : e[0 + 1] = d.addr /\ q[0 + 1] = d.req => Carries(call, e, q, 0 + 1)
  BY <1>1, <1>2, CarriesFirst
<1> HIDE DEF d
<1> QED
  BY <1>1, <1>3, <1>4, DialStep

LEMMA ForwardStep ==
    ASSUME ForwardInv, UNCHANGED call, NEW h \in Hops, Forward(h)
    PROVE  ForwardInv'
<1> DEFINE d == plan[h]
<1>1. DialTo(h, d) /\ plan' = plan /\ pc[h] = "ready" /\ d.do = "dial" /\ d.addr # NoPath
  BY DEF Forward, DialTo
<1>2. h \in 0..MaxHops /\ h \in Nat /\ 1 <= h
  BY HopsIs
<1>3. Carries(call, srv, req, h) /\ d = Handle(srv[h], req[h]) /\ call \in Calls
  BY <1>1 DEF ForwardInv, Carried, Planned
<1>4. srv[h] \in DOMAIN Site /\ IsRequest(req[h])
  BY <1>3 DEF Carries
<1>5. Passes(d, req[h], Site[srv[h]])
  BY <1>3, <1>4, HandlePasses
<1>6. \A k \in 1..h : Carries(call, srv, req, k)
  <2> SUFFICES ASSUME NEW k \in 1..h PROVE pc[k] # "none" /\ k \in Hops
    BY DEF ForwardInv, Carried
  <2>1. k \in Hops /\ k \in 0..MaxHops
    BY <1>2, ForwardAssumption DEF Hops
  <2>2. CASE k = h
    BY <1>1, <2>1, <2>2
  <2>3. CASE k # h
    <3>1. k < h
      BY <1>2, <2>3
    <3>2. pc[k] \notin Early
      BY <1>1, <2>1, <3>1 DEF ForwardInv, Chain
    <3> QED
      BY <2>1, <3>2 DEF Early
  <2> QED
    BY <2>2, <2>3
<1> HIDE DEF d
<1>7. ASSUME NEW e, NEW q, e[h + 1] = d.addr, q[h + 1] = d.req, \A k \in 1..h : e[k] = srv[k] /\ q[k] = req[k]
      PROVE  Carries(call, e, q, h + 1)
  <2>1. d.do = "dial" /\ d.addr # NoPath /\ call \in Calls
    BY <1>1, <1>3
  <2>2. CarriedTo(call, srv, req, h) /\ Extends(e, srv, q, req, h)
    BY <1>6, <1>7 DEF CarriedTo, Extends
  <2> QED
    BY <1>2, <1>5, <1>7, <2>1, <2>2, CarriesOn
<1> QED
  BY <1>1, <1>2, <1>7, DialStep

\* The other steps dial nobody.
LEMMA ClientQuiet ==
    ASSUME StartFail \/ ClientStep \/ Leave
    PROVE  \E p : Quiet(0, p)
<1>1. 0 \in 0..MaxHops
  BY ForwardAssumption
<1>2. CASE StartFail
  BY <1>1, <1>2 DEF StartFail, Goto, serverVars, Quiet, Late
<1>3. CASE Connected
  BY <1>1, <1>3 DEF Connected, Goto, Quiet, Late
<1>4. CASE Lost
  BY <1>1, <1>4 DEF Lost, Goto, Quiet, Late
<1>5. CASE Timeout
  BY <1>1, <1>5 DEF Timeout, Goto, Quiet, Late
<1>6. CASE Hear
  BY <1>1, <1>6 DEF Hear, Goto, serverVars, Quiet, Late
<1>7. CASE HangUp
  BY <1>1, <1>7 DEF HangUp, Goto, serverVars, Quiet, Late
<1>8. CASE Leave
  BY <1>1, <1>8 DEF Leave, Goto, Quiet, Late
<1> QED
  BY <1>2, <1>3, <1>4, <1>5, <1>6, <1>7, <1>8 DEF ClientStep

LEMMA ServerQuiet ==
    ASSUME NEW h \in Hops,
           \/ AnswerSelf(h) \/ Say(h) \/ Mute(h) \/ Serve(h) \/ NoClient(h) \/ ForwardLost(h) \/ Splice(h)
           \/ ForwardFail(h) \/ ForwardTimeout(h) \/ Finish(h) \/ Kill(h)
    PROVE  \E p : Quiet(h, p)
<1>0. h \in 0..MaxHops
  BY HopsIs
<1>a. ASSUME NEW st, End(h, st), pc[h] # "none" PROVE \E p : Quiet(h, p)
  BY <1>0, <1>a DEF End, Goto, Quiet, Late
<1>1. CASE AnswerSelf(h)
  BY <1>0, <1>1 DEF AnswerSelf, Goto, Quiet, Late
<1>2. CASE Say(h)
  BY <1>a, <1>2 DEF Say
<1>3. CASE Mute(h)
  BY <1>0, <1>3 DEF Mute, Goto, serverVars, Quiet, Late
<1>4. CASE Serve(h)
  BY <1>0, <1>4 DEF Serve, Goto, serverVars, Quiet, Late
<1>5. CASE NoClient(h)
  BY <1>a, <1>5 DEF NoClient
<1>6. CASE ForwardLost(h)
  BY <1>0, <1>6 DEF ForwardLost, DialEnds, Goto, Quiet, Late
<1>7. CASE Splice(h)
  BY <1>0, <1>7 DEF Splice, Goto, Quiet, Late
<1>8. CASE ForwardFail(h)
  BY <1>0, <1>8 DEF ForwardFail, Goto, Quiet, Late
<1>9. CASE ForwardTimeout(h)
  BY <1>0, <1>9 DEF ForwardTimeout, DialEnds, Goto, Quiet, Late
<1>10. CASE Finish(h)
  BY <1>a, <1>10 DEF Finish
<1>11. CASE Kill(h)
  BY <1>0, <1>11 DEF Kill, Goto, Quiet, Late
<1> QED
  BY <1>1, <1>2, <1>3, <1>4, <1>5, <1>6, <1>7, <1>8, <1>9, <1>10, <1>11

LEMMA ForwardNext ==
    ASSUME ForwardInv, [Next]_vars
    PROVE  ForwardInv'
<1>1. CASE UNCHANGED vars
  <2>1. call' = call /\ pc' = pc /\ srv' = srv /\ req' = req /\ plan' = plan
    BY <1>1 DEF vars, state, serverVars
  <2>2. Chain(pc)' <=> Chain(pc)
    BY <2>1 DEF Chain
  <2>3. Planned(pc, srv, req, plan)' <=> Planned(pc, srv, req, plan)
    BY <2>1 DEF Planned
  <2>4. Carried(call, pc, srv, req)' <=> Carried(call, pc, srv, req)
    BY <2>1 DEF Carried
  <2> QED
    BY <2>1, <2>2, <2>3, <2>4 DEF ForwardInv
<1>2. ASSUME NEW h, UNCHANGED call, \E p : Quiet(h, p) PROVE ForwardInv'
  BY <1>2, QuietStep
<1>3. CASE UNCHANGED call /\ (StartFail \/ ClientStep \/ Leave)
  BY <1>2, <1>3, ClientQuiet
<1>4. CASE UNCHANGED call /\ Start
  BY <1>4, StartStep
<1>5. ASSUME NEW h \in Hops, UNCHANGED call,
             Begin(h) \/ Step(h) \/ ForwardFail(h) \/ ForwardTimeout(h) \/ Finish(h) \/ Kill(h)
      PROVE  ForwardInv'
  <2>1. CASE Begin(h)
    BY <1>5, <2>1, BeginStep
  <2>2. CASE Forward(h)
    BY <1>5, <2>2, ForwardStep
  <2>3. CASE ~Begin(h) /\ ~Forward(h)
    <3>1. \E p : Quiet(h, p)
      BY <1>5, <2>3, ServerQuiet DEF Step
    <3> QED
      BY <1>2, <1>5, <3>1
  <2> QED
    BY <2>1, <2>2, <2>3
<1> QED
  BY <1>1, <1>3, <1>4, <1>5 DEF Next

\* The chain of every dial: who is before whom, what a handler is to do, and the
\* count each request has.
THEOREM ForwardAlways == Spec => []ForwardInv
<1>1. Init => ForwardInv
  BY ForwardInit
<1>2. ForwardInv /\ [Next]_vars => ForwardInv'
  BY ForwardNext
<1> QED
  BY <1>1, <1>2, PTL DEF Spec

\* From the value it was last given, the loop count is raised by every pass through
\* the plus server and changed by no other server, and no pass goes beyond
\* PLUS_COUNT_MAX: a loop comes to an end unless a russset in it names the count, or
\* the count was given as INT_MAX (russplus_server.c, svc_subroot_handler()).
THEOREM PlusBoundedAlways == Spec => []PlusBounded
<1>1. ForwardInv => PlusBounded
  <2> SUFFICES ASSUME ForwardInv, NEW h \in Hops, pc[h] # "none", NEW g \in 0..h - 1,
                      Sets(g), \A k \in g + 1..h - 1 : ~Sets(k), SetTo(g) # IntMax
               PROVE  LET passes == {k \in g + 1..h - 1 : Kind(k) = "plus"}
                      IN  /\ PlusCount(req[h].attrv) = SetTo(g) + Cardinality(passes)
                          /\ passes # {} => SetTo(g) + Cardinality(passes) <= PlusMax
    BY DEF PlusBounded
  <2>1. Carries(call, srv, req, h)
    BY DEF ForwardInv, Carried
  <2>2. {k \in g + 1..h - 1 : Kind(k) = "plus"} = PlusBetween(srv, g, h)
    BY DEF Kind, PlusBetween
  <2>3. SetTo(g) = SetIn(call, req, g)
    BY DEF SetTo, SetIn
  <2>4. Since(call, srv, req, g, h)
    BY <2>3 DEF Since, Sets, SetsIn
  <2>5. Counts(call, srv, req, g, h)
    BY <2>1, <2>4 DEF Carries
  <2> QED
    BY <2>2, <2>3, <2>5 DEF Counts
<1> QED
  BY <1>1, ForwardAlways, PTL
=============================================================================
