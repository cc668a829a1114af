-------------------------- MODULE RussRelayProofs --------------------------
(***************************************************************************)
(* Proofs about RussRelay, for any number of streams, bytes and buffer     *)
(* sizes: no byte is lost, repeated or moved out of order while a stream   *)
(* runs, and a stream that was ended without an error was handed on whole. *)
(*                                                                         *)
(* Byte k of a source is the number k, so a run of bytes is known by the   *)
(* number before its first: the invariant says at which number each of the *)
(* four places between source and sink begins, and that the last ends with *)
(* what was sent.                                                          *)
(***************************************************************************)
EXTENDS RussRelay, FiniteSetTheorems, SequenceTheorems, TLAPS

-----------------------------------------------------------------------------
(* Runs of bytes.                                                          *)

\* s is the run of bytes that follows byte a.
After(s, a) == \A k \in 1..Len(s) : s[k] = a + k

LEMMA AfterEmpty == \A a : After(<<>>, a)
BY DEF After

LEMMA AfterAppend ==
    ASSUME NEW s \in Seq(Nat), NEW a \in Nat, After(s, a), NEW e, e = a + Len(s) + 1
    PROVE  After(Append(s, e), a) /\ Append(s, e) \in Seq(Nat) /\ Len(Append(s, e)) = Len(s) + 1
<1>1. Len(s) \in Nat /\ e \in Nat
  BY LenProperties
<1>2. /\ Append(s, e) \in Seq(Nat) /\ Len(Append(s, e)) = Len(s) + 1
      /\ \A k \in 1..Len(s) : Append(s, e)[k] = s[k]
      /\ Append(s, e)[Len(s) + 1] = e
  BY <1>1, AppendProperties
<1> QED
  BY <1>1, <1>2 DEF After

LEMMA AfterTail ==
    ASSUME NEW s \in Seq(Nat), NEW a \in Nat, After(s, a), s # <<>>
    PROVE  /\ Head(s) = a + 1 /\ After(Tail(s), a + 1)
           /\ Tail(s) \in Seq(Nat) /\ Len(Tail(s)) = Len(s) - 1 /\ Len(s) \in Nat \ {0}
<1>1. /\ Len(s) \in Nat \ {0} /\ Head(s) = s[1]
      /\ Tail(s) \in Seq(Nat) /\ Len(Tail(s)) = Len(s) - 1
      /\ \A k \in 1..Len(s) - 1 : Tail(s)[k] = s[k + 1]
  BY HeadTailProperties, LenProperties, EmptySeq
<1> QED
  BY <1>1 DEF After

LEMMA AfterConcat ==
    ASSUME NEW s \in Seq(Nat), NEW t \in Seq(Nat), NEW a \in Nat, After(s, a), After(t, a + Len(s))
    PROVE  After(s \o t, a) /\ s \o t \in Seq(Nat) /\ Len(s \o t) = Len(s) + Len(t)
<1>1. Len(s) \in Nat /\ Len(t) \in Nat
  BY LenProperties
<1>2. /\ s \o t \in Seq(Nat) /\ Len(s \o t) = Len(s) + Len(t)
      /\ \A k \in 1..Len(s) + Len(t) : (s \o t)[k] = IF k <= Len(s) THEN s[k] ELSE t[k - Len(s)]
  BY ConcatProperties
<1>3. ASSUME NEW k \in 1..Len(s) + Len(t) PROVE (s \o t)[k] = a + k
  <2>1. CASE k <= Len(s)
    BY <1>1, <1>2, <2>1 DEF After
  <2>2. CASE ~(k <= Len(s))
    <3>1. k - Len(s) \in 1..Len(t)
      BY <1>1, <2>2
    <3>2. t[k - Len(s)] = a + Len(s) + (k - Len(s))
      BY <3>1 DEF After
    <3> QED
      BY <1>1, <1>2, <2>2, <3>1, <3>2
  <2> QED
    BY <2>1, <2>2
<1> QED
  BY <1>2, <1>3 DEF After

LEMMA SubSeqOf ==
    ASSUME NEW s \in Seq(Nat), NEW m \in Nat \ {0}, NEW n \in Nat, m <= n + 1, n <= Len(s)
    PROVE  /\ SubSeq(s, m, n) \in Seq(Nat) /\ Len(SubSeq(s, m, n)) = n - m + 1
           /\ \A k \in 1..n - m + 1 : SubSeq(s, m, n)[k] = s[m + k - 1]
<1>1. \A k \in m..n : s[k] \in Nat
  <2>1. Len(s) \in Nat /\ \A k \in 1..Len(s) : s[k] \in Nat
    BY LenProperties
  <2> QED
    BY <2>1
<1>2. m \in Int /\ n \in Int
  OBVIOUS
<1>3. /\ SubSeq(s, m, n) \in Seq(Nat) /\ Len(SubSeq(s, m, n)) = IF m <= n THEN n - m + 1 ELSE 0
      /\ \A k \in 1..n - m + 1 : SubSeq(s, m, n)[k] = s[m + k - 1]
  BY <1>1, <1>2, SubSeqProperties
<1> QED
  BY <1>3

LEMMA AfterSubSeq ==
    ASSUME NEW s \in Seq(Nat), NEW a \in Nat, After(s, a),
           NEW m \in Nat \ {0}, NEW n \in Nat, m <= n + 1, n <= Len(s)
    PROVE  /\ After(SubSeq(s, m, n), a + m - 1)
           /\ SubSeq(s, m, n) \in Seq(Nat) /\ Len(SubSeq(s, m, n)) = n - m + 1
<1>1. /\ SubSeq(s, m, n) \in Seq(Nat) /\ Len(SubSeq(s, m, n)) = n - m + 1
      /\ \A k \in 1..n - m + 1 : SubSeq(s, m, n)[k] = s[m + k - 1]
  BY SubSeqOf
<1>2. \A k \in 1..n - m + 1 : m + k - 1 \in 1..Len(s)
  BY LenProperties
<1> QED
  BY <1>1, <1>2 DEF After

LEMMA AfterUpto ==
    ASSUME NEW s \in Seq(Nat), After(s, 0)
    PROVE  s = Upto(Len(s))
<1>1. Len(s) \in Nat
  BY LenProperties
<1>2. \A n \in Nat : Upto(n) \in Seq(Nat) /\ Len(Upto(n)) = n /\ \A k \in 1..n : Upto(n)[k] = k
  BY DEF Upto
<1>3. Upto(Len(s)) \in Seq(Nat) /\ Len(Upto(Len(s))) = Len(s)
  BY <1>1, <1>2
<1>4. ASSUME NEW k \in 1..Len(s) PROVE s[k] = Upto(Len(s))[k]
  <2>1. s[k] = 0 + k /\ k \in Nat
    BY <1>1 DEF After
  <2>2. Upto(Len(s))[k] = k
    BY <1>1, <1>2
  <2> QED
    BY <2>1, <2>2
<1> QED
  BY <1>3, <1>4, SeqEqual

-----------------------------------------------------------------------------
(* The invariant.                                                          *)

Buffers == [data : Seq(Nat), off : Nat]

RelayType ==
    /\ service \in Services
    /\ sent \in [Streams -> Nat]
    /\ src \in [Streams -> BOOLEAN]
    /\ inq \in [Streams -> Seq(Nat)]
    /\ rbuf \in [Streams -> Buffers]
    /\ outq \in [Streams -> Seq(Nat)]
    /\ got \in [Streams -> Seq(Nat)]
    /\ sink \in [Streams -> BOOLEAN]
    /\ mode \in [Streams -> {"rd", "wr", "off"}]
    /\ wopen \in [Streams -> BOOLEAN]
    /\ exitq \in {"open", "status", "closed"}
    /\ expoll \in BOOLEAN
    /\ nactive \in Int
    /\ phase \in {"poll", "scan", "write", "done", "timeout"}
    /\ idx \in Nat
    /\ ev \in [Streams -> {"none", "in", "hen", "out"}]
    /\ exev \in BOOLEAN
    /\ nev \in Int
    /\ wcnt \in Nat

\* Bytes of stream i's buffer that the write() under way has placed, bytes that
\* have left the relay, bytes that are still to be placed.
Placing(i) == IF phase = "write" /\ idx = i THEN wcnt ELSE 0
Passed(i) == Len(got[i]) + Len(outq[i])
Kept(i) == BufAvail(rbuf[i]) - Placing(i)

\* From its offset and w bytes on the buffer has the run that follows byte a.
Buffered(b, w, a) ==
    /\ w <= BufAvail(b)
    /\ \A k \in 1..Len(b.data) : b.off + w < k => b.data[k] = a + (k - b.off - w)

\* The bytes of a stream are where they should be.
Flow(i) ==
    /\ After(got[i], 0) /\ After(outq[i], Len(got[i]))
    /\ mode[i] # "off" =>
          /\ Buffered(rbuf[i], Placing(i), Passed(i))
          /\ After(inq[i], Passed(i) + Kept(i))
          /\ Passed(i) + Kept(i) + Len(inq[i]) = sent[i]
    /\ mode[i] = "rd" => rbuf[i] = BufNew

\* What poll found still holds of a stream the loop has not come to.
Found(i) ==
    /\ ev[i] = "in" => mode[i] = "rd"
    /\ ev[i] = "hen" => mode[i] = "rd" /\ inq[i] = <<>> /\ ~src[i]
    /\ ev[i] = "out" => mode[i] = "wr"

\* A stream that was removed, not by the end of the exit descriptor and with its
\* sink still there, has handed on everything.
Whole(i) == ~src[i] /\ inq[i] = <<>> /\ Passed(i) = sent[i]
Removed(i) ==
    /\ ~wopen[i] => mode[i] = "off"
    /\ mode[i] = "off" /\ sink[i] /\ (i \in Outputs \/ expoll) => Whole(i)

StreamInv(i) == Flow(i) /\ Found(i) /\ Removed(i)

\* The loop counts the descriptors it polls, and writes for a stream that asked.
Active == {i \in Streams : mode[i] # "off"}
Counting ==
    /\ nactive = Cardinality(Active) + (IF expoll THEN 1 ELSE 0)
    /\ phase = "write" => idx \in Streams /\ ev[idx] = "out"
    /\ phase = "done" => nactive = 0

RelayInv == RelayType /\ Counting /\ \A i \in Streams : StreamInv(i)

LEMMA StreamsFinite == IsFiniteSet(Streams) /\ Cardinality(Streams) = NStreams /\ Streams \subseteq Nat
<1>1. NStreams \in Nat /\ 0 \in Int /\ NStreams - 1 \in Int
  BY RelayAssumption
<1>2. /\ IsFiniteSet(0..NStreams - 1)
      /\ Cardinality(0..NStreams - 1) = IF 0 > NStreams - 1 THEN 0 ELSE NStreams - 1 - 0 + 1
  BY <1>1, FS_Interval
<1>3. Cardinality(0..NStreams - 1) = NStreams
  BY <1>1, <1>2
<1> QED
  BY <1>2, <1>3 DEF Streams

LEMMA RelayInit == Init => RelayInv
<1> SUFFICES ASSUME Init PROVE RelayInv
  OBVIOUS
<1>1. RelayType
  <2>1. BufNew \in Buffers /\ <<>> \in Seq(Nat)
    BY DEF BufNew, Buffers
  <2>2. /\ sent \in [Streams -> Nat] /\ rbuf \in [Streams -> Buffers]
        /\ inq \in [Streams -> Seq(Nat)] /\ outq \in [Streams -> Seq(Nat)] /\ got \in [Streams -> Seq(Nat)]
    BY <2>1 DEF Init
  <2>3. nactive \in Int
    BY RelayAssumption DEF Init, Polled
  <2>4. /\ src \in [Streams -> BOOLEAN] /\ sink \in [Streams -> BOOLEAN] /\ wopen \in [Streams -> BOOLEAN]
        /\ mode \in [Streams -> {"rd", "wr", "off"}] /\ ev \in [Streams -> {"none", "in", "hen", "out"}]
    BY DEF Init
  <2>5. expoll \in BOOLEAN /\ exev \in BOOLEAN
    BY DEF Init
  <2>6. /\ service \in Services /\ exitq \in {"open", "status", "closed"}
        /\ phase \in {"poll", "scan", "write", "done", "timeout"}
        /\ idx \in Nat /\ nev \in Int /\ wcnt \in Nat
    BY DEF Init
  <2> QED
    BY <2>2, <2>3, <2>4, <2>5, <2>6 DEF RelayType
<1>2. Counting
  <2>1. Active = Streams
    BY DEF Init, Active
  <2> QED
    BY <2>1, StreamsFinite DEF Init, Counting, Polled
<1>3. ASSUME NEW i \in Streams PROVE StreamInv(i)
  <2>1. rbuf[i] = BufNew /\ Placing(i) = 0 /\ Passed(i) = 0 /\ Kept(i) = 0
    BY <1>3 DEF Init, Placing, Passed, Kept, BufNew, BufAvail
  <2>2. Buffered(BufNew, 0, 0)
    BY DEF Buffered, BufNew, BufAvail
  <2>3. Flow(i)
    BY <1>3, <2>1, <2>2, AfterEmpty DEF Init, Flow
  <2> QED
    BY <1>3, <2>3 DEF Init, StreamInv, Found, Removed
<1> QED
  BY <1>1, <1>2, <1>3 DEF RelayInv

-----------------------------------------------------------------------------
(* Types.                                                                  *)

LEMMA BufTypes ==
    ASSUME NEW b \in Buffers
    PROVE  /\ BufNew \in Buffers /\ BufDrained(b) \in Buffers
           /\ Len(b.data) \in Nat /\ BufAvail(b) \in Int /\ BufRest(b) \in Seq(Nat)
           /\ \A n \in Nat : BufRepos(b, n) \in Buffers
<1>1. b.data \in Seq(Nat) /\ b.off \in Nat /\ Len(b.data) \in Nat
  BY LenProperties DEF Buffers
<1>2. BufNew \in Buffers
  BY DEF BufNew, Buffers
<1>3. \A n \in Nat : Lesser(b.off + n, Len(b.data)) \in Nat
  BY <1>1 DEF Lesser
<1>4. \A n \in Nat : BufRepos(b, n) \in Buffers
  BY <1>1, <1>3 DEF BufRepos, Buffers
<1>5. BufRest(b) \in Seq(Nat)
  <2>1. \A k \in b.off + 1..Len(b.data) : b.data[k] \in Nat
    BY <1>1, LenProperties
  <2>2. b.off + 1 \in Int /\ Len(b.data) \in Int
    BY <1>1
  <2> QED
    BY <2>1, <2>2, SubSeqProperties DEF BufRest
<1> QED
  BY <1>1, <1>2, <1>4, <1>5 DEF BufAvail, BufDrained

\* What is left of a buffer that is not overrun.
RestIs(b) ==
    /\ BufRest(b) \in Seq(Nat) /\ Len(BufRest(b)) = BufAvail(b)
    /\ \A k \in 1..BufAvail(b) : BufRest(b)[k] = b.data[b.off + k]

LEMMA PlaceBounds ==
    ASSUME NEW b \in Buffers, NEW w \in Nat, NEW r \in Int, NEW n \in 1..Lesser(BufAvail(b) - w, r)
    PROVE  n \in Nat \ {0} /\ n <= r /\ w + n <= BufAvail(b) /\ RestIs(b)
<1>1. /\ b.data \in Seq(Nat) /\ b.off \in Nat /\ Len(b.data) \in Nat /\ BufAvail(b) \in Int
  BY LenProperties, BufTypes DEF Buffers
<1> DEFINE x == BufAvail(b) - w
<1>2. x \in Int /\ n \in 1..Lesser(x, r)
  BY <1>1
<1>3. n \in Nat \ {0} /\ n <= r /\ n <= x
  <2> HIDE DEF x
  <2> QED
    BY <1>2 DEF Lesser
<1>4. w + n <= BufAvail(b)
  BY <1>1, <1>3
<1> DEFINE m == b.off + 1
           l == Len(b.data)
<1>5. m \in Nat \ {0} /\ l \in Nat /\ m <= l + 1 /\ l <= Len(b.data) /\ l - m + 1 = BufAvail(b)
  <2>1. BufAvail(b) = l - b.off
    BY DEF BufAvail
  <2> HIDE DEF l
  <2>2. l \in Nat
    BY <1>1 DEF l
  <2>3. b.off \in Nat /\ l - b.off >= 0
    BY <1>1, <1>3, <1>4, <2>1
  <2> QED
    BY <2>1, <2>2, <2>3, SMTT(30) DEF l
<1>6. BufRest(b) = SubSeq(b.data, m, l)
  BY DEF BufRest
<1>7. ASSUME NEW k \in Int PROVE m + k - 1 = b.off + k
  <2>1. b.off \in Int
    BY <1>1
  <2> QED
    BY <2>1
<1> HIDE DEF m, l, x
<1>8. Len(SubSeq(b.data, m, l)) = l - m + 1 /\ \A k \in 1..l - m + 1 : SubSeq(b.data, m, l)[k] = b.data[m + k - 1]
  BY <1>1, <1>5, SubSeqOf
<1>9. /\ Len(BufRest(b)) = BufAvail(b)
      /\ \A k \in 1..BufAvail(b) : BufRest(b)[k] = b.data[b.off + k]
  <2>1. ASSUME NEW k \in 1..BufAvail(b) PROVE BufRest(b)[k] = b.data[b.off + k]
    <3>1. BufRest(b)[k] = b.data[m + k - 1]
      BY <1>5, <1>6, <1>8
    <3>2. m + k - 1 = b.off + k
      BY <1>7
    <3> QED
      BY <3>1, <3>2
  <2> QED
    BY <1>5, <1>6, <1>8, <2>1
<1> QED
  BY <1>3, <1>4, <1>9, BufTypes DEF RestIs

\* Removing streams.
LEMMA RemoveType ==
    ASSUME RelayType, NEW S, Remove(S)
    PROVE  /\ mode' \in [Streams -> {"rd", "wr", "off"}] /\ rbuf' \in [Streams -> Buffers]
           /\ wopen' \in [Streams -> BOOLEAN] /\ inq' \in [Streams -> Seq(Nat)]
<1>1. BufNew \in Buffers
  BY DEF BufNew, Buffers
<1> QED
  BY <1>1 DEF RelayType, Remove

\* The stream the loop works on.
LEMMA ScanningAt ==
    ASSUME RelayType, NEW e, Scanning(e)
    PROVE  idx \in Streams /\ mode[idx] # "off" /\ ev[idx] = e /\ phase = "scan"
BY RelayAssumption DEF Scanning, RelayType, Streams

LEMMA HandledType ==
    ASSUME RelayType, Handled
    PROVE  /\ nev' \in Int /\ idx' \in Nat /\ phase' = "scan"
           /\ ev' \in [Streams -> {"none", "in", "hen", "out"}]
<1>1. nev' = nev - 1 /\ nev \in Int /\ idx' = idx + 1 /\ idx \in Nat
  BY DEF Handled, RelayType
<1>2. ev' \in [Streams -> {"none", "in", "hen", "out"}] /\ phase' = "scan"
  BY DEF Handled, RelayType
<1> QED
  BY <1>1, <1>2

LEMMA ScanEndType ==
    ASSUME RelayType, ScanEnd
    PROVE  RelayType'
<1>1. Cardinality(OnExit) \in Nat
  <2>1. OnExit \subseteq Streams
    BY RelayAssumption DEF OnExit
  <2> QED
    BY <2>1, StreamsFinite, FS_Subset, FS_CardinalityType
<1>2. /\ mode' \in [Streams -> {"rd", "wr", "off"}] /\ rbuf' \in [Streams -> Buffers]
      /\ wopen' \in [Streams -> BOOLEAN] /\ inq' \in [Streams -> Seq(Nat)]
      /\ expoll' \in BOOLEAN /\ nactive' \in Int
  <2>1. CASE Remove(OnExit) /\ expoll' = FALSE /\ nactive' = nactive - 1 - Cardinality(OnExit)
    <3>1. nactive' \in Int
      <4>1. nactive \in Int
        BY DEF RelayType
      <4> QED
        BY <1>1, <2>1, <4>1
    <3>2. expoll' \in BOOLEAN
      BY <2>1
    <3> QED
      BY <2>1, <3>1, <3>2, RemoveType
  <2>2. CASE UNCHANGED <<inq, rbuf, mode, wopen, expoll, nactive>>
    BY <2>2 DEF RelayType
  <2> QED
    BY <2>1, <2>2 DEF ScanEnd
<1>3. ev' \in [Streams -> {"none", "in", "hen", "out"}] /\ exev' \in BOOLEAN
  BY DEF ScanEnd
<1>4. /\ phase' = "poll" /\ nev' = 0 /\ idx' = 0
      /\ UNCHANGED <<envvars, outq, wcnt>>
  BY DEF ScanEnd
<1> QED
  BY <1>2, <1>3, <1>4 DEF RelayType, envvars

LEMMA TypeServe ==
    ASSUME RelayInv, Serve \/ WriteShort \/ PollTimeout
    PROVE  RelayType'
<1> USE DEF RelayInv, RelayType, envvars
<1>1. CASE Poll
  <2>1. \A i \in Streams : Revents(i) \in {"none", "in", "hen", "out"}
    BY DEF Revents
  <2>2. Eventful \subseteq Streams
    BY DEF Eventful
  <2>3. Cardinality(Eventful) \in Nat
    BY <2>2, StreamsFinite, FS_Subset, FS_CardinalityType
  <2>4. ExitRevents \in Nat
    BY DEF ExitRevents
  <2> QED
    BY <1>1, <2>1, <2>3, <2>4 DEF Poll
<1>2. CASE ServeEnd \/ Skip \/ PollTimeout
  BY <1>2 DEF ServeEnd, Skip, PollTimeout
<1>3. CASE Read
  <2>1. idx \in Streams
    BY <1>3, ScanningAt DEF Read
  <2>2. PICK n \in 1..Lesser(BufRoom(rbuf[idx]), Len(inq[idx])) :
           /\ rbuf' = [rbuf EXCEPT ![idx] = BufFill(@, SubSeq(inq[idx], 1, n))]
           /\ inq' = [inq EXCEPT ![idx] = SubSeq(@, n + 1, Len(@))]
    BY <1>3 DEF Read
  <2>3. n \in Nat \ {0} /\ n <= Len(inq[idx]) /\ Len(inq[idx]) \in Nat /\ inq[idx] \in Seq(Nat)
    BY <2>1, <2>2, LenProperties, RelayAssumption DEF Lesser, BufRoom, Buffers
  <2>4. SubSeq(inq[idx], 1, n) \in Seq(Nat) /\ SubSeq(inq[idx], n + 1, Len(inq[idx])) \in Seq(Nat)
    <3>1. SubSeq(inq[idx], 1, n) \in Seq(Nat)
      <4>1. 1 \in Nat \ {0} /\ n \in Nat /\ 1 <= n + 1
        BY <2>3
      <4> QED
        BY <2>3, <4>1, SubSeqOf
    <3>2. SubSeq(inq[idx], n + 1, Len(inq[idx])) \in Seq(Nat)
      <4>1. n + 1 \in Nat \ {0} /\ n + 1 <= Len(inq[idx]) + 1 /\ Len(inq[idx]) <= Len(inq[idx])
        BY <2>3
      <4> QED
        BY <2>3, <4>1, SubSeqOf
    <3> QED
      BY <3>1, <3>2
  <2>5. rbuf[idx].data \in Seq(Nat) /\ rbuf[idx].off \in Nat
    BY <2>1 DEF Buffers
  <2>6. SubSeq(rbuf[idx].data, 1, rbuf[idx].off) \in Seq(Nat)
    <3>1. mode[idx] = "rd"
      BY <1>3, <2>1, ScanningAt DEF Read, StreamInv, Found
    <3>2. rbuf[idx] = BufNew
      BY <2>1, <3>1 DEF StreamInv, Flow
    <3>3. SubSeq(<<>>, 1, 0) = <<>>
      OBVIOUS
    <3> QED
      BY <3>2, <3>3 DEF BufNew
  <2>7. BufFill(rbuf[idx], SubSeq(inq[idx], 1, n)) \in Buffers
    <3> DEFINE t == SubSeq(rbuf[idx].data, 1, rbuf[idx].off)
               u == SubSeq(inq[idx], 1, n)
    <3>1. t \o u \in Seq(Nat)
      <4>1. t \in Seq(Nat) /\ u \in Seq(Nat)
        BY <2>4, <2>6
      <4> HIDE DEF t, u
      <4> QED
        BY <4>1, ConcatProperties
    <3> HIDE DEF u
    <3>2. rbuf[idx] \in Buffers
      BY <2>1
    <3>3. [rbuf[idx] EXCEPT !.data = t \o u] \in Buffers
      <4> HIDE DEF t
      <4> QED
        BY <3>1, <3>2 DEF Buffers
    <3> QED
      BY <3>3 DEF BufFill, u
  <2> QED
    BY <1>3, <2>1, <2>2, <2>4, <2>7, HandledType DEF Read
<1>4. CASE ReadEnd \/ WriteError
  BY <1>4, RemoveType, HandledType, SMTT(30) DEF ReadEnd, WriteError
<1>5. CASE WriteStart
  BY <1>5 DEF WriteStart
<1>6. CASE WritePlace
  <2>1. idx \in Streams
    BY <1>6 DEF WritePlace, Counting
  <2>2. PICK n \in 1..Lesser(BufAvail(rbuf[idx]) - wcnt, Room - Len(outq[idx])) :
           /\ outq' = [outq EXCEPT ![idx] = @ \o SubSeq(BufRest(rbuf[idx]), wcnt + 1, wcnt + n)]
           /\ wcnt' = wcnt + n
    BY <1>6 DEF WritePlace
  <2>3. BufRest(rbuf[idx]) \in Seq(Nat)
    BY <2>1, BufTypes
  <2>4. n \in Nat /\ wcnt + n <= Len(BufRest(rbuf[idx]))
    <3>1. rbuf[idx] \in Buffers /\ wcnt \in Nat /\ Room - Len(outq[idx]) \in Int
      BY <2>1, LenProperties, RelayAssumption
    <3>2. n \in Nat \ {0} /\ wcnt + n <= BufAvail(rbuf[idx]) /\ Len(BufRest(rbuf[idx])) = BufAvail(rbuf[idx])
      BY <2>2, <3>1, PlaceBounds DEF RestIs
    <3> QED
      BY <3>2
  <2>5. SubSeq(BufRest(rbuf[idx]), wcnt + 1, wcnt + n) \in Seq(Nat)
    BY <2>3, <2>4, SubSeqOf, SMTT(30)
  <2>6. outq[idx] \o SubSeq(BufRest(rbuf[idx]), wcnt + 1, wcnt + n) \in Seq(Nat)
    BY <2>1, <2>5, ConcatProperties
  <2> QED
    <3>1. outq' \in [Streams -> Seq(Nat)] /\ wcnt' \in Nat
      BY <2>1, <2>2, <2>4, <2>6
    <3> QED
      BY <1>6, <3>1 DEF WritePlace
<1>7. CASE Placed
  <2>1. idx \in Streams
    BY <1>7 DEF Placed, Counting
  <2>2. BufDrained(BufRepos(rbuf[idx], wcnt)) \in Buffers
    BY <2>1, BufTypes
  <2>3. AfterWrite(BufRepos(rbuf[idx], wcnt)) \in {"rd", "wr", "off"}
    BY DEF AfterWrite
  <2> QED
    BY <1>7, <2>2, <2>3, HandledType DEF Placed
<1>8. CASE ScanEnd
  BY <1>8, ScanEndType
<1> QED
  BY <1>1, <1>2, <1>3, <1>4, <1>5, <1>6, <1>7, <1>8 DEF Serve, WriteReturn, WriteShort

LEMMA TypeEnvironment ==
    ASSUME RelayType, Environment
    PROVE  RelayType'
<1> USE DEF RelayType, loopvars
<1>1. ASSUME NEW i \in Streams, SourceWrite(i) PROVE RelayType'
  <2>1. Append(inq[i], sent[i] + 1) \in Seq(Nat)
    BY AppendProperties
  <2> QED
    BY <1>1, <2>1 DEF SourceWrite
<1>2. ASSUME NEW i \in Streams, SourceClose(i) PROVE RelayType'
  BY <1>2 DEF SourceClose
<1>3. ASSUME NEW i \in Streams, SinkRead(i) PROVE RelayType'
  <2>1. Append(got[i], Head(outq[i])) \in Seq(Nat) /\ Tail(outq[i]) \in Seq(Nat)
    BY <1>3, AppendProperties, HeadTailProperties DEF SinkRead
  <2> QED
    BY <1>3, <2>1 DEF SinkRead
<1>4. ASSUME NEW i \in Streams, SinkClose(i) PROVE RelayType'
  BY <1>4 DEF SinkClose
<1>5. CASE ExitStatus \/ ExitClose
  BY <1>5 DEF ExitStatus, ExitClose
<1> QED
  BY <1>1, <1>2, <1>3, <1>4, <1>5 DEF Environment

-----------------------------------------------------------------------------
(* What a step keeps of a stream it does not work on.                      *)

SameBytes(i) ==
    /\ sent'[i] = sent[i] /\ inq'[i] = inq[i] /\ rbuf'[i] = rbuf[i] /\ outq'[i] = outq[i]
    /\ got'[i] = got[i] /\ mode'[i] = mode[i] /\ Placing(i)' = Placing(i)
SameEnds(i) ==
    /\ src'[i] = src[i] /\ wopen'[i] = wopen[i]
    /\ (sink'[i] => sink[i]) /\ (expoll' => expoll)
SameFind(i) == ev'[i] \in {ev[i], "none"}

LEMMA FlowFrame ==
    ASSUME NEW i \in Streams, Flow(i), SameBytes(i)
    PROVE  Flow(i)'
<1>1. Passed(i)' = Passed(i) /\ Kept(i)' = Kept(i)
  BY DEF SameBytes, Passed, Kept
<1> QED
  BY <1>1 DEF SameBytes, Flow

LEMMA RemovedFrame ==
    ASSUME NEW i \in Streams, Removed(i), SameBytes(i), SameEnds(i)
    PROVE  Removed(i)'
<1>1. Passed(i)' = Passed(i)
  BY DEF SameBytes, Passed
<1> QED
  BY <1>1 DEF SameBytes, SameEnds, Removed, Whole, Outputs

LEMMA FoundFrame ==
    ASSUME NEW i \in Streams, Found(i), mode'[i] = mode[i], inq'[i] = inq[i],
           src'[i] = src[i], SameFind(i)
    PROVE  Found(i)'
BY DEF Found, SameFind

LEMMA StreamFrame ==
    ASSUME NEW i \in Streams, StreamInv(i), SameBytes(i), SameEnds(i), SameFind(i)
    PROVE  StreamInv(i)'
<1>1. mode'[i] = mode[i] /\ inq'[i] = inq[i] /\ src'[i] = src[i]
  BY DEF SameBytes, SameEnds
<1> QED
  BY <1>1, FlowFrame, RemovedFrame, FoundFrame DEF StreamInv

-----------------------------------------------------------------------------
(* The steps of the loop.                                                  *)

\* poll() and the steps that move no byte.
LEMMA PollStream ==
    ASSUME RelayInv, Poll \/ PollTimeout \/ ServeEnd \/ Skip \/ WriteStart, NEW i \in Streams
    PROVE  StreamInv(i)'
<1>1. StreamInv(i)
  BY DEF RelayInv
<1>2. CASE Poll
  <2>1. UNCHANGED <<sent, src, inq, rbuf, outq, got, sink, mode, wopen, expoll>> /\ ev'[i] = Revents(i)
    BY <1>2 DEF Poll
  <2>2. Placing(i)' = Placing(i)
    BY <1>2 DEF Poll, Placing
  <2>3. Flow(i)' /\ Removed(i)'
    BY <1>1, <2>1, <2>2, FlowFrame, RemovedFrame DEF SameBytes, SameEnds, StreamInv
  <2>4. Found(i)'
    BY <2>1 DEF Found, Revents
  <2> QED
    BY <2>3, <2>4 DEF StreamInv
<1>3. CASE PollTimeout \/ ServeEnd \/ Skip \/ WriteStart
  <2>1. UNCHANGED <<sent, src, inq, rbuf, outq, got, sink, mode, wopen, expoll, ev>>
    BY <1>3 DEF PollTimeout, ServeEnd, Skip, WriteStart
  <2>2. Placing(i)' = Placing(i)
    BY <1>3 DEF PollTimeout, ServeEnd, Skip, WriteStart, Scanning, Placing
  <2> QED
    BY <1>1, <2>1, <2>2, StreamFrame DEF SameBytes, SameEnds, SameFind
<1> QED
  BY <1>2, <1>3

\* The buffer takes the next bytes of the input.
LEMMA ReadStream ==
    ASSUME RelayInv, Read, NEW i \in Streams
    PROVE  StreamInv(i)'
<1>1. StreamInv(i) /\ RelayType
  BY DEF RelayInv
<1>2. idx \in Streams /\ ev[idx] = "in" /\ phase = "scan" /\ phase' = "scan"
  BY <1>1, ScanningAt DEF Read, Handled
<1>3. UNCHANGED <<envvars, outq, wopen, expoll>> /\ mode' = [mode EXCEPT ![idx] = "wr"]
      /\ ev' = [ev EXCEPT ![idx] = "none"]
  BY DEF Read, Handled
<1>4. PICK n \in 1..Lesser(BufRoom(rbuf[idx]), Len(inq[idx])) :
         /\ rbuf' = [rbuf EXCEPT ![idx] = BufFill(@, SubSeq(inq[idx], 1, n))]
         /\ inq' = [inq EXCEPT ![idx] = SubSeq(@, n + 1, Len(@))]
  BY DEF Read
<1>5. CASE i # idx
  <2>1. SameBytes(i) /\ SameEnds(i) /\ SameFind(i)
    BY <1>1, <1>2, <1>3, <1>4, <1>5 DEF SameBytes, SameEnds, SameFind, RelayType, Placing, envvars
  <2> QED
    BY <1>1, <2>1, StreamFrame
<1>6. CASE i = idx
  <2> DEFINE q == inq[i]
             p == Passed(i)
  <2>1. mode[i] = "rd" /\ rbuf[i] = BufNew
    BY <1>1, <1>2, <1>6 DEF StreamInv, Found, Flow
  <2>2. /\ q \in Seq(Nat) /\ Len(q) \in Nat /\ p \in Nat /\ sent[i] \in Nat
        /\ n \in Nat \ {0} /\ n <= Len(q)
    <3>1. q \in Seq(Nat) /\ Len(q) \in Nat /\ p \in Nat /\ sent[i] \in Nat
      BY <1>1, LenProperties DEF RelayType, Passed
    <3>2. BufRoom(rbuf[i]) \in Int
      BY <2>1, RelayAssumption DEF BufRoom, BufNew
    <3> QED
      BY <1>4, <1>6, <3>1, <3>2 DEF Lesser
  <2>3. /\ rbuf'[i] = [data |-> SubSeq(q, 1, n), off |-> 0]
        /\ inq'[i] = SubSeq(q, n + 1, Len(q)) /\ mode'[i] = "wr" /\ ev'[i] = "none"
        /\ UNCHANGED <<sent, src, outq, got, sink, wopen, expoll>>
    <3>1. SubSeq(q, 1, n) \in Seq(Nat)
      BY <2>2, SubSeqOf
    <3>2. BufFill(BufNew, SubSeq(q, 1, n)) = [data |-> SubSeq(q, 1, n), off |-> 0]
      <4>1. SubSeq(<<>>, 1, 0) \o SubSeq(q, 1, n) = SubSeq(q, 1, n)
        BY <3>1, SubSeqEmpty, ConcatEmptySeq
      <4>2. BufNew.data = <<>> /\ BufNew.off = 0
        BY DEF BufNew
      <4>3. BufFill(BufNew, SubSeq(q, 1, n)) = [BufNew EXCEPT !.data = SubSeq(q, 1, n)]
        BY <4>1, <4>2 DEF BufFill
      <4> QED
        BY <4>3 DEF BufNew
    <3> QED
      BY <1>1, <1>3, <1>4, <1>6, <2>1, <3>2 DEF RelayType, envvars
  <2>4. Placing(i) = 0 /\ Placing(i)' = 0 /\ Passed(i)' = p
    BY <1>2, <2>3 DEF Placing, Passed
  <2>5. After(q, p) /\ p + Len(q) = sent[i]
    <3>1. Kept(i) = 0
      BY <2>1, <2>4 DEF Kept, BufNew, BufAvail
    <3> QED
      BY <1>1, <2>1, <2>2, <3>1 DEF StreamInv, Flow
  <2>6. Len(SubSeq(q, 1, n)) = n /\ After(SubSeq(q, 1, n), p)
    BY <2>2, <2>5, AfterSubSeq
  <2>7. Len(SubSeq(q, n + 1, Len(q))) = Len(q) - n /\ After(SubSeq(q, n + 1, Len(q)), p + n)
    <3>1. n + 1 \in Nat \ {0} /\ n + 1 <= Len(q) + 1 /\ Len(q) <= Len(q)
      BY <2>2
    <3>2. /\ After(SubSeq(q, n + 1, Len(q)), p + (n + 1) - 1)
          /\ Len(SubSeq(q, n + 1, Len(q))) = Len(q) - (n + 1) + 1
      BY <2>2, <2>5, <3>1, AfterSubSeq
    <3>3. p + (n + 1) - 1 = p + n /\ Len(q) - (n + 1) + 1 = Len(q) - n
      BY <2>2
    <3> QED
      BY <3>2, <3>3
  <2> HIDE DEF q, p
  <2>8. BufAvail(rbuf[i])' = n /\ Kept(i)' = n
    BY <2>2, <2>3, <2>4, <2>6 DEF BufAvail, Kept
  <2>9. Buffered(rbuf[i], Placing(i), Passed(i))'
    BY <2>2, <2>3, <2>4, <2>6, <2>8 DEF Buffered, After
  <2>10. Passed(i)' + Kept(i)' + Len(inq'[i]) = sent'[i] /\ After(inq'[i], Passed(i)' + Kept(i)')
    <3>1. Passed(i)' + Kept(i)' = p + n /\ sent'[i] = sent[i]
      BY <2>3, <2>4, <2>8
    <3>2. p + n + (Len(q) - n) = sent[i]
      BY <2>2, <2>5
    <3> QED
      BY <2>3, <2>7, <3>1, <3>2
  <2>11. Flow(i)'
    BY <1>1, <2>3, <2>9, <2>10 DEF StreamInv, Flow
  <2>12. Found(i)' /\ Removed(i)'
    BY <1>1, <2>1, <2>3 DEF StreamInv, Found, Removed
  <2> QED
    BY <2>11, <2>12 DEF StreamInv
<1> QED
  BY <1>5, <1>6

\* A stream that is removed keeps what it handed on.
LEMMA RemovedStream ==
    ASSUME RelayInv, NEW S, Remove(S), NEW i \in Streams, i \in S,
           UNCHANGED <<sent, src, outq, got>>, sink'[i] => sink[i], ev'[i] = "none",
           (sink[i] /\ (i \in Outputs \/ expoll')) => Whole(i)
    PROVE  StreamInv(i)'
<1>1. StreamInv(i) /\ RelayType
  BY DEF RelayInv
<1>2. mode'[i] = "off" /\ (inq'[i] = <<>> \/ inq'[i] = inq[i]) /\ Passed(i)' = Passed(i)
  BY <1>1 DEF Remove, Passed
<1>3. Flow(i)' /\ Found(i)'
  BY <1>1, <1>2 DEF StreamInv, Flow, Found
<1>4. Whole(i) => Whole(i)'
  BY <1>2 DEF Whole
<1>5. Removed(i)'
  BY <1>2, <1>4 DEF Removed, Outputs
<1> QED
  BY <1>3, <1>5 DEF StreamInv

LEMMA KeptStream ==
    ASSUME RelayInv, NEW S, Remove(S), NEW i \in Streams, i \notin S,
           UNCHANGED <<sent, src, outq, got, sink>>, expoll' => expoll,
           ev'[i] \in {ev[i], "none"}, Placing(i)' = Placing(i)
    PROVE  StreamInv(i)'
<1>1. StreamInv(i) /\ RelayType
  BY DEF RelayInv
<1>2. mode'[i] = mode[i] /\ rbuf'[i] = rbuf[i] /\ inq'[i] = inq[i] /\ wopen'[i] = wopen[i]
  BY <1>1 DEF Remove, RelayType
<1> QED
  BY <1>1, <1>2, StreamFrame DEF SameBytes, SameEnds, SameFind

\* The end of the input: all of it was handed on.
LEMMA ReadEndStream ==
    ASSUME RelayInv, ReadEnd, NEW i \in Streams
    PROVE  StreamInv(i)'
<1>1. StreamInv(i) /\ RelayType
  BY DEF RelayInv
<1>2. /\ idx \in Streams /\ phase = "scan" /\ phase' = "scan" /\ Remove({idx})
      /\ ev[idx] = "hen" \/ (ev[idx] = "in" /\ BufRoom(rbuf[idx]) = 0)
  BY <1>1, ScanningAt DEF ReadEnd, Handled
<1>3. UNCHANGED <<sent, src, got, sink, outq, expoll>> /\ ev' = [ev EXCEPT ![idx] = "none"]
  BY DEF ReadEnd, Handled, envvars
<1>4. CASE i # idx
  <2>1. ev'[i] = ev[i] /\ Placing(i)' = Placing(i)
    BY <1>1, <1>2, <1>3, <1>4 DEF RelayType, Placing
  <2> QED
    BY <1>2, <1>3, <1>4, <2>1, KeptStream
<1>5. CASE i = idx
  <2>1. mode[i] = "rd" /\ rbuf[i] = BufNew
    BY <1>1, <1>2, <1>5 DEF StreamInv, Found, Flow
  <2>2. ev[i] = "hen"
    <3>1. BufRoom(rbuf[i]) # 0
      BY <2>1, RelayAssumption DEF BufRoom, BufNew
    <3> QED
      BY <1>2, <1>5, <3>1
  <2>3. Whole(i)
    <3>1. ~src[i] /\ inq[i] = <<>>
      BY <1>1, <2>2 DEF StreamInv, Found
    <3>2. Kept(i) = 0
      BY <1>2, <2>1 DEF Kept, Placing, BufNew, BufAvail
    <3>3. Passed(i) + 0 + 0 = sent[i]
      BY <1>1, <2>1, <3>1, <3>2 DEF StreamInv, Flow
    <3>4. Passed(i) \in Nat
      BY <1>1, LenProperties DEF RelayType, Passed
    <3> QED
      BY <3>1, <3>3, <3>4 DEF Whole
  <2>4. ev'[i] = "none"
    BY <1>1, <1>3, <1>5 DEF RelayType
  <2> QED
    BY <1>2, <1>3, <1>5, <2>3, <2>4, RemovedStream
<1> QED
  BY <1>4, <1>5

\* The sink is gone.
LEMMA WriteErrorStream ==
    ASSUME RelayInv, WriteError, NEW i \in Streams
    PROVE  StreamInv(i)'
<1>1. StreamInv(i) /\ RelayType
  BY DEF RelayInv
<1>2. /\ idx \in Streams /\ phase = "write" /\ wcnt = 0 /\ phase' = "scan" /\ Remove({idx}) /\ ~sink[idx]
  BY DEF WriteError, Handled, RelayInv, Counting
<1>3. UNCHANGED <<sent, src, got, sink, outq, expoll>> /\ ev' = [ev EXCEPT ![idx] = "none"]
  BY DEF WriteError, Handled, envvars
<1>4. CASE i # idx
  <2>1. ev'[i] = ev[i] /\ Placing(i)' = Placing(i)
    BY <1>1, <1>2, <1>3, <1>4 DEF RelayType, Placing
  <2> QED
    BY <1>2, <1>3, <1>4, <2>1, KeptStream
<1>5. CASE i = idx
  <2>1. ev'[i] = "none"
    BY <1>1, <1>3, <1>5 DEF RelayType
  <2> QED
    BY <1>2, <1>3, <1>5, <2>1, RemovedStream
<1> QED
  BY <1>4, <1>5

\* n bytes of a buffer, from w on, follow the run o.
LEMMA PlaceBytes ==
    ASSUME NEW b \in Buffers, NEW w \in Nat, NEW o \in Seq(Nat), NEW g \in Nat, After(o, g),
           Buffered(b, w, g + Len(o)), NEW n \in Nat \ {0}, w + n <= BufAvail(b), RestIs(b)
    PROVE  /\ After(o \o SubSeq(BufRest(b), w + 1, w + n), g)
           /\ Len(o \o SubSeq(BufRest(b), w + 1, w + n)) = Len(o) + n
           /\ Buffered(b, w + n, g + Len(o) + n)
<1> DEFINE t == SubSeq(BufRest(b), w + 1, w + n)
           off == b.off
           l == Len(b.data)
           p == g + Len(o)
<1>1. off \in Nat /\ l \in Nat /\ p \in Nat /\ Len(o) \in Nat /\ BufAvail(b) = l - off
  BY LenProperties DEF Buffers, BufAvail
<1>2. /\ \A k \in 1..l : off + w < k => b.data[k] = p + (k - off - w)
      /\ BufRest(b) \in Seq(Nat) /\ Len(BufRest(b)) = BufAvail(b)
      /\ \A k \in 1..BufAvail(b) : BufRest(b)[k] = b.data[off + k]
  BY DEF Buffered, RestIs
<1> HIDE DEF off, l, p
<1>3. t \in Seq(Nat) /\ Len(t) = n /\ \A k \in 1..n : t[k] = BufRest(b)[w + k]
  <2>1. w + 1 \in Nat \ {0} /\ w + n \in Nat /\ w + 1 <= w + n + 1 /\ w + n <= Len(BufRest(b))
    BY <1>2
  <2>2. w + n - (w + 1) + 1 = n
    OBVIOUS
  <2>3. /\ t \in Seq(Nat) /\ Len(t) = w + n - (w + 1) + 1
        /\ \A k \in 1..w + n - (w + 1) + 1 : t[k] = BufRest(b)[w + 1 + k - 1]
    BY <1>2, <2>1, SubSeqOf
  <2>4. ASSUME NEW k \in 1..n PROVE t[k] = BufRest(b)[w + k]
    <3>1. w + 1 + k - 1 = w + k
      OBVIOUS
    <3>2. t[k] = BufRest(b)[w + 1 + k - 1]
      BY <2>2, <2>3
    <3> QED
      BY <3>1, <3>2
  <2> QED
    BY <2>2, <2>3, <2>4
<1> HIDE DEF t
<1>4. After(t, p)
  <2> SUFFICES ASSUME NEW k \in 1..n PROVE t[k] = p + k
    BY <1>3 DEF After
  <2>1. w + k \in 1..BufAvail(b)
    BY <1>1
  <2>2. off + (w + k) \in 1..l /\ off + w < off + (w + k)
    BY <1>1
  <2>3. off + (w + k) - off - w = k
    BY <1>1
  <2>4. t[k] = b.data[off + (w + k)]
    BY <1>2, <1>3, <2>1
  <2> DEFINE j == off + (w + k)
  <2>5. j \in 1..l /\ off + w < j /\ j - off - w = k /\ t[k] = b.data[j]
    BY <1>1, <2>2, <2>3, <2>4
  <2> HIDE DEF j
  <2>6. b.data[j] = p + (j - off - w)
    BY <1>2, <2>5
  <2> QED
    BY <2>5, <2>6
<1>5. After(o \o t, g) /\ Len(o \o t) = Len(o) + n
  <2>1. After(t, g + Len(o))
    BY <1>4 DEF p
  <2> QED
    BY <1>3, <2>1, AfterConcat
<1>6. Buffered(b, w + n, p + n)
  <2>1. ASSUME NEW k \in 1..l, off + (w + n) < k
        PROVE  b.data[k] = p + n + (k - off - (w + n))
    <3>1. off + w < k
      BY <1>1, <2>1
    <3>2. b.data[k] = p + (k - off - w)
      BY <1>2, <3>1
    <3>3. p + (k - off - w) = p + n + (k - off - (w + n))
      BY <1>1
    <3> QED
      BY <3>2, <3>3
  <2> QED
    BY <2>1 DEF Buffered, off, l
<1> QED
  BY <1>5, <1>6 DEF t, p

\* write() places the next bytes of the buffer.
LEMMA WritePlaceStream ==
    ASSUME RelayInv, WritePlace, NEW i \in Streams
    PROVE  StreamInv(i)'
<1>1. StreamInv(i) /\ RelayType
  BY DEF RelayInv
<1>2. /\ idx \in Streams /\ ev[idx] = "out" /\ phase = "write" /\ phase' = "write" /\ idx' = idx
      /\ UNCHANGED <<sent, src, got, sink, inq, rbuf, mode, wopen, expoll, ev>>
  BY DEF WritePlace, RelayInv, Counting, envvars
<1>3. PICK n \in 1..Lesser(BufAvail(rbuf[idx]) - wcnt, Room - Len(outq[idx])) :
         /\ outq' = [outq EXCEPT ![idx] = @ \o SubSeq(BufRest(rbuf[idx]), wcnt + 1, wcnt + n)]
         /\ wcnt' = wcnt + n
  BY DEF WritePlace
<1>4. CASE i # idx
  <2>1. outq'[i] = outq[i] /\ Placing(i)' = Placing(i)
    BY <1>1, <1>2, <1>3, <1>4 DEF RelayType, Placing
  <2> QED
    BY <1>1, <1>2, <2>1, StreamFrame DEF SameBytes, SameEnds, SameFind
<1>5. CASE i = idx
  <2> DEFINE b == rbuf[i]
             w == wcnt
             g == Len(got[i])
             o == outq[i]
             t == SubSeq(BufRest(b), w + 1, w + n)
             a == BufAvail(b)
  <2>1. /\ b \in Buffers /\ w \in Nat /\ BufRest(b) \in Seq(Nat) /\ o \in Seq(Nat)
        /\ Len(o) \in Nat /\ g \in Nat /\ a \in Int
    BY <1>1, LenProperties, BufTypes DEF RelayType
  <2>2. n \in Nat \ {0} /\ w + n <= BufAvail(b) /\ RestIs(b)
    <3>1. Room - Len(o) \in Int
      BY <2>1, RelayAssumption
    <3> QED
      BY <1>3, <1>5, <2>1, <3>1, PlaceBounds
  <2>3. Placing(i) = w /\ Placing(i)' = w + n /\ mode[i] = "wr" /\ outq'[i] = o \o t
    BY <1>1, <1>2, <1>3, <1>5 DEF Placing, StreamInv, Found, RelayType
  <2>4. /\ Buffered(b, w, g + Len(o)) /\ After(o, g) /\ After(got[i], 0)
        /\ After(inq[i], g + Len(o) + (a - w)) /\ g + Len(o) + (a - w) + Len(inq[i]) = sent[i]
    BY <1>1, <2>3 DEF StreamInv, Flow, Kept, Passed
  <2>5. rbuf'[i] = b /\ inq'[i] = inq[i] /\ got'[i] = got[i] /\ sent'[i] = sent[i] /\ mode'[i] = "wr"
    BY <1>2, <2>3
  <2> HIDE DEF b, w, g, o, a, t
  <2>6. After(o \o t, g) /\ Len(o \o t) = Len(o) + n /\ Buffered(b, w + n, g + Len(o) + n)
    <3>1. After(o, g) /\ Buffered(b, w, g + Len(o))
      BY <2>4
    <3>2. /\ After(o \o SubSeq(BufRest(b), w + 1, w + n), g)
          /\ Len(o \o SubSeq(BufRest(b), w + 1, w + n)) = Len(o) + n
          /\ Buffered(b, w + n, g + Len(o) + n)
      BY <2>1, <2>2, <3>1, PlaceBytes, SMTT(30)
    <3> QED
      BY <3>2 DEF t
  <2> USE DEF b, w, g, o, a, t
  <2>7. Passed(i)' = g + (Len(o) + n) /\ Kept(i)' = a - (w + n)
    <3>1. Passed(i)' = g + (Len(o) + n)
      BY <2>3, <2>5, <2>6 DEF Passed
    <3>2. Kept(i)' = a - (w + n)
      BY <2>3, <2>5 DEF Kept, BufAvail
    <3> QED
      BY <3>1, <3>2
  <2> HIDE DEF b, w, g, o, t, a
  <2>8. g + (Len(o) + n) = g + Len(o) + n /\ g + (Len(o) + n) + (a - (w + n)) = g + Len(o) + (a - w)
    BY <2>1, <2>2
  <2>9. Len(got'[i]) = g
    BY <2>5 DEF g
  <2>10. Flow(i)'
    BY <2>3, <2>4, <2>5, <2>6, <2>7, <2>8, <2>9 DEF Flow
  <2>11. Found(i)' /\ Removed(i)'
    BY <1>1, <1>2, <2>3, <2>5 DEF StreamInv, Found, Removed
  <2> QED
    BY <2>10, <2>11 DEF StreamInv
<1> QED
  BY <1>4, <1>5

\* The buffer after a write: what is left of it, or a new one.
LEMMA PlacedBytes ==
    ASSUME NEW b \in Buffers, NEW w \in Nat, NEW p \in Nat, Buffered(b, w, p)
    PROVE  LET c == BufRepos(b, w)
           IN  /\ BufAvail(BufDrained(c)) = BufAvail(b) - w /\ Buffered(BufDrained(c), 0, p)
               /\ AfterWrite(c) # "off" /\ (AfterWrite(c) = "rd" => BufDrained(c) = BufNew)
<1> DEFINE c == BufRepos(b, w)
           off == b.off
           l == Len(b.data)
<1>1. off \in Nat /\ l \in Nat /\ BufAvail(b) = l - off /\ w <= l - off
  BY LenProperties DEF Buffers, BufAvail, Buffered
<1>2. c.data = b.data /\ c.off = off + w
  <2>1. Lesser(off + w, l) = off + w
    <3> HIDE DEF off, l
    <3>1. off + w <= l
      BY <1>1
    <3> QED
      BY <1>1, <3>1 DEF Lesser
  <2> QED
    BY <2>1 DEF BufRepos, Buffers
<1>3. \A k \in 1..l : off + w < k => b.data[k] = p + (k - off - w)
  BY DEF Buffered
<1>4. BufAvail(c) = l - (off + w)
  BY <1>2 DEF BufAvail
<1> HIDE DEF c, off, l
<1>5. BufAvail(c) = BufAvail(b) - w
  BY <1>1, <1>4
<1>6. Buffered(c, 0, p)
  <2>1. ASSUME NEW k \in 1..l, off + w + 0 < k PROVE b.data[k] = p + (k - (off + w) - 0)
    <3>1. off + w < k /\ k - (off + w) - 0 = k - off - w
      BY <1>1, <2>1
    <3> QED
      BY <1>3, <3>1
  <2>2. 0 <= BufAvail(c)
    BY <1>1, <1>5
  <2> QED
    BY <1>2, <2>1, <2>2 DEF Buffered, l
<1>7. BufAvail(BufNew) = 0 /\ Buffered(BufNew, 0, p)
  BY DEF BufNew, BufAvail, Buffered
<1>8. CASE BufAvail(c) = 0
  BY <1>5, <1>7, <1>8 DEF BufDrained, AfterWrite, c
<1>9. CASE BufAvail(c) # 0
  BY <1>5, <1>6, <1>9 DEF BufDrained, AfterWrite, c
<1> QED
  BY <1>8, <1>9

LEMMA PlacedStream ==
    ASSUME RelayInv, Placed, NEW i \in Streams
    PROVE  StreamInv(i)'
<1>1. StreamInv(i) /\ RelayType
  BY DEF RelayInv
<1>2. /\ idx \in Streams /\ ev[idx] = "out" /\ phase = "write" /\ phase' = "scan"
      /\ UNCHANGED <<sent, src, got, sink, inq, outq, wopen, expoll>> /\ ev' = [ev EXCEPT ![idx] = "none"]
  BY DEF Placed, Handled, RelayInv, Counting, envvars
<1> DEFINE c == BufRepos(rbuf[idx], wcnt)
<1>3. rbuf' = [rbuf EXCEPT ![idx] = BufDrained(c)] /\ mode' = [mode EXCEPT ![idx] = AfterWrite(c)]
  BY DEF Placed
<1>4. CASE i # idx
  <2>1. rbuf'[i] = rbuf[i] /\ mode'[i] = mode[i] /\ ev'[i] = ev[i] /\ Placing(i)' = Placing(i)
    BY <1>1, <1>2, <1>3, <1>4 DEF RelayType, Placing
  <2> QED
    BY <1>1, <1>2, <2>1, StreamFrame DEF SameBytes, SameEnds, SameFind
<1>5. CASE i = idx
  <2>1. Placing(i) = wcnt /\ Placing(i)' = 0 /\ mode[i] = "wr" /\ Passed(i)' = Passed(i)
    BY <1>1, <1>2, <1>5 DEF Placing, StreamInv, Found, Passed
  <2>2. rbuf[i] \in Buffers /\ wcnt \in Nat /\ Passed(i) \in Nat /\ Buffered(rbuf[i], wcnt, Passed(i))
    <3>1. Passed(i) \in Nat
      BY <1>1, LenProperties DEF RelayType, Passed
    <3> QED
      BY <1>1, <2>1, <3>1 DEF RelayType, StreamInv, Flow
  <2>3. rbuf'[i] = BufDrained(c) /\ mode'[i] = AfterWrite(c) /\ c = BufRepos(rbuf[i], wcnt) /\ ev'[i] = "none"
    BY <1>1, <1>2, <1>3, <1>5 DEF RelayType
  <2> HIDE DEF c
  <2>4. /\ BufAvail(rbuf'[i]) = BufAvail(rbuf[i]) - wcnt /\ Buffered(rbuf'[i], 0, Passed(i))
        /\ mode'[i] # "off" /\ (mode'[i] = "rd" => rbuf'[i] = BufNew)
    BY <2>2, <2>3, PlacedBytes
  <2>5. Kept(i)' = Kept(i)
    <3>1. BufAvail(rbuf'[i]) \in Int
      BY <2>2, <2>4, BufTypes
    <3>2. Kept(i) = BufAvail(rbuf[i]) - wcnt /\ Kept(i)' = BufAvail(rbuf'[i]) - 0
      BY <2>1 DEF Kept, BufAvail
    <3> QED
      BY <2>4, <3>1, <3>2
  <2>6. Flow(i)'
    BY <1>1, <1>2, <2>1, <2>4, <2>5 DEF StreamInv, Flow
  <2>7. Found(i)' /\ Removed(i)'
    BY <1>1, <1>2, <2>1, <2>3, <2>4 DEF StreamInv, Found, Removed
  <2> QED
    BY <2>6, <2>7 DEF StreamInv
<1> QED
  BY <1>4, <1>5

\* The exit descriptor takes its streams with it.
LEMMA ScanEndStream ==
    ASSUME RelayInv, ScanEnd, NEW i \in Streams
    PROVE  StreamInv(i)'
<1>1. StreamInv(i)
  BY DEF RelayInv
<1>2. /\ phase = "scan" /\ phase' = "poll" /\ ev'[i] = "none"
      /\ UNCHANGED <<sent, src, got, sink, outq>>
  BY DEF ScanEnd, envvars
<1>3. Placing(i)' = Placing(i)
  BY <1>2 DEF Placing
<1>4. CASE Remove(OnExit) /\ expoll' = FALSE
  <2>1. ~expoll'
    BY <1>4
  <2>2. CASE i \in OnExit
    <3>1. i \notin Outputs
      BY <2>2 DEF OnExit, Outputs
    <3> QED
      BY <1>2, <1>4, <2>1, <2>2, <3>1, RemovedStream
  <2>3. CASE i \notin OnExit
    BY <1>2, <1>3, <1>4, <2>1, <2>3, KeptStream
  <2> QED
    BY <2>2, <2>3
<1>5. CASE UNCHANGED <<inq, rbuf, mode, wopen, expoll, nactive>>
  BY <1>1, <1>2, <1>3, <1>5, StreamFrame DEF SameBytes, SameEnds, SameFind
<1> QED
  BY <1>4, <1>5 DEF ScanEnd

-----------------------------------------------------------------------------
(* The steps of the environment.                                           *)

LEMMA EnvironmentStream ==
    ASSUME RelayInv, Environment, NEW i \in Streams
    PROVE  StreamInv(i)'
<1> USE DEF loopvars
<1>1. StreamInv(i) /\ RelayType
  BY DEF RelayInv
<1>2. UNCHANGED <<rbuf, mode, wopen, expoll, phase, idx, wcnt, ev>> /\ Placing(i)' = Placing(i)
  <2>1. UNCHANGED <<rbuf, mode, wopen, expoll, phase, idx, wcnt, ev>>
    BY DEF Environment, SourceWrite, SourceClose, SinkRead, SinkClose, ExitStatus, ExitClose
  <2> QED
    BY <2>1 DEF Placing
<1>3. /\ sent[i] \in Nat /\ inq[i] \in Seq(Nat) /\ outq[i] \in Seq(Nat) /\ got[i] \in Seq(Nat)
      /\ Len(inq[i]) \in Nat /\ Len(outq[i]) \in Nat /\ Len(got[i]) \in Nat /\ Passed(i) \in Nat
      /\ Kept(i) \in Int
  <2>1. Kept(i) \in Int
    <3>1. BufAvail(rbuf[i]) \in Int /\ Placing(i) \in Int
      BY <1>1, BufTypes DEF RelayType, Placing
    <3> QED
      BY <3>1 DEF Kept
  <2> QED
    BY <1>1, <2>1, LenProperties DEF RelayType, Passed
<1>4. ASSUME NEW k \in Streams, k # i,
             SourceWrite(k) \/ SourceClose(k) \/ SinkRead(k) \/ SinkClose(k)
      PROVE  StreamInv(i)'
  <2>1. /\ sent'[i] = sent[i] /\ inq'[i] = inq[i] /\ outq'[i] = outq[i] /\ got'[i] = got[i]
        /\ src'[i] = src[i] /\ sink'[i] = sink[i]
    BY <1>1, <1>4 DEF RelayType, SourceWrite, SourceClose, SinkRead, SinkClose
  <2> QED
    BY <1>1, <1>2, <2>1, StreamFrame DEF SameBytes, SameEnds, SameFind
<1>5. CASE SourceWrite(i)
  <2>1. /\ src[i] /\ sent'[i] = sent[i] + 1 /\ inq'[i] = Append(inq[i], sent[i] + 1)
        /\ UNCHANGED <<src, outq, got, sink>>
    BY <1>1, <1>5 DEF RelayType, SourceWrite
  <2>2. Passed(i)' = Passed(i) /\ Kept(i)' = Kept(i)
    BY <1>2, <2>1 DEF Passed, Kept
  <2>3. ASSUME mode[i] # "off"
        PROVE  After(inq'[i], Passed(i) + Kept(i)) /\ Passed(i) + Kept(i) + Len(inq'[i]) = sent'[i]
    <3> DEFINE a == Passed(i) + Kept(i)
               q == inq[i]
               e == sent[i] + 1
    <3>1. After(q, a) /\ a + Len(q) = sent[i] /\ Placing(i) <= BufAvail(rbuf[i])
      BY <1>1, <2>3 DEF StreamInv, Flow, Buffered
    <3>2. a \in Nat
      <4>1. BufAvail(rbuf[i]) \in Int /\ Placing(i) \in Int
        BY <1>1, BufTypes DEF RelayType, Placing
      <4>2. Kept(i) >= 0
        BY <3>1, <4>1 DEF Kept
      <4> QED
        BY <1>3, <4>2
    <3>3. q \in Seq(Nat) /\ Len(q) \in Nat /\ e = a + Len(q) + 1
      BY <1>3, <3>1
    <3> HIDE DEF a, q, e
    <3>4. After(Append(q, e), a) /\ Len(Append(q, e)) = Len(q) + 1
      BY <3>1, <3>2, <3>3, AfterAppend
    <3>5. a + Len(Append(q, e)) = e
      BY <3>2, <3>3, <3>4
    <3> QED
      BY <2>1, <3>4, <3>5 DEF a, q, e
  <2>4. Flow(i)'
    BY <1>1, <1>2, <2>1, <2>2, <2>3 DEF StreamInv, Flow
  <2>5. Found(i)' /\ Removed(i)'
    BY <1>1, <1>2, <2>1 DEF StreamInv, Found, Removed, Whole, Outputs
  <2> QED
    BY <2>4, <2>5 DEF StreamInv
<1>6. CASE SourceClose(i)
  <2>1. ~src'[i] /\ UNCHANGED <<sent, inq, outq, got, sink>>
    BY <1>1, <1>6 DEF RelayType, SourceClose
  <2>2. Flow(i)'
    BY <1>1, <1>2, <2>1, FlowFrame DEF StreamInv, SameBytes
  <2>3. Passed(i)' = Passed(i)
    BY <2>1 DEF Passed
  <2>4. Found(i)' /\ Removed(i)'
    BY <1>1, <1>2, <2>1, <2>3 DEF StreamInv, Found, Removed, Whole, Outputs
  <2> QED
    BY <2>2, <2>4 DEF StreamInv
<1>7. CASE SinkRead(i)
  <2>1. /\ outq[i] # <<>> /\ got'[i] = Append(got[i], Head(outq[i])) /\ outq'[i] = Tail(outq[i])
        /\ UNCHANGED <<sent, src, inq, sink>>
    BY <1>1, <1>7 DEF RelayType, SinkRead
  <2>2. After(got[i], 0) /\ After(outq[i], Len(got[i]))
    BY <1>1 DEF StreamInv, Flow
  <2>3. /\ Head(outq[i]) = Len(got[i]) + 1 /\ After(Tail(outq[i]), Len(got[i]) + 1)
        /\ Len(Tail(outq[i])) = Len(outq[i]) - 1
    BY <1>3, <2>1, <2>2, AfterTail
  <2>4. After(got'[i], 0) /\ Len(got'[i]) = Len(got[i]) + 1
    <3>1. Len(got[i]) + 1 = 0 + Len(got[i]) + 1
      BY <1>3
    <3>2. got[i] \in Seq(Nat) /\ Len(got[i]) \in Nat /\ 0 \in Nat
      BY <1>3
    <3>3. After(Append(got[i], Head(outq[i])), 0) /\ Len(Append(got[i], Head(outq[i]))) = Len(got[i]) + 1
      BY <2>2, <2>3, <3>1, <3>2, AfterAppend, SMTT(30)
    <3> QED
      BY <2>1, <3>3
  <2>5. Passed(i)' = Passed(i) /\ Kept(i)' = Kept(i)
    <3>1. Passed(i)' = Len(got[i]) + 1 + (Len(outq[i]) - 1)
      BY <2>1, <2>3, <2>4 DEF Passed
    <3>2. Len(got[i]) + 1 + (Len(outq[i]) - 1) = Len(got[i]) + Len(outq[i])
      <4>1. \A a, c \in Int : a + 1 + (c - 1) = a + c
        OBVIOUS
      <4>2. Len(got[i]) \in Int /\ Len(outq[i]) \in Int
        BY <1>3, <2>3
      <4> QED
        BY <4>1, <4>2
    <3>3. Passed(i)' = Passed(i)
      BY <3>1, <3>2 DEF Passed
    <3> QED
      BY <1>2, <3>3 DEF Kept
  <2>6. Flow(i)'
    BY <1>1, <1>2, <2>1, <2>3, <2>4, <2>5 DEF StreamInv, Flow
  <2>7. Found(i)' /\ Removed(i)'
    BY <1>1, <1>2, <2>1, <2>5 DEF StreamInv, Found, Removed, Whole, Outputs
  <2> QED
    BY <2>6, <2>7 DEF StreamInv
<1>8. CASE SinkClose(i) \/ ExitStatus \/ ExitClose
  <2>1. /\ UNCHANGED <<sent, src, inq, outq, got>>
        /\ sink'[i] => sink[i]
    BY <1>1, <1>8 DEF RelayType, SinkClose, ExitStatus, ExitClose
  <2> QED
    BY <1>1, <1>2, <2>1, StreamFrame DEF SameBytes, SameEnds, SameFind
<1> QED
  BY <1>4, <1>5, <1>6, <1>7, <1>8 DEF Environment

-----------------------------------------------------------------------------
(* The count of the descriptors.                                           *)

\* A step that polls the same descriptors.
LEMMA CountingSame ==
    ASSUME RelayInv, Active' = Active, expoll' <=> expoll, nactive' = nactive,
           phase' = "write" => idx' \in Streams /\ ev'[idx'] = "out",
           phase' = "done" => nactive' = 0
    PROVE  Counting'
BY DEF RelayInv, Counting

LEMMA ActiveFinite ==
    /\ IsFiniteSet(Active) /\ Cardinality(Active) \in Nat
    /\ \A S : S \subseteq Active => IsFiniteSet(S) /\ Cardinality(S) \in Nat
<1>1. Active \subseteq Streams
  BY DEF Active
<1>2. IsFiniteSet(Active)
  BY <1>1, StreamsFinite, FS_Subset
<1> QED
  BY <1>2, FS_Subset, FS_CardinalityType

\* A stream that is removed is one descriptor fewer.
LEMMA CountingRemove ==
    ASSUME RelayInv, Remove({idx}), idx \in Streams, mode[idx] # "off",
           nactive' = nactive - 1, UNCHANGED expoll, phase' = "scan"
    PROVE  Counting'
<1>1. Active' = Active \ {idx} /\ idx \in Active
  BY DEF Remove, Active
<1>2. Cardinality(Active') = Cardinality(Active) - 1
  BY <1>1, ActiveFinite, FS_RemoveElement
<1>3. nactive = Cardinality(Active) + (IF expoll THEN 1 ELSE 0)
  BY DEF RelayInv, Counting
<1>4. nactive' = Cardinality(Active') + (IF expoll' THEN 1 ELSE 0)
  BY <1>2, <1>3, ActiveFinite
<1> QED
  BY <1>4 DEF Counting

\* The end of the exit descriptor, and of the streams that close with it.
LEMMA CountingExit ==
    ASSUME RelayInv, Remove(OnExit), expoll, expoll' = FALSE,
           nactive' = nactive - 1 - Cardinality(OnExit), phase' = "poll"
    PROVE  Counting'
<1>1. Active' = Active \ OnExit /\ OnExit \subseteq Active
  BY RelayAssumption DEF Remove, Active, OnExit
<1>2. Active \cap OnExit = OnExit
  BY <1>1
<1>3. Cardinality(Active') = Cardinality(Active) - Cardinality(OnExit)
  BY <1>1, <1>2, ActiveFinite, FS_Difference
<1>4. nactive = Cardinality(Active) + 1
  BY DEF RelayInv, Counting
<1>5. Cardinality(Active) \in Nat /\ Cardinality(OnExit) \in Nat
  BY <1>1, ActiveFinite
<1>6. nactive' = Cardinality(Active') + 0
  BY <1>3, <1>4, <1>5
<1> QED
  BY <1>6 DEF Counting

LEMMA CountingNext ==
    ASSUME RelayInv, Next
    PROVE  Counting'
<1> USE DEF envvars, loopvars
<1>1. CASE Poll \/ PollTimeout \/ Skip
  <2>1. UNCHANGED <<mode, expoll, nactive>> /\ phase' \in {"scan", "timeout"}
    BY <1>1 DEF Poll, PollTimeout, Skip
  <2> QED
    BY <2>1, CountingSame DEF Active
<1>2. CASE ServeEnd
  <2>1. UNCHANGED <<mode, expoll, nactive>> /\ phase' = "done" /\ nactive = 0
    BY <1>2 DEF ServeEnd
  <2> QED
    BY <2>1, CountingSame DEF Active
<1>3. CASE Read
  <2>1. mode' = [mode EXCEPT ![idx] = "wr"] /\ UNCHANGED <<expoll, nactive>> /\ phase' = "scan"
    BY <1>3 DEF Read, Handled
  <2>2. idx \in Streams /\ mode[idx] # "off" /\ mode \in [Streams -> {"rd", "wr", "off"}]
    BY <1>3, ScanningAt DEF Read, RelayInv, RelayType
  <2>3. Active' = Active
    BY <2>1, <2>2 DEF Active
  <2> QED
    BY <2>1, <2>3, CountingSame
<1>4. CASE ReadEnd
  <2>1. /\ Remove({idx}) /\ nactive' = nactive - 1 /\ UNCHANGED expoll /\ phase' = "scan"
        /\ Scanning("hen") \/ Scanning("in")
    BY <1>4 DEF ReadEnd, Handled
  <2>2. idx \in Streams /\ mode[idx] # "off"
    BY <2>1, ScanningAt DEF RelayInv
  <2> QED
    BY <2>1, <2>2, CountingRemove
<1>5. CASE WriteStart
  <2>1. Scanning("out") /\ UNCHANGED <<mode, expoll, nactive, idx, ev>> /\ phase' = "write"
    BY <1>5 DEF WriteStart
  <2>2. idx \in Streams /\ ev[idx] = "out"
    BY <2>1, ScanningAt DEF RelayInv
  <2> QED
    BY <2>1, <2>2, CountingSame DEF Active
<1>6. CASE WritePlace
  <2>1. UNCHANGED <<mode, expoll, nactive, idx, ev, phase>>
    BY <1>6 DEF WritePlace
  <2>2. phase = "write" /\ idx \in Streams /\ ev[idx] = "out"
    BY <1>6 DEF WritePlace, RelayInv, Counting
  <2> QED
    BY <2>1, <2>2, CountingSame DEF Active
<1>7. CASE Placed
  <2>1. /\ mode' = [mode EXCEPT ![idx] = AfterWrite(BufRepos(rbuf[idx], wcnt))]
        /\ UNCHANGED <<expoll, nactive>> /\ phase' = "scan"
    BY <1>7 DEF Placed, Handled
  <2>2. idx \in Streams /\ mode[idx] = "wr" /\ mode \in [Streams -> {"rd", "wr", "off"}]
    BY <1>7 DEF Placed, RelayInv, RelayType, Counting, StreamInv, Found
  <2>3. AfterWrite(BufRepos(rbuf[idx], wcnt)) # "off"
    BY DEF AfterWrite
  <2>4. Active' = Active
    BY <2>1, <2>2, <2>3 DEF Active
  <2> QED
    BY <2>1, <2>4, CountingSame
<1>8. CASE WriteError
  <2>1. /\ Remove({idx}) /\ nactive' = nactive - 1 /\ UNCHANGED expoll /\ phase' = "scan" /\ phase = "write"
    BY <1>8 DEF WriteError, Handled
  <2>2. idx \in Streams /\ mode[idx] # "off"
    BY <2>1 DEF RelayInv, Counting, StreamInv, Found
  <2> QED
    BY <2>1, <2>2, CountingRemove
<1>9. CASE ScanEnd
  <2>1. CASE expoll /\ exev
    <3>1. Remove(OnExit) /\ expoll' = FALSE /\ nactive' = nactive - 1 - Cardinality(OnExit) /\ phase' = "poll"
      BY <1>9, <2>1 DEF ScanEnd
    <3> QED
      BY <2>1, <3>1, CountingExit
  <2>2. CASE ~(expoll /\ exev)
    <3>1. UNCHANGED <<mode, expoll, nactive>> /\ phase' = "poll"
      BY <1>9, <2>2 DEF ScanEnd
    <3> QED
      BY <3>1, CountingSame DEF Active
  <2> QED
    BY <2>1, <2>2
<1>10. CASE Environment
  <2>1. UNCHANGED <<mode, expoll, nactive, phase, idx, ev>>
    BY <1>10 DEF Environment, SourceWrite, SourceClose, SinkRead, SinkClose, ExitStatus, ExitClose
  <2> QED
    BY <2>1, CountingSame DEF Active, RelayInv, Counting
<1> QED
  BY <1>1, <1>2, <1>3, <1>4, <1>5, <1>6, <1>7, <1>8, <1>9, <1>10
  DEF Next, Serve, WriteReturn, WriteShort

-----------------------------------------------------------------------------
(* The invariant is kept.                                                  *)

LEMMA RelayNext == RelayInv /\ [Next]_vars => RelayInv'
<1> SUFFICES ASSUME RelayInv, [Next]_vars PROVE RelayInv'
  OBVIOUS
<1>1. CASE Next
  <2>1. RelayType'
    BY <1>1, TypeServe, TypeEnvironment DEF Next, RelayInv
  <2>2. Counting'
    BY <1>1, CountingNext
  <2>3. ASSUME NEW i \in Streams PROVE StreamInv(i)'
    <3>1. CASE Poll \/ PollTimeout \/ ServeEnd \/ Skip \/ WriteStart
      BY <2>3, <3>1, PollStream
    <3>2. CASE Read
      BY <2>3, <3>2, ReadStream
    <3>3. CASE ReadEnd
      BY <2>3, <3>3, ReadEndStream
    <3>4. CASE WritePlace
      BY <2>3, <3>4, WritePlaceStream
    <3>5. CASE Placed
      BY <2>3, <3>5, PlacedStream
    <3>6. CASE WriteError
      BY <2>3, <3>6, WriteErrorStream
    <3>7. CASE ScanEnd
      BY <2>3, <3>7, ScanEndStream
    <3>8. CASE Environment
      BY <2>3, <3>8, EnvironmentStream
    <3> QED
      BY <1>1, <3>1, <3>2, <3>3, <3>4, <3>5, <3>6, <3>7, <3>8 DEF Next, Serve, WriteReturn, WriteShort
  <2> QED
    BY <2>1, <2>2, <2>3 DEF RelayInv, Streams
<1>2. CASE UNCHANGED vars
  <2>1. RelayType'
    BY <1>2 DEF RelayInv, RelayType, vars, loopvars
  <2>2. Counting'
    BY <1>2 DEF RelayInv, Counting, Active, vars, loopvars
  <2>3. ASSUME NEW i \in Streams PROVE StreamInv(i)'
    <3>1. StreamInv(i)
      BY <2>3 DEF RelayInv
    <3>2. SameBytes(i) /\ SameEnds(i) /\ SameFind(i)
      BY <1>2 DEF SameBytes, SameEnds, SameFind, Placing, vars, loopvars
    <3> QED
      BY <2>3, <3>1, <3>2, StreamFrame
  <2> QED
    BY <2>1, <2>2, <2>3 DEF RelayInv, Streams
<1> QED
  BY <1>1, <1>2

\* The invariant holds in every state the relay reaches (relay.c, buf.c).
THEOREM RelayAlways == Spec => []RelayInv
<1>1. Init => RelayInv
  BY RelayInit
<1>2. RelayInv /\ [Next]_vars => RelayInv'
  BY RelayNext
<1> QED
  BY <1>1, <1>2, PTL DEF Spec

-----------------------------------------------------------------------------
(* What follows.                                                           *)

\* What the loop has not placed yet is the run that follows what left the relay.
LEMMA UnplacedRun ==
    ASSUME RelayInv, NEW i \in Streams, mode[i] # "off"
    PROVE  /\ Unplaced(i) \in Seq(Nat) /\ After(Unplaced(i), Passed(i))
           /\ Len(Unplaced(i)) = Kept(i)
<1> DEFINE b == rbuf[i]
           d == b.data
           o == b.off
           l == Len(d)
           w == Placing(i)
           p == Passed(i)
           m == o + 1 + w
<1>1. /\ b \in Buffers /\ d \in Seq(Nat) /\ o \in Nat /\ l \in Nat /\ w \in Nat /\ p \in Nat
      /\ BufAvail(b) = l - o
  BY LenProperties DEF RelayInv, RelayType, Buffers, Placing, Passed, BufAvail
<1>2. w <= l - o /\ \A k \in 1..l : o + w < k => d[k] = p + (k - o - w)
  BY <1>1 DEF RelayInv, StreamInv, Flow, Buffered
<1>3. Unplaced(i) = SubSeq(d, m, l)
  BY DEF Unplaced, Placing
<1>4. Kept(i) = l - o - w
  BY <1>1 DEF Kept
<1>5. l <= Len(d)
  BY <1>1
<1> HIDE DEF b, d, o, l, w, p
<1>6. m \in Nat \ {0} /\ m <= l + 1 /\ l - m + 1 = l - o - w
  BY <1>1, <1>2
<1>7. /\ SubSeq(d, m, l) \in Seq(Nat) /\ Len(SubSeq(d, m, l)) = l - m + 1
      /\ \A k \in 1..l - m + 1 : SubSeq(d, m, l)[k] = d[m + k - 1]
  <2> HIDE DEF m
  <2> QED
    BY <1>1, <1>5, <1>6, SubSeqOf
<1>8. ASSUME NEW k \in 1..l - m + 1 PROVE SubSeq(d, m, l)[k] = p + k
  <2> DEFINE j == m + k - 1
  <2>1. j \in 1..l /\ o + w < j /\ p + (j - o - w) = p + k
    BY <1>1, <1>6
  <2>2. SubSeq(d, m, l)[k] = d[j]
    BY <1>7
  <2> HIDE DEF j
  <2>3. d[j] = p + (j - o - w)
    BY <1>2, <2>1
  <2> QED
    BY <2>1, <2>2, <2>3
<1>9. After(SubSeq(d, m, l), p)
  BY <1>7, <1>8 DEF After
<1> QED
  BY <1>3, <1>4, <1>6, <1>7, <1>9 DEF p

\* Conserved: while a stream runs, what the sink has read, what is on its way to
\* it, what the buffer holds and what is on its way from the source are together
\* exactly what the source sent, through every fill, partial write and reset of
\* the buffer (russ_relay_serve(), buf.c); after its end the sink's part is a
\* beginning of it.
THEOREM ConservedAlways == Spec => []Conserved
<1>1. RelayInv => Conserved
  <2> SUFFICES ASSUME RelayInv, NEW i \in Streams
               PROVE  IF mode[i] # "off"
                      THEN got[i] \o outq[i] \o Unplaced(i) \o inq[i] = Upto(sent[i])
                      ELSE got[i] \o outq[i] = Upto(Len(got[i]) + Len(outq[i]))
    BY DEF Conserved
  <2>1. /\ got[i] \in Seq(Nat) /\ outq[i] \in Seq(Nat) /\ inq[i] \in Seq(Nat)
        /\ Len(got[i]) \in Nat /\ Len(outq[i]) \in Nat /\ Len(inq[i]) \in Nat
    BY LenProperties DEF RelayInv, RelayType
  <2>2. After(got[i], 0) /\ After(outq[i], Len(got[i]))
    BY DEF RelayInv, StreamInv, Flow
  <2> DEFINE s == got[i] \o outq[i]
  <2>3. s \in Seq(Nat) /\ After(s, 0) /\ Len(s) = Passed(i)
    <3>1. After(outq[i], 0 + Len(got[i]))
      BY <2>1, <2>2
    <3> QED
      BY <2>1, <2>2, <3>1, AfterConcat DEF Passed
  <2>4. CASE mode[i] = "off"
    <3>1. s = Upto(Len(s))
      BY <2>3, AfterUpto
    <3> QED
      BY <2>3, <2>4, <3>1 DEF Passed
  <2>5. CASE mode[i] # "off"
    <3>1. Unplaced(i) \in Seq(Nat) /\ After(Unplaced(i), Passed(i)) /\ Len(Unplaced(i)) = Kept(i)
      BY <2>5, UnplacedRun
    <3>2. After(inq[i], Passed(i) + Kept(i)) /\ Passed(i) + Kept(i) + Len(inq[i]) = sent[i]
      BY <2>5 DEF RelayInv, StreamInv, Flow
    <3> DEFINE u == Unplaced(i)
               q == inq[i]
               t == s \o u
    <3>3. u \in Seq(Nat) /\ q \in Seq(Nat) /\ Len(u) \in Nat /\ Len(s) \in Nat
      BY <2>1, <2>3, <3>1, LenProperties
    <3>4. After(u, 0 + Len(s))
      BY <2>3, <3>1, <3>3
    <3>5. After(q, Len(s) + Len(u)) /\ Len(s) + Len(u) + Len(q) = sent[i]
      BY <2>3, <3>1, <3>2
    <3> HIDE DEF s, u, q
    <3>6. t \in Seq(Nat) /\ After(t, 0) /\ Len(t) = Len(s) + Len(u)
      BY <2>3, <3>3, <3>4, AfterConcat
    <3>7. After(q, 0 + Len(t))
      BY <3>3, <3>5, <3>6
    <3> HIDE DEF t
    <3>8. t \o q \in Seq(Nat) /\ After(t \o q, 0) /\ Len(t \o q) = Len(t) + Len(q)
      BY <3>3, <3>6, <3>7, AfterConcat
    <3>9. t \o q = Upto(sent[i])
      BY <3>5, <3>6, <3>8, AfterUpto
    <3> QED
      BY <2>5, <3>9 DEF t, s, u, q
  <2> QED
    BY <2>4, <2>5
<1> QED
  BY <1>1, RelayAlways, PTL

\* OutputComplete: russ_relay_serve() returns without an error only when every
\* byte of every output stream was handed on, whether the output, its end or the
\* exit came first.
THEOREM OutputCompleteAlways == Spec => []OutputComplete
<1>1. RelayInv => OutputComplete
  <2> SUFFICES ASSUME RelayInv, phase = "done", NEW i \in Outputs, sink[i]
               PROVE  /\ ~src[i] /\ inq[i] = <<>>
                      /\ Len(got[i]) + Len(outq[i]) = sent[i]
    BY DEF OutputComplete
  <2>1. nactive = 0 /\ nactive = Cardinality(Active) + (IF expoll THEN 1 ELSE 0)
    BY DEF RelayInv, Counting
  <2>2. Cardinality(Active) = 0
    BY <2>1, ActiveFinite
  <2>3. Active = {}
    BY <2>2, ActiveFinite, FS_EmptySet
  <2>4. i \in Streams /\ mode[i] = "off"
    BY <2>3 DEF Active, Outputs
  <2>5. Whole(i)
    BY <2>4 DEF RelayInv, StreamInv, Removed
  <2> QED
    BY <2>5 DEF Whole, Passed
<1> QED
  BY <1>1, RelayAlways, PTL

\* InputComplete: while the service has not ended its input is closed only after
\* the source closed and all it sent was handed on (russ_relay_remove() of a
\* stream that closes on exit).
THEOREM InputCompleteAlways == Spec => []InputComplete
<1>1. RelayInv => InputComplete
  <2> SUFFICES ASSUME RelayInv, NEW i \in CloseOnExit, ~wopen[i], expoll, sink[i]
               PROVE  ~src[i] /\ Len(got[i]) + Len(outq[i]) = sent[i]
    BY DEF InputComplete
  <2>1. i \in Streams
    BY RelayAssumption
  <2>2. Whole(i)
    BY <2>1 DEF RelayInv, StreamInv, Removed
  <2> QED
    BY <2>2 DEF Whole, Passed
<1> QED
  BY <1>1, RelayAlways, PTL
=============================================================================
