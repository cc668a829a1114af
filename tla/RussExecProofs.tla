--------------------------- MODULE RussExecProofs ---------------------------
(***************************************************************************)
(* Proofs about RussExec and RussCollect, for any calls, chunks and sizes  *)
(* of channels: a client that returns has all the output there was, a      *)
(* program that read its input to the end has read all of it, and a status *)
(* is that of the program.                                                 *)
(*                                                                         *)
(* The invariant is in three parts: what the client has closed, and why;   *)
(* the bytes between client and program; and the status on its way from    *)
(* waitpid() to the client.                                                *)
(***************************************************************************)
EXTENDS RussExec, FiniteSetTheorems, SequenceTheorems, TLAPS

-----------------------------------------------------------------------------
(* The invariant.                                                          *)

\* The client's loop is over, and not because everything was closed.
Abandoned == kpc \in {"expired", "failed", "killed"}

ExecType ==
    /\ args \in Calls
    /\ kpc \in {"loop", "returned"} \/ Abandoned
    /\ ktab \subseteq Fds /\ todo \subseteq ktab
    /\ sent \in Nat /\ inq \in Nat /\ inread \in Nat
    /\ got \in [Outs -> Nat] /\ outq \in [Outs -> Nat] /\ outw \in [Outs -> Nat]
    /\ htab \subseteq Fds /\ ctab \subseteq Fds /\ dtab \subseteq Fds
    /\ carry \in {0, 1}
    /\ ended \in Nat /\ ended < 65536 /\ ended # FdClosed
    /\ status \in Nat

\* openfds counts what is open; the client closes everything when it leaves.
Places ==
    /\ kpc = "loop" => openfds = Cardinality(ktab)
    /\ kpc # "loop" => ktab = {}

\* The output: nothing is lost, a place with an event to look at has bytes or
\* nobody writes to it any more, and one that is closed was read to its end, or
\* the buffer is full.
Drained(f) == ~Held(f) /\ outq[f] = 0
Full(f) == args.cap > 0 /\ got[f] = args.cap
OutputInv ==
    \A f \in Outs :
        /\ got[f] + outq[f] = outw[f]
        /\ args.cap > 0 => got[f] <= args.cap
        /\ f \in todo => ~Held(f) \/ outq[f] > 0
        /\ f \notin ktab => Abandoned \/ Drained(f) \/ Full(f)

\* The input: it is closed when all of it was written, or nobody reads it.
InputInv ==
    /\ sent <= args.len /\ inread + inq = sent
    /\ 0 \notin ktab => Abandoned \/ sent = args.len \/ ~Held(0)
    /\ eof => Abandoned \/ (sent = args.len /\ inq = 0)

\* The processes: the child begins with what the handler has.
ChildInv ==
    /\ hpc = "setup" => htab = Fds /\ cpc = "none"
    /\ cpc = "forked" => ctab = Fds
    /\ cpc = "reaped" => hpc \in {"exit", "gone", "killed"}
    /\ hpc \in {"setup", "close", "reap", "watch"} => status = 0

\* The status: what is told was given by waitpid(), or there was no child, and
\* the client had not hung up; or poll() failed.
Told ==
    \/ errs # 0
    \/ cpc \in {"none", "reaped"} /\ (cpc = "reaped" => status = ended) /\ status # FdClosed
StatusInv ==
    /\ hpc = "exit" /\ Exit \in ktab => Told
    /\ exitq # <<>> => hpc = "gone" /\ Told /\ exitq = <<ExitStatus(status)>>
    /\ wrv = "ok" => hpc = "gone" /\ Told /\ exitst = ExitStatus(status)

ExecInv == ExecType /\ Places /\ OutputInv /\ InputInv /\ ChildInv /\ StatusInv

-----------------------------------------------------------------------------
(* Facts about the operators.                                              *)

LEMMA ArgsType == args \in Calls => args.prog \in Programs /\ args.len \in Nat /\ args.cap \in Nat
BY CollectAssumption

LEMMA ChunkType == Chunk \in Nat \ {0}
BY CollectAssumption

\* The lowest place of a set is one of it.
LEMMA Lowest ==
    ASSUME NEW S \in SUBSET Fds, S # {}
    PROVE  Min(S) \in S
<1>1. \E x \in S : \A y \in S : x =< y
  <2>1. \A x \in S : x \in {0, 1, 2, 3}
    BY DEF Fds
  <2>2. CASE 0 \in S
    BY <2>1, <2>2
  <2>3. CASE 0 \notin S /\ 1 \in S
    BY <2>1, <2>3
  <2>4. CASE 0 \notin S /\ 1 \notin S /\ 2 \in S
    BY <2>1, <2>4
  <2>5. CASE 0 \notin S /\ 1 \notin S /\ 2 \notin S
    BY <2>1, <2>5
  <2> QED
    BY <2>2, <2>3, <2>4, <2>5
<1> QED
  BY <1>1 DEF Min

LEMMA PlacesFinite ==
    ASSUME NEW S \in SUBSET Fds
    PROVE  /\ IsFiniteSet(S) /\ Cardinality(S) \in Nat
           /\ \A f \in S : Cardinality(S \ {f}) = Cardinality(S) - 1
           /\ Cardinality(S) = 0 => S = {}
<1>1. IsFiniteSet(Fds) /\ S \subseteq Fds
  <2>1. 0 \in Int /\ 3 \in Int
    OBVIOUS
  <2>2. IsFiniteSet(0..3)
    BY <2>1, FS_Interval
  <2> QED
    BY <2>2 DEF Fds
<1>2. IsFiniteSet(S)
  BY <1>1, FS_Subset
<1> QED
  BY <1>2, FS_CardinalityType, FS_RemoveElement, FS_EmptySet

LEMMA AllPlaces == Cardinality(Fds) = 4 /\ Outs \subseteq Fds /\ Std \subseteq Fds /\ Exit \in Fds
<1>1. 0 \in Int /\ 3 \in Int
  OBVIOUS
<1>2. Cardinality(0..3) = IF 0 > 3 THEN 0 ELSE 3 - 0 + 1
  BY <1>1, FS_Interval
<1> QED
  BY <1>2 DEF Fds, Outs, Std, Exit

LEMMA LeastOf ==
    \A m, n \in Nat : Least(m, n) \in Nat /\ Least(m, n) <= m /\ Least(m, n) <= n /\ Least(m, n) \in {m, n}
BY DEF Least

LEMMA ExecInit == Init => ExecInv
<1> SUFFICES ASSUME Init PROVE ExecInv
  OBVIOUS
<1> USE DEF Init, CollectInit
<1>1. ExecType
  <2>1. 0 # FdClosed
    BY ExecAssumption
  <2>2. got \in [Outs -> Nat] /\ outq \in [Outs -> Nat] /\ outw \in [Outs -> Nat]
    OBVIOUS
  <2> QED
    BY <2>1, <2>2 DEF ExecType
<1>2. Places
  BY AllPlaces DEF Places
<1>3. OutputInv
  BY AllPlaces, ArgsType DEF OutputInv
<1>4. InputInv
  <2>1. args.len \in Nat
    BY ArgsType
  <2> QED
    BY <2>1 DEF InputInv, Fds
<1>5. ChildInv /\ StatusInv
  BY DEF ChildInv, StatusInv
<1> QED
  BY <1>1, <1>2, <1>3, <1>4, <1>5 DEF ExecInv

-----------------------------------------------------------------------------
(* The client.                                                             *)

\* A step of the client leaves the service as it is.
ServiceStands == UNCHANGED <<args, hvars, cvars, pvars, tabs>>

LEMMA HeldStands == ASSUME ServiceStands, NEW f PROVE Held(f)' <=> Held(f)
BY DEF ServiceStands, tabs, Held

LEMMA PollReadyKeeps ==
    ASSUME ExecInv, PollReady, ServiceStands
    PROVE  ExecInv'
<1> USE DEF ExecInv
<1>1. /\ UNCHANGED <<kpc, ktab, openfds, sent, got, wrv, exitst, late, inq, outq, exitq>>
      /\ todo' = Events /\ kpc = "loop"
      /\ UNCHANGED <<args, hpc, status, errs, cpc, ended, inread, eof, outw, carry, htab, ctab, dtab>>
  BY DEF PollReady, ServiceStands, datavars, chanvars, hvars, cvars, pvars, tabs
<1>2. Events \subseteq ktab
  BY DEF Events
<1>3. \A f \in Outs : f \in Events => ~Held(f) \/ outq[f] > 0
  BY DEF Events, HasEvent, Outs, Exit
<1>4. ExecType'
  BY <1>1, <1>2 DEF ExecType, Abandoned
<1>5. OutputInv'
  BY <1>1, <1>3, HeldStands DEF OutputInv, Abandoned, Drained, Full
<1>6. Places' /\ InputInv' /\ ChildInv' /\ StatusInv'
  BY <1>1, HeldStands DEF Places, InputInv, ChildInv, StatusInv, Told, Abandoned
<1> QED
  BY <1>4, <1>5, <1>6

\* What a turn of the loop makes of the places.
LEMMA TurnPlaces ==
    ASSUME ExecInv, NEW f, Turn(f), CloseFd(f) \/ UNCHANGED <<ktab, openfds>>
    PROVE  /\ f \in todo /\ f \in ktab /\ kpc = "loop" /\ kpc' = "loop"
           /\ todo' \subseteq ktab' /\ ktab' \subseteq Fds
           /\ \A g : g # f => (g \in ktab' <=> g \in ktab) /\ (g \in todo' <=> g \in todo)
           /\ f \notin todo' /\ Places'
<1>1. todo \subseteq ktab /\ ktab \subseteq Fds /\ kpc = "loop" /\ openfds = Cardinality(ktab)
  BY DEF ExecInv, ExecType, Places, Turn, Abandoned
<1>2. f \in todo /\ todo' = todo \ {f} /\ kpc' = "loop"
  BY <1>1, Lowest DEF Turn
<1>3. CASE CloseFd(f)
  <2>1. ktab' = ktab \ {f} /\ openfds' = openfds - 1
    BY <1>3 DEF CloseFd
  <2>2. Cardinality(ktab') = openfds'
    BY <1>1, <1>2, <2>1, PlacesFinite
  <2> QED
    BY <1>1, <1>2, <2>1, <2>2 DEF Places
<1>4. CASE UNCHANGED <<ktab, openfds>>
  BY <1>1, <1>2, <1>4 DEF Places
<1> QED
  BY <1>3, <1>4

LEMMA InputKeeps ==
    ASSUME ExecInv, Input, ServiceStands
    PROVE  ExecInv'
<1> DEFINE n == Least(args.len - sent, Chunk)
<1>1. /\ Turn(0) /\ UNCHANGED <<got, wrv, exitst, outq, exitq>>
      /\ UNCHANGED <<args, hpc, status, errs, cpc, ended, inread, eof, outw, carry, htab, ctab, dtab>>
      /\ \/ (n = 0 \/ ~Held(0)) /\ CloseFd(0) /\ UNCHANGED <<sent, inq>>
         \/ n # 0 /\ Held(0) /\ sent' = sent + n /\ inq' = inq + n /\ UNCHANGED <<ktab, openfds>>
  BY DEF Input, ServiceStands, hvars, cvars, pvars, tabs
<1>2. /\ 0 \in ktab /\ kpc = "loop" /\ kpc' = "loop"
      /\ todo' \subseteq ktab' /\ ktab' \subseteq Fds /\ Places'
      /\ \A g : g # 0 => (g \in ktab' <=> g \in ktab) /\ (g \in todo' <=> g \in todo)
  BY <1>1, TurnPlaces
<1>3. /\ args.len \in Nat /\ sent \in Nat /\ inq \in Nat /\ inread \in Nat
      /\ sent <= args.len /\ inread + inq = sent
  BY ArgsType DEF ExecInv, ExecType, InputInv
<1>4. n \in Nat /\ n <= args.len - sent /\ (n = 0 => args.len = sent)
  <2> DEFINE x == args.len - sent
  <2>1. x \in Nat /\ (x = 0 => args.len = sent)
    BY <1>3
  <2> HIDE DEF x
  <2>2. Least(x, Chunk) \in Nat /\ Least(x, Chunk) <= x /\ Least(x, Chunk) \in {x, Chunk}
    BY <2>1, ChunkType, LeastOf
  <2> QED
    BY <2>1, <2>2, ChunkType DEF x
<1> HIDE DEF n
<1>5. sent' \in Nat /\ inq' \in Nat /\ sent' <= args.len /\ inread' + inq' = sent'
  BY <1>1, <1>3, <1>4
<1>6. ExecType'
  BY <1>1, <1>2, <1>5 DEF ExecInv, ExecType
<1>7. OutputInv'
  <2>1. \A f \in Outs : f # 0
    BY DEF Outs
  <2> QED
    BY <1>1, <1>2, <2>1, HeldStands DEF ExecInv, OutputInv, Abandoned, Drained, Full
<1>8. InputInv'
  <2>1. 0 \notin ktab' => sent' = args.len \/ ~Held(0)
    BY <1>1, <1>2, <1>3, <1>4
  <2>2. eof => sent' = args.len /\ inq' = 0
    <3>1. eof => sent = args.len /\ inq = 0
      BY <1>2 DEF ExecInv, InputInv, Abandoned
    <3> QED
      BY <1>1, <1>3, <1>4, <3>1
  <2> QED
    BY <1>1, <1>5, <2>1, <2>2, HeldStands DEF InputInv
<1>9. ChildInv' /\ StatusInv'
  <2>1. Exit \in ktab' <=> Exit \in ktab
    BY <1>2 DEF Exit
  <2> QED
    BY <1>1, <2>1 DEF ExecInv, ChildInv, StatusInv, Told
<1> QED
  BY <1>2, <1>6, <1>7, <1>8, <1>9 DEF ExecInv

LEMMA OutputKeeps ==
    ASSUME ExecInv, NEW f \in Outs, Output(f), ServiceStands
    PROVE  ExecInv'
<1> DEFINE n == IF args.cap = 0 THEN outq[f] ELSE Least(args.cap - got[f], outq[f])
<1>1. /\ Turn(f) /\ UNCHANGED <<sent, wrv, exitst, inq, exitq>>
      /\ UNCHANGED <<args, hpc, status, errs, cpc, ended, inread, eof, outw, carry, htab, ctab, dtab>>
      /\ \/ n = 0 /\ CloseFd(f) /\ UNCHANGED <<got, outq>>
         \/ n # 0 /\ got' = [got EXCEPT ![f] = @ + n] /\ outq' = [outq EXCEPT ![f] = @ - n]
            /\ UNCHANGED <<ktab, openfds>>
  BY DEF Output, ServiceStands, hvars, cvars, pvars, tabs
<1>2. /\ f \in todo /\ f \in ktab /\ kpc = "loop" /\ kpc' = "loop" /\ f \notin todo'
      /\ todo' \subseteq ktab' /\ ktab' \subseteq Fds /\ Places'
      /\ \A g : g # f => (g \in ktab' <=> g \in ktab) /\ (g \in todo' <=> g \in todo)
  BY <1>1, TurnPlaces
<1>3. /\ args.cap \in Nat /\ got \in [Outs -> Nat] /\ outq \in [Outs -> Nat] /\ outw \in [Outs -> Nat]
      /\ args.cap > 0 => got[f] <= args.cap
      /\ got[f] + outq[f] = outw[f]
      /\ ~Held(f) \/ outq[f] > 0
  BY <1>2, ArgsType DEF ExecInv, ExecType, OutputInv
<1>4. /\ n \in Nat /\ n <= outq[f]
      /\ args.cap > 0 => got[f] + n <= args.cap
      /\ n = 0 => outq[f] = 0 \/ (args.cap > 0 /\ got[f] = args.cap)
  <2>1. CASE args.cap = 0
    BY <1>3, <2>1
  <2>2. CASE args.cap > 0
    <3> DEFINE x == args.cap - got[f]
               y == outq[f]
    <3>1. x \in Nat /\ y \in Nat /\ n = Least(x, y) /\ (x = 0 => got[f] = args.cap)
      BY <1>3, <2>2
    <3>2. Least(x, y) \in Nat /\ Least(x, y) <= x /\ Least(x, y) <= y /\ Least(x, y) \in {x, y}
      <4> HIDE DEF x, y, n
      <4> QED
        BY <3>1, LeastOf
    <3>3. got[f] \in Nat
      BY <1>3
    <3> HIDE DEF n
    <3>4. got[f] + n <= args.cap
      BY <1>3, <3>1, <3>2, <3>3
    <3> QED
      BY <2>2, <3>1, <3>2, <3>4
  <2> QED
    BY <1>3, <2>1, <2>2
<1> HIDE DEF n
<1>5. /\ got' \in [Outs -> Nat] /\ outq' \in [Outs -> Nat]
      /\ got'[f] + outq'[f] = outw'[f] /\ (args.cap > 0 => got'[f] <= args.cap)
      /\ \A g \in Outs : g # f => got'[g] = got[g] /\ outq'[g] = outq[g]
  <2>1. CASE UNCHANGED <<got, outq>>
    BY <1>1, <1>3, <2>1
  <2>2. CASE got' = [got EXCEPT ![f] = @ + n] /\ outq' = [outq EXCEPT ![f] = @ - n]
    <3>1. got[f] + n \in Nat /\ outq[f] - n \in Nat /\ got[f] + n + (outq[f] - n) = outw[f]
      BY <1>3, <1>4
    <3> QED
      BY <1>1, <1>3, <1>4, <2>2, <3>1
  <2> QED
    BY <1>1, <2>1, <2>2
<1>6. ExecType'
  BY <1>1, <1>2, <1>5 DEF ExecInv, ExecType
<1>7. f \notin ktab' => Drained(f)' \/ Full(f)'
  <2>1. f \notin ktab' => n = 0 /\ UNCHANGED <<got, outq>>
    BY <1>1, <1>2
  <2>2. n = 0 => (outq[f] = 0 /\ ~Held(f)) \/ (args.cap > 0 /\ got[f] = args.cap)
    BY <1>3, <1>4
  <2> QED
    BY <1>1, <2>1, <2>2, HeldStands DEF Drained, Full
<1>8. OutputInv'
  <2>1. ASSUME NEW g \in Outs, g # f
        PROVE  /\ (got[g] + outq[g] = outw[g])'
               /\ (args.cap > 0 => got[g] <= args.cap)'
               /\ (g \in todo => ~Held(g) \/ outq[g] > 0)'
               /\ (g \notin ktab => Abandoned \/ Drained(g) \/ Full(g))'
    <3>1. got'[g] = got[g] /\ outq'[g] = outq[g] /\ (Held(g)' <=> Held(g))
      BY <1>5, <2>1, HeldStands
    <3> QED
      BY <1>1, <1>2, <2>1, <3>1 DEF ExecInv, OutputInv, Abandoned, Drained, Full
  <2>2. /\ (got[f] + outq[f] = outw[f])'
        /\ (args.cap > 0 => got[f] <= args.cap)'
        /\ (f \in todo => ~Held(f) \/ outq[f] > 0)'
        /\ (f \notin ktab => Abandoned \/ Drained(f) \/ Full(f))'
    BY <1>1, <1>2, <1>5, <1>7
  <2> QED
    BY <2>1, <2>2 DEF OutputInv, Outs
<1>9. InputInv' /\ ChildInv' /\ StatusInv'
  <2>1. (Exit \in ktab' <=> Exit \in ktab) /\ (0 \in ktab' <=> 0 \in ktab)
    BY <1>2 DEF Exit, Outs
  <2> QED
    BY <1>1, <1>2, <2>1, HeldStands DEF ExecInv, InputInv, ChildInv, StatusInv, Told, Abandoned
<1> QED
  BY <1>2, <1>6, <1>8, <1>9 DEF ExecInv

LEMMA WaitKeeps ==
    ASSUME ExecInv, Wait, ServiceStands
    PROVE  ExecInv'
<1>1. /\ Turn(Exit) /\ UNCHANGED <<sent, got, inq, outq>>
      /\ UNCHANGED <<args, hpc, status, errs, cpc, ended, inread, eof, outw, carry, htab, ctab, dtab>>
      /\ \/ wrv' # "ok" /\ UNCHANGED <<ktab, openfds, exitst, exitq>>
         \/ /\ exitq # <<>> /\ wrv' = "ok" /\ exitst' = Head(exitq) /\ exitq' = Tail(exitq)
            /\ CloseFd(Exit)
  BY DEF Wait, ServiceStands, hvars, cvars, pvars, tabs
<1>2. /\ kpc = "loop" /\ kpc' = "loop"
      /\ todo' \subseteq ktab' /\ ktab' \subseteq Fds /\ Places'
      /\ \A g : g # Exit => (g \in ktab' <=> g \in ktab) /\ (g \in todo' <=> g \in todo)
      /\ Exit \in ktab
  BY <1>1, TurnPlaces
<1>3. ExecType'
  BY <1>1, <1>2 DEF ExecInv, ExecType
<1>4. \A g \in Outs \cup {0} : g # Exit
  BY DEF Outs, Exit
<1>5. OutputInv'
  BY <1>1, <1>2, <1>4, HeldStands DEF ExecInv, OutputInv, Abandoned, Drained, Full
<1>6. InputInv' /\ ChildInv'
  BY <1>1, <1>2, <1>4, HeldStands DEF ExecInv, InputInv, ChildInv, Abandoned
<1>7. StatusInv'
  <2>1. CASE wrv' # "ok" /\ UNCHANGED <<ktab, openfds, exitst, exitq>>
    BY <1>1, <2>1 DEF ExecInv, StatusInv, Told
  <2>2. CASE exitq # <<>> /\ wrv' = "ok" /\ exitst' = Head(exitq) /\ exitq' = Tail(exitq)
    <3>1. hpc = "gone" /\ Told /\ exitq = <<ExitStatus(status)>>
      BY <2>2 DEF ExecInv, StatusInv
    <3>2. exitst' = ExitStatus(status) /\ exitq' = <<>>
      BY <2>2, <3>1
    <3> QED
      BY <1>1, <3>1, <3>2 DEF StatusInv, Told
  <2> QED
    BY <1>1, <2>1, <2>2
<1> QED
  BY <1>2, <1>3, <1>5, <1>6, <1>7 DEF ExecInv

\* The client leaves its loop: with everything closed, or it gives up.
LEMMA LeaveKeeps ==
    ASSUME ExecInv, Return \/ Expire \/ PollFail \/ ClientKill, ServiceStands
    PROVE  ExecInv'
<1>1. /\ kpc = "loop" /\ ktab' = {} /\ todo' = {} /\ UNCHANGED <<sent, got, exitst, inq, outq, exitq>>
      /\ (kpc' = "returned" /\ openfds = 0) \/ Abandoned'
      /\ UNCHANGED <<args, hpc, status, errs, cpc, ended, inread, eof, outw, carry, htab, ctab, dtab>>
      /\ wrv' = wrv \/ wrv' = "timeout"
  BY DEF Return, Expire, PollFail, ClientKill, Leave, LoopOver, ServiceStands, hvars, cvars, pvars, tabs,
         chanvars, Abandoned
<1>2. ExecType'
  BY <1>1 DEF ExecInv, ExecType
<1>3. openfds = 0 => ktab = {}
  BY <1>1, PlacesFinite DEF ExecInv, ExecType, Places
<1>4. OutputInv' /\ InputInv' /\ Places'
  <2>1. Abandoned' \/ ktab = {}
    BY <1>1, <1>3
  <2>2. ~Abandoned
    BY <1>1 DEF Abandoned
  <2>3. kpc' # "loop"
    BY <1>1 DEF Abandoned
  <2> QED
    BY <1>1, <2>1, <2>2, <2>3, HeldStands DEF ExecInv, OutputInv, InputInv, Places, Drained, Full
<1>5. ChildInv' /\ StatusInv'
  BY <1>1 DEF ExecInv, ChildInv, StatusInv, Told
<1> QED
  BY <1>2, <1>4, <1>5 DEF ExecInv

LEMMA CollectKeeps ==
    ASSUME ExecInv, Collect, UNCHANGED <<args, hvars, cvars, pvars>>
    PROVE  ExecInv'
<1>1. ServiceStands
  <2>1. UNCHANGED tabs
    BY DEF Collect, CollectStep, PollReady, Input, Output, Wait, Return, Expire, PollFail, ClientKill, Late, Leave
  <2> QED
    BY <2>1 DEF ServiceStands
<1>2. CASE Late
  BY <1>1, <1>2, HeldStands
  DEF Late, ServiceStands, loopvars, datavars, chanvars, hvars, cvars, pvars, tabs,
      ExecInv, ExecType, Places, OutputInv, InputInv, ChildInv, StatusInv, Told, Abandoned, Drained, Full
<1> QED
  BY <1>1, <1>2, PollReadyKeeps, InputKeeps, OutputKeeps, WaitKeeps, LeaveKeeps DEF Collect, CollectStep

-----------------------------------------------------------------------------
(* The service: what its steps do to the bytes.                            *)

\* It writes to what the client has open, reads a byte of input or the end of it,
\* and no end of a channel is opened.
Writes ==
    \/ UNCHANGED <<outq, outw>>
    \/ \E f \in Outs \cap ktab : outq' = [outq EXCEPT ![f] = @ + 1] /\ outw' = [outw EXCEPT ![f] = @ + 1]
Reads ==
    \/ UNCHANGED <<inq, inread, eof>>
    \/ inq > 0 /\ inq' = inq - 1 /\ inread' = inread + 1 /\ UNCHANGED eof
    \/ inq = 0 /\ 0 \notin ktab /\ Held(0) /\ eof' = TRUE /\ UNCHANGED <<inq, inread>>
Closes == (htab \cup ctab \cup dtab)' \subseteq htab \cup ctab \cup dtab
ServiceData == UNCHANGED clientvars /\ Writes /\ Reads /\ Closes

LEMMA PutWrites == ASSUME NEW f \in Outs, Put(f) PROVE Writes /\ UNCHANGED <<inq, exitq>>
BY DEF Put, Writes

LEMMA HandlerData ==
    ASSUME ExecInv, HandlerStep \/ WatchFails \/ HandlerKill
    PROVE  ServiceData
<1> USE DEF chanvars, pvars, tabs, hvars, cvars, Closes
<1>1. CASE SetupFail
  <2>1. Writes /\ UNCHANGED <<inq, inread, eof>>
    BY <1>1, PutWrites DEF SetupFail, Outs
  <2> QED
    BY <1>1, <2>1 DEF SetupFail, ServiceData, Reads
<1>2. CASE Fork \/ ForkFail \/ CloseStd \/ Reap \/ SayExit \/ HandlerKill
  BY <1>2 DEF Fork, ForkFail, CloseStd, Reap, SayExit, HandlerKill, ServiceData, Writes, Reads
<1>3. CASE Watch \/ WatchFails
  BY <1>3 DEF Watch, WatchFails, HangUp, ServiceData, Writes, Reads
<1> QED
  BY <1>1, <1>2, <1>3 DEF HandlerStep

LEMMA ChildData ==
    ASSUME ExecInv, ChildStep \/ HupDeath \/ ChildKill
    PROVE  ServiceData
<1> USE DEF chanvars, pvars, tabs, hvars, cvars, Closes, ChildOver
<1>1. CASE ExecFail
  <2>1. Writes /\ UNCHANGED <<inq, inread, eof>>
    BY <1>1, PutWrites DEF ExecFail, Outs
  <2> QED
    BY <1>1, <2>1 DEF ExecFail, ServiceData, Reads
<1>2. CASE PrepareFail \/ Exec \/ HupDeath \/ ChildKill
  BY <1>2 DEF PrepareFail, Exec, HupDeath, ChildKill, ServiceData, Writes, Reads
<1>3. CASE Prepare
  <2>1. ctab = Fds /\ Std \subseteq Fds
    BY <1>3, AllPlaces DEF Prepare, ExecInv, ChildInv
  <2> QED
    BY <1>3, <2>1 DEF Prepare, ServiceData, Writes, Reads
<1> QED
  BY <1>1, <1>2, <1>3 DEF ChildStep

LEMMA ReadInputData ==
    ASSUME ReadInput
    PROVE  Reads /\ UNCHANGED <<clientvars, outq, exitq, hvars>> /\ cpc = "run"
BY DEF ReadInput, Reads, Held

LEMMA ProgramData ==
    ASSUME ExecInv, Free \/ Cat
    PROVE  ServiceData
<1> USE DEF chanvars, pvars, tabs, hvars, cvars, Closes
<1>1. CASE ReadInput /\ UNCHANGED <<tabs, outw>>
  BY <1>1, ReadInputData DEF ServiceData, Writes
<1>2. ASSUME NEW f \in Outs, Put(f), UNCHANGED <<clientvars, tabs, inread, eof>>
      PROVE  ServiceData
  BY <1>2, PutWrites DEF ServiceData, Reads
<1>3. CASE /\ UNCHANGED <<clientvars, chanvars, pvars>>
           /\ htab' \subseteq htab /\ ctab' \subseteq ctab /\ dtab' \subseteq ctab \cup dtab
  BY <1>3 DEF ServiceData, Writes, Reads
<1>4. CASE Free
  BY <1>1, <1>2, <1>3, <1>4 DEF Free, ChildOver
<1>5. CASE Cat
  <2>1. 1 \in Outs
    BY DEF Outs
  <2> QED
    BY <1>1, <1>2, <1>3, <1>5, <2>1 DEF Cat, ChildOver
<1> QED
  BY <1>4, <1>5

\* Such steps keep what the invariant says of the bytes.
LEMMA DataKeeps ==
    ASSUME ExecInv, ServiceData, UNCHANGED args
    PROVE  /\ OutputInv' /\ InputInv' /\ Places'
           /\ args' \in Calls /\ (kpc' \in {"loop", "returned"} \/ Abandoned')
           /\ ktab' \subseteq Fds /\ todo' \subseteq ktab'
           /\ sent' \in Nat /\ inq' \in Nat /\ inread' \in Nat
           /\ got' \in [Outs -> Nat] /\ outq' \in [Outs -> Nat] /\ outw' \in [Outs -> Nat]
           /\ htab' \subseteq Fds /\ ctab' \subseteq Fds /\ dtab' \subseteq Fds
<1>1. UNCHANGED <<args, kpc, ktab, openfds, todo, sent, got, wrv, exitst>>
  BY DEF ServiceData, clientvars, loopvars, datavars
<1>2. \A f : Held(f)' => Held(f)
  BY DEF ServiceData, Closes, Held
<1>3. /\ inq \in Nat /\ inread \in Nat /\ sent \in Nat /\ args.len \in Nat
      /\ outq \in [Outs -> Nat] /\ outw \in [Outs -> Nat] /\ got \in [Outs -> Nat]
  BY ArgsType DEF ExecInv, ExecType
<1>4. /\ htab' \subseteq Fds /\ ctab' \subseteq Fds /\ dtab' \subseteq Fds
  BY DEF ServiceData, Closes, ExecInv, ExecType
<1>5. Places'
  BY <1>1 DEF ExecInv, Places
<1>6. /\ outq' \in [Outs -> Nat] /\ outw' \in [Outs -> Nat]
      /\ \A f \in Outs : outq'[f] >= outq[f] /\ got[f] + outq'[f] = outw'[f]
      /\ \A f \in Outs : f \notin ktab => outq'[f] = outq[f]
  <2>1. \A f \in Outs : got[f] + outq[f] = outw[f] /\ got[f] \in Nat /\ outq[f] \in Nat /\ outw[f] \in Nat
    BY <1>3 DEF ExecInv, OutputInv
  <2>2. CASE UNCHANGED <<outq, outw>>
    BY <1>3, <2>1, <2>2
  <2>3. ASSUME NEW f \in Outs, f \in ktab, outq' = [outq EXCEPT ![f] = @ + 1], outw' = [outw EXCEPT ![f] = @ + 1]
        PROVE  /\ outq' \in [Outs -> Nat] /\ outw' \in [Outs -> Nat]
               /\ \A g \in Outs : outq'[g] >= outq[g] /\ got[g] + outq'[g] = outw'[g]
               /\ \A g \in Outs : g \notin ktab => outq'[g] = outq[g]
    <3>1. outq[f] + 1 \in Nat /\ outw[f] + 1 \in Nat /\ got[f] + (outq[f] + 1) = outw[f] + 1
      BY <2>1
    <3> QED
      BY <1>3, <2>1, <2>3, <3>1
  <2> QED
    BY <2>2, <2>3 DEF ServiceData, Writes
<1>7. OutputInv'
  <2>1. ASSUME NEW f \in Outs
        PROVE  /\ (got[f] + outq[f] = outw[f])'
               /\ (args.cap > 0 => got[f] <= args.cap)'
               /\ (f \in todo => ~Held(f) \/ outq[f] > 0)'
               /\ (f \notin ktab => Abandoned \/ Drained(f) \/ Full(f))'
    <3>1. outq'[f] \in Nat /\ outq[f] \in Nat
      BY <1>3, <1>6
    <3>2. (f \in todo => ~Held(f) \/ outq[f] > 0)'
      BY <1>1, <1>2, <1>6, <3>1 DEF ExecInv, OutputInv
    <3>3. (f \notin ktab => Abandoned \/ Drained(f) \/ Full(f))'
      BY <1>1, <1>2, <1>6 DEF ExecInv, OutputInv, Abandoned, Drained, Full
    <3> QED
      BY <1>1, <1>6, <3>2, <3>3 DEF ExecInv, OutputInv
  <2> QED
    BY <2>1 DEF OutputInv, Outs
<1>8. inq' \in Nat /\ inread' \in Nat /\ inread' + inq' = sent
  <2>1. inread + inq = sent
    BY DEF ExecInv, InputInv
  <2> QED
    BY <1>3, <2>1 DEF ServiceData, Reads
<1>9. eof' => Abandoned \/ (sent = args.len /\ inq' = 0)
  <2>1. CASE UNCHANGED <<inq, inread, eof>>
    BY <2>1 DEF ExecInv, InputInv
  <2>2. CASE inq > 0 /\ inq' = inq - 1 /\ UNCHANGED eof
    BY <1>3, <2>2 DEF ExecInv, InputInv
  <2>3. CASE inq = 0 /\ 0 \notin ktab /\ Held(0) /\ UNCHANGED inq
    BY <2>3 DEF ExecInv, InputInv
  <2> QED
    BY <2>1, <2>2, <2>3 DEF ServiceData, Reads
<1>10. InputInv'
  BY <1>1, <1>2, <1>8, <1>9 DEF ExecInv, InputInv, Abandoned
<1> QED
  BY <1>1, <1>3, <1>4, <1>5, <1>6, <1>7, <1>8, <1>10 DEF ExecInv, ExecType, Abandoned

-----------------------------------------------------------------------------
(* The service: the status.                                                *)

StatusTypes == ended \in Nat /\ ended < 65536 /\ ended # FdClosed /\ status \in Nat /\ carry \in {0, 1}

\* What waitpid() gives is no status of the handler's own.
LEMMA Statuses256 ==
    ASSUME NEW st \in 0..255
    PROVE  Exited(st) \in Nat /\ Exited(st) < 65536 /\ Exited(st) # FdClosed
<1>1. st \in Nat /\ st <= 255
  OBVIOUS
<1>2. FdClosed \in Nat /\ FdClosed > 0 /\ FdClosed < 256
  BY ExecAssumption
<1> QED
  BY <1>1, <1>2 DEF Exited

LEMMA SignalStatus ==
    ASSUME NEW sig \in {SigHup, SigKill}
    PROVE  Killed(sig) \in Nat /\ Killed(sig) < 65536 /\ Killed(sig) # FdClosed
BY ExecAssumption DEF Killed, SigHup, SigKill

\* The child goes on, or ends: nothing was told yet.
LEMMA ChildStatus ==
    ASSUME ExecInv, UNCHANGED <<clientvars, exitq, hvars>>, StatusTypes',
           \/ UNCHANGED <<cpc, ended>> /\ (cpc = "forked" => UNCHANGED ctab)
           \/ cpc \in {"forked", "ready", "run"} /\ cpc' \in {"ready", "run", "zombie"},
           hpc = "setup" => UNCHANGED htab
    PROVE  ChildInv' /\ StatusInv'
<1>1. UNCHANGED <<kpc, ktab, wrv, exitst, hpc, status, errs>>
  BY DEF clientvars, loopvars, datavars, hvars
<1>2. CASE UNCHANGED <<cpc, ended>> /\ (cpc = "forked" => UNCHANGED ctab)
  BY <1>1, <1>2 DEF ExecInv, ChildInv, StatusInv, Told
<1>3. CASE cpc \in {"forked", "ready", "run"} /\ cpc' \in {"ready", "run", "zombie"}
  BY <1>1, <1>3 DEF ExecInv, ChildInv, StatusInv, Told
<1> QED
  BY <1>2, <1>3

LEMMA ProgramStatus ==
    ASSUME ExecInv, ChildStep \/ Free \/ Cat \/ HupDeath \/ ChildKill
    PROVE  StatusTypes' /\ ChildInv' /\ StatusInv'
<1> USE DEF hvars, cvars, pvars, tabs, chanvars
<1>1. StatusTypes /\ 0 \in 0..255 /\ 1 \in 0..255
  BY DEF ExecInv, ExecType, StatusTypes
<1>2. ASSUME UNCHANGED <<clientvars, exitq, hvars, cpc, ended, htab>>, cpc = "forked" => UNCHANGED ctab, carry' \in {0, 1}
      PROVE  StatusTypes' /\ ChildInv' /\ StatusInv'
  <2>1. StatusTypes'
    BY <1>1, <1>2 DEF StatusTypes
  <2> QED
    BY <1>2, <2>1, ChildStatus
<1>3. ASSUME UNCHANGED <<clientvars, exitq, hvars, htab, carry>>,
             cpc \in {"forked", "ready", "run"}, cpc' \in {"ready", "run", "zombie"},
             UNCHANGED ended \/ ended' = Exited(1) \/ (\E st \in 0..255 : ended' = Exited(st))
                \/ (\E sig \in {SigHup, SigKill} : ended' = Killed(sig))
      PROVE  StatusTypes' /\ ChildInv' /\ StatusInv'
  <2>1. ended' \in Nat /\ ended' < 65536 /\ ended' # FdClosed
    BY <1>1, <1>3, Statuses256, SignalStatus DEF StatusTypes
  <2>2. StatusTypes'
    BY <1>1, <1>3, <2>1 DEF StatusTypes
  <2> QED
    BY <1>3, <2>2, ChildStatus
<1>4. CASE ChildStep
  <2>1. CASE Prepare
    BY <1>3, <2>1 DEF Prepare
  <2>2. CASE Exec
    BY <1>3, <2>2 DEF Exec
  <2>3. CASE PrepareFail
    BY <1>3, <2>3 DEF PrepareFail, ChildOver
  <2>4. CASE ExecFail
    BY <1>3, <2>4 DEF ExecFail, ChildOver, Put
  <2> QED
    BY <1>4, <2>1, <2>2, <2>3, <2>4 DEF ChildStep
<1>5. CASE HupDeath \/ ChildKill
  BY <1>3, <1>5 DEF HupDeath, ChildKill, ChildOver
<1>6. CASE Free
  <2>1. CASE ReadInput /\ UNCHANGED <<tabs, cvars, outw, carry>>
    BY <1>1, <1>2, <2>1, ReadInputData DEF StatusTypes
  <2>2. CASE \E f \in Outs : Put(f) /\ UNCHANGED <<clientvars, tabs, hvars, cvars, inread, eof, carry>>
    BY <1>1, <1>2, <2>2 DEF Put, StatusTypes
  <2>3. CASE /\ UNCHANGED <<clientvars, chanvars, htab, hvars, cvars, pvars>>
             /\ UNCHANGED ctab \/ cpc = "run"
    BY <1>1, <1>2, <2>3 DEF StatusTypes
  <2>4. CASE \E st \in Statuses :
                cpc = "run" /\ ChildOver(Exited(st)) /\ UNCHANGED <<clientvars, chanvars, hvars, pvars>>
    <3>1. Statuses \subseteq 0..255
      BY ExecAssumption
    <3> QED
      BY <1>3, <2>4, <3>1 DEF ChildOver
  <2> QED
    BY <1>6, <2>1, <2>2, <2>3, <2>4 DEF Free
<1>7. CASE Cat
  <2>1. CASE carry = 0 /\ ReadInput /\ carry' = inread' - inread /\ UNCHANGED <<tabs, cvars>>
    <3>1. inread \in Nat
      BY DEF ExecInv, ExecType
    <3>2. inread' = inread \/ inread' = inread + 1
      BY <2>1, ReadInputData DEF Reads
    <3>3. carry' \in {0, 1}
      BY <2>1, <3>1, <3>2
    <3> QED
      BY <1>2, <2>1, <3>3, ReadInputData
  <2>2. CASE Put(1) /\ carry' = 0 /\ UNCHANGED <<clientvars, tabs, hvars, cvars>>
    BY <1>2, <2>2 DEF Put
  <2>3. CASE cpc = "run" /\ ChildOver(Exited(carry)) /\ UNCHANGED <<clientvars, chanvars, hvars, pvars>>
    <3>1. carry \in 0..255
      BY <1>1 DEF StatusTypes
    <3> QED
      BY <1>3, <2>3, <3>1 DEF ChildOver
  <2> QED
    BY <1>7, <2>1, <2>2, <2>3 DEF Cat
<1> QED
  BY <1>4, <1>5, <1>6, <1>7

LEMMA HandlerStatus ==
    ASSUME ExecInv, HandlerStep \/ WatchFails \/ HandlerKill
    PROVE  StatusTypes' /\ ChildInv' /\ StatusInv'
<1> USE DEF hvars, cvars, pvars, tabs, chanvars, clientvars, loopvars, datavars
<1>1. StatusTypes /\ ChildInv /\ StatusInv /\ FdClosed \in Nat \ {0} /\ FdClosed < 256
  BY ExecAssumption DEF ExecInv, ExecType, StatusTypes
<1>2. CASE SetupFail
  <2>1. Failure \in 0..255
    BY ExecAssumption
  <2>2. Exited(Failure) \in Nat /\ Exited(Failure) # FdClosed
    BY <2>1, Statuses256
  <2>3. /\ hpc = "setup" /\ hpc' = "exit" /\ status' = Exited(Failure)
        /\ UNCHANGED <<exitq, ktab, wrv, exitst, cpc, ended, carry, htab, errs>>
    BY <1>2 DEF SetupFail, Put
  <2> QED
    BY <1>1, <2>2, <2>3 DEF StatusTypes, ChildInv, StatusInv, Told
<1>3. CASE Fork \/ ForkFail \/ CloseStd
  <2>1. /\ hpc \in {"setup", "close"} /\ hpc' \in {"close", "reap"}
        /\ UNCHANGED <<exitq, ktab, wrv, exitst, ended, carry, status, errs>>
        /\ UNCHANGED <<cpc, ctab>> \/ (cpc' = "forked" /\ ctab' = htab /\ hpc = "setup")
    BY <1>3 DEF Fork, ForkFail, CloseStd
  <2> QED
    BY <1>1, <2>1 DEF StatusTypes, ChildInv, StatusInv, Told
<1>4. CASE Reap
  <2>1. hpc = "reap" /\ status = 0 /\ UNCHANGED <<exitq, ktab, wrv, exitst, ended, carry, ctab, errs>>
    BY <1>1, <1>4 DEF Reap, ChildInv
  <2>2. \/ cpc = "none" /\ hpc' = "exit" /\ UNCHANGED <<status, cpc>>
        \/ cpc = "zombie" /\ hpc' = "exit" /\ status' = ended /\ cpc' = "reaped"
        \/ cpc \notin {"none", "zombie"} /\ hpc' = "watch" /\ UNCHANGED <<status, cpc>>
    BY <1>4 DEF Reap
  <2>3. exitq = <<>> /\ wrv # "ok"
    BY <1>1, <2>1 DEF StatusInv
  <2> QED
    BY <1>1, <2>1, <2>2, <2>3 DEF StatusTypes, ChildInv, StatusInv, Told
<1>5. ASSUME hpc = "watch", UNCHANGED <<exitq, ktab, wrv, exitst, carry, htab>>, Exit \notin ktab \/ errs' = 1,
             hpc' = "exit", status' = FdClosed, HangUp
      PROVE  StatusTypes' /\ ChildInv' /\ StatusInv'
  <2>1. exitq = <<>> /\ wrv # "ok"
    BY <1>1, <1>5 DEF StatusInv
  <2>2. \/ cpc' = "zombie" /\ ended' = Killed(SigHup)
        \/ UNCHANGED <<cpc, ended, ctab>>
    BY <1>5 DEF HangUp
  <2>3. Killed(SigHup) \in Nat /\ Killed(SigHup) < 65536 /\ Killed(SigHup) # FdClosed
    BY SignalStatus
  <2>4. StatusTypes'
    BY <1>1, <1>5, <2>2, <2>3 DEF StatusTypes
  <2> QED
    BY <1>1, <1>5, <2>1, <2>2, <2>4 DEF ChildInv, StatusInv, Told
<1>8. CASE Watch
  <2>1. hpc = "watch" /\ UNCHANGED <<exitq, ktab, wrv, exitst, carry, htab, errs>> /\ exitq = <<>> /\ wrv # "ok"
    BY <1>1, <1>8 DEF Watch, StatusInv
  <2>2. CASE Exit \notin ktab /\ hpc' = "exit" /\ status' = FdClosed /\ HangUp
    BY <1>5, <2>1, <2>2
  <2>3. CASE hpc' = "reap" /\ UNCHANGED <<status, cvars, ctab>>
    BY <1>1, <2>1, <2>3 DEF StatusTypes, ChildInv, StatusInv
  <2> QED
    BY <1>8, <2>2, <2>3 DEF Watch
<1>9. CASE WatchFails
  BY <1>5, <1>9 DEF WatchFails
<1>6. CASE SayExit
  <2>1. /\ hpc = "exit" /\ hpc' = "gone"
        /\ exitq' = IF Exit \in ktab THEN <<ExitStatus(status)>> ELSE exitq
        /\ UNCHANGED <<ktab, wrv, exitst, ended, carry, status, cpc, ctab, errs>>
    BY <1>6 DEF SayExit
  <2>2. exitq = <<>> /\ wrv # "ok"
    BY <1>1, <2>1 DEF StatusInv
  <2>3. <<ExitStatus(status)>> # <<>>
    OBVIOUS
  <2> QED
    BY <1>1, <2>1, <2>2, <2>3 DEF StatusTypes, ChildInv, StatusInv, Told
<1>7. CASE HandlerKill
  <2>1. hpc # "gone" /\ hpc' = "killed" /\ UNCHANGED <<exitq, ktab, wrv, exitst, ended, carry, status, cpc, ctab, errs>>
    BY <1>7 DEF HandlerKill
  <2> QED
    BY <1>1, <2>1 DEF StatusTypes, ChildInv, StatusInv
<1> QED
  BY <1>2, <1>3, <1>4, <1>6, <1>7, <1>8, <1>9 DEF HandlerStep

-----------------------------------------------------------------------------
(* The invariant is kept.                                                  *)

LEMMA ExecNext == ExecInv /\ [Next]_vars => ExecInv'
<1> SUFFICES ASSUME ExecInv, [Next]_vars PROVE ExecInv'
  OBVIOUS
<1>1. CASE UNCHANGED vars
  <2>1. UNCHANGED <<clientvars, args, hvars, cvars, pvars, tabs, chanvars>>
    BY <1>1 DEF vars, state
  <2>2. UNCHANGED <<args, kpc, ktab, openfds, todo, sent, got, wrv, exitst, inq, outq, exitq, htab, ctab, dtab,
                    hpc, status, errs, cpc, ended, inread, eof, outw, carry>>
    BY <2>1 DEF clientvars, loopvars, datavars, hvars, cvars, pvars, tabs, chanvars
  <2> QED
    BY <2>2 DEF ExecInv, ExecType, Places, OutputInv, InputInv, ChildInv, StatusInv, Told, Abandoned,
                Drained, Full, Held
<1>2. CASE Collect /\ UNCHANGED <<hvars, cvars, pvars>> /\ UNCHANGED args
  BY <1>2, CollectKeeps
<1>3. CASE Service /\ UNCHANGED args
  <2>1. ServiceData
    BY <1>3, HandlerData, ChildData, ProgramData DEF Service
  <2>2. StatusTypes' /\ ChildInv' /\ StatusInv'
    BY <1>3, HandlerStatus, ProgramStatus DEF Service
  <2> QED
    BY <1>3, <2>1, <2>2, DataKeeps DEF ExecInv, ExecType, StatusTypes
<1> QED
  BY <1>1, <1>2, <1>3 DEF Next

\* The invariant holds in every state of a call (convenience.c, misc.c,
\* russexec_server.c).
THEOREM ExecAlways == Spec => []ExecInv
<1>1. Init => ExecInv
  BY ExecInit
<1>2. ExecInv /\ [Next]_vars => ExecInv'
  BY ExecNext
<1> QED
  BY <1>1, <1>2, PTL DEF Spec

-----------------------------------------------------------------------------
(* What follows.                                                           *)

\* OutputWhole: a client whose loop ends by itself (convenience.c) has taken all
\* that was written to it, or as much as its buffer holds, and nobody is left who
\* could write more.
THEOREM OutputWholeAlways == Spec => []OutputWhole
<1>1. ExecInv => OutputWhole
  <2> SUFFICES ASSUME ExecInv, kpc = "returned", NEW f \in Outs
               PROVE  /\ got[f] = IF args.cap = 0 THEN outw[f] ELSE Least(outw[f], args.cap)
                      /\ got[f] = args.cap \/ ~Held(f)
    BY DEF OutputWhole
  <2>1. /\ got[f] \in Nat /\ outq[f] \in Nat /\ outw[f] \in Nat /\ args.cap \in Nat
        /\ got[f] + outq[f] = outw[f] /\ (args.cap > 0 => got[f] <= args.cap)
    BY ArgsType DEF ExecInv, ExecType, OutputInv
  <2>2. f \notin ktab /\ ~Abandoned
    BY DEF ExecInv, Places, Abandoned
  <2>3. CASE Drained(f)
    <3>1. ~Held(f) /\ got[f] = outw[f]
      BY <2>1, <2>3 DEF Drained
    <3> QED
      BY <2>1, <3>1 DEF Least
  <2>4. CASE Full(f)
    <3>1. args.cap > 0 /\ got[f] = args.cap /\ outw[f] >= args.cap
      BY <2>1, <2>4 DEF Full
    <3> QED
      BY <2>1, <3>1 DEF Least
  <2> QED
    BY <2>2, <2>3, <2>4 DEF ExecInv, OutputInv
<1> QED
  BY <1>1, ExecAlways, PTL

\* InputWhole: a program that reads the end of its input has read all of it: the
\* client closes it only when everything was written, or when it gives up.
THEOREM InputWholeAlways == Spec => []InputWhole
<1>1. ExecInv => InputWhole
  <2> SUFFICES ASSUME ExecInv, eof, ~Abandoned PROVE inread = args.len
    BY DEF InputWhole, Abandoned
  <2>1. sent = args.len /\ inq = 0 /\ inread + inq = sent /\ inread \in Nat
    BY DEF ExecInv, ExecType, InputInv
  <2> QED
    BY <2>1
<1> QED
  BY <1>1, ExecAlways, PTL

\* StatusTrue: a status that russ_cconn_wait() gives means that the program is
\* over, or was never made; it is the status the program exited with, and never
\* the one that stands for a client that hung up (misc.c), unless a poll() of the
\* handler failed.
THEOREM StatusTrueAlways == Spec => []StatusTrue
<1>1. ExecInv => StatusTrue
  <2> SUFFICES ASSUME ExecInv, wrv = "ok", errs = 0
               PROVE  /\ cpc \in {"none", "reaped"}
                      /\ cpc = "reaped" /\ ended % 256 = 0 => exitst = ended \div 256
                      /\ status # FdClosed
    BY DEF StatusTrue
  <2>1. Told /\ exitst = ExitStatus(status)
    BY DEF ExecInv, StatusInv
  <2>2. ended \in Nat /\ ended < 65536
    BY DEF ExecInv, ExecType
  <2>3. (ended \div 256) % 256 = ended \div 256
    <3>1. ended \div 256 \in Nat /\ ended \div 256 < 256
      BY <2>2
    <3> QED
      BY <3>1
  <2> QED
    BY <2>1, <2>3 DEF Told, ExitStatus
<1> QED
  BY <1>1, ExecAlways, PTL
=============================================================================
