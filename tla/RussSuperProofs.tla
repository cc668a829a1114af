-------------------------- MODULE RussSuperProofs --------------------------
(* Proofs about RussSuper and RussAnnounce, for any set of handlers, any     *)
(* number of tries of each and any number of servers that are killed.        *)
EXTENDS RussSuper, TLAPS

Working == {"start", "fork", "unlock", "sleep"}

\* A handler that is at a try has one left, and the server of a try that is
\* still to come was not started.
Fresh(h, k) == k < cnt[h] \/ (k = cnt[h] /\ pc[h] \in {"dial", "start", "fork"})

TryInv ==
    /\ \A h \in Handlers : pc[h] \in Working => cnt[h] > 0
    /\ \A h \in Handlers : \A k \in 1..Tries[h] : Fresh(h, k) => apc[<<h, k>>] = "none"

\* The invariant that TypeOK needs to be inductive.
SuperInv == TypeOK /\ TryInv

\* Not every step concerns every variable: these are the steps by what they
\* leave alone.
AnnouncePc == Announcing \cup {"none", "start", "up", "lost", "failed", "dead"}

LEMMA ServerPairs ==
    /\ \A h \in Handlers : \A k \in 1..Tries[h] : <<h, k>> \in Servers
    /\ \A s \in Servers : \E h \in Handlers : \E k \in 1..Tries[h] : s = <<h, k>>
    /\ \A g, h, k, l : <<g, k>> = <<h, l>> => g = h /\ k = l
BY SuperAssumption

LEMMA FileOf == \A s \in Servers, m \in {"closed", "open"} : File(s, m) \in Files
BY DEF File, Files

\* The initial states satisfy the invariant.
LEMMA SuperInit == Init => SuperInv
<1> SUFFICES ASSUME Init PROVE SuperInv
  OBVIOUS
<1>1. cnt \in [Handlers -> Nat] /\ \A h \in Handlers : cnt[h] <= Tries[h] /\ cnt[h] > 0
  BY SuperAssumption DEF Init
<1>2. TypeOK
  BY <1>1, AnnounceAssumption DEF Init, AnnounceInit, TypeOK, Announcing, Files, File
<1>3. TryInv
  BY <1>1, ServerPairs DEF Init, AnnounceInit, TryInv, Working
<1> QED
  BY <1>2, <1>3 DEF SuperInv

\* The steps of handlers.
LEMMA SuperHandle ==
    \A h \in Handlers : SuperInv /\ (Handle(h) \/ Trouble(h) \/ Kill(h)) => SuperInv'
<1> SUFFICES ASSUME NEW h \in Handlers, SuperInv, Handle(h) \/ Trouble(h) \/ Kill(h)
             PROVE  SuperInv'
  OBVIOUS
<1> USE SuperAssumption, AnnounceAssumption
        DEF SuperInv, TypeOK, TryInv, Fresh, Working, avars, Goto
<1>1. CASE DialOk(h)
  BY <1>1 DEF DialOk
<1>2. CASE DialFail(h)
  BY <1>2 DEF DialFail
<1>3. CASE GiveUp(h)
  BY <1>3 DEF GiveUp
<1>4. CASE Lock(h)
  BY <1>4 DEF Lock
<1>5. CASE LockTimeout(h)
  BY <1>5 DEF LockTimeout
<1>6. CASE Fork(h)
  <2>1. cnt[h] \in 1..Tries[h] /\ <<h, cnt[h]>> \in Servers
    BY <1>6, ServerPairs DEF Fork
  <2>2. apc' \in [Servers -> AnnouncePc]
    BY <1>6, <2>1 DEF Fork, AStep, AnnouncePc
  <2>3. ASSUME NEW g \in Handlers, NEW k \in 1..Tries[g], Fresh(g, k)'
        PROVE  apc'[<<g, k>>] = "none"
    <3>1. <<g, k>> # <<h, cnt[h]>> /\ Fresh(g, k)
      BY <1>6, <2>3 DEF Fork
    <3>2. apc'[<<g, k>>] = apc[<<g, k>>]
      BY <1>6, <3>1, <2>1, ServerPairs DEF Fork, AStep
    <3> QED
      BY <3>1, <3>2
  <2> QED
    BY <1>6, <2>2, <2>3 DEF Fork, AnnouncePc
<1>7. CASE Unlock(h)
  BY <1>7 DEF Unlock
<1>8. CASE Sleep(h)
  BY <1>8 DEF Sleep
<1>9. CASE Trouble(h)
  BY <1>9 DEF Trouble
<1>10. CASE Kill(h)
  BY <1>10 DEF Kill
<1> QED
  BY <1>1, <1>2, <1>3, <1>4, <1>5, <1>6, <1>7, <1>8, <1>9, <1>10 DEF Handle

\* What a step of a server does to the types, and to the servers not started.
LEMMA ServeTypes ==
    ASSUME NEW s \in Servers, TypeOK, Start(s) \/ Announce(s) \/ AnnounceFail(s) \/ Die(s)
    PROVE  /\ file' \in Files \cup {NoFile}
           /\ apc[s] # "none"
           /\ \E l \in AnnouncePc : AStep(s, l)
           /\ listens' \subseteq Servers
           /\ deaths' \in 0..MaxDeaths
<1> USE AnnounceAssumption, FileOf DEF TypeOK, AnnouncePc, Announcing
<1>f. ASSUME file # NoFile, NEW m \in {"closed", "open"}
      PROVE  File(file.sock, m) \in Files /\ file.mode \in {"closed", "open"}
  BY <1>f DEF Files, File
<1>1. CASE Start(s)
  BY <1>1 DEF Start
<1>2. CASE Bind(s)
  BY <1>2 DEF Bind
<1>3. CASE Probe(s)
  BY <1>3 DEF Probe
<1>4. CASE Unlink(s)
  BY <1>4 DEF Unlink
<1>5. CASE Rebind(s)
  BY <1>5 DEF Rebind
<1>6. CASE ChmodZero(s)
  BY <1>6, <1>f DEF ChmodZero, OnFile
<1>7. CASE Chown(s)
  BY <1>7, <1>f DEF Chown, OnFile
<1>8. CASE Listen(s)
  BY <1>8 DEF Listen
<1>9. CASE ChmodMode(s)
  BY <1>9, <1>f DEF ChmodMode, OnFile
<1>10. CASE Die(s)
  BY <1>10 DEF Die
<1>11. CASE AnnounceFail(s)
  BY <1>11 DEF AnnounceFail
<1> QED
  BY <1>1, <1>2, <1>3, <1>4, <1>5, <1>6, <1>7, <1>8, <1>9, <1>10, <1>11 DEF Announce

\* The steps of servers.
LEMMA SuperServe == \A s \in Servers : SuperInv /\ Serve(s) => SuperInv'
<1> SUFFICES ASSUME NEW s \in Servers, SuperInv, Serve(s) PROVE SuperInv'
  OBVIOUS
<1> USE DEF SuperInv, Serve
<1>1. /\ file' \in Files \cup {NoFile}
      /\ apc[s] # "none"
      /\ \E l \in AnnouncePc : AStep(s, l)
      /\ listens' \subseteq Servers
      /\ deaths' \in 0..MaxDeaths
  BY ServeTypes
<1>2. apc' \in [Servers -> AnnouncePc]
  BY <1>1 DEF AStep, TypeOK, AnnouncePc
<1>3. TypeOK'
  BY <1>1, <1>2 DEF TypeOK, AnnouncePc
<1>4. ASSUME NEW g \in Handlers, NEW k \in 1..Tries[g], Fresh(g, k)'
      PROVE  apc'[<<g, k>>] = "none"
  <2>1. Fresh(g, k) /\ apc[<<g, k>>] = "none"
    BY <1>4 DEF Fresh, TryInv
  <2> QED
    BY <1>1, <2>1, ServerPairs DEF AStep, TypeOK
<1> QED
  BY <1>3, <1>4 DEF TryInv

\* Every variable keeps its type (TypeOK), and no server is started twice.
THEOREM SuperInvariant == Spec => []SuperInv
<1>1. Init => SuperInv
  BY SuperInit
<1>2. SuperInv /\ [Next]_vars => SuperInv'
  <2> SUFFICES ASSUME SuperInv, [Next]_vars PROVE SuperInv'
    OBVIOUS
  <2>1. CASE Next
    BY <2>1, SuperHandle, SuperServe DEF Next
  <2>2. CASE UNCHANGED vars
    BY <2>2 DEF vars, avars, SuperInv, TypeOK, TryInv, Fresh
  <2> QED
    BY <2>1, <2>2
<1> QED
  BY <1>1, <1>2, PTL DEF Spec

\* Every variable of the super server and of the announcing servers has its
\* type throughout.
THEOREM TypeCorrect == Spec => []TypeOK
<1>1. SuperInv => TypeOK
  BY DEF SuperInv
<1> QED
  BY <1>1, SuperInvariant, PTL

-----------------------------------------------------------------------------
(* The lock.  LockHeld is inductive once the types are known: whoever gets    *)
(* the lock finds it free, so nobody is at the forks.                         *)

LEMMA LockStep == SuperInv /\ LockHeld /\ [Next]_vars => LockHeld'
<1> SUFFICES ASSUME SuperInv, LockHeld, [Next]_vars PROVE LockHeld'
  OBVIOUS
<1> USE SuperAssumption DEF SuperInv, TypeOK, LockHeld
<1>1. ASSUME NEW h \in Handlers, Handle(h) \/ Trouble(h) \/ Kill(h) PROVE LockHeld'
  <2> USE DEF Goto
  <2>1. CASE Lock(h)
    BY <2>1 DEF Lock
  <2>2. CASE Unlock(h)
    BY <2>2 DEF Unlock
  <2>3. CASE Fork(h)
    BY <2>3 DEF Fork
  <2>4. CASE Kill(h)
    BY <2>4 DEF Kill
  <2>5. CASE DialOk(h) \/ DialFail(h) \/ GiveUp(h) \/ LockTimeout(h) \/ Sleep(h) \/ Trouble(h)
    BY <2>5 DEF DialOk, DialFail, GiveUp, LockTimeout, Sleep, Trouble
  <2> QED
    BY <1>1, <2>1, <2>2, <2>3, <2>4, <2>5 DEF Handle
<1>2. ASSUME NEW s \in Servers, Serve(s) PROVE LockHeld'
  BY <1>2 DEF Serve
<1>3. CASE UNCHANGED vars
  BY <1>3 DEF vars
<1> QED
  BY <1>1, <1>2, <1>3 DEF Next

\* Two handlers are never both starting the server, and start_server() never
\* leaves the lock behind (russsuper_server.c:122), unless its process is killed.
THEOREM LockAlwaysHeld == Spec => []LockHeld
<1>1. Init => LockHeld
  BY DEF Init, LockHeld
<1> QED
  BY <1>1, LockStep, SuperInvariant, PTL DEF Spec

-----------------------------------------------------------------------------
(* The address.  When the file is gone somebody is about to bind; when it is  *)
(* closed somebody is about to open it; and it leads to a server that bound   *)
(* it, once one did.  All of it as long as no server is killed or fails.      *)

NoneDead == \A s \in Servers : apc[s] \notin {"dead", "failed"}
Bound == {"chmod0", "chown", "listen", "chmod", "up"}
Opening == {"chown", "listen", "chmod"}

AddressInv ==
    /\ \A s \in Servers : apc[s] \in {"chmod", "up"} => s \in listens
    /\ file # NoFile => file.sock = Old \/ apc[file.sock] \in Bound \cup {"dead", "failed"}
    /\ file # NoFile /\ file.sock = Old => \A s \in Servers : apc[s] \notin Bound \cup {"rebind"}
    /\ NoneDead /\ file = NoFile /\ (\E s \in Servers : apc[s] \in Bound)
          => \E s \in Servers : apc[s] = "rebind"
    /\ NoneDead /\ file # NoFile /\ file.mode = "closed"
          => \E s \in Servers : apc[s] \in Opening

LEMMA FileFields ==
    /\ \A f \in Files : f = [sock |-> f.sock, mode |-> f.mode]
    /\ \A f \in Files : f.sock \in Servers \cup {Old} /\ f.mode \in {"closed", "open"}
    /\ \A s, m : File(s, m).sock = s /\ File(s, m).mode = m
BY DEF Files, File

LEMMA AddressInit == Init => AddressInv
BY FileFields DEF Init, AnnounceInit, AddressInv, Bound, Opening

\* The steps of handlers: at most, a server is started that was not before.
LEMMA AddressHandle ==
    \A h \in Handlers :
        SuperInv /\ AddressInv /\ (Handle(h) \/ Trouble(h) \/ Kill(h)) => AddressInv'
<1> SUFFICES ASSUME NEW h \in Handlers, SuperInv, AddressInv, Handle(h) \/ Trouble(h) \/ Kill(h)
             PROVE  AddressInv'
  OBVIOUS
<1> USE DEF avars
<1>1. CASE UNCHANGED <<file, apc, listens>>
  BY <1>1 DEF AddressInv, NoneDead
<1>2. CASE Fork(h) /\ AStep(<<h, cnt[h]>>, "start")
  <2> DEFINE t == <<h, cnt[h]>>
  <2>1. t \in Servers /\ apc[t] = "none"
    <3>1. cnt[h] \in 1..Tries[h] /\ Fresh(h, cnt[h])
      BY <1>2, SuperAssumption DEF Fork, SuperInv, TypeOK, TryInv, Working, Fresh
    <3> QED
      BY <3>1, ServerPairs DEF SuperInv, TryInv
  <2>2. apc' = [apc EXCEPT ![t] = "start"] /\ UNCHANGED <<file, listens>>
    BY <1>2 DEF Fork, AStep
  <2> HIDE DEF t
  <2>3. apc'[t] = "start" /\ \A s \in Servers : s # t => apc'[s] = apc[s]
    BY <2>1, <2>2 DEF SuperInv, TypeOK
  <2>4. file # NoFile => file.sock \in Servers \cup {Old}
    BY FileFields DEF SuperInv, TypeOK
  <2> QED
    BY <2>1, <2>2, <2>3, <2>4, AnnounceAssumption DEF AddressInv, NoneDead, Bound, Opening
<1> QED
  BY <1>1, <1>2 DEF Handle, DialOk, DialFail, GiveUp, Lock, LockTimeout, Fork, Unlock, Sleep,
     Trouble, Kill

\* The steps of servers.
LEMMA AddressServe == \A s \in Servers : SuperInv /\ AddressInv /\ Serve(s) => AddressInv'
<1> SUFFICES ASSUME NEW s \in Servers, SuperInv, AddressInv, Serve(s) PROVE AddressInv'
  OBVIOUS
<1>t. /\ file # NoFile => file \in Files /\ file.sock \in Servers \cup {Old}
                         /\ file.mode \in {"closed", "open"}
      /\ listens \subseteq Servers
  BY FileFields DEF SuperInv, TypeOK
<1>a. ASSUME NEW l, AStep(s, l)
      PROVE  apc'[s] = l /\ \A u \in Servers : u # s => apc'[u] = apc[u]
  BY <1>a DEF AStep, SuperInv, TypeOK
<1>n. File(s, "open") # NoFile
  BY AnnounceAssumption, FileOf
<1>m. ASSUME file # NoFile, NEW mode \in {"closed", "open"}
      PROVE  LET f == File(file.sock, mode)
             IN  f # NoFile /\ f.sock = file.sock /\ f.mode = mode
  BY <1>m, <1>t, AnnounceAssumption DEF Files, File
<1> USE AnnounceAssumption, <1>t, <1>a DEF AddressInv, NoneDead, Bound, Opening
<1>1. CASE Start(s)
  BY <1>1 DEF Start
<1>2. CASE Bind(s)
  <2>1. CASE file = NoFile
    BY <1>2, <2>1, <1>n, FileFields DEF Bind
  <2>2. CASE file # NoFile
    BY <1>2, <2>2 DEF Bind
  <2> QED
    BY <2>1, <2>2
<1>3. CASE Probe(s)
  BY <1>3 DEF Probe
<1>4. CASE Unlink(s)
  BY <1>4 DEF Unlink
<1>5. CASE Rebind(s)
  <2>1. CASE file = NoFile
    BY <1>5, <2>1, <1>n, FileFields DEF Rebind
  <2>2. CASE file # NoFile
    BY <1>5, <2>2 DEF Rebind
  <2> QED
    BY <2>1, <2>2
<1>6. CASE ChmodZero(s)
  <2>1. CASE file # NoFile
    BY <1>6, <2>1, <1>m DEF ChmodZero, OnFile
  <2>2. CASE file = NoFile
    BY <1>6, <2>2 DEF ChmodZero, OnFile
  <2> QED
    BY <2>1, <2>2
<1>7. CASE Chown(s)
  <2>1. CASE file # NoFile
    BY <1>7, <2>1, <1>m DEF Chown, OnFile
  <2>2. CASE file = NoFile
    BY <1>7, <2>2 DEF Chown, OnFile
  <2> QED
    BY <2>1, <2>2
<1>8. CASE Listen(s)
  BY <1>8 DEF Listen
<1>9. CASE ChmodMode(s)
  <2>1. CASE file # NoFile
    BY <1>9, <2>1, <1>m DEF ChmodMode, OnFile
  <2>2. CASE file = NoFile
    BY <1>9, <2>2 DEF ChmodMode, OnFile
  <2> QED
    BY <2>1, <2>2
<1>10. CASE Die(s)
  BY <1>10 DEF Die
<1>11. CASE AnnounceFail(s)
  BY <1>11 DEF AnnounceFail
<1> QED
  BY <1>1, <1>2, <1>3, <1>4, <1>5, <1>6, <1>7, <1>8, <1>9, <1>10, <1>11 DEF Serve, Announce

\* What AddressLive says follows: nobody is left to bind or to open the file, so
\* it is there and open, and its server came through and listens.
LEMMA AddressImplied == SuperInv /\ AddressInv => AddressLive
<1> SUFFICES ASSUME SuperInv, AddressInv,
                    \A s \in Servers : apc[s] \notin Announcing,
                    \E s \in Servers : apc[s] = "up",
                    NoneDead
             PROVE  \E s \in Servers : apc[s] = "up" /\ Reachable(s)
  BY DEF AddressLive, NoneDead
<1>1. file # NoFile /\ file \in Files
  BY DEF AddressInv, Bound, SuperInv, TypeOK, Announcing
<1>2. file.sock \in Servers /\ apc[file.sock] = "up"
  BY <1>1, FileFields DEF AddressInv, Bound, NoneDead, Announcing
<1>3. file.mode = "open"
  BY <1>1, FileFields DEF AddressInv, Opening, Announcing
<1>4. file = File(file.sock, "open")
  BY <1>1, <1>3, FileFields DEF File
<1>5. file.sock \in listens
  BY <1>2 DEF AddressInv
<1> QED
  BY <1>2, <1>4, <1>5 DEF Reachable

\* However many servers announce at one address at once, it is not left dead: one
\* of them is reachable when all are done, unless one was killed or failed
\* half-way (russ_announce()).
THEOREM AddressAlwaysLive == Spec => []AddressLive
<1>1. SuperInv /\ AddressInv /\ [Next]_vars => AddressInv'
  <2> SUFFICES ASSUME SuperInv, AddressInv, [Next]_vars PROVE AddressInv'
    OBVIOUS
  <2>1. CASE Next
    BY <2>1, AddressHandle, AddressServe DEF Next
  <2>2. CASE UNCHANGED vars
    BY <2>2 DEF vars, avars, AddressInv, NoneDead
  <2> QED
    BY <2>1, <2>2
<1> QED
  BY <1>1, AddressInit, AddressImplied, SuperInvariant, PTL DEF Spec
=============================================================================
