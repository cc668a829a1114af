-------------------------- MODULE RussServeProofs --------------------------
(***************************************************************************)
(* Proofs about RussServe, for any calls, processes, users and texts: a    *)
(* client that stays is told a status, what the status stands for, which   *)
(* processes are on a list, and that the output is complete when the       *)
(* status comes.                                                           *)
(*                                                                         *)
(* The invariant has a part for each of these; what they share is where a  *)
(* handler of a service can be (Control).                                  *)
(***************************************************************************)
EXTENDS RussServe, FiniteSetTheorems, SequenceTheorems, WellFoundedInduction, TLAPS

-----------------------------------------------------------------------------
(* The invariant.                                                          *)

\* Where the handlers are, between the first look at the call and the end.
Looking == {"read", "stat", "open"}
Calling == {"send", "delim1", "delim2", "answer", "notsent", "callfailure", "waiting"}
Teeing == {"files", "relay"}

\* Where a handler is tells its service, and what the client was answered.
Control ==
    /\ call \in Calls /\ faults \in Nat
    /\ pc \in {"begin", "lost", "ready", "wait", "gone"} \cup Looking \cup Calling \cup Teeing
    /\ answer \in {"no", "session", "tunnel", "nothing"}
    /\ pc \in Looking => Svc({"list", "status", "pidstatus"})
    /\ pc = "read" => Svc({"list", "status"})
    /\ pc \in {"stat", "open"} => Svc({"status", "pidstatus"})
    /\ pc = "wait" => Svc({"wait"})
    /\ pc \in Calling => Svc(Ssh)
    /\ pc \in Calling \ {"waiting"} => ~Svc({"dial"})
    /\ pc \in Teeing => Svc({"tee"})
    /\ pc # "gone" => said = NoStatus
    /\ answer = "no" /\ Here =>
          \/ pc \in {"begin", "lost", "gone"}
          \/ Svc({"tunnel", "tunnelr"}) /\ pc \in {"ready", "send", "delim1", "delim2", "answer", "callfailure"}
    /\ answer = "nothing" => Svc(Ssh) /\ pc \in {"notsent", "gone"}

\* The processes there are, were, and were at the first look.
Entry == [owner : Users \cup {NoUser}, born : Nat]
Holding == pc \in {"stat", "open", "wait"} \/ (pc = "read" /\ Svc({"status"}))
Processes ==
    /\ procs \in [Pids -> Entry] /\ first \in [Pids -> Entry]
    /\ \A p \in Pids : first[p].born <= procs[p].born
    /\ Now \subseteq lived
    /\ \A l \in lived : l[2] # NoUser
    /\ Holding => found \in Pids
    /\ pc = "open" => \E l \in lived : l[1] = found

\* The line of process p is in the output.
Lined(p) == \E i \in DOMAIN out : out[i] = LineOf(<<p, procs[p].owner, procs[p].born>>)
\* Process p is there, and was at the first look.
Stays(p) == Lives(p) /\ first[p] = procs[p]

\* The list has the processes up to the entry of /proc it has come to.
Listing ==
    /\ out \in Seq(Range(out))
    /\ at \in Int /\ (pc \in {"begin", "ready"} => at <= 0)
    /\ Svc({"list"}) /\ Here /\ pc = "read" => \A p \in Pids : p <= at /\ Stays(p) => Lined(p)
    /\ Svc({"status"}) /\ Here /\ pc \in Looking =>
          \A p \in Pids : p <= at /\ Stays(p) /\ Asked(procs[p].owner) =>
              Lined(p) \/ (p = found /\ pc \in {"stat", "open"})
    /\ pc = "open" /\ Stays(found) => owner = procs[found].owner
    /\ Svc({"status"}) /\ pc \in {"stat", "open"} /\ at > 0 =>
          found = at /\ \E l \in lived : l[1] = at /\ AskedFor(l)
    /\ pc = "open" => \E l \in lived : l[1] = found /\ l[2] = owner
    /\ ListTrue

\* Copied(), of any output s and text t.
CopiedTo(s, t, i, n) ==
    \E place \in [1..n -> DOMAIN s] :
        /\ \A m \in 1..n : s[place[m]] = <<i, t[m]>> /\ \A k \in 1..m - 1 : place[k] < place[m]
        /\ \A x \in DOMAIN s : s[x][1] = i => \E m \in 1..n : place[m] = x

\* What was echoed and what is to be; what the other end wrote, and what was copied
\* of it.
Copying ==
    /\ in \in Seq(Range(in))
    /\ Svc({"echo"}) /\ Here => (pc # "gone" => out \o in = call.in) /\ (Heard => out = call.in)
    /\ Svc({"tee"}) => taken \in [{1, 2} -> Nat]
    /\ taken # <<0, 0>> => Svc(Ssh) \/ (Svc({"tee"}) /\ wrote /\ pc \in {"relay", "gone"})
    /\ Svc({"tee"}) => \A i \in {1, 2} : taken[i] <= Len(Text(i))
    /\ Svc({"tee"}) /\ pc \in {"begin", "ready", "files"} => out = <<>>
    /\ Svc({"tee"}) /\ Here => \A i \in {1, 2} : CopiedTo(out, call.text[i], i, taken[i])
    /\ Heard /\ Svc({"tee"}) /\ taken # <<0, 0>> =>
          remote = "ended" /\ \A i \in {1, 2} : taken[i] = Len(call.text[i])

\* What a status stands for, service by service (StatusTrue).
Truth ==
    Heard =>
        /\ Svc({"wait"}) =>
              /\ said = Success => <<found, first[found].owner, first[found].born>> \notin Now
              /\ said = Late /\ call.args = 2 => call.due = "at once" \/ due = "past"
        /\ Svc({"kill"}) => (said = Success => hit[1] \in Named /\ hit[2] = Signal /\ call.sig # "empty")
        /\ Svc(Ssh) =>
              /\ said = Success => (remote = "ended" /\ code \in {Success, Killed}) \/ faults > 0
              /\ answer = "nothing" => said = CallFailure
        /\ Svc({"tee"}) /\ taken # <<0, 0>> => said = TeeStatus
        /\ Svc({"exit"}) => said = call.arg \/ (said = Failure /\ call.arg \notin 0..255)

\* A child that is not there was never made; what was told.
Telling ==
    /\ code \in Statuses \cup {Killed}
    /\ pc \in Calling /\ remote = "none" => faults > 0
    /\ remote \in {"none", "run", "ended"} \/ (remote = "hup" /\ pc = "gone")
    /\ pc = "wait" /\ call.args = 2 => due \in {call.due, "past"}
    /\ StatusGiven /\ Truth

\* How far russssh2 is with the delimiters, before and after the client is answered.
Tunnelling ==
    Svc({"tunnelr"}) =>
        /\ taken \in [{1, 2} -> Nat]
        /\ pc \in {"delim2", "answer"} => Clears(call.text[1], taken[1])
        /\ pc = "answer" => Clears(call.text[2], taken[2])
        /\ answer = "tunnel" =>
              /\ pc \in {"waiting", "notsent", "gone"}
              /\ \A i \in {1, 2} : Clears(call.text[i], taken[i])

ServeInv == Control /\ Processes /\ Listing /\ Copying /\ Telling /\ Tunnelling

-----------------------------------------------------------------------------
(* Where a handler is.                                                     *)

LEMMA Distinct ==
    /\ Success \in Statuses /\ Failure \in Statuses /\ CallFailure \in Statuses /\ SysFailure \in Statuses
    /\ Success # Failure /\ Success # CallFailure /\ Failure # CallFailure
    /\ Late \in Statuses /\ Late # Success /\ Late # Failure
    /\ NoStatus \notin Statuses /\ (\A n \in 0..255 : n # NoStatus)
<1>1. Success # Failure /\ Success # CallFailure /\ Failure # CallFailure
  <2> SUFFICES ASSUME Success = Failure \/ Success = CallFailure \/ Failure = CallFailure PROVE FALSE
    OBVIOUS
  <2>1. PICK a, b, c : {Success, Failure, CallFailure, SysFailure} = {a, b, c}
    OBVIOUS
  <2>2. Cardinality({a, b, c}) <= 3
    <3>1. IsFiniteSet({}) /\ Cardinality({}) = 0
      BY FS_EmptySet
    <3>2. IsFiniteSet({a}) /\ Cardinality({a}) = 1
      BY FS_Singleton
    <3>3. IsFiniteSet({a} \cup {b}) /\ Cardinality({a} \cup {b}) \in {1, 2}
      BY <3>2, FS_AddElement
    <3>4. Cardinality(({a} \cup {b}) \cup {c}) \in {1, 2, 3}
      BY <3>3, FS_AddElement
    <3>5. ({a} \cup {b}) \cup {c} = {a, b, c}
      OBVIOUS
    <3> QED
      BY <3>4, <3>5
  <2>3. Cardinality({a, b, c}) = 4
    <3>1. Cardinality({Success, Failure, CallFailure, SysFailure}) = 4
      BY SessionAssumption DEF SessionAssumption
    <3> QED
      BY <2>1, <3>1
  <2> QED
    BY <2>2, <2>3
<1>2. /\ Success \in Statuses /\ Failure \in Statuses /\ CallFailure \in Statuses /\ SysFailure \in Statuses
      /\ NoStatus \notin Statuses /\ (\A n \in 0..255 : n # NoStatus)
  BY SessionAssumption DEF SessionAssumption
<1>3. Late \in Statuses /\ Late # Success /\ Late # Failure
  BY ProcAssumption DEF ProcAssumption
<1> QED
  BY <1>1, <1>2, <1>3

LEMMA ControlInit == Init => Control
<1> SUFFICES ASSUME Init PROVE Control
  OBVIOUS
<1> QED
  BY DEF Init, SessionInit, Control, Looking, Calling, Teeing, Here

LEMMA FaultCounts ==
    ASSUME faults \in Nat, Fault \/ faults' = faults
    PROVE  faults' \in Nat /\ (faults > 0 => faults' > 0) /\ (Fault => faults' > 0)
BY DEF Fault

LEMMA Streams ==
    /\ Next1["delim1"] = "delim2" /\ Next1["delim2"] = "answer"
    /\ Stream["delim1"] = 1 /\ Stream["delim2"] = 2
BY DEF Next1, Stream

LEMMA ControlNext ==
    ASSUME Control, Next
    PROVE  Control'
<1> USE DEF Control, Looking, Calling, Teeing, Svc, Here, Goto, still, stands, Handler, End, Die
<1>1. call' = call /\ call \in Calls
  BY DEF Next
<1>2. CASE ClientStep \/ SessionStep \/ SessionFault
  <2>1. faults' \in Nat
    BY <1>2, FaultCounts DEF ClientStep, Leave, CloseInput, SessionStep, Begin, Alive, Report, Exit, Chargen, WriteThen, Die, ReadInput,
       InputEnds, SessionFault, ThreadLost, DiscardFails
  <2>2. CASE ClientStep
    BY <2>1, <1>1, <2>2 DEF ClientStep, Leave, CloseInput
  <2>3. CASE SessionStep
    BY <2>1, <1>1, <2>3 DEF SessionStep, Begin, Alive, Report, Exit, Chargen, WriteThen, Die, ReadInput, InputEnds, Ssh
  <2>4. CASE SessionFault
    BY <2>1, <1>1, <2>4 DEF SessionFault, ThreadLost, DiscardFails, Fault
  <2> QED
    BY <1>2, <2>2, <2>3, <2>4
<1>3. CASE Machine \/ ProcFault
  <2>1. faults' \in Nat
    BY <1>3, FaultCounts DEF Machine, Expire, ProcEnds, ProcStarts, ProcFault, OpenDirFails, WaitFails, sessionVars
  <2> QED
    BY <2>1, <1>1, <1>3 DEF Machine, Expire, ProcEnds, ProcStarts, ProcFault, OpenDirFails, WaitFails, sessionVars
<1>4. CASE ProcStep
  <2>1. faults' = faults
    BY <1>4 DEF ProcStep, OpenDir, ReadOther, ReadList, ReadStatus, CloseDir, PidStatus, Stat, WriteThen, Die, OpenInfo, InfoGone, Kill, Wait, Waited
  <2>2. CASE OpenDir \/ ReadOther \/ ReadList \/ ReadStatus \/ CloseDir
    BY <2>1, <1>1, <2>2 DEF OpenDir, ReadOther, WriteThen, Die, ReadList, ReadStatus, CloseDir
  <2>3. CASE PidStatus \/ Stat \/ OpenInfo \/ InfoGone
    BY <2>1, <1>1, <2>3 DEF PidStatus, Stat, WriteThen, Die, OpenInfo, InfoGone, NoInfo
  <2>4. CASE Kill \/ Wait \/ Waited
    BY <2>1, <1>1, <2>4 DEF Kill, Wait, Waited
  <2> QED
    BY <1>4, <2>2, <2>3, <2>4 DEF ProcStep
<1>5. CASE Remote \/ RemoteHup
  BY <1>1, <1>5 DEF Remote, RemoteWrites, RemoteEnds, KeeperEnds, RemoteHup, sessionVars
<1>6. CASE RemoteStep
  <2>1. faults' = faults
    BY <1>6 DEF RemoteStep, Fork, Send, Consume, AnswerTunnel, NotSent, AnswerCallFailure, Reaped, HangUp, TeeOther,
       TeeNoAttr, TeeDial, TeeOpen, TeeInput, TeeOutput, TeeEnds
  <2>2. CASE Fork \/ Send \/ Consume
    <3>1. CASE Fork \/ Send
      BY <2>1, <1>1, <3>1 DEF Fork, Send, After, Ssh
    <3>2. CASE Consume
      BY <2>1, <1>1, <3>2, Streams DEF Consume, Ssh
    <3> QED
      BY <2>2, <3>1, <3>2
  <2>3. CASE AnswerTunnel \/ NotSent \/ AnswerCallFailure
    BY <2>1, <1>1, <2>3 DEF AnswerTunnel, NotSent, AnswerCallFailure, Ssh
  <2>4. CASE Reaped \/ HangUp
    BY <2>1, <1>1, <2>4 DEF Reaped, HangUp, Ssh
  <2>5. CASE TeeOther \/ TeeNoAttr \/ TeeDial \/ TeeOpen
    BY <2>1, <1>1, <2>5 DEF TeeOther, TeeNoAttr, TeeDial, TeeOpen, Ssh
  <2>6. CASE TeeInput \/ TeeOutput(1) \/ TeeOutput(2) \/ TeeEnds
    BY <2>1, <1>1, <2>6 DEF TeeInput, TeeOutput, TeeEnds, Ssh
  <2> QED
    BY <1>6, <2>2, <2>3, <2>4, <2>5, <2>6 DEF RemoteStep
<1>7. CASE RemoteFault
  <2>1. faults' \in Nat
    BY <1>7, FaultCounts DEF RemoteFault, NoPipes, NoUserSwitch, ForkFails, NoMemory, WatchFails, TeeDialFails, TeeOpenFails, TeeWriteFails
  <2>2. CASE NoPipes \/ NoUserSwitch \/ ForkFails \/ NoMemory
    BY <2>1, <1>1, <2>2 DEF NoPipes, NoUserSwitch, ForkFails, NoMemory, WatchFails, After, Ssh, remoteVars
  <2>3. CASE TeeDialFails \/ TeeOpenFails \/ TeeWriteFails \/ WatchFails
    BY <2>1, <1>1, <2>3 DEF TeeDialFails, TeeOpenFails, TeeWriteFails, WatchFails, Ssh
  <2> QED
    BY <1>7, <2>2, <2>3 DEF RemoteFault
<1> QED
  BY <1>2, <1>3, <1>4, <1>5, <1>6, <1>7 DEF Next, Environment, Handling, Dies

-----------------------------------------------------------------------------
(* The processes.                                                          *)

LEMMA LeastNumber ==
    ASSUME NEW S, S \subseteq Nat, S # {}
    PROVE  \E n \in S : \A m \in S : n <= m
<1> DEFINE R == {ss \in Nat \X Nat : ss[1] < ss[2]}
<1>1. IsWellFoundedOn(R, Nat)
  BY Zenon, NatLessThanWellFounded DEF OpToRel
<1>2. \A m, n \in Nat : m < n => <<m, n>> \in R
  OBVIOUS
<1> HIDE DEF R
<1>3. PICK n \in S : \A m \in S : <<m, n>> \notin R
  BY <1>1, WFMin
<1>4. n \in Nat /\ \A m \in S : m \in Nat /\ ~(m < n)
  BY <1>2, <1>3
<1>5. \A m \in S : n <= m
  BY <1>4
<1> QED
  BY <1>5

\* The entry that is read next is the least of those that are there.
LEMMA SmallestEntry ==
    ASSUME Entries # {}
    PROVE  Min(Entries) \in Entries /\ \A p \in Entries : Min(Entries) <= p
<1>1. Entries \subseteq Nat
  BY ProcAssumption DEF Entries, ProcAssumption
<1>2. \E p \in Entries : \A q \in Entries : p <= q
  BY <1>1, LeastNumber
<1> QED
  BY <1>2 DEF Min

LEMMA ProcessesInit == Init => Processes
<1> SUFFICES ASSUME Init PROVE Processes
  OBVIOUS
<1>1. call \in Calls /\ pc = "begin"
  BY DEF Init, SessionInit
<1>2. procs \in [Pids -> Entry] /\ \A p \in Pids : procs[p].born = 0
  BY <1>1, ServeAssumption DEF Init, ProcInit, ServeAssumption, Entry, Svc
<1>3. first = procs /\ lived = Now
  BY DEF Init, ProcInit
<1>4. \A l \in Now : l[2] # NoUser
  BY DEF Now, Lives
<1> QED
  BY <1>1, <1>2, <1>3, <1>4 DEF Processes, Holding

\* A process that ends leaves the others as they are.
LEMMA ProcessesEnd ==
    ASSUME Processes, Control, NEW p \in Pids, Ends(p), lived' = lived, first' = first,
           found' = found, pc' = pc \/ pc' = "gone", call' = call
    PROVE  Processes'
<1>1. procs' \in [Pids -> Entry] /\ \A q \in Pids : procs'[q].born = procs[q].born
  BY DEF Processes, Ends, Entry
<1>2. Now' \subseteq Now
  BY DEF Processes, Ends, Entry, Now, Lives
<1>3. Holding' => Holding
  BY DEF Holding, Svc
<1> QED
  BY <1>1, <1>2, <1>3 DEF Processes

LEMMA ProcessesKeep ==
    ASSUME Processes, procs' = procs, lived' = lived, first' = first \/ first' = procs,
           Holding' => found' \in Pids,
           pc' = "open" => \E l \in lived : l[1] = found'
    PROVE  Processes'
<1>1. \A q \in Pids : procs[q].born <= procs[q].born
  BY DEF Processes, Entry
<1>2. Now' = Now
  BY DEF Now, Lives
<1> QED
  BY <1>1, <1>2 DEF Processes

LEMMA ProcessesNext ==
    ASSUME Control, Processes, Next
    PROVE  Processes'
<1> USE DEF Svc, Here, Goto, still, stands, Handler, End, Die, Holding
<1>0. call' = call
  BY DEF Next
<1>1. CASE (ClientStep \/ SessionStep \/ SessionFault) /\ UNCHANGED procVars
  <2>1. pc' = pc \/ pc' \in {"ready", "gone", "lost"}
    BY <1>1 DEF ClientStep, Leave, CloseInput, SessionStep, Begin, Alive, Report, Exit, Chargen, WriteThen, Die, ReadInput, InputEnds,
       SessionFault, ThreadLost, DiscardFails
  <2> QED
    BY <1>0, <1>1, <2>1, ProcessesKeep DEF procVars, Processes
<1>2. CASE (Remote \/ RemoteStep \/ RemoteFault \/ RemoteHup) /\ UNCHANGED procVars
  <2>1. pc' \in {"read", "stat", "open", "wait"} => pc' = pc
    <3>1. CASE Remote \/ RemoteHup
      BY <3>1 DEF Remote, RemoteWrites, RemoteEnds, KeeperEnds, RemoteHup, sessionVars
    <3>2. CASE Fork \/ Send \/ AnswerTunnel \/ NotSent \/ AnswerCallFailure \/ Reaped \/ HangUp
      BY <3>2 DEF Fork, Send, After, AnswerTunnel, NotSent, AnswerCallFailure, Reaped, HangUp
    <3>3. CASE Consume
      BY <3>3, Streams DEF Consume
    <3>4. CASE TeeOther \/ TeeNoAttr \/ TeeDial \/ TeeOpen \/ TeeInput \/ TeeOutput(1) \/ TeeOutput(2) \/ TeeEnds
      BY <3>4 DEF TeeOther, TeeNoAttr, TeeDial, TeeOpen, TeeInput, TeeOutput, TeeEnds
    <3>5. CASE RemoteFault
      BY <3>5 DEF RemoteFault, NoPipes, NoUserSwitch, ForkFails, NoMemory, WatchFails, After, TeeDialFails, TeeOpenFails, TeeWriteFails
    <3> QED
      BY <1>2, <3>1, <3>2, <3>3, <3>4, <3>5 DEF RemoteStep
  <2> QED
    BY <1>0, <1>2, <2>1, ProcessesKeep DEF procVars, Processes
<1>3. CASE Machine
  <2>1. CASE Expire
    BY <1>0, <2>1, ProcessesKeep DEF Expire, Processes, sessionVars
  <2>2. ASSUME NEW p \in Pids, ProcEnds(p) PROVE Processes'
    BY <1>0, <2>2, ProcessesEnd DEF ProcEnds, sessionVars
  <2>3. ASSUME NEW p \in Pids, NEW u \in Users, ProcStarts(p, u) PROVE Processes'
    <3>1. /\ procs' = [procs EXCEPT ![p] = [owner |-> u, born |-> @.born + 1]]
          /\ lived' = lived \cup {<<p, u, procs[p].born + 1>>} /\ UNCHANGED <<first, found, pc>>
      BY <2>3 DEF ProcStarts, sessionVars
    <3>2. /\ procs' \in [Pids -> Entry] /\ \A q \in Pids : procs[q].born <= procs'[q].born
          /\ \A q \in Pids : first[q].born \in Nat /\ procs[q].born \in Nat /\ procs'[q].born \in Nat
      BY <3>1 DEF Processes, Entry
    <3>3. \A q \in Pids : first[q].born <= procs'[q].born
      <4> SUFFICES ASSUME NEW q \in Pids PROVE first[q].born <= procs'[q].born
        OBVIOUS
      <4>1. first[q].born <= procs[q].born /\ procs[q].born <= procs'[q].born
        BY <3>2 DEF Processes
      <4> QED
        BY <3>2, <4>1
    <3>4. Now' \subseteq Now \cup {<<p, u, procs[p].born + 1>>}
      <4> SUFFICES ASSUME NEW q \in Pids, procs'[q].owner # NoUser
                   PROVE  <<q, procs'[q].owner, procs'[q].born>> \in Now \cup {<<p, u, procs[p].born + 1>>}
        BY DEF Now, Lives
      <4>1. CASE q = p
        BY <3>1, <4>1 DEF Processes, Entry
      <4>2. CASE q # p
        BY <3>1, <4>2 DEF Processes, Now, Lives
      <4> QED
        BY <4>1, <4>2
    <3>5. u # NoUser
      BY ProcAssumption DEF ProcAssumption
    <3> QED
      BY <1>0, <3>1, <3>2, <3>3, <3>4, <3>5 DEF Processes
  <2> QED
    BY <1>3, <2>1, <2>2, <2>3 DEF Machine
<1>4. CASE ProcStep \/ ProcFault
  <2>1. CASE OpenDir \/ ReadList \/ CloseDir \/ OpenDirFails \/ WaitFails \/ Waited
    BY <1>0, <2>1, ProcessesKeep DEF OpenDir, WriteThen, Die, ReadList, CloseDir, OpenDirFails, WaitFails, Waited, procVars
  <2>2. CASE ReadOther \/ ReadStatus
    <3>1. Entries # {} => Min(Entries) \in Pids
      BY SmallestEntry DEF Entries
    <3> QED
      BY <1>0, <2>2, <3>1, ProcessesKeep DEF ReadOther, ReadStatus, Processes, Control
  <2>3. CASE PidStatus
    BY <1>0, <2>3, ProcessesKeep DEF PidStatus, Named
  <2>4. CASE Stat \/ OpenInfo \/ InfoGone
    <3>1. found \in Pids
      BY <2>4 DEF Stat, WriteThen, Die, OpenInfo, InfoGone, Processes
    <3>2. Lives(found) => \E l \in lived : l[1] = found
      <4> SUFFICES ASSUME Lives(found) PROVE <<found, procs[found].owner, procs[found].born>> \in lived
        OBVIOUS
      <4> QED
        BY <3>1 DEF Processes, Now
    <3> QED
      BY <1>0, <2>4, <3>1, <3>2, ProcessesKeep DEF Stat, WriteThen, Die, OpenInfo, InfoGone, NoInfo, procVars
  <2>5. CASE Kill
    BY <1>0, <2>5, ProcessesEnd, ProcessesKeep DEF Kill, Named
  <2>6. CASE Wait
    BY <1>0, <2>6, ProcessesKeep DEF Wait, Named
  <2> QED
    BY <1>4, <2>1, <2>2, <2>3, <2>4, <2>5, <2>6 DEF ProcStep, ProcFault
<1> QED
  BY <1>1, <1>2, <1>3, <1>4 DEF Next, Environment, Handling, Dies

-----------------------------------------------------------------------------
(* What every step leaves, and what steps there are for lists and reports.  *)

LEMMA Appended ==
    ASSUME NEW s, s \in Seq(Range(s)), NEW x
    PROVE  /\ Append(s, x) \in Seq(Range(Append(s, x)))
           /\ Len(s) \in Nat /\ DOMAIN s = 1..Len(s) /\ DOMAIN Append(s, x) = 1..(Len(s) + 1)
           /\ \A i \in DOMAIN s : i \in DOMAIN Append(s, x) /\ Append(s, x)[i] = s[i]
           /\ Len(s) + 1 \in DOMAIN Append(s, x) /\ Append(s, x)[Len(s) + 1] = x
           /\ \A i \in DOMAIN Append(s, x) : i = Len(s) + 1 \/ i \in DOMAIN s
<1> DEFINE t == Append(s, x)
<1>1. Len(s) \in Nat /\ DOMAIN s = 1..Len(s)
  BY LenProperties
<1>2. t \in Seq(Range(s) \cup {x}) /\ Len(t) = Len(s) + 1 /\ DOMAIN t = 1..Len(t)
  <2>1. s \in Seq(Range(s) \cup {x})
    BY SeqDef
  <2> QED
    BY <2>1, AppendProperties, LenProperties
<1>3. (\A i \in 1..Len(s) : t[i] = s[i]) /\ t[Len(s) + 1] = x
  BY AppendProperties
<1> HIDE DEF t
<1>4. t \in Seq(Range(t))
  BY <1>1, <1>2, SeqDef DEF Range
<1>5. \A i \in 1..(Len(s) + 1) : i = Len(s) + 1 \/ i \in 1..Len(s)
  BY <1>1
<1> QED
  BY <1>1, <1>2, <1>3, <1>4, <1>5 DEF t

\* The output grows at its end, the input is read from its beginning.
LEMMA Flows ==
    ASSUME Next
    PROVE  /\ out' = out \/ \E x : out' = Append(out, x)
           /\ in' = in \/ (in # <<>> /\ in' = Tail(in))
<1> USE DEF Write, still, stands
<1>1. CASE ClientStep \/ SessionStep \/ SessionFault
  BY <1>1 DEF ClientStep, Leave, CloseInput, SessionStep, Begin, Alive, Report, Exit, Chargen, WriteThen, Die, ReadInput,
     InputEnds, SessionFault, ThreadLost, DiscardFails
<1>2. CASE Machine \/ ProcFault
  BY <1>2 DEF Machine, Expire, ProcEnds, ProcStarts, ProcFault, OpenDirFails, WaitFails, sessionVars
<1>3. CASE ProcStep
  BY <1>3 DEF ProcStep, OpenDir, ReadOther, ReadList, ReadStatus, CloseDir, PidStatus, Stat, WriteThen, Die, OpenInfo, InfoGone, Kill, Wait, Waited
<1>4. CASE Remote \/ RemoteHup
  BY <1>4 DEF Remote, RemoteWrites, RemoteEnds, KeeperEnds, RemoteHup, sessionVars
<1>5. CASE RemoteStep
  BY <1>5 DEF RemoteStep, Fork, Send, Consume, AnswerTunnel, NotSent, AnswerCallFailure, Reaped, HangUp, TeeOther,
     TeeNoAttr, TeeDial, TeeOpen, TeeInput, TeeOutput, TeeEnds
<1>6. CASE RemoteFault
  BY <1>6 DEF RemoteFault, NoPipes, NoUserSwitch, ForkFails, NoMemory, WatchFails, TeeDialFails, TeeOpenFails, TeeWriteFails
<1> QED
  BY <1>1, <1>2, <1>3, <1>4, <1>5, <1>6 DEF Next, Environment, Handling, Dies

\* Nothing but a handler of russproc looks at processes.
LEMMA Aside ==
    ASSUME Control, Next, ~Machine, ~ProcStep, ~ProcFault
    PROVE  /\ UNCHANGED procVars
           /\ pc' \in Looking \cup {"wait"} \/ (Svc(ProcServices) /\ pc' # "gone") => pc' = pc \/ (pc = "begin" /\ pc' = "ready")
           /\ pc' \in {"begin", "ready"} => pc \in {"begin", "ready"}
           /\ Svc(ProcServices) /\ (said' # said \/ out' # out) => FALSE
           /\ Here' => Here
<1> USE DEF Svc, Here, Goto, stands, Handler, Control, Looking, Calling, Teeing, ProcServices, Ssh
<1>1. CASE (ClientStep \/ SessionStep \/ SessionFault) /\ UNCHANGED procVars
  <2>1. CASE ClientStep
    BY <1>1, <2>1 DEF ClientStep, Leave, CloseInput
  <2>2. CASE Begin
    BY <1>1, <2>2 DEF Begin
  <2>3. CASE Alive \/ Report \/ Exit \/ Chargen
    BY <1>1, <2>3 DEF Alive, WriteThen, Die, Report, Exit, Chargen, End
  <2>4. CASE ReadInput \/ InputEnds \/ SessionFault
    BY <1>1, <2>4 DEF WriteThen, Die, ReadInput, InputEnds, SessionFault, ThreadLost, DiscardFails, End
  <2> QED
    BY <1>1, <2>1, <2>2, <2>3, <2>4 DEF SessionStep
<1>2. CASE (Remote \/ RemoteHup) /\ UNCHANGED procVars
  BY <1>2 DEF Remote, RemoteWrites, RemoteEnds, KeeperEnds, RemoteHup, sessionVars
<1>3. CASE (RemoteStep \/ RemoteFault) /\ UNCHANGED procVars
  <2>1. CASE Fork \/ Send \/ AnswerTunnel \/ NotSent \/ AnswerCallFailure
    BY <1>3, <2>1 DEF Fork, Send, After, AnswerTunnel, NotSent, AnswerCallFailure, End, Die
  <2>2. CASE Reaped \/ HangUp
    BY <1>3, <2>2 DEF Reaped, HangUp, End
  <2>3. CASE Consume
    BY <1>3, <2>3, Streams DEF Consume
  <2>4. CASE TeeOther \/ TeeNoAttr \/ TeeDial \/ TeeOpen
    BY <1>3, <2>4 DEF TeeOther, TeeNoAttr, TeeDial, TeeOpen, End, Die
  <2>5. CASE TeeInput \/ TeeOutput(1) \/ TeeOutput(2) \/ TeeEnds
    BY <1>3, <2>5 DEF TeeInput, TeeOutput, TeeEnds, End
  <2>6. CASE RemoteFault
    BY <1>3, <2>6 DEF RemoteFault, NoPipes, NoUserSwitch, ForkFails, NoMemory, WatchFails, After, TeeDialFails, TeeOpenFails, TeeWriteFails, End, Die
  <2> QED
    BY <1>3, <2>1, <2>2, <2>3, <2>4, <2>5, <2>6 DEF RemoteStep
<1> QED
  BY <1>1, <1>2, <1>3 DEF Next, Environment, Handling, Dies

-----------------------------------------------------------------------------
(* Lists and reports.                                                      *)

\* Every line is about a process there was.
Founded ==
    \A i \in DOMAIN out :
        IF Svc({"status"}) THEN ReportTrue(out[i])
        ELSE \E l \in lived : out[i] = LineOf(l)

\* The list is done: every process that was there all the time has its line.
Done == \A p \in Pids : Stays(p) /\ (Svc({"list"}) \/ Asked(procs[p].owner)) => Lined(p)

ListIsThis ==
    /\ Svc({"list", "status"}) /\ ListTrue => Founded /\ (Heard /\ said = Success => Done)
    /\ (Svc({"list", "status"}) => Founded /\ (Heard /\ said = Success => Done)) => ListTrue

LEMMA ListIs == ListIsThis
<1>1. ASSUME NEW p \in Pids
      PROVE  /\ AskedFor(<<p, procs[p].owner, procs[p].born>>) => Asked(procs[p].owner)
             /\ Asked(procs[p].owner) => AskedFor(<<p, procs[p].owner, procs[p].born>>)
  BY DEF Asked, AskedFor
<1>2. ASSUME Svc({"list", "status"}), ListTrue PROVE Founded /\ (Heard /\ said = Success => Done)
  <2>1. Founded
    BY <1>2 DEF ListTrue, Founded
  <2>2. ASSUME Heard, said = Success, NEW p \in Pids, Stays(p), Svc({"list"}) \/ Asked(procs[p].owner)
        PROVE  Lined(p)
    <3> DEFINE l == <<p, procs[p].owner, procs[p].born>>
    <3>1. l \in Now /\ l[1] = p /\ first[p] = procs[p]
      BY <2>2 DEF Stays, Now
    <3>2. Svc({"list"}) \/ AskedFor(l)
      BY <2>2, <1>1
    <3> HIDE DEF l
    <3>3. \E i \in DOMAIN out : out[i] = LineOf(l)
      BY <1>2, <2>2, <3>1, <3>2 DEF ListTrue
    <3> QED
      BY <3>3 DEF Lined, l
  <2> QED
    BY <2>1, <2>2 DEF Done
<1>3. ASSUME Svc({"list", "status"}) => Founded /\ (Heard /\ said = Success => Done) PROVE ListTrue
  <2> SUFFICES ASSUME Svc({"list", "status"})
               PROVE  /\ Founded
                      /\ Heard /\ said = Success =>
                            \A l \in Now : first[l[1]] = procs[l[1]] /\ (Svc({"list"}) \/ AskedFor(l)) =>
                                \E i \in DOMAIN out : out[i] = LineOf(l)
    BY DEF ListTrue, Founded
  <2>1. ASSUME Heard, said = Success, NEW l \in Now, first[l[1]] = procs[l[1]], Svc({"list"}) \/ AskedFor(l)
        PROVE  \E i \in DOMAIN out : out[i] = LineOf(l)
    <3>1. PICK p \in Pids : Lives(p) /\ l = <<p, procs[p].owner, procs[p].born>>
      BY <2>1 DEF Now
    <3>2. Stays(p) /\ (Svc({"list"}) \/ Asked(procs[p].owner))
      BY <2>1, <3>1, <1>1 DEF Stays
    <3>3. Lined(p)
      BY <1>3, <2>1, <3>2 DEF Done
    <3> QED
      BY <3>1, <3>3 DEF Lined
  <2> QED
    BY <1>3, <2>1
<1> QED
  BY <1>2, <1>3 DEF ListIsThis

LEMMA ListIsNext == ListIsThis'
BY ListIs, PTL

\* Lines stay when the output grows, and are about processes that stay.
LEMMA LinesStay ==
    ASSUME out \in Seq(Range(out)), out' = out \/ (\E x : out' = Append(out, x)), call' = call,
           NEW p \in Pids, procs'[p] = procs[p], Lined(p)
    PROVE  Lined(p)'
<1>1. \A i \in DOMAIN out : i \in DOMAIN out' /\ out'[i] = out[i]
  BY Appended
<1>2. LineOf(<<p, procs[p].owner, procs[p].born>>)' = LineOf(<<p, procs[p].owner, procs[p].born>>)
  BY DEF LineOf, Svc
<1> QED
  BY <1>1, <1>2 DEF Lined

LEMMA ReportStays ==
    ASSUME call' = call, lived \subseteq lived', NEW line, ReportTrue(line)
    PROVE  ReportTrue(line)'
<1>1. \A p, u, b : Process(p, u, b) => Process(p, u, b)'
  BY DEF Process
<1>2. \A q : Replaced(q) => Replaced(q)'
  BY DEF Replaced
<1>3. AskedFor(line)' = AskedFor(line)
  BY DEF AskedFor
<1> QED
  BY <1>1, <1>2, <1>3, Zenon DEF ReportTrue

LEMMA FoundedStays ==
    ASSUME out \in Seq(Range(out)), call' = call, Founded, lived \subseteq lived',
           \/ out' = out
           \/ \E x : /\ out' = Append(out, x)
                     /\ IF Svc({"status"}) THEN ReportTrue(x)
                        ELSE \E l \in lived : x = LineOf(l)
    PROVE  Founded'
<1>1. \A l : LineOf(l)' = LineOf(l)
  BY DEF LineOf, Svc
<1>2. CASE out' = out
  BY <1>1, <1>2, ReportStays DEF Founded, Svc
<1>3. ASSUME NEW x, out' = Append(out, x),
             IF Svc({"status"}) THEN ReportTrue(x) ELSE \E l \in lived : x = LineOf(l)
      PROVE  Founded'
  <2> SUFFICES ASSUME NEW i \in DOMAIN out'
               PROVE  IF Svc({"status"}) THEN ReportTrue(out'[i])
                      ELSE \E l \in lived : out'[i] = LineOf(l)
    BY <1>1, ReportStays DEF Founded, Svc
  <2>1. CASE i \in DOMAIN out
    BY <1>3, <2>1, Appended DEF Founded
  <2>2. CASE out'[i] = x
    BY <1>3, <2>2
  <2> QED
    BY <1>3, <2>1, <2>2, Appended
<1> QED
  BY <1>2, <1>3

LEMMA ListingInit == Init => Listing
<1> SUFFICES ASSUME Init PROVE Listing
  OBVIOUS
<1>1. out = <<>> /\ at \in Int /\ at <= 0 /\ pc = "begin" /\ said = NoStatus
  <2>1. Len(Others) \in Nat
    BY ProcAssumption, LenProperties DEF ProcAssumption
  <2> QED
    BY <2>1 DEF Init, SessionInit, ProcInit
<1>2. ListTrue
  BY <1>1 DEF ListTrue, Heard, Over
<1> QED
  BY <1>1, <1>2 DEF Listing, Looking

\* A process that stays is not one that ended or started.
LEMMA StaysStill ==
    ASSUME Processes, first' = first, NEW p \in Pids, Stays(p)',
           \/ procs' = procs
           \/ \E q \in Pids : Ends(q)
           \/ \E q \in Pids, u \in Users : ProcStarts(q, u)
    PROVE  Stays(p) /\ procs'[p] = procs[p]
<1>1. CASE procs' = procs
  BY <1>1 DEF Stays, Lives
<1>2. CASE \E q \in Pids : Ends(q)
  BY <1>2 DEF Stays, Lives, Ends, Processes, Entry
<1>3. ASSUME NEW q \in Pids, NEW u \in Users, ProcStarts(q, u)
      PROVE  Stays(p) /\ procs'[p] = procs[p]
  <2>1. p # q
    <3> SUFFICES ASSUME p = q PROVE FALSE
      OBVIOUS
    <3>1. procs'[p].born = procs[p].born + 1 /\ first[p].born <= procs[p].born
      BY <1>3 DEF ProcStarts, Processes, Entry
    <3>2. first[p].born \in Nat /\ procs[p].born \in Nat
      BY DEF Processes, Entry
    <3>3. first[p].born = procs'[p].born
      BY DEF Stays
    <3> QED
      BY <3>1, <3>2, <3>3
  <2> QED
    BY <1>3, <2>1 DEF ProcStarts, Processes, Stays, Lives
<1> QED
  BY <1>1, <1>2, <1>3

\* The parts of Listing, for a step that does not write and does not look.
LEMMA ListingKeeps ==
    ASSUME Control, Listing, call' = call, UNCHANGED <<at, found, owner, out>>, said' = said \/ said' # Success,
           lived \subseteq lived', Here' => Here,
           \A p \in Pids : Stays(p)' => Stays(p) /\ procs'[p] = procs[p],
           pc' = pc \/ (pc' = "ready" /\ pc = "begin") \/ pc' = "gone" \/ (Svc({"wait"}) /\ pc' = "wait"),
           pc' = "open" => found \in Pids
    PROVE  Listing'
<1>1. \A p \in Pids : Stays(p)' /\ Lined(p) => Lined(p)'
  BY LinesStay DEF Listing
<1>2. \A p \in Pids : Stays(p)' /\ Asked(procs[p].owner)' => Asked(procs[p].owner)
  BY DEF Asked
<1>3. ListTrue'
  <2>1. Svc({"list", "status"}) => Founded'
    BY ListIs, FoundedStays DEF ListIsThis, Listing
  <2>2. Svc({"list", "status"}) /\ Heard' /\ said' = Success => Done'
    <3> SUFFICES ASSUME Svc({"list", "status"}), Heard', said' = Success PROVE Done'
      OBVIOUS
    <3>1. Heard /\ said = Success
      <4>1. said = Success /\ said # NoStatus
        BY Distinct
      <4> QED
        BY <4>1 DEF Heard, Over, Control
    <3>2. Done
      BY <3>1, ListIs, ListIsNext DEF ListIsThis, Listing
    <3> QED
      BY <3>2, <1>1, <1>2 DEF Done, Svc
  <2> QED
    BY <2>1, <2>2, ListIs, ListIsNext DEF ListIsThis, Svc
<1>4. Svc({"list"})' /\ Here' /\ pc' = "read" => \A p \in Pids : p <= at' /\ Stays(p)' => Lined(p)'
  BY <1>1 DEF Listing, Svc
<1>5. Svc({"status"})' /\ Here' /\ pc' \in Looking =>
          \A p \in Pids : p <= at' /\ Stays(p)' /\ Asked(procs[p].owner)' =>
              Lined(p)' \/ (p = found' /\ pc' \in {"stat", "open"})
  BY <1>1, <1>2 DEF Listing, Svc, Looking
<1>6. pc' = "open" /\ Stays(found)' => owner' = procs'[found'].owner
  BY DEF Listing
<1>7. pc' \in {"stat", "open"} => pc' = pc
  OBVIOUS
<1>8. \A l : AskedFor(l)' = AskedFor(l)
  BY DEF AskedFor
<1>9. /\ Svc({"status"})' /\ pc' \in {"stat", "open"} /\ at' > 0 =>
            found' = at' /\ \E l \in lived' : l[1] = at' /\ AskedFor(l)'
      /\ pc' = "open" => \E l \in lived' : l[1] = found' /\ l[2] = owner'
  BY <1>7, <1>8 DEF Listing, Svc
<1>10. at' \in Int /\ (pc' \in {"begin", "ready"} => at' <= 0)
  BY DEF Listing
<1>11. out' \in Seq(Range(out'))
  BY DEF Listing
<1> QED
  BY <1>3, <1>4, <1>5, <1>6, <1>9, <1>10, <1>11 DEF Listing

LEMMA ListingProcStep ==
    ASSUME Control, Processes, Processes', Listing, ProcStep, call' = call
    PROVE  Listing'
<1> USE DEF still, Here, Goto
<1>1. /\ out \in Seq(Range(out)) /\ at \in Int
      /\ \A p \in Pids : p \in Nat /\ p > 0
  BY ProcAssumption DEF Listing, ProcAssumption
<1>2. ASSUME Svc({"list", "status"}), ListTrue, lived' = lived, out' = out, pc' # "gone"
      PROVE  ListTrue'
  <2>1. Founded'
    BY <1>1, <1>2, FoundedStays, ListIs DEF ListIsThis
  <2> QED
    BY <1>2, <2>1, ListIs, ListIsNext DEF ListIsThis, Heard, Over, Svc
<1>3. CASE OpenDir
  <2>1. /\ pc' = "read" /\ UNCHANGED <<lived, at, out>> /\ Svc({"list", "status"}) /\ at <= 0
    BY <1>3 DEF OpenDir, Handler, Listing
  <2>2. ListTrue'
    BY <1>2, <2>1 DEF Listing
  <2> QED
    BY <1>1, <2>1, <2>2 DEF Listing
<1>4. CASE ReadOther
  <2>1. /\ pc = "read" /\ pc' \in {"read", "stat"} /\ UNCHANGED <<lived, out, first, procs, said, client>> /\ Svc({"list", "status"})
        /\ at' \in Int /\ at' <= 0
    BY <1>1, <1>4 DEF ReadOther, Control
  <2>2. ListTrue'
    BY <1>2, <2>1 DEF Listing
  <2>3. \A p \in Pids : ~(p <= at')
    BY <1>1, <2>1
  <2> QED
    BY <1>1, <2>1, <2>2, <2>3 DEF Listing
<1>5. CASE ReadList
  <2>1. /\ pc = "read" /\ (pc' = pc \/ (pc' = "gone" /\ ~Here))
        /\ UNCHANGED <<lived, first, procs, said, client, found, owner>> /\ Svc({"list"})
        /\ at' = Min(Entries) /\ Entries # {} /\ out' = IF Here THEN Append(out, Listed(at')) ELSE out
    BY <1>5 DEF WriteThen, Die, ReadList, Write
  <2>2. at' \in Pids /\ at' > at /\ Lives(at') /\ \A p \in Pids : p > at /\ Lives(p) => at' <= p
    BY <2>1, SmallestEntry DEF Entries
  <2> DEFINE l == <<at', procs[at'].owner, procs[at'].born>>
  <2>3. l \in lived
    BY <2>2 DEF Processes, Now
  <2>4. LineOf(l) = Listed(at') /\ ~Svc({"status"})
    <3>1. call.of \in {"g", "u", "p"}
      BY <2>1, ServeAssumption DEF Control, ServeAssumption, Svc
    <3> QED
      BY <2>1, <3>1 DEF LineOf, Listed, Svc
  <2> HIDE DEF l
  <2>5. out' = out \/ \E x : out' = Append(out, x)
    BY <2>1
  <2>6. Founded /\ Svc({"list", "status"})
    BY <2>1, ListIs, ListIsNext DEF ListIsThis, Listing, Svc
  <2>7. Founded'
    BY <1>1, <2>1, <2>3, <2>4, <2>6, FoundedStays
  <2>8. ListTrue'
    BY <2>1, <2>7, ListIs, ListIsNext DEF ListIsThis, Heard, Over
  <2>9. \A p \in Pids : Lined(p) => Lined(p)'
    BY <1>1, <2>1, <2>5, LinesStay
  <2>10. ASSUME Here, NEW p \in Pids, p = at' PROVE Lined(p)'
    <3>1. \E i \in DOMAIN out' : out'[i] = LineOf(l)
      BY <1>1, <2>1, <2>4, <2>10, Appended
    <3>2. l = <<p, procs[p].owner, procs[p].born>>
      BY <2>10 DEF l
    <3>3. LineOf(<<p, procs[p].owner, procs[p].born>>)' = LineOf(<<p, procs[p].owner, procs[p].born>>)
      BY <2>1 DEF LineOf, Svc
    <3> QED
      BY <3>1, <3>2, <3>3 DEF Lined
  <2>11. ASSUME Here', NEW p \in Pids, p <= at', Stays(p)' PROVE Lined(p)'
    <3>1. Stays(p)
      BY <2>1, <2>11 DEF Stays, Lives
    <3>2. CASE p <= at
      BY <2>1, <2>9, <2>11, <3>1, <3>2 DEF Listing
    <3>3. CASE p > at
      <4>1. at' <= p
        BY <2>2, <3>1, <3>3 DEF Stays
      <4>2. p = at'
        BY <1>1, <2>2, <2>11, <4>1
      <4> QED
        BY <2>1, <2>10, <2>11, <4>2
    <3> QED
      BY <1>1, <3>2, <3>3
  <2>12. out' \in Seq(Range(out'))
    <3>1. \A x : Append(out, x) \in Seq(Range(Append(out, x)))
      BY <1>1, Appended
    <3> QED
      BY <1>1, <2>5, <3>1
  <2>13. at' \in Int
    BY <1>1, <2>2
  <2> QED
    BY <2>1, <2>4, <2>8, <2>11, <2>12, <2>13 DEF Listing, Svc
<1>6. CASE ReadStatus
  <2>1. /\ pc = "read" /\ pc' \in {"read", "stat"} /\ UNCHANGED <<lived, first, procs, said, client, owner, out>> /\ Svc({"status"})
        /\ at' = Min(Entries) /\ Entries # {} /\ (Asked(procs[at'].owner) => found' = at' /\ pc' = "stat")
        /\ (pc' = "stat" => found' = at' /\ Asked(procs[at'].owner))
    BY <1>6 DEF ReadStatus
  <2>2. at' \in Pids /\ at' > at /\ Lives(at') /\ \A p \in Pids : p > at /\ Lives(p) => at' <= p
    BY <2>1, SmallestEntry DEF Entries
  <2>3. ListTrue'
    BY <1>2, <2>1 DEF Listing, Svc
  <2>4. \A p \in Pids : Lined(p) => Lined(p)'
    BY <1>1, <2>1, LinesStay
  <2>5. ASSUME Here', NEW p \in Pids, p <= at', Stays(p)', Asked(procs[p].owner)'
        PROVE  Lined(p)' \/ (p = found' /\ pc' \in {"stat", "open"})
    <3>1. Stays(p) /\ Asked(procs[p].owner)
      BY <2>1, <2>5 DEF Stays, Lives, Asked
    <3>2. CASE p <= at
      BY <2>1, <2>4, <2>5, <3>1, <3>2 DEF Listing, Looking
    <3>3. CASE p > at
      <4>1. at' <= p
        BY <2>2, <3>1, <3>3 DEF Stays
      <4>2. p = at'
        BY <1>1, <2>2, <2>5, <4>1
      <4> QED
        BY <2>1, <3>1, <4>2
    <3> QED
      BY <1>1, <3>2, <3>3
  <2>6. at' \in Int
    BY <1>1, <2>2
  <2>7. ASSUME pc' = "stat" PROVE found' = at' /\ \E l \in lived' : l[1] = at' /\ AskedFor(l)'
    <3> DEFINE l == <<at', procs[at'].owner, procs[at'].born>>
    <3>1. l \in lived' /\ l[1] = at'
      BY <2>1, <2>2 DEF Processes, Now
    <3>2. Asked(procs[at'].owner)
      BY <2>1, <2>7
    <3>3. AskedFor(l)
      BY <2>1, <3>2 DEF Asked, AskedFor
    <3>4. \A m : AskedFor(m)' = AskedFor(m)
      BY DEF AskedFor
    <3> HIDE DEF l
    <3> QED
      BY <2>1, <2>7, <3>1, <3>3, <3>4
  <2> QED
    BY <1>1, <2>1, <2>3, <2>5, <2>6, <2>7 DEF Listing, Svc
<1>7. CASE CloseDir
  <2>1. /\ pc = "read" /\ pc' = "gone" /\ UNCHANGED <<lived, first, procs, client, owner, out, at, found>> /\ Svc({"list", "status"})
        /\ \A p \in Pids : Lives(p) => ~(p > at)
    BY <1>7 DEF CloseDir, End, procVars, Control, Entries
  <2>2. \A p \in Pids : Lined(p) => Lined(p)'
    BY <1>1, <2>1, LinesStay
  <2>3. ASSUME Here', NEW p \in Pids, Stays(p)', Svc({"list"})' \/ Asked(procs[p].owner)'
        PROVE  Lined(p)'
    <3>1. Stays(p) /\ (Svc({"list"}) \/ Asked(procs[p].owner))
      BY <2>1, <2>3 DEF Stays, Lives, Asked, Svc
    <3>2. p <= at
      BY <1>1, <2>1, <3>1 DEF Stays
    <3>3. Lined(p)
      BY <2>1, <2>3, <3>1, <3>2 DEF Listing, Svc, Looking
    <3> QED
      BY <2>2, <3>3
  <2>4. Here' => Done'
    BY <2>3 DEF Done
  <2>5. Founded'
    BY <1>1, <2>1, ListIs, FoundedStays DEF ListIsThis, Listing
  <2>6. ListTrue'
    BY <2>4, <2>5, ListIsNext DEF ListIsThis, Heard, Over
  <2> QED
    BY <1>1, <2>1, <2>6 DEF Listing, Looking
<1>8. CASE PidStatus
  <2>1. Svc({"pidstatus"}) /\ pc' = "stat" /\ UNCHANGED <<at, out>>
    BY <1>8 DEF PidStatus, Handler
  <2>2. ListTrue'
    BY <2>1 DEF ListTrue, Svc
  <2> QED
    BY <1>1, <2>1, <2>2 DEF Listing, Svc
<1>9. CASE Stat
  <2>1. /\ pc = "stat" /\ found \in Pids /\ UNCHANGED <<procs, lived, first, at, found, out, client>>
        /\ pc' \in {"read", "open", "gone"} /\ Svc({"status", "pidstatus"})
        /\ pc' = "open" => owner' = procs[found].owner
        /\ pc' = "read" => ~Lives(found)
        /\ Svc({"status"}) => pc' # "gone"
    BY <1>9 DEF Stat, NoInfo, Processes, Holding, Control, End
  <2>2. \A p \in Pids : Lined(p) => Lined(p)'
    BY <1>1, <2>1, LinesStay
  <2>3. ListTrue'
    <3>1. CASE Svc({"status"})
      BY <1>2, <2>1, <3>1 DEF Listing, Svc
    <3>2. CASE ~Svc({"status"})
      BY <2>1, <3>2 DEF ListTrue, Svc
    <3> QED
      BY <3>1, <3>2
  <2>4. ASSUME Svc({"status"}), Here', NEW p \in Pids, p <= at, Stays(p)', Asked(procs[p].owner)'
        PROVE  Lined(p)' \/ (p = found /\ pc' = "open")
    <3>1. Stays(p) /\ Asked(procs[p].owner)
      BY <2>1, <2>4 DEF Stays, Lives, Asked, Svc
    <3>2. Lined(p) \/ p = found
      BY <2>1, <2>4, <3>1 DEF Listing, Looking
    <3> QED
      BY <2>1, <2>2, <2>4, <3>1, <3>2 DEF Stays
  <2>5. ASSUME pc' = "open" PROVE owner' = procs'[found'].owner
    BY <2>1, <2>5
  <2>6. Svc({"status"})' => Svc({"status"})
    BY DEF Svc
  <2>7. ~Svc({"list"})'
    BY <2>1 DEF Svc
  <2>8. ASSUME Svc({"status"}), pc' \in {"stat", "open"}, at > 0
        PROVE  found = at /\ \E l \in lived' : l[1] = at /\ AskedFor(l)'
    <3>1. \A l : AskedFor(l)' = AskedFor(l)
      BY DEF AskedFor
    <3> QED
      BY <2>1, <2>8, <3>1 DEF Listing
  <2>9. ASSUME pc' = "open" PROVE \E l \in lived' : l[1] = found' /\ l[2] = owner'
    <3>1. Lives(found)
      BY <1>9, <2>1, <2>9 DEF Stat, NoInfo, End
    <3>2. <<found, procs[found].owner, procs[found].born>> \in lived
      BY <2>1, <3>1 DEF Processes, Now
    <3> QED
      BY <2>1, <2>9, <3>2
  <2>10. pc' \in {"read", "open", "gone"} /\ UNCHANGED <<lived, at, found, out>>
    BY <2>1
  <2> QED
    BY <1>1, <2>10, <2>3, <2>4, <2>5, <2>6, <2>7, <2>8, <2>9 DEF Listing
<1>10. CASE OpenInfo
  <2>1. /\ pc = "open" /\ found \in Pids /\ Lives(found) /\ UNCHANGED <<procs, lived, first, at, found, owner, client>>
        /\ pc' \in {"read", "gone"} /\ Svc({"status", "pidstatus"})
        /\ out' = IF Here THEN Append(out, <<found, owner, procs[found].born, at>>) ELSE out
        /\ Svc({"status"}) /\ Here => pc' # "gone"
    BY <1>10 DEF WriteThen, Die, OpenInfo, Write, procVars, Processes, Holding, Control, End, Svc
  <2>2. out' = out \/ \E x : out' = Append(out, x)
    BY <2>1
  <2>3. \A p \in Pids : Lined(p) => Lined(p)'
    BY <1>1, <2>1, <2>2, LinesStay
  <2>4. out' \in Seq(Range(out'))
    <3>1. \A x : Append(out, x) \in Seq(Range(Append(out, x)))
      BY <1>1, Appended
    <3> QED
      BY <1>1, <2>2, <3>1
  <2>5. CASE Svc({"status"})
    <3> DEFINE x == <<found, owner, procs[found].born, at>>
    <3>1. ReportTrue(x)
      <4> DEFINE n == <<found, procs[found].owner, procs[found].born>>
      <4>1. n \in lived /\ procs[found].owner \in Users
        BY <2>1 DEF Processes, Now, Entry, Lives
      <4>2. \E u \in Users : Process(found, u, procs[found].born)
        BY <4>1 DEF Process
      <4>3. ASSUME at > 0, ~Replaced(found)
            PROVE  Process(found, owner, procs[found].born) /\ AskedFor(x)
        <5>1. \A l \in lived : l[1] = found => l = n
          BY <4>1, <4>3 DEF Replaced
        <5>2. PICK l \in lived : l[1] = found /\ AskedFor(l)
          BY <2>1, <2>5, <4>3 DEF Listing
        <5>3. PICK m \in lived : m[1] = found /\ m[2] = owner
          BY <2>1 DEF Listing
        <5>4. l = n /\ m = n
          BY <5>1, <5>2, <5>3
        <5>5. AskedFor(n) /\ owner = n[2]
          BY <5>2, <5>3, <5>4
        <5> QED
          BY <4>1, <5>5 DEF AskedFor, Process
      <4>4. at > 0 => found = at
        BY <2>1, <2>5 DEF Listing
      <4> HIDE DEF n
      <4> QED
        BY <4>2, <4>3, <4>4 DEF ReportTrue
    <3>2. Stays(found) /\ at > 0 => x = LineOf(<<found, procs[found].owner, procs[found].born>>)
      <4>1. Stays(found) => owner = procs[found].owner
        BY <2>1 DEF Listing
      <4>2. at > 0 => found = at
        BY <2>1, <2>5 DEF Listing
      <4> QED
        BY <2>5, <4>1, <4>2 DEF LineOf, Svc
    <3>3. out' = IF Here THEN Append(out, x) ELSE out
      BY <2>1
    <3> HIDE DEF x
    <3>4. Founded
      BY <2>5, ListIs DEF ListIsThis, Listing, Svc
    <3>5. Founded'
      BY <1>1, <2>1, <2>5, <3>1, <3>3, <3>4, FoundedStays
    <3>6. ListTrue'
      BY <2>1, <2>5, <3>5, ListIsNext DEF ListIsThis, Heard, Over
    <3>7. Here /\ Stays(found) /\ at > 0 => Lined(found)'
      <4> SUFFICES ASSUME Here, Stays(found), at > 0, NEW p \in Pids, p = found PROVE Lined(p)'
        BY <2>1
      <4>1. \E i \in DOMAIN out' : out'[i] = x
        BY <1>1, <3>3, Appended
      <4>2. LineOf(<<p, procs[p].owner, procs[p].born>>)' = LineOf(<<p, procs[p].owner, procs[p].born>>)
        BY <2>1 DEF LineOf, Svc
      <4> QED
        BY <3>2, <4>1, <4>2 DEF Lined
    <3>8. ASSUME Here', NEW p \in Pids, p <= at, Stays(p)', Asked(procs[p].owner)'
          PROVE  Lined(p)'
      <4>1. Stays(p) /\ Asked(procs[p].owner) /\ Here
        BY <2>1, <3>8 DEF Stays, Lives, Asked, Svc
      <4>2. Lined(p) \/ p = found
        BY <2>1, <2>5, <3>8, <4>1 DEF Listing, Looking
      <4>3. at > 0
        BY <1>1, <3>8
      <4> QED
        BY <2>1, <2>3, <3>7, <4>1, <4>2, <4>3
    <3> QED
      BY <1>1, <2>1, <2>4, <2>5, <3>6, <3>8 DEF Listing, Svc
  <2>6. CASE ~Svc({"status"})
    <3>1. ~Svc({"list", "status"})'
      BY <2>1, <2>6 DEF Svc
    <3> QED
      BY <1>1, <2>1, <2>4, <3>1 DEF Listing, ListTrue, Svc
  <2> QED
    BY <2>5, <2>6
<1>11. CASE InfoGone
  <2>1. /\ pc = "open" /\ ~Lives(found) /\ found \in Pids /\ UNCHANGED <<procs, lived, first, at, found, owner, out, client>>
        /\ pc' \in {"read", "gone"} /\ Svc({"status", "pidstatus"})
        /\ Svc({"status"}) => said' = said
    BY <1>11 DEF InfoGone, NoInfo, Die, procVars, Processes, Holding, Control, End
  <2>2. \A p \in Pids : Lined(p) => Lined(p)'
    BY <1>1, <2>1, LinesStay
  <2>3. CASE Svc({"status"})
    <3>1. Founded'
      BY <1>1, <2>1, <2>3, ListIs, FoundedStays DEF ListIsThis, Listing, Svc
    <3>2. ~Heard'
      BY <2>1, <2>3 DEF Heard, Over, Control
    <3>3. ListTrue'
      BY <2>3, <3>1, <3>2, ListIsNext DEF ListIsThis
    <3>4. ASSUME Here', NEW p \in Pids, p <= at, Stays(p)', Asked(procs[p].owner)'
          PROVE  Lined(p)'
      <4>1. Stays(p) /\ Asked(procs[p].owner) /\ p # found
        BY <2>1, <3>4 DEF Stays, Lives, Asked, Svc
      <4>2. Lined(p)
        BY <2>1, <2>3, <3>4, <4>1 DEF Listing, Looking
      <4> QED
        BY <2>2, <4>2
    <3> QED
      BY <1>1, <2>1, <2>3, <3>3, <3>4 DEF Listing, Svc
  <2>4. CASE ~Svc({"status"})
    <3>1. ~Svc({"list", "status"})'
      BY <2>1, <2>4 DEF Svc
    <3> QED
      BY <1>1, <2>1, <3>1 DEF Listing, ListTrue, Svc
  <2> QED
    BY <2>3, <2>4
<1>12. CASE Kill \/ Wait \/ Waited
  <2>1. /\ Svc({"kill", "wait"}) /\ UNCHANGED <<at, out>> /\ pc' \in {"wait", "gone"}
    BY <1>12 DEF Kill, Wait, Waited, Handler, End, Die, procVars, Control, Svc
  <2>2. ~Svc({"list", "status"})'
    BY <2>1 DEF Svc
  <2> QED
    BY <1>1, <2>1, <2>2 DEF Listing, ListTrue, Svc
<1> QED
  BY <1>3, <1>4, <1>5, <1>6, <1>7, <1>8, <1>9, <1>10, <1>11, <1>12 DEF ProcStep

LEMMA ListingNext ==
    ASSUME Control, Processes, Processes', Listing, Next
    PROVE  Listing'
<1>1. call' = call
  BY DEF Next
<1>2. CASE ProcStep
  BY <1>1, <1>2, ListingProcStep
<1>3. CASE Machine
  <2>1. /\ UNCHANGED <<at, found, owner, out, said, pc, client, first>> /\ lived \subseteq lived'
        /\ procs' = procs \/ (\E q \in Pids : Ends(q)) \/ (\E q \in Pids, u \in Users : ProcStarts(q, u))
    BY <1>3 DEF Machine, Expire, ProcEnds, ProcStarts, sessionVars
  <2>2. \A p \in Pids : Stays(p)' => Stays(p) /\ procs'[p] = procs[p]
    BY <2>1, StaysStill
  <2> QED
    BY <1>1, <2>1, <2>2, ListingKeeps DEF Processes, Holding, Here
<1>4. CASE ProcFault
  <2>1. UNCHANGED <<at, found, owner, out, client, first, procs, lived>> /\ pc' = "gone" /\ (said' = said \/ said' = Failure)
    BY <1>4 DEF ProcFault, OpenDirFails, WaitFails, procVars, still, End, Goto
  <2>2. \A p \in Pids : Stays(p)' => Stays(p) /\ procs'[p] = procs[p]
    BY <2>1 DEF Stays, Lives
  <2> QED
    BY <1>1, <2>1, <2>2, ListingKeeps, Distinct DEF Here
<1>5. CASE ~Machine /\ ~ProcStep /\ ~ProcFault
  <2>1. UNCHANGED procVars /\ (Here' => Here)
    BY <1>5, Aside
  <2>2. CASE Svc(ProcServices)
    <3>1. UNCHANGED <<said, out>> /\ (pc' = pc \/ (pc = "begin" /\ pc' = "ready") \/ pc' = "gone")
      BY <1>5, <2>2, Aside
    <3>2. \A p \in Pids : Stays(p)' => Stays(p) /\ procs'[p] = procs[p]
      BY <2>1 DEF Stays, Lives, procVars
    <3> QED
      BY <1>1, <2>1, <3>1, <3>2, ListingKeeps DEF procVars, Processes, Holding
  <2>3. CASE ~Svc(ProcServices)
    <3>1. ~Svc({"list", "status"})' /\ ~Svc({"list"})' /\ ~Svc({"status"})' /\ pc # "open"
      BY <1>1, <2>3 DEF Svc, ProcServices, Control
    <3>2. out' \in Seq(Range(out'))
      <4>1. \A x : Append(out, x) \in Seq(Range(Append(out, x)))
        BY Appended DEF Listing
      <4> QED
        BY <4>1, Flows DEF Listing
    <3>3. pc' # "open" /\ (pc' \in {"begin", "ready"} => pc \in {"begin", "ready"})
      BY <1>5, <3>1, Aside DEF Looking
    <3> QED
      BY <2>1, <3>1, <3>2, <3>3 DEF Listing, ListTrue, procVars
  <2> QED
    BY <2>2, <2>3
<1> QED
  BY <1>2, <1>3, <1>4, <1>5

-----------------------------------------------------------------------------
(* What is told.                                                           *)

\* After the end nothing of the session changes, and what the other end did is done.
LEMMA GoneStays ==
    ASSUME Control, Next, pc = "gone"
    PROVE  /\ UNCHANGED <<sessionVars, procVars>> /\ UNCHANGED <<taken, sent>> /\ (wrote => wrote')
           /\ remote = "ended" => UNCHANGED <<remote, code, wrote>>
<1> USE DEF sessionVars, Handler
<1>1. ~ClientStep /\ ~SessionStep /\ ~SessionFault /\ ~Machine /\ ~ProcStep /\ ~ProcFault
  BY DEF ClientStep, Leave, CloseInput, SessionStep, Begin, Alive, Report, Exit, Chargen, ReadInput, InputEnds, Here,
     SessionFault, ThreadLost, DiscardFails, Machine, Expire, ProcEnds, ProcStarts, ProcStep, OpenDir, ReadOther, ReadList,
     ReadStatus, CloseDir, PidStatus, Stat, WriteThen, Die, OpenInfo, InfoGone, Kill, Wait, Waited, ProcFault, OpenDirFails, WaitFails
<1>2. ~RemoteStep /\ ~RemoteFault
  BY DEF RemoteStep, Fork, Send, Consume, AnswerTunnel, NotSent, AnswerCallFailure, Reaped, HangUp, TeeOther, TeeNoAttr,
     TeeDial, TeeOpen, TeeInput, TeeOutput, TeeEnds, RemoteFault, NoPipes, NoUserSwitch, ForkFails, NoMemory, WatchFails, TeeDialFails,
     TeeOpenFails, TeeWriteFails
<1>3. (Remote \/ RemoteHup) /\ UNCHANGED procVars
  BY <1>1, <1>2 DEF Next, Environment, Handling, Dies
<1>4. ASSUME Remote \/ RemoteHup
      PROVE  /\ UNCHANGED <<pc, client, answer, said, out, in, shut, faults, taken, sent>> /\ (wrote => wrote')
             /\ remote = "ended" => UNCHANGED <<remote, code, wrote>>
  <2>1. CASE RemoteWrites
    <3>1. remote = "run" /\ wrote' = TRUE /\ UNCHANGED <<taken, sent, sessionVars>>
      BY <2>1 DEF RemoteWrites
    <3>2. wrote => wrote'
      BY <3>1, Zenon
    <3> QED
      BY <3>1, <3>2
  <2>4. CASE RemoteEnds
    <3>1. remote = "run" /\ UNCHANGED <<wrote, taken, sent, sessionVars>>
      BY <2>4 DEF RemoteEnds
    <3>2. wrote => wrote'
      BY <3>1, Zenon
    <3> QED
      BY <3>1, <3>2
  <2>2. CASE KeeperEnds
    <3>1. UNCHANGED <<remote, code, wrote, taken, sent, files, sessionVars>>
      BY <2>2 DEF KeeperEnds
    <3>2. wrote => wrote'
      BY <3>1, Zenon
    <3> QED
      BY <3>1, <3>2
  <2>3. CASE RemoteHup
    BY <2>3 DEF RemoteHup
  <2> QED
    BY <1>4, <2>1, <2>2, <2>3, <2>4 DEF Remote
<1> QED
  BY <1>3, <1>4

\* A status reaches a client that was answered.
LEMMA EndTells ==
    ASSUME Control, NEW st, End(st), pc \notin {"begin", "lost", "gone"},
           ~Svc({"tunnel", "tunnelr"}) \/ pc \in {"notsent", "waiting"}
    PROVE  pc' = "gone" /\ (Here => said' = st)
BY DEF Control, End, Goto, Looking, Calling, Teeing

LEMMA TellingInit == Init => Telling
<1> SUFFICES ASSUME Init PROVE Telling
  OBVIOUS
<1> QED
  BY DEF Init, SessionInit, RemoteInit, Telling, StatusGiven, Truth, Over, Heard, Calling

LEMMA TeeStatusIs ==
    code \in Statuses \cup {Killed} => TeeStatus \in Statuses /\ Exited \in Statuses \cup {0}
BY Distinct DEF TeeStatus, Exited

\* The other end, and how a call goes on without one.
LEMMA CallingNext ==
    ASSUME Control, Control', Next, Telling
    PROVE  /\ code' \in Statuses \cup {Killed}
           /\ pc' \in Calling /\ remote' = "none" => faults' > 0
<1>1. faults \in Nat
  BY DEF Control
<1>2. CASE (ClientStep \/ SessionStep \/ SessionFault) /\ UNCHANGED remoteVars
  <2>1. pc' \in Calling => pc' = pc /\ faults' = faults
    BY <1>2 DEF ClientStep, Leave, CloseInput, SessionStep, Begin, Alive, Report, Exit, Chargen, WriteThen, Die, ReadInput, InputEnds,
       SessionFault, ThreadLost, DiscardFails, Goto, End, Calling
  <2> QED
    BY <1>2, <2>1 DEF Telling, remoteVars
<1>3. CASE (Machine \/ ProcStep \/ ProcFault) /\ UNCHANGED remoteVars
  <2>1. pc' \in Calling => pc' = pc /\ faults' = faults
    <3>1. CASE Machine
      BY <3>1 DEF Machine, Expire, ProcEnds, ProcStarts, sessionVars
    <3>2. CASE OpenDir \/ ReadOther \/ ReadList \/ ReadStatus \/ CloseDir \/ PidStatus
      BY <3>2 DEF OpenDir, ReadOther, WriteThen, Die, ReadList, ReadStatus, CloseDir, PidStatus, Goto, End, Calling
    <3>3. CASE Stat \/ OpenInfo \/ InfoGone \/ Kill \/ Wait \/ Waited \/ ProcFault
      BY <3>3 DEF Stat, WriteThen, Die, OpenInfo, InfoGone, NoInfo, Kill, Wait, Waited, ProcFault, OpenDirFails, WaitFails, Goto, End, Die, Calling
    <3> QED
      BY <1>3, <3>1, <3>2, <3>3 DEF ProcStep
  <2> QED
    BY <1>3, <2>1 DEF Telling, remoteVars
<1>4. CASE Remote \/ RemoteHup
  BY <1>4 DEF Telling, Remote, RemoteWrites, RemoteEnds, KeeperEnds, RemoteHup, sessionVars
<1>5. CASE RemoteStep
  <2>1. CASE Fork \/ TeeDial
    BY <2>1 DEF Telling, Fork, TeeDial
  <2>2. CASE Consume \/ Send \/ AnswerTunnel \/ NotSent \/ AnswerCallFailure \/ Reaped
    BY <2>2 DEF Telling, Consume, Send, AnswerTunnel, NotSent, AnswerCallFailure, Reaped, remoteVars, Calling
  <2>3. CASE HangUp \/ TeeOther \/ TeeNoAttr \/ TeeOpen \/ TeeInput \/ TeeOutput(1) \/ TeeOutput(2) \/ TeeEnds
    BY <2>3 DEF Telling, HangUp, TeeOther, TeeNoAttr, TeeOpen, TeeInput, TeeOutput, TeeEnds, remoteVars, Calling, Goto, End, Die
  <2> QED
    BY <1>5, <2>1, <2>2, <2>3 DEF RemoteStep
<1>6. CASE RemoteFault
  <2>1. CASE Fault
    BY <1>1, <1>6, <2>1, FaultCounts DEF Telling, RemoteFault, NoPipes, NoUserSwitch, ForkFails, NoMemory, WatchFails, TeeDialFails, TeeOpenFails, TeeWriteFails, remoteVars
  <2> QED
    BY <1>6, <2>1 DEF RemoteFault, NoPipes, NoUserSwitch, ForkFails, NoMemory, WatchFails, TeeDialFails, TeeOpenFails, TeeWriteFails
<1> QED
  BY <1>2, <1>3, <1>4, <1>5, <1>6 DEF Next, Environment, Handling, Dies

\* Only a handler that ends has sent SIGHUP.
LEMMA RemoteNext ==
    ASSUME Control, Next, Telling
    PROVE  remote' \in {"none", "run", "ended"} \/ (remote' = "hup" /\ pc' = "gone")
<1>1. CASE pc = "gone"
  <2>1. (Remote \/ RemoteHup \/ UNCHANGED remote) /\ pc' = pc
    <3>1. pc' = pc
      BY <1>1, GoneStays DEF sessionVars
    <3>2. ~RemoteStep /\ ~RemoteFault
      BY <1>1 DEF Handler, RemoteStep, Fork, Send, Consume, AnswerTunnel, NotSent, AnswerCallFailure, Reaped, HangUp, TeeOther, TeeNoAttr,
         TeeDial, TeeOpen, TeeInput, TeeOutput, TeeEnds, RemoteFault, NoPipes, NoUserSwitch, ForkFails, NoMemory, WatchFails,
         TeeDialFails, TeeOpenFails, TeeWriteFails
    <3> QED
      BY <3>1, <3>2 DEF Next, Environment, Handling, Dies, remoteVars
  <2> QED
    BY <1>1, <2>1 DEF Telling, Remote, RemoteWrites, RemoteEnds, KeeperEnds, RemoteHup
<1>2. CASE pc # "gone"
  <2>1. remote' = remote \/ remote' \in {"run", "ended"} \/ (remote' = "hup" /\ pc' = "gone")
    <3>1. CASE Remote \/ RemoteHup
      BY <3>1 DEF Remote, RemoteWrites, RemoteEnds, KeeperEnds, RemoteHup
    <3>2. CASE RemoteStep
      BY <3>2 DEF RemoteStep, Fork, Send, Consume, AnswerTunnel, NotSent, AnswerCallFailure, Reaped, HangUp, End, Goto, TeeOther, TeeNoAttr,
         TeeDial, TeeOpen, TeeInput, TeeOutput, TeeEnds, remoteVars
    <3>3. CASE RemoteFault
      BY <3>3 DEF RemoteFault, NoPipes, NoUserSwitch, ForkFails, NoMemory, WatchFails, End, Goto,
         TeeDialFails, TeeOpenFails, TeeWriteFails, remoteVars
    <3>4. CASE UNCHANGED remoteVars
      BY <3>4 DEF remoteVars
    <3> QED
      BY <3>1, <3>2, <3>3, <3>4 DEF Next, Environment, Handling, Dies
  <2> QED
    BY <1>2, <2>1 DEF Telling
<1> QED
  BY <1>1, <1>2

\* A deadline that was given is the one that is waited for.
LEMMA DueNext ==
    ASSUME Control, Next, Telling, call' = call
    PROVE  pc' = "wait" /\ call.args = 2 => due' \in {call.due, "past"}
<1>1. CASE Machine
  BY <1>1 DEF Telling, Machine, Expire, ProcEnds, ProcStarts, sessionVars
<1>2. CASE ProcStep
  <2>1. CASE Wait
    BY <2>1 DEF Wait
  <2>2. CASE OpenDir \/ ReadOther \/ ReadList \/ ReadStatus \/ CloseDir \/ PidStatus
    BY <2>2 DEF OpenDir, ReadOther, ReadList, WriteThen, Die, ReadStatus, CloseDir, PidStatus, Goto, End
  <2>3. CASE Stat \/ OpenInfo \/ InfoGone \/ Kill \/ Waited
    BY <2>3 DEF Stat, OpenInfo, WriteThen, Die, InfoGone, NoInfo, Kill, Waited, Goto, End
  <2> QED
    BY <1>2, <2>1, <2>2, <2>3 DEF ProcStep
<1>3. CASE ProcFault
  BY <1>3 DEF ProcFault, OpenDirFails, WaitFails, End, Goto
<1>4. CASE ~Machine /\ ~ProcStep /\ ~ProcFault
  <2>1. UNCHANGED procVars /\ (pc' = "wait" => pc = "wait")
    BY <1>4, Aside
  <2> QED
    BY <2>1 DEF Telling, procVars
<1> QED
  BY <1>1, <1>2, <1>3, <1>4

\* The end of a session of russdebug, of russalive and of russproc: a status for a
\* client that is there, or one of the ends without.
LEMMA EndsHere ==
    ASSUME Control, Processes, Telling, Next, call' = call, pc # "gone", pc' = "gone", Here',
           ClientStep \/ SessionStep \/ SessionFault \/ Machine \/ ProcStep \/ ProcFault
    PROVE  StatusGiven' /\ Truth'
<1>1. Here
  BY DEF Here, ClientStep, Leave, CloseInput, SessionStep, Begin, Alive, Report, Exit, Chargen, ReadInput, InputEnds,
     SessionFault, ThreadLost, DiscardFails, Machine, Expire, ProcEnds, ProcStarts, ProcStep, OpenDir, ReadOther, ReadList,
     ReadStatus, CloseDir, PidStatus, Stat, WriteThen, Die, OpenInfo, InfoGone, Kill, Wait, Waited, ProcFault, OpenDirFails, WaitFails,
     still, sessionVars
<1> USE DEF Svc, Goto, Handler, still
<1>2. CASE Alive \/ Report \/ InputEnds \/ DiscardFails
  <2>1. Svc({"alive", "report", "echo", "discard"}) /\ pc = "ready" /\ (End(Success) \/ End(Failure))
    BY <1>1, <1>2 DEF Alive, WriteThen, Die, Report, InputEnds, DiscardFails
  <2>2. said' \in {Success, Failure}
    BY <1>1, <2>1, EndTells
  <2>3. said' # NoStatus
    BY <2>2, Distinct
  <2>4. StatusGiven'
    BY <2>3 DEF StatusGiven
  <2>5. Truth'
    <3>1. call'.svc \in {"alive", "report", "echo", "discard"}
      BY <2>1
    <3>2. call'.svc \notin {"wait", "kill", "tee", "exit"} /\ call'.svc \notin Ssh
      BY <3>1 DEF Ssh
    <3>3. ~Svc({"wait"})' /\ ~Svc({"kill"})' /\ ~Svc(Ssh)' /\ ~Svc({"tee"})' /\ ~Svc({"exit"})'
      BY <3>2
    <3> HIDE DEF Svc
    <3> QED
      BY <3>3, Zenon DEF Truth
  <2> QED
    BY <2>4, <2>5
<1>3. CASE Exit
  <2>1. Svc({"exit"}) /\ pc = "ready" /\ End(IF call.arg \in 0..255 THEN call.arg ELSE Failure)
    BY <1>3 DEF Exit
  <2>2. said' = IF call.arg \in 0..255 THEN call.arg ELSE Failure
    BY <1>1, <2>1, EndTells
  <2>3. said' # NoStatus
    BY <2>2, Distinct
  <2> QED
    BY <2>1, <2>2, <2>3 DEF StatusGiven, Truth, Ssh
<1>4. CASE OpenDirFails \/ CloseDir
  <2>1. Svc({"list", "status"}) /\ pc \in {"ready", "read"} /\ (End(Success) \/ End(Failure))
    BY <1>4 DEF OpenDirFails, CloseDir, Control
  <2>2. said' \in {Success, Failure}
    BY <1>1, <2>1, EndTells
  <2>3. said' # NoStatus
    BY <2>2, Distinct
  <2> QED
    BY <2>1, <2>3 DEF StatusGiven, Truth, Ssh
<1>5. CASE Stat \/ OpenInfo
  <2>1. Svc({"pidstatus"}) /\ pc \in {"stat", "open"} /\ (End(Success) \/ End(Failure))
    BY <1>1, <1>5 DEF Stat, NoInfo, WriteThen, Die, OpenInfo, Control
  <2>2. said' \in {Success, Failure}
    BY <1>1, <2>1, EndTells
  <2>3. said' # NoStatus
    BY <2>2, Distinct
  <2> QED
    BY <2>1, <2>3 DEF StatusGiven, Truth, Ssh
<1>6. CASE InfoGone
  <2>1. /\ Svc({"status", "pidstatus"}) /\ pc = "open" /\ ~Lives(found) /\ UNCHANGED <<procs, lived>>
        /\ Die \/ (Svc({"pidstatus"}) /\ End(Failure))
    BY <1>6 DEF InfoGone, NoInfo, procVars, Control
  <2>2. \E l \in lived : Ended(l)
    <3>1. PICK l \in lived : l[1] = found
      BY <2>1 DEF Processes
    <3>2. procs[found].owner # l[2]
      BY <2>1 DEF Processes, Lives
    <3> QED
      BY <3>1, <3>2 DEF Ended
  <2>3. \E l \in lived' : Ended(l)'
    BY <2>1, <2>2 DEF Ended
  <2> QED
    BY <2>1, <2>3 DEF StatusGiven, Truth, Ssh
<1>7. CASE Kill
  <2>1. /\ Svc({"kill"}) /\ pc = "ready"
        /\ \/ End(Success) /\ hit'[1] \in Named /\ hit'[2] = Signal /\ call.sig # "empty"
           \/ End(Failure)
    BY <1>7 DEF Kill
  <2>2. said' = Failure \/ (said' = Success /\ hit'[1] \in Named /\ hit'[2] = Signal /\ call.sig # "empty")
    BY <1>1, <2>1, EndTells
  <2>3. said' # NoStatus /\ Failure # Success
    BY <2>2, Distinct
  <2>4. Named' = Named /\ Signal' = Signal
    BY DEF Named, Signal
  <2> QED
    BY <2>1, <2>2, <2>3, <2>4 DEF StatusGiven, Truth, Ssh
<1>8. CASE Wait
  <2>1. Svc({"wait"}) /\ pc = "ready" /\ (call.args = 1 \/ End(Failure))
    BY <1>8 DEF Wait, Die
  <2>2. CASE End(Failure)
    <3>1. said' = Failure
      BY <1>1, <2>1, <2>2, EndTells
    <3> QED
      BY <2>1, <3>1, Distinct DEF StatusGiven, Truth, Ssh
  <2>3. CASE call.args = 1
    <3>1. Die
      BY <1>8, <2>3 DEF Wait
    <3>2. said' = NoStatus
      BY <2>1, <3>1 DEF Die, Control
    <3> QED
      BY <2>1, <2>3, <3>2 DEF StatusGiven, Truth, Heard
  <2> QED
    BY <2>1, <2>2, <2>3
<1>9. CASE Waited
  <2>1. /\ Svc({"wait"}) /\ pc = "wait" /\ found \in Pids /\ UNCHANGED procVars
        /\ (due \in {"at once", "past"} /\ End(Late)) \/ (~Same /\ End(Success))
    BY <1>1, <1>9 DEF Waited, Control, Processes, Holding
  <2>2. (due \in {"at once", "past"} /\ said' = Late) \/ (~Same /\ said' = Success)
    BY <1>1, <2>1, EndTells
  <2>3. ~Same => <<found, first[found].owner, first[found].born>> \notin Now
    BY DEF Same, Now
  <2>4. said' = Success => <<found, first[found].owner, first[found].born>> \notin Now
    BY <2>1, <2>2, <2>3, Distinct
  <2>5. Now' = Now
    BY <2>1 DEF Now, Lives, procVars
  <2>6. said' # NoStatus /\ Late # Success
    BY <2>2, Distinct
  <2>7. said' = Late /\ call.args = 2 => call.due = "at once" \/ due = "past"
    BY <2>1, <2>2, <2>6 DEF Telling
  <2> QED
    BY <2>1, <2>4, <2>5, <2>6, <2>7 DEF StatusGiven, Truth, Ssh, procVars
<1>10. CASE WaitFails
  <2>1. Svc({"wait"}) /\ pc = "wait" /\ End(Failure)
    BY <1>10 DEF WaitFails, Control
  <2>2. said' = Failure
    BY <1>1, <2>1, EndTells
  <2> QED
    BY <2>1, <2>2, Distinct DEF StatusGiven, Truth, Ssh
<1>11. Alive \/ Report \/ InputEnds \/ DiscardFails \/ Exit \/ OpenDirFails \/ CloseDir \/ Stat \/ OpenInfo \/ InfoGone
          \/ Kill \/ Wait \/ Waited \/ WaitFails
  <2>1. CASE ClientStep \/ SessionStep \/ SessionFault
    BY <1>1, <2>1 DEF ClientStep, Leave, CloseInput, SessionStep, Begin, Chargen, WriteThen, Die, ReadInput, SessionFault, ThreadLost
  <2>2. CASE Machine \/ ProcStep \/ ProcFault
    BY <1>1, <2>2 DEF Machine, Expire, ProcEnds, ProcStarts, ProcStep, OpenDir, ReadOther, WriteThen, Die, ReadList,
       ReadStatus, PidStatus, ProcFault, sessionVars
  <2> QED
    BY <2>1, <2>2
<1> QED
  BY <1>2, <1>3, <1>4, <1>5, <1>6, <1>7, <1>8, <1>9, <1>10, <1>11

\* The end of a session of russssh2 or russtee.
LEMMA EndsThere ==
    ASSUME Control, Copying, Telling, Next, call' = call, pc # "gone", pc' = "gone", Here',
           Remote \/ RemoteHup \/ RemoteStep \/ RemoteFault
    PROVE  StatusGiven' /\ Truth'
<1>1. Here
  BY DEF Here, Remote, RemoteWrites, RemoteEnds, KeeperEnds, RemoteHup, RemoteStep, Fork, Send, Consume, AnswerTunnel, NotSent,
     AnswerCallFailure, Reaped, HangUp, TeeOther, TeeNoAttr, TeeDial, TeeOpen, TeeInput, TeeOutput, TeeEnds, RemoteFault,
     NoPipes, NoUserSwitch, ForkFails, NoMemory, WatchFails, TeeDialFails, TeeOpenFails, TeeWriteFails, stands, sessionVars
<1> USE DEF Svc, Goto, Handler, stands
<1>2. CASE NoPipes \/ NoUserSwitch
  <2>1. /\ Svc(Ssh) /\ pc = "ready" /\ Fault /\ (Die \/ End(Failure)) /\ answer' = answer
    BY <1>2 DEF NoPipes, NoUserSwitch, Ssh
  <2>2. faults' > 0
    BY <2>1, FaultCounts DEF Control
  <2>3. answer' # "nothing"
    BY <2>1 DEF Control
  <2> QED
    BY <2>1, <2>2, <2>3 DEF StatusGiven, Truth, Ssh
<1>9. CASE NoMemory \/ WatchFails
  <2>1. /\ Svc(Ssh) /\ Fault /\ answer' = answer /\ pc # "gone" /\ (pc \in {"ready", "send", "waiting"})
    BY <1>9 DEF NoMemory, WatchFails, Control, Calling, Ssh
  <2>2. faults' > 0
    BY <2>1, FaultCounts DEF Control
  <2>3. answer' # "nothing"
    BY <2>1 DEF Control
  <2> QED
    BY <2>1, <2>2, <2>3 DEF StatusGiven, Truth, Ssh
\* SIGPIPE: the request of a tunnel, for an ssh that ended.
<1>10. CASE Send
  <2>1. /\ Svc({"tunnel", "tunnelr"}) /\ ~call.ignores /\ Die /\ ~Piped /\ sent' = FALSE
        /\ UNCHANGED <<remote, faults>> /\ pc = "send"
    <3>1. ~(Piped \/ call.ignores) /\ Die /\ pc = "send" /\ sent' = Piped /\ UNCHANGED <<remote, faults>>
      BY <1>10 DEF Send
    <3> QED
      BY <3>1 DEF Control, Calling, Ssh
  <2>2. remote = "ended" \/ faults' > 0
    BY <2>1 DEF Telling, Calling, Piped
  <2>3. said' = NoStatus
    BY <2>1 DEF Die, Control
  <2> QED
    BY <2>1, <2>2, <2>3 DEF StatusGiven, Truth, Heard
<1>3. CASE NotSent
  <2>1. Svc(Ssh) /\ pc = "notsent" /\ End(CallFailure)
    BY <1>3 DEF NotSent, Control, Calling
  <2>2. said' = CallFailure
    BY <1>1, <2>1, EndTells
  <2> QED
    BY <2>1, <2>2, Distinct DEF StatusGiven, Truth, Ssh
<1>4. CASE Reaped
  <2>1. /\ Svc(Ssh) /\ pc = "waiting" /\ End(Exited) /\ remote \in {"none", "ended"} /\ answer' = answer
        /\ UNCHANGED <<remote, code, faults>>
    BY <1>4 DEF Reaped, Control, Calling, remoteVars
  <2>2. said' = Exited
    BY <1>1, <2>1, EndTells
  <2>3. answer' # "nothing"
    BY <2>1 DEF Control
  <2>4. said' # NoStatus
    BY <2>2, TeeStatusIs, Distinct DEF Telling
  <2>5. said' = Success => (remote = "ended" /\ code \in {Success, Killed}) \/ faults > 0
    BY <2>1, <2>2 DEF Exited, Telling, Calling
  <2> QED
    BY <2>1, <2>3, <2>4, <2>5 DEF StatusGiven, Truth, Ssh
<1>5. CASE TeeOther
  BY <1>5 DEF TeeOther, StatusGiven, Truth, Heard, Control, Die
<1>6. CASE TeeNoAttr \/ TeeDialFails \/ TeeDial
  <2>1. Svc({"tee"}) /\ pc = "ready" /\ End(Failure) /\ taken' = taken
    BY <1>6 DEF TeeNoAttr, TeeDialFails, TeeDial, remoteVars
  <2>2. said' = Failure
    BY <1>1, <2>1, EndTells
  <2>3. taken' = <<0, 0>>
    BY <2>1 DEF Copying, Ssh
  <2> QED
    BY <2>1, <2>2, <2>3, Distinct DEF StatusGiven, Truth, Ssh
<1>7. CASE TeeEnds
  <2>1. Svc({"tee"}) /\ pc = "relay" /\ End(TeeStatus) /\ UNCHANGED code
    BY <1>7 DEF TeeEnds, Control, Teeing, remoteVars
  <2>2. said' = TeeStatus
    BY <1>1, <2>1, EndTells
  <2>3. said' # NoStatus
    BY <2>2, TeeStatusIs, Distinct DEF Telling
  <2>4. TeeStatus' = TeeStatus
    BY <2>1 DEF TeeStatus
  <2> QED
    BY <2>1, <2>2, <2>3, <2>4 DEF StatusGiven, Truth, Ssh
<1>8. NoPipes \/ NoUserSwitch \/ NoMemory \/ WatchFails \/ Send \/ NotSent \/ Reaped \/ TeeOther \/ TeeNoAttr \/ TeeDialFails \/ TeeDial \/ TeeEnds
  <2>1. CASE Remote \/ RemoteHup \/ RemoteFault
    BY <1>1, <2>1 DEF Remote, RemoteWrites, RemoteEnds, KeeperEnds, RemoteHup, RemoteFault, ForkFails, After, TeeOpenFails, TeeWriteFails, sessionVars
  <2>2. CASE RemoteStep
    <3>1. ~Consume
      BY Streams DEF Consume
    <3> QED
      BY <1>1, <2>2, <3>1 DEF RemoteStep, Fork, After, AnswerTunnel, AnswerCallFailure, HangUp, TeeOpen, TeeInput, TeeOutput
  <2> QED
    BY <2>1, <2>2
<1> QED
  BY <1>2, <1>3, <1>4, <1>5, <1>6, <1>7, <1>8, <1>9, <1>10

LEMMA TellingNext ==
    ASSUME Control, Control', Processes, Copying, Telling, Next
    PROVE  Telling'
<1>1. call' = call
  BY DEF Next
<1>2. CASE pc' # "gone"
  <2>1. StatusGiven' /\ Truth'
    BY <1>2 DEF StatusGiven, Truth, Heard, Over
  <2> QED
    BY <1>1, <2>1, CallingNext, RemoteNext, DueNext DEF Telling
<1>3. CASE pc # "gone" /\ pc' = "gone"
  <2>1. CASE Here'
    <3>1. StatusGiven' /\ Truth'
      BY <1>1, <1>3, <2>1, EndsHere, EndsThere DEF Next, Environment, Handling, Dies
    <3> QED
      BY <1>1, <3>1, CallingNext, RemoteNext, DueNext DEF Telling
  <2>2. CASE ~Here'
    <3>1. StatusGiven' /\ Truth'
      BY <2>2 DEF StatusGiven, Truth, Heard, Over
    <3> QED
      BY <1>1, <3>1, CallingNext, RemoteNext, DueNext DEF Telling
  <2> QED
    BY <2>1, <2>2
<1>4. CASE pc = "gone"
  <2>1. /\ UNCHANGED <<sessionVars, procVars>> /\ UNCHANGED <<taken, sent>> /\ (wrote => wrote')
        /\ remote = "ended" => UNCHANGED <<remote, code, wrote>>
    BY <1>4, GoneStays
  <2>2. StatusGiven'
    BY <1>1, <2>1 DEF Telling, StatusGiven, Over, Here, Svc, Ended, sessionVars, procVars
  <2>3. Heard' => Heard
    BY <2>1 DEF Heard, Over, Here, sessionVars
  <2>4. Now' = Now /\ Named' = Named /\ Signal' = Signal
    BY <1>1, <2>1 DEF Now, Lives, Named, Signal, procVars
  <2>5. Svc({"tee"}) /\ taken # <<0, 0>> /\ Heard => TeeStatus' = TeeStatus
    BY <2>1 DEF Copying, TeeStatus
  <2>6. Truth'
    BY <1>1, <2>1, <2>3, <2>4, <2>5 DEF Telling, Truth, Svc, sessionVars, procVars
  <2> QED
    BY <1>1, <2>2, <2>6, CallingNext, RemoteNext, DueNext DEF Telling
<1> QED
  BY <1>2, <1>3, <1>4

-----------------------------------------------------------------------------
(* What is copied.                                                         *)

\* One element more is copied.
LEMMA CopiedMore ==
    ASSUME NEW s, s \in Seq(Range(s)), NEW t, NEW i, NEW n \in Nat, CopiedTo(s, t, i, n)
    PROVE  CopiedTo(Append(s, <<i, t[n + 1]>>), t, i, n + 1)
<1> DEFINE u == Append(s, <<i, t[n + 1]>>)
           e == Len(s) + 1
<1>1. /\ Len(s) \in Nat /\ DOMAIN s = 1..Len(s) /\ DOMAIN u = 1..e
      /\ \A x \in DOMAIN s : u[x] = s[x]
      /\ u[e] = <<i, t[n + 1]>> /\ e \in DOMAIN u
      /\ \A x \in DOMAIN u : x = e \/ x \in DOMAIN s
  BY Appended
<1>2. e \in Nat /\ \A x \in DOMAIN s : x \in Nat /\ x < e /\ x \in DOMAIN u
  BY <1>1
<1> HIDE DEF u, e
<1>3. PICK place \in [1..n -> DOMAIN s] :
          /\ \A m \in 1..n : s[place[m]] = <<i, t[m]>> /\ \A k \in 1..m - 1 : place[k] < place[m]
          /\ \A x \in DOMAIN s : s[x][1] = i => \E m \in 1..n : place[m] = x
  BY DEF CopiedTo
<1> DEFINE q == [m \in 1..n + 1 |-> IF m = n + 1 THEN e ELSE place[m]]
<1>4. \A m \in 1..n + 1 : m = n + 1 \/ m \in 1..n
  OBVIOUS
<1>5. /\ \A m \in 1..n : q[m] = place[m] /\ m \in 1..n + 1
      /\ q[n + 1] = e /\ n + 1 \in 1..n + 1
  OBVIOUS
<1>6. q \in [1..n + 1 -> DOMAIN u]
  BY <1>1, <1>2, <1>4
<1> HIDE DEF q
<1>7. ASSUME NEW m \in 1..n + 1 PROVE u[q[m]] = <<i, t[m]>>
  BY <1>1, <1>3, <1>4, <1>5
<1>8. ASSUME NEW m \in 1..n + 1, NEW k \in 1..m - 1 PROVE q[k] < q[m]
  <2>1. k \in 1..n
    OBVIOUS
  <2>2. place[k] \in DOMAIN s /\ place[k] < e
    BY <1>2, <2>1
  <2>3. CASE m = n + 1
    BY <1>5, <2>1, <2>2, <2>3
  <2>4. CASE m \in 1..n
    BY <1>3, <1>5, <2>1, <2>4
  <2> QED
    BY <1>4, <2>3, <2>4
<1>9. ASSUME NEW x \in DOMAIN u, u[x][1] = i PROVE \E m \in 1..n + 1 : q[m] = x
  <2>1. CASE x = e
    BY <1>5, <2>1
  <2>2. CASE x \in DOMAIN s
    <3>1. PICK m \in 1..n : place[m] = x
      BY <1>1, <1>3, <1>9, <2>2
    <3> QED
      BY <1>5, <3>1
  <2> QED
    BY <1>1, <2>1, <2>2
<1>10. CopiedTo(u, t, i, n + 1)
  BY <1>6, <1>7, <1>8, <1>9 DEF CopiedTo
<1> QED
  BY <1>10 DEF u

\* An element of the other stream.
LEMMA CopiedOther ==
    ASSUME NEW s, s \in Seq(Range(s)), NEW t, NEW i, NEW n, NEW x, x[1] # i, CopiedTo(s, t, i, n)
    PROVE  CopiedTo(Append(s, x), t, i, n)
<1> DEFINE u == Append(s, x)
           e == Len(s) + 1
<1>1. /\ \A z \in DOMAIN s : z \in DOMAIN u /\ u[z] = s[z]
      /\ u[e] = x
      /\ \A z \in DOMAIN u : z = e \/ z \in DOMAIN s
  BY Appended
<1> HIDE DEF u, e
<1>2. PICK place \in [1..n -> DOMAIN s] :
          /\ \A m \in 1..n : s[place[m]] = <<i, t[m]>> /\ \A k \in 1..m - 1 : place[k] < place[m]
          /\ \A z \in DOMAIN s : s[z][1] = i => \E m \in 1..n : place[m] = z
  BY DEF CopiedTo
<1>3. place \in [1..n -> DOMAIN u]
  BY <1>1
<1>4. \A m \in 1..n : u[place[m]] = <<i, t[m]>> /\ \A k \in 1..m - 1 : place[k] < place[m]
  BY <1>1, <1>2
<1>5. \A z \in DOMAIN u : u[z][1] = i => \E m \in 1..n : place[m] = z
  BY <1>1, <1>2
<1>6. CopiedTo(u, t, i, n)
  BY <1>3, <1>4, <1>5 DEF CopiedTo
<1> QED
  BY <1>6 DEF u

LEMMA CopiedIs ==
    ASSUME NEW i, NEW n
    PROVE  /\ Copied(i, n) => CopiedTo(out, call.text[i], i, n)
           /\ CopiedTo(out, call.text[i], i, n) => Copied(i, n)
BY DEF Copied, CopiedTo

LEMMA CopiedNone ==
    ASSUME NEW t, NEW i PROVE CopiedTo(<<>>, t, i, 0)
<1>1. 1..0 = {} /\ DOMAIN <<>> = {}
  OBVIOUS
<1>2. [x \in {} |-> 0] \in [1..0 -> DOMAIN <<>>]
  BY <1>1
<1> QED
  BY <1>1, <1>2 DEF CopiedTo

\* What is read is one element, and what was echoed and what is to be are the whole.
LEMMA Rest ==
    ASSUME NEW s, s \in Seq(Range(s)), s # <<>>
    PROVE  /\ Tail(s) \in Seq(Range(Tail(s)))
           /\ \A t : t \in Seq(Range(t)) => Append(t, Head(s)) \o Tail(s) = t \o s
<1>1. /\ Len(s) \in Nat /\ Len(s) >= 1 /\ DOMAIN s = 1..Len(s)
      /\ Tail(s) \in Seq(Range(s)) /\ Len(Tail(s)) = Len(s) - 1
      /\ \A i \in 1..Len(s) - 1 : Tail(s)[i] = s[i + 1]
      /\ Head(s) = s[1]
  BY HeadTailProperties, EmptySeq, LenProperties
<1>2. Tail(s) \in Seq(Range(Tail(s)))
  <2> DEFINE t == Tail(s)
  <2>1. Len(t) \in Nat /\ t \in [1..Len(t) -> Range(s)]
    BY <1>1, LenProperties
  <2> HIDE DEF t
  <2>2. t \in [1..Len(t) -> Range(t)]
    BY <2>1 DEF Range
  <2> QED
    BY <2>1, <2>2, SeqDef DEF t
<1>3. ASSUME NEW t, t \in Seq(Range(t)) PROVE Append(t, Head(s)) \o Tail(s) = t \o s
  <2> DEFINE S == Range(s) \cup Range(t)
  <2>1. s \in Seq(S) /\ t \in Seq(S) /\ Tail(s) \in Seq(S) /\ Head(s) \in S
    <3>1. Range(s) \subseteq S /\ Range(t) \subseteq S
      OBVIOUS
    <3>2. Seq(Range(s)) \subseteq Seq(S) /\ Seq(Range(t)) \subseteq Seq(S)
      BY <3>1, SeqDef
    <3>3. Head(s) \in S
      BY <1>1 DEF Range
    <3> QED
      BY <1>1, <1>3, <3>2, <3>3
  <2> HIDE DEF S
  <2>2. Append(t, Head(s)) = t \o <<Head(s)>> /\ s = <<Head(s)>> \o Tail(s) /\ <<Head(s)>> \in Seq(S)
    <3>1. Append(t, Head(s)) = t \o <<Head(s)>>
      BY <2>1, AppendIsConcat
    <3>2. <<Head(s)>> \in Seq(S)
      BY <2>1
    <3>3. s = <<Head(s)>> \o Tail(s)
      BY <1>1, <2>1
    <3> QED
      BY <3>1, <3>2, <3>3
  <2> QED
    BY <2>1, <2>2, ConcatAssociative
<1> QED
  BY <1>2, <1>3

LEMMA CopyingInit == Init => Copying
<1> SUFFICES ASSUME Init PROVE Copying
  OBVIOUS
<1>1. /\ out = <<>> /\ in = call.in /\ call \in Calls /\ pc = "begin" /\ said = NoStatus
      /\ taken = <<0, 0>> /\ wrote = FALSE
  BY DEF Init, SessionInit, RemoteInit
<1>2. in \in Seq(Range(in))
  BY <1>1, ServeAssumption DEF ServeAssumption
<1>3. out \o in = call.in
  BY <1>1, <1>2, ConcatEmptySeq
<1>4. taken \in [{1, 2} -> Nat] /\ \A i \in {1, 2} : taken[i] = 0
  BY <1>1
<1>5. \A i \in {1, 2} : CopiedTo(out, call.text[i], i, taken[i])
  BY <1>1, <1>4, CopiedNone
<1>6. \A i \in {1, 2} : taken[i] <= Len(Text(i))
  BY <1>1, <1>4, EmptySeq DEF Text
<1>7. ~Heard
  BY <1>1 DEF Heard
<1> QED
  BY <1>1, <1>2, <1>3, <1>4, <1>5, <1>6, <1>7 DEF Copying

LEMMA EchoStep ==
    ASSUME Control, Next, Svc({"echo"})
    PROVE  \/ ReadInput \/ InputEnds
           \/ UNCHANGED <<out, in, said>> /\ (Here' => Here /\ (pc' = pc \/ pc' = "ready"))
<1> USE DEF Svc, Handler, Control, Goto, Here, Looking, Calling, Teeing, stands, still
<1>1. CASE ClientStep \/ SessionStep \/ SessionFault
  BY <1>1 DEF ClientStep, Leave, CloseInput, SessionStep, Begin, Alive, WriteThen, Die, Report, Exit, Chargen, SessionFault, ThreadLost, DiscardFails
<1>2. CASE Machine \/ ProcStep \/ ProcFault
  BY <1>2 DEF Machine, Expire, ProcEnds, ProcStarts, ProcStep, OpenDir, ReadOther, ReadList, ReadStatus, CloseDir, PidStatus,
     Stat, WriteThen, Die, OpenInfo, InfoGone, Kill, Wait, Waited, ProcFault, OpenDirFails, WaitFails, sessionVars
<1>3. CASE Remote \/ RemoteHup \/ RemoteStep \/ RemoteFault
  BY <1>3 DEF Remote, RemoteWrites, RemoteEnds, KeeperEnds, RemoteHup, sessionVars, RemoteStep, Fork, Send, Consume, AnswerTunnel, NotSent,
     AnswerCallFailure, Reaped, HangUp, TeeOther, TeeNoAttr, TeeDial, TeeOpen, TeeInput, TeeOutput, TeeEnds, RemoteFault, NoPipes,
     NoUserSwitch, ForkFails, NoMemory, WatchFails, TeeDialFails, TeeOpenFails, TeeWriteFails, Ssh
<1> QED
  BY <1>1, <1>2, <1>3 DEF Next, Environment, Handling, Dies

LEMMA TeeStep ==
    ASSUME Control, Next, Svc({"tee"})
    PROVE  \/ TeeOutput(1) \/ TeeOutput(2) \/ TeeEnds
           \/ /\ UNCHANGED <<out, taken>> /\ (wrote => wrote') /\ (Here' => Here)
              /\ pc' \in {"begin", "ready", "files"} => pc \in {"begin", "ready", "files"}
              /\ pc = "relay" => pc' = "relay"
              /\ pc = "gone" => UNCHANGED <<pc, said>> /\ (remote = "ended" => UNCHANGED <<remote, code>>)
<1> USE DEF Svc, Handler, Control, Goto, Here, Looking, Calling, Teeing, stands, still
<1>1. CASE (ClientStep \/ SessionStep \/ SessionFault) /\ UNCHANGED remoteVars
  BY <1>1 DEF ClientStep, Leave, CloseInput, SessionStep, Begin, Alive, Report, Exit, Chargen, WriteThen, Die, ReadInput, InputEnds,
     SessionFault, ThreadLost, DiscardFails, remoteVars
<1>2. CASE (Machine \/ ProcStep \/ ProcFault) /\ UNCHANGED remoteVars
  BY <1>2 DEF Machine, Expire, ProcEnds, ProcStarts, ProcStep, OpenDir, ReadOther, ReadList, ReadStatus, CloseDir, PidStatus,
     Stat, WriteThen, Die, OpenInfo, InfoGone, Kill, Wait, Waited, ProcFault, OpenDirFails, WaitFails, sessionVars, remoteVars
<1>3. CASE Remote \/ RemoteHup
  BY <1>3 DEF Remote, RemoteWrites, RemoteEnds, KeeperEnds, RemoteHup, sessionVars
<1>4. CASE RemoteStep
  BY <1>4 DEF RemoteStep, Fork, Send, Consume, AnswerTunnel, NotSent, AnswerCallFailure, Reaped, HangUp, TeeOther, TeeNoAttr,
     TeeDial, TeeOpen, TeeInput, End, Die, Ssh, remoteVars
<1>5. CASE RemoteFault
  BY <1>5 DEF RemoteFault, NoPipes, NoUserSwitch, ForkFails, NoMemory, WatchFails, TeeDialFails, TeeOpenFails, TeeWriteFails, End, Die, Ssh, remoteVars
<1> QED
  BY <1>1, <1>2, <1>3, <1>4, <1>5 DEF Next, Environment, Handling, Dies

LEMMA TakenStep ==
    ASSUME Control, Next, ~Svc({"tee"}), taken' # taken
    PROVE  Svc(Ssh)
<1>1. Consume
  BY DEF Next, Environment, Handling, Dies, Svc, Control, Handler, Teeing, remoteVars, Remote, RemoteWrites, RemoteEnds, KeeperEnds, RemoteHup, RemoteStep,
     Fork, Send, AnswerTunnel, NotSent, AnswerCallFailure, Reaped, HangUp, TeeOther, TeeNoAttr,
     TeeDial, TeeOpen, TeeInput, TeeOutput, TeeEnds, RemoteFault, NoPipes, NoUserSwitch, ForkFails, NoMemory, WatchFails, TeeDialFails, TeeOpenFails, TeeWriteFails
<1> QED
  BY <1>1 DEF Consume, Control, Calling, Svc

LEMMA CopyingNext ==
    ASSUME Control, Control', Listing, Copying, Next
    PROVE  Copying'
<1>1. /\ call' = call /\ out \in Seq(Range(out)) /\ in \in Seq(Range(in)) /\ call \in Calls
      /\ \A S : (Svc(S)' => Svc(S)) /\ (Svc(S) => Svc(S)')
  BY DEF Next, Listing, Copying, Control, Svc
<1>2. in' \in Seq(Range(in'))
  BY <1>1, Flows, Rest
<1>3. ASSUME Svc({"echo"}), Here'
      PROVE  (pc' # "gone" => out' \o in' = call.in) /\ (Heard' => out' = call.in)
  <2>1. CASE ReadInput
    <3>1. in # <<>> /\ in' = Tail(in) /\ out' = Append(out, Head(in)) /\ pc = "ready" /\ pc' = pc /\ Here
      BY <1>3, <2>1 DEF WriteThen, Die, ReadInput, Write, Handler, Svc, Here
    <3>2. out' \o in' = out \o in
      BY <1>1, <3>1, Rest
    <3> QED
      BY <1>3, <3>1, <3>2 DEF Copying, Heard, Over
  <2>2. CASE InputEnds
    <3>1. in = <<>> /\ out' = out /\ pc = "ready" /\ pc' = "gone" /\ Here
      BY <1>3, <2>2 DEF InputEnds, Handler, Svc, Here, End, Goto
    <3>2. out \o in = out
      BY <1>1, <3>1, ConcatEmptySeq
    <3> QED
      BY <1>3, <3>1, <3>2 DEF Copying
  <2>3. CASE UNCHANGED <<out, in, said>> /\ (Here' => Here /\ (pc' = pc \/ pc' = "ready"))
    <3>1. pc = "gone" => pc' = "gone"
      BY GoneStays DEF sessionVars
    <3> QED
      BY <1>3, <2>3, <3>1 DEF Copying, Heard, Over
  <2> QED
    BY <1>3, <2>1, <2>2, <2>3, EchoStep
<1>4. CASE ~Svc({"tee"})
  <2>1. ~Svc({"tee"})'
    BY <1>1, <1>4
  <2>2. taken' # <<0, 0>> => Svc(Ssh)
    BY <1>4, TakenStep DEF Copying
  <2> QED
    BY <1>1, <1>2, <1>3, <2>1, <2>2 DEF Copying
<1>5. CASE Svc({"tee"})
  <2>1. /\ taken \in [{1, 2} -> Nat] /\ \A i \in {1, 2} : call.text[i] \in Seq(Range(call.text[i]))
        /\ \A i \in {1, 2} : taken[i] \in Nat /\ Len(call.text[i]) \in Nat
    <3>1. \A i \in {1, 2} : call.text[i] \in Seq(Range(call.text[i]))
      BY <1>1, <1>5, ServeAssumption DEF ServeAssumption, RemoteServices, Svc
    <3> QED
      BY <1>5, <3>1, LenProperties DEF Copying
  <2>2. ~Svc({"echo"}) /\ ~Svc(Ssh)
    BY <1>5 DEF Svc, Ssh
  <2>3. ASSUME NEW i \in {1, 2}, TeeOutput(i) PROVE Copying'
    <3>1. /\ pc = "relay" /\ pc' = pc /\ taken[i] < Len(Text(i)) /\ taken' = [taken EXCEPT ![i] = @ + 1] /\ wrote' = wrote
          /\ out' = IF Here THEN Append(out, <<i, Text(i)[taken[i] + 1]>>) ELSE out
          /\ (Here' => Here)
      BY <2>3 DEF TeeOutput, Write, Here
    <3>2. wrote /\ Text(i) = call.text[i]
      BY <2>1, <3>1, EmptySeq DEF Text
    <3>3. taken' \in [{1, 2} -> Nat] /\ taken'[i] = taken[i] + 1 /\ \A j \in {1, 2} \ {i} : taken'[j] = taken[j]
      BY <2>1, <3>1
    <3>4. \A j \in {1, 2} : taken'[j] <= Len(Text(j)')
      <4>1. \A j \in {1, 2} : Text(j)' = Text(j) /\ taken[j] <= Len(Text(j))
        BY <1>1, <1>5, <3>1 DEF Text, Copying
      <4> QED
        BY <2>1, <3>1, <3>2, <3>3, <4>1
    <3>5. ASSUME Here, NEW j \in {1, 2} PROVE CopiedTo(out', call.text[j], j, taken'[j])
      <4>1. CopiedTo(out, call.text[j], j, taken[j])
        BY <1>5, <3>5 DEF Copying
      <4>2. CASE j = i
        BY <1>1, <2>1, <3>1, <3>2, <3>3, <3>5, <4>1, <4>2, CopiedMore
      <4>3. CASE j # i
        <5> DEFINE x == <<i, Text(i)[taken[i] + 1]>>
        <5>1. x[1] # j /\ out' = Append(out, x)
          BY <3>1, <3>5, <4>3
        <5> HIDE DEF x
        <5>2. CopiedTo(out', call.text[j], j, taken[j])
          BY <1>1, <4>1, <5>1, CopiedOther
        <5> QED
          BY <3>3, <4>3, <5>2
      <4> QED
        BY <4>2, <4>3
    <3>6. Here' => \A j \in {1, 2} : CopiedTo(out', call.text[j], j, taken'[j])
      BY <3>1, <3>5
    <3>7. ~Heard'
      BY <3>1 DEF Heard, Over
    <3>8. (Svc({"tee"}) /\ Here)' => \A j \in {1, 2} : CopiedTo(out', call'.text[j], j, taken'[j])
      BY <1>1, <3>6
    <3>9. taken' \in [{1, 2} -> Nat] /\ wrote' /\ pc' = "relay" /\ Svc({"tee"})' /\ ~Svc({"echo"})'
      BY <1>1, <1>5, <2>2, <3>1, <3>2, <3>3
    <3> QED
      BY <1>2, <3>4, <3>7, <3>8, <3>9 DEF Copying
  <2>4. ASSUME UNCHANGED <<out, taken>>, wrote => wrote', Here' => Here
        PROVE  /\ \A i \in {1, 2} : taken'[i] <= Len(Text(i)')
               /\ Here' => \A i \in {1, 2} : CopiedTo(out', call.text[i], i, taken'[i])
    <3>1. ASSUME NEW i \in {1, 2} PROVE taken[i] <= Len(Text(i)')
      <4>1. taken[i] <= Len(Text(i))
        BY <1>5 DEF Copying
      <4>2. Text(i)' = Text(i) \/ (Text(i) = <<>> /\ Text(i)' = call.text[i])
        BY <1>1, <2>4 DEF Text
      <4> QED
        BY <2>1, <4>1, <4>2, EmptySeq
    <3>2. Here' => \A i \in {1, 2} : CopiedTo(out', call.text[i], i, taken'[i])
      BY <1>5, <2>4 DEF Copying
    <3> QED
      BY <2>4, <3>1, <3>2
  <2>5. CASE TeeEnds
    <3>1. /\ pc = "relay" /\ pc' = "gone" /\ remote = "ended" /\ UNCHANGED <<out, taken, wrote, remote>> /\ (Here' => Here)
          /\ Here => \A i \in {1, 2} : taken[i] = Len(Text(i))
      BY <2>5 DEF TeeEnds, remoteVars, stands, End, Goto, Here
    <3>2. taken # <<0, 0>> => wrote
      BY <2>2 DEF Copying
    <3>3. Here /\ taken # <<0, 0>> => \A i \in {1, 2} : taken[i] = Len(call.text[i])
      BY <3>1, <3>2 DEF Text
    <3> QED
      BY <1>1, <1>2, <1>3, <2>1, <2>4, <3>1, <3>2, <3>3 DEF Copying, Heard, Over
  <2>6. CASE /\ UNCHANGED <<out, taken>> /\ (wrote => wrote') /\ (Here' => Here)
             /\ pc' \in {"begin", "ready", "files"} => pc \in {"begin", "ready", "files"}
             /\ pc = "relay" => pc' = "relay"
             /\ pc = "gone" => UNCHANGED <<pc, said>> /\ (remote = "ended" => UNCHANGED <<remote, code>>)
    <3>1. taken' # <<0, 0>> => wrote' /\ pc' \in {"relay", "gone"} /\ pc \in {"relay", "gone"}
      BY <2>2, <2>6 DEF Copying
    <3>2. Heard' /\ taken' # <<0, 0>> => remote' = "ended" /\ \A i \in {1, 2} : taken'[i] = Len(call.text[i])
      BY <1>5, <2>6, <3>1 DEF Copying, Heard, Over
    <3> QED
      BY <1>1, <1>2, <1>3, <1>5, <2>1, <2>4, <2>6, <3>1, <3>2 DEF Copying
  <2> QED
    BY <1>5, <2>3, <2>5, <2>6, TeeStep
<1> QED
  BY <1>4, <1>5

-----------------------------------------------------------------------------
(* The delimiter of a clean tunnel.                                        *)

\* The start of a window lies in the buffer.
LEMMA Remainder ==
    ASSUME NEW a \in Int, NEW b \in Nat, b > 0
    PROVE  a % b \in 0..b - 1
OBVIOUS

LEMMA Beginning ==
    ASSUME NEW s, s \in Seq(Range(s)), NEW n \in Nat, n <= Len(s)
    PROVE  /\ SubSeq(s, 1, n) \in Seq(Range(s)) /\ Len(SubSeq(s, 1, n)) = n
           /\ \A i \in 1..n : SubSeq(s, 1, n)[i] = s[i]
<1>1. \A i \in 1..n : s[i] \in Range(s)
  BY ElementOfSeq
<1> DEFINE t == SubSeq(s, 1, n)
<1>2. /\ t \in Seq(Range(s)) /\ Len(t) = IF 1 <= n THEN n - 1 + 1 ELSE 0
      /\ \A i \in 1..n - 1 + 1 : t[i] = s[1 + i - 1]
  BY <1>1, SubSeqProperties
<1> HIDE DEF t
<1> QED
  BY <1>2 DEF t

LEMMA WindowIs ==
    ASSUME NEW text, text \in Seq(Range(text)), NEW e \in Len(Delim)..Len(text)
    PROVE  \/ Window(text, e) = SubSeq(text, e - Len(Delim) + 1, e)
           \/ e > BufSize /\ \E o \in 1..Len(Delim) - 1 : Window(text, e)[1] = text[o]
<1> DEFINE d == Len(Delim)
           o == ((e - BufSize - 1) % (BufSize - d + 1)) + 1
           tail == SubSeq(text, e - o + 1, e)
           head == SubSeq(text, 1, d - 1)
<1>1. d \in Nat /\ d > 0 /\ BufSize \in Nat /\ BufSize >= d /\ Len(text) \in Nat /\ e \in Nat /\ d <= e /\ e <= Len(text)
  BY RemoteAssumption, LenProperties DEF RemoteAssumption
<1>2. CASE e <= BufSize
  BY <1>2 DEF Window
<1>3. CASE e > BufSize
  <2>1. o \in 1..BufSize - d + 1
    <3>1. (e - BufSize - 1) % (BufSize - d + 1) \in 0..(BufSize - d + 1) - 1
      BY <1>1, Remainder
    <3> QED
      BY <1>1, <3>1
  <2>2. Window(text, e) = SubSeq(head \o tail, o, o + d - 1)
    <3>1. ~(e <= BufSize)
      BY <1>1, <1>3
    <3> QED
      BY Zenon, <3>1 DEF Window
  <2> HIDE DEF o
  <2>3. /\ head \in Seq(Range(text)) /\ Len(head) = d - 1 /\ \A i \in 1..d - 1 : head[i] = text[i]
    <3>1. d - 1 \in Nat /\ d - 1 <= Len(text)
      BY <1>1
    <3> QED
      BY <3>1, Beginning
  <2>4. o <= e
    BY <1>1, <1>3, <2>1
  <2>5. /\ tail \in Seq(Range(text)) /\ Len(tail) = o /\ \A i \in 1..o : tail[i] = text[e - o + i]
    BY <1>1, <2>1, <2>4
  <2> HIDE DEF head, tail
  <2>6. /\ head \o tail \in Seq(Range(text)) /\ Len(head \o tail) = d - 1 + o
        /\ \A i \in 1..d - 1 : (head \o tail)[i] = head[i]
    <3>1. /\ head \o tail \in Seq(Range(text)) /\ Len(head \o tail) = Len(head) + Len(tail)
          /\ \A i \in 1..Len(head) + Len(tail) : (head \o tail)[i] = IF i <= Len(head) THEN head[i] ELSE tail[i - Len(head)]
      BY <2>3, <2>5, ConcatProperties
    <3> DEFINE both == head \o tail
    <3> HIDE DEF both
    <3>2. Len(head) + Len(tail) = d - 1 + o /\ \A i \in 1..d - 1 : i \in 1..Len(head) + Len(tail) /\ i <= Len(head)
      BY <1>1, <2>1, <2>3, <2>5
    <3> QED
      BY <3>1, <3>2
  <2>7. CASE o < d
    <3>1. /\ SubSeq(head \o tail, o, o + d - 1)[1] = (head \o tail)[o]
      <4> DEFINE both == head \o tail
      <4>1. \A i \in o..o + d - 1 : both[i] \in Range(text)
        BY <1>1, <2>1, <2>6, ElementOfSeq
      <4> HIDE DEF both
      <4>2. o + 1 - 1 = o /\ 1 \in 1..(o + d - 1) - o + 1 /\ o \in Int /\ o + d - 1 \in Int
        BY <1>1, <2>1
      <4>3. SubSeq(both, o, o + d - 1)[1] = both[o + 1 - 1]
        BY <4>1, <4>2, SubSeqProperties
      <4> QED
        BY <4>2, <4>3 DEF both
    <3>2. o \in 1..d - 1
      BY <1>1, <2>1, <2>7
    <3>3. (head \o tail)[o] = text[o]
      BY <2>3, <2>6, <3>2
    <3> QED
      BY <1>3, <2>2, <3>1, <3>2, <3>3 DEF d
  <2>8. CASE o >= d
    <3>1. o \in Len(head) + 1..Len(head) + Len(tail) /\ o + d - 1 \in Len(head) + 1..Len(head) + Len(tail)
      BY <1>1, <2>1, <2>3, <2>5, <2>8
    <3>2. SubSeq(head \o tail, o, o + d - 1) = SubSeq(tail, o - Len(head), o + d - 1 - Len(head))
      BY <2>3, <2>5, <3>1, SubSeqOfConcat2
    <3>3. o - Len(head) = o - d + 1 /\ o + d - 1 - Len(head) = o
      BY <1>1, <2>1, <2>3
    <3>4. SubSeq(tail, o - d + 1, o) = SubSeq(text, e - d + 1, e)
      <4> DEFINE i == e - o + 1
                 m == o - d + 1
      <4>1. i \in 1..Len(text) /\ e \in 1..Len(text) /\ m \in 1..e - i + 1 /\ o \in 1..e - i + 1
        BY <1>1, <2>1, <2>4, <2>8
      <4>2. i + m - 1 = e - d + 1 /\ i + o - 1 = e
        BY <1>1, <2>1
      <4> HIDE DEF i, m
      <4>3. SubSeq(SubSeq(text, i, e), m, o) = SubSeq(text, i + m - 1, i + o - 1)
        BY <4>1, SubSeqOfSubSeq
      <4> QED
        BY <4>2, <4>3 DEF i, m, tail
    <3> QED
      BY <2>2, <3>2, <3>3, <3>4 DEF d
  <2> QED
    BY <1>1, <2>1, <2>7, <2>8
<1> QED
  BY <1>1, <1>2, <1>3

\* Where consume_delimiter() stops is where the first delimiter ends.
LEMMA DelimEndClears ==
    ASSUME NEW text, text \in Seq(Range(text)), Fits(text), DelimEnd(text) # 0
    PROVE  DelimEnd(text) \in Nat /\ Clears(text, DelimEnd(text))
<1> DEFINE S == {e \in Len(Delim)..Len(text) : Window(text, e) = Delim}
           m == Min(S)
<1>1. /\ Len(Delim) \in Nat /\ Len(Delim) > 0 /\ BufSize \in Nat /\ Len(text) \in Nat
      /\ DOMAIN text = 1..Len(text)
  BY RemoteAssumption, LenProperties DEF RemoteAssumption
<1>2. S # {} /\ DelimEnd(text) = m
  BY DEF DelimEnd
<1>3. m \in S /\ \A e \in S : m <= e
  <2>1. S \subseteq Nat
    BY <1>1
  <2>2. \E n \in S : \A e \in S : n <= e
    BY <1>2, <2>1, LeastNumber
  <2> QED
    BY <2>2 DEF Min
<1>4. ASSUME NEW n, EndsAt(text, n), n <= BufSize PROVE n \in S
  <2>1. n \in Len(Delim)..Len(text) /\ SubSeq(text, n - Len(Delim) + 1, n) = Delim
    BY <1>4 DEF EndsAt
  <2>2. Window(text, n) = SubSeq(text, n - Len(Delim) + 1, n)
    BY Zenon, <1>4 DEF Window
  <2> QED
    BY <2>1, <2>2
<1>5. m \in Len(Delim)..Len(text) /\ Window(text, m) = Delim
  BY <1>3
<1> HIDE DEF S, m
<1>6. m \in Nat /\ m \in DOMAIN text /\ m <= Len(text) /\ \A n \in 1..m - 1 : n \in DOMAIN text /\ n < m /\ n \in Nat
  BY <1>1, <1>5
<1>7. EndsAt(text, m) \/ (m > BufSize /\ \E o \in 1..Len(Delim) - 1 : Delim[1] = text[o])
  BY <1>5, WindowIs DEF EndsAt
<1>8. CASE \E e \in 1..BufSize : EndsAt(text, e)
  <2>1. m <= BufSize
    <3>1. PICK e \in 1..BufSize : EndsAt(text, e)
      BY <1>8
    <3>2. m <= e /\ e <= BufSize /\ e \in Nat
      BY <1>1, <1>3, <1>4, <3>1
    <3> QED
      BY <1>1, <1>6, <3>2
  <2>2. EndsAt(text, m)
    BY <1>1, <1>6, <1>7, <2>1
  <2>3. ASSUME NEW n \in 1..m - 1, EndsAt(text, n) PROVE FALSE
    <3>1. n < m /\ n \in Nat /\ n <= BufSize
      BY <1>1, <1>6, <2>1
    <3>2. m <= n
      BY <1>3, <1>4, <2>3, <3>1
    <3> QED
      BY <1>6, <3>1, <3>2
  <2> QED
    BY <1>2, <1>6, <2>2, <2>3 DEF Clears
<1>9. CASE /\ \A n \in DOMAIN text : n < Len(Delim) => text[n] # Delim[1]
           /\ \A k, n \in DOMAIN text : EndsAt(text, k) /\ EndsAt(text, n) => k = n
  <2>1. ASSUME NEW o \in 1..Len(Delim) - 1 PROVE Delim[1] # text[o]
    <3>1. o \in DOMAIN text /\ o < Len(Delim)
      BY <1>1, <1>5
    <3> QED
      BY <1>9, <3>1
  <2>2. EndsAt(text, m)
    BY <1>7, <2>1
  <2>3. ASSUME NEW n \in 1..m - 1, EndsAt(text, n) PROVE FALSE
    <3>1. n < m /\ n \in Nat /\ n \in DOMAIN text
      BY <1>6
    <3>2. n = m
      BY <1>6, <1>9, <2>2, <2>3, <3>1
    <3> QED
      BY <1>6, <3>1, <3>2
  <2> QED
    BY <1>2, <1>6, <2>2, <2>3 DEF Clears
<1> QED
  BY <1>8, <1>9 DEF Fits

\* Of an end that wrote nothing, no delimiter is read.
LEMMA DelimEndNone == DelimEnd(<<>>) = 0
<1>1. Len(Delim) > 0 /\ Len(Delim) \in Nat
  BY RemoteAssumption, LenProperties DEF RemoteAssumption
<1>2. Len(Delim)..Len(<<>>) = {}
  BY <1>1, EmptySeq
<1> QED
  BY <1>2 DEF DelimEnd

LEMMA TunnelStep ==
    ASSUME Control, Next, Svc({"tunnelr"})
    PROVE  \/ Consume \/ AnswerTunnel
           \/ /\ taken' = taken /\ (answer' = answer \/ answer' = "nothing")
              /\ pc' \in {"delim2", "answer"} => pc' = pc
              /\ pc \in {"waiting", "notsent", "gone"} => pc' \in {"waiting", "notsent", "gone"}
<1> USE DEF Svc, Handler, Control, Goto, Here, Looking, Calling, Teeing, stands, still
<1>1. CASE (ClientStep \/ SessionStep \/ SessionFault) /\ UNCHANGED remoteVars
  BY <1>1 DEF ClientStep, Leave, CloseInput, SessionStep, Begin, Alive, Report, Exit, Chargen, WriteThen, Die, ReadInput, InputEnds,
     SessionFault, ThreadLost, DiscardFails, remoteVars
<1>2. CASE (Machine \/ ProcStep \/ ProcFault) /\ UNCHANGED remoteVars
  BY <1>2 DEF Machine, Expire, ProcEnds, ProcStarts, ProcStep, OpenDir, ReadOther, ReadList, ReadStatus, CloseDir, PidStatus,
     Stat, WriteThen, Die, OpenInfo, InfoGone, Kill, Wait, Waited, ProcFault, OpenDirFails, WaitFails, sessionVars, remoteVars
<1>3. CASE Remote \/ RemoteHup
  BY <1>3 DEF Remote, RemoteWrites, RemoteEnds, KeeperEnds, RemoteHup, sessionVars
<1>4. CASE RemoteStep
  <2>1. CASE Fork \/ Send \/ NotSent \/ AnswerCallFailure \/ Reaped \/ HangUp
    BY <2>1 DEF Fork, After, Send, Die, NotSent, AnswerCallFailure, Reaped, HangUp, End, remoteVars
  <2>2. CASE TeeOther \/ TeeNoAttr \/ TeeDial \/ TeeOpen \/ TeeInput \/ TeeOutput(1) \/ TeeOutput(2) \/ TeeEnds
    <3>1. pc \in {"files", "relay"} \/ (pc = "ready" /\ call.svc \in {"tee"})
      <4>1. TeeOutput(1) \/ TeeOutput(2) \/ TeeInput \/ TeeEnds => pc = "relay"
        BY Zenon DEF TeeInput, TeeOutput, TeeEnds
      <4>2. TeeOther \/ TeeNoAttr \/ TeeDial => pc = "ready" /\ call.svc \in {"tee"}
        BY Zenon DEF TeeOther, TeeNoAttr, TeeDial
      <4>3. TeeOpen => pc = "files"
        BY Zenon DEF TeeOpen
      <4> QED
        BY <2>2, <4>1, <4>2, <4>3
    <3> QED
      BY <3>1
  <2> QED
    BY <1>4, <2>1, <2>2 DEF RemoteStep
<1>5. CASE RemoteFault
  BY <1>5 DEF RemoteFault, NoPipes, NoUserSwitch, ForkFails, After, NoMemory, WatchFails, TeeDialFails, TeeOpenFails, TeeWriteFails, End, Die, remoteVars
<1> QED
  BY <1>1, <1>2, <1>3, <1>4, <1>5 DEF Next, Environment, Handling, Dies

LEMMA TunnellingNext ==
    ASSUME Control, Tunnelling, Next
    PROVE  Tunnelling'
<1> SUFFICES ASSUME Svc({"tunnelr"}) PROVE Tunnelling'
  BY DEF Next, Tunnelling, Svc
<1>1. /\ call' = call /\ call \in Calls /\ taken \in [{1, 2} -> Nat]
      /\ \A i \in {1, 2} : call.text[i] \in Seq(Range(call.text[i])) /\ Fits(call.text[i])
  BY ServeAssumption, LoginAssumption DEF ServeAssumption, LoginAssumption, Tunnelling, Control, Next, Svc, RemoteServices, Ssh
<1>2. CASE Consume
  <2>1. /\ pc \in {"delim1", "delim2"} /\ answer' = answer
        /\ LET i == Stream[pc]
               e == DelimEnd(Text(i))
           IN  \/ e # 0 /\ taken' = [taken EXCEPT ![i] = e] /\ pc' = Next1[pc]
               \/ e = 0 /\ pc' = "callfailure" /\ taken' = taken
    <3>1. pc \in {"delim1", "delim2"} /\ answer' = answer
      BY <1>2 DEF Consume, stands
    <3> QED
      BY Zenon, <1>2, <3>1 DEF Consume, Goto
  <2>2. CASE pc' = "callfailure" /\ taken' = taken
    BY <1>1, <2>1, <2>2 DEF Tunnelling
  <2>3. ASSUME NEW i \in {1, 2}, i = Stream[pc], DelimEnd(Text(i)) # 0, taken' = [taken EXCEPT ![i] = DelimEnd(Text(i))], pc' = Next1[pc]
        PROVE  Tunnelling'
    <3> DEFINE e == DelimEnd(call.text[i])
    <3>1. e # 0 /\ taken' = [taken EXCEPT ![i] = e]
      BY <2>3, DelimEndNone DEF Text
    <3>2. e \in Nat /\ Clears(call.text[i], e)
      BY <1>1, <3>1, DelimEndClears
    <3> HIDE DEF e
    <3>3. taken' \in [{1, 2} -> Nat] /\ taken'[i] = e /\ \A j \in {1, 2} \ {i} : taken'[j] = taken[j]
      BY <1>1, <3>1, <3>2
    <3>4. (pc = "delim1" /\ i = 1 /\ pc' = "delim2") \/ (pc = "delim2" /\ i = 2 /\ pc' = "answer")
      BY <2>1, <2>3 DEF Stream, Next1
    <3> QED
      BY <1>1, <2>1, <3>2, <3>3, <3>4 DEF Tunnelling
  <2> QED
    <3>1. Stream[pc] \in {1, 2}
      BY <2>1 DEF Stream
    <3> QED
      BY <2>1, <2>2, <2>3, <3>1
<1>3. CASE AnswerTunnel
  <2>1. pc = "answer" /\ taken' = taken /\ pc' \in {"waiting", "notsent", "gone"}
    BY <1>3 DEF AnswerTunnel, Goto, remoteVars
  <2> QED
    BY <1>1, <2>1 DEF Tunnelling
<1>4. CASE /\ taken' = taken /\ (answer' = answer \/ answer' = "nothing")
           /\ pc' \in {"delim2", "answer"} => pc' = pc
           /\ pc \in {"waiting", "notsent", "gone"} => pc' \in {"waiting", "notsent", "gone"}
  BY <1>1, <1>4 DEF Tunnelling
<1> QED
  BY <1>2, <1>3, <1>4, TunnelStep

LEMMA TunnellingInit == Init => Tunnelling
BY DEF Init, SessionInit, RemoteInit, Tunnelling

-----------------------------------------------------------------------------
(* The theorems.                                                           *)

LEMMA ServeInit == Init => ServeInv
BY ControlInit, ProcessesInit, ListingInit, CopyingInit, TellingInit, TunnellingInit DEF ServeInv

LEMMA ListingStutters ==
    ASSUME Listing, UNCHANGED <<call, sessionVars, procVars, remoteVars>>
    PROVE  Listing'
<1> USE DEF sessionVars, procVars, remoteVars, Svc, Here, Heard, Over, Lives, Now
<1>1. (\A l : LineOf(l)' = LineOf(l)) /\ (\A l : AskedFor(l)' <=> AskedFor(l))
  BY DEF LineOf, AskedFor
<1>2. ListTrue'
  <2>1. \A x : ReportTrue(x) => ReportTrue(x)'
    BY ReportStays
  <2> QED
    BY <1>1, <2>1 DEF Listing, ListTrue
<1>3. \A p : Lined(p)' <=> Lined(p)
  BY DEF Lined, LineOf
<1>4. \A p : Stays(p)' <=> Stays(p)
  BY DEF Stays
<1>5. \A u : Asked(u)' <=> Asked(u)
  BY DEF Asked
<1> QED
  BY <1>1, <1>2, <1>3, <1>4, <1>5 DEF Listing

LEMMA TellingStutters ==
    ASSUME Telling, UNCHANGED <<call, sessionVars, procVars, remoteVars>>
    PROVE  Telling'
<1> USE DEF sessionVars, procVars, remoteVars, Svc, Here, Heard, Over, Lives, Now
<1>1. \A l : Ended(l)' <=> Ended(l)
  BY DEF Ended
<1>2. StatusGiven'
  <2>1. StatusGiven
    BY DEF Telling
  <2>2. (\E l \in lived : Ended(l)) => \E l \in lived : Ended(l)'
    BY <1>1
  <2> QED
    BY <2>1, <2>2 DEF StatusGiven
<1>3. Truth'
  BY DEF Telling, Truth, Named, Signal, TeeStatus
<1> QED
  BY <1>2, <1>3 DEF Telling

LEMMA ServeNext == ServeInv /\ [Next]_<<call, state>> => ServeInv'
<1> SUFFICES ASSUME ServeInv, [Next]_<<call, state>> PROVE ServeInv'
  OBVIOUS
<1>1. CASE Next
  BY <1>1, ControlNext, ProcessesNext, ListingNext, CopyingNext, TellingNext, TunnellingNext DEF ServeInv
<1>2. CASE UNCHANGED <<call, state>>
  <2>1. UNCHANGED <<call, sessionVars, procVars, remoteVars>>
    BY <1>2 DEF state
  <2>2. Control' /\ Processes'
    BY <2>1 DEF ServeInv, Control, Processes, Holding, sessionVars, procVars, remoteVars, Svc, Here, Now, Lives
  <2>3. Listing'
    BY <2>1, ListingStutters DEF ServeInv
  <2>4. Copying'
    BY <2>1 DEF ServeInv, Copying, Text, sessionVars, remoteVars, Svc, Here, Heard, Over
  <2>5. Telling'
    BY <2>1, TellingStutters DEF ServeInv
  <2>6. Tunnelling'
    BY <2>1 DEF ServeInv, Tunnelling, sessionVars, remoteVars, Svc
  <2> QED
    BY <2>2, <2>3, <2>4, <2>5, <2>6 DEF ServeInv
<1> QED
  BY <1>1, <1>2

\* The invariant of a session.
THEOREM ServeAlways == Spec => []ServeInv
BY ServeInit, ServeNext, PTL DEF Spec

\* A client that stays is told a status when no call fails, but for the ends listed
\* there.
THEOREM StatusGivenAlways == Spec => []StatusGiven
<1>1. ServeInv => StatusGiven
  BY DEF ServeInv, Telling
<1> QED
  BY <1>1, ServeAlways, PTL

\* A status is true: of the process that was waited for, the signal that was sent,
\* the end of ssh or of the service behind russtee.
THEOREM StatusTrueAlways == Spec => []StatusTrue
<1>1. ServeInv => StatusTrue
  <2> SUFFICES ASSUME ServeInv, Heard PROVE StatusTrue
    BY DEF StatusTrue
  <2>1. Truth /\ Heard
    BY DEF ServeInv, Telling
  <2>2. CASE Svc({"kill"})
    <3>1. said = Success => hit[1] \in Named /\ hit[2] = Signal /\ call.sig # "empty"
      BY <2>1, <2>2 DEF Truth
    <3>2. said = Success => hit[1] \in Named /\ (hit[2] = call.sig \/ (hit[2] = "TERM" /\ call.sig \in {"none", "word"}))
      BY <3>1 DEF Signal
    <3>3. ~Svc({"wait"})
      BY <2>2 DEF Svc
    <3> QED
      BY <2>2, <3>2, <3>3 DEF StatusTrue, Svc, Ssh
  <2>3. CASE ~Svc({"kill"})
    BY <2>1, <2>3 DEF Truth, StatusTrue, TeeStatus, Svc, Ssh
  <2> QED
    BY <2>2, <2>3
<1> QED
  BY <1>1, ServeAlways, PTL

\* A list has every process that was there from the first look to the end, and only
\* processes there were.
THEOREM ListTrueAlways == Spec => []ListTrue
<1>1. ServeInv => ListTrue
  BY DEF ServeInv, Listing
<1> QED
  BY <1>1, ServeAlways, PTL

\* A status says that the output before it is complete.
THEOREM OutWholeAlways == Spec => []OutWhole
<1>1. ServeInv => OutWhole
  <2> SUFFICES ASSUME ServeInv PROVE OutWhole
    OBVIOUS
  <2>1. Copying
    BY DEF ServeInv
  <2>2. Heard /\ Svc({"echo"}) => out = call.in
    BY <2>1 DEF Copying, Heard, Over
  <2>3. ASSUME Heard, Svc({"tee"}), taken # <<0, 0>>, NEW i \in {1, 2} PROVE Copied(i, Len(call.text[i]))
    BY <2>1, <2>3, CopiedIs DEF Copying, Heard, Over
  <2> QED
    BY <2>2, <2>3 DEF OutWhole
<1> QED
  BY <1>1, ServeAlways, PTL

\* Of a clean tunnel the client sees what comes after the first delimiter, of either
\* stream, however long a login of the assumed kind writes.
THEOREM TunnelCleanAlways == Spec => []TunnelClean
<1>1. ServeInv => TunnelClean
  BY DEF ServeInv, Tunnelling, TunnelClean
<1> QED
  BY <1>1, ServeAlways, PTL
=============================================================================
