----------------------------- MODULE RussServe -----------------------------
(***************************************************************************)
(* The handlers of russdebug, russalive, russproc, russssh2 and russtee,   *)
(* each in one session with a client that may leave at any time.           *)
(***************************************************************************)
EXTENDS RussProc, RussRemote

\* What a call says of the machine and of the other end.
ASSUME ServeAssumption ==
    \A c \in Calls :
        /\ c.faults \in Nat /\ c.in \in Seq(Range(c.in))
        /\ c.ignores \in BOOLEAN /\ (c.svc = "tee" => c.ignores)
        /\ c.svc \in ProcServices => \A p \in Pids : c.procs[p] \in Users \cup {NoUser}
        /\ c.svc = "list" => c.of \in {"g", "u", "p"}
        /\ c.svc \in RemoteServices => \A i \in {1, 2} : c.text[i] \in Seq(Range(c.text[i]))

state == <<sessionVars, procVars, remoteVars>>

Init == SessionInit /\ ProcInit /\ RemoteInit

\* The client, the machine, the other end: what they do, and when, is theirs.
Environment ==
    \/ ClientStep /\ UNCHANGED <<procVars, remoteVars>>
    \/ Machine /\ UNCHANGED remoteVars
    \/ Remote /\ UNCHANGED procVars
    \/ (SessionFault /\ UNCHANGED <<procVars, remoteVars>>)
    \/ (ProcFault /\ UNCHANGED remoteVars)
    \/ (RemoteFault /\ UNCHANGED procVars)
Handling ==
    \/ SessionStep /\ UNCHANGED <<procVars, remoteVars>>
    \/ ProcStep /\ UNCHANGED remoteVars
    \/ RemoteStep /\ UNCHANGED procVars
Dies == RemoteHup /\ UNCHANGED procVars

Next == (Environment \/ Handling \/ Dies) /\ UNCHANGED call

Spec == Init /\ [][Next]_<<call, state>>

\* The handler runs, and a process that was sent SIGHUP ends.  Whether and when
\* a client leaves, a process or a remote service ends, is left open.
FairSpec == Spec /\ WF_state(Handling /\ UNCHANGED call) /\ WF_state(Dies /\ UNCHANGED call)

-----------------------------------------------------------------------------
(* Properties.                                                             *)

Over == pc = "gone" /\ Here
Heard == Over /\ said # NoStatus
Ended(l) == procs[l[1]] # [owner |-> l[2], born |-> l[3]]

\* A client that stays is told a status.  Without a fault it is not only when a
\* process ended while russproc read about it, when a wait was given an interval
\* and no timeout, which the help text allows, when russtee was asked for anything but an
\* execution, and when SIGPIPE ended russssh2, which had its request for an ssh
\* that was gone.
StatusGiven ==
    Over /\ said = NoStatus =>
        \/ faults > 0
        \/ Svc({"status", "pidstatus"}) /\ \E l \in lived : Ended(l)
        \/ Svc({"wait"}) /\ call.args = 1
        \/ Svc({"tee"}) /\ call.attr = "other op"
        \/ Svc({"tunnel", "tunnelr"}) /\ ~call.ignores /\ remote = "ended" /\ ~sent

\* What a status stands for: the end of the process that was waited for, or a
\* deadline that was given and passed (of a wait without one: WaitForever); the
\* signal that was asked for, sent to the process that was; how ssh, or the
\* service behind russtee, ended.  russssh2 tells success, too, of a child that
\* was killed or never made, and CALLFAILURE when no service was called.
StatusTrue ==
    Heard =>
        CASE Svc({"wait"}) ->
                /\ said = Success => <<found, first[found].owner, first[found].born>> \notin Now
                /\ said = Late /\ call.args = 2 => call.due = "at once" \/ due = "past"
          [] Svc({"kill"}) -> said = Success =>
                /\ hit[1] \in Named
                /\ hit[2] = call.sig \/ (hit[2] = "TERM" /\ call.sig \in {"none", "word"})
          [] Svc(Ssh) ->
                /\ said = Success => (remote = "ended" /\ code \in {Success, Killed}) \/ faults > 0
                /\ answer = "nothing" => said = CallFailure
          [] Svc({"tee"}) /\ taken # <<0, 0>> -> said = IF code = Killed THEN SysFailure ELSE code
          [] Svc({"exit"}) -> said = call.arg \/ (said = Failure /\ call.arg \notin 0..255)
          [] OTHER -> TRUE

\* A wait without a timeout is never told that it took too long: the help text of
\* russproc says that the default is infinite.
WaitForever == Svc({"wait"}) /\ said = Late => call.args = 2

\* Lists and reports, made entry by entry while processes come and go: every line
\* is about a process there was; a line for the entry of a process names it, and
\* an owner who was asked for, but for a process that took the identifier in
\* between; and every process that is asked for and was there from the beginning
\* to the end has its line.  An entry that is no process gives a line about any.
AskedFor(l) == CASE call.of = "u" -> l[2] = call.who [] call.of = "g" -> Group[l[2]] = call.who [] OTHER -> TRUE
LineOf(l) ==
    CASE Svc({"status"}) -> <<l[1], l[2], l[3], l[1]>>
      [] Svc({"list"}) /\ call.of = "p" -> l
      [] Svc({"list"}) /\ call.of = "u" -> l[2]
      [] Svc({"list"}) /\ call.of = "g" -> Group[l[2]]
Process(p, u, b) == <<p, u, b>> \in lived
Replaced(p) == \E l, m \in lived : l[1] = p /\ m[1] = p /\ l # m
ReportTrue(line) ==
    /\ \E u \in Users : Process(line[1], u, line[3])
    /\ line[4] > 0 =>
          /\ line[1] = line[4]
          /\ Replaced(line[1]) \/ (Process(line[1], line[2], line[3]) /\ AskedFor(line))
ListTrue ==
    Svc({"list", "status"}) =>
        /\ \A i \in DOMAIN out :
              IF Svc({"status"}) THEN ReportTrue(out[i]) ELSE \E l \in lived : out[i] = LineOf(l)
        /\ Heard /\ said = Success =>
              \A l \in Now : first[l[1]] = procs[l[1]] /\ (Svc({"list"}) \/ AskedFor(l)) =>
                  \E i \in DOMAIN out : out[i] = LineOf(l)

\* A delimiter ends at byte n.
EndsAt(text, n) == n \in Len(Delim)..Len(text) /\ SubSeq(text, n - Len(Delim) + 1, n) = Delim

\* consume_delimiter() forgets, each time its buffer is full, the bytes it was at.
\* What is assumed of a login: a delimiter comes within one buffer; or there is not
\* more than one, and nothing like its first byte where the buffer keeps its beginning.
Fits(text) ==
    \/ \E e \in 1..BufSize : EndsAt(text, e)
    \/ /\ \A n \in DOMAIN text : n < Len(Delim) => text[n] # Delim[1]
       /\ \A m, n \in DOMAIN text : EndsAt(text, m) /\ EndsAt(text, n) => m = n
ASSUME LoginAssumption ==
    \A c \in Calls : c.svc = "tunnelr" => \A i \in {1, 2} : Fits(c.text[i])

\* The client of a clean tunnel sees of both streams what comes after the first
\* delimiter, and nothing of what the login wrote before.
Clears(text, e) == EndsAt(text, e) /\ \A n \in 1..e - 1 : ~EndsAt(text, n)
TunnelClean ==
    Svc({"tunnelr"}) /\ answer = "tunnel" => \A i \in {1, 2} : Clears(call.text[i], taken[i])

\* What the output has of stream i is the first n elements of its text, in their
\* order.
Copied(i, n) ==
    \E place \in [1..n -> DOMAIN out] :
        /\ \A m \in 1..n : out[place[m]] = <<i, call.text[i][m]>> /\ \A k \in 1..m - 1 : place[k] < place[m]
        /\ \A x \in DOMAIN out : out[x][1] = i => \E m \in 1..n : place[m] = x

\* A status says that the output before it is complete: what was echoed, what the
\* service behind russtee wrote.
OutWhole ==
    /\ Heard /\ Svc({"echo"}) => out = call.in
    /\ Heard /\ Svc({"tee"}) /\ remote = "ended" /\ taken # <<0, 0>> =>
          \A i \in {1, 2} : Copied(i, Len(call.text[i]))

\* A client that leaves takes the handler with it, and ssh, once it is waited
\* for.  What it does not end: a wait for a delimiter from an ssh, or what it left
\* behind, that does not send it, a service behind russtee that goes on; and a
\* thread that was not made does not begin.
Held == pc \in {"delim1", "delim2", "relay"} /\ Piped
LeavingEnds ==
    /\ ~Here ~> pc \in {"gone", "lost"} \/ Held
    /\ ~Here /\ pc = "waiting" ~> remote # "run"
=============================================================================
