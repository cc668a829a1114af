------------------------------ MODULE RussProc ------------------------------
(***************************************************************************)
(* russproc: processes listed, reported on, waited for and signalled, on a *)
(* machine where processes end and start, and identifiers are used again,  *)
(* while a handler looks from one to the next in /proc.                    *)
(***************************************************************************)
EXTENDS RussSession

CONSTANTS
    Pids, Users, Root, NoUser,
    Group,      \* Group[u]: the group of the processes of user u
    Caller,     \* the user the handler runs for
    Others,     \* the owners of the entries of /proc that are not processes
    MaxBirths,  \* a bound: processes that start
    Late        \* the status of a wait that has taken too long

ASSUME ProcAssumption ==
    /\ Pids \subseteq Nat \ {0} /\ IsFiniteSet(Pids) /\ MaxBirths \in Nat
    /\ {Root, Caller} \subseteq Users /\ NoUser \notin Users
    /\ Others \in Seq({Root, Caller})
    /\ Late \in Statuses \ {Success, Failure}

VARIABLES
    procs,      \* procs[p]: who owns process p, NoUser if there is none, and how
                \* often the identifier was used
    births,     \* how many processes started
    lived,      \* history: the processes there have been, <<p, owner, born>>
    first,      \* the processes when the handler first looked
    at,         \* the entry of /proc it has come to
    found,      \* the process it looks at
    owner,      \* whose it is, by stat()
    due,        \* the deadline of a wait: "never"; "later", then "past"; "at once"
    hit         \* the signal that was sent, <<p, signal>>

procVars == <<procs, births, lived, first, at, found, owner, due, hit>>

Lives(p) == procs[p].owner # NoUser
Now == {<<p, procs[p].owner, procs[p].born>> : p \in {q \in Pids : Lives(q)}}
NoHit == <<0, "none">>
ProcServices == {"list", "status", "pidstatus", "wait", "kill"}

\* What "%d" makes of a name in a path that is not a number is left as it was,
\* uninitialised: any identifier.
Named == IF call.pid \in Pids THEN {call.pid} ELSE Pids

ProcInit ==
    /\ procs = [p \in Pids |-> [owner |-> IF Svc(ProcServices) THEN call.procs[p] ELSE NoUser, born |-> 0]]
    /\ births = 0 /\ lived = Now /\ first = procs
    /\ at = -Len(Others) /\ found = 0 /\ owner = NoUser /\ due = "never" /\ hit = NoHit

-----------------------------------------------------------------------------
(* The machine.                                                            *)

Ends(p) == procs' = [procs EXCEPT ![p].owner = NoUser]
ProcEnds(p) ==
    /\ pc # "gone" /\ Lives(p) /\ Ends(p)
    /\ UNCHANGED <<births, lived, first, at, found, owner, due, hit, sessionVars>>
ProcStarts(p, u) ==
    /\ pc # "gone" /\ Svc(ProcServices) /\ ~Lives(p) /\ births < MaxBirths
    /\ procs' = [procs EXCEPT ![p] = [owner |-> u, born |-> @.born + 1]]
    /\ births' = births + 1
    /\ lived' = lived \cup {<<p, u, procs[p].born + 1>>}
    /\ UNCHANGED <<first, at, found, owner, due, hit, sessionVars>>
Expire ==
    /\ pc = "wait" /\ due = "later" /\ due' = "past"
    /\ UNCHANGED <<procs, births, lived, first, at, found, owner, hit, sessionVars>>

-----------------------------------------------------------------------------
(* Lists (/g, /p, /u) and reports (/g/<gid>/status, /n/status,             *)
(* /u/<uid>/status).                                                       *)

still == <<client, answer, in, shut>>
Asked(u) ==
    CASE call.of = "u" -> u = call.who
      [] call.of = "g" -> Group[u] = call.who
      [] OTHER -> TRUE

OpenDir ==
    /\ Handler({"list", "status"})
    /\ first' = procs /\ Goto("read")
    /\ IF Svc({"status"}) THEN found' \in Pids ELSE UNCHANGED found
    /\ UNCHANGED <<procs, births, lived, at, owner, due, hit, said, out, faults, still>>
OpenDirFails ==
    /\ Handler({"list", "status"}) /\ Fault /\ End(Failure)
    /\ UNCHANGED <<procVars, out, still>>

\* The entries of /proc that are not processes come first.  They are root's, but
\* for "self" and "thread-self", which lead to the handler itself.  A list leaves
\* them out, a report does not: sscanf() returns 0 for them, not -1, and the
\* identifier, not initialised, stays what it happens to be.
ReadOther ==
    /\ pc = "read" /\ at < 0 /\ at' = at + 1
    /\ IF Svc({"status"}) /\ Asked(Others[-at]) THEN Goto("stat") ELSE UNCHANGED pc
    /\ UNCHANGED <<procs, births, lived, first, found, owner, due, hit, said, out, faults, still>>

Entries == {p \in Pids : p > at /\ Lives(p)}
Listed(p) ==
    CASE call.of = "p" -> <<p, procs[p].owner, procs[p].born>>
      [] call.of = "u" -> procs[p].owner
      [] call.of = "g" -> Group[procs[p].owner]
ReadList ==
    /\ pc = "read" /\ Svc({"list"}) /\ at >= 0 /\ Entries # {}
    /\ at' = Min(Entries) /\ WriteThen(Listed(at'), UNCHANGED <<pc, said>>)
    /\ UNCHANGED <<procs, births, lived, first, found, owner, due, hit, faults, still>>
ReadStatus ==
    /\ pc = "read" /\ Svc({"status"}) /\ at >= 0 /\ Entries # {}
    /\ at' = Min(Entries)
    /\ IF Asked(procs[at'].owner) THEN found' = at' /\ Goto("stat") ELSE UNCHANGED <<found, pc>>
    /\ UNCHANGED <<procs, births, lived, first, owner, due, hit, said, out, faults, still>>
\* Mutant: the handler ends as soon as it has written.
CloseDirMute ==
    /\ pc = "read" /\ at >= 0 /\ Entries = {}
    /\ Die
    /\ UNCHANGED <<procVars, out, faults, still>>
CloseDir ==
    /\ pc = "read" /\ at >= 0 /\ Entries = {}
    /\ End(Success)
    /\ UNCHANGED <<procVars, out, faults, still>>

\* linux_get_pid_info(): stat(), for the owner, then the files of the process.
PidStatus ==
    /\ Handler({"pidstatus"})
    /\ found' \in Named /\ first' = procs /\ Goto("stat")
    /\ UNCHANGED <<procs, births, lived, at, owner, due, hit, said, out, faults, still>>
\* Mutant: an entry that cannot be read is taken for the last.
NoInfoBreak == End(IF Svc({"status"}) THEN Success ELSE Failure)
NoInfo == IF Svc({"status"}) THEN Goto("read") /\ UNCHANGED said ELSE End(Failure)
Stat ==
    /\ pc = "stat"
    /\ IF Lives(found) THEN owner' = procs[found].owner /\ Goto("open") /\ UNCHANGED said
       ELSE NoInfo /\ UNCHANGED owner
    /\ UNCHANGED <<procs, births, lived, first, at, found, due, hit, out, faults, still>>
\* The line has, as history, the entry it is written for.
OpenInfo ==
    /\ pc = "open" /\ Lives(found)
    /\ WriteThen(<<found, owner, procs[found].born, at>>,
             IF Svc({"status"}) THEN Goto("read") /\ UNCHANGED said ELSE End(Success))
    /\ UNCHANGED <<procVars, faults, still>>
\* A process that ended since: a file that was open cannot be read; one that was
\* not cannot be opened, and fclose() is called with NULL.
InfoGone ==
    /\ pc = "open" /\ ~Lives(found)
    /\ NoInfo \/ Die
    /\ UNCHANGED <<procVars, out, faults, still>>

-----------------------------------------------------------------------------
(* /p/<pid>/kill and /p/<pid>/wait.                                        *)

\* Signals are given negative.  A word leaves the default; so does nothing, for
\* which the client is told of a failure, and the signal is sent all the same.
Signal == IF call.sig \in {"none", "word", "empty"} THEN "TERM" ELSE call.sig
Kill ==
    /\ Handler({"kill"})
    /\ \E p \in Named :
          IF Lives(p) /\ Signal # "positive" /\ Caller \in {Root, procs[p].owner}
          THEN /\ hit' = <<p, Signal>>
               /\ Ends(p) \/ (Signal = "TERM" /\ UNCHANGED procs)
               /\ End(IF call.sig = "empty" THEN Failure ELSE Success)
          ELSE End(Failure) /\ UNCHANGED <<hit, procs>>
    /\ UNCHANGED <<births, lived, first, at, found, owner, due, out, faults, still>>

\* Without arguments the timeout is not initialised; with one, sscanf() reads
\* from NULL.
Wait ==
    /\ Handler({"wait"})
    /\ IF call.args = 1 THEN Die /\ UNCHANGED <<found, first, due>>
       ELSE /\ due' \in IF call.args = 0 THEN {"never", "later", "at once"} ELSE {call.due}
            /\ first' = procs
            /\ found' \in Named
            /\ IF Lives(found') THEN Goto("wait") /\ UNCHANGED said ELSE End(Failure)
    /\ UNCHANGED <<procs, births, lived, at, owner, hit, out, faults, still>>
\* Of the same user, and so of the same group.
Same == procs[found].owner = first[found].owner
\* Mutant: poll() that is interrupted is taken for one that saw the client leave.
WaitedInterrupted ==
    /\ pc = "wait"
    /\ \/ due \in {"at once", "past"} /\ End(Late)
       \/ due # "at once" /\ End(Success)
    /\ UNCHANGED <<procVars, out, faults, still>>
\* The deadline is looked at before each poll(), and not after it: the round in
\* which it passes may still see the process gone, or the client.
Waited ==
    /\ pc = "wait"
    /\ \/ due \in {"at once", "past"} /\ End(Late)
       \/ due # "at once" /\ (~Here \/ ~Same) /\ End(Success)
    /\ UNCHANGED <<procVars, out, faults, still>>
\* poll() fails.
WaitFails ==
    /\ pc = "wait" /\ Fault /\ End(Failure)
    /\ UNCHANGED <<procVars, out, still>>

Machine == Expire \/ \E p \in Pids : ProcEnds(p) \/ \E u \in Users : ProcStarts(p, u)
ProcStep ==
    \/ OpenDir \/ ReadOther \/ ReadList \/ ReadStatus \/ CloseDir
    \/ PidStatus \/ Stat \/ OpenInfo \/ InfoGone \/ Kill \/ Wait \/ Waited
ProcFault == OpenDirFails \/ WaitFails
=============================================================================
