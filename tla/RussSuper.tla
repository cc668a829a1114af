----------------------------- MODULE RussSuper -----------------------------
(***************************************************************************)
(* The super server (russsuper_server.c): handlers that pass a request on   *)
(* to a server of the configuration and start that server when it cannot be *)
(* dialed.  Each handler is a process; a lock directory keeps them from     *)
(* starting the same server at the same time; what they start announces     *)
(* itself (RussAnnounce) at one address.                                    *)
(***************************************************************************)
EXTENDS Naturals, FiniteSets, RussAnnounce

CONSTANTS
    Handlers,  \* requests for one server
    Tries,     \* Tries[h]: the dials handler h makes
    Nobody

\* A handler starts at most one server at each of its tries.
ASSUME SuperAssumption ==
    /\ Tries \in [Handlers -> Nat \ {0}]
    /\ Servers = UNION {{h} \X (1..Tries[h]) : h \in Handlers}
    /\ Nobody \notin Handlers

VARIABLES
    pc,      \* pc[h]: where the handler is
    cnt,     \* cnt[h]: tries left
    lock     \* the lock directory: the handler that made it

vars == <<pc, cnt, lock, avars>>

Init ==
    /\ AnnounceInit
    /\ pc = [h \in Handlers |-> "dial"]
    /\ cnt = Tries
    /\ lock = Nobody

Goto(h, l) == pc' = [pc EXCEPT ![h] = l]

\* The dial finds a server that listens at an address it may connect to, and
\* gets its descriptors; they are sent on to the client, or cannot be.
DialOk(h) ==
    /\ pc[h] = "dial" /\ cnt[h] > 0
    /\ Answers /\ file.mode = "open"
    /\ \E l \in {"spliced", "failed"} : Goto(h, l)
    /\ UNCHANGED <<cnt, lock, avars>>

\* Mutant: one try too many.
DialFailZero(h) ==
    /\ pc[h] = "dial" /\ cnt[h] >= 0
    /\ Goto(h, "start")
    /\ UNCHANGED <<cnt, lock, avars>>

\* The dial fails, and may do so by its deadline in any case.
DialFail(h) ==
    /\ pc[h] = "dial" /\ cnt[h] > 0
    /\ Goto(h, "start")
    /\ UNCHANGED <<cnt, lock, avars>>

GiveUp(h) ==
    /\ pc[h] = "dial" /\ cnt[h] = 0
    /\ Goto(h, "failed")
    /\ UNCHANGED <<cnt, lock, avars>>

\* The user of the request cannot be switched to, or the configuration of the
\* server cannot be read.
Trouble(h) ==
    /\ \/ pc[h] = "dial" /\ cnt[h] > 0 /\ Goto(h, "failed")
       \/ pc[h] = "start" /\ Goto(h, "sleep")
    /\ UNCHANGED <<cnt, lock, avars>>

\* Mutant: mkdir() of a directory that exists is taken for success.
LockAnyway(h) ==
    /\ pc[h] = "start"
    /\ lock' = h
    /\ Goto(h, "fork")
    /\ UNCHANGED <<cnt, avars>>

\* lock_file(): mkdir() of the lock directory succeeds.
Lock(h) ==
    /\ pc[h] = "start"
    /\ lock = Nobody
    /\ lock' = h
    /\ Goto(h, "fork")
    /\ UNCHANGED <<cnt, avars>>

\* Mutant: lock_file() tries for ever.
LockForever(h) == FALSE /\ UNCHANGED vars
\* The last of the tries fails.
LockTimeout(h) ==
    /\ pc[h] = "start"
    /\ lock # Nobody
    /\ Goto(h, "sleep")
    /\ UNCHANGED <<cnt, lock, avars>>

\* The two forks: a server is on its way, or a fork failed, or the process
\* between was killed.
Fork(h) ==
    /\ pc[h] = "fork"
    /\ Goto(h, "unlock")
    /\ \/ AStep(<<h, cnt[h]>>, "start")
       \/ UNCHANGED apc
    /\ UNCHANGED <<cnt, lock, file, listens, deaths>>

\* Mutant: the lock is not removed.
LockKept(h) ==
    /\ pc[h] = "unlock"
    /\ Goto(h, "sleep")
    /\ UNCHANGED <<cnt, lock, avars>>

\* The process between has ended: the lock is removed, while the server may
\* not even have begun to announce.
Unlock(h) ==
    /\ pc[h] = "unlock"
    /\ lock' = Nobody
    /\ Goto(h, "sleep")
    /\ UNCHANGED <<cnt, avars>>

Sleep(h) ==
    /\ pc[h] = "sleep"
    /\ cnt' = [cnt EXCEPT ![h] = @ - 1]
    /\ Goto(h, "dial")
    /\ UNCHANGED <<lock, avars>>

\* A handler is killed wherever it is; a lock it made stays.
Kill(h) ==
    /\ pc[h] \notin {"spliced", "failed", "killed"}
    /\ deaths < MaxDeaths
    /\ deaths' = deaths + 1
    /\ Goto(h, "killed")
    /\ UNCHANGED <<cnt, lock, file, apc, listens>>

Handle(h) ==
    \/ DialOk(h) \/ DialFail(h) \/ GiveUp(h) \/ Lock(h) \/ LockTimeout(h)
    \/ Fork(h) \/ Unlock(h) \/ Sleep(h)

\* russ_start() in the new process: it comes to the announce, or does not.
Start(s) ==
    /\ apc[s] = "start"
    /\ \E l \in {"bind", "lost"} : AStep(s, l)
    /\ UNCHANGED <<file, listens, deaths>>

Serve(s) == (Start(s) \/ Announce(s) \/ AnnounceFail(s) \/ Die(s)) /\ UNCHANGED <<pc, cnt, lock>>

Next ==
    \/ \E h \in Handlers : Handle(h) \/ Trouble(h) \/ Kill(h)
    \/ \E s \in Servers : Serve(s)

Spec == Init /\ [][Next]_vars

Fairness ==
    /\ \A h \in Handlers : WF_vars(Handle(h))
    /\ \A s \in Servers : WF_vars((Start(s) \/ Announce(s)) /\ UNCHANGED <<pc, cnt, lock>>)

FairSpec == Spec /\ Fairness

-----------------------------------------------------------------------------
(* Properties.                                                             *)

Announcing == {"bind", "probe", "unlink", "rebind", "chmod0", "chown", "listen", "chmod"}

\* Every variable has the type its declaration states.
TypeOK ==
    /\ pc \in [Handlers -> {"dial", "start", "fork", "unlock", "sleep", "spliced", "failed", "killed"}]
    /\ cnt \in [Handlers -> Nat]
    /\ \A h \in Handlers : cnt[h] <= Tries[h]
    /\ lock \in Handlers \cup {Nobody}
    /\ file \in Files \cup {NoFile}
    /\ apc \in [Servers -> Announcing \cup {"none", "start", "up", "lost", "failed", "dead"}]
    /\ listens \subseteq Servers
    /\ deaths \in 0..MaxDeaths

\* The lock is held by a handler that is starting a server, by one that was
\* killed while it did, or by nobody: two handlers are never both at it, and no
\* way out of start_server() leaves the lock behind (russsuper_server.c:122).
LockHeld ==
    /\ \A h \in Handlers : pc[h] \in {"fork", "unlock"} => lock = h
    /\ lock # Nobody => pc[lock] \in {"fork", "unlock", "killed"}

\* However many servers announce at once, and whichever of them removes the file
\* of another, the address is not left dead: when all of them are done, and none
\* was killed or failed half-way, one of them is reachable (russ_announce()).  One
\* that fails between its chmod() calls does leave the address dead: a file of mode
\* 0 that only root can connect to and find refused (socket.c:137).
AddressLive ==
    LET done == \A s \in Servers : apc[s] \notin Announcing
        some == \E s \in Servers : apc[s] = "up"
        whole == \A s \in Servers : apc[s] \notin {"dead", "failed"}
    IN  done /\ some /\ whole => \E s \in Servers : apc[s] = "up" /\ Reachable(s)

\* Every handler comes to an end, also when another one was killed with the
\* lock in its hands.
HandlerEnds == \A h \in Handlers : <>(pc[h] \in {"spliced", "failed", "killed"})

\* socket.c:90: an address that is in use is claimed only after somebody removed
\* it on purpose.  An announce never takes the address from a server that
\* listens at it.
InUseIsKept == [][\A s \in Servers : Reachable(s) /\ s \in listens' => file' # NoFile /\ file'.sock = s]_vars
=============================================================================
