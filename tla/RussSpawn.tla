----------------------------- MODULE RussSpawn -----------------------------
(***************************************************************************)
(* A server that is started for one dial: the caller dials a configuration *)
(* file (russ_dialv() of cconn.c, russ_ruspawn() of start.c), the launcher *)
(* it runs (ruspawn.c, russ_start()) sets up and announces an address      *)
(* (RussAnnounce) and leaves two processes, the reaper and its child the   *)
(* server (svr-fork.c), then prints the address and ends.                  *)
(*                                                                         *)
(* Spawn s is a caller, its launcher, reaper and server; the socket has    *)
(* the name of the spawn.  All spawns announce at one address when the     *)
(* configuration gives it; an address that is made up is one spawn's own,  *)
(* and then only one spawn takes place.                                    *)
(***************************************************************************)
EXTENDS RussAnnounce, FiniteSets

\* Configurations: whether the address is fixed, whether the server is for one
\* accept, how many directories are made, whether the caller is in the process
\* group of the launcher; and, a bound, how many calls of the kernel fail.
CONSTANT Confs

ASSUME SpawnAssumption ==
    Confs \subseteq [fixed : BOOLEAN, once : BOOLEAN, dirs : Nat, group : BOOLEAN, faults : Nat]

VARIABLES
    conf,   \* the configuration
    kpc,    \* kpc[s]: where the caller is
    at,     \* at[s]: the server the caller connected to
    lpc,    \* lpc[s]: where the launcher is
    rpc,    \* rpc[s]: where the reaper is
    spc,    \* spc[s]: where the server is
    holds,  \* holds[s]: the processes that have the listen socket open
    tmp,    \* tmp[s]: the file the configuration is passed in exists
    hit,    \* hit[s]: history: the reaper was sent a signal it can handle
    faults  \* how many calls failed, at most conf.faults

procs == <<kpc, at, lpc, rpc, spc, holds, tmp, hit>>
state == <<procs, faults, avars>>
vars == <<conf, state>>

Init ==
    /\ conf \in Confs
    /\ AnnounceInit
    /\ ~conf.fixed => file = NoFile
    /\ kpc = [s \in Servers |-> "idle"] /\ at = [s \in Servers |-> Old]
    /\ lpc = [s \in Servers |-> "none"]
    /\ rpc = [s \in Servers |-> "none"]
    /\ spc = [s \in Servers |-> "none"]
    /\ holds = [s \in Servers |-> {}]
    /\ tmp = [s \in Servers |-> FALSE]
    /\ hit = [s \in Servers |-> FALSE]
    /\ faults = 0

Fault == faults < conf.faults /\ faults' = faults + 1

LauncherEnds == {"done", "failed", "killed"}
ReaperLives(s) == rpc[s] \in {"forked", "unarmed", "armed", "remove"}
ServerLives(s) == spc[s] \in {"prep", "conf", "run", "ending"}

\* The processes of a set close the listen socket of s, by exit or by close():
\* it listens as long as another one has it.
CloseLis(s, ps) ==
    /\ holds' = [holds EXCEPT ![s] = @ \ ps]
    /\ listens' = IF holds[s] \ ps = {} THEN listens \ {s} ELSE listens

-----------------------------------------------------------------------------
(* The caller: russ_dialv() of a configuration file, russ_ruspawn().       *)

Caller(s, from, to) == kpc[s] = from /\ kpc' = [kpc EXCEPT ![s] = to]

\* pipe(), fork(), execlp() of ruspawn.
Launch(s) ==
    /\ conf.fixed \/ \A t \in Servers : lpc[t] = "none"
    /\ Caller(s, "idle", "wait")
    /\ lpc' = [lpc EXCEPT ![s] = "settings"]
    /\ UNCHANGED <<at, rpc, spc, holds, tmp, hit, faults, avars>>

LaunchFail(s) ==
    /\ Caller(s, "idle", "failed") /\ Fault
    /\ UNCHANGED <<at, lpc, rpc, spc, holds, tmp, hit, avars>>

\* waitpid() for the launcher, then one read(): the address, or nothing, and the
\* address "" is dialed, which cannot be connected to.
ReadAddr(s) ==
    /\ lpc[s] \in LauncherEnds
    /\ Caller(s, "wait", IF lpc[s] = "done" THEN "dial" ELSE "failed")
    /\ UNCHANGED <<at, lpc, rpc, spc, holds, tmp, hit, faults, avars>>

\* russ_connectunix_deadline(): the connection waits for its accept.
Connect(s) ==
    /\ Answers /\ Allowed
    /\ Caller(s, "dial", "queued")
    /\ at' = [at EXCEPT ![s] = file.sock]
    /\ UNCHANGED <<lpc, rpc, spc, holds, tmp, hit, faults, avars>>

ConnectFail(s) ==
    /\ ~(Answers /\ Allowed)
    /\ Caller(s, "dial", "failed")
    /\ UNCHANGED <<at, lpc, rpc, spc, holds, tmp, hit, faults, avars>>

\* Nobody has the listen socket any more.
Reset(s) ==
    /\ kpc[s] = "queued" /\ at[s] \notin listens
    /\ Caller(s, "queued", "failed")
    /\ UNCHANGED <<at, lpc, rpc, spc, holds, tmp, hit, faults, avars>>

-----------------------------------------------------------------------------
(* The launcher: russ_start() until it returns.                            *)

LStep(s, from, to) == lpc[s] = from /\ lpc' = [lpc EXCEPT ![s] = to]

\* An address is given, or a file is made to reserve one.
Reserve(s) ==
    /\ LStep(s, "settings", "setup")
    /\ file' = IF conf.fixed THEN file ELSE File(Old, "open")
    /\ UNCHANGED <<kpc, at, rpc, spc, holds, tmp, hit, faults, apc, listens, deaths>>

\* No file can be made, or the launcher program is not found.
ReserveFail(s) ==
    /\ LStep(s, "settings", "failed") /\ Fault
    /\ UNCHANGED <<kpc, at, rpc, spc, holds, tmp, hit, avars>>

\* _russ_start_mkdirs() hands qsort() the wrong array: with two names it follows
\* a null pointer.
MkdirsReturns == conf.dirs < 2

\* User, group, umask, directory, access to the program, then directories, limits
\* and environment.
Setup(s) ==
    /\ MkdirsReturns
    /\ LStep(s, "setup", "announce")
    /\ AStep(s, "bind")
    /\ UNCHANGED <<kpc, at, rpc, spc, holds, tmp, hit, faults, file, listens, deaths>>

\* One of them fails, or the launcher crashes: a reserved file stays.
SetupFail(s) ==
    /\ \/ LStep(s, "setup", "failed") /\ MkdirsReturns /\ Fault
       \/ LStep(s, "setup", "killed") /\ ~MkdirsReturns /\ UNCHANGED faults
    /\ UNCHANGED <<kpc, at, rpc, spc, holds, tmp, hit, avars>>

\* russ_announce(): step by step with other launchers and reapers between.
AnnounceCall(s) ==
    /\ lpc[s] = "announce"
    /\ Announce(s)
    /\ holds' = [holds EXCEPT ![s] = IF s \in listens' THEN {"launcher"} ELSE {}]
    /\ UNCHANGED <<kpc, at, lpc, rpc, spc, tmp, hit, faults>>

\* One of its calls fails: the launcher has closed the socket.
AnnounceCallFail(s) ==
    /\ lpc[s] = "announce"
    /\ AnnounceFail(s) /\ Fault
    /\ holds' = [holds EXCEPT ![s] = {}]
    /\ UNCHANGED <<kpc, at, lpc, rpc, spc, tmp, hit>>

Announced(s) ==
    /\ \/ apc[s] = "up" /\ LStep(s, "announce", "fork")
       \/ apc[s] \in {"lost", "failed"} /\ LStep(s, "announce", "failed")
    /\ UNCHANGED <<kpc, at, rpc, spc, holds, tmp, hit, faults, avars>>

ForkReaper(s) ==
    /\ LStep(s, "fork", "tell")
    /\ rpc' = [rpc EXCEPT ![s] = "forked"]
    /\ holds' = [holds EXCEPT ![s] = @ \cup {"reaper"}]
    /\ UNCHANGED <<kpc, at, spc, tmp, hit, faults, avars>>

\* The launcher goes on as it does with a reaper, whose pid is then -1.
ForkReaperFail(s) ==
    /\ LStep(s, "fork", "tell") /\ Fault
    /\ UNCHANGED <<kpc, at, rpc, spc, holds, tmp, hit, avars>>

\* The listen socket is closed, the address printed.
Tell(s) ==
    /\ LStep(s, "tell", "done")
    /\ CloseLis(s, {"launcher"})
    /\ UNCHANGED <<kpc, at, rpc, spc, tmp, hit, faults, file, apc, deaths>>

-----------------------------------------------------------------------------
(* The reaper.                                                             *)

RStep(s, from, to) == rpc[s] = from /\ rpc' = [rpc EXCEPT ![s] = to]

\* The null device for descriptors 0 to 2, then the second fork.
ForkServer(s) ==
    /\ RStep(s, "forked", "unarmed")
    /\ spc' = [spc EXCEPT ![s] = "prep"]
    /\ holds' = [holds EXCEPT ![s] = @ \cup {"server"}]
    /\ UNCHANGED <<kpc, at, lpc, tmp, hit, faults, avars>>

ForkServerFail(s) ==
    /\ RStep(s, "forked", "unarmed") /\ Fault
    /\ UNCHANGED <<kpc, at, lpc, spc, holds, tmp, hit, avars>>

\* The listen socket is closed and the signal handlers are set.
Arm(s) ==
    /\ RStep(s, "unarmed", "armed")
    /\ CloseLis(s, {"reaper"})
    /\ UNCHANGED <<kpc, at, lpc, spc, tmp, hit, faults, file, apc, deaths>>

\* Mutant: the reaper looks for the end of the server (WNOHANG) instead of waiting.
ReapAtOnce(s) ==
    /\ RStep(s, "armed", "remove")
    /\ UNCHANGED <<kpc, at, lpc, spc, holds, tmp, hit, faults, avars>>
\* waitpid() of the server, or of -1, which fails.
Reap(s) ==
    /\ ~ServerLives(s)
    /\ RStep(s, "armed", "remove")
    /\ UNCHANGED <<kpc, at, lpc, spc, holds, tmp, hit, faults, avars>>

\* Mutant: the reaper forgets the file.
RemoveNothing(s) ==
    /\ RStep(s, "remove", "exited")
    /\ UNCHANGED <<kpc, at, lpc, spc, holds, tmp, hit, faults, avars>>
\* remove() of whatever is at the address by now, exit().
Remove(s) ==
    /\ RStep(s, "remove", "exited")
    /\ file' = NoFile
    /\ UNCHANGED <<kpc, at, lpc, spc, holds, tmp, hit, faults, apc, listens, deaths>>

-----------------------------------------------------------------------------
(* The server, from the second fork on.                                    *)

SStep(s, from, to) == spc[s] = from /\ spc' = [spc EXCEPT ![s] = to]

\* The configuration is written to a file.
WriteConf(s) ==
    /\ SStep(s, "prep", "conf")
    /\ tmp' = [tmp EXCEPT ![s] = TRUE]
    /\ UNCHANGED <<kpc, at, lpc, rpc, holds, hit, faults, avars>>

\* It is opened and removed; execv().
ExecServer(s) ==
    /\ SStep(s, "conf", "run")
    /\ tmp' = [tmp EXCEPT ![s] = FALSE]
    /\ UNCHANGED <<kpc, at, lpc, rpc, holds, hit, faults, avars>>

\* russ_start() returns in the server's process, and its main() ends it.
ServerFail(s) ==
    /\ SStep(s, "prep", "gone") \/ SStep(s, "conf", "gone")
    /\ Fault
    /\ tmp' = [tmp EXCEPT ![s] = FALSE]
    /\ CloseLis(s, {"server"})
    /\ UNCHANGED <<kpc, at, lpc, rpc, hit, file, apc, deaths>>

\* Mutant: the process of the connection keeps the listen socket, and nobody accepts
\* from it.
AcceptKeeps(s, c) ==
    /\ spc[s] = "run" /\ at[c] = s
    /\ Caller(c, "queued", "served")
    /\ IF conf.once
       THEN /\ SStep(s, "run", "ending")
            /\ holds' = [holds EXCEPT ![s] = (@ \ {"server"}) \cup {"handler"}]
            /\ UNCHANGED listens
       ELSE UNCHANGED <<spc, holds, listens>>
    /\ UNCHANGED <<at, lpc, rpc, tmp, hit, faults, file, apc, deaths>>
\* russ_svr_loop_fork(): a connection is accepted and gets a process of its own
\* (RussConn); with closeonaccept the listen socket is closed before the fork, and
\* the loop ends after it.
Accept(s, c) ==
    /\ spc[s] = "run" /\ at[c] = s
    /\ Caller(c, "queued", "served")
    /\ IF conf.once THEN SStep(s, "run", "ending") /\ CloseLis(s, {"server"})
       ELSE UNCHANGED <<spc, holds, listens>>
    /\ UNCHANGED <<at, lpc, rpc, tmp, hit, faults, file, apc, deaths>>

\* Mutant: a server for one accept waits for it without end.
AcceptForever(s) == FALSE /\ UNCHANGED vars
\* accepttimeout: the socket is closed, and a second later the loop ends.
AcceptTimeout(s) ==
    /\ conf.once
    /\ SStep(s, "run", "ending")
    /\ CloseLis(s, {"server"})
    /\ UNCHANGED <<kpc, at, lpc, rpc, tmp, hit, faults, file, apc, deaths>>

\* The loop has ended, and main() with it: until then the server lives and refuses
\* who dials it.
ServerEnds(s) ==
    /\ SStep(s, "ending", "gone")
    /\ UNCHANGED <<kpc, at, lpc, rpc, holds, tmp, hit, faults, avars>>

-----------------------------------------------------------------------------
(* Signals and deaths.                                                     *)

Died == deaths < MaxDeaths /\ deaths' = deaths + 1

\* __reap_sigh(): SIGTERM for the process group, the reaper's handler set.
GroupKill(s) ==
    /\ rpc[s] \in {"armed", "remove"}
    /\ spc' = [spc EXCEPT ![s] = IF ServerLives(s) THEN "gone" ELSE @]
    /\ lpc' = [lpc EXCEPT ![s] = IF @ \in LauncherEnds THEN @ ELSE "killed"]
    /\ kpc' = [kpc EXCEPT ![s] = IF conf.group /\ @ \in {"wait", "dial", "queued"} THEN "killed" ELSE @]
    /\ CloseLis(s, {"server", "launcher"})
    /\ UNCHANGED rpc

\* HUP, INT, TERM or QUIT for the reaper: before it has set its handlers that
\* is its end.
SignalReaper(s) ==
    /\ ReaperLives(s) /\ Died
    /\ hit' = [hit EXCEPT ![s] = TRUE]
    /\ \/ GroupKill(s)
       \/ /\ rpc[s] \in {"forked", "unarmed"}
          /\ rpc' = [rpc EXCEPT ![s] = "killed"]
          /\ CloseLis(s, {"reaper"})
          /\ UNCHANGED <<kpc, lpc, spc>>
    /\ UNCHANGED <<at, tmp, faults, file, apc>>

KillReaper(s) ==
    /\ ReaperLives(s) /\ Died
    /\ rpc' = [rpc EXCEPT ![s] = "killed"]
    /\ CloseLis(s, {"reaper"})
    /\ UNCHANGED <<kpc, at, lpc, spc, tmp, hit, faults, file, apc>>

\* A file the configuration is passed in stays.
KillServer(s) ==
    /\ ServerLives(s) /\ Died
    /\ spc' = [spc EXCEPT ![s] = "gone"]
    /\ CloseLis(s, {"server"})
    /\ UNCHANGED <<kpc, at, lpc, rpc, tmp, hit, faults, file, apc>>

KillLauncher(s) ==
    /\ lpc[s] \notin LauncherEnds \cup {"none"} /\ Died
    /\ lpc' = [lpc EXCEPT ![s] = "killed"]
    /\ CloseLis(s, {"launcher"})
    /\ UNCHANGED <<kpc, at, rpc, spc, tmp, hit, faults, file, apc>>

KillCaller(s) ==
    /\ kpc[s] \in {"wait", "dial", "queued"} /\ Died
    /\ kpc' = [kpc EXCEPT ![s] = "killed"]
    /\ UNCHANGED <<at, lpc, rpc, spc, holds, tmp, hit, faults, file, apc, listens>>

-----------------------------------------------------------------------------

CallerStep(s) == ReadAddr(s) \/ Connect(s) \/ ConnectFail(s) \/ Reset(s)
LauncherStep(s) ==
    \/ Reserve(s) \/ Setup(s) \/ SetupFail(s) \/ AnnounceCall(s) \/ Announced(s)
    \/ ForkReaper(s) \/ Tell(s)
ReaperStep(s) == ForkServer(s) \/ Arm(s) \/ Reap(s) \/ Remove(s)
ServerStep(s) ==
    \/ WriteConf(s) \/ ExecServer(s) \/ AcceptTimeout(s) \/ ServerEnds(s)
    \/ \E c \in Servers : Accept(s, c)

Failure(s) ==
    \/ ReserveFail(s) \/ AnnounceCallFail(s) \/ ForkReaperFail(s)
    \/ ForkServerFail(s) \/ ServerFail(s)
Kill(s) == SignalReaper(s) \/ KillReaper(s) \/ KillServer(s) \/ KillLauncher(s) \/ KillCaller(s)

Next ==
    /\ \E s \in Servers :
          \/ Launch(s) \/ LaunchFail(s)
          \/ CallerStep(s) \/ LauncherStep(s) \/ ReaperStep(s) \/ ServerStep(s)
          \/ Failure(s) \/ Kill(s)
    /\ UNCHANGED conf

Spec == Init /\ [][Next]_vars

\* Every process does what it can do: none of them waits for a person.
Fairness == \A s \in Servers :
    /\ WF_state(CallerStep(s)) /\ WF_state(LauncherStep(s))
    /\ WF_state(ReaperStep(s)) /\ WF_state(ServerStep(s))

FairSpec == Spec /\ Fairness

-----------------------------------------------------------------------------
(* Properties.                                                             *)

\* The address still leads to what spawn s made: its socket, or the file that
\* reserved the address.
Left(s) == file # NoFile /\ (file.sock = s \/ (~conf.fixed /\ file.sock = Old))
Gone(s) ==
    /\ lpc[s] \in LauncherEnds /\ rpc[s] \in {"none", "exited", "killed"}
    /\ ~ServerLives(s)

\* Of a spawn that is over a file is left only if there was no reaper, or it was
\* killed: no failure of the server, before or after its exec, leaves one
\* (start.c:654), and no file with the configuration outlives a server that was
\* not killed itself.
OnlyWithoutReaper ==
    \A s \in Servers :
        Gone(s) => /\ Left(s) => rpc[s] \in {"none", "killed"}
                   /\ tmp[s] => deaths > 0

\* The caller that is told an address is not refused there although the server may
\* not even be running: the socket listens before the fork (start.c:608), and
\* whoever has it open, it listens until the server has ended its loop.
ToldAnswers ==
    \A s \in Servers :
        lpc[s] = "done" /\ ~conf.fixed /\ (rpc[s] = "forked" \/ spc[s] \in {"prep", "conf", "run"})
            => Reachable(s)

\* A spawn comes to its end, and nothing of it is left: when the server ends by
\* itself (cconn.c:257 asks for one accept and a timeout), when it is killed, or
\* when the reaper gets a signal that it can handle.  Only a reaper that is killed,
\* or that could not be made, leaves something behind.
SpawnCleans ==
    \A s \in Servers :
        (rpc[s] = "armed" /\ (conf.once \/ hit[s] \/ ~ServerLives(s)))
            ~> (rpc[s] = "killed" \/ (Gone(s) /\ ~Left(s)))

\* The dial comes to an end, whoever is killed and whatever fails: the launcher ends
\* whatever it finds at the address, and the caller is not left in a queue nobody
\* accepts from, the one of a server that was for one accept and took it from
\* another included (svr-fork.c:54).
CallerEnds == \A s \in Servers : kpc[s] = "wait" ~> kpc[s] \in {"served", "failed", "killed"}
=============================================================================
