-------------------------- MODULE RussSpawnProofs --------------------------
(***************************************************************************)
(* Proofs about RussSpawn and RussAnnounce, for any set of spawns and any  *)
(* configurations: of a spawn that is over its address is left only when   *)
(* there was no reaper to remove it, and an address that a caller was told *)
(* answers as long as the server is to come or lives.                      *)
(*                                                                         *)
(* A step is one spawn's: of the others it changes nothing but the file at *)
(* the address that they share, and that only when the address is fixed.   *)
(***************************************************************************)
EXTENDS RussSpawn, TLAPS

-----------------------------------------------------------------------------
(* The invariant.                                                          *)

SpawnType ==
    /\ conf \in Confs
    /\ file \in Files \cup {NoFile}
    /\ listens \subseteq Servers
    /\ deaths \in Nat
    /\ apc \in [Servers -> {"none", "bind", "probe", "unlink", "rebind", "chmod0", "chown",
                            "listen", "chmod", "up", "lost", "failed"}]
    /\ kpc \in [Servers -> {"idle", "wait", "dial", "queued", "served", "failed", "killed"}]
    /\ lpc \in [Servers -> {"none", "settings", "setup", "announce", "fork", "tell"} \cup LauncherEnds]
    /\ rpc \in [Servers -> {"none", "forked", "unarmed", "armed", "remove", "exited", "killed"}]
    /\ spc \in [Servers -> {"none", "prep", "conf", "run", "ending", "gone"}]
    /\ holds \in [Servers -> SUBSET {"launcher", "reaper", "server"}]
    /\ tmp \in [Servers -> BOOLEAN]

\* An address that is made up is one spawn's own.
Single == ~conf.fixed => \A s, t \in Servers : lpc[s] # "none" /\ lpc[t] # "none" => s = t

\* The processes of spawn s follow each other; the server has ended when the
\* reaper goes on to remove the file.
Order(s) ==
    /\ kpc[s] = "idle" => lpc[s] = "none"
    /\ lpc[s] \in {"none", "settings", "setup"} => apc[s] = "none"
    /\ lpc[s] \in {"fork", "tell", "done"} => apc[s] = "up"
    /\ rpc[s] # "none" => lpc[s] \in {"tell", "done", "killed"} /\ apc[s] = "up"
    /\ ServerLives(s) => rpc[s] \in {"unarmed", "armed", "killed"}

\* The server has the listen socket until its loop is to end.
Listening(s) == spc[s] \in {"prep", "conf", "run"}

\* The socket listens as long as a process has it, and who has it.
Socket(s) ==
    /\ lpc[s] \in {"none", "settings", "setup"} => s \notin listens
    /\ holds[s] # {} => s \in listens
    /\ lpc[s] = "announce" /\ s \in listens => "launcher" \in holds[s]
    /\ lpc[s] = "announce" /\ apc[s] \in {"chmod", "up"} => s \in listens
    /\ lpc[s] \in {"fork", "tell"} => "launcher" \in holds[s]
    /\ rpc[s] \in {"forked", "unarmed"} => "reaper" \in holds[s]
    /\ Listening(s) => "server" \in holds[s]

\* An address of its own leads to the spawn's socket from bind() until the reaper
\* removes it.
Address(s) ==
    ~conf.fixed =>
        /\ apc[s] \in {"chmod0", "chown", "listen", "chmod"} => file # NoFile /\ file.sock = s
        /\ apc[s] = "up" /\ rpc[s] # "exited" => file = File(s, "open")

\* The file is gone once the reaper removed it, and the configuration is in a file
\* only until the server is executed, unless it is killed before.
Cleaned(s) ==
    /\ rpc[s] = "exited" => ~Left(s)
    /\ tmp[s] => spc[s] = "conf" \/ deaths > 0

SpawnInv ==
    /\ SpawnType /\ Single
    /\ \A s \in Servers : Order(s) /\ Socket(s) /\ Address(s) /\ Cleaned(s)

LEMMA FileIs ==
    /\ \A t \in Servers \cup {Old} : \A m \in {"closed", "open"} :
          File(t, m) \in Files /\ File(t, m) # NoFile /\ File(t, m).sock = t
    /\ \A f \in Files : f # NoFile /\ f.sock \in Servers \cup {Old}
    /\ Old \notin Servers
BY AnnounceAssumption DEF File, Files

LEMMA SpawnInit == Init => SpawnInv
<1> SUFFICES ASSUME Init PROVE SpawnInv
  OBVIOUS
<1> USE DEF Init, AnnounceInit
<1>1. SpawnType
  BY FileIs DEF SpawnType
<1>2. Single
  BY DEF Single
<1>3. ASSUME NEW s \in Servers PROVE Order(s) /\ Socket(s) /\ Address(s) /\ Cleaned(s)
  BY <1>3 DEF Order, Socket, Address, Cleaned, ServerLives, Listening
<1> QED
  BY <1>1, <1>2, <1>3 DEF SpawnInv

-----------------------------------------------------------------------------
(* What a step of spawn s leaves of the others.                            *)

Own(s) == Order(s) /\ Socket(s) /\ Address(s) /\ Cleaned(s)

Same(t) ==
    /\ apc'[t] = apc[t] /\ lpc'[t] = lpc[t] /\ rpc'[t] = rpc[t] /\ spc'[t] = spc[t]
    /\ holds'[t] = holds[t] /\ (tmp'[t] => tmp[t]) /\ (kpc'[t] = "idle" => kpc[t] = "idle")
    /\ t \in listens' <=> t \in listens

\* The file stays, or a spawn that was launched moves it: away, to itself, to the
\* one that reserves an address that is made up, or its mode only.
Moves(s) ==
    \/ file' = file
    \/ /\ lpc[s] # "none"
       /\ file' = NoFile \/ file'.sock = s \/ ~conf.fixed \/ (file # NoFile /\ file'.sock = file.sock)

OneStep(s) ==
    /\ SpawnType' /\ Own(s)' /\ conf' = conf
    /\ \A t \in Servers \ {s} : Same(t)
    /\ Moves(s) /\ (deaths > 0 => deaths' > 0)
    /\ lpc[s] = "none" => lpc'[s] = "none" \/ conf.fixed \/ \A t \in Servers : lpc[t] = "none"

LEMMA OthersKeep ==
    ASSUME SpawnInv, NEW s \in Servers, OneStep(s), NEW t \in Servers \ {s}
    PROVE  Own(t)'
<1>1. Order(t) /\ Socket(t) /\ Address(t) /\ Cleaned(t) /\ Same(t) /\ conf' = conf /\ (deaths > 0 => deaths' > 0)
  BY DEF SpawnInv, OneStep
<1>2. Order(t)' /\ Socket(t)'
  BY <1>1 DEF Order, Socket, Same, ServerLives, Listening
<1>3. ~conf.fixed => file' = file \/ lpc[t] = "none"
  BY DEF OneStep, Moves, SpawnInv, Single
<1>4. Address(t)'
  BY <1>1, <1>3 DEF Address, Same, Order
<1>5. Cleaned(t)'
  <2>1. rpc[t] = "exited" => ~Left(t)
    BY <1>1 DEF Cleaned
  <2>2. rpc[t] = "exited" => ~Left(t)'
    <3>1. rpc[t] = "exited" /\ ~conf.fixed => file' = file
      BY <1>1, <1>3 DEF Order
    <3>2. conf.fixed => file' = file \/ file' = NoFile \/ file'.sock = s \/ (file # NoFile /\ file'.sock = file.sock)
      BY DEF OneStep, Moves
    <3> QED
      BY <1>1, <2>1, <3>1, <3>2 DEF Left
  <2> QED
    BY <1>1, <2>2 DEF Cleaned, Same
<1> QED
  BY <1>2, <1>4, <1>5 DEF Own

LEMMA StepKeeps ==
    ASSUME SpawnInv, NEW s \in Servers, OneStep(s)
    PROVE  SpawnInv'
<1>1. Single'
  <2> SUFFICES ASSUME ~conf.fixed, NEW t \in Servers, NEW u \in Servers, lpc'[t] # "none", lpc'[u] # "none"
               PROVE  t = u
    BY DEF Single, OneStep
  <2>1. \A v \in Servers \ {s} : lpc'[v] = lpc[v]
    BY DEF OneStep, Same
  <2>2. CASE \A v \in Servers : lpc[v] = "none"
    BY <2>1, <2>2
  <2>3. CASE lpc'[s] # "none" => lpc[s] # "none"
    BY <2>1, <2>3 DEF SpawnInv, Single
  <2> QED
    BY <2>2, <2>3 DEF OneStep
<1>2. \A t \in Servers : Own(t)'
  BY OthersKeep DEF OneStep
<1> QED
  BY <1>1, <1>2 DEF SpawnInv, Own, OneStep

-----------------------------------------------------------------------------
(* The steps.                                                              *)

LEMMA CallerKeeps ==
    ASSUME SpawnInv, conf' = conf, NEW s \in Servers,
           LaunchFail(s) \/ CallerStep(s) \/ KillCaller(s)
    PROVE  SpawnInv'
<1>1. /\ UNCHANGED <<file, apc, listens, lpc, rpc, spc, holds, tmp>>
      /\ \E to \in {"wait", "dial", "queued", "served", "failed", "killed"} : kpc' = [kpc EXCEPT ![s] = to]
      /\ deaths' = deaths \/ deaths' = deaths + 1
  BY DEF LaunchFail, CallerStep, Caller, ReadAddr, Connect, ConnectFail, Reset, KillCaller, avars, Died
<1>2. deaths \in Nat /\ deaths' \in Nat /\ (deaths > 0 => deaths' > 0)
  BY <1>1 DEF SpawnInv, SpawnType
<1>3. OneStep(s)
  BY <1>1, <1>2 DEF SpawnInv, OneStep, SpawnType, Own, Order, Socket, Address, Cleaned, Left, ServerLives, Listening, Same, Moves
<1> QED
  BY <1>3, StepKeeps

\* The launcher, up to the reaper.
LEMMA LauncherKeeps ==
    ASSUME SpawnInv, conf' = conf, NEW s \in Servers,
           Launch(s) \/ Reserve(s) \/ ReserveFail(s) \/ Setup(s) \/ SetupFail(s) \/ Announced(s)
               \/ ForkReaper(s) \/ ForkReaperFail(s) \/ Tell(s)
    PROVE  SpawnInv'
<1>1. SpawnType /\ Own(s)
  BY DEF SpawnInv, Own
<1> USE DEF avars, LStep, AStep, OneStep, SpawnType, Own, Same, Moves, LauncherEnds
<1>2. CASE Launch(s)
  <2>1. SpawnType'
    BY <1>1, <1>2 DEF Launch, Caller
  <2>2. Own(s)'
    BY <1>1, <1>2 DEF Launch, Caller, Order, Socket, Address, Cleaned, Left, ServerLives, Listening
  <2>3. OneStep(s)
    BY <1>1, <1>2, <2>1, <2>2 DEF Launch, Caller, Order
  <2> QED
    BY <2>3, StepKeeps
<1>3. CASE Reserve(s)
  <2>1. OneStep(s)
    BY <1>1, <1>3, FileIs DEF Reserve, Order, Socket, Address, Cleaned, Left, ServerLives, Listening
  <2> QED
    BY <2>1, StepKeeps
<1>4. CASE ReserveFail(s) \/ SetupFail(s)
  <2>1. OneStep(s)
    BY <1>1, <1>4 DEF ReserveFail, SetupFail, Order, Socket, Address, Cleaned, Left, ServerLives, Listening
  <2> QED
    BY <2>1, StepKeeps
<1>5. CASE Setup(s)
  <2>1. SpawnType'
    BY <1>1, <1>5 DEF Setup
  <2>2. Own(s)'
    BY <1>1, <1>5 DEF Setup, Order, Socket, Address, Cleaned, Left, ServerLives, Listening
  <2>3. OneStep(s)
    BY <1>1, <1>5, <2>1, <2>2 DEF Setup, Order
  <2> QED
    BY <2>3, StepKeeps
<1>6. CASE Announced(s)
  <2>1. OneStep(s)
    BY <1>1, <1>6 DEF Announced, Order, Socket, Address, Cleaned, Left, ServerLives, Listening
  <2> QED
    BY <2>1, StepKeeps
<1>7. CASE ForkReaper(s) \/ ForkReaperFail(s)
  <2>1. OneStep(s)
    BY <1>1, <1>7 DEF ForkReaper, ForkReaperFail, Order, Socket, Address, Cleaned, Left, ServerLives, Listening
  <2> QED
    BY <2>1, StepKeeps
<1>8. CASE Tell(s)
  <2>1. OneStep(s)
    BY <1>1, <1>8 DEF Tell, CloseLis, Order, Socket, Address, Cleaned, Left, ServerLives, Listening
  <2> QED
    BY <2>1, StepKeeps
<1> QED
  BY <1>2, <1>3, <1>4, <1>5, <1>6, <1>7, <1>8

\* Processes that close the socket: it listens while another has it.
LEMMA Closing ==
    ASSUME SpawnType, NEW s \in Servers, NEW ps, CloseLis(s, ps)
    PROVE  /\ holds' \in [Servers -> SUBSET {"launcher", "reaper", "server"}]
           /\ listens' \subseteq listens
           /\ holds'[s] = holds[s] \ ps
           /\ s \in listens => holds[s] \ ps = {} \/ s \in listens'
           /\ \A t \in Servers \ {s} : holds'[t] = holds[t] /\ (t \in listens' <=> t \in listens)
BY DEF SpawnType, CloseLis

LEMMA AnnounceKeeps ==
    ASSUME SpawnInv, conf' = conf, NEW s \in Servers, AnnounceCall(s) \/ AnnounceCallFail(s)
    PROVE  SpawnInv'
<1>1. SpawnType /\ Own(s) /\ lpc[s] = "announce"
  BY DEF SpawnInv, Own, AnnounceCall, AnnounceCallFail
<1>2. /\ UNCHANGED <<kpc, lpc, rpc, spc, tmp, hit, deaths>>
      /\ holds' = [holds EXCEPT ![s] = IF s \in listens' THEN {"launcher"} ELSE {}]
      /\ listens' = listens \/ listens' = listens \ {s} \/ listens' = listens \cup {s}
      /\ \E a \in {"probe", "unlink", "rebind", "chmod0", "chown", "listen", "chmod", "up", "lost", "failed"} :
            /\ apc' = [apc EXCEPT ![s] = a]
            /\ a = "chmod" => s \in listens'
            /\ a = "up" => apc[s] = "chmod" /\ listens' = listens
  <2>1. CASE AnnounceCall(s)
    BY <2>1 DEF AnnounceCall, Announce, Bind, Probe, Unlink, Rebind, ChmodZero, Chown, ChmodMode, OnFile, Listen, AStep
  <2>2. CASE AnnounceCallFail(s)
    <3>1. s \notin listens'
      BY <2>2 DEF AnnounceCallFail, AnnounceFail
    <3> QED
      BY <2>2, <3>1 DEF AnnounceCallFail, AnnounceFail, AStep
  <2> QED
    BY <2>1, <2>2
<1>3. file = NoFile \/ (file # NoFile /\ file.sock \in Servers \cup {Old} /\ file.mode \in {"closed", "open"})
  BY <1>1, AnnounceAssumption DEF SpawnType, Files
<1>4. /\ file' \in Files \cup {NoFile}
      /\ file' = file \/ file' = NoFile \/ file'.sock = s \/ (file # NoFile /\ file'.sock = file.sock)
  <2>1. CASE Bind(s) \/ Rebind(s)
    BY <1>1, <2>1, FileIs DEF Bind, Rebind, SpawnType
  <2>2. CASE Probe(s) \/ Unlink(s) \/ Listen(s)
    BY <1>1, <2>2 DEF Probe, Unlink, Listen, SpawnType
  <2>3. CASE ChmodZero(s) \/ Chown(s) \/ ChmodMode(s)
    BY <1>1, <1>3, <2>3, FileIs DEF ChmodZero, Chown, ChmodMode, OnFile, SpawnType
  <2>4. CASE AnnounceFail(s)
    BY <1>1, <2>4 DEF AnnounceFail, SpawnType
  <2> QED
    BY <2>1, <2>2, <2>3, <2>4 DEF AnnounceCall, AnnounceCallFail, Announce
<1>5. SpawnType'
  BY <1>1, <1>2, <1>4 DEF SpawnType
<1>6. rpc[s] = "none" /\ ~ServerLives(s)
  BY <1>1 DEF Own, Order, ServerLives
<1>7. Order(s)' /\ Socket(s)' /\ Cleaned(s)'
  BY <1>1, <1>2, <1>6 DEF SpawnType, Own, Order, Socket, Cleaned, ServerLives, Listening
<1>8. Address(s)'
  <2> SUFFICES ASSUME ~conf.fixed
               PROVE  /\ apc'[s] \in {"chmod0", "chown", "listen", "chmod"} => file' # NoFile /\ file'.sock = s
                      /\ apc'[s] = "up" => file' = File(s, "open")
    BY DEF Address
  <2>1. apc[s] \in {"chmod0", "chown", "listen", "chmod"} => file # NoFile /\ file.sock = s
    BY <1>1 DEF Own, Address
  <2>2. CASE Bind(s) \/ Rebind(s)
    BY <1>1, <2>2, FileIs DEF Bind, Rebind, AStep, SpawnType
  <2>3. CASE Probe(s) \/ Unlink(s)
    BY <1>1, <2>3 DEF Probe, Unlink, AStep, SpawnType
  <2>4. CASE Listen(s)
    BY <1>1, <2>1, <2>4 DEF Listen, AStep, SpawnType
  <2>5. CASE ChmodZero(s) \/ Chown(s) \/ ChmodMode(s)
    BY <1>1, <1>3, <2>1, <2>5, FileIs DEF ChmodZero, Chown, ChmodMode, OnFile, AStep, SpawnType
  <2>6. CASE AnnounceFail(s)
    BY <1>1, <2>6 DEF AnnounceFail, AStep, SpawnType
  <2> QED
    BY <2>2, <2>3, <2>4, <2>5, <2>6 DEF AnnounceCall, AnnounceCallFail, Announce
<1>9. OneStep(s)
  <2>1. Moves(s)
    BY <1>1, <1>4 DEF Moves
  <2>2. \A t \in Servers \ {s} : Same(t)
    BY <1>1, <1>2 DEF Same, SpawnType
  <2>3. Own(s)'
    BY <1>7, <1>8 DEF Own
  <2> QED
    BY <1>1, <1>2, <1>5, <2>1, <2>2, <2>3 DEF OneStep
<1> QED
  BY <1>9, StepKeeps

LEMMA ReaperKeeps ==
    ASSUME SpawnInv, conf' = conf, NEW s \in Servers, ReaperStep(s) \/ ForkServerFail(s)
    PROVE  SpawnInv'
<1>1. SpawnType /\ Own(s)
  BY DEF SpawnInv, Own
<1> USE DEF avars, RStep, Same, Moves, LauncherEnds
<1>2. CASE ForkServer(s) \/ ForkServerFail(s)
  <2>1. SpawnType'
    BY <1>1, <1>2 DEF ForkServer, ForkServerFail, SpawnType
  <2>2. Own(s)'
    BY <1>1, <1>2 DEF ForkServer, ForkServerFail, SpawnType, Own, Order, Socket, Address, Cleaned, Left, ServerLives, Listening
  <2>3. OneStep(s)
    BY <1>1, <1>2, <2>1, <2>2 DEF ForkServer, ForkServerFail, SpawnType, OneStep
  <2> QED
    BY <2>3, StepKeeps
<1>3. CASE Arm(s)
  <2>1. /\ UNCHANGED <<kpc, at, lpc, spc, tmp, hit, faults, file, apc, deaths>>
        /\ rpc[s] = "unarmed" /\ rpc' = [rpc EXCEPT ![s] = "armed"] /\ CloseLis(s, {"reaper"})
    BY <1>3 DEF Arm
  <2>2. SpawnType'
    BY <1>1, <2>1, Closing DEF SpawnType
  <2>3. Own(s)'
    BY <1>1, <2>1, Closing DEF SpawnType, Own, Order, Socket, Address, Cleaned, Left, ServerLives, Listening
  <2>4. OneStep(s)
    BY <1>1, <2>1, <2>2, <2>3, Closing DEF SpawnType, OneStep
  <2> QED
    BY <2>4, StepKeeps
<1>4. CASE Reap(s)
  <2>1. OneStep(s)
    BY <1>1, <1>4 DEF Reap, SpawnType, OneStep, Own, Order, Socket, Address, Cleaned, Left, ServerLives, Listening
  <2> QED
    BY <2>1, StepKeeps
<1>5. CASE Remove(s)
  <2>1. OneStep(s)
    BY <1>1, <1>5 DEF Remove, SpawnType, OneStep, Own, Order, Socket, Address, Cleaned, Left, ServerLives, Listening
  <2> QED
    BY <2>1, StepKeeps
<1> QED
  BY <1>2, <1>3, <1>4, <1>5 DEF ReaperStep

\* The server: what it does, and its end, which closes the socket.
LEMMA ServerKeeps ==
    ASSUME SpawnInv, conf' = conf, NEW s \in Servers,
           ServerStep(s) \/ ServerFail(s) \/ KillServer(s)
    PROVE  SpawnInv'
<1>1. SpawnType /\ Own(s)
  BY DEF SpawnInv, Own
<1> USE DEF avars, SStep, Same, Moves, LauncherEnds
<1>2. CASE WriteConf(s) \/ ExecServer(s)
  <2>1. SpawnType'
    BY <1>1, <1>2, ZenonT(60) DEF WriteConf, ExecServer, SpawnType
  <2>2. Own(s)'
    BY <1>1, <1>2 DEF WriteConf, ExecServer, SpawnType, Own, Order, Socket, Address, Cleaned, Left, ServerLives, Listening
  <2>3. OneStep(s)
    BY <1>1, <1>2, <2>1, <2>2 DEF WriteConf, ExecServer, SpawnType, OneStep
  <2> QED
    BY <2>3, StepKeeps
<1>3. CASE \E c \in Servers : Accept(s, c) /\ ~conf.once
  <2>1. OneStep(s)
    BY <1>1, <1>3 DEF Accept, Caller, SpawnType, OneStep, Own, Order, Socket, Address, Cleaned, Left, ServerLives, Listening
  <2> QED
    BY <2>1, StepKeeps
<1>4. CASE ServerFail(s) \/ KillServer(s) \/ AcceptTimeout(s) \/ \E c \in Servers : Accept(s, c) /\ conf.once
  <2>1. /\ UNCHANGED <<lpc, rpc, file, apc>>
        /\ \E to \in {"ending", "gone"} : spc' = [spc EXCEPT ![s] = to]
        /\ ServerLives(s) /\ CloseLis(s, {"server"})
        /\ kpc' = kpc \/ \E c \in Servers : kpc' = [kpc EXCEPT ![c] = "served"]
    BY <1>4 DEF ServerFail, KillServer, AcceptTimeout, Accept, Caller, ServerLives
  <2>2. /\ tmp' = tmp \/ tmp' = [tmp EXCEPT ![s] = FALSE]
        /\ deaths' = deaths \/ deaths' = deaths + 1
        /\ tmp'[s] => spc[s] # "conf" \/ deaths' = deaths + 1
    BY <1>1, <1>4, ZenonT(60) DEF ServerFail, KillServer, AcceptTimeout, Accept, Caller, Died, SpawnType
  <2>3. deaths \in Nat /\ deaths' \in Nat /\ (deaths > 0 => deaths' > 0) /\ (deaths' = deaths + 1 => deaths' > 0)
    BY <1>1, <2>2 DEF SpawnType
  <2>4. SpawnType'
    <3>1. spc' \in [Servers -> {"none", "prep", "conf", "run", "ending", "gone"}]
      BY <1>1, <2>1 DEF SpawnType
    <3>2. kpc' \in [Servers -> {"idle", "wait", "dial", "queued", "served", "failed", "killed"}]
      BY <1>1, <2>1 DEF SpawnType
    <3>3. tmp' \in [Servers -> BOOLEAN]
      BY <1>1, <2>2 DEF SpawnType
    <3>4. holds' \in [Servers -> SUBSET {"launcher", "reaper", "server"}] /\ listens' \subseteq listens
      BY <1>1, <2>1, Closing
    <3> QED
      BY <1>1, <2>1, <2>3, <3>1, <3>2, <3>3, <3>4 DEF SpawnType
  <2>5. ~Listening(s)' /\ (kpc'[s] = "idle" => kpc[s] = "idle")
    BY <1>1, <2>1 DEF SpawnType, Listening
  <2>6. Order(s)' /\ Socket(s)' /\ Address(s)'
    BY <1>1, <2>1, <2>5, Closing DEF SpawnType, Own, Order, Socket, Address
  <2>7. Cleaned(s)'
    BY <1>1, <2>1, <2>2, <2>3 DEF SpawnType, Own, Cleaned, Left
  <2>8. OneStep(s)
    BY <1>1, <2>1, <2>2, <2>3, <2>4, <2>6, <2>7, Closing DEF SpawnType, OneStep, Own
  <2> QED
    BY <2>8, StepKeeps
<1>5. CASE ServerEnds(s)
  <2>1. OneStep(s)
    BY <1>1, <1>5 DEF ServerEnds, SpawnType, OneStep, Own, Order, Socket, Address, Cleaned, Left, ServerLives, Listening
  <2> QED
    BY <2>1, StepKeeps
<1> QED
  BY <1>2, <1>3, <1>4, <1>5 DEF ServerStep

\* Signals: the launcher, the reaper or the process group ends.
LEMMA KillKeeps ==
    ASSUME SpawnInv, conf' = conf, NEW s \in Servers,
           SignalReaper(s) \/ KillReaper(s) \/ KillLauncher(s)
    PROVE  SpawnInv'
<1>1. SpawnType /\ Own(s)
  BY DEF SpawnInv, Own
<1>2. deaths \in Nat /\ deaths' \in Nat /\ (deaths > 0 => deaths' > 0) /\ UNCHANGED <<file, apc, tmp>>
  BY <1>1 DEF SignalReaper, KillReaper, KillLauncher, Died, SpawnType
<1> USE DEF Same, Moves, LauncherEnds
<1>3. CASE KillReaper(s) \/ (SignalReaper(s) /\ rpc'[s] # rpc[s])
  <2>1. /\ UNCHANGED <<kpc, lpc, spc>> /\ CloseLis(s, {"reaper"}) /\ rpc' = [rpc EXCEPT ![s] = "killed"]
        /\ rpc[s] \in {"forked", "unarmed", "armed", "remove"}
    BY <1>3 DEF KillReaper, SignalReaper, GroupKill, ReaperLives
  <2>2. SpawnType'
    BY <1>1, <1>2, <2>1, Closing DEF SpawnType
  <2>3. Own(s)'
    BY <1>1, <1>2, <2>1, Closing DEF SpawnType, Own, Order, Socket, Address, Cleaned, Left, ServerLives, Listening
  <2>4. OneStep(s)
    BY <1>1, <1>2, <2>1, <2>2, <2>3, Closing DEF SpawnType, OneStep
  <2> QED
    BY <2>4, StepKeeps
<1>4. CASE KillLauncher(s)
  <2>1. /\ UNCHANGED <<kpc, rpc, spc>> /\ CloseLis(s, {"launcher"}) /\ lpc' = [lpc EXCEPT ![s] = "killed"]
        /\ lpc[s] \notin {"none", "done", "failed", "killed"}
    BY <1>4 DEF KillLauncher
  <2>2. SpawnType'
    BY <1>1, <1>2, <2>1, Closing DEF SpawnType
  <2>3. Own(s)'
    BY <1>1, <1>2, <2>1, Closing DEF SpawnType, Own, Order, Socket, Address, Cleaned, Left, ServerLives, Listening
  <2>4. OneStep(s)
    BY <1>1, <1>2, <2>1, <2>2, <2>3, Closing DEF SpawnType, OneStep
  <2> QED
    BY <2>4, StepKeeps
<1>5. CASE SignalReaper(s) /\ GroupKill(s)
  <2>1. /\ UNCHANGED rpc /\ CloseLis(s, {"server", "launcher"}) /\ rpc[s] \in {"armed", "remove"}
        /\ spc' = [spc EXCEPT ![s] = IF ServerLives(s) THEN "gone" ELSE @]
        /\ lpc' = [lpc EXCEPT ![s] = IF @ \in LauncherEnds THEN @ ELSE "killed"]
        /\ kpc' = [kpc EXCEPT ![s] = IF conf.group /\ @ \in {"wait", "dial", "queued"} THEN "killed" ELSE @]
    BY <1>5 DEF GroupKill
  <2>2. deaths' > 0
    BY <1>1, <1>5 DEF SignalReaper, Died, SpawnType
  <2>3. SpawnType'
    BY <1>1, <1>2, <2>1, Closing DEF SpawnType, ServerLives
  <2>4. ~ServerLives(s)' /\ ~Listening(s)' /\ lpc'[s] \in {"done", "killed"} /\ lpc[s] # "none"
    BY <1>1, <2>1 DEF SpawnType, ServerLives, Listening, Own, Order
  <2>5. kpc'[s] = "idle" => kpc[s] = "idle"
    BY <1>1, <2>1 DEF SpawnType
  <2>6. Order(s)' /\ Socket(s)' /\ Address(s)' /\ Cleaned(s)'
    BY <1>1, <1>2, <2>1, <2>2, <2>4, <2>5, Closing DEF SpawnType, Own, Order, Socket, Address, Cleaned, Left
  <2>7. OneStep(s)
    BY <1>1, <1>2, <2>1, <2>2, <2>3, <2>4, <2>6, Closing DEF SpawnType, OneStep, Own
  <2> QED
    BY <2>7, StepKeeps
<1> QED
  <2>1. SignalReaper(s) => GroupKill(s) \/ rpc'[s] # rpc[s]
    BY <1>1 DEF SignalReaper, SpawnType
  <2> QED
    BY <2>1, <1>3, <1>4, <1>5

LEMMA SpawnNext == SpawnInv /\ [Next]_vars => SpawnInv'
<1> SUFFICES ASSUME SpawnInv, [Next]_vars PROVE SpawnInv'
  OBVIOUS
<1>1. CASE UNCHANGED vars
  BY <1>1 DEF vars, state, procs, avars, SpawnInv, SpawnType, Single, Order, Socket, Address, Cleaned, Left, ServerLives, Listening
<1>2. CASE Next
  <2>1. conf' = conf
    BY <1>2 DEF Next
  <2>2. PICK s \in Servers :
           \/ Launch(s) \/ LaunchFail(s)
           \/ CallerStep(s) \/ LauncherStep(s) \/ ReaperStep(s) \/ ServerStep(s)
           \/ Failure(s) \/ Kill(s)
    BY <1>2 DEF Next
  <2> QED
    BY <2>1, <2>2, CallerKeeps, LauncherKeeps, AnnounceKeeps, ReaperKeeps, ServerKeeps, KillKeeps
       DEF LauncherStep, Failure, Kill
<1> QED
  BY <1>1, <1>2

-----------------------------------------------------------------------------
(* The theorems.                                                           *)

\* The invariant of spawns: the processes of each follow one another, its socket
\* listens as long as one of them has it, and an address that is made up leads to
\* it until the reaper removes the file.
THEOREM SpawnAlways == Spec => []SpawnInv
BY SpawnInit, SpawnNext, PTL DEF Spec

\* Of a spawn that is over a file is left only if there was no reaper, or it was
\* killed, and a file with the configuration only if a process was killed.
THEOREM OnlyWithoutReaperAlways == Spec => []OnlyWithoutReaper
<1>1. SpawnInv => OnlyWithoutReaper
  <2> SUFFICES ASSUME SpawnInv, NEW s \in Servers, Gone(s)
               PROVE  (Left(s) => rpc[s] \in {"none", "killed"}) /\ (tmp[s] => deaths > 0)
    BY DEF OnlyWithoutReaper
  <2>1. Cleaned(s)
    BY DEF SpawnInv
  <2> QED
    BY <2>1 DEF Gone, Cleaned, ServerLives, Listening
<1> QED
  BY <1>1, SpawnAlways, PTL

\* A caller that was told an address of its own is not refused there while the
\* server is to come or has not ended its loop.
THEOREM ToldAnswersAlways == Spec => []ToldAnswers
<1>1. SpawnInv => ToldAnswers
  <2> SUFFICES ASSUME SpawnInv, NEW s \in Servers, lpc[s] = "done", ~conf.fixed,
                      rpc[s] = "forked" \/ spc[s] \in {"prep", "conf", "run"}
               PROVE  Reachable(s)
    BY DEF ToldAnswers
  <2>1. Order(s) /\ Socket(s) /\ Address(s)
    BY DEF SpawnInv
  <2>2. apc[s] = "up" /\ rpc[s] # "exited"
    BY <2>1 DEF Order, ServerLives
  <2>3. holds[s] # {}
    BY <2>1 DEF Socket, Listening
  <2> QED
    BY <2>1, <2>2, <2>3 DEF Socket, Address, Reachable
<1> QED
  BY <1>1, SpawnAlways, PTL
=============================================================================
