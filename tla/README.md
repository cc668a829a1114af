# Verification of russng

RUSS runs services behind UNIX sockets.  A *client* dials the socket file of a
*server*, sends a request (operation, service path, attributes, arguments), gets
back descriptors (standard streams and an exit descriptor), and waits on the exit
descriptor for an exit status.  Servers are programs linked with the library in
`src/library`; some of them do no more than dial another server and pass its
descriptors on.

This directory holds TLA+ modules of that system, the TLC configurations that
check them on small instances, and theorems that TLAPS checks for all values of
the constants.  `PROJECT.json` is the index: it says for every definition which
lines it models, for every run what it checks, and for every hazard which property
watches it.

## The system

| part | state | operations | talks to |
|---|---|---|---|
| client connection, `cconn.c` | socket, system and standard descriptors, bytes of the exit status read so far | dial, wait, close | server connection over the socket, service over the descriptors |
| server connection, `sconn.c` | socket, descriptors, credentials | accept, await request, answer, send descriptors, splice, exit, close | client, kernel |
| dispatcher, `svr.c`, `sess.c`, `req.c` | the request being served | find the node, answer, switch user, checks, handler, fallback, failsafe | server connection, service tree, handler |
| forking loop, `svr-fork.c` | listen socket, accepted connection | accept, fork twice, wait | dispatcher in the second child |
| threaded loop, `svr-pthread.c` | listen socket, one thread per connection | accept, create thread | dispatcher in a thread |
| relay, `relay.c`, `buf.c` | streams with a buffer each, poll set | add, remove, serve | pipes of a client and of a service |
| socket addresses, `socket.c` | the socket file | announce, connect, unlink, pass descriptors | other announcers, clients |
| super server, `russsuper` | lock directory, pid file and socket file of each server | start, stop, redial | announce, dial |
| start and spawn, `start.c`, `ruspawn`, `rureap` | process group, socket file, file with the configuration | start, spawn, reap | super server, dial of a configuration file |
| service tree, `svcnode.c` | sorted lists of nodes | add, find | dispatcher |
| paths and arrays, `spath.c`, `sarray0.c` | values | resolve, split, find, update | dial, servers that forward |
| forwarding servers, `russredir`, `russmredir`, `russpass`, `russset`, `russplus`, `russpnet` | none between requests; targets of russpnet | redial and splice | other servers |
| execution server, `russexec`, `misc.c` | child process, wait deadline | execute, wait | kernel |
| process server, `russproc` | none; it reads `/proc` | list, status, wait, kill | kernel |
| remote server, `russssh2` | child ssh, pipes, delimiters | dial, tunnel | ssh |
| tee, `russtee` | files, relay | dial, relay | another service |
| debug and alive servers | none | echo, discard, chargen, reports | client |
| output wait, `convenience.c` | buffers for output, poll set | dial and collect | service |
| configuration, `conf.c` | sections of items | load, read, write, set, remove | everybody |
| encoding, `encdec.c` | values | encode, decode | both connections |
| python library and tools | connection objects | the same protocol | servers |

Which module has which part:

| module | parts | composed of |
|---|---|---|
| `RussCall` | what a dial promises | |
| `RussConn` | client and server connection, dispatcher, forking loop | implements `RussCall` |
| `RussRelay` | relay | |
| `RussAnnounce` | announce of an address | |
| `RussSuper` | super server | `RussAnnounce` |
| `RussSpawn` | start, spawn, reaper | `RussAnnounce` |
| `RussMap` | what a configuration is | |
| `RussConf` | configuration | implements `RussMap` |
| `RussCollect` | output wait | |
| `RussExec` | execution server | `RussCollect` |
| `RussForward` | paths, trees, arrays, forwarding servers, splice | |
| `RussSession`, `RussProc`, `RussRemote` | debug and alive, process, remote and tee | |
| `RussServe` | the handlers of services | the three before |

Beside these, an `...MC` module gives the instance of a run, and a `...Proofs` module has
the theorems about a module and their proofs (see Proofs).

## What is hard

* **Processes and descriptors.**  What a peer sees of a pipe or a socket depends on
  every process that holds the other end.  The forking loop serves a connection in
  the child of a child; a descriptor that one of the three processes fails to close
  keeps a client waiting for ever, and the error shows only when two connections
  overlap.
* **Half an answer.**  The answer is sent in several messages; the server or the
  client can die between any two of them.
* **Several exits.**  The handler, the fallback, the failsafe of the dispatcher and
  that of the loop may all send an exit status; the client must hear the first.
* **Ends of streams.**  The relay moves three streams with one poll loop, and the
  service may exit while output is in its pipes or its buffers.
* **Address files.**  Announcing is six system calls on a path that other processes
  announce on, dial and remove.
* **Chains.**  A dial may go through many servers, each of which changes the request,
  waits for the next and passes its descriptors back, while any of them and the client
  may end.
* **A machine that changes.**  Processes end and their identifiers are used again while
  a handler reads, waits or signals.
* **Deadlines** that cover one part of an operation and not another, and retries.

## Modules

### RussConn: one server and its dials

`RussConn` composes the client (`cconn.c`), the accept loop (`svr-fork.c`), its two
children, the dispatcher (`svr.c`) and the server connection (`sconn.c`).  Each of
them is a process with a program counter (`cpc`, `lpc`, `mpc`, `hpc`) and a
descriptor table (`slot` and `csock` for the client, `ltab`, `mtab`, `htab` for the
server's processes).  The kernel is `wire` (messages on the socket) and `pipe` (the
exit pipe), and the operators `Held`, `ServerGone` and `ExitReader`, which derive
from the tables what a reader or a writer sees.  A fork copies a table.  A kill
(`LoopKill`, `MidExit`, `HandlerKill`, `Leave`) empties one, at any step.

The path of a request through `russ_svr_handler()` is `route`: dropped, unknown,
answered by the dispatcher, answered by the service, answered again.  A service is
free: it may answer with any set of streams, once or again, exit with any status any
number of times, return, or end the process.  A second answer fails on the socket that
the first one closed, and `russ_sconn_answer()` has forgotten the exit descriptor by
then (`sconn.c:212`): nobody can give a status any more, and the client hears of it when
the process ends.  `said` is a history variable, the first status written.

A request comes whole, or in part (`SendPart`, and a client that leaves or is slow).  Of
a part the dispatcher makes nothing, or the request that the buffer on its stack happens
to hold, that one or another (`AwaitShort`): `sconn.c:299` says NULL
on failure, but `sconn.c:309` takes only a negative count for one.

`RussCall` is what a dial promises: it ends one way, the service commits to at most
one status, the client hears that one, and hears of a hang-up only when there was
none.  `ImplementsCall` is the refinement.

| run | instance | shows |
|---|---|---|
| `conn_one` | 1 dial, 3 streams, 3 statuses | `FirstStatusOnly`, `CompleteAnswer`, `FailsafeStatus`, `ImplementsCall`; with fairness `DialEnds` and `WaitEnds` |
| `conn_two` | 2 dials, exit pipe only | `OwnDescriptors`: processes of two connections never mix |

Both start with either value of `closeonaccept`.

Bounds: a connection interacts with another only through the loop and the tables it
copies, so two connections show every interference; standard streams differ from one
another only by position, and three is the number the library uses.  With two
connections the streams are left out (they are made after the last fork), and there is
one status, which `OwnDescriptors` does not look at.

`FailsafeStatus` excepts a service that answered twice.

Fairness: every process the kernel runs takes the steps it can (`WF`); the listen
queue does not pass over a connection for ever and a handler that runs does return
(`SF`, since other steps may interleave with both).  A client that called without a
deadline has nothing else to do than read.

What the module shows beside its properties: with `closeonaccept` the loop closes the
listen socket after any return of the accept handler (`svr-fork.c:53`), a timeout or
refused credentials included, where `svr.c:198` says after one successful accept.

### RussRelay: the relay of a dialing program

`RussRelay` is `russ_relay_serve()` with the buffers of `buf.c`, as `rudial` and
`rutuns` use it: one stream to the input of a service, the others from its outputs,
and the exit descriptor beside them in the poll set.  `pc` and `idx` are the place in
the scan of the poll results, `polled` the results themselves, and every stream has
its buffer (`data`, `off`, `len`), its place in the poll set and its bytes.  A byte
is a number that tells its stream and its position.  Writers, readers and the service
are the environment; the service is free, or copies its input to its output.

| run | instance | shows |
|---|---|---|
| `relay` | an input and an output, buffers of 2 over channels of 2, short reads and writes, errors, readers that leave; a free service and one that copies | `Conserved`, `OutputComplete`, `InputComplete`; with fairness `RelayEnds`, `InputEnds` |

Bounds: a buffer of two bytes can be empty, part full, full and part drained, which
are all the cases `russ_buf_getp()` tells apart.

What `RelayEnds` rests on: a buffer no larger than what poll promises a writer.  With
a larger one (`Cap` above `Room`) a service that copies its input to its
output and the relay wait for each other.

Fairness: the relay, and the programs at both ends, take the steps they can.  Short
writes by signals carry no fairness.
### RussAnnounce and RussSuper: a server started on demand

`RussAnnounce` is `russ_announce()`, one system call per step: `bind`, the probe by
`connect` of an address in use, `unlink` and the second `bind`, `chmod` to 0, `chown`,
`listen`, `chmod` to the mode, any of which may also fail (`AnnounceFail`).  `file` is what the path leads to by now; the calls on
the path act on it whoever made it.  `RussSuper` is the handler of the super server:
three dials at most, and between them `start_server()` with its lock directory and
its two forks.  What it forks runs `RussAnnounce`, while the handler goes on.
Processes are killed anywhere, `MaxDeaths` of them.

| run | instance | shows |
|---|---|---|
| `super` | 2 requests, one of 2 tries and one of 1, so 3 servers; 2 processes killed; fairness | `LockHeld`, `AddressLive`, `HandlerEnds` |
| `super_race` | the same, 1 process killed | `InUseIsKept` is violated |

Bounds: the code makes three tries; `Tries` is a number for each handler, so that one
handler has a first and a last try, finds what it started itself, and meets another
handler at each of them, in a state space that a liveness check can hold.  Three
servers are what an interference at one path needs: one that removes, one whose file
is removed, one that binds between.

A call that fails after the first `chmod` leaves a file of mode 0 and no socket; a
later server that does not run as root is refused permission there, gives up, and the
address stays dead.  `AddressLive` names this exemption beside that of a kill.

`super_race`: a server is bound and does not listen yet when a second one probes; it
listens by the time the second one unlinks.  It stays up without an address, and the
second server takes the address over.  The lock of the super server does not prevent
it, being removed once the process between has ended, before the announce.

Fairness: handlers and servers take the steps they can.  Trouble (a configuration
that cannot be read, a user that cannot be switched to) and kills carry none.

### RussSpawn: a server started for one dial

`RussSpawn` composes four kinds of process around `RussAnnounce`: the caller that
dials a configuration file (`kpc`; `russ_dialv()`, `russ_ruspawn()`), the launcher it
runs (`lpc`; `russ_start()` until it returns, then `ruspawn` prints the address), the
reaper (`rpc`) and the server (`spc`).  `holds` says who has the listen socket open,
which decides whether an address answers; `tmp` is the file the configuration is
passed in.  `conf` says what the configuration asks for.  Calls of the kernel fail,
`conf.faults` of them, and processes are killed or the reaper is sent a signal,
`MaxDeaths` times, at any step.

| run | instance | shows |
|---|---|---|
| `spawn` | one spawn at an address of its own, or two spawns at one fixed address, with one failure and one death | `OnlyWithoutReaper`, `ToldAnswers`; with fairness `SpawnCleans`, `CallerEnds` |

Fairness: each of the four takes the steps it can.  `ReadAddr` waits for the launcher
and no longer; the pipe with the address is open in no other process for long, since
the launcher closes all but its standard output before it announces (`start.c:561`)
and the reaper that as soon as it is forked (`start.c:635`).  What could leave a
caller waiting is the queue of a listen socket: a server for one accept closes the
socket before it forks a process for the connection (`svr-fork.c:54`) and lives on
for a moment, refusing who dials (`spc` is `"ending"`); `CallerEnds` is violated when
that process keeps the socket.  A spawned server that is not told `closeonaccept` goes
on for ever, and `SpawnCleans` does not ask it to end.

What the module shows beside its properties: a signal for the reaper that comes before
line 649 of `start.c` ends it and leaves server and socket file; two directories in
the configuration end the launcher, since `_russ_start_mkdirs()` gives `qsort()` the
wrong array (`start.c:140`); and a fork of the reaper that fails is not looked at.

### RussMap and RussConf: configuration objects

`RussMap` says what a configuration is: for each object a map of sections to maps of
options to values, and for each call what it makes of the map of its object.
`RussConf` is `conf.c`: an array of sections, each with an array of items, elements
appended at the end, the last one moved to the place of one that is removed, arrays
that grow when they are full.  `call` is the label of a step, so that the abstract
specification allows for each call only what that call promises; it is left out of
the state (`VIEW State`), since nothing depends on it.  A program first loads one
object from its arguments (`Arg...`: `-c`, `-d`, `-f`, `--fd`), then calls what it
likes; `Pass` is `russ_start()`, which writes the object to a file that the new
program reads.  A file is a sequence of lines: section, setting, or neither.

| run | instance | shows |
|---|---|---|
| `conf` | 2 objects, 2 sections, 2 options, 2 values, 8 files, 2 items at most, arrays of 1 place that grow by 1 | `TypeOK` (an array that is full grows before an element is written), `ImplementsMap` |

Bounds: `Grow` is 10 in the code; with 1 every second append grows an array.  Two
items and two sections suffice to remove a first, a last and an only one.  Texts are
atoms, so what the characters of odd texts do is not seen: an option that begins with
`[` or `#` or has a colon is written as a line that is read as something else, blanks at
the ends of a value are lost, and a line of a file that begins with blanks keeps its
newline.  What a file says is therefore the lines `russ_conf_readfd()` makes of it.

What the module shows beside its properties: `-d section`, without a colon, writes
through a null pointer (`conf.c:353`, `ArgDeleteSection`), where `conf.c:310` says that -d
deletes a section or an option.

Both properties of `conf` are proved for every value of the constants, and any number of
items, in `RussConfProofs`.

### RussCollect and RussExec: a program run for a client

`RussCollect` is the loop of `russ_dialv_wait_inouterr()`: one `poll()` over the three
streams and the exit descriptor, then the places with events in order, with
`openfds` the count that ends it.  It holds the channels too: bytes under way, and who
has an end of them (`ktab` for the client, `htab`, `ctab`, `dtab` for the handler, its
child and what the child leaves behind).  `RussExec` extends it with `execute()` of
the execution server, the wait of `__russ_waitpidfd()` for a child or a hang-up, and
the child from the fork to the end of its program.  Wait statuses are the numbers of
`waitpid()`, so `ExitStatus` makes 0 of a signal as `WEXITSTATUS()` does.

A call says what runs.  A *free* program reads, writes, closes, leaves a process
behind, exits, or goes on for ever; *cat* copies its input; *sleep* does nothing and
dies of a signal.

| run | instance | shows |
|---|---|---|
| `exec` | 5 calls: with and without input, deadline, room in the buffers | `OutputWhole`, `InputWhole`, `StatusTrue`; with fairness `CollectEnds` (for each kind of call what brings it to an end), `HangUpEnds`, `DeathHeard` |
| `collect_hup` | no input, no deadline | `CollectReturns` is violated |

Bounds: channels of 2 bytes, input of 3 written 2 at a time, so that the last write is
a short one and a channel is full; output of 3 into buffers of 2 and of 3.  `Chunk <=
Room` is an assumption: a write blocks when a channel takes less than one piece
(1<<16 bytes; the socket pairs take more).

Fairness: client and handler run; a child runs until it is a program; *cat* runs, and
*sleep* dies of `SIGHUP`.  Nothing is assumed of a free program, and nothing of kills
and deadlines.

A `poll()` of the handler that fails is a hang-up, too (`misc.c:71`): the program gets
SIGHUP, and the client, which is still there, is told 0 (`WatchFails`, counted by `errs`).

`StatusTrue` is silent about a program that a signal killed, about a fork that failed
and about such a `poll()`: the client is told 0, success, in all of them.

`collect_hup`: the loop neither returns nor closes an exit descriptor that hung up
without a status.  Without a deadline it polls for ever.

### RussForward: servers that forward a dial

`RussForward` has two layers.  The first is what the servers compute, as operators on
paths and requests: `Resolve` and `Split` for service paths (`spath.c`), `Find` for
service trees (`svcnode.c`) with the trees that the servers' `main()` build, `Update`
and `FindPrefix` for arrays (`sarray0.c`), and for each of russredir, russmredir,
russpass, russset, russplus and russpnet what its handlers make of a request.  `Handle`
puts them together: a request is dialed elsewhere, answered with a status, served, or
left without one.  The second is the chain of processes that come of it.  Process 0 is
the client; process `h` dials, and `h + 1` is the handler the dialed server makes for
that connection.  `open`, `sent` and `ex` are the descriptors that decide who hears of
what: the socket between two of them, whose descriptors went through it, and the exit
pipe.  `russ_sconn_redialandsplice()` is `Forward`, then `Splice`, or `DialEnds` and
`Say`.

| run | instance | shows |
|---|---|---|
| `forward` | about 140 calls, chains of up to 6 servers, loop limit 2, at most 3 links followed; the shorter calls with one fault | `PlusBounded`, `AsAsked`; with fairness `DialReturns`, `Reaches`, `Unwinds` |

A call states where it is to come out (`want`): which server, with which path,
arguments and attributes, or which status.  For russset that is computed a second way
(`Made`: the last setting of a name or an index wins), for the other servers it is
written down beside the call.  The calls have links that lead on, in a circle and
nowhere, loops through the plus server, two settings servers in a row around the plus
server, settings and attributes of the call that name the loop count (also as the largest
int), search paths that cannot be read, a client without a user name, indexes from either
end, wrapped and out of range, a targets file that begins with a comment, and servers that
do not answer.

Bounds: the loop limit is 16 in the code, the links 32; with 2 and 3 both are reached
within six hops.  Every two settings of seven are tried in one server, of five in two.

Fairness: processes run and deadlines pass.  A service need neither answer nor end,
and only the dials of russset and russpnet have a deadline (`limit`).  `Stuck` is what
may wait for ever: a server that does not answer, with no deadline before it.

`PlusBounded` says what the loop count does: from the value it was last given, by the
client or by a russset that was asked to set it, each pass of the plus server raises it and
no other server changes it, and no pass goes beyond the limit.  That bounds a loop only
when no russset in it names the count.  russset refuses no name: a circle from the plus
server through a redirect to `set/__PLUS_COUNT=0/./+/...` goes round for ever, where
`russplus_server.c:378-382` says that it is limited.  The count is an int that the build lets wrap (`Raised`; the makefiles compile
without optimization): given as `INT_MAX` it begins anew from below, once.

A legacy targets file numbers its lines and counts its targets
(`russpnet_server.c:638`), so after a comment the last target is out of reach and `-1` is
another one, where `russpnet_server.c:79-80` says that it is the last entry: no call of the
run asks for it.

What the module shows beside its properties.  An index of a comment ends the process.
Below a target that is unknown russpnet refuses on
streams that are not there: the dial fails without a status.  russredir without a
prefix answers and says nothing (`russredir_server.c:113`): the client hears a hang-up;
for a client whose user or group has no name it refuses on streams that are not there
(`russredir_server.c:96`).
A circle of redirects that does not pass the plus server is counted by nobody.

### RussSession, RussProc, RussRemote, RussServe: handlers of services

One session of a service with a client that may leave or close its input at any time.
`RussSession` has what handlers share (`answer`, `said`, `out`, `in`) and the services
of russdebug and russalive; `RussProc` those of russproc, on a machine where processes
end and start and identifiers are used again (`procs`, with a generation in `born`)
while a handler reads `/proc` entry by entry (`at`), first those that are no processes
(`Others`), each of which gives a report a line about whatever process the handler's
uninitialised identifier names; `RussRemote` the child of russssh2
and the service behind russtee (`remote`, `code`, `wrote`) with the tunnel and its
delimiters; what ssh leaves behind, the master of a shared connection, may keep the pipes
open after it (`kept`).  `RussServe` puts them together: `call` says which handler runs, the other
modules stand still.

| run | instance | shows |
|---|---|---|
| `serve` | about 100 calls, one failing call of the kernel each; 2 processes, 2 users, 2 births; a delimiter of 2 bytes, a buffer of 4 | `StatusGiven`, `StatusTrue`, `ListTrue`, `TunnelClean`, `OutWhole`; with fairness `LeavingEnds` |
| `wait_forever` | the waits of russproc | a counterexample to `WaitForever`: without arguments the timeout is not initialised (`russproc_server.c:716`, `735`), and the wait may be late |

Bounds: two processes are one before and one after the place in the list, and one
identifier used again.  The texts of a login put the delimiter at the beginning of the
buffer, at its end, across it, behind it, and across its second end.

Fairness: the handler runs, and a process that was sent SIGHUP ends.  Nothing is
assumed of clients, processes and remotes.

SIGPIPE: `rustart` ignores it (`ruspawn.c:95`), and so do the `main()` of russpass,
russpnet, russtee, russplus, russexec and russsuper; what such a process starts has it
ignored, too.  `ruspawn` does not, and the reaper does only after the server was forked
(`start.c:648`): russdebug, russalive, russproc and russssh2 have the default there.  A
call says which it is (`ignores`).  Where SIGPIPE is not ignored a write to a client that
left, or to an ssh that ended, ends the handler.

Assumptions: what a login writes is as `LoginAssumption` says (see the proofs); the files
of a process are read at once; a signal to a group of processes (a negative identifier,
or 0) is one to a process.

What the properties leave out, because the code does: `StatusGiven` excepts every
session in which a call of the kernel failed, a process that ends between `stat()` and `fopen()`, where the handler closes a stream that was
not opened (`russproc_server.c:273`), a wait with an interval alone,
which the help text allows and which reads from NULL (`russproc_server.c:731`), russtee asked for anything but an execution, and a russssh2
that SIGPIPE ended while it had a request for an ssh that was gone.
`StatusTrue` excepts an ssh that a signal killed, that was never made, or that a failing
`poll()` hung up (`misc.c:71`), which is told as success; and speaks of a deadline only
when one was given.  `ListTrue` does not ask whose the process is that the line of an
entry which is no process is about, nor of a line for an identifier that was used again
between `stat()` and the reading.  `LeavingEnds` excepts the wait for a delimiter and a service behind
russtee that goes on, as long as somebody has the pipes open, and the thread that `pthread_create()` did not make
(`svr-pthread.c:122`), whose client waits for ever.

## Proofs

What TLC checks on small instances, TLAPS proves here for every value of the constants:
any number of connections, streams, spawns, handlers and processes, buffers and channels
of any size, any texts, links, servers and settings.  A module `...Proofs` extends the
module it is about; the composed modules are proved about as a whole.  Every proof has
the same shape: an invariant that is inductive, which is more than the property and is
stated in named parts; a lemma for each action, or for a group of actions that disturb
the same part; and the property from the invariant.  Each of these invariants was also
checked by TLC on the instance of its run.

| module | theorems | properties of the runs |
|---|---|---|
| `RussConnProofs` | `TypeCorrect`, `OwnDescriptorsAlways`, `AnswerAlways`, `FirstStatusOnlyAlways`, `CompleteAnswerAlways`, `FailsafeAlways`, `CallImplemented` | `TypeOK`, `OwnDescriptors`, `FirstStatusOnly`, `CompleteAnswer`, `FailsafeStatus`, `ImplementsCall` |
| `RussRelayProofs` | `RelayAlways`, `ConservedAlways`, `OutputCompleteAlways`, `InputCompleteAlways` | `Conserved`, `OutputComplete`, `InputComplete` |
| `RussSuperProofs` | `SuperInvariant`, `LockAlwaysHeld`, `AddressAlwaysLive` | `LockHeld`, `AddressLive` |
| `RussSpawnProofs` | `SpawnAlways`, `OnlyWithoutReaperAlways`, `ToldAnswersAlways` | `OnlyWithoutReaper`, `ToldAnswers` |
| `RussExecProofs` | `ExecAlways`, `OutputWholeAlways`, `InputWholeAlways`, `StatusTrueAlways` | `OutputWhole`, `InputWhole`, `StatusTrue` |
| `RussServeProofs` | `ServeAlways`, `StatusGivenAlways`, `StatusTrueAlways`, `ListTrueAlways`, `OutWholeAlways`, `TunnelCleanAlways` | `StatusGiven`, `StatusTrue`, `ListTrue`, `OutWhole`, `TunnelClean` |
| `RussForwardProofs` | `ForwardAlways`, `PlusBoundedAlways` | `PlusBounded` |
| `RussConfProofs` | `TypeCorrect`, `MapImplemented` | `TypeOK`, `ImplementsMap` |

**One connection, and two.**  `OwnDescriptors` is inductive with the types: the only
steps that enlarge a table are `Accept`, `Fork`, `MidFork` and `MakePipes`, and each
copies a table that has only the connection's own descriptors, or adds such
descriptors.

**The answer and the status.**  None of `FirstStatusOnly`, `CompleteAnswer` and
`FailsafeStatus` is inductive: each says something of a place that client and server
reach apart.  `AnswerInv` says where both are at every step between.  `Lifecycle`: a dial
gets one first child and one handler.  `Sending`: the messages on the wire are the next
ones the client expects, and the server has the rest to send unless it was killed.
`Having`: the client's slots are those of the arrays received so far.  `Once` and `Owed`:
a status is in the pipe or read and the handler holds no writer any more; or it still
holds one.  `Hung`: a hang-up is final.  `CallImplemented` is the refinement, step by
step: every action of `RussConn` is one of `RussCall` or leaves its variables alone.

**The relay.**  Byte `k` of a source is the number `k`, so that a run of bytes is known
by the number before its first.  `RelayInv` says at which number each of the four places
begins (what the reader got, the channel to it, the buffer, the channel from the
source), that the last ends with what was sent (`Flow`), that what poll found still holds
of streams the scan has not come to (`Found`), and that a stream is removed only when it
was handed on whole (`Removed`).

**Announce, super server, spawn.**  `LockHeld` is inductive once the types are known.
`AddressLive` says something only when all servers are done; `AddressInv` is what holds
on the way: while none was killed or failed, a missing file means somebody is about to bind again,
a closed one that somebody is about to open it, and the file leads to a server that bound
it once any did.  `SpawnInv` says in which order caller, launcher, reaper and server live
(`Order`), that a socket listens as long as one of them has it (`Socket`), where an
address of its own leads (`Address`), and what is left to remove (`Cleaned`).

**A program run for a client.**  `ExecInv` has three parts.  Bytes: what was written is
what was read and what is under way; a place that poll found something at has bytes or no
writer; a place that is closed was read to its end, or the buffer is full.  Processes: the
child begins with what the handler has.  The status: what is told was given by
`waitpid()`, or there never was a child, and it is not the one of a hang-up.

**Sessions.**  `ServeInv`: `Control` says which services a place of the handler can
belong to and what its client was answered; `Processes` that a process the handler found
was there once, and that what was there at the first look has no later generation than
what is there now; `Listing` that the list has the processes up to the entry of `/proc`
the handler has come to; `Copying` that output and remaining input are the input, and
that the output has each stream's bytes in their order (a witness for the order is
carried along, `CopiedTo`); `Telling` what each status stands for; `Tunnelling` which
delimiters russssh2 has passed.  That `consume_delimiter()` stops where the first delimiter
ends (`DelimEndClears`) rests on what its window is (`WindowIs`): the last bytes that were
read, or, after the buffer was full and until a delimiter's length is read again, one that
begins with a byte of the buffer's beginning.

**Chains of forwarding servers.**  First the operators: what `Applied()` (the settings of
russset, one after the other) and `Resolve()` (links, one after the other) compute is a
function given by recursion on numbers, which exists by the least number for which it
would not (`MakesFor`, `WalksFor`); what russset does to the attributes keeps the count of
russplus or makes it what the last setting that names it says (`UpdateKeeps`,
`UpdateCounts`, `AppliedMakes`), what russplus does raises it (`CountedRaises`), and the
other handlers pass it on (`HandlePasses`).  Then the chain: a process is there only when
all before it have dialed, so that the servers before a process and their requests never
change any more, and the count of a request is what the last of them that set it made it,
and the number of plus servers since (`Carries`).

**Configuration.**  `ConfInv` is small: no two sections of an object have one name, no two
items of a section have one option, and every array has places for its elements.  Unique
keys are what makes the first element found the only one, so that an array is a map
(`ItemMapIs`, `ConfMapIs`) and moving the last element into a gap loses none.  The work is
in the operators.

1. What an array operation does to the map: replace, append, grow, vacate (`PutIs`,
   `AddedIs`, `SetInIs`, `OptionRemoved`, `SectionRemoved`).
2. The loops of conf.c are functions given by recursion on numbers.  Such a function
   exists, since otherwise there were a least number of turns for which it did not
   (`LeastNumber`, `LoopMakes`), and what each turn keeps holds at the end (`Turns`).
3. Merging item by item, section by section, is merging of maps (`SetAllIs`,
   `UpdatedIs`), with the algebra of maps this needs (`WithTwice`, `WithMerge`, ...).
4. Reading.  What a file says is what it makes of an empty object (`FileMap`), but it may
   be read into one with contents: both readings are followed line by line, and one is
   always the other merged into what was there (`ReadFromIs`).
5. Writing and reading.  The lines that are written are those of the sections, one after
   the other (`WrittenLayout`); reading the lines of a section makes that section
   (`ReadSectionLines`), so reading all makes the object and a section DEFAULT
   (`PassIs`).
6. The refinement, one lemma for each call: the step of the arrays is the one that
   `Effect` of `RussMap` allows for that call (`AddSectionStep` to `ReadStep`).

Assumptions, all named in the modules and evaluated by TLC on the instances:

* `ConnAssumption`, `LisAssumption`: statuses, "no status" and a lost connection are
  different values; the listen descriptor is none of a connection's.
* `RelayAssumption`: buffers and channels have room for a byte, and poll promises a
  writer no more than there is.  Nothing relates the sizes of buffers and channels.
* `AnnounceAssumption`, `SuperAssumption`, `SpawnAssumption`: the kinds of the constants.
* `CollectAssumption`, `ExecAssumption`: a channel takes one piece of what is written;
  statuses are bytes; the status of a descriptor that hung up (`RUSS_EXIT_EXITFDCLOSED`,
  125, `russ.h:71`) is not 0 and not the number of SIGHUP or SIGKILL.
* `SessionAssumption`, `ProcAssumption`, `RemoteAssumption`, `ServeAssumption`: the four
  statuses of the library are different, a wait that is late has one of its own, a buffer
  holds two delimiters (16384 bytes and about 33: the copy at a refill does not overlap),
  texts are sequences.
* `LoginAssumption` (for `TunnelCleanAlways` only): on each stream of a `tunnelr` a
  delimiter comes within the first buffer, 16384 bytes; or there is not more than one, and
  none of the bytes before the length of one is its first byte, an underscore.  The code
  does not check this.  A full buffer is refilled with its beginning, not with its end
  (`russssh2_server.c:191`), so a delimiter that lies across the end of the buffer is missed
  and a second one would be taken for the first.
* `ConfAssumption`, `FileAssumption`: arrays grow by at least one place, there is a section
  DEFAULT, and a file is a sequence of lines.
* `ForwardAssumption`, `SiteAssumption`: paths that are configured are sequences.
* `CallAssumption`: the path and the attributes of a call are sequences, and what `atoi()`
  makes of a loop count, in a call or a setting, is an int.

## Plan

Done, in this order: `RussCall`, `RussConn`, `RussConnProofs`; `RussRelay`;
`RussAnnounce`, `RussSuper`, `RussSuperProofs`; `RussMap`, `RussConf`; `RussCollect`,
`RussExec`; `RussSpawn`; `RussForward`; `RussSession`, `RussProc`, `RussRemote`,
`RussServe`; then the other proofs: the answer of `RussConn` and its refinement of
`RussCall`, `RussRelay`, `RussExec`, `RussSpawn`, `RussServe`, the loop count of
`RussForward`, and the refinement of `RussMap` by `RussConf`.

The abstract specifications, `RussCall` and `RussMap`, are proved to be implemented.

## What is not modelled

* The wire format, byte by byte: a request is complete or short (`encdec.c`).
* The command line of ssh, made from the options of a path; names of hosts and their
  comparison with the local one, which is a set of names.
* `rureap`, which does for a given command what the reaper of `russ_start()` does.
* The contents of lists of the servers that ask other servers for them (`russmredir`
  and `russplus` at their root): the status of such a list is in `RussForward`.
* Threads that share the descriptors of a process: the threaded loop runs only the
  handler of russalive, which has no state.
* The python library repeats the protocol over the C library through `ctypes`, and its
  tools are scripts around dials.
* Wrappers of system calls (time, users, environment, memory) are choices of outcomes.
* Exhaustion of memory: the code returns NULL and most callers do not look.

## What is only model-checked

* Liveness, and everything that needs fairness or `ENABLED`: `DialEnds`, `WaitEnds`,
  `RelayEnds`, `InputEnds`, `HandlerEnds`, `SpawnCleans`, `CallerEnds`, `CollectEnds`,
  `HangUpEnds`, `DeathHeard`, `DialReturns`, `Reaches`, `Unwinds`, `LeavingEnds`.
* `AsAsked` of `RussForward`: where a call is to come out is written down beside each
  call of the instance, so the property has no statement for all of them.
* The disagreements of code and documentation, `super_race`, `collect_hup` and
  `wait_forever`: counterexamples, which are runs and not theorems.  Others, of which no run
  is made, are told with the modules: the argument of `-d` without a colon (`RussConf`), a
  request that came short (`RussConn`), a russset in a circle and the last entry of a
  legacy targets file (`RussForward`), an interval alone (`RussServe`).
