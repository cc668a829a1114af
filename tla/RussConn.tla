------------------------------ MODULE RussConn ------------------------------
(***************************************************************************)
(* One forking russ server and its clients: the dial (cconn.c), the accept *)
(* loop with its two forks (svr-fork.c), the dispatcher (svr.c) and the    *)
(* answer and exit of a connection (sconn.c, fd.c, socket.c).              *)
(*                                                                         *)
(* The kernel's part is the descriptor tables.  A descriptor names a       *)
(* connection, a side ("s" server, "c" client) and a channel: the socket,  *)
(* the exit pipe, or one of the standard streams.  What a peer sees of a   *)
(* channel (end of file, hang-up, EPIPE) is a function of who still holds  *)
(* the other end: a process, or the socket while the descriptor is in      *)
(* flight.                                                                 *)
(***************************************************************************)
EXTENDS Integers, Sequences, FiniteSets

CONSTANTS
    Conns,          \* the dials; each is a client process of its own
    Statuses,       \* exit statuses services give
    Success,        \* RUSS_EXIT_SUCCESS
    Failure,        \* RUSS_EXIT_FAILURE
    NStd,           \* RUSS_CONN_STD_NFDS
    CloseOnAccept,  \* settings of main:closeonaccept
    Lis,            \* the listen socket's descriptor
    NoConn, NoStatus, Lost

ASSUME ConnAssumption ==
    /\ NStd \in Nat
    /\ CloseOnAccept \subseteq BOOLEAN
    /\ {Success, Failure} \subseteq Statuses
    /\ NoStatus \notin Statuses
    /\ Lost \notin Statuses \cup {NoStatus}
    /\ NoConn \notin Conns

Exit == 0                \* the system descriptor RUSS_CONN_SYSFD_EXIT
Std == 1..NStd           \* the standard descriptors, 1 for stdin and so on
Slots == 0..NStd         \* positions of a cconn's sysfds and fds arrays
Sock == NStd + 1         \* the dialed socket
NoFd == -1

D(c, side, ch) == [conn |-> c, side |-> side, chan |-> ch]
Desc == [conn : Conns, side : {"c", "s"}, chan : 0..NStd + 1]

ASSUME LisAssumption == Lis \notin Desc

\* What travels from server to client over the dialed socket: the count and
\* statuses of a descriptor array, as the set of positions filled, then one
\* message for each descriptor.
Hdr(idx) == [k |-> "hdr", idx |-> idx, ch |-> NoFd]
Fd(ch) == [k |-> "fd", idx |-> {}, ch |-> ch]
Items == [k : {"hdr"}, idx : SUBSET Slots, ch : {NoFd}] \cup [k : {"fd"}, idx : {{}}, ch : Slots]

VARIABLES
    closeonaccept,  \* the server's setting
    lpc,      \* where the accept loop is
    cur,      \* the connection the loop is serving
    ltab,     \* descriptors of the listening process
    pending,  \* connected, not accepted: the listen queue
    mpc,      \* mpc[c]: the first child forked for c
    mtab,     \* mtab[c]: its descriptors
    hpc,      \* hpc[c]: the handler process, the child's child
    htab,     \* htab[c]: its descriptors
    route,    \* route[c]: which way the dispatcher sent the request ("again": and
              \* the service answered it twice)
    offer,    \* offer[c]: standard streams the service answers with
    left,     \* left[c]: positions of the current array not yet sent
    wire,     \* wire[c]: sent and not yet received
    pipe,     \* pipe[c]: statuses in the exit pipe
    said,     \* said[c]: history: the first status written to the exit pipe
    cpc,      \* cpc[c]: where the client's dial is
    csock,    \* csock[c]: the client's end of the socket is open
    req,      \* req[c]: how much of the request has been written
    want,     \* want[c]: positions the client has still to receive
    slot,     \* slot[c]: sysfds and fds of the client's connection object
    evbuf,    \* evbuf[c]: the status read from the exit pipe
    res       \* res[c]: what the last russ_cconn_wait() returned

loopvars == <<lpc, cur, ltab, pending>>
midvars == <<mpc, mtab>>
hndvars == <<hpc, htab, route, offer, left>>
kernvars == <<wire, pipe, said>>
clivars == <<cpc, csock, req, want, slot, evbuf, res>>
state == <<loopvars, midvars, hndvars, kernvars, clivars>>
vars == <<closeonaccept, state>>

-----------------------------------------------------------------------------
(* The kernel's view of who holds what.                                    *)

SrvSock(c) == D(c, "s", Sock)
ExitW(c) == D(c, "s", Exit)
StdEnds(c) == {D(c, side, ch) : side \in {"c", "s"}, ch \in Std}

\* Some process of the server's side has the descriptor.
Held(d) ==
    \/ d \in ltab
    \/ \E k \in Conns : d \in mtab[k] \/ d \in htab[k]

InFlight(c, ch) == \E i \in DOMAIN wire[c] : wire[c][i] = Fd(ch)
ClientHas(c, ch) == \E s \in Slots : slot[c][s] = ch

\* The client reads end of file or gets EPIPE on its socket: the connection
\* waits in no live listen queue and no process has the server's end.
ServerGone(c) ==
    /\ ~Held(SrvSock(c))
    /\ c \in pending => ~Held(Lis)

\* A write to the exit pipe does not fail: somebody can still read it.
ExitReader(c) ==
    \/ ClientHas(c, Exit)
    \/ InFlight(c, Exit)
    \/ Held(D(c, "c", Exit))

Init ==
    /\ closeonaccept \in CloseOnAccept
    /\ lpc = "accept" /\ cur = NoConn
    /\ ltab = {Lis} /\ pending = {}
    /\ mpc = [c \in Conns |-> "none"]
    /\ mtab = [c \in Conns |-> {}]
    /\ hpc = [c \in Conns |-> "none"]
    /\ htab = [c \in Conns |-> {}]
    /\ route = [c \in Conns |-> "none"]
    /\ offer = [c \in Conns |-> {}]
    /\ left = [c \in Conns |-> {}]
    /\ wire = [c \in Conns |-> <<>>]
    /\ pipe = [c \in Conns |-> <<>>]
    /\ said = [c \in Conns |-> NoStatus]
    /\ cpc = [c \in Conns |-> "idle"]
    /\ csock = [c \in Conns |-> FALSE]
    /\ req = [c \in Conns |-> "none"]
    /\ want = [c \in Conns |-> {}]
    /\ slot = [c \in Conns |-> [s \in Slots |-> NoFd]]
    /\ evbuf = [c \in Conns |-> NoStatus]
    /\ res = [c \in Conns |-> "unset"]
-----------------------------------------------------------------------------
(* The accept loop (russ_svr_loop_fork).                                   *)

MaybeCloseLis == IF closeonaccept THEN {Lis} ELSE {}

\* A pending connection is accepted; the loop owns its socket.
Accept(c) ==
    /\ lpc = "accept" /\ Lis \in ltab
    /\ c \in pending
    /\ pending' = pending \ {c}
    /\ ltab' = (ltab \cup {SrvSock(c)}) \ MaybeCloseLis
    /\ cur' = c
    /\ lpc' = "fork"
    /\ UNCHANGED <<midvars, hndvars, kernvars, clivars>>

\* No connection came in time, or the one that came was dropped because its
\* credentials could not be read; the loop closes the listen socket all the
\* same when it is told to close on accept.
AcceptFail ==
    /\ lpc = "accept" /\ Lis \in ltab
    /\ \/ pending = {} /\ UNCHANGED pending
       \/ \E c \in pending : pending' = pending \ {c}
    /\ ltab' = ltab \ MaybeCloseLis
    /\ UNCHANGED <<lpc, cur, midvars, hndvars, kernvars, clivars>>

\* The loop ends with the listen socket; the caller of russ_svr_loop() exits.
LoopEnd ==
    /\ lpc = "accept" /\ Lis \notin ltab
    /\ lpc' = "done"
    /\ ltab' = {}
    /\ UNCHANGED <<cur, pending, midvars, hndvars, kernvars, clivars>>

\* fork() of the first child: it inherits every descriptor of the loop.  When
\* the fork fails the loop goes on as if it were the parent.
Fork ==
    /\ lpc = "fork"
    /\ \/ /\ mpc' = [mpc EXCEPT ![cur] = "forked"]
          /\ mtab' = [mtab EXCEPT ![cur] = ltab]
       \/ UNCHANGED midvars
    /\ lpc' = "close"
    /\ UNCHANGED <<cur, ltab, pending, hndvars, kernvars, clivars>>

\* Mutant: the parent keeps the accepted socket.
LoopKeep ==
    /\ lpc = "close"
    /\ lpc' = "wait"
    /\ UNCHANGED <<cur, ltab, pending, midvars, hndvars, kernvars, clivars>>

\* russ_sconn_close() in the parent.
LoopClose ==
    /\ lpc = "close"
    /\ ltab' = ltab \ {SrvSock(cur)}
    /\ lpc' = "wait"
    /\ UNCHANGED <<cur, pending, midvars, hndvars, kernvars, clivars>>

\* waitpid() returns: the first child has exited, or there never was one.
LoopWait ==
    /\ lpc = "wait"
    /\ mpc[cur] \in {"none", "dead"}
    /\ lpc' = "accept"
    /\ cur' = NoConn
    /\ UNCHANGED <<ltab, pending, midvars, hndvars, kernvars, clivars>>

LoopKill ==
    /\ lpc \notin {"done", "killed"}
    /\ lpc' = "killed"
    /\ ltab' = {}
    /\ UNCHANGED <<cur, pending, midvars, hndvars, kernvars, clivars>>

-----------------------------------------------------------------------------
(* The first child.                                                        *)

MidCloseLis(c) ==
    /\ mpc[c] = "forked"
    /\ mpc' = [mpc EXCEPT ![c] = "closed"]
    /\ mtab' = [mtab EXCEPT ![c] = @ \ {Lis}]
    /\ UNCHANGED <<loopvars, hndvars, kernvars, clivars>>

\* fork() of the handler process, which inherits the table; a failed fork is
\* not looked at and leaves no handler.
MidFork(c) ==
    /\ mpc[c] = "closed"
    /\ mpc' = [mpc EXCEPT ![c] = "exiting"]
    /\ \/ /\ hpc' = [hpc EXCEPT ![c] = "await"]
          /\ htab' = [htab EXCEPT ![c] = mtab[c]]
       \/ UNCHANGED <<hpc, htab>>
    /\ UNCHANGED <<loopvars, mtab, route, offer, left, kernvars, clivars>>

\* Mutant: the first child does not exit after its fork.
MidLinger(c) ==
    /\ mpc[c] \in {"forked", "closed"}
    /\ mpc' = [mpc EXCEPT ![c] = "dead"]
    /\ mtab' = [mtab EXCEPT ![c] = {}]
    /\ UNCHANGED <<loopvars, hndvars, kernvars, clivars>>

\* exit(0), or a kill at any earlier point.
MidExit(c) ==
    /\ mpc[c] \in {"forked", "closed", "exiting"}
    /\ mpc' = [mpc EXCEPT ![c] = "dead"]
    /\ mtab' = [mtab EXCEPT ![c] = {}]
    /\ UNCHANGED <<loopvars, hndvars, kernvars, clivars>>

-----------------------------------------------------------------------------
(* The handler process (russ_svr_handler).                                 *)

\* russ_sconn_exit(): close the streams; write the status if the exit
\* descriptor is known, and close it once the write succeeded.
CanSay(c) == ExitW(c) \in htab[c] /\ route[c] # "again" /\ ExitReader(c)
\* Mutant: the exit descriptor stays open after the status was written.
ExitTabOpen(c) == htab[c] \ {D(c, "s", ch) : ch \in Std}
ExitTab(c) ==
    htab[c] \ ({D(c, "s", ch) : ch \in Std} \cup (IF CanSay(c) THEN {ExitW(c)} ELSE {}))
ExitPipe(c, st) == IF CanSay(c) THEN Append(pipe[c], st) ELSE pipe[c]
ExitSaid(c, st) == IF CanSay(c) /\ said[c] = NoStatus THEN st ELSE said[c]
SendExit(c, st) ==
    /\ pipe' = [pipe EXCEPT ![c] = ExitPipe(c, st)]
    /\ said' = [said EXCEPT ![c] = ExitSaid(c, st)]

Goto(c, pc) == hpc' = [hpc EXCEPT ![c] = pc]

\* What the request turns out to be: a bad operation or a relative path is
\* dropped, an unknown path is refused, and a service is answered for
\* ("auto") or left to answer for itself ("manual").
Dispatch(c) ==
    \/ /\ route' = [route EXCEPT ![c] = "bad"]
       /\ Goto(c, "cleanup")
       /\ UNCHANGED offer
    \/ /\ \E r \in {"missing", "auto"} : route' = [route EXCEPT ![c] = r]
       /\ offer' = [offer EXCEPT ![c] = Std]
       /\ Goto(c, "pipes")
    \/ /\ route' = [route EXCEPT ![c] = "manual"]
       /\ Goto(c, "verify")
       /\ UNCHANGED offer

AwaitReq(c) ==
    /\ hpc[c] = "await"
    /\ req[c] = "full"
    /\ Dispatch(c)
    /\ UNCHANGED <<loopvars, midvars, htab, left, kernvars, clivars>>

\* The client closed, or the await deadline passed, before the whole request
\* came.  russ_sconn_await_req() does not notice a short read and decodes
\* what it has: nothing decodes to no request; the first part of a request,
\* in a fresh stack, to no request or to another one: the path, the operation
\* or the arguments cut off where the bytes end.
AwaitShort(c) ==
    /\ hpc[c] = "await"
    /\ req[c] # "full"
    /\ \/ /\ Goto(c, "cleanup")
          /\ UNCHANGED <<route, offer>>
       \/ /\ req[c] = "part"
          /\ Dispatch(c)
    /\ UNCHANGED <<loopvars, midvars, htab, left, kernvars, clivars>>

AfterAnswer(c) ==
    IF route[c] = "missing" THEN "refuse" ELSE IF route[c] = "auto" THEN "verify" ELSE "handler"
AfterNoAnswer(c) ==
    IF route[c] = "missing" THEN "refuse" ELSE IF route[c] = "auto" THEN "cleanup" ELSE "handler"

\* russ_make_pipes() for the standard streams and the exit pipe.
MakePipes(c) ==
    /\ hpc[c] = "pipes"
    /\ htab' = [htab EXCEPT ![c] =
                   @ \cup {D(c, side, ch) : side \in {"c", "s"}, ch \in offer[c] \cup {Exit}}]
    /\ Goto(c, "syshdr")
    /\ UNCHANGED <<loopvars, midvars, route, offer, left, kernvars, clivars>>

MakePipesFail(c) ==
    /\ hpc[c] = "pipes"
    /\ Goto(c, AfterNoAnswer(c))
    /\ UNCHANGED <<loopvars, midvars, htab, route, offer, left, kernvars, clivars>>

\* Both ends go through the two descriptor arrays the same way: a header, then
\* the descriptors it announces, lowest position first.
NextPc(pc, more, end) ==
    IF pc \in {"syshdr", "sysfds"}
    THEN IF more THEN "sysfds" ELSE "stdhdr"
    ELSE IF more THEN "stdfds" ELSE end
IsFirst(i, idx) == i \in idx /\ \A j \in idx : i <= j

\* russ_sconn_send_fds(), one message: a descriptor that was sent is closed.
\* After the last message of the second array the socket is closed.
Transmit(c, it, rem) ==
    LET last == hpc[c] \in {"stdhdr", "stdfds"} /\ rem = {}
    IN  /\ csock[c]
        /\ wire' = [wire EXCEPT ![c] = Append(@, it)]
        /\ left' = [left EXCEPT ![c] = rem]
        /\ htab' = [htab EXCEPT ![c] =
                       @ \ ((IF it.k = "fd" THEN {D(c, "c", it.ch)} ELSE {})
                              \cup (IF last THEN {SrvSock(c)} ELSE {}))]
        /\ Goto(c, NextPc(hpc[c], rem # {}, AfterAnswer(c)))
        /\ UNCHANGED <<loopvars, midvars, route, offer, pipe, said, clivars>>

\* Mutant: the header counts one descriptor too many.
SendHdrExtra(c) ==
    \/ hpc[c] = "syshdr" /\ Transmit(c, Hdr({Exit}), {Exit})
    \/ hpc[c] = "stdhdr" /\ Transmit(c, Hdr(offer[c] \cup {NStd + 1}), offer[c])

SendHdr(c) ==
    \/ hpc[c] = "syshdr" /\ Transmit(c, Hdr({Exit}), {Exit})
    \/ hpc[c] = "stdhdr" /\ Transmit(c, Hdr(offer[c]), offer[c])

SendFd(c) ==
    /\ hpc[c] \in {"sysfds", "stdfds"}
    /\ \E i \in left[c] : IsFirst(i, left[c]) /\ Transmit(c, Fd(i), left[c] \ {i})

\* The client is gone: the answer fails and takes its pipes and the socket
\* with it; a handler that answers for itself keeps the streams it made.
SendFail(c) ==
    /\ hpc[c] \in {"syshdr", "sysfds", "stdhdr", "stdfds"}
    /\ ~csock[c]
    /\ left' = [left EXCEPT ![c] = {}]
    /\ htab' = [htab EXCEPT ![c] =
                   @ \ ({SrvSock(c), ExitW(c), D(c, "c", Exit)}
                          \cup (IF route[c] = "manual" THEN {} ELSE StdEnds(c)))]
    /\ Goto(c, AfterNoAnswer(c))
    /\ UNCHANGED <<loopvars, midvars, route, offer, kernvars, clivars>>

\* No such service: russ_sconn_fatal() after the answer.
Refuse(c) ==
    /\ hpc[c] = "refuse"
    /\ SendExit(c, Failure)
    /\ htab' = [htab EXCEPT ![c] = ExitTab(c)]
    /\ Goto(c, "cleanup")
    /\ UNCHANGED <<loopvars, midvars, route, offer, left, wire, clivars>>

\* Switching user, and the checks of the user: the service runs or the client
\* is turned away.
Verify(c) ==
    /\ hpc[c] = "verify"
    /\ \/ /\ Goto(c, "handler")
          /\ UNCHANGED <<htab, route, pipe, said>>
       \/ /\ SendExit(c, Failure)
          /\ htab' = [htab EXCEPT ![c] = ExitTab(c)]
          /\ route' = [route EXCEPT ![c] = "denied"]
          /\ Goto(c, "cleanup")
    /\ UNCHANGED <<loopvars, midvars, offer, left, wire, clivars>>

\* What a service handler may do: answer for itself with some of the streams,
\* send an exit status, return, or end the process.
HandlerAnswer(c, idx) ==
    /\ hpc[c] = "handler"
    /\ route[c] = "manual" /\ SrvSock(c) \in htab[c]
    /\ offer' = [offer EXCEPT ![c] = idx]
    /\ Goto(c, "pipes")
    /\ UNCHANGED <<loopvars, midvars, htab, route, left, kernvars, clivars>>

\* It answers a second time, on the socket the first answer closed: that fails,
\* and russ_sconn_answer() has forgotten the exit descriptor by then.  It stays
\* open until the process ends, and no status can be given.
HandlerAnswerAgain(c) ==
    /\ hpc[c] = "handler"
    /\ SrvSock(c) \notin htab[c] /\ ExitW(c) \in htab[c]
    /\ route' = [route EXCEPT ![c] = "again"]
    /\ UNCHANGED <<loopvars, midvars, hpc, htab, offer, left, kernvars, clivars>>

HandlerExit(c, st) ==
    /\ hpc[c] = "handler"
    /\ SendExit(c, st)
    /\ htab' = [htab EXCEPT ![c] = ExitTab(c)]
    /\ UNCHANGED <<loopvars, midvars, hpc, route, offer, left, wire, clivars>>

HandlerReturn(c) ==
    /\ hpc[c] = "handler"
    /\ Goto(c, "fallback")
    /\ UNCHANGED <<loopvars, midvars, htab, route, offer, left, kernvars, clivars>>

\* The fallback for what the handler left undone: a list, the help text or the
\* server's information with success, a refusal with failure, or (a virtual
\* node, a server without help) nothing.
Fallback(c) ==
    /\ hpc[c] = "fallback"
    /\ \/ /\ \E st \in {Success, Failure} : SendExit(c, st)
          /\ htab' = [htab EXCEPT ![c] = ExitTab(c)]
       \/ UNCHANGED <<htab, pipe, said>>
    /\ Goto(c, "cleanup")
    /\ UNCHANGED <<loopvars, midvars, route, offer, left, wire, clivars>>

\* Mutant: no failsafe status before the descriptors are closed.
CleanupSilent(c) ==
    /\ hpc[c] = "cleanup"
    /\ htab' = [htab EXCEPT ![c] = {}]
    /\ Goto(c, "done")
    /\ UNCHANGED <<loopvars, midvars, route, offer, left, kernvars, clivars>>

\* The failsafe: a last status if none was given, then russ_sconn_close() and
\* the end of the process.
Cleanup(c) ==
    /\ hpc[c] = "cleanup"
    /\ SendExit(c, Failure)
    /\ htab' = [htab EXCEPT ![c] = {}]
    /\ Goto(c, "done")
    /\ UNCHANGED <<loopvars, midvars, route, offer, left, wire, clivars>>

\* The process is killed, or a handler calls exit() itself.
HandlerKill(c) ==
    /\ hpc[c] \notin {"none", "done", "killed"}
    /\ Goto(c, "killed")
    /\ htab' = [htab EXCEPT ![c] = {}]
    /\ left' = [left EXCEPT ![c] = {}]
    /\ UNCHANGED <<loopvars, midvars, route, offer, kernvars, clivars>>

-----------------------------------------------------------------------------
(* The client (russ_dialv, russ_cconn_wait).                               *)

\* russ_cconn_close() and the end of the client's interest: what was in
\* flight to it is dropped with its socket.
Drop(c, pc) ==
    /\ cpc' = [cpc EXCEPT ![c] = pc]
    /\ csock' = [csock EXCEPT ![c] = FALSE]
    /\ slot' = [slot EXCEPT ![c] = [s \in Slots |-> NoFd]]
    /\ want' = [want EXCEPT ![c] = {}]
    /\ wire' = [wire EXCEPT ![c] = <<>>]
    /\ UNCHANGED <<loopvars, midvars, hndvars, pipe, said, evbuf, res>>

Connect(c) ==
    /\ cpc[c] = "idle"
    /\ Held(Lis)
    /\ pending' = pending \cup {c}
    /\ cpc' = [cpc EXCEPT ![c] = "send"]
    /\ csock' = [csock EXCEPT ![c] = TRUE]
    /\ UNCHANGED <<lpc, cur, ltab, midvars, hndvars, kernvars, req, want, slot, evbuf, res>>

ConnectFail(c) ==
    /\ cpc[c] = "idle"
    /\ Drop(c, "failed")
    /\ UNCHANGED req

\* The socket takes a part of the request.
SendPart(c) ==
    /\ cpc[c] = "send" /\ req[c] = "none"
    /\ ~ServerGone(c)
    /\ req' = [req EXCEPT ![c] = "part"]
    /\ UNCHANGED <<loopvars, midvars, hndvars, kernvars, cpc, csock, want, slot, evbuf, res>>

SendReq(c) ==
    /\ cpc[c] = "send"
    /\ ~ServerGone(c)
    /\ req' = [req EXCEPT ![c] = "full"]
    /\ cpc' = [cpc EXCEPT ![c] = "syshdr"]
    /\ UNCHANGED <<loopvars, midvars, hndvars, kernvars, csock, want, slot, evbuf, res>>

\* The deadline passes before the request is left, or the server is gone.
SendReqFail(c) ==
    /\ cpc[c] = "send"
    /\ \E r \in {req[c], "part"} : req' = [req EXCEPT ![c] = r]
    /\ Drop(c, "failed")

\* One message taken from the socket, which is closed when the second array is
\* complete.
Advance(c, rem) ==
    LET pc == NextPc(cpc[c], rem # {}, "dialed")
    IN  /\ want' = [want EXCEPT ![c] = rem]
        /\ cpc' = [cpc EXCEPT ![c] = pc]
        /\ csock' = [csock EXCEPT ![c] = pc # "dialed"]
        /\ wire' = [wire EXCEPT ![c] = IF pc = "dialed" THEN <<>> ELSE Tail(@)]
        /\ UNCHANGED <<loopvars, midvars, hndvars, pipe, said, req, evbuf, res>>

RecvHdr(c) ==
    /\ cpc[c] \in {"syshdr", "stdhdr"}
    /\ wire[c] # <<>> /\ Head(wire[c]).k = "hdr"
    /\ Advance(c, Head(wire[c]).idx)
    /\ UNCHANGED slot

\* Mutant: announced positions are filled from the last one.
RecvFdBackwards(c) ==
    /\ cpc[c] \in {"sysfds", "stdfds"}
    /\ wire[c] # <<>> /\ Head(wire[c]).k = "fd"
    /\ \E i \in want[c] :
          /\ \A j \in want[c] : j <= i
          /\ slot' = [slot EXCEPT ![c] = [@ EXCEPT ![i] = Head(wire[c]).ch]]
          /\ Advance(c, want[c] \ {i})

\* The first position that was announced and is empty gets the descriptor.
RecvFd(c) ==
    /\ cpc[c] \in {"sysfds", "stdfds"}
    /\ wire[c] # <<>> /\ Head(wire[c]).k = "fd"
    /\ \E i \in want[c] :
          /\ IsFirst(i, want[c])
          /\ slot' = [slot EXCEPT ![c] = [@ EXCEPT ![i] = Head(wire[c]).ch]]
          /\ Advance(c, want[c] \ {i})

\* End of file before the answer is complete.
RecvEof(c) ==
    /\ cpc[c] \in {"syshdr", "sysfds", "stdhdr", "stdfds"}
    /\ wire[c] = <<>> /\ ServerGone(c)
    /\ Drop(c, "failed")
    /\ UNCHANGED req

\* The deadline covers the headers only: russ_recv_fd() has none.
RecvTimeout(c) ==
    /\ cpc[c] \in {"syshdr", "stdhdr"}
    /\ Drop(c, "failed")
    /\ UNCHANGED req

\* russ_cconn_wait() on an established connection, one call.
WaitOk(c) ==
    /\ cpc[c] = "dialed" /\ slot[c][Exit] = Exit
    /\ pipe[c] # <<>>
    /\ evbuf' = [evbuf EXCEPT ![c] = Head(pipe[c])]
    /\ pipe' = [pipe EXCEPT ![c] = Tail(@)]
    /\ slot' = [slot EXCEPT ![c] = [@ EXCEPT ![Exit] = NoFd]]
    /\ res' = [res EXCEPT ![c] = "ok"]
    /\ UNCHANGED <<loopvars, midvars, hndvars, wire, said, cpc, csock, req, want>>

\* Mutant: an empty exit pipe is taken for a hang-up.
WaitHupEmpty(c) ==
    /\ cpc[c] = "dialed" /\ slot[c][Exit] = Exit
    /\ pipe[c] = <<>>
    /\ res' = [res EXCEPT ![c] = "hup"]
    /\ UNCHANGED <<loopvars, midvars, hndvars, kernvars, cpc, csock, req, want, slot, evbuf>>

\* Mutant: the hang-up event is not looked at, the wait polls again.
WaitHupUnseen(c) ==
    /\ cpc[c] = "dialed" /\ slot[c][Exit] = Exit
    /\ pipe[c] = <<>>
    /\ ~Held(ExitW(c))
    /\ UNCHANGED state

WaitHup(c) ==
    /\ cpc[c] = "dialed" /\ slot[c][Exit] = Exit
    /\ pipe[c] = <<>>
    /\ ~Held(ExitW(c))
    /\ res' = [res EXCEPT ![c] = "hup"]
    /\ UNCHANGED <<loopvars, midvars, hndvars, kernvars, cpc, csock, req, want, slot, evbuf>>

\* The deadline passed, with or without a status to read; a caller that was
\* told of a hang-up does not ask again.
WaitTimeout(c) ==
    /\ cpc[c] = "dialed" /\ slot[c][Exit] = Exit
    /\ res[c] # "hup"
    /\ res' = [res EXCEPT ![c] = "timeout"]
    /\ UNCHANGED <<loopvars, midvars, hndvars, kernvars, cpc, csock, req, want, slot, evbuf>>

\* The client closes its connection or dies.
Leave(c) ==
    /\ cpc[c] \notin {"idle", "failed", "left"}
    /\ Drop(c, "left")
    /\ UNCHANGED req

-----------------------------------------------------------------------------
Loop == (\E c \in Conns : Accept(c)) \/ AcceptFail \/ LoopEnd \/ Fork \/ LoopClose \/ LoopWait \/ LoopKill

Mid(c) == MidCloseLis(c) \/ MidFork(c) \/ MidExit(c)

Handler(c) ==
    \/ AwaitReq(c) \/ AwaitShort(c)
    \/ MakePipes(c) \/ MakePipesFail(c) \/ SendHdr(c) \/ SendFd(c) \/ SendFail(c)
    \/ Refuse(c) \/ Verify(c)
    \/ \E idx \in SUBSET Std : HandlerAnswer(c, idx)
    \/ \E st \in Statuses : HandlerExit(c, st)
    \/ HandlerAnswerAgain(c) \/ HandlerReturn(c) \/ Fallback(c) \/ Cleanup(c) \/ HandlerKill(c)

Client(c) ==
    \/ Connect(c) \/ ConnectFail(c) \/ SendPart(c) \/ SendReq(c) \/ SendReqFail(c)
    \/ RecvHdr(c) \/ RecvFd(c) \/ RecvEof(c) \/ RecvTimeout(c)
    \/ WaitOk(c) \/ WaitHup(c) \/ WaitTimeout(c) \/ Leave(c)

Next ==
    /\ Loop \/ \E c \in Conns : Mid(c) \/ Handler(c) \/ Client(c)
    /\ UNCHANGED closeonaccept

Spec == Init /\ [][Next]_vars

\* The kernel runs every process: the loop and both children take the steps
\* they can, the listen queue does not pass over a connection for ever, and
\* the await deadline passes.  Handlers return (a service that never does keeps
\* its connection open).  Clients keep reading and waiting, without a deadline.
HandlerStep(c) ==
    \/ AwaitReq(c) \/ AwaitShort(c)
    \/ MakePipes(c) \/ MakePipesFail(c) \/ SendHdr(c) \/ SendFd(c) \/ SendFail(c)
    \/ Refuse(c) \/ Verify(c) \/ Fallback(c) \/ Cleanup(c)

ClientStep(c) ==
    \/ SendReq(c) \/ SendReqFail(c) \/ RecvHdr(c) \/ RecvFd(c) \/ RecvEof(c)
    \/ WaitOk(c) \/ WaitHup(c)

Fairness ==
    /\ WF_state(Fork) /\ WF_state(LoopClose) /\ WF_state(LoopWait) /\ WF_state(LoopEnd)
    /\ \A c \in Conns :
          /\ SF_state(Accept(c))
          /\ WF_state(Mid(c))
          /\ WF_state(HandlerStep(c)) /\ SF_state(HandlerReturn(c))
          /\ WF_state(ClientStep(c))

FairSpec == Spec /\ Fairness

-----------------------------------------------------------------------------
(* Properties.                                                             *)

LoopPc == {"accept", "fork", "close", "wait", "done", "killed"}
MidPc == {"none", "forked", "closed", "exiting", "dead"}
HndPc == {"none", "await", "pipes", "syshdr", "sysfds", "stdhdr", "stdfds", "refuse", "verify", "handler",
          "fallback", "cleanup", "done", "killed"}
Routes == {"none", "bad", "missing", "auto", "manual", "again", "denied"}
CliPc == {"idle", "send", "syshdr", "sysfds", "stdhdr", "stdfds", "dialed", "failed", "left"}

\* Every variable has the type its declaration states.
TypeOK ==
    /\ closeonaccept \in BOOLEAN
    /\ lpc \in LoopPc
    /\ cur \in Conns \cup {NoConn}
    /\ ltab \subseteq Desc \cup {Lis}
    /\ pending \subseteq Conns
    /\ mpc \in [Conns -> MidPc]
    /\ mtab \in [Conns -> SUBSET (Desc \cup {Lis})]
    /\ hpc \in [Conns -> HndPc]
    /\ htab \in [Conns -> SUBSET (Desc \cup {Lis})]
    /\ route \in [Conns -> Routes]
    /\ offer \in [Conns -> SUBSET Std]
    /\ left \in [Conns -> SUBSET Slots]
    /\ wire \in [Conns -> Seq(Items)]
    /\ pipe \in [Conns -> Seq(Statuses)]
    /\ said \in [Conns -> Statuses \cup {NoStatus}]
    /\ cpc \in [Conns -> CliPc]
    /\ csock \in [Conns -> BOOLEAN]
    /\ req \in [Conns -> {"none", "part", "full"}]
    /\ want \in [Conns -> SUBSET Slots]
    /\ slot \in [Conns -> [Slots -> Slots \cup {NoFd}]]
    /\ evbuf \in [Conns -> Statuses \cup {NoStatus}]
    /\ res \in [Conns -> {"unset", "ok", "hup", "timeout"}]

\* The two forks and the closes between them keep connections apart: the loop
\* holds at most the socket it is serving, a child and a handler hold
\* descriptors of their own connection only, and the listen socket does not
\* outlive the loop in a handler.  Otherwise a client would not see the end of
\* its connection while another client's handler runs (svr-fork.c).
OwnDescriptors ==
    /\ ltab \subseteq {Lis} \cup (IF lpc \in {"fork", "close"} THEN {SrvSock(cur)} ELSE {})
    /\ \A c \in Conns :
          /\ mtab[c] \subseteq {SrvSock(c)} \cup (IF mpc[c] = "forked" THEN {Lis} ELSE {})
          /\ \A d \in htab[c] : d \in Desc /\ d.conn = c

\* Of all the calls of russ_sconn_exit() a request can go through (the service,
\* the fallback, the failsafe), the first that can be heard is the only one
\* that is: no second status enters the exit pipe, and a client reads that one.
FirstStatusOnly ==
    \A c \in Conns :
        /\ Len(pipe[c]) <= 1
        /\ pipe[c] # <<>> => evbuf[c] = NoStatus /\ pipe[c] = <<said[c]>>
        /\ evbuf[c] \in {NoStatus, said[c]}

\* An established connection has every descriptor the service offered, each at
\* its own position, and no other: a dial never succeeds with part of an answer
\* (russ_cconn_recv_fds).
CompleteAnswer ==
    \A c \in Conns : cpc[c] = "dialed" =>
        /\ \A s \in Std : slot[c][s] = IF s \in offer[c] THEN s ELSE NoFd
        /\ slot[c][Exit] = IF evbuf[c] = NoStatus THEN Exit ELSE NoFd

\* The failsafe of russ_svr_handler(): a handler process that ran to its end
\* leaves a status for every client that can still read one, but for a service that
\* answered twice.
FailsafeStatus ==
    \A c \in Conns : hpc[c] = "done" /\ route[c] # "again" /\ ClientHas(c, Exit) => pipe[c] # <<>>

\* What a dial promises (RussCall): one status, heard as it was said, and a
\* hang-up only when none was said.
Call == INSTANCE RussCall WITH
    call <- [c \in Conns |->
               IF cpc[c] \in {"dialed", "failed", "left"} THEN cpc[c] ELSE "dialing"],
    said <- said,
    heard <- [c \in Conns |-> IF res[c] = "hup" THEN Lost ELSE evbuf[c]]
ImplementsCall == Call!Spec

\* A dial comes to an end even without a deadline, whatever is killed and
\* whichever fork or pipe fails: nobody keeps the other end of the socket open.
DialEnds == \A c \in Conns : cpc[c] = "send" ~> cpc[c] \in {"dialed", "failed", "left"}

\* The client of an established connection gets the exit status or a hang-up.
WaitEnds == \A c \in Conns : cpc[c] = "dialed" ~> res[c] \in {"ok", "hup"} \/ cpc[c] = "left"
=============================================================================
