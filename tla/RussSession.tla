---------------------------- MODULE RussSession ----------------------------
(***************************************************************************)
(* One session of a service: the dispatcher answers the client (RussConn), *)
(* the handler runs, tells a status through the exit pipe and ends.  This  *)
(* module has what all handlers share, and the services of russdebug and   *)
(* russalive; RussProc has those of russproc, RussRemote those of russssh2 *)
(* and russtee, RussServe puts them together.                              *)
(***************************************************************************)
EXTENDS Integers, SequencesExt, FiniteSets

CONSTANTS
    Calls,      \* what is asked for: records with the service (svc), its arguments,
                \* whether the server ignores SIGPIPE (ignores) and, a bound, how
                \* many calls of the kernel fail (faults)
    Statuses, Success, Failure, CallFailure, SysFailure, NoStatus,
    MaxLines    \* a bound: lines of chargen that are told apart

ASSUME SessionAssumption ==
    /\ {Success, Failure, CallFailure, SysFailure} \subseteq Statuses
    /\ Cardinality({Success, Failure, CallFailure, SysFailure}) = 4
    /\ NoStatus \notin Statuses \cup 0..255
    /\ MaxLines \in Nat

VARIABLES
    call,       \* the call
    pc,         \* where the handler is
    client,     \* "here" or "left"; a client that left has closed every descriptor
    answer,     \* what it was answered with: "no", "session", "tunnel" or "nothing"
    said,       \* the status in the exit pipe
    out,        \* what was written to its output
    in,         \* its input that was not read
    shut,       \* it closed its input
    faults      \* how many calls failed

sessionVars == <<pc, client, answer, said, out, in, shut, faults>>

Svc(S) == call.svc \in S
Here == client = "here"
Fault == faults < call.faults /\ faults' = faults + 1
Goto(l) == pc' = l

SessionInit ==
    /\ call \in Calls
    /\ pc = "begin" /\ client = "here" /\ answer = "no" /\ said = NoStatus
    /\ out = <<>> /\ in = call.in /\ shut = FALSE /\ faults = 0

\* The handler ends without a status: exit(), a signal, or a fault of its own.
Die == Goto("gone") /\ UNCHANGED said
\* A write, and what comes after it.  To a client that left it fails, and no
\* handler but chargen looks, or it is the end: rustart, the servers that were
\* started by one that does, and the main() of russtee have SIGPIPE ignored; in
\* what ruspawn starts it is not.
Write(x) == out' = IF Here THEN Append(out, x) ELSE out
WriteThen(x, Then) == IF Here \/ call.ignores THEN Write(x) /\ Then ELSE Die /\ UNCHANGED out
\* russ_sconn_fatal(), russ_sconn_exit(), then exit().  There is an exit pipe
\* from the answer on.
End(st) ==
    /\ Goto("gone")
    /\ said' = IF answer # "no" /\ Here THEN st ELSE said

-----------------------------------------------------------------------------
(* The client.                                                             *)

Leave ==
    /\ Here /\ pc # "gone"
    /\ client' = "left" /\ shut' = TRUE
    /\ UNCHANGED <<pc, answer, said, out, in, faults>>
CloseInput ==
    /\ Here /\ pc # "gone" /\ ~shut
    /\ shut' = TRUE
    /\ UNCHANGED <<pc, client, answer, said, out, in, faults>>

-----------------------------------------------------------------------------
(* The dispatcher, up to the handler.                                      *)

Begin ==
    /\ pc = "begin"
    /\ IF Svc({"tunnel", "tunnelr"}) THEN Goto("ready") /\ UNCHANGED answer
       ELSE IF Here THEN Goto("ready") /\ answer' = "session"
       ELSE Goto("gone") /\ UNCHANGED answer
    /\ UNCHANGED <<client, said, out, in, shut, faults>>

\* The threaded loop compares what pthread_create() returns with -1: a thread
\* that is not made is taken for one, and its connection is never closed.
ThreadLost ==
    /\ pc = "begin" /\ Svc({"alive"}) /\ Fault
    /\ Goto("lost")
    /\ UNCHANGED <<client, answer, said, out, in, shut>>

-----------------------------------------------------------------------------
(* russdebug and russalive.                                                *)

Handler(S) == pc = "ready" /\ Svc(S)
Alive ==
    /\ Handler({"alive"}) /\ End(Success)
    /\ UNCHANGED <<client, answer, out, in, shut, faults>>

\* conn, daytime, env, request, session, spath.
Report ==
    /\ Handler({"report"}) /\ WriteThen("report", End(Success))
    /\ UNCHANGED <<client, answer, in, shut, faults>>

Exit ==
    /\ Handler({"exit"})
    /\ End(IF call.arg \in 0..255 THEN call.arg ELSE Failure)
    /\ UNCHANGED <<client, answer, out, in, shut, faults>>

Chargen ==
    /\ Handler({"chargen"})
    /\ Here => Len(out) < MaxLines
    /\ WriteThen("line", IF Here THEN UNCHANGED <<pc, said>> ELSE End(Success))
    /\ UNCHANGED <<client, answer, in, shut, faults>>

\* russ_read() of the client's input; its end, when it is closed.
ReadInput ==
    /\ Handler({"echo", "discard"}) /\ in # <<>>
    /\ in' = Tail(in)
    /\ IF Svc({"echo"}) THEN WriteThen(Head(in), UNCHANGED <<pc, said>>) ELSE UNCHANGED <<out, pc, said>>
    /\ UNCHANGED <<client, answer, shut, faults>>
InputEnds ==
    /\ Handler({"echo", "discard"}) /\ in = <<>> /\ shut
    /\ IF Svc({"discard"}) /\ call.perf THEN WriteThen("throughput", End(Success)) ELSE End(Success) /\ UNCHANGED out
    /\ UNCHANGED <<client, answer, in, shut, faults>>
DiscardFails ==
    /\ Handler({"discard"}) /\ Fault /\ End(Failure)
    /\ UNCHANGED <<client, answer, out, in, shut>>

ClientStep == Leave \/ CloseInput
SessionStep == Begin \/ Alive \/ Report \/ Exit \/ Chargen \/ ReadInput \/ InputEnds
SessionFault == ThreadLost \/ DiscardFails
=============================================================================
