----------------------------- MODULE RussRelay -----------------------------
(***************************************************************************)
(* The relay (relay.c, buf.c): one poll loop that copies streams, each with *)
(* a buffer, while it watches an exit descriptor.  rudial, rutuns and       *)
(* russtee run it between their own standard streams and those of a dialed  *)
(* service: stream 0 carries input and closes on exit, the others carry     *)
(* output.                                                                  *)
(*                                                                          *)
(* The environment is a source and a sink for each stream, with a channel   *)
(* of the kernel before and after the relay.  The k-th byte of a source is  *)
(* the number k.                                                            *)
(***************************************************************************)
EXTENDS Integers, Sequences, FiniteSets

CONSTANTS
    NStreams,     \* nstreams
    CloseOnExit,  \* streams with the closeonexit flag
    Cap,          \* bufsize
    Room,         \* bytes a channel of the kernel holds
    Ready,        \* poll reports POLLOUT when so many bytes are free
    Total,        \* bytes each source has
    CopyTotal,    \* bytes a service that copies is given
    MayClose,     \* streams whose sink may be closed early
    Services,     \* kinds of service: "free", or "copy" stream 0 to stream 1
    Timeouts      \* poll may time out or fail

Streams == 0..NStreams - 1

ASSUME RelayAssumption ==
    /\ NStreams \in Nat
    /\ CloseOnExit \subseteq Streams /\ MayClose \subseteq Streams
    /\ {Cap, Room, Ready} \subseteq Nat \ {0}
    /\ Ready <= Room
    /\ Total \in Nat /\ CopyTotal \in Nat
    /\ Services \subseteq {"free", "copy"} /\ Timeouts \in BOOLEAN
    /\ "copy" \in Services => {0, 1} \subseteq Streams

VARIABLES
    service, \* the kind of service at the far end
    sent,    \* sent[i]: bytes the source has written
    src,     \* src[i]: the source holds its end
    inq,     \* inq[i]: bytes between source and relay
    rbuf,    \* rbuf[i]: the buffer of the stream: valid bytes and offset
    outq,    \* outq[i]: bytes between relay and sink
    got,     \* got[i]: bytes the sink has read
    sink,    \* sink[i]: the sink holds its end
    mode,    \* mode[i]: pollfd of the stream: "rd", "wr", "off" (removed)
    wopen,   \* wopen[i]: the relay's write descriptor is open
    exitq,   \* the exit pipe at its far end: "open", "status", "closed"
    expoll,  \* the exit descriptor is polled
    nactive, \* nactive of russ_relay_serve()
    phase,   \* where the loop is
    idx,     \* the stream the loop looks at
    ev,      \* ev[i]: the stream's revents as poll found them
    exev,    \* the exit descriptor's revents
    nev,     \* nevents
    wcnt     \* bytes the write() under way has placed

envvars == <<service, sent, src, got, sink, exitq>>
loopvars == <<nactive, phase, idx, ev, exev, nev, wcnt>>
vars == <<service, sent, src, inq, rbuf, outq, got, sink, mode, wopen, exitq, expoll, loopvars>>

Copies == service = "copy"
Bytes == IF Copies THEN CopyTotal ELSE Total
Upto(n) == [k \in 1..n |-> k]
Lesser(a, b) == IF a < b THEN a ELSE b

-----------------------------------------------------------------------------
(* russ_buf: valid bytes, and the offset of the next to be consumed.       *)

BufNew == [data |-> <<>>, off |-> 0]
BufAvail(b) == Len(b.data) - b.off
BufRoom(b) == Cap - b.off
BufRest(b) == SubSeq(b.data, b.off + 1, Len(b.data))
BufFill(b, s) == [b EXCEPT !.data = SubSeq(@, 1, b.off) \o s]
BufRepos(b, n) == [b EXCEPT !.off = Lesser(@ + n, Len(b.data))]
\* Mutant: a buffer counts as drained once anything was written.
BufDrainedEarly(b) == IF b.off > 0 THEN BufNew ELSE b
\* What the loop makes of a buffer after a write: a drained one is reset.
BufDrained(b) == IF BufAvail(b) = 0 THEN BufNew ELSE b

\* Descriptors to poll, that of the exit among them.
Polled == NStreams + 1

Init ==
    /\ service \in Services
    /\ sent = [i \in Streams |-> 0]
    /\ src = [i \in Streams |-> TRUE]
    /\ inq = [i \in Streams |-> <<>>]
    /\ rbuf = [i \in Streams |-> BufNew]
    /\ outq = [i \in Streams |-> <<>>]
    /\ got = [i \in Streams |-> <<>>]
    /\ sink = [i \in Streams |-> TRUE]
    /\ mode = [i \in Streams |-> "rd"]
    /\ wopen = [i \in Streams |-> TRUE]
    /\ exitq = "open"
    /\ expoll = TRUE
    /\ nactive = Polled
    /\ phase = "poll"
    /\ idx = 0
    /\ ev = [i \in Streams |-> "none"]
    /\ exev = FALSE
    /\ nev = 0
    /\ wcnt = 0

-----------------------------------------------------------------------------
(* russ_relay_serve().                                                     *)

\* Mutant: the end of the input goes before what is left of it.
ReventsEndFirst(i) ==
    CASE mode[i] = "rd" /\ ~src[i] -> "hen"
      [] mode[i] = "rd" /\ src[i] /\ inq[i] # <<>> -> "in"
      [] mode[i] = "wr" /\ (~sink[i] \/ Room - Len(outq[i]) >= Ready) -> "out"
      [] OTHER -> "none"

\* What poll reports of a stream: on its read descriptor input, or the end of
\* it when the source is gone; on its write descriptor room, or an error when
\* the sink is gone.
Revents(i) ==
    CASE mode[i] = "rd" /\ inq[i] # <<>> -> "in"
      [] mode[i] = "rd" /\ inq[i] = <<>> /\ ~src[i] -> "hen"
      [] mode[i] = "wr" /\ (~sink[i] \/ Room - Len(outq[i]) >= Ready) -> "out"
      [] OTHER -> "none"
ExitRevents == IF expoll /\ exitq # "open" THEN 1 ELSE 0
Eventful == {i \in Streams : Revents(i) # "none"}

\* poll() returns with events: the loop works on what it found, whatever
\* happens meanwhile.
Poll ==
    /\ phase = "poll" /\ nactive > 0
    /\ Cardinality(Eventful) + ExitRevents > 0
    /\ ev' = [i \in Streams |-> Revents(i)]
    /\ exev' = (expoll /\ exitq = "closed")
    /\ nev' = Cardinality(Eventful) + ExitRevents
    /\ phase' = "scan" /\ idx' = 0
    /\ UNCHANGED <<service, sent, src, inq, rbuf, outq, got, sink, mode, wopen, exitq, expoll, nactive, wcnt>>

\* A timeout, and an error of poll() just the same, ends the relay.
PollTimeout ==
    /\ phase = "poll" /\ nactive > 0
    /\ Timeouts
    /\ phase' = "timeout"
    /\ UNCHANGED <<service, sent, src, inq, rbuf, outq, got, sink, mode, wopen, exitq, expoll,
                   nactive, idx, ev, exev, nev, wcnt>>

ServeEnd ==
    /\ phase = "poll" /\ nactive = 0
    /\ phase' = "done"
    /\ UNCHANGED <<service, sent, src, inq, rbuf, outq, got, sink, mode, wopen, exitq, expoll,
                   nactive, idx, ev, exev, nev, wcnt>>

\* The loop moves on to the next stream, one event fewer to find.
Handled ==
    /\ nev' = nev - 1
    /\ idx' = idx + 1
    /\ phase' = "scan"
    /\ ev' = [ev EXCEPT ![idx] = "none"]

Scanning(e) == phase = "scan" /\ nev > 0 /\ idx < NStreams /\ mode[idx] # "off" /\ ev[idx] = e

\* A disabled or uneventful stream.
Skip ==
    /\ phase = "scan" /\ nev > 0 /\ idx < NStreams
    /\ mode[idx] = "off" \/ ev[idx] = "none"
    /\ idx' = idx + 1
    /\ UNCHANGED <<service, sent, src, inq, rbuf, outq, got, sink, mode, wopen, exitq, expoll,
                   nactive, phase, ev, exev, nev, wcnt>>

\* Mutant: a removed stream leaves its descriptors open.
RemoveOpen(S) ==
    /\ mode' = [i \in Streams |-> IF i \in S THEN "off" ELSE mode[i]]
    /\ rbuf' = [i \in Streams |-> IF i \in S THEN BufNew ELSE rbuf[i]]
    /\ UNCHANGED <<wopen, inq>>

\* russ_relay_remove() of each stream of S: it is polled no more, its buffer is
\* freed, and with closeonexit both its descriptors are closed.
Remove(S) ==
    /\ mode' = [i \in Streams |-> IF i \in S THEN "off" ELSE mode[i]]
    /\ rbuf' = [i \in Streams |-> IF i \in S THEN BufNew ELSE rbuf[i]]
    /\ wopen' = [i \in Streams |-> wopen[i] /\ ~(i \in S /\ i \in CloseOnExit)]
    /\ inq' = [i \in Streams |-> IF i \in S /\ i \in CloseOnExit THEN <<>> ELSE inq[i]]

\* POLLIN: the buffer takes what read() gives.
Read ==
    /\ Scanning("in")
    /\ \E n \in 1..Lesser(BufRoom(rbuf[idx]), Len(inq[idx])) :
          /\ rbuf' = [rbuf EXCEPT ![idx] = BufFill(@, SubSeq(inq[idx], 1, n))]
          /\ inq' = [inq EXCEPT ![idx] = SubSeq(@, n + 1, Len(@))]
    /\ mode' = [mode EXCEPT ![idx] = "wr"]
    /\ Handled
    /\ UNCHANGED <<envvars, outq, wopen, expoll, nactive, exev, wcnt>>

\* The end of the input, or a read() that gives nothing: the stream is disabled.
ReadEnd ==
    /\ \/ Scanning("hen")
       \/ Scanning("in") /\ BufRoom(rbuf[idx]) = 0
    /\ Remove({idx})
    /\ nactive' = nactive - 1
    /\ Handled
    /\ UNCHANGED <<envvars, outq, expoll, exev, wcnt>>

\* POLLOUT: write() of all the buffer has.  It blocks for room; while it does
\* the loop serves nobody else.
WriteStart ==
    /\ Scanning("out")
    /\ phase' = "write"
    /\ wcnt' = 0
    /\ UNCHANGED <<service, sent, src, inq, rbuf, outq, got, sink, mode, wopen, exitq, expoll,
                   nactive, idx, ev, exev, nev>>

WritePlace ==
    /\ phase = "write" /\ sink[idx]
    /\ wcnt < BufAvail(rbuf[idx])
    /\ \E n \in 1..Lesser(BufAvail(rbuf[idx]) - wcnt, Room - Len(outq[idx])) :
           /\ outq' = [outq EXCEPT ![idx] = @ \o SubSeq(BufRest(rbuf[idx]), wcnt + 1, wcnt + n)]
           /\ wcnt' = wcnt + n
    /\ UNCHANGED <<envvars, inq, rbuf, mode, wopen, expoll, nactive, phase, idx, ev, exev, nev>>

\* Mutant: the stream is not switched back to its read descriptor.
AfterWriteStay(b) == "wr"
\* A drained stream polls its read descriptor again.
AfterWrite(b) == IF BufAvail(b) = 0 THEN "rd" ELSE "wr"

\* write() returns what it placed; a drained stream goes back to its source.
Placed ==
    /\ phase = "write" /\ wcnt > 0
    /\ LET b == BufRepos(rbuf[idx], wcnt)
       IN  /\ rbuf' = [rbuf EXCEPT ![idx] = BufDrained(b)]
           /\ mode' = [mode EXCEPT ![idx] = AfterWrite(b)]
    /\ wcnt' = 0
    /\ Handled
    /\ UNCHANGED <<envvars, inq, outq, wopen, expoll, nactive, exev>>

\* All of the buffer, or what went before the sink did.
WriteReturn ==
    /\ phase = "write"
    /\ wcnt = BufAvail(rbuf[idx]) \/ ~sink[idx]
    /\ Placed

\* Less, after an interruption or on a descriptor that does not block.
WriteShort ==
    /\ phase = "write"
    /\ wcnt < BufAvail(rbuf[idx])
    /\ Placed

\* The sink is gone and nothing was placed: the stream is disabled.
WriteError ==
    /\ phase = "write" /\ wcnt = 0 /\ ~sink[idx]
    /\ Remove({idx})
    /\ nactive' = nactive - 1
    /\ Handled
    /\ UNCHANGED <<envvars, outq, expoll, exev, wcnt>>

\* Mutant: every stream ends with the exit descriptor.
OnExitAll == {i \in Streams : mode[i] # "off"}
\* Streams that the end of the exit descriptor takes with it.
OnExit == {i \in CloseOnExit : mode[i] # "off"}

\* After the streams the exit descriptor: a hang-up disables it and removes the
\* streams that close on exit, with whatever their buffers hold.
ScanEnd ==
    /\ phase = "scan"
    /\ nev = 0 \/ idx = NStreams
    /\ phase' = "poll"
    /\ exev' = FALSE
    /\ ev' = [i \in Streams |-> "none"]
    /\ nev' = 0 /\ idx' = 0
    /\ \/ /\ expoll /\ exev
          /\ expoll' = FALSE
          /\ Remove(OnExit)
          /\ nactive' = nactive - 1 - Cardinality(OnExit)
       \/ /\ ~(expoll /\ exev)
          /\ UNCHANGED <<inq, rbuf, mode, wopen, expoll, nactive>>
    /\ UNCHANGED <<envvars, outq, wcnt>>

-----------------------------------------------------------------------------
(* Sources, sinks and the far end of the exit descriptor.                  *)

Ended == phase \in {"done", "timeout"}
SinkEof(i) == outq[i] = <<>> /\ (~wopen[i] \/ Ended)

SourceWrite(i) ==
    /\ src[i] /\ sent[i] < Bytes
    /\ Len(inq[i]) < Room
    /\ ~Ended /\ (i \in CloseOnExit => wopen[i])
    /\ Copies /\ i = 1 => sent[1] < Len(got[0])
    /\ sent' = [sent EXCEPT ![i] = @ + 1]
    /\ inq' = [inq EXCEPT ![i] = Append(@, sent[i] + 1)]
    /\ UNCHANGED <<service, src, rbuf, outq, got, sink, mode, wopen, exitq, expoll, loopvars>>

SourceClose(i) ==
    /\ src[i]
    /\ Copies /\ i = 1 => SinkEof(0) /\ sent[1] = Len(got[0])
    /\ src' = [src EXCEPT ![i] = FALSE]
    /\ UNCHANGED <<service, sent, inq, rbuf, outq, got, sink, mode, wopen, exitq, expoll, loopvars>>

\* A service that copies holds one byte at a time.
SinkRead(i) ==
    /\ sink[i] /\ outq[i] # <<>>
    /\ Copies /\ i = 0 => sent[1] = Len(got[0])
    /\ got' = [got EXCEPT ![i] = Append(@, Head(outq[i]))]
    /\ outq' = [outq EXCEPT ![i] = Tail(@)]
    /\ UNCHANGED <<service, sent, src, inq, rbuf, sink, mode, wopen, exitq, expoll, loopvars>>

\* A service that copies reads its input to the end.
SinkClose(i) ==
    /\ sink[i] /\ i \in MayClose
    /\ Copies => i # 0
    /\ sink' = [sink EXCEPT ![i] = FALSE]
    /\ UNCHANGED <<service, sent, src, inq, rbuf, outq, got, mode, wopen, exitq, expoll, loopvars>>

\* The service writes its exit status, and closes the exit pipe.
ExitStatus ==
    /\ exitq = "open"
    /\ Copies => ~src[1]
    /\ exitq' = "status"
    /\ UNCHANGED <<service, sent, src, inq, rbuf, outq, got, sink, mode, wopen, expoll, loopvars>>

ExitClose ==
    /\ exitq = "status"
    /\ exitq' = "closed"
    /\ UNCHANGED <<service, sent, src, inq, rbuf, outq, got, sink, mode, wopen, expoll, loopvars>>

-----------------------------------------------------------------------------
Serve ==
    \/ Poll \/ ServeEnd \/ Skip \/ Read \/ ReadEnd
    \/ WriteStart \/ WritePlace \/ WriteReturn \/ WriteError \/ ScanEnd

Environment ==
    \/ \E i \in Streams : SourceWrite(i) \/ SourceClose(i) \/ SinkRead(i) \/ SinkClose(i)
    \/ ExitStatus \/ ExitClose

Next == Serve \/ WriteShort \/ PollTimeout \/ Environment

Spec == Init /\ [][Next]_vars

\* The relay runs.  Sources write all they have and then close, sinks read, and
\* the service exits once it has closed its output.
Outputs == Streams \ CloseOnExit
Fairness ==
    /\ WF_vars(Serve)
    /\ \A i \in Streams :
          /\ WF_vars(SourceWrite(i))
          /\ WF_vars(SourceClose(i) /\ (sent[i] = Bytes \/ (Copies /\ i = 1)))
          /\ WF_vars(SinkRead(i))
    /\ WF_vars(ExitStatus /\ \A i \in Outputs : ~src[i])
    /\ WF_vars(ExitClose)

FairSpec == Spec /\ Fairness

-----------------------------------------------------------------------------
(* Properties.                                                             *)

\* Bytes of the buffer that no write() has placed yet.
Unplaced(i) ==
    LET b == rbuf[i]
    IN  SubSeq(b.data, b.off + 1 + (IF phase = "write" /\ idx = i THEN wcnt ELSE 0), Len(b.data))

\* As long as a stream is active no byte of it is lost, repeated or moved out
\* of order anywhere between source and sink, in the buffer as the loop fills,
\* drains and resets it included; afterwards the sink has a beginning of what
\* was sent.
Conserved ==
    \A i \in Streams :
        LET through == got[i] \o outq[i] \o Unplaced(i) \o inq[i]
        IN  IF mode[i] # "off" THEN through = Upto(sent[i])
            ELSE got[i] \o outq[i] = Upto(Len(got[i]) + Len(outq[i]))

\* The service's output outlives the service: when the relay is done every byte
\* a service wrote has been handed on, in whichever order output, end of output
\* and exit came, unless the reader of that stream went away.
OutputComplete ==
    phase = "done" => \A i \in Outputs : sink[i] =>
        /\ ~src[i] /\ inq[i] = <<>>
        /\ Len(got[i]) + Len(outq[i]) = sent[i]

\* The input of a service is closed before the service ends only after all of
\* it was handed on.
InputComplete ==
    \A i \in CloseOnExit : ~wopen[i] /\ expoll /\ sink[i] =>
        ~src[i] /\ Len(got[i]) + Len(outq[i]) = sent[i]

\* The relay comes to an end when the service has ended; only a reader that went
\* away while the service still writes to it can keep the relay.
RelayEnds == <>(phase \in {"done", "timeout"} \/ \E i \in Outputs : ~sink[i])

\* The end of the input reaches the service, unless the relay ended by an error of
\* poll() before, or the service waits to write to a reader that went away.
InputEnds ==
    \A i \in CloseOnExit :
        ~src[i] ~> ~wopen[i] \/ phase = "timeout" \/ (Copies /\ \E j \in Outputs : ~sink[j])
=============================================================================
