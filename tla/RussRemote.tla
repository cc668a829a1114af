----------------------------- MODULE RussRemote -----------------------------
(***************************************************************************)
(* russssh2, which runs ssh for a session on another host (a child of the  *)
(* handler), and russtee, which dials another service and copies what goes *)
(* by into files.  The child and the service are the remote here: it       *)
(* writes call.text[1] to its output, call.text[2] to its error output, or *)
(* nothing, and ends, with a status or without one.                        *)
(***************************************************************************)
EXTENDS RussSession

CONSTANTS
    Delim,      \* what the remote end of tunnelr writes before anything of the service's
    BufSize,    \* of the buffer of consume_delimiter()
    Killed      \* how a process ends that a signal killed

ASSUME RemoteAssumption ==
    /\ Delim \in Seq(Range(Delim)) /\ Len(Delim) > 0
    /\ BufSize \in Nat /\ BufSize >= 2 * Len(Delim)
    /\ Killed \notin Statuses

VARIABLES
    remote,     \* "none", "run", "hup" (it was sent SIGHUP) or "ended"
    code,       \* how it ended
    kept,       \* something it started, the master of a shared connection, has its
                \* streams open after it
    wrote,      \* it wrote what it writes
    taken,      \* what the handler took in: taken[i] of call.text[i]
    sent,       \* the request went out to it
    files       \* the streams, 0 for the input, that are captured

remoteVars == <<remote, code, kept, wrote, taken, sent, files>>
stands == <<client, answer, in, shut, out>>

Ssh == {"dial", "tunnel", "tunnelr"}
RemoteServices == Ssh \cup {"tee"}
Text(i) == IF wrote THEN call.text[i] ELSE <<>>
Piped == remote = "run" \/ kept

RemoteInit ==
    /\ remote = "none" /\ code = Killed /\ kept = FALSE /\ wrote = FALSE
    /\ taken = <<0, 0>> /\ sent = FALSE /\ files = {}

-----------------------------------------------------------------------------
(* The other end.                                                          *)

RemoteWrites ==
    /\ remote = "run" /\ ~wrote /\ wrote' = TRUE
    /\ UNCHANGED <<remote, code, kept, taken, sent, files, sessionVars>>
RemoteEnds ==
    /\ remote = "run" /\ remote' = "ended"
    /\ code' \in Statuses \cup {Killed}
    /\ kept' \in IF Svc(Ssh) THEN BOOLEAN ELSE {FALSE}
    /\ UNCHANGED <<wrote, taken, sent, files, sessionVars>>
KeeperEnds ==
    /\ kept /\ kept' = FALSE
    /\ UNCHANGED <<remote, code, wrote, taken, sent, files, sessionVars>>
\* ssh does nothing about SIGHUP.
RemoteHup ==
    /\ remote = "hup" /\ remote' = "ended" /\ code' = Killed
    /\ UNCHANGED <<kept, wrote, taken, sent, files, sessionVars>>

-----------------------------------------------------------------------------
(* russssh2.                                                               *)

\* No pipes: the client is not answered.
NoPipes ==
    /\ Handler({"tunnel", "tunnelr"}) /\ Fault /\ Die
    /\ UNCHANGED <<remoteVars, stands>>
\* No such user; before the client of a tunnel is answered it cannot be told.
NoUserSwitch ==
    /\ Handler(Ssh) /\ Fault /\ End(Failure)
    /\ UNCHANGED <<remoteVars, stands>>

After == IF Svc({"dial"}) THEN "waiting" ELSE "send"
Fork ==
    /\ Handler(Ssh) /\ remote' = "run" /\ Goto(After)
    /\ UNCHANGED <<code, kept, wrote, taken, sent, files, said, faults, stands>>
\* fork() fails, and nobody looks.
ForkFails ==
    /\ Handler(Ssh) /\ Fault /\ Goto(After)
    /\ UNCHANGED <<remoteVars, said, stands>>

\* The request, into a pipe that is broken when nobody has it open: where
\* SIGPIPE is not ignored, that ends the handler, and the client is not answered.
Send ==
    /\ pc = "send" /\ sent' = Piped
    /\ IF Piped \/ call.ignores THEN Goto(IF Svc({"tunnelr"}) THEN "delim1" ELSE "answer") /\ UNCHANGED said
       ELSE Die
    /\ UNCHANGED <<remote, code, kept, wrote, taken, files, faults, stands>>
\* strdup(), and later for a tunnel malloc(), fail.  The answer without streams is
\* for a client that has none: after another answer it loses the exit pipe.
NoMemory ==
    /\ Handler(Ssh) \/ pc = "send"
    /\ Fault
    /\ IF Svc({"dial"}) THEN Die ELSE Goto("callfailure") /\ UNCHANGED said
    /\ UNCHANGED <<remoteVars, stands>>

\* consume_delimiter(): the last Len(Delim) bytes of the buffer after byte e.
\* When the buffer is full, what is kept of it is its beginning.
Window(text, e) ==
    LET d == Len(Delim)
        o == ((e - BufSize - 1) % (BufSize - d + 1)) + 1
    IN  IF e <= BufSize THEN SubSeq(text, e - d + 1, e)
        ELSE SubSeq(SubSeq(text, 1, d - 1) \o SubSeq(text, e - o + 1, e), o, o + d - 1)
\* Where it stops reading, 0 for never.
DelimEnd(text) ==
    LET S == {e \in Len(Delim)..Len(text) : Window(text, e) = Delim}
    IN  IF S = {} THEN 0 ELSE Min(S)

Next1 == [delim1 |-> "delim2", delim2 |-> "answer"]
Stream == [delim1 |-> 1, delim2 |-> 2]
\* Mutant: only the output is read up to the delimiter.
ConsumeOne ==
    /\ pc \in {"delim1", "delim2"}
    /\ LET e == DelimEnd(Text(1))
       IN  \/ e # 0 /\ taken' = [taken EXCEPT ![1] = e] /\ Goto("answer")
           \/ e = 0 /\ ~Piped /\ Goto("callfailure") /\ UNCHANGED taken
    /\ UNCHANGED <<remote, code, kept, wrote, sent, files, said, faults, stands>>
Consume ==
    /\ pc \in {"delim1", "delim2"}
    /\ LET i == Stream[pc]
           e == DelimEnd(Text(i))
       IN  \/ e # 0 /\ taken' = [taken EXCEPT ![i] = e] /\ Goto(Next1[pc])
           \/ e = 0 /\ ~Piped /\ Goto("callfailure") /\ UNCHANGED taken
    /\ UNCHANGED <<remote, code, kept, wrote, sent, files, said, faults, stands>>

\* The client gets the streams of ssh.
AnswerTunnel ==
    /\ pc = "answer"
    /\ IF Here THEN answer' = "tunnel" /\ Goto(IF sent THEN "waiting" ELSE "notsent")
       ELSE Goto("gone") /\ UNCHANGED answer
    /\ UNCHANGED <<remoteVars, client, said, out, in, shut, faults>>
NotSent ==
    /\ pc = "notsent" /\ End(CallFailure)
    /\ UNCHANGED <<remoteVars, faults, stands>>
\* It gets no streams, and the child is left to itself.
AnswerCallFailure ==
    /\ pc = "callfailure"
    /\ answer' = IF Here THEN "nothing" ELSE answer
    /\ Goto("notsent")
    /\ UNCHANGED <<remoteVars, client, said, out, in, shut, faults>>

\* __russ_waitpidfd(): WEXITSTATUS() is 0 for a child that a signal killed, and
\* for one that was never made; a client that left takes the child with it, and
\* so does a poll() that fails, of which the client is told success.
Exited == IF remote = "none" \/ code = Killed THEN 0 ELSE code
Reaped ==
    /\ pc = "waiting" /\ remote \in {"none", "ended"}
    /\ End(Exited)
    /\ UNCHANGED <<remoteVars, faults, stands>>
\* Mutant: the handler ends with its client and leaves the child.
HangUpAlone ==
    /\ pc = "waiting" /\ remote = "run" /\ ~Here
    /\ End(Success)
    /\ UNCHANGED <<remoteVars, faults, stands>>
HangUp ==
    /\ pc = "waiting" /\ remote = "run" /\ ~Here
    /\ End(Success) /\ remote' = "hup"
    /\ UNCHANGED <<code, kept, wrote, taken, sent, files, faults, stands>>
WatchFails ==
    /\ pc = "waiting" /\ remote = "run" /\ Fault
    /\ End(Success) /\ remote' = "hup"
    /\ UNCHANGED <<code, kept, wrote, taken, sent, files, stands>>

-----------------------------------------------------------------------------
(* russtee.                                                                *)

\* Only EXECUTE is served; another operation ends without a status.
TeeOther ==
    /\ Handler({"tee"}) /\ call.attr = "other op" /\ Die
    /\ UNCHANGED <<remoteVars, faults, stands>>
TeeNoAttr ==
    /\ Handler({"tee"}) /\ call.attr = "none" /\ End(Failure)
    /\ UNCHANGED <<remoteVars, faults, stands>>
TeeDialFails ==
    /\ Handler({"tee"}) /\ call.attr \in {"fixed", "unknown"} /\ Fault /\ End(Failure)
    /\ UNCHANGED <<remoteVars, stands>>
TeeDial ==
    /\ Handler({"tee"}) /\ call.attr \in {"fixed", "unknown"}
    /\ remote' = "run"
    /\ IF call.attr = "fixed" THEN Goto("files") /\ UNCHANGED said ELSE End(Failure)
    /\ UNCHANGED <<code, kept, wrote, taken, sent, files, faults, stands>>
\* A file that cannot be opened ends the opening of files, and nothing else.
TeeOpen ==
    /\ pc = "files" /\ files' = call.files /\ Goto("relay")
    /\ UNCHANGED <<remote, code, kept, wrote, taken, sent, said, faults, stands>>
TeeOpenFails ==
    /\ pc = "files" /\ Fault
    /\ \E n \in call.files : files' = {i \in call.files : i < n}
    /\ Goto("relay")
    /\ UNCHANGED <<remote, code, kept, wrote, taken, sent, said, stands>>
\* tee_callback(): a file that cannot be written is closed.
TeeWriteFails ==
    /\ pc = "relay" /\ files # {} /\ Fault
    /\ \E i \in files : files' = files \ {i}
    /\ UNCHANGED <<remote, code, kept, wrote, taken, sent, pc, said, stands>>
\* The relay (RussRelay): a piece of input or of a stream of the service's.
TeeInput ==
    /\ pc = "relay" /\ in # <<>> /\ in' = Tail(in)
    /\ UNCHANGED <<remoteVars, pc, client, answer, said, out, shut, faults>>
TeeOutput(i) ==
    /\ pc = "relay" /\ taken[i] < Len(Text(i))
    /\ taken' = [taken EXCEPT ![i] = @ + 1]
    /\ Write(<<i, Text(i)[taken[i] + 1]>>)
    /\ UNCHANGED <<remote, code, kept, wrote, sent, files, pc, client, answer, said, in, shut, faults>>
\* The service is at its end, its streams too; its status is the session's.
TeeStatus == IF code = Killed THEN SysFailure ELSE code
\* Mutant: every stream is closed when the service's exit pipe hangs up.
TeeEndsEarly ==
    /\ pc = "relay" /\ remote = "ended"
    /\ End(TeeStatus)
    /\ UNCHANGED <<remoteVars, faults, stands>>
TeeEnds ==
    /\ pc = "relay" /\ remote = "ended"
    /\ Here => \A i \in {1, 2} : taken[i] = Len(Text(i))
    /\ End(TeeStatus)
    /\ UNCHANGED <<remoteVars, faults, stands>>

Remote == RemoteWrites \/ RemoteEnds \/ KeeperEnds
RemoteStep ==
    \/ Fork \/ Send \/ Consume \/ AnswerTunnel \/ NotSent \/ AnswerCallFailure
    \/ Reaped \/ HangUp \/ TeeOther \/ TeeNoAttr \/ TeeDial \/ TeeOpen
    \/ TeeInput \/ TeeOutput(1) \/ TeeOutput(2) \/ TeeEnds
RemoteFault ==
    \/ NoPipes \/ NoUserSwitch \/ ForkFails \/ NoMemory \/ WatchFails
    \/ TeeDialFails \/ TeeOpenFails \/ TeeWriteFails
=============================================================================
