------------------------------ MODULE RussExec ------------------------------
(***************************************************************************)
(* A program run by the execution server (russexec_server.c, misc.c) for a *)
(* client that collects its output (RussCollect): the handler, its child,  *)
(* and what the child may leave behind.                                    *)
(***************************************************************************)
EXTENDS RussCollect

CONSTANTS
    Statuses,  \* a program exits with
    Failure,   \* RUSS_EXIT_FAILURE
    FdClosed,  \* RUSS_EXIT_EXITFDCLOSED
    OutMax     \* bound: bytes a free program writes to a stream

SigHup == 1
SigKill == 9

\* RUSS_EXIT_EXITFDCLOSED is 125, which is no signal's number either.
ASSUME ExecAssumption ==
    /\ Statuses \subseteq 0..255
    /\ Failure \in 1..255 /\ FdClosed \in 1..255 \ {SigHup, SigKill}
    /\ OutMax \in Nat

VARIABLES
    hpc,     \* where the handler is
    status,  \* its variable, as waitpid() sets it
    errs,    \* its polls that failed (1 is the last: it goes)
    cpc,     \* where the child is
    ended,   \* how the child ended, as waitpid() gives it
    hupped,  \* the program was sent SIGHUP
    inread,  \* bytes of input it read
    eof,     \* it read the end of its input
    outw,    \* outw[f]: bytes written
    carry    \* bytes "cat" has read and not written

hvars == <<hpc, status, errs>>
cvars == <<cpc, ended, hupped>>
pvars == <<inread, eof, outw, carry>>
state == <<clientvars, chanvars, tabs, hvars, cvars, pvars>>
vars == <<args, state>>

Exited(s) == s * 256            \* the encoding of an exit status
Killed(sig) == sig              \* and of the signal that killed a child
ExitStatus(w) == (w \div 256) % 256  \* WEXITSTATUS()

Init ==
    /\ CollectInit
    /\ htab = Fds /\ ctab = {} /\ dtab = {}
    /\ hpc = "setup" /\ status = 0 /\ errs = 0
    /\ cpc = "none" /\ ended = 0 /\ hupped = FALSE
    /\ inread = 0 /\ eof = FALSE /\ outw = [f \in Outs |-> 0] /\ carry = 0

\* A byte on a stream of the client, as long as that has it open.
Put(f) ==
    /\ IF f \in ktab THEN outq' = [outq EXCEPT ![f] = @ + 1] /\ outw' = [outw EXCEPT ![f] = @ + 1]
       ELSE UNCHANGED <<outq, outw>>
    /\ UNCHANGED <<inq, exitq>>

-----------------------------------------------------------------------------
(* The handler: execute().                                                 *)

\* The user, the session or the control group cannot be set up: a message and
\* a failure.
SetupFail ==
    /\ hpc = "setup"
    /\ hpc' = "exit" /\ status' = Exited(Failure)
    /\ Put(2)
    /\ UNCHANGED <<clientvars, tabs, errs, cvars, inread, eof, carry>>

Fork ==
    /\ hpc = "setup"
    /\ hpc' = "close"
    /\ cpc' = "forked" /\ ctab' = htab
    /\ UNCHANGED <<clientvars, chanvars, htab, dtab, status, errs, ended, hupped, pvars>>

\* There is no child; what follows goes on with pid -1.
ForkFail ==
    /\ hpc = "setup"
    /\ hpc' = "close"
    /\ UNCHANGED <<clientvars, chanvars, tabs, status, errs, cvars, pvars>>

CloseStd ==
    /\ hpc = "close"
    /\ hpc' = "reap" /\ htab' = htab \ Std
    /\ UNCHANGED <<clientvars, chanvars, ctab, dtab, status, errs, cvars, pvars>>

\* waitpid(): without a child it fails, and leaves the status 0.
Reap ==
    /\ hpc = "reap"
    /\ \/ /\ cpc = "none"
          /\ hpc' = "exit" /\ UNCHANGED <<status, cpc>>
       \/ /\ cpc = "zombie"
          /\ hpc' = "exit" /\ status' = ended /\ cpc' = "reaped"
       \/ /\ cpc \notin {"none", "zombie"}
          /\ hpc' = "watch" /\ UNCHANGED <<status, cpc>>
    /\ UNCHANGED <<clientvars, chanvars, tabs, errs, ended, hupped, pvars>>

\* Mutant: the handler goes, and the child is not told.
HangUpSilent == UNCHANGED <<cpc, ended, ctab, hupped>>
\* kill(pid, SIGHUP): a program decides what it does, before that it is the end.
HangUp ==
    IF cpc \in {"forked", "ready"}
    THEN cpc' = "zombie" /\ ended' = Killed(SigHup) /\ ctab' = {} /\ UNCHANGED hupped
    ELSE hupped' = (cpc = "run") /\ UNCHANGED <<cpc, ended, ctab>>

\* Mutant: it watches the descriptor of the input.
WatchInput ==
    /\ hpc = "watch"
    /\ \/ /\ 0 \notin ktab
          /\ hpc' = "exit" /\ status' = FdClosed
          /\ HangUp
       \/ /\ 0 \in ktab
          /\ hpc' = "reap"
          /\ UNCHANGED <<status, cvars, ctab>>
    /\ UNCHANGED <<clientvars, chanvars, htab, dtab, errs, pvars>>
\* The exit descriptor: the client has closed it, or the poll times out.
Watch ==
    /\ hpc = "watch"
    /\ \/ /\ Exit \notin ktab
          /\ hpc' = "exit" /\ status' = FdClosed
          /\ HangUp
       \/ /\ Exit \in ktab
          /\ hpc' = "reap"
          /\ UNCHANGED <<status, cvars, ctab>>
    /\ UNCHANGED <<clientvars, chanvars, htab, dtab, errs, pvars>>

\* poll() fails: that too is a descriptor that is not well.  Nothing is assumed of
\* how often it does.
WatchFails ==
    /\ hpc = "watch"
    /\ hpc' = "exit" /\ status' = FdClosed /\ errs' = 1
    /\ HangUp
    /\ UNCHANGED <<clientvars, chanvars, htab, dtab, pvars>>

\* russ_sconn_exit(), russ_sconn_close(), exit().
SayExit ==
    /\ hpc = "exit"
    /\ hpc' = "gone" /\ htab' = {}
    /\ exitq' = IF Exit \in ktab THEN <<ExitStatus(status)>> ELSE exitq
    /\ UNCHANGED <<clientvars, inq, outq, ctab, dtab, status, errs, cvars, pvars>>

HandlerKill ==
    /\ hpc \notin {"gone", "killed"}
    /\ hpc' = "killed" /\ htab' = {}
    /\ UNCHANGED <<clientvars, chanvars, ctab, dtab, status, errs, cvars, pvars>>

HandlerStep == SetupFail \/ Fork \/ ForkFail \/ CloseStd \/ Reap \/ Watch \/ SayExit

-----------------------------------------------------------------------------
(* The child, and the program it becomes.                                  *)

ChildOver(how) == cpc' = "zombie" /\ ended' = how /\ ctab' = {} /\ UNCHANGED <<hupped, htab, dtab>>

\* Mutant: the program inherits the exit descriptor.
PrepareLeak ==
    /\ cpc = "forked"
    /\ cpc' = "ready" /\ UNCHANGED ctab
    /\ UNCHANGED <<clientvars, chanvars, htab, dtab, hvars, ended, hupped, pvars>>
\* The streams are put on descriptors 0 to 2; russ_sconn_close() closes the others.
Prepare ==
    /\ cpc = "forked"
    /\ cpc' = "ready" /\ ctab' = Std
    /\ UNCHANGED <<clientvars, chanvars, htab, dtab, hvars, ended, hupped, pvars>>

PrepareFail ==
    /\ cpc = "forked"
    /\ ChildOver(Exited(1))
    /\ UNCHANGED <<clientvars, chanvars, hvars, pvars>>

Exec ==
    /\ cpc = "ready"
    /\ cpc' = "run"
    /\ UNCHANGED <<clientvars, chanvars, tabs, hvars, ended, hupped, pvars>>

\* A message on descriptor 2, which is the client's.
ExecFail ==
    /\ cpc = "ready"
    /\ ChildOver(Exited(1)) /\ Put(2)
    /\ UNCHANGED <<clientvars, hvars, inread, eof, carry>>

ChildStep == Prepare \/ PrepareFail \/ Exec \/ ExecFail

\* A program reads a byte, or the end once the client has closed its end.
ReadInput ==
    /\ cpc = "run" /\ 0 \in ctab
    /\ \/ inq > 0 /\ inq' = inq - 1 /\ inread' = inread + 1 /\ UNCHANGED eof
       \/ inq = 0 /\ 0 \notin ktab /\ eof' = TRUE /\ UNCHANGED <<inq, inread>>
    /\ UNCHANGED <<clientvars, outq, exitq, hvars>>

Writable(f) == f \in ktab /\ outq[f] < Room /\ outw[f] < OutMax

Free ==
    /\ args.prog = "free"
    /\ \/ ReadInput /\ UNCHANGED <<tabs, cvars, outw, carry>>
       \/ \E f \in Outs \cap (ctab \cup dtab) :
             /\ cpc = "run" \/ f \in dtab
             /\ Writable(f) /\ Put(f)
             /\ UNCHANGED <<clientvars, tabs, hvars, cvars, inread, eof, carry>>
       \/ \E f \in ctab \cap {0, 1} : \* it closes a stream (2 is as 1)
             /\ cpc = "run" /\ ctab' = ctab \ {f}
             /\ UNCHANGED <<clientvars, chanvars, htab, dtab, hvars, cvars, pvars>>
       \/ /\ cpc = "run" /\ dtab = {} /\ dtab' = ctab \cap {1} \* it leaves a process behind
          /\ UNCHANGED <<clientvars, chanvars, htab, ctab, hvars, cvars, pvars>>
       \/ /\ dtab # {} /\ dtab' = {} \* which ends
          /\ UNCHANGED <<clientvars, chanvars, htab, ctab, hvars, cvars, pvars>>
       \/ \E s \in Statuses :
             /\ cpc = "run" /\ ChildOver(Exited(s))
             /\ UNCHANGED <<clientvars, chanvars, hvars, pvars>>

\* "cat" copies until the end of its input, or until nobody reads its output.
Cat ==
    /\ args.prog = "cat" /\ cpc = "run"
    /\ \/ /\ carry = 0 /\ ~eof /\ ReadInput
          /\ carry' = inread' - inread
          /\ UNCHANGED <<tabs, cvars, outw>>
       \/ /\ carry = 1 /\ 1 \in ktab /\ outq[1] < Room
          /\ Put(1) /\ carry' = 0
          /\ UNCHANGED <<clientvars, tabs, hvars, cvars, inread, eof>>
       \/ /\ (carry = 0 /\ eof) \/ (carry = 1 /\ 1 \notin ktab)
          /\ ChildOver(Exited(carry))
          /\ UNCHANGED <<clientvars, chanvars, hvars, pvars>>

\* A program that does not handle SIGHUP dies of it.
HupDeath ==
    /\ cpc = "run" /\ hupped
    /\ ChildOver(Killed(SigHup))
    /\ UNCHANGED <<clientvars, chanvars, hvars, pvars>>

ChildKill ==
    /\ cpc \in {"forked", "ready", "run"}
    /\ ChildOver(Killed(SigKill))
    /\ UNCHANGED <<clientvars, chanvars, hvars, pvars>>

Service == HandlerStep \/ WatchFails \/ HandlerKill \/ ChildStep \/ Free \/ Cat \/ HupDeath \/ ChildKill

Next ==
    /\ Service \/ (Collect /\ UNCHANGED <<hvars, cvars, pvars>>)
    /\ UNCHANGED args

Spec == Init /\ [][Next]_vars

\* The client, the handler and the child until it is a program do what they can do;
\* "cat" does, and "sleep" dies of SIGHUP.  Nothing is assumed of a free program.
Fairness ==
    /\ WF_state(CollectStep /\ UNCHANGED <<hvars, cvars, pvars>>)
    /\ WF_state(HandlerStep) /\ WF_state(ChildStep) /\ WF_state(Cat)
    /\ WF_state(args.prog = "sleep" /\ HupDeath)

FairSpec == Spec /\ Fairness

-----------------------------------------------------------------------------
(* Properties.                                                             *)

\* When the client returns from its loop by itself it has all the output, of the
\* program and of what that left behind, or as much as its buffer takes.
OutputWhole ==
    kpc = "returned" => \A f \in Outs :
        /\ got[f] = IF args.cap = 0 THEN outw[f] ELSE Least(outw[f], args.cap)
        /\ got[f] = args.cap \/ ~Held(f)

\* A program that reads the end of its input has read all of it, unless the client
\* has given up.
InputWhole == eof => inread = args.len \/ kpc \in {"expired", "failed", "killed"}

\* A status means that the program is over; of one that exited by itself, it is the
\* status it exited with; and it never stands for a client that hung up.  Not so if
\* poll() failed: that ends the handler as a client that hung up does.
StatusTrue ==
    wrv = "ok" /\ errs = 0 =>
        /\ cpc \in {"none", "reaped"}
        /\ cpc = "reaped" /\ ended % 256 = 0 => exitst = ended \div 256
        /\ status # FdClosed

\* Nobody waits for the other for ever, the client that writes and reads nor the
\* program: the client gets out of its loop when the program and what it left have
\* ended, and after its deadline whatever the service does; and a program that
\* copies its input to its output comes to its end.
CollectEnds ==
    /\ (hpc = "gone" /\ ctab = {} /\ dtab = {}) ~> kpc # "loop"
    /\ late ~> kpc # "loop"
    /\ (args.prog = "cat" /\ cpc = "run") ~> cpc # "run"

\* The program ends when its client is gone, also one that does nothing.
HangUpEnds == (args.prog = "sleep" /\ kpc # "loop") ~> (cpc # "run" \/ hpc = "killed")

\* The client learns of the death of the handler while the program goes on.
DeathHeard == hpc = "killed" ~> (wrv # "unset" \/ kpc # "loop")

\* convenience.c:99: "return value of russ_cconn_wait()".  The function returns when
\* there is nobody left on the other side.
CollectReturns == (~\E f \in Fds : Held(f)) ~> kpc # "loop"
=============================================================================
