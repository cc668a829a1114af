---------------------------- MODULE RussCollect ----------------------------
(***************************************************************************)
(* The client that gives a service its input, collects its output and      *)
(* waits for its exit status, all in one loop (convenience.c), and the     *)
(* channels between the two.  The service is in RussExec.                  *)
(***************************************************************************)
EXTENDS Integers, FiniteSets, FiniteSetsExt, SequencesExt

CONSTANTS
    Calls,  \* the calls clients make, with the program each of them runs
    Chunk,  \* most it writes at once
    Room    \* bytes a channel takes

\* "cat" copies its input to its output, "sleep" waits for a signal.
Programs == {"free", "cat", "sleep"}

\* A write of a chunk does not block when poll() promises room for it: the sockets
\* that russ_make_pipes() makes take more than 1<<16 bytes when they are writable.
ASSUME CollectAssumption ==
    /\ Calls \subseteq [prog : Programs, len : Nat, cap : Nat, deadline : BOOLEAN]
    /\ Chunk \in Nat \ {0} /\ Room \in Nat /\ Chunk <= Room

Std == 0..2    \* the standard streams
Outs == {1, 2}
Exit == 3      \* the exit descriptor
Fds == 0..3

VARIABLES
    args,     \* the call: program, bytes of input, size of output buffers (0 to discard), a deadline
    kpc,      \* where the client is
    ktab,     \* descriptors it has open, by their place in pollfds
    openfds,  \* its count of them
    todo,     \* places with events not yet looked at
    sent,     \* bytes of input written
    got,      \* got[f]: bytes of output taken
    wrv,      \* what russ_cconn_wait() returned last
    exitst,   \* the status it gave
    late,     \* the deadline has passed
    inq,      \* bytes on their way to the service
    outq,     \* outq[f]: bytes on their way to the client
    exitq,    \* statuses on their way to the client
    htab,     \* ends of the channels that the handler has
    ctab,     \* and its child
    dtab      \* and a program the child left behind

loopvars == <<kpc, ktab, openfds, todo>>
datavars == <<sent, got, wrv, exitst>>
chanvars == <<inq, outq, exitq>>
clientvars == <<loopvars, datavars, late>>
tabs == <<htab, ctab, dtab>>

Held(f) == f \in htab \cup ctab \cup dtab

CollectInit ==
    /\ args \in Calls
    /\ kpc = "loop" /\ ktab = Fds /\ openfds = 4 /\ todo = {}
    /\ sent = 0 /\ got = [f \in Outs |-> 0]
    /\ wrv = "unset" /\ exitst = 0 /\ late = FALSE
    /\ inq = 0 /\ outq = [f \in Outs |-> 0] /\ exitq = <<>>

-----------------------------------------------------------------------------
(* The loop.                                                               *)

HasEvent(f) ==
    \/ ~Held(f)
    \/ f = 0 /\ inq + Chunk <= Room
    \/ f \in Outs /\ outq[f] > 0
    \/ f = Exit /\ exitq # <<>>
Events == {f \in ktab : HasEvent(f)}

\* Mutant: the loop ends with the exit status.
LoopOverAtExit == wrv = "ok" \/ openfds = 0
LoopOver == openfds = 0

PollReady ==
    /\ kpc = "loop" /\ todo = {} /\ ~LoopOver /\ ~late
    /\ Events # {}
    /\ todo' = Events
    /\ UNCHANGED <<kpc, ktab, openfds, datavars, late, chanvars, tabs>>

\* It looks at the places in order.
Turn(f) ==
    /\ kpc = "loop" /\ todo # {} /\ f = Min(todo)
    /\ todo' = todo \ {f}
    /\ UNCHANGED kpc

\* Mutant: a closed place still counts.
CloseFdUncounted(f) == ktab' = ktab \ {f} /\ UNCHANGED openfds
CloseFd(f) == ktab' = ktab \ {f} /\ openfds' = openfds - 1

Least(m, n) == IF m <= n THEN m ELSE n

\* Mutant: the last piece of the input, when it is short, is not written.
InputShort ==
    LET n == Least(args.len - sent, Chunk)
    IN  /\ Turn(0)
        /\ IF n < Chunk \/ ~Held(0)
           THEN CloseFd(0) /\ UNCHANGED <<sent, inq>>
           ELSE sent' = sent + n /\ inq' = inq + n /\ UNCHANGED <<ktab, openfds>>
        /\ UNCHANGED <<got, wrv, exitst, late, outq, exitq, tabs>>
\* Input is written; at its end, or when nobody can read it, it is closed.
Input ==
    LET n == Least(args.len - sent, Chunk)
    IN  /\ Turn(0)
        /\ IF n = 0 \/ ~Held(0)
           THEN CloseFd(0) /\ UNCHANGED <<sent, inq>>
           ELSE sent' = sent + n /\ inq' = inq + n /\ UNCHANGED <<ktab, openfds>>
        /\ UNCHANGED <<got, wrv, exitst, late, outq, exitq, tabs>>

\* Output is read; at its end, or when the buffer is full, it is closed.
Output(f) ==
    LET n == IF args.cap = 0 THEN outq[f] ELSE Least(args.cap - got[f], outq[f])
    IN  /\ Turn(f)
        /\ IF n = 0
           THEN CloseFd(f) /\ UNCHANGED <<got, outq>>
           ELSE /\ got' = [got EXCEPT ![f] = @ + n]
                /\ outq' = [outq EXCEPT ![f] = @ - n]
                /\ UNCHANGED <<ktab, openfds>>
        /\ UNCHANGED <<sent, wrv, exitst, late, inq, exitq, tabs>>

\* russ_cconn_wait(): it closes the exit descriptor when it has the status, and
\* leaves it open otherwise.
Wait ==
    /\ Turn(Exit)
    /\ \/ /\ late
          /\ wrv' = "timeout"
          /\ UNCHANGED <<ktab, openfds, exitst, exitq>>
       \/ /\ ~late /\ exitq # <<>>
          /\ wrv' = "ok" /\ exitst' = Head(exitq) /\ exitq' = Tail(exitq)
          /\ CloseFd(Exit)
       \/ /\ ~late /\ exitq = <<>>
          /\ wrv' = "hup"
          /\ UNCHANGED <<ktab, openfds, exitst, exitq>>
    /\ UNCHANGED <<sent, got, late, inq, outq, tabs>>

Leave(how) ==
    /\ kpc' = how /\ ktab' = {} /\ todo' = {}
    /\ UNCHANGED <<openfds, sent, got, exitst, late, chanvars, tabs>>

Return ==
    /\ kpc = "loop" /\ todo = {} /\ LoopOver
    /\ Leave("returned") /\ UNCHANGED wrv

Expire ==
    /\ kpc = "loop" /\ todo = {} /\ ~LoopOver /\ late
    /\ Leave("expired")
    /\ wrv' = IF wrv = "unset" THEN "timeout" ELSE wrv

\* poll() fails.
PollFail ==
    /\ kpc = "loop" /\ todo = {} /\ ~LoopOver /\ ~late
    /\ Leave("failed") /\ UNCHANGED wrv

ClientKill == kpc = "loop" /\ Leave("killed") /\ UNCHANGED wrv

Late ==
    /\ args.deadline /\ kpc = "loop" /\ ~late
    /\ late' = TRUE
    /\ UNCHANGED <<loopvars, datavars, chanvars, tabs>>

CollectStep == PollReady \/ Input \/ (\E f \in Outs : Output(f)) \/ Wait \/ Return \/ Expire
Collect == CollectStep \/ PollFail \/ ClientKill \/ Late
=============================================================================
