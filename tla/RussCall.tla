------------------------------ MODULE RussCall ------------------------------
(***************************************************************************)
(* What a dial promises, seen from outside: a client dials, the dial       *)
(* either gives it a connection or does not, and the client of an          *)
(* established connection hears the one exit status the service gave, or   *)
(* learns that there will be none.  RussConn implements this.              *)
(***************************************************************************)
CONSTANTS
    Conns,     \* dials made to one server
    Statuses,  \* exit statuses a service can give
    NoStatus,  \* no status so far
    Lost       \* the client learnt that no status will come

VARIABLES
    call,   \* call[c]: how far the client's dial is
    said,   \* said[c]: the exit status the service committed to
    heard   \* heard[c]: what russ_cconn_wait() told the client

vars == <<call, said, heard>>

Init ==
    /\ call = [c \in Conns |-> "dialing"]
    /\ said = [c \in Conns |-> NoStatus]
    /\ heard = [c \in Conns |-> NoStatus]

\* The dial ends: with a connection, without one, or because the client is gone.
Settle(c, how) ==
    /\ \/ call[c] = "dialing"
       \/ call[c] = "dialed" /\ how = "left"
    /\ call' = [call EXCEPT ![c] = how]
    /\ UNCHANGED <<said, heard>>

\* The service commits to a status, once, and never after the client was told
\* that none will come.
Say(c, st) ==
    /\ said[c] = NoStatus
    /\ heard[c] # Lost
    /\ said' = [said EXCEPT ![c] = st]
    /\ UNCHANGED <<call, heard>>

\* The client hears exactly the status the service committed to.
Hear(c) ==
    /\ call[c] = "dialed"
    /\ heard[c] = NoStatus
    /\ said[c] # NoStatus
    /\ heard' = [heard EXCEPT ![c] = said[c]]
    /\ UNCHANGED <<call, said>>

\* The client is told that no status will come: only when none was given.
Lose(c) ==
    /\ call[c] = "dialed"
    /\ heard[c] = NoStatus
    /\ said[c] = NoStatus
    /\ heard' = [heard EXCEPT ![c] = Lost]
    /\ UNCHANGED <<call, said>>

Next ==
    \E c \in Conns :
        \/ \E how \in {"dialed", "failed", "left"} : Settle(c, how)
        \/ \E st \in Statuses : Say(c, st)
        \/ Hear(c)
        \/ Lose(c)

Spec == Init /\ [][Next]_vars
=============================================================================
