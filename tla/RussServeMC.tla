---------------------------- MODULE RussServeMC ----------------------------
(* Users 0 (root) and 1, of groups 0 and 7; processes 1 and 2; texts are    *)
(* made of "x", the login's, "d" and "e", the delimiter, and the service's  *)
(* "a" and "b".                                                             *)
EXTENDS RussServe, TLC

OthersOwners == <<0, 1>>
Groups == 0 :> 0 @@ 1 :> 7
De == <<"d", "e">>

\* As ruspawn starts them, or as rustart does.
Base(svc) == [svc |-> svc, ignores |-> FALSE, faults |-> 1, in |-> <<>>]
Ignoring(S) == {[c EXCEPT !.ignores = TRUE] : c \in S}
Both(S) == S \cup Ignoring(S)
DebugCalls ==
    Both({Base(svc) : svc \in {"alive", "report", "chargen"}})
    \cup {Base("exit") @@ [arg |-> n] : n \in {-1, 0, 3, 255, 256}}
    \cup Both({[Base("echo") EXCEPT !.in = <<"a", "b">>]})
    \cup Both({[Base("discard") EXCEPT !.in = <<"a", "b">>] @@ [perf |-> b] : b \in BOOLEAN})

Some == 1 :> 1 @@ 2 :> NoUser
Two == 1 :> 0 @@ 2 :> 1
Procs(svc, ps) == Base(svc) @@ [procs |-> ps]
WaitCalls ==
    {Procs("wait", Some) @@ [pid |-> p, args |-> n, due |-> d] :
              p \in {1, 2, 0}, n \in 0..2, d \in {"never", "later", "at once"}}
ProcCalls ==
    {Procs("list", ps) @@ [of |-> o] : o \in {"g", "u", "p"}, ps \in {Some, Two}}
    \cup {Procs("status", Some) @@ [of |-> "n"]}
    \cup {Procs("status", Some) @@ [of |-> "u", who |-> u] : u \in {0, 1}}
    \cup {Procs("status", Two) @@ [of |-> "g", who |-> 7]}
    \cup Ignoring({Procs("list", Two) @@ [of |-> "p"]})
    \cup {Procs("pidstatus", Some) @@ [pid |-> p] : p \in {1, 2, 0}}
    \cup {Procs("kill", Two) @@ [pid |-> p, sig |-> s] :
              p \in {1, 2, 0}, s \in {"none", "word", "empty", "positive", "KILL"}}
    \cup WaitCalls

\* The login writes nothing; a little; enough for the delimiter to lie at the
\* end of the buffer, across it, behind it; across its second end.
X(n) == [i \in 1..n |-> "x"]
Texts == {X(n) \o De \o <<"a", "b">> : n \in {0, 1, 2, 3, 4, 6}} \cup {<<"d", "x">> \o De \o De}
RemoteCalls ==
    Both({Base(svc) @@ [text |-> <<<<"a">>, <<"b">>>>] : svc \in {"dial", "tunnel"}})
    \cup {Base("tunnelr") @@ [text |-> <<t, u>>] : t \in Texts, u \in {X(1) \o De, X(4) \o De \o <<"a">>, X(2)}}
    \cup Ignoring({Base("tunnelr") @@ [text |-> <<X(2) \o De, De>>]})
    \cup Ignoring({[Base("tee") EXCEPT !.in = <<"a">>]
              @@ [attr |-> a, files |-> f, text |-> <<<<"a", "b">>, <<"c">>>>] :
              a \in {"fixed", "none", "unknown", "other op"}, f \in {{}, {0, 1}}})

AllCalls == DebugCalls \cup ProcCalls \cup RemoteCalls
=============================================================================
