-------------------------- MODULE RussForwardMC --------------------------
(* A site of servers and what its client may ask for.                      *)
EXTENDS RussForward

Target2(u, g) == [userhost |-> u, cgroup |-> g]
Service == [kind |-> "service"]
PnetOf(lines) == [kind |-> "pnet", lines |-> lines, relay |-> <<"+", "sshr">>, local |-> {"here"}]

Servers ==
    <<"svc">> :> Service @@ <<"bb", "svc">> :> Service @@ <<"h", "svc">> :> Service
    @@ <<"u", "svc">> :> Service @@ <<"bb", "sshr">> :> Service
    @@ <<"hang">> :> [kind |-> "hang"]
    @@ <<"pass">> :> [kind |-> "pass"]
    @@ <<"set">> :> [kind |-> "set"] @@ <<"bb", "set">> :> [kind |-> "set"]
    @@ <<"redir">> :> [kind |-> "redir", named |-> TRUE,
                       spath |-> ("group.name" :> <<"svc", "g">> @@ "next" :> <<"hang">>)]
    @@ <<"empty">> :> [kind |-> "redir", named |-> TRUE, spath |-> [x \in {} |-> <<>>]]
    @@ <<"anon">> :> [kind |-> "redir", named |-> FALSE, spath |-> ("next" :> <<"svc">>)]
    @@ <<"h", "loop">> :> [kind |-> "redir", named |-> TRUE, spath |-> ("next" :> <<"+", "loop">>)]
    @@ <<"mredir">> :> [kind |-> "mredir",
                        spaths |-> ("a" :> <<"svc", "m">> @@ "no" :> <<"nowhere">>)]
    @@ <<"plus2">> :> [kind |-> "plus", readable |-> FALSE, paths |-> <<>>, lists |-> [x \in {} |-> <<>>],
                       dirs |-> [x \in {} |-> <<>>]]
    @@ <<"plus">> :> [kind |-> "plus", readable |-> TRUE, paths |-> <<"user", "clear", "base", "home">>,
                      lists |-> ("base" :> <<"sys", "builtin">>),
                      dirs |-> ("user" :> <<"u">> @@ "sys" :> <<"bb">> @@ "home" :> <<"h">>)]

Whole ==
    Servers @@ <<"pnet">> :> PnetOf(<<Target2("t0", ""), Target2("t1", "cg"), Target2("here", "")>>)
    @@ <<"old">> :> PnetOf(<<NoTarget, Target2("t0", ""), Target2("t1", "cg")>>)

Symlinks ==
    <<"l">> :> [abs |-> TRUE, to |-> <<"pass">>] @@ <<"bb", "alias">> :> [abs |-> FALSE, to |-> <<"svc">>]
    @@ <<"x">> :> [abs |-> TRUE, to |-> <<"y">>] @@ <<"y">> :> [abs |-> TRUE, to |-> <<"x">>]

Named(n, v) == [name |-> n, index |-> -1, value |-> v]
At(i, v) == [name |-> "", index |-> i, value |-> v]
Parsed ==
    "a=1" :> Named("a", 1) @@ "a=2" :> Named("a", 2) @@ "b=3" :> Named("b", 3)
    @@ "count=0" :> Named(CountName, 0) @@ "count=1" :> Named(CountName, 1) @@ "count=2" :> Named(CountName, 2)
    @@ "count=max" :> Named(CountName, IntMax)
    @@ "0=7" :> At(0, 7) @@ "-1=8" :> At(-1, 8) @@ "9=9" :> At(9, 9)
ParsedIndexes ==
    "0" :> [i |-> 0, wrap |-> FALSE] @@ "2" :> [i |-> 2, wrap |-> FALSE] @@ "3" :> [i |-> 3, wrap |-> FALSE]
    @@ "-1" :> [i |-> -1, wrap |-> FALSE] @@ "-4" :> [i |-> -4, wrap |-> FALSE] @@ ":4" :> [i |-> 4, wrap |-> TRUE]

Attrs0 == <<[name |-> "a", value |-> 0]>>
Asks(most, op, path, limit, want) ==
    [faults |-> most, op |-> op, path |-> path, attrv |-> Attrs0, argv |-> <<5>>, limit |-> limit, want |-> want]
Service1(addr, path, attrs, argv) == [come |-> "service", addr |-> addr, path |-> path, attrs |-> attrs, argv |-> argv]
Ask(op, path, limit, want) == Asks(1, op, path, limit, want)
Reached(addr, path) == Service1(addr, path, "a" :> 0, <<5>>)
Status(st) == [come |-> "status", status |-> st]
Comes(what) == [come |-> what]

(* What settings come to: the last one of a name counts, and so the last one of *)
(* an index; what is appended comes after; one that cannot be made is refused.  *)
Good == {"a=1", "a=2", "b=3", "0=7", "-1=8"}
LastOf(s, n, else) ==
    LET S == {i \in DOMAIN s : Parsed[s[i]].name = n}
    IN  IF S = {} THEN else ELSE Parsed[s[CHOOSE i \in S : \A j \in S : j <= i]].value
Made(s) ==
    LET names == {"a"} \cup ({Parsed[s[i]].name : i \in DOMAIN s} \ {""})
    IN  [attrs |-> [n \in names |-> LastOf(s, n, 0)],
         argv |-> <<IF \E i \in DOMAIN s : s[i] = "0=7" THEN 7 ELSE 5>>
                    \o [i \in 1..Cardinality({j \in DOMAIN s : s[j] = "-1=8"}) |-> 8]]
WantSet(addr, path, s) ==
    IF \E i \in DOMAIN s : s[i] \notin Good THEN Status(Failure) ELSE Service1(addr, path, Made(s).attrs, Made(s).argv)

SeqsTo(S, n) == UNION {[1..k -> S] : k \in 0..n}
SetCalls ==
    {Asks(0, "execute", <<"set">> \o s \o <<".", "svc", "z">>, FALSE,
         WantSet(<<"svc">>, <<"z">>, s)) : s \in SeqsTo(Good \cup {"9=9", "bad"}, 2) \ {<<>>}}
MixCalls ==
    {Asks(0, "execute", <<"set", s, ".", "+", "set", t, ".", "pass", "svc">>, FALSE,
         WantSet(<<"svc">>, <<>>, <<s, t>>)) : s, t \in Good}
Plain ==
    {Ask("execute", <<"svc">>, TRUE, Reached(<<"svc">>, <<>>)),
     Ask("help", <<"svc">>, FALSE, Status(Success)),
     Ask("execute", <<"nowhere">>, FALSE, Comes("failed")),
     Ask("execute", <<"x", "svc">>, FALSE, Comes("failed")),
     Ask("execute", <<"l", "redir", "q">>, FALSE, Reached(<<"svc">>, <<"g", "q">>)),
     Ask("execute", <<"empty", "q">>, FALSE, Comes("hup")),
     Ask("execute", <<"anon", "q">>, FALSE, Comes("failed")),
     Ask("execute", <<"plus2", "svc">>, FALSE, Status(Failure)),
     Ask("help", <<"plus2", "svc">>, FALSE, Status(Success)),
     Ask("list", <<"plus2">>, FALSE, Status(Failure)),
     Ask("execute", <<"mredir", "a", "q">>, FALSE, Reached(<<"svc">>, <<"m", "q">>)),
     Ask("list", <<"mredir">>, FALSE, Status(Success)),
     Ask("execute", <<"mredir">>, FALSE, Status(Failure)),
     Ask("execute", <<"mredir", "b">>, FALSE, Status(Failure)),
     Ask("execute", <<"mredir", "no", "q">>, FALSE, Status(Failure)),
     Ask("list", <<"pass">>, FALSE, Status(Failure)),
     Ask("execute", <<"set">>, FALSE, Status(Failure)),
     Ask("list", <<"set">>, FALSE, Status(Success)),
     Ask("execute", <<"set", "a=1">>, FALSE, Status(Failure)),
     Ask("help", <<"set", "bad", ".", "svc">>, FALSE, Status(Success)),
     Ask("execute", <<"+", "svc">>, FALSE, Reached(<<"bb", "svc">>, <<>>)),
     Ask("execute", <<"+", "alias", "q">>, FALSE, Reached(<<"bb", "svc">>, <<"q">>)),
     Ask("list", <<"+">>, FALSE, Status(Success)),
     Ask("execute", <<"+", "none">>, FALSE, Status(Failure)),
     Ask("execute", <<"+", "loop", "q">>, FALSE, Status(Failure)),
     Ask("execute", <<"set", "a=1", ".", "+", "loop">>, FALSE, Status(Failure)),
     Ask("execute", <<"hang">>, FALSE, Comes("never")),
     Ask("execute", <<"pass", "hang">>, TRUE, Comes("never")),
     Ask("execute", <<"pass", "set", ".", "pass", "hang">>, FALSE, Comes("never"))}

AtTarget(u, path) == Reached(<<"bb", "sshr">>, <<u>> \o path)
PnetCalls ==
    {Ask("execute", <<"pnet", "host", "t1", "q">>, FALSE, AtTarget("t1", <<"q">>)),
     Ask("execute", <<"pnet", "host", "t9", "q">>, FALSE, Comes("failed")),
     Ask("execute", <<"pnet", "host", "t9">>, FALSE, Status(Failure)),
     Ask("execute", <<"pnet", "net", "t9", "q">>, FALSE, AtTarget("t9", <<"q">>)),
     Ask("list", <<"pnet", "net", "t9">>, FALSE, Status(Success)),
     Ask("list", <<"pnet", "id">>, FALSE, Status(Success)),
     Ask("list", <<"pnet">>, FALSE, Status(Success)),
     Ask("execute", <<"pnet", "count">>, FALSE, Status(Success)),
     Ask("execute", <<"pnet", "other">>, FALSE, Status(Failure)),
     Ask("execute", <<"pnet", "id", "0", "svc">>, FALSE, AtTarget("t0", <<"svc">>)),
     Ask("execute", <<"pnet", "id", "-1", "svc">>, FALSE, Reached(<<"svc">>, <<>>)),
     Ask("execute", <<"pnet", "id", ":4", "svc">>, FALSE, AtTarget("t1", <<"svc">>)),
     Ask("execute", <<"pnet", "id", "3", "svc">>, FALSE, Comes("failed")),
     Ask("execute", <<"pnet", "id", "-4">>, FALSE, Status(Failure)),
     \* A legacy file that begins with a comment.  Which target a negative index
     \* is at is not asked: it is not the one that the help text says.
     Ask("execute", <<"old", "id", "0", "svc">>, FALSE, Comes("failed")),
     Ask("execute", <<"old", "run", "0", "shell">>, FALSE, Comes("failed")),
     Ask("execute", <<"pnet", "run", "2", "shell">>, FALSE, AtTarget("here", <<"+", "exec", "shell">>)),
     Ask("execute", <<"pnet", "run", ":4", "shell">>, FALSE,
         AtTarget("t1", <<"+", "exec", "cgroup", "cg", "shell">>))}

\* The loop count, given by a client or a setting.
Given(n, path, want) == [Asks(0, "execute", path, FALSE, want) EXCEPT !.attrv = Append(@, [name |-> CountName, value |-> n])]
Counts(n) == Service1(<<"bb", "svc">>, <<>>, "a" :> 0 @@ CountName :> n, <<5>>)
CountCalls ==
    {Ask("execute", <<"set", "count=0", ".", "+", "svc">>, FALSE, Counts(1)),
     Ask("execute", <<"set", "count=2", "count=1", ".", "+", "svc">>, FALSE, Counts(2)),
     Ask("execute", <<"set", "count=2", ".", "+", "svc">>, FALSE, Status(Failure)),
     Ask("execute", <<"set", "count=1", ".", "+", "loop">>, FALSE, Status(Failure)),
     Ask("execute", <<"+", "set", "count=1", ".", "+", "loop">>, FALSE, Status(Failure)),
     Ask("execute", <<"set", "count=max", ".", "+", "svc">>, FALSE, Counts(-IntMax - 1)),
     Given(-2, <<"+", "set", "a=1", ".", "+", "svc">>, Service1(<<"bb", "svc">>, <<>>, "a" :> 1 @@ CountName :> 0, <<5>>)),
     Given(-2, <<"+", "svc">>, Counts(-1)), Given(1, <<"+", "loop">>, Status(Failure)),
     Given(2, <<"+", "svc">>, Status(Failure)), Given(IntMax, <<"+", "svc">>, Counts(-IntMax - 1))}

AllCalls == SetCalls \cup MixCalls \cup Plain \cup PnetCalls \cup CountCalls
Bb == <<"plus">>
===========================================================================
