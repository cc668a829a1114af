---------------------------- MODULE RussForward ----------------------------
(***************************************************************************)
(* A dial that goes through servers that forward it: russredir, russmredir,*)
(* russpass, russset, russplus and russpnet look at the request, change    *)
(* it, dial the next server (russ_dialv(), russ_sconn_redialandsplice())   *)
(* and pass what they were answered on to their own client                 *)
(* (russ_sconn_splice()).                                                  *)
(*                                                                         *)
(* Process 0 is the client.  Process h dials, and is served by, process    *)
(* h + 1, the handler of one connection (RussConn) of some server; a       *)
(* server that is met twice is two processes.  Both arrays of descriptors  *)
(* are one message here: a dial that gets the first only has failed.       *)
(*                                                                         *)
(* A path is a sequence of names; the names of settings and of indexes     *)
(* stand for what they are parsed as.                                      *)
(***************************************************************************)
EXTENDS Integers, SequencesExt, FiniteSets

CONSTANTS
    Site,       \* the servers: a function from addresses, which are paths
    Links,      \* symbolic links: from paths to [abs, to]
    Settings,   \* names "index=value", "name=value", parsed
    Indexes,    \* names ":index" and "index", parsed
    Calls,      \* what the client may ask for, what is to come of it and, a bound,
                \* how many calls fail and processes are killed on the way
    PlusAddr,   \* the address "+" stands for
    PlusMax,    \* PLUS_COUNT_MAX
    IntMax,     \* INT_MAX
    LinksMax,   \* RUSS_SPATH_RESOLVE_SYMLINKS_MAX
    Statuses, Success, Failure, NoStatus,
    MaxHops     \* a bound: processes in a chain

ASSUME ForwardAssumption ==
    /\ PlusMax \in Nat /\ LinksMax \in Nat /\ MaxHops \in Nat
    /\ IntMax \in Nat /\ PlusMax < IntMax
    /\ {Success, Failure} \subseteq Statuses /\ NoStatus \notin Statuses
    /\ PlusAddr \in DOMAIN Site

Hops == 1..MaxHops
Nobody == 0

-----------------------------------------------------------------------------
(* Paths: russ_spath_resolve() and russ_spath_split().                     *)

NoPath == <<"/">>
Least(S) == CHOOSE n \in S : \A m \in S : n <= m
Cuts(path, S) == {n \in 1..Len(path) : SubSeq(path, 1, n) \in S}
From(path, n) == SubSeq(path, n, Len(path))

\* One link followed: the leftmost, replaced by what it says.
Follow(path) ==
    LET n == Least(Cuts(path, DOMAIN Links))
        l == Links[SubSeq(path, 1, n)]
    IN  (IF l.abs THEN l.to ELSE SubSeq(path, 1, n - 1) \o l.to) \o From(path, n + 1)

\* No path when there are more than LinksMax links to follow.
Resolve(path) ==
    LET after[n \in 0..LinksMax] ==
            IF n = 0 THEN path
            ELSE LET p == after[n - 1] IN IF Cuts(p, DOMAIN Links) = {} THEN p ELSE Follow(p)
        end == after[LinksMax]
    IN  IF Cuts(end, DOMAIN Links) = {} THEN end ELSE NoPath

\* The address a path leads to, and the path its server is asked for: the plus
\* server, or the leftmost address on the way.
Split(path) ==
    LET p == Resolve(path)
        ns == Cuts(p, DOMAIN Site)
    IN  IF p # <<>> /\ p[1] = "+" THEN [addr |-> PlusAddr, rest |-> Tail(p)]
        ELSE IF ns # {} THEN [addr |-> SubSeq(p, 1, Least(ns)), rest |-> From(p, Least(ns) + 1)]
        ELSE [addr |-> NoPath, rest |-> <<>>]

-----------------------------------------------------------------------------
(* Service trees: what the servers' main() add, and russ_svcnode_find().   *)

Routes == {"host", "id", "net", "run"}
Tree(kind) ==
    {<<>>} \cup
    CASE kind \in {"mredir", "set", "plus"} -> {<<"*">>}
      [] kind = "pnet" -> {<<"count">>, <<"gettargets">>}
                            \cup UNION {{<<x>>, <<x, "*">>, <<x, "*", "*">>} : x \in Routes}
      [] OTHER -> {}

\* A virtual node takes everything below it.
Virtual(kind, node) ==
    CASE kind \in {"mredir", "set", "plus"} -> node = <<"*">>
      [] kind = "pnet" -> Len(node) = 3
      [] OTHER -> TRUE

\* Mutant: autoanswer is left on where it is on by default.
AutoAll(kind, node) == kind \notin {"redir", "pass", "hang"}
\* The dispatcher answers before the handler is called.
Autoanswers(kind, node) == kind = "service" \/ ~Virtual(kind, node)

NoNode == <<"/">>
Find(kind, path) ==
    LET at[n \in 0..Len(path)] ==
            IF n = 0 THEN <<>>
            ELSE LET p == at[n - 1] IN
                 IF p = NoNode \/ Virtual(kind, p) THEN p
                 ELSE IF p \o <<"*">> \in Tree(kind) THEN p \o <<"*">>
                 ELSE IF p \o <<path[n]>> \in Tree(kind) THEN p \o <<path[n]>>
                 ELSE NoNode
    IN  at[Len(path)]

\* What the dispatcher says for a handler that returns: a list of the children,
\* the help text or the server's information; anything else is refused.
Children(kind, node) == {m \in Tree(kind) : m # <<>> /\ Front(m) = node}
Fallback(kind, node, op) ==
    IF op \in {"help", "info"} \/ (op = "list" /\ ~Virtual(kind, node) /\ Children(kind, node) # {})
    THEN Success ELSE Failure

-----------------------------------------------------------------------------
(* What a handler does with a request r: dial another path, say a status   *)
(* of its own, serve, or leave without an answer or without a status.      *)

Dials(r, path, limit) ==
    LET to == Split(path)
    IN  [do |-> "dial", addr |-> to.addr, req |-> [r EXCEPT !.path = to.rest], limit |-> limit]
Says(st) == [do |-> "say", status |-> st]
Does(what) == [do |-> what]

\* russredir: the first section that has a prefix, of the user, of the group,
\* of users, and the default; no prefix is an answer and no status.  A client
\* without the names of a user and a group is refused on streams that are not
\* there.
Sections == <<"user.name", "group.name", "user", "next">>
Redir(s, r) ==
    LET i == SelectInSeq(Sections, LAMBDA x : x \in DOMAIN s.spath)
    IN  IF ~s.named THEN Does("mute")
        ELSE IF i = 0 THEN Does("silent")
        ELSE Dials(r, s.spath[Sections[i]] \o r.path, FALSE)

\* russmredir: the first component selects where to go on.
Mredir(s, r) ==
    IF r.path = <<>> THEN Says(IF r.op = "list" THEN Success ELSE Fallback("mredir", <<>>, r.op))
    ELSE IF r.path[1] \in DOMAIN s.spaths THEN Dials(r, s.spaths[r.path[1]] \o Tail(r.path), FALSE)
    ELSE Says(Failure)

\* russpass: on, as it is.
Pass(s, r) ==
    IF r.path = <<>> THEN Says(Fallback("pass", <<>>, r.op)) ELSE Dials(r, r.path, FALSE)

\* Arrays of strings (sarray0.c), attributes as [name, value]; positions count
\* from 0, and -1 is nowhere.
FindPrefix(attrv, name) == SelectInSeq(attrv, LAMBDA e : e.name = name) - 1
\* Mutant: what is found is not replaced.
UpdateAppend(seq, i, x) == Append(seq, x)
Update(seq, i, x) == IF i = -1 THEN Append(seq, x) ELSE [seq EXCEPT ![i + 1] = x]

\* update_attrv_argv(): the setting c, unless an earlier one was refused.
Apply(r, c) ==
    IF ~r.ok \/ c \notin DOMAIN Settings THEN [r EXCEPT !.ok = FALSE]
    ELSE LET v == Settings[c].value
             i == Settings[c].index
             name == Settings[c].name
         IN  IF name # "" THEN [r EXCEPT !.attrv = Update(@, FindPrefix(@, name), [name |-> name, value |-> v])]
             ELSE IF i \in -1..Len(r.argv) - 1 THEN [r EXCEPT !.argv = Update(@, i, v)]
             ELSE [r EXCEPT !.ok = FALSE]

\* One setting after the other.
Applied(r, settings) ==
    LET made[n \in 0..Len(settings)] ==
            IF n = 0 THEN [ok |-> TRUE, attrv |-> r.attrv, argv |-> r.argv] ELSE Apply(made[n - 1], settings[n])
    IN  made[Len(settings)]

\* russset: the settings before "." are made when the service is to be executed,
\* what follows is dialed.
Dot(path) == SelectInSeq(path, LAMBDA c : c = ".")
SettingsOf(r) ==
    IF r.op # "execute" THEN <<>>
    ELSE IF Dot(r.path) = 0 THEN r.path ELSE SubSeq(r.path, 1, Dot(r.path) - 1)
Set(s, r) ==
    LET dot == Dot(r.path)
        made == Applied(r, SettingsOf(r))
    IN  IF r.path = <<>> THEN Says(Fallback("set", <<>>, r.op))
        ELSE IF ~made.ok THEN Says(Failure)
        ELSE IF dot = 0 THEN Says(Fallback("set", <<"*">>, r.op))
        ELSE Dials([r EXCEPT !.attrv = made.attrv, !.argv = made.argv], From(r.path, dot + 1), TRUE)

\* russplus: the directories to search, from names of directories and of lists.
Places(s, e) ==
    LET named == SelectSeq(IF e \in DOMAIN s.lists THEN s.lists[e] ELSE <<e>>, LAMBDA x : x \in DOMAIN s.dirs)
    IN  [i \in DOMAIN named |-> s.dirs[named[i]]]
SearchPaths(s) ==
    FoldLeft(LAMBDA ds, e : IF e = "clear" THEN <<>> ELSE ds \o Places(s, e), <<>>, s.paths)
Search == [a \in {b \in DOMAIN Site : Site[b].kind = "plus"} |-> SearchPaths(Site[a])]

\* The loop count is an attribute, put first; an int, which the build lets wrap.
CountName == "__PLUS_COUNT"
PlusCount(attrv) ==
    LET i == FindPrefix(attrv, CountName) IN IF i < 0 THEN 0 ELSE attrv[i + 1].value
Raised(n) == IF n = IntMax THEN -IntMax - 1 ELSE n + 1
\* Mutant: the count is not raised.
CountedSame(attrv) == attrv
Counted(attrv) ==
    LET entry == [name |-> CountName, value |-> Raised(PlusCount(attrv))]
    IN  IF FindPrefix(attrv, CountName) = 0 THEN Update(attrv, 0, entry) ELSE <<entry>> \o attrv

\* The search paths may not be readable.
Plus(a, r) ==
    LET dirs == Search[a]
        i == SelectInSeq(dirs, LAMBDA d : d \notin DOMAIN Site /\ Resolve(Append(d, r.path[1])) \in DOMAIN Site)
        list == IF Site[a].readable THEN Success ELSE Failure
    IN  IF r.path = <<>> THEN Says(IF r.op = "list" THEN list ELSE Fallback("plus", <<>>, r.op))
        ELSE IF Raised(PlusCount(r.attrv)) > PlusMax THEN Says(Failure)
        ELSE IF ~Site[a].readable \/ i = 0 THEN Says(Fallback("plus", <<"*">>, r.op))
        ELSE Dials([r EXCEPT !.attrv = Counted(@)], dirs[i] \o r.path, FALSE)

\* russpnet: the lines of a targets file are targets [userhost, cgroup] or
\* NoTarget, a comment.  A legacy file numbers the lines and counts the targets.
NoTarget == [userhost |-> "", cgroup |-> ""]
Count(s) == Len(SelectSeq(s.lines, LAMBDA t : t # NoTarget))
Target(s, i) == IF i < Len(s.lines) THEN s.lines[i + 1] ELSE NoTarget

\* get_valid_id_index(), -1 for none; the remainder has the sign of i.
Remainder(i, n) == IF i < 0 THEN -((-i) % n) ELSE i % n
IdIndex(s, c) ==
    LET n == Count(s)
        i == IF Indexes[c].i < 0 THEN Indexes[c].i + n ELSE Indexes[c].i
        j == IF Indexes[c].wrap THEN Remainder(i, n) ELSE i
    IN  IF n > 0 /\ c \in DOMAIN Indexes /\ j \in 0..n - 1 THEN j ELSE -1

ValidTarget(s, route, c) ==
    CASE route = "host" -> \E i \in 0..Count(s) - 1 : Target(s, i) # NoTarget /\ Target(s, i).userhost = c
      [] route = "net" -> TRUE
      [] OTHER -> IdIndex(s, c) >= 0

\* The path at a target: through the relay, on this host when there is a short
\* cut, by the execution server and a control group for "run".
PathTo(s, r, t) ==
    LET route == r.path[1]
        rest == From(r.path, 3)
        cgroup == IF t.cgroup = "" THEN <<>> ELSE <<"cgroup", t.cgroup>>
    IN  CASE route \in {"host", "net"} -> s.relay \o <<r.path[2]>> \o rest
          [] route = "id" -> IF t.userhost \in s.local THEN rest ELSE s.relay \o <<t.userhost>> \o rest
          [] OTHER -> s.relay \o <<t.userhost, "+", "exec">> \o cgroup \o rest
TargetPath(s, r) == PathTo(s, r, Target(s, IdIndex(s, r.path[2])))

\* Nodes of the tree at depth 1, of a route at 1 and at 2, and below.
PnetTop(s, r, rest) == IF r.op = "execute" THEN Says(Success) ELSE rest
PnetRoute(s, r, rest) ==
    IF r.op = "list" THEN Says(IF r.path[1] # "net" /\ Count(s) = 0 THEN Failure ELSE Success) ELSE rest
PnetTarget(s, r, rest) ==
    IF ~ValidTarget(s, r.path[1], r.path[2]) THEN Says(Failure)
    ELSE IF r.op = "list" THEN Says(Success) ELSE rest

\* An unknown target is refused on streams that are not there yet; a target that
\* is a comment has no configuration, and the process crashes.
PnetOther(s, r) ==
    IF \/ ~ValidTarget(s, r.path[1], r.path[2])
       \/ r.path[1] \in {"id", "run"} /\ Target(s, IdIndex(s, r.path[2])) = NoTarget
    THEN Does("mute")
    ELSE Dials(r, TargetPath(s, r), TRUE)

Pnet(s, r) ==
    LET node == Find("pnet", r.path)
        rest == Says(Fallback("pnet", node, r.op))
    IN  CASE node = <<>> -> rest
          [] Len(node) = 1 -> IF node[1] \in Routes THEN PnetRoute(s, r, rest) ELSE PnetTop(s, r, rest)
          [] Len(node) = 2 -> PnetTarget(s, r, rest)
          [] OTHER -> PnetOther(s, r)

\* A path that leads to no service is refused by the dispatcher.
Handle(a, r) ==
    LET s == Site[a] IN
    CASE s.kind = "redir" -> Redir(s, r)
      [] s.kind = "mredir" -> Mredir(s, r)
      [] s.kind = "pass" -> Pass(s, r)
      [] s.kind = "set" -> Set(s, r)
      [] s.kind = "plus" -> Plus(a, r)
      [] s.kind = "pnet" -> IF Find("pnet", r.path) = NoNode THEN Says(Failure) ELSE Pnet(s, r)
      [] s.kind = "service" -> IF r.op = "execute" THEN Does("serve") ELSE Says(Fallback("service", <<>>, r.op))
      [] s.kind = "hang" -> Does("hang")

\* What is configured, and what is asked for: paths are sequences of names, of
\* which the search paths are made.
Sequence(x) == x \in Seq(Range(x))
Kinds == {"redir", "mredir", "pass", "set", "plus", "pnet", "service", "hang"}
ASSUME SiteAssumption ==
    /\ \A p \in DOMAIN Links : Sequence(Links[p].to)
    /\ \A a \in DOMAIN Site :
          LET s == Site[a]
          IN  /\ s.kind \in Kinds
              /\ s.kind = "redir" => \A x \in DOMAIN s.spath : Sequence(s.spath[x])
              /\ s.kind = "mredir" => \A x \in DOMAIN s.spaths : Sequence(s.spaths[x])
              /\ s.kind = "plus" => Sequence(Search[a]) /\ \A i \in DOMAIN Search[a] : Sequence(Search[a][i])
              /\ s.kind = "pnet" => Sequence(s.relay)

\* A call, or a setting, may name the loop count: what atoi() makes of it is an int.
CInt == -IntMax - 1..IntMax
ASSUME CallAssumption ==
    /\ \A c \in DOMAIN Settings : Settings[c].name = CountName => Settings[c].value \in CInt
    /\ \A c \in Calls :
          /\ Sequence(c.path) /\ Sequence(c.attrv)
          /\ \A i \in DOMAIN c.attrv : c.attrv[i].name = CountName => c.attrv[i].value \in CInt

-----------------------------------------------------------------------------
(* The chain of processes.                                                 *)

VARIABLES
    call,    \* what the client asks for
    pc,      \* pc[h]: where process h is
    srv,     \* srv[h]: the address of the server that process h is of
    req,     \* req[h]: the request it got
    plan,    \* plan[h]: what its handler does with it
    open,    \* open[h]: the socket to process h is open on the dialing side
    sent,    \* sent[h]: whose descriptors process h has answered with
    ex,      \* ex[h]: its end of an exit pipe of its own is open
    said,    \* said[h]: the status in that pipe
    link,    \* the process the client is connected to
    faults,  \* how much went wrong, at most call.faults
    clean    \* history: no fault, no deadline passed, no client left

serverVars == <<srv, req, plan, open, sent, ex, said>>
state == <<pc, serverVars, link, faults, clean>>
vars == <<call, state>>

NoReq == [op |-> "none", path |-> <<>>, attrv |-> <<>>, argv |-> <<>>]
Request(c) == [op |-> c.op, path |-> c.path, attrv |-> c.attrv, argv |-> c.argv]

Init ==
    /\ call \in Calls
    /\ pc = [h \in 0..MaxHops |-> IF h = 0 THEN "idle" ELSE "none"]
    /\ srv = [h \in Hops |-> NoPath]
    /\ req = [h \in Hops |-> NoReq]
    /\ plan = [h \in Hops |-> Does("none")]
    /\ open = [h \in Hops |-> FALSE]
    /\ sent = [h \in Hops |-> Nobody]
    /\ ex = [h \in Hops |-> FALSE]
    /\ said = [h \in Hops |-> NoStatus]
    /\ link = Nobody /\ faults = 0 /\ clean = TRUE

Over(h) == pc[h] \in {"gone", "killed"}
Goto(h, p) == pc' = [pc EXCEPT ![h] = p]
Fault == faults < call.faults /\ faults' = faults + 1 /\ clean' = FALSE

\* Somebody has the reading end of the exit pipe of h, or is being sent it.
Readers(h) == (pc[0] = "wait" /\ link = h) \/ \E k \in Hops : open[k] /\ sent[k] = h

\* russ_sconn_answerhandler(): a connection that was answered or spliced has no
\* socket any more, and what a failed answer leaves is no exit descriptor.
CanAnswer(h) == open[h] /\ sent[h] = Nobody
Answer(h) ==
    /\ sent' = [sent EXCEPT ![h] = IF CanAnswer(h) THEN h ELSE @]
    /\ ex' = [ex EXCEPT ![h] = CanAnswer(h)]

\* russ_dialv() by process h: the server at the address gets a process for the
\* connection.
DialTo(h, d) ==
    /\ d.addr # NoPath /\ h < MaxHops
    /\ pc' = [pc EXCEPT ![h] = "dial", ![h + 1] = "new"]
    /\ srv' = [srv EXCEPT ![h + 1] = d.addr]
    /\ req' = [req EXCEPT ![h + 1] = d.req]
    /\ open' = [open EXCEPT ![h + 1] = TRUE]

\* The client.
Start ==
    /\ pc[0] = "idle"
    /\ DialTo(0, Dials(Request(call), call.path, call.limit))
    /\ UNCHANGED <<plan, sent, ex, said, link, faults, clean>>

StartFail ==
    /\ pc[0] = "idle" /\ Split(call.path).addr = NoPath
    /\ Goto(0, "failed")
    /\ UNCHANGED <<serverVars, link, faults, clean>>

Hang(h) == open' = [open EXCEPT ![h] = FALSE]

Connected ==
    /\ pc[0] = "dial" /\ sent[1] # Nobody
    /\ link' = sent[1]
    /\ Hang(1) /\ Goto(0, "wait")
    /\ UNCHANGED <<srv, req, plan, sent, ex, said, faults, clean>>

Lost ==
    /\ pc[0] = "dial" /\ sent[1] = Nobody /\ Over(1)
    /\ Hang(1) /\ Goto(0, "failed")
    /\ UNCHANGED <<srv, req, plan, sent, ex, said, link, faults, clean>>

Timeout ==
    /\ pc[0] = "dial" /\ call.limit
    /\ Hang(1) /\ Goto(0, "failed") /\ clean' = FALSE
    /\ UNCHANGED <<srv, req, plan, sent, ex, said, link, faults>>

Hear ==
    /\ pc[0] = "wait" /\ said[link] # NoStatus
    /\ Goto(0, "heard")
    /\ UNCHANGED <<serverVars, link, faults, clean>>

HangUp ==
    /\ pc[0] = "wait" /\ said[link] = NoStatus /\ ~ex[link]
    /\ Goto(0, "hup")
    /\ UNCHANGED <<serverVars, link, faults, clean>>

Leave ==
    /\ pc[0] \in {"dial", "wait"}
    /\ Hang(1) /\ Goto(0, "left") /\ clean' = FALSE
    /\ UNCHANGED <<srv, req, plan, sent, ex, said, link, faults>>

-----------------------------------------------------------------------------
(* A handler process.                                                      *)

\* The dispatcher answers, when the node is one it answers for, and calls the
\* handler.
Begin(h) ==
    LET kind == Site[srv[h]].kind
        node == Find(kind, req[h].path)
    IN  /\ pc[h] = "new"
        /\ IF node # NoNode /\ Autoanswers(kind, node)
           THEN Answer(h) /\ Goto(h, IF CanAnswer(h) THEN "ready" ELSE "gone")
           ELSE Goto(h, "ready") /\ UNCHANGED <<sent, ex>>
        /\ plan' = [plan EXCEPT ![h] = Handle(srv[h], req[h])]
        /\ UNCHANGED <<srv, req, open, said, link, faults, clean>>

Forward(h) ==
    /\ pc[h] = "ready" /\ plan[h].do = "dial"
    /\ DialTo(h, plan[h])
    /\ UNCHANGED <<plan, sent, ex, said, link, faults, clean>>

\* No such address; or the user cannot be switched to, no server listens, it
\* cannot be spawned.
ForwardFail(h) ==
    /\ pc[h] = "ready" /\ plan[h].do = "dial"
    /\ \/ plan[h].addr = NoPath /\ UNCHANGED <<faults, clean>>
       \/ Fault
    /\ Answer(h) /\ Goto(h, "say")
    /\ UNCHANGED <<srv, req, plan, open, said, link>>

\* A status of its own, on an answer of its own.
AnswerSelf(h) ==
    /\ pc[h] = "ready" /\ plan[h].do \in {"say", "silent"}
    /\ IF ex[h] THEN UNCHANGED <<sent, ex>> ELSE Answer(h)
    /\ Goto(h, "say")
    /\ UNCHANGED <<srv, req, plan, open, said, link, faults, clean>>

\* russ_sconn_exit() and the end of the process; a pipe nobody can read is not
\* written to, and who leaves in silence says nothing.
End(h, st) ==
    /\ said' = [said EXCEPT ![h] = IF ex[h] /\ Readers(h) THEN st ELSE @]
    /\ ex' = [ex EXCEPT ![h] = FALSE]
    /\ Goto(h, "gone")
    /\ UNCHANGED <<srv, req, plan, open, sent, link, faults, clean>>
Say(h) ==
    /\ pc[h] = "say"
    /\ End(h, CASE plan[h].do = "say" -> plan[h].status
                [] plan[h].do = "silent" -> NoStatus
                [] OTHER -> Failure)

Mute(h) ==
    /\ pc[h] = "ready" /\ plan[h].do = "mute"
    /\ Goto(h, "gone")
    /\ UNCHANGED <<serverVars, link, faults, clean>>

Serve(h) ==
    /\ pc[h] = "ready" /\ plan[h].do = "serve"
    /\ Goto(h, "serve")
    /\ UNCHANGED <<serverVars, link, faults, clean>>

\* A service comes to its end, or sees that its client has gone.
Finish(h) == pc[h] = "serve" /\ \E st \in Statuses : End(h, st)
NoClient(h) == pc[h] = "serve" /\ ~Readers(h) /\ End(h, NoStatus)

\* The dial of process h ends without an answer, and that is what its client is
\* told.
DialEnds(h) ==
    /\ Hang(h + 1) /\ Answer(h) /\ Goto(h, "say")
    /\ UNCHANGED <<srv, req, plan, said, link, faults>>
ForwardLost(h) ==
    /\ pc[h] = "dial" /\ sent[h + 1] = Nobody /\ Over(h + 1)
    /\ DialEnds(h) /\ UNCHANGED clean
\* Mutant: the dials of russset and russpnet have no deadline.
ForwardForever(h) == FALSE /\ UNCHANGED vars
ForwardTimeout(h) ==
    /\ pc[h] = "dial" /\ plan[h].limit
    /\ DialEnds(h) /\ clean' = FALSE

\* russ_sconn_splice(): the descriptors go to the client, if it is there, and
\* the process ends; what is left of the handler and the dispatcher finds every
\* descriptor closed.
Splice(h) ==
    /\ pc[h] = "dial" /\ sent[h + 1] # Nobody
    /\ sent' = [sent EXCEPT ![h] = IF CanAnswer(h) THEN sent[h + 1] ELSE @]
    /\ ex' = [ex EXCEPT ![h] = FALSE]
    /\ Hang(h + 1) /\ Goto(h, "gone")
    /\ UNCHANGED <<srv, req, plan, said, link, faults, clean>>

Kill(h) ==
    /\ pc[h] \notin {"none", "gone", "killed"} /\ Fault
    /\ ex' = [ex EXCEPT ![h] = FALSE]
    /\ open' = [k \in Hops |-> open[k] /\ k # h + 1]
    /\ Goto(h, "killed")
    /\ UNCHANGED <<srv, req, plan, sent, said, link>>

-----------------------------------------------------------------------------
ClientStep == Connected \/ Lost \/ Timeout \/ Hear \/ HangUp
Step(h) ==
    \/ Forward(h) \/ AnswerSelf(h) \/ Say(h) \/ Mute(h) \/ Serve(h)
    \/ NoClient(h) \/ ForwardLost(h) \/ Splice(h)
    \/ faults' = faults /\ ForwardFail(h)

Next ==
    /\ \/ Start \/ StartFail \/ ClientStep \/ Leave
       \/ \E h \in Hops : Begin(h) \/ Step(h) \/ ForwardFail(h) \/ ForwardTimeout(h) \/ Finish(h) \/ Kill(h)
    /\ UNCHANGED call

Spec == Init /\ [][Next]_vars

\* The processes run and deadlines pass.  A service need not come to an end, and
\* one that has not answered need not answer.
Fairness ==
    /\ WF_vars(ClientStep /\ UNCHANGED call)
    /\ \A h \in Hops :
          /\ WF_pc(pc[h] = "new" /\ \E p \in {"ready", "gone"} : Goto(h, p))
          /\ WF_vars(Step(h) /\ UNCHANGED call)
          /\ WF_vars(ForwardTimeout(h) /\ UNCHANGED call)
FairSpec == Spec /\ Fairness

-----------------------------------------------------------------------------
(* Properties.                                                             *)

Kind(h) == Site[srv[h]].kind

\* The settings of a request that name the loop count, and what the last makes it.
CountSet(r) ==
    {i \in DOMAIN SettingsOf(r) :
        SettingsOf(r)[i] \in DOMAIN Settings /\ Settings[SettingsOf(r)[i]].name = CountName}
CountFrom(r) == Settings[SettingsOf(r)[Max(CountSet(r))]].value
SetBy(s, r) == s.kind = "set" /\ CountSet(r) # {}

\* The count was given its value by process g: the client, or a russset that was
\* asked for a setting of it.
Sets(g) == g = 0 \/ SetBy(Site[srv[g]], req[g])
SetTo(g) == IF g = 0 THEN PlusCount(call.attrv) ELSE CountFrom(req[g])

\* Redirects that lead back to the plus server come to an end when nobody on the
\* way sets the count anew: from the value it was last given, which the client or
\* a russset chose, each pass raises it by one, no other server changes it, and
\* no pass goes beyond PLUS_COUNT_MAX (russplus_server.c).  Two loops are not
\* bounded, whatever the comment of svc_subroot_handler() says: one with a russset
\* in it that names the count, and one in which the count is given as INT_MAX,
\* which the first pass overflows.
PlusBounded ==
    \A h \in Hops : pc[h] # "none" =>
        \A g \in 0..h - 1 :
            Sets(g) /\ (\A k \in g + 1..h - 1 : ~Sets(k)) /\ SetTo(g) # IntMax =>
                LET passes == {k \in g + 1..h - 1 : Kind(k) = "plus"}
                IN  /\ PlusCount(req[h].attrv) = SetTo(g) + Cardinality(passes)
                    /\ passes # {} => SetTo(g) + Cardinality(passes) <= PlusMax

\* The service that runs is the one the call names, with the path, arguments and
\* attributes that the servers on the way are to make of the call's; and a
\* call that names none makes no service run.
AsAsked ==
    \A h \in Hops : pc[h] = "serve" =>
        LET want == call.want
            r == req[h]
        IN  /\ want.come = "service"
            /\ srv[h] = want.addr /\ r.path = want.path /\ r.argv = want.argv
            /\ \A n \in DOMAIN want.attrs :
                  /\ FindPrefix(r.attrv, n) >= 0
                  /\ r.attrv[FindPrefix(r.attrv, n) + 1].value = want.attrs[n]

\* A chain stands still: a server does not answer, and nobody before it dials
\* with a deadline.
Stuck(h) == pc[h] = "ready" /\ plan[h].do = "hang" /\ \A k \in 1..h - 1 : pc[k] = "dial" => ~plan[k].limit

\* A dial through forwarding servers comes to an end, with whatever fails or is
\* killed; a deadline anywhere before a server that does not answer is enough.
DialReturns == pc[0] = "dial" ~> pc[0] # "dial" \/ \E h \in Hops : Stuck(h)

\* When nothing fails and no deadline passes, the client gets to the service it
\* named, or hears the status it is to hear.
Reaches ==
    pc[0] = "dial" ~> \/ ~clean
                      \/ call.want.come = "service" /\ link # Nobody /\ srv[link] = call.want.addr
                      \/ call.want.come = "status" /\ pc[0] = "heard" /\ said[link] = call.want.status
                      \/ call.want.come = "failed" /\ pc[0] = "failed"
                      \/ call.want.come = "hup" /\ pc[0] = "hup"
                      \/ call.want.come = "never"

\* When the client is gone the chain goes with it, and the service at its end
\* learns of it: no forwarding process keeps the exit pipe from hanging up.
Unwinds ==
    pc[0] \in {"failed", "left"} ~>
        \/ \A h \in Hops : pc[h] = "none" \/ Over(h) \/ (pc[h] = "ready" /\ plan[h].do = "hang")
        \/ \E h \in Hops : Stuck(h)
=============================================================================
