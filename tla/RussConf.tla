------------------------------ MODULE RussConf ------------------------------
(***************************************************************************)
(* Configuration objects (conf.c): arrays of sections with arrays of items, *)
(* how a program loads one from its arguments, and how one is passed on to  *)
(* another program in a file.                                               *)
(***************************************************************************)
EXTENDS Naturals, SequencesExt

CONSTANTS
    Objs,     \* configuration objects of a program
    Loaded,   \* the one it loads from its arguments
    Names,    \* of sections
    Default,  \* the section "DEFAULT"
    Options,
    Values,
    Grow,     \* places an array has first, and gets more each time
    Files,    \* files: sequences of lines
    MaxItems  \* bound: items of an object

ASSUME ConfAssumption ==
    /\ Loaded \in Objs
    /\ Default \in Names
    /\ Grow \in Nat \ {0}

VARIABLES
    conf,   \* conf[o]
    phase,  \* the load of the arguments
    call    \* history: the last call and its arguments

vars == <<conf, phase, call>>

-----------------------------------------------------------------------------
(* Arrays.  Items and sections are found by their key.                     *)

Pos(seq, key) == SelectInSeq(seq, LAMBDA e : e.key = key)
Has(seq, key) == Pos(seq, key) # 0

\* Mutant: the array grows one element too late.
CapacityLate(len, cap) == IF len > cap THEN cap + Grow ELSE cap
\* An array that is full grows before an element is appended.
Capacity(len, cap) == IF len = cap THEN cap + Grow ELSE cap

\* Mutant: the last element is dropped, not moved.
VacateLast(seq, i) == SubSeq(seq, 1, Len(seq) - 1)
\* The last element takes the place of the one that goes.
Vacate(seq, i) == SubSeq([seq EXCEPT ![i] = seq[Len(seq)]], 1, Len(seq) - 1)

NewSection(s) == [key |-> s, items |-> <<>>, cap |-> Grow]
NewConf == [secs |-> <<>>, cap |-> Grow]

\* __russ_confsection_set(): replace the item of that option, or append one.
Put(sec, k, v) ==
    LET item == [key |-> k, val |-> v]
    IN  IF Has(sec.items, k)
        THEN [sec EXCEPT !.items[Pos(sec.items, k)] = item]
        ELSE [sec EXCEPT !.items = Append(@, item), !.cap = Capacity(Len(sec.items), @)]

\* A section that exists is left as it is.
Added(c, s) ==
    IF Has(c.secs, s) THEN c
    ELSE [secs |-> Append(c.secs, NewSection(s)), cap |-> Capacity(Len(c.secs), c.cap)]

SetIn(c, s, k, v) == [c EXCEPT !.secs[Pos(c.secs, s)] = Put(@, k, v)]

\* The items of an array, one after the other.
SetAll(c, s, items) ==
    LET After[n \in 0..Len(items)] ==
            IF n = 0 THEN Added(c, s) ELSE SetIn(After[n - 1], s, items[n].key, items[n].val)
    IN  After[Len(items)]

Updated(c, d) ==
    LET After[n \in 0..Len(d.secs)] ==
            IF n = 0 THEN c ELSE SetAll(After[n - 1], d.secs[n].key, d.secs[n].items)
    IN  After[Len(d.secs)]

-----------------------------------------------------------------------------
(* Files.  A line starts a section, or makes a setting, or is neither.     *)

SecLine(s) == [k |-> "section", key |-> s]
SetLine(k, v) == [k |-> "setting", key |-> k, val |-> v]
BadLine == [k |-> "bad"]

Lines == {SecLine(s) : s \in Names} \cup {SetLine(k, v) : k \in Options, v \in Values} \cup {BadLine}

ASSUME FileAssumption == \A f \in Files : f \in Seq(Lines)

SectionLines(sec) ==
    [j \in 1..Len(sec.items) + 1 |->
        IF j = 1 THEN SecLine(sec.key) ELSE SetLine(sec.items[j - 1].key, sec.items[j - 1].val)]
Written(c) ==
    LET Upto[n \in 0..Len(c.secs)] == IF n = 0 THEN <<>> ELSE Upto[n - 1] \o SectionLines(c.secs[n])
    IN  Upto[Len(c.secs)]

ReadSection(r, l) == [r EXCEPT !.conf = Added(@, l.key), !.cur = l.key]

\* A bad line ends the reading; what was read stays.
ReadLine(r, l) ==
    CASE ~r.ok -> r
      [] r.ok /\ l.k = "section" -> ReadSection(r, l)
      [] r.ok /\ l.k = "setting" -> [r EXCEPT !.conf = SetIn(@, r.cur, l.key, l.val)]
      [] r.ok /\ l.k = "bad" -> [r EXCEPT !.ok = FALSE]

\* russ_conf_readfd(): it starts with a section "DEFAULT", and fails when there
\* is one already.
ReadFrom(c, lines) ==
    IF Has(c.secs, Default) THEN [conf |-> c, cur |-> Default, ok |-> FALSE]
    ELSE LET After[n \in 0..Len(lines)] ==
                 IF n = 0 THEN [conf |-> Added(c, Default), cur |-> Default, ok |-> TRUE]
                 ELSE ReadLine(After[n - 1], lines[n])
         IN  After[Len(lines)]

-----------------------------------------------------------------------------
(* Calls.  One changes object o, and may read object p.                    *)

Items(c) == FoldLeft(LAMBDA n, sec : n + Len(sec.items), 0, c.secs)

Change(o, c) == Items(c) <= MaxItems /\ conf' = [conf EXCEPT ![o] = c]

AddSection(o, s) ==
    /\ Change(o, Added(conf[o], s))
    /\ call' = [op |-> "add section", o |-> o, p |-> o, s |-> s]

\* russ_conf_set2() adds the section if need be; russ_conf_set() does the same to
\* one that exists.
Set(o, s, k, v) ==
    /\ Change(o, SetIn(Added(conf[o], s), s, k, v))
    /\ call' = [op |-> "set", o |-> o, p |-> o, s |-> s, k |-> k, v |-> v]

RemoveOption(o, s, k) ==
    LET c == conf[o]
        p == Pos(c.secs, s)
    IN  /\ IF Has(c.secs, s) /\ Has(c.secs[p].items, k)
           THEN Change(o, [c EXCEPT !.secs[p].items = Vacate(@, Pos(@, k))])
           ELSE UNCHANGED conf
        /\ call' = [op |-> "remove option", o |-> o, p |-> o, s |-> s, k |-> k]

RemoveSection(o, s) ==
    LET c == conf[o]
    IN  /\ IF Has(c.secs, s)
           THEN Change(o, [c EXCEPT !.secs = Vacate(@, Pos(@, s))])
           ELSE UNCHANGED conf
        /\ call' = [op |-> "remove section", o |-> o, p |-> o, s |-> s]

\* russ_conf_update_section(), and russ_conf_dup_section() within one object.
UpdateSection(o, s, p, t) ==
    LET secs == conf[p].secs
    IN  /\ IF Has(secs, t) THEN Change(o, SetAll(conf[o], s, secs[Pos(secs, t)].items))
           ELSE UNCHANGED conf
        /\ call' = [op |-> "update section", o |-> o, p |-> p, s |-> s, t |-> t]

Update(o, p) ==
    /\ Change(o, IF o = p THEN conf[o] ELSE Updated(conf[o], conf[p]))
    /\ call' = [op |-> "update", o |-> o, p |-> p]

Dup(o, p) ==
    /\ Change(o, Updated(NewConf, conf[p]))
    /\ call' = [op |-> "dup", o |-> o, p |-> p]

\* russ_conf_write() and russ_conf_read() by another program, as when a server is
\* started.
Pass(o, p) ==
    /\ Change(o, ReadFrom(NewConf, Written(conf[p])).conf)
    /\ call' = [op |-> "pass", o |-> o, p |-> p]

Read(o, f) ==
    /\ Change(o, ReadFrom(conf[o], f).conf)
    /\ call' = [op |-> "read", o |-> o, p |-> o, f |-> f]

-----------------------------------------------------------------------------
(* A program: it loads its configuration from its arguments, then makes calls. *)

Init ==
    /\ conf = [o \in Objs |-> NewConf]
    /\ phase = "load"
    /\ call = [op |-> "none"]

\* -c section:option=value
ArgSet ==
    /\ phase = "load"
    /\ \E s \in Names, k \in Options, v \in Values : Set(Loaded, s, k, v)
    /\ UNCHANGED phase

\* -d section:option
ArgDeleteOption ==
    /\ phase = "load"
    /\ \E s \in Names, k \in Options : RemoveOption(Loaded, s, k)
    /\ UNCHANGED phase

\* -d section: without a colon to restore, the program writes through a null
\* pointer and is gone.
ArgDeleteSection ==
    /\ phase = "load"
    /\ \E s \in Names : RemoveSection(Loaded, s)
    /\ phase' = "crashed"

\* -f file, --fd descriptor
ArgFile ==
    /\ phase = "load"
    /\ \E f \in Files :
          /\ Read(Loaded, f)
          /\ phase' = IF ReadFrom(conf[Loaded], f).ok THEN "load" ELSE "failed"

ArgBad == phase = "load" /\ phase' = "failed" /\ UNCHANGED <<conf, call>>
ArgEnd == phase = "load" /\ phase' = "ready" /\ UNCHANGED <<conf, call>>

Load == ArgSet \/ ArgDeleteOption \/ ArgDeleteSection \/ ArgFile \/ ArgBad \/ ArgEnd

\* The program changes its configuration, also by that of other objects, and makes
\* the other objects from it.
Run ==
    /\ phase = "ready"
    /\ \/ \E s \in Names :
             \/ AddSection(Loaded, s) \/ RemoveSection(Loaded, s)
             \/ \E k \in Options : RemoveOption(Loaded, s, k)
             \/ \E k \in Options, v \in Values : Set(Loaded, s, k, v)
       \/ \E f \in Files : Read(Loaded, f)
       \/ \E p \in Objs, s, t \in Names : UpdateSection(Loaded, s, p, t)
       \/ \E p \in Objs : Update(Loaded, p)
       \/ \E o \in Objs \ {Loaded} : Dup(o, Loaded) \/ Pass(o, Loaded)
    /\ UNCHANGED phase

Next == Load \/ Run

Spec == Init /\ [][Next]_vars

-----------------------------------------------------------------------------
(* Properties.                                                             *)

Keys(seq) == {seq[i].key : i \in DOMAIN seq}

\* Every variable has its type, and no array has more elements than places: an
\* element is never written behind the end of an array (conf.c).
TypeOK ==
    /\ phase \in {"load", "ready", "failed", "crashed"}
    /\ \A o \in Objs :
          /\ Keys(conf[o].secs) \subseteq Names
          /\ Len(conf[o].secs) <= conf[o].cap
          /\ \A i \in DOMAIN conf[o].secs :
                LET sec == conf[o].secs[i]
                IN  /\ Len(sec.items) <= sec.cap
                    /\ \A j \in DOMAIN sec.items :
                          sec.items[j].key \in Options /\ sec.items[j].val \in Values

\* The arrays behave as a map of maps, with every call: removing does not lose
\* another element, merging overwrites and keeps, a copy is equal, and what is
\* written is what is read.
ItemMap(items) == [k \in Keys(items) |-> items[Pos(items, k)].val]
ConfMap(c) == [s \in Keys(c.secs) |-> ItemMap(c.secs[Pos(c.secs, s)].items)]
FileMap(f) == ConfMap(ReadFrom(NewConf, f).conf)
Map == INSTANCE RussMap WITH map <- [o \in Objs |-> ConfMap(conf[o])]
ImplementsMap == Map!Spec
=============================================================================
