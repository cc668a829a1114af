------------------------------ MODULE RussMap ------------------------------
(***************************************************************************)
(* What a configuration promises: sections with options that have values,   *)
(* and calls on them.  RussConf implements it with arrays.                  *)
(***************************************************************************)
CONSTANTS
    Objs,       \* configuration objects
    Default,    \* the section every file starts with
    FileMap(_)  \* what a file says

VARIABLES
    map,  \* map[o][s][k]: the value of option k in section s of object o
    call  \* the last call: its name, the object it changes and its arguments

vars == <<map, call>>

None == [k \in {} |-> k]

At(m, s) == IF s \in DOMAIN m THEN m[s] ELSE None
\* The settings of f, and those of g that f does not have.
Onto(f, g) == [k \in DOMAIN f \cup DOMAIN g |-> IF k \in DOMAIN f THEN f[k] ELSE g[k]]
With(m, s, settings) ==
    [t \in DOMAIN m \cup {s} |-> IF t = s THEN Onto(settings, At(m, s)) ELSE m[t]]
Merge(m, n) == [s \in DOMAIN m \cup DOMAIN n |-> Onto(At(n, s), At(m, s))]
Without(f, k) == [x \in DOMAIN f \ {k} |-> f[x]]

Init == map = [o \in Objs |-> None] /\ call = [op |-> "none"]

\* What call c makes of the map m of its object, other being the map of the object
\* it reads.
Effect(c, m, other) ==
    CASE c.op = "add section" -> {With(m, c.s, None)}
      [] c.op = "set" -> {With(m, c.s, [k \in {c.k} |-> c.v])}
      [] c.op = "remove option" ->
            {IF c.s \in DOMAIN m THEN [m EXCEPT ![c.s] = Without(@, c.k)] ELSE m}
      [] c.op = "remove section" -> {Without(m, c.s)}
      [] c.op = "update section" -> {IF c.t \in DOMAIN other THEN With(m, c.s, other[c.t]) ELSE m}
      [] c.op = "update" -> {Merge(m, other)}
      [] c.op = "dup" -> {other}
      \* What is written is what is read, but that there is a default section.
      [] c.op = "pass" -> {With(other, Default, None)}
      \* A file that cannot be read changes nothing.
      [] c.op = "read" -> {m, Merge(m, FileMap(c.f))}

\* A call changes one object.
Next ==
    \E c \in {call'} :
        /\ c.op # "none"
        /\ \E m \in Effect(c, map[c.o], map[c.p]) : map' = [map EXCEPT ![c.o] = m]

Spec == Init /\ [][Next]_vars
=============================================================================
