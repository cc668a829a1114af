----------------------------- MODULE RussConfMC -----------------------------
EXTENDS RussConf
CONSTANTS a, b, dflt, main, x, y, u, v
ObjsMC == {a, b}
NamesMC == {dflt, main}
OptionsMC == {x, y}
ValuesMC == {u, v}
FilesMC ==
    LET F(k, i, j) == {<<SetLine(k, i), SecLine(main), SetLine(k, j)>>,
                       <<SecLine(main), SetLine(k, i), SecLine(dflt), SetLine(k, j), BadLine>>}
    IN  UNION {F(k, ij[1], ij[2]) : k \in OptionsMC, ij \in {<<u, v>>, <<v, u>>}}
\* Nothing that is done depends on the last call.
State == <<conf, phase>>
=============================================================================
