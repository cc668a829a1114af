---------------------------- MODULE RussExecMC ----------------------------
EXTENDS RussExec
Call(p, l, c, d) == [prog |-> p, len |-> l, cap |-> c, deadline |-> d]
\* russ_dialv_wait() has no input and discards the output; of the two buffers for
\* "cat" one is too small.
CallsMC == {Call("free", 0, 0, TRUE), Call("free", 1, 1, FALSE), Call("sleep", 0, 0, TRUE),
            Call("cat", 3, 2, FALSE), Call("cat", 3, 3, TRUE)}
CallsForever == {Call("free", 0, 0, FALSE)}
=============================================================================
