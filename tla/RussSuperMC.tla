---------------------------- MODULE RussSuperMC ----------------------------
EXTENDS RussSuper, TLC
CONSTANTS h1, h2
TwoHandlers == {h1, h2}
TwoAndOne == h1 :> 2 @@ h2 :> 1
ThreeServers == {<<h1, 1>>, <<h1, 2>>, <<h2, 1>>}
=============================================================================
