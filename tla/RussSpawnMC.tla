---------------------------- MODULE RussSpawnMC ----------------------------
EXTENDS RussSpawn
CONSTANTS s1, s2
OneSpawn == {s1}
TwoSpawns == {s1, s2}
OwnAddress == [fixed : {FALSE}, once : BOOLEAN, dirs : {1, 2}, group : BOOLEAN, faults : {1}]
OneAddress == [fixed : {TRUE}, once : {TRUE}, dirs : {0}, group : {FALSE}, faults : {1}]
AnyAddress == OwnAddress \cup OneAddress
=============================================================================
