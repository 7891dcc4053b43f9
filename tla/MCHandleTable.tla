---------------------------- MODULE MCHandleTable ---------------------------
(* Instances of HandleTable for TLC.                                        *)
EXTENDS HandleTable

CONSTANTS p, q, x, y, z    \* threads and objects

OneStarter  == {p}
TwoThreads  == {p, q}
TwoObjects   == {x, y}
ThreeObjects == {x, y, z}
Stray == {3, 4}
NoStray == {}
=============================================================================
