---------------------------- MODULE MCGateRouter ----------------------------
(* GateRouter with one thread that meets up to two gates.                    *)
EXTENDS GateRouter, TLC

CONSTANTS k1, r1, r2, chan

OneThread == [r \in Requests |-> k1]
OneChannel == [r \in Requests |-> chan]

\* The gates of one thread differ in nothing but their name.
Interchangeable == Permutations(Requests)

=============================================================================
