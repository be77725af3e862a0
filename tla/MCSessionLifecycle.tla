-------------------------- MODULE MCSessionLifecycle --------------------------
(* Small instances of SessionLifecycle for TLC.                            *)
EXTENDS SessionInvariant, TLC

CONSTANTS r1, r2, r3, c1, c2, k1, k2, p1, p2

(* Two configurations of one provider, or of two.                          *)
SameProvider == [k \in Configs |-> p1]
TwoProviders == k1 :> p1 @@ k2 :> p2

(* Threads are interchangeable, and so are connections.                    *)
Interchangeable == Permutations(Clients) \cup Permutations(Conns)
=============================================================================
