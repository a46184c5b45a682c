--------------------------- MODULE MCDesktopSessions ---------------------------
(* Instances for TLC: two pool keys of a connection whose driver supports reset *)
(* for reuse, so that a key change retires the other key's idle leases, and one *)
(* of a connection whose driver does not.                                       *)
EXTENDS DesktopSessions, TLC

CONSTANTS c1, c2, k1, k2, k3

MCConnectionOf == [k \in Key |-> IF k = k3 THEN c2 ELSE c1]

Symmetry ==
    Permutations(Resource) \cup Permutations(Session) \cup Permutations({k1, k2})
================================================================================
