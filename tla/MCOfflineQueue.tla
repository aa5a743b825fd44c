--------------------------- MODULE MCOfflineQueue ---------------------------
(* Instances of OfflineQueue for TLC: one register, one device. *)
EXTENDS OfflineQueue, TLC

CONSTANTS u1, u2, p1, p2, p3, d1

MCDeviceOf == [u \in Uids |-> d1]
\* p1 and p2 are two captures of one sale; p3 belongs to another sale.
MCUidOf    == [p \in Payloads |-> IF p = p3 THEN u2 ELSE u1]

Symmetry == Permutations(Rows) \cup Permutations(Workers)
=============================================================================
