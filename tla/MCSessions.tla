----------------------------- MODULE MCSessions -----------------------------
(***************************************************************************)
(* Instances of DeviceSessions for TLC.                                    *)
(***************************************************************************)
EXTENDS DeviceSessions, TLC

Symmetry == Permutations(Users) \cup Permutations(Requests) \cup Permutations(Devices)
                \cup Permutations(Admins)

=============================================================================
