---------------------------- MODULE MCAuthSessions ----------------------------
(* Instances of AuthSessions for TLC. *)
EXTENDS AuthSessions, TLC

\* Users, sessions and requests are only compared with one another.
AuthSymmetry == Permutations(User) \cup Permutations(SessionId) \cup Permutations(Request)
=============================================================================
