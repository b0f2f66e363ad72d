--------------------------- MODULE MCAuthSessions ---------------------------
(* Instances of AuthSessions for TLC. *)
EXTENDS AuthSessions, TLC

(* Tokens are random and requests interchangeable. *)
AuthSymmetry == Permutations(Token) \cup Permutations(Request)

=============================================================================
