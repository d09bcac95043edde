----------------------------- MODULE MCIdentity -----------------------------
(* Instance of Identity. *)
EXTENDS Identity
=============================================================================
