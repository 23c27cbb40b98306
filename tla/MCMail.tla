------------------------------- MODULE MCMail -------------------------------
(* Small instances of Mail for TLC. *)
EXTENDS Mail, TLC
=============================================================================
