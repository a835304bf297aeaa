----------------------------- MODULE MCMailTurns -----------------------------
(* Instances of MailTurns for TLC. *)
EXTENDS MailTurns
=============================================================================
