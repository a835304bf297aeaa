---------------------------- MODULE MCMailImport ----------------------------
(* Instances of MailImport for TLC. *)
EXTENDS MailImport
=============================================================================
