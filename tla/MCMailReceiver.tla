--------------------------- MODULE MCMailReceiver ---------------------------
(* Instances of MailReceiver for TLC. *)
EXTENDS MailReceiver
=============================================================================
