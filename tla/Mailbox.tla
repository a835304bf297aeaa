------------------------------ MODULE Mailbox ------------------------------
(* The administrative mailbox at Google, as src/company/mailbox.js uses it:  *)
(* an append-only log of messages.  Message m is the m-th to arrive and m is *)
(* also the history id of its arrival.  Everything here is external code,    *)
(* modelled from the calls list, history.list, getProfile and get make.      *)
EXTENDS Integers, FiniteSets

CONSTANTS
    MaxMail  \* bound on the messages that ever arrive

ASSUME MailAssumption == MaxMail \in Nat

VARIABLES
    arrived, \* the history id of the mailbox: messages 1 .. arrived were added
    deleted  \* messages deleted at Google: a read of one is mail_message_gone

mailboxVars == <<arrived, deleted>>

NoToken == 0    \* nextPageToken: null; the other tokens are positions in the log

Arrive == arrived < MaxMail /\ arrived' = arrived + 1 /\ UNCHANGED deleted

Delete == \E m \in (1 .. arrived) \ deleted :
             deleted' = deleted \cup {m} /\ UNCHANGED arrived

(* messages.list shows the messages up to `top` newest first, a page at a    *)
(* time.  A page ends at a position of Google's choice; its token is null    *)
(* when nothing older is left.                                               *)
ScanPages(top, token) ==
    LET below == IF token = NoToken THEN top + 1 ELSE token
        listed(cut) == {m \in (1 .. arrived) \ deleted : cut <= m /\ m < below}
        older(cut) == \E m \in (1 .. arrived) \ deleted : m < cut
    IN  {[ids |-> listed(cut), next |-> IF older(cut) THEN cut ELSE NoToken] :
           cut \in {c \in 1 .. below : c < below \/ c = 1}}

(* history.list shows the messages added after `from`, oldest first, a page  *)
(* at a time, deleted ones included, and with them the mailbox's history id. *)
HistoryPages(from, token) ==
    LET after == IF token = NoToken THEN from ELSE token
    IN  {[ids |-> {m \in 1 .. cut : after < m}, next |-> IF cut < arrived THEN cut ELSE NoToken,
          upto |-> arrived] : cut \in {c \in after .. arrived : c > after \/ c = arrived}}
=============================================================================
