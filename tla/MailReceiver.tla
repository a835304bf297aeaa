---------------------------- MODULE MailReceiver ----------------------------
(* The receiver of mail notifications: createMailEvents of                   *)
(* src/company/mailEvents.js.  Every two seconds a tick pulls the waiting    *)
(* notifications, reads the mailbox's history from a saved cursor, a page    *)
(* a tick, captures the messages one by one, advances the cursor and only    *)
(* then acknowledges.  A cursor the mailbox no longer serves is recovered    *)
(* from by a scan of all mail.  Notifications are lost, late, duplicated and *)
(* reordered; calls fail; the process dies; the Owner pauses and resumes.    *)
(* The daily renewal of the watch decides which notifications are sent: here *)
(* any may be, or none, so renewedAt and expiration are left out.            *)
(* Only a tick writes the cursor, the page token and the recovery, and one   *)
(* tick runs at a time, so its local copy s of them is the stored one.       *)
EXTENDS Mailbox

CONSTANTS
    MaxFaults \* bound on thrown calls (the mailbox, Pub/Sub, the store, a lost lease)
              \* and deaths of the process together

ASSUME ReceiverAssumption == MaxFaults \in Nat

VARIABLES
    \* Google
    horizon,  \* history before this id is no longer served
    notices,  \* the notifications waiting at Pub/Sub
    \* the structured store
    ev,       \* the checkpoint of the receiver
    settled,  \* the messages captured, or looked at and excluded
    \* the process
    enabled,  \* memory.enabled()
    pc,       \* where the tick is; "idle" is ~busy
    batch,    \* the notifications it pulled
    target,   \* the largest history id among them and the cursor
    page,     \* what it listed: the messages left of it, its token, its history id
    \* history
    first,    \* the cursor the receiver began with
    acked,    \* the largest history id acknowledged
    faults

locals == <<pc, batch, target, page>>
past == <<first, acked, faults>>
receiverVars == <<mailboxVars, horizon, notices, ev, settled, enabled, locals, past>>

NoCursor == -1  \* historyId: undefined
Unusable == 0   \* a notification without a valid history id, or for another mailbox

NoRecovery == [on |-> FALSE, baseline |-> 0, token |-> NoToken]
NoPage == [todo |-> {}, next |-> NoToken, upto |-> 0]

ReceiverInit ==
    /\ arrived \in 0 .. MaxMail /\ deleted = {} /\ horizon = 0 /\ notices = {}
    /\ ev = [cursor |-> NoCursor, token |-> NoToken, recovery |-> NoRecovery,
             paused |-> FALSE, retry |-> FALSE, synced |-> FALSE]
    /\ settled = {} /\ enabled = TRUE
    /\ pc = "idle" /\ batch = {} /\ target = 0 /\ page = NoPage
    /\ first = NoCursor /\ acked = 0 /\ faults = 0

google == <<mailboxVars, horizon, notices>>

(***************************************************************************)
(* The ways a step of the tick leaves it.                                  *)
(***************************************************************************)
Leave(next) == pc' = next /\ batch' = {} /\ target' = 0 /\ page' = NoPage
Return == Leave("idle")
Throw == Leave("throwing")

At(next) == pc' = next /\ UNCHANGED <<batch, target, page>>
Settling == pc' = "settle" /\ target' = 0 /\ page' = NoPage /\ UNCHANGED batch

\* A call had its effect, and its answer may be lost.
Then(leave) ==
    \/ leave /\ UNCHANGED faults
    \/ faults < MaxFaults /\ faults' = faults + 1 /\ Throw

(***************************************************************************)
(* tick                                                                    *)
(***************************************************************************)
Begin ==
    /\ pc = "idle" /\ enabled /\ ~ev.paused /\ ~ev.retry
    /\ At(IF ev.cursor = NoCursor THEN "cursor" ELSE "pull")
    /\ UNCHANGED <<google, ev, settled, enabled, past>>

\* The first cursor: mail that came before it is the import's.
AskCursor ==
    /\ pc = "cursor"
    /\ pc' = "first" /\ page' = [NoPage EXCEPT !.upto = arrived]
    /\ UNCHANGED <<google, ev, settled, enabled, batch, target, past>>

SaveCursor ==
    /\ pc = "first"
    /\ ev' = [ev EXCEPT !.cursor = page.upto] /\ first' = page.upto
    /\ Then(At("pull"))
    /\ UNCHANGED <<google, settled, enabled, acked>>

Pull ==
    /\ pc = "pull"
    /\ batch' \in SUBSET notices
    /\ pc' = "sift"
    /\ UNCHANGED <<google, ev, settled, enabled, target, page, past>>

Largest(ids) == {n \in ids : \A m \in ids : m <= n}

\* Mutant: history is read only for a notification.
BehindOfNotice(aim) == ev.token # NoToken \/ aim > ev.cursor

\* Is there history to read for this target, or are the five minutes over?
Behind(aim) == ev.token # NoToken \/ aim > ev.cursor \/ ~ev.synced

Sift ==
    /\ pc = "sift"
    /\ \/ (ev.paused \/ ~enabled) /\ Return
       \/ /\ enabled /\ ~ev.paused
          /\ \E aim \in Largest(batch \cup {ev.cursor}) :
                IF ev.recovery.on \/ Behind(aim)
                THEN /\ pc' = (IF ev.recovery.on THEN "rescan" ELSE "history")
                     /\ target' = aim /\ UNCHANGED <<batch, page>>
                ELSE Settling
    /\ UNCHANGED <<google, ev, settled, enabled, past>>

Rescan ==
    /\ pc = "rescan" /\ pc' = "check"
    /\ \E list \in ScanPages(arrived, ev.recovery.token) :
          page' = [todo |-> list.ids, next |-> list.next, upto |-> 0]
    /\ UNCHANGED <<google, ev, settled, enabled, batch, target, past>>

History ==
    /\ pc = "history" /\ ev.cursor >= horizon /\ pc' = "check"
    /\ \E list \in HistoryPages(ev.cursor, ev.token) :
          page' = [todo |-> list.ids, next |-> list.next, upto |-> list.upto]
    /\ UNCHANGED <<google, ev, settled, enabled, batch, target, past>>

\* page.expired: the baseline of the recovery is asked for, then saved.
Expired ==
    /\ pc = "history" /\ ev.cursor < horizon /\ pc' = "recover"
    /\ page' = [NoPage EXCEPT !.upto = arrived]
    /\ UNCHANGED <<google, ev, settled, enabled, batch, target, past>>

Recover ==
    /\ pc = "recover"
    /\ ev' = [ev EXCEPT !.recovery = [on |-> TRUE, baseline |-> page.upto, token |-> NoToken],
                        !.token = NoToken]
    /\ Then(Return)
    /\ UNCHANGED <<google, settled, enabled, first, acked>>

\* capture(): before each message the controls are looked at ...
Check ==
    /\ pc = "check"
    /\ IF page.todo = {} THEN At("done")
       ELSE IF enabled /\ ~ev.paused THEN At("store") ELSE Throw
    /\ UNCHANGED <<google, ev, settled, enabled, past>>

\* ... then it is read and captured; one that is gone is excluded.
Capture ==
    /\ pc = "store"
    /\ \E m \in page.todo :
          \/ /\ m \in deleted \/ enabled
             /\ settled' = settled \cup {m}
             /\ Then(/\ pc' = "check" /\ page' = [page EXCEPT !.todo = @ \ {m}]
                     /\ UNCHANGED <<batch, target>>)
          \/ /\ m \notin deleted /\ ~enabled
             /\ Throw /\ UNCHANGED <<settled, faults>>
    /\ UNCHANGED <<google, ev, enabled, first, acked>>

\* A scanned page is done.  After the last one history is read from the baseline.
Scanned ==
    /\ pc = "done" /\ ev.recovery.on
    /\ ev' = IF page.next # NoToken
             THEN [ev EXCEPT !.recovery = [@ EXCEPT !.token = page.next]]
             ELSE [ev EXCEPT !.recovery = NoRecovery, !.cursor = ev.recovery.baseline,
                             !.token = NoToken]
    /\ Then(Return)
    /\ UNCHANGED <<google, settled, enabled, first, acked>>

\* Mutant: every page moves the cursor to the history id it came with.
ListedEagerly ==
    /\ pc = "done" /\ ~ev.recovery.on
    /\ IF enabled
       THEN /\ ev' = [ev EXCEPT !.token = page.next, !.retry = FALSE, !.cursor = page.upto,
                                !.synced = @ \/ page.next = NoToken]
            /\ Then(IF page.next # NoToken \/ ev'.cursor < target THEN Return ELSE Settling)
       ELSE Throw /\ UNCHANGED <<ev, faults>>
    /\ UNCHANGED <<google, settled, enabled, first, acked>>

\* Mutant: a page with more to follow is followed by the acknowledgement.
ListedThenSettled ==
    /\ pc = "done" /\ ~ev.recovery.on
    /\ IF enabled
       THEN /\ ev' = [ev EXCEPT !.token = page.next, !.retry = FALSE,
                                !.cursor = IF page.next = NoToken THEN page.upto ELSE @,
                                !.synced = @ \/ page.next = NoToken]
            /\ Then(Settling)
       ELSE Throw /\ UNCHANGED <<ev, faults>>
    /\ UNCHANGED <<google, settled, enabled, first, acked>>

\* A page of history is done.  The cursor waits for the last one.
Listed ==
    /\ pc = "done" /\ ~ev.recovery.on
    /\ IF enabled
       THEN /\ ev' = [ev EXCEPT !.token = page.next, !.retry = FALSE,
                                !.cursor = IF page.next = NoToken THEN page.upto ELSE @,
                                !.synced = @ \/ page.next = NoToken]
            /\ Then(IF page.next # NoToken \/ ev'.cursor < target THEN Return ELSE Settling)
       ELSE Throw /\ UNCHANGED <<ev, faults>>
    /\ UNCHANGED <<google, settled, enabled, first, acked>>

Settle ==
    /\ pc = "settle"
    /\ IF enabled /\ ~ev.paused /\ batch # {} THEN At("ack") ELSE Return
    /\ UNCHANGED <<google, ev, settled, enabled, past>>

Acknowledge ==
    /\ pc = "ack"
    /\ notices' = notices \ batch
    /\ acked' \in Largest(batch \cup {acked})
    /\ Then(Return)
    /\ UNCHANGED <<mailboxVars, horizon, ev, settled, enabled, first>>

\* The catch block; its own write may fail too.
Caught ==
    /\ pc = "throwing" /\ Return
    /\ \/ ev' = [ev EXCEPT !.retry = TRUE] /\ UNCHANGED faults
       \/ faults < MaxFaults /\ faults' = faults + 1 /\ UNCHANGED ev
    /\ UNCHANGED <<google, settled, enabled, first, acked>>

Tick ==
    \/ Begin \/ AskCursor \/ SaveCursor \/ Pull \/ Sift
    \/ Rescan \/ History \/ Expired \/ Recover \/ Check \/ Capture
    \/ Scanned \/ Listed \/ Settle \/ Acknowledge \/ Caught

(***************************************************************************)
(* The Owner, the clock, Google and the faults.                            *)
(***************************************************************************)
Control ==
    /\ \E paused \in BOOLEAN :
          ev' = [ev EXCEPT !.paused = paused, !.retry = FALSE]
    /\ UNCHANGED <<google, settled, enabled, locals, past>>

Toggle == enabled' = ~enabled /\ UNCHANGED <<google, ev, settled, locals, past>>

RetryDue ==
    /\ ev.retry /\ ev' = [ev EXCEPT !.retry = FALSE]
    /\ UNCHANGED <<google, settled, enabled, locals, past>>

SyncDue ==
    /\ ev.synced /\ ev' = [ev EXCEPT !.synced = FALSE]
    /\ UNCHANGED <<google, settled, enabled, locals, past>>

\* A notification reaches the subscription: in any order, late, twice or never.
Publish ==
    /\ \E n \in Unusable .. arrived : notices' = notices \cup {n}
    /\ UNCHANGED <<mailboxVars, horizon, ev, settled, enabled, locals, past>>

Expire ==
    /\ horizon < arrived /\ horizon' = horizon + 1
    /\ UNCHANGED <<mailboxVars, notices, ev, settled, enabled, locals, past>>

Outside ==
    /\ Arrive \/ Delete
    /\ UNCHANGED <<horizon, notices, ev, settled, enabled, locals, past>>

\* Any call of the tick throws before it has an effect.
Fault ==
    /\ pc \notin {"idle", "throwing"} /\ faults < MaxFaults
    /\ Throw /\ faults' = faults + 1
    /\ UNCHANGED <<google, ev, settled, enabled, first, acked>>

Crash ==
    /\ faults < MaxFaults /\ faults' = faults + 1 /\ Return
    /\ UNCHANGED <<google, ev, settled, enabled, first, acked>>

ReceiverNext ==
    \/ Tick \/ Control \/ Toggle \/ RetryDue \/ SyncDue
    \/ Publish \/ Expire \/ Outside \/ Fault \/ Crash

\* The loop ticks again and again, and time passes.
ReceiverSpec == /\ ReceiverInit /\ [][ReceiverNext]_receiverVars
                /\ WF_receiverVars(Tick) /\ WF_receiverVars(RetryDue) /\ WF_receiverVars(SyncDue)

(***************************************************************************)
(* Properties                                                              *)
(***************************************************************************)
Recoveries == [on : BOOLEAN, baseline : 0 .. arrived, token : 0 .. arrived]
Checkpoints ==
    [cursor : NoCursor .. arrived, token : 0 .. arrived, recovery : Recoveries,
     paused : BOOLEAN, retry : BOOLEAN, synced : BOOLEAN]

(* The checkpoint and the locals have the shape the tick relies on: no id    *)
(* lies beyond the mailbox, and past the first cursor there is one.          *)
TypeOK ==
    /\ ev \in Checkpoints
    /\ settled \subseteq 1 .. arrived
    /\ page \in [todo : SUBSET (1 .. arrived), next : 0 .. arrived, upto : 0 .. arrived]
    /\ target \in NoCursor .. arrived /\ acked \in 0 .. arrived
    /\ pc \in {"idle", "cursor", "first", "pull", "sift", "rescan", "history", "recover",
               "check", "store", "done", "settle", "ack", "throwing"}
    /\ pc \notin {"idle", "cursor", "first", "throwing"} => ev.cursor # NoCursor

\* Every message that came after the first cursor, up to id n, has been dealt with.
CaughtUp(n) == \A m \in 1 .. arrived : first < m /\ m <= n => m \in settled \cup deleted

(* "Pagination keeps the original cursor until the final page"               *)
(* (docs/ADMIN-MAIL-NOTIFICATIONS.md:29): the cursor never passes a message  *)
(* that was neither captured nor excluded nor deleted, whatever failed,      *)
(* expired or died between the listing and the cursor's write.               *)
CursorCovers == CaughtUp(ev.cursor)

(* "Failed capture leaves the event unacknowledged" (line 30): no            *)
(* notification is acknowledged before all mail it stands for is dealt with. *)
AckedIsSettled == CaughtUp(acked)

(* "without resetting the saved history cursor" (line 38): no control,       *)
(* recovery, retry or restart moves the cursor back.                         *)
CursorForward == [][ev'.cursor >= ev.cursor]_receiverVars

(* "Five-minute history reconciliation covers lost notifications" (line 41): *)
(* once the receiver stays enabled and unpaused, it catches up with all mail *)
(* there is, though no notification may come and the cursor may expire.      *)
MailIsSettled == <>[](enabled /\ ~ev.paused) => []<>(first # NoCursor /\ CaughtUp(arrived))
=============================================================================
