------------------------- MODULE MailReceiverProofs -------------------------
(***************************************************************************)
(* For every number of messages and of faults: the receiver's checkpoint    *)
(* keeps its shape, its cursor never passes a message that was not dealt    *)
(* with and never moves back, and no notification is acknowledged before    *)
(* all mail it stands for is dealt with.                                    *)
(*                                                                         *)
(* The argument.  What the cursor, the page token and the scan's token      *)
(* claim to be dealt with is (CursorCovers, TokenCovers, RecoveryCovers);   *)
(* a page listed from there covers the stretch up to its end, some of it    *)
(* still to be captured (PageCovers); a page is done when nothing is, and   *)
(* the write that moves the cursor or a token claims what the page covered. *)
(* A tick acknowledges only what its cursor has passed (BatchBelow).        *)
(***************************************************************************)
EXTENDS MailReceiver, TLAPS

Done(m) == m \in settled \cup deleted

Reading == pc \in {"check", "store", "done"}
Aimed == Reading \/ pc \in {"rescan", "history", "recover"}

Shape ==
    /\ arrived \in 0 .. MaxMail /\ deleted \subseteq 1 .. arrived /\ horizon \in Nat
    /\ notices \subseteq 0 .. arrived /\ batch \subseteq 0 .. arrived
    /\ enabled \in BOOLEAN /\ first \in NoCursor .. arrived
    /\ faults \in Nat

Beginning ==
    /\ first <= ev.cursor
    /\ ev.cursor = NoCursor => acked = 0 /\ ev.token = NoToken /\ ~ev.recovery.on
    /\ pc \in {"cursor", "first"} => ev.cursor = NoCursor

TokenCovers == ev.token # NoToken => CaughtUp(ev.token)

RecoveryCovers ==
    ev.recovery.on =>
        /\ ev.cursor <= ev.recovery.baseline /\ ev.token = NoToken
        /\ ev.recovery.token # NoToken =>
              \A m \in 1 .. arrived :
                  ev.recovery.token <= m /\ m <= ev.recovery.baseline => Done(m)

PageEnd == IF page.next = NoToken THEN page.upto ELSE page.next

PageCovers ==
    /\ pc = "rescan" => ev.recovery.on
    /\ pc = "history" => ~ev.recovery.on
    /\ pc = "done" => page.todo = {}
    /\ pc = "recover" => ~ev.recovery.on /\ ev.cursor <= page.upto
    /\ Reading /\ ev.recovery.on =>
          \A m \in 1 .. arrived :
              page.next <= m /\ m <= ev.recovery.baseline => Done(m) \/ m \in page.todo
    /\ Reading /\ ~ev.recovery.on =>
          /\ ev.cursor <= page.upto
          /\ \A m \in 1 .. arrived :
                first < m /\ m <= PageEnd => Done(m) \/ m \in page.todo

BatchBelow ==
    /\ Aimed => \A n \in batch : n <= target
    /\ pc \in {"settle", "ack"} => \A n \in batch : n <= ev.cursor

Coverage == CursorCovers /\ AckedIsSettled /\ TokenCovers /\ RecoveryCovers

IInv == TypeOK /\ Shape /\ Beginning /\ Coverage /\ PageCovers /\ BatchBelow

-----------------------------------------------------------------------------
(* What is dealt with stays so while the cursor and the tokens stand.        *)

Standing ==
    /\ UNCHANGED <<ev.cursor, ev.token, ev.recovery, first, acked>>
    /\ arrived <= arrived' /\ arrived' \in Nat
    /\ settled \subseteq settled' /\ deleted \subseteq deleted'

LEMMA StandingKeepsCoverage == ASSUME TypeOK, Shape, Coverage, Standing PROVE Coverage'
<1>1. \A n \in NoCursor .. arrived : CaughtUp(n) => CaughtUp(n)'
  BY DEF CaughtUp, Standing, Shape, NoCursor
<1>2. /\ ev.cursor \in NoCursor .. arrived /\ acked \in NoCursor .. arrived
      /\ ev.token \in NoCursor .. arrived
  BY DEF TypeOK, Checkpoints, NoCursor, Shape
<1>3. CursorCovers' /\ AckedIsSettled' /\ TokenCovers'
  BY <1>1, <1>2 DEF Coverage, CursorCovers, AckedIsSettled, TokenCovers, Standing
<1>4. RecoveryCovers'
  BY DEF Coverage, RecoveryCovers, Standing, TypeOK, Checkpoints, Recoveries, Shape, Done
<1>. QED BY <1>3, <1>4 DEF Coverage

(* A tick that is over claims nothing of a page or of a batch.               *)
LEMMA LeavingCovers ==
    ASSUME pc' \in {"idle", "throwing"} PROVE PageCovers' /\ BatchBelow'
BY DEF PageCovers, BatchBelow, Reading, Aimed

-----------------------------------------------------------------------------
(* One lemma per action.                                                     *)

LEMMA BeginKeeps == ASSUME IInv, Begin PROVE IInv'
<1>. USE MailAssumption, ReceiverAssumption
<1>1. TypeOK'
  BY DEF IInv, TypeOK, Checkpoints, Recoveries, Begin, google, mailboxVars, past, At
<1>2. Shape'
  BY DEF IInv, Shape, Begin, google, mailboxVars, past, At
<1>3. Beginning'
  BY DEF IInv, Beginning, Begin, past, At
<1>4. Standing
  BY DEF IInv, Shape, Begin, google, mailboxVars, past, Standing
<1>5. Coverage'
  BY StandingKeepsCoverage, <1>4 DEF IInv
<1>6. PageCovers'
  BY DEF Begin, At, PageCovers, Reading
<1>7. BatchBelow'
  BY DEF Begin, At, BatchBelow, Reading, Aimed
<1>. QED BY <1>1, <1>2, <1>3, <1>5, <1>6, <1>7 DEF IInv

LEMMA AskCursorKeeps == ASSUME IInv, AskCursor PROVE IInv'
<1>. USE MailAssumption, ReceiverAssumption
<1>1. TypeOK'
  BY DEF IInv, Shape, Beginning, TypeOK, Checkpoints, Recoveries, AskCursor, google, mailboxVars,
         past, NoPage
<1>2. Shape'
  BY DEF IInv, Shape, AskCursor, google, mailboxVars, past
<1>3. Beginning'
  BY DEF IInv, Beginning, AskCursor, past
<1>4. Standing
  BY DEF IInv, Shape, AskCursor, google, mailboxVars, past, Standing
<1>5. Coverage'
  BY StandingKeepsCoverage, <1>4 DEF IInv
<1>6. PageCovers'
  BY DEF AskCursor, PageCovers, Reading
<1>7. BatchBelow'
  BY DEF AskCursor, BatchBelow, Reading, Aimed
<1>. QED BY <1>1, <1>2, <1>3, <1>5, <1>6, <1>7 DEF IInv

LEMMA SaveCursorKeeps == ASSUME IInv, SaveCursor PROVE IInv'
<1>. USE MailAssumption, ReceiverAssumption
<1>1. ev' \in Checkpoints'
  BY DEF IInv, TypeOK, Checkpoints, Recoveries, SaveCursor, google, mailboxVars, NoCursor
<1>2. TypeOK'
  BY <1>1 DEF IInv, Shape, TypeOK, SaveCursor, google, mailboxVars, Leave, Throw, At, Then,
              NoPage, NoToken, NoCursor
<1>3. Shape'
  BY <1>1 DEF IInv, Shape, Checkpoints, SaveCursor, google, mailboxVars, Leave, Throw, At, Then
<1>4. Beginning'
  BY <1>1 DEF IInv, Beginning, TypeOK, SaveCursor, Leave, Throw, At, Then
<1>5. Coverage'
  BY <1>1 DEF IInv, Beginning, TypeOK, SaveCursor, Coverage, CursorCovers, AckedIsSettled,
              TokenCovers, RecoveryCovers, CaughtUp
<1>6. PageCovers'
  BY <1>1 DEF SaveCursor, Leave, Throw, At, Then, PageCovers, Reading
<1>7. BatchBelow'
  BY <1>1 DEF SaveCursor, Leave, Throw, At, Then, BatchBelow, Reading, Aimed
<1>. QED BY <1>2, <1>3, <1>4, <1>5, <1>6, <1>7 DEF IInv

LEMMA PullKeeps == ASSUME IInv, Pull PROVE IInv'
<1>. USE MailAssumption, ReceiverAssumption
<1>1. TypeOK'
  BY DEF IInv, TypeOK, Checkpoints, Recoveries, Pull, google, mailboxVars, past
<1>2. Shape'
  BY DEF IInv, Shape, Pull, google, mailboxVars, past
<1>3. Beginning'
  BY DEF IInv, Beginning, Pull, past
<1>4. Standing
  BY DEF IInv, Shape, Pull, google, mailboxVars, past, Standing
<1>5. Coverage'
  BY StandingKeepsCoverage, <1>4 DEF IInv
<1>6. PageCovers'
  BY DEF Pull, PageCovers, Reading
<1>7. BatchBelow'
  BY DEF Pull, BatchBelow, Reading, Aimed
<1>. QED BY <1>1, <1>2, <1>3, <1>5, <1>6, <1>7 DEF IInv

LEMMA SiftKeeps == ASSUME IInv, Sift PROVE IInv'
<1>. USE MailAssumption, ReceiverAssumption
<1>1. TypeOK'
  BY DEF IInv, Shape, TypeOK, Checkpoints, Recoveries, Sift, Largest, google, mailboxVars, past,
         Leave, Return, Settling, NoPage, NoToken, NoCursor
<1>2. Shape'
  BY DEF IInv, Shape, Sift, google, mailboxVars, past, Leave, Return, Settling
<1>3. Beginning'
  BY DEF IInv, Beginning, Sift, past, Leave, Return, Settling
<1>4. Standing
  BY DEF IInv, Shape, Sift, google, mailboxVars, past, Standing
<1>5. Coverage'
  BY StandingKeepsCoverage, <1>4 DEF IInv
<1>6. PageCovers'
  BY DEF Sift, Leave, Return, Settling, PageCovers, Reading
<1>7. BatchBelow'
  <2>1. CASE pc' = "idle"
    BY <2>1, LeavingCovers
  <2>2. CASE ~(pc' = "idle")
    <3>1. PICK aim \in Largest(batch \cup {ev.cursor}) :
             IF ev.recovery.on \/ Behind(aim)
             THEN /\ pc' = (IF ev.recovery.on THEN "rescan" ELSE "history")
                  /\ target' = aim /\ UNCHANGED <<batch, page>>
             ELSE Settling
      BY <2>2 DEF Sift, Return, Leave
    <3>2. \A n \in batch : n <= aim
      BY DEF Largest
    <3>3. CASE ev.recovery.on \/ Behind(aim)
      BY <3>1, <3>2, <3>3 DEF BatchBelow, Aimed, Reading
    <3>4. CASE ~(ev.recovery.on \/ Behind(aim))
      <4>1. \A n \in batch : n \in Int /\ n <= ev.cursor
        BY <3>2, <3>4 DEF Behind, IInv, TypeOK, Checkpoints, Shape, NoCursor, Largest
      <4>. QED BY <3>1, <3>4, <4>1 DEF BatchBelow, Aimed, Reading, Settling, Sift
    <3>. QED BY <3>3, <3>4
  <2>. QED BY <2>1, <2>2
<1>. QED BY <1>1, <1>2, <1>3, <1>5, <1>6, <1>7 DEF IInv

LEMMA RescanKeeps == ASSUME IInv, Rescan PROVE IInv'
<1>. USE MailAssumption, ReceiverAssumption
<1>1. TypeOK'
  BY DEF IInv, Shape, TypeOK, Checkpoints, Recoveries, Rescan, ScanPages, google, mailboxVars,
         past, PageCovers, Coverage, RecoveryCovers
<1>2. Shape'
  BY DEF IInv, Shape, Rescan, google, mailboxVars, past
<1>3. Beginning'
  BY DEF IInv, Beginning, Rescan, past
<1>4. Standing
  BY DEF IInv, Shape, Rescan, google, mailboxVars, past, Standing
<1>5. Coverage'
  BY StandingKeepsCoverage, <1>4 DEF IInv
<1>6. PageCovers'
  BY DEF IInv, Shape, TypeOK, Checkpoints, Recoveries, Rescan, ScanPages, google, mailboxVars,
         Coverage, RecoveryCovers, Done, PageCovers
<1>7. BatchBelow'
  BY DEF IInv, Rescan, BatchBelow, Aimed
<1>. QED BY <1>1, <1>2, <1>3, <1>5, <1>6, <1>7 DEF IInv

LEMMA HistoryKeeps == ASSUME IInv, History PROVE IInv'
<1>. USE MailAssumption, ReceiverAssumption
<1>1. TypeOK'
  BY DEF IInv, Shape, TypeOK, Checkpoints, Recoveries, History, HistoryPages, google, mailboxVars,
         past, NoToken
<1>2. Shape'
  BY DEF IInv, Shape, History, google, mailboxVars, past
<1>3. Beginning'
  BY DEF IInv, Beginning, History, past
<1>4. Standing
  BY DEF IInv, Shape, History, google, mailboxVars, past, Standing
<1>5. Coverage'
  BY StandingKeepsCoverage, <1>4 DEF IInv
<1>6. PageCovers'
  BY DEF IInv, Shape, TypeOK, Checkpoints, History, HistoryPages, google, mailboxVars, past,
         NoToken, Coverage, CursorCovers, TokenCovers, CaughtUp, Done, PageCovers, PageEnd
<1>7. BatchBelow'
  BY DEF IInv, History, BatchBelow, Aimed
<1>. QED BY <1>1, <1>2, <1>3, <1>5, <1>6, <1>7 DEF IInv

LEMMA ExpiredKeeps == ASSUME IInv, Expired PROVE IInv'
<1>. USE MailAssumption, ReceiverAssumption
<1>1. TypeOK'
  BY DEF IInv, Shape, TypeOK, Checkpoints, Recoveries, Expired, google, mailboxVars, past, NoPage,
         NoToken
<1>2. Shape'
  BY DEF IInv, Shape, Expired, google, mailboxVars, past
<1>3. Beginning'
  BY DEF IInv, Beginning, Expired, past
<1>4. Standing
  BY DEF IInv, Shape, Expired, google, mailboxVars, past, Standing
<1>5. Coverage'
  BY StandingKeepsCoverage, <1>4 DEF IInv
<1>6. PageCovers'
  BY DEF IInv, TypeOK, Checkpoints, Expired, PageCovers, Reading
<1>7. BatchBelow'
  BY DEF IInv, Expired, BatchBelow, Aimed
<1>. QED BY <1>1, <1>2, <1>3, <1>5, <1>6, <1>7 DEF IInv

LEMMA RecoverKeeps == ASSUME IInv, Recover PROVE IInv'
<1>. USE MailAssumption, ReceiverAssumption
<1>1. ev' \in Checkpoints'
  <2>. DEFINE r == [on |-> TRUE, baseline |-> page.upto, token |-> NoToken]
  <2>1. r \in Recoveries
    BY DEF IInv, TypeOK, Shape, Recoveries, NoToken
  <2>2. ev' = [ev EXCEPT !.recovery = r, !.token = NoToken] /\ UNCHANGED arrived
    BY DEF Recover, google, mailboxVars
  <2>. HIDE DEF r
  <2>3. ev' = [cursor |-> ev.cursor, token |-> NoToken, recovery |-> r,
               paused |-> ev.paused, retry |-> ev.retry, synced |-> ev.synced]
    BY <2>2 DEF IInv, TypeOK, Checkpoints
  <2>4. ev' \in Checkpoints
    BY <2>1, <2>3 DEF IInv, TypeOK, Shape, Checkpoints, NoToken
  <2>. QED BY <2>2, <2>4 DEF Checkpoints, Recoveries
<1>2. TypeOK'
  BY <1>1 DEF IInv, Shape, TypeOK, Recover, google, mailboxVars, Leave, Return, Throw, Then,
              NoPage, NoToken, NoCursor
<1>3. Shape'
  BY <1>1 DEF IInv, Shape, Recover, google, mailboxVars, Leave, Return, Throw, Then
<1>4. Beginning'
  BY <1>1 DEF IInv, Beginning, TypeOK, Recover, Leave, Return, Throw, Then
<1>5. Coverage'
  BY <1>1 DEF IInv, Recover, google, mailboxVars, Coverage, CursorCovers, AckedIsSettled,
              TokenCovers, RecoveryCovers, CaughtUp, PageCovers
<1>6. PageCovers' /\ BatchBelow'
  BY LeavingCovers DEF Recover, Leave, Return, Throw, Then
<1>. QED BY <1>2, <1>3, <1>4, <1>5, <1>6 DEF IInv

LEMMA CheckKeeps == ASSUME IInv, Check PROVE IInv'
<1>. USE MailAssumption, ReceiverAssumption
<1>1. TypeOK'
  BY DEF IInv, Shape, TypeOK, Checkpoints, Recoveries, Check, google, mailboxVars, past, Leave,
         Throw, At, NoPage, NoToken, NoCursor
<1>2. Shape'
  BY DEF IInv, Shape, Check, google, mailboxVars, past, Leave, Throw, At
<1>3. Beginning'
  BY DEF IInv, Beginning, Check, past, Leave, Throw, At
<1>4. Standing
  BY DEF IInv, Shape, Check, google, mailboxVars, past, Standing
<1>5. Coverage'
  BY StandingKeepsCoverage, <1>4 DEF IInv
<1>6. PageCovers'
  BY DEF IInv, Check, google, mailboxVars, past, Leave, Throw, At, Done, PageCovers, Reading,
         PageEnd
<1>7. BatchBelow'
  BY DEF IInv, Check, Leave, Throw, At, BatchBelow, Reading, Aimed
<1>. QED BY <1>1, <1>2, <1>3, <1>5, <1>6, <1>7 DEF IInv

LEMMA CaptureKeeps == ASSUME IInv, Capture PROVE IInv'
<1>. USE MailAssumption, ReceiverAssumption
<1>1. TypeOK'
  BY DEF IInv, Shape, TypeOK, Checkpoints, Recoveries, Capture, google, mailboxVars, Leave, Throw,
         Then, NoPage, NoToken, NoCursor
<1>2. Shape'
  BY DEF IInv, Shape, Capture, google, mailboxVars, Leave, Throw, Then
<1>3. Beginning'
  BY DEF IInv, Beginning, Capture, Leave, Throw, Then
<1>4. Standing
  BY DEF IInv, Shape, Capture, google, mailboxVars, Then, Standing
<1>5. Coverage'
  BY StandingKeepsCoverage, <1>4 DEF IInv
<1>6. PageCovers'
  BY DEF IInv, TypeOK, Capture, google, mailboxVars, Leave, Throw, Then, Done, PageCovers,
         Reading, PageEnd
<1>7. BatchBelow'
  BY DEF IInv, Capture, Leave, Throw, Then, BatchBelow, Reading, Aimed
<1>. QED BY <1>1, <1>2, <1>3, <1>5, <1>6, <1>7 DEF IInv

LEMMA ScannedKeeps == ASSUME IInv, Scanned PROVE IInv'
<1>. USE MailAssumption, ReceiverAssumption
<1>1. ev' \in Checkpoints'
  <2>1. UNCHANGED arrived
    BY DEF Scanned, google, mailboxVars
  <2>2. CASE page.next # NoToken
    <3>. DEFINE r == [ev.recovery EXCEPT !.token = page.next]
    <3>1. r \in Recoveries
      BY DEF IInv, TypeOK, Checkpoints, Recoveries
    <3>2. ev' = [ev EXCEPT !.recovery = r]
      BY <2>2 DEF Scanned
    <3>. HIDE DEF r
    <3>3. ev' \in Checkpoints
      BY <3>1, <3>2 DEF IInv, TypeOK, Checkpoints
    <3>. QED BY <2>1, <3>3 DEF Checkpoints, Recoveries
  <2>3. CASE page.next = NoToken
    <3>1. NoRecovery \in Recoveries /\ ev.recovery.baseline \in 0 .. arrived
      BY DEF IInv, TypeOK, Checkpoints, Recoveries, NoRecovery, Shape, NoToken
    <3>2. ev' = [ev EXCEPT !.recovery = NoRecovery, !.cursor = ev.recovery.baseline,
                           !.token = NoToken]
      BY <2>3 DEF Scanned
    <3>3. ev' = [cursor |-> ev.recovery.baseline, token |-> NoToken, recovery |-> NoRecovery,
                 paused |-> ev.paused, retry |-> ev.retry, synced |-> ev.synced]
      BY <3>2 DEF IInv, TypeOK, Checkpoints
    <3>4. ev' \in Checkpoints
      BY <3>1, <3>3 DEF IInv, TypeOK, Checkpoints, Shape, NoToken, NoCursor
    <3>. QED BY <2>1, <3>4 DEF Checkpoints, Recoveries
  <2>. QED BY <2>2, <2>3
<1>2. TypeOK'
  BY <1>1 DEF IInv, Shape, TypeOK, Scanned, google, mailboxVars, Leave, Return, Throw, Then,
              NoPage, NoToken, NoCursor
<1>3. Shape'
  BY <1>1 DEF IInv, Shape, Scanned, google, mailboxVars, Leave, Return, Throw, Then
<1>4. Beginning'
  BY <1>1 DEF IInv, Shape, Beginning, TypeOK, Checkpoints, Recoveries, Scanned, Leave, Return,
              Throw, Then, Coverage, RecoveryCovers
<1>5. Coverage'
  BY <1>1 DEF IInv, Scanned, google, mailboxVars, NoRecovery, NoToken, Coverage, CursorCovers,
              AckedIsSettled, TokenCovers, RecoveryCovers, CaughtUp, Done, PageCovers, Reading
<1>6. PageCovers' /\ BatchBelow'
  BY LeavingCovers DEF Scanned, Leave, Return, Throw, Then
<1>. QED BY <1>2, <1>3, <1>4, <1>5, <1>6 DEF IInv

LEMMA ListedKeeps == ASSUME IInv, Listed PROVE IInv'
<1>. DEFINE Cursor == IF page.next = NoToken THEN page.upto ELSE ev.cursor
<1>1. /\ UNCHANGED <<google, settled, enabled, first, acked>>
      /\ pc = "done" /\ ~ev.recovery.on /\ page.todo = {}
  BY DEF Listed, IInv, PageCovers
<1>2. CASE enabled
  <2>1. ev' = [cursor |-> Cursor, token |-> page.next, recovery |-> ev.recovery,
               paused |-> ev.paused, retry |-> FALSE, synced |-> ev.synced \/ page.next = NoToken]
    BY <1>2 DEF Listed, IInv, TypeOK, Checkpoints
  <2>2. /\ Cursor \in NoCursor .. arrived /\ ev.cursor <= Cursor /\ Cursor # NoCursor
        /\ page.next \in 0 .. arrived
    BY <1>1 DEF IInv, TypeOK, Checkpoints, Shape, PageCovers, Reading, NoCursor
  <2>3. /\ ev' \in Checkpoints'
        /\ ev'.cursor = Cursor /\ ev'.token = page.next /\ ~ev'.recovery.on
    BY <1>1, <2>1, <2>2 DEF IInv, TypeOK, Checkpoints, Recoveries, google, mailboxVars
  <2>4. \/ pc' \in {"idle", "throwing"} /\ Leave(pc')
        \/ page.next = NoToken /\ Cursor >= target /\ Settling
    BY <1>2, <2>2, <2>3 DEF Listed, Then, Return, Throw, Leave, IInv, TypeOK, NoCursor, Shape
  <2>5. faults' \in Nat
    BY <1>2 DEF Listed, Then, IInv, Shape
  <2>6. TypeOK' /\ Shape'
    <3>1. UNCHANGED <<arrived, deleted, horizon, notices>> /\ arrived \in Nat
      BY <1>1 DEF google, mailboxVars, IInv, Shape
    <3>2. /\ page' = NoPage /\ target' = 0 /\ batch' \in {{}, batch}
          /\ pc' \in {"idle", "throwing", "settle"}
      BY <2>4 DEF Leave, Settling
    <3>3. NoPage \in [todo : SUBSET (1 .. arrived), next : 0 .. arrived, upto : 0 .. arrived]
      BY <3>1 DEF NoPage, NoToken
    <3>4. TypeOK'
      BY <1>1, <2>2, <2>3, <3>1, <3>2, <3>3 DEF IInv, TypeOK, NoCursor
    <3>5. Shape'
      BY <1>1, <2>5, <3>1, <3>2 DEF IInv, Shape
    <3>. QED BY <3>4, <3>5
  <2>7. Beginning'
    BY <1>1, <2>2, <2>3, <2>4
    DEF IInv, TypeOK, Checkpoints, Beginning, Shape, Leave, Settling, NoCursor
  <2>8. Coverage'
    <3>1. \A n : n \in 0 .. arrived /\ n <= PageEnd => CaughtUp(n)
      BY <1>1 DEF IInv, PageCovers, Reading, CaughtUp, Done, PageEnd, TypeOK, Shape, NoCursor
    <3>2. \A n : CaughtUp(n)' <=> CaughtUp(n)
      BY <1>1 DEF CaughtUp, google, mailboxVars
    <3>3. CaughtUp(ev.cursor) /\ CaughtUp(acked)
      BY DEF IInv, Coverage, CursorCovers, AckedIsSettled
    <3>4. CursorCovers'
      BY <2>2, <2>3, <3>1, <3>2, <3>3 DEF CursorCovers, PageEnd, IInv, TypeOK, NoCursor, NoToken,
                                          CaughtUp
    <3>5. AckedIsSettled'
      BY <1>1, <3>2, <3>3 DEF AckedIsSettled, CaughtUp
    <3>6. TokenCovers'
      BY <2>2, <2>3, <3>1, <3>2 DEF TokenCovers, PageEnd, NoToken, CaughtUp
    <3>. QED BY <2>3, <3>4, <3>5, <3>6 DEF Coverage, RecoveryCovers
  <2>9. PageCovers' /\ BatchBelow'
    <3>1. CASE pc' \in {"idle", "throwing"}
      BY <3>1, LeavingCovers
    <3>2. CASE page.next = NoToken /\ Cursor >= target /\ Settling
      <4>1. \A n \in batch : n \in Int /\ n <= target
        BY <1>1 DEF IInv, BatchBelow, Aimed, Reading, Shape
      <4>2. \A n \in batch' : n <= ev'.cursor
        BY <3>2, <4>1, <2>2, <2>3 DEF Settling, IInv, TypeOK, NoCursor
      <4>. QED BY <3>2, <4>2 DEF Settling, PageCovers, BatchBelow, Reading, Aimed
    <3>. QED BY <2>4, <3>1, <3>2
  <2>. QED BY <2>6, <2>7, <2>8, <2>9 DEF IInv
<1>3. CASE ~enabled
  <2>1. /\ UNCHANGED <<ev, faults, settled, enabled, first, acked, google>> /\ Throw
    BY <1>3, <1>1 DEF Listed
  <2>2. TypeOK' /\ Shape' /\ Beginning'
    BY <2>1 DEF IInv, TypeOK, Checkpoints, Recoveries, Shape, Beginning, google, mailboxVars,
                Throw, Leave, NoPage, NoToken, NoCursor
  <2>3. Standing
    BY <2>1 DEF Standing, IInv, Shape, google, mailboxVars
  <2>. QED BY <2>1, <2>2, <2>3, StandingKeepsCoverage, LeavingCovers DEF IInv, Throw, Leave
<1>. QED BY <1>2, <1>3

LEMMA SettleKeeps == ASSUME IInv, Settle PROVE IInv'
<1>. USE MailAssumption, ReceiverAssumption
<1>1. TypeOK'
  BY DEF IInv, Shape, TypeOK, Checkpoints, Recoveries, Settle, google, mailboxVars, past, Leave,
         Return, At, NoPage, NoToken, NoCursor
<1>2. Shape'
  BY DEF IInv, Shape, Settle, google, mailboxVars, past, Leave, Return, At
<1>3. Beginning'
  BY DEF IInv, Beginning, Settle, past, Leave, Return, At
<1>4. Standing
  BY DEF IInv, Shape, Settle, google, mailboxVars, past, Standing
<1>5. Coverage'
  BY StandingKeepsCoverage, <1>4 DEF IInv
<1>6. PageCovers'
  BY DEF Settle, Leave, Return, At, PageCovers, Reading
<1>7. BatchBelow'
  BY DEF IInv, Settle, Leave, Return, At, BatchBelow, Reading, Aimed
<1>. QED BY <1>1, <1>2, <1>3, <1>5, <1>6, <1>7 DEF IInv

LEMMA AcknowledgeKeeps == ASSUME IInv, Acknowledge PROVE IInv'
<1>. USE MailAssumption, ReceiverAssumption
<1>1. TypeOK'
  BY DEF IInv, Shape, TypeOK, Checkpoints, Recoveries, Acknowledge, Largest, mailboxVars, Leave,
         Return, Throw, Then, NoPage, NoToken, NoCursor
<1>2. Shape'
  BY DEF IInv, Shape, Acknowledge, mailboxVars, Leave, Return, Throw, Then
<1>3. Beginning'
  BY DEF IInv, Beginning, TypeOK, Acknowledge, Leave, Return, Throw, Then
<1>4. Coverage'
  BY DEF IInv, Shape, TypeOK, Checkpoints, Acknowledge, Largest, mailboxVars, Coverage,
         CursorCovers, AckedIsSettled, TokenCovers, RecoveryCovers, CaughtUp, Done, BatchBelow
<1>5. PageCovers' /\ BatchBelow'
  BY LeavingCovers DEF Acknowledge, Leave, Return, Throw, Then
<1>. QED BY <1>1, <1>2, <1>3, <1>4, <1>5 DEF IInv

LEMMA CaughtKeeps == ASSUME IInv, Caught PROVE IInv'
<1>. USE MailAssumption, ReceiverAssumption
<1>1. ev' \in Checkpoints'
  BY DEF IInv, TypeOK, Checkpoints, Recoveries, Caught, google, mailboxVars
<1>2. TypeOK'
  BY <1>1 DEF IInv, Shape, TypeOK, Caught, google, mailboxVars, Leave, Return, NoPage, NoToken,
              NoCursor
<1>3. Shape'
  BY <1>1 DEF IInv, Shape, Caught, google, mailboxVars, Leave, Return
<1>4. Beginning'
  BY <1>1 DEF IInv, Beginning, Checkpoints, Caught, Leave, Return
<1>5. Standing
  BY <1>1 DEF IInv, Shape, Checkpoints, Caught, google, mailboxVars, Standing
<1>6. Coverage'
  BY StandingKeepsCoverage, <1>5 DEF IInv
<1>7. PageCovers' /\ BatchBelow'
  BY LeavingCovers DEF Caught, Leave, Return
<1>. QED BY <1>2, <1>3, <1>4, <1>6, <1>7 DEF IInv

LEMMA ControlKeeps == ASSUME IInv, Control PROVE IInv'
<1>. USE MailAssumption, ReceiverAssumption
<1>1. ev' \in Checkpoints'
  BY DEF IInv, TypeOK, Checkpoints, Recoveries, Control, google, mailboxVars
<1>2. TypeOK'
  BY <1>1 DEF IInv, TypeOK, Control, google, mailboxVars, locals, past
<1>3. Shape'
  BY <1>1 DEF IInv, Shape, Control, google, mailboxVars, locals, past
<1>4. Beginning'
  BY <1>1 DEF IInv, Beginning, Control, locals, past
<1>5. Standing
  BY <1>1 DEF IInv, Shape, Control, google, mailboxVars, past, Standing
<1>6. Coverage'
  BY StandingKeepsCoverage, <1>5 DEF IInv
<1>7. PageCovers'
  BY <1>1 DEF IInv, Control, google, mailboxVars, locals, past, Done, PageCovers, Reading, PageEnd
<1>8. BatchBelow'
  BY <1>1 DEF IInv, Control, locals, BatchBelow, Reading, Aimed
<1>. QED BY <1>2, <1>3, <1>4, <1>6, <1>7, <1>8 DEF IInv

LEMMA ToggleKeeps == ASSUME IInv, Toggle PROVE IInv'
<1>. USE MailAssumption, ReceiverAssumption
<1>1. TypeOK'
  BY DEF IInv, TypeOK, Checkpoints, Recoveries, Toggle, google, mailboxVars, locals, past
<1>2. Shape'
  BY DEF IInv, Shape, Toggle, google, mailboxVars, locals, past
<1>3. Beginning'
  BY DEF IInv, Beginning, Toggle, locals, past
<1>4. Standing
  BY DEF IInv, Shape, Toggle, google, mailboxVars, past, Standing
<1>5. Coverage'
  BY StandingKeepsCoverage, <1>4 DEF IInv
<1>6. PageCovers'
  BY DEF IInv, Toggle, google, mailboxVars, locals, past, Done, PageCovers, Reading, PageEnd
<1>7. BatchBelow'
  BY DEF IInv, Toggle, locals, BatchBelow, Reading, Aimed
<1>. QED BY <1>1, <1>2, <1>3, <1>5, <1>6, <1>7 DEF IInv

LEMMA RetryDueKeeps == ASSUME IInv, RetryDue PROVE IInv'
<1>. USE MailAssumption, ReceiverAssumption
<1>1. TypeOK'
  BY DEF IInv, TypeOK, Checkpoints, Recoveries, RetryDue, google, mailboxVars, locals, past
<1>2. Shape'
  BY DEF IInv, Shape, RetryDue, google, mailboxVars, locals, past
<1>3. Beginning'
  BY DEF IInv, Beginning, RetryDue, locals, past
<1>4. Standing
  BY DEF IInv, Shape, RetryDue, google, mailboxVars, past, Standing
<1>5. Coverage'
  BY StandingKeepsCoverage, <1>4 DEF IInv
<1>6. PageCovers'
  BY DEF IInv, RetryDue, google, mailboxVars, locals, past, Done, PageCovers, Reading, PageEnd
<1>7. BatchBelow'
  BY DEF IInv, RetryDue, locals, BatchBelow, Reading, Aimed
<1>. QED BY <1>1, <1>2, <1>3, <1>5, <1>6, <1>7 DEF IInv

LEMMA SyncDueKeeps == ASSUME IInv, SyncDue PROVE IInv'
<1>. USE MailAssumption, ReceiverAssumption
<1>1. TypeOK'
  BY DEF IInv, TypeOK, Checkpoints, Recoveries, SyncDue, google, mailboxVars, locals, past
<1>2. Shape'
  BY DEF IInv, Shape, SyncDue, google, mailboxVars, locals, past
<1>3. Beginning'
  BY DEF IInv, Beginning, SyncDue, locals, past
<1>4. Standing
  BY DEF IInv, Shape, SyncDue, google, mailboxVars, past, Standing
<1>5. Coverage'
  BY StandingKeepsCoverage, <1>4 DEF IInv
<1>6. PageCovers'
  BY DEF IInv, SyncDue, google, mailboxVars, locals, past, Done, PageCovers, Reading, PageEnd
<1>7. BatchBelow'
  BY DEF IInv, SyncDue, locals, BatchBelow, Reading, Aimed
<1>. QED BY <1>1, <1>2, <1>3, <1>5, <1>6, <1>7 DEF IInv

LEMMA PublishKeeps == ASSUME IInv, Publish PROVE IInv'
<1>. USE MailAssumption, ReceiverAssumption
<1>1. TypeOK'
  BY DEF IInv, TypeOK, Checkpoints, Recoveries, Publish, mailboxVars, locals, past
<1>2. Shape'
  BY DEF IInv, Shape, Publish, mailboxVars, locals, past, Unusable
<1>3. Beginning'
  BY DEF IInv, Beginning, Publish, locals, past
<1>4. Standing
  BY DEF IInv, Shape, Publish, mailboxVars, past, Standing
<1>5. Coverage'
  BY StandingKeepsCoverage, <1>4 DEF IInv
<1>6. PageCovers'
  BY DEF IInv, Publish, mailboxVars, locals, past, Done, PageCovers, Reading, PageEnd
<1>7. BatchBelow'
  BY DEF IInv, Publish, locals, BatchBelow, Reading, Aimed
<1>. QED BY <1>1, <1>2, <1>3, <1>5, <1>6, <1>7 DEF IInv

LEMMA ExpireKeeps == ASSUME IInv, Expire PROVE IInv'
<1>. USE MailAssumption, ReceiverAssumption
<1>1. TypeOK'
  BY DEF IInv, TypeOK, Checkpoints, Recoveries, Expire, mailboxVars, locals, past
<1>2. Shape'
  BY DEF IInv, Shape, Expire, mailboxVars, locals, past
<1>3. Beginning'
  BY DEF IInv, Beginning, Expire, locals, past
<1>4. Standing
  BY DEF IInv, Shape, Expire, mailboxVars, past, Standing
<1>5. Coverage'
  BY StandingKeepsCoverage, <1>4 DEF IInv
<1>6. PageCovers'
  BY DEF IInv, Expire, mailboxVars, locals, past, Done, PageCovers, Reading, PageEnd
<1>7. BatchBelow'
  BY DEF IInv, Expire, locals, BatchBelow, Reading, Aimed
<1>. QED BY <1>1, <1>2, <1>3, <1>5, <1>6, <1>7 DEF IInv

LEMMA OutsideKeeps == ASSUME IInv, Outside PROVE IInv'
<1>. USE MailAssumption, ReceiverAssumption
<1>1. TypeOK'
  <2>1. arrived \in 0 .. MaxMail /\ arrived' \in 0 .. MaxMail /\ arrived <= arrived'
    BY DEF Outside, Arrive, Delete, IInv, Shape
  <2>2. ev \in Checkpoints'
    BY <2>1 DEF IInv, TypeOK, Checkpoints, Recoveries, NoCursor
  <2>3. UNCHANGED <<ev, settled, page, target, acked, pc>>
    BY DEF Outside, locals, past
  <2>. QED BY <2>1, <2>2, <2>3 DEF IInv, TypeOK, NoCursor
<1>2. Shape'
  <2>1. CASE Arrive
    BY <2>1 DEF Outside, Arrive, IInv, Shape, locals, past, NoCursor
  <2>2. CASE Delete
    BY <2>2 DEF Outside, Delete, IInv, Shape, locals, past, NoCursor
  <2>. QED BY <2>1, <2>2 DEF Outside
<1>3. Beginning'
  BY DEF IInv, Beginning, Outside, locals, past
<1>4. Standing
  BY DEF IInv, Shape, Outside, Arrive, Delete, past, Standing
<1>5. Coverage'
  BY StandingKeepsCoverage, <1>4 DEF IInv
<1>6. PageCovers'
  BY DEF IInv, Shape, TypeOK, Checkpoints, Recoveries, Outside, Arrive, Delete, locals, past,
         Done, PageCovers, Reading, PageEnd
<1>7. BatchBelow'
  BY DEF IInv, Outside, locals, BatchBelow, Reading, Aimed
<1>. QED BY <1>1, <1>2, <1>3, <1>5, <1>6, <1>7 DEF IInv

LEMMA FaultKeeps == ASSUME IInv, Fault PROVE IInv'
<1>. USE MailAssumption, ReceiverAssumption
<1>1. TypeOK'
  BY DEF IInv, Shape, TypeOK, Checkpoints, Recoveries, Fault, google, mailboxVars, Leave, Throw,
         NoPage, NoToken, NoCursor
<1>2. Shape'
  BY DEF IInv, Shape, Fault, google, mailboxVars, Leave, Throw
<1>3. Beginning'
  BY DEF IInv, Beginning, Fault, Leave, Throw
<1>4. Standing
  BY DEF IInv, Shape, Fault, google, mailboxVars, Standing
<1>5. Coverage'
  BY StandingKeepsCoverage, <1>4 DEF IInv
<1>6. PageCovers' /\ BatchBelow'
  BY LeavingCovers DEF Fault, Leave, Throw
<1>. QED BY <1>1, <1>2, <1>3, <1>5, <1>6 DEF IInv

LEMMA CrashKeeps == ASSUME IInv, Crash PROVE IInv'
<1>. USE MailAssumption, ReceiverAssumption
<1>1. TypeOK'
  BY DEF IInv, Shape, TypeOK, Checkpoints, Recoveries, Crash, google, mailboxVars, Leave, Return,
         NoPage, NoToken, NoCursor
<1>2. Shape'
  BY DEF IInv, Shape, Crash, google, mailboxVars, Leave, Return
<1>3. Beginning'
  BY DEF IInv, Beginning, Crash, Leave, Return
<1>4. Standing
  BY DEF IInv, Shape, Crash, google, mailboxVars, Standing
<1>5. Coverage'
  BY StandingKeepsCoverage, <1>4 DEF IInv
<1>6. PageCovers' /\ BatchBelow'
  BY LeavingCovers DEF Crash, Leave, Return
<1>. QED BY <1>1, <1>2, <1>3, <1>5, <1>6 DEF IInv

-----------------------------------------------------------------------------
(* The invariant and what follows from it.                                   *)

LEMMA InitEstablishes == ReceiverInit => IInv
<1>. SUFFICES ASSUME ReceiverInit PROVE IInv
  OBVIOUS
<1>1. TypeOK /\ Shape /\ Beginning
  BY MailAssumption
  DEF ReceiverInit, TypeOK, Checkpoints, Recoveries, Shape, Beginning,
      NoPage, NoRecovery, NoToken, NoCursor
<1>2. Coverage /\ PageCovers /\ BatchBelow
  BY MailAssumption
  DEF ReceiverInit, Coverage, CursorCovers, AckedIsSettled, TokenCovers, RecoveryCovers, CaughtUp,
      PageCovers, BatchBelow, Reading, Aimed, NoRecovery, NoToken, NoCursor
<1>. QED BY <1>1, <1>2 DEF IInv

LEMMA NextKeeps == IInv /\ [ReceiverNext]_receiverVars => IInv'
<1>. SUFFICES ASSUME IInv, [ReceiverNext]_receiverVars PROVE IInv'
  OBVIOUS
<1>1. CASE Tick
  BY <1>1, BeginKeeps, AskCursorKeeps, SaveCursorKeeps, PullKeeps, SiftKeeps, RescanKeeps,
     HistoryKeeps, ExpiredKeeps, RecoverKeeps, CheckKeeps, CaptureKeeps, ScannedKeeps,
     ListedKeeps, SettleKeeps, AcknowledgeKeeps, CaughtKeeps DEF Tick
<1>2. CASE Control \/ Toggle \/ RetryDue \/ SyncDue \/ Publish \/ Expire \/ Outside
  BY <1>2, ControlKeeps, ToggleKeeps, RetryDueKeeps, SyncDueKeeps, PublishKeeps, ExpireKeeps,
     OutsideKeeps
<1>3. CASE Fault \/ Crash
  BY <1>3, FaultKeeps, CrashKeeps
<1>4. CASE UNCHANGED receiverVars
  <2>1. /\ UNCHANGED <<arrived, deleted, horizon, notices, ev, settled, enabled>>
        /\ UNCHANGED <<pc, batch, target, page, first, acked, faults>>
    BY <1>4 DEF receiverVars, mailboxVars, locals, past
  <2>. QED BY <2>1
       DEF IInv, TypeOK, Checkpoints, Recoveries, Shape, Beginning, Coverage, CursorCovers,
           AckedIsSettled, TokenCovers, RecoveryCovers, CaughtUp, Done, PageCovers, Reading,
           PageEnd, BatchBelow, Aimed
<1>. QED BY <1>1, <1>2, <1>3, <1>4 DEF ReceiverNext

LEMMA ReceiverInductive == ReceiverSpec => []IInv
BY InitEstablishes, NextKeeps, PTL DEF ReceiverSpec

(* The checkpoint and the locals of a tick keep their shape.                  *)
THEOREM ReceiverIsTyped == ReceiverSpec => []TypeOK
<1>1. IInv => TypeOK
  BY DEF IInv
<1>. QED BY <1>1, ReceiverInductive, PTL

(* The saved cursor never passes a message that was not dealt with: not over  *)
(* pages, expiries, faults, pauses or restarts.                               *)
THEOREM CursorIsCovered == ReceiverSpec => []CursorCovers
<1>1. IInv => CursorCovers
  BY DEF IInv, Coverage
<1>. QED BY <1>1, ReceiverInductive, PTL

(* A notification is acknowledged only when all mail it stands for has been   *)
(* dealt with, in whatever order notifications come and how often.            *)
THEOREM AcknowledgedIsSettled == ReceiverSpec => []AckedIsSettled
<1>1. IInv => AckedIsSettled
  BY DEF IInv, Coverage
<1>. QED BY <1>1, ReceiverInductive, PTL

(* No step moves the cursor back: a recovery resumes at a baseline that is at *)
(* least the cursor that expired.                                             *)
THEOREM CursorNeverBack == ReceiverSpec => CursorForward
<1>1. IInv /\ [ReceiverNext]_receiverVars => [ev'.cursor >= ev.cursor]_receiverVars
  <2>. SUFFICES ASSUME IInv, ReceiverNext PROVE ev'.cursor >= ev.cursor
    OBVIOUS
  <2>1. /\ ev \in Checkpoints /\ ev.cursor \in Int /\ ev.cursor >= NoCursor /\ arrived \in Nat
        /\ page.upto \in Nat
    BY DEF IInv, TypeOK, Checkpoints, Shape, NoCursor
  <2>2. CASE SaveCursor
    BY <2>1, <2>2 DEF SaveCursor, Checkpoints, IInv, Beginning, NoCursor
  <2>3. CASE Scanned
    <3>1. ev.cursor <= ev.recovery.baseline /\ ev.recovery.baseline \in Int
      BY <2>3 DEF Scanned, IInv, Coverage, RecoveryCovers, TypeOK, Checkpoints, Recoveries, Shape
    <3>. QED BY <2>1, <2>3, <3>1 DEF Scanned, Checkpoints
  <2>4. CASE Listed
    <3>1. ev.cursor <= page.upto
      BY <2>4 DEF Listed, IInv, PageCovers, Reading
    <3>2. CASE enabled
      <4>1. ev'.cursor = IF page.next = NoToken THEN page.upto ELSE ev.cursor
        BY <2>1, <2>4, <3>2 DEF Listed, Checkpoints
      <4>. QED BY <2>1, <3>1, <4>1
    <3>3. CASE ~enabled
      BY <2>1, <2>4, <3>3 DEF Listed
    <3>. QED BY <3>2, <3>3
  <2>5. CASE Recover \/ Caught \/ Control \/ RetryDue \/ SyncDue
    <3>1. ev'.cursor = ev.cursor
      BY <2>1, <2>5 DEF Recover, Caught, Control, RetryDue, SyncDue, Checkpoints
    <3>. QED BY <2>1, <3>1
  <2>6. CASE UNCHANGED ev
    BY <2>1, <2>6
  <2>. QED
    BY <2>2, <2>3, <2>4, <2>5, <2>6
    DEF ReceiverNext, Tick, Begin, AskCursor, Pull, Sift, Rescan, History, Expired, Check,
        Capture,
        Settle, Acknowledge, Toggle, Publish, Expire, Outside, Fault, Crash
<1>. QED BY <1>1, ReceiverInductive, PTL DEF ReceiverSpec, CursorForward
=============================================================================
