-------------------------- MODULE MailImportProofs --------------------------
(***************************************************************************)
(* For every number of messages, faults, deaths, starts and reopenings: an  *)
(* import whose start was not written during a tick has, when it is         *)
(* completed, counted all mail that was there at its start, and unless it   *)
(* was reopened each message once; an import that is held is left alone.    *)
(*                                                                         *)
(* The argument.  What an import has still to do is the rest of the saved   *)
(* page and the mail older than the next token (Rest, Before); everything   *)
(* else that was there at the start is counted or deleted (Ahead), and      *)
(* nothing that is still to do has been counted (Once).  A tick works on a  *)
(* copy of the checkpoint, but advance() writes into the checkpoint of now: *)
(* the two must say the same of the work while the tick goes on (Following).*)
(* They do unless the start of this import was written during a tick        *)
(* (`overlapped`): then only the shapes of things are kept (Typed, Placed), *)
(* until the next start is written while no tick is under way.              *)
(***************************************************************************)
EXTENDS MailImport, FiniteSetTheorems, SequenceTheorems, TLAPS

Ticking == {"scan", "page", "check", "capture", "count", "close"}

\* Two checkpoints with the same work behind and ahead of them.
SameWork(a, b) ==
    /\ a.scope = b.scope /\ a.token = b.token /\ a.paged = b.paged /\ a.ids = b.ids
    /\ a.offset = b.offset /\ a.next = b.next /\ a.processed = b.processed /\ a.kept = b.kept

\* What is behind an import, and what of its mail is ahead of it: the rest of the saved
\* page, and the messages older than a token.
Counted == retained \cup dropped
Settled == Counted \cup deleted
Rest(c) == {c.ids[k] : k \in c.offset + 1 .. Len(c.ids)}
Before(token) == {m \in 1 .. MaxMail : token # NoToken /\ m < token}

Typed ==
    /\ TypeOK
    /\ arrived \in 0 .. MaxMail /\ deleted \subseteq 1 .. arrived
    /\ reopened \in Nat
    /\ page \in [ids : SUBSET (1 .. MaxMail), next : 0 .. MaxMail]
    /\ import.scope <= arrived /\ own.scope <= arrived
    /\ \A c \in {import, own} : \A k \in 1 .. Len(c.ids) : c.ids[k] <= arrived

\* A tick that goes on has in its copy what the checkpoint says.
Following ==
    ~overlapped /\ pc \in Ticking => SameWork(own, import) /\ import.state # "completed"

\* Where the tick is agrees with its copy; a completed import keeps no page and no token.
Placed ==
    /\ pc \in {"scan", "page"} => ~own.paged
    /\ pc \in {"check", "capture", "count", "close"} => own.paged
    /\ pc \in {"check", "capture", "count"} => own.offset < Len(own.ids)
    /\ pc = "close" => Rest(own) = {}
    /\ pc = "count" => page.ids \in {{Current}, {}} /\ page.ids \subseteq evidence
    /\ import.state = "completed" => ~import.paged /\ import.token = NoToken /\ ~import.retry

\* What was there at the start is settled or still ahead.
Ahead ==
    ~overlapped =>
        /\ import.paged
              => 1 .. import.scope \subseteq Settled \cup Rest(import) \cup Before(import.next)
        /\ ~import.paged /\ import.token # NoToken
              => 1 .. import.scope \subseteq Settled \cup Before(import.token)
        /\ pc = "page" => 1 .. import.scope \subseteq Settled \cup page.ids \cup Before(page.next)
        /\ import.state = "completed" => 1 .. import.scope \subseteq Settled

\* What is ahead was not counted, and is there once.
Once ==
    ~overlapped /\ reopened = 0 =>
        /\ CountsOnce
        /\ import.paged =>
              /\ Rest(import) \cap Counted = {}
              /\ \A i, j \in 1 .. Len(import.ids) : import.ids[i] = import.ids[j] => i = j
              /\ Before(import.next) \cap (Counted \cup Rest(import)) = {}
        /\ ~import.paged /\ import.state # "completed" =>
              IF import.token = NoToken THEN Counted = {}
                                        ELSE Before(import.token) \cap Counted = {}
        /\ pc = "page" => /\ page.ids \cap Counted = {}
                          /\ Before(page.next) \cap (Counted \cup page.ids) = {}

IInv == Typed /\ Following /\ Placed /\ Ahead /\ Once

-----------------------------------------------------------------------------

LEMMA Shapes ==
    ASSUME Typed
    PROVE  /\ import \in Checkpoints /\ own \in Checkpoints
           /\ import.ids \in Seq(1 .. MaxMail) /\ own.ids \in Seq(1 .. MaxMail)
           /\ Len(import.ids) \in Nat /\ Len(own.ids) \in Nat
           /\ import.offset \in Nat /\ own.offset \in Nat
           /\ import.scope \in 0 .. MaxMail /\ own.scope \in 0 .. MaxMail /\ arrived \in 0 .. MaxMail
           /\ import.token \in 0 .. MaxMail /\ import.next \in 0 .. MaxMail
           /\ MaxMail \in Nat
<1>1. import \in Checkpoints /\ own \in Checkpoints
  BY DEF Typed, TypeOK
<1>2. import.ids \in Seq(1 .. MaxMail) /\ own.ids \in Seq(1 .. MaxMail)
  BY <1>1 DEF Checkpoints
<1>3. Len(import.ids) \in Nat /\ Len(own.ids) \in Nat
  BY <1>2, LenProperties
<1>. QED BY <1>1, <1>2, <1>3, MailAssumption DEF Checkpoints, Typed

LEMMA BlankIsCheckpoint == Blank \in Checkpoints /\ Blank.ids = <<>> /\ Len(Blank.ids) = 0
<1>1. <<>> \in Seq(1 .. MaxMail) /\ Len(<<>>) = 0
  BY EmptySeq
<1>. QED BY <1>1, MailAssumption DEF Blank, Checkpoints, NoIds, NoToken

\* A step that leaves the work of the import alone: controls, faults, deaths, the
\* clock, the settings, and mail that arrives or is deleted.
Stands ==
    /\ import' \in Checkpoints /\ SameWork(import', import)
    /\ import'.state = "completed" => import.state = "completed"
    /\ import'.retry /\ import'.state = "completed" => import.retry
    /\ UNCHANGED <<evidence, retained, dropped, overlapped>>
    /\ arrived' \in arrived .. MaxMail /\ deleted \subseteq deleted' /\ deleted' \subseteq 1 .. arrived'
    /\ reopened' \in Nat
    /\ reopened' = 0 => reopened = 0 /\ (import.state = "completed" => import'.state = "completed")
    /\ \/ own' = own /\ page' = page /\ pc' \in {pc, "idle", "throwing"}
       \/ own' = own /\ page' = page /\ pc = "check" /\ pc' = "capture"
       \/ own' \in {Blank, import'} /\ page' \in {page, NoPage} /\ pc' \in {"idle", "throwing"}

LEMMA StandsKeeps == ASSUME IInv, Stands PROVE IInv'
<1>. USE DEF IInv, Stands
<1>1. /\ import'.scope = import.scope /\ import'.token = import.token
      /\ import'.paged = import.paged /\ import'.ids = import.ids
      /\ import'.offset = import.offset /\ import'.next = import.next
      /\ import'.processed = import.processed /\ import'.kept = import.kept
  BY DEF SameWork
<1>2. Rest(import') = Rest(import)
  BY <1>1 DEF Rest
<1>3. Counted' = Counted /\ Settled \subseteq Settled'
  BY DEF Counted, Settled
<1>4. \/ own' = own /\ page' = page
      \/ own' \in {Blank, import'} /\ page' \in {page, NoPage} /\ pc' \in {"idle", "throwing"}
  OBVIOUS
<1>5. Typed'
  <2>1. \A k \in 1 .. Len(import'.ids) : import'.ids[k] <= arrived'
    <3>. SUFFICES ASSUME NEW k \in 1 .. Len(import.ids) PROVE import.ids[k] <= arrived'
      BY <1>1
    <3>1. import.ids[k] \in 1 .. MaxMail
      BY Shapes, ElementOfSeq
    <3>2. import.ids[k] <= arrived /\ arrived \in Nat /\ arrived' \in Nat /\ arrived <= arrived'
      BY Shapes DEF Typed
    <3>. QED BY <3>1, <3>2
  <2>2. own' \in Checkpoints /\ \A k \in 1 .. Len(own'.ids) : own'.ids[k] <= arrived'
    <3>1. CASE own' = own
      <4>. SUFFICES ASSUME NEW k \in 1 .. Len(own.ids) PROVE own.ids[k] <= arrived'
        BY <3>1, Shapes
      <4>1. own.ids[k] \in 1 .. MaxMail
        BY Shapes, ElementOfSeq
      <4>2. own.ids[k] <= arrived /\ arrived \in Nat /\ arrived' \in Nat /\ arrived <= arrived'
        BY Shapes DEF Typed
      <4>. QED BY <4>1, <4>2
    <3>2. CASE own' = Blank
      BY <3>2, BlankIsCheckpoint
    <3>3. CASE own' = import'
      BY <2>1, <3>3
    <3>. QED BY <1>4, <3>1, <3>2, <3>3
  <2>8. own'.scope <= arrived'
    <3>1. Blank.scope = 0 /\ 0 <= arrived' /\ import'.scope <= arrived' /\ own.scope <= arrived'
      BY <1>1, Shapes DEF Typed, Blank
    <3>. QED BY <1>4, <3>1
  <2>3. /\ page'.ids \subseteq 1 .. arrived' /\ page'.next \in 0 .. MaxMail
        /\ page' \in [ids : SUBSET (1 .. MaxMail), next : 0 .. MaxMail]
    BY <1>4, Shapes DEF Typed, TypeOK, NoPage, NoToken
  <2>4. pc' \in {"capture", "count"} => own'.offset < Len(own'.ids)
    BY DEF Placed
  <2>5. /\ arrived <= arrived' /\ arrived' \in 0 .. MaxMail
        /\ arrived \in Nat /\ arrived' \in Nat /\ import'.scope <= arrived'
    BY <1>1, Shapes DEF Typed
  <2>6. evidence' \subseteq 1 .. arrived' /\ retained' \cup dropped' \subseteq 1 .. arrived'
    BY <2>5 DEF Typed, TypeOK
  <2>7. pc' \in {"idle", "scan", "page", "check", "capture", "count", "close", "throwing"}
    BY DEF Typed, TypeOK
  <2>. QED BY <2>2, <2>3, <2>4, <2>1, <2>5, <2>6, <2>7, <2>8 DEF Typed, TypeOK
<1>6. Following'
  BY <1>1, <1>4 DEF Following, SameWork, Ticking
<1>7. Placed'
  BY <1>1, <1>4 DEF Placed, Rest, Current
<1>8. Ahead'
  BY <1>1, <1>2, <1>3, <1>4 DEF Ahead, Before, Rest
<1>9. Once'
  BY <1>1, <1>2, <1>3, <1>4 DEF Once, Before, Rest, CountsOnce
<1>. QED BY <1>5, <1>6, <1>7, <1>8, <1>9

LEMMA ControlsStand ==
    ASSUME IInv, AskStart \/ Control \/ Check \/ Throwing \/ Fault \/ Crash \/ RetryDue
                 \/ Toggle \/ Outside
    PROVE  IInv'
<1>0. /\ import \in Checkpoints /\ SameWork(import, import) /\ reopened \in Nat
      /\ arrived \in Nat /\ MaxMail \in Nat /\ arrived <= MaxMail /\ deleted \subseteq 1 .. arrived
  BY Shapes DEF IInv, Typed, SameWork
<1>. USE DEF importVars, mailboxVars, history, process
<1>1. CASE AskStart \/ Fault \/ Crash \/ Toggle \/ Check
  <2>1. UNCHANGED <<import, evidence, retained, dropped, reopened, overlapped, arrived, deleted>>
    BY <1>0, <1>1 DEF AskStart, Fault, Crash, Toggle, Check
  <2>2. \/ own' = own /\ page' = page /\ pc' \in {pc, "idle", "throwing"}
        \/ own' = own /\ page' = page /\ pc = "check" /\ pc' = "capture"
        \/ own' = Blank /\ page' = NoPage /\ pc' \in {"idle", "throwing"}
    BY <1>1 DEF AskStart, Fault, Crash, Toggle, Check
  <2>3. Stands
    BY <1>0, <2>1, <2>2 DEF Stands
  <2>. QED BY <2>3, StandsKeeps
<1>2. CASE Control
  <2>1. import' \in Checkpoints /\ SameWork(import', import)
        /\ (import'.state = "completed" => import.state = "completed")
        /\ (import'.state = "completed" => import' = import)
    BY <1>0, <1>2 DEF Control, Resumed, Checkpoints, SameWork
  <2>2. reopened' \in Nat
        /\ (reopened' = 0 => reopened = 0 /\ (import.state = "completed" => import' = import))
    BY <1>0, <1>2 DEF Control, Resumed
  <2>3. Stands
    BY <1>0, <1>2, <2>1, <2>2 DEF Control, Stands
  <2>. QED BY <2>3, StandsKeeps
<1>3. CASE Throwing
  <2>1. import' \in Checkpoints /\ SameWork(import', import)
        /\ (import' = import \/ (import.state # "completed" /\ import'.state # "completed"))
    BY <1>0, <1>3 DEF Throwing, Active, Running, Checkpoints, SameWork
  <2>2. Stands
    BY <1>0, <1>3, <2>1 DEF Throwing, Stands
  <2>. QED BY <2>2, StandsKeeps
<1>4. CASE RetryDue
  <2>1. import' \in Checkpoints /\ SameWork(import', import)
        /\ import'.state = import.state /\ ~import'.retry
    BY <1>0, <1>4 DEF RetryDue, Checkpoints, SameWork
  <2>2. Stands
    BY <1>0, <1>4, <2>1 DEF RetryDue, Stands
  <2>. QED BY <2>2, StandsKeeps
<1>5. CASE Outside
  <2>1. CASE Arrive
    <3>1. arrived' \in arrived .. MaxMail /\ deleted' = deleted /\ deleted \subseteq 1 .. arrived'
      BY <1>0, <2>1 DEF Arrive
    <3>2. Stands
      BY <1>0, <1>5, <3>1 DEF Outside, Stands
    <3>. QED BY <3>2, StandsKeeps
  <2>2. CASE Delete
    <3>1. PICK m \in (1 .. arrived) \ deleted : deleted' = deleted \cup {m}
      BY <2>2 DEF Delete
    <3>2. arrived' = arrived
      BY <2>2 DEF Delete
    <3>3. Stands
      BY <1>0, <1>5, <3>1, <3>2 DEF Outside, Stands
    <3>. QED BY <3>3, StandsKeeps
  <2>. QED BY <1>5, <2>1, <2>2 DEF Outside
<1>. QED BY <1>1, <1>2, <1>3, <1>4, <1>5

\* A new import has everything ahead of it and counted nothing.  A tick that is under
\* way makes it an overlapped one.
LEMMA WriteStartKeeps == ASSUME IInv, WriteStart PROVE IInv'
<1>. USE DEF IInv, WriteStart, mailboxVars
<1>1. UNCHANGED <<arrived, deleted, evidence, pc, own, page>>
  OBVIOUS
<1>2. CASE UNCHANGED <<import, retained, dropped, reopened, overlapped>>
  <2>1. SameWork(import', import)
    BY <1>2 DEF SameWork
  <2>2. Stands
    BY <1>1, <1>2, <2>1, Shapes DEF Stands, Typed
  <2>. QED BY <2>2, StandsKeeps
<1>3. CASE /\ import' = [Blank EXCEPT !.state = "running", !.scope = arrived]
           /\ retained' = {} /\ dropped' = {} /\ reopened' = 0
           /\ overlapped' = (pc \notin {"idle", "throwing"})
  <2>1. /\ import' \in Checkpoints /\ import'.state = "running" /\ import'.scope = arrived
        /\ ~import'.paged /\ import'.token = NoToken /\ import'.ids = <<>> /\ Len(import'.ids) = 0
        /\ import'.processed = 0 /\ import'.kept = 0
    BY <1>3, BlankIsCheckpoint, Shapes DEF Blank, Checkpoints, NoIds
  <2>2. Typed'
    BY <1>1, <1>3, <2>1, Shapes DEF Typed, TypeOK
  <2>3. Placed'
    BY <1>1, <2>1 DEF Placed, Rest, Current
  <2>4. ~overlapped' => pc' \notin Ticking
    BY <1>1, <1>3 DEF Ticking
  <2>5. Following' /\ Ahead'
    BY <2>1, <2>4 DEF Following, Ahead, Ticking
  <2>6. Once'
    BY <1>3, <2>1, <2>4, FS_EmptySet DEF Once, CountsOnce, Counted, NoToken, Ticking
  <2>. QED BY <2>2, <2>3, <2>5, <2>6
<1>. QED BY <1>2, <1>3

LEMMA RestIsNothing ==
    ASSUME NEW c, c.offset \in Nat, Len(c.ids) \in Nat, ~(c.offset < Len(c.ids))
    PROVE  Rest(c) = {}
BY DEF Rest

LEMMA BeginTickKeeps == ASSUME IInv, BeginTick PROVE IInv'
<1>. USE DEF IInv, BeginTick, mailboxVars, history
<1>1. /\ own' = import /\ import.state # "completed" /\ pc' # "page" /\ pc' # "count"
      /\ pc' \in {"scan", "check", "close"}
      /\ pc' = "scan" <=> ~import.paged
      /\ pc' = "check" => import.offset < Len(import.ids)
      /\ pc' = "close" => ~(import.offset < Len(import.ids))
      /\ UNCHANGED <<arrived, deleted, evidence, import, page, retained, dropped, reopened,
                     overlapped>>
  BY DEF Active, Running, Along
<1>2. Typed'
  BY <1>1 DEF Typed, TypeOK
<1>3. Following'
  BY <1>1 DEF Following, SameWork
<1>4. pc' = "close" => Rest(import) = {}
  BY <1>1, RestIsNothing, Shapes
<1>5. Placed'
  BY <1>1, <1>4 DEF Placed, Rest
<1>6. Ahead'
  BY <1>1 DEF Ahead, Settled, Counted, Rest, Before
<1>7. Once'
  BY <1>1 DEF Once, CountsOnce, Counted, Rest, Before
<1>. QED BY <1>2, <1>3, <1>5, <1>6, <1>7

\* What a page of the listing shows, and what it leaves for the next one.
LEMMA ScanShows ==
    ASSUME arrived \in 0 .. MaxMail, MaxMail \in Nat, deleted \subseteq 1 .. arrived,
           NEW top \in 0 .. arrived, NEW token \in 0 .. MaxMail,
           NEW shown \in ScanPages(top, token)
    PROVE  /\ shown \in [ids : SUBSET (1 .. arrived), next : 0 .. MaxMail]
           /\ Before(shown.next) \cap shown.ids = {}
           /\ token # NoToken => Before(shown.next) \cup shown.ids \subseteq Before(token)
           /\ \A m \in 1 .. top : \/ token # NoToken /\ ~(m < token)
                                  \/ m \in deleted \cup shown.ids \cup Before(shown.next)
<1>. DEFINE below == IF token = NoToken THEN top + 1 ELSE token
            listed(cut) == {m \in (1 .. arrived) \ deleted : cut <= m /\ m < below}
            older(cut) == \E m \in (1 .. arrived) \ deleted : m < cut
<1>1. below \in Nat /\ below <= MaxMail + 1 /\ (token # NoToken => below = token)
      /\ (token = NoToken => below = top + 1)
  OBVIOUS
<1>2. PICK cut \in 1 .. below : /\ cut < below \/ cut = 1
                                /\ shown = [ids |-> listed(cut),
                                            next |-> IF older(cut) THEN cut ELSE NoToken]
  BY DEF ScanPages
<1>3. cut \in Nat /\ cut >= 1 /\ cut <= below
  BY <1>1, <1>2
<1>4. /\ shown.ids = {m \in (1 .. arrived) \ deleted : cut <= m /\ m < below}
      /\ ~older(cut) => shown.next = NoToken
      /\ older(cut) => shown.next = cut
  BY <1>2
<1>. HIDE DEF below, listed
<1>5. older(cut) => cut <= MaxMail
  <2>. SUFFICES ASSUME older(cut), ~(cut <= MaxMail) PROVE FALSE
    BY <1>3
  <2>1. cut = MaxMail + 1 /\ below = MaxMail + 1 /\ top = MaxMail /\ token = NoToken
    BY <1>1, <1>3
  <2>2. cut = 1
    BY <1>2, <2>1
  <2>. QED BY <2>2
<1>6. shown \in [ids : SUBSET (1 .. arrived), next : 0 .. MaxMail]
  <2>1. shown.ids \subseteq 1 .. arrived
    BY <1>4
  <2>2. shown.next \in 0 .. MaxMail
    <3>1. CASE older(cut)
      BY <1>3, <1>4, <1>5, <3>1
    <3>2. CASE ~older(cut)
      BY <1>4, <3>2 DEF NoToken
    <3>. QED BY <3>1, <3>2
  <2>3. shown = [ids |-> shown.ids, next |-> shown.next]
    BY <1>2
  <2>. QED BY <2>1, <2>3, <2>2
<1>7. Before(shown.next) \cap shown.ids = {}
  BY <1>3, <1>4 DEF Before, NoToken
<1>8. ASSUME token # NoToken PROVE Before(shown.next) \cup shown.ids \subseteq Before(token)
  BY <1>1, <1>3, <1>4, <1>8 DEF Before, NoToken
<1>9. ASSUME NEW m \in 1 .. top, ~(token # NoToken /\ ~(m < token)), m \notin deleted,
             m \notin shown.ids
      PROVE  m \in Before(shown.next)
  <2>1. m \in (1 .. arrived) \ deleted /\ m < below /\ m \in 1 .. MaxMail
    BY <1>1, <1>9
  <2>2. m < cut
    BY <1>3, <1>4, <1>9, <2>1
  <2>3. older(cut)
    BY <2>1, <2>2
  <2>4. shown.next = cut /\ cut # NoToken
    BY <1>3, <1>4, <2>3 DEF NoToken
  <2>. QED BY <2>1, <2>2, <2>4 DEF Before
<1>. QED BY <1>6, <1>7, <1>8, <1>9

LEMMA ScanKeeps == ASSUME IInv, Scan PROVE IInv'
<1>. USE DEF IInv, Scan, mailboxVars, history
<1>1. /\ pc' = "page" /\ pc = "scan" /\ ~own.paged
      /\ UNCHANGED <<arrived, deleted, evidence, import, own, retained, dropped, reopened,
                     overlapped>>
  BY DEF Placed
<1>2. /\ own.scope \in 0 .. arrived /\ own.token \in 0 .. MaxMail
      /\ arrived \in 0 .. MaxMail /\ MaxMail \in Nat /\ deleted \subseteq 1 .. arrived
  BY Shapes DEF Typed, Checkpoints
<1>3. PICK shown \in ScanPages(own.scope, own.token) : page' = shown
  BY <1>1
<1>4. /\ shown \in [ids : SUBSET (1 .. arrived), next : 0 .. MaxMail]
      /\ Before(shown.next) \cap shown.ids = {}
      /\ own.token # NoToken => Before(shown.next) \cup shown.ids \subseteq Before(own.token)
      /\ \A m \in 1 .. own.scope :
            \/ own.token # NoToken /\ ~(m < own.token)
            \/ m \in deleted \cup shown.ids \cup Before(shown.next)
  BY <1>2, ScanShows
<1>5. Typed'
  <2>1. page' \in [ids : SUBSET (1 .. MaxMail), next : 0 .. MaxMail]
    BY <1>2, <1>3, <1>4
  <2>. QED BY <1>1, <1>3, <1>4, <2>1 DEF Typed, TypeOK
<1>6. Following' /\ Placed'
  BY <1>1 DEF Following, Placed, SameWork, Ticking
<1>7. ASSUME ~overlapped
      PROVE  /\ ~import.paged /\ own.scope = import.scope /\ own.token = import.token
             /\ import.state # "completed"
  BY <1>1, <1>7 DEF Following, SameWork, Ticking
<1>8. Ahead'
  <2>1. ~overlapped => 1 .. import.scope \subseteq Settled \cup shown.ids \cup Before(shown.next)
    BY <1>1, <1>4, <1>7 DEF Ahead, Settled, Before
  <2>. QED BY <1>1, <1>3, <1>7, <2>1 DEF Ahead, Settled, Counted, Before
<1>9. Once'
  <2>1. ASSUME ~overlapped, reopened = 0
        PROVE  shown.ids \cap Counted = {} /\ Before(shown.next) \cap (Counted \cup shown.ids) = {}
    BY <1>1, <1>4, <1>7, <2>1 DEF Once
  <2>. QED BY <1>1, <1>3, <1>7, <2>1 DEF Once, CountsOnce, Counted, Before
<1>. QED BY <1>5, <1>6, <1>8, <1>9

LEMMA CaptureKeeps == ASSUME IInv, Capture PROVE IInv'
<1>. USE DEF IInv, Capture, mailboxVars, history
<1>1. /\ pc = "capture" /\ own.paged /\ own.offset < Len(own.ids) /\ pc' \in {"count", "throwing"}
      /\ UNCHANGED <<arrived, deleted, import, own, retained, dropped, reopened, overlapped>>
  BY DEF Placed, Go
<1>2. Current \in 1 .. arrived
  <2>1. own.offset + 1 \in 1 .. Len(own.ids)
    BY <1>1, Shapes
  <2>2. own.ids[own.offset + 1] \in 1 .. MaxMail
    BY <2>1, Shapes, ElementOfSeq
  <2>. QED BY <2>1, <2>2, Shapes DEF Typed, Current
<1>3. /\ evidence \subseteq evidence' /\ evidence' \subseteq evidence \cup {Current}
      /\ page' = page \/ page'.ids \in {{Current}, {}}
      /\ pc' = "count" => page'.ids \in {{Current}, {}} /\ page'.ids \subseteq evidence'
      /\ page' = page \/ page' = [page EXCEPT !.ids = page'.ids]
  <2>1. page \in [ids : SUBSET (1 .. MaxMail), next : 0 .. MaxMail]
    BY DEF Typed
  <2>. QED BY <2>1 DEF Go
<1>. HIDE DEF Capture
<1>4. Typed'
  <2>0. /\ page \in [ids : SUBSET (1 .. MaxMail), next : 0 .. MaxMail]
        /\ page.ids \subseteq 1 .. arrived /\ page.next \in 0 .. MaxMail
        /\ arrived \in 0 .. MaxMail /\ MaxMail \in Nat
    BY Shapes DEF Typed, TypeOK
  <2>1. /\ page' \in [ids : SUBSET (1 .. MaxMail), next : 0 .. MaxMail]
        /\ page'.ids \subseteq 1 .. arrived /\ page'.next \in 0 .. MaxMail
    <3>1. page'.ids \subseteq 1 .. arrived
      BY <1>2, <1>3, <2>0
    <3>2. CASE page' = page
      BY <2>0, <3>2
    <3>3. CASE page' = [page EXCEPT !.ids = page'.ids]
      BY <2>0, <3>1, <3>3
    <3>. QED BY <1>3, <3>2, <3>3
  <2>2. evidence' \subseteq 1 .. arrived
    BY <1>2, <1>3 DEF Typed, TypeOK
  <2>. QED BY <1>1, <2>1, <2>2 DEF Typed, TypeOK
<1>5. Following'
  BY <1>1 DEF Following, SameWork, Ticking
<1>6. Ahead'
  <2>1. pc' # "page" /\ Ahead
    BY <1>1
  <2>2. /\ Settled' = Settled /\ (Rest(import))' = Rest(import)
        /\ (Before(import.next))' = Before(import.next)
        /\ (Before(import.token))' = Before(import.token)
    BY <1>1 DEF Settled, Counted, Rest, Before
  <2>. QED BY <1>1, <2>1, <2>2 DEF Ahead
<1>7. Placed'
  BY <1>1, <1>3 DEF Placed, Current, Rest
<1>8. Once'
  BY <1>1, <1>3 DEF Once, CountsOnce, Counted, Rest, Before
<1>. QED BY <1>4, <1>5, <1>7, <1>8, <1>6

LEMMA FiniteBelow ==
    ASSUME NEW n \in Nat, NEW S \in SUBSET (1 .. n)
    PROVE  IsFiniteSet(S) /\ Cardinality(S) \in Nat
<1>1. IsFiniteSet(1 .. n)
  BY FS_Interval
<1>2. IsFiniteSet(S)
  BY <1>1, FS_Subset
<1>. QED BY <1>2, FS_CardinalityType

\* What saving a listed set of messages as a sequence gives.
LEMMA SavedList ==
    ASSUME MaxMail \in Nat, NEW S \in SUBSET (1 .. MaxMail),
           NEW ids \in Bijection(1 .. Cardinality(S), S)
    PROVE  /\ ids \in Seq(1 .. MaxMail) /\ Len(ids) \in Nat
           /\ {ids[k] : k \in 1 .. Len(ids)} = S
           /\ \A i, j \in 1 .. Len(ids) : ids[i] = ids[j] => i = j
<1>1. IsFiniteSet(S) /\ Cardinality(S) \in Nat
  BY FiniteBelow
<1>2. PICK n \in Nat : n = Cardinality(S)
  BY <1>1
<1>3. /\ ids \in [1 .. n -> S] /\ \A t \in S : \E k \in 1 .. n : ids[k] = t
      /\ \A i, j \in 1 .. n : ids[i] = ids[j] => i = j
  BY <1>2 DEF Bijection, Injection, Surjection, IsInjective
<1>4. ids \in [1 .. n -> 1 .. MaxMail]
  BY <1>3
<1>5. ids \in Seq(1 .. MaxMail)
  BY <1>4, SeqDef
<1>6. Len(ids) \in Nat /\ DOMAIN ids = 1 .. Len(ids)
  BY <1>5, LenProperties
<1>7. Len(ids) = n
  BY <1>2, <1>4, <1>6
<1>8. {ids[k] : k \in 1 .. n} = S
  <2>1. \A k \in 1 .. n : ids[k] \in S
    BY <1>3
  <2>2. {ids[k] : k \in 1 .. n} \subseteq S
    BY <2>1
  <2>3. S \subseteq {ids[k] : k \in 1 .. n}
    <3>. SUFFICES ASSUME NEW t \in S PROVE \E k \in 1 .. n : t = ids[k]
      OBVIOUS
    <3>. QED BY <1>3
  <2>. QED BY <2>2, <2>3
<1>. QED BY <1>3, <1>5, <1>6, <1>7, <1>8

\* advance() refused: the checkpoint stands, and the tick is over.
LEMMA RefusedKeeps ==
    ASSUME IInv, UNCHANGED <<mailboxVars, evidence, import, retained, dropped, reopened, overlapped>>,
           own' \in {Blank, import'}, page' \in {page, NoPage}, pc' = "throwing"
    PROVE  IInv'
<1>1. SameWork(import', import) /\ import' = import
  BY DEF SameWork
<1>2. Stands
  BY <1>1, Shapes DEF Stands, IInv, Typed, mailboxVars
<1>. QED BY <1>2, StandsKeeps

\* A page saved: what was listed is the rest of the page, what was not yet is Before(next).
LEMMA SavePageKeeps == ASSUME IInv, SavePage PROVE IInv'
<1>. USE DEF IInv, mailboxVars, history
<1>1. /\ pc = "page" /\ own' = import' /\ page' = NoPage
      /\ UNCHANGED <<arrived, deleted, evidence, retained, dropped, reopened, overlapped>>
  BY DEF SavePage
<1>2. PICK ids \in Bijection(1 .. Cardinality(page.ids), page.ids) :
         Advance([import EXCEPT !.paged = TRUE, !.ids = ids, !.offset = 0, !.next = page.next,
                                !.state = "running", !.retry = FALSE], Along(import'))
  BY DEF SavePage
<1>3. CASE ~(Active /\ enabled)
  <2>1. pc' = "throwing" /\ import' = import
    BY <1>2, <1>3 DEF Advance
  <2>. QED BY <1>1, <2>1, RefusedKeeps
<1>4. CASE Active /\ enabled
  <2>1. /\ import' = [import EXCEPT !.paged = TRUE, !.ids = ids, !.offset = 0, !.next = page.next,
                                    !.state = "running", !.retry = FALSE]
        /\ pc' \in {Along(import'), "throwing"}
    BY <1>2, <1>4 DEF Advance, Go
  <2>2. MaxMail \in Nat /\ page.ids \in SUBSET (1 .. MaxMail) /\ page.next \in 0 .. MaxMail
        /\ page.ids \subseteq 1 .. arrived /\ arrived \in 0 .. MaxMail
    BY Shapes DEF Typed, TypeOK
  <2>3. /\ ids \in Seq(1 .. MaxMail) /\ Len(ids) \in Nat
        /\ {ids[k] : k \in 1 .. Len(ids)} = page.ids
        /\ \A i, j \in 1 .. Len(ids) : ids[i] = ids[j] => i = j
    BY <2>2, SavedList
  <2>4. /\ import'.paged /\ import'.ids = ids /\ import'.offset = 0 /\ import'.next = page.next
        /\ import'.state = "running" /\ import'.scope = import.scope /\ ~import'.retry
        /\ import'.processed = import.processed /\ import'.kept = import.kept
        /\ import' \in Checkpoints
    BY <2>1, <2>2, <2>3, Shapes DEF Checkpoints
  <2>. HIDE DEF IInv
  <2>5. Rest(import') = page.ids
    BY <2>3, <2>4 DEF Rest
  <2>6. /\ pc' \in {"check", "close", "throwing"}
        /\ pc' = "check" => import'.offset < Len(import'.ids)
        /\ pc' = "close" => Rest(import') = {}
    <3>1. ~(import'.offset < Len(import'.ids)) => Rest(import') = {}
      BY <2>3, <2>4, RestIsNothing
    <3>. QED BY <2>1, <3>1 DEF Along
  <2>7. Typed'
    <3>1. \A k \in 1 .. Len(ids) : ids[k] <= arrived
      BY <2>2, <2>3
    <3>2. /\ NoPage \in [ids : SUBSET (1 .. MaxMail), next : 0 .. MaxMail]
          /\ NoPage.ids = {} /\ NoPage.next \in 0 .. MaxMail
      BY <2>2 DEF NoPage, NoToken
    <3>. QED BY <1>1, <2>2, <2>4, <2>6, <3>1, <3>2 DEF IInv, Typed, TypeOK
  <2>8. Following'
    BY <1>1, <2>4, <2>6 DEF IInv, Following, SameWork, Ticking
  <2>9. Placed'
    BY <1>1, <2>4, <2>6 DEF Placed, Rest
  <2>10. Ahead'
    <3>. SUFFICES ASSUME ~overlapped PROVE Ahead'
      BY <1>1 DEF Ahead
    <3>1. 1 .. import.scope \subseteq Settled \cup page.ids \cup Before(page.next)
      BY <1>1 DEF IInv, Ahead
    <3>2. Settled' = Settled /\ Before(import'.next) = Before(page.next)
      BY <1>1, <2>4 DEF Settled, Counted
    <3>3. (Before(import.next))' = Before(import'.next) /\ (Rest(import))' = Rest(import')
      BY DEF Before, Rest
    <3>. QED BY <2>4, <2>5, <2>6, <3>1, <3>2, <3>3 DEF Ahead
  <2>11. Once'
    <3>. SUFFICES ASSUME ~overlapped, reopened = 0 PROVE Once'
      BY <1>1 DEF Once
    <3>1. /\ CountsOnce /\ page.ids \cap Counted = {}
          /\ Before(page.next) \cap (Counted \cup page.ids) = {}
      BY <1>1 DEF IInv, Once
    <3>2. Counted' = Counted /\ (Before(import.next))' = Before(page.next)
          /\ (Rest(import))' = page.ids
      BY <1>1, <2>4, <2>5 DEF Counted, Before, Rest
    <3>3. CountsOnce'
      BY <1>1, <2>4, <3>1 DEF CountsOnce
    <3>. QED BY <2>3, <2>4, <2>6, <3>1, <3>2, <3>3 DEF Once
  <2>. QED BY <2>7, <2>8, <2>9, <2>10, <2>11 DEF IInv
<1>. QED BY <1>3, <1>4

\* A page closed: everything still to do is before the next token, or nothing is.
LEMMA CloseKeeps == ASSUME IInv, Close PROVE IInv'
<1>1. /\ pc = "close" /\ own' = Blank /\ page' = NoPage
      /\ UNCHANGED <<arrived, deleted, evidence, retained, dropped, reopened, overlapped>>
      /\ ~overlapped => import.paged /\ Rest(import) = {} /\ import.state # "completed"
  BY DEF IInv, Close, Placed, Following, SameWork, Ticking, mailboxVars, history, Rest
<1>2. CASE ~(Active /\ enabled)
  <2>1. pc' = "throwing" /\ import' = import
    BY <1>2 DEF Close, Advance
  <2>. QED BY <1>1, <2>1, RefusedKeeps DEF mailboxVars
<1>3. CASE Active /\ enabled
  <2>1. /\ import' = [import EXCEPT !.state = IF import.next = NoToken THEN "completed" ELSE "running",
                                    !.token = import.next, !.paged = FALSE, !.ids = NoIds, !.offset = 0,
                                    !.next = NoToken, !.retry = FALSE]
        /\ pc' \in {"idle", "throwing"}
    BY <1>3 DEF Close, Advance, Go
  <2>2. /\ import'.state = IF import.next = NoToken THEN "completed" ELSE "running"
        /\ import'.token = import.next /\ ~import'.paged /\ import'.ids = <<>> /\ ~import'.retry
        /\ import'.scope = import.scope /\ import'.processed = import.processed
        /\ import'.kept = import.kept /\ import' \in Checkpoints
    <3>1. import \in Checkpoints /\ MaxMail \in Nat
      BY Shapes DEF IInv
    <3>2. <<>> \in Seq(1 .. MaxMail)
      BY EmptySeq
    <3>3. PICK state \in {"completed", "running"} :
             state = IF import.next = NoToken THEN "completed" ELSE "running"
      OBVIOUS
    <3>4. import' = [import EXCEPT !.state = state, !.token = import.next, !.paged = FALSE,
                                   !.ids = <<>>, !.offset = 0, !.next = 0, !.retry = FALSE]
      BY <2>1, <3>3 DEF NoIds, NoToken
    <3>5. import' \in Checkpoints
      <4>1. import.next \in 0 .. MaxMail /\ 0 \in 0 .. MaxMail /\ 0 \in Nat
        BY <3>1 DEF Checkpoints
      <4>2. PICK c : c = [import EXCEPT !.state = state, !.token = import.next, !.paged = FALSE]
        OBVIOUS
      <4>3. c \in Checkpoints
        BY <3>1, <4>1, <4>2 DEF Checkpoints
      <4>4. import' = [c EXCEPT !.ids = <<>>, !.offset = 0, !.next = 0, !.retry = FALSE]
        BY <3>1, <3>4, <4>2, <4>3 DEF Checkpoints
      <4>. QED BY <3>2, <4>1, <4>3, <4>4 DEF Checkpoints
    <3>. QED BY <3>1, <3>3, <3>4, <3>5 DEF Checkpoints
  <2>3. Typed'
    <3>1. own'.scope = 0 /\ 0 <= arrived
      BY <1>1, Shapes DEF IInv, Blank
    <3>. QED BY <1>1, <2>1, <2>2, <3>1, BlankIsCheckpoint, Shapes
           DEF IInv, Typed, TypeOK, NoPage, NoToken
  <2>4. Following' /\ Placed'
    BY <1>1, <2>1, <2>2 DEF Following, Placed, Ticking, NoToken
  <2>5. (Before(import.token))' = Before(import.next) /\ Settled' = Settled /\ Counted' = Counted
    BY <1>1, <2>2 DEF Before, Settled, Counted
  <2>6. Ahead'
    <3>. SUFFICES ASSUME ~overlapped PROVE Ahead'
      BY <1>1 DEF Ahead
    <3>1. 1 .. import.scope \subseteq Settled \cup Before(import.next)
      BY <1>1 DEF IInv, Ahead
    <3>2. import.next = NoToken => Before(import.next) = {}
      BY DEF Before
    <3>. QED BY <2>1, <2>2, <2>5, <3>1, <3>2 DEF Ahead
  <2>7. Once'
    <3>. SUFFICES ASSUME ~overlapped, reopened = 0 PROVE Once'
      BY <1>1 DEF Once
    <3>1. CountsOnce /\ Before(import.next) \cap Counted = {}
      BY <1>1 DEF IInv, Once
    <3>2. CountsOnce'
      BY <1>1, <2>2, <3>1 DEF CountsOnce
    <3>. QED BY <2>1, <2>2, <2>5, <3>1, <3>2 DEF Once
  <2>. QED BY <2>3, <2>4, <2>6, <2>7 DEF IInv
<1>. QED BY <1>2, <1>3

\* The message that is counted leaves the rest of the page and joins the counted ones.
LEMMA CountKeeps == ASSUME IInv, Count PROVE IInv'
<1>1. /\ pc = "count" /\ own' = import' /\ page' = NoPage /\ own.offset < Len(own.ids)
      /\ page.ids \in {{Current}, {}} /\ page.ids \subseteq evidence
      /\ UNCHANGED <<arrived, deleted, evidence, reopened, overlapped>>
      /\ ~overlapped => /\ import.paged /\ own.ids = import.ids /\ own.offset = import.offset
                        /\ import.offset < Len(import.ids)
                        /\ Current = import.ids[import.offset + 1]
  BY DEF IInv, Count, Placed, Following, SameWork, Ticking, mailboxVars, Current
<1>2. CASE ~(Active /\ enabled)
  <2>1. pc' = "throwing" /\ import' = import /\ UNCHANGED <<retained, dropped>>
    BY <1>2 DEF Count, Advance
  <2>. QED BY <1>1, <2>1, RefusedKeeps DEF mailboxVars
<1>3. CASE Active /\ enabled
  <2>1. /\ import' = [import EXCEPT !.state = "running", !.retry = FALSE, !.offset = own.offset + 1,
                                    !.processed = @ + 1, !.kept = @ + Cardinality(page.ids)]
        /\ pc' \in {Further(import'), "throwing"}
        /\ retained' = retained \cup page.ids
        /\ dropped' = IF page.ids = {} THEN dropped \cup {Current} ELSE dropped
    BY <1>3 DEF Count, Advance, Go
  <2>2. Cardinality(page.ids) \in Nat
        /\ Cardinality(page.ids) = IF page.ids = {} THEN 0 ELSE 1
    <3>1. CASE page.ids = {}
      BY <3>1, FS_EmptySet
    <3>2. CASE page.ids = {Current}
      <4>1. Cardinality({Current}) = 1
        BY FS_Singleton
      <4>. QED BY <3>2, <4>1
    <3>. QED BY <1>1, <3>1, <3>2
  <2>3. /\ import'.state = "running" /\ ~import'.retry /\ import'.offset = own.offset + 1
        /\ import'.paged = import.paged /\ import'.ids = import.ids /\ import'.next = import.next
        /\ import'.token = import.token /\ import'.scope = import.scope
        /\ import'.processed = import.processed + 1
        /\ import'.kept = import.kept + Cardinality(page.ids)
        /\ import' \in Checkpoints
    <3>1. import \in Checkpoints /\ own.offset \in Nat
      BY Shapes DEF IInv
    <3>2. PICK c \in Nat : c = Cardinality(page.ids)
      BY <2>2
    <3>3. import' = [import EXCEPT !.state = "running", !.retry = FALSE, !.offset = own.offset + 1,
                                   !.processed = @ + 1, !.kept = @ + c]
      BY <2>1, <3>2
    <3>4. import' \in Checkpoints
      <4>1. import.processed + 1 \in Nat /\ import.kept + c \in Nat /\ own.offset + 1 \in Nat
        BY <3>1, <3>2 DEF Checkpoints
      <4>2. PICK c1 : c1 = [import EXCEPT !.state = "running", !.retry = FALSE,
                                          !.offset = own.offset + 1]
        OBVIOUS
      <4>3. c1 \in Checkpoints /\ c1.processed = import.processed /\ c1.kept = import.kept
        BY <3>1, <4>1, <4>2 DEF Checkpoints
      <4>4. PICK p \in Nat, k \in Nat : p = import.processed + 1 /\ k = import.kept + c
        BY <4>1
      <4>5. import' = [c1 EXCEPT !.processed = p, !.kept = k]
        BY <3>1, <3>3, <4>2, <4>3, <4>4 DEF Checkpoints
      <4>. QED BY <4>3, <4>5 DEF Checkpoints
    <3>5. /\ import'.state = "running" /\ import'.retry = FALSE /\ import'.offset = own.offset + 1
          /\ import'.paged = import.paged /\ import'.ids = import.ids /\ import'.next = import.next
          /\ import'.token = import.token /\ import'.scope = import.scope
      BY <3>1, <3>3 DEF Checkpoints
    <3>6. import'.processed = import.processed + 1 /\ import'.kept = import.kept + c
      BY <3>1, <3>3 DEF Checkpoints
    <3>. QED BY <1>1, <3>2, <3>4, <3>5, <3>6
  <2>4. /\ own.offset + 1 \in 1 .. Len(own.ids) /\ own.offset \in Nat /\ Len(own.ids) \in Nat
        /\ Len(import'.ids) \in Nat /\ import'.offset \in Nat
    BY <1>1, <2>3, Shapes DEF IInv
  <2>5. Current \in 1 .. arrived
    <3>1. own.ids[own.offset + 1] \in 1 .. MaxMail
      BY <2>4, Shapes, ElementOfSeq DEF IInv
    <3>2. Current <= arrived
      BY <2>4 DEF IInv, Typed, Current
    <3>. QED BY <3>1, <3>2, Shapes DEF Current, IInv
  <2>6. ~overlapped => Rest(import) = {Current} \cup Rest(import')
    <3>. SUFFICES ASSUME ~overlapped PROVE Rest(import) = {Current} \cup Rest(import')
      OBVIOUS
    <3>1. \A k : k \in import.offset + 1 .. Len(import.ids)
                    <=> k = import.offset + 1 \/ k \in import'.offset + 1 .. Len(import'.ids)
      BY <1>1, <2>3, <2>4
    <3>. QED BY <1>1, <2>3, <3>1 DEF Rest
  <2>7. Counted' = Counted \cup {Current} /\ Settled' = Settled \cup {Current}
    BY <1>1, <2>1 DEF Counted, Settled
  <2>8. /\ pc' \in {"check", "close", "throwing"}
        /\ pc' \in {"check", "close"} => import'.paged
        /\ pc' = "check" => import'.offset < Len(import'.ids)
        /\ pc' = "close" => Rest(import') = {}
    <3>1. ~(import'.offset < Len(import'.ids)) => Rest(import') = {}
      BY <2>4, RestIsNothing
    <3>. QED BY <2>1, <2>3, <3>1 DEF Along, Further
  <2>9. Typed'
    <3>1. retained' \cup dropped' \subseteq 1 .. arrived
      BY <2>5, <2>7 DEF IInv, Typed, TypeOK, Counted
    <3>2. import'.scope <= arrived /\ \A k \in 1 .. Len(import'.ids) : import'.ids[k] <= arrived
      BY <2>3 DEF IInv, Typed
    <3>3. /\ NoPage \in [ids : SUBSET (1 .. MaxMail), next : 0 .. MaxMail]
          /\ NoPage.ids = {} /\ NoPage.next \in 0 .. MaxMail
      BY Shapes DEF IInv, NoPage, NoToken
    <3>. QED BY <1>1, <2>3, <2>8, <3>1, <3>2, <3>3 DEF IInv, Typed, TypeOK
  <2>10. Following'
    BY <1>1, <2>3, <2>8 DEF Following, SameWork, Ticking
  <2>11. Placed'
    <3>1. (Rest(own))' = Rest(import')
      BY <1>1 DEF Rest
    <3>. QED BY <1>1, <2>3, <2>8, <3>1 DEF Placed
  <2>12. (Before(import.next))' = Before(import.next) /\ (Rest(import))' = Rest(import')
    BY <2>3 DEF Before, Rest
  <2>13. Ahead'
    <3>. SUFFICES ASSUME ~overlapped PROVE Ahead'
      BY <1>1 DEF Ahead
    <3>1. 1 .. import.scope \subseteq Settled \cup Rest(import) \cup Before(import.next)
      BY <1>1 DEF IInv, Ahead
    <3>. QED BY <1>1, <2>3, <2>6, <2>7, <2>8, <2>12, <3>1 DEF Ahead
  <2>14. Once'
    <3>. SUFFICES ASSUME ~overlapped, reopened = 0 PROVE Once'
      BY <1>1 DEF Once
    <3>1. /\ CountsOnce /\ Rest(import) \cap Counted = {}
          /\ \A i, j \in 1 .. Len(import.ids) : import.ids[i] = import.ids[j] => i = j
          /\ Before(import.next) \cap (Counted \cup Rest(import)) = {}
      BY <1>1 DEF IInv, Once
    <3>2. Current \notin Rest(import') /\ Current \in Rest(import)
      <4>1. import.offset + 1 \in import.offset + 1 .. Len(import.ids)
        BY <1>1, <2>4
      <4>2. Current \in Rest(import)
        BY <1>1, <4>1 DEF Rest
      <4>. QED BY <1>1, <2>3, <2>4, <3>1, <4>2 DEF Rest
    <3>3. CountsOnce'
      <4>1. IsFiniteSet(Counted) /\ IsFiniteSet(retained)
        <5>1. Counted \in SUBSET (1 .. arrived) /\ retained \in SUBSET (1 .. arrived) /\ arrived \in Nat
          BY Shapes DEF IInv, Typed, TypeOK, Counted
        <5>. QED BY <5>1, FiniteBelow
      <4>2. Current \notin Counted /\ Current \notin retained
        BY <3>1, <3>2 DEF Counted
      <4>3. Cardinality(Counted \cup {Current}) = Cardinality(Counted) + 1
        BY <4>1, <4>2, FS_AddElement
      <4>4. Cardinality(retained \cup page.ids) = Cardinality(retained) + Cardinality(page.ids)
        <5>1. CASE page.ids = {Current}
          BY <2>2, <4>1, <4>2, <5>1, FS_AddElement
        <5>2. CASE page.ids = {}
          <6>1. retained \cup page.ids = retained /\ Cardinality(retained) \in Nat
            BY <4>1, <5>2, FS_CardinalityType
          <6>. QED BY <2>2, <5>2, <6>1
        <5>. QED BY <1>1, <5>1, <5>2
      <4>. QED BY <1>1, <2>1, <2>3, <2>7, <3>1, <4>3, <4>4 DEF CountsOnce, Counted
    <3>. QED BY <1>1, <2>3, <2>5, <2>6, <2>7, <2>8, <2>12, <3>1, <3>2, <3>3 DEF Once
  <2>. QED BY <2>9, <2>10, <2>11, <2>13, <2>14 DEF IInv
<1>. QED BY <1>2, <1>3

\* Nothing is ahead of an import that was never started.
LEMMA InitKeeps == ASSUME ImportInit PROVE IInv
<1>. USE DEF ImportInit
<1>1. /\ import = Blank /\ own = Blank /\ Blank \in Checkpoints /\ Len(Blank.ids) = 0
      /\ ~Blank.paged /\ Blank.token = NoToken /\ Blank.state = "none" /\ Blank.scope = 0
      /\ Blank.processed = 0 /\ Blank.kept = 0 /\ MaxMail \in Nat
  BY BlankIsCheckpoint, MailAssumption DEF Blank
<1>2. Typed
  <2>1. /\ arrived \in 0 .. MaxMail /\ 0 <= arrived /\ import.scope = 0 /\ own.scope = 0
        /\ \A c \in {import, own} : Len(c.ids) = 0
    BY <1>1
  <2>2. \A c \in {import, own} : \A k \in 1 .. Len(c.ids) : c.ids[k] <= arrived
    BY <2>1
  <2>3. /\ page = [ids |-> {}, next |-> 0] /\ 0 \in 0 .. MaxMail
        /\ page \in [ids : SUBSET (1 .. MaxMail), next : 0 .. MaxMail]
    BY <1>1 DEF NoPage, NoToken
  <2>4. TypeOK
    <3>1. import \in Checkpoints /\ own \in Checkpoints
      BY <1>1
    <3>2. /\ evidence = {} /\ retained = {} /\ dropped = {} /\ pc = "idle" /\ overlapped = FALSE
          /\ page.ids = {} /\ page.next = 0
      BY <2>3
    <3>. HIDE DEF ImportInit
    <3>. QED BY <2>3, <3>1, <3>2 DEF TypeOK
  <2>5. deleted \subseteq 1 .. arrived /\ reopened \in Nat
    OBVIOUS
  <2>. HIDE DEF ImportInit
  <2>. QED BY <2>1, <2>2, <2>3, <2>4, <2>5 DEF Typed
<1>3. Following /\ Placed /\ Ahead
  BY <1>1 DEF Following, Placed, Ahead, Ticking
<1>4. Once
  BY <1>1, FS_EmptySet DEF Once, CountsOnce, Counted
<1>. QED BY <1>2, <1>3, <1>4 DEF IInv

LEMMA NextKeeps == ASSUME IInv, [ImportNext]_importVars PROVE IInv'
<1>1. CASE WriteStart
  BY <1>1, WriteStartKeeps
<1>2. CASE AskStart \/ Control \/ Check \/ Throwing \/ Fault \/ Crash \/ RetryDue \/ Toggle \/ Outside
  BY <1>2, ControlsStand
<1>3. CASE BeginTick
  BY <1>3, BeginTickKeeps
<1>4. CASE Scan
  BY <1>4, ScanKeeps
<1>5. CASE SavePage
  BY <1>5, SavePageKeeps
<1>6. CASE Capture
  BY <1>6, CaptureKeeps
<1>7. CASE Count
  BY <1>7, CountKeeps
<1>8. CASE Close
  BY <1>8, CloseKeeps
<1>9. CASE UNCHANGED importVars
  <2>1. /\ UNCHANGED <<arrived, deleted, evidence, import, pc, own, page,
                       retained, dropped, reopened, overlapped>>
        /\ SameWork(import', import)
    BY <1>9 DEF importVars, mailboxVars, SameWork
  <2>2. Stands
    BY <2>1, Shapes DEF Stands, IInv, Typed
  <2>. QED BY <2>2, StandsKeeps
<1>. QED BY <1>1, <1>2, <1>3, <1>4, <1>5, <1>6, <1>7, <1>8, <1>9 DEF ImportNext, Tick

\* What tick(), the controls and everything around them keep, a start that is written
\* during a tick included.
THEOREM ImportInvariance == ImportSpec => []IInv
<1>1. IInv /\ [ImportNext]_importVars => IInv'
  BY NextKeeps
<1>. QED BY <1>1, InitKeeps, PTL DEF ImportSpec

-----------------------------------------------------------------------------
(* What the invariant says of the import                                    *)
-----------------------------------------------------------------------------

\* The checkpoint, the tick's copy of it and the page keep the shape that tick() of
\* mailHistory.js relies on, whatever is written under way.
THEOREM ImportIsTyped == ImportSpec => []TypeOK
<1>1. IInv => TypeOK
  BY DEF IInv, Typed
<1>. QED BY <1>1, ImportInvariance, PTL

\* An import that the checkpoint calls completed has counted every message that was in
\* the mailbox at its start and was not deleted since, unless its start was written
\* while a tick of the import before was under way.
THEOREM CompletedImportCoversTheStart == ImportSpec => []CompletedImportIsWhole
<1>1. IInv => CompletedImportIsWhole
  BY DEF IInv, Ahead, CompletedImportIsWhole, ReportedImportIsWhole, Settled, Counted
<1>. QED BY <1>1, ImportInvariance, PTL

\* Captures that are repeated after a throw or a death are counted once: `processed`
\* and `retained` of the checkpoint are numbers of distinct messages.  That is not so of
\* an import whose start was written during a tick, nor of one that was paused or
\* cancelled after it had completed and then resumed: messages are counted again.
THEOREM ImportCountsOnce == ImportSpec => []CoverageIsReal
<1>1. IInv => CoverageIsReal
  BY DEF IInv, Once, CoverageIsReal
<1>. QED BY <1>1, ImportInvariance, PTL

\* What a tick still does to an import that the Owner has paused or cancelled: nothing.
\* advance() and the catch block ask for the state of now; even a start that is written
\* during the tick replaces the checkpoint as a whole.
THEOREM HeldImportIsLeftAlone == ImportSpec => HeldImportStands
<1>. DEFINE Held == import.state \in {"paused", "cancelled"}
            Row == /\ import = [field \in DOMAIN import |-> import[field]]
                   /\ {"state", "retry"} \subseteq DOMAIN import
                   /\ Held => import.retry = FALSE
            Left == \/ import' = [import EXCEPT !.state = import'.state, !.retry = FALSE]
                    \/ import' = [Blank EXCEPT !.state = "running", !.scope = arrived]
<1>1. ImportInit => Row
  BY DEF ImportInit, Blank
<1>2. ASSUME Row, [ImportNext]_importVars PROVE Row' /\ (Held => Left)
  <2>. USE <1>2
  <2>1. CASE WriteStart
    <3>1. import' \in {import, [Blank EXCEPT !.state = "running", !.scope = arrived]}
      BY <2>1 DEF WriteStart
    <3>2. CASE import' = import
      BY <3>2
    <3>3. CASE import' = [Blank EXCEPT !.state = "running", !.scope = arrived]
      BY <3>3 DEF Blank
    <3>. QED BY <3>1, <3>2, <3>3
  <2>2. CASE Control
    <3>1. \/ import' = import /\ import.state = "completed"
          \/ \E state \in {"running", "paused", "cancelled"} :
                import' = [import EXCEPT !.state = state, !.retry = FALSE]
      BY <2>2 DEF Control, Resumed
    <3>. QED BY <3>1
  <2>3. ASSUME NEW change, NEW next, Advance(change, next), change.state \notin {"paused", "cancelled"},
               change = [field \in DOMAIN change |-> change[field]],
               {"state", "retry"} \subseteq DOMAIN change
        PROVE  Row' /\ (Held => Left)
    <3>1. import' = import \/ (~Held /\ import' = change)
      BY <2>3 DEF Advance, Active, Running
    <3>. QED BY <2>3, <3>1
  <2>4. CASE SavePage
    <3>1. PICK ids : Advance([import EXCEPT !.paged = TRUE, !.ids = ids, !.offset = 0,
                                            !.next = page.next, !.state = "running",
                                            !.retry = FALSE], Along(import'))
      BY <2>4 DEF SavePage
    <3>. QED BY <2>3, <3>1
  <2>5. CASE Count
    <3>1. Advance([import EXCEPT !.state = "running", !.retry = FALSE, !.offset = own.offset + 1,
                                 !.processed = @ + 1, !.kept = @ + Cardinality(page.ids)],
                  Further(import'))
      BY <2>5 DEF Count
    <3>. QED BY <2>3, <3>1
  <2>6. CASE Close
    <3>1. PICK state \in {"completed", "running"} :
             Advance([import EXCEPT !.state = state, !.token = import.next, !.paged = FALSE,
                                    !.ids = NoIds, !.offset = 0, !.next = NoToken,
                                    !.retry = FALSE], "idle")
      BY <2>6 DEF Close
    <3>. QED BY <2>3, <3>1
  <2>7. CASE Throwing
    <3>1. \/ import' = import
          \/ ~Held /\ import' = [import EXCEPT !.state = "failed", !.retry = TRUE]
      BY <2>7 DEF Throwing, Active, Running
    <3>. QED BY <3>1
  <2>8. CASE RetryDue
    BY <2>8 DEF RetryDue
  <2>9. CASE UNCHANGED import
    BY <2>9
  <2>10. ASSUME AskStart \/ BeginTick \/ Scan \/ Check \/ Capture \/ Fault \/ Crash \/ Toggle
                \/ Outside \/ UNCHANGED importVars
         PROVE  UNCHANGED import
    BY <2>10 DEF AskStart, BeginTick, Scan, Check, Capture, Fault, Crash, Toggle, Outside, importVars
  <2>. QED
    BY <2>1, <2>2, <2>4, <2>5, <2>6, <2>7, <2>8, <2>9, <2>10 DEF ImportNext, Tick
<1>3. Row /\ [ImportNext]_importVars => Row' /\ [Held => Left]_importVars
  BY <1>2
<1>. HIDE DEF Row
<1>. QED BY <1>1, <1>3, PTL DEF ImportSpec, HeldImportStands
=============================================================================
