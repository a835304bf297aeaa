----------------------------- MODULE MailImport -----------------------------
(* The import of the whole administrative mailbox: createMailHistory of      *)
(* src/company/mailHistory.js.  A checkpoint row in the structured store     *)
(* holds the import; a tick every two seconds lists a page, captures its     *)
(* messages one by one and advances the checkpoint after each of them; the   *)
(* Owner starts, pauses, resumes and cancels the import meanwhile.  The      *)
(* store is another process, so every read and write of it is an await.      *)
EXTENDS Mailbox, Sequences, Functions

CONSTANTS
    MaxFaults,  \* bound on thrown calls: the source, the store, a lost lease
    MaxCrashes, \* bound on deaths of the process
    MaxStarts,  \* bound on imports the Owner starts
    MaxReopens  \* bound on pauses and cancels of a completed import

ASSUME ImportAssumption == {MaxFaults, MaxCrashes, MaxStarts, MaxReopens} \subseteq Nat

VARIABLES
    \* the structured store
    evidence, \* the messages captured
    import,   \* the checkpoint row
    \* the process
    enabled,  \* memory.enabled()
    asked,    \* a start passed its busy test and its write is on the way
    pc,       \* where the tick is; "idle" is ~busy
    own,      \* its local s: the checkpoint as it last read or wrote it
    page,     \* what it last listed, or the outcome of its last capture
    \* history
    retained, \* the messages the current import counted as retained
    dropped,  \* and those it counted as excluded
    reopened, \* how often it was paused or cancelled after it had completed
    overlapped, \* whether its start was written while a tick was under way
    faults, crashes, starts

importVars == <<mailboxVars, evidence, import, enabled, asked, pc, own, page,
                retained, dropped, reopened, overlapped, faults, crashes, starts>>

NoIds == <<>>   \* pageIds: null; `paged` tells it from an empty page

Blank == [state |-> "none", scope |-> 0, token |-> NoToken, paged |-> FALSE, ids |-> NoIds,
          offset |-> 0, next |-> NoToken, processed |-> 0, kept |-> 0, retry |-> FALSE]
NoPage == [ids |-> {}, next |-> NoToken]

\* Mutant: a tick does not take up an import that failed.
RunningUnfailed == {"running"}

Running == {"running", "failed"}

Active == import.state \in Running   \* what active() and advance() ask

ImportInit ==
    /\ arrived \in 0 .. MaxMail /\ deleted = {}
    /\ evidence = {} /\ import = Blank
    /\ enabled = TRUE /\ asked = FALSE /\ pc = "idle" /\ own = Blank /\ page = NoPage
    /\ retained = {} /\ dropped = {} /\ reopened = 0 /\ overlapped = FALSE
    /\ faults = 0 /\ crashes = 0 /\ starts = 0

history == <<retained, dropped, reopened, overlapped, starts>>
process == <<asked, pc, own, page>>

(* A call of the tick goes on at `next`, or its answer is lost and it throws *)
(* although the call had its effect.                                         *)
Go(next) ==
    \/ pc' = next /\ UNCHANGED faults
    \/ faults < MaxFaults /\ pc' = "throwing" /\ faults' = faults + 1

(***************************************************************************)
(* The Owner's controls.                                                   *)
(***************************************************************************)
\* start is refused while a tick is busy; the write follows later, and a tick may
\* begin meanwhile.
AskStart ==
    /\ ~asked /\ pc = "idle" /\ starts < MaxStarts
    /\ asked' = TRUE /\ starts' = starts + 1
    /\ UNCHANGED <<mailboxVars, evidence, import, enabled, pc, own, page,
                   retained, dropped, reopened, overlapped, faults, crashes>>

WriteStart ==
    /\ asked /\ asked' = FALSE
    /\ \/ /\ import.state # "running"
          /\ import' = [Blank EXCEPT !.state = "running", !.scope = arrived]
          /\ retained' = {} /\ dropped' = {} /\ reopened' = 0 /\ UNCHANGED faults
          /\ overlapped' = (pc \notin {"idle", "throwing"})
       \/ /\ import.state = "running"   \* mail_history_busy
          /\ UNCHANGED <<import, retained, dropped, reopened, overlapped, faults>>
       \/ /\ faults < MaxFaults /\ faults' = faults + 1
          /\ UNCHANGED <<import, retained, dropped, reopened, overlapped>>
    /\ UNCHANGED <<mailboxVars, evidence, enabled, pc, own, page, crashes, starts>>

Resumed == IF import.state = "completed" THEN import
           ELSE [import EXCEPT !.state = "running", !.retry = FALSE]

Control ==
    /\ import.state # "none"
    /\ \/ import' = Resumed /\ UNCHANGED reopened
       \/ /\ \E state \in {"paused", "cancelled"} :
                import' = [import EXCEPT !.state = state, !.retry = FALSE]
          /\ reopened' = reopened + (IF import.state = "completed" THEN 1 ELSE 0)
          /\ reopened' <= MaxReopens
    /\ UNCHANGED <<mailboxVars, evidence, enabled, process, retained, dropped, overlapped,
                   faults, crashes, starts>>

(***************************************************************************)
(* tick                                                                    *)
(***************************************************************************)
\* Mutant: the loop over the page ends one message early.
AlongShort(c) == IF c.offset + 1 < Len(c.ids) THEN "check" ELSE "close"

\* The next thing to do with the page of checkpoint c.
Along(c) == IF c.offset < Len(c.ids) THEN "check" ELSE "close"

BeginTick ==
    /\ pc = "idle" /\ enabled
    /\ Active /\ ~import.retry
    /\ own' = import
    /\ pc' = IF import.paged THEN Along(import) ELSE "scan"
    /\ UNCHANGED <<mailboxVars, evidence, import, enabled, asked, page, history, faults, crashes>>

Scan ==
    /\ pc = "scan"
    /\ page' \in ScanPages(own.scope, own.token)
    /\ pc' = "page"
    /\ UNCHANGED <<mailboxVars, evidence, import, enabled, asked, own, history, faults, crashes>>

\* Mutant: the checkpoint is written whatever its state has become.
AdvanceUnasked(change, next) == import' = change /\ Go(next)

\* advance(): the change applies to the checkpoint of now, not to `own`; the tick
\* goes on at `next`.
Advance(change, next) ==
    IF Active /\ enabled
    THEN import' = change /\ Go(next)
    ELSE pc' = "throwing" /\ UNCHANGED <<import, faults>>

\* The ids are saved as the mailbox listed them: each once, the newest first.
SavePage ==
    /\ pc = "page"
    /\ \E ids \in Bijection(1 .. Cardinality(page.ids), page.ids) :
          /\ \A i, j \in DOMAIN ids : i < j => ids[j] < ids[i]
          /\ Advance([import EXCEPT !.paged = TRUE, !.ids = ids, !.offset = 0, !.next = page.next,
                                    !.state = "running", !.retry = FALSE], Along(import'))
    /\ own' = import' /\ page' = NoPage
    /\ UNCHANGED <<mailboxVars, evidence, enabled, asked, history, crashes>>

Check ==
    /\ pc = "check"
    /\ pc' = IF Active /\ enabled THEN "capture" ELSE "throwing"
    /\ UNCHANGED <<mailboxVars, evidence, import, enabled, asked, own, page, history,
                   faults, crashes>>

Current == own.ids[own.offset + 1]

\* mailbox.read and memory.capture, which is idempotent: its row has the message's id.
Capture ==
    /\ pc = "capture"
    /\ \/ /\ ~enabled /\ Current \notin deleted
          /\ pc' = "throwing"
          /\ UNCHANGED <<evidence, page, faults>>
       \/ /\ enabled /\ Current \notin deleted
          /\ evidence' = evidence \cup {Current}
          /\ page' = [page EXCEPT !.ids = {Current}]
          /\ Go("count")
       \/ /\ enabled \/ Current \in deleted
          /\ page' = [page EXCEPT !.ids = {}]
          /\ pc' = "count"
          /\ UNCHANGED <<evidence, faults>>
    /\ UNCHANGED <<mailboxVars, import, enabled, asked, own, history, crashes>>

\* A checkpoint without a page has no pageIds to ask the length of: the loop throws.
Further(c) == IF c.paged THEN Along(c) ELSE "throwing"

\* Mutant: the message is counted, but the offset stays.
CountInPlace ==
    /\ pc = "count"
    /\ Advance([import EXCEPT !.state = "running", !.retry = FALSE,
                              !.processed = @ + 1, !.kept = @ + Cardinality(page.ids)],
               Further(import'))
    /\ own' = import' /\ page' = NoPage
    /\ IF Active /\ enabled
       THEN /\ retained' = retained \cup page.ids
            /\ dropped' = IF page.ids = {} THEN dropped \cup {Current} ELSE dropped
       ELSE UNCHANGED <<retained, dropped>>
    /\ UNCHANGED <<mailboxVars, evidence, enabled, asked, reopened, overlapped, crashes, starts>>

Count ==
    /\ pc = "count"
    /\ Advance([import EXCEPT !.state = "running", !.retry = FALSE, !.offset = own.offset + 1,
                              !.processed = @ + 1, !.kept = @ + Cardinality(page.ids)],
               Further(import'))
    /\ own' = import' /\ page' = NoPage
    /\ IF Active /\ enabled
       THEN /\ retained' = retained \cup page.ids
            /\ dropped' = IF page.ids = {} THEN dropped \cup {Current} ELSE dropped
       ELSE UNCHANGED <<retained, dropped>>
    /\ UNCHANGED <<mailboxVars, evidence, enabled, asked, reopened, overlapped, crashes, starts>>

Close ==
    /\ pc = "close"
    /\ Advance([import EXCEPT !.state = IF import.next = NoToken THEN "completed" ELSE "running",
                              !.token = import.next, !.paged = FALSE, !.ids = NoIds, !.offset = 0,
                              !.next = NoToken, !.retry = FALSE], "idle")
    /\ own' = Blank /\ page' = NoPage
    /\ UNCHANGED <<mailboxVars, evidence, enabled, asked, history, crashes>>

\* The catch block: controls keep their state, and its own write may fail.
Throwing ==
    /\ pc = "throwing" /\ pc' = "idle"
    /\ own' = Blank /\ page' = NoPage
    /\ \/ /\ import' = IF Active THEN [import EXCEPT !.state = "failed", !.retry = TRUE] ELSE import
          /\ UNCHANGED faults
       \/ faults < MaxFaults /\ faults' = faults + 1 /\ UNCHANGED import
    /\ UNCHANGED <<mailboxVars, evidence, enabled, asked, history, crashes>>

Tick == BeginTick \/ Scan \/ SavePage \/ Check \/ Capture \/ Count \/ Close \/ Throwing

(***************************************************************************)
(* Faults, the clock and the settings.                                     *)
(***************************************************************************)
\* Any call of the tick throws before it has an effect.
Fault ==
    /\ pc \notin {"idle", "throwing"} /\ faults < MaxFaults
    /\ pc' = "throwing" /\ faults' = faults + 1 /\ own' = Blank /\ page' = NoPage
    /\ UNCHANGED <<mailboxVars, evidence, import, enabled, asked, history, crashes>>

Crash ==
    /\ crashes < MaxCrashes /\ crashes' = crashes + 1
    /\ asked' = FALSE /\ pc' = "idle" /\ own' = Blank /\ page' = NoPage
    /\ UNCHANGED <<mailboxVars, evidence, import, enabled, history, faults>>

RetryDue ==
    /\ import.retry /\ import' = [import EXCEPT !.retry = FALSE]
    /\ UNCHANGED <<mailboxVars, evidence, enabled, process, history, faults, crashes>>

Toggle ==
    /\ enabled' = ~enabled
    /\ UNCHANGED <<mailboxVars, evidence, import, process, history, faults, crashes>>

Outside ==
    /\ Arrive \/ Delete
    /\ UNCHANGED <<evidence, import, enabled, process, history, faults, crashes>>

ImportNext ==
    \/ AskStart \/ WriteStart \/ Control
    \/ Tick \/ Fault \/ Crash \/ RetryDue \/ Toggle \/ Outside

\* The event loop runs what is scheduled; time passes.
ImportSpec == /\ ImportInit /\ [][ImportNext]_importVars
              /\ WF_importVars(Tick) /\ WF_importVars(WriteStart) /\ WF_importVars(RetryDue)

(***************************************************************************)
(* Properties                                                              *)
(***************************************************************************)
(* The checkpoint, the local copy and the page have the shape the handlers   *)
(* rely on.                                                                  *)
Checkpoints ==
    [state : {"none", "running", "failed", "paused", "cancelled", "completed"},
     scope : 0 .. MaxMail, token : 0 .. MaxMail, next : 0 .. MaxMail, offset : Nat,
     paged : BOOLEAN, ids : Seq(1 .. MaxMail), processed : Nat, kept : Nat,
     retry : BOOLEAN]

TypeOK ==
    /\ import \in Checkpoints /\ own \in Checkpoints
    /\ evidence \subseteq 1 .. arrived /\ retained \cup dropped \subseteq 1 .. arrived
    /\ page.ids \subseteq 1 .. arrived /\ page.next \in 0 .. MaxMail
    /\ overlapped \in BOOLEAN
    /\ pc \in {"idle", "scan", "page", "check", "capture", "count", "close", "throwing"}
    /\ pc \in {"capture", "count"} => own.offset < Len(own.ids)

(* "all_available_mail_at_start" (mailHistory.js:16): an import reported      *)
(* completed has counted every message that was there when it was started    *)
(* and has not been deleted since.  It does not hold: a tick under way when  *)
(* the start is written goes on in the new import.                           *)
ReportedImportIsWhole ==
    import.state = "completed" => 1 .. import.scope \subseteq retained \cup dropped \cup deleted

(* It does of an import whose start was not written during a tick, through   *)
(* faults, restarts and pauses.                                              *)
CompletedImportIsWhole == ~overlapped => ReportedImportIsWhole

(* "then counts that message exactly once" (mailHistory.js:71): whatever is  *)
(* replayed, processed and retained are numbers of distinct messages, and    *)
(* the retained ones are in the store.  It does not hold of every import: a  *)
(* start written during a tick, or a resume after a pause of what was        *)
(* completed, leads to messages counted twice.                               *)
CountsOnce ==
    /\ import.processed = Cardinality(retained \cup dropped)
    /\ import.kept = Cardinality(retained)
    /\ retained \subseteq evidence

(* It does of an import that neither happened to.                            *)
CoverageIsReal == ~overlapped /\ reopened = 0 => CountsOnce

(* A tick that was under way when the Owner paused or cancelled the import   *)
(* writes nothing into it: only a resume or a new start changes it.          *)
HeldImportStands ==
    [][import.state \in {"paused", "cancelled"} =>
         \/ import' = [import EXCEPT !.state = import'.state, !.retry = FALSE]
         \/ import' = [Blank EXCEPT !.state = "running", !.scope = arrived]]_importVars

(* Once memory stays enabled, a running import ends: by itself or by the     *)
(* Owner's hand, whatever failed and whenever the process died.              *)
ImportEnds ==
    <>[]enabled => (import.state = "running"
                      ~> import.state \in {"completed", "paused", "cancelled"})

=============================================================================
