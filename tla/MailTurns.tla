------------------------------ MODULE MailTurns ------------------------------
(* Whose turn it is to use the model: the scheduler of mail analyses         *)
(* (src/company/mailScheduler.js), the loop that indexes originals, analyses *)
(* the Owner asks for (src/company/mailMemory.js, mailAnalysis.js and the    *)
(* index worker of mailSemantic.js), and conversations, which come first     *)
(* (src/app.js).  All run in one process and interleave at their awaits.     *)
(* No mail is kept: that some waits, or has changed, is open at every look.  *)
(* Real time is the order the timers can fire in: 2 and 5 seconds are        *)
(* "soon", half a minute and more is "later", and soon comes before later.   *)
EXTENDS Integers

CONSTANTS
    Cap  \* attempts an hour

ASSUME TurnsAssumption == Cap \in Nat \ {0}

VARIABLES
    \* the scheduler's checkpoint in the structured store
    paused, next, waits, \* paused, nextAt, and is the reason one of the three that wait?
    attempts, current,   \* attempts, and is its window this hour's?
    \* the process
    enabled,  \* memory.enabled(), with the mailbox's lease
    tick,     \* where the scheduler's tick is
    base, win, \* its local attempts, and is its local window still this hour's?
    pausing,  \* the Owner's pause waits for its write
    by, step, \* the running analysis: whose, and where
    halted,   \* its call was aborted
    lingering, \* whose call timed out, was aborted and has not settled
    awaited,  \* the conversation waits for a call of the analyser to settle
    ix, stopped, \* the index attempt; was it told to stop?
    timer,    \* when the index loop looks again
    waiting, prefer, turn, \* analysisWaiting, preferAnalysis, preferIndexUntil
    talk,     \* the conversation
    \* history
    spent     \* the scheduler's model calls of this hour

checkpoint == <<paused, next, waits, attempts, current>>
scheduler == <<tick, base, win>>
analyzer == <<by, step, halted, lingering, awaited>>
index == <<ix, stopped, timer>>
turns == <<waiting, prefer, turn>>
turnsVars == <<checkpoint, enabled, scheduler, pausing, analyzer, index, turns, talk,
               spent>>

Analyzing == by # "nobody"                  \* analyzing
Reserved == tick \in {"rows", "analysis"}   \* backgroundReservation
Indexing == ix # "timer"                    \* indexAttemptActive
Foreground == talk # "none"

TurnsInit ==
    /\ paused = FALSE /\ next = "now" /\ waits = FALSE /\ attempts = 0 /\ current = FALSE
    /\ enabled = TRUE /\ tick = "idle" /\ base = 0 /\ win = FALSE /\ pausing = FALSE
    /\ by = "nobody" /\ step = "none" /\ halted = FALSE
    /\ lingering = "nobody" /\ awaited = FALSE
    /\ ix = "timer" /\ stopped = FALSE /\ timer = "soon"
    /\ waiting = FALSE /\ prefer = FALSE /\ turn = "none" /\ talk = "none"
    /\ spent = 0

\* backgroundAnalysisDemand
Demand(wanted) == waiting' = wanted /\ prefer' = (prefer /\ wanted) /\ UNCHANGED turn

\* cancelAnalysis: a running attempt of the index and a call in flight are told to stop.
Cancel == stopped' = (stopped \/ ix = "source") /\ halted' = (halted \/ step = "model")

Reset == base' = 0 /\ win' = FALSE

(***************************************************************************)
(* The scheduler's tick.                                                   *)
(***************************************************************************)
Refuse ==
    /\ tick = "idle" /\ (Foreground \/ ~enabled)
    /\ Demand(FALSE)
    /\ UNCHANGED <<checkpoint, enabled, scheduler, pausing, analyzer, index, talk, spent>>

BeginTick ==
    /\ tick = "idle" /\ ~Foreground /\ enabled
    /\ tick' = "status"
    /\ UNCHANGED <<checkpoint, enabled, base, win, pausing, analyzer, index, turns, talk, spent>>

Used == IF current THEN attempts ELSE 0

\* The checkpoint has been read.
Status ==
    /\ tick = "status"
    /\ \/ /\ paused \/ next # "now"
          /\ Demand(~paused /\ waits)
          /\ tick' = "idle" /\ UNCHANGED <<base, win, next, waits>>
       \/ /\ ~paused /\ next = "now" /\ Used >= Cap   \* hourly_budget
          /\ Demand(FALSE)
          /\ tick' = "idle" /\ next' = "hour" /\ waits' = FALSE /\ UNCHANGED <<base, win>>
       \/ /\ ~paused /\ next = "now" /\ Used < Cap
          /\ tick' = "attempt" /\ base' = Used /\ win' = TRUE
          /\ UNCHANGED <<turns, next, waits>>
    /\ UNCHANGED <<paused, attempts, current, enabled, pausing, analyzer, index, talk, spent>>

\* One more attempt of the window the tick found itself in.
CountAttempt == attempts' = base + 1 /\ current' = win

\* The attempt is counted; then, at once, the tests analyzeNext makes before its first await.
Attempt ==
    /\ tick = "attempt"
    /\ CountAttempt
    /\ IF Foreground \/ Indexing \/ turn # "none" \/ Analyzing
       THEN /\ tick' = IF Foreground THEN "yielded" ELSE "deferred"
            /\ Demand(TRUE)
       ELSE /\ tick' = "rows"
            /\ waiting' = FALSE /\ prefer' = FALSE /\ UNCHANGED turn
    /\ UNCHANGED <<paused, next, waits, enabled, base, win, pausing, analyzer, index, talk, spent>>

\* The threads have been read: none is due, or the first in order is analysed.  The read fails,
\* or an analysis of the Owner's came first; the index loop is kept out by the reservation.
Rows ==
    /\ tick = "rows"
    /\ \/ tick' = "failed" /\ UNCHANGED <<by, step>>
       \/ Foreground /\ tick' = "yielded" /\ UNCHANGED <<by, step>>
       \/ ~Foreground /\ tick' = "empty" /\ UNCHANGED <<by, step>>
       \/ /\ ~Foreground /\ ~Analyzing /\ enabled
          /\ tick' = "analysis" /\ by' = "scheduler" /\ step' = "detail"
    /\ UNCHANGED <<checkpoint, enabled, base, win, pausing, halted, lingering, awaited, index,
                   turns, talk, spent>>

\* Mutant: a failed attempt is given back as well.
FailuresGivenBack ==
    /\ tick \in {"deferred", "yielded", "failed"}
    /\ tick' = "idle" /\ Reset
    /\ attempts' = IF attempts = 0 THEN 0 ELSE attempts - 1
    /\ next' = "soon" /\ waits' = (tick = "deferred")
    /\ UNCHANGED <<paused, current, enabled, pausing, analyzer, index, turns, talk, spent>>

\* A deferred attempt is given back.
Deferred ==
    /\ tick \in {"deferred", "yielded"}
    /\ tick' = "idle" /\ Reset
    /\ attempts' = IF attempts = 0 THEN 0 ELSE attempts - 1
    /\ next' = "soon" /\ waits' = (tick = "deferred")
    /\ UNCHANGED <<paused, current, enabled, pausing, analyzer, index, turns, talk, spent>>

\* The outcome is written: an empty queue and a failure wait a minute or more.
Settled ==
    /\ tick \in {"done", "empty", "failed"}
    /\ tick' = "idle" /\ Reset /\ Demand(FALSE)
    /\ next' = (IF tick = "done" THEN "soon" ELSE "later") /\ waits' = FALSE
    /\ UNCHANGED <<paused, attempts, current, enabled, pausing, analyzer, index, talk, spent>>

\* A read or a write of the scheduler's fails.  That of a deferral or of an outcome is caught
\* by the handler of failed analyses, which writes once more; every other ends the tick.
TickFails ==
    /\ \/ /\ tick \in {"deferred", "yielded", "done", "empty"}
          /\ tick' = "failed" /\ UNCHANGED <<base, win>>
       \/ /\ tick \in {"status", "attempt", "failed"}
          /\ tick' = "idle" /\ Reset
    /\ Demand(FALSE)
    /\ UNCHANGED <<checkpoint, enabled, pausing, analyzer, index, talk, spent>>

Tick == BeginTick \/ Status \/ Attempt \/ Rows \/ Deferred \/ Settled

(***************************************************************************)
(* analyze                                                                 *)
(***************************************************************************)
\* finally: the index is given one opportunity after an analysis of the scheduler's.
Finish(outcome) ==
    /\ by' = "nobody" /\ step' = "none" /\ halted' = FALSE
    /\ IF by = "scheduler" THEN tick' = outcome /\ turn' = "fresh" ELSE UNCHANGED <<tick, turn>>

On(at) == step' = at /\ UNCHANGED <<by, halted, tick, turn>>

\* The Owner's analysis first stops the index and waits until it has.
Manual ==
    /\ ~Analyzing /\ enabled
    /\ by' = "owner" /\ step' = "cancel"
    /\ stopped' = (stopped \/ ix = "source")
    /\ UNCHANGED <<checkpoint, enabled, scheduler, pausing, halted, lingering, awaited, ix, timer,
                   turns, talk, spent>>

\* Mutant: the index is told to stop and not waited for.
StopAsked ==
    /\ step = "cancel"
    /\ On("detail")
    /\ UNCHANGED <<checkpoint, enabled, base, win, pausing, lingering, awaited, index, waiting,
                   prefer, talk, spent>>

Stopped ==
    /\ step = "cancel" /\ ~Indexing
    /\ On("detail")
    /\ UNCHANGED <<checkpoint, enabled, base, win, pausing, lingering, awaited, index, waiting,
                   prefer, talk, spent>>

\* The thread and its messages are read; the call follows without another await.
Detail ==
    /\ step = "detail"
    /\ \/ Finish("failed") /\ UNCHANGED spent   \* the source or the lease is gone
       \/ by = "scheduler" /\ Foreground /\ Finish("yielded") /\ UNCHANGED spent
       \/ Finish("done") /\ UNCHANGED spent     \* it was ready: unchanged
       \/ /\ by = "owner" \/ ~Foreground
          /\ enabled /\ lingering = "nobody"
          /\ On("model")
          /\ spent' = spent + (IF by = "scheduler" /\ win THEN 1 ELSE 0)
    /\ UNCHANGED <<checkpoint, enabled, base, win, pausing, lingering, awaited, index, waiting,
                   prefer, talk>>

\* The model answers, fails, or has been told to stop; or 65 seconds pass.
Answer ==
    /\ step = "model"
    /\ \/ Finish("failed") /\ awaited' = FALSE /\ UNCHANGED lingering
       \/ Finish("failed") /\ lingering' = by /\ UNCHANGED awaited
       \/ ~halted /\ On("save") /\ awaited' = FALSE /\ UNCHANGED lingering
    /\ UNCHANGED <<checkpoint, enabled, base, win, pausing, index, waiting, prefer, talk, spent>>

Linger ==
    /\ lingering # "nobody" /\ lingering' = "nobody" /\ awaited' = FALSE
    /\ UNCHANGED <<checkpoint, enabled, scheduler, pausing, by, step, halted, index, turns, talk,
                   spent>>

Save ==
    /\ step = "save"
    /\ \/ enabled /\ Finish("done")
       \/ Finish("failed")   \* revision_conflict, a lost lease, the store
    /\ UNCHANGED <<checkpoint, enabled, base, win, pausing, lingering, awaited, index, waiting,
                   prefer, talk, spent>>

Analyze == Stopped \/ Detail \/ Answer \/ Save

(***************************************************************************)
(* The index loop.                                                         *)
(***************************************************************************)
IndexTimer ==
    /\ ix = "timer"
    /\ IF Foreground \/ Analyzing THEN timer' = "soon" /\ UNCHANGED <<ix, stopped>>
       ELSE IF ~enabled THEN timer' = "later" /\ UNCHANGED <<ix, stopped>>
       ELSE IF Reserved \/ prefer THEN timer' = "soon" /\ UNCHANGED <<ix, stopped>>
       ELSE ix' = "source" /\ stopped' = FALSE /\ UNCHANGED timer
    /\ turn' = IF turn = "fresh" THEN "polled" ELSE turn
    /\ UNCHANGED <<checkpoint, enabled, scheduler, pausing, analyzer, waiting, prefer, talk,
                   spent>>

\* Mutant: the index takes its next turn whoever waits.
IndexAgain ==
    /\ ix' = "timer" /\ stopped' = FALSE /\ timer' \in {"soon", "later"}
    /\ turn' = "none" /\ UNCHANGED <<waiting, prefer>>

\* finally: the scheduler is given the next turn if it waits for one.
IndexDone ==
    /\ ix' = "timer" /\ stopped' = FALSE /\ timer' \in {"soon", "later"}
    /\ turn' = "none" /\ prefer' = (prefer \/ waiting) /\ UNCHANGED waiting

\* The originals are looked at and classified; one may need the model.
IndexSource ==
    /\ ix = "source"
    /\ \/ IndexDone
       \/ ~stopped /\ enabled /\ ix' = "model" /\ UNCHANGED <<stopped, timer, turns>>
    /\ UNCHANGED <<checkpoint, enabled, scheduler, pausing, analyzer, talk, spent>>

IndexModel ==
    /\ ix = "model"
    /\ IndexDone
    /\ UNCHANGED <<checkpoint, enabled, scheduler, pausing, analyzer, talk, spent>>

Index == IndexTimer \/ IndexSource \/ IndexModel

(***************************************************************************)
(* The Owner, conversations, the clock and deaths.                         *)
(***************************************************************************)
Pause ==
    /\ ~pausing /\ pausing' = TRUE
    /\ Demand(FALSE) /\ Cancel
    /\ UNCHANGED <<checkpoint, enabled, scheduler, by, step, lingering, awaited, ix, timer, talk,
                   spent>>

WriteControl ==
    /\ \/ pausing /\ pausing' = FALSE /\ paused' = TRUE
       \/ ~pausing /\ paused' = FALSE /\ UNCHANGED pausing
    /\ next' = "now" /\ waits' = FALSE
    /\ UNCHANGED <<attempts, current, enabled, scheduler, analyzer, index, turns, talk, spent>>

\* A message reaches the conversation: what is in flight is aborted and waited for.
Speak ==
    /\ talk \in {"none", "cooling"}
    /\ talk' = "asking" /\ Cancel
    /\ awaited' = (step = "model" \/ lingering # "nobody")
    /\ UNCHANGED <<checkpoint, enabled, scheduler, pausing, by, step, lingering, ix, timer, turns,
                   spent>>

\* Mutant: a call in flight is aborted and not waited for.
ConverseAtOnce ==
    /\ talk = "asking" /\ ~Indexing
    /\ talk' = "talking"
    /\ UNCHANGED <<checkpoint, enabled, scheduler, pausing, analyzer, index, turns, spent>>

Converse ==
    /\ talk = "asking" /\ ~Indexing /\ ~awaited
    /\ talk' = "talking"
    /\ UNCHANGED <<checkpoint, enabled, scheduler, pausing, analyzer, index, turns, spent>>

\* The response is closed: the conversation stops counting as foreground a minute later, although
\* a handler whose client has left goes on.
HangUp ==
    /\ \/ talk \in {"asking", "talking"} /\ talk' = "cooling"
       \/ talk = "cooling" /\ talk' = "none"   \* sixty seconds on
    /\ UNCHANGED <<checkpoint, enabled, scheduler, pausing, analyzer, index, turns, spent>>

Toggle ==
    /\ enabled' = ~enabled
    /\ UNCHANGED <<checkpoint, scheduler, pausing, analyzer, index, turns, talk, spent>>

Due ==
    /\ \/ next = "soon"
       \/ next = "later" /\ ~(ix = "timer" /\ timer = "soon")
    /\ next' = "now" /\ waits' = FALSE   \* of a wait that is over nobody reads the reason
    /\ UNCHANGED <<paused, attempts, current, enabled, scheduler, pausing, analyzer, index, turns,
                   talk, spent>>

Hour ==
    /\ current' = FALSE /\ win' = FALSE /\ spent' = 0
    /\ next' = IF next = "hour" THEN "now" ELSE next
    /\ UNCHANGED <<paused, waits, attempts, enabled, tick, base, pausing, analyzer, index, turns,
                   talk>>

\* Six seconds pass: a loop that looks again within five has done so.
TurnOver ==
    /\ turn = "polled" \/ (turn = "fresh" /\ timer = "later")
    /\ turn' = "none"
    /\ UNCHANGED <<checkpoint, enabled, scheduler, pausing, analyzer, index, waiting, prefer, talk,
                   spent>>

Crash ==
    /\ tick' = "idle" /\ Reset /\ pausing' = FALSE
    /\ by' = "nobody" /\ step' = "none" /\ halted' = FALSE
    /\ lingering' = "nobody" /\ awaited' = FALSE
    /\ ix' = "timer" /\ stopped' = FALSE /\ timer' = "soon"
    /\ waiting' = FALSE /\ prefer' = FALSE /\ turn' = "none" /\ talk' = "none"
    /\ UNCHANGED <<checkpoint, enabled, spent>>

TurnsNext ==
    \/ Refuse \/ Tick \/ TickFails \/ Manual \/ Analyze \/ Linger \/ Index
    \/ Pause \/ WriteControl \/ Speak \/ Converse \/ HangUp
    \/ Toggle \/ Due \/ Hour \/ TurnOver \/ Crash

\* The timers fire, every call settles, and time passes.
TurnsSpec ==
    /\ TurnsInit /\ [][TurnsNext]_turnsVars
    /\ WF_turnsVars(Tick) /\ WF_turnsVars(Analyze) /\ WF_turnsVars(Linger) /\ WF_turnsVars(Index)
    /\ SF_turnsVars(Due) /\ WF_turnsVars(Hour) /\ WF_turnsVars(TurnOver)

(***************************************************************************)
(* Properties                                                              *)
(***************************************************************************)
(* The flags, timers and counts have the values the handlers rely on, and an *)
(* analysis of the scheduler's is one its tick waits for.                    *)
TypeOK ==
    /\ {paused, waits, current, enabled, win, pausing, halted, awaited, stopped, waiting, prefer}
          \subseteq BOOLEAN
    /\ next \in {"now", "soon", "later", "hour"} /\ attempts \in 0 .. Cap /\ base \in 0 .. Cap
    /\ tick \in {"idle", "status", "attempt", "rows", "analysis", "deferred", "yielded", "done",
                 "empty", "failed"}
    /\ {by, lingering} \subseteq {"nobody", "owner", "scheduler"}
    /\ (tick = "analysis" <=> by = "scheduler")
    /\ step \in {"none", "cancel", "detail", "model", "save"}
    /\ ix \in {"timer", "source", "model"} /\ timer \in {"soon", "later"}
    /\ turn \in {"none", "fresh", "polled"}
    /\ talk \in {"none", "asking", "talking", "cooling"}

(* "Model overlap" (mailBackgroundFairness.test.js:39): an analysis and the  *)
(* index do not wait for the model together, although each of them tests the *)
(* other's flags before its awaits and calls after them; nor do two          *)
(* analyses, a call of the first's that was given up and goes on included.   *)
OneModelCall ==
    /\ ~(step = "model" /\ ix = "model")
    /\ ~(step = "model" /\ lingering # "nobody")

(* "Processing is serial" (docs/ADMIN-MAIL-NOTIFICATIONS.md:51).  The index  *)
(* does not look for a call of an analysis that was given up after 65        *)
(* seconds and has not settled (mailMemory.js:155): this one does not hold.  *)
ProcessingIsSerial ==
    OneModelCall /\ ~(ix = "model" /\ lingering # "nobody")

(* "Incoming authenticated conversation intake cancels the background HTTP   *)
(* request and waits for its settlement" (line 57): while a conversation is  *)
(* handled nothing in the background calls the model.                        *)
TalkIsAlone ==
    talk = "talking" =>
        ix # "model" /\ lingering # "scheduler" /\ ~(by = "scheduler" /\ step = "model")

(* "Catch-up permits up to 120 attempts per hour" (line 50): deferrals give  *)
(* attempts back, and still no hour's attempts make more calls than Cap.     *)
BudgetKept == spent <= Cap

Undisturbed == enabled /\ ~paused /\ ~pausing /\ ~Foreground /\ by # "owner"

OnTheirOwn == Tick \/ Analyze \/ Linger \/ Index \/ Due \/ Hour \/ TurnOver

(* "both canonical indexing and analysis progress" (test at line 39): once   *)
(* the Owner, conversations and faults leave them alone, the scheduler and   *)
(* the index loop each get turn after turn, however their timers and slow    *)
(* calls interleave.                                                         *)
BothGetTurns ==
    <>[]Undisturbed /\ <>[][OnTheirOwn]_turnsVars => []<>(tick = "rows") /\ []<>Indexing
=============================================================================
