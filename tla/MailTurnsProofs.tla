--------------------------- MODULE MailTurnsProofs ---------------------------
(***************************************************************************)
(* For every number of attempts an hour: the flags of the three loops and   *)
(* of the conversation exclude each other at the model, and an hour's       *)
(* attempts make no more calls than they are allowed.                       *)
(*                                                                         *)
(* The argument.  Each loop tests the flags of the others before awaits in  *)
(* which those may change, so what keeps a call safe is what has held since *)
(* its test: from its reservation on the index cannot begin, and an         *)
(* analysis of the Owner's has waited for it (KeptOut).  A conversation    *)
(* looks once at what is in flight; nothing of the scheduler's can take its *)
(* place while it waits (Alone).  An attempt is counted before it may call, *)
(* and one given back has not called (Paid).                                *)
(***************************************************************************)
EXTENDS MailTurns, TLAPS

\* Whose an analysis is and where it stands; the Owner's alone stops the index first.
Placed ==
    /\ by = "nobody" <=> step = "none"
    /\ step = "cancel" => by = "owner"

\* From its reservation on, and once an analysis has stopped the index, the index rests.
KeptOut ==
    /\ Reserved => ix = "timer"
    /\ step \in {"detail", "model", "save"} => ix = "timer"
    /\ step = "model" => lingering = "nobody"

\* A conversation that waits for no call, or is being handled, has none of the
\* scheduler's in flight; the index rests while it is handled.
Alone ==
    /\ talk = "talking" => ix = "timer"
    /\ talk = "talking" \/ (talk = "asking" /\ ~awaited) =>
          lingering # "scheduler" /\ ~(by = "scheduler" /\ step = "model")

\* An attempt that has not called yet.
Unspent == tick \in {"rows", "deferred", "yielded"} \/ (by = "scheduler" /\ step = "detail")

\* What this hour's calls were paid from.
Paid ==
    /\ spent \in Nat
    /\ spent <= Used
    /\ tick = "attempt" => base < Cap /\ spent <= (IF win THEN base ELSE 0)
    /\ Unspent => (win => current) /\ (current => spent < attempts)


\* TypeOK, in two parts.
Flags ==
    /\ paused \in BOOLEAN /\ waits \in BOOLEAN /\ current \in BOOLEAN /\ enabled \in BOOLEAN
    /\ win \in BOOLEAN /\ pausing \in BOOLEAN /\ halted \in BOOLEAN /\ awaited \in BOOLEAN
    /\ stopped \in BOOLEAN /\ waiting \in BOOLEAN /\ prefer \in BOOLEAN

Kinds ==
    /\ next \in {"now", "soon", "later", "hour"} /\ attempts \in 0 .. Cap /\ base \in 0 .. Cap
    /\ tick \in {"idle", "status", "attempt", "rows", "analysis", "deferred", "yielded", "done",
                 "empty", "failed"}
    /\ by \in {"nobody", "owner", "scheduler"} /\ lingering \in {"nobody", "owner", "scheduler"}
    /\ (tick = "analysis" <=> by = "scheduler")
    /\ step \in {"none", "cancel", "detail", "model", "save"}
    /\ ix \in {"timer", "source", "model"} /\ timer \in {"soon", "later"}
    /\ turn \in {"none", "fresh", "polled"}
    /\ talk \in {"none", "asking", "talking", "cooling"}

IInv == Flags /\ Kinds /\ Placed /\ KeptOut /\ Alone /\ Paid

-----------------------------------------------------------------------------
(* Every step keeps every part.                                             *)

\* Flags stay flags.
LEMMA FlagsKept ==
    ASSUME Flags, [TurnsNext]_turnsVars PROVE Flags'
<1> USE DEF Flags, Demand, Cancel, Reset, Finish, On, CountAttempt, IndexDone,
        checkpoint, scheduler, analyzer, index, turns
<1>1. CASE Refuse
  BY <1>1 DEF Refuse
<1>2. CASE BeginTick
  BY <1>2 DEF BeginTick
<1>3. CASE Status
  BY <1>3 DEF Status
<1>4. CASE Attempt
  BY <1>4 DEF Attempt
<1>5. CASE Rows
  BY <1>5 DEF Rows
<1>6. CASE Deferred
  BY <1>6 DEF Deferred
<1>7. CASE Settled
  BY <1>7 DEF Settled
<1>8. CASE TickFails
  BY <1>8 DEF TickFails
<1>9. CASE Manual
  BY <1>9 DEF Manual
<1>10. CASE Stopped
  BY <1>10 DEF Stopped
<1>11. CASE Detail
  BY <1>11 DEF Detail
<1>12. CASE Answer
  BY <1>12 DEF Answer
<1>13. CASE Save
  BY <1>13 DEF Save
<1>14. CASE Linger
  BY <1>14 DEF Linger
<1>15. CASE IndexTimer
  BY <1>15 DEF IndexTimer
<1>16. CASE IndexSource
  BY <1>16 DEF IndexSource
<1>17. CASE IndexModel
  BY <1>17 DEF IndexModel
<1>18. CASE Pause
  BY <1>18 DEF Pause
<1>19. CASE WriteControl
  BY <1>19 DEF WriteControl
<1>20. CASE Speak
  BY <1>20 DEF Speak
<1>21. CASE Converse
  BY <1>21 DEF Converse
<1>22. CASE HangUp
  BY <1>22 DEF HangUp
<1>23. CASE Toggle
  BY <1>23 DEF Toggle
<1>24. CASE Due
  BY <1>24 DEF Due
<1>25. CASE Hour
  BY <1>25 DEF Hour
<1>26. CASE TurnOver
  BY <1>26 DEF TurnOver
<1>27. CASE Crash
  BY <1>27 DEF Crash
<1>28. CASE UNCHANGED turnsVars
  BY <1>28 DEF turnsVars
<1>. QED
  BY <1>1, <1>2, <1>3, <1>4, <1>5, <1>6, <1>7, <1>8, <1>9, <1>10, <1>11, <1>12, <1>13, <1>14,
     <1>15, <1>16, <1>17, <1>18, <1>19, <1>20, <1>21, <1>22, <1>23, <1>24, <1>25, <1>26, <1>27, <1>28
     DEF TurnsNext, Tick, Analyze, Index

\* Counts, places and names stay what they are; an attempt counts up to Cap only,
\* as it has found room (Paid).
LEMMA KindsKept ==
    ASSUME Flags, Kinds, Paid, [TurnsNext]_turnsVars PROVE Kinds'
<1> USE TurnsAssumption DEF Flags, Kinds, Paid, Used, Analyzing, Demand, Cancel, Reset, Finish, On, CountAttempt, IndexDone,
        checkpoint, scheduler, analyzer, index, turns
<1>1. CASE Refuse
  BY <1>1 DEF Refuse
<1>2. CASE BeginTick
  BY <1>2 DEF BeginTick
<1>3. CASE Status
  BY <1>3 DEF Status
<1>4. CASE Attempt
  BY <1>4 DEF Attempt
<1>5. CASE Rows
  BY <1>5 DEF Rows
<1>6. CASE Deferred
  BY <1>6 DEF Deferred
<1>7. CASE Settled
  BY <1>7 DEF Settled
<1>8. CASE TickFails
  BY <1>8 DEF TickFails
<1>9. CASE Manual
  BY <1>9 DEF Manual
<1>10. CASE Stopped
  BY <1>10 DEF Stopped
<1>11. CASE Detail
  BY <1>11 DEF Detail
<1>12. CASE Answer
  BY <1>12 DEF Answer
<1>13. CASE Save
  BY <1>13 DEF Save
<1>14. CASE Linger
  BY <1>14 DEF Linger
<1>15. CASE IndexTimer
  BY <1>15 DEF IndexTimer
<1>16. CASE IndexSource
  BY <1>16 DEF IndexSource
<1>17. CASE IndexModel
  BY <1>17 DEF IndexModel
<1>18. CASE Pause
  BY <1>18 DEF Pause
<1>19. CASE WriteControl
  BY <1>19 DEF WriteControl
<1>20. CASE Speak
  BY <1>20 DEF Speak
<1>21. CASE Converse
  BY <1>21 DEF Converse
<1>22. CASE HangUp
  BY <1>22 DEF HangUp
<1>23. CASE Toggle
  BY <1>23 DEF Toggle
<1>24. CASE Due
  BY <1>24 DEF Due
<1>25. CASE Hour
  BY <1>25 DEF Hour
<1>26. CASE TurnOver
  BY <1>26 DEF TurnOver
<1>27. CASE Crash
  BY <1>27 DEF Crash
<1>28. CASE UNCHANGED turnsVars
  BY <1>28 DEF turnsVars
<1>. QED
  BY <1>1, <1>2, <1>3, <1>4, <1>5, <1>6, <1>7, <1>8, <1>9, <1>10, <1>11, <1>12, <1>13, <1>14,
     <1>15, <1>16, <1>17, <1>18, <1>19, <1>20, <1>21, <1>22, <1>23, <1>24, <1>25, <1>26, <1>27, <1>28
     DEF TurnsNext, Tick, Analyze, Index

\* An analysis ends where it ends for its owner as well.
LEMMA PlacedKept ==
    ASSUME Kinds, Placed, [TurnsNext]_turnsVars PROVE Placed'
<1> USE DEF Kinds, Placed, Analyzing, Demand, Cancel, Reset, Finish, On, CountAttempt, IndexDone,
        checkpoint, scheduler, analyzer, index, turns
<1>1. CASE Refuse
  BY <1>1 DEF Refuse
<1>2. CASE BeginTick
  BY <1>2 DEF BeginTick
<1>3. CASE Status
  BY <1>3 DEF Status
<1>4. CASE Attempt
  BY <1>4 DEF Attempt
<1>5. CASE Rows
  BY <1>5 DEF Rows
<1>6. CASE Deferred
  BY <1>6 DEF Deferred
<1>7. CASE Settled
  BY <1>7 DEF Settled
<1>8. CASE TickFails
  BY <1>8 DEF TickFails
<1>9. CASE Manual
  BY <1>9 DEF Manual
<1>10. CASE Stopped
  BY <1>10 DEF Stopped
<1>11. CASE Detail
  BY <1>11 DEF Detail
<1>12. CASE Answer
  BY <1>12 DEF Answer
<1>13. CASE Save
  BY <1>13 DEF Save
<1>14. CASE Linger
  BY <1>14 DEF Linger
<1>15. CASE IndexTimer
  BY <1>15 DEF IndexTimer
<1>16. CASE IndexSource
  BY <1>16 DEF IndexSource
<1>17. CASE IndexModel
  BY <1>17 DEF IndexModel
<1>18. CASE Pause
  BY <1>18 DEF Pause
<1>19. CASE WriteControl
  BY <1>19 DEF WriteControl
<1>20. CASE Speak
  BY <1>20 DEF Speak
<1>21. CASE Converse
  BY <1>21 DEF Converse
<1>22. CASE HangUp
  BY <1>22 DEF HangUp
<1>23. CASE Toggle
  BY <1>23 DEF Toggle
<1>24. CASE Due
  BY <1>24 DEF Due
<1>25. CASE Hour
  BY <1>25 DEF Hour
<1>26. CASE TurnOver
  BY <1>26 DEF TurnOver
<1>27. CASE Crash
  BY <1>27 DEF Crash
<1>28. CASE UNCHANGED turnsVars
  BY <1>28 DEF turnsVars
<1>. QED
  BY <1>1, <1>2, <1>3, <1>4, <1>5, <1>6, <1>7, <1>8, <1>9, <1>10, <1>11, <1>12, <1>13, <1>14,
     <1>15, <1>16, <1>17, <1>18, <1>19, <1>20, <1>21, <1>22, <1>23, <1>24, <1>25, <1>26, <1>27, <1>28
     DEF TurnsNext, Tick, Analyze, Index

\* The index begins only where nothing is reserved and nobody analyses; both begin
\* only where it rests.
LEMMA KeptOutKept ==
    ASSUME Kinds, Placed, KeptOut, [TurnsNext]_turnsVars PROVE KeptOut'
<1> USE DEF Kinds, Placed, KeptOut, Analyzing, Reserved, Indexing, Demand, Cancel, Reset, Finish, On, CountAttempt, IndexDone,
        checkpoint, scheduler, analyzer, index, turns
<1>1. CASE Refuse
  BY <1>1 DEF Refuse
<1>2. CASE BeginTick
  BY <1>2 DEF BeginTick
<1>3. CASE Status
  BY <1>3 DEF Status
<1>4. CASE Attempt
  BY <1>4 DEF Attempt
<1>5. CASE Rows
  BY <1>5 DEF Rows
<1>6. CASE Deferred
  BY <1>6 DEF Deferred
<1>7. CASE Settled
  BY <1>7 DEF Settled
<1>8. CASE TickFails
  BY <1>8 DEF TickFails
<1>9. CASE Manual
  BY <1>9 DEF Manual
<1>10. CASE Stopped
  BY <1>10 DEF Stopped
<1>11. CASE Detail
  BY <1>11 DEF Detail
<1>12. CASE Answer
  BY <1>12 DEF Answer
<1>13. CASE Save
  BY <1>13 DEF Save
<1>14. CASE Linger
  BY <1>14 DEF Linger
<1>15. CASE IndexTimer
  BY <1>15 DEF IndexTimer
<1>16. CASE IndexSource
  BY <1>16 DEF IndexSource
<1>17. CASE IndexModel
  BY <1>17 DEF IndexModel
<1>18. CASE Pause
  BY <1>18 DEF Pause
<1>19. CASE WriteControl
  BY <1>19 DEF WriteControl
<1>20. CASE Speak
  BY <1>20 DEF Speak
<1>21. CASE Converse
  BY <1>21 DEF Converse
<1>22. CASE HangUp
  BY <1>22 DEF HangUp
<1>23. CASE Toggle
  BY <1>23 DEF Toggle
<1>24. CASE Due
  BY <1>24 DEF Due
<1>25. CASE Hour
  BY <1>25 DEF Hour
<1>26. CASE TurnOver
  BY <1>26 DEF TurnOver
<1>27. CASE Crash
  BY <1>27 DEF Crash
<1>28. CASE UNCHANGED turnsVars
  BY <1>28 DEF turnsVars
<1>. QED
  BY <1>1, <1>2, <1>3, <1>4, <1>5, <1>6, <1>7, <1>8, <1>9, <1>10, <1>11, <1>12, <1>13, <1>14,
     <1>15, <1>16, <1>17, <1>18, <1>19, <1>20, <1>21, <1>22, <1>23, <1>24, <1>25, <1>26, <1>27, <1>28
     DEF TurnsNext, Tick, Analyze, Index

\* A call of the scheduler's begins only when nobody speaks, and who speaks later
\* waits for it.
LEMMA AloneKept ==
    ASSUME Flags, Kinds, Placed, KeptOut, Alone, [TurnsNext]_turnsVars PROVE Alone'
<1> USE DEF Flags, Kinds, Placed, KeptOut, Alone, Analyzing, Reserved, Indexing, Foreground, Demand, Cancel, Reset, Finish, On, CountAttempt, IndexDone,
        checkpoint, scheduler, analyzer, index, turns
<1>1. CASE Refuse
  BY <1>1 DEF Refuse
<1>2. CASE BeginTick
  BY <1>2 DEF BeginTick
<1>3. CASE Status
  BY <1>3 DEF Status
<1>4. CASE Attempt
  BY <1>4 DEF Attempt
<1>5. CASE Rows
  BY <1>5 DEF Rows
<1>6. CASE Deferred
  BY <1>6 DEF Deferred
<1>7. CASE Settled
  BY <1>7 DEF Settled
<1>8. CASE TickFails
  BY <1>8 DEF TickFails
<1>9. CASE Manual
  BY <1>9 DEF Manual
<1>10. CASE Stopped
  BY <1>10 DEF Stopped
<1>11. CASE Detail
  BY <1>11 DEF Detail
<1>12. CASE Answer
  BY <1>12 DEF Answer
<1>13. CASE Save
  BY <1>13 DEF Save
<1>14. CASE Linger
  BY <1>14 DEF Linger
<1>15. CASE IndexTimer
  BY <1>15 DEF IndexTimer
<1>16. CASE IndexSource
  BY <1>16 DEF IndexSource
<1>17. CASE IndexModel
  BY <1>17 DEF IndexModel
<1>18. CASE Pause
  BY <1>18 DEF Pause
<1>19. CASE WriteControl
  BY <1>19 DEF WriteControl
<1>20. CASE Speak
  BY <1>20 DEF Speak
<1>21. CASE Converse
  BY <1>21 DEF Converse
<1>22. CASE HangUp
  BY <1>22 DEF HangUp
<1>23. CASE Toggle
  BY <1>23 DEF Toggle
<1>24. CASE Due
  BY <1>24 DEF Due
<1>25. CASE Hour
  BY <1>25 DEF Hour
<1>26. CASE TurnOver
  BY <1>26 DEF TurnOver
<1>27. CASE Crash
  BY <1>27 DEF Crash
<1>28. CASE UNCHANGED turnsVars
  BY <1>28 DEF turnsVars
<1>. QED
  BY <1>1, <1>2, <1>3, <1>4, <1>5, <1>6, <1>7, <1>8, <1>9, <1>10, <1>11, <1>12, <1>13, <1>14,
     <1>15, <1>16, <1>17, <1>18, <1>19, <1>20, <1>21, <1>22, <1>23, <1>24, <1>25, <1>26, <1>27, <1>28
     DEF TurnsNext, Tick, Analyze, Index

\* An attempt is counted before it calls, and calls once.
LEMMA PaidKept ==
    ASSUME Flags, Kinds, Placed, Paid, [TurnsNext]_turnsVars PROVE Paid'
<1> USE TurnsAssumption DEF Flags, Kinds, Placed, Paid, Unspent, Analyzing, Reserved, Used, Demand, Cancel, Reset, Finish, On, CountAttempt, IndexDone,
        checkpoint, scheduler, analyzer, index, turns
<1>1. CASE Refuse
  BY <1>1 DEF Refuse
<1>2. CASE BeginTick
  BY <1>2 DEF BeginTick
<1>3. CASE Status
  BY <1>3 DEF Status
<1>4. CASE Attempt
  BY <1>4 DEF Attempt
<1>5. CASE Rows
  BY <1>5 DEF Rows
<1>6. CASE Deferred
  BY <1>6 DEF Deferred
<1>7. CASE Settled
  BY <1>7 DEF Settled
<1>8. CASE TickFails
  BY <1>8 DEF TickFails
<1>9. CASE Manual
  BY <1>9 DEF Manual
<1>10. CASE Stopped
  BY <1>10 DEF Stopped
<1>11. CASE Detail
  BY <1>11 DEF Detail
<1>12. CASE Answer
  BY <1>12 DEF Answer
<1>13. CASE Save
  BY <1>13 DEF Save
<1>14. CASE Linger
  BY <1>14 DEF Linger
<1>15. CASE IndexTimer
  BY <1>15 DEF IndexTimer
<1>16. CASE IndexSource
  BY <1>16 DEF IndexSource
<1>17. CASE IndexModel
  BY <1>17 DEF IndexModel
<1>18. CASE Pause
  BY <1>18 DEF Pause
<1>19. CASE WriteControl
  BY <1>19 DEF WriteControl
<1>20. CASE Speak
  BY <1>20 DEF Speak
<1>21. CASE Converse
  BY <1>21 DEF Converse
<1>22. CASE HangUp
  BY <1>22 DEF HangUp
<1>23. CASE Toggle
  BY <1>23 DEF Toggle
<1>24. CASE Due
  BY <1>24 DEF Due
<1>25. CASE Hour
  BY <1>25 DEF Hour
<1>26. CASE TurnOver
  BY <1>26 DEF TurnOver
<1>27. CASE Crash
  BY <1>27 DEF Crash
<1>28. CASE UNCHANGED turnsVars
  BY <1>28 DEF turnsVars
<1>. QED
  BY <1>1, <1>2, <1>3, <1>4, <1>5, <1>6, <1>7, <1>8, <1>9, <1>10, <1>11, <1>12, <1>13, <1>14,
     <1>15, <1>16, <1>17, <1>18, <1>19, <1>20, <1>21, <1>22, <1>23, <1>24, <1>25, <1>26, <1>27, <1>28
     DEF TurnsNext, Tick, Analyze, Index

-----------------------------------------------------------------------------
(* The theorems.                                                            *)

LEMMA InitEstablishes == TurnsInit => IInv
<1> SUFFICES ASSUME TurnsInit PROVE IInv
  OBVIOUS
<1>1. Flags
  BY DEF TurnsInit, Flags
<1>2. Kinds
  BY TurnsAssumption DEF TurnsInit, Kinds
<1>3. Placed /\ KeptOut /\ Alone
  BY DEF TurnsInit, Placed, KeptOut, Alone, Reserved
<1>4. Paid
  BY TurnsAssumption DEF TurnsInit, Paid, Unspent, Used
<1>. QED BY <1>1, <1>2, <1>3, <1>4 DEF IInv

LEMMA NextKeeps == IInv /\ [TurnsNext]_turnsVars => IInv'
BY FlagsKept, KindsKept, PlacedKept, KeptOutKept, AloneKept, PaidKept DEF IInv

\* The inductive invariant holds throughout, whatever fairness adds.
THEOREM Invariance == TurnsSpec => []IInv
BY InitEstablishes, NextKeeps, PTL DEF TurnsSpec

\* Every handler leaves flags, timers and counts as the others rely on, and a tick
\* stands at its analysis exactly while the analysis is the scheduler's.
THEOREM TypeCorrect == TurnsSpec => []TypeOK
<1>1. IInv => TypeOK
  BY DEF IInv, Flags, Kinds, TypeOK
<1>. QED BY <1>1, Invariance, PTL

\* mailMemory.js, analyze and the index loop: no analysis waits for the model while the
\* index does, nor while another analysis's call, given up or not, has not settled.  (What
\* the index may overlap is a call that was given up: ProcessingIsSerial does not hold.)
THEOREM ModelCallsExclusive == TurnsSpec => []OneModelCall
<1>1. IInv => OneModelCall
  BY DEF IInv, KeptOut, OneModelCall
<1>. QED BY <1>1, Invariance, PTL

\* app.js, the intake of a conversation: once it goes on, nothing in the background
\* has the model, and nothing takes it before the conversation ends.
THEOREM ConversationsAlone == TurnsSpec => []TalkIsAlone
<1>1. IInv => TalkIsAlone
  BY DEF IInv, Alone, TalkIsAlone
<1>. QED BY <1>1, Invariance, PTL

\* mailScheduler.js, the hourly budget: over attempts given back, failed writes, deaths
\* and the change of the hour, an hour's calls are no more than its attempts.
THEOREM BudgetIsKept == TurnsSpec => []BudgetKept
<1>1. IInv => BudgetKept
  BY TurnsAssumption DEF IInv, Kinds, Paid, Used, BudgetKept
<1>. QED BY <1>1, Invariance, PTL
=============================================================================
