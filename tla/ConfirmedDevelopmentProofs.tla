--------------------- MODULE ConfirmedDevelopmentProofs ---------------------
(***************************************************************************)
(* Proofs about ConfirmedDevelopment, for any plans, requests, faults and    *)
(* deaths: types, one journaled development per plan, the exclusion of the   *)
(* two worker lanes, and what a cancelled execution leaves behind.           *)
(*                                                                           *)
(* The argument.  IInv ties the bridge to the row: what is asked of it, begun *)
(* there or on its files was first written on the plan's row (Journaled), and *)
(* the copy a flow holds may be stale in anything but that (Held).  StopInv   *)
(* ties the row to the bridge: what has ended there stays ended (Grows), a    *)
(* coding run of the delegation starts only through an approval that the      *)
(* delegation sent, which then knows the run (Executing), and an answer that  *)
(* names an end is on the bridge's files (Told).                              *)
(***************************************************************************)
EXTENDS ConfirmedDevelopment, TLAPS

Beginning == {"start", "recipe"}
Registering == {"registering", "starting"}
Stopping == {"stopRead", "stopCancel", "stopPause", "stopPoll"}
DelegationOps == {"getTask", "getWork", "approveTask", "prepare", "approveWork",
                  "cancelTask", "cancelWork"}

\* Two rows tell the same about what was asked of the bridge.
Same(a, b) == /\ a.maker = b.maker
              /\ a.draft = "none" <=> b.draft = "none"
              /\ a.recipe = "none" <=> b.recipe = "none"

\* A row has one development, and a delegated one was consented to.
Sound(r) == /\ r.maker = "delegate" => r.execution # "none"
            /\ r.draft # "none" => r.maker # "none"
            /\ r.draft = "none" \/ r.recipe = "none"

Intended(r, maker) == IF maker = "recipe" THEN r.recipe # "none"
                                          ELSE r.draft # "none" /\ r.maker = maker

\* What is asked, begun and on the bridge's files has its intent on the row.
Journaled ==
    /\ \A p \in Plan : /\ Sound(row[p]) /\ begun[p] <= 1
                       /\ begun[p] > 0 => ~Undeveloped(row[p])
    /\ \A q \in net : /\ q.op = "start" => q.job[2] # "recipe"
                      /\ q.op = "recipe" => q.job[2] = "recipe"
                      /\ q.op \in Beginning => /\ Intended(row[q.job[1]], q.job[2])
                                               /\ begun[q.job[1]] = 0
    /\ \A j \in Job : /\ task[j] # "none" => j[2] # "recipe" /\ Intended(row[j[1]], j[2])
                      /\ j[2] = "recipe" /\ work[j] # "none" => row[j[1]].recipe # "none"

\* The flow that holds the slot: its copy may be stale, but not in what was asked.
Held ==
    /\ slot.flow = "none" => slot = Free /\ asking["slot"] = NoRequest
    /\ slot.flow # "none" => /\ slot.plan \in Plan
                             /\ Same(slot.copy, row[slot.plan]) /\ Sound(slot.copy)
    /\ slot.flow = "delegate" => /\ delegation.at \in Registering
                                 /\ slot.plan = delegation.plan
                                 /\ slot.copy.execution # "none"
    /\ delegation.at \in Registering => slot.flow = "delegate"
    /\ asking["slot"] # NoRequest
          => /\ slot.flow \in {"register", "recipe", "refresh"}
             /\ IF slot.flow = "recipe" THEN slot.copy.recipe # "none"
                                        ELSE slot.copy.draft # "none"
    /\ slot.flow \in {"register", "recipe"} /\ asking["slot"] = NoRequest
          => Undeveloped(slot.copy)
    /\ delegation.at = "registering" => Undeveloped(slot.copy)
    /\ delegation.at = "starting" => slot.copy.draft # "none"
    /\ answer["slot"] # "none" => asking["slot"] # NoRequest

Placed ==
    /\ delegation = Idle \/ (delegation.plan \in Plan /\ delegation.at \in Points)
    /\ delegation.at \in Stopping => delegation.verdict # "none"

Lanes == /\ \A j \in Job : task[j] = "drafting" => lane = j
         /\ OneWorkerAtATime

IInv == TypeOK /\ Placed /\ Held /\ Journaled /\ Lanes

-----------------------------------------------------------------------------

LEMMA NoJobIsNone == NoJob \notin Job
  BY DevelopmentSentinel DEF NoJob, Job

LEMMA FreeIsSlot == Free \in Slot /\ Free.flow = "none"
  BY DEF Free, Slot, NoRow, Row, Executions

LEMMA InitIInv == Init => IInv
<1>. SUFFICES ASSUME Init PROVE IInv
  OBVIOUS
<1>1. TypeOK
  BY DEF Init, TypeOK, NoRow, Row, Free, Slot, Flows, Idle, Delegation, Executions, Points,
         Side, NoRequest, Answers, Request, Ops, TaskStates, WorkStates
<1>2. Placed
  BY DEF Init, Placed, Idle, Stopping
<1>3. Held
  BY DEF Init, Held, Free, Idle, Side, NoRequest, Registering
<1>4. Journaled
  BY DEF Init, Journaled, Sound, NoRow, Undeveloped, Job
<1>5. Lanes
  BY DEF Init, Lanes, OneWorkerAtATime, Coding
<1>. QED BY <1>1, <1>2, <1>3, <1>4, <1>5 DEF IInv

\* The rows keep what they tell, and no new development is asked of the bridge.
RowsKept == \A p \in Plan : Same(row'[p], row[p]) /\ Sound(row'[p])

NothingNew == \A q \in net' : q \in net \/ q.op \notin Beginning

LEMMA JournalKept ==
    ASSUME TypeOK, Journaled, row' \in [Plan -> Row], RowsKept, NothingNew,
           net' \subseteq Request, UNCHANGED <<task, work, begun>>
    PROVE  Journaled'
<1>1. \A q \in net' : q.job[1] \in Plan /\ q.job[2] \in Makers
  BY DEF Request, Job
<1>2. \A p \in Plan, m \in Makers : Intended(row'[p], m) <=> Intended(row[p], m)
  BY DEF RowsKept, Same, Intended
<1>3. \A p \in Plan : Undeveloped(row'[p]) <=> Undeveloped(row[p])
  BY DEF RowsKept, Same, Undeveloped
<1>4. (\A p \in Plan : /\ Sound(row[p]) /\ begun[p] <= 1
                       /\ begun[p] > 0 => ~Undeveloped(row[p]))'
  BY <1>3 DEF Journaled, RowsKept, Sound, Undeveloped
<1>5. (\A q \in net : /\ q.op = "start" => q.job[2] # "recipe"
                      /\ q.op = "recipe" => q.job[2] = "recipe"
                      /\ q.op \in Beginning => /\ Intended(row[q.job[1]], q.job[2])
                                               /\ begun[q.job[1]] = 0)'
  <2>. SUFFICES ASSUME NEW q \in net'
                PROVE  /\ q.op = "start" => q.job[2] # "recipe"
                       /\ q.op = "recipe" => q.job[2] = "recipe"
                       /\ q.op \in Beginning => /\ Intended(row'[q.job[1]], q.job[2])
                                                /\ begun[q.job[1]] = 0
    BY DEF Intended, Beginning
  <2>1. CASE q \in net
    BY <2>1, <1>1, <1>2 DEF Journaled
  <2>2. CASE q.op \notin Beginning
    BY <2>2 DEF Beginning
  <2>. QED BY <2>1, <2>2 DEF NothingNew
<1>6. (\A j \in Job : /\ task[j] # "none" => j[2] # "recipe" /\ Intended(row[j[1]], j[2])
                      /\ j[2] = "recipe" /\ work[j] # "none" => row[j[1]].recipe # "none")'
  <2>. SUFFICES ASSUME NEW j \in Job
                PROVE  /\ task[j] # "none" => j[2] # "recipe" /\ Intended(row'[j[1]], j[2])
                       /\ j[2] = "recipe" /\ work[j] # "none" => row'[j[1]].recipe # "none"
    BY DEF Intended
  <2>1. j[1] \in Plan /\ j[2] \in Makers
    BY DEF Job
  <2>. QED BY <2>1, <1>2 DEF Journaled, RowsKept, Same
<1>. QED BY <1>4, <1>5, <1>6 DEF Journaled

LEMMA LanesKept ==
    ASSUME Lanes, UNCHANGED <<task, work, lane>>
    PROVE  Lanes'
  BY DEF Lanes, OneWorkerAtATime, Coding

-----------------------------------------------------------------------------
(* The delegation.  Each of its steps continues as d with the row r.          *)

Continues(d, r) ==
    /\ \E x \in Executions : /\ r.execution # "none" => x # "none"
                             /\ row' = [row EXCEPT ![d.plan] = [r EXCEPT !.execution = x]]
    /\ delegation' \in Delegation
    /\ \/ delegation' = Idle
       \/ delegation'.plan = d.plan /\ delegation'.at \in Points \ Registering
    /\ delegation'.at \in Stopping => delegation'.verdict # "none"
    /\ asking' \in [Side -> Request \cup {NoRequest}] /\ asking'["slot"] = asking["slot"]
    /\ answer' \in [Side -> Answers \cup {"none"}] /\ answer'["slot"] = answer["slot"]
    /\ net' \subseteq Request /\ NothingNew

LEMMA WaitsContinues ==
    ASSUME TypeOK, NEW d \in Delegation, d.plan \in Plan, NEW r \in Row,
           NEW at \in Points \ Registering, NEW op \in DelegationOps,
           at \in Stopping => d.verdict # "none", Waits(d, r, at, op)
    PROVE  Continues(d, r)
<1>1. [op |-> op, job |-> <<d.plan, "delegate">>] \in Request
  BY DEF Request, Ops, Reads, DelegationOps, Job, Makers
<1>2. r.execution \in Executions /\ r = [r EXCEPT !.execution = r.execution]
  BY DEF Row
<1>3. delegation' = [d EXCEPT !.at = at] /\ delegation' \in Delegation
  BY DEF Waits, Delegation
<1>4. delegation'.at = at /\ delegation'.plan = d.plan /\ delegation'.verdict = d.verdict
  BY <1>3 DEF Delegation
<1>5. /\ asking' \in [Side -> Request \cup {NoRequest}] /\ asking'["slot"] = asking["slot"]
      /\ answer' \in [Side -> Answers \cup {"none"}] /\ answer'["slot"] = answer["slot"]
      /\ net' \subseteq Request /\ NothingNew
  BY <1>1 DEF Waits, Sends, TypeOK, Side, NothingNew, Beginning, DelegationOps
<1>. QED BY <1>2, <1>3, <1>4, <1>5 DEF Continues, Waits

LEMMA RestsContinues ==
    ASSUME TypeOK, Rests("delegation")
    PROVE  /\ asking' \in [Side -> Request \cup {NoRequest}] /\ asking'["slot"] = asking["slot"]
           /\ answer' \in [Side -> Answers \cup {"none"}] /\ answer'["slot"] = answer["slot"]
           /\ net' \subseteq Request /\ NothingNew
  BY DEF Rests, TypeOK, Side, NothingNew

LEMMA EndsContinues ==
    ASSUME TypeOK, NEW d \in Delegation, NEW r \in Row, NEW x \in Executions \ {"none"},
           Ends(d, r, x)
    PROVE  Continues(d, r)
<1>1. delegation' = Idle /\ Idle \in Delegation /\ Idle.at \notin Stopping
  BY DEF Ends, Idle, Delegation, Points, Stopping
<1>2. Rests("delegation")
  BY DEF Ends
<1>. QED BY <1>1, <1>2, RestsContinues DEF Continues, Ends

LEMMA PausesContinues ==
    ASSUME TypeOK, delegation.plan \in Plan, NEW at \in {"pauseTask", "pauseWork", "stopPause"},
           at = "stopPause" => delegation.verdict # "none", Pauses(delegation, at)
    PROVE  Continues(delegation, Own)
<1>1. /\ delegation' \in Delegation /\ delegation'.at = at
      /\ delegation'.plan = delegation.plan /\ delegation'.verdict = delegation.verdict
  BY DEF Pauses, TypeOK, Delegation, Points
<1>2. at \in Points \ Registering /\ (at \in Stopping => at = "stopPause")
  BY DEF Points, Registering, Stopping
<1>3. Own \in Row /\ Own.execution \in Executions
  BY DEF Own, TypeOK, Row
<1>4. row' = [row EXCEPT ![delegation.plan] = [Own EXCEPT !.execution = Own.execution]]
  BY <1>3 DEF Pauses, Own, TypeOK, Row
<1>5. Rests("delegation")
  BY DEF Pauses
<1>. QED BY <1>1, <1>2, <1>3, <1>4, <1>5, RestsContinues DEF Continues

LEMMA VerdictIsOne == ASSUME NEW d PROVE Verdict(d) \in {"cancelled", "needs_attention"}
  BY DEF Verdict

LEMMA FailsContinues ==
    ASSUME TypeOK, NEW d \in Delegation, d.plan \in Plan, NEW r \in Row,
           NEW stopping \in BOOLEAN, Fails(d, r, stopping)
    PROVE  Continues(d, r)
<1>1. CASE stopping /\ (d.task \/ d.work)
  <2>. DEFINE e == [d EXCEPT !.verdict = Verdict(d)]
  <2>1. e \in Delegation /\ e.plan = d.plan /\ e.verdict # "none"
    BY VerdictIsOne DEF Delegation
  <2>2. \E op \in {"getWork", "getTask"} : Waits(e, r, "stopRead", op)
    BY <1>1 DEF Fails
  <2>3. PICK op \in {"getWork", "getTask"} : Waits(e, r, "stopRead", op)
    BY <2>2
  <2>4. op \in DelegationOps /\ "stopRead" \in Points \ Registering
    BY DEF DelegationOps, Points, Registering
  <2>5. Continues(e, r)
    BY <2>1, <2>3, <2>4, WaitsContinues
  <2>. QED BY <2>1, <2>5 DEF Continues
<1>2. CASE ~(stopping /\ (d.task \/ d.work))
  <2>1. \E x \in {"cancelled", "needs_attention"} : Ends(d, r, x)
    BY <1>2, VerdictIsOne DEF Fails
  <2>. QED BY <2>1, EndsContinues DEF Executions
<1>. QED BY <1>1, <1>2

LEMMA CallsContinues ==
    ASSUME TypeOK, NEW d \in Delegation, d.plan \in Plan, NEW r \in Row,
           NEW at \in Points \ (Registering \cup Stopping), NEW op \in DelegationOps,
           Calls(d, r, at, op)
    PROVE  Continues(d, r)
<1>1. CASE Withdrawn(d)
  BY <1>1, FailsContinues DEF Calls
<1>2. CASE ~Withdrawn(d) /\ r.execution # "active"
  BY <1>2, FailsContinues DEF Calls
<1>3. CASE ~Withdrawn(d) /\ r.execution = "active"
  BY <1>3, WaitsContinues DEF Calls
<1>. QED BY <1>1, <1>2, <1>3

\* What the delegation does to the rest: it keeps the slot, or gives it back.
LEMMA DelegationKeeps ==
    ASSUME IInv, NEW d \in Delegation, NEW r \in Row, delegation.plan \in Plan,
           d.plan = delegation.plan, Same(r, Own), Sound(r), Continues(d, r),
           \/ slot' = slot /\ delegation.at \notin Registering
           \/ slot' = Free /\ delegation.at \in Registering,
           UNCHANGED <<confirming, bridge, begun, faults, deaths>>, unread' \in SUBSET Plan
    PROVE  IInv'
<1>. USE DEF IInv, bridge
<1>1. PICK x \in Executions :
         /\ r.execution # "none" => x # "none"
         /\ row' = [row EXCEPT ![d.plan] = [r EXCEPT !.execution = x]]
  BY DEF Continues
<1>2. [r EXCEPT !.execution = x] \in Row /\ Same([r EXCEPT !.execution = x], Own)
      /\ Sound([r EXCEPT !.execution = x])
  BY <1>1 DEF Row, Same, Sound
<1>3. row' \in [Plan -> Row] /\ RowsKept
  <2>1. row' \in [Plan -> Row]
    BY <1>1, <1>2 DEF TypeOK
  <2>2. ASSUME NEW p \in Plan PROVE Same(row'[p], row[p]) /\ Sound(row'[p])
    <3>1. CASE p = d.plan
      <4>1. row'[p] = [r EXCEPT !.execution = x]
        BY <1>1, <3>1 DEF TypeOK
      <4>. QED BY <4>1, <3>1, <1>2 DEF Own
    <3>2. CASE p # d.plan
      <4>1. row'[p] = row[p]
        BY <1>1, <3>2 DEF TypeOK
      <4>. QED BY <4>1 DEF Same, Journaled
    <3>. QED BY <3>1, <3>2
  <2>. QED BY <2>1, <2>2 DEF RowsKept
<1>4. slot' \in Slot
  BY FreeIsSlot DEF TypeOK
<1>5. TypeOK'
  BY <1>3, <1>4 DEF TypeOK, Continues
<1>6. Placed'
  BY DEF Placed, Continues
<1>7. delegation'.at \notin Registering
  BY DEF Continues, Idle, Registering
<1>8. Held'
  <2>1. CASE slot' = slot /\ delegation.at \notin Registering
    <3>1. slot.flow # "none" => Same(slot.copy, row'[slot.plan])
      BY <1>3 DEF Held, RowsKept, Same
    <3>. QED BY <2>1, <3>1, <1>7 DEF Held, Continues, Registering, Undeveloped, Same, Sound
  <2>2. CASE slot' = Free /\ delegation.at \in Registering
    <3>1. asking["slot"] = NoRequest /\ answer["slot"] = "none"
      BY <2>2 DEF Held, TypeOK, Side
    <3>. QED BY <2>2, <3>1, <1>7 DEF Held, Continues, Free, Registering
  <2>. QED BY <2>1, <2>2
<1>9. Journaled'
  BY <1>3, JournalKept DEF Continues
<1>. QED BY <1>5, <1>6, <1>8, <1>9, LanesKept

\* A step that keeps the slot.
LEMMA DelegationContinues ==
    ASSUME IInv, delegation.at \in Points \ Registering, NEW d \in Delegation,
           d.plan = delegation.plan, Continues(d, Own),
           UNCHANGED <<slot, confirming, bridge, begun, faults, deaths>>, unread' \in SUBSET Plan
    PROVE  IInv'
<1>1. delegation.plan \in Plan
  BY DEF IInv, Placed, Idle, Points
<1>2. Own \in Row /\ Same(Own, Own) /\ Sound(Own)
  BY <1>1 DEF IInv, TypeOK, Own, Same, Journaled
<1>. QED BY <1>1, <1>2, DelegationKeeps

LEMMA HereIs ==
    ASSUME IInv, NEW at, Here(at), at \subseteq Points
    PROVE  delegation.at \in at /\ delegation.plan \in Plan /\ delegation \in Delegation
  BY DEF IInv, Placed, Here, Idle, Points, TypeOK

LEMMA OwnIsRow == ASSUME TypeOK, delegation.plan \in Plan PROVE Own \in Row
  BY DEF TypeOK, Own

LEMMA RegistrationFailsKeeps == ASSUME IInv, RegistrationFails PROVE IInv'
<1>1. delegation.at \in Registering
  BY DEF RegistrationFails, ReadsSource, Here, Registering
<1>2. delegation.plan \in Plan /\ delegation \in Delegation /\ delegation.stopped \in BOOLEAN
  BY <1>1 DEF IInv, Placed, Idle, Registering, TypeOK, Delegation
<1>3. Own \in Row /\ Same(Own, Own) /\ Sound(Own)
  BY <1>2 DEF IInv, TypeOK, Own, Same, Journaled
<1>4. Continues(delegation, Own)
  BY <1>2, <1>3, FailsContinues DEF RegistrationFails, IInv
<1>. QED BY <1>1, <1>2, <1>3, <1>4, DelegationKeeps DEF RegistrationFails, counts, IInv, TypeOK

LEMMA DraftStartedKeeps == ASSUME IInv, DraftStarted PROVE IInv'
<1>. DEFINE d == [delegation EXCEPT !.task = TRUE]
            r == [slot.copy EXCEPT !.draft = "linked"]
<1>1. delegation.at = "starting" /\ delegation.at \in Registering
  BY DEF DraftStarted, Here, Registering
<1>2. delegation.plan \in Plan /\ delegation \in Delegation
  BY <1>1 DEF IInv, Placed, Idle, TypeOK
<1>3. d \in Delegation /\ d.plan = delegation.plan
  BY <1>2 DEF Delegation
<1>4. /\ slot.copy \in Row /\ slot.copy.draft # "none" /\ slot.plan = delegation.plan
      /\ Same(slot.copy, row[slot.plan]) /\ Sound(slot.copy)
  BY <1>1 DEF IInv, Held, TypeOK, Slot, Registering
<1>5. r \in Row /\ Same(r, Own) /\ Sound(r)
  BY <1>4 DEF Row, Same, Sound, Own
<1>6. "readTask" \in Points \ (Registering \cup Stopping) /\ "getTask" \in DelegationOps
  BY DEF Points, Registering, Stopping, DelegationOps
<1>7. Continues(d, r)
  BY <1>2, <1>3, <1>5, <1>6, CallsContinues DEF DraftStarted, IInv
<1>. QED BY <1>1, <1>2, <1>3, <1>5, <1>7, DelegationKeeps DEF DraftStarted, counts, IInv, TypeOK

LEMMA UnansweredKeeps == ASSUME IInv, Unanswered PROVE IInv'
<1>. DEFINE at == {"readTask", "approveTask", "prepare", "approveWork", "readWork"}
<1>1. at \subseteq Points /\ at \cap Registering = {}
  BY DEF Points, Registering
<1>2. delegation.at \in at /\ delegation.plan \in Plan /\ delegation \in Delegation
  BY <1>1, HereIs DEF Unanswered
<1>3. delegation.stopped \in BOOLEAN
  BY <1>2 DEF Delegation
<1>4. Continues(delegation, Own)
  BY <1>2, <1>3, OwnIsRow, FailsContinues DEF Unanswered, IInv
<1>. QED BY <1>1, <1>2, <1>4, DelegationContinues DEF Unanswered, counts, IInv, TypeOK

\* The end of a child ends the execution.
LEMMA ChildStoppedContinues ==
    ASSUME TypeOK, delegation.plan \in Plan, ChildStopped(delegation)
    PROVE  Continues(delegation, Own)
<1>1. \E x \in Executions \ {"none"} : Ends(delegation, Own, x)
  BY DEF ChildStopped, Executions
<1>. QED BY <1>1, OwnIsRow, EndsContinues DEF TypeOK

LEMMA TaskReadKeeps == ASSUME IInv, TaskRead PROVE IInv'
<1>1. {"readTask"} \subseteq Points \ Registering
  BY DEF Points, Registering
<1>2. delegation.at \in Points \ Registering /\ delegation.plan \in Plan
      /\ delegation \in Delegation
  BY <1>1, HereIs DEF TaskRead
<1>3. Own \in Row
  BY <1>2, OwnIsRow DEF IInv
<1>4. Continues(delegation, Own)
  <2>1. CASE Fails(delegation, Own, TRUE)
    BY <2>1, <1>2, <1>3, FailsContinues DEF IInv
  <2>2. CASE Pauses(delegation, "pauseTask")
    BY <2>2, <1>2, PausesContinues DEF IInv
  <2>3. CASE Calls(delegation, Own, "approveTask", "approveTask")
    <3>1. "approveTask" \in Points \ (Registering \cup Stopping) /\ "approveTask" \in DelegationOps
      BY DEF Points, Registering, Stopping, DelegationOps
    <3>. QED BY <2>3, <3>1, <1>2, <1>3, CallsContinues DEF IInv
  <2>4. CASE ChildStopped(delegation)
    BY <2>4, <1>2, ChildStoppedContinues DEF IInv
  <2>. QED BY <2>1, <2>2, <2>3, <2>4 DEF TaskRead
<1>. QED BY <1>2, <1>4, DelegationContinues DEF TaskRead, counts, IInv, TypeOK

LEMMA TaskRegisteredKeeps == ASSUME IInv, TaskRegistered PROVE IInv'
<1>1. /\ {"approveTask"} \subseteq Points \ Registering
      /\ "prepare" \in Points \ (Registering \cup Stopping) /\ "prepare" \in DelegationOps
  BY DEF Points, Registering, Stopping, DelegationOps
<1>2. delegation.at \in Points \ Registering /\ delegation.plan \in Plan
      /\ delegation \in Delegation
  BY <1>1, HereIs DEF TaskRegistered
<1>3. Own \in Row
  BY <1>2, OwnIsRow DEF IInv
<1>4. Continues(delegation, Own)
  BY <1>1, <1>2, <1>3, CallsContinues DEF TaskRegistered, IInv
<1>. QED BY <1>2, <1>4, DelegationContinues DEF TaskRegistered, counts, IInv, TypeOK

LEMMA WorkPreparedKeeps == ASSUME IInv, WorkPrepared PROVE IInv'
<1>. DEFINE d == [delegation EXCEPT !.work = TRUE]
<1>1. /\ {"prepare"} \subseteq Points \ Registering
      /\ "approveWork" \in Points \ (Registering \cup Stopping)
      /\ "approveWork" \in DelegationOps
  BY DEF Points, Registering, Stopping, DelegationOps
<1>2. delegation.at \in Points \ Registering /\ delegation.plan \in Plan
      /\ delegation \in Delegation
  BY <1>1, HereIs DEF WorkPrepared
<1>3. Own \in Row /\ d \in Delegation /\ d.plan = delegation.plan
  BY <1>2, OwnIsRow DEF IInv, Delegation
<1>4. Continues(d, Own)
  BY <1>1, <1>2, <1>3, CallsContinues DEF WorkPrepared, IInv
<1>. QED BY <1>2, <1>3, <1>4, DelegationContinues DEF WorkPrepared, counts, IInv, TypeOK

LEMMA WorkReadKeeps == ASSUME IInv, WorkRead PROVE IInv'
<1>1. {"approveWork", "readWork"} \subseteq Points \ Registering
  BY DEF Points, Registering
<1>2. delegation.at \in Points \ Registering /\ delegation.plan \in Plan
      /\ delegation \in Delegation
  BY <1>1, HereIs DEF WorkRead
<1>3. Own \in Row
  BY <1>2, OwnIsRow DEF IInv
<1>4. Continues(delegation, Own)
  <2>1. CASE Fails(delegation, Own, TRUE)
    BY <2>1, <1>2, <1>3, FailsContinues DEF IInv
  <2>2. CASE Pauses(delegation, "pauseWork")
    BY <2>2, <1>2, PausesContinues DEF IInv
  <2>3. CASE Ends(delegation, Own, "completed")
    BY <2>3, <1>2, <1>3, EndsContinues DEF IInv, Executions
  <2>4. CASE ChildStopped(delegation)
    BY <2>4, <1>2, ChildStoppedContinues DEF IInv
  <2>. QED BY <2>1, <2>2, <2>3, <2>4 DEF WorkRead
<1>. QED BY <1>2, <1>4, DelegationContinues DEF WorkRead, counts, IInv, TypeOK

LEMMA WakesKeeps == ASSUME IInv, Wakes PROVE IInv'
<1>1. /\ delegation.at \in {"pauseTask", "pauseWork", "stopPause"}
      /\ delegation.at = "stopPause" => delegation.verdict # "none"
  BY DEF Wakes, IInv, Placed, Stopping
<1>2. delegation.at \in Points \ Registering /\ delegation.plan \in Plan
      /\ delegation \in Delegation
  BY <1>1 DEF Points, Registering, IInv, Placed, Idle, TypeOK
<1>3. Own \in Row
  BY <1>2, OwnIsRow DEF IInv
<1>4. /\ {"readTask", "readWork"} \subseteq Points \ (Registering \cup Stopping)
      /\ "stopPoll" \in Points \ Registering
      /\ {"getTask", "getWork"} \subseteq DelegationOps
  BY DEF Points, Registering, Stopping, DelegationOps
<1>5. Continues(delegation, Own)
  <2>1. CASE Calls(delegation, Own, "readTask", "getTask")
    BY <2>1, <1>2, <1>3, <1>4, CallsContinues DEF IInv
  <2>2. CASE Calls(delegation, Own, "readWork", "getWork")
    BY <2>2, <1>2, <1>3, <1>4, CallsContinues DEF IInv
  <2>3. CASE delegation.at = "stopPause"
    <3>1. \E op \in {"getWork", "getTask"} : Waits(delegation, Own, "stopPoll", op)
      BY <2>3 DEF Wakes
    <3>. QED BY <3>1, <2>3, <1>1, <1>2, <1>3, <1>4, WaitsContinues DEF IInv
  <2>. QED BY <2>1, <2>2, <2>3 DEF Wakes
<1>. QED BY <1>2, <1>5, DelegationContinues DEF Wakes, counts, IInv, TypeOK

\* What a stop records is the verdict it was begun with, or the need for attention.
LEMMA StopEnds ==
    ASSUME IInv, delegation.at \in Stopping, delegation.plan \in Plan,
           \/ Ends(delegation, Own, delegation.verdict)
           \/ Ends(delegation, Own, "needs_attention")
    PROVE  Continues(delegation, Own)
<1>1. delegation.verdict \in Executions \ {"none"} /\ delegation \in Delegation
  BY DEF IInv, Placed, TypeOK, Delegation, Executions
<1>. QED BY <1>1, OwnIsRow, EndsContinues DEF IInv, Executions

LEMMA StopReadKeeps == ASSUME IInv, StopRead PROVE IInv'
<1>1. /\ {"stopRead"} \subseteq Points \ Registering /\ "stopCancel" \in Points \ Registering
      /\ {"cancelWork", "cancelTask"} \subseteq DelegationOps /\ "stopRead" \in Stopping
  BY DEF Points, Registering, DelegationOps, Stopping
<1>2. /\ delegation.at \in Points \ Registering /\ delegation.plan \in Plan
      /\ delegation \in Delegation /\ delegation.at \in Stopping
  BY <1>1, HereIs DEF StopRead
<1>3. Own \in Row /\ delegation.verdict # "none"
  BY <1>2, OwnIsRow DEF IInv, Placed
<1>4. Continues(delegation, Own)
  <2>1. CASE Said \in Stoppable
    <3>0. Said # "rejected"
      BY <2>1 DEF Stoppable
    <3>1. \E op \in {"cancelWork", "cancelTask"} : Waits(delegation, Own, "stopCancel", op)
      BY <2>1, <3>0 DEF StopRead
    <3>. QED BY <3>1, <1>1, <1>2, <1>3, WaitsContinues DEF IInv
  <2>2. CASE Said \notin Stoppable
    BY <2>2, <1>2, StopEnds DEF StopRead
  <2>. QED BY <2>1, <2>2
<1>5. unread' \in SUBSET Plan
  BY <1>2 DEF StopRead, IInv, TypeOK
<1>. QED BY <1>2, <1>4, <1>5, DelegationContinues DEF StopRead

LEMMA StopAnsweredKeeps == ASSUME IInv, StopAnswered PROVE IInv'
<1>1. {"stopCancel", "stopPoll"} \subseteq (Points \ Registering) \cap Stopping
  BY DEF Points, Registering, Stopping
<1>2. /\ delegation.at \in Points \ Registering /\ delegation.plan \in Plan
      /\ delegation.at \in Stopping /\ delegation \in Delegation
  BY <1>1, HereIs DEF StopAnswered
<1>3. delegation.verdict # "none"
  BY <1>2 DEF IInv, Placed
<1>4. Continues(delegation, Own)
  <2>1. CASE Pauses(delegation, "stopPause")
    BY <2>1, <1>2, <1>3, PausesContinues DEF IInv
  <2>2. CASE ~Pauses(delegation, "stopPause")
    BY <2>2, <1>2, StopEnds DEF StopAnswered
  <2>. QED BY <2>1, <2>2
<1>. QED BY <1>2, <1>4, DelegationContinues DEF StopAnswered, counts, IInv, TypeOK

LEMMA DelegationStepKeeps == ASSUME IInv, DelegationStep PROVE IInv'
  BY RegistrationFailsKeeps, DraftStartedKeeps, UnansweredKeeps, TaskReadKeeps,
     TaskRegisteredKeeps, WorkPreparedKeeps, WorkReadKeeps, WakesKeeps, StopReadKeeps,
     StopAnsweredKeeps
     DEF DelegationStep

-----------------------------------------------------------------------------
(* The slot, and what the Owner asks of the backend.                          *)

LEMMA SameRow == ASSUME IInv PROVE \A p \in Plan : Same(row[p], row[p]) /\ Sound(row[p])
  BY DEF IInv, Same, Journaled

\* A step that writes no row and asks nothing that begins a development.
LEMMA NoRowWritten ==
    ASSUME IInv, row' = row, net' \subseteq Request, NothingNew,
           UNCHANGED <<bridge, begun>>
    PROVE  Journaled' /\ Lanes'
<1>1. row' \in [Plan -> Row] /\ RowsKept
  BY SameRow DEF IInv, TypeOK, RowsKept
<1>. QED BY <1>1, JournalKept, LanesKept DEF IInv, bridge

LEMMA PlanCompletesKeeps == ASSUME IInv, NEW p \in Plan, PlanCompletes(p) PROVE IInv'
<1>. DEFINE r == [row[p] EXCEPT !.completed = TRUE]
<1>1. r \in Row /\ Same(r, row[p]) /\ Same(r, r) /\ Sound(r)
  BY DEF IInv, TypeOK, Row, Same, Sound, Journaled
<1>2. row' = [row EXCEPT ![p] = r] /\ row'[p] = r
  BY DEF PlanCompletes, IInv, TypeOK, Row
<1>3. row' \in [Plan -> Row] /\ RowsKept
  BY <1>1, <1>2, SameRow DEF IInv, TypeOK, RowsKept
<1>4. /\ slot' \in Slot /\ slot'.flow = "planner" /\ slot'.plan = p /\ slot'.copy = r
      /\ slot.flow = "none"
  BY <1>1, <1>2 DEF PlanCompletes, Slot, Flows, Free
<1>5. TypeOK' /\ Placed'
  BY <1>3, <1>4 DEF PlanCompletes, IInv, TypeOK, Placed, bridge, counts
<1>6. Held'
  BY <1>1, <1>2, <1>4 DEF PlanCompletes, IInv, Held, Registering
<1>7. Journaled' /\ Lanes'
  BY <1>3, JournalKept, LanesKept
     DEF PlanCompletes, IInv, NothingNew, bridge, counts, TypeOK
<1>. QED BY <1>5, <1>6, <1>7 DEF IInv

LEMMA PlanFiledKeeps == ASSUME IInv, PlanFiled PROVE IInv'
<1>1. /\ slot.plan \in Plan /\ slot.copy \in Row /\ Same(slot.copy, row[slot.plan])
      /\ Sound(slot.copy)
  BY DEF PlanFiled, IInv, Held, TypeOK, Slot
<1>2. row' \in [Plan -> Row] /\ RowsKept
  BY <1>1, SameRow DEF PlanFiled, IInv, TypeOK, RowsKept
<1>3. TypeOK' /\ Placed'
  BY <1>2, FreeIsSlot DEF PlanFiled, IInv, TypeOK, Placed, bridge, counts
<1>4. Held'
  BY FreeIsSlot DEF PlanFiled, IInv, Held, Registering
<1>5. Journaled' /\ Lanes'
  BY <1>2, JournalKept, LanesKept
     DEF PlanFiled, IInv, NothingNew, bridge, counts, TypeOK
<1>. QED BY <1>3, <1>4, <1>5 DEF IInv

LEMMA OwnerAsksKeeps ==
    ASSUME IInv, NEW p \in Plan, NEW flow \in {"register", "recipe"}, OwnerAsks(p, flow)
    PROVE  IInv'
<1>1. /\ slot' \in Slot /\ slot'.flow = flow /\ slot'.plan = p /\ slot'.copy = row[p]
      /\ slot.flow = "none"
  BY DEF OwnerAsks, IInv, TypeOK, Slot, Flows, Free
<1>2. TypeOK' /\ Placed'
  BY <1>1 DEF OwnerAsks, IInv, TypeOK, Placed, bridge, counts
<1>3. Held'
  BY <1>1, SameRow DEF OwnerAsks, IInv, Held, Registering
<1>4. Journaled' /\ Lanes'
  BY NoRowWritten DEF OwnerAsks, IInv, NothingNew, counts, TypeOK
<1>. QED BY <1>2, <1>3, <1>4 DEF IInv

LEMMA RefreshAsksKeeps == ASSUME IInv, NEW p \in Plan, RefreshAsks(p) PROVE IInv'
<1>1. /\ slot' \in Slot /\ slot'.flow = "refresh" /\ slot'.plan = p /\ slot'.copy = row[p]
      /\ slot.flow = "none" /\ row[p].draft = "pending"
  BY DEF RefreshAsks, IInv, TypeOK, Slot, Flows, Free
<1>2. row[p].maker \in Makers
  BY <1>1, SameRow DEF IInv, TypeOK, Row, Makers, Sound
<1>3. [op |-> "find", job |-> <<p, row[p].maker>>] \in Request
  BY <1>2 DEF Request, Ops, Reads, Job
<1>4. /\ asking' \in [Side -> Request \cup {NoRequest}]
      /\ answer' \in [Side -> Answers \cup {"none"}] /\ answer'["slot"] = "none"
      /\ net' \subseteq Request /\ NothingNew
  BY <1>3 DEF RefreshAsks, Sends, IInv, TypeOK, NothingNew, Beginning, Side
<1>5. TypeOK' /\ Placed'
  BY <1>1, <1>4 DEF RefreshAsks, IInv, TypeOK, Placed, bridge, counts
<1>6. Held'
  BY <1>1, <1>4, SameRow DEF RefreshAsks, IInv, Held, Registering
<1>7. Journaled' /\ Lanes'
  BY <1>4, NoRowWritten DEF RefreshAsks, counts
<1>. QED BY <1>5, <1>6, <1>7 DEF IInv

LEMMA SourceConfirmedKeeps == ASSUME IInv, SourceConfirmed PROVE IInv'
<1>. DEFINE r == Marked(slot.copy)
            p == slot.plan
            op == IF slot.flow = "recipe" THEN "recipe" ELSE "start"
            q == [op |-> op, job |-> <<p, slot.flow>>]
            side == IF slot.flow = "delegate" THEN "delegation" ELSE "slot"
<1>1. slot.flow \in Makers
  BY DEF SourceConfirmed, ReadsSource, Makers
<1>2. p \in Plan /\ slot.copy \in Row /\ Same(slot.copy, row[p]) /\ Sound(slot.copy)
  BY <1>1 DEF IInv, Held, TypeOK, Slot, Makers
<1>3. Undeveloped(slot.copy) /\ Undeveloped(row[p])
  <2>1. Undeveloped(slot.copy)
    BY DEF SourceConfirmed, ReadsSource, IInv, Held
  <2>. QED BY <2>1, <1>2 DEF Undeveloped, Same
<1>4. r \in Row /\ Sound(r) /\ Same(r, r) /\ Intended(r, slot.flow) /\ ~Undeveloped(r)
  <2>1. CASE slot.flow = "recipe"
    BY <2>1, <1>2, <1>3 DEF Marked, Row, Sound, Same, Intended, Undeveloped
  <2>2. CASE slot.flow # "recipe"
    <3>1. slot.flow = "delegate" => slot.copy.execution # "none"
      BY DEF IInv, Held
    <3>. QED BY <2>2, <3>1, <1>1, <1>2, <1>3
             DEF Marked, Row, Sound, Same, Intended, Undeveloped, Makers
  <2>. QED BY <2>1, <2>2
<1>5. /\ row' = [row EXCEPT ![p] = r] /\ slot' = [slot EXCEPT !.copy = r]
      /\ UNCHANGED <<confirming, bridge, counts>>
      /\ asking' = [asking EXCEPT ![side] = q] /\ answer' = [answer EXCEPT ![side] = "none"]
      /\ net' = net \cup {q}
  BY DEF SourceConfirmed, Sends
<1>6. q \in Request /\ q.op \in Beginning /\ q.job = <<p, slot.flow>>
  BY <1>1, <1>2 DEF Request, Ops, Job, Beginning
<1>7. /\ slot' \in Slot /\ slot'.flow = slot.flow /\ slot'.plan = p /\ slot'.copy = r
  BY <1>4, <1>5 DEF IInv, TypeOK, Slot
<1>8. row' \in [Plan -> Row] /\ row'[p] = r /\ \A o \in Plan \ {p} : row'[o] = row[o]
  BY <1>2, <1>4, <1>5 DEF IInv, TypeOK
<1>9. /\ asking' \in [Side -> Request \cup {NoRequest}]
      /\ answer' \in [Side -> Answers \cup {"none"}]
      /\ slot.flow # "delegate" => asking'["slot"] = q /\ answer'["slot"] = "none"
      /\ slot.flow = "delegate" => asking'["slot"] = asking["slot"]
                                   /\ answer'["slot"] = answer["slot"]
  BY <1>5, <1>6 DEF IInv, TypeOK, Side
<1>10. /\ delegation' \in Delegation
       /\ slot.flow = "delegate" => /\ delegation.plan \in Plan
                                    /\ delegation'.plan = delegation.plan
                                    /\ delegation'.at = "starting"
       /\ slot.flow # "delegate" => delegation' = delegation
  BY DEF SourceConfirmed, IInv, TypeOK, Delegation, Points, Held, Placed, Registering, Idle
<1>11. TypeOK'
  BY <1>5, <1>6, <1>7, <1>8, <1>9, <1>10 DEF IInv, TypeOK, bridge, counts
<1>12. Placed'
  BY <1>10 DEF IInv, Placed, Points, Stopping
<1>13. Held'
  <2>1. CASE slot.flow = "delegate"
    <3>1. asking["slot"] = NoRequest /\ answer["slot"] = "none"
      BY <2>1 DEF IInv, Held, TypeOK, Side
    <3>2. r.execution # "none" /\ r.draft # "none"
      BY <2>1, <1>2 DEF Marked, IInv, Held, Row
    <3>. QED BY <2>1, <3>1, <3>2, <1>2, <1>4, <1>7, <1>8, <1>9, <1>10
             DEF Held, IInv, Registering
  <2>2. CASE slot.flow # "delegate"
    <3>1. asking'["slot"] # NoRequest /\ answer'["slot"] = "none"
      BY <2>2, <1>6, <1>9 DEF NoRequest, Beginning
    <3>2. IF slot.flow = "recipe" THEN r.recipe # "none" ELSE r.draft # "none"
      BY <1>2 DEF Marked, Row
    <3>. QED BY <2>2, <3>1, <3>2, <1>1, <1>2, <1>4, <1>7, <1>8, <1>10
             DEF Held, IInv, Makers, Registering
  <2>. QED BY <2>1, <2>2
<1>14. Journaled'
  <2>1. begun[p] = 0
    BY <1>2, <1>3 DEF IInv, TypeOK, Journaled
  <2>2. \A m \in Makers : ~Intended(row[p], m)
    BY <1>3 DEF Intended, Undeveloped
  <2>3. ASSUME NEW o \in Plan
        PROVE  /\ Sound(row'[o]) /\ begun'[o] <= 1
               /\ begun'[o] > 0 => ~Undeveloped(row'[o])
    BY <1>4, <1>5, <1>8, <2>1 DEF IInv, Journaled, counts, TypeOK
  <2>4. ASSUME NEW k \in net'
        PROVE  /\ k.op = "start" => k.job[2] # "recipe"
               /\ k.op = "recipe" => k.job[2] = "recipe"
               /\ k.op \in Beginning => /\ Intended(row'[k.job[1]], k.job[2])
                                        /\ begun'[k.job[1]] = 0
    <3>1. CASE k = q
      BY <3>1, <1>4, <1>5, <1>6, <1>8, <2>1 DEF counts
    <3>2. CASE k \in net
      <4>1. k.job[1] \in Plan /\ k.job[2] \in Makers
        BY <3>2 DEF IInv, TypeOK, Request, Job
      <4>2. k.op \in Beginning => k.job[1] # p
        BY <3>2, <2>2, <4>1 DEF IInv, Journaled
      <4>3. k.op \in Beginning => row'[k.job[1]] = row[k.job[1]]
        BY <4>1, <4>2, <1>8
      <4>. QED BY <3>2, <4>3, <1>5 DEF IInv, Journaled, counts
    <3>. QED BY <3>1, <3>2, <1>5
  <2>5. ASSUME NEW j \in Job
        PROVE  /\ task'[j] # "none" => j[2] # "recipe" /\ Intended(row'[j[1]], j[2])
               /\ j[2] = "recipe" /\ work'[j] # "none" => row'[j[1]].recipe # "none"
    <3>1. j[1] \in Plan /\ j[2] \in Makers
      BY DEF Job
    <3>2. CASE j[1] = p
      <4>1. ~Intended(row[p], j[2]) /\ row[p].recipe = "none"
        BY <2>2, <3>1, <1>3 DEF Undeveloped
      <4>. QED BY <4>1, <3>2, <1>5 DEF IInv, Journaled, bridge
    <3>3. CASE j[1] # p
      <4>1. row'[j[1]] = row[j[1]]
        BY <3>1, <3>3, <1>8
      <4>. QED BY <4>1, <1>5 DEF IInv, Journaled, bridge
    <3>. QED BY <3>2, <3>3
  <2>. QED BY <2>3, <2>4, <2>5 DEF Journaled
<1>15. Lanes'
  BY <1>5, LanesKept DEF IInv, bridge
<1>. QED BY <1>11, <1>12, <1>13, <1>14, <1>15 DEF IInv

LEMMA SourceChangedKeeps == ASSUME IInv, SourceChanged PROVE IInv'
<1>1. slot.flow \in {"register", "recipe"} /\ asking["slot"] = NoRequest
  BY DEF SourceChanged, ReadsSource, IInv, Held, Registering
<1>2. TypeOK' /\ Placed'
  BY FreeIsSlot DEF SourceChanged, IInv, TypeOK, Placed, bridge, counts
<1>3. Held'
  BY <1>1, FreeIsSlot DEF SourceChanged, IInv, Held, Registering
<1>4. Journaled' /\ Lanes'
  BY NoRowWritten DEF SourceChanged, IInv, NothingNew, counts, TypeOK
<1>. QED BY <1>2, <1>3, <1>4 DEF IInv

LEMMA SlotAnsweredKeeps == ASSUME IInv, SlotAnswered PROVE IInv'
<1>1. /\ asking["slot"] # NoRequest /\ slot.flow \in {"register", "recipe", "refresh"}
      /\ slot.plan \in Plan /\ slot.copy \in Row
      /\ Same(slot.copy, row[slot.plan]) /\ Sound(slot.copy)
      /\ IF slot.flow = "recipe" THEN slot.copy.recipe # "none" ELSE slot.copy.draft # "none"
  BY DEF SlotAnswered, Answered, IInv, Held, TypeOK, Slot
<1>2. row' \in [Plan -> Row] /\ RowsKept
  <2>1. CASE row' = row
    BY <2>1, SameRow DEF IInv, TypeOK, RowsKept
  <2>2. CASE row' # row
    <3>. DEFINE r == IF slot.flow = "recipe" THEN [slot.copy EXCEPT !.recipe = "prepared"]
                                             ELSE [slot.copy EXCEPT !.draft = "linked"]
    <3>1. row' = [row EXCEPT ![slot.plan] = r]
      BY <2>2 DEF SlotAnswered
    <3>2. r \in Row /\ Same(r, row[slot.plan]) /\ Sound(r)
      BY <1>1 DEF Row, Same, Sound
    <3>. QED BY <1>1, <3>1, <3>2, SameRow DEF IInv, TypeOK, RowsKept
  <2>. QED BY <2>1, <2>2
<1>3. /\ asking' \in [Side -> Request \cup {NoRequest}] /\ asking'["slot"] = NoRequest
      /\ answer' \in [Side -> Answers \cup {"none"}] /\ answer'["slot"] = "none"
      /\ net' = net
  BY DEF SlotAnswered, Rests, IInv, TypeOK, Side
<1>4. TypeOK' /\ Placed'
  BY <1>2, <1>3, FreeIsSlot DEF SlotAnswered, IInv, TypeOK, Placed, bridge, counts
<1>5. Held'
  BY <1>1, <1>3, FreeIsSlot DEF SlotAnswered, IInv, Held, Registering
<1>6. Journaled' /\ Lanes'
  BY <1>2, <1>3, JournalKept, LanesKept
     DEF SlotAnswered, IInv, NothingNew, bridge, counts, TypeOK
<1>. QED BY <1>4, <1>5, <1>6 DEF IInv

LEMMA SlotStepKeeps == ASSUME IInv, SlotStep PROVE IInv'
  BY PlanFiledKeeps, SourceConfirmedKeeps, SourceChangedKeeps, SlotAnsweredKeeps DEF SlotStep

LEMMA OnPlanKeeps == ASSUME IInv, NEW p \in Plan, OnPlan(p) PROVE IInv'
<1>1. CASE ConfirmAsked(p)
  <2>1. TypeOK' /\ Placed' /\ Held'
    BY <1>1 DEF ConfirmAsked, IInv, TypeOK, Placed, Held, bridge, counts
  <2>2. Journaled' /\ Lanes'
    BY <1>1, NoRowWritten DEF ConfirmAsked, IInv, NothingNew, counts, TypeOK
  <2>. QED BY <2>1, <2>2 DEF IInv
<1>. QED BY <1>1, PlanCompletesKeeps, RefreshAsksKeeps, OwnerAsksKeeps DEF OnPlan

LEMMA ConfirmRefusedKeeps == ASSUME IInv, ConfirmRefused PROVE IInv'
<1>1. TypeOK' /\ Placed' /\ Held'
  BY DEF ConfirmRefused, IInv, TypeOK, Placed, Held, bridge, counts
<1>2. Journaled' /\ Lanes'
  BY NoRowWritten DEF ConfirmRefused, IInv, NothingNew, counts, TypeOK
<1>. QED BY <1>1, <1>2 DEF IInv

LEMMA ConfirmGrantedKeeps == ASSUME IInv, ConfirmGranted PROVE IInv'
<1>. DEFINE p == confirming
            r == [row[p] EXCEPT !.execution = "active"]
            a == [r EXCEPT !.execution = "needs_attention"]
<1>1. p \in Plan /\ row[p] \in Row
  BY DEF ConfirmGranted, IInv, TypeOK
<1>2. /\ r \in Row /\ Same(r, row[p]) /\ Same(r, r) /\ Sound(r) /\ r.execution = "active"
      /\ a \in Row /\ Same(a, row[p]) /\ Sound(a)
  <2>1. Sound(row[p])
    BY <1>1, SameRow
  <2>. QED BY <1>1, <2>1 DEF Row, Same, Sound, Executions
<1>3. \E x \in {r, a} : row' = [row EXCEPT ![p] = x]
  BY DEF ConfirmGranted
<1>4. row' \in [Plan -> Row] /\ RowsKept
  BY <1>1, <1>2, <1>3, SameRow DEF IInv, TypeOK, RowsKept
<1>5. /\ Journaled' /\ Lanes'
  BY <1>4, JournalKept, LanesKept
     DEF ConfirmGranted, IInv, NothingNew, bridge, counts, TypeOK
<1>6. CASE slot = Free /\ Undeveloped(r)
  <2>1. /\ slot' = [flow |-> "delegate", plan |-> p, copy |-> r]
        /\ delegation' = [Idle EXCEPT !.plan = p, !.at = "registering"]
        /\ row' = [row EXCEPT ![p] = r] /\ confirming' = NoPlan
        /\ UNCHANGED <<asking, answer, net, bridge, counts>>
    BY <1>6 DEF ConfirmGranted
  <2>2. slot' \in Slot /\ row'[p] = r
    BY <1>1, <1>2, <2>1 DEF Slot, Flows, IInv, TypeOK
  <2>3. /\ delegation' \in Delegation /\ delegation'.at = "registering" /\ delegation'.plan = p
    BY <1>1, <2>1 DEF Idle, Delegation, Points
  <2>4. TypeOK' /\ Placed'
    BY <1>1, <1>4, <2>1, <2>2, <2>3 DEF IInv, TypeOK, Placed, Points, Stopping, bridge, counts
  <2>5. asking["slot"] = NoRequest
    BY <1>6, FreeIsSlot DEF IInv, Held
  <2>6. Held'
    BY <1>1, <1>2, <1>6, <2>1, <2>2, <2>3, <2>5 DEF IInv, Held, Registering
  <2>. QED BY <1>5, <2>4, <2>6 DEF IInv
<1>7. CASE ~(slot = Free /\ Undeveloped(r))
  <2>1. UNCHANGED <<slot, delegation, asking, answer, net, bridge, counts>> /\ confirming' = NoPlan
    BY <1>7 DEF ConfirmGranted
  <2>2. TypeOK' /\ Placed'
    BY <1>4, <2>1 DEF IInv, TypeOK, Placed, bridge, counts
  <2>3. slot.flow # "none" => Same(slot.copy, row'[slot.plan])
    BY <1>4 DEF IInv, Held, RowsKept, Same
  <2>4. Held'
    BY <2>1, <2>3 DEF IInv, Held
  <2>. QED BY <1>5, <2>2, <2>4 DEF IInv
<1>. QED BY <1>6, <1>7

\* A stop and the passing of time only set flags of the running execution.
LEMMA FlagsKeep ==
    ASSUME IInv, delegation' \in Delegation, delegation # Idle,
           delegation'.plan = delegation.plan, delegation'.at = delegation.at,
           delegation'.verdict = delegation.verdict,
           UNCHANGED <<row, slot, confirming, asking, answer, net, bridge, counts>>
    PROVE  IInv'
<1>1. TypeOK' /\ Placed' /\ Held'
  BY DEF IInv, TypeOK, Placed, Held, bridge, counts
<1>2. Journaled' /\ Lanes'
  BY NoRowWritten DEF IInv, NothingNew, counts, TypeOK
<1>. QED BY <1>1, <1>2 DEF IInv

LEMMA StopKeeps == ASSUME IInv, Stop PROVE IInv'
<1>1. /\ delegation' \in Delegation /\ delegation # Idle
      /\ delegation'.plan = delegation.plan /\ delegation'.at = delegation.at
      /\ delegation'.verdict = delegation.verdict
  BY DEF Stop, IInv, TypeOK, Delegation
<1>. QED BY <1>1, FlagsKeep DEF Stop

LEMMA TimePassesKeeps == ASSUME IInv, TimePasses PROVE IInv'
<1>0. Idle.at = "none"
  BY DEF Idle
<1>1. /\ delegation' \in Delegation /\ delegation # Idle
      /\ delegation'.plan = delegation.plan /\ delegation'.at = delegation.at
      /\ delegation'.verdict = delegation.verdict
  BY <1>0 DEF TimePasses, IInv, TypeOK, Delegation
<1>. QED BY <1>1, FlagsKeep DEF TimePasses

LEMMA RejectedKeeps == ASSUME IInv, NEW s \in Side, Rejected(s) PROVE IInv'
<1>1. /\ net' \subseteq net /\ answer' \in [Side -> Answers \cup {"none"}]
      /\ answer'["slot"] # "none" => asking["slot"] # NoRequest
  BY DEF Rejected, IInv, TypeOK, Held, Side, Answers
<1>2. TypeOK' /\ Placed' /\ Held'
  BY <1>1 DEF Rejected, IInv, TypeOK, Placed, Held, bridge, counts
<1>3. Journaled' /\ Lanes'
  BY <1>1, NoRowWritten DEF Rejected, IInv, NothingNew, counts, TypeOK
<1>. QED BY <1>2, <1>3 DEF IInv

LEMMA BackendDiesKeeps == ASSUME IInv, BackendDies PROVE IInv'
<1>1. row' \in [Plan -> Row] /\ RowsKept
  <2>1. ASSUME NEW p \in Plan
        PROVE  row'[p] \in Row /\ Same(row'[p], row[p]) /\ Sound(row'[p])
    <3>1. row[p] \in Row /\ Sound(row[p])
      BY SameRow DEF IInv, TypeOK
    <3>2. \/ row'[p] = row[p]
          \/ row'[p] = [row[p] EXCEPT !.execution = "interrupted"]
      BY DEF BackendDies
    <3>. QED BY <3>1, <3>2 DEF Row, Executions, Same, Sound
  <2>. QED BY <2>1 DEF BackendDies, RowsKept
<1>2. /\ asking' \in [Side -> Request \cup {NoRequest}] /\ asking'["slot"] = NoRequest
      /\ answer' \in [Side -> Answers \cup {"none"}] /\ answer'["slot"] = "none"
      /\ net' \subseteq net
  BY DEF BackendDies, Side
<1>3. Idle \in Delegation /\ Idle.at = "none"
  BY DEF Idle, Delegation
<1>4. TypeOK' /\ Placed'
  BY <1>1, <1>2, <1>3, FreeIsSlot
     DEF BackendDies, IInv, TypeOK, Placed, Stopping, bridge, counts
<1>5. Held'
  BY <1>2, <1>3, FreeIsSlot DEF BackendDies, Held, Registering
<1>6. Journaled' /\ Lanes'
  BY <1>1, <1>2, JournalKept, LanesKept
     DEF BackendDies, IInv, NothingNew, bridge, counts, TypeOK
<1>. QED BY <1>4, <1>5, <1>6 DEF IInv

-----------------------------------------------------------------------------
(* The bridge.                                                                *)

\* A bridge step leaves the backend alone, but for an answer that is waited for.
BackendKept ==
    /\ UNCHANGED <<row, slot, confirming, delegation, asking>>
    /\ answer' \in [Side -> Answers \cup {"none"}]
    /\ answer'["slot"] # "none" => asking["slot"] # NoRequest
    /\ net' \subseteq net

LEMMA AnswerMatters ==
    ASSUME IInv, NEW q \in net, NEW value \in Answers, Replies(q, value)
    PROVE  BackendKept /\ net' = net \ {q}
<1>1. NoRequest \notin Request
  BY DEF NoRequest, Request, Ops, Reads
<1>2. SideOf(q) \in Side
  BY DEF SideOf, Side
<1>3. answer' \in [Side -> Answers \cup {"none"}]
  BY <1>2 DEF Replies, IInv, TypeOK
<1>4. answer'["slot"] # "none" => asking["slot"] # NoRequest
  BY <1>1, <1>2 DEF Replies, IInv, TypeOK, Held, Side
<1>. QED BY <1>3, <1>4 DEF Replies, BackendKept

LEMMA BackendHeld == ASSUME IInv, BackendKept PROVE Placed' /\ Held'
  BY DEF IInv, BackendKept, Placed, Held

\* The files of the bridge: nothing appears there but by a development that begins.
FilesKept ==
    /\ task' \in [Job -> TaskStates] /\ work' \in [Job -> WorkStates]
    /\ \A j \in Job : /\ task'[j] # "none" => task[j] # "none"
                      /\ j[2] = "recipe" /\ work'[j] # "none" => work[j] # "none"

LEMMA FilesJournaled ==
    ASSUME IInv, BackendKept, FilesKept, begun' = begun
    PROVE  Journaled'
  BY DEF IInv, BackendKept, FilesKept, Journaled, Intended, Sound, Undeveloped, Beginning

LEMMA BridgeKeeps ==
    ASSUME IInv, BackendKept, FilesKept, Lanes', begun' = begun,
           asked' \in SUBSET Job, seal' \in [Job -> {"none", "delegate", "owner"}],
           lane' \in Job \cup {NoJob}, aborted' \in SUBSET Job,
           faults' \in Nat, deaths' \in Nat, unread' \in SUBSET Plan
    PROVE  IInv'
<1>1. TypeOK'
  BY DEF IInv, TypeOK, BackendKept, FilesKept
<1>. QED BY <1>1, BackendHeld, FilesJournaled DEF IInv

\* A development that begins: its request was the only one of the plan.
LEMMA BeginsJournaled ==
    ASSUME IInv, NEW q \in net, q.op \in Beginning, BackendKept, net' = net \ {q},
           begun' = [begun EXCEPT ![q.job[1]] = @ + 1],
           \A j \in Job \ {q.job} : task'[j] = task[j] /\ work'[j] = work[j],
           q.op = "start" => work' = work,
           q.op = "recipe" => task' = task
    PROVE  Journaled'
<1>1. q \in Request /\ q.job \in Job /\ q.job[1] \in Plan /\ q.job[2] \in Makers
  BY DEF IInv, TypeOK, Request, Job
<1>2. /\ Intended(row[q.job[1]], q.job[2]) /\ begun[q.job[1]] = 0
      /\ q.op = "start" => q.job[2] # "recipe"
      /\ q.op = "recipe" => q.job[2] = "recipe"
  BY DEF IInv, Journaled
<1>3. begun' \in [Plan -> Nat] /\ begun'[q.job[1]] = 1
      /\ \A p \in Plan \ {q.job[1]} : begun'[p] = begun[p]
  BY <1>1, <1>2 DEF IInv, TypeOK
<1>4. row' = row
  BY DEF BackendKept
<1>5. ASSUME NEW p \in Plan
      PROVE  /\ Sound(row'[p]) /\ begun'[p] <= 1
             /\ begun'[p] > 0 => ~Undeveloped(row'[p])
  <2>1. CASE p = q.job[1]
    <3>1. ~Undeveloped(row[p])
      BY <2>1, <1>2 DEF Undeveloped, Intended
    <3>. QED BY <2>1, <3>1, <1>3, <1>4, SameRow
  <2>2. CASE p # q.job[1]
    BY <2>2, <1>3, <1>4 DEF IInv, Journaled
  <2>. QED BY <2>1, <2>2
<1>6. ASSUME NEW k \in net'
      PROVE  /\ k.op = "start" => k.job[2] # "recipe"
             /\ k.op = "recipe" => k.job[2] = "recipe"
             /\ k.op \in Beginning => /\ Intended(row'[k.job[1]], k.job[2])
                                      /\ begun'[k.job[1]] = 0
  <2>1. /\ k \in net /\ k # q /\ k \in Request /\ k.job \in Job
        /\ k.job[1] \in Plan /\ k.job[2] \in Makers
    BY DEF IInv, TypeOK, Request, Job
  <2>2. /\ k.op = "start" => k.job[2] # "recipe"
        /\ k.op = "recipe" => k.job[2] = "recipe"
        /\ k.op \in Beginning => /\ Intended(row[k.job[1]], k.job[2])
                                 /\ begun[k.job[1]] = 0
    BY <2>1 DEF IInv, Journaled
  <2>3. k.op \in Beginning => k.job[1] # q.job[1]
    <3>. SUFFICES ASSUME k.op \in Beginning, k.job[1] = q.job[1] PROVE FALSE
      OBVIOUS
    <3>1. k.job[2] = q.job[2]
      BY <1>1, <1>2, <2>1, <2>2, SameRow DEF Intended, Sound, Makers
    <3>2. k.op = q.op
      BY <3>1, <1>2, <2>2 DEF Beginning
    <3>3. k.job = q.job
      BY <3>1, <1>1, <2>1 DEF Job
    <3>. QED BY <3>2, <3>3, <1>1, <2>1 DEF Request
  <2>. QED BY <2>1, <2>2, <2>3, <1>3, <1>4
<1>7. ASSUME NEW j \in Job
      PROVE  /\ task'[j] # "none" => j[2] # "recipe" /\ Intended(row'[j[1]], j[2])
             /\ j[2] = "recipe" /\ work'[j] # "none" => row'[j[1]].recipe # "none"
  <2>1. CASE j = q.job
    BY <2>1, <1>2, <1>4 DEF IInv, Journaled, Beginning, Intended
  <2>2. CASE j # q.job
    BY <2>2, <1>4 DEF IInv, Journaled
  <2>. QED BY <2>1, <2>2
<1>. QED BY <1>5, <1>6, <1>7 DEF Journaled

LEMMA QuietIsIdle ==
    ASSUME IInv, Quiet
    PROVE  \A j \in Job : task[j] # "drafting" /\ work[j] # "running"
  BY NoJobIsNone DEF IInv, Lanes, Quiet, Coding

LEMMA JobOf == ASSUME IInv, NEW q \in net PROVE q \in Request /\ q.job \in Job
  BY DEF IInv, TypeOK, Request

LEMMA StartDraftKeeps == ASSUME IInv, NEW q \in net, StartDraft(q) PROVE IInv'
<1>1. q.job \in Job /\ q.job[1] \in Plan
  BY JobOf DEF Job
<1>2. Replies(q, "drafting") /\ "drafting" \in Answers
  BY DEF StartDraft, Begins, Answers, TaskStates
<1>3. BackendKept /\ net' = net \ {q}
  BY <1>2, AnswerMatters
<1>4. TypeOK'
  BY <1>1, <1>3 DEF StartDraft, Begins, IInv, TypeOK, BackendKept, TaskStates
<1>5. Journaled'
  BY <1>1, <1>3, BeginsJournaled DEF StartDraft, Begins, IInv, TypeOK, Beginning
<1>6. Lanes'
  BY <1>1, QuietIsIdle DEF StartDraft, IInv, TypeOK, Lanes, OneWorkerAtATime, Coding
<1>. QED BY <1>3, <1>4, <1>5, <1>6, BackendHeld DEF IInv

LEMMA PrepareRecipeKeeps == ASSUME IInv, NEW q \in net, PrepareRecipe(q) PROVE IInv'
<1>1. q.job \in Job /\ q.job[1] \in Plan
  BY JobOf DEF Job
<1>2. Replies(q, "awaiting_approval") /\ "awaiting_approval" \in Answers
  BY DEF PrepareRecipe, Begins, Answers, TaskStates
<1>3. BackendKept /\ net' = net \ {q}
  BY <1>2, AnswerMatters
<1>4. TypeOK'
  BY <1>1, <1>3 DEF PrepareRecipe, Begins, IInv, TypeOK, BackendKept, WorkStates
<1>5. Journaled'
  BY <1>1, <1>3, BeginsJournaled DEF PrepareRecipe, Begins, IInv, TypeOK, Beginning
<1>6. Lanes'
  BY <1>1, QuietIsIdle DEF PrepareRecipe, IInv, TypeOK, Lanes, OneWorkerAtATime, Coding
<1>. QED BY <1>3, <1>4, <1>5, <1>6, BackendHeld DEF IInv

LEMMA RegisterDraftKeeps == ASSUME IInv, NEW q \in net, RegisterDraft(q) PROVE IInv'
<1>1. q.job \in Job
  BY JobOf
<1>2. BackendKept
  BY AnswerMatters DEF RegisterDraft, Answers, TaskStates
<1>3. FilesKept
  BY <1>1 DEF RegisterDraft, IInv, TypeOK, FilesKept, TaskStates
<1>4. Lanes'
  BY <1>1 DEF RegisterDraft, IInv, TypeOK, Lanes, OneWorkerAtATime, Coding
<1>. QED BY <1>2, <1>3, <1>4, BridgeKeeps DEF RegisterDraft, IInv, TypeOK, counts

LEMMA NoRecipeDraft == ASSUME IInv, NEW j \in Job, task[j] # "none" PROVE j[2] # "recipe"
  BY DEF IInv, Journaled

LEMMA PrepareWorkKeeps == ASSUME IInv, NEW q \in net, PrepareWork(q) PROVE IInv'
<1>1. q.job \in Job /\ q.job[2] # "recipe"
  BY JobOf, NoRecipeDraft DEF PrepareWork
<1>2. BackendKept
  BY AnswerMatters DEF PrepareWork, Answers, TaskStates
<1>3. FilesKept
  BY <1>1 DEF PrepareWork, IInv, TypeOK, FilesKept, WorkStates
<1>4. Lanes'
  BY <1>1, QuietIsIdle DEF PrepareWork, IInv, TypeOK, Lanes, OneWorkerAtATime, Coding
<1>5. /\ asked' \in SUBSET Job /\ seal' \in [Job -> {"none", "delegate", "owner"}]
      /\ UNCHANGED <<task, lane, aborted, counts>>
  BY <1>1 DEF PrepareWork, IInv, TypeOK
<1>. QED BY <1>2, <1>3, <1>4, <1>5, BridgeKeeps DEF IInv, TypeOK, counts

LEMMA StartCodingKeeps == ASSUME IInv, NEW q \in net, StartCoding(q) PROVE IInv'
<1>1. q.job \in Job
  BY JobOf
<1>2. BackendKept
  BY AnswerMatters DEF StartCoding, Answers, WorkStates
<1>3. FilesKept
  BY <1>1 DEF StartCoding, IInv, TypeOK, FilesKept, WorkStates
<1>4. Lanes'
  BY <1>1, QuietIsIdle
     DEF StartCoding, Quiet, IInv, TypeOK, Lanes, OneWorkerAtATime, Coding
<1>. QED BY <1>2, <1>3, <1>4, BridgeKeeps DEF StartCoding, IInv, TypeOK, counts

LEMMA CancelsFiles ==
    ASSUME IInv, NEW j \in Job, NEW lanes, Cancels(j, lanes), lane' = lane
    PROVE  FilesKept /\ Lanes' /\ aborted' \in SUBSET Job
<1>1. FilesKept /\ aborted' \in SUBSET Job
  BY DEF Cancels, IInv, TypeOK, FilesKept, TaskStates, WorkStates
<1>2. Lanes'
  BY DEF Cancels, IInv, TypeOK, Lanes, OneWorkerAtATime, Coding
<1>. QED BY <1>1, <1>2

LEMMA CancelKeeps == ASSUME IInv, NEW q \in net, Cancel(q) PROVE IInv'
<1>1. q.job \in Job
  BY JobOf
<1>2. PICK lanes \in {"task", "work"} : Cancels(q.job, lanes)
  BY DEF Cancel
<1>3. FilesKept /\ Lanes' /\ aborted' \in SUBSET Job
  BY <1>1, <1>2, CancelsFiles DEF Cancel
<1>4. task'[q.job] \in Answers /\ work'[q.job] \in Answers
  BY <1>1, <1>3 DEF FilesKept, Answers
<1>5. BackendKept
  BY <1>4, AnswerMatters DEF Cancel
<1>. QED BY <1>3, <1>5, BridgeKeeps DEF Cancel, IInv, TypeOK, counts

\* A request that changes nothing on the bridge.
LEMMA AnswerKeeps ==
    ASSUME IInv, BackendKept, UNCHANGED <<bridge, begun>>, faults' \in Nat, deaths' \in Nat,
           unread' \in SUBSET Plan
    PROVE  IInv'
<1>1. FilesKept /\ Lanes'
  BY LanesKept DEF IInv, TypeOK, FilesKept, bridge
<1>. QED BY <1>1, BridgeKeeps DEF IInv, TypeOK, bridge

LEMMA ReadKeeps == ASSUME IInv, NEW q \in net, Read(q) PROVE IInv'
<1>1. q.job \in Job
  BY JobOf
<1>2. task[q.job] \in Answers /\ work[q.job] \in Answers /\ "absent" \in Answers
  BY <1>1 DEF IInv, TypeOK, Answers
<1>3. BackendKept
  BY <1>2, AnswerMatters DEF Read
<1>. QED BY <1>3, AnswerKeeps DEF Read, IInv, TypeOK, counts

LEMMA HandleKeeps == ASSUME IInv, NEW q \in net, Handle(q) PROVE IInv'
<1>1. "error" \in Answers
  BY DEF Answers
<1>2. CASE Declines(q)
  BY <1>1, <1>2, AnswerMatters, AnswerKeeps DEF Declines, IInv, TypeOK, counts
<1>3. CASE ReadFails(q)
  BY <1>1, <1>3, AnswerMatters, AnswerKeeps DEF ReadFails, IInv, TypeOK
<1>. QED BY <1>2, <1>3, StartDraftKeeps, PrepareRecipeKeeps, RegisterDraftKeeps,
            PrepareWorkKeeps, StartCodingKeeps, CancelKeeps, ReadKeeps DEF Handle

\* What happens on the bridge by itself answers nobody.
LEMMA NobodyAnswered == ASSUME IInv, UNCHANGED <<backend, net>> PROVE BackendKept
  BY DEF IInv, TypeOK, Held, backend, BackendKept

LEMMA OnBridgeKeeps == ASSUME IInv, NEW j \in Job, OnBridge(j) PROVE IInv'
<1>1. BackendKept
  BY NobodyAnswered DEF OnBridge, DraftEnds, CodingEnds, OwnerRegisters, OwnerPrepares,
                        OwnerApproves, OwnerCancels
<1>2. CASE DraftEnds(j)
  <2>1. FilesKept /\ lane' \in Job \cup {NoJob} /\ aborted' \in SUBSET Job
    BY <1>2 DEF DraftEnds, IInv, TypeOK, FilesKept, TaskStates
  <2>2. task'[j] # "drafting" /\ (\A i \in Job \ {j} : task'[i] = task[i])
        /\ lane = j /\ lane' \in {NoJob, j} /\ work' = work
    BY <1>2 DEF DraftEnds, IInv, TypeOK, Lanes
  <2>3. Lanes'
    BY <2>2, NoJobIsNone DEF IInv, Lanes, OneWorkerAtATime, Coding
  <2>. QED BY <1>1, <1>2, <2>1, <2>3, BridgeKeeps DEF DraftEnds, IInv, TypeOK, counts
<1>3. CASE CodingEnds(j)
  <2>1. FilesKept /\ aborted' \in SUBSET Job
    BY <1>3 DEF CodingEnds, IInv, TypeOK, FilesKept, WorkStates
  <2>2. Lanes'
    BY <1>3 DEF CodingEnds, IInv, TypeOK, Lanes, OneWorkerAtATime, Coding
  <2>. QED BY <1>1, <1>3, <2>1, <2>2, BridgeKeeps DEF CodingEnds, IInv, TypeOK, counts
<1>4. CASE OwnerRegisters(j)
  <2>1. FilesKept
    BY <1>4 DEF OwnerRegisters, IInv, TypeOK, FilesKept, TaskStates
  <2>2. Lanes'
    BY <1>4 DEF OwnerRegisters, IInv, TypeOK, Lanes, OneWorkerAtATime, Coding
  <2>. QED BY <1>1, <1>4, <2>1, <2>2, BridgeKeeps DEF OwnerRegisters, IInv, TypeOK, counts
<1>5. CASE OwnerPrepares(j)
  <2>1. FilesKept
    BY <1>5, NoRecipeDraft DEF OwnerPrepares, IInv, TypeOK, FilesKept, WorkStates
  <2>2. Lanes'
    BY <1>5, QuietIsIdle DEF OwnerPrepares, IInv, TypeOK, Lanes, OneWorkerAtATime, Coding
  <2>3. /\ asked' \in SUBSET Job /\ seal' \in [Job -> {"none", "delegate", "owner"}]
        /\ UNCHANGED <<lane, aborted, counts>>
    BY <1>5 DEF OwnerPrepares, IInv, TypeOK
  <2>. QED BY <1>1, <2>1, <2>2, <2>3, BridgeKeeps DEF IInv, TypeOK, counts
<1>6. CASE OwnerApproves(j)
  <2>1. FilesKept
    BY <1>6 DEF OwnerApproves, IInv, TypeOK, FilesKept, WorkStates
  <2>2. Lanes'
    BY <1>6, QuietIsIdle
       DEF OwnerApproves, Quiet, IInv, TypeOK, Lanes, OneWorkerAtATime, Coding
  <2>. QED BY <1>1, <1>6, <2>1, <2>2, BridgeKeeps DEF OwnerApproves, IInv, TypeOK, counts
<1>7. CASE OwnerCancels(j)
  <2>1. \E lanes \in {"task", "work"} : Cancels(j, lanes)
    BY <1>7 DEF OwnerCancels
  <2>2. FilesKept /\ Lanes' /\ aborted' \in SUBSET Job
    BY <1>7, <2>1, CancelsFiles DEF OwnerCancels
  <2>. QED BY <1>1, <1>7, <2>2, BridgeKeeps DEF OwnerCancels, IInv, TypeOK, counts
<1>. QED BY <1>2, <1>3, <1>4, <1>5, <1>6, <1>7 DEF OnBridge

LEMMA ProvidersSettleKeeps == ASSUME IInv, ProvidersSettle PROVE IInv'
<1>1. BackendKept
  BY NobodyAnswered DEF ProvidersSettle
<1>2. FilesKept
  BY DEF ProvidersSettle, IInv, TypeOK, FilesKept
<1>3. Lanes'
  BY DEF ProvidersSettle, IInv, Lanes, OneWorkerAtATime, Coding
<1>. QED BY <1>1, <1>2, <1>3, BridgeKeeps DEF ProvidersSettle, IInv, TypeOK, counts

LEMMA BridgeDiesKeeps == ASSUME IInv, BridgeDies PROVE IInv'
<1>1. BackendKept
  BY DEF BridgeDies, IInv, TypeOK, Held, backend, BackendKept
<1>2. FilesKept
  BY DEF BridgeDies, IInv, TypeOK, FilesKept, TaskStates, WorkStates
<1>3. Lanes'
  BY DEF BridgeDies, Lanes, OneWorkerAtATime, Coding
<1>. QED BY <1>1, <1>2, <1>3, BridgeKeeps DEF BridgeDies, IInv, TypeOK

-----------------------------------------------------------------------------
(* The theorems.                                                              *)

LEMMA NextKeeps == ASSUME IInv, [Next]_vars PROVE IInv'
<1>1. CASE UNCHANGED vars
  <2>1. BackendKept
    BY <1>1, NobodyAnswered DEF vars
  <2>. QED BY <1>1, <2>1, AnswerKeeps DEF vars, counts, IInv, TypeOK
<1>. QED BY <1>1, OnPlanKeeps, SlotStepKeeps, ConfirmRefusedKeeps, ConfirmGrantedKeeps,
            DelegationStepKeeps, StopKeeps, TimePassesKeeps, RejectedKeeps, HandleKeeps,
            OnBridgeKeeps, ProvidersSettleKeeps, BackendDiesKeeps, BridgeDiesKeeps DEF Next

\* The inductive invariant: what is asked of the bridge, begun there and on its
\* files has its intent on the plan's row, and the slot's copy agrees with the row.
THEOREM Invariance == Spec => []IInv
<1>. QED BY InitIInv, NextKeeps, PTL DEF Spec

\* Every variable of ConfirmedDevelopment has its type, for any plans and requests.
THEOREM TypeCorrect == Spec => []TypeOK
<1>1. IInv => TypeOK
  BY DEF IInv
<1>. QED BY <1>1, Invariance, PTL

\* A plan is developed once, by hand or by delegation, and its row says who asked,
\* over any number of lost answers, late requests and deaths.
THEOREM DevelopedOnce == Spec => []OneJournaledDevelopment
<1>1. IInv => OneJournaledDevelopment
  <2>. SUFFICES ASSUME IInv, NEW p \in Plan
                PROVE  /\ begun[p] <= 1
                       /\ task[<<p, "register">>] # "none"
                            => row[p].draft # "none" /\ row[p].maker = "register"
                       /\ task[<<p, "delegate">>] # "none"
                            => /\ row[p].draft # "none" /\ row[p].maker = "delegate"
                               /\ row[p].execution # "none"
                       /\ work[<<p, "recipe">>] # "none" => row[p].recipe # "none"
    BY DEF OneJournaledDevelopment
  <2>1. \A m \in Makers : <<p, m>> \in Job /\ <<p, m>>[1] = p /\ <<p, m>>[2] = m
    BY DEF Job
  <2>2. {"register", "delegate", "recipe"} \subseteq Makers
    BY DEF Makers
  <2>3. Sound(row[p])
    BY SameRow
  <2>. QED BY <2>1, <2>2, <2>3 DEF IInv, Journaled, Intended, Sound
<1>. QED BY <1>1, Invariance, PTL

\* Two coding runs, or a draft's providers and a coding run, never work at once.
THEOREM WorkersExclusive == Spec => []OneWorkerAtATime
<1>1. IInv => OneWorkerAtATime
  BY DEF IInv, Lanes
<1>. QED BY <1>1, Invariance, PTL

-----------------------------------------------------------------------------
(* What a stop leaves behind.  A draft or a coding run that has come to an    *)
(* end stays there, and a coding run of the delegation starts only through an *)
(* approval that the delegation sent; it knows every child it approved.  So    *)
(* an execution recorded as cancelled after a truthful answer is safe.         *)

Delegated(p) == <<p, "delegate">>

TaskEnds == {"registered", "cancelled", "failed", "interrupted"}
WorkEnds == {"completed", "cancelled", "failed", "interrupted"}
TaskOps == {"start", "getTask", "approveTask", "cancelTask"}
WorkOps == {"getWork", "prepare", "approveWork", "cancelWork"}

\* An approval of the coding run is under way; the approved run codes.
Approving(j) == \E q \in net : q.op = "approveWork" /\ q.job = j
CodesFor(j) == work[j] = "running" /\ seal[j] = "delegate"

\* The files of the bridge about a delegated development.
Filed ==
    \A p \in Plan :
        LET j == Delegated(p)
        IN  /\ task[j] # "none" => begun[p] > 0
            /\ j \in asked => task[j] = "registered"
            /\ work[j] # "none" => j \in asked
            /\ Approving(j) => work[j] # "none"

\* Nothing of a delegated development is in progress, or can still begin.
SafeAs(r, p) ==
    LET j == Delegated(p)
    IN  /\ task[j] \in TaskEnds \/ ~Intended(r, "delegate")
        /\ work[j] \in WorkEnds \/ (~Approving(j) /\ ~CodesFor(j))

CancelledIsSafe ==
    \A p \in Plan \ unread : row[p].execution = "cancelled" => SafeAs(row[p], p)

\* What an answer says is on the bridge's files, and what is final is still so.
Truthful(op, j, value) ==
    /\ op \in TaskOps => /\ value \in TaskStates \cup {"error", "rejected"}
                         /\ value \in TaskStates \ {"none"} => task[j] # "none"
                         /\ value \in TaskEnds => task[j] = value
    /\ op \in WorkOps => /\ value \in WorkStates \cup {"error", "rejected"}
                         /\ value \in WorkStates \ {"none"} => work[j] # "none"
                         /\ value \in WorkEnds => work[j] = value

\* What the delegation has asked, by where it stands.
OpsAt(d) ==
    {op \in TaskOps \cup WorkOps :
        \/ d.at = "starting" /\ op = "start"
        \/ d.at = "readTask" /\ op = "getTask"
        \/ d.at = "readWork" /\ op = "getWork"
        \/ d.at \in {"approveTask", "prepare", "approveWork"} /\ op = d.at
        \/ d.at \in {"stopRead", "stopPoll"} /\ op = IF d.work THEN "getWork" ELSE "getTask"
        \/ d.at = "stopCancel" /\ op = IF d.work THEN "cancelWork" ELSE "cancelTask"}

\* The running execution: its row is its own, and it knows its children.
Executing ==
    delegation # Idle =>
        LET p == delegation.plan
            j == Delegated(p)
        IN  /\ row[p].execution = "active" /\ row[p].completed
            /\ delegation.at \in Registering =>
                  ~delegation.task /\ ~delegation.work /\ slot.copy.execution = "active"
            /\ delegation.at \notin Registering =>
                  delegation.task /\ row[p].draft = "linked" /\ slot.plan # p
            /\ delegation.task => task[j] # "none"
            /\ delegation.work => work[j] # "none"
            /\ ~delegation.work => ~Approving(j) /\ ~CodesFor(j)

\* What it asked and was told is about its own children.
Told ==
    /\ asking["delegation"] = NoRequest => answer["delegation"] = "none"
    /\ asking["delegation"] # NoRequest =>
          /\ delegation # Idle
          /\ asking["delegation"].op \in OpsAt(delegation)
          /\ asking["delegation"].job = Delegated(delegation.plan)
          /\ Answered("delegation") => Truthful(asking["delegation"].op,
                                               Delegated(delegation.plan),
                                               answer["delegation"])

\* A flow that holds the slot does not work on the plan being executed, and its
\* stale copy never turns an execution into a cancelled one.
Copied ==
    /\ slot.flow \notin {"none", "delegate"} =>
          /\ slot.plan # delegation.plan
          /\ slot.copy.execution = "cancelled" => row[slot.plan].execution = "cancelled"
    /\ slot.flow # "none" => slot.copy.completed
    /\ confirming # NoPlan => delegation = Idle /\ row[confirming].completed
    /\ \A p \in Plan : ~Undeveloped(row[p]) => row[p].completed

StopInv == Filed /\ Executing /\ Told /\ Copied /\ CancelledIsSafe

-----------------------------------------------------------------------------
(* Steps of the bridge.                                                       *)

\* What is final on the bridge stays, and no run codes that was not approved.
Grows ==
    \A p \in Plan :
        LET j == Delegated(p)
        IN  /\ task[j] # "none" => task'[j] # "none"
            /\ task[j] \in TaskEnds => task'[j] = task[j]
            /\ work[j] # "none" => work'[j] # "none"
            /\ work[j] \in WorkEnds => work'[j] = work[j]
            /\ ~Approving(j) /\ ~CodesFor(j) => ~CodesFor(j)'

FiledStill ==
    \A p \in Plan :
        LET j == Delegated(p)
        IN  /\ task'[j] # "none" => begun'[p] > 0
            /\ j \in asked' => task'[j] = "registered"
            /\ work'[j] # "none" => j \in asked'

LEMMA DelegatedJob ==
    ASSUME NEW p \in Plan
    PROVE  Delegated(p) \in Job /\ Delegated(p)[1] = p /\ Delegated(p)[2] = "delegate"
  BY DEF Delegated, Job, Makers

LEMMA NobodyApproves ==
    ASSUME \A q \in net' : q \in net \/ q.op # "approveWork", NEW j, Approving(j)'
    PROVE  Approving(j)
  BY DEF Approving

LEMMA BridgeRests ==
    ASSUME IInv, Filed, UNCHANGED <<bridge, begun>>
    PROVE  Grows /\ FiledStill
  BY DEF Filed, Grows, FiledStill, bridge, CodesFor

LEMMA FiledKept ==
    ASSUME Filed, Grows, FiledStill, \A q \in net' : q \in net \/ q.op # "approveWork"
    PROVE  Filed'
<1>. SUFFICES ASSUME NEW p \in Plan
              PROVE  /\ task'[Delegated(p)] # "none" => begun'[p] > 0
                     /\ Delegated(p) \in asked' => task'[Delegated(p)] = "registered"
                     /\ work'[Delegated(p)] # "none" => Delegated(p) \in asked'
                     /\ Approving(Delegated(p))' => work'[Delegated(p)] # "none"
  BY DEF Filed, Delegated
<1>1. Approving(Delegated(p))' => Approving(Delegated(p))
  BY NobodyApproves
<1>. QED BY <1>1 DEF Filed, Grows, FiledStill

\* A handled request is answered truthfully, if anybody waits for the answer.
AnsweredTruly(q) ==
    \/ answer'["delegation"] = answer["delegation"]
    \/ /\ asking["delegation"] = q
       /\ \E value \in Answers : /\ answer'["delegation"] = value
                                 /\ Truthful(q.op, q.job, value)'

LEMMA RepliesTruly ==
    ASSUME IInv, NEW q \in net, NEW value \in Answers, Replies(q, value),
           Truthful(q.op, q.job, value)'
    PROVE  AnsweredTruly(q)
<1>1. SideOf(q) \in Side
  BY DEF SideOf, Side
<1>2. \/ answer' = answer
      \/ asking[SideOf(q)] = q /\ answer' = [answer EXCEPT ![SideOf(q)] = value]
  BY DEF Replies
<1>3. CASE answer'["delegation"] = answer["delegation"]
  BY <1>3 DEF AnsweredTruly
<1>4. CASE answer'["delegation"] # answer["delegation"]
  <2>1. asking["delegation"] = q /\ answer'["delegation"] = value
    BY <1>1, <1>2, <1>4 DEF IInv, TypeOK, Side
  <2>. QED BY <2>1 DEF AnsweredTruly
<1>. QED BY <1>3, <1>4

LEMMA HandleTells == ASSUME IInv, NEW q \in net, Handle(q) PROVE AnsweredTruly(q)
<1>1. q.job \in Job
  BY JobOf
<1>2. /\ "drafting" \in Answers /\ "awaiting_approval" \in Answers /\ "registered" \in Answers
      /\ "running" \in Answers /\ "error" \in Answers /\ "absent" \in Answers
      /\ task[q.job] \in Answers /\ work[q.job] \in Answers
  BY <1>1 DEF Answers, TaskStates, WorkStates, IInv, TypeOK
<1>. USE DEF Truthful, TaskOps, WorkOps, TaskStates, WorkStates, TaskEnds, WorkEnds
<1>3. CASE Declines(q) \/ ReadFails(q)
  <2>1. Replies(q, "error") /\ Truthful(q.op, q.job, "error")'
    BY <1>3 DEF Declines, ReadFails
  <2>. QED BY <2>1, <1>2, RepliesTruly
<1>4. CASE StartDraft(q)
  <2>1. Replies(q, "drafting") /\ Truthful(q.op, q.job, "drafting")'
    BY <1>1, <1>4 DEF StartDraft, Begins, IInv, TypeOK
  <2>. QED BY <2>1, <1>2, RepliesTruly
<1>5. CASE PrepareRecipe(q)
  <2>1. Replies(q, "awaiting_approval") /\ Truthful(q.op, q.job, "awaiting_approval")'
    BY <1>5 DEF PrepareRecipe, Begins
  <2>. QED BY <2>1, <1>2, RepliesTruly
<1>6. CASE RegisterDraft(q)
  <2>1. Replies(q, "registered") /\ Truthful(q.op, q.job, "registered")'
    BY <1>1, <1>6 DEF RegisterDraft, IInv, TypeOK
  <2>. QED BY <2>1, <1>2, RepliesTruly
<1>7. CASE PrepareWork(q)
  <2>1. \/ Replies(q, "awaiting_approval") /\ Truthful(q.op, q.job, "awaiting_approval")'
        \/ Replies(q, "error") /\ Truthful(q.op, q.job, "error")'
    BY <1>1, <1>7 DEF PrepareWork, IInv, TypeOK
  <2>. QED BY <2>1, <1>2, RepliesTruly
<1>8. CASE StartCoding(q)
  <2>1. Replies(q, "running") /\ Truthful(q.op, q.job, "running")'
    BY <1>1, <1>8 DEF StartCoding, IInv, TypeOK
  <2>. QED BY <2>1, <1>2, RepliesTruly
<1>9. CASE Cancel(q)
  <2>1. IInv'
    BY <1>9, CancelKeeps
  <2>2. task'[q.job] \in TaskStates /\ work'[q.job] \in WorkStates
    BY <1>1, <2>1 DEF IInv, TypeOK
  <2>3. CASE q.op = "cancelTask" /\ Replies(q, task'[q.job])
    <3>1. PICK value \in TaskStates : value = task'[q.job]
      BY <2>2
    <3>2. Replies(q, value) /\ Truthful(q.op, q.job, value)' /\ value \in Answers
      BY <2>3, <3>1 DEF Answers
    <3>. QED BY <3>2, RepliesTruly
  <2>4. CASE q.op = "cancelWork" /\ Replies(q, work'[q.job])
    <3>1. PICK value \in WorkStates : value = work'[q.job]
      BY <2>2
    <3>2. Replies(q, value) /\ Truthful(q.op, q.job, value)' /\ value \in Answers
      BY <2>4, <3>1 DEF Answers
    <3>. QED BY <3>2, RepliesTruly
  <2>. QED BY <1>9, <2>3, <2>4 DEF Cancel
<1>10. CASE Read(q)
  <2>1. task' = task /\ work' = work /\ task[q.job] \in TaskStates /\ work[q.job] \in WorkStates
    BY <1>1, <1>10 DEF Read, bridge, IInv, TypeOK
  <2>2. CASE q.op = "getTask" /\ Replies(q, task[q.job])
    <3>1. PICK value \in TaskStates : value = task[q.job]
      BY <2>1
    <3>2. Replies(q, value) /\ Truthful(q.op, q.job, value)' /\ value \in Answers
      BY <2>1, <2>2, <3>1 DEF Answers
    <3>. QED BY <3>2, RepliesTruly
  <2>3. CASE q.op = "getWork" /\ Replies(q, work[q.job])
    <3>1. PICK value \in WorkStates : value = work[q.job]
      BY <2>1
    <3>2. Replies(q, value) /\ Truthful(q.op, q.job, value)' /\ value \in Answers
      BY <2>1, <2>3, <3>1 DEF Answers
    <3>. QED BY <3>2, RepliesTruly
  <2>4. ASSUME q.op = "find", NEW value \in Answers, Replies(q, value)
        PROVE  AnsweredTruly(q)
    <3>1. Truthful(q.op, q.job, value)'
      BY <2>4
    <3>. QED BY <2>4, <3>1, RepliesTruly
  <2>. QED BY <1>2, <1>10, <2>2, <2>3, <2>4 DEF Read
<1>. QED BY <1>3, <1>4, <1>5, <1>6, <1>7, <1>8, <1>9, <1>10 DEF Handle

LEMMA HandleGrows ==
    ASSUME IInv, Filed, NEW q \in net, Handle(q)
    PROVE  Grows /\ FiledStill /\ net' \subseteq net
<1>1. q.job \in Job /\ q.job[1] \in Plan /\ begun \in [Plan -> Nat]
  BY JobOf DEF Job, IInv, TypeOK
<1>2. net' \subseteq net
  BY DEF Handle, StartDraft, PrepareRecipe, RegisterDraft, PrepareWork, StartCoding, Cancel,
     Declines, Read, ReadFails, Begins, Replies
<1>3. CASE Declines(q) \/ Read(q) \/ ReadFails(q)
  BY <1>2, <1>3, BridgeRests DEF Declines, Read, ReadFails, counts
<1>4. CASE ~(Declines(q) \/ Read(q) \/ ReadFails(q))
  <2>. SUFFICES ASSUME NEW p \in Plan, NEW j, j = Delegated(p)
                PROVE  /\ task[j] # "none" => task'[j] # "none"
                       /\ task[j] \in TaskEnds => task'[j] = task[j]
                       /\ work[j] # "none" => work'[j] # "none"
                       /\ work[j] \in WorkEnds => work'[j] = work[j]
                       /\ ~Approving(j) /\ ~CodesFor(j) => ~CodesFor(j)'
                       /\ task'[j] # "none" => begun'[p] > 0
                       /\ j \in asked' => task'[j] = "registered"
                       /\ work'[j] # "none" => j \in asked'
    BY <1>2 DEF Grows, FiledStill, Delegated
  <2>1. /\ j \in Job /\ j[1] = p /\ j[2] = "delegate"
        /\ task[j] # "none" => begun[p] > 0
        /\ j \in asked => task[j] = "registered"
        /\ work[j] # "none" => j \in asked
        /\ task \in [Job -> TaskStates] /\ work \in [Job -> WorkStates]
        /\ seal \in [Job -> {"none", "delegate", "owner"}]
    BY DelegatedJob DEF Filed, IInv, TypeOK
  <2>2. CASE StartDraft(q)
    <3>1. begun[q.job[1]] = 0 /\ begun' = [begun EXCEPT ![q.job[1]] = @ + 1]
      BY <2>2 DEF StartDraft, Begins, IInv, Journaled, Beginning
    <3>. QED BY <1>1, <2>1, <2>2, <3>1 DEF StartDraft, TaskEnds, CodesFor
  <2>3. CASE PrepareRecipe(q)
    <3>1. begun' = [begun EXCEPT ![q.job[1]] = @ + 1] /\ q.job[2] = "recipe"
      BY <2>3 DEF PrepareRecipe, Begins, IInv, Journaled
    <3>. QED BY <1>1, <2>1, <2>3, <3>1 DEF PrepareRecipe, CodesFor
  <2>4. CASE RegisterDraft(q)
    BY <1>1, <2>1, <2>4 DEF RegisterDraft, counts, TaskEnds, CodesFor
  <2>5. CASE PrepareWork(q)
    BY <1>1, <2>1, <2>5 DEF PrepareWork, counts, WorkEnds, CodesFor
  <2>6. CASE StartCoding(q)
    BY <1>1, <2>1, <2>6 DEF StartCoding, counts, WorkEnds, CodesFor, Approving
  <2>7. CASE Cancel(q)
    BY <1>1, <2>1, <2>7 DEF Cancel, Cancels, counts, TaskEnds, WorkEnds, CodesFor
  <2>. QED BY <1>4, <2>2, <2>3, <2>4, <2>5, <2>6, <2>7 DEF Handle
<1>. QED BY <1>3, <1>4

LEMMA OnBridgeGrows ==
    ASSUME IInv, Filed, (\E k \in Job : OnBridge(k)) \/ ProvidersSettle \/ BridgeDies
    PROVE  Grows /\ FiledStill
<1>. SUFFICES ASSUME NEW p \in Plan, NEW j, j = Delegated(p)
              PROVE  /\ task[j] # "none" => task'[j] # "none"
                     /\ task[j] \in TaskEnds => task'[j] = task[j]
                     /\ work[j] # "none" => work'[j] # "none"
                     /\ work[j] \in WorkEnds => work'[j] = work[j]
                     /\ ~Approving(j) /\ ~CodesFor(j) => ~CodesFor(j)'
                     /\ task'[j] # "none" => begun'[p] > 0
                     /\ j \in asked' => task'[j] = "registered"
                     /\ work'[j] # "none" => j \in asked'
  BY DEF Grows, FiledStill, Delegated
<1>1. /\ j \in Job /\ j[1] = p /\ j[2] = "delegate"
      /\ task[j] # "none" => begun[p] > 0
      /\ j \in asked => task[j] = "registered"
      /\ work[j] # "none" => j \in asked
      /\ task \in [Job -> TaskStates] /\ work \in [Job -> WorkStates]
      /\ seal \in [Job -> {"none", "delegate", "owner"}]
  BY DelegatedJob DEF Filed, IInv, TypeOK
<1>. USE DEF TaskEnds, WorkEnds, CodesFor
<1>2. ASSUME NEW k \in Job, DraftEnds(k) \/ CodingEnds(k) \/ OwnerRegisters(k)
      PROVE  /\ task[j] # "none" => task'[j] # "none"
             /\ task[j] \in TaskEnds => task'[j] = task[j]
             /\ work[j] # "none" => work'[j] # "none"
             /\ work[j] \in WorkEnds => work'[j] = work[j]
             /\ ~CodesFor(j) => ~CodesFor(j)'
             /\ task'[j] # "none" => begun'[p] > 0
             /\ j \in asked' => task'[j] = "registered"
             /\ work'[j] # "none" => j \in asked'
  <2>1. CASE DraftEnds(k)
    BY <1>1, <2>1 DEF DraftEnds, counts
  <2>2. CASE CodingEnds(k)
    BY <1>1, <2>2 DEF CodingEnds, counts
  <2>3. CASE OwnerRegisters(k)
    BY <1>1, <2>3 DEF OwnerRegisters, counts
  <2>. QED BY <1>2, <2>1, <2>2, <2>3
<1>3. ASSUME NEW k \in Job, OwnerPrepares(k) \/ OwnerApproves(k) \/ OwnerCancels(k)
      PROVE  /\ task[j] # "none" => task'[j] # "none"
             /\ task[j] \in TaskEnds => task'[j] = task[j]
             /\ work[j] # "none" => work'[j] # "none"
             /\ work[j] \in WorkEnds => work'[j] = work[j]
             /\ ~CodesFor(j) => ~CodesFor(j)'
             /\ task'[j] # "none" => begun'[p] > 0
             /\ j \in asked' => task'[j] = "registered"
             /\ work'[j] # "none" => j \in asked'
  <2>1. CASE OwnerPrepares(k)
    BY <1>1, <2>1 DEF OwnerPrepares, counts
  <2>2. CASE OwnerApproves(k)
    BY <1>1, <2>2 DEF OwnerApproves, counts
  <2>3. CASE OwnerCancels(k)
    BY <1>1, <2>3 DEF OwnerCancels, Cancels, counts
  <2>. QED BY <1>3, <2>1, <2>2, <2>3
<1>4. CASE ProvidersSettle
  BY <1>1, <1>4 DEF ProvidersSettle, counts
<1>5. CASE BridgeDies
  BY <1>1, <1>5 DEF BridgeDies
<1>. QED BY <1>2, <1>3, <1>4, <1>5 DEF OnBridge

\* An answer, or its refusal, changes nothing but what is known of the bridge.
LEMMA BackendWaits ==
    ASSUME IInv, StopInv, Grows, FiledStill, net' \subseteq net,
           UNCHANGED <<row, slot, confirming, delegation, asking, unread>>,
           \/ answer'["delegation"] = answer["delegation"]
           \/ /\ asking["delegation"] # NoRequest
              /\ \E value \in Answers :
                    /\ answer'["delegation"] = value
                    /\ Truthful(asking["delegation"].op, asking["delegation"].job, value)'
    PROVE  StopInv'
<1>. USE DEF StopInv
<1>1. Filed'
  BY FiledKept
<1>2. \A j : Approving(j)' => Approving(j)
  BY DEF Approving
<1>3. delegation # Idle => delegation.plan \in Plan
  BY DEF IInv, Placed
<1>4. Executing'
  BY <1>2, <1>3 DEF Executing, Grows
<1>5. Told'
  <2>. SUFFICES ASSUME asking["delegation"] # NoRequest, answer'["delegation"] # "none"
                PROVE  Truthful(asking["delegation"].op, Delegated(delegation.plan),
                                answer["delegation"])'
    BY DEF Told, Answered, OpsAt, Delegated
  <2>1. delegation # Idle /\ asking["delegation"].job = Delegated(delegation.plan)
    BY DEF Told
  <2>2. CASE answer'["delegation"] = answer["delegation"]
    BY <1>3, <2>1, <2>2 DEF Told, Answered, Truthful, Grows, Delegated
  <2>3. ASSUME NEW value \in Answers, answer'["delegation"] = value,
               Truthful(asking["delegation"].op, asking["delegation"].job, value)'
        PROVE  Truthful(asking["delegation"].op, Delegated(delegation.plan),
                        answer["delegation"])'
    BY <2>1, <2>3 DEF Truthful, Delegated
  <2>. QED BY <2>2, <2>3
<1>6. Copied'
  BY DEF Copied, Undeveloped
<1>7. CancelledIsSafe'
  <2>. SUFFICES ASSUME NEW p \in Plan \ unread, row[p].execution = "cancelled"
                PROVE  SafeAs(row[p], p)'
    BY DEF CancelledIsSafe
  <2>1. SafeAs(row[p], p)
    BY DEF CancelledIsSafe
  <2>. QED BY <1>2, <2>1 DEF SafeAs, Grows, Delegated, Intended
<1>. QED BY <1>1, <1>4, <1>5, <1>6, <1>7

LEMMA BridgeStops ==
    ASSUME IInv, StopInv,
           \/ \E q \in net : Handle(q)
           \/ \E j \in Job : OnBridge(j)
           \/ ProvidersSettle \/ BridgeDies
           \/ \E s \in Side : Rejected(s)
    PROVE  StopInv'
<1>1. Filed
  BY DEF StopInv
<1>2. CASE \E q \in net : Handle(q)
  <2>1. PICK q \in net : Handle(q)
    BY <1>2
  <2>2. Grows /\ FiledStill /\ net' \subseteq net /\ AnsweredTruly(q)
    BY <1>1, <2>1, HandleGrows, HandleTells
  <2>3. UNCHANGED <<row, slot, confirming, delegation, asking, unread>>
    BY <2>1 DEF Handle, StartDraft, PrepareRecipe, RegisterDraft, PrepareWork, StartCoding,
       Cancel, Declines, Read, ReadFails, Begins, Replies, counts
  <2>4. q # NoRequest
    BY JobOf DEF NoRequest, Request, Ops, Reads
  <2>. QED BY <2>2, <2>3, <2>4, BackendWaits DEF AnsweredTruly
<1>3. CASE (\E j \in Job : OnBridge(j)) \/ ProvidersSettle \/ BridgeDies
  <2>1. Grows /\ FiledStill
    BY <1>1, <1>3, OnBridgeGrows
  <2>2. UNCHANGED <<row, slot, confirming, delegation, asking, answer, unread>>
        /\ net' \subseteq net
    BY <1>3 DEF OnBridge, DraftEnds, CodingEnds, OwnerRegisters, OwnerPrepares,
       OwnerApproves, OwnerCancels, ProvidersSettle, BridgeDies, backend, counts
  <2>. QED BY <2>1, <2>2, BackendWaits
<1>4. CASE \E s \in Side : Rejected(s)
  <2>1. PICK s \in Side : Rejected(s)
    BY <1>4
  <2>2. Grows /\ FiledStill /\ net' \subseteq net
    BY <1>1, <2>1, BridgeRests DEF Rejected, counts
  <2>3. UNCHANGED <<row, slot, confirming, delegation, asking, unread, task, work>>
    BY <2>1 DEF Rejected, counts, bridge
  <2>4. CASE s = "delegation"
    <3>1. asking["delegation"] # NoRequest /\ answer'["delegation"] = "rejected"
      BY <2>1, <2>4 DEF Rejected, IInv, TypeOK
    <3>2. Truthful(asking["delegation"].op, asking["delegation"].job, "rejected")'
      BY DEF Truthful, TaskStates, WorkStates, TaskEnds, WorkEnds
    <3>. QED BY <2>2, <2>3, <3>1, <3>2, BackendWaits DEF Answers
  <2>5. CASE s # "delegation"
    <3>1. answer'["delegation"] = answer["delegation"]
      BY <2>1, <2>5 DEF Rejected, IInv, TypeOK, Side
    <3>. QED BY <2>2, <2>3, <3>1, BackendWaits
  <2>. QED BY <2>4, <2>5
<1>. QED BY <1>2, <1>3, <1>4

-----------------------------------------------------------------------------
(* Steps of the delegation: it goes on with a known child, or ends.           *)

OthersKept(p) == \A o \in Plan \ {p} : row'[o] = row[o]

Going(p) ==
    /\ delegation'.plan = p /\ delegation'.at \in Points \ Registering
    /\ delegation'.task /\ task[Delegated(p)] # "none"
    /\ delegation'.work => work[Delegated(p)] # "none"
    /\ delegation.work => delegation'.work
    /\ row'[p].execution = "active" /\ row'[p].draft = "linked" /\ row'[p].completed
    /\ OthersKept(p)
    /\ answer'["delegation"] = "none"
    /\ \/ asking'["delegation"] = NoRequest /\ net' = net
       \/ /\ asking'["delegation"].op \in OpsAt(delegation')
          /\ asking'["delegation"].job = Delegated(p)
          /\ asking'["delegation"].op = "approveWork" => delegation'.work
          /\ net' = net \cup {asking'["delegation"]}

Ended(p) ==
    /\ delegation' = Idle
    /\ row'[p].completed /\ OthersKept(p)
    /\ p \notin unread' /\ row'[p].execution = "cancelled" => SafeAs(row'[p], p)
    /\ answer'["delegation"] = "none" /\ asking'["delegation"] = NoRequest /\ net' = net

\* The row a running execution goes on with.
Running(r) == r \in Row /\ r.execution = "active" /\ r.draft = "linked" /\ r.completed

LEMMA WaitsGoing ==
    ASSUME IInv, NEW d \in Delegation, d.plan \in Plan, d.task,
           task[Delegated(d.plan)] # "none",
           d.work => work[Delegated(d.plan)] # "none", delegation.work => d.work,
           NEW r, Running(r), NEW at \in Points \ Registering,
           NEW op \in OpsAt([d EXCEPT !.at = at]), op = "approveWork" => d.work,
           Waits(d, r, at, op)
    PROVE  Going(d.plan)
<1>1. delegation' = [d EXCEPT !.at = at]
  BY DEF Waits
<1>2. /\ delegation'.plan = d.plan /\ delegation'.at = at
      /\ delegation'.task = d.task /\ delegation'.work = d.work
  BY <1>1 DEF Delegation
<1>3. /\ asking'["delegation"] = [op |-> op, job |-> Delegated(d.plan)]
      /\ answer'["delegation"] = "none"
      /\ net' = net \cup {[op |-> op, job |-> Delegated(d.plan)]}
  BY DEF Waits, Sends, Delegated, IInv, TypeOK, Side
<1>4. row'[d.plan] = r /\ OthersKept(d.plan)
  BY DEF Waits, IInv, TypeOK, OthersKept
<1>. QED BY <1>1, <1>2, <1>3, <1>4 DEF Going, Running

LEMMA EndsEnded ==
    ASSUME IInv, NEW d \in Delegation, d.plan \in Plan, NEW r \in Row, r.completed,
           NEW x \in Executions,
           x = "cancelled" /\ d.plan \notin unread' => SafeAs(r, d.plan), Ends(d, r, x)
    PROVE  Ended(d.plan)
<1>1. row'[d.plan] = [r EXCEPT !.execution = x] /\ OthersKept(d.plan)
  BY DEF Ends, IInv, TypeOK, OthersKept
<1>2. /\ row'[d.plan].completed /\ row'[d.plan].execution = x
      /\ row'[d.plan].draft = r.draft /\ row'[d.plan].maker = r.maker
  BY <1>1 DEF Row
<1>3. SafeAs(r, d.plan) => SafeAs(row'[d.plan], d.plan)
  BY <1>2 DEF SafeAs, Intended
<1>4. answer'["delegation"] = "none" /\ asking'["delegation"] = NoRequest /\ net' = net
  BY DEF Ends, Rests, IInv, TypeOK, Side
<1>. QED BY <1>1, <1>2, <1>3, <1>4 DEF Ended, Ends

LEMMA FailsOn ==
    ASSUME IInv, NEW d \in Delegation, d.plan \in Plan, d.task,
           task[Delegated(d.plan)] # "none",
           d.work => work[Delegated(d.plan)] # "none", delegation.work => d.work,
           NEW r, Running(r), NEW stopping \in BOOLEAN, d.stopped => stopping,
           Fails(d, r, stopping)
    PROVE  Going(d.plan) \/ Ended(d.plan)
<1>1. CASE stopping
  <2>. DEFINE e == [d EXCEPT !.verdict = Verdict(d)]
              op == IF d.work THEN "getWork" ELSE "getTask"
  <2>1. /\ e \in Delegation /\ e.plan = d.plan /\ e.task = d.task /\ e.work = d.work
        /\ Waits(e, r, "stopRead", op)
    BY <1>1, VerdictIsOne DEF Fails, Delegation
  <2>2. /\ [e EXCEPT !.at = "stopRead"].at = "stopRead"
        /\ [e EXCEPT !.at = "stopRead"].work = d.work
    BY <2>1 DEF Delegation
  <2>3. op \in OpsAt([e EXCEPT !.at = "stopRead"]) /\ op # "approveWork"
    BY <2>2 DEF OpsAt, TaskOps, WorkOps
  <2>. HIDE DEF e, op
  <2>4. "stopRead" \in Points \ Registering
    BY DEF Points, Registering
  <2>. QED BY <2>1, <2>3, <2>4, WaitsGoing
<1>2. CASE ~stopping
  <2>1. Ends(d, r, "needs_attention")
    BY <1>2 DEF Fails, Verdict
  <2>. QED BY <2>1, EndsEnded DEF Executions, Running
<1>. QED BY <1>1, <1>2

LEMMA CallsOn ==
    ASSUME IInv, NEW d \in Delegation, d.plan \in Plan, d.task,
           task[Delegated(d.plan)] # "none",
           d.work => work[Delegated(d.plan)] # "none", delegation.work => d.work,
           NEW r, Running(r), NEW at \in Points \ Registering,
           NEW op \in OpsAt([d EXCEPT !.at = at]), op = "approveWork" => d.work,
           Calls(d, r, at, op)
    PROVE  Going(d.plan) \/ Ended(d.plan)
<1>1. CASE Withdrawn(d)
  BY <1>1, FailsOn DEF Calls
<1>2. CASE ~Withdrawn(d)
  BY <1>2, WaitsGoing DEF Calls, Running
<1>. QED BY <1>1, <1>2

\* Where a delegation past its registration stands.
LEMMA PastRegistration ==
    ASSUME IInv, StopInv, delegation.at \in Points \ Registering
    PROVE  /\ delegation # Idle /\ delegation \in Delegation /\ delegation.plan \in Plan
           /\ delegation.task /\ Running(Own)
           /\ task[Delegated(delegation.plan)] # "none"
           /\ delegation.work => work[Delegated(delegation.plan)] # "none"
           /\ ~delegation.work => /\ ~Approving(Delegated(delegation.plan))
                                  /\ ~CodesFor(Delegated(delegation.plan))
<1>1. delegation # Idle /\ delegation \in Delegation /\ delegation.plan \in Plan
  BY DEF IInv, TypeOK, Placed, Idle, Points
<1>2. Own \in Row
  BY <1>1, OwnIsRow DEF IInv
<1>. QED BY <1>1, <1>2 DEF StopInv, Executing, Running, Own

\* What a good answer tells: the child exists; when it has ended, it stays ended.
LEMMA SaidTruly ==
    ASSUME IInv, StopInv, Answered("delegation")
    PROVE  /\ asking["delegation"].op \in OpsAt(delegation)
           /\ Truthful(asking["delegation"].op, Delegated(delegation.plan), Said)
           /\ Said # "none"
  BY DEF StopInv, Told, Answered, Said

\* A development whose child has ended is safe from then on.
LEMMA EndedIsSafe ==
    ASSUME IInv, StopInv, NEW p \in Plan, NEW r,
           \/ task[Delegated(p)] \in TaskEnds \ {"registered"}
           \/ work[Delegated(p)] \in WorkEnds
           \/ /\ task[Delegated(p)] \in TaskEnds
              /\ ~Approving(Delegated(p)) /\ ~CodesFor(Delegated(p))
           \/ task[Delegated(p)] = "none" /\ ~Intended(r, "delegate")
    PROVE  SafeAs(r, p)
<1>. DEFINE j == Delegated(p)
<1>1. /\ j \in asked => task[j] = "registered"
      /\ work[j] # "none" => j \in asked
      /\ Approving(j) => work[j] # "none"
  BY DEF StopInv, Filed
<1>. QED BY <1>1 DEF SafeAs, TaskEnds, WorkEnds, CodesFor

LEMMA PausesGoing ==
    ASSUME IInv, StopInv, delegation.at \in Points \ Registering,
           NEW at \in {"pauseTask", "pauseWork", "stopPause"}, Pauses(delegation, at)
    PROVE  Going(delegation.plan)
<1>1. /\ delegation'.plan = delegation.plan /\ delegation'.at = at
      /\ delegation'.task = delegation.task /\ delegation'.work = delegation.work
      /\ row' = row
  BY DEF Pauses, IInv, TypeOK, Delegation
<1>2. answer'["delegation"] = "none" /\ asking'["delegation"] = NoRequest /\ net' = net
  BY DEF Pauses, Rests, IInv, TypeOK, Side
<1>3. at \in Points \ Registering
  BY DEF Points, Registering
<1>. QED BY <1>1, <1>2, <1>3, PastRegistration DEF Going, Running, Own, OthersKept

LEMMA ChildStoppedEnds ==
    ASSUME IInv, StopInv, delegation.at \in {"readTask", "approveWork", "readWork"},
           Answered("delegation"), ChildStopped(delegation)
    PROVE  Ended(delegation.plan)
<1>1. delegation.at \in Points \ Registering
  BY DEF Points, Registering
<1>2. /\ delegation \in Delegation /\ delegation.plan \in Plan /\ Running(Own)
  BY <1>1, PastRegistration
<1>3. ASSUME Said = "cancelled" PROVE SafeAs(Own, delegation.plan)
  <2>1. asking["delegation"].op \in {"getTask", "approveWork", "getWork"}
    BY SaidTruly DEF OpsAt
  <2>2. \/ task[Delegated(delegation.plan)] = "cancelled"
        \/ work[Delegated(delegation.plan)] = "cancelled"
    BY <1>3, <2>1, SaidTruly DEF Truthful, TaskOps, WorkOps, TaskEnds, WorkEnds
  <2>. QED BY <1>2, <2>2, EndedIsSafe DEF TaskEnds, WorkEnds
<1>. QED BY <1>2, <1>3, EndsEnded DEF ChildStopped, Running, Executions

LEMMA RegistrationFailsOn ==
    ASSUME IInv, StopInv, RegistrationFails
    PROVE  delegation # Idle /\ Ended(delegation.plan)
<1>1. delegation.at \in Registering
  BY DEF RegistrationFails, ReadsSource, Here, Registering
<1>2. delegation # Idle /\ delegation \in Delegation /\ delegation.plan \in Plan
  BY <1>1 DEF IInv, TypeOK, Placed, Idle, Registering
<1>3. ~delegation.task /\ ~delegation.work /\ Own.completed /\ Own \in Row
  BY <1>1, <1>2, OwnIsRow DEF StopInv, Executing, Own, IInv
<1>4. \E x \in Executions : /\ Ends(delegation, Own, x)
                            /\ x = "cancelled" => Own.draft = "none"
  BY <1>3 DEF RegistrationFails, Fails, Verdict, Executions
<1>5. ASSUME Own.draft = "none" PROVE SafeAs(Own, delegation.plan)
  <2>1. ~Intended(Own, "delegate")
    BY <1>5 DEF Intended
  <2>2. task[Delegated(delegation.plan)] = "none"
    BY <1>2, <2>1, DelegatedJob DEF IInv, Journaled, Own
  <2>. QED BY <1>2, <2>1, <2>2, EndedIsSafe
<1>. QED BY <1>2, <1>3, <1>4, <1>5, EndsEnded

LEMMA DraftStartedOn ==
    ASSUME IInv, StopInv, DraftStarted
    PROVE  delegation # Idle /\ (Going(delegation.plan) \/ Ended(delegation.plan))
<1>. DEFINE d == [delegation EXCEPT !.task = TRUE]
            r == [slot.copy EXCEPT !.draft = "linked"]
<1>1. delegation.at = "starting" /\ Answered("delegation") /\ Good(Said)
  BY DEF DraftStarted, Here
<1>2. delegation # Idle /\ delegation \in Delegation /\ delegation.plan \in Plan
  BY <1>1 DEF IInv, TypeOK, Placed, Idle
<1>3. /\ ~delegation.work /\ slot.copy.execution = "active" /\ slot.flow = "delegate"
      /\ slot.copy.completed /\ slot.copy \in Row
  BY <1>1, <1>2 DEF StopInv, Executing, Copied, IInv, Held, Registering, TypeOK, Slot
<1>4. /\ d \in Delegation /\ d.plan = delegation.plan /\ d.task = TRUE
      /\ d.work = delegation.work
      /\ [d EXCEPT !.at = "readTask"].at = "readTask"
  BY <1>2 DEF Delegation
<1>5. Running(r)
  BY <1>3 DEF Row, Running
<1>6. task[Delegated(delegation.plan)] # "none"
  <2>1. asking["delegation"].op = "start"
    BY <1>1, SaidTruly DEF OpsAt
  <2>. QED BY <1>1, <2>1, SaidTruly DEF Truthful, TaskOps, Good
<1>7. "getTask" \in OpsAt([d EXCEPT !.at = "readTask"]) /\ "readTask" \in Points \ Registering
  BY <1>4 DEF OpsAt, TaskOps, Points, Registering
<1>8. Calls(d, r, "readTask", "getTask")
  BY DEF DraftStarted
<1>. HIDE DEF d, r
<1>. QED BY <1>2, <1>3, <1>4, <1>5, <1>6, <1>7, <1>8, CallsOn

\* The steps past the registration.
LEMMA ChildStepOn ==
    ASSUME IInv, StopInv,
           \/ Unanswered \/ TaskRead \/ TaskRegistered \/ WorkPrepared \/ WorkRead
           \/ Wakes \/ StopRead \/ StopAnswered
    PROVE  /\ delegation.at \in Points \ Registering
           /\ Going(delegation.plan) \/ Ended(delegation.plan)
<1>. DEFINE Outcome == Going(delegation.plan) \/ Ended(delegation.plan)
<1>1. delegation.at \in Points \ Registering
  BY DEF Unanswered, TaskRead, TaskRegistered, WorkPrepared, WorkRead, Wakes, StopRead,
     StopAnswered, Here, Points, Registering
<1>2. /\ delegation \in Delegation /\ delegation.plan \in Plan /\ delegation.task
      /\ Running(Own) /\ task[Delegated(delegation.plan)] # "none"
      /\ delegation.work => work[Delegated(delegation.plan)] # "none"
      /\ ~delegation.work => /\ ~Approving(Delegated(delegation.plan))
                             /\ ~CodesFor(Delegated(delegation.plan))
      /\ delegation.stopped \in BOOLEAN
  BY <1>1, PastRegistration DEF Delegation
<1>3. ASSUME NEW stopping \in BOOLEAN, delegation.stopped => stopping,
             Fails(delegation, Own, stopping)
      PROVE  Outcome
  BY <1>2, <1>3, FailsOn
<1>4. ASSUME NEW at \in Points \ Registering, NEW op \in TaskOps \cup WorkOps,
             op # "approveWork",
             \/ at \in {"readTask", "approveTask", "prepare", "readWork"}
                /\ op \in OpsAt([at |-> at, work |-> delegation.work])
             \/ at \in {"stopPoll", "stopCancel"}
                /\ op \in OpsAt([at |-> at, work |-> delegation.work]),
             \/ Calls(delegation, Own, at, op)
             \/ Waits(delegation, Own, at, op)
      PROVE  Outcome
  <2>1. /\ [delegation EXCEPT !.at = at].at = at
        /\ [delegation EXCEPT !.at = at].work = delegation.work
    BY <1>2 DEF Delegation
  <2>2. op \in OpsAt([delegation EXCEPT !.at = at])
    BY <1>4, <2>1 DEF OpsAt
  <2>. QED BY <1>2, <1>4, <2>2, CallsOn, WaitsGoing
<1>5. ASSUME NEW at \in {"pauseTask", "pauseWork", "stopPause"}, Pauses(delegation, at)
      PROVE  Outcome
  BY <1>1, <1>5, PausesGoing
<1>6. ASSUME NEW x \in Executions, Ends(delegation, Own, x),
             x = "cancelled" /\ delegation.plan \notin unread' => SafeAs(Own, delegation.plan)
      PROVE  Outcome
  BY <1>2, <1>6, EndsEnded DEF Running
<1>. SUFFICES Outcome
  BY <1>1
<1>. HIDE DEF Outcome
<1>o. /\ {"readTask", "approveTask", "prepare", "approveWork", "readWork", "stopPoll",
          "stopCancel"} \subseteq Points \ Registering
      /\ {"getTask", "getWork", "approveTask", "prepare", "approveWork", "cancelTask",
          "cancelWork"} \subseteq TaskOps \cup WorkOps
      /\ {"needs_attention", "completed"} \subseteq Executions
  BY DEF Points, Registering, TaskOps, WorkOps, Executions
<1>7. CASE Unanswered
  BY <1>2, <1>3, <1>7 DEF Unanswered
<1>8. CASE TaskRead
  <2>1. ASSUME ChildStopped(delegation) PROVE Outcome
    BY <1>8, <2>1, ChildStoppedEnds DEF TaskRead, Here, Outcome
  <2>2. "approveTask" \in OpsAt([at |-> "approveTask", work |-> delegation.work])
    BY DEF OpsAt, TaskOps
  <2>. QED BY <1>3, <1>4, <1>5, <1>8, <1>o, <2>1, <2>2 DEF TaskRead
<1>9. CASE TaskRegistered
  <2>1. "prepare" \in OpsAt([at |-> "prepare", work |-> delegation.work])
    BY DEF OpsAt, WorkOps
  <2>. QED BY <1>4, <1>9, <1>o, <2>1 DEF TaskRegistered
<1>10. CASE WorkPrepared
  <2>. DEFINE d == [delegation EXCEPT !.work = TRUE]
  <2>1. /\ delegation.at = "prepare" /\ Answered("delegation") /\ Good(Said)
        /\ Calls(d, Own, "approveWork", "approveWork")
    BY <1>10 DEF WorkPrepared, Here
  <2>2. asking["delegation"].op = "prepare"
    BY <2>1, SaidTruly DEF OpsAt
  <2>3. work[Delegated(delegation.plan)] # "none"
    BY <2>1, <2>2, SaidTruly DEF Truthful, WorkOps, Good
  <2>4. /\ d \in Delegation /\ d.plan = delegation.plan /\ d.task = delegation.task
        /\ d.work = TRUE /\ [d EXCEPT !.at = "approveWork"].at = "approveWork"
    BY <1>2 DEF Delegation
  <2>5. "approveWork" \in OpsAt([d EXCEPT !.at = "approveWork"])
    BY <2>4 DEF OpsAt, WorkOps
  <2>. HIDE DEF d
  <2>. QED BY <1>2, <1>o, <2>1, <2>3, <2>4, <2>5, CallsOn DEF Outcome
<1>11. CASE WorkRead
  <2>1. ASSUME ChildStopped(delegation) PROVE Outcome
    BY <1>11, <2>1, ChildStoppedEnds DEF WorkRead, Here, Outcome
  <2>. QED BY <1>3, <1>5, <1>6, <1>11, <1>o, <2>1 DEF WorkRead
<1>12. CASE Wakes
  <2>1. /\ "getTask" \in OpsAt([at |-> "readTask", work |-> delegation.work])
        /\ "getWork" \in OpsAt([at |-> "readWork", work |-> delegation.work])
        /\ (IF delegation.work THEN "getWork" ELSE "getTask")
              \in OpsAt([at |-> "stopPoll", work |-> delegation.work])
    BY DEF OpsAt, TaskOps, WorkOps
  <2>. QED BY <1>4, <1>12, <1>o, <2>1 DEF Wakes
<1>13. CASE StopRead
  <2>1. delegation.at = "stopRead" /\ Answered("delegation")
    BY <1>13 DEF StopRead, Here
  <2>2. asking["delegation"].op = IF delegation.work THEN "getWork" ELSE "getTask"
    BY <2>1, SaidTruly DEF OpsAt
  <2>3. CASE Said \in Stoppable
    <3>1. Said # "rejected"
      BY <2>3 DEF Stoppable
    <3>2. (IF delegation.work THEN "cancelWork" ELSE "cancelTask")
             \in OpsAt([at |-> "stopCancel", work |-> delegation.work])
      BY DEF OpsAt, TaskOps, WorkOps
    <3>. QED BY <1>4, <1>13, <1>o, <2>3, <3>1, <3>2 DEF StopRead
  <2>4. CASE Said = "rejected"
    <3>1. Said \notin Stoppable
      BY <2>4 DEF Stoppable
    <3>. QED BY <1>6, <1>13, <1>o, <2>4, <3>1 DEF StopRead
  <2>5. CASE Said \notin Stoppable \cup {"rejected"}
    <3>1. Ends(delegation, Own, delegation.verdict) /\ delegation.verdict \in Executions
      BY <1>2, <1>13, <2>5 DEF StopRead, Delegation, Executions
    <3>2. ASSUME delegation.plan \notin unread' PROVE SafeAs(Own, delegation.plan)
      <4>1. Said # "error"
        BY <1>2, <1>13, <3>2 DEF StopRead
      <4>2. CASE delegation.work
        <5>1. work[Delegated(delegation.plan)] \in WorkEnds
          BY <2>1, <2>2, <2>5, <4>1, <4>2, SaidTruly
             DEF Truthful, WorkOps, WorkStates, WorkEnds, Stoppable
        <5>. QED BY <1>2, <5>1, EndedIsSafe
      <4>3. CASE ~delegation.work
        <5>1. task[Delegated(delegation.plan)] \in TaskEnds
          BY <2>1, <2>2, <2>5, <4>1, <4>3, SaidTruly
             DEF Truthful, TaskOps, TaskStates, TaskEnds, Stoppable
        <5>. QED BY <1>2, <4>3, <5>1, EndedIsSafe
      <4>. QED BY <4>2, <4>3
    <3>. QED BY <1>6, <3>1, <3>2
  <2>. QED BY <2>3, <2>4, <2>5
<1>14. CASE StopAnswered
  <2>1. delegation.at \in {"stopCancel", "stopPoll"} /\ Answered("delegation")
    BY <1>14 DEF StopAnswered, Here
  <2>2. CASE Said = "cancelled"
    <3>1. Ends(delegation, Own, delegation.verdict) /\ delegation.verdict \in Executions
      BY <1>2, <1>14, <2>2 DEF StopAnswered, Delegation, Executions
    <3>2. asking["delegation"].op \in {"getTask", "cancelTask", "getWork", "cancelWork"}
      BY <2>1, SaidTruly DEF OpsAt
    <3>3. \/ task[Delegated(delegation.plan)] = "cancelled"
          \/ work[Delegated(delegation.plan)] = "cancelled"
      BY <2>1, <2>2, <3>2, SaidTruly DEF Truthful, TaskOps, WorkOps, TaskEnds, WorkEnds
    <3>4. SafeAs(Own, delegation.plan)
      BY <1>2, <3>3, EndedIsSafe DEF TaskEnds, WorkEnds
    <3>. QED BY <1>6, <3>1, <3>4
  <2>3. CASE Said # "cancelled"
    BY <1>5, <1>6, <1>14, <1>o, <2>3 DEF StopAnswered
  <2>. QED BY <2>2, <2>3
<1>. QED BY <1>7, <1>8, <1>9, <1>10, <1>11, <1>12, <1>13, <1>14

\* It goes on or has ended; the rest of the backend stands.
LEMMA OutcomeKeeps ==
    ASSUME IInv, StopInv, delegation # Idle,
           Going(delegation.plan) \/ Ended(delegation.plan),
           UNCHANGED <<confirming, bridge, begun>>, unread \subseteq unread',
           slot' = Free \/ (slot' = slot /\ delegation.at \notin Registering)
    PROVE  StopInv'
<1>. DEFINE p == delegation.plan
            j == Delegated(p)
<1>1. p \in Plan /\ p # NoPlan /\ Idle.plan = NoPlan
  BY DevelopmentSentinel DEF IInv, Placed, Idle
<1>2. OthersKept(p) /\ row'[p].completed
  BY DEF Going, Ended
<1>3. ASSUME NEW k, Approving(k)'
      PROVE  Approving(k) \/ (k = j /\ Going(p) /\ delegation'.work)
  BY <1>3 DEF Approving, Going, Ended
<1>4. Filed'
  <2>. SUFFICES ASSUME NEW o \in Plan, Approving(Delegated(o))'
                PROVE  work[Delegated(o)] # "none"
    BY DEF StopInv, Filed, bridge, Delegated
  <2>. QED BY <1>3 DEF StopInv, Filed, Going
<1>5. Executing'
  <2>1. CASE Ended(p)
    BY <2>1 DEF Ended, Executing
  <2>2. CASE Going(p)
    <3>1. slot'.plan # p
      BY <1>1 DEF StopInv, Executing, Free
    <3>2. ASSUME ~delegation'.work PROVE ~Approving(j)' /\ ~CodesFor(j)'
      BY <1>3, <2>2, <3>2 DEF StopInv, Executing, Going, CodesFor, bridge
    <3>. QED BY <2>2, <3>1, <3>2 DEF Going, Executing, bridge, Delegated
  <2>. QED BY <2>1, <2>2
<1>6. Told'
  <2>1. CASE Ended(p)
    BY <2>1 DEF Ended, Told
  <2>2. CASE Going(p)
    <3>1. delegation' # Idle
      BY <1>1, <2>2 DEF Going
    <3>. QED BY <2>2, <3>1 DEF Going, Told, Answered, OpsAt, Delegated
  <2>. QED BY <2>1, <2>2
<1>7. Copied'
  <2>1. ASSUME slot'.flow \notin {"none", "delegate"}
        PROVE  /\ slot' = slot /\ slot.plan \in Plan /\ slot.plan # p
               /\ slot.copy.execution = "cancelled" => row[slot.plan].execution = "cancelled"
    BY <2>1 DEF Free, IInv, Held, StopInv, Copied
  <2>2. slot'.flow # "none" => slot'.copy.completed
    BY DEF Free, StopInv, Copied
  <2>3. confirming' = NoPlan
    BY DEF StopInv, Copied
  <2>4. \A o \in Plan : ~Undeveloped(row'[o]) => row'[o].completed
    BY <1>2 DEF StopInv, Copied, OthersKept
  <2>5. delegation'.plan \in {p, NoPlan}
    BY <1>1 DEF Going, Ended
  <2>6. ASSUME slot'.flow \notin {"none", "delegate"}
        PROVE  /\ slot'.plan # delegation'.plan
               /\ slot'.copy.execution = "cancelled" => row'[slot'.plan].execution = "cancelled"
    BY <1>2, <2>1, <2>5, <2>6, DevelopmentSentinel DEF OthersKept
  <2>. QED BY <2>2, <2>3, <2>4, <2>6 DEF Copied, Undeveloped
<1>8. CancelledIsSafe'
  <2>. SUFFICES ASSUME NEW o \in Plan, o \notin unread', row'[o].execution = "cancelled"
                PROVE  SafeAs(row[o], o)'
    BY DEF CancelledIsSafe
  <2>1. CASE o = p
    <3>1. Ended(p) /\ SafeAs(row'[p], p) /\ net' = net
      BY <2>1 DEF Going, Ended
    <3>. QED BY <2>1, <3>1 DEF SafeAs, Approving, CodesFor, Intended, bridge, Delegated
  <2>2. CASE o # p
    <3>1. row'[o] = row[o] /\ SafeAs(row[o], o)
      BY <1>2, <2>2 DEF OthersKept, StopInv, CancelledIsSafe
    <3>2. Delegated(o) # j
      BY <2>2 DEF Delegated
    <3>. QED BY <1>3, <3>1, <3>2 DEF SafeAs, CodesFor, Intended, bridge, Delegated
  <2>. QED BY <2>1, <2>2
<1>. QED BY <1>4, <1>5, <1>6, <1>7, <1>8 DEF StopInv

LEMMA DelegationStepStops == ASSUME IInv, StopInv, DelegationStep PROVE StopInv'
<1>1. CASE RegistrationFails
  BY <1>1, RegistrationFailsOn, OutcomeKeeps DEF RegistrationFails, counts
<1>2. CASE DraftStarted
  BY <1>2, DraftStartedOn, OutcomeKeeps DEF DraftStarted, counts
<1>3. CASE \/ Unanswered \/ TaskRead \/ TaskRegistered \/ WorkPrepared \/ WorkRead
           \/ Wakes \/ StopRead \/ StopAnswered
  <2>1. /\ delegation.at \in Points \ Registering
        /\ Going(delegation.plan) \/ Ended(delegation.plan)
    BY <1>3, ChildStepOn
  <2>2. delegation # Idle
    BY <2>1 DEF Idle, Points
  <2>3. UNCHANGED <<slot, confirming, bridge, begun>> /\ unread \subseteq unread'
    BY <1>3 DEF Unanswered, TaskRead, TaskRegistered, WorkPrepared, WorkRead, Wakes,
       StopRead, StopAnswered, counts
  <2>. QED BY <2>1, <2>2, <2>3, OutcomeKeeps
<1>. QED BY <1>1, <1>2, <1>3 DEF DelegationStep

-----------------------------------------------------------------------------
(* Steps of the slot and of the Owner: the running execution's row, child and *)
(* request are left alone, and no other row becomes a cancelled execution.    *)

RowsStand ==
    \A p \in Plan :
        row'[p].execution = "cancelled" => /\ row[p].execution = "cancelled"
                                           /\ Intended(row'[p], "delegate")
                                                 => Intended(row[p], "delegate")

NothingApproved ==
    /\ UNCHANGED <<bridge, begun, unread>>
    /\ \A q \in net' : q \in net \/ q.op # "approveWork"

LEMMA FilesStand ==
    ASSUME IInv, StopInv, NothingApproved, RowsStand
    PROVE  Filed' /\ CancelledIsSafe'
<1>1. \A j : Approving(j)' => Approving(j)
  BY DEF NothingApproved, Approving
<1>2. Filed'
  BY BridgeRests, FiledKept DEF NothingApproved, StopInv
<1>3. CancelledIsSafe'
  <2>. SUFFICES ASSUME NEW o \in Plan, o \notin unread', row'[o].execution = "cancelled"
                PROVE  SafeAs(row[o], o)'
    BY DEF CancelledIsSafe
  <2>1. SafeAs(row[o], o) /\ (Intended(row'[o], "delegate") => Intended(row[o], "delegate"))
    BY DEF StopInv, CancelledIsSafe, NothingApproved, RowsStand
  <2>. QED BY <1>1, <2>1 DEF SafeAs, CodesFor, NothingApproved, bridge, Delegated, Intended
<1>. QED BY <1>2, <1>3

LEMMA SlotStands ==
    ASSUME IInv, StopInv, NothingApproved, RowsStand, Copied',
           delegation' = delegation,
           asking'["delegation"] = asking["delegation"],
           answer'["delegation"] = answer["delegation"],
           delegation # Idle => row'[delegation.plan] = row[delegation.plan],
           \/ slot' = slot
           \/ delegation.at \notin Registering /\ slot'.plan # delegation.plan
    PROVE  StopInv'
<1>1. Filed' /\ CancelledIsSafe'
  BY FilesStand
<1>2. \A j : Approving(j)' => Approving(j)
  BY DEF NothingApproved, Approving
<1>3. Executing'
  BY <1>2 DEF StopInv, Executing, NothingApproved, bridge, CodesFor, Delegated
<1>4. Told'
  BY DEF StopInv, Told, Answered, Truthful, NothingApproved, bridge, OpsAt, Delegated
<1>. QED BY <1>1, <1>3, <1>4 DEF StopInv

LEMMA FreeSlot ==
    ASSUME IInv, slot.flow \notin {"none", "delegate"} \/ slot = Free
    PROVE  delegation.at \notin Registering
  BY DEF IInv, Held, Free

LEMMA NoPlanIsFree ==
    ASSUME IInv, delegation # Idle PROVE Free.plan # delegation.plan /\ delegation.plan \in Plan
  BY DevelopmentSentinel DEF IInv, Placed, Free

\* A row that the flow may write for its plan.
Fits(r) == /\ r.completed
           /\ r.execution = "cancelled" => row[slot.plan].execution = "cancelled"
           /\ Intended(r, "delegate") => Intended(row[slot.plan], "delegate")

\* The slot is given back, with at most its own plan's row written.
LEMMA SlotFreed ==
    ASSUME IInv, StopInv, NothingApproved, slot.flow \notin {"none", "delegate"}, slot' = Free,
           UNCHANGED <<delegation, confirming>>,
           asking'["delegation"] = asking["delegation"],
           answer'["delegation"] = answer["delegation"],
           row' = row \/ \E r : Fits(r) /\ row' = [row EXCEPT ![slot.plan] = r]
    PROVE  StopInv'
<1>1. delegation.at \notin Registering /\ slot.plan \in Plan /\ slot.plan # delegation.plan
  BY FreeSlot DEF IInv, Held, StopInv, Copied
<1>2. \A p \in Plan : row'[p] = row[p] \/ (p = slot.plan /\ Fits(row'[p]))
  BY DEF IInv, TypeOK
<1>3. RowsStand
  BY <1>2 DEF RowsStand, Fits
<1>4. delegation # Idle => /\ row'[delegation.plan] = row[delegation.plan]
                           /\ slot'.plan # delegation.plan
  BY <1>1, <1>2, NoPlanIsFree
<1>5. confirming # NoPlan => confirming \in Plan
  BY DEF IInv, TypeOK
<1>6. slot'.flow = "none"
  BY DEF Free
<1>7. Copied'
  BY <1>2, <1>5, <1>6 DEF StopInv, Copied, Undeveloped, Fits
<1>8. CASE delegation # Idle
  BY <1>1, <1>3, <1>4, <1>7, <1>8, SlotStands
<1>9. CASE delegation = Idle
  <2>1. Filed' /\ CancelledIsSafe'
    BY <1>3, FilesStand
  <2>2. Executing' /\ Told'
    BY <1>9 DEF Executing, StopInv, Told
  <2>. QED BY <1>7, <2>1, <2>2 DEF StopInv
<1>. QED BY <1>8, <1>9

LEMMA PlanCompletesStops == ASSUME IInv, StopInv, NEW p \in Plan, PlanCompletes(p) PROVE StopInv'
<1>. USE DEF PlanCompletes
<1>1. delegation.at \notin Registering
  BY FreeSlot
<1>2. p # delegation.plan
  <2>1. CASE delegation = Idle
    BY <2>1, DevelopmentSentinel DEF Idle
  <2>2. CASE delegation # Idle
    BY <2>2 DEF StopInv, Executing
  <2>. QED BY <2>1, <2>2
<1>3. row[p] \in Row /\ row'[p] = [row[p] EXCEPT !.completed = TRUE]
      /\ \A o \in Plan \ {p} : row'[o] = row[o]
  BY DEF IInv, TypeOK
<1>4. /\ row'[p].completed /\ row'[p].execution = row[p].execution
      /\ row'[p].draft = row[p].draft /\ row'[p].maker = row[p].maker
      /\ row'[p].recipe = row[p].recipe
  BY <1>3 DEF Row
<1>5. RowsStand
  BY <1>3, <1>4 DEF RowsStand, Intended
<1>6. slot'.plan = p /\ slot'.copy = row'[p] /\ slot'.flow = "planner"
  OBVIOUS
<1>7. confirming # NoPlan => confirming \in Plan
  BY DEF IInv, TypeOK
<1>8. Copied'
  BY <1>2, <1>3, <1>4, <1>6, <1>7 DEF StopInv, Copied, Undeveloped
<1>9. delegation # Idle => row'[delegation.plan] = row[delegation.plan]
  BY <1>2, <1>3, NoPlanIsFree
<1>10. NothingApproved
  BY DEF NothingApproved, counts
<1>. QED BY <1>1, <1>2, <1>5, <1>6, <1>8, <1>9, <1>10, SlotStands

LEMMA PlanFiledStops == ASSUME IInv, StopInv, PlanFiled PROVE StopInv'
<1>. USE DEF PlanFiled
<1>1. Fits(slot.copy)
  BY DEF StopInv, Copied, IInv, Held, Same, Intended, Fits
<1>2. NothingApproved
  BY DEF NothingApproved, counts
<1>. QED BY <1>1, <1>2, SlotFreed

\* A flow that takes the slot for a plan that is not being executed.
LEMMA SlotTaken ==
    ASSUME IInv, StopInv, slot = Free, NEW p \in Plan,
           NEW flow \in {"register", "recipe", "refresh"},
           slot' = [flow |-> flow, plan |-> p, copy |-> row[p]], row[p].completed,
           row[p].draft # "linked", NothingApproved, UNCHANGED <<row, delegation, confirming>>,
           asking'["delegation"] = asking["delegation"],
           answer'["delegation"] = answer["delegation"]
    PROVE  StopInv'
<1>1. delegation.at \notin Registering
  BY FreeSlot
<1>2. p # delegation.plan
  <2>1. CASE delegation = Idle
    BY <2>1, DevelopmentSentinel DEF Idle
  <2>2. CASE delegation # Idle
    BY <1>1, <2>2 DEF StopInv, Executing
  <2>. QED BY <2>1, <2>2
<1>3. RowsStand
  BY DEF RowsStand
<1>4. Copied'
  BY <1>2 DEF StopInv, Copied, Undeveloped
<1>. QED BY <1>1, <1>2, <1>3, <1>4, SlotStands

LEMMA OwnerAsksStops ==
    ASSUME IInv, StopInv, NEW p \in Plan, NEW flow \in {"register", "recipe"}, OwnerAsks(p, flow)
    PROVE  StopInv'
<1>1. NothingApproved
  BY DEF OwnerAsks, NothingApproved, counts
<1>. QED BY <1>1, SlotTaken DEF OwnerAsks, Undeveloped

LEMMA RefreshAsksStops == ASSUME IInv, StopInv, NEW p \in Plan, RefreshAsks(p) PROVE StopInv'
<1>1. NothingApproved
  BY DEF RefreshAsks, Sends, NothingApproved, counts
<1>2. /\ asking'["delegation"] = asking["delegation"]
      /\ answer'["delegation"] = answer["delegation"]
  BY DEF RefreshAsks, Sends, IInv, TypeOK, Side
<1>3. row[p].completed /\ row[p].draft # "linked"
  BY DEF RefreshAsks, StopInv, Copied, Undeveloped
<1>. QED BY <1>1, <1>2, <1>3, SlotTaken DEF RefreshAsks

LEMMA SourceChangedStops == ASSUME IInv, StopInv, SourceChanged PROVE StopInv'
<1>1. slot.flow \notin {"none", "delegate"}
  BY DEF SourceChanged, ReadsSource
<1>2. NothingApproved
  BY DEF SourceChanged, NothingApproved, counts
<1>. QED BY <1>1, <1>2, SlotFreed DEF SourceChanged

LEMMA SlotAnsweredStops == ASSUME IInv, StopInv, SlotAnswered PROVE StopInv'
<1>. DEFINE r == IF slot.flow = "recipe" THEN [slot.copy EXCEPT !.recipe = "prepared"]
                                         ELSE [slot.copy EXCEPT !.draft = "linked"]
<1>1. /\ slot.flow \in {"register", "recipe", "refresh"}
      /\ slot.flow # "recipe" => slot.copy.draft # "none"
      /\ slot.plan \in Plan /\ Same(slot.copy, row[slot.plan]) /\ slot.copy \in Row
  BY DEF SlotAnswered, Answered, IInv, Held, TypeOK, Slot
<1>2. /\ r.completed = slot.copy.completed /\ r.execution = slot.copy.execution
      /\ r.maker = slot.copy.maker /\ r.draft # "none" => slot.copy.draft # "none"
  BY <1>1 DEF Row
<1>3. slot.copy.completed
      /\ (slot.copy.execution = "cancelled" => row[slot.plan].execution = "cancelled")
  BY <1>1 DEF StopInv, Copied
<1>4. Fits(r)
  BY <1>1, <1>2, <1>3 DEF Intended, Same, Fits
<1>5. NothingApproved
  BY DEF SlotAnswered, Rests, NothingApproved, counts
<1>6. /\ asking'["delegation"] = asking["delegation"]
      /\ answer'["delegation"] = answer["delegation"]
  BY DEF SlotAnswered, Rests, IInv, TypeOK, Side
<1>7. row' = row \/ row' = [row EXCEPT ![slot.plan] = r]
  BY DEF SlotAnswered
<1>8. slot' = Free /\ UNCHANGED <<delegation, confirming>>
  BY DEF SlotAnswered
<1>. HIDE DEF r
<1>. QED BY <1>1, <1>4, <1>5, <1>6, <1>7, <1>8, SlotFreed

\* The delegation saves its intent and asks for the draft.
LEMMA DraftAsked ==
    ASSUME IInv, StopInv, SourceConfirmed, slot.flow = "delegate" PROVE StopInv'
<1>0. PICK p \in Plan : p = slot.plan
  BY DEF IInv, Held
<1>. DEFINE r == Marked(slot.copy)
<1>1. /\ p = delegation.plan /\ delegation.at = "registering"
      /\ delegation # Idle /\ delegation \in Delegation
  BY <1>0 DEF SourceConfirmed, ReadsSource, IInv, Held, Placed, TypeOK, Idle
<1>2. /\ ~delegation.task /\ ~delegation.work
      /\ slot.copy.execution = "active" /\ slot.copy.completed /\ slot.copy \in Row
      /\ ~Approving(Delegated(p)) /\ ~CodesFor(Delegated(p))
  BY <1>1 DEF StopInv, Executing, Copied, Registering, IInv, TypeOK, Slot
<1>3. r.execution = "active" /\ r.completed
  BY <1>2 DEF Marked, Row
<1>4. /\ row'[p] = r /\ \A o \in Plan \ {p} : row'[o] = row[o]
      /\ slot'.flow = "delegate" /\ slot'.copy = r /\ slot'.plan = p
  BY <1>0 DEF SourceConfirmed, IInv, TypeOK, Slot
<1>5. /\ delegation'.plan = p /\ delegation'.at = "starting"
      /\ ~delegation'.task /\ ~delegation'.work /\ delegation' # Idle
  BY <1>1, <1>2 DEF SourceConfirmed, Delegation, Idle
<1>6. /\ asking'["delegation"] = [op |-> "start", job |-> Delegated(p)]
      /\ answer'["delegation"] = "none"
      /\ net' = net \cup {[op |-> "start", job |-> Delegated(p)]}
  BY <1>0 DEF SourceConfirmed, Sends, IInv, TypeOK, Side, Delegated
<1>7. UNCHANGED <<confirming, bridge, counts>>
  BY DEF SourceConfirmed
<1>. HIDE DEF r
<1>8. NothingApproved
  BY <1>6, <1>7 DEF NothingApproved, counts
<1>9. RowsStand
  BY <1>3, <1>4 DEF RowsStand
<1>10. Filed' /\ CancelledIsSafe'
  BY <1>8, <1>9, FilesStand
<1>11. ~Approving(Delegated(p))' /\ ~CodesFor(Delegated(p))'
  BY <1>2, <1>6, <1>7 DEF Approving, CodesFor, bridge, Delegated
<1>12. Executing'
  BY <1>3, <1>4, <1>5, <1>11 DEF Executing, Registering, Delegated
<1>13. Told'
  BY <1>5, <1>6 DEF Told, OpsAt, TaskOps, Answered, Delegated
<1>14. confirming' = NoPlan
  BY <1>1, <1>7 DEF StopInv, Copied
<1>15. Copied'
  BY <1>3, <1>4, <1>14 DEF StopInv, Copied, Undeveloped
<1>. QED BY <1>10, <1>12, <1>13, <1>15 DEF StopInv

LEMMA SourceConfirmedStops == ASSUME IInv, StopInv, SourceConfirmed PROVE StopInv'
<1>1. CASE slot.flow = "delegate"
  BY <1>1, DraftAsked
<1>2. CASE slot.flow # "delegate"
  <2>. DEFINE r == Marked(slot.copy)
  <2>1. /\ slot.flow \in {"register", "recipe"} /\ slot.plan \in Plan /\ slot.copy \in Row
        /\ Same(slot.copy, row[slot.plan]) /\ delegation.at \notin Registering
    BY <1>2, FreeSlot DEF SourceConfirmed, ReadsSource, IInv, Held, TypeOK, Slot
  <2>2. /\ slot.plan # delegation.plan /\ slot.copy.completed
        /\ slot.copy.execution = "cancelled" => row[slot.plan].execution = "cancelled"
    BY <2>1 DEF StopInv, Copied
  <2>3. /\ r.completed /\ r.execution = slot.copy.execution
        /\ Intended(r, "delegate") => Intended(slot.copy, "delegate")
    BY <2>1, <2>2 DEF Marked, Row, Intended
  <2>4. /\ row'[slot.plan] = r /\ \A o \in Plan \ {slot.plan} : row'[o] = row[o]
        /\ slot'.flow = slot.flow /\ slot'.copy = r /\ slot'.plan = slot.plan
    BY <2>1 DEF SourceConfirmed, IInv, TypeOK, Slot
  <2>5. /\ asking'["delegation"] = asking["delegation"]
        /\ answer'["delegation"] = answer["delegation"]
        /\ \A q \in net' : q \in net \/ q.op # "approveWork"
        /\ delegation' = delegation
    BY <1>2 DEF SourceConfirmed, Sends, IInv, TypeOK, Side
  <2>6. UNCHANGED <<confirming, bridge, counts>>
    BY DEF SourceConfirmed
  <2>. HIDE DEF r
  <2>7. NothingApproved
    BY <2>5, <2>6 DEF NothingApproved, counts
  <2>8. RowsStand
    BY <2>1, <2>2, <2>3, <2>4 DEF RowsStand, Same, Intended
  <2>9. confirming # NoPlan => confirming \in Plan
    BY DEF IInv, TypeOK
  <2>10. Copied'
    BY <2>1, <2>2, <2>3, <2>4, <2>5, <2>6, <2>9 DEF StopInv, Copied, Undeveloped
  <2>11. delegation # Idle => row'[delegation.plan] = row[delegation.plan]
    BY <2>2, <2>4, NoPlanIsFree
  <2>. QED BY <2>1, <2>2, <2>4, <2>5, <2>7, <2>8, <2>10, <2>11, SlotStands
<1>. QED BY <1>1, <1>2

LEMMA ConfirmedStops ==
    ASSUME IInv, StopInv, (\E p \in Plan : ConfirmAsked(p)) \/ ConfirmRefused
    PROVE  StopInv'
<1>1. NothingApproved
  BY DEF ConfirmAsked, ConfirmRefused, NothingApproved, counts
<1>2. RowsStand
  BY DEF ConfirmAsked, ConfirmRefused, RowsStand
<1>3. Copied'
  BY DEF ConfirmAsked, ConfirmRefused, StopInv, Copied, Undeveloped
<1>. QED BY <1>1, <1>2, <1>3, SlotStands DEF ConfirmAsked, ConfirmRefused

LEMMA ConfirmGrantedStops == ASSUME IInv, StopInv, ConfirmGranted PROVE StopInv'
<1>0. PICK p \in Plan : p = confirming
  BY DEF ConfirmGranted, IInv, TypeOK
<1>. DEFINE r == [row[p] EXCEPT !.execution = "active"]
<1>1. /\ p # NoPlan /\ row[p] \in Row /\ row[p].completed
      /\ row[p].execution = "none" /\ delegation = Idle
  BY <1>0 DEF ConfirmGranted, StopInv, Copied, IInv, TypeOK
<1>2. /\ r.execution = "active" /\ r.completed /\ r.draft = row[p].draft
      /\ r.recipe = row[p].recipe
      /\ [r EXCEPT !.execution = "needs_attention"].execution = "needs_attention"
      /\ [r EXCEPT !.execution = "needs_attention"].completed
  BY <1>1 DEF Row
<1>3. UNCHANGED <<asking, answer, net, bridge, counts>> /\ confirming' = NoPlan
  BY DEF ConfirmGranted
<1>4. NothingApproved
  BY <1>3 DEF NothingApproved, counts
<1>5. delegation.plan = NoPlan
  BY <1>1 DEF Idle
<1>6. CASE slot = Free /\ Undeveloped(r)
  <2>1. /\ row' = [row EXCEPT ![p] = r]
        /\ slot' = [flow |-> "delegate", plan |-> p, copy |-> r]
        /\ delegation' = [Idle EXCEPT !.plan = p, !.at = "registering"]
    BY <1>0, <1>6 DEF ConfirmGranted
  <2>2. row'[p] = r /\ \A o \in Plan \ {p} : row'[o] = row[o]
    BY <1>1, <2>1 DEF IInv, TypeOK
  <2>3. task[Delegated(p)] = "none"
    BY <1>1, <1>2, <1>6, DelegatedJob DEF Undeveloped, IInv, Journaled, Intended
  <2>4. ~Approving(Delegated(p)) /\ ~CodesFor(Delegated(p))
    BY <1>1, <2>3 DEF StopInv, Filed, CodesFor
  <2>5. /\ delegation'.plan = p /\ delegation'.at = "registering"
        /\ ~delegation'.task /\ ~delegation'.work /\ delegation' # Idle
    BY <2>1 DEF Idle
  <2>6. slot'.flow = "delegate" /\ slot'.plan = p /\ slot'.copy = r
    BY <2>1
  <2>. HIDE DEF r
  <2>7. RowsStand
    BY <1>2, <2>2 DEF RowsStand
  <2>8. Filed' /\ CancelledIsSafe'
    BY <1>4, <2>7, FilesStand
  <2>9. ~Approving(Delegated(p))' /\ ~CodesFor(Delegated(p))'
    BY <1>3, <2>4 DEF Approving, CodesFor, bridge, Delegated
  <2>10. Executing'
    BY <1>2, <2>2, <2>5, <2>6, <2>9 DEF Executing, Registering, Delegated
  <2>11. asking["delegation"] = NoRequest /\ answer["delegation"] = "none"
    BY <1>1 DEF StopInv, Told
  <2>12. Told'
    BY <1>3, <2>11 DEF Told
  <2>13. Copied'
    BY <1>2, <1>3, <2>2, <2>6 DEF StopInv, Copied, Undeveloped
  <2>. QED BY <2>8, <2>10, <2>12, <2>13 DEF StopInv
<1>7. CASE ~(slot = Free /\ Undeveloped(r))
  <2>1. /\ row' = [row EXCEPT ![p] = [r EXCEPT !.execution = "needs_attention"]]
        /\ UNCHANGED <<slot, delegation>>
    BY <1>0, <1>7 DEF ConfirmGranted
  <2>2. /\ row'[p].execution = "needs_attention" /\ row'[p].completed
        /\ \A o \in Plan \ {p} : row'[o] = row[o]
    BY <1>1, <1>2, <2>1 DEF IInv, TypeOK
  <2>. HIDE DEF r
  <2>3. RowsStand
    BY <2>2 DEF RowsStand
  <2>4. slot.flow # "none" => slot.plan \in Plan
    BY DEF IInv, Held
  <2>5. Copied'
    BY <1>1, <1>3, <2>1, <2>2, <2>4 DEF StopInv, Copied, Undeveloped
  <2>. QED BY <1>1, <1>3, <1>4, <2>1, <2>3, <2>5, SlotStands
<1>. QED BY <1>6, <1>7

\* Only what the execution may still do has changed.
LEMMA FlagsStop ==
    ASSUME IInv, StopInv, delegation # Idle, delegation' # Idle,
           delegation'.plan = delegation.plan, delegation'.at = delegation.at,
           delegation'.task = delegation.task, delegation'.work = delegation.work,
           UNCHANGED <<row, slot, confirming, asking, answer, net, bridge, counts>>
    PROVE  StopInv'
<1>1. Filed' /\ CancelledIsSafe'
  <2>1. NothingApproved /\ RowsStand
    BY DEF NothingApproved, RowsStand, counts
  <2>. QED BY <2>1, FilesStand
<1>2. Executing'
  BY DEF StopInv, Executing, bridge, Approving, CodesFor, Delegated
<1>3. OpsAt(delegation') = OpsAt(delegation)
  BY DEF OpsAt
<1>4. Told'
  BY <1>3 DEF StopInv, Told, Answered, Truthful, bridge, OpsAt, Delegated
<1>5. Copied'
  BY DEF StopInv, Copied, Undeveloped
<1>. QED BY <1>1, <1>2, <1>4, <1>5 DEF StopInv

LEMMA StopStops == ASSUME IInv, StopInv, Stop PROVE StopInv'
<1>1. delegation \in Delegation /\ delegation.plan \in Plan
  BY DEF Stop, IInv, TypeOK, Placed
<1>2. /\ delegation'.plan = delegation.plan /\ delegation'.at = delegation.at
      /\ delegation'.task = delegation.task /\ delegation'.work = delegation.work
  BY <1>1 DEF Stop, Delegation
<1>3. delegation' # Idle
  BY <1>1, <1>2, DevelopmentSentinel DEF Idle
<1>. QED BY <1>2, <1>3, FlagsStop DEF Stop

LEMMA TimePassesStops == ASSUME IInv, StopInv, TimePasses PROVE StopInv'
<1>1. delegation # Idle /\ delegation \in Delegation /\ delegation.plan \in Plan
  BY DEF TimePasses, IInv, TypeOK, Placed, Idle
<1>2. /\ delegation'.plan = delegation.plan /\ delegation'.at = delegation.at
      /\ delegation'.task = delegation.task /\ delegation'.work = delegation.work
  BY <1>1 DEF TimePasses, Delegation
<1>3. delegation' # Idle
  BY <1>1, <1>2, DevelopmentSentinel DEF Idle
<1>. QED BY <1>1, <1>2, <1>3, FlagsStop DEF TimePasses

LEMMA BackendDiesStops == ASSUME IInv, StopInv, BackendDies PROVE StopInv'
<1>. USE DEF BackendDies
<1>1. NothingApproved
  BY DEF NothingApproved
<1>2. \A p \in Plan : /\ row[p] \in Row /\ row'[p] \in Row
                      /\ row'[p].completed = row[p].completed
                      /\ row'[p].draft = row[p].draft /\ row'[p].maker = row[p].maker
                      /\ row'[p].recipe = row[p].recipe
                      /\ row'[p].execution = "cancelled" => row[p].execution = "cancelled"
  BY DEF IInv, TypeOK, Row, Executions
<1>3. RowsStand
  BY <1>2 DEF RowsStand, Intended
<1>4. Filed' /\ CancelledIsSafe'
  BY <1>1, <1>3, FilesStand
<1>5. Executing' /\ Told'
  BY DEF Executing, Told, Side
<1>6. Copied'
  BY <1>2 DEF StopInv, Copied, Undeveloped, Free
<1>. QED BY <1>4, <1>5, <1>6 DEF StopInv

-----------------------------------------------------------------------------

LEMMA InitStop == Init => StopInv
<1>. SUFFICES ASSUME Init PROVE StopInv
  OBVIOUS
<1>1. \A p \in Plan : Delegated(p) \in Job
  BY DelegatedJob
<1>2. Filed
  BY <1>1 DEF Init, Filed, Approving
<1>3. Executing /\ Told
  BY DEF Init, Executing, Told, Side
<1>4. Copied
  BY DEF Init, Copied, Free, NoRow, Undeveloped
<1>5. CancelledIsSafe
  BY DEF Init, CancelledIsSafe, NoRow
<1>. QED BY <1>2, <1>3, <1>4, <1>5 DEF StopInv

LEMMA NextStops == ASSUME IInv, StopInv, [Next]_vars PROVE StopInv'
<1>1. CASE \E p \in Plan : OnPlan(p)
  BY <1>1, PlanCompletesStops, RefreshAsksStops, ConfirmedStops, OwnerAsksStops DEF OnPlan
<1>2. CASE SlotStep
  BY <1>2, PlanFiledStops, SourceConfirmedStops, SourceChangedStops, SlotAnsweredStops
     DEF SlotStep
<1>3. CASE ConfirmRefused \/ ConfirmGranted \/ DelegationStep
  BY <1>3, ConfirmedStops, ConfirmGrantedStops, DelegationStepStops
<1>4. CASE Stop \/ TimePasses \/ BackendDies
  BY <1>4, StopStops, TimePassesStops, BackendDiesStops
<1>5. CASE \/ \E s \in Side : Rejected(s)
           \/ \E q \in net : Handle(q)
           \/ \E j \in Job : OnBridge(j)
           \/ ProvidersSettle \/ BridgeDies
  BY <1>5, BridgeStops
<1>6. CASE UNCHANGED vars
  <2>1. Grows /\ FiledStill
    BY <1>6, BridgeRests DEF StopInv, vars, counts
  <2>. QED BY <1>6, <2>1, BackendWaits DEF vars, backend, counts
<1>. QED BY <1>1, <1>2, <1>3, <1>4, <1>5, <1>6 DEF Next

\* The strengthening of the stop's promise is an invariant: what ended stays ended
\* on the bridge, the running execution knows every child whose coding it approved,
\* and no flow of the slot writes over the row it works on.
THEOREM StopInvariance == Spec => []StopInv
<1>1. IInv /\ StopInv /\ [Next]_vars => StopInv'
  BY NextStops
<1>. QED BY <1>1, InitStop, Invariance, PTL DEF Spec

\* A row says "cancelled" only of a development whose draft and coding run are over,
\* unless the stop read an error: over lost answers, requests handled after they were
\* given up, deaths of either process, and the Owner's own work on the bridge.
THEOREM CancelledStops == Spec => []CancelledHasStopped
<1>1. ASSUME IInv, StopInv PROVE CancelledHasStopped
  <2>. SUFFICES ASSUME NEW p \in Plan, p \notin unread, row[p].execution = "cancelled"
                PROVE  /\ task[Delegated(p)] # "drafting"
                       /\ ~CodesFor(Delegated(p))
    BY <1>1 DEF CancelledHasStopped, CodesFor, Delegated
  <2>1. SafeAs(row[p], p)
    BY <1>1 DEF StopInv, CancelledIsSafe
  <2>2. task[Delegated(p)] # "none" => Intended(row[p], "delegate")
    BY <1>1, DelegatedJob DEF IInv, Journaled
  <2>. QED BY <2>1, <2>2 DEF SafeAs, TaskEnds, WorkEnds, CodesFor
<1>. QED BY <1>1, Invariance, StopInvariance, PTL
=============================================================================
