------------------------ MODULE ConfirmedDevelopment ------------------------
(***************************************************************************)
(* One confirmation of the Owner over a plan delegates isolated development *)
(* (core/taskPlanner).  The backend keeps the plan's row: what was confirmed *)
(* and what was asked of the bridge.  The bridge, another process, drafts    *)
(* and registers tests (core/projectTasks) and codes (core/projectWork).     *)
(*                                                                          *)
(* Three things share a row.  The planner's slot ("active") is held by one   *)
(* flow that keeps its own copy of the row from its first line to its last   *)
(* save.  The delegation reads the row afresh for every save.  The Owner may *)
(* confirm, stop, register or prepare by hand at any time.  Requests to the  *)
(* bridge are refused, answered with an error, given up after 125 s, or      *)
(* handled after they were given up; either process may die.                 *)
(***************************************************************************)
EXTENDS Naturals, FiniteSets

CONSTANTS Plan, NoPlan,
          Asks,       \* <<p, what>>: what the Owner may ask of which plan
          MaxFaults,  \* reads the bridge answers with an error
          MaxDeaths   \* deaths of either process

ASSUME DevelopmentSentinel == NoPlan \notin Plan
ASSUME DevelopmentAsks == Asks \subseteq Plan \X {"execute", "register", "recipe"}
ASSUME DevelopmentBounds == MaxFaults \in Nat /\ MaxDeaths \in Nat

VARIABLES
    row,         \* backend, on file: the plans
    slot,        \* backend: the flow that holds "active", with its copy of the row
    confirming,  \* backend: the confirmation waiting for the source ("reserving")
    delegation,  \* backend: the running execution
    asking,      \* backend: the request each side waits for
    answer,      \* backend: the answer it has got
    net,         \* requests the bridge has not handled
    task, work,  \* bridge, on file: the drafts and the coding runs
    asked,       \* bridge, on file: tasks whose coding run was asked for
    seal,        \* bridge: whose request sealed a coding run
    lane,        \* bridge: the draft whose providers have not all settled
    aborted,     \* bridge: runs told to stop
    begun,       \* history: developments the bridge began for a plan
    unread,      \* history: plans whose stop was answered with an error
    faults, deaths

backend == <<row, slot, confirming, delegation, asking, answer>>
bridge == <<task, work, asked, seal, lane, aborted>>
counts == <<begun, unread, faults, deaths>>
vars == <<backend, net, bridge, counts>>

\* Who asked for a development: a hand-made registration, the delegation, or the
\* preparation of a fixed recipe, which has no draft.
Makers == {"register", "delegate", "recipe"}
Job == Plan \X Makers
NoJob == <<NoPlan, "none">>

TaskStates == {"none", "drafting", "awaiting_approval", "registered", "cancelled",
               "failed", "interrupted"}
WorkStates == {"none", "awaiting_approval", "running", "completed", "cancelled",
               "failed", "interrupted"}

Executions == {"none", "active", "completed", "cancelled", "needs_attention", "interrupted"}

\* state: whether planning completed; draft: registrationPreparation and whose it
\* is; recipe: preparation.
Row == [completed : BOOLEAN, execution : Executions,
        draft : {"none", "pending", "linked"}, maker : {"none", "register", "delegate"},
        recipe : {"none", "pending", "prepared"}]

NoRow == [completed |-> FALSE, execution |-> "none", draft |-> "none",
          maker |-> "none", recipe |-> "none"]

Flows == {"planner", "register", "delegate", "recipe", "refresh"}
Slot == [flow : Flows \cup {"none"}, plan : Plan \cup {NoPlan}, copy : Row]
Free == [flow |-> "none", plan |-> NoPlan, copy |-> NoRow]

Points == {"registering", "starting", "readTask", "pauseTask", "approveTask", "prepare",
           "approveWork", "readWork", "pauseWork", "stopRead", "stopCancel", "stopPause",
           "stopPoll"}

\* The running execution: where it stands, what it may still do, which children it
\* knows, and what it will record if its stop succeeds.
Delegation == [plan : Plan \cup {NoPlan}, at : Points \cup {"none"}, stopped : BOOLEAN,
               expired : BOOLEAN, late : BOOLEAN, task : BOOLEAN, work : BOOLEAN,
               verdict : {"none", "cancelled", "needs_attention"}]

Idle == [plan |-> NoPlan, at |-> "none", stopped |-> FALSE, expired |-> FALSE,
         late |-> FALSE, task |-> FALSE, work |-> FALSE, verdict |-> "none"]

Side == {"delegation", "slot"}
Reads == {"getTask", "getWork", "find"}
Ops == Reads \cup {"start", "approveTask", "prepare", "approveWork", "cancelTask",
                   "cancelWork", "recipe"}
Request == [op : Ops, job : Job]
NoRequest == [op |-> "none", job |-> NoJob]

\* A handled request is answered with the run's state or with {error}, HTTP 200;
\* "rejected" is any other end of it, as the caller sees it.
Answers == TaskStates \cup WorkStates \cup {"absent", "error", "rejected"}

\* The lookup of a draft and what is made by hand are asked by the slot.
SideOf(q) == IF q.op = "find" \/ q.job[2] # "delegate" THEN "slot" ELSE "delegation"

Init ==
    /\ row = [p \in Plan |-> NoRow]
    /\ slot = Free /\ confirming = NoPlan /\ delegation = Idle
    /\ asking = [s \in Side |-> NoRequest]
    /\ answer = [s \in Side |-> "none"]
    /\ net = {}
    /\ task = [j \in Job |-> "none"] /\ work = [j \in Job |-> "none"]
    /\ asked = {} /\ seal = [j \in Job |-> "none"]
    /\ lane = NoJob /\ aborted = {}
    /\ begun = [p \in Plan |-> 0] /\ unread = {} /\ faults = 0 /\ deaths = 0

-----------------------------------------------------------------------------
(* Requests.                                                                *)

Sends(s, op, job) ==
    /\ asking' = [asking EXCEPT ![s] = [op |-> op, job |-> job]]
    /\ answer' = [answer EXCEPT ![s] = "none"]
    /\ net' = net \cup {[op |-> op, job |-> job]}

\* The side has taken its answer, or never asked.
Rests(s) ==
    /\ asking' = [asking EXCEPT ![s] = NoRequest]
    /\ answer' = [answer EXCEPT ![s] = "none"]
    /\ UNCHANGED net

Answered(s) == answer[s] # "none"

\* The bridge is busy with another request (503), cannot be reached, or does not
\* answer in time.  What was given up may be handled all the same.
Rejected(s) ==
    /\ asking[s] # NoRequest /\ answer[s] = "none"
    /\ answer' = [answer EXCEPT ![s] = "rejected"]
    /\ \/ net' = net \ {asking[s]}
       \/ asking[s].op \notin Reads /\ UNCHANGED net
    /\ UNCHANGED <<row, slot, confirming, delegation, asking, bridge, counts>>

Replies(q, value) ==
    /\ net' = net \ {q}
    /\ answer' = IF asking[SideOf(q)] = q /\ answer[SideOf(q)] = "none"
                    THEN [answer EXCEPT ![SideOf(q)] = value] ELSE answer
    /\ UNCHANGED <<row, slot, confirming, delegation, asking>>

-----------------------------------------------------------------------------
(* The bridge.  It handles one request at a time, and refuses /project-work   *)
(* while a draft occupies the task lane.                                      *)

Coding == \E j \in Job : work[j] = "running"
Quiet == lane = NoJob /\ ~Coding

Begins(q, value) ==
    /\ Replies(q, value)
    /\ begun' = [begun EXCEPT ![q.job[1]] = @ + 1]
    /\ UNCHANGED <<unread, faults, deaths>>

\* Mutant: a draft looks at its own lane only.
StartDraftBesideCoding(q) ==
    /\ q.op = "start" /\ lane = NoJob
    /\ task' = [task EXCEPT ![q.job] = "drafting"]
    /\ lane' = q.job
    /\ Begins(q, "drafting")
    /\ UNCHANGED <<work, asked, seal, aborted>>

StartDraft(q) ==
    /\ q.op = "start" /\ Quiet
    /\ task' = [task EXCEPT ![q.job] = "drafting"]
    /\ lane' = q.job
    /\ Begins(q, "drafting")
    /\ UNCHANGED <<work, asked, seal, aborted>>

\* prepareWork of a fixed recipe.
PrepareRecipe(q) ==
    /\ q.op = "recipe" /\ Quiet
    /\ work' = [work EXCEPT ![q.job] = "awaiting_approval"]
    /\ seal' = [seal EXCEPT ![q.job] = "owner"]
    /\ Begins(q, "awaiting_approval")
    /\ UNCHANGED <<task, asked, lane, aborted>>

RegisterDraft(q) ==
    /\ q.op = "approveTask" /\ Quiet /\ task[q.job] = "awaiting_approval"
    /\ task' = [task EXCEPT ![q.job] = "registered"]
    /\ Replies(q, "registered")
    /\ UNCHANGED <<work, asked, seal, lane, aborted, counts>>

\* The intent is on file before the coding run is prepared, which may fail.
PrepareWork(q) ==
    /\ q.op = "prepare" /\ Quiet /\ task[q.job] = "registered" /\ q.job \notin asked
    /\ asked' = asked \cup {q.job}
    /\ \/ /\ work' = [work EXCEPT ![q.job] = "awaiting_approval"]
          /\ seal' = [seal EXCEPT ![q.job] = "delegate"]
          /\ Replies(q, "awaiting_approval")
       \/ Replies(q, "error") /\ UNCHANGED <<work, seal>>
    /\ UNCHANGED <<task, lane, aborted, counts>>

StartCoding(q) ==
    /\ q.op = "approveWork" /\ Quiet
    /\ work[q.job] = "awaiting_approval" /\ seal[q.job] = "delegate"
    /\ work' = [work EXCEPT ![q.job] = "running"]
    /\ Replies(q, "running")
    /\ UNCHANGED <<task, asked, seal, lane, aborted, counts>>

\* A draft or a run in progress is told to stop, a pending approval is withdrawn.
Cancels(j, lanes) ==
    \/ /\ \/ lanes = "task" /\ task[j] = "drafting"
          \/ lanes = "work" /\ work[j] = "running"
       /\ aborted' = aborted \cup {j}
       /\ UNCHANGED <<task, work>>
    \/ /\ lanes = "task" /\ task[j] = "awaiting_approval"
       /\ task' = [task EXCEPT ![j] = "cancelled"]
       /\ UNCHANGED <<work, aborted>>
    \/ /\ lanes = "work" /\ work[j] = "awaiting_approval"
       /\ work' = [work EXCEPT ![j] = "cancelled"]
       /\ UNCHANGED <<task, aborted>>

Cancel(q) ==
    \/ /\ q.op = "cancelTask" /\ Cancels(q.job, "task") /\ Replies(q, task'[q.job])
       /\ UNCHANGED <<asked, seal, lane, counts>>
    \/ /\ q.op = "cancelWork" /\ lane = NoJob
       /\ Cancels(q.job, "work") /\ Replies(q, work'[q.job])
       /\ UNCHANGED <<asked, seal, lane, counts>>

\* worker_busy, approval_unavailable, source_changed, not_enabled and the like.
Declines(q) ==
    /\ q.op \notin Reads
    /\ Replies(q, "error")
    /\ UNCHANGED <<bridge, counts>>

Read(q) ==
    /\ \/ q.op = "getTask" /\ Replies(q, task[q.job])
       \/ q.op = "getWork" /\ lane = NoJob /\ Replies(q, work[q.job])
       \/ q.op = "find" /\ Replies(q, IF task[q.job] = "none" THEN "absent" ELSE task[q.job])
    /\ UNCHANGED <<bridge, counts>>

\* The row cannot be read, or is too large to present.
ReadFails(q) ==
    /\ q.op \in Reads /\ faults < MaxFaults
    /\ faults' = faults + 1
    /\ Replies(q, "error")
    /\ UNCHANGED <<bridge, begun, unread, deaths>>

Handle(q) == \/ StartDraft(q) \/ PrepareRecipe(q) \/ RegisterDraft(q) \/ PrepareWork(q)
             \/ StartCoding(q) \/ Cancel(q) \/ Declines(q) \/ Read(q) \/ ReadFails(q)

\* A draft ends; a provider still in flight keeps the lane.
DraftEnds(j) ==
    /\ task[j] = "drafting"
    /\ \E outcome \in IF j \in aborted THEN {"cancelled"}
                                       ELSE {"awaiting_approval", "failed"} :
          /\ task' = [task EXCEPT ![j] = outcome]
          /\ lane' \in IF outcome = "awaiting_approval" THEN {NoJob} ELSE {NoJob, j}
    /\ aborted' = aborted \ {j}
    /\ UNCHANGED <<backend, net, work, asked, seal, counts>>

ProvidersSettle ==
    /\ lane # NoJob /\ task[lane] # "drafting"
    /\ lane' = NoJob
    /\ UNCHANGED <<backend, net, task, work, asked, seal, aborted, counts>>

CodingEnds(j) ==
    /\ work[j] = "running"
    /\ \E outcome \in {"completed", "failed"} \cup IF j \in aborted THEN {"cancelled"} ELSE {} :
          work' = [work EXCEPT ![j] = outcome]
    /\ aborted' = aborted \ {j}
    /\ UNCHANGED <<backend, net, task, asked, seal, lane, counts>>

\* The Owner works on the bridge's own pages.
OwnerRegisters(j) ==
    /\ Quiet /\ task[j] = "awaiting_approval"
    /\ task' = [task EXCEPT ![j] = "registered"]
    /\ UNCHANGED <<backend, net, work, asked, seal, lane, aborted, counts>>

OwnerPrepares(j) ==
    /\ Quiet /\ task[j] = "registered" /\ j \notin asked
    /\ asked' = asked \cup {j}
    /\ work' = [work EXCEPT ![j] = "awaiting_approval"]
    /\ seal' = [seal EXCEPT ![j] = "owner"]
    /\ UNCHANGED <<backend, net, task, lane, aborted, counts>>

OwnerApproves(j) ==
    /\ Quiet /\ work[j] = "awaiting_approval" /\ seal[j] = "owner"
    /\ j[2] = "recipe" => row[j[1]].recipe = "prepared"
    /\ work' = [work EXCEPT ![j] = "running"]
    /\ UNCHANGED <<backend, net, task, asked, seal, lane, aborted, counts>>

OwnerCancels(j) ==
    /\ \/ Cancels(j, "task")
       \/ lane = NoJob /\ Cancels(j, "work")
    /\ UNCHANGED <<backend, net, asked, seal, lane, counts>>

OnBridge(j) == \/ DraftEnds(j) \/ CodingEnds(j) \/ OwnerRegisters(j) \/ OwnerPrepares(j)
               \/ OwnerApproves(j) \/ OwnerCancels(j)

\* Drafts, runs and approvals in progress are interrupted at the restart.
BridgeDies ==
    /\ deaths < MaxDeaths
    /\ deaths' = deaths + 1
    /\ task' = [j \in Job |-> IF task[j] \in {"drafting", "awaiting_approval"}
                                 THEN "interrupted" ELSE task[j]]
    /\ work' = [j \in Job |-> IF work[j] \in {"awaiting_approval", "running"}
                                 THEN "interrupted" ELSE work[j]]
    /\ seal' = [j \in Job |-> "none"]
    /\ lane' = NoJob /\ aborted' = {} /\ net' = {}
    /\ UNCHANGED <<backend, asked, begun, unread, faults>>

-----------------------------------------------------------------------------
(* The planner's slot.                                                      *)

\* Planning ends with the verified plan on file; the slot is kept until the memory
\* receipt (up to 3 s later) is saved with the planner's copy of the row.
PlanCompletes(p) ==
    /\ slot = Free /\ ~row[p].completed
    /\ row' = [row EXCEPT ![p].completed = TRUE]
    /\ slot' = [flow |-> "planner", plan |-> p, copy |-> row'[p]]
    /\ UNCHANGED <<confirming, delegation, asking, answer, net, bridge, counts>>

PlanFiled ==
    /\ slot.flow = "planner"
    /\ row' = [row EXCEPT ![slot.plan] = slot.copy]
    /\ slot' = Free
    /\ UNCHANGED <<confirming, delegation, asking, answer, net, bridge, counts>>

Undeveloped(r) == r.draft = "none" /\ r.recipe = "none"

\* Mutant: an earlier preparation of the plan is not looked at.
OwnerAsksAgain(p, flow) ==
    /\ <<p, flow>> \in Asks /\ slot = Free /\ row[p].completed
    /\ slot' = [flow |-> flow, plan |-> p, copy |-> row[p]]
    /\ UNCHANGED <<row, confirming, delegation, asking, answer, net, bridge, counts>>

\* The Owner registers a task, or prepares the fixed recipe, by hand.
OwnerAsks(p, flow) ==
    /\ <<p, flow>> \in Asks /\ slot = Free /\ row[p].completed /\ Undeveloped(row[p])
    /\ slot' = [flow |-> flow, plan |-> p, copy |-> row[p]]
    /\ UNCHANGED <<row, confirming, delegation, asking, answer, net, bridge, counts>>

\* Opening a plan whose draft was never answered looks the draft up.
RefreshAsks(p) ==
    /\ slot = Free /\ row[p].draft = "pending"
    /\ slot' = [flow |-> "refresh", plan |-> p, copy |-> row[p]]
    /\ Sends("slot", "find", <<p, row[p].maker>>)
    /\ UNCHANGED <<row, confirming, delegation, bridge, counts>>

\* The source is read again before anything is asked of the bridge.
ReadsSource == \/ slot.flow \in {"register", "recipe"} /\ asking["slot"] = NoRequest
               \/ slot.flow = "delegate" /\ delegation.at = "registering"

Marked(r) == IF slot.flow = "recipe" THEN [r EXCEPT !.recipe = "pending"]
                                     ELSE [r EXCEPT !.draft = "pending", !.maker = slot.flow]

\* The intent is saved, with the flow's copy of the row, before the request.
SourceConfirmed ==
    /\ ReadsSource
    /\ LET r == Marked(slot.copy)
       IN  /\ row' = [row EXCEPT ![slot.plan] = r]
           /\ slot' = [slot EXCEPT !.copy = r]
    /\ Sends(IF slot.flow = "delegate" THEN "delegation" ELSE "slot",
             IF slot.flow = "recipe" THEN "recipe" ELSE "start", <<slot.plan, slot.flow>>)
    /\ delegation' = IF slot.flow = "delegate" THEN [delegation EXCEPT !.at = "starting"]
                                               ELSE delegation
    /\ UNCHANGED <<confirming, bridge, counts>>

SourceChanged ==
    /\ ReadsSource /\ slot.flow # "delegate"
    /\ slot' = Free
    /\ UNCHANGED <<row, confirming, delegation, asking, answer, net, bridge, counts>>

Good(value) == value \notin {"none", "absent", "error", "rejected"}

\* What was asked by hand, or looked up, is linked to the plan.
SlotAnswered ==
    /\ Answered("slot")
    /\ row' = IF ~Good(answer["slot"]) THEN row
              ELSE [row EXCEPT ![slot.plan] =
                       IF slot.flow = "recipe" THEN [slot.copy EXCEPT !.recipe = "prepared"]
                                               ELSE [slot.copy EXCEPT !.draft = "linked"]]
    /\ slot' = Free
    /\ Rests("slot")
    /\ UNCHANGED <<confirming, delegation, bridge, counts>>

-----------------------------------------------------------------------------
(* The confirmed execution.                                                 *)

ConfirmAsked(p) ==
    /\ <<p, "execute">> \in Asks /\ confirming = NoPlan /\ delegation = Idle
    /\ row[p].completed /\ row[p].execution = "none" /\ Undeveloped(row[p])
    /\ confirming' = p
    /\ UNCHANGED <<row, slot, delegation, asking, answer, net, bridge, counts>>

ConfirmRefused ==
    /\ confirming # NoPlan
    /\ confirming' = NoPlan
    /\ UNCHANGED <<row, slot, delegation, asking, answer, net, bridge, counts>>

\* The consent is recorded and the registration entered in one go: it takes the
\* slot, or ends at once because the slot is taken or the plan already developed.
ConfirmGranted ==
    /\ confirming # NoPlan /\ row[confirming].execution = "none"
    /\ LET p == confirming
           r == [row[p] EXCEPT !.execution = "active"]
       IN  IF slot = Free /\ Undeveloped(r)
              THEN /\ row' = [row EXCEPT ![p] = r]
                   /\ slot' = [flow |-> "delegate", plan |-> p, copy |-> r]
                   /\ delegation' = [Idle EXCEPT !.plan = p, !.at = "registering"]
              ELSE /\ row' = [row EXCEPT ![p] = [r EXCEPT !.execution = "needs_attention"]]
                   /\ UNCHANGED <<slot, delegation>>
    /\ confirming' = NoPlan
    /\ UNCHANGED <<asking, answer, net, bridge, counts>>

\* Each step of the execution continues as d with the row r: it waits for an
\* answer, for the next poll, or ends.
Waits(d, r, at, op) ==
    /\ row' = [row EXCEPT ![d.plan] = r]
    /\ delegation' = [d EXCEPT !.at = at]
    /\ Sends("delegation", op, <<d.plan, "delegate">>)

Pauses(d, at) ==
    /\ delegation' = [d EXCEPT !.at = at]
    /\ Rests("delegation")
    /\ UNCHANGED row

Ends(d, r, execution) ==
    /\ row' = [row EXCEPT ![d.plan] = [r EXCEPT !.execution = execution]]
    /\ delegation' = Idle
    /\ Rests("delegation")

Verdict(d) == IF d.stopped THEN "cancelled" ELSE "needs_attention"

\* The catch block: a stop, or consent that expired, stops the child it knows.
Fails(d, r, stopping) ==
    IF stopping /\ (d.task \/ d.work)
       THEN Waits([d EXCEPT !.verdict = Verdict(d)], r, "stopRead",
                  IF d.work THEN "getWork" ELSE "getTask")
       ELSE Ends(d, r, IF stopping /\ r.draft # "none" THEN "needs_attention" ELSE Verdict(d))

\* Mutant: the age of the consent is never looked at.
WithdrawnByStop(d) == d.stopped

Withdrawn(d) == d.stopped \/ d.expired

\* call(): check, then record and send.
Calls(d, r, at, op) ==
    IF Withdrawn(d) THEN Fails(d, r, TRUE)
    ELSE IF r.execution # "active" THEN Fails(d, r, FALSE)
    ELSE Waits(d, r, at, op)

Here(at) == delegation.at \in at /\ Answered("delegation")
Own == row[delegation.plan]
Said == answer["delegation"]

\* The child is no longer active and did not complete.
ChildStopped(d) ==
    Ends(d, Own, IF Said = "cancelled" THEN "cancelled" ELSE "needs_attention")

RegistrationFails ==
    /\ \/ ReadsSource /\ slot.flow = "delegate"
       \/ Here({"starting"}) /\ ~Good(Said)
    /\ slot' = Free
    /\ Fails(delegation, Own, delegation.stopped)
    /\ UNCHANGED <<confirming, bridge, counts>>

DraftStarted ==
    /\ Here({"starting"}) /\ Good(Said)
    /\ slot' = Free
    /\ Calls([delegation EXCEPT !.task = TRUE], [slot.copy EXCEPT !.draft = "linked"],
             "readTask", "getTask")
    /\ UNCHANGED <<confirming, bridge, counts>>

Unanswered ==
    /\ Here({"readTask", "approveTask", "prepare", "approveWork", "readWork"}) /\ ~Good(Said)
    /\ Fails(delegation, Own, delegation.stopped)
    /\ UNCHANGED <<slot, confirming, bridge, counts>>

TaskRead ==
    /\ Here({"readTask"}) /\ Good(Said)
    /\ \/ Withdrawn(delegation) /\ Fails(delegation, Own, TRUE)
       \/ /\ ~Withdrawn(delegation)
          /\ \/ Said = "drafting" /\ Pauses(delegation, "pauseTask")
             \/ /\ Said = "awaiting_approval"
                /\ Calls(delegation, Own, "approveTask", "approveTask")
             \/ Said \notin {"drafting", "awaiting_approval"} /\ ChildStopped(delegation)
    /\ UNCHANGED <<slot, confirming, bridge, counts>>

TaskRegistered ==
    /\ Here({"approveTask"}) /\ Good(Said)
    /\ Calls(delegation, Own, "prepare", "prepare")
    /\ UNCHANGED <<slot, confirming, bridge, counts>>

\* The child is saved before the check, so that it can be stopped.
WorkPrepared ==
    /\ Here({"prepare"}) /\ Good(Said)
    /\ Calls([delegation EXCEPT !.work = TRUE], Own, "approveWork", "approveWork")
    /\ UNCHANGED <<slot, confirming, bridge, counts>>

WorkRead ==
    /\ Here({"approveWork", "readWork"}) /\ Good(Said)
    /\ \/ Withdrawn(delegation) /\ Fails(delegation, Own, TRUE)
       \/ /\ ~Withdrawn(delegation)
          /\ \/ Said = "running" /\ Pauses(delegation, "pauseWork")
             \/ Said = "completed" /\ Ends(delegation, Own, "completed")
             \/ Said \notin {"running", "completed"} /\ ChildStopped(delegation)
    /\ UNCHANGED <<slot, confirming, bridge, counts>>

\* The poll is due, or the stop wakes it.
Wakes ==
    /\ \/ delegation.at = "pauseTask" /\ Calls(delegation, Own, "readTask", "getTask")
       \/ delegation.at = "pauseWork" /\ Calls(delegation, Own, "readWork", "getWork")
       \/ /\ delegation.at = "stopPause"
          /\ Waits(delegation, Own, "stopPoll", IF delegation.work THEN "getWork" ELSE "getTask")
    /\ UNCHANGED <<slot, confirming, bridge, counts>>

Stoppable == {"drafting", "running", "awaiting_approval"}

\* Mutant: a child that awaits an approval is taken for one that needs no stop.
StopReadActiveOnly ==
    /\ Here({"stopRead"})
    /\ \/ Said = "rejected" /\ Ends(delegation, Own, "needs_attention")
       \/ /\ Said \in Stoppable \ {"awaiting_approval"}
          /\ Waits(delegation, Own, "stopCancel",
                   IF delegation.work THEN "cancelWork" ELSE "cancelTask")
       \/ /\ Said \notin (Stoppable \ {"awaiting_approval"}) \cup {"rejected"}
          /\ Ends(delegation, Own, delegation.verdict)
    /\ unread' = IF Said = "error" THEN unread \cup {delegation.plan} ELSE unread
    /\ UNCHANGED <<slot, confirming, bridge, begun, faults, deaths>>

\* Only a child that is active or awaits an approval is cancelled.  An answer
\* without a run, which an error is, is taken for a child that needs no stop.
StopRead ==
    /\ Here({"stopRead"})
    /\ \/ Said = "rejected" /\ Ends(delegation, Own, "needs_attention")
       \/ /\ Said \in Stoppable
          /\ Waits(delegation, Own, "stopCancel",
                   IF delegation.work THEN "cancelWork" ELSE "cancelTask")
       \/ /\ Said \notin Stoppable \cup {"rejected"}
          /\ Ends(delegation, Own, delegation.verdict)
    /\ unread' = IF Said = "error" THEN unread \cup {delegation.plan} ELSE unread
    /\ UNCHANGED <<slot, confirming, bridge, begun, faults, deaths>>

\* The child is polled until it is no longer active, for ten seconds.
StopAnswered ==
    /\ Here({"stopCancel", "stopPoll"})
    /\ \/ Said = "cancelled" /\ Ends(delegation, Own, delegation.verdict)
       \/ Said \in {"drafting", "running"} /\ ~delegation.late /\ Pauses(delegation, "stopPause")
       \/ /\ Said \in {"drafting", "running"} => delegation.late
          /\ Said # "cancelled"
          /\ Ends(delegation, Own, "needs_attention")
    /\ UNCHANGED <<slot, confirming, bridge, counts>>

DelegationStep == \/ RegistrationFails \/ DraftStarted \/ Unanswered \/ TaskRead
                  \/ TaskRegistered \/ WorkPrepared \/ WorkRead \/ Wakes
                  \/ StopRead \/ StopAnswered

\* The Owner stops the execution.
Stop ==
    /\ delegation # Idle /\ ~delegation.stopped
    /\ delegation' = [delegation EXCEPT !.stopped = TRUE]
    /\ UNCHANGED <<row, slot, confirming, asking, answer, net, bridge, counts>>

\* An hour after the confirmation; ten seconds after a stop was asked.
TimePasses ==
    /\ \/ /\ delegation # Idle /\ ~delegation.expired
          /\ delegation' = [delegation EXCEPT !.expired = TRUE]
       \/ /\ delegation.at \in {"stopPause", "stopPoll"} /\ ~delegation.late
          /\ delegation' = [delegation EXCEPT !.late = TRUE]
    /\ UNCHANGED <<row, slot, confirming, asking, answer, net, bridge, counts>>

\* Requests under way may still arrive; executions in progress are interrupted.
BackendDies ==
    /\ deaths < MaxDeaths
    /\ deaths' = deaths + 1
    /\ row' = [p \in Plan |-> IF row[p].execution = "active"
                                 THEN [row[p] EXCEPT !.execution = "interrupted"] ELSE row[p]]
    /\ slot' = Free /\ confirming' = NoPlan /\ delegation' = Idle
    /\ asking' = [s \in Side |-> NoRequest]
    /\ answer' = [s \in Side |-> "none"]
    /\ net' = {q \in net : q.op \notin Reads}
    /\ UNCHANGED <<bridge, begun, unread, faults>>

OnPlan(p) == \/ PlanCompletes(p) \/ RefreshAsks(p) \/ ConfirmAsked(p)
             \/ \E flow \in {"register", "recipe"} : OwnerAsks(p, flow)

SlotStep == PlanFiled \/ SourceConfirmed \/ SourceChanged \/ SlotAnswered

Next ==
    \/ \E p \in Plan : OnPlan(p)
    \/ SlotStep \/ ConfirmRefused \/ ConfirmGranted \/ DelegationStep
    \/ Stop \/ TimePasses
    \/ \E s \in Side : Rejected(s)
    \/ \E q \in net : Handle(q)
    \/ \E j \in Job : OnBridge(j)
    \/ ProvidersSettle
    \/ BackendDies \/ BridgeDies

Spec == Init /\ [][Next]_vars

\* The event loop runs every continuation and timer, requests time out, time passes.
FairSpec ==
    /\ Spec
    /\ WF_vars(SlotStep) /\ WF_vars(DelegationStep) /\ WF_vars(TimePasses)
    /\ \A s \in Side : WF_vars(Rejected(s))

-----------------------------------------------------------------------------
(* Properties.                                                              *)

\* Every variable has its type.
TypeOK ==
    /\ row \in [Plan -> Row]
    /\ slot \in Slot /\ confirming \in Plan \cup {NoPlan}
    /\ delegation \in Delegation
    /\ asking \in [Side -> Request \cup {NoRequest}]
    /\ answer \in [Side -> Answers \cup {"none"}]
    /\ net \in SUBSET Request
    /\ task \in [Job -> TaskStates] /\ work \in [Job -> WorkStates]
    /\ asked \in SUBSET Job /\ seal \in [Job -> {"none", "delegate", "owner"}]
    /\ lane \in Job \cup {NoJob} /\ aborted \in SUBSET Job
    /\ begun \in [Plan -> Nat] /\ unread \in SUBSET Plan /\ faults \in Nat /\ deaths \in Nat

\* "One plan prepares once; durable preparation intent precedes the bridge call"
\* (docs/TASK-PLANNER-V2.md); by hand or by delegation, over lost answers, late
\* requests and deaths, the plan on file says who asked, and the consent is there.
OneJournaledDevelopment ==
    \A p \in Plan :
        /\ begun[p] <= 1
        /\ task[<<p, "register">>] # "none" => row[p].draft # "none" /\ row[p].maker = "register"
        /\ task[<<p, "delegate">>] # "none"
              => row[p].draft # "none" /\ row[p].maker = "delegate" /\ row[p].execution # "none"
        /\ work[<<p, "recipe">>] # "none" => row[p].recipe # "none"

\* The router and two services keep one lane between them: never two coding runs,
\* and no coding run beside a draft whose providers have not settled.
OneWorkerAtATime ==
    /\ \A i, j \in Job : work[i] = "running" /\ work[j] = "running" => i = j
    /\ lane # NoJob => ~Coding

\* An execution recorded as cancelled left no draft and no coding run of its own in
\* progress, whatever was lost, late or refused, unless its stop read an error.
CancelledHasStopped ==
    \A p \in Plan \ unread :
        row[p].execution = "cancelled"
            => /\ task[<<p, "delegate">>] # "drafting"
               /\ ~(work[<<p, "delegate">>] = "running" /\ seal[<<p, "delegate">>] = "delegate")

\* Consent lasts an hour: no execution stays in progress, whatever its children do.
DelegationEnds ==
    \A p \in Plan : row[p].execution = "active" ~> row[p].execution # "active"
=============================================================================
