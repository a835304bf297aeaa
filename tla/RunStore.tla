------------------------------ MODULE RunStore ------------------------------
(***************************************************************************)
(* The durable Run store (src/run/store.js), the capability dispatcher it  *)
(* drives in the background (src/capability/dispatcher.js) and the two     *)
(* executors that run behind its claims: the sandbox worker                *)
(* (src/workers/runWorkerInBackground.js) and the agent runner             *)
(* (src/agent/agentRunner.js).                                             *)
(*                                                                         *)
(* The process is single-threaded: a synchronous block runs to completion. *)
(* A block with several file writes is several actions here, because the   *)
(* process may die between two writes; the program counters listed in      *)
(* "InTurn" hold the thread until the block ends.  Memory is always        *)
(* changed first and then the whole file is written, so a failed write     *)
(* leaves memory ahead of the file.                                        *)
(***************************************************************************)
EXTENDS RunTimeline

CONSTANTS Candidates,  \* agents that provide the Run's capability
          MaxFaults,   \* bound on failed writes of the runs file
          MaxCrashes   \* bound on process deaths

ASSUME CandidatesAssumption == Candidates \in Nat \ {0}
ASSUME BoundsAssumption == MaxFaults \in Nat /\ MaxCrashes \in Nat

VARIABLES
    mem,       \* the runs map of run.js
    disk,      \* the runs file
    phase,     \* "boot" until startup reconcile is done, then "serving"
    todo,      \* Runs the startup reconcile has not visited
    job,       \* program counter of the background dispatch of a Run
    left,      \* candidates the dispatcher has not tried
    retryOf,   \* original of the attempt that a retry is creating
    applying,  \* Runs whose Apply@1 is in flight
    worker,    \* program counter of the sandbox worker of a Run
    agent,     \* program counter of the agent runner of a Run
    tasks,     \* Runs with an Execution artifact
    results,   \* verdict of a Run's Result artifact
    audits,    \* the agent audit log
    begun,     \* history: hand-offs of a Run that ever began to execute
    applied,   \* history: Apply dispatches ever made for a Run
    outcome,   \* history: what a Run's executor reported
    faults, crashes

timelines == <<mem, disk, faults>>
startup   == <<phase, todo, crashes>>
develop   == <<job, left>>
evidence  == <<tasks, results, audits>>
history   == <<begun, applied, outcome>>
vars == <<mem, disk, phase, todo, job, left, retryOf, applying, worker, agent,
          tasks, results, audits, begun, applied, outcome, faults, crashes>>

JobInTurn == {"created", "policy", "denying", "holding", "selecting", "attempt",
              "finished", "patching", "missed", "caught", "returned", "threw"}
JobStates == {"idle", "queued", "working"} \cup JobInTurn

WorkerStates == {"idle", "queued", "working"}

AgentInTurn == {"selecting", "auditing", "finishing", "settling"}
AgentStates == {"idle", "queued", "working"} \cup AgentInTurn

\* The event loop may start another handler or callback.
Free == /\ phase = "serving"
        /\ \A r \in RunId : /\ job[r] \notin JobInTurn
                            /\ agent[r] \notin AgentInTurn
                            /\ retryOf[r] = NoRun

Init ==
    /\ mem  = [r \in RunId |-> NoRecord]
    /\ disk = [r \in RunId |-> NoRecord]
    /\ phase = "boot" /\ todo = {}
    /\ job = [r \in RunId |-> "idle"] /\ left = [r \in RunId |-> 0]
    /\ retryOf = [r \in RunId |-> NoRun]
    /\ applying = {}
    /\ worker = [r \in RunId |-> "idle"]
    /\ agent  = [r \in RunId |-> "idle"]
    /\ tasks = {} /\ results = [r \in RunId |-> "none"] /\ audits = << >>
    /\ begun = [r \in RunId |-> 0] /\ applied = [r \in RunId |-> 0]
    /\ outcome = [r \in RunId |-> "none"]
    /\ faults = 0 /\ crashes = 0

-----------------------------------------------------------------------------
(* Writing.                                                                 *)

\* Mutant: the error of a failed write is lost on its way to the caller.
FlushUnchecked(ok) ==
    ok /\ \/ disk' = mem' /\ UNCHANGED faults
          \/ faults < MaxFaults /\ faults' = faults + 1 /\ UNCHANGED disk

\* flush: the whole { order, runs } envelope, by temp file and rename; ok is
\* FALSE when the write fails, and the caller sees a throw.
Flush(ok) == \/ ok /\ disk' = mem' /\ UNCHANGED faults
             \/ ~ok /\ faults < MaxFaults /\ faults' = faults + 1 /\ UNCHANGED disk

\* appendAndFlush of an updated record.
Record(r, run, ok) == mem' = [mem EXCEPT ![r] = run] /\ Flush(ok)

\* A caller that swallows the throw of appendAndFlush, and a refused append.
RecordQuietly(r, run, stage) ==
    IF AppendAllowed(mem[r], stage, mem[r].approval)
        THEN \E ok \in BOOLEAN : Record(r, run, ok)
        ELSE UNCHANGED timelines

-----------------------------------------------------------------------------
(* Creating a Run and claiming the right to execute it.                     *)

\* Mutant: a minted id may be one of a Run there is.
StartRunReusingId(r, approval, frontend) ==
    /\ Free
    /\ \E ok \in BOOLEAN :
         /\ Record(r, NewRecord(approval, frontend), ok)
         /\ job' = [job EXCEPT ![r] = IF ok THEN "created" ELSE "idle"]
    /\ UNCHANGED <<startup, left, retryOf, applying, worker, agent, evidence, history>>

\* The code tests no collision: run.js:212 and :235 take 8 hex digits of a UUID and set the
\* map.  That a minted id is fresh is an assumption, here and in Retry.
StartRun(r, approval, frontend) ==
    /\ Free
    /\ ~Exists(mem[r])
    /\ \E ok \in BOOLEAN :
         /\ Record(r, NewRecord(approval, frontend), ok)
         /\ job' = [job EXCEPT ![r] = IF ok THEN "created" ELSE "idle"]
    /\ UNCHANGED <<startup, left, retryOf, applying, worker, agent, evidence, history>>

\* Terminal minus interrupted.
CompletedStatuses == TerminalStatuses \ {"interrupted"}

\* The classification the three claim gates share, before they write.
ClaimStatus(run, claim) ==
    CASE ~Exists(run) -> "needs_review"
      [] Exists(run) /\ Status(run) \in CompletedStatuses -> "already_completed"
      [] Exists(run) /\ Status(run) \notin CompletedStatuses ->
            CASE HasStage(run, claim) -> "already_dispatched"
              [] ~HasStage(run, claim) /\ HasClaim(run) -> "needs_review"
              [] ~HasClaim(run) -> "fresh"

\* A claim gate: one synchronous block that appends the claim and flushes; the
\* claim was obtained exactly when ok.
Claim(r, claim, approvalFact, ok) ==
    /\ ClaimStatus(mem[r], claim) = "fresh"
    /\ AppendAllowed(mem[r], claim, approvalFact)
    /\ Record(r, Appended(mem[r], claim), ok)

\* Mutant: the dispatch is queued whether or not the claim was written.
ClaimDispatchUnflushed(r) ==
    \E ok \in BOOLEAN :
        /\ Claim(r, "DISPATCH_CLAIMED", NoApproval, ok)
        /\ job' = [job EXCEPT ![r] = "queued"]

ClaimDispatch(r) ==
    \E ok \in BOOLEAN :
        /\ Claim(r, "DISPATCH_CLAIMED", NoApproval, ok)
        /\ job' = [job EXCEPT ![r] = IF ok THEN "queued" ELSE "idle"]

\* The rest of startRun: scheduleDispatch asks for authorization first.
ScheduleDispatch(r, authorized) ==
    /\ job[r] = "created"
    /\ IF authorized
          THEN ClaimDispatch(r)
          ELSE job' = [job EXCEPT ![r] = "idle"] /\ UNCHANGED timelines
    /\ UNCHANGED <<startup, left, retryOf, applying, worker, agent, evidence, history>>

DispatchRun(r) ==
    /\ Free
    /\ ClaimDispatch(r)
    /\ UNCHANGED <<startup, left, retryOf, applying, worker, agent, evidence, history>>

ClaimWorker(r) ==
    /\ Free
    /\ \E ok \in BOOLEAN :
         /\ Claim(r, "WORKER_CLAIMED", NoApproval, ok)
         /\ worker' = [worker EXCEPT ![r] = IF ok THEN "queued" ELSE "idle"]
    /\ UNCHANGED <<startup, develop, retryOf, applying, agent, evidence, history>>

\* approvalFact comes from the sealed order, not from the Run.
ClaimAgent(r, approvalFact) ==
    /\ Free
    /\ approvalFact # NoApproval /\ approvalFact = mem[r].approval
    /\ \E ok \in BOOLEAN :
         /\ Claim(r, "AGENT_CLAIMED", approvalFact, ok)
         /\ agent' = [agent EXCEPT ![r] = IF ok THEN "selecting" ELSE "idle"]
    /\ UNCHANGED <<startup, develop, retryOf, applying, worker, evidence, history>>

-----------------------------------------------------------------------------
(* The background dispatch: spawnDispatch and dispatcher.dispatch.          *)

others == <<startup, retryOf, applying, worker, agent, evidence>>

DispatchBegins(r) ==
    /\ Free
    /\ job[r] = "queued"
    /\ job' = [job EXCEPT ![r] = "policy"]
    /\ begun' = [begun EXCEPT ![r] = @ + 1]
    /\ UNCHANGED <<timelines, left, applied, outcome, others>>

\* runContext.appendStage inside dispatch: on with the block, or a throw.
Milestone(r, stage, next, thrown) ==
    IF AppendAllowed(mem[r], stage, NoApproval)
       THEN \E ok \in BOOLEAN :
              /\ Record(r, Appended(mem[r], stage), ok)
              /\ job' = [job EXCEPT ![r] = IF ok THEN next ELSE thrown]
       ELSE job' = [job EXCEPT ![r] = thrown] /\ UNCHANGED timelines

\* evaluate throws for a capability that is not routable, before any stage; a
\* capability that no agent provides ends the dispatch without a stage.
EvaluatePolicy(r) ==
    /\ job[r] = "policy"
    /\ \/ job' = [job EXCEPT ![r] = "threw"] /\ UNCHANGED timelines
       \/ \E next \in {"denying", "holding", "selecting", "returned"} :
             Milestone(r, "POLICY_EVALUATED", next, "threw")
    /\ UNCHANGED <<left, history, others>>

Deny(r) ==
    /\ job[r] = "denying"
    /\ Milestone(r, "DENIED", "returned", "threw")
    /\ UNCHANGED <<left, history, others>>

Hold(r) ==
    /\ job[r] = "holding"
    /\ Milestone(r, "PENDING_APPROVAL", "returned", "threw")
    /\ UNCHANGED <<left, history, others>>

SelectAgent(r) ==
    /\ job[r] = "selecting"
    /\ Milestone(r, "AGENT_SELECTED", "attempt", "threw")
    /\ left' = [left EXCEPT ![r] = Candidates]
    /\ UNCHANGED <<history, others>>

\* One iteration of the candidate loop up to the await: a candidate without a
\* valid adapter, or whose AGENT_RUNNING could not be recorded, is passed over
\* without an AGENT_FINISHED.
Attempt(r) ==
    /\ job[r] = "attempt" /\ left[r] > 0
    /\ \/ /\ left' = [left EXCEPT ![r] = @ - 1]
          /\ UNCHANGED <<job, timelines>>
       \/ /\ Milestone(r, "AGENT_RUNNING", "working", "attempt")
          /\ left' = [left EXCEPT ![r] = @ - 1]
    /\ UNCHANGED <<history, others>>

\* adapter.invoke settles: success, a reported failure, or a rejection.
AdapterAnswers(r) ==
    /\ Free
    /\ job[r] = "working"
    /\ \E answer \in {"finished", "missed", "caught"} :
         /\ job' = [job EXCEPT ![r] = answer]
         /\ outcome' = [outcome EXCEPT ![r] = IF answer = "finished" THEN "ok" ELSE "failed"]
    /\ UNCHANGED <<timelines, left, begun, applied, others>>

\* Success: a patch path earns PATCH_READY.  A throw of either append is caught
\* by the loop as if the adapter had thrown.
RecordSuccess(r) ==
    /\ job[r] = "finished"
    /\ \E next \in {"patching", "returned"} : Milestone(r, "AGENT_FINISHED", next, "caught")
    /\ UNCHANGED <<left, history, others>>

RecordPatch(r) ==
    /\ job[r] = "patching"
    /\ Milestone(r, "PATCH_READY", "returned", "caught")
    /\ UNCHANGED <<left, history, others>>

RecordMiss(r) ==
    /\ \/ job[r] = "missed" /\ Milestone(r, "AGENT_FINISHED", "attempt", "caught")
       \/ job[r] = "caught" /\ Milestone(r, "AGENT_FINISHED", "attempt", "threw")
    /\ UNCHANGED <<left, history, others>>

Exhaust(r) ==
    /\ job[r] = "attempt" /\ left[r] = 0
    /\ Milestone(r, "FAILED", "returned", "threw")
    /\ UNCHANGED <<left, history, others>>

PromoteToPendingApproval(r) ==
    /\ job[r] = "returned"
    /\ IF Status(mem[r]) = "patch_ready"
          THEN Milestone(r, "PENDING_APPROVAL", "idle", "threw")
          ELSE job' = [job EXCEPT ![r] = "idle"] /\ UNCHANGED timelines
    /\ UNCHANGED <<left, history, others>>

RecordFailure(r) ==
    /\ job[r] = "threw"
    /\ job' = [job EXCEPT ![r] = "idle"]
    /\ IF IsTerminal(mem[r])
          THEN UNCHANGED timelines
          ELSE RecordQuietly(r, Appended(mem[r], "FAILED"), "FAILED")
    /\ UNCHANGED <<left, history, others>>

-----------------------------------------------------------------------------
(* The human decision on a pending patch.                                   *)

\* Mutant: approval asks for a pending patch somewhere in the timeline.
ApproveRunAgain(r) ==
    /\ Free
    /\ mem[r].frontend
    /\ AppendAllowed(mem[r], "APPLYING", NoApproval)
    /\ \E ok \in BOOLEAN :
         /\ Record(r, Appended(mem[r], "APPLYING"), ok)
         /\ applying' = IF ok THEN applying \cup {r} ELSE applying
         /\ applied' = IF ok THEN [applied EXCEPT ![r] = @ + 1] ELSE applied
    /\ UNCHANGED <<startup, develop, retryOf, worker, agent, evidence, begun, outcome>>

ApproveRun(r) ==
    /\ Free
    /\ Status(mem[r]) = "pending_approval"
    /\ mem[r].frontend
    /\ AppendAllowed(mem[r], "APPLYING", NoApproval)
    /\ \E ok \in BOOLEAN :
         /\ Record(r, Appended(mem[r], "APPLYING"), ok)
         /\ applying' = IF ok THEN applying \cup {r} ELSE applying
         /\ applied' = IF ok THEN [applied EXCEPT ![r] = @ + 1] ELSE applied
    /\ UNCHANGED <<startup, develop, retryOf, worker, agent, evidence, begun, outcome>>

\* COMPLETED requires a backupRef: a success that carries none makes the append
\* throw and leaves the Run at APPLYING.
ApplyReturns(r) ==
    /\ Free
    /\ r \in applying
    /\ applying' = applying \ {r}
    /\ \/ \E stage \in {"COMPLETED", "ROLLED_BACK"} :
             RecordQuietly(r, Appended(mem[r], stage), stage)
       \/ UNCHANGED timelines
    /\ UNCHANGED <<startup, develop, retryOf, worker, agent, evidence, history>>

RejectRun(r) ==
    /\ Free
    /\ Status(mem[r]) = "pending_approval"
    /\ AppendAllowed(mem[r], "REJECTED", NoApproval)
    /\ \E ok \in BOOLEAN : Record(r, Appended(mem[r], "REJECTED"), ok)
    /\ UNCHANGED <<startup, develop, retryOf, applying, worker, agent, evidence, history>>

-----------------------------------------------------------------------------
(* The executors behind WORKER_CLAIMED and AGENT_CLAIMED.                   *)

\* The Execution artifact is written before the worker is invoked; when it
\* cannot be written the runner rejects and nothing is invoked.
WorkerBegins(r) ==
    /\ Free
    /\ worker[r] = "queued"
    /\ \/ /\ tasks' = tasks \cup {r}
          /\ worker' = [worker EXCEPT ![r] = "working"]
          /\ begun' = [begun EXCEPT ![r] = @ + 1]
       \/ /\ worker' = [worker EXCEPT ![r] = "idle"]
          /\ UNCHANGED <<tasks, begun>>
    /\ UNCHANGED <<timelines, startup, develop, retryOf, applying, agent,
                   results, audits, applied, outcome>>

\* The worker settles and its Result artifact is written, or cannot be.
WorkerAnswers(r) ==
    /\ Free
    /\ worker[r] = "working"
    /\ worker' = [worker EXCEPT ![r] = "idle"]
    /\ \E verdict \in {"ok", "failed"}, written \in BOOLEAN :
         /\ outcome' = [outcome EXCEPT ![r] = verdict]
         /\ results' = IF written THEN [results EXCEPT ![r] = verdict] ELSE results
    /\ UNCHANGED <<timelines, startup, develop, retryOf, applying, agent, tasks,
                   audits, begun, applied>>

\* appendAgentStage swallows every failure.
AgentSelected(r) ==
    /\ agent[r] = "selecting"
    /\ agent' = [agent EXCEPT ![r] = "queued"]
    /\ RecordQuietly(r, Appended(mem[r], "AGENT_SELECTED"), "AGENT_SELECTED")
    /\ UNCHANGED <<startup, develop, retryOf, applying, worker, evidence, history>>

\* agentRunner.run up to the await: any of its gates (identity, hash, credentials,
\* workspace, revision) may refuse; otherwise onPhase records AGENT_RUNNING.
AgentBegins(r) ==
    /\ Free
    /\ agent[r] = "queued"
    /\ \/ /\ agent' = [agent EXCEPT ![r] = "auditing"]
          /\ outcome' = [outcome EXCEPT ![r] = "failed"]
          /\ UNCHANGED <<timelines, begun>>
       \/ /\ agent' = [agent EXCEPT ![r] = "working"]
          /\ begun' = [begun EXCEPT ![r] = @ + 1]
          /\ RecordQuietly(r, Appended(mem[r], "AGENT_RUNNING"), "AGENT_RUNNING")
          /\ UNCHANGED outcome
    /\ UNCHANGED <<startup, develop, retryOf, applying, worker, evidence, applied>>

AgentAnswers(r) ==
    /\ Free
    /\ agent[r] = "working"
    /\ agent' = [agent EXCEPT ![r] = "auditing"]
    /\ \E verdict \in {"ok", "failed"} : outcome' = [outcome EXCEPT ![r] = verdict]
    /\ UNCHANGED <<timelines, startup, develop, retryOf, applying, worker, evidence,
                   begun, applied>>

\* auditLog.append, whose failure is swallowed.
AgentAudits(r) ==
    /\ agent[r] = "auditing"
    /\ agent' = [agent EXCEPT ![r] = "finishing"]
    /\ \/ audits' = Append(audits, [run |-> r, ok |-> outcome[r] = "ok"])
       \/ UNCHANGED audits
    /\ UNCHANGED <<timelines, startup, develop, retryOf, applying, worker, tasks,
                   results, history>>

\* Mutant: a runner that returned is recorded as a runner that succeeded.
AgentFinishesOk(r) ==
    /\ agent[r] = "finishing"
    /\ agent' = [agent EXCEPT ![r] = "settling"]
    /\ RecordQuietly(r, [Appended(mem[r], "AGENT_FINISHED") EXCEPT !.finished = "ok"],
                     "AGENT_FINISHED")
    /\ UNCHANGED <<startup, develop, retryOf, applying, worker, evidence, history>>

\* recordCanonicalOutcome: AGENT_FINISHED with the boolean, then one terminal.
AgentFinishes(r) ==
    /\ agent[r] = "finishing"
    /\ agent' = [agent EXCEPT ![r] = "settling"]
    /\ RecordQuietly(r, [Appended(mem[r], "AGENT_FINISHED") EXCEPT !.finished = outcome[r]],
                     "AGENT_FINISHED")
    /\ UNCHANGED <<startup, develop, retryOf, applying, worker, evidence, history>>

AgentSettles(r) ==
    /\ agent[r] = "settling"
    /\ agent' = [agent EXCEPT ![r] = "idle"]
    /\ LET terminal == IF outcome[r] = "ok" THEN "SUCCEEDED" ELSE "FAILED"
       IN  RecordQuietly(r, Appended(mem[r], terminal), terminal)
    /\ UNCHANGED <<startup, develop, retryOf, applying, worker, evidence, history>>

-----------------------------------------------------------------------------
(* Death, startup reconcile and retry.                                      *)

\* The process dies; everything but the files is lost, and the next process
\* loads the runs file without dispatching anything.
Crash ==
    /\ crashes < MaxCrashes
    /\ crashes' = crashes + 1
    /\ mem' = disk
    /\ phase' = "boot"
    /\ todo' = {r \in RunId : Exists(disk[r])}
    /\ job' = [r \in RunId |-> "idle"] /\ left' = [r \in RunId |-> 0]
    /\ retryOf' = [r \in RunId |-> NoRun]
    /\ applying' = {}
    /\ worker' = [r \in RunId |-> "idle"]
    /\ agent'  = [r \in RunId |-> "idle"]
    /\ UNCHANGED <<disk, faults, evidence, history>>

\* Mutant: a claimed Run is left for its executor to settle.
RecoverableUnclaimed(run) == ~IsTerminal(run) /\ ~HasClaim(run)

Recoverable(run) ==
    ~IsTerminal(run) /\ ~\E mark \in ReconcileMarks : HasStage(run, mark)

\* One iteration of reconcile; a failed flush throws out of the loop, and
\* startup goes on without the Runs that were left.
Reconcile(r) ==
    /\ phase = "boot"
    /\ r \in todo
    /\ IF Recoverable(mem[r])
          THEN LET mark == RecoveryMark(mem[r], r \in tasks, results[r], AuditOutcome(r, audits))
               IN  \E ok \in BOOLEAN : /\ Record(r, Appended(mem[r], mark), ok)
                                       /\ todo' = IF ok THEN todo \ {r} ELSE {}
          ELSE todo' = todo \ {r} /\ UNCHANGED timelines
    /\ UNCHANGED <<phase, crashes, develop, retryOf, applying, worker, agent, evidence, history>>

Listen ==
    /\ phase = "boot" /\ todo = {}
    /\ phase' = "serving"
    /\ UNCHANGED <<timelines, todo, crashes, develop, retryOf, applying, worker, agent,
                   evidence, history>>

\* Mutant: the link is looked for on the original instead of on the attempt.
NotRetriedByOriginal(r) == ~HasStage(mem[r], "RETRY_ATTEMPT")

\* findRetryAttemptFor finds nothing.
NotRetried(r) ==
    ~\E a \in RunId : HasStage(mem[a], "RETRY_ATTEMPT") /\ mem[a].prior = r

\* retry creates an inert attempt, under an id assumed fresh, and only then links it to its
\* original.
Retry(r, attempt) ==
    /\ Free
    /\ Status(mem[r]) = "interrupted"
    /\ NotRetried(r)
    /\ ~Exists(mem[attempt])
    /\ \E ok \in BOOLEAN :
         /\ Record(attempt, NewRecord(NoApproval, mem[r].frontend), ok)
         /\ retryOf' = IF ok THEN [retryOf EXCEPT ![attempt] = r] ELSE retryOf
    /\ UNCHANGED <<startup, develop, applying, worker, agent, evidence, history>>

LinkAttempt(attempt) ==
    /\ retryOf[attempt] # NoRun
    /\ retryOf' = [retryOf EXCEPT ![attempt] = NoRun]
    /\ RecordQuietly(attempt,
          [Appended(mem[attempt], "RETRY_ATTEMPT") EXCEPT !.prior = retryOf[attempt]],
          "RETRY_ATTEMPT")
    /\ UNCHANGED <<startup, develop, applying, worker, agent, evidence, history>>

-----------------------------------------------------------------------------
DispatchStep(r) ==
    \/ DispatchBegins(r) \/ EvaluatePolicy(r) \/ Deny(r) \/ Hold(r)
    \/ SelectAgent(r) \/ Attempt(r) \/ AdapterAnswers(r)
    \/ RecordSuccess(r) \/ RecordPatch(r) \/ RecordMiss(r) \/ Exhaust(r)
    \/ PromoteToPendingApproval(r) \/ RecordFailure(r)

WorkerStep(r) == WorkerBegins(r) \/ WorkerAnswers(r)

AgentStep(r) == \/ AgentSelected(r) \/ AgentBegins(r) \/ AgentAnswers(r)
                \/ AgentAudits(r) \/ AgentFinishes(r) \/ AgentSettles(r)

Request(r) ==
    \/ \E approval \in Approval \cup {NoApproval}, frontend \in BOOLEAN :
          StartRun(r, approval, frontend)
    \/ \E authorized \in BOOLEAN : ScheduleDispatch(r, authorized)
    \/ DispatchRun(r) \/ ClaimWorker(r)
    \/ \E approval \in Approval : ClaimAgent(r, approval)
    \/ ApproveRun(r) \/ ApplyReturns(r) \/ RejectRun(r)
    \/ \E attempt \in RunId : Retry(r, attempt)
    \/ LinkAttempt(r)

Next ==
    \/ \E r \in RunId : DispatchStep(r) \/ WorkerStep(r) \/ AgentStep(r) \/ Request(r)
                          \/ Reconcile(r)
    \/ Listen
    \/ Crash

Spec == Init /\ [][Next]_vars
-----------------------------------------------------------------------------
(* Properties.                                                              *)

TypeOK ==
    /\ mem \in [RunId -> RunRecord] /\ disk \in [RunId -> RunRecord]
    /\ phase \in {"boot", "serving"} /\ todo \subseteq RunId
    /\ job \in [RunId -> JobStates] /\ left \in [RunId -> Nat]
    /\ retryOf \in [RunId -> RunId \cup {NoRun}]
    /\ applying \subseteq RunId
    /\ worker \in [RunId -> WorkerStates] /\ agent \in [RunId -> AgentStates]
    /\ tasks \subseteq RunId /\ results \in [RunId -> Outcomes]
    /\ audits \in Seq([run : RunId, ok : BOOLEAN])
    /\ begun \in [RunId -> Nat] /\ applied \in [RunId -> Nat]
    /\ outcome \in [RunId -> Outcomes]
    /\ faults \in Nat /\ crashes \in Nat

\* A claim gate "returns 'dispatched' only once the claim is durably on disk"
\* (store.js, claimDispatch, claimWorker, claimAgent): whatever is about to run,
\* runs or ever ran for a Run has its lane's claim in the file, so a restart
\* cannot forget it.
ExecutionHasDurableClaim ==
    \A r \in RunId :
        /\ job[r] \notin {"idle", "created"} => HasStage(disk[r], "DISPATCH_CLAIMED")
        /\ worker[r] # "idle" => HasStage(disk[r], "WORKER_CLAIMED")
        /\ agent[r] # "idle" => HasStage(disk[r], "AGENT_CLAIMED")
        /\ begun[r] > 0 => HasClaim(disk[r])

\* A Run is executed at most once, over the three lanes, every caller of the
\* gates and every restart.
AtMostOneExecution == \A r \in RunId : begun[r] <= 1

\* approveRun: a patch is applied at most once, only after an approval that is on
\* disk, and never for a Run that a human rejected.
ApplyIsApprovedOnce ==
    \A r \in RunId :
        /\ applied[r] <= 1
        /\ applied[r] > 0 => /\ HasStage(disk[r], "APPLYING")
                             /\ ~HasStage(mem[r], "REJECTED")

\* recovery.js "success is never guessed": a status that recovery or the agent
\* lane wrote is the outcome the executor reported.
SettledTruthfully ==
    \A r \in RunId :
        /\ HasStage(mem[r], "RECONCILED_SUCCEEDED") \/ HasStage(mem[r], "SUCCEEDED")
              => outcome[r] = "ok"
        /\ HasStage(mem[r], "RECONCILED_FAILED") => outcome[r] = "failed"

\* recovery.js case (a): startup reconcile calls a Run "never started" only when
\* no executor ever began for it.
PendingMeansNeverBegun ==
    [][\A r \in RunId :
          HasStage(mem'[r], "RECONCILED_PENDING") /\ ~HasStage(mem[r], "RECONCILED_PENDING")
             => begun[r] = 0]_vars

\* A Run that is terminal in the file never changes again, in this process or a
\* later one.
DurableTerminalIsFinal ==
    [][\A r \in RunId : IsTerminal(disk[r]) => disk'[r] = disk[r]]_vars

\* retry: an original has at most one attempt linked to it, is interrupted, and
\* keeps its own timeline; the attempt was never claimed before it was linked.
RetriedOnce ==
    /\ \A a, b \in RunId :
          /\ HasStage(mem[a], "RETRY_ATTEMPT") /\ HasStage(mem[b], "RETRY_ATTEMPT")
          /\ mem[a].prior = mem[b].prior
          => a = b
    /\ \A a \in RunId :
          HasStage(mem[a], "RETRY_ATTEMPT") => /\ mem[a].timeline[2] = "RETRY_ATTEMPT"
                                               /\ Status(mem[mem[a].prior]) = "interrupted"

\* What the Owner asks of a Run that ended happens once: its patch is applied once,
\* it is retried once, whatever crashes and second requests fall between.
OwnerActsOnce == ApplyIsApprovedOnce /\ RetriedOnce

\* The Run store seen through its file.
LedgerView ==
    [r \in RunId |-> [known      |-> Exists(disk[r]),
                      owners     |-> {c \in ClaimStages : HasStage(disk[r], c)},
                      settled    |-> IsTerminal(disk[r]),
                      executions |-> begun[r]]]

Ledger == INSTANCE RunLedger WITH ledger <- LedgerView, Lane <- ClaimStages

\* The store implements the ledger it promises its readers.
ImplementsLedger == Ledger!LedgerSpec

\* What store.js tells pollers: a terminal Run is final, its timeline will never
\* gain another stage.
PolledTerminalIsFinal ==
    [][\A r \in RunId : IsTerminal(mem[r]) => mem'[r] = mem[r]]_vars
=============================================================================
