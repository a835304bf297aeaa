--------------------------- MODULE ActionGateway ---------------------------
(***************************************************************************)
(* The action gateway (src/actions/service.js) with its durable store and  *)
(* lock files (src/actions/store.js), the in-memory approvals it issues    *)
(* (src/agent/ownerApprovalStore.js) and the fixed Windows adapter         *)
(* (src/actions/windowsScheduler.js).                                      *)
(*                                                                         *)
(* An action is prepared, approved once, dispatched to the scheduler and   *)
(* read back.  The scheduler lives outside the process: other people change *)
(* its tasks, its replies get lost, and a script already started may take  *)
(* effect after the process that started it died.                          *)
(***************************************************************************)
EXTENDS Naturals, Sequences, FiniteSets

CONSTANTS ActionId, NoAction,
          Target, NoTarget,
          Definition,  \* definition hashes; the enabled flag is not part of one
          NoDefinition,
          Covered,     \* <<d, e>>: every trigger of d is one of e, same action
          Reader,      \* reconcile requests in flight at once
          MaxFaults, MaxCrashes, MaxChanges, MaxReconciles  \* bounds, see README

ASSUME GatewaySentinels == /\ NoAction \notin ActionId /\ NoTarget \notin Target
                             /\ NoDefinition \notin Definition
ASSUME GatewayCovered == Covered \subseteq Definition \X Definition
ASSUME GatewayBounds == /\ MaxFaults \in Nat /\ MaxCrashes \in Nat
                        /\ MaxChanges \in Nat /\ MaxReconciles \in Nat

VARIABLES
    task,      \* the scheduler's tasks
    effect,    \* the adapter's script for an action, which outlives the process;
               \* history: "overtaken" when others changed the task it had checked
    record,    \* the action files
    lockFile,  \* targets with a .lock file
    busy,      \* targets the process works on
    nonce,     \* the sealed approval of an action and its one nonce
    call,      \* where the approve of an action stands
    reading,   \* reconciles waiting for their read
    applied,   \* history: scripts started for an action
    refused,   \* history: approvals spent on a request that was refused
    prepared,  \* history: the process incarnation that prepared an action
    faults, crashes, changes

files == <<record, lockFile>>
process == <<busy, nonce, call, reading>>
scheduler == <<task, effect>>
history == <<applied, refused, prepared>>
bounds == <<faults, crashes, changes>>
vars == <<scheduler, files, process, history, bounds>>

\* A script that was started and may still change its task.
Running == {"pending", "checked", "overtaken"}
ScriptStates == Running \cup {"none", "done", "dropped"}

\* idle: Ready and enabled, or Disabled and not enabled.
Task == [definition : Definition, enabled : BOOLEAN, idle : BOOLEAN]

ActionStates == {"absent", "awaiting_approval", "approved", "executing",
                 "verified", "failed", "outcome_unknown"}

Phases == {"recommended", "approved", "dispatched", "readback_started",
           "survivor_verified", "verified", "failed", "reconciled"}

\* The snapshot a proposal is sealed with (definition, enabled), the task a
\* recommendation retains (kept, keptDefinition), and the action it would undo.
Action == [state : ActionStates, target : Target \cup {NoTarget},
           definition : Definition \cup {NoDefinition}, enabled : BOOLEAN,
           kept : Target \cup {NoTarget},
           keptDefinition : Definition \cup {NoDefinition},
           restoreOf : ActionId \cup {NoAction}, timeline : Seq(Phases)]

NoFile == [state |-> "absent", target |-> NoTarget,
           definition |-> NoDefinition, enabled |-> FALSE,
           kept |-> NoTarget, keptDefinition |-> NoDefinition,
           restoreOf |-> NoAction, timeline |-> << >>]

\* Where approve() stands: between two saves of one block, or at an await.
InTurn == {"locked", "concluding"}
Calls == InTurn \cup {"none", "preflight", "verifying", "applying", "readback", "survivor"}

NoReading == [id |-> NoAction, file |-> NoFile]

Init ==
    /\ task \in [Target -> Task]
    /\ effect = [i \in ActionId |-> "none"]
    /\ record = [i \in ActionId |-> NoFile]
    /\ lockFile = {} /\ busy = {}
    /\ nonce = [i \in ActionId |-> "none"]
    /\ call = [i \in ActionId |-> "none"]
    /\ reading = [c \in Reader |-> NoReading]
    /\ applied = [i \in ActionId |-> 0]
    /\ refused = [i \in ActionId |-> FALSE]
    /\ prepared = [i \in ActionId |-> 0]
    /\ faults = 0 /\ crashes = 0 /\ changes = 0

\* A request or an answer is handled when no other block is running.
Free == \A i \in ActionId : call[i] \notin InTurn

Desired(action) == ~action.enabled

\* The targets an approve locks: its own and the one its recommendation retains.
Locks(action) == {action.target, action.kept} \ {NoTarget}

Entries(action, phase) ==
    {k \in 1 .. Len(action.timeline) : action.timeline[k] = phase}

DispatchedOnce(action) ==
    \E k \in Entries(action, "dispatched") : Entries(action, "dispatched") = {k}

Logged(action, phase) == [action EXCEPT !.timeline = Append(@, phase)]

Moved(action, state, phase) == Logged([action EXCEPT !.state = state], phase)

-----------------------------------------------------------------------------
(* The scheduler.                                                           *)

\* Administrators edit tasks and triggers start them, also between the check of a
\* script and its change.
Change(t) ==
    /\ changes < MaxChanges
    /\ changes' = changes + 1
    /\ \E now \in Task \ {task[t]} : task' = [task EXCEPT ![t] = now]
    /\ effect' = [i \in ActionId |-> IF effect[i] = "checked" /\ record[i].target = t
                                      THEN "overtaken" ELSE effect[i]]
    /\ UNCHANGED <<files, process, history, faults, crashes>>

Unchanged(action) == /\ task[action.target].definition = action.definition
                     /\ task[action.target].enabled = action.enabled
                     /\ task[action.target].idle

\* The script reads the task again and throws unless it is what the action saw.
CheckTask(i) ==
    /\ effect[i] = "pending"
    /\ effect' = [effect EXCEPT ![i] = IF Unchanged(record[i]) THEN "checked" ELSE "dropped"]
    /\ UNCHANGED <<task, files, process, history, bounds>>

\* Its next command disables or enables whatever bears the name by then.
TakeEffect(i) ==
    /\ effect[i] \in {"checked", "overtaken"}
    /\ task' = [task EXCEPT ![record[i].target].enabled = Desired(record[i])]
    /\ effect' = [effect EXCEPT ![i] = "done"]
    /\ UNCHANGED <<files, process, history, bounds>>

-----------------------------------------------------------------------------
(* Proposals.                                                               *)

\* prepare and what it seals.  Its own read must equal the inspection's, so the
\* later read is the one that counts; when the save throws nobody gets the id.
Propose(i, t, kept, restoreOf) ==
    /\ Free
    /\ record[i].state = "absent"
    /\ task[t].idle
    /\ record' = [record EXCEPT ![i] =
                    [state |-> "awaiting_approval", target |-> t,
                     definition |-> task[t].definition, enabled |-> task[t].enabled,
                     kept |-> kept,
                     keptDefinition |-> IF kept = NoTarget THEN NoDefinition
                                                           ELSE task[kept].definition,
                     restoreOf |-> restoreOf, timeline |-> << "recommended" >>]]
    /\ nonce' = [nonce EXCEPT ![i] = "live"]
    /\ prepared' = [prepared EXCEPT ![i] = crashes]
    /\ UNCHANGED <<scheduler, lockFile, busy, call, reading, applied, refused, bounds>>

Prepare(i, t) == Propose(i, t, NoTarget, NoAction)

\* assess: both tasks run, and one covers the other.  Which of two equal tasks
\* the catalogue order prefers is left open.
Recommends(t, kept) ==
    /\ t # kept
    /\ <<task[t].definition, task[kept].definition>> \in Covered
    /\ \A s \in {t, kept} : task[s].enabled /\ task[s].idle

PrepareRecommended(i, t, kept) ==
    Recommends(t, kept) /\ Propose(i, t, kept, NoAction)

\* Mutant: an uncertain action may be undone as well.
RestoreUncertain(i, old) ==
    /\ record[old].state \in {"verified", "outcome_unknown"}
    /\ task[record[old].target].definition = record[old].definition
    /\ Propose(i, record[old].target, NoTarget, old)

Restore(i, old) ==
    /\ record[old].state = "verified"
    /\ task[record[old].target].definition = record[old].definition
    /\ task[record[old].target].enabled = Desired(record[old])
    /\ Propose(i, record[old].target, NoTarget, old)

\* The proposal, its sealed order and its nonce expire together.
Expire(i) ==
    /\ Free
    /\ nonce[i] # "none"
    /\ nonce' = [nonce EXCEPT ![i] = "none"]
    /\ UNCHANGED <<scheduler, files, busy, call, reading, history, bounds>>

-----------------------------------------------------------------------------
(* approve.                                                                 *)

Locked(targets) == targets \cap (busy \cup lockFile) # {}

\* approve(b) for action i with the nonce of action n, up to its locks.  A
\* request that names another action's nonce, or finds a lock, spends the nonce.
Approve(i, n) ==
    /\ Free
    /\ record[i].state = "awaiting_approval"
    /\ nonce[i] # "none" /\ nonce[n] = "live"
    /\ nonce' = [nonce EXCEPT ![n] = "used"]
    /\ IF n = i /\ ~Locked(Locks(record[i]))
          THEN /\ call' = [call EXCEPT ![i] = "locked"]
               /\ busy' = busy \cup Locks(record[i])
               /\ lockFile' = lockFile \cup Locks(record[i])
               /\ UNCHANGED refused
          ELSE /\ refused' = [refused EXCEPT ![n] = TRUE]
               /\ UNCHANGED <<call, busy, lockFile>>
    /\ UNCHANGED <<scheduler, record, reading, applied, prepared, bounds>>

\* finally: whatever happened, the locks of the call are given back.
Leave(i) == /\ call' = [call EXCEPT ![i] = "none"]
            /\ busy' = busy \ Locks(record[i])
            /\ lockFile' = lockFile \ Locks(record[i])

GivenUp(action) ==
    Moved(action, IF action.state = "executing" THEN "outcome_unknown" ELSE "failed",
          "failed")

\* catch: the action as approve() holds it, entries that were not saved included,
\* is saved again, best effort.  failed counts the save that threw, if one did.
GiveUp(i, action, failed) ==
    /\ \/ /\ faults' = faults + failed
          /\ record' = [record EXCEPT ![i] = GivenUp(action)]
       \/ /\ faults + failed < MaxFaults
          /\ faults' = faults + failed + 1
          /\ UNCHANGED record
    /\ Leave(i)

\* record(r, phase) in the try block, and where the call goes when it is saved.
Save(i, action, next) ==
    \/ /\ record' = [record EXCEPT ![i] = action]
       /\ IF next = "none" THEN Leave(i)
                           ELSE /\ call' = [call EXCEPT ![i] = next]
                                /\ UNCHANGED <<busy, lockFile>>
       /\ UNCHANGED faults
    \/ faults < MaxFaults /\ GiveUp(i, action, 1)

\* What a step of approve never touches.
ApproveKeeps == UNCHANGED <<task, nonce, reading, refused, prepared, crashes, changes>>

RecordApproved(i) ==
    /\ call[i] = "locked"
    /\ Save(i, Moved(record[i], "approved", "approved"), "preflight")
    /\ ApproveKeeps /\ UNCHANGED <<effect, applied>>

\* Mutant: the dispatch is left to the save that follows the script's answer.
DispatchUnsaved(i) ==
    /\ applied' = [applied EXCEPT ![i] = @ + 1]
    /\ effect' = [effect EXCEPT ![i] = "pending"]
    /\ call' = [call EXCEPT ![i] = "applying"]
    /\ UNCHANGED <<record, busy, lockFile, faults>>

\* The dispatch is saved before the script is started.
Dispatch(i) ==
    /\ Save(i, Moved(record[i], "executing", "dispatched"), "applying")
    /\ IF call'[i] = "applying"
          THEN /\ applied' = [applied EXCEPT ![i] = @ + 1]
               /\ effect' = [effect EXCEPT ![i] = "pending"]
          ELSE UNCHANGED <<applied, effect>>

\* The fresh read: it fails, shows another task than the approved one, or not.
Preflight(i) ==
    /\ Free
    /\ call[i] = "preflight"
    /\ \/ GiveUp(i, record[i], 0) /\ UNCHANGED <<effect, applied>>
       \/ /\ Unchanged(record[i]) /\ record[i].kept # NoTarget
          /\ call' = [call EXCEPT ![i] = "verifying"]
          /\ UNCHANGED <<record, busy, lockFile, faults, effect, applied>>
       \/ Unchanged(record[i]) /\ record[i].kept = NoTarget /\ Dispatch(i)
    /\ ApproveKeeps

\* Mutant: the recommendation is not assessed again.
RecommendationUnchecked(action) == TRUE

\* verifyRecommendation: a fresh assessment recommends the same on the same
\* evidence, which the two definitions and the enabled flags stand for.
RecommendationHolds(action) ==
    /\ Recommends(action.target, action.kept)
    /\ task[action.target].definition = action.definition
    /\ task[action.kept].definition = action.keptDefinition

VerifyRecommendation(i) ==
    /\ Free
    /\ call[i] = "verifying"
    /\ \/ GiveUp(i, record[i], 0) /\ UNCHANGED <<effect, applied>>
       \/ RecommendationHolds(record[i]) /\ Dispatch(i)
    /\ ApproveKeeps

\* Mutant: a lost reply counts as an answer.
ApplyAnswersAnyhow(i) ==
    /\ Free
    /\ call[i] = "applying"
    /\ Save(i, Logged(record[i], "readback_started"), "readback")
    /\ ApproveKeeps /\ UNCHANGED <<effect, applied>>

\* The script answers, or the answer is an error, unreadable, or does not come: at
\* its time limit the script is killed.
ApplyAnswers(i) ==
    /\ Free
    /\ call[i] = "applying"
    /\ \/ /\ effect[i] = "done"
          /\ Save(i, Logged(record[i], "readback_started"), "readback")
          /\ UNCHANGED effect
       \/ /\ GiveUp(i, record[i], 0)
          /\ effect' = [effect EXCEPT ![i] = IF @ \in Running THEN "dropped" ELSE @]
    /\ ApproveKeeps /\ UNCHANGED applied

\* The read-back confirms the change on the approved definition.
Confirmed(action) == /\ task[action.target].definition = action.definition
                     /\ task[action.target].enabled = Desired(action)
                     /\ task[action.target].idle

SaveVerified(i) == Save(i, Moved(record[i], "verified", "verified"), "none")

Readback(i) ==
    /\ Free
    /\ call[i] = "readback"
    /\ \/ GiveUp(i, record[i], 0)
       \/ /\ Confirmed(record[i]) /\ record[i].kept # NoTarget
          /\ call' = [call EXCEPT ![i] = "survivor"]
          /\ UNCHANGED <<record, busy, lockFile, faults>>
       \/ /\ Confirmed(record[i]) /\ record[i].kept = NoTarget
          /\ SaveVerified(i)
    /\ ApproveKeeps /\ UNCHANGED <<effect, applied>>

\* The retained task is read; its entry is saved, and then the verdict.
ReadSurvivor(i) ==
    /\ Free
    /\ call[i] = "survivor"
    /\ \/ GiveUp(i, record[i], 0)
       \/ /\ task[record[i].kept].enabled
          /\ task[record[i].kept].definition = record[i].keptDefinition
          /\ Save(i, Logged(record[i], "survivor_verified"), "concluding")
    /\ ApproveKeeps /\ UNCHANGED <<effect, applied>>

Conclude(i) ==
    /\ call[i] = "concluding"
    /\ SaveVerified(i)
    /\ ApproveKeeps /\ UNCHANGED <<effect, applied>>

-----------------------------------------------------------------------------
(* reconcile, and the death of the process.                                 *)

\* The file is read before the await, and that copy is saved after it.
ReconcileStarts(c, i) ==
    /\ Free
    /\ reading[c] = NoReading
    /\ record[i].state \in {"executing", "outcome_unknown"}
    /\ DispatchedOnce(record[i])
    /\ record[i].target \notin busy
    /\ Cardinality(Entries(record[i], "reconciled")) < MaxReconciles
    /\ reading' = [reading EXCEPT ![c] = [id |-> i, file |-> record[i]]]
    /\ UNCHANGED <<scheduler, files, busy, nonce, call, history, bounds>>

\* Mutant: a matching read-back is taken as proof that the action succeeded.
ReconcileConcludes(c) ==
    /\ Free
    /\ reading[c] # NoReading
    /\ LET i == reading[c].id
           state == IF Confirmed(reading[c].file) THEN "verified" ELSE "outcome_unknown"
       IN  record' = [record EXCEPT ![i] = Moved(reading[c].file, state, "reconciled")]
    /\ reading' = [reading EXCEPT ![c] = NoReading]
    /\ UNCHANGED <<scheduler, lockFile, busy, nonce, call, history, bounds>>

\* Whatever the read shows is evidence only; the state stays uncertain.
ReconcileEnds(c) ==
    /\ Free
    /\ reading[c] # NoReading
    /\ \/ /\ record' = [record EXCEPT ![reading[c].id] =
                          Moved(reading[c].file, "outcome_unknown", "reconciled")]
          /\ UNCHANGED faults
       \/ faults < MaxFaults /\ faults' = faults + 1 /\ UNCHANGED record
    /\ reading' = [reading EXCEPT ![c] = NoReading]
    /\ UNCHANGED <<scheduler, lockFile, busy, nonce, call, history, crashes, changes>>

\* Mutant: a restart clears away the locks the dead process left.
CrashFreeingLocks ==
    /\ crashes < MaxCrashes
    /\ crashes' = crashes + 1
    /\ busy' = {} /\ lockFile' = {}
    /\ nonce' = [i \in ActionId |-> "none"]
    /\ call' = [i \in ActionId |-> "none"]
    /\ reading' = [c \in Reader |-> NoReading]
    /\ UNCHANGED <<scheduler, record, history, faults, changes>>

\* Approvals and calls die; files, locks and a script already started do not.
Crash ==
    /\ crashes < MaxCrashes
    /\ crashes' = crashes + 1
    /\ busy' = {}
    /\ nonce' = [i \in ActionId |-> "none"]
    /\ call' = [i \in ActionId |-> "none"]
    /\ reading' = [c \in Reader |-> NoReading]
    /\ UNCHANGED <<scheduler, files, history, faults, changes>>

Request(i) ==
    \/ \E t \in Target : Prepare(i, t)
    \/ \E t, kept \in Target : PrepareRecommended(i, t, kept)
    \/ \E old \in ActionId : Restore(i, old)
    \/ \E n \in ActionId : Approve(i, n)
    \/ Expire(i)

CallStep(i) == \/ RecordApproved(i) \/ Preflight(i) \/ VerifyRecommendation(i)
               \/ ApplyAnswers(i) \/ Readback(i) \/ ReadSurvivor(i) \/ Conclude(i)

Next ==
    \/ \E i \in ActionId : Request(i) \/ CallStep(i) \/ CheckTask(i) \/ TakeEffect(i)
    \/ \E c \in Reader : ReconcileEnds(c) \/ \E i \in ActionId : ReconcileStarts(c, i)
    \/ \E t \in Target : Change(t)
    \/ Crash

Spec == Init /\ [][Next]_vars

-----------------------------------------------------------------------------
(* Properties.                                                              *)

\* Every variable has its type.
TypeOK ==
    /\ task \in [Target -> Task]
    /\ effect \in [ActionId -> ScriptStates]
    /\ record \in [ActionId -> Action]
    /\ lockFile \subseteq Target /\ busy \subseteq Target
    /\ nonce \in [ActionId -> {"none", "live", "used"}]
    /\ call \in [ActionId -> Calls]
    /\ reading \in [Reader -> [id : ActionId \cup {NoAction}, file : Action]]
    /\ applied \in [ActionId -> Nat]
    /\ refused \in [ActionId -> BOOLEAN]
    /\ prepared \in [ActionId -> Nat]
    /\ faults \in Nat /\ crashes \in Nat /\ changes \in Nat

\* "Persist before the side effect" (service.js:67): whatever was started has its
\* one dispatch on file, and never more than one start, over restarts, failed
\* saves and lost replies.
DispatchedOnceOnFile ==
    \A i \in ActionId :
        /\ applied[i] <= 1
        /\ applied[i] = 1 => DispatchedOnce(record[i])

\* Two actions never work on a target at the same time, a script left behind by a
\* dead process included; an action also holds the target its recommendation keeps.
Working(i) == call[i] # "none" \/ effect[i] \in Running

OneActionPerTarget ==
    \A i, j \in ActionId :
        i # j /\ Working(i) /\ Working(j)
            => Locks(record[i]) \cap Locks(record[j]) = {}

\* A verified action was executed by the script it started, not by somebody else.
VerifiedMeansExecuted ==
    \A i \in ActionId : record[i].state = "verified" => effect[i] = "done"

\* service.js, catch: "If saving fails, the last durable dispatched record remains
\* uncertain."  An action recorded as failed has left its target alone.
FailedMeansUntouched ==
    \A i \in ActionId : record[i].state = "failed" => effect[i] = "none"

\* An approval spent on a request that was refused never leads to an execution.
RefusedIsSpent == \A i \in ActionId : refused[i] => applied[i] = 0

\* A proposal to restore exists only for a verified action, and is its inverse.
RestoreUndoesVerified ==
    \A i \in ActionId :
        LET old == record[record[i].restoreOf]
        IN  record[i].restoreOf # NoAction
              => /\ old.state = "verified"
                 /\ record[i].target = old.target
                 /\ record[i].definition = old.definition
                 /\ Desired(record[i]) = old.enabled

\* What an action came to is final: no reconcile and no restart changes it.
OutcomeIsFinal ==
    [][\A i \in ActionId :
          record[i].state \in {"verified", "failed", "outcome_unknown"}
              => record'[i].state = record[i].state]_vars

\* "Restart invalidates outstanding authority": only the process that prepared an
\* action starts its script.
ApprovalDiesWithProcess ==
    [][\A i \in ActionId : applied'[i] # applied[i] => prepared[i] = crashes]_vars

\* What docs/ACTION-GATEWAY-V1.md:76-77 leaves to the gateway: the check of a script
\* and its change are two commands, and nothing but a change from outside ("overtaken")
\* comes between them, no other action and no script that outlived its process.
CheckStillHolds ==
    \A i \in ActionId : effect[i] = "checked" => Unchanged(record[i])

\* As long as nobody else changes tasks, a recommended pause takes effect only
\* while the task it counts on is enabled.
SurvivorStillRuns ==
    [][\A i \in ActionId :
          changes = 0 /\ record[i].kept # NoTarget
              /\ effect[i] \in Running /\ effect'[i] = "done"
            => task[record[i].kept].enabled]_vars

=============================================================================
