---------------------------- MODULE RunTimeline ----------------------------
(***************************************************************************)
(* The Run and its append-only timeline (src/run/run.js) and the fold that *)
(* recovers a status from durable evidence (src/run/recovery.js).          *)
(*                                                                         *)
(* A stage's facts are kept only where a guard or a fold reads them: the   *)
(* outcome carried by AGENT_FINISHED (field "finished") and the run named  *)
(* by RETRY_ATTEMPT (field "prior").  A Run that was never created is the  *)
(* Run with the empty timeline.                                            *)
(***************************************************************************)
EXTENDS Naturals, Sequences

CONSTANTS RunId,       \* identifiers createRun may mint
          Approval,    \* Owner approval identities
          NoApproval,  \* approvalId: null
          NoRun        \* no prior run

ASSUME SentinelsAssumption == NoApproval \notin Approval /\ NoRun \notin RunId

ClaimStages == {"DISPATCH_CLAIMED", "WORKER_CLAIMED", "AGENT_CLAIMED"}

ReconcileMarks == {"RECONCILED_PENDING", "RECONCILED_INTERRUPTED",
                   "RECONCILED_SUCCEEDED", "RECONCILED_FAILED"}

TerminalStages ==
    {"SUCCEEDED", "COMPLETED", "DENIED", "FAILED", "ROLLED_BACK", "REJECTED"}
        \cup (ReconcileMarks \ {"RECONCILED_PENDING"})

Stages ==
    {"TASK_CREATED", "POLICY_EVALUATED", "AGENT_SELECTED", "AGENT_RUNNING",
     "AGENT_FINISHED", "PATCH_READY", "PENDING_APPROVAL", "APPLYING",
     "RETRY_ATTEMPT"} \cup ClaimStages \cup ReconcileMarks \cup TerminalStages

\* Only the status names that some guard reads; every other open stage has a
\* status of its own that no guard tells apart.
StageStatus(stage) ==
    CASE stage = "PATCH_READY"            -> "patch_ready"
      [] stage = "PENDING_APPROVAL"       -> "pending_approval"
      [] stage = "RECONCILED_INTERRUPTED" -> "interrupted"
      [] stage \in {"SUCCEEDED", "RECONCILED_SUCCEEDED"} -> "succeeded"
      [] stage \in {"FAILED", "RECONCILED_FAILED"}       -> "failed"
      [] stage = "RECONCILED_PENDING"     -> "pending"
      [] stage = "COMPLETED"              -> "completed"
      [] stage = "ROLLED_BACK"            -> "rolled_back"
      [] stage = "DENIED"                 -> "denied"
      [] stage = "REJECTED"               -> "rejected"
      [] OTHER                            -> "open"

TerminalStatuses == {"completed", "denied", "failed", "rolled_back",
                     "rejected", "interrupted", "succeeded"}

Outcomes == {"none", "ok", "failed"}

RunRecord == [timeline : Seq(Stages),
              approval : Approval \cup {NoApproval},
              frontend : BOOLEAN,
              finished : Outcomes,
              prior    : RunId \cup {NoRun}]

NoRecord == [timeline |-> << >>, approval |-> NoApproval, frontend |-> FALSE,
             finished |-> "none", prior |-> NoRun]

\* createRun: the timeline is seeded with the creation event itself.
NewRecord(approval, frontend) ==
    [timeline |-> << "TASK_CREATED" >>, approval |-> approval,
     frontend |-> frontend, finished |-> "none", prior |-> NoRun]

Exists(run) == run.timeline # << >>

HasStage(run, stage) ==
    \E i \in 1 .. Len(run.timeline) : run.timeline[i] = stage

HasClaim(run) == \E claim \in ClaimStages : HasStage(run, claim)

LastStage(run) == run.timeline[Len(run.timeline)]

\* Every stage of the vocabulary has a status, so the fold of deriveStatus is
\* the status of the last stage.
Status(run) == IF Exists(run) THEN StageStatus(LastStage(run)) ELSE "unknown"

IsTerminal(run) == Status(run) \in TerminalStatuses

ApprovalIdentityStages == {"AGENT_CLAIMED", "AGENT_FINISHED", "SUCCEEDED", "FAILED"}

\* On a Run claimed by the agent lane these stages must name the Run's own
\* approval, which must exist; AGENT_CLAIMED is the stage that opens the lane.
NamesOwnApproval(run, stage, approvalFact) ==
    LET agentLane == stage = "AGENT_CLAIMED" \/ HasStage(run, "AGENT_CLAIMED")
    IN  agentLane /\ stage \in ApprovalIdentityStages
            => /\ run.approval # NoApproval
               /\ approvalFact = run.approval

\* appendStage throws unless this holds; approvalFact is facts.approvalId.
AppendAllowed(run, stage, approvalFact) ==
    /\ Exists(run)
    /\ NamesOwnApproval(run, stage, approvalFact)
    /\ LastStage(run) \notin TerminalStages
    /\ stage = "APPLYING" => HasStage(run, "PENDING_APPROVAL")

Appended(run, stage) == [run EXCEPT !.timeline = Append(@, stage)]

-----------------------------------------------------------------------------
(* Recovery: the status that durable evidence supports.                     *)

\* matchAgentAudit: the verdict of the one audit record that names this run.
\* An audit is a record [run, ok]; several for one run are no evidence.
AuditOutcome(run, audits) ==
    LET own == {i \in DOMAIN audits : audits[i].run = run}
    IN  IF \E i \in own : own = {i}
        THEN IF audits[CHOOSE i \in own : TRUE].ok THEN "ok" ELSE "failed"
        ELSE "none"

MarkOf(outcome) ==
    IF outcome = "ok" THEN "RECONCILED_SUCCEEDED" ELSE "RECONCILED_FAILED"

\* Mutant: recovery reads the artifacts and forgets the claims.
RecoveryMarkUnclaimed(run, execution, result, audited) ==
    CASE result # "none" -> MarkOf(result)
      [] result = "none" /\ run.finished # "none" -> MarkOf(run.finished)
      [] result = "none" /\ run.finished = "none" /\ audited # "none" -> MarkOf(audited)
      [] result = "none" /\ run.finished = "none" /\ audited = "none"
           -> IF execution THEN "RECONCILED_INTERRUPTED" ELSE "RECONCILED_PENDING"

\* deriveRecoveredStatus: execution says a task artifact exists, result is the
\* verdict of its result artifact, audited the verdict of the agent audit.
RecoveryMark(run, execution, result, audited) ==
    LET agentEvidence == run.finished # "none" \/ audited # "none"
        contradiction == \/ agentEvidence /\ (execution \/ result # "none")
                         \/ run.finished # "none" /\ audited # "none"
                              /\ run.finished # audited
    IN  CASE contradiction            -> "RECONCILED_INTERRUPTED"
          [] ~contradiction /\ result # "none"       -> MarkOf(result)
          [] ~contradiction /\ run.finished # "none" -> MarkOf(run.finished)
          [] ~contradiction /\ audited # "none"      -> MarkOf(audited)
          [] ~agentEvidence /\ result = "none"
               -> IF execution \/ HasClaim(run) THEN "RECONCILED_INTERRUPTED"
                                                ELSE "RECONCILED_PENDING"
=============================================================================
