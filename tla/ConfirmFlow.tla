---------------------------- MODULE ConfirmFlow ----------------------------
(***************************************************************************)
(* Proposals and their confirmation: src/coo/proposal.js, the one confirm  *)
(* service (src/agent/confirmService.js), the authorization matrix         *)
(* (src/agent/agentAuthorization.js) and the wiring of src/app.js, composed *)
(* with the Run store.                                                     *)
(*                                                                         *)
(* A confirm is one synchronous block that writes two files: the runs file *)
(* (Run created, Develop claim), then the proposals file, then the runs    *)
(* file again (worker or agent claim).  The record "confirm" holds its     *)
(* position, and holds the thread until it has replied.                    *)
(***************************************************************************)
EXTENDS RunStore

CONSTANTS ProposalId, NoProposal,
          Lanes   \* authorization outcomes a boot may be configured for

AllLanes == {"none", "develop", "worker", "agent", "enquiry", "conflict"}

ASSUME ProposalAssumption == NoProposal \notin ProposalId
ASSUME LanesAssumption == Lanes \subseteq AllLanes

VARIABLES
    lane,       \* what authorize() answers in this process
    proposals,  \* the proposals map
    filed,      \* the proposals file
    confirm,    \* the confirm in progress
    order,      \* kind of the sealed order a Run was confirmed with
    reply,      \* dispatchStatus the confirm of a Run answered
    source      \* history: the Proposal a Run was created for

confirmVars == <<proposals, filed, confirm, order, reply, source>>
flowVars == <<vars, lane, confirmVars>>

Statuses == {"absent", "pending", "confirmed", "cancelled"}

\* linkState of a bridge Proposal; "none" for one without a sourceTaskId.
LinkStates == {"linking", "ready", "linking_failed"}

Proposal == [status : Statuses, link : LinkStates \cup {"none"}, run : RunId \cup {NoRun}]

NoSuchProposal == [status |-> "absent", link |-> "none", run |-> NoRun]

\* taskKind of the sealed order; "plain" when the confirm carries no order.
Kinds == {"plain", "code_change", "read_only_enquiry"}

Steps == {"none", "scheduling", "persisting", "spawning", "handoff"}

\* fits: the order names the one repository this build may execute against.
Confirm == [step : Steps, proposal : ProposalId \cup {NoProposal},
            run : RunId \cup {NoRun}, kind : Kinds, fits : BOOLEAN]

NoConfirm == [step |-> "none", proposal |-> NoProposal, run |-> NoRun,
              kind |-> "plain", fits |-> TRUE]

\* dispatchStatus of a confirm that handed its Run to the agent or the enquiry lane.
Accepted == {"agent_execute_accepted", "read_only_enquiry_accepted"}

\* After these no lane has the Run.
Refused == {"configuration_conflict", "not_authorized", "repository_identity_mismatch",
            "agent_execute_needs_review", "agent_execute_claim_failed"}

\* "none" while the confirm that created a Run has not replied.
Replies == {"none", "develop_dispatched", "worker_scheduled", "agent_execute_not_authorized",
            "read_only_enquiry_not_authorized"} \cup Accepted \cup Refused

Idle == Free /\ confirm.step = "none"

FlowInit ==
    /\ Init
    /\ lane \in Lanes
    /\ proposals = [p \in ProposalId |-> NoSuchProposal]
    /\ filed = [p \in ProposalId |-> NoSuchProposal]
    /\ confirm = NoConfirm
    /\ order = [r \in RunId |-> "plain"]
    /\ reply = [r \in RunId |-> "none"]
    /\ source = [r \in RunId |-> NoProposal]

-----------------------------------------------------------------------------
(* The proposal store.                                                      *)

\* flush of the proposals file, counted with the same bound as the runs file.
FlushProposals(ok) ==
    \/ ok /\ filed' = proposals' /\ UNCHANGED faults
    \/ ~ok /\ faults < MaxFaults /\ faults' = faults + 1 /\ UNCHANGED filed

runStoreUnchanged ==
    UNCHANGED <<mem, disk, startup, develop, retryOf, applying, worker, agent,
                evidence, history>>

EditProposal(p, proposal) ==
    /\ Idle
    /\ proposals' = [proposals EXCEPT ![p] = proposal]
    /\ \E ok \in BOOLEAN : FlushProposals(ok)
    /\ runStoreUnchanged
    /\ UNCHANGED <<lane, confirm, order, reply, source>>

Propose(p) ==
    /\ proposals[p].status = "absent"
    /\ EditProposal(p, [NoSuchProposal EXCEPT !.status = "pending"])

CreateBridgeProposal(p) ==
    /\ proposals[p].status = "absent"
    /\ EditProposal(p, [NoSuchProposal EXCEPT !.status = "pending", !.link = "linking"])

SetLinkState(p, link) ==
    /\ proposals[p].link # "none"
    /\ proposals[p].link # link
    /\ EditProposal(p, [proposals[p] EXCEPT !.link = link])

\* Mutant: cancelling does not ask whether the Proposal is still pending.
CancelDecidedProposal(p) ==
    /\ proposals[p].status # "absent"
    /\ EditProposal(p, [proposals[p] EXCEPT !.status = "cancelled"])

CancelProposal(p) ==
    /\ proposals[p].status = "pending"
    /\ EditProposal(p, [proposals[p] EXCEPT !.status = "cancelled"])

-----------------------------------------------------------------------------
(* confirmProposalAction, step by step.                                     *)

\* confirmProposal up to the creation flush of startRun.  The Proposal is marked
\* in memory first; when the flush throws, the confirm ends there.
ConfirmProposal(p, r, kind, approval, fits) ==
    /\ Idle
    /\ proposals[p].status = "pending"
    /\ proposals[p].link \in {"none", "ready"}
    /\ kind = "plain" => approval = NoApproval
    /\ StartRun(r, approval, FALSE)
    /\ proposals' = [proposals EXCEPT ![p].status = "confirmed"]
    /\ source' = [source EXCEPT ![r] = p]
    /\ order' = [order EXCEPT ![r] = kind]
    /\ confirm' = IF job'[r] = "created"
                     THEN [step |-> "scheduling", proposal |-> p, run |-> r,
                           kind |-> kind, fits |-> fits]
                     ELSE NoConfirm
    /\ UNCHANGED <<lane, filed, reply>>

\* authorizeDispatch is the Develop lane alone; the sealed order is not consulted.
ConfirmSchedules ==
    /\ confirm.step = "scheduling"
    /\ ScheduleDispatch(confirm.run, lane = "develop")
    /\ confirm' = [confirm EXCEPT !.step = "persisting"]
    /\ UNCHANGED <<lane, proposals, filed, order, reply, source>>

\* Mutant: a failed write of the proposals file does not end the confirm.
ConfirmPersistsAnyway ==
    /\ confirm.step = "persisting"
    /\ proposals' = [proposals EXCEPT ![confirm.proposal].run = confirm.run]
    /\ \E ok \in BOOLEAN : FlushProposals(ok)
    /\ confirm' = [confirm EXCEPT !.step = "spawning"]
    /\ runStoreUnchanged
    /\ UNCHANGED <<lane, order, reply, source>>

\* Mutant: the confirmed status is not written before the hand-off.
ConfirmPersistsLater ==
    /\ confirm.step = "persisting"
    /\ proposals' = [proposals EXCEPT ![confirm.proposal].run = confirm.run]
    /\ confirm' = [confirm EXCEPT !.step = "spawning"]
    /\ runStoreUnchanged
    /\ UNCHANGED <<lane, filed, faults, order, reply, source>>

\* proposal.runId and the flush of the proposals file; a throw ends the confirm.
ConfirmPersists ==
    /\ confirm.step = "persisting"
    /\ proposals' = [proposals EXCEPT ![confirm.proposal].run = confirm.run]
    /\ \E ok \in BOOLEAN :
         /\ FlushProposals(ok)
         /\ confirm' = IF ok THEN [confirm EXCEPT !.step = "spawning"] ELSE NoConfirm
    /\ runStoreUnchanged
    /\ UNCHANGED <<lane, order, reply, source>>

\* createScheduleWorker: a claim that is not obtained is logged and dropped.
ConfirmSpawnsWorker ==
    /\ confirm.step = "spawning"
    /\ confirm' = [confirm EXCEPT !.step = "handoff"]
    /\ IF lane = "worker" THEN ClaimWorker(confirm.run) ELSE UNCHANGED vars
    /\ UNCHANGED <<lane, proposals, filed, order, reply, source>>

\* Mutant: the agent lane hands off what the configuration left in conflict.
EligibleInConflict(kind) == \/ kind = "code_change" /\ lane \in {"agent", "conflict"}
                            \/ kind = "read_only_enquiry" /\ lane = "enquiry"

Eligible(kind) == \/ kind = "code_change" /\ lane = "agent"
                  \/ kind = "read_only_enquiry" /\ lane = "enquiry"

DispatchStatus(kind) ==
    CASE lane = "conflict" -> "configuration_conflict"
      [] lane # "conflict" /\ kind = "read_only_enquiry" ->
            IF Eligible(kind) THEN "read_only_enquiry_accepted"
                              ELSE "read_only_enquiry_not_authorized"
      [] lane # "conflict" /\ kind = "code_change" ->
            IF Eligible(kind) THEN "agent_execute_accepted"
                              ELSE "agent_execute_not_authorized"
      [] lane = "develop" /\ kind = "plain" -> "develop_dispatched"
      [] lane = "worker" /\ kind = "plain" -> "worker_scheduled"
      [] OTHER -> "not_authorized"

Reply(status) == /\ reply' = [reply EXCEPT ![confirm.run] = status]
                 /\ confirm' = NoConfirm

\* The repository fence, then the durable claim, then the reply; the claim that
\* could not be written is reported as such and nothing is handed off.
ConfirmReplies ==
    /\ confirm.step = "handoff"
    /\ IF ~Eligible(confirm.kind)
          THEN Reply(DispatchStatus(confirm.kind)) /\ UNCHANGED vars
          ELSE IF ~confirm.fits
          THEN Reply("repository_identity_mismatch") /\ UNCHANGED vars
          ELSE IF mem[confirm.run].approval = NoApproval
          THEN Reply("agent_execute_needs_review") /\ UNCHANGED vars
          ELSE /\ ClaimAgent(confirm.run, mem[confirm.run].approval)
               /\ Reply(IF agent'[confirm.run] = "selecting"
                           THEN DispatchStatus(confirm.kind)
                           ELSE "agent_execute_claim_failed")
    /\ UNCHANGED <<lane, proposals, filed, order, source>>

-----------------------------------------------------------------------------
(* Everything else the process does meanwhile.                              *)

\* readOnlyEnquiryService.run: refused, or begun; it appends no AGENT_RUNNING
\* and leaves no agent audit.
EnquiryBegins(r) ==
    /\ Idle
    /\ agent[r] = "queued"
    /\ \/ /\ agent' = [agent EXCEPT ![r] = "finishing"]
          /\ outcome' = [outcome EXCEPT ![r] = "failed"]
          /\ UNCHANGED begun
       \/ /\ agent' = [agent EXCEPT ![r] = "working"]
          /\ begun' = [begun EXCEPT ![r] = @ + 1]
          /\ UNCHANGED outcome
    /\ UNCHANGED <<timelines, startup, develop, retryOf, applying, worker, evidence, applied>>

EnquiryAnswers(r) ==
    /\ Idle
    /\ agent[r] = "working"
    /\ agent' = [agent EXCEPT ![r] = "finishing"]
    /\ \E verdict \in {"ok", "failed"} : outcome' = [outcome EXCEPT ![r] = verdict]
    /\ UNCHANGED <<timelines, startup, develop, retryOf, applying, worker, evidence,
                   begun, applied>>

EnquiryStep(r) == \/ AgentSelected(r) \/ EnquiryBegins(r) \/ EnquiryAnswers(r)
                  \/ AgentFinishes(r) \/ AgentSettles(r)

\* The agent hand-off of a Run, by the runner its order selected.
HandedOff(r) == IF order[r] = "read_only_enquiry" THEN EnquiryStep(r) ELSE AgentStep(r)

Background(r) ==
    /\ confirm.step = "none"
    /\ DispatchStep(r) \/ WorkerStep(r) \/ HandedOff(r)
    /\ UNCHANGED <<lane, confirmVars>>

Startup ==
    /\ Listen \/ \E r \in RunId : Reconcile(r)
    /\ UNCHANGED <<lane, confirmVars>>

\* The next process may be started with other flags.
Restart ==
    /\ Crash
    /\ lane' \in Lanes
    /\ proposals' = filed
    /\ confirm' = NoConfirm
    /\ UNCHANGED <<filed, order, reply, source>>

ConfirmStep == ConfirmSchedules \/ ConfirmPersists \/ ConfirmSpawnsWorker \/ ConfirmReplies

ProposalStep(p) ==
    \/ Propose(p) \/ CreateBridgeProposal(p) \/ CancelProposal(p)
    \/ \E link \in LinkStates : SetLinkState(p, link)
    \/ \E r \in RunId, kind \in Kinds, approval \in Approval \cup {NoApproval},
          fits \in BOOLEAN : ConfirmProposal(p, r, kind, approval, fits)

FlowNext ==
    \/ \E p \in ProposalId : ProposalStep(p)
    \/ ConfirmStep
    \/ \E r \in RunId : Background(r)
    \/ Startup
    \/ Restart

FlowSpec == FlowInit /\ [][FlowNext]_flowVars

-----------------------------------------------------------------------------
(* Properties.                                                              *)

FlowTypeOK ==
    /\ TypeOK
    /\ lane \in Lanes
    /\ proposals \in [ProposalId -> Proposal] /\ filed \in [ProposalId -> Proposal]
    /\ confirm \in Confirm
    /\ order \in [RunId -> Kinds]
    /\ source \in [RunId -> ProposalId \cup {NoProposal}]
    /\ reply \in [RunId -> Replies]

\* Whatever the agent or the worker lane executed for a Run was confirmed first:
\* the file holds a confirmed Proposal that names that Run.  (The Develop lane
\* claims before the proposals file is written; see OneExecutionPerProposal.)
HandedOffRunIsConfirmed ==
    \A r \in RunId :
        (HasStage(disk[r], "AGENT_CLAIMED") \/ HasStage(disk[r], "WORKER_CLAIMED"))
            => \E p \in ProposalId : /\ filed[p].status = "confirmed"
                                     /\ filed[p].run = r
                                     /\ source[r] = p

\* One human act authorizes one execution: no two Runs of one Proposal are ever
\* both executed, whatever crashes fall between the writes of the two files.
OneExecutionPerProposal ==
    \A r, s \in RunId :
        begun[r] > 0 /\ begun[s] > 0 /\ source[r] = source[s] => r = s

\* proposal.js, confirmProposal: "a cancelled or already-confirmed Proposal can
\* never be confirmed again", so a Proposal never has two Runs.
NeverConfirmedAgain ==
    \A r, s \in RunId :
        Exists(mem[r]) /\ Exists(mem[s]) /\ source[r] = source[s] => r = s

\* The proposals file never names a Run that the runs file has not got: the Run is
\* written first.
FiledRunIsOnFile ==
    \A p \in ProposalId : filed[p].run # NoRun => Exists(disk[filed[p].run])

\* A decision on a Proposal that reached the file is final over every restart.
FiledDecisionIsFinal ==
    [][\A p \in ProposalId :
          filed[p].status \in {"confirmed", "cancelled"}
              => filed'[p].status = filed[p].status]_flowVars

\* The reply tells the truth (confirmService.js, CLAIM_DISPATCH_STATUS): "accepted"
\* is answered only for a claim that is on disk and names the approval the order was
\* sealed with; after a conflict, an absent authorization or a refused hand-off of
\* the agent lane the Run is never executed, whatever the flags are later.
ReplyIsTruthful ==
    \A r \in RunId :
        /\ reply[r] \in Accepted
               => HasStage(disk[r], "AGENT_CLAIMED") /\ mem[r].approval # NoApproval
        /\ reply[r] \in Refused => begun[r] = 0

\* The approval of a sealed order authorizes the kind of work the order names: an
\* order reported as not authorized (audited 'approved_not_dispatched') is not
\* executed by another lane.
SealedOrderNotExecutedElsewhere ==
    \A r \in RunId :
        reply[r] \in {"agent_execute_not_authorized", "read_only_enquiry_not_authorized"}
            => begun[r] = 0

\* The callbacks a hand-off queued run, and its worker answers (the runner kills
\* it at its timeout); startup reconcile and listen follow a boot.
FlowFairness ==
    /\ WF_flowVars(ConfirmStep)
    /\ WF_flowVars(Startup)
    /\ \A r \in RunId : WF_flowVars(Background(r))

FairFlowSpec == FlowSpec /\ FlowFairness

\* A Run the agent lane claimed durably reaches a terminal status, over crashes
\* at any point: the executor's outcome, or what recovery makes of the evidence.
ClaimedAgentRunSettles ==
    \A r \in RunId : HasStage(disk[r], "AGENT_CLAIMED") ~> IsTerminal(disk[r])
=============================================================================
