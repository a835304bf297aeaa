--------------------------- MODULE RunStoreProofs ---------------------------
(***************************************************************************)
(* For every set of Runs and approvals, every number of candidates and     *)
(* every number of crashes and failed writes: the Run store is type        *)
(* correct, whatever executes has its claim in the file, and no Run is     *)
(* executed twice.                                                         *)
(*                                                                         *)
(* The argument.  A lane is handed a Run only by a claim gate, and a gate   *)
(* opens only for a Run whose memory shows no claim.  Memory shows every    *)
(* claim the file has (ClaimsInMemory), and every execution, begun or only  *)
(* queued, has its claim in the file (ExecutionHasDurableClaim): so a gate  *)
(* never opens twice, in one process or over restarts.  ClaimsExclusive     *)
(* makes two lanes' hand-offs of one Run impossible, and HandedOffOnce adds *)
(* that a hand-off still queued has not been counted as begun.              *)
(***************************************************************************)
EXTENDS ConfirmFlow, TLAPS

Typed(runs) == runs \in [RunId -> RunRecord]

ClaimsInMemory ==
    \A q \in RunId : \A c \in ClaimStages : HasStage(disk[q], c) => HasStage(mem[q], c)

ClaimsExclusive ==
    \A q \in RunId : \A c, d \in ClaimStages :
        HasStage(mem[q], c) /\ HasStage(mem[q], d) => c = d

Queued(q) == job[q] = "queued" \/ worker[q] = "queued" \/ agent[q] \in {"selecting", "queued"}

HandedOffOnce == \A q \in RunId : begun[q] <= 1 /\ (Queued(q) => begun[q] = 0)

StoreInv == Typed(mem) /\ Typed(disk) /\ faults \in Nat /\ ClaimsInMemory /\ ClaimsExclusive

IInv == TypeOK /\ StoreInv /\ ExecutionHasDurableClaim /\ HandedOffOnce

\* What a step that takes no claim does to the claims.
ClaimsKept ==
    \A q \in RunId : \A c \in ClaimStages :
        /\ HasStage(disk[q], c) => HasStage(disk'[q], c)
        /\ HasStage(mem'[q], c) <=> HasStage(mem[q], c)

QuietStep == StoreInv' /\ ClaimsKept

-----------------------------------------------------------------------------
(* Timelines.                                                               *)

\* Appending adds the stage that was appended and no other.
LEMMA AppendedStages ==
    ASSUME NEW run \in RunRecord, NEW next \in RunRecord, NEW stage \in Stages,
           next.timeline = Append(run.timeline, stage), NEW other
    PROVE  HasStage(next, other) <=> HasStage(run, other) \/ other = stage
<1>1. run.timeline \in Seq(Stages)
  BY DEF RunRecord
<1>2. /\ Len(next.timeline) = Len(run.timeline) + 1
      /\ \A i \in 1 .. Len(run.timeline) : next.timeline[i] = run.timeline[i]
      /\ next.timeline[Len(run.timeline) + 1] = stage
      /\ Len(run.timeline) \in Nat
  BY <1>1
<1>3. ASSUME HasStage(next, other) PROVE HasStage(run, other) \/ other = stage
  BY <1>2, <1>3 DEF HasStage
<1>4. ASSUME HasStage(run, other) \/ other = stage PROVE HasStage(next, other)
  <2>1. CASE HasStage(run, other)
    BY <1>2, <2>1 DEF HasStage
  <2>2. CASE other = stage
    BY <1>2, <2>2 DEF HasStage
  <2>. QED BY <1>4, <2>1, <2>2
<1>. QED BY <1>3, <1>4

\* appendStage preserves the shape of a record.
LEMMA AppendedType ==
    ASSUME NEW run \in RunRecord, NEW stage \in Stages
    PROVE  /\ Appended(run, stage) \in RunRecord
           /\ Appended(run, stage).timeline = Append(run.timeline, stage)
BY DEF Appended, RunRecord

LEMMA PriorNamed ==
    ASSUME NEW run \in RunRecord, NEW prior \in RunId \cup {NoRun}
    PROVE  /\ [run EXCEPT !.prior = prior] \in RunRecord
           /\ [run EXCEPT !.prior = prior].timeline = run.timeline
BY DEF RunRecord

LEMMA NewRecordType ==
    ASSUME NEW approval \in Approval \cup {NoApproval}, NEW frontend \in BOOLEAN
    PROVE  /\ NewRecord(approval, frontend) \in RunRecord
           /\ NewRecord(approval, frontend).timeline = << "TASK_CREATED" >>
<1>1. << "TASK_CREATED" >> \in Seq(Stages)
  BY DEF Stages
<1>. QED BY <1>1 DEF NewRecord, RunRecord, Outcomes

-----------------------------------------------------------------------------
(* The ways in which a step writes the store.                               *)

LEMMA KeptQuietly ==
    ASSUME StoreInv, UNCHANGED timelines
    PROVE  QuietStep
BY DEF StoreInv, timelines, QuietStep, ClaimsKept, Typed, ClaimsInMemory, ClaimsExclusive

\* A write of one record whose claims are those of the record it replaces.
LEMMA WrittenQuietly ==
    ASSUME StoreInv, NEW r \in RunId, NEW run \in RunRecord, NEW ok \in BOOLEAN,
           Record(r, run, ok),
           \A c \in ClaimStages : HasStage(run, c) <=> HasStage(mem[r], c)
    PROVE  QuietStep
<1>1. mem' = [mem EXCEPT ![r] = run] /\ Typed(mem)
  BY DEF Record, StoreInv
<1>2. Typed(mem') /\ \A q \in RunId : mem'[q] = IF q = r THEN run ELSE mem[q]
  BY <1>1 DEF Typed
<1>3. \A q \in RunId : \A c \in ClaimStages : HasStage(mem'[q], c) <=> HasStage(mem[q], c)
  BY <1>2
<1>4. faults' \in Nat /\ (disk' = mem' \/ disk' = disk)
  BY DEF Record, Flush, StoreInv
<1>5. Typed(disk')
  BY <1>2, <1>4 DEF StoreInv
<1>6. ClaimsInMemory'
  BY <1>3, <1>4 DEF ClaimsInMemory, StoreInv
<1>7. ClaimsExclusive'
  BY <1>3 DEF ClaimsExclusive, StoreInv
<1>8. ClaimsKept
  BY <1>3, <1>4 DEF ClaimsKept, ClaimsInMemory, StoreInv
<1>. QED BY <1>2, <1>4, <1>5, <1>6, <1>7, <1>8 DEF QuietStep, StoreInv

\* An append of any other stage than a claim.
LEMMA AppendedQuietly ==
    ASSUME StoreInv, NEW r \in RunId, NEW run \in RunRecord, NEW ok \in BOOLEAN,
           NEW stage \in Stages \ ClaimStages,
           run.timeline = Append(mem[r].timeline, stage),
           Record(r, run, ok)
    PROVE  QuietStep
<1>1. mem[r] \in RunRecord
  BY DEF StoreInv, Typed
<1>2. \A c \in ClaimStages : HasStage(run, c) <=> HasStage(mem[r], c)
  BY <1>1, AppendedStages
<1>. QED BY <1>2, WrittenQuietly

\* The creation of a Run.
LEMMA CreatedQuietly ==
    ASSUME StoreInv, NEW r \in RunId, ~Exists(mem[r]), NEW ok \in BOOLEAN,
           NEW approval \in Approval \cup {NoApproval}, NEW frontend \in BOOLEAN,
           Record(r, NewRecord(approval, frontend), ok)
    PROVE  QuietStep
<1>1. \A c \in ClaimStages : ~HasStage(mem[r], c)
  BY DEF Exists, HasStage
<1>2. \A c \in ClaimStages : ~HasStage(NewRecord(approval, frontend), c)
  BY NewRecordType DEF HasStage, ClaimStages
<1>. QED BY <1>1, <1>2, NewRecordType, WrittenQuietly

\* A claim: the Run had none, and it is in the file exactly when it is granted.
LEMMA ClaimTaken ==
    ASSUME StoreInv, NEW r \in RunId, NEW claim \in ClaimStages, NEW fact,
           NEW ok \in BOOLEAN, Claim(r, claim, fact, ok)
    PROVE  /\ StoreInv'
           /\ ~HasClaim(mem[r])
           /\ \A q \in RunId : \A c \in ClaimStages :
                 HasStage(disk[q], c) => HasStage(disk'[q], c)
           /\ ok => HasStage(disk'[r], claim)
<1> DEFINE run == Appended(mem[r], claim)
<1>1. /\ mem[r] \in RunRecord /\ claim \in Stages
  BY DEF StoreInv, Typed, Stages
<1>2. run \in RunRecord /\ run.timeline = Append(mem[r].timeline, claim)
  BY <1>1, AppendedType
<1>3. ~HasClaim(mem[r])
  BY DEF Claim, ClaimStatus
<1>4. Record(r, run, ok)
  BY DEF Claim
<1>5. Typed(mem') /\ \A q \in RunId : mem'[q] = IF q = r THEN run ELSE mem[q]
  BY <1>2, <1>4 DEF Typed, Record, StoreInv
<1>6. \A c \in ClaimStages : HasStage(run, c) <=> c = claim
  BY <1>1, <1>2, <1>3, AppendedStages DEF HasClaim
<1>7. /\ faults' \in Nat
      /\ disk' = mem' \/ disk' = disk
      /\ ok => disk' = mem'
  BY <1>4 DEF Record, Flush, StoreInv
<1>8. \A q \in RunId : \A c \in ClaimStages :
          HasStage(mem'[q], c) <=> HasStage(mem[q], c) \/ (q = r /\ c = claim)
  BY <1>3, <1>5, <1>6 DEF HasClaim
<1>9. ClaimsInMemory' /\ ClaimsExclusive'
  <2>1. ClaimsInMemory'
    BY <1>7, <1>8 DEF ClaimsInMemory, StoreInv
  <2>2. ClaimsExclusive'
    BY <1>3, <1>8 DEF ClaimsExclusive, StoreInv, HasClaim
  <2>. QED BY <2>1, <2>2
<1>10. \A q \in RunId : \A c \in ClaimStages : HasStage(disk[q], c) => HasStage(disk'[q], c)
  BY <1>7, <1>8 DEF ClaimsInMemory, StoreInv
<1>11. ok => HasStage(disk'[r], claim)
  BY <1>7, <1>8
<1>. QED BY <1>3, <1>5, <1>7, <1>9, <1>10, <1>11 DEF StoreInv, Typed

\* A write whose failure is swallowed, of any other stage than a claim.
LEMMA RecordedQuietly ==
    ASSUME StoreInv, NEW r \in RunId, NEW run \in RunRecord,
           NEW stage \in Stages \ ClaimStages,
           run.timeline = Append(mem[r].timeline, stage),
           RecordQuietly(r, run, stage)
    PROVE  QuietStep
<1>1. CASE AppendAllowed(mem[r], stage, mem[r].approval)
  BY <1>1, AppendedQuietly DEF RecordQuietly
<1>2. CASE ~AppendAllowed(mem[r], stage, mem[r].approval)
  BY <1>2, KeptQuietly DEF RecordQuietly
<1>. QED BY <1>1, <1>2

LEMMA MilestoneQuietly ==
    ASSUME StoreInv, NEW r \in RunId, NEW stage \in Stages \ ClaimStages,
           NEW next, NEW thrown, Milestone(r, stage, next, thrown)
    PROVE  QuietStep
<1>1. mem[r] \in RunRecord
  BY DEF StoreInv, Typed
<1>2. /\ Appended(mem[r], stage) \in RunRecord
      /\ Appended(mem[r], stage).timeline = Append(mem[r].timeline, stage)
  BY <1>1, AppendedType
<1>3. CASE AppendAllowed(mem[r], stage, NoApproval)
  BY <1>2, <1>3, AppendedQuietly DEF Milestone
<1>4. CASE ~AppendAllowed(mem[r], stage, NoApproval)
  BY <1>4, KeptQuietly DEF Milestone
<1>. QED BY <1>3, <1>4

-----------------------------------------------------------------------------
(* The dispatcher.                                                          *)

\* The claims in the file and the exclusion of hand-offs, as one step needs them.
LEMMA OneHandOff ==
    ASSUME IInv, NEW r \in RunId
    PROVE  /\ job[r] \notin {"idle", "created"} => worker[r] = "idle" /\ agent[r] = "idle"
           /\ worker[r] # "idle" => agent[r] = "idle"
           /\ begun[r] > 0 \/ job[r] \notin {"idle", "created"}
                 \/ worker[r] # "idle" \/ agent[r] # "idle" => HasClaim(mem[r])
BY DEF IInv, StoreInv, ExecutionHasDurableClaim, ClaimsInMemory, ClaimsExclusive,
       HasClaim, ClaimStages

\* Job counters move freely as long as none becomes "queued" and none leaves the
\* states that need no claim.
LEMMA JobMoves ==
    ASSUME IInv, QuietStep, NEW r \in RunId, NEW next \in JobStates \ {"queued"},
           job' = [job EXCEPT ![r] = next],
           next \in {"idle", "created"} \/ job[r] \notin {"idle", "created"},
           UNCHANGED <<worker, agent, begun>>
    PROVE  ExecutionHasDurableClaim' /\ HandedOffOnce' /\ job' \in [RunId -> JobStates]
<1>1. job \in [RunId -> JobStates]
  BY DEF IInv, TypeOK
<1>2. ExecutionHasDurableClaim'
  BY <1>1 DEF IInv, ExecutionHasDurableClaim, QuietStep, ClaimsKept, ClaimStages, HasClaim
<1>3. HandedOffOnce'
  BY <1>1 DEF IInv, HandedOffOnce, Queued
<1>. QED BY <1>1, <1>2, <1>3

LEMMA ControlKept ==
    ASSUME IInv, QuietStep, UNCHANGED <<job, worker, agent, begun>>
    PROVE  ExecutionHasDurableClaim' /\ HandedOffOnce'
BY DEF IInv, ExecutionHasDurableClaim, QuietStep, ClaimsKept, ClaimStages, HasClaim,
       HandedOffOnce, Queued

LEMMA MilestoneMoves ==
    ASSUME IInv, NEW r \in RunId, NEW stage \in Stages \ ClaimStages,
           NEW next \in JobStates \ {"queued"}, NEW thrown \in JobStates \ {"queued"},
           Milestone(r, stage, next, thrown),
           job[r] \notin {"idle", "created"},
           UNCHANGED <<worker, agent, begun>>
    PROVE  /\ StoreInv' /\ ExecutionHasDurableClaim' /\ HandedOffOnce'
           /\ job' \in [RunId -> JobStates]
<1>1. QuietStep
  BY MilestoneQuietly DEF IInv
<1>2. PICK ok \in BOOLEAN : job' = [job EXCEPT ![r] = IF ok THEN next ELSE thrown]
  BY DEF Milestone
<1>. QED BY <1>1, <1>2, JobMoves DEF QuietStep

\* A step of the dispatcher touches nothing but the store and its own counters.
LEMMA DispatchKeeps ==
    ASSUME IInv, StoreInv', ExecutionHasDurableClaim', HandedOffOnce',
           job' \in [RunId -> JobStates], left' \in [RunId -> Nat],
           UNCHANGED <<history, others>>
    PROVE  IInv'
BY DEF IInv, TypeOK, StoreInv, Typed, history, others, startup, evidence

LEMMA DispatchStepKeeps ==
    ASSUME IInv, NEW r \in RunId, DispatchStep(r)
    PROVE  IInv'
<1> USE DEF JobStates, JobInTurn, Stages, ClaimStages, ReconcileMarks, TerminalStages
<1>t. /\ job \in [RunId -> JobStates] /\ left \in [RunId -> Nat]
      /\ begun \in [RunId -> Nat] /\ outcome \in [RunId -> Outcomes] /\ StoreInv
  BY DEF IInv, TypeOK
<1>1. CASE DispatchBegins(r)
  <2>1. QuietStep
    BY <1>1, <1>t, KeptQuietly DEF DispatchBegins
  <2>2. /\ job[r] = "queued" /\ job' = [job EXCEPT ![r] = "policy"]
        /\ begun' = [begun EXCEPT ![r] = @ + 1] /\ UNCHANGED <<worker, agent>>
    BY <1>1 DEF DispatchBegins, others
  <2>3. ExecutionHasDurableClaim'
    BY <2>1, <2>2, <1>t DEF IInv, ExecutionHasDurableClaim, QuietStep, ClaimsKept, HasClaim
  <2>4. begun[r] = 0 /\ worker[r] = "idle" /\ agent[r] = "idle"
    BY <2>2, OneHandOff DEF IInv, HandedOffOnce, Queued
  <2>5. HandedOffOnce'
    BY <2>2, <2>4, <1>t DEF IInv, HandedOffOnce, Queued
  <2>6. TypeOK'
    BY <1>1, <2>1, <2>2, <1>t DEF DispatchBegins, IInv, TypeOK, QuietStep, StoreInv, Typed,
       others, startup, evidence
  <2>. QED BY <2>1, <2>3, <2>5, <2>6 DEF IInv, QuietStep
<1>2. CASE EvaluatePolicy(r)
  <2>1. CASE job' = [job EXCEPT ![r] = "threw"] /\ UNCHANGED timelines
    <3>1. QuietStep
      BY <2>1, <1>t, KeptQuietly
    <3>. QED BY <1>2, <1>t, <2>1, <3>1, JobMoves, DispatchKeeps
         DEF EvaluatePolicy, QuietStep, history, others
  <2>2. CASE \E next \in {"denying", "holding", "selecting", "returned"} :
                Milestone(r, "POLICY_EVALUATED", next, "threw")
    BY <1>2, <1>t, <2>2, MilestoneMoves, DispatchKeeps DEF EvaluatePolicy, history, others
  <2>. QED BY <1>2, <2>1, <2>2 DEF EvaluatePolicy
<1>3. CASE Deny(r)
  BY <1>3, <1>t, MilestoneMoves, DispatchKeeps DEF Deny, history, others
<1>4. CASE Hold(r)
  BY <1>4, <1>t, MilestoneMoves, DispatchKeeps DEF Hold, history, others
<1>5. CASE SelectAgent(r)
  <2>1. left' \in [RunId -> Nat]
    BY <1>5, <1>t, CandidatesAssumption DEF SelectAgent
  <2>. QED BY <1>5, <1>t, <2>1, MilestoneMoves, DispatchKeeps DEF SelectAgent, history, others
<1>6. CASE Attempt(r)
  <2>1. left' \in [RunId -> Nat]
    BY <1>6, <1>t DEF Attempt
  <2>2. CASE UNCHANGED <<job, timelines>>
    <3>1. QuietStep
      BY <2>2, <1>t, KeptQuietly
    <3>. QED BY <1>6, <1>t, <2>1, <2>2, <3>1, ControlKept, DispatchKeeps
         DEF Attempt, QuietStep, history, others
  <2>3. CASE Milestone(r, "AGENT_RUNNING", "working", "attempt")
    BY <1>6, <1>t, <2>1, <2>3, MilestoneMoves, DispatchKeeps DEF Attempt, history, others
  <2>. QED BY <1>6, <2>2, <2>3 DEF Attempt
<1>7. CASE AdapterAnswers(r)
  <2>1. QuietStep
    BY <1>7, <1>t, KeptQuietly DEF AdapterAnswers
  <2>2. PICK answer \in {"finished", "missed", "caught"} :
            /\ job' = [job EXCEPT ![r] = answer]
            /\ outcome' = [outcome EXCEPT ![r] = IF answer = "finished" THEN "ok" ELSE "failed"]
    BY <1>7 DEF AdapterAnswers
  <2>3. ExecutionHasDurableClaim' /\ HandedOffOnce' /\ job' \in [RunId -> JobStates]
    BY <1>7, <2>1, <2>2, JobMoves DEF AdapterAnswers, others
  <2>4. TypeOK'
    BY <1>7, <1>t, <2>1, <2>2, <2>3 DEF AdapterAnswers, IInv, TypeOK, QuietStep, StoreInv,
       Typed, Outcomes, others, startup, evidence
  <2>. QED BY <2>1, <2>3, <2>4 DEF IInv, QuietStep
<1>8. CASE RecordSuccess(r)
  BY <1>8, <1>t, MilestoneMoves, DispatchKeeps DEF RecordSuccess, history, others
<1>9. CASE RecordPatch(r)
  BY <1>9, <1>t, MilestoneMoves, DispatchKeeps DEF RecordPatch, history, others
<1>10. CASE RecordMiss(r)
  BY <1>10, <1>t, MilestoneMoves, DispatchKeeps DEF RecordMiss, history, others
<1>11. CASE Exhaust(r)
  BY <1>11, <1>t, MilestoneMoves, DispatchKeeps DEF Exhaust, history, others
<1>12. CASE PromoteToPendingApproval(r)
  <2>1. CASE Milestone(r, "PENDING_APPROVAL", "idle", "threw")
    BY <1>12, <1>t, <2>1, MilestoneMoves, DispatchKeeps
       DEF PromoteToPendingApproval, history, others
  <2>2. CASE job' = [job EXCEPT ![r] = "idle"] /\ UNCHANGED timelines
    <3>1. QuietStep
      BY <2>2, <1>t, KeptQuietly
    <3>. QED BY <1>12, <1>t, <2>2, <3>1, JobMoves, DispatchKeeps
         DEF PromoteToPendingApproval, QuietStep, history, others
  <2>. QED BY <1>12, <2>1, <2>2 DEF PromoteToPendingApproval
<1>13. CASE RecordFailure(r)
  <2>1. QuietStep
    <3>1. mem[r] \in RunRecord
      BY <1>t DEF StoreInv, Typed
    <3>2. /\ Appended(mem[r], "FAILED") \in RunRecord
          /\ Appended(mem[r], "FAILED").timeline = Append(mem[r].timeline, "FAILED")
      BY <3>1, AppendedType
    <3>. QED BY <1>13, <1>t, <3>2, KeptQuietly, RecordedQuietly DEF RecordFailure
  <2>. QED BY <1>13, <1>t, <2>1, JobMoves, DispatchKeeps
       DEF RecordFailure, QuietStep, history, others
<1>. QED BY <1>1, <1>2, <1>3, <1>4, <1>5, <1>6, <1>7, <1>8, <1>9, <1>10, <1>11, <1>12, <1>13
     DEF DispatchStep

-----------------------------------------------------------------------------
(* The executors.                                                           *)

LEMMA WorkerStepKeeps ==
    ASSUME IInv, NEW r \in RunId, WorkerStep(r)
    PROVE  IInv'
<1>1. UNCHANGED timelines /\ UNCHANGED <<job, agent>>
  BY DEF WorkerStep, WorkerBegins, WorkerAnswers, develop
<1>2. QuietStep
  BY <1>1, KeptQuietly DEF IInv
<1>3. /\ worker \in [RunId -> WorkerStates] /\ begun \in [RunId -> Nat]
      /\ worker[r] # "idle"
  BY DEF IInv, TypeOK, WorkerStep, WorkerBegins, WorkerAnswers
<1>4. TypeOK'
  <2>1. CASE WorkerBegins(r)
    <3>1. worker' \in [RunId -> WorkerStates]
      BY <1>3, <2>1 DEF WorkerBegins, WorkerStates
    <3>2. begun' \in [RunId -> Nat] /\ tasks' \subseteq RunId
      <4>1. tasks \subseteq RunId /\ begun[r] + 1 \in Nat
        BY <1>3 DEF IInv, TypeOK
      <4>2. \/ tasks' = tasks \cup {r} /\ begun' = [begun EXCEPT ![r] = begun[r] + 1]
            \/ UNCHANGED <<tasks, begun>>
        BY <2>1 DEF WorkerBegins
      <4>. QED BY <1>3, <4>1, <4>2
    <3>. QED BY <1>2, <2>1, <3>1, <3>2 DEF WorkerBegins, IInv, TypeOK, QuietStep, StoreInv,
             Typed, startup, develop
  <2>2. CASE WorkerAnswers(r)
    <3>1. PICK verdict \in {"ok", "failed"}, written \in BOOLEAN :
              /\ outcome' = [outcome EXCEPT ![r] = verdict]
              /\ results' = IF written THEN [results EXCEPT ![r] = verdict] ELSE results
      BY <2>2 DEF WorkerAnswers
    <3>2. outcome' \in [RunId -> Outcomes] /\ results' \in [RunId -> Outcomes]
      BY <3>1 DEF IInv, TypeOK, Outcomes
    <3>. QED BY <1>2, <2>2, <3>2 DEF WorkerAnswers, IInv, TypeOK, QuietStep, StoreInv,
             Typed, WorkerStates, startup, develop
  <2>. QED BY <2>1, <2>2 DEF WorkerStep
<1>5. ExecutionHasDurableClaim'
  BY <1>1, <1>2, <1>3 DEF WorkerStep, WorkerBegins, WorkerAnswers, IInv,
     ExecutionHasDurableClaim, QuietStep, ClaimsKept, ClaimStages, HasClaim
<1>6. HandedOffOnce'
  <2>1. job[r] # "queued" /\ agent[r] \notin {"selecting", "queued"}
    BY <1>3, OneHandOff
  <2>. QED BY <1>1, <1>3, <2>1 DEF WorkerStep, WorkerBegins, WorkerAnswers, IInv,
           HandedOffOnce, Queued
<1>. QED BY <1>2, <1>4, <1>5, <1>6 DEF IInv, QuietStep

\* A step of an agent that already holds its claim.
LEMMA AgentMoves ==
    ASSUME IInv, QuietStep, NEW r \in RunId, NEW next \in AgentStates,
           agent[r] # "idle",
           agent' = [agent EXCEPT ![r] = next],
           next \in {"selecting", "queued"} => agent[r] \in {"selecting", "queued"},
           UNCHANGED <<job, worker, begun>>
    PROVE  ExecutionHasDurableClaim' /\ HandedOffOnce' /\ agent' \in [RunId -> AgentStates]
<1>1. agent \in [RunId -> AgentStates]
  BY DEF IInv, TypeOK
<1>2. ExecutionHasDurableClaim'
  BY <1>1 DEF IInv, ExecutionHasDurableClaim, QuietStep, ClaimsKept, ClaimStages, HasClaim
<1>3. HandedOffOnce'
  BY <1>1 DEF IInv, HandedOffOnce, Queued
<1>. QED BY <1>1, <1>2, <1>3

LEMMA AgentStepKeeps ==
    ASSUME IInv, NEW r \in RunId, AgentStep(r)
    PROVE  IInv'
<1> USE DEF AgentStates, AgentInTurn, Stages, ClaimStages, ReconcileMarks, TerminalStages
<1>t. /\ agent \in [RunId -> AgentStates] /\ mem[r] \in RunRecord /\ StoreInv
      /\ begun \in [RunId -> Nat] /\ outcome \in [RunId -> Outcomes]
  BY DEF IInv, TypeOK, StoreInv, Typed
<1>a. \A stage \in Stages : /\ Appended(mem[r], stage) \in RunRecord
                            /\ Appended(mem[r], stage).timeline = Append(mem[r].timeline, stage)
  BY <1>t, AppendedType
<1>1. CASE AgentSelected(r)
  <2>1. QuietStep
    BY <1>1, <1>t, <1>a, RecordedQuietly DEF AgentSelected
  <2>2. ExecutionHasDurableClaim' /\ HandedOffOnce' /\ agent' \in [RunId -> AgentStates]
    BY <1>1, <2>1, AgentMoves DEF AgentSelected, develop, history
  <2>3. TypeOK'
    BY <1>1, <2>1, <2>2 DEF AgentSelected, IInv, TypeOK, QuietStep, StoreInv, Typed,
       startup, develop, evidence, history
  <2>. QED BY <2>1, <2>2, <2>3 DEF IInv, QuietStep
<1>2. CASE AgentBegins(r)
  <2>1. QuietStep
    BY <1>2, <1>t, <1>a, RecordedQuietly, KeptQuietly DEF AgentBegins
  <2>2. begun[r] = 0 /\ job[r] # "queued" /\ worker[r] # "queued"
    BY <1>2, OneHandOff DEF AgentBegins, IInv, HandedOffOnce, Queued
  <2>3. /\ agent[r] = "queued" /\ agent' \in [RunId -> AgentStates]
        /\ \A q \in RunId : q # r => agent'[q] = agent[q] /\ begun'[q] = begun[q]
        /\ agent'[r] \notin {"selecting", "queued"} /\ begun'[r] \in {0, 1}
        /\ begun' \in [RunId -> Nat] /\ outcome' \in [RunId -> Outcomes]
        /\ UNCHANGED <<job, worker>>
    BY <1>2, <1>t, <2>2 DEF AgentBegins, Outcomes, develop
  <2>4. ExecutionHasDurableClaim'
    BY <2>1, <2>3 DEF IInv, ExecutionHasDurableClaim, QuietStep, ClaimsKept, HasClaim
  <2>5. HandedOffOnce'
    BY <2>2, <2>3 DEF IInv, HandedOffOnce, Queued
  <2>6. TypeOK'
    BY <1>2, <2>1, <2>3 DEF AgentBegins, IInv, TypeOK, QuietStep, StoreInv, Typed,
       startup, develop, evidence
  <2>. QED BY <2>1, <2>4, <2>5, <2>6 DEF IInv, QuietStep
<1>3. CASE AgentAnswers(r)
  <2>1. QuietStep
    BY <1>3, <1>t, KeptQuietly DEF AgentAnswers
  <2>2. ExecutionHasDurableClaim' /\ HandedOffOnce' /\ agent' \in [RunId -> AgentStates]
    BY <1>3, <2>1, AgentMoves DEF AgentAnswers, develop
  <2>3. TypeOK'
    BY <1>3, <1>t, <2>1, <2>2 DEF AgentAnswers, IInv, TypeOK, QuietStep, StoreInv, Typed,
       Outcomes, startup, develop, evidence
  <2>. QED BY <2>1, <2>2, <2>3 DEF IInv, QuietStep
<1>4. CASE AgentAudits(r)
  <2>1. QuietStep
    BY <1>4, <1>t, KeptQuietly DEF AgentAudits
  <2>2. ExecutionHasDurableClaim' /\ HandedOffOnce' /\ agent' \in [RunId -> AgentStates]
    BY <1>4, <2>1, AgentMoves DEF AgentAudits, develop, history
  <2>3. audits' \in Seq([run : RunId, ok : BOOLEAN])
    <3> DEFINE Audit == [run : RunId, ok : BOOLEAN]
               audit == [run |-> r, ok |-> outcome[r] = "ok"]
    <3>1. audit \in Audit
      OBVIOUS
    <3>2. audits \in Seq(Audit)
      BY DEF IInv, TypeOK
    <3>3. audits' = Append(audits, audit) \/ audits' = audits
      BY <1>4 DEF AgentAudits
    <3> HIDE DEF Audit, audit
    <3>4. audits' \in Seq(Audit)
      BY <3>1, <3>2, <3>3
    <3>. QED BY <3>4 DEF Audit
  <2>4. TypeOK'
    BY <1>4, <2>1, <2>2, <2>3 DEF AgentAudits, IInv, TypeOK, QuietStep, StoreInv, Typed,
       startup, develop, history
  <2>. QED BY <2>1, <2>2, <2>4 DEF IInv, QuietStep
<1>5. CASE AgentFinishes(r)
  <2> DEFINE run == [Appended(mem[r], "AGENT_FINISHED") EXCEPT !.finished = outcome[r]]
  <2>0. run \in RunRecord /\ run.timeline = Append(mem[r].timeline, "AGENT_FINISHED")
    BY <1>a, <1>t DEF RunRecord
  <2>1. QuietStep
    BY <1>5, <1>t, <2>0, RecordedQuietly DEF AgentFinishes
  <2>2. ExecutionHasDurableClaim' /\ HandedOffOnce' /\ agent' \in [RunId -> AgentStates]
    BY <1>5, <2>1, AgentMoves DEF AgentFinishes, develop, history
  <2>3. TypeOK'
    BY <1>5, <2>1, <2>2 DEF AgentFinishes, IInv, TypeOK, QuietStep, StoreInv, Typed,
       startup, develop, evidence, history
  <2>. QED BY <2>1, <2>2, <2>3 DEF IInv, QuietStep
<1>6. CASE AgentSettles(r)
  <2>1. QuietStep
    BY <1>6, <1>t, <1>a, RecordedQuietly DEF AgentSettles
  <2>2. ExecutionHasDurableClaim' /\ HandedOffOnce' /\ agent' \in [RunId -> AgentStates]
    BY <1>6, <2>1, AgentMoves DEF AgentSettles, develop, history
  <2>3. TypeOK'
    BY <1>6, <2>1, <2>2 DEF AgentSettles, IInv, TypeOK, QuietStep, StoreInv, Typed,
       startup, develop, evidence, history
  <2>. QED BY <2>1, <2>2, <2>3 DEF IInv, QuietStep
<1>. QED BY <1>1, <1>2, <1>3, <1>4, <1>5, <1>6 DEF AgentStep

-----------------------------------------------------------------------------
(* Requests: creation, claims, decisions and retries.                       *)

\* A quiet request that leaves every program counter alone.
LEMMA RequestKeeps ==
    ASSUME IInv, QuietStep, UNCHANGED <<phase, todo, crashes, develop, worker, agent,
                                        tasks, results, audits, begun, outcome>>,
           retryOf' \in [RunId -> RunId \cup {NoRun}], applying' \subseteq RunId,
           applied' \in [RunId -> Nat]
    PROVE  IInv'
<1>1. ExecutionHasDurableClaim' /\ HandedOffOnce'
  BY ControlKept DEF develop
<1>2. TypeOK'
  BY DEF IInv, TypeOK, QuietStep, StoreInv, Typed, develop
<1>. QED BY <1>1, <1>2 DEF IInv, QuietStep

\* Before a gate opens nothing was begun or handed off.
LEMMA GateFindsNothing ==
    ASSUME IInv, NEW r \in RunId, ~HasClaim(mem[r])
    PROVE  /\ begun[r] = 0 /\ job[r] \in {"idle", "created"}
           /\ worker[r] = "idle" /\ agent[r] = "idle"
BY OneHandOff DEF IInv, TypeOK

LEMMA ClaimDispatchKeeps ==
    ASSUME IInv, NEW r \in RunId, ClaimDispatch(r),
           UNCHANGED <<startup, left, retryOf, applying, worker, agent, evidence, history>>
    PROVE  IInv'
<1>1. PICK ok \in BOOLEAN : /\ Claim(r, "DISPATCH_CLAIMED", NoApproval, ok)
                            /\ job' = [job EXCEPT ![r] = IF ok THEN "queued" ELSE "idle"]
  BY DEF ClaimDispatch
<1>2. /\ StoreInv' /\ ~HasClaim(mem[r])
      /\ \A q \in RunId : \A c \in ClaimStages : HasStage(disk[q], c) => HasStage(disk'[q], c)
      /\ ok => HasStage(disk'[r], "DISPATCH_CLAIMED")
  BY <1>1, ClaimTaken DEF IInv, ClaimStages
<1>3. job \in [RunId -> JobStates]
  BY DEF IInv, TypeOK
<1>4. ExecutionHasDurableClaim'
  BY <1>1, <1>2, <1>3 DEF IInv, ExecutionHasDurableClaim, HasClaim, ClaimStages, history
<1>5. HandedOffOnce'
  BY <1>1, <1>2, <1>3, GateFindsNothing DEF IInv, HandedOffOnce, Queued, history
<1>6. TypeOK'
  BY <1>1, <1>2 DEF IInv, TypeOK, StoreInv, Typed, JobStates, startup, evidence, history
<1>. QED BY <1>2, <1>4, <1>5, <1>6 DEF IInv

LEMMA ClaimWorkerKeeps ==
    ASSUME IInv, NEW r \in RunId, ClaimWorker(r)
    PROVE  IInv'
<1>1. PICK ok \in BOOLEAN : /\ Claim(r, "WORKER_CLAIMED", NoApproval, ok)
                            /\ worker' = [worker EXCEPT ![r] = IF ok THEN "queued" ELSE "idle"]
  BY DEF ClaimWorker
<1>2. /\ StoreInv' /\ ~HasClaim(mem[r])
      /\ \A q \in RunId : \A c \in ClaimStages : HasStage(disk[q], c) => HasStage(disk'[q], c)
      /\ ok => HasStage(disk'[r], "WORKER_CLAIMED")
  BY <1>1, ClaimTaken DEF IInv, ClaimStages
<1>3. worker \in [RunId -> WorkerStates]
  BY DEF IInv, TypeOK
<1>4. ExecutionHasDurableClaim'
  BY <1>1, <1>2, <1>3 DEF ClaimWorker, IInv, ExecutionHasDurableClaim, HasClaim, ClaimStages,
     develop, history
<1>5. HandedOffOnce'
  BY <1>1, <1>2, <1>3, GateFindsNothing DEF ClaimWorker, IInv, HandedOffOnce, Queued,
     develop, history
<1>6. TypeOK'
  BY <1>1, <1>2 DEF ClaimWorker, IInv, TypeOK, StoreInv, Typed, WorkerStates, startup,
     develop, evidence, history
<1>. QED BY <1>2, <1>4, <1>5, <1>6 DEF IInv

LEMMA ClaimAgentKeeps ==
    ASSUME IInv, NEW r \in RunId, NEW fact, ClaimAgent(r, fact)
    PROVE  IInv'
<1>1. PICK ok \in BOOLEAN : /\ Claim(r, "AGENT_CLAIMED", fact, ok)
                            /\ agent' = [agent EXCEPT ![r] = IF ok THEN "selecting" ELSE "idle"]
  BY DEF ClaimAgent
<1>2. /\ StoreInv' /\ ~HasClaim(mem[r])
      /\ \A q \in RunId : \A c \in ClaimStages : HasStage(disk[q], c) => HasStage(disk'[q], c)
      /\ ok => HasStage(disk'[r], "AGENT_CLAIMED")
  BY <1>1, ClaimTaken DEF IInv, ClaimStages
<1>3. agent \in [RunId -> AgentStates]
  BY DEF IInv, TypeOK
<1>4. ExecutionHasDurableClaim'
  BY <1>1, <1>2, <1>3 DEF ClaimAgent, IInv, ExecutionHasDurableClaim, HasClaim, ClaimStages,
     develop, history
<1>5. HandedOffOnce'
  BY <1>1, <1>2, <1>3, GateFindsNothing DEF ClaimAgent, IInv, HandedOffOnce, Queued,
     develop, history
<1>6. TypeOK'
  BY <1>1, <1>2 DEF ClaimAgent, IInv, TypeOK, StoreInv, Typed, AgentStates, AgentInTurn,
     startup, develop, evidence, history
<1>. QED BY <1>2, <1>4, <1>5, <1>6 DEF IInv

LEMMA RequestStepKeeps ==
    ASSUME IInv, NEW r \in RunId, Request(r)
    PROVE  IInv'
<1> USE DEF Stages, ClaimStages, ReconcileMarks, TerminalStages
<1>t. /\ mem \in [RunId -> RunRecord] /\ StoreInv
      /\ job \in [RunId -> JobStates] /\ retryOf \in [RunId -> RunId \cup {NoRun}]
      /\ applying \subseteq RunId /\ applied \in [RunId -> Nat]
      /\ left \in [RunId -> Nat]
  BY DEF IInv, TypeOK
<1>a. \A q \in RunId : \A stage \in Stages :
          /\ Appended(mem[q], stage) \in RunRecord
          /\ Appended(mem[q], stage).timeline = Append(mem[q].timeline, stage)
  BY <1>t, AppendedType
<1>1. ASSUME NEW approval \in Approval \cup {NoApproval}, NEW frontend \in BOOLEAN,
             StartRun(r, approval, frontend)
      PROVE  IInv'
  <2>1. PICK ok \in BOOLEAN : /\ Record(r, NewRecord(approval, frontend), ok)
                              /\ job' = [job EXCEPT ![r] = IF ok THEN "created" ELSE "idle"]
    BY <1>1 DEF StartRun
  <2>2. QuietStep
    BY <1>1, <1>t, <2>1, CreatedQuietly DEF StartRun
  <2>3. ExecutionHasDurableClaim' /\ HandedOffOnce' /\ job' \in [RunId -> JobStates]
    BY <1>1, <2>1, <2>2, JobMoves DEF StartRun, history, JobStates, JobInTurn
  <2>. QED BY <1>1, <1>t, <2>2, <2>3, DispatchKeeps DEF StartRun, QuietStep, others
<1>2. ASSUME NEW authorized \in BOOLEAN, ScheduleDispatch(r, authorized)
      PROVE  IInv'
  <2>1. CASE authorized
    BY <1>2, <2>1, ClaimDispatchKeeps DEF ScheduleDispatch
  <2>2. CASE ~authorized
    <3>1. QuietStep
      BY <1>2, <1>t, <2>2, KeptQuietly DEF ScheduleDispatch
    <3>2. ExecutionHasDurableClaim' /\ HandedOffOnce' /\ job' \in [RunId -> JobStates]
      BY <1>2, <2>2, <3>1, JobMoves DEF ScheduleDispatch, history, JobStates, JobInTurn
    <3>. QED BY <1>2, <1>t, <3>1, <3>2, DispatchKeeps DEF ScheduleDispatch, QuietStep, others
  <2>. QED BY <2>1, <2>2
<1>3. CASE DispatchRun(r)
  BY <1>3, ClaimDispatchKeeps DEF DispatchRun
<1>4. CASE ClaimWorker(r)
  BY <1>4, ClaimWorkerKeeps
<1>5. CASE \E approval \in Approval : ClaimAgent(r, approval)
  BY <1>5, ClaimAgentKeeps
<1>6. CASE ApproveRun(r)
  <2>1. QuietStep
    BY <1>6, <1>t, <1>a, AppendedQuietly DEF ApproveRun
  <2>. QED BY <1>6, <1>t, <2>1, RequestKeeps DEF ApproveRun, startup, evidence
<1>7. CASE ApplyReturns(r)
  <2>1. QuietStep
    BY <1>7, <1>t, <1>a, RecordedQuietly, KeptQuietly DEF ApplyReturns
  <2>. QED BY <1>7, <1>t, <2>1, RequestKeeps DEF ApplyReturns, startup, evidence, history
<1>8. CASE RejectRun(r)
  <2>1. QuietStep
    BY <1>8, <1>t, <1>a, AppendedQuietly DEF RejectRun
  <2>. QED BY <1>8, <1>t, <2>1, RequestKeeps DEF RejectRun, startup, evidence, history
<1>9. ASSUME NEW attempt \in RunId, Retry(r, attempt)
      PROVE  IInv'
  <2>1. mem[r].frontend \in BOOLEAN
    BY <1>t DEF RunRecord
  <2>2. QuietStep
    BY <1>9, <1>t, <2>1, CreatedQuietly DEF Retry
  <2>3. retryOf' \in [RunId -> RunId \cup {NoRun}]
    BY <1>9, <1>t DEF Retry
  <2>. QED BY <1>9, <1>t, <2>2, <2>3, RequestKeeps DEF Retry, startup, evidence, history
<1>10. CASE LinkAttempt(r)
  <2> DEFINE run == [Appended(mem[r], "RETRY_ATTEMPT") EXCEPT !.prior = retryOf[r]]
  <2>a. /\ Appended(mem[r], "RETRY_ATTEMPT") \in RunRecord
        /\ Appended(mem[r], "RETRY_ATTEMPT").timeline = Append(mem[r].timeline, "RETRY_ATTEMPT")
    BY <1>a
  <2>b. retryOf[r] \in RunId \cup {NoRun}
    BY <1>t
  <2>0. run \in RunRecord /\ run.timeline = Append(mem[r].timeline, "RETRY_ATTEMPT")
    BY <2>a, <2>b, PriorNamed
  <2>1. QuietStep
    BY <1>10, <1>t, <2>0, RecordedQuietly DEF LinkAttempt
  <2>2. retryOf' \in [RunId -> RunId \cup {NoRun}]
    BY <1>10, <1>t DEF LinkAttempt
  <2>. QED BY <1>10, <1>t, <2>1, <2>2, RequestKeeps DEF LinkAttempt, startup, evidence, history
<1>. QED BY <1>1, <1>2, <1>3, <1>4, <1>5, <1>6, <1>7, <1>8, <1>9, <1>10 DEF Request

-----------------------------------------------------------------------------
(* Death and startup.                                                       *)

LEMMA CrashKeeps ==
    ASSUME IInv, Crash
    PROVE  IInv'
<1>1. mem' = disk /\ disk' = disk
  BY DEF Crash
<1>2. StoreInv'
  BY <1>1 DEF Crash, IInv, StoreInv, Typed, ClaimsInMemory, ClaimsExclusive
<1>3. /\ ExecutionHasDurableClaim' /\ HandedOffOnce'
  BY <1>1 DEF Crash, IInv, ExecutionHasDurableClaim, HandedOffOnce, Queued, HasClaim, history
<1>4. TypeOK'
  BY <1>1 DEF Crash, IInv, TypeOK, JobStates, WorkerStates, AgentStates, evidence, history
<1>. QED BY <1>2, <1>3, <1>4 DEF IInv

LEMMA ReconcileKeeps ==
    ASSUME IInv, NEW r \in RunId, Reconcile(r)
    PROVE  IInv'
<1> DEFINE mark == RecoveryMark(mem[r], r \in tasks, results[r], AuditOutcome(r, audits))
<1>1. /\ mem[r] \in RunRecord /\ StoreInv /\ todo \subseteq RunId
      /\ results[r] \in Outcomes
  BY DEF IInv, TypeOK
<1>2. mark \in ReconcileMarks
  BY DEF RecoveryMark, MarkOf, ReconcileMarks
<1>3. mark \in Stages \ ClaimStages
  BY <1>2 DEF Stages, ReconcileMarks, ClaimStages
<1> HIDE DEF mark
<1>4. QuietStep
  BY <1>1, <1>3, AppendedType, AppendedQuietly, KeptQuietly DEF Reconcile, mark
<1>5. todo' \subseteq RunId
  BY <1>1 DEF Reconcile
<1>6. ExecutionHasDurableClaim' /\ HandedOffOnce'
  BY <1>4, ControlKept DEF Reconcile, develop, history
<1>7. TypeOK'
  BY <1>4, <1>5 DEF Reconcile, IInv, TypeOK, QuietStep, StoreInv, Typed, develop, evidence,
     history
<1>. QED BY <1>4, <1>6, <1>7 DEF IInv, QuietStep

LEMMA ListenKeeps ==
    ASSUME IInv, Listen
    PROVE  IInv'
<1>1. QuietStep
  BY KeptQuietly DEF Listen, IInv
<1>2. ExecutionHasDurableClaim' /\ HandedOffOnce'
  BY <1>1, ControlKept DEF Listen, develop, history
<1>3. TypeOK'
  BY <1>1 DEF Listen, IInv, TypeOK, QuietStep, StoreInv, Typed, develop, evidence, history
<1>. QED BY <1>1, <1>2, <1>3 DEF IInv, QuietStep

-----------------------------------------------------------------------------
(* The theorems.                                                            *)

LEMMA InitEstablishes == Init => IInv
<1> SUFFICES ASSUME Init PROVE IInv
  OBVIOUS
<1>1. NoRecord \in RunRecord /\ NoRecord.timeline = << >>
  BY DEF NoRecord, RunRecord, Outcomes
<1>2. \A q \in RunId : \A stage : ~HasStage(mem[q], stage) /\ ~HasStage(disk[q], stage)
  BY <1>1 DEF Init, HasStage
<1>3. StoreInv
  BY <1>1, <1>2 DEF Init, StoreInv, Typed, ClaimsInMemory, ClaimsExclusive
<1>4. ExecutionHasDurableClaim /\ HandedOffOnce
  BY DEF Init, ExecutionHasDurableClaim, HandedOffOnce, Queued
<1>5. TypeOK
  BY <1>3 DEF Init, StoreInv, Typed, TypeOK, JobStates, WorkerStates, AgentStates, Outcomes
<1>. QED BY <1>3, <1>4, <1>5 DEF IInv

LEMMA NextKeeps == IInv /\ [Next]_vars => IInv'
<1> SUFFICES ASSUME IInv, [Next]_vars PROVE IInv'
  OBVIOUS
<1>1. ASSUME NEW r \in RunId, DispatchStep(r) PROVE IInv'
  BY <1>1, DispatchStepKeeps
<1>2. ASSUME NEW r \in RunId, WorkerStep(r) PROVE IInv'
  BY <1>2, WorkerStepKeeps
<1>3. ASSUME NEW r \in RunId, AgentStep(r) PROVE IInv'
  BY <1>3, AgentStepKeeps
<1>4. ASSUME NEW r \in RunId, Request(r) PROVE IInv'
  BY <1>4, RequestStepKeeps
<1>5. ASSUME NEW r \in RunId, Reconcile(r) PROVE IInv'
  BY <1>5, ReconcileKeeps
<1>6. CASE Listen
  BY <1>6, ListenKeeps
<1>7. CASE Crash
  BY <1>7, CrashKeeps
<1>8. CASE UNCHANGED vars
  BY <1>8 DEF vars, IInv, TypeOK, StoreInv, Typed, ClaimsInMemory, ClaimsExclusive,
     ExecutionHasDurableClaim, HandedOffOnce, Queued, HasClaim
<1>. QED BY <1>1, <1>2, <1>3, <1>4, <1>5, <1>6, <1>7, <1>8 DEF Next

\* The inductive invariant holds throughout.
THEOREM Invariant == Spec => []IInv
BY InitEstablishes, NextKeeps, PTL DEF Spec

\* The store is type correct: no handler builds a record, a counter or a stage
\* outside its vocabulary.
THEOREM TypeCorrect == Spec => []TypeOK
<1>1. IInv => TypeOK
  BY DEF IInv
<1>. QED BY <1>1, Invariant, PTL

\* store.js, the three claim gates: what is handed to an executor, or ever ran,
\* has the claim of its lane in the file.
THEOREM DurableClaimBeforeExecution == Spec => []ExecutionHasDurableClaim
<1>1. IInv => ExecutionHasDurableClaim
  BY DEF IInv
<1>. QED BY <1>1, Invariant, PTL

\* store.js, dispatchRun: a Run is executed at most once across all callers, all
\* lanes and all restarts.
THEOREM ExecutedAtMostOnce == Spec => []AtMostOneExecution
<1>1. IInv => AtMostOneExecution
  BY DEF IInv, HandedOffOnce, AtMostOneExecution
<1>. QED BY <1>1, Invariant, PTL

-----------------------------------------------------------------------------
(***************************************************************************)
(* The Run store implements RunLedger, for every set of Runs and approvals  *)
(* and every number of candidates, crashes and failed writes; and what the  *)
(* file says of an ended Run is never changed.                              *)
(*                                                                         *)
(* The argument.  A write publishes for every Run what failed writes left   *)
(* in memory, so memory must never contradict the file: it has every stage  *)
(* the file has, and where the file is terminal it says the same            *)
(* (FileOK).  An execution begins only for a Run that is not settled: while *)
(* an executor is queued or awaited, the last stage is the one it was       *)
(* handed the Run with, because nobody else may append (TurnOK).            *)
(***************************************************************************)

Carrying == {"AGENT_CLAIMED", "AGENT_SELECTED", "AGENT_RUNNING"}

\* Memory and file of a Run.  A pending patch comes from a claimed dispatch.
FileOK(q) ==
    /\ \A s \in Stages : HasStage(disk[q], s) => HasStage(mem[q], s)
    /\ IsTerminal(disk[q]) => mem[q] = disk[q]
    /\ HasStage(mem[q], "PENDING_APPROVAL") => HasClaim(mem[q])
    /\ HasStage(disk[q], "PENDING_APPROVAL") => HasClaim(disk[q])

\* Whose turn it is to append to a Run.
TurnOK(q) ==
    /\ job[q] = "queued" => LastStage(mem[q]) = "DISPATCH_CLAIMED"
    /\ job[q] = "working" => LastStage(mem[q]) = "AGENT_RUNNING"
    /\ worker[q] # "idle" => LastStage(mem[q]) = "WORKER_CLAIMED"
    /\ agent[q] \in {"selecting", "queued", "working"} => LastStage(mem[q]) \in Carrying
    /\ retryOf[q] # NoRun => job[q] = "idle" /\ ~HasClaim(mem[q])
    /\ q \in applying => /\ LastStage(mem[q]) = "APPLYING" /\ HasClaim(mem[q])
                         /\ job[q] = "idle" /\ worker[q] = "idle" /\ agent[q] = "idle"
    /\ phase = "boot" => /\ job[q] = "idle" /\ worker[q] = "idle" /\ agent[q] = "idle"
                         /\ retryOf[q] = NoRun /\ q \notin applying

\* Startup visits Runs that were loaded.
TodoOK == \A q \in todo : Exists(mem[q])

LInv == IInv /\ TodoOK /\ \A q \in RunId : FileOK(q) /\ TurnOK(q)

\* The evidence of q that a reconciliation reads holds this verdict.
Supported(q, verdict) ==
    \/ results[q] = verdict
    \/ mem[q].finished = verdict
    \/ AuditOutcome(q, audits) = verdict

\* What a Run that gains a stage is known to be, when the stage says more than
\* that the work went on.
Justified(q, stage) ==
    /\ stage = "RECONCILED_PENDING" => begun[q] = 0
    /\ stage = "RECONCILED_SUCCEEDED" => Supported(q, "ok")
    /\ stage = "RECONCILED_FAILED" => Supported(q, "failed")
    /\ stage = "SUCCEEDED" => agent[q] = "settling" /\ outcome[q] = "ok"
    /\ stage = "PENDING_APPROVAL" => job[q] \notin {"idle", "created"}
    /\ stage \in {"APPLYING", "REJECTED"} => /\ Status(mem[q]) = "pending_approval"
                                            /\ job[q] = "idle"
    /\ stage = "RETRY_ATTEMPT" => retryOf[q] # NoRun

Judged == {"RECONCILED_PENDING", "RECONCILED_SUCCEEDED", "RECONCILED_FAILED", "SUCCEEDED",
           "PENDING_APPROVAL", "APPLYING", "REJECTED", "RETRY_ATTEMPT", "TASK_CREATED"}

\* run is the record of r with one more stage; only the agent lane fills in the
\* outcome, as it moves on to settle, only the link of a retry names an original,
\* and nobody changes the approval.
Carries(r, run, stage) ==
    /\ run.timeline = Append(mem[r].timeline, stage)
    /\ \/ run.finished = mem[r].finished
       \/ agent[r] = "finishing" /\ agent'[r] = "settling" /\ run.finished = outcome[r]
    /\ run.prior = IF stage = "RETRY_ATTEMPT" THEN retryOf[r] ELSE mem[r].prior
    /\ run.approval = mem[r].approval

\* run is the record of a Run that was created.
Blank(run) == /\ run.timeline = << "TASK_CREATED" >>
              /\ run.finished = "none" /\ run.prior = NoRun

\* A Run is created, or one that has not ended gains one stage.
Opened(q) == ~Exists(mem[q]) /\ Blank(mem'[q])
Extended(q) ==
    /\ Exists(mem[q]) /\ LastStage(mem[q]) \notin TerminalStages
    /\ \E stage \in Stages \ {"TASK_CREATED"} :
          Carries(q, mem'[q], stage) /\ Justified(q, stage)

\* A write carries memory forward, and an ended Run stays as it is.
Forward ==
    /\ disk' = disk \/ disk' = mem'
    /\ \A q \in RunId : mem'[q] = mem[q] \/ Opened(q) \/ Extended(q)

-----------------------------------------------------------------------------
(* Timelines.                                                               *)

LEMMA LastIsStage ==
    ASSUME NEW run \in RunRecord, Exists(run)
    PROVE  LastStage(run) \in Stages /\ HasStage(run, LastStage(run))
<1>1. run.timeline \in Seq(Stages) /\ run.timeline # << >>
  BY DEF RunRecord, Exists
<1>2. Len(run.timeline) \in 1 .. Len(run.timeline)
  BY <1>1
<1>. QED BY <1>1, <1>2 DEF LastStage, HasStage

\* The status of a Run is terminal exactly when its last stage is.
LEMMA TerminalByLast ==
    ASSUME NEW run \in RunRecord
    PROVE  IsTerminal(run) <=> Exists(run) /\ LastStage(run) \in TerminalStages
<1>1. CASE ~Exists(run)
  BY <1>1 DEF IsTerminal, Status, TerminalStatuses
<1>2. CASE Exists(run)
  <2>1. LastStage(run) \in Stages
    BY <1>2, LastIsStage
  <2>. QED BY <1>2, <2>1 DEF IsTerminal, Status, StageStatus, TerminalStatuses, Stages,
           TerminalStages, ClaimStages, ReconcileMarks
<1>. QED BY <1>1, <1>2

LEMMA PendingByLast ==
    ASSUME NEW run \in RunRecord, Status(run) = "pending_approval"
    PROVE  Exists(run) /\ LastStage(run) = "PENDING_APPROVAL" /\ HasStage(run, "PENDING_APPROVAL")
<1>1. Exists(run)
  BY DEF Status
<1>2. LastStage(run) \in Stages /\ HasStage(run, LastStage(run))
  BY <1>1, LastIsStage
<1>3. LastStage(run) = "PENDING_APPROVAL"
  BY <1>1, <1>2 DEF Status, StageStatus, Stages, TerminalStages, ClaimStages, ReconcileMarks
<1>. QED BY <1>1, <1>2, <1>3

LEMMA LastAppended ==
    ASSUME NEW run \in RunRecord, NEW next \in RunRecord, NEW stage \in Stages,
           next.timeline = Append(run.timeline, stage)
    PROVE  LastStage(next) = stage /\ Exists(next)
<1>1. run.timeline \in Seq(Stages)
  BY DEF RunRecord
<1>. QED BY <1>1 DEF LastStage, Exists

LEMMA ClaimedExists ==
    ASSUME NEW run, NEW s, HasStage(run, s)
    PROVE  Exists(run)
BY DEF HasStage, Exists

\* An ordinary stage adds itself to a record and nothing else.
LEMMA AppendedCarries ==
    ASSUME NEW r \in RunId, mem[r] \in RunRecord, NEW stage \in Stages, stage # "RETRY_ATTEMPT"
    PROVE  /\ Appended(mem[r], stage) \in RunRecord
           /\ Carries(r, Appended(mem[r], stage), stage)
<1>1. Appended(mem[r], stage) \in RunRecord
  BY AppendedType
<1>2. /\ Appended(mem[r], stage).timeline = Append(mem[r].timeline, stage)
      /\ Appended(mem[r], stage).finished = mem[r].finished
      /\ Appended(mem[r], stage).prior = mem[r].prior
      /\ Appended(mem[r], stage).approval = mem[r].approval
  BY DEF Appended, RunRecord
<1>. QED BY <1>1, <1>2 DEF Carries

-----------------------------------------------------------------------------
(* The ways in which a step writes the store.                               *)

\* One Run, not ended, gains one stage, in memory and perhaps in the file.
Grown(r, stage) ==
    /\ mem' = [mem EXCEPT ![r] = mem'[r]]
    /\ mem[r] \in RunRecord /\ mem'[r] \in RunRecord
    /\ Carries(r, mem'[r], stage)
    /\ Exists(mem[r]) /\ LastStage(mem[r]) \notin TerminalStages
    /\ disk' = disk \/ disk' = mem'

\* A Run is created.
Created(r) ==
    /\ mem' = [mem EXCEPT ![r] = mem'[r]]
    /\ ~Exists(mem[r])
    /\ mem'[r] \in RunRecord /\ Blank(mem'[r])
    /\ disk' = disk \/ disk' = mem'

LEMMA RecordGrows ==
    ASSUME IInv, NEW r \in RunId, NEW run \in RunRecord, NEW ok \in BOOLEAN,
           NEW stage, Carries(r, run, stage),
           NEW fact, AppendAllowed(mem[r], stage, fact), Record(r, run, ok)
    PROVE  Grown(r, stage)
<1>1. mem \in [RunId -> RunRecord]
  BY DEF IInv, TypeOK
<1>2. mem' = [mem EXCEPT ![r] = run] /\ (disk' = disk \/ disk' = mem')
  BY DEF Record, Flush
<1>3. mem'[r] = run /\ mem' = [mem EXCEPT ![r] = mem'[r]]
  BY <1>1, <1>2
<1>4. Carries(r, mem'[r], stage)
  BY <1>3
<1>. QED BY <1>1, <1>2, <1>3, <1>4 DEF Grown, AppendAllowed

\* The record that startRun and retry write.
LEMMA RecordOpens ==
    ASSUME IInv, NEW r \in RunId, ~Exists(mem[r]), NEW approval, NEW frontend, NEW ok \in BOOLEAN,
           NewRecord(approval, frontend) \in RunRecord,
           Record(r, NewRecord(approval, frontend), ok)
    PROVE  Created(r)
<1>1. mem \in [RunId -> RunRecord]
  BY DEF IInv, TypeOK
<1>2. Blank(NewRecord(approval, frontend))
  BY DEF Blank, NewRecord
<1> DEFINE run == NewRecord(approval, frontend)
<1>3. mem' = [mem EXCEPT ![r] = run] /\ (disk' = disk \/ disk' = mem')
  BY DEF Record, Flush
<1> HIDE DEF run
<1>4. mem'[r] = run /\ mem' = [mem EXCEPT ![r] = mem'[r]]
  BY <1>1, <1>3
<1>. QED BY <1>2, <1>3, <1>4 DEF Created, run

LEMMA QuietGrows ==
    ASSUME IInv, NEW r \in RunId, NEW run \in RunRecord, NEW stage,
           Carries(r, run, stage), RecordQuietly(r, run, stage)
    PROVE  Grown(r, stage) \/ UNCHANGED <<mem, disk>>
BY RecordGrows DEF RecordQuietly, timelines

LEMMA MilestoneGrows ==
    ASSUME IInv, NEW r \in RunId, NEW stage \in Stages, NEW next, NEW thrown,
           stage # "RETRY_ATTEMPT", Milestone(r, stage, next, thrown)
    PROVE  \/ Grown(r, stage) /\ job' = [job EXCEPT ![r] = next]
           \/ Grown(r, stage) /\ job' = [job EXCEPT ![r] = thrown]
           \/ UNCHANGED <<mem, disk>> /\ job' = [job EXCEPT ![r] = thrown]
<1>1. mem[r] \in RunRecord
  BY DEF IInv, TypeOK
<1>2. Appended(mem[r], stage) \in RunRecord /\ Carries(r, Appended(mem[r], stage), stage)
  BY <1>1, AppendedCarries
<1>3. CASE AppendAllowed(mem[r], stage, NoApproval)
  <2>1. PICK ok \in BOOLEAN : /\ Record(r, Appended(mem[r], stage), ok)
                              /\ job' = [job EXCEPT ![r] = IF ok THEN next ELSE thrown]
    BY <1>3 DEF Milestone
  <2>2. Grown(r, stage)
    BY <1>2, <1>3, <2>1, RecordGrows
  <2>. QED BY <2>1, <2>2
<1>4. CASE ~AppendAllowed(mem[r], stage, NoApproval)
  BY <1>4 DEF Milestone, timelines
<1>. QED BY <1>3, <1>4

LEMMA ClaimGrows ==
    ASSUME IInv, NEW r \in RunId, NEW claim \in ClaimStages, NEW fact, NEW ok \in BOOLEAN,
           Claim(r, claim, fact, ok)
    PROVE  Grown(r, claim) /\ ~HasClaim(mem[r])
<1>1. mem[r] \in RunRecord /\ claim \in Stages /\ claim # "RETRY_ATTEMPT"
  BY DEF IInv, TypeOK, Stages, ClaimStages
<1>2. Appended(mem[r], claim) \in RunRecord /\ Carries(r, Appended(mem[r], claim), claim)
  BY <1>1, AppendedCarries
<1>3. ~HasClaim(mem[r])
  BY DEF Claim, ClaimStatus
<1>. QED BY <1>2, <1>3, RecordGrows DEF Claim

\* What is true of memory and file after a Run gained a stage.
LEMMA GrownKeeps ==
    ASSUME LInv, NEW r \in RunId, NEW stage \in Stages, Grown(r, stage),
           stage # "TASK_CREATED", Justified(r, stage)
    PROVE  /\ Forward /\ \A q \in RunId : FileOK(q)'
           /\ LastStage(mem'[r]) = stage
           /\ \A q \in RunId : q # r => mem'[q] = mem[q]
           /\ HasClaim(mem[r]) => HasClaim(mem'[r])
           /\ stage \notin ClaimStages /\ ~HasClaim(mem[r]) => ~HasClaim(mem'[r])
<1>0. mem \in [RunId -> RunRecord] /\ disk \in [RunId -> RunRecord]
  BY DEF LInv, IInv, TypeOK
<1>1. /\ mem[r] \in RunRecord /\ mem'[r] \in RunRecord
      /\ mem'[r].timeline = Append(mem[r].timeline, stage)
  BY DEF Grown, Carries
<1>2. \A q \in RunId : q # r => mem'[q] = mem[q]
  BY <1>0 DEF Grown
<1>3. \A s : HasStage(mem'[r], s) <=> HasStage(mem[r], s) \/ s = stage
  BY <1>1, AppendedStages
<1>4. LastStage(mem'[r]) = stage
  BY <1>1, LastAppended
<1>5. ~IsTerminal(mem[r])
  BY <1>1, TerminalByLast DEF Grown
<1>6. Forward
  <2>1. Extended(r)
    BY DEF Extended, Grown
  <2>. QED BY <1>2, <2>1 DEF Forward, Grown
<1>7. /\ HasClaim(mem[r]) => HasClaim(mem'[r])
      /\ stage \notin ClaimStages /\ ~HasClaim(mem[r]) => ~HasClaim(mem'[r])
  BY <1>3 DEF HasClaim
<1>8. ASSUME NEW q \in RunId PROVE FileOK(q)'
  <2>1. FileOK(q)
    BY DEF LInv
  <2>2. disk'[q] = disk[q] \/ disk'[q] = mem'[q]
    BY DEF Grown
  <2>3. \A s \in Stages : HasStage(mem[q], s) => HasStage(mem'[q], s)
    BY <1>2, <1>3
  <2>4. IsTerminal(disk[q]) => mem'[q] = disk[q]
    BY <1>2, <1>5, <2>1 DEF FileOK
  <2>5. HasStage(mem'[q], "PENDING_APPROVAL") => HasClaim(mem'[q])
    BY <1>2, <1>3, <1>7, <2>1, OneHandOff DEF FileOK, Justified, LInv
  <2>. QED BY <2>1, <2>2, <2>3, <2>4, <2>5 DEF FileOK, HasClaim, IsTerminal, Status, Exists,
           LastStage, HasStage
<1>. QED BY <1>2, <1>4, <1>6, <1>7, <1>8

LEMMA CreatedKeeps ==
    ASSUME LInv, NEW r \in RunId, Created(r)
    PROVE  /\ Forward /\ \A q \in RunId : FileOK(q)'
           /\ \A q \in RunId : q # r => mem'[q] = mem[q]
           /\ ~HasClaim(mem[r]) /\ ~HasClaim(mem'[r])
<1>0. mem \in [RunId -> RunRecord] /\ disk \in [RunId -> RunRecord]
  BY DEF LInv, IInv, TypeOK
<1>1. \A q \in RunId : q # r => mem'[q] = mem[q]
  BY <1>0 DEF Created
<1>2. \A s : ~HasStage(mem[r], s)
  BY DEF Created, Exists, HasStage
<1>3. \A s : HasStage(mem'[r], s) => s = "TASK_CREATED"
  BY DEF Created, Blank, HasStage
<1>4. ~HasClaim(mem[r]) /\ ~HasClaim(mem'[r])
  BY <1>2, <1>3 DEF HasClaim, ClaimStages
<1>5. ~IsTerminal(mem[r])
  BY <1>0, TerminalByLast DEF Created
<1>6. Forward
  BY <1>1 DEF Forward, Opened, Created
<1>7. ~IsTerminal(disk[r])
  <2>1. ASSUME Exists(disk[r]) PROVE FALSE
    <3>1. LastStage(disk[r]) \in Stages /\ HasStage(disk[r], LastStage(disk[r]))
      BY <1>0, <2>1, LastIsStage
    <3>. QED BY <1>2, <3>1 DEF LInv, FileOK
  <2>. QED BY <1>0, <2>1, TerminalByLast
<1>8. ASSUME NEW q \in RunId PROVE FileOK(q)'
  <2>1. FileOK(q)
    BY DEF LInv
  <2>2. disk'[q] = disk[q] \/ disk'[q] = mem'[q]
    BY DEF Created
  <2>3. \A s \in Stages : HasStage(mem[q], s) => HasStage(mem'[q], s)
    BY <1>1, <1>2
  <2>4. IsTerminal(disk[q]) => mem'[q] = disk[q]
    BY <1>1, <1>7, <2>1 DEF FileOK
  <2>5. HasStage(mem'[q], "PENDING_APPROVAL") => HasClaim(mem'[q])
    BY <1>1, <1>3, <2>1 DEF FileOK
  <2>. QED BY <2>1, <2>2, <2>3, <2>4, <2>5 DEF FileOK, HasClaim, IsTerminal, Status, Exists,
           LastStage, HasStage
<1>. QED BY <1>1, <1>4, <1>6, <1>8

LEMMA UnchangedKeeps ==
    ASSUME LInv, UNCHANGED <<mem, disk>>
    PROVE  Forward /\ \A q \in RunId : FileOK(q)' /\ mem'[q] = mem[q]
<1>1. ASSUME NEW q \in RunId PROVE FileOK(q)'
  BY DEF LInv, FileOK, HasClaim, IsTerminal, Status, Exists, LastStage, HasStage
<1>. QED BY <1>1 DEF Forward

-----------------------------------------------------------------------------
(* Turns.                                                                   *)

\* A step concerns one Run: the turns of the others are as they were.
LEMMA TurnsKept ==
    ASSUME LInv, NEW r \in RunId, TurnOK(r)', phase' = phase,
           \A q \in RunId \ {r} :
              /\ mem'[q] = mem[q] /\ job'[q] = job[q] /\ worker'[q] = worker[q]
              /\ agent'[q] = agent[q] /\ retryOf'[q] = retryOf[q]
              /\ q \in applying' <=> q \in applying
    PROVE  \A q \in RunId : TurnOK(q)'
<1>1. ASSUME NEW q \in RunId, q # r PROVE TurnOK(q)'
  <2>1. TurnOK(q)
    BY DEF LInv
  <2>2. mem'[q] = mem[q]
    BY <1>1
  <2>. QED BY <1>1, <2>1, <2>2 DEF TurnOK, LastStage, HasClaim, HasStage
<1>. QED BY <1>1

\* Who executes a Run has its claim; its claim is of one lane.
LEMMA Handed ==
    ASSUME LInv, NEW r \in RunId
    PROVE  /\ job[r] \notin {"idle", "created"} => worker[r] = "idle" /\ agent[r] = "idle"
           /\ worker[r] # "idle" => agent[r] = "idle"
           /\ job[r] \notin {"idle", "created"} \/ worker[r] # "idle" \/ agent[r] # "idle"
                 \/ begun[r] > 0 => HasClaim(mem[r])
           /\ job[r] \notin {"idle", "created"} => retryOf[r] = NoRun
           /\ worker[r] # "idle" \/ agent[r] # "idle" => retryOf[r] = NoRun
           /\ TurnOK(r) /\ FileOK(r)
BY OneHandOff DEF LInv, TurnOK

\* An unclaimed Run is in nobody's hands.
LEMMA Unhanded ==
    ASSUME LInv, NEW r \in RunId, ~HasClaim(mem[r])
    PROVE  /\ job[r] \in {"idle", "created"} /\ worker[r] = "idle" /\ agent[r] = "idle"
           /\ r \notin applying
BY Handed DEF TurnOK

\* A Run whose last stage is none that an executor was handed it with, seen by a
\* step that starts when the event loop is free.
LEMMA FreeRun ==
    ASSUME LInv, NEW r \in RunId, Free,
           LastStage(mem[r]) \notin Carrying \cup {"DISPATCH_CLAIMED", "WORKER_CLAIMED"}
    PROVE  /\ job[r] = "idle" /\ worker[r] = "idle" /\ agent[r] = "idle"
           /\ retryOf[r] = NoRun /\ phase = "serving"
<1>1. job[r] \in JobStates /\ agent[r] \in AgentStates /\ worker[r] \in WorkerStates
  BY DEF LInv, IInv, TypeOK
<1>2. TurnOK(r)
  BY DEF LInv
<1>. QED BY <1>1, <1>2 DEF Free, TurnOK, JobStates, AgentStates, WorkerStates, Carrying

-----------------------------------------------------------------------------
(* Steps.                                                                   *)

\* What every step but a death keeps, beside the invariant of RunStoreProofs.
Kept == Forward /\ \A q \in RunId : FileOK(q)' /\ TurnOK(q)'

\* A milestone of the dispatch in turn.
LEMMA MilestoneTurn ==
    ASSUME LInv, NEW r \in RunId, NEW stage \in Stages, NEW next, NEW thrown,
           Milestone(r, stage, next, thrown), job[r] \notin {"idle", "created"},
           stage \notin Judged \ {"PENDING_APPROVAL"},
           next \notin {"queued", "working"} \/ (next = "working" /\ stage = "AGENT_RUNNING"),
           thrown \notin {"queued", "working"},
           UNCHANGED <<phase, retryOf, applying, worker, agent>>
    PROVE  Kept
<1>1. HasClaim(mem[r]) /\ worker[r] = "idle" /\ agent[r] = "idle" /\ retryOf[r] = NoRun
      /\ TurnOK(r)
  BY Handed
<1>2. job \in [RunId -> JobStates]
  BY DEF LInv, IInv, TypeOK
<1>j. stage \notin {"RETRY_ATTEMPT", "TASK_CREATED"} /\ Justified(r, stage)
  BY DEF Judged, Justified
<1>3. \/ Grown(r, stage) /\ job' = [job EXCEPT ![r] = next]
      \/ Grown(r, stage) /\ job' = [job EXCEPT ![r] = thrown]
      \/ UNCHANGED <<mem, disk>> /\ job' = [job EXCEPT ![r] = thrown]
  BY <1>j, MilestoneGrows DEF LInv
<1>4. Forward /\ \A q \in RunId : FileOK(q)' /\ (q # r => mem'[q] = mem[q])
  BY <1>j, <1>3, GrownKeeps, UnchangedKeeps
<1>5. TurnOK(r)'
  <2>1. job'[r] = "working" => LastStage(mem'[r]) = "AGENT_RUNNING"
    BY <1>j, <1>2, <1>3, GrownKeeps
  <2>. QED BY <1>1, <1>2, <1>3, <2>1 DEF TurnOK
<1>. QED BY <1>2, <1>3, <1>4, <1>5, TurnsKept DEF Kept

\* The dispatch moves on without a write.
LEMMA MovesOn ==
    ASSUME LInv, NEW r \in RunId, job[r] \notin {"idle", "created"},
           NEW next, next \notin {"queued", "working"}, job' = [job EXCEPT ![r] = next],
           UNCHANGED <<mem, disk, phase, retryOf, applying, worker, agent>>
    PROVE  Kept
<1>1. worker[r] = "idle" /\ agent[r] = "idle" /\ retryOf[r] = NoRun /\ TurnOK(r)
  BY Handed
<1>2. job \in [RunId -> JobStates]
  BY DEF LInv, IInv, TypeOK
<1>3. TurnOK(r)'
  BY <1>1, <1>2 DEF TurnOK
<1>. QED BY <1>2, <1>3, UnchangedKeeps, TurnsKept DEF Kept

LEMMA DispatchStepKept ==
    ASSUME LInv, NEW r \in RunId, DispatchStep(r)
    PROVE  Kept
<1> USE DEF Stages, Judged, TerminalStages, others, startup, timelines
<1>1. CASE DispatchBegins(r)
  BY <1>1, MovesOn DEF DispatchBegins
<1>2. CASE EvaluatePolicy(r)
  BY <1>2, MovesOn, MilestoneTurn DEF EvaluatePolicy
<1>3. CASE Deny(r)
  BY <1>3, MilestoneTurn DEF Deny
<1>4. CASE Hold(r)
  BY <1>4, MilestoneTurn DEF Hold
<1>5. CASE SelectAgent(r)
  BY <1>5, MilestoneTurn DEF SelectAgent
<1>6. CASE Attempt(r)
  <2>1. CASE UNCHANGED <<job, timelines>>
    <3>1. job' = [job EXCEPT ![r] = "attempt"]
      BY <1>6, <2>1 DEF Attempt, LInv, IInv, TypeOK
    <3>. QED BY <1>6, <2>1, <3>1, MovesOn DEF Attempt
  <2>2. CASE Milestone(r, "AGENT_RUNNING", "working", "attempt")
    BY <1>6, <2>2, MilestoneTurn DEF Attempt
  <2>. QED BY <1>6, <2>1, <2>2 DEF Attempt
<1>7. CASE AdapterAnswers(r)
  BY <1>7, MovesOn DEF AdapterAnswers
<1>8. CASE RecordSuccess(r)
  BY <1>8, MilestoneTurn DEF RecordSuccess
<1>9. CASE RecordPatch(r)
  BY <1>9, MilestoneTurn DEF RecordPatch
<1>10. CASE RecordMiss(r)
  BY <1>10, MilestoneTurn DEF RecordMiss
<1>11. CASE Exhaust(r)
  BY <1>11, MilestoneTurn DEF Exhaust
<1>12. CASE PromoteToPendingApproval(r)
  BY <1>12, MovesOn, MilestoneTurn DEF PromoteToPendingApproval
<1>13. CASE RecordFailure(r)
  <2>1. CASE UNCHANGED timelines
    BY <1>13, <2>1, MovesOn DEF RecordFailure
  <2>2. CASE RecordQuietly(r, Appended(mem[r], "FAILED"), "FAILED")
    <3>1. mem[r] \in RunRecord /\ job \in [RunId -> JobStates]
      BY DEF LInv, IInv, TypeOK
    <3>2. Grown(r, "FAILED") \/ UNCHANGED <<mem, disk>>
      BY <2>2, <3>1, AppendedCarries, QuietGrows DEF LInv
    <3>3. CASE UNCHANGED <<mem, disk>>
      BY <1>13, <3>3, MovesOn DEF RecordFailure
    <3>4. CASE Grown(r, "FAILED")
      <4>1. worker[r] = "idle" /\ agent[r] = "idle" /\ retryOf[r] = NoRun /\ TurnOK(r)
        BY <1>13, Handed DEF RecordFailure
      <4>2. TurnOK(r)'
        BY <1>13, <3>1, <4>1 DEF RecordFailure, TurnOK
      <4>3. Justified(r, "FAILED")
        BY DEF Justified
      <4>4. Forward /\ \A q \in RunId : FileOK(q)' /\ (q # r => mem'[q] = mem[q])
        BY <3>4, <4>3, GrownKeeps
      <4>. QED BY <1>13, <3>1, <4>2, <4>4, TurnsKept DEF RecordFailure, Kept
    <3>. QED BY <3>2, <3>3, <3>4
  <2>. QED BY <1>13, <2>1, <2>2 DEF RecordFailure
<1>. QED BY <1>1, <1>2, <1>3, <1>4, <1>5, <1>6, <1>7, <1>8, <1>9, <1>10, <1>11, <1>12, <1>13
     DEF DispatchStep

LEMMA WorkerStepKept ==
    ASSUME LInv, NEW r \in RunId, WorkerStep(r)
    PROVE  Kept
<1>1. UNCHANGED <<mem, disk, phase, job, retryOf, applying, agent>>
  BY DEF WorkerStep, WorkerBegins, WorkerAnswers, timelines, startup, develop
<1>2. worker \in [RunId -> WorkerStates]
  BY DEF LInv, IInv, TypeOK
<1>3. worker[r] # "idle" /\ \A q \in RunId : q # r => worker'[q] = worker[q]
  BY <1>2 DEF WorkerStep, WorkerBegins, WorkerAnswers
<1>4. TurnOK(r)'
  BY <1>1, <1>3, Handed DEF TurnOK
<1>. QED BY <1>1, <1>3, <1>4, UnchangedKeeps, TurnsKept DEF Kept

\* A step of the agent that has a Run: a stage or none, and its next place.
LEMMA AgentTurn ==
    ASSUME LInv, NEW r \in RunId, agent[r] # "idle", NEW stage \in Stages,
           stage # "TASK_CREATED", Justified(r, stage),
           Grown(r, stage) \/ UNCHANGED <<mem, disk>>,
           NEW next, agent' = [agent EXCEPT ![r] = next],
           next \in {"selecting", "queued", "working"}
              => stage \in Carrying /\ agent[r] \in {"selecting", "queued", "working"},
           UNCHANGED <<phase, job, retryOf, applying, worker>>
    PROVE  Kept
<1>1. /\ job[r] \in {"idle", "created"} /\ worker[r] = "idle" /\ retryOf[r] = NoRun
      /\ TurnOK(r)
  BY Handed
<1>2. agent \in [RunId -> AgentStates]
  BY DEF LInv, IInv, TypeOK
<1>3. Forward /\ \A q \in RunId : FileOK(q)' /\ (q # r => mem'[q] = mem[q])
  BY GrownKeeps, UnchangedKeeps
<1>4. LastStage(mem'[r]) \in {stage, LastStage(mem[r])}
  BY GrownKeeps
<1>5. TurnOK(r)'
  BY <1>1, <1>2, <1>4 DEF TurnOK
<1>. QED BY <1>2, <1>3, <1>5, TurnsKept DEF Kept

LEMMA AgentStepKept ==
    ASSUME LInv, NEW r \in RunId, AgentStep(r)
    PROVE  Kept
<1> USE DEF Stages, Judged, TerminalStages, startup, timelines, develop, Carrying
<1>t. mem[r] \in RunRecord /\ outcome[r] \in Outcomes /\ IInv
  BY DEF LInv, IInv, TypeOK
<1>a. \A stage \in Stages \ {"RETRY_ATTEMPT"} :
         Appended(mem[r], stage) \in RunRecord /\ Carries(r, Appended(mem[r], stage), stage)
  BY <1>t, AppendedCarries
<1>j. \A stage \in Stages \ Judged : stage # "TASK_CREATED" /\ Justified(r, stage)
  BY DEF Judged, Justified
<1>1. CASE AgentSelected(r)
  <2>1. Grown(r, "AGENT_SELECTED") \/ UNCHANGED <<mem, disk>>
    BY <1>1, <1>t, <1>a, QuietGrows DEF AgentSelected
  <2>. QED BY <1>1, <2>1, <1>j, AgentTurn DEF AgentSelected
<1>2. CASE AgentBegins(r)
  <2>1. Grown(r, "AGENT_RUNNING") \/ UNCHANGED <<mem, disk>>
    BY <1>2, <1>t, <1>a, QuietGrows DEF AgentBegins
  <2>2. PICK next \in {"auditing", "working"} : agent' = [agent EXCEPT ![r] = next]
    BY <1>2 DEF AgentBegins
  <2>. QED BY <1>2, <2>1, <2>2, <1>j, AgentTurn DEF AgentBegins
<1>3. CASE AgentAnswers(r)
  <2>1. "AGENT_FINISHED" \in Stages \ Judged
    OBVIOUS
  <2>. QED BY <1>3, <1>j, <2>1, AgentTurn DEF AgentAnswers
<1>4. CASE AgentAudits(r)
  <2>1. "AGENT_FINISHED" \in Stages \ Judged
    OBVIOUS
  <2>2. /\ agent[r] # "idle" /\ agent' = [agent EXCEPT ![r] = "finishing"]
        /\ UNCHANGED <<mem, disk, phase, job, retryOf, applying, worker>>
    BY <1>4 DEF AgentAudits
  <2>. QED BY <1>j, <2>1, <2>2, AgentTurn
<1>5. CASE AgentFinishes(r)
  <2> DEFINE run == [Appended(mem[r], "AGENT_FINISHED") EXCEPT !.finished = outcome[r]]
  <2>1. run \in RunRecord /\ Carries(r, run, "AGENT_FINISHED")
    <3>1. Appended(mem[r], "AGENT_FINISHED") \in RunRecord
      BY <1>a
    <3>2. /\ run \in RunRecord /\ run.finished = outcome[r]
          /\ run.timeline = Appended(mem[r], "AGENT_FINISHED").timeline
          /\ run.prior = Appended(mem[r], "AGENT_FINISHED").prior
          /\ run.approval = Appended(mem[r], "AGENT_FINISHED").approval
      BY <1>t, <3>1 DEF RunRecord
    <3> HIDE DEF run
    <3>3. agent[r] = "finishing" /\ agent'[r] = "settling"
      BY <1>5 DEF AgentFinishes, LInv, IInv, TypeOK
    <3>. QED BY <1>a, <3>2, <3>3 DEF Carries
  <2>2. Grown(r, "AGENT_FINISHED") \/ UNCHANGED <<mem, disk>>
    BY <1>5, <1>t, <2>1, QuietGrows DEF AgentFinishes
  <2>3. /\ agent[r] # "idle" /\ agent' = [agent EXCEPT ![r] = "settling"]
        /\ UNCHANGED <<phase, job, retryOf, applying, worker>>
    BY <1>5 DEF AgentFinishes
  <2>4. "AGENT_FINISHED" \in Stages \ Judged
    OBVIOUS
  <2> HIDE DEF run
  <2>. QED BY <1>j, <2>2, <2>3, <2>4, AgentTurn
<1>6. CASE AgentSettles(r)
  <2> DEFINE terminal == IF outcome[r] = "ok" THEN "SUCCEEDED" ELSE "FAILED"
  <2>1. Grown(r, terminal) \/ UNCHANGED <<mem, disk>>
    BY <1>6, <1>t, <1>a, QuietGrows DEF AgentSettles
  <2>2. terminal \in Stages /\ terminal # "TASK_CREATED" /\ Justified(r, terminal)
    BY <1>6 DEF AgentSettles, Justified
  <2>3. /\ agent[r] # "idle" /\ agent' = [agent EXCEPT ![r] = "idle"]
        /\ UNCHANGED <<phase, job, retryOf, applying, worker>>
    BY <1>6 DEF AgentSettles
  <2> HIDE DEF terminal
  <2>. QED BY <2>1, <2>2, <2>3, AgentTurn
<1>. QED BY <1>1, <1>2, <1>3, <1>4, <1>5, <1>6 DEF AgentStep

-----------------------------------------------------------------------------
(* Requests, startup and death.                                             *)

\* A claim that was granted, or one that memory alone remembers.
LEMMA ClaimKept ==
    ASSUME LInv, NEW r \in RunId, NEW claim \in ClaimStages, NEW fact, NEW ok \in BOOLEAN,
           Claim(r, claim, fact, ok), retryOf[r] = NoRun,
           UNCHANGED <<phase, retryOf, applying>>, phase = "serving",
           \A q \in RunId \ {r} : /\ job'[q] = job[q] /\ worker'[q] = worker[q]
                                  /\ agent'[q] = agent[q],
           job'[r] \in {"idle", "created"} \/ (job'[r] = "queued" /\ claim = "DISPATCH_CLAIMED"),
           worker'[r] = "idle" \/ claim = "WORKER_CLAIMED",
           agent'[r] = "idle" \/ claim = "AGENT_CLAIMED"
    PROVE  Kept
<1>1. Grown(r, claim) /\ ~HasClaim(mem[r]) /\ claim \in Stages
  BY ClaimGrows DEF LInv, Stages
<1>2. r \notin applying
  BY <1>1, Unhanded
<1>j. claim # "TASK_CREATED" /\ Justified(r, claim)
  BY DEF ClaimStages, Justified
<1>3. /\ Forward /\ \A q \in RunId : FileOK(q)' /\ (q # r => mem'[q] = mem[q])
      /\ LastStage(mem'[r]) = claim
  BY <1>1, <1>j, GrownKeeps
<1>4. TurnOK(r)'
  BY <1>2, <1>3 DEF TurnOK, Carrying
<1>. QED BY <1>3, <1>4, TurnsKept DEF Kept

\* A stage appended to a Run that is in nobody's hands afterwards.
LEMMA LaidDown ==
    ASSUME LInv, NEW r \in RunId, NEW stage \in Stages, stage # "TASK_CREATED", Justified(r, stage),
           Grown(r, stage) \/ UNCHANGED <<mem, disk>>,
           job'[r] = "idle", worker'[r] = "idle", agent'[r] = "idle", retryOf'[r] = NoRun,
           r \in applying' => /\ LastStage(mem'[r]) = "APPLYING" /\ HasClaim(mem'[r])
                              /\ phase = "serving",
           phase' = phase,
           \A q \in RunId \ {r} :
              /\ job'[q] = job[q] /\ worker'[q] = worker[q] /\ agent'[q] = agent[q]
              /\ retryOf'[q] = retryOf[q] /\ (q \in applying' <=> q \in applying)
    PROVE  Kept
<1>1. Forward /\ \A q \in RunId : FileOK(q)' /\ (q # r => mem'[q] = mem[q])
  BY GrownKeeps, UnchangedKeeps
<1>2. TurnOK(r)'
  BY DEF TurnOK, HasClaim, HasStage, LastStage
<1>. QED BY <1>1, <1>2, TurnsKept DEF Kept

LEMMA RequestKept ==
    ASSUME LInv, NEW r \in RunId, Request(r)
    PROVE  Kept
<1> USE DEF Stages, Judged, TerminalStages, startup, timelines, develop, evidence, history
<1>t. /\ mem \in [RunId -> RunRecord] /\ job \in [RunId -> JobStates] /\ IInv
      /\ worker \in [RunId -> WorkerStates] /\ agent \in [RunId -> AgentStates]
      /\ retryOf \in [RunId -> RunId \cup {NoRun}] /\ applying \subseteq RunId
  BY DEF LInv, IInv, TypeOK
<1>a. \A stage \in Stages \ {"RETRY_ATTEMPT"} :
         Appended(mem[r], stage) \in RunRecord /\ Carries(r, Appended(mem[r], stage), stage)
  BY <1>t, AppendedCarries
<1>j. \A stage \in Stages \ Judged : stage # "TASK_CREATED" /\ Justified(r, stage)
  BY DEF Judged, Justified
<1>1. ASSUME NEW approval \in Approval \cup {NoApproval}, NEW frontend \in BOOLEAN,
             StartRun(r, approval, frontend)
      PROVE  Kept
  <2>1. Created(r)
    BY <1>1, <1>t, RecordOpens, NewRecordType DEF StartRun
  <2>2. PICK next \in {"created", "idle"} : job' = [job EXCEPT ![r] = next]
    BY <1>1 DEF StartRun
  <2>3. retryOf[r] = NoRun /\ phase = "serving"
    BY <1>1 DEF StartRun, Free
  <2>4. worker[r] = "idle" /\ agent[r] = "idle" /\ r \notin applying
    BY <2>1, CreatedKeeps, Unhanded
  <2>5. TurnOK(r)'
    BY <1>1, <1>t, <2>2, <2>3, <2>4 DEF StartRun, TurnOK
  <2>. QED BY <1>1, <1>t, <2>1, <2>2, <2>5, CreatedKeeps, TurnsKept DEF StartRun, Kept
<1>2. ASSUME ClaimDispatch(r), retryOf[r] = NoRun, phase = "serving",
             UNCHANGED <<phase, retryOf, applying, worker, agent>>
      PROVE  Kept
  <2>1. PICK ok \in BOOLEAN : /\ Claim(r, "DISPATCH_CLAIMED", NoApproval, ok)
                              /\ job' = [job EXCEPT ![r] = IF ok THEN "queued" ELSE "idle"]
    BY <1>2 DEF ClaimDispatch
  <2>2. ~HasClaim(mem[r]) /\ "DISPATCH_CLAIMED" \in ClaimStages
    BY <2>1 DEF Claim, ClaimStatus, ClaimStages
  <2>3. worker[r] = "idle" /\ agent[r] = "idle"
    BY <2>2, Unhanded
  <2>. QED BY <1>2, <1>t, <2>1, <2>2, <2>3, ClaimKept
<1>3. ASSUME NEW authorized \in BOOLEAN, ScheduleDispatch(r, authorized) PROVE Kept
  <2>1. retryOf[r] = NoRun /\ phase \in {"boot", "serving"} /\ phase # "boot" /\ TurnOK(r)
    BY <1>3 DEF ScheduleDispatch, LInv, TurnOK, IInv, TypeOK
  <2>2. CASE authorized
    BY <1>2, <1>3, <2>1, <2>2 DEF ScheduleDispatch
  <2>3. CASE ~authorized
    <3>1. job' = [job EXCEPT ![r] = "idle"]
          /\ UNCHANGED <<mem, disk, phase, retryOf, applying, worker, agent>>
      BY <1>3, <2>3 DEF ScheduleDispatch
    <3>2. TurnOK(r)'
      BY <1>t, <2>1, <3>1 DEF TurnOK
    <3>. QED BY <1>t, <3>1, <3>2, UnchangedKeeps, TurnsKept DEF Kept
  <2>. QED BY <2>2, <2>3
<1>4. CASE DispatchRun(r)
  BY <1>2, <1>4 DEF DispatchRun, Free
<1>5. CASE ClaimWorker(r)
  <2>1. PICK ok \in BOOLEAN : /\ Claim(r, "WORKER_CLAIMED", NoApproval, ok)
                              /\ worker' = [worker EXCEPT ![r] = IF ok THEN "queued" ELSE "idle"]
    BY <1>5 DEF ClaimWorker
  <2>2. ~HasClaim(mem[r]) /\ "WORKER_CLAIMED" \in ClaimStages
    BY <2>1 DEF Claim, ClaimStatus, ClaimStages
  <2>3. job[r] \in {"idle", "created"} /\ agent[r] = "idle"
    BY <2>2, Unhanded
  <2>4. /\ UNCHANGED <<phase, retryOf, applying, job, agent>>
        /\ retryOf[r] = NoRun /\ phase = "serving"
    BY <1>5 DEF ClaimWorker, Free
  <2>. QED BY <1>t, <2>1, <2>2, <2>3, <2>4, ClaimKept
<1>6. ASSUME NEW approval \in Approval, ClaimAgent(r, approval) PROVE Kept
  <2>1. PICK ok \in BOOLEAN : /\ Claim(r, "AGENT_CLAIMED", approval, ok)
                              /\ agent' = [agent EXCEPT ![r] = IF ok THEN "selecting" ELSE "idle"]
    BY <1>6 DEF ClaimAgent
  <2>2. ~HasClaim(mem[r]) /\ "AGENT_CLAIMED" \in ClaimStages
    BY <2>1 DEF Claim, ClaimStatus, ClaimStages
  <2>3. job[r] \in {"idle", "created"} /\ worker[r] = "idle"
    BY <2>2, Unhanded
  <2>4. /\ UNCHANGED <<phase, retryOf, applying, job, worker>>
        /\ retryOf[r] = NoRun /\ phase = "serving"
    BY <1>6 DEF ClaimAgent, Free
  <2>. QED BY <1>t, <2>1, <2>2, <2>3, <2>4, ClaimKept
<1>p. ASSUME Status(mem[r]) = "pending_approval", Free
      PROVE  /\ job[r] = "idle" /\ worker[r] = "idle" /\ agent[r] = "idle"
             /\ retryOf[r] = NoRun /\ phase = "serving" /\ r \notin applying
             /\ HasClaim(mem[r])
  <2>1. LastStage(mem[r]) = "PENDING_APPROVAL" /\ HasStage(mem[r], "PENDING_APPROVAL")
    BY <1>p, <1>t, PendingByLast
  <2>. QED BY <1>p, <2>1, FreeRun DEF Carrying, LInv, TurnOK, FileOK
<1>7. CASE ApproveRun(r)
  <2>1. Grown(r, "APPLYING")
    BY <1>7, <1>t, <1>a, RecordGrows DEF ApproveRun
  <2>2. /\ UNCHANGED <<phase, retryOf, job, worker, agent>>
        /\ applying' = applying \/ applying' = applying \cup {r}
    BY <1>7 DEF ApproveRun
  <2>j. Justified(r, "APPLYING")
    BY <1>7, <1>p DEF ApproveRun, Justified
  <2>3. LastStage(mem'[r]) = "APPLYING" /\ HasClaim(mem'[r])
    BY <1>7, <1>p, <2>1, <2>j, GrownKeeps DEF ApproveRun
  <2>. QED BY <1>7, <1>p, <1>t, <2>1, <2>2, <2>3, <2>j, LaidDown DEF ApproveRun
<1>8. CASE ApplyReturns(r)
  <2>1. \E stage \in {"COMPLETED", "ROLLED_BACK"} : Grown(r, stage) \/ UNCHANGED <<mem, disk>>
    BY <1>8, <1>t, <1>a, QuietGrows DEF ApplyReturns
  <2>2. /\ job[r] = "idle" /\ worker[r] = "idle" /\ agent[r] = "idle" /\ retryOf[r] = NoRun
        /\ UNCHANGED <<phase, retryOf, job, worker, agent>> /\ applying' = applying \ {r}
    BY <1>8 DEF ApplyReturns, LInv, TurnOK
  <2>. QED BY <1>t, <1>j, <2>1, <2>2, LaidDown
<1>9. CASE RejectRun(r)
  <2>1. Grown(r, "REJECTED")
    BY <1>9, <1>t, <1>a, RecordGrows DEF RejectRun
  <2>j. Justified(r, "REJECTED")
    BY <1>9, <1>p DEF RejectRun, Justified
  <2>. QED BY <1>9, <1>p, <1>t, <2>1, <2>j, LaidDown DEF RejectRun
<1>10. ASSUME NEW attempt \in RunId, Retry(r, attempt) PROVE Kept
  <2>1. Created(attempt)
    <3>1. mem[r].frontend \in BOOLEAN
      BY <1>t DEF RunRecord
    <3>2. NewRecord(NoApproval, mem[r].frontend) \in RunRecord
      BY <3>1, NewRecordType
    <3>. QED BY <1>10, <1>t, <3>2, RecordOpens DEF Retry
  <2>2. /\ \A q \in RunId : q # attempt => retryOf'[q] = retryOf[q]
        /\ UNCHANGED <<phase, applying, job, worker, agent>> /\ phase = "serving"
    BY <1>10, <1>t DEF Retry, Free
  <2>3. /\ job[attempt] = "idle" /\ worker[attempt] = "idle" /\ agent[attempt] = "idle"
        /\ attempt \notin applying
    BY <1>10, <2>1, CreatedKeeps, Unhanded DEF Retry, Free, JobInTurn
  <2>4. TurnOK(attempt)'
    BY <2>1, <2>2, <2>3, CreatedKeeps DEF TurnOK
  <2>. QED BY <2>1, <2>2, <2>4, CreatedKeeps, TurnsKept DEF Kept
<1>11. CASE LinkAttempt(r)
  <2> DEFINE run == [Appended(mem[r], "RETRY_ATTEMPT") EXCEPT !.prior = retryOf[r]]
  <2>0. run \in RunRecord /\ Carries(r, run, "RETRY_ATTEMPT")
    <3>1. Appended(mem[r], "RETRY_ATTEMPT") \in RunRecord
          /\ Appended(mem[r], "RETRY_ATTEMPT").timeline = Append(mem[r].timeline, "RETRY_ATTEMPT")
          /\ Appended(mem[r], "RETRY_ATTEMPT").finished = mem[r].finished
          /\ Appended(mem[r], "RETRY_ATTEMPT").approval = mem[r].approval
      BY <1>t, AppendedType DEF Appended, RunRecord
    <3>2. /\ run \in RunRecord /\ run.prior = retryOf[r]
          /\ run.timeline = Append(mem[r].timeline, "RETRY_ATTEMPT")
          /\ run.finished = mem[r].finished /\ run.approval = mem[r].approval
      BY <1>t, <3>1 DEF RunRecord
    <3> HIDE DEF run
    <3>. QED BY <3>2 DEF Carries
  <2>1. Grown(r, "RETRY_ATTEMPT") \/ UNCHANGED <<mem, disk>>
    BY <1>11, <1>t, <2>0, QuietGrows DEF LinkAttempt
  <2>2. ~HasClaim(mem[r]) /\ job[r] = "idle"
    BY <1>11 DEF LinkAttempt, LInv, TurnOK
  <2>3. worker[r] = "idle" /\ agent[r] = "idle" /\ r \notin applying
    BY <2>2, Unhanded
  <2>4. /\ retryOf' = [retryOf EXCEPT ![r] = NoRun]
        /\ UNCHANGED <<phase, applying, job, worker, agent>>
    BY <1>11 DEF LinkAttempt
  <2>j. Justified(r, "RETRY_ATTEMPT")
    BY <1>11 DEF LinkAttempt, Justified
  <2> HIDE DEF run
  <2>. QED BY <1>t, <2>1, <2>2, <2>3, <2>4, <2>j, LaidDown
<1>. QED BY <1>1, <1>3, <1>4, <1>5, <1>6, <1>7, <1>8, <1>9, <1>10, <1>11 DEF Request

\* A mark is none of the stages that ask for a claim.
LEMMA MarkIsMark ==
    ASSUME NEW run, NEW execution, NEW result, NEW audited
    PROVE  RecoveryMark(run, execution, result, audited) \in ReconcileMarks
BY DEF RecoveryMark, MarkOf, ReconcileMarks

\* A claimed Run is not found pending.
LEMMA PendingIsUnclaimed ==
    ASSUME NEW run, NEW execution, NEW result, NEW audited,
           RecoveryMark(run, execution, result, audited) = "RECONCILED_PENDING"
    PROVE  ~HasClaim(run)
<1> DEFINE agentEvidence == run.finished # "none" \/ audited # "none"
           contradiction == \/ agentEvidence /\ (execution \/ result # "none")
                            \/ run.finished # "none" /\ audited # "none"
                                 /\ run.finished # audited
<1>1. ~contradiction
  BY DEF RecoveryMark
<1>2. result = "none"
  BY <1>1 DEF RecoveryMark, MarkOf
<1>3. run.finished = "none"
  BY <1>1, <1>2 DEF RecoveryMark, MarkOf
<1>4. audited = "none"
  BY <1>1, <1>2, <1>3 DEF RecoveryMark, MarkOf
<1>. QED BY <1>2, <1>3, <1>4 DEF RecoveryMark

\* A mark that names an outcome has it from one of the three.
LEMMA MarkSupported ==
    ASSUME NEW run, NEW execution, NEW result \in Outcomes, NEW audited \in Outcomes,
           run.finished \in Outcomes, NEW mark, mark = RecoveryMark(run, execution, result, audited)
    PROVE  /\ mark = "RECONCILED_SUCCEEDED" => "ok" \in {result, run.finished, audited}
           /\ mark = "RECONCILED_FAILED" => "failed" \in {result, run.finished, audited}
<1> DEFINE agentEvidence == run.finished # "none" \/ audited # "none"
           contradiction == \/ agentEvidence /\ (execution \/ result # "none")
                            \/ run.finished # "none" /\ audited # "none"
                                 /\ run.finished # audited
<1>1. CASE contradiction
  BY <1>1 DEF RecoveryMark
<1>2. CASE ~contradiction /\ result # "none"
  <2>1. mark = MarkOf(result)
    BY <1>2 DEF RecoveryMark
  <2>. QED BY <1>2, <2>1 DEF MarkOf, Outcomes
<1>3. CASE ~contradiction /\ run.finished # "none"
  <2>1. mark = MarkOf(run.finished)
    BY <1>3 DEF RecoveryMark
  <2>. QED BY <1>3, <2>1 DEF MarkOf, Outcomes
<1>4. CASE ~contradiction /\ audited # "none"
  <2>1. mark = MarkOf(audited)
    BY <1>4 DEF RecoveryMark
  <2>. QED BY <1>4, <2>1 DEF MarkOf, Outcomes
<1>5. CASE ~contradiction /\ result = "none" /\ run.finished = "none" /\ audited = "none"
  BY <1>5 DEF RecoveryMark
<1>. QED BY <1>1, <1>2, <1>3, <1>4, <1>5

LEMMA ReconcileKept ==
    ASSUME LInv, NEW r \in RunId, Reconcile(r)
    PROVE  Kept
<1>1. mem[r] \in RunRecord /\ IInv
  BY DEF LInv, IInv, TypeOK
<1>2. \E stage \in ReconcileMarks : /\ Grown(r, stage) \/ UNCHANGED <<mem, disk>>
                                    /\ Justified(r, stage)
  <2> DEFINE mark == RecoveryMark(mem[r], r \in tasks, results[r], AuditOutcome(r, audits))
  <2>1. mark \in ReconcileMarks
    BY MarkIsMark
  <2>2. Justified(r, mark)
    <3>1. ASSUME mark = "RECONCILED_PENDING" PROVE begun[r] = 0
      <4>1. ~HasClaim(mem[r])
        BY <3>1, PendingIsUnclaimed
      <4>. QED BY <4>1, Handed DEF LInv, IInv, TypeOK
    <3>2. /\ mark = "RECONCILED_SUCCEEDED" => Supported(r, "ok")
          /\ mark = "RECONCILED_FAILED" => Supported(r, "failed")
      <4>1. /\ results[r] \in Outcomes /\ mem[r].finished \in Outcomes
            /\ AuditOutcome(r, audits) \in Outcomes
        BY <1>1 DEF IInv, TypeOK, RunRecord, AuditOutcome, Outcomes
      <4>. QED BY <4>1, MarkSupported DEF Supported
    <3> HIDE DEF mark
    <3>. QED BY <2>1, <3>1, <3>2 DEF Justified, ReconcileMarks
  <2> HIDE DEF mark
  <2>3. /\ mark \in Stages \ {"RETRY_ATTEMPT"}
        /\ Appended(mem[r], mark) \in RunRecord /\ Carries(r, Appended(mem[r], mark), mark)
    <3>1. mark \in Stages \ {"RETRY_ATTEMPT"}
      BY <2>1 DEF Stages, ReconcileMarks
    <3>. QED BY <1>1, <3>1, AppendedCarries
  <2>4. Exists(mem[r])
    BY DEF Reconcile, LInv, TodoOK
  <2>5. CASE Recoverable(mem[r])
    <3>1. LastStage(mem[r]) \notin TerminalStages
      BY <1>1, <2>4, <2>5, TerminalByLast DEF Recoverable
    <3>2. PICK ok \in BOOLEAN : Record(r, Appended(mem[r], mark), ok)
      BY <2>5 DEF Reconcile, mark
    <3>3. /\ mem' = [mem EXCEPT ![r] = Appended(mem[r], mark)]
          /\ disk' = disk \/ disk' = mem'
      BY <3>2 DEF Record, Flush
    <3>4. mem'[r] = Appended(mem[r], mark) /\ mem' = [mem EXCEPT ![r] = mem'[r]]
      BY <1>1, <3>3 DEF IInv, TypeOK
    <3>5. Carries(r, mem'[r], mark)
      BY <2>3, <3>4
    <3>6. Grown(r, mark)
      BY <1>1, <2>3, <2>4, <3>1, <3>3, <3>4, <3>5 DEF Grown
    <3>. QED BY <2>1, <2>2, <3>6
  <2>6. CASE ~Recoverable(mem[r])
    BY <2>1, <2>2, <2>6 DEF Reconcile, timelines
  <2>. QED BY <2>5, <2>6
<1>3. PICK stage \in ReconcileMarks : /\ Grown(r, stage) \/ UNCHANGED <<mem, disk>>
                                      /\ Justified(r, stage)
  BY <1>2
<1>4. stage \in Stages /\ stage # "TASK_CREATED"
  BY DEF Stages, ReconcileMarks
<1>5. /\ UNCHANGED <<phase, job, worker, agent, retryOf, applying>>
      /\ job[r] = "idle" /\ worker[r] = "idle" /\ agent[r] = "idle"
      /\ retryOf[r] = NoRun /\ r \notin applying
  BY DEF Reconcile, develop, LInv, TurnOK
<1>6. /\ job'[r] = "idle" /\ worker'[r] = "idle" /\ agent'[r] = "idle"
      /\ retryOf'[r] = NoRun /\ r \notin applying' /\ phase' = phase
      /\ \A q \in RunId \ {r} :
            /\ job'[q] = job[q] /\ worker'[q] = worker[q] /\ agent'[q] = agent[q]
            /\ retryOf'[q] = retryOf[q] /\ (q \in applying' <=> q \in applying)
  BY <1>5
<1>. QED BY <1>3, <1>4, <1>6, LaidDown

LEMMA ListenKept ==
    ASSUME LInv, Listen
    PROVE  Kept
<1>1. UNCHANGED <<mem, disk, job, worker, agent, retryOf, applying>> /\ phase' = "serving"
  BY DEF Listen, timelines, develop
<1>2. ASSUME NEW q \in RunId PROVE TurnOK(q)'
  <2>1. TurnOK(q)
    BY DEF LInv
  <2>. QED BY <1>1, <2>1 DEF TurnOK
<1>. QED BY <1>1, <1>2, UnchangedKeeps DEF Kept

\* What Forward says of the stages of a Run.
LEMMA ForwardGrows ==
    ASSUME LInv, Forward, NEW q \in RunId
    PROVE  \/ mem'[q] = mem[q]
           \/ /\ ~IsTerminal(mem[q])
              /\ \A s : HasStage(mem[q], s) => HasStage(mem'[q], s)
<1>1. mem[q] \in RunRecord
  BY DEF LInv, IInv, TypeOK
<1>2. CASE Opened(q)
  BY <1>1, <1>2, TerminalByLast, ClaimedExists DEF Opened
<1>3. CASE Extended(q)
  <2>1. PICK stage \in Stages : mem'[q].timeline = Append(mem[q].timeline, stage)
    BY <1>3 DEF Extended, Carries
  <2>2. mem[q].timeline \in Seq(Stages)
    BY <1>1 DEF RunRecord
  <2>3. /\ Len(mem'[q].timeline) = Len(mem[q].timeline) + 1
        /\ \A i \in 1 .. Len(mem[q].timeline) : mem'[q].timeline[i] = mem[q].timeline[i]
    BY <2>1, <2>2
  <2>4. \A s : HasStage(mem[q], s) => HasStage(mem'[q], s)
    BY <2>2, <2>3 DEF HasStage
  <2>5. ~IsTerminal(mem[q])
    BY <1>1, <1>3, TerminalByLast DEF Extended
  <2>. QED BY <2>4, <2>5
<1>. QED BY <1>2, <1>3 DEF Forward

\* Only a start creates an entry of todo, and a Run is never forgotten.
LEMMA TodoKept ==
    ASSUME LInv, Forward, todo' \subseteq todo
    PROVE  TodoOK'
<1>. SUFFICES ASSUME NEW q \in todo' PROVE Exists(mem'[q])
  BY DEF TodoOK, Exists
<1>1. q \in RunId /\ mem[q] \in RunRecord /\ Exists(mem[q])
  BY DEF LInv, IInv, TypeOK, TodoOK
<1>2. LastStage(mem[q]) \in Stages /\ HasStage(mem[q], LastStage(mem[q]))
  BY <1>1, LastIsStage
<1>. QED BY <1>1, <1>2, ClaimedExists, ForwardGrows

LEMMA CrashKept ==
    ASSUME LInv, Crash
    PROVE  TodoOK' /\ (\A q \in RunId : FileOK(q)' /\ TurnOK(q)') /\ UNCHANGED <<disk, begun>>
<1>1. mem' = disk /\ disk' = disk /\ phase' = "boot"
  BY DEF Crash
<1>2. \A q \in RunId : FileOK(q)'
  BY <1>1 DEF LInv, FileOK, HasClaim, HasStage, IsTerminal, Status, Exists, LastStage
<1>3. \A q \in RunId : TurnOK(q)'
  BY <1>1 DEF Crash, TurnOK
<1>4. TodoOK'
  BY <1>1 DEF Crash, TodoOK, Exists
<1>. QED BY <1>1, <1>2, <1>3, <1>4 DEF Crash, history

-----------------------------------------------------------------------------
(* The invariant.                                                           *)

\* The steps of a living process.
Lives(r) == DispatchStep(r) \/ WorkerStep(r) \/ AgentStep(r) \/ Request(r) \/ Reconcile(r)

LEMMA LivesKept ==
    ASSUME LInv, NEW r \in RunId, Lives(r)
    PROVE  Kept /\ todo' \subseteq todo
<1>1. Kept
  BY DispatchStepKept, WorkerStepKept, AgentStepKept, RequestKept, ReconcileKept DEF Lives
<1>2. CASE DispatchStep(r)
  BY <1>1, <1>2 DEF DispatchStep, DispatchBegins, EvaluatePolicy, Deny, Hold, SelectAgent, Attempt,
     AdapterAnswers, RecordSuccess, RecordPatch, RecordMiss, Exhaust,
     PromoteToPendingApproval, RecordFailure, others, startup
<1>3. CASE WorkerStep(r) \/ AgentStep(r)
  BY <1>1, <1>3 DEF WorkerStep, WorkerBegins, WorkerAnswers, AgentStep, AgentSelected, AgentBegins,
     AgentAnswers, AgentAudits, AgentFinishes, AgentSettles, startup
<1>4. CASE Request(r)
  BY <1>1, <1>4 DEF Request, StartRun, ScheduleDispatch, DispatchRun, ClaimWorker, ClaimAgent,
     ApproveRun, ApplyReturns, RejectRun, Retry, LinkAttempt, startup
<1>5. CASE Reconcile(r)
  BY <1>1, <1>5 DEF Reconcile
<1>. QED BY <1>1, <1>2, <1>3, <1>4, <1>5 DEF Lives

LEMMA InitLInv == Init => LInv
<1>. SUFFICES ASSUME Init PROVE LInv
  OBVIOUS
<1>1. ASSUME NEW q \in RunId PROVE FileOK(q) /\ TurnOK(q)
  BY DEF Init, NoRecord, FileOK, TurnOK, HasStage, Stages
<1>. QED BY <1>1, InitEstablishes DEF LInv, TodoOK, Init

LEMMA NextLInv == LInv /\ [Next]_vars => LInv'
<1>. SUFFICES ASSUME LInv, [Next]_vars PROVE LInv'
  OBVIOUS
<1>1. IInv'
  BY NextKeeps DEF LInv
<1>2. ASSUME NEW r \in RunId, Lives(r) PROVE LInv'
  BY <1>1, <1>2, LivesKept, TodoKept DEF Kept, LInv
<1>3. CASE Listen
  <2>1. todo' \subseteq todo
    BY <1>3 DEF Listen
  <2>. QED BY <1>1, <1>3, <2>1, ListenKept, TodoKept DEF Kept, LInv
<1>4. CASE Crash
  BY <1>1, <1>4, CrashKept DEF LInv
<1>5. CASE UNCHANGED vars
  <2>1. ASSUME NEW q \in RunId PROVE FileOK(q)' /\ TurnOK(q)'
    BY <1>5 DEF vars, LInv, FileOK, TurnOK, HasClaim, HasStage, IsTerminal, Status, Exists,
       LastStage
  <2>2. TodoOK'
    BY <1>5 DEF vars, LInv, TodoOK, Exists
  <2>. QED BY <1>1, <2>1, <2>2 DEF LInv
<1>. QED BY <1>2, <1>3, <1>4, <1>5 DEF Next, Lives

-----------------------------------------------------------------------------
(* The file as a ledger.                                                    *)

\* The step begins an execution of r, or none.
Begins(r) == /\ begun' = [begun EXCEPT ![r] = @ + 1]
             /\ begun[r] = 0 /\ HasClaim(disk[r]) /\ ~IsTerminal(disk[r])

LEMMA BeginsOpen ==
    ASSUME LInv, NEW r \in RunId, LastStage(mem[r]) \notin TerminalStages, Queued(r),
           begun' = [begun EXCEPT ![r] = @ + 1]
    PROVE  Begins(r)
<1>1. begun[r] = 0 /\ HasClaim(disk[r])
  BY DEF LInv, IInv, HandedOffOnce, ExecutionHasDurableClaim, Queued, HasClaim, ClaimStages
<1>2. mem[r] \in RunRecord
  BY DEF LInv, IInv, TypeOK
<1>3. ~IsTerminal(disk[r])
  BY <1>2, TerminalByLast DEF LInv, FileOK
<1>. QED BY <1>1, <1>3 DEF Begins

LEMMA LivesBegins ==
    ASSUME LInv, NEW r \in RunId, Lives(r)
    PROVE  UNCHANGED begun \/ Begins(r)
<1>t. TurnOK(r) /\ begun \in [RunId -> Nat]
  BY DEF LInv, IInv, TypeOK
<1>1. CASE DispatchBegins(r)
  BY <1>1, <1>t, BeginsOpen DEF DispatchBegins, TurnOK, Queued, TerminalStages, ReconcileMarks
<1>2. CASE WorkerBegins(r)
  BY <1>2, <1>t, BeginsOpen DEF WorkerBegins, TurnOK, Queued, TerminalStages, ReconcileMarks
<1>3. CASE AgentBegins(r)
  BY <1>3, <1>t, BeginsOpen
     DEF AgentBegins, TurnOK, Queued, Carrying, TerminalStages, ReconcileMarks
<1>4. CASE DispatchStep(r) /\ ~DispatchBegins(r)
  BY <1>4 DEF DispatchStep, EvaluatePolicy, Deny, Hold, SelectAgent, Attempt,
     AdapterAnswers, RecordSuccess, RecordPatch, RecordMiss, Exhaust,
     PromoteToPendingApproval, RecordFailure, history
<1>5. CASE \/ WorkerStep(r) /\ ~WorkerBegins(r)
           \/ AgentStep(r) /\ ~AgentBegins(r)
  BY <1>5 DEF WorkerStep, WorkerAnswers, AgentStep, AgentSelected, AgentAnswers, AgentAudits,
     AgentFinishes, AgentSettles, history
<1>6. CASE Request(r)
  BY <1>6 DEF Request, StartRun, ScheduleDispatch, DispatchRun, ClaimWorker, ClaimAgent,
     ApproveRun, ApplyReturns, RejectRun, Retry, LinkAttempt, history
<1>7. CASE Reconcile(r)
  BY <1>7 DEF Reconcile, history
<1>. QED BY <1>1, <1>2, <1>3, <1>4, <1>5, <1>6, <1>7 DEF Lives, WorkerStep, AgentStep

View(q) == LedgerView[q]

LEMMA ViewOf ==
    ASSUME NEW q \in RunId
    PROVE  View(q) = [known      |-> Exists(disk[q]),
                      owners     |-> {c \in ClaimStages : HasStage(disk[q], c)},
                      settled    |-> IsTerminal(disk[q]),
                      executions |-> begun[q]]
BY DEF View, LedgerView

\* The view is a ledger: a Run has at most one owner and one execution.
ViewTyped == LedgerView \in [RunId -> Ledger!Entry]

LEMMA ViewIsLedger == LInv => ViewTyped
<1>. SUFFICES ASSUME LInv PROVE LedgerView \in [RunId -> Ledger!Entry]
  BY DEF ViewTyped
<1>1. ASSUME NEW q \in RunId PROVE View(q) \in Ledger!Entry
  <2> DEFINE owners == {c \in ClaimStages : HasStage(disk[q], c)}
  <2>1. \A c, d \in owners : c = d
    BY DEF LInv, IInv, StoreInv, ClaimsInMemory, ClaimsExclusive
  <2>2. owners \in {{}} \cup {{l} : l \in ClaimStages}
    <3>1. CASE owners = {}
      BY <3>1
    <3>2. CASE owners # {}
      <4>1. PICK c \in owners : TRUE
        BY <3>2
      <4>2. owners = {c} /\ c \in ClaimStages
        BY <2>1, <4>1
      <4>. QED BY <4>2
    <3>. QED BY <3>1, <3>2
  <2>3. begun[q] \in {0, 1}
    BY DEF LInv, IInv, TypeOK, HandedOffOnce
  <2>4. Exists(disk[q]) \in BOOLEAN /\ IsTerminal(disk[q]) \in BOOLEAN
    BY DEF Exists, IsTerminal
  <2> HIDE DEF owners
  <2>5. View(q) = [known |-> Exists(disk[q]), owners |-> owners,
                   settled |-> IsTerminal(disk[q]), executions |-> begun[q]]
    BY ViewOf DEF owners
  <2>. QED BY <2>2, <2>3, <2>4, <2>5 DEF Ledger!Entry
<1>2. LedgerView = [q \in RunId |-> View(q)]
  BY DEF View, LedgerView
<1>. QED BY <1>1, <1>2

LEMMA NextViewIsLedger == LInv' => ViewTyped'
BY ViewIsLedger, PTL

\* What a write does to one entry, its count of executions aside.
LEMMA WrittenEntry ==
    ASSUME LInv, LInv', Forward, NEW q \in RunId, NEW n,
           n = begun[q]
    PROVE  Ledger!Written(View(q), [View(q)' EXCEPT !.executions = n])
<1> DEFINE old == View(q)
           new == [View(q)' EXCEPT !.executions = n]
<1>t. /\ mem[q] \in RunRecord /\ disk[q] \in RunRecord
      /\ mem'[q] \in RunRecord /\ disk'[q] \in RunRecord
  BY DEF LInv, IInv, TypeOK
<1>o. /\ old.known = Exists(disk[q]) /\ old.settled = IsTerminal(disk[q])
      /\ old.owners = {c \in ClaimStages : HasStage(disk[q], c)}
      /\ old.executions = begun[q]
  BY ViewOf
<1>n. View(q)' = [known      |-> Exists(disk'[q]),
                  owners     |-> {c \in ClaimStages : HasStage(disk'[q], c)},
                  settled    |-> IsTerminal(disk'[q]),
                  executions |-> begun'[q]]
  BY DEF View, LedgerView, HasStage, IsTerminal, Status, Exists, LastStage
<1>m. /\ new.known = Exists(disk'[q]) /\ new.settled = IsTerminal(disk'[q])
      /\ new.owners = {c \in ClaimStages : HasStage(disk'[q], c)}
      /\ new.executions = begun[q]
  BY <1>n
<1>1. \A s \in Stages : HasStage(disk[q], s) => HasStage(disk'[q], s)
  BY ForwardGrows DEF Forward, LInv, FileOK
<1>2. Exists(disk[q]) => Exists(disk'[q])
  BY <1>t, <1>1, LastIsStage, ClaimedExists
<1>3. new.owners # {} \/ new.settled => new.known
  BY <1>t, <1>m, ClaimedExists, TerminalByLast
<1>4. old.owners # {} => new.owners = old.owners
  <2>1. \A c, d \in ClaimStages : HasStage(disk'[q], c) /\ HasStage(disk'[q], d) => c = d
    <3>1. \A c \in ClaimStages : HasStage(disk'[q], c) => HasStage(mem'[q], c)
      BY DEF LInv, IInv, StoreInv, ClaimsInMemory, HasStage
    <3>2. \A c, d \in ClaimStages : HasStage(mem'[q], c) /\ HasStage(mem'[q], d) => c = d
      BY DEF LInv, IInv, StoreInv, ClaimsExclusive, HasStage
    <3>. QED BY <3>1, <3>2
  <2>2. ClaimStages \subseteq Stages
    BY DEF Stages
  <2>. QED BY <1>1, <1>o, <1>m, <2>1, <2>2
<1>5. IsTerminal(disk[q]) => disk'[q] = disk[q]
  BY ForwardGrows DEF Forward, LInv, FileOK
<1>6. old.settled => new = old
  <2>. SUFFICES ASSUME IsTerminal(disk[q]) PROVE new = old
    BY <1>o
  <2>1. disk'[q] = disk[q]
    BY <1>5
  <2>2. new = [known      |-> Exists(disk[q]),
               owners     |-> {c \in ClaimStages : HasStage(disk[q], c)},
               settled    |-> IsTerminal(disk[q]),
               executions |-> n]
    <3>1. new = [known      |-> Exists(disk'[q]),
                 owners     |-> {c \in ClaimStages : HasStage(disk'[q], c)},
                 settled    |-> IsTerminal(disk'[q]),
                 executions |-> n]
      BY <1>n
    <3> HIDE DEF new
    <3>. QED BY <2>1, <3>1 DEF HasStage, IsTerminal, Status, Exists, LastStage
  <2>. QED BY <2>2, ViewOf
<1> HIDE DEF old, new
<1>. QED BY <1>2, <1>3, <1>4, <1>6, <1>o, <1>m DEF Ledger!Written, old, new

-----------------------------------------------------------------------------
(* The theorems.                                                            *)

\* The invariant of RunStoreProofs with what memory and file, and the executors
\* and the last stage, say of each other.
THEOREM LedgerInvariant == Spec => []LInv
BY InitLInv, NextLInv, PTL DEF Spec

\* deriveStatus over the file: what is terminal there never changes, in this
\* process or a later one.
THEOREM EndedIsFinal == Spec => DurableTerminalIsFinal
<1>1. ASSUME LInv, [Next]_vars
      PROVE  [\A r \in RunId : IsTerminal(disk[r]) => disk'[r] = disk[r]]_vars
  <2>1. CASE Forward
    BY <1>1, <2>1, ForwardGrows DEF Forward, LInv, FileOK
  <2>2. CASE UNCHANGED disk
    BY <2>2
  <2>3. Forward \/ UNCHANGED disk
    BY <1>1, LivesKept, ListenKept, CrashKept DEF Next, Lives, Kept, vars
  <2>. QED BY <2>1, <2>2, <2>3
<1>. QED BY <1>1, LedgerInvariant, PTL DEF Spec, DurableTerminalIsFinal

\* A reconciliation says that the Run is still pending.
FoundPending(q) ==
    HasStage(mem'[q], "RECONCILED_PENDING") /\ ~HasStage(mem[q], "RECONCILED_PENDING")

LEMMA ForwardPending ==
    ASSUME LInv, LInv', Forward, NEW q \in RunId, FoundPending(q)
    PROVE  begun[q] = 0
<1>1. mem[q] \in RunRecord /\ mem'[q] \in RunRecord
  BY DEF LInv, IInv, TypeOK
<1>2. mem'[q] # mem[q]
  BY DEF FoundPending, HasStage
<1>3. CASE Opened(q)
  BY <1>3 DEF Opened, Blank, FoundPending, HasStage
<1>4. CASE Extended(q)
  <2>1. PICK stage \in Stages : /\ mem'[q].timeline = Append(mem[q].timeline, stage)
                                /\ Justified(q, stage)
    BY <1>4 DEF Extended, Carries
  <2>2. stage = "RECONCILED_PENDING"
    BY <1>1, <2>1, AppendedStages DEF FoundPending
  <2>. QED BY <2>1, <2>2 DEF Justified
<1>. QED BY <1>2, <1>3, <1>4 DEF Forward

\* reconcileRun: a startup that finds a Run pending, and lets it be claimed, is
\* right that no executor was ever started with it.
THEOREM PendingNeverBegun == Spec => PendingMeansNeverBegun
<1>1. ASSUME LInv, LInv', [Next]_vars
      PROVE  [\A r \in RunId : FoundPending(r) => begun[r] = 0]_vars
  <2>1. CASE Forward
    BY <1>1, <2>1, ForwardPending
  <2>2. CASE Crash
    BY <1>1, <2>2 DEF Crash, FoundPending, LInv, FileOK, Stages, ReconcileMarks
  <2>3. Forward \/ Crash \/ UNCHANGED vars
    BY <1>1, LivesKept, ListenKept DEF Next, Lives, Kept
  <2>. QED BY <2>1, <2>2, <2>3
<1>. QED BY <1>1, LedgerInvariant, PTL DEF Spec, PendingMeansNeverBegun, FoundPending

\* The empty store is the empty ledger.
LEMMA LedgerStarts == Init => Ledger!LedgerInit
<1>. SUFFICES ASSUME Init PROVE LedgerView = [r \in RunId |-> Ledger!Blank]
  BY DEF Ledger!LedgerInit
<1>1. ASSUME NEW q \in RunId PROVE View(q) = Ledger!Blank
  <2>1. disk[q] = NoRecord /\ begun[q] = 0 /\ NoRecord.timeline = << >>
    BY DEF Init, NoRecord
  <2>2. ~Exists(disk[q]) /\ ~IsTerminal(disk[q])
    BY <2>1 DEF Exists, IsTerminal, Status, TerminalStatuses
  <2>3. {c \in ClaimStages : HasStage(disk[q], c)} = {}
    BY <2>1 DEF HasStage
  <2>. QED BY <2>1, <2>2, <2>3, ViewOf DEF Ledger!Blank
<1>. QED BY <1>1 DEF View, LedgerView

\* A step that writes forward and begins at most one execution is one of the ledger.
LEMMA LedgerStep ==
    ASSUME LInv, LInv',
           \/ UNCHANGED <<disk, begun>>
           \/ Forward /\ UNCHANGED begun
           \/ \E r \in RunId : Forward /\ Begins(r)
    PROVE  [Ledger!LedgerNext]_LedgerView
<1>1. CASE UNCHANGED <<disk, begun>>
  BY <1>1 DEF LedgerView, HasStage, IsTerminal, Status, Exists, LastStage
<1>2. CASE Forward /\ UNCHANGED begun
  <2>1. ASSUME NEW q \in RunId PROVE Ledger!Written(LedgerView[q], LedgerView'[q])
    <3>1. [View(q)' EXCEPT !.executions = begun[q]] = View(q)'
      BY <1>2 DEF View, LedgerView
    <3>. QED BY <1>2, <3>1, WrittenEntry DEF View
  <2>2. LedgerView' \in [RunId -> Ledger!Entry]
    BY NextViewIsLedger DEF ViewTyped
  <2>. QED BY <2>1, <2>2 DEF Ledger!LedgerNext, Ledger!Write
<1>3. ASSUME NEW r \in RunId, Forward, Begins(r) PROVE Ledger!LedgerNext
  <2>1. LedgerView' \in [RunId -> Ledger!Entry]
    BY NextViewIsLedger DEF ViewTyped
  <2>t. begun \in [RunId -> Nat]
    BY DEF LInv, IInv, TypeOK
  <2>2. ASSUME NEW q \in RunId \ {r} PROVE Ledger!Written(LedgerView[q], LedgerView'[q])
    <3>1. [View(q)' EXCEPT !.executions = begun[q]] = View(q)'
      BY <1>3, <2>t DEF View, LedgerView, Begins
    <3>. QED BY <1>3, <3>1, WrittenEntry DEF View
  <2>3. Ledger!Written(LedgerView[r], [LedgerView'[r] EXCEPT !.executions = 0])
    BY <1>3, WrittenEntry DEF View, Begins
  <2>4. LedgerView'[r].executions = 1
    BY <1>3, <2>t DEF LedgerView, Begins
  <2>5. Ledger!Executable(LedgerView[r])
    <3>1. View(r).owners = {c \in ClaimStages : HasStage(disk[r], c)}
          /\ View(r).settled = IsTerminal(disk[r]) /\ View(r).executions = begun[r]
      BY ViewOf
    <3>2. View(r).owners # {} /\ ~View(r).settled /\ View(r).executions = 0
      BY <1>3, <3>1 DEF Begins, HasClaim
    <3>. QED BY <3>2 DEF View, Ledger!Executable
  <2>. QED BY <2>1, <2>2, <2>3, <2>4, <2>5 DEF Ledger!LedgerNext, Ledger!WriteAndExecute
<1>. QED BY <1>1, <1>2, <1>3

\* The store implements the ledger it promises the readers of its file.
THEOREM StoreImplementsLedger == Spec => ImplementsLedger
<1>1. ASSUME LInv, LInv', [Next]_vars PROVE [Ledger!LedgerNext]_LedgerView
  <2>1. ASSUME NEW r \in RunId, Lives(r) PROVE [Ledger!LedgerNext]_LedgerView
    BY <1>1, <2>1, LedgerStep, LivesKept, LivesBegins DEF Kept
  <2>2. Listen \/ Crash \/ UNCHANGED vars => UNCHANGED <<disk, begun>>
    BY DEF Listen, timelines, history, Crash, vars
  <2>. QED BY <1>1, <2>1, <2>2, LedgerStep DEF Next, Lives
<1>. QED BY <1>1, LedgerStarts, LedgerInvariant, PTL DEF Spec, ImplementsLedger, Ledger!LedgerSpec

-----------------------------------------------------------------------------
(***************************************************************************)
(* What the Run store says happened did happen, and what the Owner asks of  *)
(* a Run that ended happens once, for every set of Runs and approvals and   *)
(* every number of candidates, crashes and failed writes.                   *)
(*                                                                         *)
(* The argument.  Every piece of evidence names the lane that left it, the  *)
(* lanes exclude each other, and its executor is past the point where the   *)
(* outcome is decided (Reported, Finished); so a status drawn from it is    *)
(* the outcome (Truthful).  A decision is taken on a pending patch, and     *)
(* nothing makes a Run pending again that was decided (Decided).  The       *)
(* attempt of a retry is alone with the event loop until it is linked, and  *)
(* its original is interrupted in the file, which is final (Linked).        *)
(***************************************************************************)

Verdicts == {"ok", "failed"}

VerdictOf(audit) == IF audit.ok THEN "ok" ELSE "failed"

\* A stage that ends a Run is its last.
EndsOnce(run) == \A s \in TerminalStages : HasStage(run, s) => LastStage(run) = s

\* The artifacts of the two lanes that leave some.
Reported(q) ==
    /\ results[q] # "none" => /\ worker[q] = "idle" /\ HasStage(disk[q], "WORKER_CLAIMED")
                              /\ outcome[q] = results[q]
    /\ \A i \in DOMAIN audits : audits[i].run = q =>
          /\ agent[q] \in {"finishing", "settling", "idle"}
          /\ HasStage(disk[q], "AGENT_CLAIMED")
          /\ outcome[q] = VerdictOf(audits[i])
    /\ agent[q] \in {"auditing", "finishing", "settling"} => outcome[q] \in Verdicts

\* The outcome in a record of q.
Finished(q, run) ==
    run.finished # "none" => /\ agent[q] \in {"settling", "idle"}
                             /\ HasStage(disk[q], "AGENT_CLAIMED")
                             /\ outcome[q] = run.finished

\* The status in a record of q.
Truthful(q, run) ==
    /\ HasStage(run, "RECONCILED_SUCCEEDED") \/ HasStage(run, "SUCCEEDED") => outcome[q] = "ok"
    /\ HasStage(run, "RECONCILED_FAILED") => outcome[q] = "failed"

\* The decision in a record.
Decided(run) ==
    HasStage(run, "APPLYING") => /\ HasClaim(run) /\ ~HasStage(run, "REJECTED")
                                 /\ LastStage(run) # "PENDING_APPROVAL"

RecordOK(q, run) == EndsOnce(run) /\ Finished(q, run) /\ Truthful(q, run) /\ Decided(run)

\* The record of an attempt names an original that the file knows is interrupted.
LinkOK(run) ==
    HasStage(run, "RETRY_ATTEMPT") =>
        /\ Len(run.timeline) >= 2 /\ run.timeline[2] = "RETRY_ATTEMPT"
        /\ run.prior \in RunId /\ Status(disk[run.prior]) = "interrupted"

\* An original has one attempt among these records.
OneLink(runs) ==
    \A a, b \in RunId : /\ HasStage(runs[a], "RETRY_ATTEMPT") /\ HasStage(runs[b], "RETRY_ATTEMPT")
                        /\ runs[a].prior = runs[b].prior
                        => a = b

\* While a retry has created its attempt and not linked it yet, nothing else runs.
Linking(a) ==
    retryOf[a] # NoRun =>
        /\ mem[a].timeline = << "TASK_CREATED" >>
        /\ Status(disk[retryOf[a]]) = "interrupted"
        /\ NotRetried(retryOf[a])
        /\ \A b \in RunId : /\ job[b] \notin JobInTurn /\ agent[b] \notin AgentInTurn
                            /\ retryOf[b] # NoRun => b = a

Applied(q) ==
    /\ HasStage(mem[q], "APPLYING") => job[q] \in {"idle", "created"}
    /\ applied[q] <= 1
    /\ applied[q] > 0 => HasStage(disk[q], "APPLYING")

RecordsOK == \A q \in RunId : RecordOK(q, mem[q]) /\ RecordOK(q, disk[q])

LinksOK == /\ \A q \in RunId : LinkOK(mem[q]) /\ LinkOK(disk[q]) /\ Linking(q)
           /\ OneLink(mem) /\ OneLink(disk)

OInv == /\ LInv /\ RecordsOK /\ LinksOK
        /\ \A q \in RunId : Reported(q) /\ Applied(q)

-----------------------------------------------------------------------------
(* How a step of a living process moves the executors and what they leave.   *)

\* An executor that can still change the outcome has q.
Open(q) == job[q] = "working" \/ worker[q] = "working" \/ agent[q] \in {"queued", "working"}

AgentTransfers(q) ==
    \/ agent'[q] = agent[q]
    \/ agent[q] = "idle" /\ agent'[q] = "selecting" /\ ~HasClaim(mem[q])
    \/ /\ agent[q] \in {"queued", "working"} /\ agent'[q] \in {"auditing", "finishing"}
       /\ outcome'[q] \in Verdicts
    \/ <<agent[q], agent'[q]>> \in { <<"selecting", "queued">>, <<"queued", "working">>,
           <<"auditing", "finishing">>, <<"finishing", "settling">>, <<"settling", "idle">> }

\* The agent of q puts its verdict in the log.
Audits(q) == /\ agent[q] = "auditing" /\ agent'[q] = "finishing" /\ outcome' = outcome
             /\ audits' = Append(audits, [run |-> q, ok |-> outcome[q] = "ok"])

Moves ==
    /\ \A q \in RunId :
          /\ outcome'[q] = outcome[q] \/ Open(q)
          /\ \/ results'[q] = results[q]
             \/ worker[q] = "working" /\ worker'[q] = "idle" /\ results'[q] = outcome'[q]
          /\ job'[q] \notin {"idle", "created"}
                => job[q] \notin {"idle", "created"} \/ ~HasClaim(mem[q])
          /\ worker'[q] # "idle" => worker[q] # "idle" \/ ~HasClaim(mem[q])
          /\ AgentTransfers(q)
    /\ audits' = audits \/ \E q \in RunId : Audits(q)

\* Apply is dispatched for a pending patch, once the approval is in the file.
Applies(q) == /\ applied' = [applied EXCEPT ![q] = @ + 1]
              /\ Status(mem[q]) = "pending_approval"
              /\ disk' = mem' /\ mem' = [mem EXCEPT ![q] = Appended(mem[q], "APPLYING")]

LEMMA DispatchMoves ==
    ASSUME OInv, NEW r \in RunId, DispatchStep(r)
    PROVE  Moves /\ UNCHANGED applied
<1>t. job \in [RunId -> JobStates] /\ outcome \in [RunId -> Outcomes]
  BY DEF OInv, LInv, IInv, TypeOK
<1>1. UNCHANGED <<worker, agent, results, audits, applied>>
  BY DEF DispatchStep, DispatchBegins, EvaluatePolicy, Deny, Hold, SelectAgent, Attempt,
     AdapterAnswers, RecordSuccess, RecordPatch, RecordMiss, Exhaust,
     PromoteToPendingApproval, RecordFailure, others, evidence, history
<1>2. job[r] \notin {"idle", "created"}
  BY DEF DispatchStep, DispatchBegins, EvaluatePolicy, Deny, Hold, SelectAgent, Attempt,
     AdapterAnswers, RecordSuccess, RecordPatch, RecordMiss, Exhaust,
     PromoteToPendingApproval, RecordFailure
<1>3. \A q \in RunId : q # r => job'[q] = job[q]
  BY <1>t DEF DispatchStep, DispatchBegins, EvaluatePolicy, Deny, Hold, SelectAgent, Attempt,
     AdapterAnswers, RecordSuccess, RecordPatch, RecordMiss, Exhaust,
     PromoteToPendingApproval, RecordFailure, Milestone
<1>4. \A q \in RunId : outcome'[q] = outcome[q] \/ Open(q)
  <2>1. CASE AdapterAnswers(r)
    BY <1>t, <2>1 DEF AdapterAnswers, Open
  <2>2. CASE ~AdapterAnswers(r)
    BY <2>2 DEF DispatchStep, DispatchBegins, EvaluatePolicy, Deny, Hold, SelectAgent, Attempt,
       RecordSuccess, RecordPatch, RecordMiss, Exhaust,
       PromoteToPendingApproval, RecordFailure, history
  <2>. QED BY <2>1, <2>2
<1>. QED BY <1>1, <1>2, <1>3, <1>4 DEF Moves, AgentTransfers

LEMMA WorkerMoves ==
    ASSUME OInv, NEW r \in RunId, WorkerStep(r)
    PROVE  Moves /\ UNCHANGED applied
<1>t. /\ worker \in [RunId -> WorkerStates] /\ outcome \in [RunId -> Outcomes]
      /\ results \in [RunId -> Outcomes]
  BY DEF OInv, LInv, IInv, TypeOK
<1>1. UNCHANGED <<job, agent, audits, applied>>
  BY DEF WorkerStep, WorkerBegins, WorkerAnswers, develop
<1>2. CASE WorkerBegins(r)
  <2>1. \A q \in RunId : q # r => worker'[q] = worker[q]
    BY <1>t, <1>2 DEF WorkerBegins
  <2>2. worker[r] # "idle" /\ UNCHANGED <<outcome, results>>
    BY <1>2 DEF WorkerBegins
  <2>. QED BY <1>1, <2>1, <2>2 DEF Moves, AgentTransfers
<1>3. CASE WorkerAnswers(r)
  <2>1. PICK verdict \in {"ok", "failed"}, written \in BOOLEAN :
           /\ outcome' = [outcome EXCEPT ![r] = verdict]
           /\ results' = IF written THEN [results EXCEPT ![r] = verdict] ELSE results
    BY <1>3 DEF WorkerAnswers
  <2>2. worker[r] = "working" /\ worker' = [worker EXCEPT ![r] = "idle"]
    BY <1>3 DEF WorkerAnswers
  <2>. QED BY <1>t, <1>1, <2>1, <2>2 DEF Moves, AgentTransfers, Open
<1>. QED BY <1>2, <1>3 DEF WorkerStep

LEMMA RunnerMoves ==
    ASSUME OInv, NEW r \in RunId, AgentStep(r)
    PROVE  Moves /\ UNCHANGED applied
<1>t. agent \in [RunId -> AgentStates] /\ outcome \in [RunId -> Outcomes]
  BY DEF OInv, LInv, IInv, TypeOK
<1>1. UNCHANGED <<job, worker, results, applied>>
  BY DEF AgentStep, AgentSelected, AgentBegins, AgentAnswers, AgentAudits, AgentFinishes,
     AgentSettles, develop, evidence, history
<1>2. \A q \in RunId : outcome'[q] = outcome[q] \/ Open(q)
  BY <1>t DEF AgentStep, AgentSelected, AgentBegins, AgentAnswers, AgentAudits, AgentFinishes,
     AgentSettles, history, Open
<1>3. \A q \in RunId : AgentTransfers(q)
  <2>1. CASE AgentSelected(r) \/ AgentAudits(r) \/ AgentFinishes(r) \/ AgentSettles(r)
    BY <1>t, <2>1 DEF AgentSelected, AgentAudits, AgentFinishes, AgentSettles, AgentTransfers
  <2>2. CASE AgentBegins(r) \/ AgentAnswers(r)
    BY <1>t, <2>2 DEF AgentBegins, AgentAnswers, AgentTransfers, Verdicts
  <2>. QED BY <2>1, <2>2 DEF AgentStep
<1>4. audits' = audits \/ Audits(r)
  BY <1>t DEF AgentStep, AgentSelected, AgentBegins, AgentAnswers, AgentAudits, AgentFinishes,
     AgentSettles, evidence, history, Audits
<1>. QED BY <1>1, <1>2, <1>3, <1>4 DEF Moves

LEMMA RequestMoves ==
    ASSUME OInv, NEW r \in RunId, Request(r)
    PROVE  Moves /\ (UNCHANGED applied \/ Applies(r))
<1>t. /\ job \in [RunId -> JobStates] /\ worker \in [RunId -> WorkerStates]
      /\ agent \in [RunId -> AgentStates]
  BY DEF OInv, LInv, IInv, TypeOK
<1>1. UNCHANGED <<outcome, results, audits>>
  BY DEF Request, StartRun, ScheduleDispatch, DispatchRun, ClaimWorker, ClaimAgent, ApproveRun,
     ApplyReturns, RejectRun, Retry, LinkAttempt, evidence, history
<1>2. UNCHANGED applied \/ Applies(r)
  BY DEF Request, StartRun, ScheduleDispatch, DispatchRun, ClaimWorker, ClaimAgent, ApproveRun,
     ApplyReturns, RejectRun, Retry, LinkAttempt, history, Applies, Record, Flush
<1>c. \A claim, fact, ok : Claim(r, claim, fact, ok) => ~HasClaim(mem[r])
  BY DEF Claim, ClaimStatus
<1>3. \A q \in RunId : job'[q] \in {"idle", "created"} \/ job'[q] = job[q] \/ ~HasClaim(mem[q])
  BY <1>t, <1>c DEF Request, StartRun, ScheduleDispatch, DispatchRun, ClaimDispatch, ClaimWorker,
     ClaimAgent, ApproveRun, ApplyReturns, RejectRun, Retry, LinkAttempt, develop
<1>4. \A q \in RunId : worker'[q] = "idle" \/ worker'[q] = worker[q] \/ ~HasClaim(mem[q])
  BY <1>t, <1>c DEF Request, StartRun, ScheduleDispatch, DispatchRun, ClaimWorker, ClaimAgent,
     ApproveRun, ApplyReturns, RejectRun, Retry, LinkAttempt
<1>5. \A q \in RunId : AgentTransfers(q)
  <2>1. CASE UNCHANGED agent
    BY <2>1 DEF AgentTransfers
  <2>2. ASSUME NEW approval \in Approval, ClaimAgent(r, approval)
        PROVE  \A q \in RunId : AgentTransfers(q)
    <3>1. agent' = [agent EXCEPT ![r] = "selecting"] \/ agent' = [agent EXCEPT ![r] = "idle"]
      BY <2>2 DEF ClaimAgent
    <3>2. ~HasClaim(mem[r])
      BY <1>c, <2>2 DEF ClaimAgent
    <3>3. agent[r] = "idle"
      BY <3>2, Unhanded DEF OInv
    <3>. QED BY <1>t, <3>1, <3>2, <3>3 DEF AgentTransfers
  <2>. QED BY <2>1, <2>2 DEF Request, StartRun, ScheduleDispatch, DispatchRun, ClaimWorker,
           ApproveRun, ApplyReturns, RejectRun, Retry, LinkAttempt
<1>. QED BY <1>1, <1>2, <1>3, <1>4, <1>5 DEF Moves

LEMMA LivesMoves ==
    ASSUME OInv, NEW r \in RunId, Lives(r)
    PROVE  Moves /\ (UNCHANGED applied \/ Applies(r))
<1>1. CASE Reconcile(r)
  BY <1>1 DEF Reconcile, develop, evidence, history, Moves, AgentTransfers
<1>. QED BY <1>1, DispatchMoves, WorkerMoves, RunnerMoves, RequestMoves DEF Lives

-----------------------------------------------------------------------------
(* Outcomes and decisions.                                                  *)

\* The lanes exclude each other.
LEMMA OneLane ==
    ASSUME LInv, NEW q \in RunId
    PROVE  /\ HasStage(disk[q], "WORKER_CLAIMED")
                 => job[q] \in {"idle", "created"} /\ agent[q] = "idle" /\ HasClaim(mem[q])
           /\ HasStage(disk[q], "AGENT_CLAIMED")
                 => job[q] \in {"idle", "created"} /\ worker[q] = "idle" /\ HasClaim(mem[q])
           /\ agent[q] # "idle" => HasStage(disk[q], "AGENT_CLAIMED")
           /\ worker[q] # "idle" => HasStage(disk[q], "WORKER_CLAIMED")
BY DEF LInv, IInv, StoreInv, ExecutionHasDurableClaim, ClaimsInMemory, ClaimsExclusive,
   HasClaim, ClaimStages

\* A step of a living process, as the lemmas below see it.
Living == Forward /\ Moves

\* The file keeps its stages.
LEMMA FileGrows ==
    ASSUME OInv, Living, NEW q \in RunId, NEW s \in Stages, HasStage(disk[q], s)
    PROVE  HasStage(disk'[q], s)
<1>1. HasStage(mem[q], s)
  BY DEF OInv, LInv, FileOK
<1>2. HasStage(mem'[q], s)
  BY <1>1, ForwardGrows DEF OInv, Living
<1>. QED BY <1>2 DEF Living, Forward

\* Evidence of an outcome is never behind an executor that could change it.
LEMMA ReportedStays ==
    ASSUME OInv, Living, NEW q \in RunId
    PROVE  Reported(q)'
<1> USE DEF Verdicts
<1>t. /\ audits \in Seq([run : RunId, ok : BOOLEAN]) /\ Reported(q) /\ LInv
      /\ "AGENT_CLAIMED" \in Stages /\ "WORKER_CLAIMED" \in Stages
  BY DEF OInv, LInv, IInv, TypeOK, Stages, ClaimStages
<1>m. /\ outcome'[q] = outcome[q] \/ Open(q)
      /\ \/ results'[q] = results[q]
         \/ worker[q] = "working" /\ worker'[q] = "idle" /\ results'[q] = outcome'[q]
      /\ worker'[q] # "idle" => worker[q] # "idle" \/ ~HasClaim(mem[q])
      /\ AgentTransfers(q)
      /\ audits' = audits \/ \E p \in RunId : Audits(p)
  BY DEF Living, Moves
<1>1. results'[q] # "none" => /\ worker'[q] = "idle" /\ HasStage(disk'[q], "WORKER_CLAIMED")
                              /\ outcome'[q] = results'[q]
  <2>1. CASE results'[q] = results[q]
    <3>1. ASSUME results[q] # "none"
          PROVE  /\ worker[q] = "idle" /\ HasStage(disk[q], "WORKER_CLAIMED")
                 /\ outcome[q] = results[q]
                 /\ job[q] \in {"idle", "created"} /\ agent[q] = "idle" /\ HasClaim(mem[q])
      BY <1>t, <3>1, OneLane DEF Reported
    <3>2. results[q] # "none" => worker'[q] = "idle" /\ outcome'[q] = results[q]
      BY <1>m, <3>1 DEF Open
    <3>3. results[q] # "none" => HasStage(disk'[q], "WORKER_CLAIMED")
      BY <1>t, <3>1, FileGrows
    <3>. QED BY <2>1, <3>2, <3>3
  <2>2. CASE worker[q] = "working" /\ worker'[q] = "idle" /\ results'[q] = outcome'[q]
    BY <1>t, <2>2, OneLane, FileGrows
  <2>. QED BY <1>m, <2>1, <2>2
<1>2. ASSUME HasStage(disk[q], "AGENT_CLAIMED"), agent[q] \in {"finishing", "settling", "idle"}
      PROVE  /\ agent'[q] \in {"finishing", "settling", "idle"}
             /\ HasStage(disk'[q], "AGENT_CLAIMED") /\ outcome'[q] = outcome[q]
  BY <1>t, <1>m, <1>2, OneLane, FileGrows DEF AgentTransfers, Open
<1>3. ASSUME NEW i \in DOMAIN audits', audits'[i].run = q
      PROVE  /\ agent'[q] \in {"finishing", "settling", "idle"}
             /\ HasStage(disk'[q], "AGENT_CLAIMED")
             /\ outcome'[q] = VerdictOf(audits'[i])
  <2>1. CASE i \in DOMAIN audits /\ audits'[i] = audits[i]
    BY <1>t, <1>2, <1>3, <2>1 DEF Reported
  <2>2. ASSUME NEW p \in RunId, Audits(p), ~(i \in DOMAIN audits /\ audits'[i] = audits[i])
        PROVE  /\ agent'[q] \in {"finishing", "settling", "idle"}
               /\ HasStage(disk'[q], "AGENT_CLAIMED")
               /\ outcome'[q] = VerdictOf(audits'[i])
    <3>1. audits'[i] = [run |-> p, ok |-> outcome[p] = "ok"]
      BY <1>t, <1>3, <2>2 DEF Audits
    <3>2. p = q
      BY <1>3, <3>1
    <3>3. agent[q] = "auditing" /\ agent'[q] = "finishing" /\ outcome'[q] = outcome[q]
      BY <2>2, <3>2 DEF Audits
    <3>4. outcome[q] \in Verdicts
      BY <1>t, <3>3 DEF Reported
    <3>5. HasStage(disk'[q], "AGENT_CLAIMED")
      BY <1>t, <3>3, OneLane, FileGrows
    <3>6. VerdictOf(audits'[i]) = outcome[q]
      <4> DEFINE good == outcome[q] = "ok"
      <4>1. audits'[i] = [run |-> q, ok |-> good]
        BY <3>1, <3>2
      <4>2. good \in BOOLEAN /\ (good <=> outcome[q] = "ok")
        OBVIOUS
      <4> HIDE DEF good
      <4>3. audits'[i].ok <=> good
        BY <4>1
      <4>. QED BY <3>4, <4>2, <4>3 DEF VerdictOf
    <3>. QED BY <3>3, <3>5, <3>6
  <2>. QED BY <1>m, <2>1, <2>2
<1>4. agent'[q] \in {"auditing", "finishing", "settling"} => outcome'[q] \in Verdicts
  BY <1>t, <1>m, OneLane DEF AgentTransfers, Reported, Open
<1>. QED BY <1>1, <1>3, <1>4 DEF Reported, VerdictOf

\* RecordOK after the step, of a record before or after it.
RecordNext(q, run) ==
    /\ EndsOnce(run) /\ Decided(run)
    /\ run.finished # "none" => /\ agent'[q] \in {"settling", "idle"}
                                /\ HasStage(disk'[q], "AGENT_CLAIMED")
                                /\ outcome'[q] = run.finished
    /\ HasStage(run, "RECONCILED_SUCCEEDED") \/ HasStage(run, "SUCCEEDED") => outcome'[q] = "ok"
    /\ HasStage(run, "RECONCILED_FAILED") => outcome'[q] = "failed"

\* A Run that ended is open to no executor.
LEMMA EndedIsClosed ==
    ASSUME OInv, NEW q \in RunId, NEW s \in TerminalStages, HasStage(mem[q], s)
    PROVE  ~Open(q)
<1>1. LastStage(mem[q]) \in TerminalStages /\ TurnOK(q)
  BY DEF OInv, RecordsOK, RecordOK, EndsOnce, LInv
<1>. QED BY <1>1 DEF TurnOK, Open, Carrying, TerminalStages, ReconcileMarks

LEMMA OldRecord ==
    ASSUME OInv, Living, NEW q \in RunId, NEW run, RecordOK(q, run),
           \A s \in Stages : HasStage(run, s) => HasStage(mem[q], s)
    PROVE  RecordNext(q, run)
<1>m. /\ outcome'[q] = outcome[q] \/ Open(q)
      /\ AgentTransfers(q) /\ LInv
  BY DEF Living, Moves, OInv
<1>1. run.finished # "none" => /\ agent'[q] \in {"settling", "idle"}
                               /\ HasStage(disk'[q], "AGENT_CLAIMED")
                               /\ outcome'[q] = run.finished
  <2>1. "AGENT_CLAIMED" \in Stages
    BY DEF Stages, ClaimStages
  <2>. QED BY <1>m, <2>1, OneLane, FileGrows DEF RecordOK, Finished, AgentTransfers, Open
<1>2. ASSUME NEW s \in {"RECONCILED_SUCCEEDED", "SUCCEEDED", "RECONCILED_FAILED"}, HasStage(run, s)
      PROVE  outcome'[q] = outcome[q]
  <2>1. s \in Stages /\ s \in TerminalStages
    BY DEF Stages, TerminalStages, ReconcileMarks
  <2>. QED BY <1>m, <1>2, <2>1, EndedIsClosed
<1>. QED BY <1>1, <1>2 DEF RecordNext, RecordOK, Truthful

\* What an executor cannot change any more.
LEMMA SupportIsOutcome ==
    ASSUME OInv, Living, NEW q \in RunId, NEW v \in Verdicts, Supported(q, v)
    PROVE  outcome'[q] = v
<1>m. /\ outcome'[q] = outcome[q] \/ Open(q)
      /\ LInv /\ Reported(q) /\ Finished(q, mem[q])
  BY DEF Living, Moves, OInv, RecordsOK, RecordOK
<1>1. CASE results[q] = v
  BY <1>m, <1>1, OneLane DEF Reported, Open, Verdicts
<1>2. CASE mem[q].finished = v
  BY <1>m, <1>2, OneLane DEF Finished, Open, Verdicts
<1>3. CASE AuditOutcome(q, audits) = v
  <2>1. \E i \in DOMAIN audits : audits[i].run = q /\ VerdictOf(audits[i]) = v
    <3> DEFINE own == {i \in DOMAIN audits : audits[i].run = q}
    <3>1. \E i \in own : own = {i}
      BY <1>3 DEF AuditOutcome, Verdicts
    <3>2. (CHOOSE i \in own : TRUE) \in own
      BY <3>1
    <3>3. v = VerdictOf(audits[CHOOSE i \in own : TRUE])
      BY <1>3, <3>1 DEF AuditOutcome, VerdictOf
    <3>. QED BY <3>2, <3>3
  <2>. QED BY <1>m, <2>1, OneLane DEF Reported, Open
<1>. QED BY <1>1, <1>2, <1>3 DEF Supported

LEMMA OpenedRecord ==
    ASSUME NEW q \in RunId, Blank(mem'[q])
    PROVE  RecordNext(q, mem'[q])
<1>1. \A s : HasStage(mem'[q], s) => s = "TASK_CREATED"
  BY DEF Blank, HasStage
<1>. QED BY <1>1 DEF Blank, RecordNext, EndsOnce, Decided, TerminalStages, ReconcileMarks

LEMMA ExtendedRecord ==
    ASSUME OInv, LInv', Living, NEW q \in RunId, Extended(q)
    PROVE  RecordNext(q, mem'[q])
<1>t. /\ mem[q] \in RunRecord /\ mem'[q] \in RunRecord /\ LInv
      /\ "AGENT_CLAIMED" \in Stages
  BY DEF OInv, LInv, IInv, TypeOK, Stages, ClaimStages
<1>m. outcome'[q] = outcome[q] \/ Open(q)
  BY DEF Living, Moves
<1>1. PICK stage \in Stages : Carries(q, mem'[q], stage) /\ Justified(q, stage)
  BY DEF Extended
<1>2. /\ \A s : HasStage(mem'[q], s) <=> HasStage(mem[q], s) \/ s = stage
      /\ LastStage(mem'[q]) = stage
  BY <1>t, <1>1, AppendedStages, LastAppended DEF Carries
<1>3. RecordOK(q, mem[q]) /\ RecordNext(q, mem[q])
  BY OldRecord DEF OInv, RecordsOK
<1>4. \A s \in TerminalStages : ~HasStage(mem[q], s)
  BY <1>3 DEF Extended, RecordOK, EndsOnce
<1>5. EndsOnce(mem'[q])
  BY <1>2, <1>4 DEF EndsOnce
<1>6. Decided(mem'[q])
  <2>1. "REJECTED" \in TerminalStages
    BY DEF TerminalStages
  <2>2. HasClaim(mem[q]) => HasClaim(mem'[q])
    BY <1>2 DEF HasClaim
  <2>3. CASE stage = "APPLYING"
    <3>1. HasStage(mem[q], "PENDING_APPROVAL")
      BY <1>t, <1>1, <2>3, PendingByLast DEF Justified
    <3>2. HasClaim(mem[q])
      BY <1>t, <3>1 DEF LInv, FileOK
    <3>. QED BY <1>2, <1>4, <2>1, <2>2, <2>3, <3>2 DEF Decided
  <2>4. CASE stage # "APPLYING" /\ HasStage(mem[q], "APPLYING")
    <3>1. /\ HasClaim(mem[q]) /\ LastStage(mem[q]) # "PENDING_APPROVAL"
          /\ job[q] \in {"idle", "created"}
      BY <1>3, <2>4 DEF RecordNext, Decided, OInv, Applied
    <3>2. stage # "PENDING_APPROVAL"
      BY <1>1, <3>1 DEF Justified
    <3>3. stage # "REJECTED"
      BY <1>t, <1>1, <3>1, PendingByLast DEF Justified
    <3>. QED BY <1>2, <1>4, <2>1, <2>2, <3>1, <3>2, <3>3 DEF Decided
  <2>5. CASE stage # "APPLYING" /\ ~HasStage(mem[q], "APPLYING")
    BY <1>2, <2>5 DEF Decided
  <2>. QED BY <2>3, <2>4, <2>5
<1>7. mem'[q].finished # "none" => /\ agent'[q] \in {"settling", "idle"}
                                  /\ HasStage(disk'[q], "AGENT_CLAIMED")
                                  /\ outcome'[q] = mem'[q].finished
  <2>1. CASE mem'[q].finished = mem[q].finished
    BY <1>3, <2>1 DEF RecordNext
  <2>2. CASE agent[q] = "finishing" /\ agent'[q] = "settling" /\ mem'[q].finished = outcome[q]
    BY <1>t, <1>m, <2>2, OneLane, FileGrows DEF Open
  <2>. QED BY <1>1, <2>1, <2>2 DEF Carries
<1>8. /\ HasStage(mem'[q], "RECONCILED_SUCCEEDED") \/ HasStage(mem'[q], "SUCCEEDED")
           => outcome'[q] = "ok"
      /\ HasStage(mem'[q], "RECONCILED_FAILED") => outcome'[q] = "failed"
  <2>1. CASE stage \in {"RECONCILED_SUCCEEDED", "RECONCILED_FAILED", "SUCCEEDED"}
    <3>1. stage = "RECONCILED_SUCCEEDED" => outcome'[q] = "ok"
      BY <1>1, SupportIsOutcome DEF Justified, Verdicts
    <3>2. stage = "RECONCILED_FAILED" => outcome'[q] = "failed"
      BY <1>1, SupportIsOutcome DEF Justified, Verdicts
    <3>3. stage = "SUCCEEDED" => outcome'[q] = "ok"
      BY <1>t, <1>m, <1>1, OneLane DEF Justified, Open
    <3>4. {"RECONCILED_SUCCEEDED", "RECONCILED_FAILED", "SUCCEEDED"} \subseteq TerminalStages
      BY DEF TerminalStages, ReconcileMarks
    <3>. QED BY <1>2, <1>4, <3>1, <3>2, <3>3, <3>4
  <2>2. CASE stage \notin {"RECONCILED_SUCCEEDED", "RECONCILED_FAILED", "SUCCEEDED"}
    BY <1>2, <1>3, <2>2 DEF RecordNext
  <2>. QED BY <2>1, <2>2
<1>. QED BY <1>5, <1>6, <1>7, <1>8 DEF RecordNext

LEMMA RecordsKept ==
    ASSUME OInv, LInv', Living
    PROVE  RecordsOK'
<1>1. ASSUME NEW q \in RunId PROVE RecordNext(q, mem'[q]) /\ RecordNext(q, disk'[q])
  <2>1. RecordNext(q, disk[q]) /\ RecordNext(q, mem[q])
    BY OldRecord DEF OInv, RecordsOK, LInv, FileOK
  <2>2. RecordNext(q, mem'[q])
    BY <2>1, OpenedRecord, ExtendedRecord DEF Living, Forward, Opened
  <2>. QED BY <2>1, <2>2 DEF Living, Forward
<1>. QED BY <1>1 DEF RecordsOK, RecordOK, RecordNext, EndsOnce, Decided, Finished, Truthful,
     HasClaim, HasStage, LastStage

\* An approved patch is not approved again.
LEMMA AppliedKept ==
    ASSUME OInv, LInv', Living, NEW r \in RunId, UNCHANGED applied \/ Applies(r), NEW q \in RunId
    PROVE  Applied(q)'
<1>t. /\ mem[q] \in RunRecord /\ mem'[q] \in RunRecord /\ applied \in [RunId -> Nat]
      /\ "APPLYING" \in Stages /\ "APPLYING" # "TASK_CREATED" /\ Applied(q)
      /\ mem \in [RunId -> RunRecord]
  BY DEF OInv, LInv, IInv, TypeOK, Stages
<1>m. job'[q] \notin {"idle", "created"} => job[q] \notin {"idle", "created"} \/ ~HasClaim(mem[q])
  BY DEF Living, Moves
<1>1. HasStage(mem'[q], "APPLYING") => job'[q] \in {"idle", "created"}
  <2>1. CASE HasStage(mem[q], "APPLYING")
    BY <1>t, <1>m, <2>1 DEF Applied, OInv, RecordsOK, RecordOK, Decided
  <2>2. CASE ~HasStage(mem[q], "APPLYING") /\ HasStage(mem'[q], "APPLYING")
    <3>1. Extended(q)
      BY <2>2 DEF Living, Forward, Opened, Blank, HasStage
    <3>2. PICK stage \in Stages : Carries(q, mem'[q], stage) /\ Justified(q, stage)
      BY <3>1 DEF Extended
    <3>3. stage = "APPLYING"
      BY <1>t, <2>2, <3>2, AppendedStages DEF Carries
    <3>4. job[q] = "idle" /\ HasStage(mem[q], "PENDING_APPROVAL")
      BY <1>t, <3>2, <3>3, PendingByLast DEF Justified
    <3>. QED BY <1>m, <3>4 DEF OInv, LInv, FileOK
  <2>. QED BY <2>1, <2>2
<1>2. CASE applied'[q] = applied[q]
  BY <1>t, <1>1, <1>2, FileGrows DEF Applied, HasStage
<1>3. CASE applied'[q] # applied[q]
  <2>1. q = r /\ Applies(q)
    BY <1>t, <1>3 DEF Applies
  <2>2. LastStage(mem[q]) = "PENDING_APPROVAL"
    BY <1>t, <2>1, PendingByLast DEF Applies
  <2>3. ~HasStage(mem[q], "APPLYING")
    BY <2>2 DEF OInv, RecordsOK, RecordOK, Decided
  <2>4. ~HasStage(disk[q], "APPLYING")
    BY <1>t, <2>3 DEF OInv, LInv, FileOK
  <2>5. applied[q] = 0 /\ applied'[q] = 1
    BY <1>t, <2>1, <2>4 DEF Applied, Applies
  <2>6. disk'[q] = Appended(mem[q], "APPLYING")
    BY <1>t, <2>1 DEF Applies
  <2>7. HasStage(disk'[q], "APPLYING")
    BY <1>t, <2>6, AppendedType, AppendedStages
  <2>. QED BY <1>1, <2>5, <2>7 DEF Applied, HasStage
<1>. QED BY <1>2, <1>3

-----------------------------------------------------------------------------
(* Retries.                                                                 *)

\* A created attempt that is not linked yet holds the thread.
LEMMA LinkTurn ==
    ASSUME OInv, NEW a \in RunId, retryOf[a] # NoRun, NEW r \in RunId, Lives(r)
    PROVE  LinkAttempt(r) /\ r = a
<1>1. ~Free /\ job[r] \notin JobInTurn /\ agent[r] \notin AgentInTurn
  BY DEF OInv, LinksOK, Linking, Free
<1>2. phase # "boot"
  BY DEF OInv, LInv, TurnOK
<1>3. ~DispatchStep(r)
  BY <1>1 DEF DispatchStep, DispatchBegins, EvaluatePolicy, Deny, Hold, SelectAgent, Attempt,
     AdapterAnswers, RecordSuccess, RecordPatch, RecordMiss, Exhaust,
     PromoteToPendingApproval, RecordFailure, JobInTurn
<1>4. ~WorkerStep(r) /\ ~AgentStep(r) /\ ~Reconcile(r)
  BY <1>1, <1>2 DEF WorkerStep, WorkerBegins, WorkerAnswers, AgentStep, AgentSelected, AgentBegins,
     AgentAnswers, AgentAudits, AgentFinishes, AgentSettles, AgentInTurn, Reconcile
<1>5. Request(r) => LinkAttempt(r)
  BY <1>1 DEF Request, StartRun, ScheduleDispatch, DispatchRun, ClaimWorker, ClaimAgent,
     ApproveRun, ApplyReturns, RejectRun, Retry, JobInTurn
<1>6. LinkAttempt(r)
  BY <1>3, <1>4, <1>5 DEF Lives
<1>. QED BY <1>6 DEF LinkAttempt, OInv, LinksOK, Linking

\* An original that is interrupted in the file stays so.
LEMMA InterruptedStays ==
    ASSUME OInv, Forward, NEW p \in RunId, Status(disk[p]) = "interrupted"
    PROVE  disk'[p] = disk[p] /\ mem'[p] = disk[p] /\ mem[p] = disk[p]
<1>1. IsTerminal(disk[p]) /\ mem[p] = disk[p]
  BY DEF IsTerminal, TerminalStatuses, OInv, LInv, FileOK
<1>2. mem'[p] = mem[p]
  BY <1>1, ForwardGrows DEF OInv
<1>. QED BY <1>1, <1>2 DEF Forward

\* A record that names an original after the step named it before, or is the
\* attempt being linked.
LEMMA LinkedRecord ==
    ASSUME OInv, LInv', Forward, NEW q \in RunId, HasStage(mem'[q], "RETRY_ATTEMPT")
    PROVE  \/ /\ HasStage(mem[q], "RETRY_ATTEMPT") /\ mem'[q].prior = mem[q].prior
              /\ Len(mem'[q].timeline) >= 2 /\ mem'[q].timeline[2] = "RETRY_ATTEMPT"
           \/ /\ retryOf[q] # NoRun /\ mem'[q].prior = retryOf[q]
              /\ ~HasStage(mem[q], "RETRY_ATTEMPT")
              /\ Len(mem'[q].timeline) >= 2 /\ mem'[q].timeline[2] = "RETRY_ATTEMPT"
<1>t. /\ mem[q] \in RunRecord /\ mem'[q] \in RunRecord /\ LinkOK(mem[q]) /\ Linking(q)
      /\ mem[q].timeline \in Seq(Stages)
  BY DEF OInv, LInv, IInv, TypeOK, LinksOK, RunRecord
<1>1. CASE mem'[q] = mem[q]
  BY <1>t, <1>1 DEF LinkOK
<1>2. CASE Opened(q)
  BY <1>2 DEF Opened, Blank, HasStage
<1>3. CASE Extended(q)
  <2>1. PICK stage \in Stages : Carries(q, mem'[q], stage) /\ Justified(q, stage)
    BY <1>3 DEF Extended
  <2>2. mem'[q].timeline = Append(mem[q].timeline, stage)
    BY <2>1 DEF Carries
  <2>3. CASE stage = "RETRY_ATTEMPT"
    <3>1. retryOf[q] # NoRun /\ mem'[q].prior = retryOf[q]
      BY <2>1, <2>3 DEF Carries, Justified
    <3>2. mem[q].timeline = << "TASK_CREATED" >>
      BY <1>t, <3>1 DEF Linking
    <3>3. Len(mem'[q].timeline) = 2 /\ mem'[q].timeline[2] = "RETRY_ATTEMPT"
      BY <1>t, <2>2, <2>3, <3>2
    <3>4. ~HasStage(mem[q], "RETRY_ATTEMPT")
      BY <3>2 DEF HasStage
    <3>. QED BY <3>1, <3>3, <3>4
  <2>4. CASE stage # "RETRY_ATTEMPT"
    <3>1. HasStage(mem[q], "RETRY_ATTEMPT") /\ mem'[q].prior = mem[q].prior
      BY <1>t, <2>1, <2>2, <2>4, AppendedStages DEF Carries
    <3>2. Len(mem[q].timeline) >= 2 /\ mem[q].timeline[2] = "RETRY_ATTEMPT"
      BY <1>t, <3>1 DEF LinkOK
    <3>. QED BY <1>t, <2>2, <3>1, <3>2
  <2>. QED BY <2>3, <2>4
<1>. QED BY <1>1, <1>2, <1>3 DEF Forward

LEMMA LinksStay ==
    ASSUME OInv, LInv', Forward
    PROVE  /\ \A q \in RunId : LinkOK(mem[q])' /\ LinkOK(disk[q])'
           /\ OneLink(mem)' /\ OneLink(disk)'
<1>t. retryOf \in [RunId -> RunId \cup {NoRun}]
  BY DEF OInv, LInv, IInv, TypeOK
<1>1. ASSUME NEW q \in RunId PROVE LinkOK(mem[q])'
  <2>. SUFFICES ASSUME HasStage(mem'[q], "RETRY_ATTEMPT")
                PROVE  /\ Len(mem'[q].timeline) >= 2 /\ mem'[q].timeline[2] = "RETRY_ATTEMPT"
                       /\ mem'[q].prior \in RunId
                       /\ Status(disk'[mem'[q].prior]) = "interrupted"
    BY DEF LinkOK, HasStage, Status, Exists, LastStage
  <2>1. Len(mem'[q].timeline) >= 2 /\ mem'[q].timeline[2] = "RETRY_ATTEMPT"
    BY LinkedRecord
  <2>2. /\ mem'[q].prior \in RunId
        /\ Status(disk[mem'[q].prior]) = "interrupted"
    BY <1>t, LinkedRecord DEF OInv, LinksOK, LinkOK, Linking
  <2>. QED BY <2>1, <2>2, InterruptedStays
<1>2. ASSUME NEW q \in RunId PROVE LinkOK(disk[q])'
  <2>1. CASE disk' = mem'
    BY <1>1, <2>1 DEF LinkOK, HasStage, Status, Exists, LastStage
  <2>2. CASE disk' = disk
    BY <2>2 DEF OInv, LinksOK, LinkOK, HasStage, Status, Exists, LastStage
  <2>. QED BY <2>1, <2>2 DEF Forward
<1>3. OneLink(mem')
  <2>. SUFFICES ASSUME NEW a \in RunId, NEW b \in RunId,
                       HasStage(mem'[a], "RETRY_ATTEMPT"), HasStage(mem'[b], "RETRY_ATTEMPT"),
                       mem'[a].prior = mem'[b].prior
                PROVE  a = b
    BY DEF OneLink
  <2>1. CASE HasStage(mem[a], "RETRY_ATTEMPT") /\ HasStage(mem[b], "RETRY_ATTEMPT")
    BY <2>1, LinkedRecord DEF OInv, LinksOK, OneLink
  <2>2. CASE ~HasStage(mem[a], "RETRY_ATTEMPT") /\ ~HasStage(mem[b], "RETRY_ATTEMPT")
    BY <2>2, LinkedRecord DEF OInv, LinksOK, Linking
  <2>3. ASSUME NEW x \in RunId, NEW y \in RunId, HasStage(mem'[x], "RETRY_ATTEMPT"),
               HasStage(mem'[y], "RETRY_ATTEMPT"), ~HasStage(mem[x], "RETRY_ATTEMPT"),
               HasStage(mem[y], "RETRY_ATTEMPT"), mem'[x].prior = mem'[y].prior
        PROVE  FALSE
    <3>1. retryOf[x] # NoRun /\ mem[y].prior = retryOf[x]
      BY <2>3, LinkedRecord
    <3>2. NotRetried(retryOf[x])
      BY <3>1 DEF OInv, LinksOK, Linking
    <3>. QED BY <2>3, <3>1, <3>2 DEF NotRetried
  <2>. QED BY <2>1, <2>2, <2>3
<1>4. OneLink(disk')
  BY <1>3 DEF Forward, OInv, LinksOK
<1>. QED BY <1>1, <1>2, <1>3, <1>4 DEF OneLink, HasStage

LEMMA LinkingKept ==
    ASSUME OInv, LInv', Forward, NEW r \in RunId, Lives(r), NEW q \in RunId
    PROVE  Linking(q)'
<1>t. /\ retryOf \in [RunId -> RunId \cup {NoRun}] /\ mem \in [RunId -> RunRecord]
      /\ LInv
  BY DEF OInv, LInv, IInv, TypeOK
<1>1. CASE \E a \in RunId : retryOf[a] # NoRun
  <2>1. PICK a \in RunId : retryOf[a] # NoRun
    BY <1>1
  <2>2. LinkAttempt(a)
    BY <2>1, LinkTurn
  <2>3. \A b \in RunId : retryOf[b] # NoRun => b = a
    BY <2>1 DEF OInv, LinksOK, Linking
  <2>4. retryOf'[q] = NoRun
    BY <1>t, <2>2, <2>3 DEF LinkAttempt
  <2>. QED BY <2>4 DEF Linking
<1>2. CASE \A a \in RunId : retryOf[a] = NoRun
  <2>1. ASSUME NEW attempt \in RunId, Retry(r, attempt) PROVE Linking(q)'
    <3>. SUFFICES ASSUME retryOf'[q] # NoRun PROVE Linking(q)'
      BY DEF Linking
    <3>1. q = attempt /\ retryOf'[q] = r /\ \A b \in RunId : retryOf'[b] # NoRun => b = q
      BY <1>t, <1>2, <2>1 DEF Retry
    <3>2. /\ mem' = [mem EXCEPT ![attempt] = NewRecord(NoApproval, mem[r].frontend)]
          /\ disk' = mem'
      BY <1>t, <1>2, <2>1, <3>1 DEF Retry, Record, Flush
    <3>3. mem'[q].timeline = << "TASK_CREATED" >>
      BY <1>t, <3>1, <3>2 DEF NewRecord
    <3>4. Status(mem[r]) = "interrupted" /\ ~Exists(mem[attempt]) /\ NotRetried(r)
      BY <2>1 DEF Retry
    <3>5. mem'[r] = mem[r]
      BY <1>t, <3>2, <3>4 DEF Status
    <3>6. Status(disk'[r]) = "interrupted"
      BY <3>2, <3>4, <3>5
    <3>7. \A b \in RunId : HasStage(mem'[b], "RETRY_ATTEMPT") => mem'[b].prior # r
      <4>1. ~HasStage(mem'[attempt], "RETRY_ATTEMPT")
        BY <3>1, <3>3 DEF HasStage
      <4>2. \A b \in RunId : b # attempt => mem'[b] = mem[b]
        BY <1>t, <3>2
      <4>. QED BY <3>4, <4>1, <4>2 DEF NotRetried
    <3>8. \A b \in RunId : job'[b] \notin JobInTurn /\ agent'[b] \notin AgentInTurn
      BY <2>1 DEF Retry, Free, develop
    <3>. QED BY <3>1, <3>3, <3>6, <3>7, <3>8
         DEF Linking, NotRetried, HasStage, Status, Exists, LastStage
  <2>2. CASE UNCHANGED retryOf
    BY <1>2, <2>2 DEF Linking
  <2>3. CASE LinkAttempt(r)
    BY <1>2, <2>3 DEF LinkAttempt
  <2>. QED BY <2>1, <2>2, <2>3 DEF Lives, DispatchStep, DispatchBegins, EvaluatePolicy, Deny, Hold,
     SelectAgent, Attempt, AdapterAnswers, RecordSuccess, RecordPatch, RecordMiss, Exhaust,
     PromoteToPendingApproval, RecordFailure, others, WorkerStep, WorkerBegins, WorkerAnswers,
     AgentStep, AgentSelected, AgentBegins, AgentAnswers, AgentAudits, AgentFinishes,
     AgentSettles, Request, StartRun, ScheduleDispatch, DispatchRun, ClaimWorker, ClaimAgent,
     ApproveRun, ApplyReturns, RejectRun, Reconcile
<1>. QED BY <1>1, <1>2

-----------------------------------------------------------------------------
(* The invariant.                                                           *)

LEMMA InitOInv == Init => OInv
<1>. SUFFICES ASSUME Init PROVE OInv
  OBVIOUS
<1>1. \A q \in RunId : mem[q] = NoRecord /\ disk[q] = NoRecord
  BY DEF Init
<1>2. NoRecord.finished = "none" /\ \A s : ~HasStage(NoRecord, s)
  BY DEF NoRecord, HasStage
<1>3. RecordsOK
  BY <1>1, <1>2 DEF RecordsOK, RecordOK, EndsOnce, Decided, Finished, Truthful
<1>4. LinksOK
  BY <1>1, <1>2 DEF Init, LinksOK, LinkOK, OneLink, Linking
<1>5. ASSUME NEW q \in RunId PROVE Reported(q) /\ Applied(q)
  BY <1>1, <1>2 DEF Init, Reported, Applied
<1>. QED BY <1>3, <1>4, <1>5, InitLInv DEF OInv

LEMMA LivesOInv ==
    ASSUME OInv, LInv', NEW r \in RunId, Lives(r)
    PROVE  OInv'
<1>1. Living /\ (UNCHANGED applied \/ Applies(r))
  BY LivesKept, LivesMoves DEF Living, Kept, OInv
<1>2. \A q \in RunId : Reported(q)' /\ Applied(q)'
  BY <1>1, ReportedStays, AppliedKept
<1>3. LinksOK'
  BY <1>1, LinksStay, LinkingKept DEF LinksOK, Living
<1>. QED BY <1>1, <1>2, <1>3, RecordsKept DEF OInv

LEMMA CrashOInv ==
    ASSUME OInv, LInv', Crash
    PROVE  OInv'
<1>1. /\ mem' = disk /\ disk' = disk /\ UNCHANGED <<results, audits, outcome, applied>>
      /\ \A q \in RunId : /\ job'[q] = "idle" /\ worker'[q] = "idle" /\ agent'[q] = "idle"
                           /\ retryOf'[q] = NoRun
  BY DEF Crash, evidence, history
<1>2. RecordsOK'
  BY <1>1 DEF OInv, RecordsOK, RecordOK, EndsOnce, Decided, Finished, Truthful, HasClaim, HasStage,
     LastStage
<1>3. LinksOK'
  BY <1>1 DEF OInv, LinksOK, LinkOK, OneLink, Linking, HasStage, Status, Exists, LastStage
<1>4. ASSUME NEW q \in RunId PROVE Reported(q)' /\ Applied(q)'
  BY <1>1 DEF OInv, Reported, Applied, HasStage, VerdictOf
<1>. QED BY <1>2, <1>3, <1>4 DEF OInv

LEMMA StillOInv ==
    ASSUME OInv, LInv',
           UNCHANGED <<mem, disk, job, worker, agent, retryOf, results, audits, outcome, applied>>
    PROVE  OInv'
<1>2. RecordsOK'
  BY DEF OInv, RecordsOK, RecordOK, EndsOnce, Decided, Finished, Truthful, HasClaim, HasStage,
     LastStage
<1>3. LinksOK'
  BY DEF OInv, LinksOK, LinkOK, OneLink, Linking, NotRetried, HasStage, Status, Exists, LastStage
<1>4. ASSUME NEW q \in RunId PROVE Reported(q)' /\ Applied(q)'
  BY DEF OInv, Reported, Applied, HasStage, VerdictOf
<1>. QED BY <1>2, <1>3, <1>4 DEF OInv

LEMMA NextOInv == OInv /\ [Next]_vars => OInv'
<1>. SUFFICES ASSUME OInv, [Next]_vars PROVE OInv'
  OBVIOUS
<1>1. LInv'
  BY NextLInv DEF OInv
<1>2. CASE Listen
  BY <1>1, <1>2, StillOInv DEF Listen, timelines, develop, evidence, history
<1>3. CASE UNCHANGED vars
  BY <1>1, <1>3, StillOInv DEF vars
<1>. QED BY <1>1, <1>2, <1>3, LivesOInv, CrashOInv DEF Next, Lives

-----------------------------------------------------------------------------
(* The theorems.                                                            *)

\* The invariant LInv with what evidence, records and links say of
\* outcomes, decisions and originals.
THEOREM OutcomeInvariant == Spec => []OInv
BY InitOInv, NextOInv, PTL DEF Spec

\* recovery.js and recordCanonicalOutcome: a status that recovery or the agent lane
\* wrote is the outcome the executor reported, whatever died in between.
THEOREM StatusIsOutcome == Spec => []SettledTruthfully
<1>1. OInv => SettledTruthfully
  BY DEF OInv, RecordsOK, RecordOK, Truthful, SettledTruthfully
<1>. QED BY <1>1, OutcomeInvariant, PTL

\* approveRun and retry: what the Owner asks of a Run that ended happens once.
THEOREM AskedOnceDoneOnce == Spec => []OwnerActsOnce
<1>1. OInv => ApplyIsApprovedOnce
  <2>. SUFFICES ASSUME OInv, NEW r \in RunId
                PROVE  /\ applied[r] <= 1
                       /\ applied[r] > 0 => /\ HasStage(disk[r], "APPLYING")
                                            /\ ~HasStage(mem[r], "REJECTED")
    BY DEF ApplyIsApprovedOnce
  <2>1. "APPLYING" \in Stages
    BY DEF Stages
  <2>2. HasStage(disk[r], "APPLYING") => HasStage(mem[r], "APPLYING")
    BY <2>1 DEF OInv, LInv, FileOK
  <2>. QED BY <2>2 DEF OInv, Applied, RecordsOK, RecordOK, Decided
<1>2. OInv => RetriedOnce
  <2>. SUFFICES ASSUME OInv PROVE RetriedOnce
    OBVIOUS
  <2>1. ASSUME NEW a \in RunId, HasStage(mem[a], "RETRY_ATTEMPT")
        PROVE  mem[a].timeline[2] = "RETRY_ATTEMPT" /\ Status(mem[mem[a].prior]) = "interrupted"
    <3>1. /\ mem[a].timeline[2] = "RETRY_ATTEMPT"
          /\ mem[a].prior \in RunId /\ Status(disk[mem[a].prior]) = "interrupted"
      BY <2>1 DEF OInv, LinksOK, LinkOK
    <3>2. mem[mem[a].prior] = disk[mem[a].prior]
      BY <3>1 DEF OInv, LInv, FileOK, IsTerminal, TerminalStatuses
    <3>. QED BY <3>1, <3>2
  <2>. QED BY <2>1 DEF RetriedOnce, OInv, LinksOK, OneLink
<1>. QED BY <1>1, <1>2, OutcomeInvariant, PTL DEF OwnerActsOnce

-----------------------------------------------------------------------------
(***************************************************************************)
(* Proposals composed with the Run store, for every set of Runs, Proposals *)
(* and approvals, every set of lanes a boot may be configured for and every *)
(* number of crashes and failed writes.                                    *)
(*                                                                         *)
(* The argument.  First, the composition drives the store only in ways the *)
(* store's own invariant survives, so everything proved of a Run holds of  *)
(* a confirmed one.  Then the two files: a Run reaches an executor of the  *)
(* worker or the agent lane only after the proposals file names it         *)
(* (HandedOK), because the confirm holds the thread between its writes and *)
(* is at a known place after each (ConfirmOK); what the file says of a     *)
(* decided Proposal memory says too (FileAgrees), so no later write takes  *)
(* it back.  A Run the Owner was told nothing came of has no executor and  *)
(* never gets one (RepliedOK), since only the confirm that created a Run   *)
(* hands it off.                                                           *)
(***************************************************************************)
-----------------------------------------------------------------------------
(* The store under the composition.                                         *)

Enquires(r) == EnquiryBegins(r) \/ EnquiryAnswers(r)

\* The step writes no Run.
Paper == runStoreUnchanged /\ faults' \in Nat

LEMMA EnquiryKeeps ==
    ASSUME IInv, NEW r \in RunId, Enquires(r)
    PROVE  IInv'
<1>t. /\ agent \in [RunId -> AgentStates] /\ begun \in [RunId -> Nat]
      /\ outcome \in [RunId -> Outcomes]
  BY DEF IInv, TypeOK
<1>1. QuietStep
  BY KeptQuietly DEF Enquires, EnquiryBegins, EnquiryAnswers, IInv
<1>2. UNCHANGED <<startup, job, left, retryOf, applying, worker, evidence, applied, timelines>>
  BY DEF Enquires, EnquiryBegins, EnquiryAnswers, develop
<1>3. CASE UNCHANGED begun
  <2>1. PICK next \in {"working", "finishing"} : agent' = [agent EXCEPT ![r] = next]
    BY <1>3 DEF Enquires, EnquiryBegins, EnquiryAnswers
  <2>2. agent[r] # "idle" /\ next \in AgentStates
    BY DEF Enquires, EnquiryBegins, EnquiryAnswers, AgentStates, AgentInTurn
  <2>3. ExecutionHasDurableClaim' /\ HandedOffOnce' /\ agent' \in [RunId -> AgentStates]
    BY <1>1, <1>2, <1>3, <2>1, <2>2, AgentMoves
  <2>4. outcome' \in [RunId -> Outcomes]
    BY <1>t DEF Enquires, EnquiryBegins, EnquiryAnswers, Outcomes
  <2>5. TypeOK'
    BY <1>1, <1>2, <1>3, <2>3, <2>4
       DEF IInv, TypeOK, QuietStep, StoreInv, Typed, startup, evidence
  <2>. QED BY <1>1, <2>3, <2>5 DEF IInv, QuietStep
<1>4. CASE EnquiryBegins(r) /\ begun' = [begun EXCEPT ![r] = @ + 1]
                            /\ agent' = [agent EXCEPT ![r] = "working"] /\ UNCHANGED outcome
  <2>1. begun[r] = 0 /\ job[r] # "queued" /\ worker[r] # "queued"
    BY <1>4, OneHandOff DEF EnquiryBegins, IInv, HandedOffOnce, Queued
  <2>2. /\ agent[r] = "queued" /\ agent' \in [RunId -> AgentStates]
        /\ \A q \in RunId : q # r => agent'[q] = agent[q] /\ begun'[q] = begun[q]
        /\ agent'[r] = "working" /\ begun'[r] = 1 /\ begun' \in [RunId -> Nat]
    BY <1>4, <1>t, <2>1 DEF EnquiryBegins, AgentStates
  <2>3. ExecutionHasDurableClaim'
    BY <1>1, <1>2, <2>2 DEF IInv, ExecutionHasDurableClaim, QuietStep, ClaimsKept, HasClaim,
       ClaimStages
  <2>4. HandedOffOnce'
    BY <1>2, <2>1, <2>2 DEF IInv, HandedOffOnce, Queued
  <2>5. TypeOK'
    BY <1>1, <1>2, <1>4, <2>2
       DEF IInv, TypeOK, QuietStep, StoreInv, Typed, startup, evidence
  <2>. QED BY <1>1, <2>3, <2>4, <2>5 DEF IInv, QuietStep
<1>. QED BY <1>3, <1>4 DEF Enquires, EnquiryBegins, EnquiryAnswers

LEMMA EnquiryKept ==
    ASSUME LInv, NEW r \in RunId, Enquires(r)
    PROVE  Kept /\ todo' \subseteq todo
<1>1. PICK next \in {"working", "finishing"} : agent' = [agent EXCEPT ![r] = next]
  BY DEF Enquires, EnquiryBegins, EnquiryAnswers
<1>2. /\ UNCHANGED <<mem, disk, phase, job, retryOf, applying, worker, todo>>
      /\ agent[r] \in {"queued", "working"}
  BY DEF Enquires, EnquiryBegins, EnquiryAnswers, timelines, startup, develop
<1>3. Justified(r, "AGENT_RUNNING") /\ "AGENT_RUNNING" \in Stages
  BY DEF Justified, Stages
<1>4. Kept
  BY <1>1, <1>2, <1>3, AgentTurn DEF Carrying
<1>. QED BY <1>2, <1>4

LEMMA EnquiryBegun ==
    ASSUME LInv, NEW r \in RunId, Enquires(r)
    PROVE  UNCHANGED begun \/ Begins(r)
<1>1. CASE EnquiryBegins(r)
  <2>1. TurnOK(r)
    BY DEF LInv
  <2>. QED BY <1>1, <2>1, BeginsOpen
           DEF EnquiryBegins, TurnOK, Queued, Carrying, TerminalStages, ReconcileMarks
<1>. QED BY <1>1 DEF Enquires, EnquiryAnswers

LEMMA PaperKeeps ==
    ASSUME LInv, Paper
    PROVE  LInv'
<1> USE DEF Paper, runStoreUnchanged, startup, develop, evidence, history
<1>1. QuietStep
  BY DEF LInv, IInv, StoreInv, QuietStep, ClaimsKept, Typed, ClaimsInMemory, ClaimsExclusive
<1>2. ExecutionHasDurableClaim' /\ HandedOffOnce'
  BY <1>1, ControlKept DEF LInv
<1>3. TypeOK'
  BY DEF LInv, IInv, TypeOK
<1>4. ASSUME NEW q \in RunId PROVE FileOK(q)' /\ TurnOK(q)'
  BY DEF LInv, FileOK, TurnOK, HasClaim, HasStage, IsTerminal, Status, Exists, LastStage
<1>5. TodoOK'
  BY DEF LInv, TodoOK, Exists
<1>. QED BY <1>1, <1>2, <1>3, <1>4, <1>5 DEF LInv, IInv, QuietStep

\* The position of a confirm names what it confirms.
ConfirmNames == confirm.step # "none" => confirm.proposal \in ProposalId /\ confirm.run \in RunId

\* Every step of the composition is one the store knows, or writes no Run.
LEMMA FlowDrives ==
    ASSUME LInv, ConfirmNames, [FlowNext]_flowVars
    PROVE  \/ \E r \in RunId : Lives(r) \/ Enquires(r)
           \/ Listen \/ Restart \/ Paper
<1>t. faults \in Nat /\ mem \in [RunId -> RunRecord]
  BY DEF LInv, IInv, TypeOK
<1>p. UNCHANGED vars => Paper
  BY <1>t DEF vars, Paper, runStoreUnchanged, startup, develop, evidence, history
<1>e. ASSUME NEW p, NEW proposal, EditProposal(p, proposal) PROVE Paper
  BY <1>e, <1>t DEF EditProposal, FlushProposals, Paper
<1>1. ASSUME NEW p \in ProposalId, ProposalStep(p)
      PROVE  Paper \/ \E r \in RunId : Lives(r)
  <2>1. CASE \E r \in RunId, kind \in Kinds, approval \in Approval \cup {NoApproval},
                fits \in BOOLEAN : ConfirmProposal(p, r, kind, approval, fits)
    <3>1. PICK r \in RunId, kind \in Kinds, approval \in Approval \cup {NoApproval},
               fits \in BOOLEAN : ConfirmProposal(p, r, kind, approval, fits)
      BY <2>1
    <3>2. StartRun(r, approval, FALSE)
      BY <3>1 DEF ConfirmProposal
    <3>. QED BY <3>2 DEF Lives, Request
  <2>. QED BY <1>1, <1>e, <2>1 DEF ProposalStep, Propose, CreateBridgeProposal, CancelProposal,
           SetLinkState
<1>2. CASE ConfirmSchedules
  BY <1>2 DEF ConfirmSchedules, ConfirmNames, Lives, Request
<1>3. CASE ConfirmPersists
  BY <1>3, <1>t DEF ConfirmPersists, FlushProposals, Paper
<1>4. CASE ConfirmSpawnsWorker
  BY <1>4, <1>p DEF ConfirmSpawnsWorker, ConfirmNames, Lives, Request
<1>5. CASE ConfirmReplies
  <2>1. confirm.run \in RunId /\ mem[confirm.run].approval \in Approval \cup {NoApproval}
    BY <1>5, <1>t DEF ConfirmReplies, ConfirmNames, RunRecord
  <2>2. CASE UNCHANGED vars
    BY <2>2, <1>p
  <2>3. CASE /\ mem[confirm.run].approval # NoApproval
             /\ ClaimAgent(confirm.run, mem[confirm.run].approval)
    BY <2>1, <2>3 DEF Lives, Request
  <2>. QED BY <1>5, <2>2, <2>3 DEF ConfirmReplies
<1>6. ASSUME NEW r \in RunId, Background(r) PROVE Lives(r) \/ Enquires(r)
  BY <1>6 DEF Background, HandedOff, EnquiryStep, Enquires, Lives, AgentStep
<1>7. CASE Startup
  BY <1>7 DEF Startup, Lives
<1>8. CASE UNCHANGED flowVars
  BY <1>8, <1>p DEF flowVars
<1>. QED BY <1>1, <1>2, <1>3, <1>4, <1>5, <1>6, <1>7, <1>8 DEF FlowNext, ConfirmStep

\* The invariant of the store survives, memory only moves forward, and at most one
\* execution begins.
LEMMA FlowKeepsStore ==
    ASSUME LInv, ConfirmNames, [FlowNext]_flowVars
    PROVE  /\ LInv'
           /\ Forward \/ Restart
           /\ \/ UNCHANGED begun
              \/ \E r \in RunId : Forward /\ Begins(r)
<1>1. ASSUME NEW r \in RunId, Lives(r)
      PROVE  LInv' /\ Forward /\ (UNCHANGED begun \/ Begins(r))
  <2>1. IInv'
    BY <1>1, NextKeeps DEF LInv, Lives, Next
  <2>. QED BY <1>1, <2>1, LivesKept, LivesBegins, TodoKept DEF Kept, LInv
<1>2. ASSUME NEW r \in RunId, Enquires(r)
      PROVE  LInv' /\ Forward /\ (UNCHANGED begun \/ Begins(r))
  <2>1. IInv'
    BY <1>2, EnquiryKeeps DEF LInv
  <2>. QED BY <1>2, <2>1, EnquiryKept, EnquiryBegun, TodoKept DEF Kept, LInv
<1>3. CASE Listen
  <2>1. IInv' /\ Kept /\ todo' \subseteq todo
    BY <1>3, ListenKeeps, ListenKept DEF LInv, Listen
  <2>. QED BY <1>3, <2>1, TodoKept DEF Kept, LInv, Listen, history
<1>4. CASE Restart
  <2>1. IInv' /\ Crash
    BY <1>4, CrashKeeps DEF LInv, Restart
  <2>. QED BY <1>4, <2>1, CrashKept DEF LInv, Crash, history
<1>5. CASE Paper
  <2>1. UNCHANGED <<mem, disk, begun>>
    BY <1>5 DEF Paper, runStoreUnchanged, history
  <2>. QED BY <1>5, <2>1, PaperKeeps DEF Forward
<1>. QED BY <1>1, <1>2, <1>3, <1>4, <1>5, FlowDrives

-----------------------------------------------------------------------------
(* The invariant of the composition.                                        *)

Final == {"confirmed", "cancelled"}

\* The proposals file holds the confirmed Proposal that r was created for.
Filed(r) == \E p \in ProposalId : /\ filed[p].status = "confirmed"
                                  /\ filed[p].run = r
                                  /\ source[r] = p

\* Memory and file of a Proposal: no later write takes a decision back, and a Run
\* that either names is in the runs file.
FileAgrees(p) ==
    /\ filed[p].status \in Final => proposals[p].status = filed[p].status
    /\ filed[p].status = "confirmed" => proposals[p].run = filed[p].run
    /\ filed[p].run # NoRun => Exists(disk[filed[p].run])
    /\ proposals[p].run # NoRun => Exists(disk[proposals[p].run])

ApprovalOK(r) == Exists(disk[r]) => Exists(mem[r]) /\ disk[r].approval = mem[r].approval

\* Nobody has been handed r.
Spared(r) == job[r] = "idle" /\ worker[r] = "idle" /\ agent[r] = "idle" /\ begun[r] = 0

\* Where a confirm is: its Run is in the file and in nobody's hands but those of the
\* lane it just passed, and the file calls its Proposal confirmed exactly from the
\* write of that file on.
ConfirmOK ==
    confirm.step # "none" =>
        /\ confirm.proposal \in ProposalId /\ confirm.run \in RunId
        /\ proposals[confirm.proposal].status = "confirmed"
        /\ source[confirm.run] = confirm.proposal
        /\ Exists(disk[confirm.run]) /\ reply[confirm.run] = "none"
        /\ begun[confirm.run] = 0 /\ agent[confirm.run] = "idle"
        /\ confirm.step # "scheduling" /\ lane # "develop" => job[confirm.run] = "idle"
        /\ confirm.step # "handoff" \/ lane # "worker" => worker[confirm.run] = "idle"
        /\ confirm.step \in {"scheduling", "persisting"}
              => filed[confirm.proposal].status \notin Final
        /\ confirm.step \in {"spawning", "handoff"} => Filed(confirm.run)

\* Only the confirm that created a Run schedules it.
CreatedOK ==
    \A r \in RunId : job[r] = "created" => confirm.step = "scheduling" /\ confirm.run = r

HandedOK(r) ==
    HasStage(mem[r], "AGENT_CLAIMED") \/ HasStage(mem[r], "WORKER_CLAIMED") => Filed(r)

RepliedOK(r) ==
    /\ reply[r] # "none" => Exists(disk[r])
    /\ reply[r] \in Refused => Spared(r)
    /\ reply[r] \in Accepted => /\ HasStage(disk[r], "AGENT_CLAIMED")
                                /\ disk[r].approval # NoApproval

\* The Develop lane claims before the proposals file is written: a failed write in
\* between leaves its Run executing under a Proposal that the file calls pending.
OneAtATime == "develop" \notin Lanes \/ MaxFaults = 0

ExecutedOK(r) ==
    OneAtATime =>
        /\ job[r] \notin {"idle", "created"}
              => Filed(r) \/ (confirm.step = "persisting" /\ confirm.run = r)
        /\ begun[r] > 0 => Filed(r)

RunOK(r) == ApprovalOK(r) /\ HandedOK(r) /\ RepliedOK(r) /\ ExecutedOK(r)

FlowTyped ==
    /\ lane \in Lanes
    /\ proposals \in [ProposalId -> Proposal] /\ filed \in [ProposalId -> Proposal]
    /\ confirm \in Confirm
    /\ order \in [RunId -> Kinds]
    /\ source \in [RunId -> ProposalId \cup {NoProposal}]
    /\ reply \in [RunId -> Replies]

FlowInv == /\ LInv /\ FlowTyped
           /\ \A p \in ProposalId : FileAgrees(p)
           /\ ConfirmOK /\ CreatedOK
           /\ \A r \in RunId : RunOK(r)

-----------------------------------------------------------------------------
(* What a step leaves as it was.                                            *)

\* A step of a living process forgets no Run, no approval and no stage of the file.
LEMMA StoreForward ==
    ASSUME LInv, LInv', Forward, NEW q \in RunId, ApprovalOK(q)
    PROVE  /\ ApprovalOK(q)'
           /\ Exists(mem[q]) => Exists(mem'[q]) /\ mem'[q].approval = mem[q].approval
           /\ Exists(disk[q]) => Exists(disk'[q]) /\ disk'[q].approval = disk[q].approval
           /\ \A s \in Stages : HasStage(disk[q], s) => HasStage(disk'[q], s)
<1>t. mem[q] \in RunRecord /\ mem[q].timeline \in Seq(Stages)
  BY DEF LInv, IInv, TypeOK, RunRecord
<1>1. Exists(mem[q]) => Exists(mem'[q]) /\ mem'[q].approval = mem[q].approval
  <2>1. CASE Extended(q)
    BY <1>t, <2>1 DEF Extended, Carries, Exists
  <2>. QED BY <2>1 DEF Forward, Opened
<1>2. mem'[q] = mem[q] \/ Exists(mem'[q])
  <2>1. Opened(q) => Exists(mem'[q])
    BY DEF Opened, Blank, Exists
  <2>. QED BY <1>1, <2>1 DEF Forward, Extended
<1>3. disk'[q] = disk[q] \/ disk'[q] = mem'[q]
  BY DEF Forward
<1>4. /\ ApprovalOK(q)'
      /\ Exists(disk[q]) => Exists(disk'[q]) /\ disk'[q].approval = disk[q].approval
  BY <1>1, <1>2, <1>3 DEF ApprovalOK, Exists
<1>5. ASSUME NEW s \in Stages, HasStage(disk[q], s) PROVE HasStage(disk'[q], s)
  <2>1. HasStage(mem[q], s)
    BY <1>5 DEF LInv, FileOK
  <2>2. HasStage(mem'[q], s)
    BY <2>1, ForwardGrows
  <2>. QED BY <1>3, <1>5, <2>2
<1>. QED BY <1>1, <1>4, <1>5

\* A step of an executor, of an enquiry or of the startup takes no claim.
LEMMA NoClaimTaken ==
    ASSUME IInv, NEW r \in RunId,
           \/ DispatchStep(r) \/ WorkerStep(r) \/ AgentStep(r) \/ Enquires(r)
           \/ Reconcile(r) \/ Listen
    PROVE  QuietStep
<1>s. /\ {"POLICY_EVALUATED", "DENIED", "PENDING_APPROVAL", "AGENT_SELECTED", "AGENT_RUNNING",
          "AGENT_FINISHED", "PATCH_READY", "FAILED", "SUCCEEDED"} \subseteq Stages \ ClaimStages
      /\ ReconcileMarks \subseteq Stages \ ClaimStages
  BY DEF Stages, ClaimStages, ReconcileMarks, TerminalStages
<1>t. mem[r] \in RunRecord /\ outcome[r] \in Outcomes /\ StoreInv
  BY DEF IInv, TypeOK
<1>a. \A stage \in Stages : /\ Appended(mem[r], stage) \in RunRecord
                            /\ Appended(mem[r], stage).timeline = Append(mem[r].timeline, stage)
  BY <1>t, AppendedType
<1>m. \A next, thrown : \A stage \in Stages \ ClaimStages :
         Milestone(r, stage, next, thrown) => QuietStep
  BY <1>t, MilestoneQuietly
<1>k. UNCHANGED timelines => QuietStep
  BY <1>t, KeptQuietly
<1>r. \A stage \in Stages \ ClaimStages :
         RecordQuietly(r, Appended(mem[r], stage), stage) => QuietStep
  BY <1>t, <1>a, RecordedQuietly
<1>1. CASE DispatchStep(r)
  BY <1>1, <1>s, <1>m, <1>k, <1>r
     DEF DispatchStep, DispatchBegins, EvaluatePolicy, Deny, Hold, SelectAgent, Attempt,
     AdapterAnswers, RecordSuccess, RecordPatch, RecordMiss, Exhaust,
     PromoteToPendingApproval, RecordFailure
<1>2. CASE WorkerStep(r) \/ Enquires(r) \/ Listen
  BY <1>2, <1>k DEF WorkerStep, WorkerBegins, WorkerAnswers, Enquires, EnquiryBegins,
     EnquiryAnswers, Listen
<1>3. CASE AgentStep(r)
  <2>1. CASE AgentFinishes(r)
    <3> DEFINE run == [Appended(mem[r], "AGENT_FINISHED") EXCEPT !.finished = outcome[r]]
    <3>1. Appended(mem[r], "AGENT_FINISHED") \in RunRecord
      BY <1>s, <1>a
    <3>2. run \in RunRecord /\ run.timeline = Append(mem[r].timeline, "AGENT_FINISHED")
      BY <1>s, <1>t, <1>a, <3>1 DEF RunRecord
    <3>3. RecordQuietly(r, run, "AGENT_FINISHED")
      BY <2>1 DEF AgentFinishes
    <3> HIDE DEF run
    <3>. QED BY <1>s, <1>t, <3>2, <3>3, RecordedQuietly
  <2>. QED BY <1>3, <1>s, <1>k, <1>r, <2>1 DEF AgentStep, AgentSelected, AgentBegins,
           AgentAnswers, AgentAudits, AgentSettles
<1>4. CASE Reconcile(r)
  <2> DEFINE mark == RecoveryMark(mem[r], r \in tasks, results[r], AuditOutcome(r, audits))
  <2>1. mark \in ReconcileMarks
    BY DEF RecoveryMark, MarkOf, ReconcileMarks
  <2> HIDE DEF mark
  <2>. QED BY <1>4, <1>s, <1>t, <1>a, <1>k, <2>1, AppendedQuietly DEF Reconcile, mark
<1>. QED BY <1>1, <1>2, <1>3, <1>4

\* Work in the background is that of an executor, and concerns no other Run.
LEMMA BackgroundMoves ==
    ASSUME LInv, NEW r \in RunId, Background(r)
    PROVE  /\ job[r] \notin {"idle", "created"} \/ worker[r] # "idle" \/ agent[r] # "idle"
           /\ \A q \in RunId : q # r => /\ job'[q] = job[q] /\ worker'[q] = worker[q]
                                        /\ agent'[q] = agent[q] /\ begun'[q] = begun[q]
           /\ job'[r] = "created" => job[r] = "created"
           /\ job'[r] \notin {"idle", "created"} => job[r] \notin {"idle", "created"}
<1>t. /\ job \in [RunId -> JobStates] /\ begun \in [RunId -> Nat]
      /\ worker \in [RunId -> WorkerStates] /\ agent \in [RunId -> AgentStates]
  BY DEF LInv, IInv, TypeOK
<1>1. CASE DispatchStep(r)
  <2>1. job[r] \notin {"idle", "created"} /\ UNCHANGED <<worker, agent>>
    BY <1>1 DEF DispatchStep, DispatchBegins, EvaluatePolicy, Deny, Hold, SelectAgent, Attempt,
       AdapterAnswers, RecordSuccess, RecordPatch, RecordMiss, Exhaust,
       PromoteToPendingApproval, RecordFailure, others
  <2>2. \A q \in RunId : /\ q # r => job'[q] = job[q]
                         /\ job'[r] # "created"
    BY <1>1, <1>t DEF DispatchStep, DispatchBegins, EvaluatePolicy, Deny, Hold, SelectAgent,
       Attempt, AdapterAnswers, RecordSuccess, RecordPatch, RecordMiss, Exhaust,
       PromoteToPendingApproval, RecordFailure, Milestone
  <2>3. UNCHANGED begun \/ begun' = [begun EXCEPT ![r] = @ + 1]
    BY <1>1 DEF DispatchStep, DispatchBegins, EvaluatePolicy, Deny, Hold, SelectAgent, Attempt,
       AdapterAnswers, RecordSuccess, RecordPatch, RecordMiss, Exhaust,
       PromoteToPendingApproval, RecordFailure, history
  <2>. QED BY <1>t, <2>1, <2>2, <2>3
<1>2. CASE WorkerStep(r)
  BY <1>2, <1>t DEF WorkerStep, WorkerBegins, WorkerAnswers, develop
<1>3. CASE AgentStep(r)
  <2>1. agent[r] # "idle" /\ UNCHANGED <<job, worker>>
    BY <1>3 DEF AgentStep, AgentSelected, AgentBegins, AgentAnswers, AgentAudits,
       AgentFinishes, AgentSettles, develop
  <2>2. \A q \in RunId : q # r => agent'[q] = agent[q]
    BY <1>3, <1>t DEF AgentStep, AgentSelected, AgentBegins, AgentAnswers, AgentAudits,
       AgentFinishes, AgentSettles
  <2>3. UNCHANGED begun \/ begun' = [begun EXCEPT ![r] = @ + 1]
    BY <1>3 DEF AgentStep, AgentSelected, AgentBegins, AgentAnswers, AgentAudits,
       AgentFinishes, AgentSettles, history
  <2>. QED BY <1>t, <2>1, <2>2, <2>3
<1>4. CASE Enquires(r)
  BY <1>4, <1>t DEF Enquires, EnquiryBegins, EnquiryAnswers, develop
<1>. QED BY <1>1, <1>2, <1>3, <1>4 DEF Background, HandedOff, EnquiryStep, Enquires, AgentStep

-----------------------------------------------------------------------------
(* Steps.                                                                   *)

\* A decision that the file holds stays, and with it the Run it names.
DecisionsKept ==
    \A p \in ProposalId :
        /\ filed[p].status \in Final => filed'[p].status = filed[p].status
        /\ filed[p].status = "confirmed" => filed'[p].run = filed[p].run

FlowKept == /\ FlowTyped' /\ DecisionsKept
            /\ \A p \in ProposalId : FileAgrees(p)'
            /\ ConfirmOK' /\ CreatedOK'
            /\ \A r \in RunId : RunOK(r)'

LEMMA FiledStays ==
    ASSUME DecisionsKept, NEW r, source'[r] = source[r], Filed(r)
    PROVE  Filed(r)'
BY DEF DecisionsKept, Filed, Final

\* One Proposal is rewritten in memory and perhaps in the file.
LEMMA EditedFiles ==
    ASSUME FlowTyped, \A x \in ProposalId : FileAgrees(x),
           \A q \in RunId : Exists(disk[q]) => Exists(disk'[q]),
           NEW p \in ProposalId, NEW proposal \in Proposal,
           proposals' = [proposals EXCEPT ![p] = proposal],
           filed' = filed \/ filed' = proposals',
           filed[p].status \in Final => proposal.status = proposals[p].status,
           filed[p].status = "confirmed" => proposal.run = proposals[p].run,
           proposal.run # NoRun => Exists(disk'[proposal.run])
    PROVE  DecisionsKept /\ \A x \in ProposalId : FileAgrees(x)'
<1>t. /\ \A x \in ProposalId : proposals[x] \in Proposal /\ filed[x] \in Proposal
      /\ \A x \in ProposalId : proposals'[x] = IF x = p THEN proposal ELSE proposals[x]
  BY DEF FlowTyped
<1>1. ASSUME NEW x \in ProposalId
      PROVE  /\ filed[x].status \in Final => proposals'[x].status = filed[x].status
             /\ filed[x].status = "confirmed" => proposals'[x].run = filed[x].run
             /\ filed[x].run # NoRun => Exists(disk'[filed[x].run])
             /\ proposals'[x].run # NoRun => Exists(disk'[proposals'[x].run])
  <2>1. filed[x].run \in RunId \cup {NoRun} /\ proposals[x].run \in RunId \cup {NoRun}
    BY <1>t DEF Proposal
  <2>2. FileAgrees(x)
    OBVIOUS
  <2>. QED BY <1>t, <2>1, <2>2 DEF FileAgrees, Final
<1>2. DecisionsKept
  BY <1>1 DEF DecisionsKept
<1>3. \A x \in ProposalId : FileAgrees(x)'
  BY <1>1 DEF FileAgrees, Exists
<1>. QED BY <1>2, <1>3

LEMMA SameFiles ==
    ASSUME FlowInv, Forward, LInv', UNCHANGED <<proposals, filed>>
    PROVE  DecisionsKept /\ \A x \in ProposalId : FileAgrees(x)'
<1>1. \A q \in RunId : Exists(disk[q]) => Exists(disk'[q])
  BY StoreForward DEF FlowInv, RunOK
<1>2. ASSUME NEW x \in ProposalId PROVE FileAgrees(x)'
  <2>1. filed[x].run \in RunId \cup {NoRun} /\ proposals[x].run \in RunId \cup {NoRun}
    BY DEF FlowInv, FlowTyped, Proposal
  <2>. QED BY <1>1, <2>1 DEF FlowInv, FileAgrees, Exists
<1>. QED BY <1>2 DEF DecisionsKept

\* A Run that the step does not concern.
LEMMA OtherRun ==
    ASSUME FlowInv, LInv', Forward, DecisionsKept, NEW q \in RunId,
           job'[q] = job[q], worker'[q] = worker[q], agent'[q] = agent[q],
           begun'[q] = begun[q], reply'[q] = reply[q], source'[q] = source[q],
           \A claim \in {"AGENT_CLAIMED", "WORKER_CLAIMED"} :
              HasStage(mem'[q], claim) => HasStage(mem[q], claim),
           OneAtATime /\ job[q] \notin {"idle", "created"}
                      /\ confirm.step = "persisting" /\ confirm.run = q
              => Filed(q)' \/ (confirm'.step = "persisting" /\ confirm'.run = q)
    PROVE  RunOK(q)'
<1>1. RunOK(q)
  BY DEF FlowInv
<1>2. /\ ApprovalOK(q)'
      /\ Exists(disk[q]) => Exists(disk'[q]) /\ disk'[q].approval = disk[q].approval
      /\ HasStage(disk[q], "AGENT_CLAIMED") => HasStage(disk'[q], "AGENT_CLAIMED")
  BY <1>1, StoreForward DEF RunOK, FlowInv, Stages, ClaimStages
<1>3. Filed(q) => Filed(q)'
  BY FiledStays
<1>4. HandedOK(q)'
  <2>1. ASSUME NEW claim \in {"AGENT_CLAIMED", "WORKER_CLAIMED"}, HasStage(mem'[q], claim)
        PROVE  Filed(q)'
    BY <1>1, <1>3, <2>1 DEF RunOK, HandedOK
  <2>. QED BY <2>1 DEF HandedOK, HasStage
<1>5. RepliedOK(q)'
  <2>1. reply'[q] # "none" => Exists(disk'[q])
    BY <1>1, <1>2 DEF RunOK, RepliedOK
  <2>2. reply'[q] \in Accepted
           => HasStage(disk'[q], "AGENT_CLAIMED") /\ disk'[q].approval # NoApproval
    BY <1>1, <1>2, ClaimedExists DEF RunOK, RepliedOK
  <2>3. Spared(q) => Spared(q)'
    BY DEF Spared
  <2>. QED BY <1>1, <2>1, <2>2, <2>3 DEF RunOK, RepliedOK, HasStage, Exists
<1>6. ExecutedOK(q)'
  BY <1>1, <1>3 DEF RunOK, ExecutedOK, OneAtATime
<1>. QED BY <1>2, <1>4, <1>5, <1>6 DEF RunOK

\* A step that changes Proposals and no Run, while nothing is being confirmed.
LEMMA EditKept ==
    ASSUME FlowInv, LInv', Forward,
           NEW p \in ProposalId, NEW proposal \in Proposal, EditProposal(p, proposal),
           filed[p].status \in Final
              => proposal.status = proposals[p].status /\ proposal.run = proposals[p].run,
           proposal.run \in {NoRun, proposals[p].run}
    PROVE  FlowKept
<1>1. /\ confirm.step = "none" /\ UNCHANGED <<lane, confirm, order, reply, source>>
      /\ UNCHANGED <<mem, disk, job, worker, agent, begun>>
      /\ proposals' = [proposals EXCEPT ![p] = proposal]
      /\ filed' = filed \/ filed' = proposals'
  BY DEF EditProposal, Idle, runStoreUnchanged, FlushProposals, develop, history
<1>2. FlowTyped'
  BY <1>1 DEF FlowInv, FlowTyped
<1>3. DecisionsKept /\ \A x \in ProposalId : FileAgrees(x)'
  <2>1. proposal.run # NoRun => Exists(disk'[proposal.run])
    BY <1>1 DEF FlowInv, FileAgrees, Exists
  <2>. QED BY <1>1, <2>1, EditedFiles DEF FlowInv, Exists, Final
<1>4. ConfirmOK' /\ CreatedOK'
  BY <1>1 DEF FlowInv, ConfirmOK, CreatedOK
<1>5. ASSUME NEW q \in RunId PROVE RunOK(q)'
  BY <1>1, <1>3, OtherRun DEF HasStage
<1>. QED BY <1>2, <1>3, <1>4, <1>5 DEF FlowKept

LEMMA ProposalKept ==
    ASSUME FlowInv, LInv', Forward, NEW p \in ProposalId,
           \/ Propose(p) \/ CreateBridgeProposal(p) \/ CancelProposal(p)
           \/ \E link \in LinkStates : SetLinkState(p, link)
    PROVE  FlowKept
<1>t. proposals[p] \in Proposal /\ FileAgrees(p)
  BY DEF FlowInv, FlowTyped
<1>u. proposals[p].status \notin Final => filed[p].status \notin Final
  BY <1>t DEF FileAgrees
<1> USE DEF Proposal, Statuses, LinkStates, Final
<1>1. CASE Propose(p)
  <2> DEFINE proposal == [NoSuchProposal EXCEPT !.status = "pending"]
  <2>1. proposal \in Proposal /\ proposal.run = NoRun
    BY DEF NoSuchProposal
  <2>2. EditProposal(p, proposal) /\ proposals[p].status = "absent"
    BY <1>1 DEF Propose
  <2> HIDE DEF proposal
  <2>. QED BY <1>u, <2>1, <2>2, EditKept
<1>2. CASE CreateBridgeProposal(p)
  <2> DEFINE proposal == [NoSuchProposal EXCEPT !.status = "pending", !.link = "linking"]
  <2>1. proposal \in Proposal /\ proposal.run = NoRun
    BY DEF NoSuchProposal
  <2>2. EditProposal(p, proposal) /\ proposals[p].status = "absent"
    BY <1>2 DEF CreateBridgeProposal
  <2> HIDE DEF proposal
  <2>. QED BY <1>u, <2>1, <2>2, EditKept
<1>3. CASE CancelProposal(p)
  <2> DEFINE proposal == [proposals[p] EXCEPT !.status = "cancelled"]
  <2>1. proposal \in Proposal /\ proposal.run = proposals[p].run
    BY <1>t
  <2>2. EditProposal(p, proposal) /\ proposals[p].status = "pending"
    BY <1>3 DEF CancelProposal
  <2> HIDE DEF proposal
  <2>. QED BY <1>u, <2>1, <2>2, EditKept
<1>4. ASSUME NEW link \in LinkStates, SetLinkState(p, link) PROVE FlowKept
  <2> DEFINE proposal == [proposals[p] EXCEPT !.link = link]
  <2>1. /\ proposal \in Proposal /\ proposal.run = proposals[p].run
        /\ proposal.status = proposals[p].status
    BY <1>t
  <2>2. EditProposal(p, proposal)
    BY <1>4 DEF SetLinkState
  <2> HIDE DEF proposal
  <2>. QED BY <2>1, <2>2, EditKept
<1>. QED BY <1>1, <1>2, <1>3, <1>4

\* The creation of a Run for a Proposal, which memory calls confirmed at once.
LEMMA ConfirmKept ==
    ASSUME FlowInv, LInv', Forward, NEW p \in ProposalId, NEW r \in RunId, NEW kind \in Kinds,
           NEW approval \in Approval \cup {NoApproval}, NEW fits \in BOOLEAN,
           ConfirmProposal(p, r, kind, approval, fits)
    PROVE  FlowKept
<1>t. /\ proposals \in [ProposalId -> Proposal] /\ source \in [RunId -> ProposalId \cup {NoProposal}]
      /\ order \in [RunId -> Kinds] /\ mem \in [RunId -> RunRecord] /\ job \in [RunId -> JobStates]
  BY DEF FlowInv, FlowTyped, LInv, IInv, TypeOK
<1>1. PICK ok \in BOOLEAN : /\ Record(r, NewRecord(approval, FALSE), ok)
                            /\ job' = [job EXCEPT ![r] = IF ok THEN "created" ELSE "idle"]
  BY DEF ConfirmProposal, StartRun
<1>2. /\ Free /\ confirm.step = "none" /\ ~Exists(mem[r])
      /\ proposals[p].status = "pending"
      /\ proposals' = [proposals EXCEPT ![p].status = "confirmed"]
      /\ source' = [source EXCEPT ![r] = p] /\ order' = [order EXCEPT ![r] = kind]
      /\ UNCHANGED <<lane, filed, reply, worker, agent, begun>>
  BY DEF ConfirmProposal, Idle, StartRun, history
<1>3. /\ mem' = [mem EXCEPT ![r] = NewRecord(approval, FALSE)]
      /\ ok => disk' = mem'
  BY <1>1 DEF Record, Flush
<1>4. confirm' = IF ok THEN [step |-> "scheduling", proposal |-> p, run |-> r,
                             kind |-> kind, fits |-> fits]
                       ELSE NoConfirm
  BY <1>1, <1>t DEF ConfirmProposal
<1>5. /\ ~Exists(disk[r]) /\ ~HasClaim(mem[r]) /\ reply[r] = "none" /\ begun[r] = 0
      /\ worker[r] = "idle" /\ agent[r] = "idle" /\ job[r] = "idle"
  <2>1. RunOK(r) /\ CreatedOK
    BY DEF FlowInv
  <2>2. ~Exists(disk[r]) /\ reply[r] = "none"
    BY <1>2, <2>1 DEF RunOK, ApprovalOK, RepliedOK
  <2>3. ~HasClaim(mem[r])
    BY <1>2, ClaimedExists DEF HasClaim
  <2>4. begun[r] = 0 /\ job[r] \in {"idle", "created"} /\ worker[r] = "idle" /\ agent[r] = "idle"
    BY <2>3, GateFindsNothing DEF FlowInv, LInv
  <2>. QED BY <1>2, <2>1, <2>2, <2>3, <2>4 DEF CreatedOK
<1>6. mem'[r].timeline = << "TASK_CREATED" >> /\ Exists(mem'[r])
  <2>1. mem'[r] = NewRecord(approval, FALSE)
    BY <1>3, <1>t
  <2>. QED BY <2>1, NewRecordType DEF NewRecord, Exists
<1>7. FlowTyped'
  <2>1. proposals' \in [ProposalId -> Proposal]
    BY <1>t, <1>2 DEF Proposal, Statuses
  <2>2. confirm' \in Confirm
    BY <1>4 DEF Confirm, NoConfirm, Steps, Kinds
  <2>. QED BY <1>t, <1>2, <2>1, <2>2 DEF FlowInv, FlowTyped
<1>8. DecisionsKept /\ \A x \in ProposalId : FileAgrees(x)'
  <2> DEFINE proposal == [proposals[p] EXCEPT !.status = "confirmed"]
  <2>1. /\ proposal \in Proposal /\ proposal.run = proposals[p].run
        /\ proposals' = [proposals EXCEPT ![p] = proposal]
    BY <1>t, <1>2 DEF Proposal, Statuses
  <2>2. filed[p].status \notin Final
    BY <1>2 DEF FlowInv, FileAgrees, Final
  <2>3. \A q \in RunId : Exists(disk[q]) => Exists(disk'[q])
    BY StoreForward DEF FlowInv, RunOK
  <2>4. proposal.run # NoRun => Exists(disk'[proposal.run])
    BY <1>t, <2>1, <2>3 DEF FlowInv, FileAgrees, Proposal
  <2> HIDE DEF proposal
  <2>. QED BY <1>2, <2>1, <2>2, <2>3, <2>4, EditedFiles DEF FlowInv, Final
<1>9. CreatedOK'
  <2>1. \A q \in RunId : q # r => job'[q] # "created"
    BY <1>1, <1>2, <1>t DEF Free, JobInTurn
  <2>2. job'[r] = "created" => confirm'.step = "scheduling" /\ confirm'.run = r
    BY <1>1, <1>4, <1>t
  <2>. QED BY <2>1, <2>2 DEF CreatedOK
<1>10. ConfirmOK'
  <2>1. CASE ok
    <3>1. proposals'[p].status = "confirmed" /\ source'[r] = p /\ Exists(disk'[r])
      BY <1>t, <1>2, <1>3, <1>6, <2>1 DEF Proposal, Exists
    <3>2. filed'[p].status \notin Final
      BY <1>2 DEF FlowInv, FileAgrees, Final
    <3>. QED BY <1>2, <1>4, <1>5, <2>1, <3>1, <3>2 DEF ConfirmOK, Exists
  <2>2. CASE ~ok
    BY <1>4, <2>2 DEF ConfirmOK, NoConfirm
  <2>. QED BY <2>1, <2>2
<1>11. ASSUME NEW q \in RunId PROVE RunOK(q)'
  <2>1. CASE q # r
    <3>1. mem'[q] = mem[q] /\ job'[q] = job[q] /\ source'[q] = source[q]
      BY <1>1, <1>2, <1>3, <1>t, <2>1
    <3>. QED BY <1>2, <1>8, <3>1, OtherRun
  <2>2. CASE q = r
    <3>1. ApprovalOK(r)'
      BY StoreForward DEF FlowInv, RunOK
    <3>2. HandedOK(r)'
      BY <1>6 DEF HandedOK, HasStage
    <3>3. RepliedOK(r)'
      BY <1>2, <1>5 DEF RepliedOK, Accepted, Refused
    <3>4. ExecutedOK(r)'
      BY <1>1, <1>2, <1>5, <1>t DEF ExecutedOK
    <3>. QED BY <2>2, <3>1, <3>2, <3>3, <3>4 DEF RunOK
  <2>. QED BY <2>1, <2>2
<1>. QED BY <1>7, <1>8, <1>9, <1>10, <1>11 DEF FlowKept

\* What a claim gate leaves, whether or not its claim was written.
LEMMA ClaimAdds ==
    ASSUME IInv, NEW r \in RunId, NEW claim \in ClaimStages, NEW fact, NEW ok \in BOOLEAN,
           Claim(r, claim, fact, ok)
    PROVE  /\ ~HasClaim(mem[r])
           /\ \A q \in RunId : q # r => mem'[q] = mem[q]
           /\ \A s : HasStage(mem'[r], s) <=> HasStage(mem[r], s) \/ s = claim
           /\ ok => disk' = mem'
<1>1. Grown(r, claim) /\ ~HasClaim(mem[r])
  BY ClaimGrows
<1>2. mem' = [mem EXCEPT ![r] = mem'[r]] /\ mem \in [RunId -> RunRecord]
  BY <1>1 DEF Grown, IInv, TypeOK
<1>3. \A q \in RunId : q # r => mem'[q] = mem[q]
  BY <1>2
<1>4. /\ mem[r] \in RunRecord /\ mem'[r] \in RunRecord /\ claim \in Stages
      /\ mem'[r].timeline = Append(mem[r].timeline, claim)
  BY <1>1 DEF Grown, Carries, Stages, ClaimStages
<1>5. \A s : HasStage(mem'[r], s) <=> HasStage(mem[r], s) \/ s = claim
  BY <1>4, AppendedStages
<1>6. ok => disk' = mem'
  BY DEF Claim, Record, Flush
<1>. QED BY <1>1, <1>3, <1>5, <1>6

\* The confirm's own Run under a step that writes no reply: what remains is who is
\* handed it, and what the file says.
LEMMA OwnRun ==
    ASSUME FlowInv, LInv', Forward, NEW r \in RunId, reply'[r] = reply[r], reply[r] = "none",
           HandedOK(r)', ExecutedOK(r)'
    PROVE  RunOK(r)'
<1>1. ApprovalOK(r)'
  BY StoreForward DEF FlowInv, RunOK
<1>2. RepliedOK(r)'
  BY DEF RepliedOK, Accepted, Refused
<1>. QED BY <1>1, <1>2 DEF RunOK

LEMMA SchedulesKept ==
    ASSUME FlowInv, LInv', Forward, ConfirmSchedules
    PROVE  FlowKept
<1>r. PICK r \in RunId, p \in ProposalId : confirm.run = r /\ confirm.proposal = p
  BY DEF FlowInv, ConfirmOK, ConfirmSchedules
<1>t. /\ confirm \in Confirm /\ job \in [RunId -> JobStates] /\ IInv /\ begun \in [RunId -> Nat]
  BY DEF FlowInv, FlowTyped, LInv, IInv, TypeOK
<1>1. /\ confirm.run = r /\ confirm.proposal = p /\ confirm.step = "scheduling"
      /\ proposals[p].status = "confirmed" /\ source[r] = p
      /\ Exists(disk[r]) /\ reply[r] = "none" /\ begun[r] = 0
      /\ agent[r] = "idle" /\ worker[r] = "idle" /\ filed[p].status \notin Final
  BY <1>r DEF FlowInv, ConfirmOK, ConfirmSchedules
<1>2. /\ job[r] = "created" /\ confirm' = [confirm EXCEPT !.step = "persisting"]
      /\ UNCHANGED <<lane, proposals, filed, order, reply, source, worker, agent, begun>>
  BY <1>r DEF ConfirmSchedules, ScheduleDispatch, history
<1>3. /\ job'[r] # "created" /\ (lane # "develop" => job'[r] = "idle")
      /\ \A q \in RunId : q # r => job'[q] = job[q]
      /\ \A q \in RunId : q # r => mem'[q] = mem[q]
      /\ \A s \in {"AGENT_CLAIMED", "WORKER_CLAIMED"} :
            HasStage(mem'[r], s) => HasStage(mem[r], s)
  <2>1. CASE lane = "develop"
    <3>1. PICK ok \in BOOLEAN :
             /\ Claim(r, "DISPATCH_CLAIMED", NoApproval, ok)
             /\ job' = [job EXCEPT ![r] = IF ok THEN "queued" ELSE "idle"]
      BY <1>r, <2>1 DEF ConfirmSchedules, ScheduleDispatch, ClaimDispatch
    <3>2. "DISPATCH_CLAIMED" \in ClaimStages
      BY DEF ClaimStages
    <3>3. /\ \A q \in RunId : q # r => mem'[q] = mem[q]
          /\ \A s : HasStage(mem'[r], s) <=> HasStage(mem[r], s) \/ s = "DISPATCH_CLAIMED"
      BY <1>1, <1>t, <3>1, <3>2, ClaimAdds
    <3>. QED BY <1>1, <1>t, <2>1, <3>1, <3>3
  <2>2. CASE lane # "develop"
    <3>1. job' = [job EXCEPT ![r] = "idle"] /\ mem' = mem
      BY <1>r, <2>2 DEF ConfirmSchedules, ScheduleDispatch, timelines
    <3>. QED BY <1>1, <1>t, <3>1 DEF HasStage
  <2>. QED BY <2>1, <2>2
<1>4. confirm' \in Confirm /\ confirm'.step = "persisting" /\ confirm'.run = r
      /\ confirm'.proposal = p
  BY <1>r, <1>2, <1>t DEF Confirm, Steps
<1>5. FlowTyped'
  BY <1>2, <1>4 DEF FlowInv, FlowTyped
<1>6. DecisionsKept /\ \A x \in ProposalId : FileAgrees(x)'
  BY <1>2, SameFiles
<1>7. CreatedOK'
  BY <1>2, <1>3 DEF FlowInv, CreatedOK
<1>8. ConfirmOK'
  <2>1. Exists(disk'[r])
    BY <1>1, StoreForward DEF FlowInv, RunOK
  <2>. QED BY <1>1, <1>2, <1>3, <1>4, <2>1 DEF ConfirmOK, Exists
<1>9. ASSUME NEW q \in RunId PROVE RunOK(q)'
  <2>1. CASE q # r
    BY <1>1, <1>2, <1>3, <1>6, <2>1, OtherRun DEF HasStage
  <2>2. CASE q = r
    <3>1. HandedOK(r)'
      <4>1. RunOK(r) /\ source'[r] = source[r]
        BY <1>1, <1>2 DEF FlowInv
      <4>2. ASSUME NEW s \in {"AGENT_CLAIMED", "WORKER_CLAIMED"}, HasStage(mem'[r], s)
            PROVE  Filed(r)'
        BY <1>3, <1>6, <4>1, <4>2, FiledStays DEF RunOK, HandedOK
      <4>. QED BY <4>2 DEF HandedOK, HasStage
    <3>2. ExecutedOK(r)'
      BY <1>1, <1>2, <1>4 DEF ExecutedOK
    <3>. QED BY <1>1, <1>2, <2>2, <3>1, <3>2, OwnRun
  <2>. QED BY <2>1, <2>2
<1>. QED BY <1>5, <1>6, <1>7, <1>8, <1>9 DEF FlowKept

LEMMA PersistsKept ==
    ASSUME FlowInv, LInv', Forward, ConfirmPersists
    PROVE  FlowKept
<1>r. PICK r \in RunId, p \in ProposalId : confirm.run = r /\ confirm.proposal = p
  BY DEF FlowInv, ConfirmOK, ConfirmPersists
<1> DEFINE proposal == [proposals[p] EXCEPT !.run = r]
<1>t. /\ confirm \in Confirm /\ proposals \in [ProposalId -> Proposal] /\ faults \in Nat
      /\ filed \in [ProposalId -> Proposal]
  BY DEF FlowInv, FlowTyped, LInv, IInv, TypeOK
<1>1. /\ confirm.run = r /\ confirm.proposal = p /\ confirm.step = "persisting"
      /\ proposals[p].status = "confirmed" /\ source[r] = p
      /\ Exists(disk[r]) /\ reply[r] = "none" /\ begun[r] = 0
      /\ agent[r] = "idle" /\ worker[r] = "idle" /\ filed[p].status \notin Final
      /\ (lane # "develop" => job[r] = "idle")
  BY <1>r DEF FlowInv, ConfirmOK, ConfirmPersists
<1>2. PICK ok \in BOOLEAN :
         /\ FlushProposals(ok)
         /\ confirm' = IF ok THEN [confirm EXCEPT !.step = "spawning"] ELSE NoConfirm
  BY DEF ConfirmPersists
<1>3. /\ UNCHANGED <<lane, order, reply, source, mem, disk, job, worker, agent, begun>>
      /\ proposals' = [proposals EXCEPT ![p].run = r]
  BY <1>r DEF ConfirmPersists, runStoreUnchanged, develop, history
<1>4. /\ proposal \in Proposal /\ proposal.run = r /\ proposal.status = "confirmed"
      /\ proposals' = [proposals EXCEPT ![p] = proposal] /\ proposals'[p] = proposal
  BY <1>1, <1>3, <1>t DEF Proposal
<1>5. /\ confirm' \in Confirm /\ confirm'.step \in {"none", "spawning"}
      /\ confirm'.step = "spawning" => ok /\ confirm'.run = r /\ confirm'.proposal = p
  BY <1>r, <1>2, <1>t DEF Confirm, Steps, NoConfirm, Kinds
<1> HIDE DEF proposal
<1>6. FlowTyped'
  BY <1>2, <1>3, <1>4, <1>5, <1>t DEF FlowInv, FlowTyped, FlushProposals
<1>7. DecisionsKept /\ \A x \in ProposalId : FileAgrees(x)'
  <2>1. \A q \in RunId : Exists(disk[q]) => Exists(disk'[q])
    BY <1>3
  <2>2. filed' = filed \/ filed' = proposals'
    BY <1>2 DEF FlushProposals
  <2>3. filed[p].status # "confirmed" /\ (proposal.run # NoRun => Exists(disk'[proposal.run]))
    BY <1>1, <1>3, <1>4 DEF Final, Exists
  <2>. QED BY <1>1, <1>4, <2>1, <2>2, <2>3, EditedFiles DEF FlowInv
<1>8. CreatedOK'
  BY <1>1, <1>3 DEF FlowInv, CreatedOK
<1>9. ok => Filed(r)'
  BY <1>1, <1>2, <1>3, <1>4 DEF Filed, FlushProposals
<1>10. ConfirmOK'
  BY <1>1, <1>3, <1>4, <1>5, <1>9 DEF ConfirmOK, Exists
<1>11. ASSUME NEW q \in RunId PROVE RunOK(q)'
  <2>1. CASE q # r
    BY <1>1, <1>3, <1>7, <2>1, OtherRun DEF HasStage
  <2>2. CASE q = r
    <3>1. HandedOK(r)'
      <4>1. RunOK(r) /\ source'[r] = source[r]
        BY <1>1, <1>3 DEF FlowInv
      <4>. QED BY <1>3, <1>7, <4>1, FiledStays DEF RunOK, HandedOK, HasStage
    <3>2. ExecutedOK(r)'
      <4>1. CASE ok
        BY <1>9, <4>1 DEF ExecutedOK
      <4>2. CASE ~ok
        <5>1. OneAtATime => "develop" \notin Lanes
          BY <1>2, <1>t, <4>2 DEF OneAtATime, FlushProposals
        <5>2. OneAtATime => job[r] = "idle"
          BY <1>1, <5>1 DEF FlowInv, FlowTyped
        <5>. QED BY <1>1, <1>3, <5>2 DEF ExecutedOK, OneAtATime
      <4>. QED BY <4>1, <4>2
    <3>. QED BY <1>1, <1>3, <2>2, <3>1, <3>2, OwnRun
  <2>. QED BY <2>1, <2>2
<1>. QED BY <1>6, <1>7, <1>8, <1>10, <1>11 DEF FlowKept

LEMMA SpawnsKept ==
    ASSUME FlowInv, LInv', Forward, ConfirmSpawnsWorker
    PROVE  FlowKept
<1>r. PICK r \in RunId, p \in ProposalId : confirm.run = r /\ confirm.proposal = p
  BY DEF FlowInv, ConfirmOK, ConfirmSpawnsWorker
<1>t. /\ confirm \in Confirm /\ worker \in [RunId -> WorkerStates] /\ IInv
      /\ mem \in [RunId -> RunRecord]
  BY DEF FlowInv, FlowTyped, LInv, IInv, TypeOK
<1>1. /\ confirm.step = "spawning"
      /\ proposals[p].status = "confirmed" /\ source[r] = p
      /\ Exists(disk[r]) /\ reply[r] = "none" /\ begun[r] = 0
      /\ agent[r] = "idle" /\ worker[r] = "idle"
      /\ (lane # "develop" => job[r] = "idle") /\ Filed(r)
  BY <1>r DEF FlowInv, ConfirmOK, ConfirmSpawnsWorker
<1>2. /\ confirm' = [confirm EXCEPT !.step = "handoff"]
      /\ UNCHANGED <<lane, proposals, filed, order, reply, source, job, agent, begun>>
  BY DEF ConfirmSpawnsWorker, ClaimWorker, vars, develop, history
<1>3. /\ lane # "worker" => worker' = worker
      /\ \A q \in RunId : q # r => worker'[q] = worker[q] /\ mem'[q] = mem[q]
  <2>1. CASE lane = "worker"
    <3>1. PICK ok \in BOOLEAN :
             /\ Claim(r, "WORKER_CLAIMED", NoApproval, ok)
             /\ worker' = [worker EXCEPT ![r] = IF ok THEN "queued" ELSE "idle"]
      BY <1>r, <2>1 DEF ConfirmSpawnsWorker, ClaimWorker
    <3>2. \A q \in RunId : q # r => mem'[q] = mem[q]
      BY <1>t, <3>1, ClaimAdds DEF ClaimStages
    <3>. QED BY <1>t, <2>1, <3>1, <3>2
  <2>2. CASE lane # "worker"
    BY <2>2 DEF ConfirmSpawnsWorker, vars, timelines
  <2>. QED BY <2>1, <2>2
<1>4. confirm' \in Confirm /\ confirm'.step = "handoff" /\ confirm'.run = r
      /\ confirm'.proposal = p
  BY <1>r, <1>2, <1>t DEF Confirm, Steps
<1>5. FlowTyped'
  BY <1>2, <1>4 DEF FlowInv, FlowTyped
<1>6. DecisionsKept /\ \A x \in ProposalId : FileAgrees(x)'
  BY <1>2, SameFiles
<1>7. CreatedOK'
  BY <1>1, <1>2 DEF FlowInv, CreatedOK
<1>8. Filed(r)'
  BY <1>1, <1>2, <1>6, FiledStays
<1>9. ConfirmOK'
  <2>1. Exists(disk'[r])
    BY <1>1, StoreForward DEF FlowInv, RunOK
  <2>. QED BY <1>1, <1>2, <1>3, <1>4, <1>8, <2>1 DEF ConfirmOK, Exists
<1>10. ASSUME NEW q \in RunId PROVE RunOK(q)'
  <2>1. CASE q # r
    BY <1>1, <1>2, <1>3, <1>6, <2>1, OtherRun DEF HasStage
  <2>2. CASE q = r
    BY <1>1, <1>2, <1>8, <2>2, OwnRun DEF HandedOK, ExecutedOK
  <2>. QED BY <2>1, <2>2
<1>. QED BY <1>5, <1>6, <1>7, <1>9, <1>10 DEF FlowKept

\* What the Owner is told: acceptance only of eligible work, and a refusal only in a
\* configuration in which no other lane took the Run.
LEMMA StatusTold ==
    ASSUME NEW kind \in Kinds, lane \in AllLanes
    PROVE  /\ DispatchStatus(kind) \in Replies
           /\ Eligible(kind) => /\ DispatchStatus(kind) \in Accepted
                                /\ lane \notin {"develop", "worker"}
           /\ ~Eligible(kind) => DispatchStatus(kind) \notin Accepted
           /\ DispatchStatus(kind) \in Refused => lane \notin {"develop", "worker"}
<1>1. kind = "plain" \/ kind = "code_change" \/ kind = "read_only_enquiry"
  BY DEF Kinds
<1>2. CASE lane = "conflict"
  BY <1>2 DEF DispatchStatus, Eligible, Replies, Accepted, Refused
<1>3. CASE lane # "conflict" /\ kind = "read_only_enquiry"
  BY <1>3 DEF DispatchStatus, Eligible, Replies, Accepted, Refused
<1>4. CASE lane # "conflict" /\ kind = "code_change"
  BY <1>4 DEF DispatchStatus, Eligible, Replies, Accepted, Refused
<1>5. CASE lane # "conflict" /\ kind = "plain"
  BY <1>5 DEF DispatchStatus, Eligible, Replies, Accepted, Refused
<1>. QED BY <1>1, <1>2, <1>3, <1>4, <1>5

LEMMA RepliesKept ==
    ASSUME FlowInv, LInv', Forward, ConfirmReplies
    PROVE  FlowKept
<1>r. PICK r \in RunId, p \in ProposalId : confirm.run = r /\ confirm.proposal = p
  BY DEF FlowInv, ConfirmOK, ConfirmReplies
<1>t. /\ confirm \in Confirm /\ agent \in [RunId -> AgentStates] /\ IInv
      /\ mem \in [RunId -> RunRecord] /\ reply \in [RunId -> Replies]
      /\ lane \in AllLanes /\ confirm.kind \in Kinds
  BY LanesAssumption DEF FlowInv, FlowTyped, LInv, IInv, TypeOK, Confirm
<1>1. /\ confirm.step = "handoff"
      /\ Exists(disk[r]) /\ reply[r] = "none" /\ begun[r] = 0
      /\ agent[r] = "idle" /\ (lane # "worker" => worker[r] = "idle")
      /\ (lane # "develop" => job[r] = "idle") /\ Filed(r)
  BY <1>r DEF FlowInv, ConfirmOK, ConfirmReplies
<1>2. UNCHANGED <<lane, proposals, filed, order, source, job, worker, begun>>
  BY DEF ConfirmReplies, ClaimAgent, vars, develop, history
<1>3. PICK status \in Replies :
         /\ Reply(status)
         /\ status \in Refused => lane \notin {"develop", "worker"} /\ agent'[r] = "idle"
         /\ status \in Accepted => HasStage(disk'[r], "AGENT_CLAIMED")
                                   /\ mem[r].approval # NoApproval
         /\ \A q \in RunId : q # r => agent'[q] = agent[q] /\ mem'[q] = mem[q]
  <2> DEFINE told == DispatchStatus(confirm.kind)
  <2>s. /\ told \in Replies
        /\ Eligible(confirm.kind) => told \in Accepted /\ lane \notin {"develop", "worker"}
        /\ ~Eligible(confirm.kind) => told \notin Accepted
        /\ told \in Refused => lane \notin {"develop", "worker"}
    BY <1>t, StatusTold
  <2>v. UNCHANGED vars => agent' = agent /\ mem' = mem
    BY DEF vars, timelines
  <2>d. Accepted \cap Refused = {}
    BY DEF Accepted, Refused
  <2> HIDE DEF told
  <2>1. CASE ~Eligible(confirm.kind)
    <3>1. Reply(told) /\ UNCHANGED vars
      BY <2>1 DEF ConfirmReplies, told
    <3>. QED BY <1>1, <2>1, <2>s, <2>v, <3>1
  <2>2. CASE Eligible(confirm.kind) /\ (~confirm.fits \/ mem[r].approval = NoApproval)
    <3>1. PICK status \in {"repository_identity_mismatch", "agent_execute_needs_review"} :
             Reply(status) /\ UNCHANGED vars
      BY <1>r, <2>2 DEF ConfirmReplies
    <3>2. status \in Refused /\ status \in Replies
      BY DEF Refused, Replies
    <3>. QED BY <1>1, <2>2, <2>s, <2>v, <2>d, <3>1, <3>2
  <2>3. CASE Eligible(confirm.kind) /\ confirm.fits /\ mem[r].approval # NoApproval
    <3>1. /\ ClaimAgent(r, mem[r].approval)
          /\ Reply(IF agent'[r] = "selecting" THEN told ELSE "agent_execute_claim_failed")
      BY <1>r, <2>3 DEF ConfirmReplies, told
    <3>2. PICK ok \in BOOLEAN :
             /\ Claim(r, "AGENT_CLAIMED", mem[r].approval, ok)
             /\ agent' = [agent EXCEPT ![r] = IF ok THEN "selecting" ELSE "idle"]
      BY <3>1 DEF ClaimAgent
    <3>3. /\ \A q \in RunId : q # r => mem'[q] = mem[q]
          /\ HasStage(mem'[r], "AGENT_CLAIMED")
          /\ ok => disk' = mem'
      BY <1>t, <3>2, ClaimAdds DEF ClaimStages
    <3>4. agent'[r] = (IF ok THEN "selecting" ELSE "idle")
          /\ \A q \in RunId : q # r => agent'[q] = agent[q]
      BY <1>t, <3>2
    <3>5. CASE ok
      BY <2>3, <2>s, <2>d, <3>1, <3>3, <3>4, <3>5 DEF HasStage
    <3>6. CASE ~ok
      <4>1. "agent_execute_claim_failed" \in Refused /\ "agent_execute_claim_failed" \in Replies
        BY DEF Refused, Replies
      <4>. QED BY <2>3, <2>s, <2>d, <3>1, <3>3, <3>4, <3>6, <4>1
    <3>. QED BY <3>5, <3>6
  <2>. QED BY <2>1, <2>2, <2>3
<1>4. confirm' = NoConfirm /\ reply' = [reply EXCEPT ![r] = status]
  BY <1>3, <1>r DEF Reply
<1>5. FlowTyped'
  <2>1. NoConfirm \in Confirm
    BY DEF Confirm, NoConfirm, Steps, Kinds
  <2>. QED BY <1>2, <1>4, <1>t, <2>1 DEF FlowInv, FlowTyped
<1>6. DecisionsKept /\ \A x \in ProposalId : FileAgrees(x)'
  BY <1>2, SameFiles
<1>7. CreatedOK' /\ ConfirmOK'
  BY <1>1, <1>2, <1>4 DEF FlowInv, CreatedOK, ConfirmOK, NoConfirm
<1>8. ASSUME NEW q \in RunId PROVE RunOK(q)'
  <2>1. CASE q # r
    <3>1. reply'[q] = reply[q]
      BY <1>4, <1>t, <2>1
    <3>. QED BY <1>1, <1>2, <1>3, <1>6, <2>1, <3>1, OtherRun DEF HasStage
  <2>2. CASE q = r
    <3>1. /\ ApprovalOK(r)' /\ Exists(disk'[r])
          /\ disk'[r].approval = mem[r].approval
      BY <1>1, StoreForward DEF FlowInv, RunOK, ApprovalOK
    <3>2. HandedOK(r)' /\ ExecutedOK(r)'
      <4>1. Filed(r)'
        BY <1>1, <1>2, <1>6, FiledStays
      <4>. QED BY <4>1 DEF HandedOK, ExecutedOK
    <3>3. RepliedOK(r)'
      <4>1. reply'[r] = status
        BY <1>4, <1>t
      <4>2. status \in Refused => Spared(r)'
        BY <1>1, <1>2, <1>3 DEF Spared
      <4>. QED BY <1>3, <3>1, <4>1, <4>2 DEF RepliedOK, HasStage, Exists
    <3>. QED BY <2>2, <3>1, <3>2, <3>3 DEF RunOK
  <2>. QED BY <2>1, <2>2
<1>. QED BY <1>5, <1>6, <1>7, <1>8 DEF FlowKept

\* Executors and enquiries: only a Run that somebody was handed, so none that the
\* Owner was told nothing came of.
LEMMA BackgroundKept ==
    ASSUME FlowInv, LInv', Forward, NEW r \in RunId, Background(r)
    PROVE  FlowKept
<1>1. confirm.step = "none" /\ UNCHANGED <<lane, proposals, filed, confirm, order, reply, source>>
  BY DEF Background, confirmVars
<1>2. ClaimsKept
  BY NoClaimTaken DEF Background, HandedOff, EnquiryStep, Enquires, AgentStep, QuietStep,
     FlowInv, LInv
<1>3. /\ job[r] \notin {"idle", "created"} \/ worker[r] # "idle" \/ agent[r] # "idle"
      /\ \A q \in RunId : q # r => /\ job'[q] = job[q] /\ worker'[q] = worker[q]
                                   /\ agent'[q] = agent[q] /\ begun'[q] = begun[q]
      /\ job'[r] = "created" => job[r] = "created"
  BY BackgroundMoves DEF FlowInv
<1>4. FlowTyped'
  BY <1>1 DEF FlowInv, FlowTyped
<1>5. DecisionsKept /\ \A x \in ProposalId : FileAgrees(x)'
  BY <1>1, SameFiles
<1>6. CreatedOK' /\ ConfirmOK'
  BY <1>1, <1>3 DEF FlowInv, CreatedOK, ConfirmOK
<1>7. ASSUME NEW q \in RunId PROVE RunOK(q)'
  <2>1. CASE q # r
    BY <1>1, <1>2, <1>3, <1>5, <2>1, OtherRun DEF ClaimsKept, ClaimStages
  <2>2. CASE q = r
    <3>1. RunOK(r) /\ source'[r] = source[r]
      BY <1>1 DEF FlowInv
    <3>2. HandedOK(r)'
      BY <1>2, <1>5, <3>1, FiledStays DEF ClaimsKept, ClaimStages, RunOK, HandedOK
    <3>3. /\ ApprovalOK(r)'
          /\ Exists(disk[r]) => Exists(disk'[r]) /\ disk'[r].approval = disk[r].approval
          /\ HasStage(disk[r], "AGENT_CLAIMED") => HasStage(disk'[r], "AGENT_CLAIMED")
      BY <3>1, StoreForward DEF FlowInv, RunOK, Stages, ClaimStages
    <3>4. RepliedOK(r)'
      BY <1>1, <1>3, <3>1, <3>3, ClaimedExists DEF RunOK, RepliedOK, Spared, HasStage, Exists
    <3>5. OneAtATime => Filed(r)
      <4>1. worker[r] # "idle" => HasStage(mem[r], "WORKER_CLAIMED")
        BY OneLane DEF FlowInv, LInv, FileOK, Stages, ClaimStages
      <4>2. agent[r] # "idle" => HasStage(mem[r], "AGENT_CLAIMED")
        BY OneLane DEF FlowInv, LInv, FileOK, Stages, ClaimStages
      <4>. QED BY <1>1, <1>3, <3>1, <4>1, <4>2 DEF RunOK, HandedOK, ExecutedOK
    <3>6. ExecutedOK(r)'
      BY <1>5, <3>1, <3>5, FiledStays DEF ExecutedOK, OneAtATime
    <3>. QED BY <2>2, <3>2, <3>3, <3>4, <3>6 DEF RunOK
  <2>. QED BY <2>1, <2>2
<1>. QED BY <1>4, <1>5, <1>6, <1>7 DEF FlowKept

LEMMA StartupKept ==
    ASSUME FlowInv, LInv', Forward, Startup
    PROVE  FlowKept
<1>1. /\ UNCHANGED <<lane, proposals, filed, confirm, order, reply, source>>
      /\ UNCHANGED <<job, worker, agent, begun>>
  BY DEF Startup, Listen, Reconcile, confirmVars, develop, history
<1>2. ClaimsKept
  <2>1. CASE Listen
    <3>1. UNCHANGED <<mem, disk>>
      BY <2>1 DEF Listen, timelines
    <3>. QED BY <3>1 DEF ClaimsKept, HasStage
  <2>. QED BY <2>1, NoClaimTaken DEF Startup, QuietStep, FlowInv, LInv
<1>3. FlowTyped'
  BY <1>1 DEF FlowInv, FlowTyped
<1>4. DecisionsKept /\ \A x \in ProposalId : FileAgrees(x)'
  BY <1>1, SameFiles
<1>5. CreatedOK' /\ ConfirmOK'
  <2>1. \A q \in RunId : Exists(disk[q]) => Exists(disk'[q])
    BY StoreForward DEF FlowInv, RunOK
  <2>2. confirm.step \in {"spawning", "handoff"} => Filed(confirm.run)'
    BY <1>1 DEF FlowInv, ConfirmOK, Filed
  <2>. QED BY <1>1, <2>1, <2>2 DEF FlowInv, CreatedOK, ConfirmOK, Exists, Filed
<1>6. ASSUME NEW q \in RunId PROVE RunOK(q)'
  BY <1>1, <1>2, <1>4, OtherRun DEF ClaimsKept, ClaimStages
<1>. QED BY <1>3, <1>4, <1>5, <1>6 DEF FlowKept

\* The next process finds what the two files say, and nobody at work.
LEMMA RestartKept ==
    ASSUME FlowInv, LInv', Restart
    PROVE  FlowKept
<1>1. /\ mem' = disk /\ proposals' = filed /\ confirm' = NoConfirm /\ lane' \in Lanes
      /\ UNCHANGED <<disk, filed, order, reply, source, begun>>
      /\ \A q \in RunId : job'[q] = "idle" /\ worker'[q] = "idle" /\ agent'[q] = "idle"
  BY DEF Restart, Crash, history
<1>2. FlowTyped'
  <2>1. NoConfirm \in Confirm
    BY DEF Confirm, NoConfirm, Steps, Kinds
  <2>. QED BY <1>1, <2>1 DEF FlowInv, FlowTyped
<1>3. DecisionsKept /\ \A x \in ProposalId : FileAgrees(x)'
  BY <1>1 DEF FlowInv, FileAgrees, DecisionsKept, Exists
<1>4. CreatedOK' /\ ConfirmOK'
  BY <1>1 DEF CreatedOK, ConfirmOK, NoConfirm
<1>5. ASSUME NEW q \in RunId PROVE RunOK(q)'
  <2>1. RunOK(q) /\ source'[q] = source[q]
    BY <1>1 DEF FlowInv
  <2>2. ApprovalOK(q)'
    BY <1>1 DEF ApprovalOK, Exists
  <2>3. HandedOK(q)'
    <3>1. HasStage(mem'[q], "AGENT_CLAIMED") \/ HasStage(mem'[q], "WORKER_CLAIMED") => Filed(q)
      BY <1>1, <2>1 DEF FlowInv, LInv, FileOK, Stages, ClaimStages, RunOK, HandedOK
    <3>. QED BY <1>3, <2>1, <3>1, FiledStays DEF HandedOK
  <2>4. RepliedOK(q)'
    BY <1>1, <2>1 DEF RunOK, RepliedOK, Spared, HasStage, Exists
  <2>5. ExecutedOK(q)'
    BY <1>1, <1>3, <2>1, FiledStays DEF RunOK, ExecutedOK, OneAtATime
  <2>. QED BY <2>2, <2>3, <2>4, <2>5 DEF RunOK
<1>. QED BY <1>2, <1>3, <1>4, <1>5 DEF FlowKept

-----------------------------------------------------------------------------
(* The invariant, and what it says.                                         *)

LEMMA FlowInitHolds == FlowInit => FlowInv
<1> SUFFICES ASSUME FlowInit PROVE FlowInv
  OBVIOUS
<1>1. LInv
  BY InitLInv DEF FlowInit
<1>2. FlowTyped
  BY DEF FlowInit, FlowTyped, NoSuchProposal, Proposal, Statuses, LinkStates, NoConfirm, Confirm,
     Steps, Kinds, Replies
<1>3. \A p \in ProposalId : FileAgrees(p)
  BY DEF FlowInit, FileAgrees, NoSuchProposal, Final
<1>4. ConfirmOK /\ CreatedOK
  BY DEF FlowInit, Init, ConfirmOK, NoConfirm, CreatedOK
<1>5. ASSUME NEW r \in RunId PROVE RunOK(r)
  <2>1. disk[r] = NoRecord /\ mem[r] = NoRecord /\ begun[r] = 0 /\ job[r] = "idle"
        /\ reply[r] = "none"
    BY DEF FlowInit, Init
  <2>2. ~Exists(NoRecord) /\ \A s : ~HasStage(NoRecord, s)
    BY DEF NoRecord, Exists, HasStage
  <2>. QED BY <2>1, <2>2 DEF RunOK, ApprovalOK, HandedOK, RepliedOK, ExecutedOK, Accepted,
           Refused
<1>. QED BY <1>1, <1>2, <1>3, <1>4, <1>5 DEF FlowInv

LEMMA FlowStep ==
    ASSUME FlowInv, [FlowNext]_flowVars
    PROVE  FlowInv' /\ DecisionsKept
<1>1. LInv /\ ConfirmNames
  BY DEF FlowInv, ConfirmOK, ConfirmNames
<1>2. LInv' /\ (Forward \/ Restart)
  BY <1>1, FlowKeepsStore
<1>3. CASE Restart
  BY <1>2, <1>3, RestartKept DEF FlowKept, FlowInv
<1>4. CASE Forward /\ FlowNext
  <2>1. ASSUME NEW p \in ProposalId, ProposalStep(p) PROVE FlowKept
    <3>1. CASE \E r \in RunId, kind \in Kinds, approval \in Approval \cup {NoApproval},
                  fits \in BOOLEAN : ConfirmProposal(p, r, kind, approval, fits)
      <4>1. PICK r \in RunId, kind \in Kinds, approval \in Approval \cup {NoApproval},
                 fits \in BOOLEAN : ConfirmProposal(p, r, kind, approval, fits)
        BY <3>1
      <4>. QED BY <1>2, <1>4, <4>1, ConfirmKept
    <3>. QED BY <1>2, <1>4, <2>1, <3>1, ProposalKept DEF ProposalStep
  <2>2. ASSUME ConfirmStep PROVE FlowKept
    BY <1>2, <1>4, <2>2, SchedulesKept, PersistsKept, SpawnsKept, RepliesKept DEF ConfirmStep
  <2>3. ASSUME NEW r \in RunId, Background(r) PROVE FlowKept
    BY <1>2, <1>4, <2>3, BackgroundKept
  <2>4. ASSUME Startup PROVE FlowKept
    BY <1>2, <1>4, <2>4, StartupKept
  <2>5. FlowKept \/ Restart
    BY <1>4, <2>1, <2>2, <2>3, <2>4 DEF FlowNext
  <2>. QED BY <1>2, <1>3, <2>5 DEF FlowKept, FlowInv
<1>5. CASE UNCHANGED flowVars
  <2>1. UNCHANGED <<mem, disk, job, worker, agent, begun, lane, confirmVars>>
    BY <1>5 DEF flowVars, vars, timelines, develop, history
  <2>. QED BY <1>2, <2>1 DEF FlowInv, FlowTyped, FileAgrees, ConfirmOK, CreatedOK, RunOK,
           ApprovalOK, HandedOK, RepliedOK, ExecutedOK, OneAtATime, Spared, Filed, DecisionsKept,
           confirmVars, HasStage, Exists
<1>. QED BY <1>2, <1>3, <1>4, <1>5

\* The invariant of the composition holds of every behaviour.
THEOREM FlowInvariant == FlowSpec => []FlowInv
BY FlowInitHolds, FlowStep, PTL DEF FlowSpec

\* Every variable of the composition keeps its type.
THEOREM FlowTypeCorrect == FlowSpec => []FlowTypeOK
<1>1. FlowInv => FlowTypeOK
  BY DEF FlowInv, FlowTyped, FlowTypeOK, LInv, IInv
<1>. QED BY <1>1, FlowInvariant, PTL

\* Whatever the agent or the worker lane executed was confirmed in the file first.
THEOREM HandOffIsConfirmed == FlowSpec => []HandedOffRunIsConfirmed
<1>1. FlowInv => HandedOffRunIsConfirmed
  BY DEF FlowInv, LInv, FileOK, RunOK, HandedOK, Filed, HandedOffRunIsConfirmed, Stages,
     ClaimStages
<1>. QED BY <1>1, FlowInvariant, PTL

\* The Owner is told the truth: acceptance stands on a claim in the file that names an
\* approval, and a refused Run is never executed.
THEOREM RepliesAreTruthful == FlowSpec => []ReplyIsTruthful
<1>1. ASSUME FlowInv PROVE ReplyIsTruthful
  <2>1. ASSUME NEW r \in RunId, reply[r] \in Accepted
        PROVE  HasStage(disk[r], "AGENT_CLAIMED") /\ mem[r].approval # NoApproval
    BY <1>1, <2>1, ClaimedExists DEF FlowInv, RunOK, RepliedOK, ApprovalOK
  <2>2. ASSUME NEW r \in RunId, reply[r] \in Refused PROVE begun[r] = 0
    BY <1>1, <2>2 DEF FlowInv, RunOK, RepliedOK, Spared
  <2>. QED BY <2>1, <2>2 DEF ReplyIsTruthful
<1>. QED BY <1>1, FlowInvariant, PTL

\* The proposals file never names a Run that the runs file has not got.
THEOREM RunBeforeProposal == FlowSpec => []FiledRunIsOnFile
<1>1. FlowInv => FiledRunIsOnFile
  BY DEF FlowInv, FileAgrees, FiledRunIsOnFile
<1>. QED BY <1>1, FlowInvariant, PTL

\* A decision the file holds is never taken back, nor is the Run it names replaced.
THEOREM DecisionIsFinal == FlowSpec => FiledDecisionIsFinal /\ [][DecisionsKept]_flowVars
<1>1. FlowInv /\ [FlowNext]_flowVars => DecisionsKept
  BY FlowStep
<1>2. DecisionsKept => \A p \in ProposalId : filed[p].status \in {"confirmed", "cancelled"}
                                                 => filed'[p].status = filed[p].status
  BY DEF DecisionsKept, Final
<1>. QED BY <1>1, <1>2, FlowInvariant, PTL DEF FlowSpec, FiledDecisionIsFinal

\* One human act, one execution, over every crash between the writes of the two files:
\* where the Develop lane is not configured, or where no write fails.
THEOREM OneActOneExecution ==
    ASSUME OneAtATime
    PROVE  FlowSpec => []OneExecutionPerProposal
<1>1. ASSUME FlowInv PROVE OneExecutionPerProposal
  <2>1. ASSUME NEW r \in RunId, NEW s \in RunId, begun[r] > 0, begun[s] > 0,
               source[r] = source[s]
        PROVE  r = s
    <3>1. Filed(r) /\ Filed(s)
      BY <1>1, <2>1 DEF FlowInv, RunOK, ExecutedOK
    <3>. QED BY <2>1, <3>1 DEF Filed
  <2>. QED BY <2>1 DEF OneExecutionPerProposal
<1>. QED BY <1>1, FlowInvariant, PTL

\* No Run of the composition is executed twice, whatever lane took it.
THEOREM FlowExecutesAtMostOnce == FlowSpec => []AtMostOneExecution
<1>1. FlowInv => AtMostOneExecution
  BY DEF FlowInv, LInv, IInv, HandedOffOnce, AtMostOneExecution
<1>. QED BY <1>1, FlowInvariant, PTL

\* The composition, too, is the ledger that RunLedger promises.
THEOREM FlowImplementsLedger == FlowSpec => ImplementsLedger
<1>1. FlowInit => Ledger!LedgerInit
  BY LedgerStarts DEF FlowInit
<1>2. FlowInv /\ FlowInv' /\ [FlowNext]_flowVars => [Ledger!LedgerNext]_LedgerView
  <2> SUFFICES ASSUME FlowInv, FlowInv', [FlowNext]_flowVars
               PROVE  [Ledger!LedgerNext]_LedgerView
    OBVIOUS
  <2>1. ConfirmNames
    BY DEF FlowInv, ConfirmOK, ConfirmNames
  <2>2. Restart => UNCHANGED <<disk, begun>>
    BY DEF Restart, Crash, history
  <2>. QED BY <2>1, <2>2, FlowKeepsStore, LedgerStep DEF FlowInv
<1>. QED BY <1>1, <1>2, FlowInvariant, PTL DEF FlowSpec, ImplementsLedger, Ledger!LedgerSpec

-----------------------------------------------------------------------------
(* Outcomes under the composition, enquiries included.                      *)

LEMMA EnquiryMoves ==
    ASSUME OInv, NEW r \in RunId, Enquires(r)
    PROVE  Moves /\ UNCHANGED applied /\ \A q \in RunId : retryOf'[q] = NoRun
<1>t. agent \in [RunId -> AgentStates] /\ outcome \in [RunId -> Outcomes]
  BY DEF OInv, LInv, IInv, TypeOK
<1>1. UNCHANGED <<job, worker, results, audits, applied>>
  BY DEF Enquires, EnquiryBegins, EnquiryAnswers, develop, evidence
<1>2. /\ agent[r] \in {"queued", "working"}
      /\ \A q \in RunId : q # r => outcome'[q] = outcome[q] /\ agent'[q] = agent[q]
  BY <1>t DEF Enquires, EnquiryBegins, EnquiryAnswers
<1>3. \/ agent'[r] = "finishing" /\ outcome'[r] \in Verdicts
      \/ agent[r] = "queued" /\ agent'[r] = "working"
  BY <1>t DEF Enquires, EnquiryBegins, EnquiryAnswers, Verdicts
<1>4. \A q \in RunId : AgentTransfers(q)
  BY <1>2, <1>3 DEF AgentTransfers
<1>5. Moves
  BY <1>1, <1>2, <1>4 DEF Moves, Open
<1>6. \A q \in RunId : retryOf'[q] = NoRun
  BY DEF Enquires, EnquiryBegins, EnquiryAnswers, Idle, Free
<1>. QED BY <1>1, <1>5, <1>6

LEMMA FlowOutcomes ==
    ASSUME OInv, ConfirmNames, [FlowNext]_flowVars
    PROVE  OInv'
<1>1. LInv /\ LInv'
  BY FlowKeepsStore DEF OInv
<1>2. ASSUME NEW r \in RunId, Enquires(r) PROVE OInv'
  <2>1. Living /\ UNCHANGED applied /\ \A q \in RunId : Linking(q)'
    BY <1>1, <1>2, EnquiryMoves, EnquiryKept DEF Living, Kept, Linking
  <2>2. \A q \in RunId : Reported(q)' /\ Applied(q)'
    BY <1>1, <1>2, <2>1, ReportedStays, AppliedKept
  <2>3. LinksOK'
    BY <1>1, <2>1, LinksStay DEF LinksOK, Living
  <2>. QED BY <1>1, <2>1, <2>2, <2>3, RecordsKept DEF OInv
<1>3. CASE Listen \/ Paper
  BY <1>1, <1>3, StillOInv DEF Listen, Paper, runStoreUnchanged, timelines, develop, evidence,
     history
<1>4. CASE Restart
  BY <1>1, <1>4, CrashOInv DEF Restart
<1>. QED BY <1>1, <1>2, <1>3, <1>4, FlowDrives, LivesOInv

\* A status that recovery or an executor wrote is the outcome that was reported, for a
\* confirmed Run as for any other, and for an enquiry as for a change.
THEOREM FlowStatusIsOutcome == FlowSpec => []SettledTruthfully
<1>1. FlowInit => OInv
  BY InitOInv DEF FlowInit
<1>2. FlowInv => ConfirmNames
  BY DEF FlowInv, ConfirmOK, ConfirmNames
<1>3. OInv /\ ConfirmNames /\ [FlowNext]_flowVars => OInv'
  BY FlowOutcomes
<1>4. OInv => SettledTruthfully
  BY DEF OInv, RecordsOK, RecordOK, Truthful, SettledTruthfully
<1>. QED BY <1>1, <1>2, <1>3, <1>4, FlowInvariant, PTL DEF FlowSpec

=============================================================================
