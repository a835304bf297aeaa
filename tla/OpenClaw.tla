------------------------------ MODULE OpenClaw ------------------------------
(***************************************************************************)
(* The OpenClaw plane: executors Aroma starts but cannot stop on demand,   *)
(* and the two ledgers that account for them (src/src/agent/openClaw*.js). *)
(*                                                                         *)
(* An executor is reached through one of two lanes.  The unit lane is the  *)
(* composition: launchApproved, abortPrepared and recoverInstance, each    *)
(* one section under a cross-process lock directory, drive a systemd unit  *)
(* through the launcher and retire it on the verifier's word.  The task    *)
(* lane is the transport: an asynchronous turn of an OpenClaw agent, whose *)
(* end the reconciler observes.  Both share the quarantine ledger, and the *)
(* governed workspace makes and removes the envelope they run in.          *)
(*                                                                         *)
(* Both ledgers are whole documents, read and rewritten by every put.  A   *)
(* put of a section is therefore two steps here, the read into copy and    *)
(* the write of the changed copy.  The workspace, the transport and the    *)
(* reconciler do not take the lock; the composition's header asks whoever  *)
(* mounts them to keep them out of other processes' sections, and Unshared *)
(* is that requirement.  It is void when Proc has one element.             *)
(***************************************************************************)
EXTENDS Integers, FiniteSets

CONSTANTS
    Approval,     \* approved work orders
    Proc,         \* backend processes that share the data directory
    NoProc,       \* the lock directory does not exist
    NoApproval,   \* no call, no turn
    NoCopy,       \* no put in progress
    MaxFaults,    \* bound: process crashes and failed writes
    MaxResumes    \* bound: executors that leave a successor behind

ASSUME BoundsAssumption == MaxFaults \in Nat /\ MaxResumes \in Nat
ASSUME NamesAssumption == NoProc \notin Proc /\ NoApproval \notin Approval

VARIABLES
    ledger,     \* openclaw-quarantine.json: Approval -> record
    torn,       \* a crash cut a write of it short: no read of it succeeds
    instance,   \* the instance store: Approval -> [state, cgroup]
    lock,       \* whose lock directory stands
    envelope,   \* Approval -> the sandbox on disk
    executor,   \* Approval -> what the operating system is running
    task,       \* Approval -> what OpenClaw reports of the task
    owner,      \* Proc -> approvals whose directory the workspace knows
    call,       \* Proc -> the synchronous call in progress, and where it is
    turn,       \* Proc -> the transport's turn, and what it awaits
    copy,       \* Proc -> the document the put in progress has read
    faults, resumes

disk == <<ledger, torn, instance>>
world == <<executor, task, resumes>>
vars == <<ledger, torn, instance, lock, envelope, executor, task, owner,
          call, turn, copy, faults, resumes>>

-----------------------------------------------------------------------------
(* The quarantine ledger *)

Unaccounted == {"RUNNING", "SUCCEEDED", "CLIENT_TIMEOUT", "QUARANTINED",
                "TERMINAL_OBSERVED", "EXECUTOR_GONE_OBSERVED"}
ExecutionBearing == Unaccounted \cup {"EXECUTOR_RETIRED"}
NeverRan == {"PRE_EXECUTION_ABORTED", "PREPARATION_FAILED"}
CleanedFrom == NeverRan \cup {"EXECUTOR_RETIRED"}
LedgerStates == ExecutionBearing \cup NeverRan \cup {"NONE", "PREPARED", "CLEANED"}

\* The execution phases, in order; 0 is a record without one.
NoPhase == 0
LaunchAttempting == 1
AgentObserved == 2
TurnAttempting == 3
TaskObserved == 4

Record == [state: LedgerStates, phase: 0 .. 4, gone: BOOLEAN,
           status: {"none", "succeeded", "failed"},
           from: CleanedFrom \cup {"none"}]
NoRecord == [state |-> "NONE", phase |-> NoPhase, gone |-> FALSE,
             status |-> "none", from |-> "none"]

\* ALLOWED: the legal transitions of a record.
Allowed == [s \in LedgerStates |->
    CASE s = "PREPARED" -> {"RUNNING"} \cup NeverRan
      [] s = "RUNNING" -> {"SUCCEEDED", "CLIENT_TIMEOUT", "TERMINAL_OBSERVED",
                           "EXECUTOR_GONE_OBSERVED"}
      [] s = "SUCCEEDED" -> {"TERMINAL_OBSERVED"}
      [] s = "CLIENT_TIMEOUT" -> {"QUARANTINED"}
      [] s = "QUARANTINED" -> {"TERMINAL_OBSERVED"}
      [] s = "TERMINAL_OBSERVED" -> {"EXECUTOR_RETIRED"}
      [] s = "EXECUTOR_GONE_OBSERVED" -> {"EXECUTOR_RETIRED"}
      [] s \in CleanedFrom -> {"CLEANED"}
      [] OTHER -> {}]

\* mergeRecord: a put keeps the fields it does not set.
Moved(doc, a, s) == [doc EXCEPT ![a].state = s]
Phased(doc, a, ph) == [doc EXCEPT ![a].phase = ph]
Opened(doc, a) == [doc EXCEPT ![a] = [NoRecord EXCEPT !.state = "PREPARED"]]
Entered(doc, a) == Phased(Moved(doc, a, "RUNNING"), a, LaunchAttempting)
SeenGone(doc, a) == [Moved(doc, a, "EXECUTOR_GONE_OBSERVED") EXCEPT ![a].gone = TRUE]
SeenTerminal(doc, a, s) == [Moved(doc, a, "TERMINAL_OBSERVED") EXCEPT ![a].status = s]
\* Mutant: the record does not keep why it could be cleaned.
CleanedSilently(doc, a) == Moved(doc, a, "CLEANED")
Cleaned(doc, a) == [Moved(doc, a, "CLEANED") EXCEPT ![a].from = doc[a].state]

\* canStart: no record anywhere may stand for a live executor, and the
\* approval has no record of its own.
CanStart(a) == /\ \A b \in Approval : ledger[b].state \notin Unaccounted
               /\ ledger[a] = NoRecord

\* assertExactlyOneRetirementHistory
OneHistory(r) == r.gone <=> r.status = "none"

\* assertLedger: what a record must carry to be read at all.
ReadableRecord(r) ==
    /\ r.state = "PREPARED" => r.phase = NoPhase
    /\ r.state \in ExecutionBearing => r.phase # NoPhase
    /\ r.state = "EXECUTOR_GONE_OBSERVED" => r.gone /\ r.status = "none"
    /\ r.state = "EXECUTOR_RETIRED" => OneHistory(r)
    /\ r.state = "CLEANED" =>
          /\ r.from \in CleanedFrom
          /\ r.from = "EXECUTOR_RETIRED" => r.phase # NoPhase /\ OneHistory(r)
          /\ r.from \in NeverRan => /\ r.phase = NoPhase
                                    /\ r.status = "none"
                                    /\ ~r.gone
    /\ r.state \notin {"EXECUTOR_GONE_OBSERVED", "EXECUTOR_RETIRED", "CLEANED"} => ~r.gone

-----------------------------------------------------------------------------
(* The instance store, the world and the calls *)

Launched == {"LAUNCH_ATTEMPTED", "OBSERVED", "STOP_REQUESTED"}
InstanceStates == Launched \cup {"NONE", "PREPARED"}
Instance == [state: InstanceStates, cgroup: BOOLEAN]
NoInstance == [state |-> "NONE", cgroup |-> FALSE]

\* "starting" is a unit whose launch answered ambiguously and that may still
\* come up; "resumable" has no process left but a successor or a restart
\* pending; "resumed" is that successor; "gone" can come back no more.
Breathing == {"running", "resumed"}
Live == Breathing \cup {"starting", "resumable"}
ExecutorStates == Live \cup {"none", "gone"}

\* Where a synchronous call can be.  A call at LedgerPuts or InstancePuts is
\* about to rewrite that document.
LedgerPuts == {"markRunning", "abort", "markGone", "markRetired"}
InstancePuts == {"identity", "launchAttempted", "observeCgroup", "requestStop"}
SectionStages == LedgerPuts \cup InstancePuts \cup
    {"launchApproved", "abortPrepared", "recoverInstance", "launchUnit", "readCgroup",
     "stopUnit", "scanBeforeGone", "unitBeforeGone",
     "scanBeforeRetired", "unitBeforeRetired", "release"}
WorkspaceStages == {"begin", "sandbox", "failPreparation", "rollback", "abortCleanup",
                    "discard", "markCleaned"}
TurnStages == {"agentsAdd", "confirmed", "attempting", "spawn", "turn", "timedOut",
               "quarantine", "answered", "taskObserved"}

Idle == [a |-> NoApproval, at |-> "idle"]
Calls == {Idle} \cup [a: Approval, at: SectionStages \cup WorkspaceStages]
Turns == {Idle} \cup [a: Approval, at: TurnStages]
Copies == {NoCopy} \cup [Approval -> Record] \cup [Approval -> Instance]

Init ==
    /\ ledger = [a \in Approval |-> NoRecord]
    /\ torn = FALSE
    /\ instance = [a \in Approval |-> NoInstance]
    /\ lock = NoProc
    /\ envelope = [a \in Approval |-> "none"]
    /\ executor = [a \in Approval |-> "none"]
    /\ task = [a \in Approval |-> "none"]
    /\ owner = [p \in Proc |-> {}]
    /\ call = [p \in Proc |-> Idle]
    /\ turn = [p \in Proc |-> Idle]
    /\ copy = [p \in Proc |-> NoCopy]
    /\ faults = 0
    /\ resumes = 0

At(p, s) == call[p].at = s
InSection(p) == call[p].at \in SectionStages
Goto(p, s) == call' = [call EXCEPT ![p].at = s]
Return(p) == call' = [call EXCEPT ![p] = Idle]

\* The transport yields the process only where it awaits.
Yielding(p) == turn[p].at \in {"idle", "agentsAdd", "turn"}
Unshared(p) == \A q \in Proc \ {p} : call[q] = Idle
MayCall(p) == call[p] = Idle /\ Yielding(p)

\* A put in a section: the whole document is read, and rewritten from there.
Read(p) ==
    /\ copy[p] = NoCopy
    /\ \/ /\ call[p].at \in LedgerPuts
          /\ ~torn
          /\ copy' = [copy EXCEPT ![p] = ledger]
       \/ /\ call[p].at \in InstancePuts
          /\ copy' = [copy EXCEPT ![p] = instance]
    /\ UNCHANGED <<disk, world, lock, envelope, owner, call, turn, faults>>

PutLedger(p, s, to, doc, next) ==
    /\ At(p, s) /\ copy[p] # NoCopy
    /\ to \in Allowed[copy[p][call[p].a].state]
    /\ ledger' = doc
    /\ copy' = [copy EXCEPT ![p] = NoCopy]
    /\ Goto(p, next)
    /\ UNCHANGED <<torn, instance, world, lock, envelope, owner, turn, faults>>

PutInstance(p, s, doc, next) ==
    /\ At(p, s) /\ copy[p] # NoCopy
    /\ instance' = doc
    /\ copy' = [copy EXCEPT ![p] = NoCopy]
    /\ Goto(p, next)
    /\ UNCHANGED <<ledger, torn, world, lock, envelope, owner, turn, faults>>

\* A step of a section that writes neither document.
Step(p, nexts) ==
    /\ \E next \in nexts : Goto(p, next)
    /\ UNCHANGED <<disk, lock, envelope, owner, turn, copy, faults>>

-----------------------------------------------------------------------------
(* The composition: one section under the lock directory per operation *)

\* mkdir wins or refuses: a busy lock is left alone and nothing is read.
Enter(p, a, operation) ==
    /\ MayCall(p)
    /\ lock = NoProc
    /\ \A q \in Proc \ {p} : call[q].at \notin WorkspaceStages
    /\ lock' = p
    /\ call' = [call EXCEPT ![p] = [a |-> a, at |-> operation]]
    /\ UNCHANGED <<disk, world, envelope, owner, turn, copy, faults>>

\* The preconditions are read inside the section.  The launcher measures the
\* envelope, and refuses when no usable gateway port is allocated.
LaunchApproved(p) ==
    LET a == call[p].a IN
    /\ At(p, "launchApproved") /\ ~torn
    /\ Step(p, IF /\ ledger[a].state = "PREPARED"
                  /\ instance[a] = NoInstance
                  /\ envelope[a] = "present"
               THEN {"identity", "release"} ELSE {"release"})
    /\ UNCHANGED world

NotLaunched(a) == instance[a].state \in {"NONE", "PREPARED"}

AbortPrepared(p) ==
    LET a == call[p].a IN
    /\ At(p, "abortPrepared") /\ ~torn
    /\ Step(p, IF ledger[a].state = "PREPARED" /\ NotLaunched(a)
               THEN {"abort"} ELSE {"release"})
    /\ UNCHANGED world

\* The stop intent is durable before the stop; a record that has it is not
\* written again.
Stop(a) == IF instance[a].state = "STOP_REQUESTED" THEN "stopUnit" ELSE "requestStop"

RecoverInstance(p) ==
    LET a == call[p].a
        s == ledger[a].state
        i == instance[a].state
    IN
    /\ At(p, "recoverInstance") /\ ~torn
    /\ Step(p, {CASE s = "PREPARED" /\ NotLaunched(a) -> "abort"
                  [] s \in {"RUNNING", "TERMINAL_OBSERVED", "SUCCEEDED",
                           "CLIENT_TIMEOUT", "QUARANTINED"} /\ i \in Launched -> Stop(a)
                  [] s = "EXECUTOR_GONE_OBSERVED" /\ i = "STOP_REQUESTED"
                       -> "scanBeforeRetired"
                  [] OTHER -> "release"})
    /\ UNCHANGED world

\* A ledger that cannot be parsed refuses the operation, and what it began.
Unreadable(p) ==
    /\ torn
    /\ call[p].at \in LedgerPuts \cup {"launchApproved", "abortPrepared", "recoverInstance"}
    /\ copy[p] = NoCopy
    /\ Step(p, {"release"})
    /\ UNCHANGED world

\* Mutant: the launch does not wait for RUNNING.
PrepareInstanceOnly(p) ==
    LET a == call[p].a IN
    PutInstance(p, "identity", [copy[p] EXCEPT ![a].state = "PREPARED"], "launchAttempted")

PrepareInstance(p) ==
    LET a == call[p].a IN
    PutInstance(p, "identity", [copy[p] EXCEPT ![a].state = "PREPARED"], "markRunning")

\* RUNNING is durable before the launch intent, and both before the launch.
MarkRunning(p) ==
    LET a == call[p].a IN
    PutLedger(p, "markRunning", "RUNNING", Entered(copy[p], a), "launchAttempted")

LaunchAttempted(p) ==
    LET a == call[p].a IN
    PutInstance(p, "launchAttempted", [copy[p] EXCEPT ![a].state = "LAUNCH_ATTEMPTED"],
                "launchUnit")

\* An answer that is no positive acknowledgement says nothing: the unit may
\* run, may come up later, or may not exist.  Nothing is reset.
LaunchUnit(p) ==
    LET a == call[p].a IN
    /\ At(p, "launchUnit")
    /\ \/ /\ executor' = [executor EXCEPT ![a] = "running"]
          /\ task' = [task EXCEPT ![a] = "live"]
          /\ Step(p, {"readCgroup", "release"})
       \/ /\ executor' = [executor EXCEPT ![a] = "starting"]
          /\ task' = task
          /\ Step(p, {"release"})
       \/ /\ UNCHANGED <<executor, task>>
          /\ Step(p, {"release"})
    /\ UNCHANGED resumes

ReadCgroup(p) ==
    /\ At(p, "readCgroup")
    /\ Step(p, IF executor[call[p].a] \in Breathing
               THEN {"observeCgroup", "release"} ELSE {"release"})
    /\ UNCHANGED world

ObserveCgroup(p) ==
    LET a == call[p].a IN
    PutInstance(p, "observeCgroup",
                [copy[p] EXCEPT ![a] = [state |-> "OBSERVED", cgroup |-> TRUE]], "release")

AbortPreExecution(p) ==
    LET a == call[p].a IN
    PutLedger(p, "abort", "PRE_EXECUTION_ABORTED", Moved(copy[p], a, "PRE_EXECUTION_ABORTED"), "release")

RequestStop(p) ==
    PutInstance(p, "requestStop", [copy[p] EXCEPT ![call[p].a].state = "STOP_REQUESTED"],
                "stopUnit")

\* From TERMINAL_OBSERVED the record already has a task status, and no
\* observation of the system is added to it.  From any other state the stop is
\* containment: it is issued and the record does not move.  (Those are states of
\* a turn, and no run finds one beside a launched instance.)
AfterStop(a) ==
    CASE ledger[a].state = "RUNNING" -> "scanBeforeGone"
      [] ledger[a].state = "TERMINAL_OBSERVED" -> "scanBeforeRetired"
      [] OTHER -> "release"

\* Without a positive acknowledgement, or with no control group to look at,
\* the stop proves nothing.
StopUnit(p) ==
    LET a == call[p].a IN
    /\ At(p, "stopUnit")
    /\ Step(p, IF instance[a].cgroup THEN {"release", AfterStop(a)} ELSE {"release"})
    /\ UNCHANGED world

\* The verifier reads the world in order: the control group, then every
\* process, then the envelope and the unit.  Any reading may come back
\* unusable, and then the verdict is no.
NoProcess(a) == instance[a].cgroup /\ executor[a] \notin Breathing
\* Mutant: an empty control group is taken for the end.
NoSuccessorUnseen(a) == envelope[a] = "present"
NoSuccessor(a) == envelope[a] = "present" /\ executor[a] \notin {"resumable", "resumed"}

ScanProcesses(p) ==
    \E s \in {<<"scanBeforeGone", "unitBeforeGone">>,
              <<"scanBeforeRetired", "unitBeforeRetired">>} :
        /\ At(p, s[1])
        /\ Step(p, IF NoProcess(call[p].a) THEN {s[2], "release"} ELSE {"release"})
        /\ UNCHANGED world

ReadUnit(p) ==
    \E s \in {<<"unitBeforeGone", "markGone">>, <<"unitBeforeRetired", "markRetired">>} :
        /\ At(p, s[1])
        /\ Step(p, IF NoSuccessor(call[p].a) THEN {s[2], "release"} ELSE {"release"})
        /\ UNCHANGED world

\* The observation keeps the lockout; its release takes a second verdict.
ObserveExecutorGone(p) ==
    LET a == call[p].a IN
    PutLedger(p, "markGone", "EXECUTOR_GONE_OBSERVED", SeenGone(copy[p], a), "scanBeforeRetired")

Retire(p) ==
    LET a == call[p].a IN
    PutLedger(p, "markRetired", "EXECUTOR_RETIRED", Moved(copy[p], a, "EXECUTOR_RETIRED"), "release")

Release(p) ==
    /\ At(p, "release")
    /\ lock' = NoProc
    /\ Return(p)
    /\ UNCHANGED <<disk, world, envelope, owner, turn, copy, faults>>

\* A lock whose holder died stands until a person removes its directory.
ClearLock ==
    /\ lock \in Proc
    /\ ~InSection(lock)
    /\ lock' = NoProc
    /\ UNCHANGED <<disk, world, envelope, owner, call, turn, copy, faults>>

Section(p) ==
    \/ Read(p) \/ LaunchApproved(p) \/ AbortPrepared(p) \/ RecoverInstance(p)
    \/ Unreadable(p) \/ PrepareInstance(p) \/ MarkRunning(p) \/ LaunchAttempted(p)
    \/ LaunchUnit(p) \/ ReadCgroup(p) \/ ObserveCgroup(p) \/ AbortPreExecution(p)
    \/ RequestStop(p) \/ StopUnit(p) \/ ScanProcesses(p)
    \/ ReadUnit(p) \/ ObserveExecutorGone(p) \/ Retire(p) \/ Release(p)

-----------------------------------------------------------------------------
(* The governed workspace: prepare and cleanup *)

\* A put outside the sections.
Put(p, doc) ==
    /\ Unshared(p)
    /\ ~torn
    /\ ledger' = doc
    /\ UNCHANGED <<torn, instance, world, lock, copy, faults>>

Call(p, a, s) ==
    /\ MayCall(p) /\ Unshared(p) /\ ~torn
    /\ call' = [call EXCEPT ![p] = [a |-> a, at |-> s]]
    /\ UNCHANGED <<disk, world, lock, envelope, owner, turn, copy, faults>>

Prepare(p, a) == CanStart(a) /\ Call(p, a, "begin")

Begin(p) ==
    /\ At(p, "begin")
    /\ Put(p, Opened(ledger, call[p].a))
    /\ Goto(p, "sandbox")
    /\ UNCHANGED <<envelope, owner, turn>>

\* workspace.prepare answers, or throws with part of the envelope made.
Sandbox(p) ==
    LET a == call[p].a IN
    /\ At(p, "sandbox")
    /\ \/ /\ envelope' = [envelope EXCEPT ![a] = "present"]
          /\ owner' = [owner EXCEPT ![p] = @ \cup {a}]
          /\ Return(p)
       \/ /\ \E e \in {"none", "present"} : envelope' = [envelope EXCEPT ![a] = e]
          /\ owner' = owner
          /\ Goto(p, "failPreparation")
    /\ UNCHANGED <<disk, world, lock, turn, copy, faults>>

FailPreparation(p) ==
    /\ At(p, "failPreparation")
    /\ Put(p, Moved(ledger, call[p].a, "PREPARATION_FAILED"))
    /\ Goto(p, "rollback")
    /\ UNCHANGED <<envelope, owner, turn>>

\* The operation is chosen by the record; any other state refuses.
Cleanup(p, a) ==
    /\ a \in owner[p]
    /\ \/ ledger[a].state = "PREPARED" /\ Call(p, a, "abortCleanup")
       \/ ledger[a].state \in CleanedFrom /\ Call(p, a, "discard")

AbortCleanup(p) ==
    /\ At(p, "abortCleanup")
    /\ Put(p, Moved(ledger, call[p].a, "PRE_EXECUTION_ABORTED"))
    /\ Goto(p, "discard")
    /\ UNCHANGED <<envelope, owner, turn>>

\* abortPrepare, discardPreparedSandbox, cleanupAfterExecution: the envelope
\* goes, or the removal is refused and the record stays where it is.
Discard(p) ==
    LET a == call[p].a IN
    /\ call[p].at \in {"discard", "rollback"}
    /\ \/ /\ envelope[a] = "present" \/ At(p, "rollback")
          /\ envelope' = [envelope EXCEPT ![a] = IF @ = "present" THEN "removed" ELSE @]
          /\ Goto(p, "markCleaned")
       \/ envelope' = envelope /\ Return(p)
    /\ UNCHANGED <<disk, world, lock, owner, turn, copy, faults>>

\* The ledger is written before the ownership is dropped.
MarkCleaned(p) ==
    LET a == call[p].a IN
    /\ At(p, "markCleaned")
    /\ Put(p, Cleaned(ledger, a))
    /\ owner' = [owner EXCEPT ![p] = @ \ {a}]
    /\ Return(p)
    /\ UNCHANGED <<envelope, turn>>

Workspace(p) ==
    \/ \E a \in Approval : Prepare(p, a) \/ Cleanup(p, a)
    \/ Begin(p) \/ Sandbox(p) \/ FailPreparation(p) \/ AbortCleanup(p)
    \/ Discard(p) \/ MarkCleaned(p)

-----------------------------------------------------------------------------
(* The transport's turn and the reconciler *)

TurnAt(p, s) == call[p] = Idle /\ turn[p].at = s
Await(p, s) == turn' = [turn EXCEPT ![p].at = s]
EndTurn(p) == turn' = [turn EXCEPT ![p] = Idle]

\* The durable boundary: nothing external has happened yet.
BeginTurn(p, a) ==
    /\ MayCall(p) /\ turn[p] = Idle
    /\ a \in owner[p]
    /\ "RUNNING" \in Allowed[ledger[a].state]
    /\ Put(p, Entered(ledger, a))
    /\ turn' = [turn EXCEPT ![p] = [a |-> a, at |-> "agentsAdd"]]
    /\ UNCHANGED <<envelope, owner, call>>

\* agents add is confirmed by positive evidence, or the turn is given up; so
\* is a turn whose result is rejected, by the parser or by the ledger.
Answered(p) ==
    /\ TurnAt(p, "agentsAdd") \/ TurnAt(p, "turn")
    /\ \/ EndTurn(p)
       \/ TurnAt(p, "agentsAdd") /\ Await(p, "confirmed")
    /\ UNCHANGED <<disk, world, lock, envelope, owner, call, copy, faults>>

\* Mutant: the turn is spawned before its phase is written.
AdvancePhaseLate(p) ==
    LET a == turn[p].a IN
    /\ turn[p] # Idle /\ ledger[a].state \in ExecutionBearing
    /\ \/ /\ TurnAt(p, "confirmed")
          /\ Put(p, Phased(ledger, a, AgentObserved))
          /\ Await(p, "spawn")
       \/ /\ TurnAt(p, "taskObserved")
          /\ Put(p, Phased(ledger, a, TaskObserved))
          /\ EndTurn(p)
    /\ UNCHANGED <<envelope, owner, call>>

\* advancePhase, twice, each its own put.
AdvancePhase(p) ==
    LET a == turn[p].a IN
    /\ turn[p] # Idle /\ ledger[a].state \in ExecutionBearing
    /\ \/ /\ TurnAt(p, "confirmed")
          /\ Put(p, Phased(ledger, a, AgentObserved))
          /\ Await(p, "attempting")
       \/ /\ TurnAt(p, "attempting")
          /\ Put(p, Phased(ledger, a, TurnAttempting))
          /\ Await(p, "spawn")
       \/ /\ TurnAt(p, "taskObserved")
          /\ Put(p, Phased(ledger, a, TaskObserved))
          /\ EndTurn(p)
    /\ UNCHANGED <<envelope, owner, call>>

Spawn(p) ==
    LET a == turn[p].a IN
    /\ TurnAt(p, "spawn")
    /\ Await(p, "turn")
    /\ \/ /\ executor' = [executor EXCEPT ![a] = "running"]
          /\ task' = [task EXCEPT ![a] = "live"]
       \/ UNCHANGED <<executor, task>>
    /\ UNCHANGED <<disk, resumes, lock, envelope, owner, call, copy, faults>>

\* A client timeout is not a stop.  The record is quarantined by a second put.
ClientTimeout(p) ==
    LET a == turn[p].a IN
    /\ \/ /\ TurnAt(p, "turn")
          /\ "CLIENT_TIMEOUT" \in Allowed[ledger[a].state]
          /\ Put(p, Moved(ledger, a, "CLIENT_TIMEOUT"))
          /\ Await(p, "quarantine")
       \/ /\ TurnAt(p, "quarantine")
          /\ "QUARANTINED" \in Allowed[ledger[a].state]
          /\ Put(p, Moved(ledger, a, "QUARANTINED"))
          /\ EndTurn(p)
    /\ UNCHANGED <<envelope, owner, call>>

MarkSucceeded(p) ==
    LET a == turn[p].a IN
    /\ TurnAt(p, "turn")
    /\ task[a] = "succeeded"
    /\ "SUCCEEDED" \in Allowed[ledger[a].state]
    /\ Put(p, Moved(ledger, a, "SUCCEEDED"))
    /\ Await(p, "taskObserved")
    /\ UNCHANGED <<envelope, owner, call>>

\* observeTerminal: an observed success is not an accepted one, and cannot
\* contradict one.
MayObserve(s, status) ==
    /\ "TERMINAL_OBSERVED" \in Allowed[s]
    /\ s = "RUNNING" => status # "succeeded"
    /\ s = "SUCCEEDED" => status = "succeeded"

\* One record of the reconciler's pass; the pass is one such step for each.
Reconcile(p, a) ==
    /\ MayCall(p)
    /\ ledger[a].state \in Unaccounted
    /\ task[a] \in {"succeeded", "failed"}
    /\ MayObserve(ledger[a].state, task[a])
    /\ Put(p, SeenTerminal(ledger, a, task[a]))
    /\ UNCHANGED <<envelope, owner, call, turn>>

Transport(p) ==
    \/ \E a \in Approval : BeginTurn(p, a) \/ Reconcile(p, a)
    \/ Answered(p) \/ AdvancePhase(p) \/ Spawn(p) \/ ClientTimeout(p) \/ MarkSucceeded(p)

-----------------------------------------------------------------------------
(* The operating system, failed writes and crashes *)

\* A unit whose launch answered ambiguously comes up, or never does.
LateStart(a) ==
    /\ executor[a] = "starting"
    /\ \/ /\ executor' = [executor EXCEPT ![a] = "running"]
          /\ task' = [task EXCEPT ![a] = "live"]
       \/ /\ executor' = [executor EXCEPT ![a] = "gone"]
          /\ task' = task
    /\ UNCHANGED resumes

\* The turn ends, by itself or because of a stop; a successor may follow.
Exit(a) ==
    /\ executor[a] \in Breathing
    /\ \/ executor' = [executor EXCEPT ![a] = "gone"] /\ UNCHANGED resumes
       \/ /\ resumes < MaxResumes
          /\ executor' = [executor EXCEPT ![a] = "resumable"]
          /\ resumes' = resumes + 1
    /\ \E s \in IF task[a] = "live" THEN {"succeeded", "failed"} ELSE {task[a]} :
           task' = [task EXCEPT ![a] = s]

Resume(a) ==
    /\ executor[a] = "resumable"
    /\ \E e \in {"resumed", "gone"} : executor' = [executor EXCEPT ![a] = e]
    /\ UNCHANGED <<task, resumes>>

World ==
    /\ \E a \in Approval : LateStart(a) \/ Exit(a) \/ Resume(a)
    /\ UNCHANGED <<disk, lock, envelope, owner, call, turn, copy, faults>>

\* The ledger's write truncates the file before it fills it; the instance
\* store's renames a finished one.  A put that is cut short tears the first.
WritingLedger(p) ==
    \/ call[p].at \in LedgerPuts /\ copy[p] # NoCopy
    \/ call[p].at \in {"begin", "failPreparation", "abortCleanup", "markCleaned"}
    \/ ~Yielding(p) /\ turn[p].at # "spawn"
WritingInstance(p) == call[p].at \in InstancePuts /\ copy[p] # NoCopy

CutShort(p) ==
    /\ \E t \in IF WritingLedger(p) THEN {torn, TRUE} ELSE {torn} : torn' = t
    /\ copy' = [copy EXCEPT ![p] = NoCopy]
    /\ UNCHANGED <<ledger, instance, world, envelope>>

\* A write that fails throws: a section ends without what would follow, a call
\* of the workspace and a turn of the transport are left where they are.
WriteFails(p) ==
    /\ WritingLedger(p) \/ WritingInstance(p)
    /\ faults < MaxFaults
    /\ faults' = faults + 1
    /\ CutShort(p)
    /\ IF InSection(p) THEN Goto(p, "release") ELSE Return(p)
    /\ turn' = IF Yielding(p) THEN turn ELSE [turn EXCEPT ![p] = Idle]
    /\ UNCHANGED <<lock, owner>>

Crash(p) ==
    /\ faults < MaxFaults
    /\ faults' = faults + 1
    /\ CutShort(p)
    /\ owner' = [owner EXCEPT ![p] = {}]
    /\ Return(p)
    /\ EndTurn(p)
    /\ UNCHANGED lock

Operations == {"launchApproved", "abortPrepared", "recoverInstance"}

Next ==
    \/ \E p \in Proc :
          \/ \E a \in Approval, operation \in Operations : Enter(p, a, operation)
          \/ Section(p) \/ Workspace(p) \/ Transport(p)
          \/ WriteFails(p) \/ Crash(p)
    \/ ClearLock
    \/ World

Spec == Init /\ [][Next]_vars

-----------------------------------------------------------------------------
(* Properties *)

\* The types of the two ledgers, the lock, the calls and the world.
TypeOK ==
    /\ ledger \in [Approval -> Record]
    /\ torn \in BOOLEAN
    /\ instance \in [Approval -> Instance]
    /\ lock \in Proc \cup {NoProc}
    /\ envelope \in [Approval -> {"none", "present", "removed"}]
    /\ executor \in [Approval -> ExecutorStates]
    /\ task \in [Approval -> {"none", "live", "succeeded", "failed"}]
    /\ owner \in [Proc -> SUBSET Approval]
    /\ call \in [Proc -> Calls]
    /\ turn \in [Proc -> Turns]
    /\ copy \in [Proc -> Copies]
    /\ faults \in 0 .. MaxFaults
    /\ resumes \in 0 .. MaxResumes

\* An executor that runs, may still come up or may come back is held by a
\* record that locks every further begin out: no crash between two writes, no
\* ambiguous launch, no exit between the verifier's readings lets it go.
LiveIsCovered ==
    \A a \in Approval : executor[a] \in Live => ledger[a].state \in Unaccounted

\* Where an executor was ever started, the disk said beforehand that one was
\* about to be: a launch intent of the unit lane, or the phase of a turn.
EvidencePrecedesExecutor ==
    \A a \in Approval : executor[a] # "none" =>
        instance[a].state \in Launched \/ ledger[a].phase >= TurnAttempting

\* The envelope is never removed while its executor could still write to it.
EnvelopeOutlivesExecutor ==
    \A a \in Approval : executor[a] \in Live => envelope[a] = "present"

\* A record that says nothing ever ran is right, also after it was cleaned.
NeverRanIsTrue ==
    \A a \in Approval :
        ledger[a].state \in NeverRan \/ ledger[a].from \in NeverRan => executor[a] = "none"

\* No sequence of operations writes a ledger its own reader would refuse.
LedgerReadable == \A a \in Approval : ReadableRecord(ledger[a])

\* "The unaccounted-for thing is a process, not an approval": no executor is
\* started while another may be alive.  Two approvals begun before either was
\* launched are both launched.
OneExecutorAtATime ==
    \A a, b \in Approval : executor[a] \in Live /\ executor[b] \in Live => a = b
=============================================================================
