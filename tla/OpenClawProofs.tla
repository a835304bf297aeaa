--------------------------- MODULE OpenClawProofs ---------------------------
(***************************************************************************)
(* Theorems about the OpenClaw plane, for every set of approvals and of    *)
(* backend processes and every bound: the two ledgers account for every    *)
(* executor.                                                               *)
(***************************************************************************)
EXTENDS OpenClaw, TLAPS

-----------------------------------------------------------------------------
(* The inductive invariant *)

\* What a record looks like between two puts; it implies that it is readable.
Shape(r) ==
    /\ ReadableRecord(r)
    /\ r.state = "NONE" => r = NoRecord
    /\ r.state \in NeverRan => r.phase = NoPhase
    /\ r.state \notin {"TERMINAL_OBSERVED", "EXECUTOR_RETIRED", "CLEANED"} => r.status = "none"
    /\ r.state = "TERMINAL_OBSERVED" => r.status # "none"
    /\ r.state # "CLEANED" => r.from = "none"

NotBegun == {"NONE", "PREPARED"} \cup NeverRan

\* What ties the ledger, the instance store, the envelope and the executor of
\* one approval together.
RecordOK(a) ==
    /\ Shape(ledger[a])
    /\ executor[a] \in Live => ledger[a].state \in Unaccounted /\ envelope[a] = "present"
    /\ executor[a] # "none" => instance[a].state \in Launched \/ ledger[a].phase >= TurnAttempting
    /\ ledger[a].state \in NotBegun =>
          executor[a] = "none" /\ instance[a].state \notin Launched
    /\ ledger[a].from \in NeverRan => executor[a] = "none"
    /\ instance[a].cgroup =>
          instance[a].state \in Launched /\ executor[a] \notin {"none", "starting"}
    /\ \A p \in Proc : a \in owner[p] =>
          /\ ledger[a].state # "NONE"
          /\ ledger[a].state = "PREPARED" => envelope[a] = "present"

\* What a call has read or written so far is still so at its next step.
CallOK(p) == call[p].at # "idle" =>
    LET a == call[p].a
        s == ledger[a].state
    IN
    /\ call[p].at \in {"identity", "markRunning"} => s = "PREPARED" /\ envelope[a] = "present"
    /\ call[p].at \in {"launchAttempted", "launchUnit"} =>
          /\ s = "RUNNING"
          /\ envelope[a] = "present"
          /\ executor[a] = "none"
          /\ \A q \in Proc : turn[q].a # a
    /\ call[p].at \in {"launchUnit", "readCgroup", "observeCgroup", "requestStop"} => instance[a].state \in Launched
    /\ call[p].at = "observeCgroup" => executor[a] \notin {"none", "starting"}
    /\ call[p].at \in {"unitBeforeGone", "unitBeforeRetired"} =>
          instance[a].cgroup /\ executor[a] \in {"resumable", "resumed", "gone"}
    /\ call[p].at \in {"markGone", "markRetired"} => instance[a].cgroup /\ executor[a] = "gone"
    /\ call[p].at = "begin" => ledger[a] = NoRecord
    /\ call[p].at = "sandbox" => s = "PREPARED" /\ \A q \in Proc : a \notin owner[q]
    /\ call[p].at \in {"failPreparation", "abortCleanup"} => s = "PREPARED"
    /\ call[p].at \in {"rollback", "discard", "markCleaned"} => s \in CleanedFrom

\* A turn is the only one of its approval, and is not of the unit lane.
Early == {"agentsAdd", "confirmed", "attempting", "spawn"}
TurnOK(p) == turn[p].at # "idle" =>
    LET a == turn[p].a IN
    /\ ledger[a].state \in Unaccounted
    /\ instance[a].state \notin Launched
    /\ turn[p].at \in Early => executor[a] = "none" /\ envelope[a] = "present"
    /\ turn[p].at = "spawn" => ledger[a].phase = TurnAttempting
    /\ \A q \in Proc : turn[q].a = a => p = q

\* One call at a time, a section under the lock, and a put from a fresh copy.
OneCall ==
    /\ \A p \in Proc : InSection(p) => lock = p
    /\ \A p, q \in Proc : call[p].at # "idle" /\ call[q].at # "idle" => p = q
FreshCopy == \A p \in Proc : copy[p] # NoCopy =>
    /\ call[p].at \in LedgerPuts \cup InstancePuts
    /\ call[p].at \in LedgerPuts => copy[p] = ledger
    /\ call[p].at \in InstancePuts => copy[p] = instance

IInv ==
    /\ TypeOK
    /\ OneCall
    /\ FreshCopy
    /\ \A a \in Approval : RecordOK(a)
    /\ \A p \in Proc : CallOK(p) /\ TurnOK(p)

-----------------------------------------------------------------------------
(* Facts used by every step *)

\* Where each state of a record may come from.
LEMMA AllowedFrom ==
    ASSUME NEW s \in LedgerStates
    PROVE  /\ "RUNNING" \in Allowed[s] => s = "PREPARED"
           /\ "PRE_EXECUTION_ABORTED" \in Allowed[s] => s = "PREPARED"
           /\ "SUCCEEDED" \in Allowed[s] => s = "RUNNING"
           /\ "CLIENT_TIMEOUT" \in Allowed[s] => s = "RUNNING"
           /\ "QUARANTINED" \in Allowed[s] => s = "CLIENT_TIMEOUT"
           /\ "EXECUTOR_GONE_OBSERVED" \in Allowed[s] => s = "RUNNING"
           /\ "TERMINAL_OBSERVED" \in Allowed[s] => s \in {"RUNNING", "SUCCEEDED", "QUARANTINED"}
           /\ "EXECUTOR_RETIRED" \in Allowed[s] =>
                 s \in {"TERMINAL_OBSERVED", "EXECUTOR_GONE_OBSERVED"}
BY DEF Allowed, LedgerStates, ExecutionBearing, Unaccounted, NeverRan, CleanedFrom

\* A call in progress is of an approval and at a known position.
LEMMA CallRange ==
    ASSUME TypeOK, NEW p \in Proc
    PROVE  /\ call[p].at \in {"idle"} \cup SectionStages \cup WorkspaceStages
           /\ call[p].at = "idle" => call[p] = Idle
           /\ call[p].at # "idle" =>
                 call[p].a \in Approval /\ call[p] = [a |-> call[p].a, at |-> call[p].at]
           /\ turn[p].at \in {"idle"} \cup TurnStages
           /\ turn[p].at = "idle" => turn[p] = Idle
           /\ turn[p].at # "idle" =>
                 turn[p].a \in Approval /\ turn[p] = [a |-> turn[p].a, at |-> turn[p].at]
BY
DEF TypeOK, Calls, Turns, Idle, SectionStages, WorkspaceStages, TurnStages, LedgerPuts,
    InstancePuts

\* What moving a call, ending it, and moving or ending a turn do.
LEMMA Moves ==
    ASSUME TypeOK, NEW p \in Proc
    PROVE  /\ \A s \in SectionStages \cup WorkspaceStages :
                 call[p].at # "idle" /\ Goto(p, s) =>
                     /\ call' \in [Proc -> Calls]
                     /\ call'[p].a = call[p].a /\ call'[p].at = s
                     /\ \A q \in Proc \ {p} : call'[q] = call[q]
           /\ Return(p) =>
                 /\ call' \in [Proc -> Calls]
                 /\ call'[p] = Idle
                 /\ \A q \in Proc \ {p} : call'[q] = call[q]
           /\ \A s \in TurnStages :
                 turn[p].at # "idle" /\ Await(p, s) =>
                     /\ turn' \in [Proc -> Turns]
                     /\ turn'[p].a = turn[p].a /\ turn'[p].at = s
                     /\ \A q \in Proc \ {p} : turn'[q] = turn[q]
           /\ EndTurn(p) =>
                 /\ turn' \in [Proc -> Turns]
                 /\ turn'[p] = Idle
                 /\ \A q \in Proc \ {p} : turn'[q] = turn[q]
<1>1. ASSUME NEW s \in SectionStages \cup WorkspaceStages, call[p].at # "idle", Goto(p, s)
      PROVE  /\ call' \in [Proc -> Calls]
             /\ call'[p].a = call[p].a /\ call'[p].at = s
             /\ \A q \in Proc \ {p} : call'[q] = call[q]
    <2>0. [call[p] EXCEPT !.at = s] = [a |-> call[p].a, at |-> s]
        <3> DEFINE b == call[p].a
                   t == call[p].at
        <3>1. call[p] = [a |-> b, at |-> t]
            BY <1>1, CallRange
        <3>2. [[a |-> b, at |-> t] EXCEPT !.at = s] = [a |-> b, at |-> s]
            OBVIOUS
        <3>3. QED
            BY <3>1, <3>2
    <2>1. call' = [call EXCEPT ![p] = [a |-> call[p].a, at |-> s]]
        BY <1>1, <2>0 DEF Goto, TypeOK
    <2>2. [a |-> call[p].a, at |-> s] \in Calls
        BY <1>1, CallRange DEF Calls
    <2>3. QED
        BY <2>1, <2>2 DEF TypeOK
<1>2. ASSUME NEW s \in TurnStages, turn[p].at # "idle", Await(p, s)
      PROVE  /\ turn' \in [Proc -> Turns]
             /\ turn'[p].a = turn[p].a /\ turn'[p].at = s
             /\ \A q \in Proc \ {p} : turn'[q] = turn[q]
    <2>0. [turn[p] EXCEPT !.at = s] = [a |-> turn[p].a, at |-> s]
        <3> DEFINE b == turn[p].a
                   t == turn[p].at
        <3>1. turn[p] = [a |-> b, at |-> t]
            BY <1>2, CallRange
        <3>2. [[a |-> b, at |-> t] EXCEPT !.at = s] = [a |-> b, at |-> s]
            OBVIOUS
        <3>3. QED
            BY <3>1, <3>2
    <2>1. turn' = [turn EXCEPT ![p] = [a |-> turn[p].a, at |-> s]]
        BY <1>2, <2>0 DEF Await, TypeOK
    <2>2. [a |-> turn[p].a, at |-> s] \in Turns
        BY <1>2, CallRange DEF Turns
    <2>3. QED
        BY <2>1, <2>2 DEF TypeOK
<1>3. Idle \in Calls /\ Idle \in Turns
    BY DEF Calls, Turns
<1>4. QED
    BY <1>1, <1>2, <1>3 DEF TypeOK, Return, EndTurn

\* The initial states satisfy the invariant.
LEMMA InitKeeps == Init => IInv
<1> SUFFICES ASSUME Init PROVE IInv
    OBVIOUS
<1>1. TypeOK
    <2>1. ledger \in [Approval -> Record]
        BY DEF Init, Record, NoRecord, LedgerStates, NoPhase
    <2>2. /\ call \in [Proc -> Calls] /\ turn \in [Proc -> Turns]
          /\ copy \in [Proc -> Copies] /\ owner \in [Proc -> SUBSET Approval]
        BY DEF Init, Calls, Turns, Copies
    <2>3. /\ instance \in [Approval -> Instance]
          /\ executor \in [Approval -> ExecutorStates]
        BY DEF Init, Instance, NoInstance, InstanceStates, ExecutorStates
    <2>4. faults \in 0 .. MaxFaults /\ resumes \in 0 .. MaxResumes
        BY BoundsAssumption DEF Init
    <2>5. QED
        BY <2>1, <2>2, <2>3, <2>4 DEF Init, TypeOK
<1>2. OneCall /\ FreshCopy
    BY DEF Init, OneCall, FreshCopy, InSection, Idle, SectionStages, LedgerPuts, InstancePuts
<1>3. \A a \in Approval : RecordOK(a)
    BY DEF Init, RecordOK, Shape, ReadableRecord, NoRecord, NoPhase, NoInstance, Live, Breathing,
       NeverRan, Unaccounted, Launched, NotBegun, ExecutionBearing, CleanedFrom
<1>4. \A p \in Proc : CallOK(p) /\ TurnOK(p)
    BY DEF Init, CallOK, TurnOK, Idle
<1>5. QED
    BY <1>1, <1>2, <1>3, <1>4 DEF IInv

\* A step of a section that changes only the position of its call keeps the
\* invariant when the new position's facts hold.
LEMMA StepKeeps ==
    ASSUME IInv, NEW p \in Proc, InSection(p), copy[p] = NoCopy,
           NEW next \in SectionStages, Goto(p, next),
           UNCHANGED <<disk, world, lock, envelope, owner, turn, copy, faults>>,
           CallOK(p)'
    PROVE  IInv'
<1> DEFINE a == call[p].a
<1>0. /\ TypeOK /\ call[p].at # "idle"
      /\ call' \in [Proc -> Calls]
      /\ call'[p].a = a /\ call'[p].at = next
      /\ \A q \in Proc \ {p} : call'[q] = call[q]
    BY Moves, CallRange DEF IInv, InSection, SectionStages, LedgerPuts, InstancePuts
<1>1. TypeOK'
    BY <1>0 DEF TypeOK, disk, world
<1>2. OneCall'
    BY <1>0 DEF IInv, OneCall, InSection
<1>3. FreshCopy'
    BY <1>0 DEF IInv, FreshCopy, disk
<1>4. ASSUME NEW b \in Approval PROVE RecordOK(b)'
    BY DEF IInv, RecordOK, disk, world
<1>5. ASSUME NEW q \in Proc PROVE CallOK(q)'
    BY <1>0 DEF IInv, OneCall, CallOK
<1>6. ASSUME NEW q \in Proc PROVE TurnOK(q)'
    BY DEF IInv, TurnOK, disk, world
<1>7. QED
    BY <1>1, <1>2, <1>3, <1>4, <1>5, <1>6 DEF IInv

\* The four ways of writing a document, and a call of the workspace or of the
\* transport: each keeps the invariant when what it says of its own approval
\* and of its own call or turn holds.  A call in progress is the only one, so
\* what a section has read is still true when it writes.

LEMMA SectionLedgerPut ==
    ASSUME IInv, NEW p \in Proc, InSection(p), NEW a \in Approval, a = call[p].a,
           NEW next \in SectionStages, Goto(p, next),
           ledger' \in [Approval -> Record],
           \A b \in Approval \ {a} : ledger'[b] = ledger[b],
           copy' = [copy EXCEPT ![p] = NoCopy],
           UNCHANGED <<torn, instance, world, lock, envelope, owner, turn, faults>>,
           \A q \in Proc : turn[q].a # a,
           RecordOK(a)', CallOK(p)'
    PROVE  IInv'
<1>0. /\ TypeOK /\ call[p].at # "idle"
      /\ call' \in [Proc -> Calls]
      /\ call'[p].a = a /\ call'[p].at = next
      /\ \A q \in Proc \ {p} : call'[q] = call[q] /\ call[q].at = "idle"
    <2>1. TypeOK /\ call[p].at # "idle"
        BY DEF IInv, InSection, SectionStages, LedgerPuts, InstancePuts
    <2>2. \A q \in Proc \ {p} : call[q].at = "idle"
        BY <2>1 DEF IInv, OneCall
    <2>3. QED
        BY <2>1, <2>2, Moves
<1>1. TypeOK'
    <2>1. NoCopy \in Copies
        BY DEF Copies
    <2>2. QED
        BY <1>0, <2>1 DEF TypeOK, world
<1>2. OneCall'
    BY <1>0 DEF IInv, OneCall, InSection
<1>3. FreshCopy'
    <2>1. ASSUME NEW q \in Proc, copy'[q] # NoCopy PROVE FALSE
        BY <1>0, <2>1 DEF IInv, FreshCopy, LedgerPuts, InstancePuts, TypeOK
    <2>2. QED
        BY <2>1 DEF FreshCopy
<1>4. ASSUME NEW b \in Approval PROVE RecordOK(b)'
    <2>1. CASE b = a
        BY <2>1
    <2>2. CASE b # a
        BY <1>0, <2>2 DEF IInv, TypeOK, RecordOK, world
    <2>3. QED
        BY <2>1, <2>2
<1>5. ASSUME NEW q \in Proc PROVE CallOK(q)'
    BY <1>0 DEF CallOK
<1>6. ASSUME NEW q \in Proc PROVE TurnOK(q)'
    BY <1>0, CallRange DEF IInv, TypeOK, TurnOK, world
<1>7. QED
    BY <1>1, <1>2, <1>3, <1>4, <1>5, <1>6 DEF IInv

LEMMA SectionInstancePut ==
    ASSUME IInv, NEW p \in Proc, InSection(p), NEW a \in Approval, a = call[p].a,
           NEW next \in SectionStages, Goto(p, next),
           instance' \in [Approval -> Instance],
           \A b \in Approval \ {a} : instance'[b] = instance[b],
           copy' = [copy EXCEPT ![p] = NoCopy],
           UNCHANGED <<ledger, torn, world, lock, envelope, owner, turn, faults>>,
           instance'[a].state \in Launched => \A q \in Proc : turn[q].a # a,
           RecordOK(a)', CallOK(p)'
    PROVE  IInv'
<1>0. /\ TypeOK /\ call[p].at # "idle"
      /\ call' \in [Proc -> Calls]
      /\ call'[p].a = a /\ call'[p].at = next
      /\ \A q \in Proc \ {p} : call'[q] = call[q] /\ call[q].at = "idle"
    <2>1. TypeOK /\ call[p].at # "idle"
        BY DEF IInv, InSection, SectionStages, LedgerPuts, InstancePuts
    <2>2. \A q \in Proc \ {p} : call[q].at = "idle"
        BY <2>1 DEF IInv, OneCall
    <2>3. QED
        BY <2>1, <2>2, Moves
<1>1. TypeOK'
    <2>1. NoCopy \in Copies
        BY DEF Copies
    <2>2. QED
        BY <1>0, <2>1 DEF TypeOK, world
<1>2. OneCall'
    BY <1>0 DEF IInv, OneCall, InSection
<1>3. FreshCopy'
    <2>1. ASSUME NEW q \in Proc, copy'[q] # NoCopy PROVE FALSE
        BY <1>0, <2>1 DEF IInv, FreshCopy, LedgerPuts, InstancePuts, TypeOK
    <2>2. QED
        BY <2>1 DEF FreshCopy
<1>4. ASSUME NEW b \in Approval PROVE RecordOK(b)'
    <2>1. CASE b = a
        BY <2>1
    <2>2. CASE b # a
        BY <1>0, <2>2 DEF IInv, TypeOK, RecordOK, world
    <2>3. QED
        BY <2>1, <2>2
<1>5. ASSUME NEW q \in Proc PROVE CallOK(q)'
    BY <1>0 DEF CallOK
<1>6. ASSUME NEW q \in Proc PROVE TurnOK(q)'
    BY <1>0, CallRange DEF IInv, TypeOK, TurnOK, world
<1>7. QED
    BY <1>1, <1>2, <1>3, <1>4, <1>5, <1>6 DEF IInv

LEMMA WorkspacePut ==
    ASSUME IInv, NEW p \in Proc, call[p].at \in WorkspaceStages, Unshared(p),
           NEW a \in Approval, a = call[p].a,
           (\E next \in WorkspaceStages : Goto(p, next)) \/ Return(p),
           ledger' \in [Approval -> Record],
           \A b \in Approval \ {a} : ledger'[b] = ledger[b],
           owner' \in [Proc -> SUBSET Approval], \A q \in Proc : owner'[q] \subseteq owner[q],
           UNCHANGED <<torn, instance, world, lock, envelope, copy, turn, faults>>,
           \A q \in Proc : turn[q].a # a,
           RecordOK(a)', CallOK(p)'
    PROVE  IInv'
<1>0. /\ TypeOK /\ call[p].at # "idle" /\ a \in Approval
      /\ call' \in [Proc -> Calls]
      /\ call'[p].at \notin SectionStages
      /\ \A q \in Proc \ {p} : call'[q] = call[q] /\ call[q].at = "idle"
    <2>1. TypeOK /\ call[p].at # "idle" /\ a \in Approval
        BY CallRange DEF IInv, WorkspaceStages
    <2>2. /\ call' \in [Proc -> Calls]
          /\ call'[p].at \in WorkspaceStages \cup {"idle"}
          /\ \A q \in Proc \ {p} : call'[q] = call[q]
        BY <2>1, Moves DEF Idle
    <2>3. \A q \in Proc \ {p} : call[q].at = "idle"
        BY DEF Unshared, Idle
    <2>4. call'[p].at \notin SectionStages
        BY <2>2 DEF WorkspaceStages, SectionStages, LedgerPuts, InstancePuts
    <2>5. QED
        BY <2>1, <2>2, <2>3, <2>4
<1>1. TypeOK'
    BY <1>0 DEF TypeOK, world
<1>2. OneCall'
    BY <1>0 DEF IInv, OneCall, InSection, SectionStages
<1>3. FreshCopy'
    <2>1. ASSUME NEW q \in Proc, copy'[q] # NoCopy PROVE FALSE
        BY <1>0, <2>1 DEF IInv, FreshCopy, LedgerPuts, InstancePuts, WorkspaceStages
    <2>2. QED
        BY <2>1 DEF FreshCopy
<1>4. ASSUME NEW b \in Approval PROVE RecordOK(b)'
    <2>1. CASE b = a
        BY <2>1
    <2>2. CASE b # a
        BY <1>0, <2>2 DEF IInv, TypeOK, RecordOK, world
    <2>3. QED
        BY <2>1, <2>2
<1>5. ASSUME NEW q \in Proc PROVE CallOK(q)'
    BY <1>0 DEF CallOK
<1>6. ASSUME NEW q \in Proc PROVE TurnOK(q)'
    BY <1>0, CallRange DEF IInv, TypeOK, TurnOK, world
<1>7. QED
    BY <1>1, <1>2, <1>3, <1>4, <1>5, <1>6 DEF IInv

LEMMA TurnPut ==
    ASSUME IInv, NEW p \in Proc, call[p] = Idle, Unshared(p),
           NEW a \in Approval, ledger' \in [Approval -> Record],
           \A b \in Approval \ {a} : ledger'[b] = ledger[b],
           turn' \in [Proc -> Turns], turn'[p].at # "idle" => turn'[p].a = a,
           \A q \in Proc \ {p} : turn'[q] = turn[q] /\ turn[q].a # a,
           UNCHANGED <<torn, instance, world, lock, envelope, owner, copy, call, faults>>,
           RecordOK(a)', TurnOK(p)'
    PROVE  IInv'
<1>0. TypeOK /\ \A q \in Proc : call[q].at = "idle"
    BY DEF IInv, Unshared, Idle
<1>1. TypeOK'
    BY <1>0 DEF TypeOK, world
<1>2. OneCall'
    BY DEF IInv, OneCall, InSection
<1>3. FreshCopy'
    <2>1. ASSUME NEW q \in Proc, copy'[q] # NoCopy PROVE FALSE
        BY <1>0, <2>1 DEF IInv, FreshCopy, LedgerPuts, InstancePuts
    <2>2. QED
        BY <2>1 DEF FreshCopy
<1>4. ASSUME NEW b \in Approval PROVE RecordOK(b)'
    <2>1. CASE b = a
        BY <2>1
    <2>2. CASE b # a
        BY <1>0, <2>2 DEF IInv, TypeOK, RecordOK, world
    <2>3. QED
        BY <2>1, <2>2
<1>5. ASSUME NEW q \in Proc PROVE CallOK(q)'
    BY <1>0 DEF CallOK
<1>6. ASSUME NEW q \in Proc PROVE TurnOK(q)'
    <2>1. CASE q = p
        BY <2>1
    <2>2. CASE q # p
        <3>1. TypeOK' /\ TurnOK(q) /\ turn'[q] = turn[q] /\ turn[q].a # a
            BY <1>1, <2>2 DEF IInv
        <3>2. turn[q].at # "idle" => turn[q].a \in Approval
            BY <1>0, CallRange
        <3>3. turn'[p].at = "idle" => turn'[p] = Idle
            BY <1>1 DEF TypeOK, Turns, TurnStages
        <3>4. ASSUME turn[q].at # "idle", NEW x \in Proc, turn'[x].a = turn[q].a PROVE q = x
            BY <2>2, <3>1, <3>2, <3>3, <3>4, NamesAssumption DEF TurnOK, Idle
        <3>5. QED
            BY <1>0, <3>1, <3>2, <3>4 DEF TurnOK, TypeOK, world
    <2>3. QED
        BY <2>1, <2>2
<1>7. QED
    BY <1>1, <1>2, <1>3, <1>4, <1>5, <1>6 DEF IInv

-----------------------------------------------------------------------------
(* The steps of a section *)

\* The preconditions of a launch are what its writes rely on.
LEMMA LaunchApprovedKeeps == ASSUME IInv, NEW p \in Proc, LaunchApproved(p) PROVE IInv'
<1>1. TypeOK /\ CallOK(p) /\ InSection(p) /\ copy[p] = NoCopy
    BY DEF IInv, FreshCopy, LaunchApproved, At, InSection, SectionStages, LedgerPuts, InstancePuts
<1>2. PICK next \in {"identity", "release"} : Goto(p, next)
    BY DEF LaunchApproved, Step
<1>3. next \in SectionStages /\ call'[p].at = next /\ call'[p].a = call[p].a
    BY <1>1, <1>2, CallRange, Moves DEF InSection, SectionStages, LedgerPuts, InstancePuts
<1>4. UNCHANGED <<disk, world, lock, envelope, owner, turn, copy, faults>>
    BY DEF LaunchApproved, Step
<1>5. CallOK(p)'
    BY <1>1, <1>2, <1>3, <1>4 DEF LaunchApproved, Step, At, Goto, CallOK, disk, world
<1>6. QED
    BY <1>1, <1>2, <1>3, <1>4, <1>5, StepKeeps

\* An abort relies on the record alone, which its put checks again.
LEMMA AbortPreparedKeeps == ASSUME IInv, NEW p \in Proc, AbortPrepared(p) PROVE IInv'
<1>1. TypeOK /\ CallOK(p) /\ InSection(p) /\ copy[p] = NoCopy
    BY DEF IInv, FreshCopy, AbortPrepared, At, InSection, SectionStages, LedgerPuts, InstancePuts
<1>2. PICK next \in {"abort", "release"} : Goto(p, next)
    BY DEF AbortPrepared, Step
<1>3. next \in SectionStages /\ call'[p].at = next /\ call'[p].a = call[p].a
    BY <1>1, <1>2, CallRange, Moves DEF InSection, SectionStages, LedgerPuts, InstancePuts
<1>4. UNCHANGED <<disk, world, lock, envelope, owner, turn, copy, faults>>
    BY DEF AbortPrepared, Step
<1>5. CallOK(p)'
    BY <1>1, <1>2, <1>3, <1>4 DEF AbortPrepared, Step, At, Goto, CallOK, disk, world
<1>6. QED
    BY <1>1, <1>2, <1>3, <1>4, <1>5, StepKeeps

\* A recovery asks for a stop only where a launch was attempted.
LEMMA RecoverInstanceKeeps == ASSUME IInv, NEW p \in Proc, RecoverInstance(p) PROVE IInv'
<1>1. TypeOK /\ CallOK(p) /\ InSection(p) /\ copy[p] = NoCopy
    BY
    DEF IInv, FreshCopy, RecoverInstance, At, InSection, SectionStages, LedgerPuts, InstancePuts
<1>2. PICK next \in {"abort", "requestStop", "stopUnit", "scanBeforeRetired",
                   "release"} : Goto(p, next)
    BY DEF RecoverInstance, Step, Stop, Launched
<1>3. next \in SectionStages /\ call'[p].at = next /\ call'[p].a = call[p].a
    BY <1>1, <1>2, CallRange, Moves DEF InSection, SectionStages, LedgerPuts, InstancePuts
<1>4. UNCHANGED <<disk, world, lock, envelope, owner, turn, copy, faults>>
    BY DEF RecoverInstance, Step
<1>5. CallOK(p)'
    BY <1>1, <1>2, <1>3, <1>4
    DEF RecoverInstance, Step, At, Goto, CallOK, disk, world, Stop, Launched
<1>6. QED
    BY <1>1, <1>2, <1>3, <1>4, <1>5, StepKeeps

\* A ledger that cannot be read ends the section.
LEMMA UnreadableKeeps == ASSUME IInv, NEW p \in Proc, Unreadable(p) PROVE IInv'
<1>1. TypeOK /\ CallOK(p) /\ InSection(p) /\ copy[p] = NoCopy
    BY DEF IInv, FreshCopy, Unreadable, At, InSection, SectionStages, LedgerPuts, InstancePuts
<1>2. PICK next \in {"release"} : Goto(p, next)
    BY DEF Unreadable, Step
<1>3. next \in SectionStages /\ call'[p].at = next /\ call'[p].a = call[p].a
    BY <1>1, <1>2, CallRange, Moves DEF InSection, SectionStages, LedgerPuts, InstancePuts
<1>4. UNCHANGED <<disk, world, lock, envelope, owner, turn, copy, faults>>
    BY DEF Unreadable, Step
<1>5. CallOK(p)'
    BY <1>1, <1>2, <1>3, <1>4 DEF Unreadable, Step, At, Goto, CallOK, disk, world
<1>6. QED
    BY <1>1, <1>2, <1>3, <1>4, <1>5, StepKeeps

\* The control group that is read back is of a unit that came up.
LEMMA ReadCgroupKeeps == ASSUME IInv, NEW p \in Proc, ReadCgroup(p) PROVE IInv'
<1>1. TypeOK /\ CallOK(p) /\ InSection(p) /\ copy[p] = NoCopy
    BY DEF IInv, FreshCopy, ReadCgroup, At, InSection, SectionStages, LedgerPuts, InstancePuts
<1>2. PICK next \in {"observeCgroup", "release"} : Goto(p, next)
    BY DEF ReadCgroup, Step
<1>3. next \in SectionStages /\ call'[p].at = next /\ call'[p].a = call[p].a
    BY <1>1, <1>2, CallRange, Moves DEF InSection, SectionStages, LedgerPuts, InstancePuts
<1>4. UNCHANGED <<disk, world, lock, envelope, owner, turn, copy, faults>>
    BY DEF ReadCgroup, Step
<1>5. CallOK(p)'
    BY <1>1, <1>2, <1>3, <1>4 DEF ReadCgroup, Step, At, Goto, CallOK, disk, world, Breathing
<1>6. QED
    BY <1>1, <1>2, <1>3, <1>4, <1>5, StepKeeps

\* A stop is followed by the verifier or by nothing.
LEMMA StopUnitKeeps == ASSUME IInv, NEW p \in Proc, StopUnit(p) PROVE IInv'
<1>1. TypeOK /\ CallOK(p) /\ InSection(p) /\ copy[p] = NoCopy
    BY DEF IInv, FreshCopy, StopUnit, At, InSection, SectionStages, LedgerPuts, InstancePuts
<1>2. PICK next \in {"release", "scanBeforeGone", "scanBeforeRetired"} : Goto(p, next)
    BY DEF StopUnit, AfterStop, Step
<1>3. next \in SectionStages /\ call'[p].at = next /\ call'[p].a = call[p].a
    BY <1>1, <1>2, CallRange, Moves DEF InSection, SectionStages, LedgerPuts, InstancePuts
<1>4. UNCHANGED <<disk, world, lock, envelope, owner, turn, copy, faults>>
    BY DEF StopUnit, Step
<1>5. CallOK(p)'
    BY <1>1, <1>2, <1>3, <1>4 DEF StopUnit, AfterStop, Step, At, Goto, CallOK, disk, world
<1>6. QED
    BY <1>1, <1>2, <1>3, <1>4, <1>5, StepKeeps

\* An executor that was seen and has no process can only come back as a successor.
LEMMA ScanProcessesKeeps == ASSUME IInv, NEW p \in Proc, ScanProcesses(p) PROVE IInv'
<1>1. TypeOK /\ CallOK(p) /\ InSection(p) /\ copy[p] = NoCopy
    BY DEF IInv, FreshCopy, ScanProcesses, At, InSection, SectionStages, LedgerPuts, InstancePuts
<1>2. PICK next \in {"unitBeforeGone", "unitBeforeRetired", "release"} : Goto(p, next)
    BY DEF ScanProcesses, Step, NoProcess
<1>3. next \in SectionStages /\ call'[p].at = next /\ call'[p].a = call[p].a
    BY <1>1, <1>2, CallRange, Moves DEF InSection, SectionStages, LedgerPuts, InstancePuts
<1>4. UNCHANGED <<disk, world, lock, envelope, owner, turn, copy, faults>>
    BY DEF ScanProcesses, Step
<1>5. ASSUME NoProcess(call[p].a) PROVE executor[call[p].a] \in {"resumable", "resumed", "gone"}
    <2>1. RecordOK(call[p].a) /\ executor[call[p].a] \in ExecutorStates
        BY <1>1, CallRange DEF IInv, InSection, TypeOK, SectionStages, LedgerPuts, InstancePuts
    <2>2. QED
        BY <1>5, <2>1 DEF RecordOK, NoProcess, Live, Breathing, ExecutorStates
<1>6. CallOK(p)'
    BY <1>5, <1>1, <1>2, <1>3, <1>4
    DEF ScanProcesses, Step, At, Goto, CallOK, disk, world, NoProcess
<1>7. QED
    BY <1>1, <1>2, <1>3, <1>4, <1>6, StepKeeps

\* Without a process, a successor or a pending restart, it is gone.
LEMMA ReadUnitKeeps == ASSUME IInv, NEW p \in Proc, ReadUnit(p) PROVE IInv'
<1>1. TypeOK /\ CallOK(p) /\ InSection(p) /\ copy[p] = NoCopy
    BY DEF IInv, FreshCopy, ReadUnit, At, InSection, SectionStages, LedgerPuts, InstancePuts
<1>2. PICK next \in {"markGone", "markRetired", "release"} : Goto(p, next)
    BY DEF ReadUnit, Step, NoSuccessor
<1>3. next \in SectionStages /\ call'[p].at = next /\ call'[p].a = call[p].a
    BY <1>1, <1>2, CallRange, Moves DEF InSection, SectionStages, LedgerPuts, InstancePuts
<1>4. UNCHANGED <<disk, world, lock, envelope, owner, turn, copy, faults>>
    BY DEF ReadUnit, Step
<1>5. CallOK(p)'
    BY <1>1, <1>2, <1>3, <1>4 DEF ReadUnit, Step, At, Goto, CallOK, disk, world, NoSuccessor
<1>6. QED
    BY <1>1, <1>2, <1>3, <1>4, <1>5, StepKeeps

-----------------------------------------------------------------------------
(* What each put writes *)

\* doc is the ledger with another record of a, of which the fields are given.
Wrote(doc, a, s, ph, st, f) ==
    /\ doc \in [Approval -> Record]
    /\ \A b \in Approval \ {a} : doc[b] = ledger[b]
    /\ doc[a].state = s
    /\ doc[a].phase = ph
    /\ doc[a].status = st
    /\ doc[a].from = f

LEMMA MovedWrote ==
    ASSUME TypeOK, NEW a \in Approval, NEW s \in LedgerStates
    PROVE  /\ Wrote(Moved(ledger, a, s), a, s, ledger[a].phase, ledger[a].status, ledger[a].from)
           /\ Moved(ledger, a, s)[a].gone = ledger[a].gone
<1>1. ledger \in [Approval -> Record]
    BY DEF TypeOK
<1>2. QED
    BY <1>1 DEF Record, Moved, Wrote

LEMMA PhasedWrote ==
    ASSUME NEW doc \in [Approval -> Record], NEW a \in Approval, NEW ph \in 0 .. 4
    PROVE  LET d == Phased(doc, a, ph) IN
           /\ d \in [Approval -> Record]
           /\ \A b \in Approval \ {a} : d[b] = doc[b]
           /\ d[a].phase = ph
           /\ d[a].state = doc[a].state /\ d[a].status = doc[a].status
           /\ d[a].from = doc[a].from /\ d[a].gone = doc[a].gone
BY DEF Record, Phased

LEMMA OpenedWrote ==
    ASSUME TypeOK, NEW a \in Approval
    PROVE  /\ Wrote(Opened(ledger, a), a, "PREPARED", NoPhase, "none", "none")
           /\ ~Opened(ledger, a)[a].gone
<1> DEFINE r == [NoRecord EXCEPT !.state = "PREPARED"]
<1>1. NoRecord \in Record
    BY DEF NoRecord, Record, LedgerStates, NoPhase
<1>2. /\ r \in Record
      /\ r.state = "PREPARED" /\ r.phase = NoRecord.phase /\ r.gone = NoRecord.gone
      /\ r.status = NoRecord.status /\ r.from = NoRecord.from
    BY <1>1 DEF Record, LedgerStates
<1>3. /\ NoRecord.phase = NoPhase /\ ~NoRecord.gone
      /\ NoRecord.status = "none" /\ NoRecord.from = "none"
    BY DEF NoRecord
<1> HIDE DEF r
<1>4. QED
    BY <1>2, <1>3 DEF TypeOK, Opened, Wrote, r

LEMMA EnteredWrote ==
    ASSUME TypeOK, NEW a \in Approval
    PROVE  /\ Wrote(Entered(ledger, a), a, "RUNNING", LaunchAttempting, ledger[a].status,
                    ledger[a].from)
           /\ Entered(ledger, a)[a].gone = ledger[a].gone
<1>1. "RUNNING" \in LedgerStates /\ LaunchAttempting \in 0 .. 4
    BY DEF LedgerStates, ExecutionBearing, Unaccounted, LaunchAttempting
<1>2. QED
    BY <1>1, MovedWrote, PhasedWrote DEF Entered, Wrote

LEMMA SeenGoneWrote ==
    ASSUME TypeOK, NEW a \in Approval
    PROVE  /\ Wrote(SeenGone(ledger, a), a, "EXECUTOR_GONE_OBSERVED", ledger[a].phase,
                    ledger[a].status, ledger[a].from)
           /\ SeenGone(ledger, a)[a].gone
<1> DEFINE d == Moved(ledger, a, "EXECUTOR_GONE_OBSERVED")
<1>1. "EXECUTOR_GONE_OBSERVED" \in LedgerStates
    BY DEF LedgerStates, ExecutionBearing, Unaccounted
<1>2. Wrote(d, a, "EXECUTOR_GONE_OBSERVED", ledger[a].phase, ledger[a].status, ledger[a].from)
    BY <1>1, MovedWrote
<1>3. SeenGone(ledger, a) = [d EXCEPT ![a].gone = TRUE]
    BY DEF SeenGone
<1> HIDE DEF d
<1>4. QED
    BY <1>2, <1>3 DEF Wrote, Record

LEMMA SeenTerminalWrote ==
    ASSUME TypeOK, NEW a \in Approval, NEW s \in {"succeeded", "failed"}
    PROVE  /\ Wrote(SeenTerminal(ledger, a, s), a, "TERMINAL_OBSERVED", ledger[a].phase, s,
                    ledger[a].from)
           /\ SeenTerminal(ledger, a, s)[a].gone = ledger[a].gone
<1> DEFINE d == Moved(ledger, a, "TERMINAL_OBSERVED")
<1>1. "TERMINAL_OBSERVED" \in LedgerStates
    BY DEF LedgerStates, ExecutionBearing, Unaccounted
<1>2. /\ Wrote(d, a, "TERMINAL_OBSERVED", ledger[a].phase, ledger[a].status, ledger[a].from)
      /\ d[a].gone = ledger[a].gone
    BY <1>1, MovedWrote
<1>3. SeenTerminal(ledger, a, s) = [d EXCEPT ![a].status = s]
    BY DEF SeenTerminal
<1> HIDE DEF d
<1>4. QED
    BY <1>2, <1>3 DEF Wrote, Record

LEMMA CleanedWrote ==
    ASSUME TypeOK, NEW a \in Approval, ledger[a].state \in CleanedFrom
    PROVE  /\ Wrote(Cleaned(ledger, a), a, "CLEANED", ledger[a].phase,
                    ledger[a].status, ledger[a].state)
           /\ Cleaned(ledger, a)[a].gone = ledger[a].gone
<1> DEFINE d == Moved(ledger, a, "CLEANED")
<1>1. "CLEANED" \in LedgerStates
    BY DEF LedgerStates
<1>2. /\ Wrote(d, a, "CLEANED", ledger[a].phase, ledger[a].status, ledger[a].from)
      /\ d[a].gone = ledger[a].gone
    BY <1>1, MovedWrote
<1>3. Cleaned(ledger, a) = [d EXCEPT ![a].from = ledger[a].state]
    BY DEF Cleaned
<1> HIDE DEF d
<1>4. QED
    BY <1>2, <1>3 DEF Wrote, Record

-----------------------------------------------------------------------------
(* The writes of a section *)

\* A turn's record is unaccounted for, and is not of the unit lane.
LEMMA NoTurn ==
    ASSUME IInv, NEW a \in Approval,
           ledger[a].state \notin Unaccounted \/ instance[a].state \in Launched
    PROVE  \A q \in Proc : turn[q].a # a
<1>1. ASSUME NEW q \in Proc, turn[q].a = a PROVE FALSE
    <2>1. turn[q].at # "idle"
        <3>1. turn[q].at = "idle" => turn[q] = Idle
            BY CallRange DEF IInv
        <3>2. Idle.a = NoApproval
            BY DEF Idle
        <3>3. QED
            BY <1>1, <3>1, <3>2, NamesAssumption
    <2>2. QED
        BY <1>1, <2>1 DEF IInv, TurnOK
<1>2. QED
    BY <1>1

\* RUNNING is written while nothing has been started.
LEMMA MarkRunningKeeps == ASSUME IInv, NEW p \in Proc, MarkRunning(p) PROVE IInv'
<1>1. PICK a \in Approval : a = call[p].a
    BY CallRange DEF IInv, MarkRunning, PutLedger, At
<1>2. TypeOK /\ CallOK(p) /\ RecordOK(a) /\ InSection(p) /\ copy[p] = ledger
    BY DEF IInv, FreshCopy, MarkRunning, PutLedger, At, InSection, SectionStages, LedgerPuts
<1>3. call[p].at = "markRunning" /\ ledger[a].state = "PREPARED"
    BY <1>1, <1>2, AllowedFrom DEF MarkRunning, PutLedger, At, TypeOK, Record
<1>4. executor[a] = "none" /\ envelope[a] = "present"
    BY <1>1, <1>2, <1>3 DEF CallOK, RecordOK, NotBegun
<1>5. ledger' = Entered(ledger, a)
    BY <1>1, <1>2 DEF MarkRunning, PutLedger
<1>6. /\ Wrote(ledger', a, "RUNNING",
               LaunchAttempting, ledger[a].status, ledger[a].from)
      /\ ledger'[a].gone = ledger[a].gone
    BY <1>2, <1>3, <1>5, EnteredWrote DEF LedgerStates, ExecutionBearing, NeverRan
<1>7. \A q \in Proc : turn[q].a # a
    <2>1. ledger[a].state \notin Unaccounted \/ instance[a].state \in Launched
        BY <1>1, <1>2, <1>3 DEF Unaccounted
    <2>2. QED
        BY <2>1, NoTurn
<1>8. /\ "launchAttempted" \in SectionStages /\ Goto(p, "launchAttempted")
      /\ call'[p].a = a /\ call'[p].at = "launchAttempted"
    BY <1>1, <1>2, <1>3, Moves DEF MarkRunning, PutLedger, SectionStages, LedgerPuts, InstancePuts
<1>9. /\ UNCHANGED <<torn, instance, world, lock, envelope, owner, turn, faults>>
      /\ copy' = [copy EXCEPT ![p] = NoCopy]
    BY DEF MarkRunning, PutLedger
<1>10. RecordOK(a)'
    BY <1>1, <1>2, <1>3, <1>6, <1>9, <1>4
    DEF RecordOK, Shape, ReadableRecord, OneHistory, Wrote, NotBegun, Unaccounted,
        ExecutionBearing, NeverRan, CleanedFrom, Live, Breathing, Launched, NoPhase,
        LaunchAttempting, TurnAttempting, NoRecord, world
<1>11. CallOK(p)'
    BY <1>1, <1>2, <1>3, <1>6, <1>7, <1>8, <1>9, <1>4 DEF CallOK, Wrote, world, RecordOK, NotBegun
<1>12. QED
    BY <1>1, <1>2, <1>6, <1>7, <1>8, <1>9, <1>10, <1>11, SectionLedgerPut DEF Wrote

\* What is aborted was never started.
LEMMA AbortPreExecutionKeeps == ASSUME IInv, NEW p \in Proc, AbortPreExecution(p) PROVE IInv'
<1>1. PICK a \in Approval : a = call[p].a
    BY CallRange DEF IInv, AbortPreExecution, PutLedger, At
<1>2. TypeOK /\ CallOK(p) /\ RecordOK(a) /\ InSection(p) /\ copy[p] = ledger
    BY DEF IInv, FreshCopy, AbortPreExecution, PutLedger, At, InSection, SectionStages, LedgerPuts
<1>3. call[p].at = "abort" /\ ledger[a].state = "PREPARED"
    BY <1>1, <1>2, AllowedFrom DEF AbortPreExecution, PutLedger, At, TypeOK, Record
<1>4. executor[a] = "none"
    BY <1>1, <1>2, <1>3 DEF CallOK, RecordOK, NotBegun
<1>5. ledger' = Moved(ledger, a, "PRE_EXECUTION_ABORTED")
    BY <1>1, <1>2 DEF AbortPreExecution, PutLedger
<1>6. /\ Wrote(ledger', a, "PRE_EXECUTION_ABORTED",
               ledger[a].phase, ledger[a].status, ledger[a].from)
      /\ ledger'[a].gone = ledger[a].gone
    BY <1>2, <1>3, <1>5, MovedWrote DEF LedgerStates, ExecutionBearing, NeverRan
<1>7. \A q \in Proc : turn[q].a # a
    <2>1. ledger[a].state \notin Unaccounted \/ instance[a].state \in Launched
        BY <1>1, <1>2, <1>3 DEF Unaccounted
    <2>2. QED
        BY <2>1, NoTurn
<1>8. /\ "release" \in SectionStages /\ Goto(p, "release")
      /\ call'[p].a = a /\ call'[p].at = "release"
    BY <1>1, <1>2, <1>3, Moves
    DEF AbortPreExecution, PutLedger, SectionStages, LedgerPuts, InstancePuts
<1>9. /\ UNCHANGED <<torn, instance, world, lock, envelope, owner, turn, faults>>
      /\ copy' = [copy EXCEPT ![p] = NoCopy]
    BY DEF AbortPreExecution, PutLedger
<1>10. RecordOK(a)'
    BY <1>1, <1>2, <1>3, <1>6, <1>9, <1>4
    DEF RecordOK, Shape, ReadableRecord, OneHistory, Wrote, NotBegun, Unaccounted,
        ExecutionBearing, NeverRan, CleanedFrom, Live, Breathing, Launched, NoPhase,
        LaunchAttempting, TurnAttempting, NoRecord, world
<1>11. CallOK(p)'
    BY <1>1, <1>2, <1>3, <1>6, <1>7, <1>8, <1>9, <1>4 DEF CallOK, Wrote, world
<1>12. QED
    BY <1>1, <1>2, <1>6, <1>7, <1>8, <1>9, <1>10, <1>11, SectionLedgerPut DEF Wrote

\* What is observed gone is gone.
LEMMA ObserveExecutorGoneKeeps == ASSUME IInv, NEW p \in Proc, ObserveExecutorGone(p) PROVE IInv'
<1>1. PICK a \in Approval : a = call[p].a
    BY CallRange DEF IInv, ObserveExecutorGone, PutLedger, At
<1>2. TypeOK /\ CallOK(p) /\ RecordOK(a) /\ InSection(p) /\ copy[p] = ledger
    BY
    DEF IInv, FreshCopy, ObserveExecutorGone, PutLedger, At, InSection, SectionStages, LedgerPuts
<1>3. call[p].at = "markGone" /\ ledger[a].state = "RUNNING"
    BY <1>1, <1>2, AllowedFrom DEF ObserveExecutorGone, PutLedger, At, TypeOK, Record
<1>4. executor[a] = "gone" /\ instance[a].cgroup
    BY <1>1, <1>2, <1>3 DEF CallOK, RecordOK, NotBegun
<1>5. ledger' = SeenGone(ledger, a)
    BY <1>1, <1>2 DEF ObserveExecutorGone, PutLedger
<1>6. /\ Wrote(ledger', a, "EXECUTOR_GONE_OBSERVED",
               ledger[a].phase, ledger[a].status, ledger[a].from)
      /\ ledger'[a].gone
    BY <1>2, <1>3, <1>5, SeenGoneWrote DEF LedgerStates, ExecutionBearing, NeverRan
<1>7. \A q \in Proc : turn[q].a # a
    <2>1. ledger[a].state \notin Unaccounted \/ instance[a].state \in Launched
        BY <1>1, <1>2, <1>3 DEF CallOK, RecordOK
    <2>2. QED
        BY <2>1, NoTurn
<1>8. /\ "scanBeforeRetired" \in SectionStages /\ Goto(p, "scanBeforeRetired")
      /\ call'[p].a = a /\ call'[p].at = "scanBeforeRetired"
    BY <1>1, <1>2, <1>3, Moves
    DEF ObserveExecutorGone, PutLedger, SectionStages, LedgerPuts, InstancePuts
<1>9. /\ UNCHANGED <<torn, instance, world, lock, envelope, owner, turn, faults>>
      /\ copy' = [copy EXCEPT ![p] = NoCopy]
    BY DEF ObserveExecutorGone, PutLedger
<1>10. RecordOK(a)'
    BY <1>1, <1>2, <1>3, <1>6, <1>9, <1>4
    DEF RecordOK, Shape, ReadableRecord, OneHistory, Wrote, NotBegun, Unaccounted,
        ExecutionBearing, NeverRan, CleanedFrom, Live, Breathing, Launched, NoPhase,
        LaunchAttempting, TurnAttempting, NoRecord, world, CallOK
<1>11. CallOK(p)'
    BY <1>1, <1>2, <1>3, <1>6, <1>7, <1>8, <1>9, <1>4 DEF CallOK, Wrote, world
<1>12. QED
    BY <1>1, <1>2, <1>6, <1>7, <1>8, <1>9, <1>10, <1>11, SectionLedgerPut DEF Wrote

\* What is retired is gone, so letting further executors begin is right.
LEMMA RetireKeeps == ASSUME IInv, NEW p \in Proc, Retire(p) PROVE IInv'
<1>1. PICK a \in Approval : a = call[p].a
    BY CallRange DEF IInv, Retire, PutLedger, At
<1>2. TypeOK /\ CallOK(p) /\ RecordOK(a) /\ InSection(p) /\ copy[p] = ledger
    BY DEF IInv, FreshCopy, Retire, PutLedger, At, InSection, SectionStages, LedgerPuts
<1>3. /\ call[p].at = "markRetired"
      /\ ledger[a].state \in {"TERMINAL_OBSERVED", "EXECUTOR_GONE_OBSERVED"}
    BY <1>1, <1>2, AllowedFrom DEF Retire, PutLedger, At, TypeOK, Record
<1>4. executor[a] = "gone" /\ instance[a].cgroup
    BY <1>1, <1>2, <1>3 DEF CallOK, RecordOK, NotBegun
<1>5. ledger' = Moved(ledger, a, "EXECUTOR_RETIRED")
    BY <1>1, <1>2 DEF Retire, PutLedger
<1>6. /\ Wrote(ledger', a, "EXECUTOR_RETIRED",
               ledger[a].phase, ledger[a].status, ledger[a].from)
      /\ ledger'[a].gone = ledger[a].gone
    BY <1>2, <1>3, <1>5, MovedWrote DEF LedgerStates, ExecutionBearing, NeverRan
<1>7. \A q \in Proc : turn[q].a # a
    <2>1. ledger[a].state \notin Unaccounted \/ instance[a].state \in Launched
        BY <1>1, <1>2, <1>3 DEF CallOK, RecordOK
    <2>2. QED
        BY <2>1, NoTurn
<1>8. /\ "release" \in SectionStages /\ Goto(p, "release")
      /\ call'[p].a = a /\ call'[p].at = "release"
    BY <1>1, <1>2, <1>3, Moves DEF Retire, PutLedger, SectionStages, LedgerPuts, InstancePuts
<1>9. /\ UNCHANGED <<torn, instance, world, lock, envelope, owner, turn, faults>>
      /\ copy' = [copy EXCEPT ![p] = NoCopy]
    BY DEF Retire, PutLedger
<1>10. RecordOK(a)'
    BY <1>1, <1>2, <1>3, <1>6, <1>9, <1>4
    DEF RecordOK, Shape, ReadableRecord, OneHistory, Wrote, NotBegun, Unaccounted,
        ExecutionBearing, NeverRan, CleanedFrom, Live, Breathing, Launched, NoPhase,
        LaunchAttempting, TurnAttempting, NoRecord, world, CallOK
<1>11. CallOK(p)'
    BY <1>1, <1>2, <1>3, <1>6, <1>7, <1>8, <1>9, <1>4 DEF CallOK, Wrote, world
<1>12. QED
    BY <1>1, <1>2, <1>6, <1>7, <1>8, <1>9, <1>10, <1>11, SectionLedgerPut DEF Wrote

\* The identity is recorded before anything else.
LEMMA PrepareInstanceKeeps == ASSUME IInv, NEW p \in Proc, PrepareInstance(p) PROVE IInv'
<1>1. PICK a \in Approval : a = call[p].a
    BY CallRange DEF IInv, PrepareInstance, PutInstance, At
<1>2. TypeOK /\ CallOK(p) /\ RecordOK(a) /\ InSection(p) /\ copy[p] = instance
    BY
    DEF IInv, FreshCopy, PrepareInstance, PutInstance, At, InSection, SectionStages, LedgerPuts,
        InstancePuts
<1>3. call[p].at = "identity"
    BY DEF PrepareInstance, PutInstance, At
<1>4. /\ ledger[a].state = "PREPARED" /\ envelope[a] = "present"
      /\ executor[a] = "none" /\ instance[a].state \notin Launched
    BY <1>1, <1>2, <1>3 DEF CallOK, RecordOK, NotBegun
<1>5. instance' = [instance EXCEPT ![a].state = "PREPARED"]
    BY <1>1, <1>2 DEF PrepareInstance, PutInstance
<1>6. /\ instance' \in [Approval -> Instance]
      /\ \A b \in Approval \ {a} : instance'[b] = instance[b]
      /\ instance'[a].state = "PREPARED"
      /\ instance'[a].cgroup = instance[a].cgroup
    <2>1. instance \in [Approval -> Instance]
        BY <1>2 DEF TypeOK
    <2>2. QED
        BY <2>1, <1>5 DEF Instance, InstanceStates, Launched
<1>7. \A q \in Proc : turn[q].a # a
    BY <1>1, <1>4, NoTurn DEF Unaccounted
<1>8. /\ "markRunning" \in SectionStages /\ Goto(p, "markRunning")
      /\ call'[p].a = a /\ call'[p].at = "markRunning"
    BY <1>1, <1>2, <1>3, Moves
    DEF PrepareInstance, PutInstance, SectionStages, LedgerPuts, InstancePuts
<1>9. /\ UNCHANGED <<ledger, torn, world, lock, envelope, owner, turn, faults>>
      /\ copy' = [copy EXCEPT ![p] = NoCopy]
    BY DEF PrepareInstance, PutInstance
<1>10. RecordOK(a)'
    BY <1>2, <1>4, <1>6, <1>9 DEF RecordOK, NotBegun, NeverRan, Launched, world
<1>11. CallOK(p)'
    BY <1>1, <1>2, <1>3, <1>4, <1>6, <1>7, <1>8, <1>9 DEF CallOK, Launched, world
<1>12. QED
    BY <1>1, <1>2, <1>6, <1>7, <1>8, <1>9, <1>10, <1>11, SectionInstancePut

\* The launch intent is durable before the launch.
LEMMA LaunchAttemptedKeeps == ASSUME IInv, NEW p \in Proc, LaunchAttempted(p) PROVE IInv'
<1>1. PICK a \in Approval : a = call[p].a
    BY CallRange DEF IInv, LaunchAttempted, PutInstance, At
<1>2. TypeOK /\ CallOK(p) /\ RecordOK(a) /\ InSection(p) /\ copy[p] = instance
    BY
    DEF IInv, FreshCopy, LaunchAttempted, PutInstance, At, InSection, SectionStages, LedgerPuts,
        InstancePuts
<1>3. call[p].at = "launchAttempted"
    BY DEF LaunchAttempted, PutInstance, At
<1>4. /\ ledger[a].state = "RUNNING" /\ envelope[a] = "present" /\ executor[a] = "none"
      /\ \A q \in Proc : turn[q].a # a
    BY <1>1, <1>2, <1>3 DEF CallOK, RecordOK, NotBegun
<1>5. instance' = [instance EXCEPT ![a].state = "LAUNCH_ATTEMPTED"]
    BY <1>1, <1>2 DEF LaunchAttempted, PutInstance
<1>6. /\ instance' \in [Approval -> Instance]
      /\ \A b \in Approval \ {a} : instance'[b] = instance[b]
      /\ instance'[a].state = "LAUNCH_ATTEMPTED"
      /\ instance'[a].cgroup = instance[a].cgroup
    <2>1. instance \in [Approval -> Instance]
        BY <1>2 DEF TypeOK
    <2>2. QED
        BY <2>1, <1>5 DEF Instance, InstanceStates, Launched
<1>7. \A q \in Proc : turn[q].a # a
    BY <1>4
<1>8. /\ "launchUnit" \in SectionStages /\ Goto(p, "launchUnit")
      /\ call'[p].a = a /\ call'[p].at = "launchUnit"
    BY <1>1, <1>2, <1>3, Moves
    DEF LaunchAttempted, PutInstance, SectionStages, LedgerPuts, InstancePuts
<1>9. /\ UNCHANGED <<ledger, torn, world, lock, envelope, owner, turn, faults>>
      /\ copy' = [copy EXCEPT ![p] = NoCopy]
    BY DEF LaunchAttempted, PutInstance
<1>10. RecordOK(a)'
    BY <1>2, <1>4, <1>6, <1>9 DEF RecordOK, NotBegun, NeverRan, Launched, world
<1>11. CallOK(p)'
    BY <1>1, <1>2, <1>3, <1>4, <1>6, <1>7, <1>8, <1>9 DEF CallOK, Launched, world
<1>12. QED
    BY <1>1, <1>2, <1>6, <1>7, <1>8, <1>9, <1>10, <1>11, SectionInstancePut

\* A control group is recorded of a unit that came up.
LEMMA ObserveCgroupKeeps == ASSUME IInv, NEW p \in Proc, ObserveCgroup(p) PROVE IInv'
<1>1. PICK a \in Approval : a = call[p].a
    BY CallRange DEF IInv, ObserveCgroup, PutInstance, At
<1>2. TypeOK /\ CallOK(p) /\ RecordOK(a) /\ InSection(p) /\ copy[p] = instance
    BY
    DEF IInv, FreshCopy, ObserveCgroup, PutInstance, At, InSection, SectionStages, LedgerPuts,
        InstancePuts
<1>3. call[p].at = "observeCgroup"
    BY DEF ObserveCgroup, PutInstance, At
<1>4. executor[a] \notin {"none", "starting"} /\ instance[a].state \in Launched
    BY <1>1, <1>2, <1>3 DEF CallOK, RecordOK, NotBegun
<1>5. instance' = [instance EXCEPT ![a] = [state |-> "OBSERVED", cgroup |-> TRUE]]
    BY <1>1, <1>2 DEF ObserveCgroup, PutInstance
<1>6. /\ instance' \in [Approval -> Instance]
      /\ \A b \in Approval \ {a} : instance'[b] = instance[b]
      /\ instance'[a].state = "OBSERVED"
      /\ instance'[a].cgroup
    <2>1. instance \in [Approval -> Instance]
        BY <1>2 DEF TypeOK
    <2>2. QED
        BY <2>1, <1>5 DEF Instance, InstanceStates, Launched
<1>7. \A q \in Proc : turn[q].a # a
    BY <1>1, <1>4, NoTurn DEF Unaccounted
<1>8. /\ "release" \in SectionStages /\ Goto(p, "release")
      /\ call'[p].a = a /\ call'[p].at = "release"
    BY <1>1, <1>2, <1>3, Moves
    DEF ObserveCgroup, PutInstance, SectionStages, LedgerPuts, InstancePuts
<1>9. /\ UNCHANGED <<ledger, torn, world, lock, envelope, owner, turn, faults>>
      /\ copy' = [copy EXCEPT ![p] = NoCopy]
    BY DEF ObserveCgroup, PutInstance
<1>10. RecordOK(a)'
    BY <1>2, <1>4, <1>6, <1>9 DEF RecordOK, NotBegun, NeverRan, Launched, world
<1>11. CallOK(p)'
    BY <1>1, <1>2, <1>3, <1>4, <1>6, <1>7, <1>8, <1>9 DEF CallOK, Launched, world
<1>12. QED
    BY <1>1, <1>2, <1>6, <1>7, <1>8, <1>9, <1>10, <1>11, SectionInstancePut

\* The stop intent is durable before the stop.
LEMMA RequestStopKeeps == ASSUME IInv, NEW p \in Proc,
           PutInstance(p, "requestStop", [copy[p] EXCEPT ![call[p].a].state = "STOP_REQUESTED"],
                       "stopUnit")
    PROVE IInv'
<1>1. PICK a \in Approval : a = call[p].a
    BY CallRange DEF IInv, PutInstance, At
<1>2. TypeOK /\ CallOK(p) /\ RecordOK(a) /\ InSection(p) /\ copy[p] = instance
    BY DEF IInv, FreshCopy, PutInstance, At, InSection, SectionStages, LedgerPuts, InstancePuts
<1>3. call[p].at = "requestStop"
    BY DEF PutInstance, At
<1>4. instance[a].state \in Launched
    BY <1>1, <1>2, <1>3 DEF CallOK, RecordOK, NotBegun
<1>5. instance' = [instance EXCEPT ![a].state = "STOP_REQUESTED"]
    BY <1>1, <1>2 DEF PutInstance
<1>6. /\ instance' \in [Approval -> Instance]
      /\ \A b \in Approval \ {a} : instance'[b] = instance[b]
      /\ instance'[a].state = "STOP_REQUESTED"
      /\ instance'[a].cgroup = instance[a].cgroup
    <2>1. instance \in [Approval -> Instance]
        BY <1>2 DEF TypeOK
    <2>2. QED
        BY <2>1, <1>5 DEF Instance, InstanceStates, Launched
<1>7. \A q \in Proc : turn[q].a # a
    BY <1>1, <1>4, NoTurn DEF Unaccounted
<1>8. /\ "stopUnit" \in SectionStages /\ Goto(p, "stopUnit")
      /\ call'[p].a = a /\ call'[p].at = "stopUnit"
    BY <1>1, <1>2, <1>3, Moves DEF PutInstance, SectionStages, LedgerPuts, InstancePuts
<1>9. /\ UNCHANGED <<ledger, torn, world, lock, envelope, owner, turn, faults>>
      /\ copy' = [copy EXCEPT ![p] = NoCopy]
    BY DEF PutInstance
<1>10. RecordOK(a)'
    BY <1>2, <1>4, <1>6, <1>9 DEF RecordOK, NotBegun, NeverRan, Launched, world
<1>11. CallOK(p)'
    BY <1>1, <1>2, <1>3, <1>4, <1>6, <1>7, <1>8, <1>9 DEF CallOK, Launched, world
<1>12. QED
    BY <1>1, <1>2, <1>6, <1>7, <1>8, <1>9, <1>10, <1>11, SectionInstancePut

\* The launch itself: the record is already RUNNING, the intent on file and
\* nothing started, whatever the answer.
LEMMA LaunchUnitKeeps == ASSUME IInv, NEW p \in Proc, LaunchUnit(p) PROVE IInv'
<1>1. PICK a \in Approval : a = call[p].a
    BY CallRange DEF IInv, LaunchUnit, At
<1>2. TypeOK /\ CallOK(p) /\ RecordOK(a) /\ InSection(p) /\ copy[p] = NoCopy
    BY DEF IInv, FreshCopy, LaunchUnit, At, InSection, SectionStages, LedgerPuts, InstancePuts
<1>3. PICK next \in {"readCgroup", "release"} : Goto(p, next)
    BY DEF LaunchUnit, Step
<1>4. /\ next \in SectionStages /\ call' \in [Proc -> Calls]
      /\ call'[p].at = next /\ call'[p].a = a
      /\ \A q \in Proc \ {p} : call'[q] = call[q] /\ call[q].at = "idle"
    BY <1>1, <1>2, <1>3, Moves
    DEF IInv, OneCall, InSection, SectionStages, LedgerPuts, InstancePuts
<1>5. /\ ledger[a].state = "RUNNING" /\ envelope[a] = "present" /\ executor[a] = "none"
      /\ instance[a].state \in Launched
      /\ \A q \in Proc : turn[q].a # a
    BY <1>1, <1>2 DEF LaunchUnit, At, CallOK
<1>6. /\ UNCHANGED <<disk, lock, envelope, owner, turn, copy, faults, resumes>>
      /\ executor' \in [Approval -> ExecutorStates]
      /\ \A b \in Approval \ {a} : executor'[b] = executor[b]
      /\ task' \in [Approval -> {"none", "live", "succeeded", "failed"}]
    BY <1>1, <1>2 DEF LaunchUnit, Step, TypeOK, ExecutorStates, Live, Breathing
<1>7. TypeOK'
    BY <1>2, <1>4, <1>6 DEF TypeOK, disk
<1>8. OneCall' /\ FreshCopy'
    BY <1>2, <1>4, <1>6 DEF IInv, OneCall, FreshCopy, InSection, disk
<1>9. ASSUME NEW b \in Approval PROVE RecordOK(b)'
    <2>1. CASE b = a
        BY <1>2, <1>5, <1>6, <2>1
        DEF RecordOK, Unaccounted, NotBegun, NeverRan, CleanedFrom, Shape, disk
    <2>2. CASE b # a
        BY <1>6, <2>2 DEF IInv, RecordOK, disk
    <2>3. QED
        BY <2>1, <2>2
<1>10. ASSUME NEW q \in Proc PROVE CallOK(q)'
    BY <1>4, <1>5, <1>6 DEF CallOK, disk
<1>11. ASSUME NEW q \in Proc PROVE TurnOK(q)'
    BY <1>2, <1>5, <1>6, CallRange DEF IInv, TurnOK, disk
<1>12. QED
    BY <1>7, <1>8, <1>9, <1>10, <1>11 DEF IInv

\* The read of a put: the copy is the document.
LEMMA ReadKeeps == ASSUME IInv, NEW p \in Proc, Read(p) PROVE IInv'
<1>1. TypeOK /\ copy[p] = NoCopy
    BY DEF IInv, Read
<1>2. UNCHANGED <<disk, world, lock, envelope, owner, call, turn, faults>>
    BY DEF Read
<1>3. TypeOK'
    <2>1. ledger \in Copies /\ instance \in Copies
        BY <1>1 DEF TypeOK, Copies
    <2>2. QED
        BY <1>1, <1>2, <2>1 DEF TypeOK, Read, disk, world
<1>4. FreshCopy'
    BY <1>1, <1>2 DEF IInv, FreshCopy, Read, TypeOK, disk, LedgerPuts, InstancePuts
<1>5. OneCall'
    BY <1>2 DEF IInv, OneCall, InSection
<1>6. ASSUME NEW b \in Approval PROVE RecordOK(b)'
    BY <1>2 DEF IInv, RecordOK, disk, world
<1>7. ASSUME NEW q \in Proc PROVE CallOK(q)' /\ TurnOK(q)'
    BY <1>2 DEF IInv, CallOK, TurnOK, disk, world
<1>8. QED
    BY <1>3, <1>4, <1>5, <1>6, <1>7 DEF IInv

\* The lock is entered only when no call is in progress.
LEMMA EnterKeeps ==
    ASSUME IInv, NEW p \in Proc, NEW a \in Approval, NEW operation \in Operations,
           Enter(p, a, operation)
    PROVE  IInv'
<1>1. TypeOK /\ operation \in SectionStages
    BY DEF IInv, Operations, SectionStages
<1>2. \A q \in Proc : call[q].at = "idle" /\ copy[q] = NoCopy
    <2>1. ASSUME NEW q \in Proc PROVE call[q].at = "idle"
        <3>1. call[q].at \notin SectionStages
            BY NamesAssumption DEF IInv, Enter, OneCall, InSection
        <3>2. call[q].at \notin WorkspaceStages
            BY DEF Enter, MayCall, Idle, WorkspaceStages
        <3>3. QED
            BY <1>1, <3>1, <3>2, CallRange
    <2>2. QED
        BY <2>1 DEF IInv, FreshCopy, LedgerPuts, InstancePuts
<1>3. /\ lock' = p
      /\ call' = [call EXCEPT ![p] = [a |-> a, at |-> operation]]
      /\ UNCHANGED <<disk, world, envelope, owner, turn, copy, faults>>
    BY DEF Enter
<1>4. /\ call' \in [Proc -> Calls]
      /\ call'[p].at = operation /\ call'[p].a = a
      /\ \A q \in Proc \ {p} : call'[q] = call[q]
    BY <1>1, <1>3 DEF TypeOK, Calls
<1>5. TypeOK'
    BY <1>1, <1>3, <1>4 DEF TypeOK, disk, world
<1>6. OneCall'
    BY <1>1, <1>2, <1>3, <1>4 DEF OneCall, InSection, SectionStages, LedgerPuts, InstancePuts
<1>7. FreshCopy'
    BY <1>2, <1>3 DEF FreshCopy
<1>8. ASSUME NEW b \in Approval PROVE RecordOK(b)'
    BY <1>3 DEF IInv, RecordOK, disk, world
<1>9. ASSUME NEW q \in Proc PROVE CallOK(q)' /\ TurnOK(q)'
    BY <1>2, <1>3, <1>4 DEF IInv, CallOK, TurnOK, Operations, disk, world
<1>10. QED
    BY <1>5, <1>6, <1>7, <1>8, <1>9 DEF IInv

\* Its release, and the removal of a lock directory whose holder died.
LEMMA ReleaseKeeps == ASSUME IInv, NEW p \in Proc, Release(p) PROVE IInv'
<1>1. TypeOK /\ call[p].at = "release" /\ InSection(p)
    BY DEF IInv, Release, At, InSection, SectionStages
<1>2. /\ lock' = NoProc
      /\ UNCHANGED <<disk, world, envelope, owner, turn, copy, faults>>
      /\ call' \in [Proc -> Calls]
      /\ call'[p] = Idle
      /\ \A q \in Proc \ {p} : call'[q] = call[q] /\ call[q].at = "idle"
    BY <1>1, Moves DEF IInv, OneCall, Release
<1>3. \A q \in Proc : call'[q].at = "idle" /\ copy[q] = NoCopy
    BY <1>1, <1>2 DEF IInv, FreshCopy, Idle, LedgerPuts, InstancePuts
<1>4. TypeOK'
    BY <1>1, <1>2 DEF TypeOK, disk, world
<1>5. OneCall' /\ FreshCopy'
    BY <1>2, <1>3 DEF OneCall, FreshCopy, InSection, SectionStages, LedgerPuts, InstancePuts
<1>6. ASSUME NEW b \in Approval PROVE RecordOK(b)'
    BY <1>2 DEF IInv, RecordOK, disk, world
<1>7. ASSUME NEW q \in Proc PROVE CallOK(q)' /\ TurnOK(q)'
    BY <1>2, <1>3 DEF IInv, CallOK, TurnOK, disk, world
<1>8. QED
    BY <1>4, <1>5, <1>6, <1>7 DEF IInv

LEMMA ClearLockKeeps == ASSUME IInv, ClearLock PROVE IInv'
<1>1. /\ lock' = NoProc /\ lock \in Proc /\ ~InSection(lock)
      /\ UNCHANGED <<disk, world, envelope, owner, call, turn, copy, faults>>
    BY DEF ClearLock
<1>2. TypeOK' /\ OneCall' /\ FreshCopy'
    BY <1>1 DEF IInv, TypeOK, OneCall, FreshCopy, InSection, disk, world
<1>3. ASSUME NEW b \in Approval PROVE RecordOK(b)'
    BY <1>1 DEF IInv, RecordOK, disk, world
<1>4. ASSUME NEW q \in Proc PROVE CallOK(q)' /\ TurnOK(q)'
    BY <1>1 DEF IInv, CallOK, TurnOK, disk, world
<1>5. QED
    BY <1>2, <1>3, <1>4 DEF IInv

-----------------------------------------------------------------------------
(* The steps of the workspace *)

\* A call of the workspace begins when no other call is in progress, and the
\* record it was chosen for is still what it was.
LEMMA CallKeeps ==
    ASSUME IInv, NEW p \in Proc, NEW a \in Approval,
           NEW s \in {"begin", "abortCleanup", "discard"}, Call(p, a, s),
           s = "begin" => ledger[a] = NoRecord,
           s = "abortCleanup" => ledger[a].state = "PREPARED",
           s = "discard" => ledger[a].state \in CleanedFrom
    PROVE  IInv'
<1>1. TypeOK /\ s \in WorkspaceStages
    BY DEF IInv, WorkspaceStages
<1>2. \A q \in Proc : call[q].at = "idle" /\ copy[q] = NoCopy
    BY DEF IInv, Call, MayCall, Unshared, Idle, FreshCopy, LedgerPuts, InstancePuts
<1>3. /\ call' = [call EXCEPT ![p] = [a |-> a, at |-> s]]
      /\ UNCHANGED <<disk, world, lock, envelope, owner, turn, copy, faults>>
    BY DEF Call
<1>4. /\ call' \in [Proc -> Calls]
      /\ call'[p].at = s /\ call'[p].a = a
      /\ \A q \in Proc \ {p} : call'[q] = call[q]
    BY <1>1, <1>3 DEF TypeOK, Calls
<1>5. TypeOK'
    BY <1>1, <1>3, <1>4 DEF TypeOK, disk, world
<1>6. OneCall' /\ FreshCopy'
    BY <1>2, <1>3, <1>4 DEF OneCall, FreshCopy, InSection, SectionStages, LedgerPuts, InstancePuts
<1>7. ASSUME NEW b \in Approval PROVE RecordOK(b)'
    BY <1>3 DEF IInv, RecordOK, disk, world
<1>8. ASSUME NEW q \in Proc PROVE CallOK(q)' /\ TurnOK(q)'
    BY <1>2, <1>3, <1>4 DEF IInv, CallOK, TurnOK, disk, world
<1>9. QED
    BY <1>5, <1>6, <1>7, <1>8 DEF IInv

LEMMA PrepareKeeps == ASSUME IInv, NEW p \in Proc, NEW a \in Approval, Prepare(p, a) PROVE IInv'
BY CallKeeps DEF Prepare, CanStart

LEMMA CleanupKeeps == ASSUME IInv, NEW p \in Proc, NEW a \in Approval, Cleanup(p, a) PROVE IInv'
BY CallKeeps DEF Cleanup

\* The record is opened; nothing of the approval exists yet.
LEMMA BeginKeeps == ASSUME IInv, NEW p \in Proc, Begin(p) PROVE IInv'
<1>1. PICK a \in Approval : a = call[p].a
    BY CallRange DEF IInv, Begin, At
<1>2. TypeOK /\ CallOK(p) /\ RecordOK(a) /\ call[p].at = "begin" /\ ledger[a] = NoRecord
    BY <1>1 DEF IInv, Begin, At, CallOK
<1>3. /\ Wrote(ledger', a, "PREPARED", NoPhase, "none", "none")
      /\ ~ledger'[a].gone
    BY <1>1, <1>2, OpenedWrote DEF Begin, Put
<1>4. \A q \in Proc : turn[q].a # a
    BY <1>2, NoTurn DEF NoRecord, Unaccounted
<1>5. /\ executor[a] = "none" /\ instance[a].state \notin Launched /\ ~instance[a].cgroup
      /\ \A q \in Proc : a \notin owner[q]
    BY <1>2 DEF RecordOK, NotBegun, NoRecord
<1>6. /\ "sandbox" \in WorkspaceStages /\ Goto(p, "sandbox")
      /\ call'[p].a = a /\ call'[p].at = "sandbox"
    BY <1>1, <1>2, Moves DEF Begin, WorkspaceStages
<1>7. /\ UNCHANGED <<torn, instance, world, lock, envelope, copy, faults, owner, turn>>
      /\ Unshared(p)
    BY DEF Begin, Put
<1>8. RecordOK(a)'
    BY <1>3, <1>5, <1>7
    DEF RecordOK, Shape, ReadableRecord, Wrote, NotBegun, Unaccounted, ExecutionBearing, NeverRan,
        CleanedFrom, Live, Breathing, NoPhase, world
<1>9. CallOK(p)'
    BY <1>1, <1>3, <1>5, <1>6, <1>7 DEF CallOK, Wrote
<1>10. QED
    BY <1>1, <1>2, <1>3, <1>4, <1>6, <1>7, <1>8, <1>9, WorkspacePut
    DEF TypeOK, Wrote, WorkspaceStages

\* The envelope appears under a record that is PREPARED.
LEMMA SandboxKeeps == ASSUME IInv, NEW p \in Proc, Sandbox(p) PROVE IInv'
<1>1. PICK a \in Approval : a = call[p].a
    BY CallRange DEF IInv, Sandbox, At
<1>2. /\ TypeOK /\ CallOK(p) /\ RecordOK(a) /\ call[p].at = "sandbox"
      /\ ledger[a].state = "PREPARED" /\ \A q \in Proc : a \notin owner[q]
    BY <1>1 DEF IInv, Sandbox, At, CallOK
<1>3. \A q \in Proc : turn[q].a # a
    BY <1>2, NoTurn DEF Unaccounted
<1>4. /\ call' \in [Proc -> Calls]
      /\ call'[p].at \in {"idle", "failPreparation"}
      /\ call'[p].at = "failPreparation" => call'[p].a = a
      /\ \A q \in Proc \ {p} : call'[q] = call[q] /\ call[q].at = "idle"
    BY <1>1, <1>2, Moves DEF IInv, OneCall, Sandbox, Idle, WorkspaceStages
<1>5. /\ UNCHANGED <<disk, world, lock, turn, copy, faults>>
      /\ envelope' \in [Approval -> {"none", "present", "removed"}]
      /\ \A b \in Approval \ {a} : envelope'[b] = envelope[b]
      /\ owner' \in [Proc -> SUBSET Approval]
      /\ \A q \in Proc : owner'[q] \subseteq owner[q] \cup {a}
      /\ \A q \in Proc : a \in owner'[q] => envelope'[a] = "present"
    BY <1>1, <1>2 DEF Sandbox, TypeOK
<1>6. TypeOK'
    BY <1>2, <1>4, <1>5 DEF TypeOK, disk, world
<1>7. OneCall' /\ FreshCopy'
    BY <1>2, <1>4, <1>5
    DEF IInv, OneCall, FreshCopy, InSection, disk, SectionStages, LedgerPuts, InstancePuts
<1>8. ASSUME NEW b \in Approval PROVE RecordOK(b)'
    <2>1. CASE b = a
        BY <1>2, <1>5, <2>1 DEF RecordOK, NotBegun, Live, Breathing, disk, world
    <2>2. CASE b # a
        BY <1>5, <2>2 DEF IInv, RecordOK, disk, world
    <2>3. QED
        BY <2>1, <2>2
<1>9. ASSUME NEW q \in Proc PROVE CallOK(q)'
    BY <1>2, <1>4, <1>5 DEF CallOK, disk
<1>10. ASSUME NEW q \in Proc PROVE TurnOK(q)'
    BY <1>2, <1>3, <1>5, CallRange DEF IInv, TurnOK, disk, world
<1>11. QED
    BY <1>6, <1>7, <1>8, <1>9, <1>10 DEF IInv

\* A preparation that failed never started anything.
LEMMA FailPreparationKeeps == ASSUME IInv, NEW p \in Proc, FailPreparation(p) PROVE IInv'
<1>1. PICK a \in Approval : a = call[p].a
    BY CallRange DEF IInv, FailPreparation, At
<1>2. /\ TypeOK /\ CallOK(p) /\ RecordOK(a) /\ call[p].at = "failPreparation"
      /\ ledger[a].state = "PREPARED"
    BY <1>1 DEF IInv, FailPreparation, At, CallOK
<1>3. ledger' = Moved(ledger, a, "PREPARATION_FAILED")
    BY <1>1 DEF FailPreparation, Put
<1>4. /\ Wrote(ledger', a, "PREPARATION_FAILED", ledger[a].phase, ledger[a].status,
               ledger[a].from)
      /\ ledger'[a].gone = ledger[a].gone
    BY <1>2, <1>3, MovedWrote DEF LedgerStates, NeverRan
<1>5. \A q \in Proc : turn[q].a # a
    BY <1>2, NoTurn DEF Unaccounted
<1>6. /\ "rollback" \in WorkspaceStages /\ Goto(p, "rollback")
      /\ call'[p].a = a /\ call'[p].at = "rollback"
    BY <1>1, <1>2, Moves DEF FailPreparation, WorkspaceStages
<1>7. /\ UNCHANGED <<torn, instance, world, lock, envelope, copy, faults, owner, turn>>
      /\ Unshared(p)
    BY DEF FailPreparation, Put
<1>8. RecordOK(a)'
    BY <1>2, <1>4, <1>7
    DEF RecordOK, Shape, ReadableRecord, Wrote, NotBegun, Unaccounted, ExecutionBearing, NeverRan,
        CleanedFrom, NoPhase, world
<1>9. CallOK(p)'
    BY <1>4, <1>6 DEF CallOK, Wrote, CleanedFrom, NeverRan
<1>10. QED
    BY <1>1, <1>2, <1>4, <1>5, <1>6, <1>7, <1>8, <1>9, WorkspacePut
    DEF TypeOK, Wrote, WorkspaceStages

\* Neither did the one that is given up before its execution.
LEMMA AbortCleanupKeeps == ASSUME IInv, NEW p \in Proc, AbortCleanup(p) PROVE IInv'
<1>1. PICK a \in Approval : a = call[p].a
    BY CallRange DEF IInv, AbortCleanup, At
<1>2. /\ TypeOK /\ CallOK(p) /\ RecordOK(a) /\ call[p].at = "abortCleanup"
      /\ ledger[a].state = "PREPARED"
    BY <1>1 DEF IInv, AbortCleanup, At, CallOK
<1>3. ledger' = Moved(ledger, a, "PRE_EXECUTION_ABORTED")
    BY <1>1 DEF AbortCleanup, Put
<1>4. /\ Wrote(ledger', a, "PRE_EXECUTION_ABORTED", ledger[a].phase, ledger[a].status,
               ledger[a].from)
      /\ ledger'[a].gone = ledger[a].gone
    BY <1>2, <1>3, MovedWrote DEF LedgerStates, NeverRan
<1>5. \A q \in Proc : turn[q].a # a
    BY <1>2, NoTurn DEF Unaccounted
<1>6. /\ "discard" \in WorkspaceStages /\ Goto(p, "discard")
      /\ call'[p].a = a /\ call'[p].at = "discard"
    BY <1>1, <1>2, Moves DEF AbortCleanup, WorkspaceStages
<1>7. /\ UNCHANGED <<torn, instance, world, lock, envelope, copy, faults, owner, turn>>
      /\ Unshared(p)
    BY DEF AbortCleanup, Put
<1>8. RecordOK(a)'
    BY <1>2, <1>4, <1>7
    DEF RecordOK, Shape, ReadableRecord, Wrote, NotBegun, Unaccounted, ExecutionBearing, NeverRan,
        CleanedFrom, NoPhase, world
<1>9. CallOK(p)'
    BY <1>4, <1>6 DEF CallOK, Wrote, CleanedFrom, NeverRan
<1>10. QED
    BY <1>1, <1>2, <1>4, <1>5, <1>6, <1>7, <1>8, <1>9, WorkspacePut
    DEF TypeOK, Wrote, WorkspaceStages

\* The envelope goes only once the record has let the executor go.
LEMMA DiscardKeeps == ASSUME IInv, NEW p \in Proc, Discard(p) PROVE IInv'
<1>1. PICK a \in Approval : a = call[p].a
    BY CallRange DEF IInv, Discard
<1>2. /\ TypeOK /\ CallOK(p) /\ RecordOK(a) /\ call[p].at \in {"discard", "rollback"}
      /\ ledger[a].state \in CleanedFrom
    BY <1>1 DEF IInv, Discard, CallOK
<1>3. ledger[a].state \notin Unaccounted /\ ledger[a].state # "PREPARED"
    BY <1>2 DEF Unaccounted, CleanedFrom, NeverRan
<1>4. \A q \in Proc : turn[q].a # a
    BY <1>3, NoTurn
<1>5. /\ call' \in [Proc -> Calls]
      /\ call'[p].at \in {"idle", "markCleaned"}
      /\ call'[p].at = "markCleaned" => call'[p].a = a
      /\ \A q \in Proc \ {p} : call'[q] = call[q] /\ call[q].at = "idle"
    BY <1>1, <1>2, Moves DEF IInv, OneCall, Discard, Idle, WorkspaceStages
<1>6. /\ UNCHANGED <<disk, world, lock, owner, turn, copy, faults>>
      /\ envelope' \in [Approval -> {"none", "present", "removed"}]
      /\ \A b \in Approval \ {a} : envelope'[b] = envelope[b]
    BY <1>1, <1>2 DEF Discard, TypeOK
<1>7. TypeOK'
    BY <1>2, <1>5, <1>6 DEF TypeOK, disk, world
<1>8. OneCall' /\ FreshCopy'
    BY <1>2, <1>5, <1>6
    DEF IInv, OneCall, FreshCopy, InSection, disk, SectionStages, LedgerPuts, InstancePuts
<1>9. ASSUME NEW b \in Approval PROVE RecordOK(b)'
    <2>1. CASE b = a
        BY <1>2, <1>3, <1>6, <2>1 DEF RecordOK, disk, world
    <2>2. CASE b # a
        BY <1>6, <2>2 DEF IInv, RecordOK, disk, world
    <2>3. QED
        BY <2>1, <2>2
<1>10. ASSUME NEW q \in Proc PROVE CallOK(q)'
    BY <1>2, <1>5, <1>6 DEF CallOK, disk
<1>11. ASSUME NEW q \in Proc PROVE TurnOK(q)'
    BY <1>2, <1>4, <1>6, CallRange DEF IInv, TurnOK, disk, world
<1>12. QED
    BY <1>7, <1>8, <1>9, <1>10, <1>11 DEF IInv

\* The record keeps, in from, why it could be cleaned.
LEMMA MarkCleanedKeeps == ASSUME IInv, NEW p \in Proc, MarkCleaned(p) PROVE IInv'
<1>1. PICK a \in Approval : a = call[p].a
    BY CallRange DEF IInv, MarkCleaned, At
<1>2. /\ TypeOK /\ CallOK(p) /\ RecordOK(a) /\ call[p].at = "markCleaned"
      /\ ledger[a].state \in CleanedFrom
    BY <1>1 DEF IInv, MarkCleaned, At, CallOK
<1>3. ledger' = Cleaned(ledger, a)
    BY <1>1 DEF MarkCleaned, Put
<1>4. /\ Wrote(ledger', a, "CLEANED", ledger[a].phase, ledger[a].status, ledger[a].state)
      /\ ledger'[a].gone = ledger[a].gone
    BY <1>2, <1>3, CleanedWrote
<1>5. ledger[a].state \notin Unaccounted
    BY <1>2 DEF Unaccounted, CleanedFrom, NeverRan
<1>6. \A q \in Proc : turn[q].a # a
    BY <1>5, NoTurn
<1>7. /\ UNCHANGED <<torn, instance, world, lock, envelope, copy, faults, turn>>
      /\ Unshared(p) /\ Return(p)
      /\ owner' \in [Proc -> SUBSET Approval] /\ \A q \in Proc : owner'[q] \subseteq owner[q]
    BY <1>1, <1>2 DEF MarkCleaned, Put, TypeOK
<1>8. RecordOK(a)'
    <2>1. executor[a] \notin Live
        BY <1>2, <1>5 DEF RecordOK
    <2>2. Shape(ledger[a])'
        BY <1>2, <1>4
        DEF RecordOK, Shape, ReadableRecord, OneHistory, Wrote, ExecutionBearing, Unaccounted,
            NeverRan, CleanedFrom
    <2>3. ledger[a].state \in NeverRan => executor[a] = "none"
        BY <1>2 DEF RecordOK, NotBegun
    <2>4. "CLEANED" \notin NotBegun
        BY DEF NotBegun, NeverRan
    <2>5. QED
        BY <1>2, <1>4, <1>7, <2>1, <2>2, <2>3, <2>4 DEF RecordOK, Wrote, world
<1>9. CallOK(p)'
    BY <1>2, <1>7, Moves DEF CallOK, Idle
<1>10. QED
    BY <1>1, <1>2, <1>4, <1>6, <1>7, <1>8, <1>9, WorkspacePut DEF Wrote, WorkspaceStages

-----------------------------------------------------------------------------
(* The steps of the transport and of the reconciler *)

\* The turn begins on a record that is PREPARED, hence on nothing started.
LEMMA BeginTurnKeeps ==
    ASSUME IInv, NEW p \in Proc, NEW a \in Approval, BeginTurn(p, a) PROVE IInv'
<1>1. /\ TypeOK /\ RecordOK(a) /\ call[p] = Idle /\ Unshared(p)
      /\ ledger' = Entered(ledger, a)
      /\ turn' = [turn EXCEPT ![p] = [a |-> a, at |-> "agentsAdd"]]
      /\ UNCHANGED <<torn, instance, world, lock, envelope, owner, copy, call, faults>>
    BY DEF IInv, BeginTurn, MayCall, Put
<1>2. ledger[a].state = "PREPARED"
    BY <1>1, AllowedFrom DEF BeginTurn, TypeOK, Record
<1>3. executor[a] = "none" /\ instance[a].state \notin Launched /\ envelope[a] = "present"
    BY <1>1, <1>2 DEF RecordOK, NotBegun, BeginTurn
<1>4. /\ Wrote(ledger', a, "RUNNING", LaunchAttempting, ledger[a].status, ledger[a].from)
      /\ ledger'[a].gone = ledger[a].gone
    BY <1>1, EnteredWrote
<1>5. \A q \in Proc : turn[q].a # a
    BY <1>2, NoTurn DEF Unaccounted
<1>6. /\ turn' \in [Proc -> Turns]
      /\ turn'[p].a = a /\ turn'[p].at = "agentsAdd"
      /\ \A q \in Proc \ {p} : turn'[q] = turn[q]
    BY <1>1 DEF TypeOK, Turns, TurnStages
<1>7. RecordOK(a)'
    BY <1>1, <1>2, <1>3, <1>4
    DEF RecordOK, Shape, ReadableRecord, Wrote, NotBegun, Unaccounted, ExecutionBearing, NeverRan,
        CleanedFrom, NoPhase, LaunchAttempting, world
<1>8. TurnOK(p)'
    BY <1>1, <1>3, <1>4, <1>5, <1>6 DEF TurnOK, Wrote, Unaccounted, world
<1>9. QED
    BY <1>1, <1>4, <1>5, <1>6, <1>7, <1>8, TurnPut DEF Wrote

\* A put of a turn under way: it leaves the record unaccounted for, and no
\* earlier than the phase in which its executor may exist.
Unobserved == {"RUNNING", "SUCCEEDED", "CLIENT_TIMEOUT", "QUARANTINED"}

LEMMA TurnAdvance ==
    ASSUME IInv, NEW p \in Proc, NEW a \in Approval, a = turn[p].a, turn[p].at # "idle",
           call[p] = Idle, NEW doc, Put(p, doc), UNCHANGED <<envelope, owner, call>>,
           NEW s \in Unaccounted, NEW ph \in 1 .. 4,
           Wrote(doc, a, s, ph, ledger[a].status, ledger[a].from),
           doc[a].gone = ledger[a].gone,
           s = ledger[a].state \/ {s, ledger[a].state} \subseteq Unobserved,
           executor[a] = "none" \/ ph >= TurnAttempting,
           \/ EndTurn(p)
           \/ \E next \in TurnStages :
                 /\ Await(p, next)
                 /\ next \in Early => turn[p].at \in Early
                 /\ next = "spawn" => ph = TurnAttempting
    PROVE  IInv'
<1>1. TypeOK /\ TurnOK(p) /\ RecordOK(a) /\ Unshared(p)
    BY DEF IInv, Put
<1>2. /\ ledger' = doc
      /\ UNCHANGED <<torn, instance, world, lock, envelope, owner, copy, call, faults>>
    BY DEF Put
<1>3. /\ ledger[a].state \in Unaccounted /\ instance[a].state \notin Launched
      /\ \A q \in Proc \ {p} : turn[q].a # a
    BY <1>1 DEF TurnOK
<1>4. /\ turn' \in [Proc -> Turns]
      /\ \A q \in Proc \ {p} : turn'[q] = turn[q]
      /\ turn'[p].at # "idle" =>
            /\ turn'[p].a = a
            /\ turn'[p].at \in Early => turn[p].at \in Early
            /\ turn'[p].at = "spawn" => ph = TurnAttempting
    <2>1. CASE EndTurn(p)
        BY <1>1, <2>1, Moves DEF Idle
    <2>2. CASE \E next \in TurnStages :
                 /\ Await(p, next)
                 /\ next \in Early => turn[p].at \in Early
                 /\ next = "spawn" => ph = TurnAttempting
        BY <1>1, <2>2, Moves
    <2>3. QED
        BY <2>1, <2>2
<1>5. Shape(ledger[a])'
    BY <1>1, <1>2, <1>3
    DEF RecordOK, Shape, ReadableRecord, Wrote, Unobserved, Unaccounted, ExecutionBearing,
        NeverRan, CleanedFrom, NoPhase
<1>6. RecordOK(a)'
    <2>1. ledger'[a].state = s /\ ledger'[a].phase = ph /\ ledger'[a].from = ledger[a].from
        BY <1>2 DEF Wrote
    <2>2. s \notin NotBegun /\ s # "NONE" /\ s # "PREPARED"
        BY DEF NotBegun, NeverRan, Unaccounted
    <2>3. QED
        BY <1>1, <1>2, <1>3, <1>5, <2>1, <2>2 DEF RecordOK, world
<1>7. TurnOK(p)'
    BY <1>1, <1>2, <1>3, <1>4, NamesAssumption DEF TurnOK, Wrote, world
<1>8. QED
    BY <1>1, <1>2, <1>3, <1>4, <1>6, <1>7, TurnPut DEF Wrote

\* What such a turn knows of its record.
LEMMA TurnFacts ==
    ASSUME IInv, NEW p \in Proc, turn[p].at # "idle", NEW a, a = turn[p].a
    PROVE  /\ TypeOK /\ a \in Approval
           /\ ledger[a] \in Record /\ ledger[a].state \in Unaccounted
           /\ ledger[a].phase \in 1 .. 4
           /\ executor[a] = "none" \/ ledger[a].phase >= TurnAttempting
           /\ turn[p].at \in Early => executor[a] = "none"
<1>1. TypeOK /\ a \in Approval /\ TurnOK(p)
    BY CallRange DEF IInv
<1>2. RecordOK(a) /\ ledger[a] \in Record
    BY <1>1 DEF IInv, TypeOK
<1>3. ledger[a].state \in Unaccounted /\ instance[a].state \notin Launched
    BY <1>1 DEF TurnOK
<1>4. ledger[a].phase \in 1 .. 4
    BY <1>2, <1>3 DEF RecordOK, Shape, ReadableRecord, ExecutionBearing, Record, NoPhase
<1>5. QED
    BY <1>1, <1>2, <1>3, <1>4 DEF RecordOK, TurnOK

LEMMA AdvancePhaseKeeps == ASSUME IInv, NEW p \in Proc, AdvancePhase(p) PROVE IInv'
<1>1. PICK a : a = turn[p].a
    OBVIOUS
<1>2. /\ call[p] = Idle /\ turn[p].at \in {"confirmed", "attempting", "taskObserved"}
      /\ UNCHANGED <<envelope, owner, call>>
    BY DEF AdvancePhase, TurnAt
<1>3. /\ TypeOK /\ a \in Approval /\ ledger[a] \in Record /\ ledger[a].state \in Unaccounted
      /\ turn[p].at # "idle"
      /\ turn[p].at \in Early => executor[a] = "none"
      /\ executor[a] = "none" \/ ledger[a].phase >= TurnAttempting
    BY <1>1, <1>2, TurnFacts
<1>4. ASSUME NEW ph \in 1 .. 4, NEW next \in TurnStages \cup {"idle"},
             Put(p, Phased(ledger, a, ph)),
             IF next = "idle" THEN EndTurn(p) ELSE Await(p, next),
             executor[a] = "none" \/ ph >= TurnAttempting,
             next \in Early => turn[p].at \in Early,
             next = "spawn" => ph = TurnAttempting
      PROVE  IInv'
    <2>1. ledger \in [Approval -> Record] /\ ph \in 0 .. 4
        BY <1>3 DEF TypeOK
    <2>2. /\ Wrote(Phased(ledger, a, ph), a, ledger[a].state, ph, ledger[a].status,
                   ledger[a].from)
          /\ Phased(ledger, a, ph)[a].gone = ledger[a].gone
        BY <1>3, <2>1, PhasedWrote DEF Wrote
    <2>3. \/ EndTurn(p)
          \/ \E nx \in TurnStages :
                 /\ Await(p, nx)
                 /\ nx \in Early => turn[p].at \in Early
                 /\ nx = "spawn" => ph = TurnAttempting
        BY <1>4
    <2>4. QED
        BY <1>1, <1>2, <1>3, <1>4, <2>2, <2>3, TurnAdvance
<1>5. CASE TurnAt(p, "confirmed")
    <2>1. Put(p, Phased(ledger, a, AgentObserved)) /\ Await(p, "attempting")
        BY <1>1, <1>5 DEF AdvancePhase, TurnAt
    <2>2. AgentObserved \in 1 .. 4 /\ "attempting" \in TurnStages /\ turn[p].at \in Early
        BY <1>5 DEF AgentObserved, TurnStages, TurnAt, Early
    <2>3. QED
        BY <1>3, <1>4, <2>1, <2>2 DEF TurnStages
<1>6. CASE TurnAt(p, "attempting")
    <2>1. Put(p, Phased(ledger, a, TurnAttempting)) /\ Await(p, "spawn")
        BY <1>1, <1>6 DEF AdvancePhase, TurnAt
    <2>2. TurnAttempting \in 1 .. 4 /\ "spawn" \in TurnStages /\ turn[p].at \in Early
        BY <1>6 DEF TurnAttempting, TurnStages, TurnAt, Early
    <2>3. QED
        BY <1>3, <1>4, <2>1, <2>2 DEF TurnStages
<1>7. CASE TurnAt(p, "taskObserved")
    <2>1. Put(p, Phased(ledger, a, TaskObserved)) /\ EndTurn(p)
        BY <1>1, <1>7 DEF AdvancePhase, TurnAt
    <2>2. TaskObserved \in 1 .. 4 /\ TaskObserved >= TurnAttempting /\ "idle" \notin Early
        BY DEF TaskObserved, TurnAttempting, Early
    <2>3. QED
        BY <1>4, <2>1, <2>2
<1>8. QED
    BY <1>5, <1>6, <1>7 DEF AdvancePhase

LEMMA ClientTimeoutKeeps == ASSUME IInv, NEW p \in Proc, ClientTimeout(p) PROVE IInv'
<1>1. PICK a : a = turn[p].a
    OBVIOUS
<1>2. /\ call[p] = Idle /\ turn[p].at \in {"turn", "quarantine"}
      /\ UNCHANGED <<envelope, owner, call>>
    BY DEF ClientTimeout, TurnAt
<1>3. /\ TypeOK /\ a \in Approval /\ ledger[a] \in Record /\ ledger[a].state \in LedgerStates
      /\ ledger[a].phase \in 1 .. 4
      /\ turn[p].at # "idle"
      /\ executor[a] = "none" \/ ledger[a].phase >= TurnAttempting
    BY <1>1, <1>2, TurnFacts DEF Record
<1>4. CASE TurnAt(p, "turn")
    <2>1. /\ Put(p, Moved(ledger, a, "CLIENT_TIMEOUT")) /\ Await(p, "quarantine")
          /\ ledger[a].state = "RUNNING"
        BY <1>1, <1>3, <1>4, AllowedFrom DEF ClientTimeout, TurnAt
    <2>2. /\ Wrote(Moved(ledger, a, "CLIENT_TIMEOUT"), a, "CLIENT_TIMEOUT", ledger[a].phase,
                   ledger[a].status, ledger[a].from)
          /\ Moved(ledger, a, "CLIENT_TIMEOUT")[a].gone = ledger[a].gone
        BY <1>3, MovedWrote DEF LedgerStates, ExecutionBearing, Unaccounted
    <2>3. "quarantine" \in TurnStages \ Early
        BY DEF TurnStages, Early
    <2>4. QED
        BY <1>1, <1>2, <1>3, <2>1, <2>2, <2>3, TurnAdvance DEF Unobserved, Unaccounted, Early
<1>5. CASE TurnAt(p, "quarantine")
    <2>1. /\ Put(p, Moved(ledger, a, "QUARANTINED")) /\ EndTurn(p)
          /\ ledger[a].state = "CLIENT_TIMEOUT"
        BY <1>1, <1>3, <1>5, AllowedFrom DEF ClientTimeout, TurnAt
    <2>2. /\ Wrote(Moved(ledger, a, "QUARANTINED"), a, "QUARANTINED", ledger[a].phase,
                   ledger[a].status, ledger[a].from)
          /\ Moved(ledger, a, "QUARANTINED")[a].gone = ledger[a].gone
        BY <1>3, MovedWrote DEF LedgerStates, ExecutionBearing, Unaccounted
    <2>3. QED
        BY <1>1, <1>2, <1>3, <2>1, <2>2, TurnAdvance DEF Unobserved, Unaccounted
<1>6. QED
    BY <1>4, <1>5 DEF ClientTimeout

LEMMA MarkSucceededKeeps == ASSUME IInv, NEW p \in Proc, MarkSucceeded(p) PROVE IInv'
<1>1. PICK a : a = turn[p].a
    OBVIOUS
<1>2. call[p] = Idle /\ turn[p].at = "turn" /\ UNCHANGED <<envelope, owner, call>>
    BY DEF MarkSucceeded, TurnAt
<1>3. /\ TypeOK /\ a \in Approval /\ ledger[a] \in Record /\ ledger[a].state \in LedgerStates
      /\ ledger[a].phase \in 1 .. 4
      /\ turn[p].at # "idle"
      /\ executor[a] = "none" \/ ledger[a].phase >= TurnAttempting
    BY <1>1, <1>2, TurnFacts DEF Record
<1>4. /\ Put(p, Moved(ledger, a, "SUCCEEDED")) /\ Await(p, "taskObserved")
      /\ ledger[a].state = "RUNNING"
    BY <1>1, <1>3, AllowedFrom DEF MarkSucceeded
<1>5. /\ Wrote(Moved(ledger, a, "SUCCEEDED"), a, "SUCCEEDED", ledger[a].phase,
               ledger[a].status, ledger[a].from)
      /\ Moved(ledger, a, "SUCCEEDED")[a].gone = ledger[a].gone
    BY <1>3, MovedWrote DEF LedgerStates, ExecutionBearing, Unaccounted
<1>6. "taskObserved" \in TurnStages \ Early
    BY DEF TurnStages, Early
<1>7. QED
    BY <1>1, <1>2, <1>3, <1>4, <1>5, <1>6, TurnAdvance DEF Unobserved, Unaccounted, Early

\* Moving or ending a turn, nothing else.
LEMMA AnsweredKeeps == ASSUME IInv, NEW p \in Proc, Answered(p) PROVE IInv'
<1>1. /\ TypeOK /\ turn[p].at \in {"agentsAdd", "turn"}
      /\ UNCHANGED <<disk, world, lock, envelope, owner, call, copy, faults>>
    BY DEF IInv, Answered, TurnAt
<1>2. /\ turn' \in [Proc -> Turns]
      /\ \/ turn'[p] = Idle
         \/ turn[p].at = "agentsAdd" /\ turn'[p].at = "confirmed" /\ turn'[p].a = turn[p].a
      /\ \A q \in Proc \ {p} : turn'[q] = turn[q]
    <2>1. CASE EndTurn(p)
        BY <1>1, <2>1, Moves
    <2>2. CASE TurnAt(p, "agentsAdd") /\ Await(p, "confirmed")
        <3>1. "confirmed" \in TurnStages /\ turn[p].at # "idle"
            BY <2>2 DEF TurnStages, TurnAt
        <3>2. QED
            BY <1>1, <2>2, <3>1, Moves DEF TurnAt
    <2>3. QED
        BY <2>1, <2>2 DEF Answered
<1>3. TypeOK'
    BY <1>1, <1>2 DEF TypeOK, disk, world
<1>4. OneCall' /\ FreshCopy'
    BY <1>1 DEF IInv, OneCall, FreshCopy, InSection, disk
<1>5. ASSUME NEW b \in Approval PROVE RecordOK(b)'
    BY <1>1 DEF IInv, RecordOK, disk, world
<1>6. \A q \in Proc : turn'[q].a \in {turn[q].a, NoApproval}
    BY <1>2 DEF Idle
<1>7. ASSUME NEW q \in Proc PROVE CallOK(q)'
    <2>1. CallOK(q) /\ (call[q].at # "idle" => call[q].a \in Approval)
        BY <1>1, CallRange DEF IInv
    <2>2. \A x \in Proc : call[q].at # "idle" /\ turn[x].a # call[q].a => turn'[x].a # call[q].a
        BY <1>6, <2>1, NamesAssumption
    <2>3. QED
        BY <1>1, <2>1, <2>2 DEF CallOK, disk, world
<1>8. ASSUME NEW q \in Proc PROVE TurnOK(q)'
    <2>1. CASE q = p
        <3>1. CASE turn'[p] = Idle
            BY <2>1, <3>1 DEF TurnOK, Idle
        <3>2. CASE turn[p].at = "agentsAdd" /\ turn'[p].at = "confirmed" /\ turn'[p].a = turn[p].a
            <4>1. TurnOK(p) /\ turn[p].a \in Approval
                BY <1>1, <3>2, CallRange DEF IInv
            <4>2. \A x \in Proc : turn'[x].a = turn[p].a => turn[x].a = turn[p].a
                BY <1>6, <4>1, NamesAssumption
            <4>3. QED
                BY <1>1, <2>1, <3>2, <4>1, <4>2 DEF TurnOK, Early, disk, world
        <3>3. QED
            BY <1>2, <3>1, <3>2
    <2>2. CASE q # p
        <3>1. TurnOK(q) /\ turn'[q] = turn[q] /\ (turn[q].at # "idle" => turn[q].a \in Approval)
            BY <1>1, <1>2, <2>2, CallRange DEF IInv
        <3>2. turn[q].at # "idle" =>
                  \A x \in Proc : turn'[x].a = turn[q].a => turn[x].a = turn[q].a
            BY <1>6, <3>1, NamesAssumption
        <3>3. QED
            BY <1>1, <3>1, <3>2 DEF TurnOK, disk, world
    <2>3. QED
        BY <2>1, <2>2
<1>9. QED
    BY <1>3, <1>4, <1>5, <1>7, <1>8 DEF IInv

\* The executor of a turn starts after its phase was written.
LEMMA SpawnKeeps == ASSUME IInv, NEW p \in Proc, Spawn(p) PROVE IInv'
<1>1. PICK a \in Approval : a = turn[p].a
    BY CallRange DEF IInv, Spawn, TurnAt
<1>2. /\ TypeOK /\ TurnOK(p) /\ RecordOK(a) /\ turn[p].at = "spawn" /\ call[p] = Idle
      /\ UNCHANGED <<disk, resumes, lock, envelope, owner, call, copy, faults>>
    BY DEF IInv, Spawn, TurnAt
<1>3. /\ ledger[a].state \in Unaccounted /\ ledger[a].phase = TurnAttempting
      /\ instance[a].state \notin Launched /\ ~instance[a].cgroup
      /\ executor[a] = "none" /\ envelope[a] = "present"
      /\ \A q \in Proc : turn[q].a = a => p = q
    BY <1>1, <1>2 DEF TurnOK, RecordOK, Early
<1>4. /\ turn' \in [Proc -> Turns]
      /\ turn'[p].at = "turn" /\ turn'[p].a = a
      /\ \A q \in Proc \ {p} : turn'[q] = turn[q]
    BY <1>1, <1>2, Moves DEF Spawn, TurnStages
<1>5. /\ executor' \in [Approval -> ExecutorStates]
      /\ executor'[a] \in {"none", "running"}
      /\ \A b \in Approval \ {a} : executor'[b] = executor[b]
      /\ task' \in [Approval -> {"none", "live", "succeeded", "failed"}]
    BY <1>1, <1>2, <1>3 DEF Spawn, TypeOK, ExecutorStates, Live, Breathing
<1>6. TypeOK'
    BY <1>2, <1>4, <1>5 DEF TypeOK, disk
<1>7. OneCall' /\ FreshCopy'
    BY <1>2 DEF IInv, OneCall, FreshCopy, InSection, disk
<1>8. ASSUME NEW b \in Approval PROVE RecordOK(b)'
    <2>1. CASE b = a
        <3>1. ledger[a].state \notin NotBegun /\ ledger[a].from = "none"
            BY <1>2, <1>3 DEF RecordOK, Shape, NotBegun, NeverRan, Unaccounted
        <3>2. "none" \notin NeverRan /\ "none" \notin Live
            BY DEF NeverRan, Live, Breathing
        <3>3. ledger[a].phase >= TurnAttempting
            BY <1>3 DEF TurnAttempting
        <3>4. QED
            BY <1>2, <1>3, <2>1, <3>1, <3>2, <3>3 DEF RecordOK, disk
    <2>2. CASE b # a
        BY <1>2, <1>5, <2>2 DEF IInv, RecordOK, disk
    <2>3. QED
        BY <2>1, <2>2
<1>9. ASSUME NEW q \in Proc PROVE CallOK(q)'
    <2>1. CallOK(q) /\ \A x \in Proc : turn'[x].a = turn[x].a
        BY <1>1, <1>4 DEF IInv
    <2>2. CASE call[q].a = a
        BY <1>1, <1>2, <1>3, <2>1, <2>2 DEF CallOK, disk
    <2>3. CASE call[q].a # a
        <3>1. call[q].at # "idle" => executor'[call[q].a] = executor[call[q].a]
            BY <1>2, <1>5, <2>3, CallRange
        <3>2. QED
            BY <1>2, <2>1, <3>1 DEF CallOK, disk
    <2>4. QED
        BY <2>2, <2>3
<1>10. ASSUME NEW q \in Proc PROVE TurnOK(q)'
    <2>1. CASE q = p
        BY <1>2, <1>3, <1>4, <2>1 DEF TurnOK, Early, disk
    <2>2. CASE q # p
        <3>1. /\ TurnOK(q) /\ turn'[q] = turn[q] /\ turn[q].a # a
              /\ \A x \in Proc : turn'[x].a = turn[x].a
            BY <1>1, <1>3, <1>4, <2>2 DEF IInv
        <3>2. turn[q].at # "idle" => executor'[turn[q].a] = executor[turn[q].a]
            BY <1>2, <1>5, <3>1, CallRange
        <3>3. QED
            BY <1>2, <3>1, <3>2 DEF TurnOK, disk
    <2>3. QED
        BY <2>1, <2>2
<1>11. QED
    BY <1>6, <1>7, <1>8, <1>9, <1>10 DEF IInv

\* The observation of a task's end keeps the lockout, also under a turn.
LEMMA ReconcileKeeps ==
    ASSUME IInv, NEW p \in Proc, NEW a \in Approval, Reconcile(p, a) PROVE IInv'
<1>1. /\ TypeOK /\ RecordOK(a)
      /\ ledger' = SeenTerminal(ledger, a, task[a]) /\ task[a] \in {"succeeded", "failed"}
      /\ UNCHANGED <<torn, instance, world, lock, envelope, owner, copy, call, turn, faults>>
    BY DEF IInv, Reconcile, Put
<1>2. \A q \in Proc : call[q].at = "idle"
    BY DEF Reconcile, MayCall, Put, Unshared, Idle
<1>3. ledger[a].state \in {"RUNNING", "SUCCEEDED", "QUARANTINED"}
    BY <1>1, AllowedFrom DEF Reconcile, MayObserve, TypeOK, Record
<1>4. /\ Wrote(ledger', a, "TERMINAL_OBSERVED", ledger[a].phase, task[a], ledger[a].from)
      /\ ledger'[a].gone = ledger[a].gone
    BY <1>1, SeenTerminalWrote
<1>5. TypeOK'
    BY <1>1, <1>4 DEF TypeOK, Wrote, world
<1>6. OneCall'
    BY <1>1 DEF IInv, OneCall, InSection
<1>7. FreshCopy'
    <2>1. \A q \in Proc : copy[q] = NoCopy
        BY <1>2 DEF IInv, FreshCopy, LedgerPuts, InstancePuts
    <2>2. QED
        BY <1>1, <2>1 DEF FreshCopy
<1>8. ASSUME NEW b \in Approval PROVE RecordOK(b)'
    <2>1. CASE b = a
        <3>1. Shape(ledger[a])'
            BY <1>1, <1>3, <1>4
            DEF RecordOK, Shape, ReadableRecord, Wrote, Unaccounted, ExecutionBearing, NeverRan,
                CleanedFrom, NoPhase
        <3>2. /\ "TERMINAL_OBSERVED" \notin NotBegun /\ "TERMINAL_OBSERVED" \in Unaccounted
              /\ ledger[a].state \in Unaccounted
            BY <1>3 DEF NotBegun, NeverRan, Unaccounted
        <3>3. QED
            BY <1>1, <1>4, <2>1, <3>1, <3>2 DEF RecordOK, Wrote, world
    <2>2. CASE b # a
        BY <1>1, <1>4, <2>2 DEF IInv, RecordOK, Wrote, world
    <2>3. QED
        BY <2>1, <2>2
<1>9. ASSUME NEW q \in Proc PROVE CallOK(q)'
    BY <1>1, <1>2 DEF CallOK
<1>10. ASSUME NEW q \in Proc PROVE TurnOK(q)'
    <2>1. CASE turn[q].a = a
        BY <1>1, <1>4, <2>1 DEF IInv, TurnOK, Wrote, Unaccounted, world
    <2>2. CASE turn[q].a # a
        BY <1>1, <1>4, <2>2, CallRange DEF IInv, TurnOK, Wrote, world
    <2>3. QED
        BY <2>1, <2>2
<1>11. QED
    BY <1>5, <1>6, <1>7, <1>8, <1>9, <1>10 DEF IInv

-----------------------------------------------------------------------------
(* The operating system, failed writes and faults *)

\* An executor that was started moves, and none leaves "gone".
LEMMA WorldKeeps == ASSUME IInv, World PROVE IInv'
<1>1. PICK a \in Approval : LateStart(a) \/ Exit(a) \/ Resume(a)
    BY DEF World
<1>2. TypeOK /\ UNCHANGED <<disk, lock, envelope, owner, call, turn, copy, faults>>
    BY DEF IInv, World
<1>3. /\ executor[a] \in Live
      /\ executor[a] = "starting" => executor'[a] \in {"running", "gone"}
      /\ executor[a] # "starting" => executor'[a] \in {"resumable", "resumed", "gone"}
      /\ executor' \in [Approval -> ExecutorStates]
      /\ \A b \in Approval \ {a} : executor'[b] = executor[b]
    BY <1>1, <1>2 DEF LateStart, Exit, Resume, Live, Breathing, TypeOK, ExecutorStates
<1>4. task' \in [Approval -> {"none", "live", "succeeded", "failed"}]
    BY <1>1, <1>2 DEF LateStart, Exit, Resume, TypeOK
<1>5. resumes' \in 0 .. MaxResumes
    BY <1>1, <1>2, BoundsAssumption DEF LateStart, Exit, Resume, TypeOK
<1>6. TypeOK'
    BY <1>2, <1>3, <1>4, <1>5 DEF TypeOK, disk
<1>7. OneCall' /\ FreshCopy'
    BY <1>2 DEF IInv, OneCall, FreshCopy, InSection, disk
<1>8. executor'[a] # "none" /\ executor'[a] # "starting" /\ executor[a] # "none"
    BY <1>3 DEF Live, Breathing
<1>9. ASSUME NEW b \in Approval PROVE RecordOK(b)'
    <2>1. CASE b = a
        BY <1>2, <1>3, <1>8, <2>1 DEF IInv, RecordOK, disk
    <2>2. CASE b # a
        BY <1>2, <1>3, <2>2 DEF IInv, RecordOK, disk
    <2>3. QED
        BY <2>1, <2>2
<1>10. ASSUME NEW q \in Proc PROVE CallOK(q)'
    <2>1. CASE call[q].a = a
        BY <1>2, <1>3, <1>8, <2>1 DEF IInv, CallOK, Live, Breathing, disk
    <2>2. CASE call[q].a # a
        <3>1. call[q].at # "idle" => executor'[call[q].a] = executor[call[q].a]
            BY <1>2, <1>3, <2>2, CallRange
        <3>2. QED
            BY <1>2, <3>1 DEF IInv, CallOK, disk
    <2>3. QED
        BY <2>1, <2>2
<1>11. ASSUME NEW q \in Proc PROVE TurnOK(q)'
    <2>1. CASE turn[q].a = a
        BY <1>2, <1>8, <2>1 DEF IInv, TurnOK, disk
    <2>2. CASE turn[q].a # a
        <3>1. turn[q].at # "idle" => executor'[turn[q].a] = executor[turn[q].a]
            BY <1>2, <1>3, <2>2, CallRange
        <3>2. QED
            BY <1>2, <3>1 DEF IInv, TurnOK, disk
    <2>3. QED
        BY <2>1, <2>2
<1>12. QED
    BY <1>6, <1>7, <1>9, <1>10, <1>11 DEF IInv

\* A call, a turn and a put may stop anywhere.
LEMMA CutKeeps ==
    ASSUME IInv, NEW p \in Proc, CutShort(p), UNCHANGED lock,
           call' \in [Proc -> Calls], \A q \in Proc \ {p} : call'[q] = call[q],
           call'[p] = Idle \/ (InSection(p) /\ call'[p].at = "release"),
           turn' \in [Proc -> Turns], \A q \in Proc \ {p} : turn'[q] = turn[q],
           turn'[p] \in {turn[p], Idle},
           owner' \in [Proc -> SUBSET Approval], \A q \in Proc : owner'[q] \subseteq owner[q],
           faults' \in 0 .. MaxFaults
    PROVE  IInv'
<1>1. /\ TypeOK /\ UNCHANGED <<ledger, instance, world, envelope>>
      /\ torn' \in BOOLEAN /\ copy' = [copy EXCEPT ![p] = NoCopy]
    BY DEF IInv, CutShort, TypeOK
<1>2. call'[p].at \in {"idle", "release"}
    BY DEF Idle
<1>3. TypeOK'
    <2>1. copy' \in [Proc -> Copies]
        BY <1>1 DEF TypeOK, Copies
    <2>2. QED
        BY <1>1, <2>1 DEF TypeOK, world
<1>4. OneCall'
    BY <1>1, <1>2 DEF IInv, OneCall, InSection, Idle, SectionStages, LedgerPuts, InstancePuts
<1>5. FreshCopy'
    BY <1>1 DEF IInv, FreshCopy, TypeOK
<1>6. ASSUME NEW b \in Approval PROVE RecordOK(b)'
    BY <1>1 DEF IInv, RecordOK, world
<1>7. \A q \in Proc : turn'[q].a \in {turn[q].a, NoApproval}
    BY DEF Idle
<1>8. ASSUME NEW q \in Proc PROVE CallOK(q)'
    <2>1. CASE q = p
        BY <1>2, <2>1 DEF CallOK
    <2>2. CASE q # p
        <3>1. CallOK(q) /\ (call[q].at # "idle" => call[q].a \in Approval)
            BY <1>1, CallRange DEF IInv
        <3>2. /\ \A x \in Proc :
                    call[q].at # "idle" /\ turn[x].a # call[q].a => turn'[x].a # call[q].a
              /\ \A b, x : b \notin owner[x] /\ x \in Proc => b \notin owner'[x]
            BY <1>7, <3>1, NamesAssumption
        <3>3. QED
            BY <1>1, <2>2, <3>1, <3>2 DEF CallOK, world
    <2>3. QED
        BY <2>1, <2>2
<1>9. ASSUME NEW q \in Proc PROVE TurnOK(q)'
    <2>1. turn'[q] \in {turn[q], Idle}
        OBVIOUS
    <2>2. turn[q].at # "idle" => turn[q].a \in Approval
        BY <1>1, CallRange
    <2>3. QED
        BY <1>1, <1>7, <2>1, <2>2, NamesAssumption DEF IInv, TurnOK, Idle, world
<1>10. QED
    BY <1>3, <1>4, <1>5, <1>6, <1>8, <1>9 DEF IInv

LEMMA WriteFailsKeeps == ASSUME IInv, NEW p \in Proc, WriteFails(p) PROVE IInv'
<1>1. TypeOK
    BY DEF IInv
<1>2. /\ CutShort(p) /\ UNCHANGED lock /\ owner' = owner
      /\ faults' \in 0 .. MaxFaults
    BY <1>1, BoundsAssumption DEF WriteFails, TypeOK
<1>3. /\ call' \in [Proc -> Calls]
      /\ \A q \in Proc \ {p} : call'[q] = call[q]
      /\ call'[p] = Idle \/ (InSection(p) /\ call'[p].at = "release")
    <2>1. CASE InSection(p)
        <3>1. call[p].at # "idle" /\ "release" \in SectionStages
            BY <2>1 DEF InSection, SectionStages, LedgerPuts, InstancePuts
        <3>2. Goto(p, "release")
            BY <2>1 DEF WriteFails
        <3>3. QED
            BY <1>1, <2>1, <3>1, <3>2, Moves
    <2>2. CASE ~InSection(p)
        <3>1. Return(p)
            BY <2>2 DEF WriteFails
        <3>2. QED
            BY <1>1, <3>1, Moves
    <2>3. QED
        BY <2>1, <2>2
<1>4. /\ turn' \in [Proc -> Turns]
      /\ \A q \in Proc \ {p} : turn'[q] = turn[q]
      /\ turn'[p] \in {turn[p], Idle}
    BY <1>1 DEF WriteFails, TypeOK, Turns
<1>5. owner' \in [Proc -> SUBSET Approval] /\ \A q \in Proc : owner'[q] \subseteq owner[q]
    BY <1>1, <1>2 DEF TypeOK
<1>6. QED
    BY <1>2, <1>3, <1>4, <1>5, CutKeeps

LEMMA CrashKeeps == ASSUME IInv, NEW p \in Proc, Crash(p) PROVE IInv'
<1>1. TypeOK
    BY DEF IInv
<1>2. CutShort(p) /\ UNCHANGED lock /\ Return(p) /\ EndTurn(p)
    BY DEF Crash
<1>3. faults' \in 0 .. MaxFaults
    BY <1>1, BoundsAssumption DEF Crash, TypeOK
<1>4. owner' \in [Proc -> SUBSET Approval] /\ \A q \in Proc : owner'[q] \subseteq owner[q]
    BY <1>1 DEF Crash, TypeOK
<1>5. /\ call' \in [Proc -> Calls] /\ call'[p] = Idle
      /\ \A q \in Proc \ {p} : call'[q] = call[q]
      /\ turn' \in [Proc -> Turns] /\ turn'[p] = Idle
      /\ \A q \in Proc \ {p} : turn'[q] = turn[q]
    BY <1>1, <1>2, Moves
<1>6. QED
    BY <1>2, <1>3, <1>4, <1>5, CutKeeps

-----------------------------------------------------------------------------
(* The theorems *)

LEMMA SectionKeeps == ASSUME IInv, NEW p \in Proc, Section(p) PROVE IInv'
<1>1. RequestStop(p) => IInv'
    BY RequestStopKeeps DEF RequestStop
<1>2. QED
    BY <1>1, ReadKeeps, LaunchApprovedKeeps, AbortPreparedKeeps, RecoverInstanceKeeps,
       UnreadableKeeps, PrepareInstanceKeeps, MarkRunningKeeps, LaunchAttemptedKeeps,
       LaunchUnitKeeps, ReadCgroupKeeps, ObserveCgroupKeeps, AbortPreExecutionKeeps,
       StopUnitKeeps, ScanProcessesKeeps, ReadUnitKeeps,
       ObserveExecutorGoneKeeps, RetireKeeps, ReleaseKeeps
    DEF Section

LEMMA WorkspaceKeeps == ASSUME IInv, NEW p \in Proc, Workspace(p) PROVE IInv'
BY PrepareKeeps, CleanupKeeps, BeginKeeps, SandboxKeeps, FailPreparationKeeps,
   AbortCleanupKeeps, DiscardKeeps, MarkCleanedKeeps DEF Workspace

LEMMA TransportKeeps == ASSUME IInv, NEW p \in Proc, Transport(p) PROVE IInv'
BY BeginTurnKeeps, ReconcileKeeps, AnsweredKeeps, AdvancePhaseKeeps, SpawnKeeps,
   ClientTimeoutKeeps, MarkSucceededKeeps DEF Transport

LEMMA NextKeeps == IInv /\ [Next]_vars => IInv'
<1> SUFFICES ASSUME IInv, [Next]_vars PROVE IInv'
    OBVIOUS
<1>1. CASE Next
    BY <1>1, EnterKeeps, SectionKeeps, WorkspaceKeeps, TransportKeeps, WriteFailsKeeps,
       CrashKeeps, ClearLockKeeps, WorldKeeps DEF Next
<1>2. CASE UNCHANGED vars
    <2>1. TypeOK' /\ OneCall' /\ FreshCopy'
        BY <1>2 DEF IInv, TypeOK, OneCall, FreshCopy, InSection, vars
    <2>2. ASSUME NEW a \in Approval PROVE RecordOK(a)'
        BY <1>2 DEF IInv, RecordOK, vars
    <2>3. ASSUME NEW p \in Proc PROVE CallOK(p)' /\ TurnOK(p)'
        BY <1>2 DEF IInv, CallOK, TurnOK, vars
    <2>4. QED
        BY <2>1, <2>2, <2>3 DEF IInv
<1>3. QED
    BY <1>1, <1>2

\* The invariant holds in every reachable state.
THEOREM Invariance == Spec => []IInv
BY InitKeeps, NextKeeps, PTL DEF Spec

\* The two ledgers, the lock, the calls, the turns and what the system runs
\* keep their types.
THEOREM Typed == Spec => []TypeOK
<1>1. IInv => TypeOK
    BY DEF IInv
<1>2. QED
    BY <1>1, Invariance, PTL

\* The global lockout: a process that runs, may still start or may come back
\* is held by a record of openClawQuarantine.js that refuses every further
\* begin, for any number of approvals and processes and any number of crashes,
\* failed writes, ambiguous launches and successors.
THEOREM NoExecutorEscapes == Spec => []LiveIsCovered
<1>1. IInv => LiveIsCovered
    BY DEF IInv, RecordOK, LiveIsCovered
<1>2. QED
    BY <1>1, Invariance, PTL

\* Write-ahead: the launch intent of openClawInstanceManager.js or the phase
\* of openClawTransport.js is on disk before there is anything to account for.
THEOREM IntentIsDurable == Spec => []EvidencePrecedesExecutor
<1>1. IInv => EvidencePrecedesExecutor
    BY DEF IInv, RecordOK, EvidencePrecedesExecutor
<1>2. QED
    BY <1>1, Invariance, PTL

\* cleanup of openClawGovernedWorkspace.js never takes the envelope from under
\* a live executor.
THEOREM EnvelopeStays == Spec => []EnvelopeOutlivesExecutor
<1>1. IInv => EnvelopeOutlivesExecutor
    BY DEF IInv, RecordOK, EnvelopeOutlivesExecutor
<1>2. QED
    BY <1>1, Invariance, PTL

\* PRE_EXECUTION_ABORTED and PREPARATION_FAILED, and the records cleaned from
\* them, are about approvals of which nothing was ever started.
THEOREM NothingRanThere == Spec => []NeverRanIsTrue
<1>1. IInv => NeverRanIsTrue
    <2>1. NeverRan \subseteq NotBegun
        BY DEF NotBegun
    <2>2. QED
        BY <2>1 DEF IInv, RecordOK, NeverRanIsTrue
<1>2. QED
    BY <1>1, Invariance, PTL

\* Every record any operation writes passes assertLedger, so no sequence of
\* operations can make the ledger unreadable.
THEOREM WritesAreReadable == Spec => []LedgerReadable
<1>1. IInv => LedgerReadable
    BY DEF IInv, RecordOK, Shape, LedgerReadable
<1>2. QED
    BY <1>1, Invariance, PTL
=============================================================================
