------------------------ MODULE ActionGatewayProofs ------------------------
(***************************************************************************)
(* For all sets of actions, targets, definitions and readers, and all      *)
(* bounds: the gateway is type correct, starts the script of an action at  *)
(* most once and only with its dispatch on file, never lets two actions    *)
(* work on one target, and calls verified only what its script did; a     *)
(* restore undoes exactly the verified action it names, nothing but a      *)
(* change from outside comes between the check of a script and its change, *)
(* and a recommended pause takes effect only while the task it counts on   *)
(* runs.                                                                   *)
(*                                                                         *)
(* The argument.  ActionOK ties the file of an action to the position of   *)
(* its approve call, to its script and to the number of starts: a call can  *)
(* dispatch only while the file says "approved", and such an action has     *)
(* never been started.  LocksHeld ties locks to whoever works: a call holds *)
(* them in memory and on disk, a script left behind by a dead process on    *)
(* disk alone.  A new call takes only free targets, so what works on one    *)
(* target stays alone (OneActionPerTarget).  ReadingOK says that a          *)
(* reconcile's copy is of an action that no call can reach any more.        *)
(* SealInv says that what an action is sealed with is the same in its file, *)
(* in a reconcile's copy and in the restores that name it, and that no      *)
(* running script has lost the task it checked, or the one it counts on, to *)
(* another action.                                                          *)
(***************************************************************************)
EXTENDS ActionGateway, TLAPS

\* What a script may be doing is expanded in every proof below.
USE DEF Running, ScriptStates

Untouched(action) == Entries(action, "dispatched") = {}

\* One action: its file, where its call stands, its script and its starts.
ActionOK(action, position, script, starts) ==
    /\ action.state # "absent" => action.target \in Target
    /\ position = "locked" => action.state = "awaiting_approval"
    /\ position \in {"preflight", "verifying"} => action.state = "approved"
    /\ position \in {"applying", "readback", "survivor", "concluding"}
         => action.state = "executing"
    /\ position \in {"readback", "survivor", "concluding"} => script = "done"
    /\ action.state \in {"absent", "awaiting_approval", "approved"}
         => starts = 0 /\ script = "none" /\ Untouched(action)
    /\ action.state = "verified" => script = "done"
    /\ starts <= 1
    /\ starts = 1 => DispatchedOnce(action)

ActionsOK ==
    \A i \in ActionId : ActionOK(record[i], call[i], effect[i], applied[i])

LocksHeld ==
    \A i \in ActionId :
        /\ call[i] # "none" => Locks(record[i]) \subseteq busy
        /\ Working(i) => Locks(record[i]) \subseteq lockFile

ReadingOK ==
    \A c \in Reader : reading[c] # NoReading =>
        /\ reading[c].id \in ActionId
        /\ call[reading[c].id] = "none"
        /\ record[reading[c].id].state \in {"executing", "outcome_unknown"}
        /\ DispatchedOnce(reading[c].file)
        /\ reading[c].file.target = record[reading[c].id].target
        /\ reading[c].file.kept = record[reading[c].id].kept

IInv == TypeOK /\ ActionsOK /\ LocksHeld /\ OneActionPerTarget /\ ReadingOK

-----------------------------------------------------------------------------
(* Files.                                                                   *)

\* An entry is added at the end, and no other field of the file changes.
LEMMA LoggedFile ==
    ASSUME NEW action \in Action, NEW phase \in Phases
    PROVE  /\ Logged(action, phase) \in Action
           /\ Logged(action, phase) = [action EXCEPT !.timeline = Append(action.timeline, phase)]
           /\ phase # "dispatched" => Entries(Logged(action, phase), "dispatched")
                                        = Entries(action, "dispatched")
           /\ phase = "dispatched" /\ Untouched(action) => DispatchedOnce(Logged(action, phase))
<1>. DEFINE line == action.timeline
            next == Logged(action, phase)
<1>1. line \in Seq(Phases) /\ Len(line) \in Nat
  BY DEF Action
<1>2. next \in Action /\ next.timeline = Append(line, phase)
  BY <1>1 DEF Logged, Action
<1>3. /\ Len(next.timeline) = Len(line) + 1
      /\ \A k \in 1 .. Len(line) : next.timeline[k] = line[k]
      /\ next.timeline[Len(line) + 1] = phase
  BY <1>1, <1>2
<1>4. ASSUME phase # "dispatched"
      PROVE  Entries(next, "dispatched") = Entries(action, "dispatched")
  BY <1>1, <1>3, <1>4 DEF Entries
<1>5. ASSUME phase = "dispatched", Untouched(action)
      PROVE  DispatchedOnce(next)
  <2>1. Entries(next, "dispatched") = {Len(line) + 1}
    BY <1>1, <1>3, <1>5 DEF Entries, Untouched
  <2>. QED BY <2>1 DEF DispatchedOnce
<1>. HIDE DEF next
<1>. QED BY <1>2, <1>4, <1>5 DEF next, Logged

LEMMA MovedFile ==
    ASSUME NEW action \in Action, NEW state \in ActionStates, NEW phase \in Phases
    PROVE  LET next == Moved(action, state, phase)
           IN  /\ next \in Action
               /\ next.state = state
               /\ next.target = action.target /\ next.kept = action.kept
               /\ phase # "dispatched" => Entries(next, "dispatched")
                                            = Entries(action, "dispatched")
               /\ phase = "dispatched" /\ Untouched(action) => DispatchedOnce(next)
<1>. DEFINE moved == [action EXCEPT !.state = state]
<1>1. /\ moved \in Action /\ moved.timeline = action.timeline
      /\ moved.state = state /\ moved.target = action.target /\ moved.kept = action.kept
  BY DEF Action
<1>2. Entries(moved, "dispatched") = Entries(action, "dispatched")
  BY <1>1 DEF Entries
<1>. HIDE DEF moved
<1>3. /\ Logged(moved, phase) \in Action
      /\ Logged(moved, phase) = [moved EXCEPT !.timeline = Append(moved.timeline, phase)]
      /\ phase # "dispatched" => Entries(Logged(moved, phase), "dispatched")
                                   = Entries(moved, "dispatched")
      /\ phase = "dispatched" /\ Untouched(moved) => DispatchedOnce(Logged(moved, phase))
  BY <1>1, LoggedFile
<1>4. /\ Logged(moved, phase).state = state
      /\ Logged(moved, phase).target = action.target
      /\ Logged(moved, phase).kept = action.kept
  BY <1>1, <1>3 DEF Action
<1>5. Moved(action, state, phase) = Logged(moved, phase)
  BY DEF Moved, moved
<1>6. Untouched(action) => Untouched(moved)
  BY <1>2 DEF Untouched
<1>. QED BY <1>2, <1>3, <1>4, <1>5, <1>6

\* What the catch block makes of an action.
LEMMA GivenUpFile ==
    ASSUME NEW action \in Action
    PROVE  /\ GivenUp(action) \in Action
           /\ GivenUp(action).state \in {"failed", "outcome_unknown"}
           /\ GivenUp(action).target = action.target /\ GivenUp(action).kept = action.kept
           /\ Entries(GivenUp(action), "dispatched") = Entries(action, "dispatched")
BY MovedFile DEF GivenUp, ActionStates, Phases

-----------------------------------------------------------------------------
(* Steps of one approve call.                                               *)

\* What a step of the call of action i does to the files, calls and locks.
Written(i) ==
    /\ record' \in [ActionId -> Action] /\ call' \in [ActionId -> Calls]
    /\ busy' \subseteq Target /\ lockFile' \subseteq Target /\ faults' \in Nat
    /\ \A j \in ActionId \ {i} : record'[j] = record[j] /\ call'[j] = call[j]
    /\ record'[i].target = record[i].target /\ record'[i].kept = record[i].kept
    /\ \/ call'[i] # "none" /\ busy' = busy /\ lockFile' = lockFile
       \/ /\ call'[i] = "none"
          /\ busy' = busy \ Locks(record[i]) /\ lockFile' = lockFile \ Locks(record[i])

\* ... and to the script and the count of starts.
Moves(i) ==
    /\ Written(i)
    /\ effect' \in [ActionId -> ScriptStates]
    /\ applied' \in [ActionId -> Nat]
    /\ \A j \in ActionId \ {i} : effect'[j] = effect[j] /\ applied'[j] = applied[j]
    /\ ActionOK(record'[i], call'[i], effect'[i], applied'[i])
    /\ call'[i] = "none" => effect'[i] \notin Running
    /\ ApproveKeeps

LEMMA GaveUp ==
    ASSUME TypeOK, NEW i \in ActionId, NEW action \in Action, NEW failed \in {0, 1},
           action.target = record[i].target, action.kept = record[i].kept,
           GiveUp(i, action, failed)
    PROVE  /\ Written(i) /\ call'[i] = "none"
           /\ record'[i] = record[i] \/ record'[i] = GivenUp(action)
<1>1. /\ record \in [ActionId -> Action] /\ call \in [ActionId -> Calls]
      /\ busy \subseteq Target /\ lockFile \subseteq Target /\ faults \in Nat
  BY DEF TypeOK
<1>2. /\ GivenUp(action) \in Action
      /\ GivenUp(action).target = record[i].target /\ GivenUp(action).kept = record[i].kept
  BY GivenUpFile
<1>3. record' = record \/ record' = [record EXCEPT ![i] = GivenUp(action)]
  BY DEF GiveUp
<1>4. /\ record' \in [ActionId -> Action]
      /\ \A j \in ActionId \ {i} : record'[j] = record[j]
      /\ record'[i].target = record[i].target /\ record'[i].kept = record[i].kept
      /\ record'[i] = record[i] \/ record'[i] = GivenUp(action)
  BY <1>1, <1>2, <1>3
<1>5. faults' \in Nat
  BY <1>1 DEF GiveUp
<1>6. /\ call' \in [ActionId -> Calls] /\ call'[i] = "none"
      /\ \A j \in ActionId \ {i} : call'[j] = call[j]
      /\ busy' = busy \ Locks(record[i]) /\ lockFile' = lockFile \ Locks(record[i])
  BY <1>1 DEF GiveUp, Leave, Calls
<1>7. busy' \subseteq Target /\ lockFile' \subseteq Target
  BY <1>1, <1>6
<1>. QED BY <1>4, <1>5, <1>6, <1>7 DEF Written

\* A save that works, or one that throws into the catch block.
LEMMA Saved ==
    ASSUME TypeOK, NEW i \in ActionId, NEW action \in Action, NEW next \in Calls,
           action.target = record[i].target, action.kept = record[i].kept,
           Save(i, action, next)
    PROVE  /\ Written(i)
           /\ \/ record'[i] = action /\ call'[i] = next
              \/ /\ call'[i] = "none"
                 /\ record'[i] = record[i] \/ record'[i] = GivenUp(action)
<1>1. /\ record \in [ActionId -> Action] /\ call \in [ActionId -> Calls]
      /\ busy \subseteq Target /\ lockFile \subseteq Target /\ faults \in Nat
  BY DEF TypeOK
<1>2. CASE GiveUp(i, action, 1)
  BY <1>2, GaveUp
<1>3. CASE /\ record' = [record EXCEPT ![i] = action]
           /\ IF next = "none" THEN Leave(i)
                               ELSE /\ call' = [call EXCEPT ![i] = next]
                                    /\ UNCHANGED <<busy, lockFile>>
           /\ UNCHANGED faults
  <2>1. /\ record' \in [ActionId -> Action] /\ record'[i] = action
        /\ \A j \in ActionId \ {i} : record'[j] = record[j]
    BY <1>1, <1>3
  <2>2. /\ call' \in [ActionId -> Calls] /\ call'[i] = next
        /\ \A j \in ActionId \ {i} : call'[j] = call[j]
    BY <1>1, <1>3 DEF Leave, Calls
  <2>3. /\ busy' \subseteq Target /\ lockFile' \subseteq Target
        /\ \/ next # "none" /\ busy' = busy /\ lockFile' = lockFile
           \/ /\ next = "none"
              /\ busy' = busy \ Locks(record[i]) /\ lockFile' = lockFile \ Locks(record[i])
    BY <1>1, <1>3 DEF Leave
  <2>. QED BY <1>1, <1>3, <2>1, <2>2, <2>3 DEF Written
<1>. QED BY <1>2, <1>3 DEF Save

\* A step of a call keeps the invariant: its locks are its own.
LEMMA CallKeeps ==
    ASSUME IInv, NEW i \in ActionId, call[i] # "none", Moves(i)
    PROVE  IInv'
<1>1. TypeOK'
  BY DEF IInv, TypeOK, Moves, Written, ApproveKeeps
<1>2. ActionsOK'
  BY DEF IInv, ActionsOK, Moves, Written
<1>3. \A j \in ActionId : Locks(record'[j]) = Locks(record[j])
  BY DEF Moves, Written, Locks
<1>4. \A j \in ActionId \ {i} :
        /\ call'[j] = call[j] /\ Working(j)' = Working(j)
        /\ Working(j) => Locks(record[j]) \cap Locks(record[i]) = {}
  BY DEF IInv, OneActionPerTarget, Moves, Written, Working
<1>5. Working(i) /\ (call'[i] = "none" => ~Working(i)')
  BY DEF Working, Moves
<1>6. LocksHeld'
  <2>. SUFFICES ASSUME NEW j \in ActionId
                PROVE  /\ call'[j] # "none" => Locks(record'[j]) \subseteq busy'
                       /\ Working(j)' => Locks(record'[j]) \subseteq lockFile'
    BY DEF LocksHeld
  <2>1. CASE j = i
    BY <1>3, <1>5, <2>1 DEF IInv, LocksHeld, Moves, Written
  <2>2. CASE j # i
    <3>1. /\ call[j] # "none" => Locks(record[j]) \subseteq busy
          /\ Working(j) => Locks(record[j]) \subseteq lockFile
          /\ call[j] # "none" => Working(j)
      BY DEF IInv, LocksHeld, Working
    <3>2. /\ busy' = busy \/ busy' = busy \ Locks(record[i])
          /\ lockFile' = lockFile \/ lockFile' = lockFile \ Locks(record[i])
      BY DEF Moves, Written
    <3>. QED BY <1>3, <1>4, <2>2, <3>1, <3>2
  <2>. QED BY <2>1, <2>2
<1>7. OneActionPerTarget'
  BY <1>3, <1>4, <1>5 DEF IInv, OneActionPerTarget
<1>8. ReadingOK'
  BY DEF IInv, ReadingOK, Moves, Written, ApproveKeeps
<1>. QED BY <1>1, <1>2, <1>6, <1>7, <1>8 DEF IInv

-----------------------------------------------------------------------------
(* The steps of approve, one by one.                                        *)

LEMMA RecordApprovedKeeps ==
    ASSUME IInv, NEW i \in ActionId, RecordApproved(i)
    PROVE  IInv'
<1>. DEFINE action == Moved(record[i], "approved", "approved")
<1>1. /\ TypeOK /\ record[i] \in Action /\ call[i] = "locked"
      /\ ActionOK(record[i], call[i], effect[i], applied[i])
      /\ record[i].state = "awaiting_approval"
  BY DEF IInv, TypeOK, ActionsOK, ActionOK, RecordApproved
<1>2. /\ action \in Action /\ action.state = "approved"
      /\ action.target = record[i].target /\ action.kept = record[i].kept
      /\ Entries(action, "dispatched") = Entries(record[i], "dispatched")
  BY <1>1, MovedFile DEF ActionStates, Phases
<1>. HIDE DEF action
<1>3. Save(i, action, "preflight") /\ "preflight" \in Calls
  BY DEF RecordApproved, action, Calls
<1>4. /\ Written(i)
      /\ \/ record'[i] = action /\ call'[i] = "preflight"
         \/ call'[i] = "none" /\ (record'[i] = record[i] \/ record'[i] = GivenUp(action))
  BY <1>1, <1>2, <1>3, Saved
<1>5. /\ GivenUp(action) \in Action /\ GivenUp(action).state \in {"failed", "outcome_unknown"}
      /\ GivenUp(action).target = record[i].target
  BY <1>2, GivenUpFile
<1>6. effect' = effect /\ applied' = applied /\ ApproveKeeps
  BY DEF RecordApproved
<1>7. ActionOK(record'[i], call'[i], effect'[i], applied'[i])
  BY <1>1, <1>2, <1>4, <1>5, <1>6 DEF ActionOK, Untouched
<1>8. Moves(i)
  BY <1>1, <1>4, <1>6, <1>7 DEF Moves, TypeOK, ActionOK
<1>. QED BY <1>1, <1>8, CallKeeps

\* A dispatch is saved and then started, or ends in the catch block unstarted.
LEMMA DispatchMoves ==
    ASSUME IInv, NEW i \in ActionId, call[i] \in {"preflight", "verifying"},
           Dispatch(i), ApproveKeeps
    PROVE  IInv'
<1>. DEFINE action == Moved(record[i], "executing", "dispatched")
<1>1. /\ TypeOK /\ record[i] \in Action
      /\ ActionOK(record[i], call[i], effect[i], applied[i])
      /\ record[i].state = "approved"
      /\ applied[i] = 0 /\ effect[i] = "none" /\ Untouched(record[i])
  BY DEF IInv, TypeOK, ActionsOK, ActionOK
<1>2. /\ action \in Action /\ action.state = "executing"
      /\ action.target = record[i].target /\ action.kept = record[i].kept
      /\ DispatchedOnce(action)
  BY <1>1, MovedFile DEF ActionStates, Phases
<1>. HIDE DEF action
<1>3. Save(i, action, "applying") /\ "applying" \in Calls
  BY DEF Dispatch, action, Calls
<1>4. /\ Written(i)
      /\ \/ record'[i] = action /\ call'[i] = "applying"
         \/ call'[i] = "none" /\ (record'[i] = record[i] \/ record'[i] = GivenUp(action))
  BY <1>1, <1>2, <1>3, Saved
<1>5. /\ GivenUp(action) \in Action /\ GivenUp(action).state \in {"failed", "outcome_unknown"}
      /\ GivenUp(action).target = record[i].target
  BY <1>2, GivenUpFile
<1>6. /\ effect \in [ActionId -> ScriptStates]
      /\ applied \in [ActionId -> Nat]
  BY <1>1 DEF TypeOK
<1>7. CASE call'[i] = "applying"
  <2>1. /\ applied' = [applied EXCEPT ![i] = @ + 1]
        /\ effect' = [effect EXCEPT ![i] = "pending"]
    BY <1>7 DEF Dispatch
  <2>2. /\ applied'[i] = 1 /\ effect'[i] = "pending" /\ applied' \in [ActionId -> Nat]
        /\ effect' \in [ActionId -> ScriptStates]
        /\ \A j \in ActionId \ {i} : effect'[j] = effect[j] /\ applied'[j] = applied[j]
    BY <1>1, <1>6, <2>1
  <2>3. record'[i] = action
    BY <1>4, <1>7
  <2>4. ActionOK(record'[i], call'[i], effect'[i], applied'[i])
    BY <1>1, <1>2, <1>7, <2>2, <2>3 DEF ActionOK
  <2>5. Moves(i)
    BY <1>4, <1>7, <2>2, <2>4 DEF Moves
  <2>. QED BY <2>5, CallKeeps
<1>8. CASE call'[i] # "applying"
  <2>1. effect' = effect /\ applied' = applied
    BY <1>8 DEF Dispatch
  <2>2. call'[i] = "none" /\ (record'[i] = record[i] \/ record'[i] = GivenUp(action))
    BY <1>4, <1>8
  <2>3. ActionOK(record'[i], call'[i], effect'[i], applied'[i])
    BY <1>1, <1>5, <2>1, <2>2 DEF ActionOK
  <2>4. Moves(i)
    BY <1>1, <1>4, <1>6, <2>1, <2>2, <2>3 DEF Moves
  <2>. QED BY <2>4, CallKeeps
<1>. QED BY <1>7, <1>8

\* Giving up in any position: what was started may have had its effect, and what
\* has not been by now is called off.
LEMMA GiveUpKeeps ==
    ASSUME IInv, NEW i \in ActionId, call[i] # "none", GiveUp(i, record[i], 0),
           ApproveKeeps, applied' = applied,
           effect' \in [ActionId -> ScriptStates],
           \A j \in ActionId \ {i} : effect'[j] = effect[j],
           effect'[i] = IF effect[i] \in Running THEN "dropped" ELSE effect[i]
    PROVE  IInv'
<1>1. /\ TypeOK /\ record[i] \in Action /\ applied \in [ActionId -> Nat]
      /\ ActionOK(record[i], call[i], effect[i], applied[i])
  BY DEF IInv, TypeOK, ActionsOK
<1>2. /\ Written(i) /\ call'[i] = "none"
      /\ record'[i] = record[i] \/ record'[i] = GivenUp(record[i])
  BY <1>1, GaveUp
<1>3. /\ GivenUp(record[i]) \in Action
      /\ GivenUp(record[i]).state \in {"failed", "outcome_unknown"}
      /\ GivenUp(record[i]).target = record[i].target
      /\ Entries(GivenUp(record[i]), "dispatched") = Entries(record[i], "dispatched")
  BY <1>1, GivenUpFile
<1>4. record[i].state # "absent"
  BY <1>1 DEF ActionOK, IInv, TypeOK, Calls, InTurn
<1>5. ActionOK(record'[i], call'[i], effect'[i], applied'[i])
  <2>1. CASE record'[i] = record[i]
    BY <1>1, <1>2, <2>1 DEF ActionOK
  <2>2. CASE record'[i] = GivenUp(record[i])
    BY <1>1, <1>2, <1>3, <1>4, <2>2 DEF ActionOK, DispatchedOnce
  <2>. QED BY <1>2, <2>1, <2>2
<1>6. Moves(i)
  BY <1>1, <1>2, <1>5 DEF Moves
<1>. QED BY <1>6, CallKeeps

\* A read that lets the call go on writes nothing.
LEMMA ProceedKeeps ==
    ASSUME IInv, NEW i \in ActionId, NEW next \in Calls,
           \/ call[i] = "preflight" /\ next = "verifying"
           \/ call[i] = "readback" /\ next = "survivor",
           call' = [call EXCEPT ![i] = next],
           UNCHANGED <<record, busy, lockFile, faults, effect, applied>>, ApproveKeeps
    PROVE  IInv'
<1>1. /\ TypeOK /\ ActionOK(record[i], call[i], effect[i], applied[i])
  BY DEF IInv, ActionsOK
<1>2. /\ call' \in [ActionId -> Calls] /\ call'[i] = next
      /\ \A j \in ActionId \ {i} : call'[j] = call[j]
  BY <1>1 DEF TypeOK
<1>3. ActionOK(record'[i], call'[i], effect'[i], applied'[i])
  BY <1>1, <1>2 DEF ActionOK
<1>4. Moves(i)
  BY <1>1, <1>2, <1>3 DEF Moves, Written, TypeOK
<1>. QED BY <1>4, CallKeeps

LEMMA PreflightKeeps ==
    ASSUME IInv, NEW i \in ActionId, Preflight(i)
    PROVE  IInv'
<1>1. /\ call[i] = "preflight" /\ call[i] # "none" /\ ApproveKeeps
      /\ ActionOK(record[i], call[i], effect[i], applied[i])
  BY DEF Preflight, IInv, ActionsOK
<1>2. CASE GiveUp(i, record[i], 0) /\ UNCHANGED <<effect, applied>>
  BY <1>1, <1>2, GiveUpKeeps DEF ActionOK, IInv, TypeOK
<1>3. CASE /\ call' = [call EXCEPT ![i] = "verifying"]
           /\ UNCHANGED <<record, busy, lockFile, faults, effect, applied>>
  BY <1>1, <1>3, ProceedKeeps DEF Calls
<1>4. CASE Dispatch(i)
  BY <1>1, <1>4, DispatchMoves
<1>. QED BY <1>2, <1>3, <1>4 DEF Preflight

LEMMA VerifyRecommendationKeeps ==
    ASSUME IInv, NEW i \in ActionId, VerifyRecommendation(i)
    PROVE  IInv'
<1>1. /\ call[i] = "verifying" /\ call[i] # "none" /\ ApproveKeeps
      /\ ActionOK(record[i], call[i], effect[i], applied[i])
  BY DEF VerifyRecommendation, IInv, ActionsOK
<1>2. CASE GiveUp(i, record[i], 0) /\ UNCHANGED <<effect, applied>>
  BY <1>1, <1>2, GiveUpKeeps DEF ActionOK, IInv, TypeOK
<1>3. CASE Dispatch(i)
  BY <1>1, <1>3, DispatchMoves
<1>. QED BY <1>2, <1>3 DEF VerifyRecommendation

\* Saving one more entry while the action is executing.
LEMMA EntryKeeps ==
    ASSUME IInv, NEW i \in ActionId, NEW phase \in Phases, phase # "dispatched",
           NEW next \in Calls,
           \/ call[i] = "applying" /\ next = "readback"
           \/ call[i] = "survivor" /\ next = "concluding",
           effect[i] = "done", Save(i, Logged(record[i], phase), next),
           UNCHANGED <<effect, applied>>, ApproveKeeps
    PROVE  IInv'
<1>. DEFINE action == Logged(record[i], phase)
<1>1. /\ TypeOK /\ record[i] \in Action /\ record[i].state = "executing"
      /\ ActionOK(record[i], call[i], effect[i], applied[i])
  BY DEF IInv, TypeOK, ActionsOK, ActionOK
<1>2. /\ action \in Action
      /\ action = [record[i] EXCEPT !.timeline = Append(record[i].timeline, phase)]
      /\ Entries(action, "dispatched") = Entries(record[i], "dispatched")
  BY <1>1, LoggedFile
<1>3. /\ action.state = "executing"
      /\ action.target = record[i].target /\ action.kept = record[i].kept
  BY <1>1, <1>2 DEF Action
<1>. HIDE DEF action
<1>4. Save(i, action, next)
  BY DEF action
<1>5. /\ Written(i)
      /\ \/ record'[i] = action /\ call'[i] = next
         \/ call'[i] = "none" /\ (record'[i] = record[i] \/ record'[i] = GivenUp(action))
  BY <1>1, <1>2, <1>3, <1>4, Saved
<1>6. /\ GivenUp(action) \in Action /\ GivenUp(action).state \in {"failed", "outcome_unknown"}
      /\ GivenUp(action).target = record[i].target
      /\ Entries(GivenUp(action), "dispatched") = Entries(record[i], "dispatched")
  BY <1>2, <1>3, GivenUpFile
<1>7. ActionOK(record'[i], call'[i], effect'[i], applied'[i])
  <2>1. CASE record'[i] = action /\ call'[i] = next
    BY <1>1, <1>2, <1>3, <2>1 DEF ActionOK, DispatchedOnce
  <2>2. CASE call'[i] = "none" /\ record'[i] = record[i]
    BY <1>1, <2>2 DEF ActionOK
  <2>3. CASE call'[i] = "none" /\ record'[i] = GivenUp(action)
    BY <1>1, <1>6, <2>3 DEF ActionOK, DispatchedOnce
  <2>. QED BY <1>5, <2>1, <2>2, <2>3
<1>8. Moves(i)
  BY <1>1, <1>5, <1>7 DEF Moves, TypeOK
<1>. QED BY <1>8, CallKeeps

\* The verdict is saved; when that throws the file may even say "failed".
LEMMA SaveVerifiedKeeps ==
    ASSUME IInv, NEW i \in ActionId, call[i] \in {"readback", "concluding"},
           SaveVerified(i), UNCHANGED <<effect, applied>>, ApproveKeeps
    PROVE  IInv'
<1>. DEFINE action == Moved(record[i], "verified", "verified")
<1>1. /\ TypeOK /\ record[i] \in Action /\ record[i].state = "executing"
      /\ ActionOK(record[i], call[i], effect[i], applied[i]) /\ effect[i] = "done"
  BY DEF IInv, TypeOK, ActionsOK, ActionOK
<1>2. /\ action \in Action /\ action.state = "verified"
      /\ action.target = record[i].target /\ action.kept = record[i].kept
      /\ Entries(action, "dispatched") = Entries(record[i], "dispatched")
  BY <1>1, MovedFile DEF ActionStates, Phases
<1>. HIDE DEF action
<1>3. Save(i, action, "none") /\ "none" \in Calls
  BY DEF SaveVerified, action, Calls
<1>4. /\ Written(i) /\ call'[i] = "none"
      /\ \/ record'[i] = action
         \/ record'[i] = record[i] \/ record'[i] = GivenUp(action)
  BY <1>1, <1>2, <1>3, Saved
<1>5. /\ GivenUp(action) \in Action /\ GivenUp(action).state \in {"failed", "outcome_unknown"}
      /\ GivenUp(action).target = record[i].target
      /\ Entries(GivenUp(action), "dispatched") = Entries(record[i], "dispatched")
  BY <1>2, GivenUpFile
<1>6. ActionOK(record'[i], call'[i], effect'[i], applied'[i])
  <2>1. CASE record'[i] = action
    BY <1>1, <1>2, <1>4, <2>1 DEF ActionOK, DispatchedOnce
  <2>2. CASE record'[i] = record[i]
    BY <1>1, <1>4, <2>2 DEF ActionOK
  <2>3. CASE record'[i] = GivenUp(action)
    BY <1>1, <1>4, <1>5, <2>3 DEF ActionOK, DispatchedOnce
  <2>. QED BY <1>4, <2>1, <2>2, <2>3
<1>7. Moves(i)
  BY <1>1, <1>4, <1>6 DEF Moves, TypeOK
<1>. QED BY <1>1, <1>7, CallKeeps

LEMMA ApplyAnswersKeeps ==
    ASSUME IInv, NEW i \in ActionId, ApplyAnswers(i)
    PROVE  IInv'
<1>1. call[i] = "applying" /\ ApproveKeeps /\ applied' = applied /\ TypeOK
  BY DEF ApplyAnswers, IInv
<1>2. CASE /\ effect[i] = "done" /\ UNCHANGED effect
           /\ Save(i, Logged(record[i], "readback_started"), "readback")
  BY <1>1, <1>2, EntryKeeps DEF Calls, Phases
<1>3. CASE /\ GiveUp(i, record[i], 0)
           /\ effect' = [effect EXCEPT ![i] = IF @ \in Running THEN "dropped" ELSE @]
  <2>1. effect \in [ActionId -> ScriptStates]
    BY <1>1 DEF TypeOK
  <2>2. /\ effect' \in [ActionId -> ScriptStates]
        /\ \A j \in ActionId \ {i} : effect'[j] = effect[j]
        /\ effect'[i] = IF effect[i] \in Running THEN "dropped" ELSE effect[i]
    BY <1>3, <2>1
  <2>. QED BY <1>1, <1>3, <2>2, GiveUpKeeps
<1>. QED BY <1>2, <1>3 DEF ApplyAnswers

LEMMA ReadbackKeeps ==
    ASSUME IInv, NEW i \in ActionId, Readback(i)
    PROVE  IInv'
<1>1. /\ call[i] = "readback" /\ ApproveKeeps /\ UNCHANGED <<effect, applied>> /\ TypeOK
      /\ ActionOK(record[i], call[i], effect[i], applied[i])
  BY DEF Readback, IInv, ActionsOK
<1>2. CASE GiveUp(i, record[i], 0)
  BY <1>1, <1>2, GiveUpKeeps DEF ActionOK, TypeOK
<1>3. CASE /\ call' = [call EXCEPT ![i] = "survivor"]
           /\ UNCHANGED <<record, busy, lockFile, faults>>
  BY <1>1, <1>3, ProceedKeeps DEF Calls
<1>4. CASE SaveVerified(i)
  BY <1>1, <1>4, SaveVerifiedKeeps
<1>. QED BY <1>2, <1>3, <1>4 DEF Readback

LEMMA ReadSurvivorKeeps ==
    ASSUME IInv, NEW i \in ActionId, ReadSurvivor(i)
    PROVE  IInv'
<1>1. /\ call[i] = "survivor" /\ ApproveKeeps /\ UNCHANGED <<effect, applied>> /\ TypeOK
      /\ ActionOK(record[i], call[i], effect[i], applied[i])
  BY DEF ReadSurvivor, IInv, ActionsOK
<1>2. CASE GiveUp(i, record[i], 0)
  BY <1>1, <1>2, GiveUpKeeps DEF ActionOK, TypeOK
<1>3. CASE Save(i, Logged(record[i], "survivor_verified"), "concluding")
  BY <1>1, <1>3, EntryKeeps DEF Calls, InTurn, Phases, ActionOK
<1>. QED BY <1>2, <1>3 DEF ReadSurvivor

LEMMA CallStepKeeps ==
    ASSUME IInv, NEW i \in ActionId, CallStep(i)
    PROVE  IInv'
<1>1. ASSUME Conclude(i) PROVE IInv'
  BY <1>1, SaveVerifiedKeeps DEF Conclude
<1>. QED
  BY <1>1, RecordApprovedKeeps, PreflightKeeps, VerifyRecommendationKeeps,
     ApplyAnswersKeeps, ReadbackKeeps, ReadSurvivorKeeps DEF CallStep

-----------------------------------------------------------------------------
(* Requests, the scheduler, reconcile and the death of the process.         *)

LEMMA ProposeKeeps ==
    ASSUME IInv, NEW i \in ActionId, NEW t \in Target, NEW kept \in Target \cup {NoTarget},
           NEW restoreOf \in ActionId \cup {NoAction}, Propose(i, t, kept, restoreOf)
    PROVE  IInv'
<1>. DEFINE action == [state |-> "awaiting_approval", target |-> t,
                       definition |-> task[t].definition, enabled |-> task[t].enabled,
                       kept |-> kept,
                       keptDefinition |-> IF kept = NoTarget THEN NoDefinition
                                                             ELSE task[kept].definition,
                       restoreOf |-> restoreOf, timeline |-> << "recommended" >>]
<1>1. /\ TypeOK /\ record[i].state = "absent"
      /\ ActionOK(record[i], call[i], effect[i], applied[i])
  BY DEF IInv, ActionsOK, Propose
<1>2. /\ call[i] = "none" /\ effect[i] = "none" /\ applied[i] = 0
  BY <1>1 DEF ActionOK, TypeOK, Calls, InTurn
<1>3. /\ << "recommended" >> \in Seq(Phases) /\ task[t] \in Task
      /\ kept # NoTarget => task[kept] \in Task
  BY <1>1 DEF TypeOK, Phases
<1>4. action \in Action
  BY <1>3 DEF Action, ActionStates, Task
<1>5. Untouched(action) /\ action.state = "awaiting_approval" /\ action.target = t
  <2>1. action.timeline = << "recommended" >>
    OBVIOUS
  <2>2. Len(action.timeline) = 1 /\ action.timeline[1] = "recommended"
    BY <2>1
  <2>. QED BY <2>2 DEF Untouched, Entries
<1>6. record' = [record EXCEPT ![i] = action]
  BY DEF Propose
<1>. HIDE DEF action
<1>7. /\ record' \in [ActionId -> Action] /\ record'[i] = action
      /\ \A j \in ActionId \ {i} : record'[j] = record[j]
  BY <1>1, <1>4, <1>6 DEF TypeOK
<1>8. UNCHANGED <<task, effect, lockFile, busy, call, reading, applied, refused, bounds>>
  BY DEF Propose, scheduler
<1>9. TypeOK'
  BY <1>1, <1>7, <1>8 DEF TypeOK, Propose, bounds
<1>10. ActionsOK'
  BY <1>2, <1>5, <1>7, <1>8 DEF IInv, ActionsOK, ActionOK
<1>11. \A j \in ActionId : /\ Working(j)' = Working(j)
                           /\ Working(j) => record'[j] = record[j]
  BY <1>2, <1>7, <1>8 DEF Working
<1>12. LocksHeld' /\ OneActionPerTarget'
  BY <1>8, <1>11 DEF IInv, LocksHeld, OneActionPerTarget, Locks, Working
<1>13. ReadingOK'
  BY <1>1, <1>7, <1>8 DEF IInv, ReadingOK
<1>. QED BY <1>9, <1>10, <1>12, <1>13 DEF IInv

\* The one step that takes locks takes only free ones.
LEMMA ApprovedKeeps ==
    ASSUME IInv, NEW i \in ActionId, NEW n \in ActionId, Approve(i, n)
    PROVE  IInv'
<1>1. /\ TypeOK /\ record[i].state = "awaiting_approval" /\ record[i] \in Action
      /\ ActionOK(record[i], call[i], effect[i], applied[i])
      /\ UNCHANGED <<task, effect, record, reading, applied, prepared, bounds>>
  BY DEF IInv, TypeOK, ActionsOK, Approve, scheduler
<1>2. effect[i] = "none"
  BY <1>1 DEF ActionOK
<1>3. nonce' \in [ActionId -> {"none", "live", "used"}]
  BY <1>1 DEF TypeOK, Approve
<1>4. CASE n = i /\ ~Locked(Locks(record[i]))
  <2>1. /\ call' = [call EXCEPT ![i] = "locked"] /\ refused' = refused
        /\ busy' = busy \cup Locks(record[i]) /\ lockFile' = lockFile \cup Locks(record[i])
    BY <1>4 DEF Approve
  <2>2. /\ call' \in [ActionId -> Calls] /\ call'[i] = "locked"
        /\ \A j \in ActionId \ {i} : call'[j] = call[j]
    BY <1>1, <2>1 DEF TypeOK, Calls, InTurn
  <2>3. Locks(record[i]) \subseteq Target
    BY <1>1 DEF Locks, Action
  <2>4. TypeOK'
    BY <1>1, <1>3, <2>1, <2>2, <2>3 DEF TypeOK, bounds
  <2>5. ActionsOK'
    BY <1>1, <2>2 DEF IInv, ActionsOK, ActionOK
  <2>6. \A j \in ActionId \ {i} :
          /\ Working(j)' = Working(j)
          /\ Working(j) => Locks(record[j]) \cap Locks(record[i]) = {}
    BY <1>1, <1>4, <2>2 DEF IInv, LocksHeld, Locked, Working
  <2>7. LocksHeld'
    BY <1>1, <2>1, <2>2, <2>6 DEF IInv, LocksHeld
  <2>8. OneActionPerTarget'
    BY <1>1, <2>6 DEF IInv, OneActionPerTarget
  <2>9. ReadingOK'
    BY <1>1, <2>2 DEF IInv, ReadingOK
  <2>. QED BY <2>4, <2>5, <2>7, <2>8, <2>9 DEF IInv
<1>5. CASE ~(n = i /\ ~Locked(Locks(record[i])))
  <2>1. UNCHANGED <<call, busy, lockFile>> /\ refused' \in [ActionId -> BOOLEAN]
    BY <1>1, <1>5 DEF Approve, TypeOK
  <2>. QED
    BY <1>1, <1>3, <2>1 DEF IInv, TypeOK, ActionsOK, LocksHeld, OneActionPerTarget,
       Working, ReadingOK, bounds
<1>. QED BY <1>4, <1>5

LEMMA ExpireKeeps ==
    ASSUME IInv, NEW i \in ActionId, Expire(i)
    PROVE  IInv'
<1>1. /\ nonce' \in [ActionId -> {"none", "live", "used"}]
      /\ UNCHANGED <<scheduler, files, busy, call, reading, history, bounds>>
  BY DEF IInv, TypeOK, Expire
<1>. QED
  BY <1>1 DEF IInv, TypeOK, ActionsOK, LocksHeld, OneActionPerTarget, Working, ReadingOK,
     scheduler, files, history, bounds

\* Scripts go on and the scheduler's tasks change; files, locks and calls do not.
LEMMA ScriptsMove ==
    ASSUME IInv, task' \in [Target -> Task], effect' \in [ActionId -> ScriptStates],
           \A j \in ActionId : effect'[j] = effect[j] \/ effect[j] \in Running,
           changes' \in Nat, UNCHANGED <<files, process, history, faults, crashes>>
    PROVE  IInv'
<1>1. TypeOK'
  BY DEF IInv, TypeOK, files, process, history
<1>2. ActionsOK'
  BY DEF IInv, ActionsOK, ActionOK, files, process, history
<1>3. \A j \in ActionId : Working(j)' => Working(j)
  BY DEF Working, process
<1>4. LocksHeld' /\ OneActionPerTarget'
  BY <1>3 DEF IInv, LocksHeld, OneActionPerTarget, files, process
<1>5. ReadingOK'
  BY DEF IInv, ReadingOK, files, process
<1>. QED BY <1>1, <1>2, <1>4, <1>5 DEF IInv

LEMMA CheckTaskKeeps ==
    ASSUME IInv, NEW i \in ActionId, CheckTask(i)
    PROVE  IInv'
<1>1. /\ effect \in [ActionId -> ScriptStates] /\ effect[i] \in Running
      /\ task \in [Target -> Task] /\ task' = task /\ changes \in Nat
      /\ UNCHANGED <<files, process, history, bounds>>
  BY DEF CheckTask, IInv, TypeOK
<1>2. /\ effect' \in [ActionId -> ScriptStates]
      /\ \A j \in ActionId \ {i} : effect'[j] = effect[j]
  BY <1>1 DEF CheckTask
<1>. QED BY <1>1, <1>2, ScriptsMove DEF bounds

LEMMA TakeEffectKeeps ==
    ASSUME IInv, NEW i \in ActionId, TakeEffect(i)
    PROVE  IInv'
<1>1. /\ TypeOK /\ effect[i] \in Running /\ record[i] \in Action
      /\ UNCHANGED <<files, process, history, bounds>>
  BY DEF IInv, TypeOK, TakeEffect
<1>2. record[i].target \in Target
  BY <1>1 DEF IInv, ActionsOK, ActionOK
<1>3. /\ effect' \in [ActionId -> ScriptStates]
      /\ \A j \in ActionId \ {i} : effect'[j] = effect[j]
  BY <1>1 DEF TypeOK, TakeEffect
<1>4. task' \in [Target -> Task]
  <2>1. Desired(record[i]) \in BOOLEAN /\ task[record[i].target] \in Task
    BY <1>1, <1>2 DEF Desired, TypeOK
  <2>2. [task[record[i].target] EXCEPT !.enabled = Desired(record[i])] \in Task
    BY <2>1 DEF Task
  <2>3. task' = [task EXCEPT ![record[i].target] =
                   [task[record[i].target] EXCEPT !.enabled = Desired(record[i])]]
    BY DEF TakeEffect
  <2>. QED BY <1>1, <1>2, <2>2, <2>3 DEF TypeOK
<1>5. changes' \in Nat
  BY <1>1 DEF TypeOK, bounds
<1>. QED BY <1>1, <1>3, <1>4, <1>5, ScriptsMove DEF bounds

LEMMA ReconcileStartsKeeps ==
    ASSUME IInv, NEW c \in Reader, NEW i \in ActionId, ReconcileStarts(c, i)
    PROVE  IInv'
<1>1. /\ TypeOK /\ record[i] \in Action
      /\ UNCHANGED <<scheduler, files, busy, nonce, call, history, bounds>>
      /\ reading' = [reading EXCEPT ![c] = [id |-> i, file |-> record[i]]]
      /\ record[i].state \in {"executing", "outcome_unknown"}
      /\ DispatchedOnce(record[i]) /\ record[i].target \notin busy
      /\ record[i].target \in Target
  BY DEF IInv, TypeOK, ReconcileStarts, ActionsOK, ActionOK
<1>2. call[i] = "none"
  BY <1>1, GatewaySentinels DEF IInv, LocksHeld, Locks
<1>3. /\ reading'[c] = [id |-> i, file |-> record[i]]
      /\ \A d \in Reader \ {c} : reading'[d] = reading[d]
      /\ reading' \in [Reader -> [id : ActionId \cup {NoAction}, file : Action]]
  BY <1>1 DEF TypeOK
<1>4. TypeOK' /\ ActionsOK' /\ LocksHeld' /\ OneActionPerTarget'
  BY <1>1, <1>3 DEF IInv, TypeOK, ActionsOK, LocksHeld, OneActionPerTarget, Working,
     scheduler, files, history, bounds
<1>5. ReadingOK'
  BY <1>1, <1>2, <1>3 DEF IInv, ReadingOK, files
<1>. QED BY <1>4, <1>5 DEF IInv

LEMMA ReconcileEndsKeeps ==
    ASSUME IInv, NEW c \in Reader, ReconcileEnds(c)
    PROVE  IInv'
<1>. DEFINE i == reading[c].id
            action == Moved(reading[c].file, "outcome_unknown", "reconciled")
<1>1. /\ TypeOK /\ i \in ActionId /\ call[i] = "none" /\ reading[c].file \in Action
      /\ record[i].state \in {"executing", "outcome_unknown"} /\ record[i] \in Action
      /\ DispatchedOnce(reading[c].file)
      /\ reading[c].file.target = record[i].target /\ reading[c].file.kept = record[i].kept
      /\ ActionOK(record[i], call[i], effect[i], applied[i])
      /\ UNCHANGED <<scheduler, lockFile, busy, nonce, call, history, crashes, changes>>
  BY DEF IInv, TypeOK, ReadingOK, ActionsOK, ReconcileEnds
<1>2. /\ action \in Action /\ action.state = "outcome_unknown"
      /\ action.target = record[i].target /\ action.kept = record[i].kept
      /\ DispatchedOnce(action)
  BY <1>1, MovedFile DEF ActionStates, Phases, DispatchedOnce
<1>3. record' = record \/ record' = [record EXCEPT ![i] = action]
  BY DEF ReconcileEnds
<1>4. faults' \in Nat
  BY <1>1 DEF ReconcileEnds, TypeOK
<1>. HIDE DEF action, i
<1>5. /\ record' \in [ActionId -> Action]
      /\ \A j \in ActionId \ {i} : record'[j] = record[j]
      /\ record'[i] = record[i] \/ record'[i] = action
  BY <1>1, <1>2, <1>3 DEF TypeOK
<1>6. /\ reading' \in [Reader -> [id : ActionId \cup {NoAction}, file : Action]]
      /\ reading'[c] = NoReading /\ \A d \in Reader \ {c} : reading'[d] = reading[d]
  <2>1. reading' = [reading EXCEPT ![c] = NoReading]
    BY DEF ReconcileEnds
  <2>2. << >> \in Seq(Phases)
    OBVIOUS
  <2>3. NoReading \in [id : ActionId \cup {NoAction}, file : Action]
    BY <2>2 DEF NoReading, NoFile, Action, ActionStates
  <2>. QED BY <1>1, <2>1, <2>3 DEF TypeOK
<1>7. TypeOK'
  BY <1>1, <1>4, <1>5, <1>6 DEF TypeOK, scheduler, history
<1>8. ActionsOK'
  <2>1. ActionOK(record'[i], call'[i], effect'[i], applied'[i])
    BY <1>1, <1>2, <1>5 DEF ActionOK, scheduler, history
  <2>. QED BY <1>1, <1>5, <2>1 DEF IInv, ActionsOK, scheduler, history
<1>9. \A j \in ActionId : Locks(record'[j]) = Locks(record[j])
  BY <1>1, <1>2, <1>5 DEF Locks
<1>10. LocksHeld' /\ OneActionPerTarget'
  BY <1>1, <1>9 DEF IInv, LocksHeld, OneActionPerTarget, Working, scheduler
<1>11. ReadingOK'
  BY <1>1, <1>2, <1>5, <1>6 DEF IInv, ReadingOK
<1>. QED BY <1>7, <1>8, <1>10, <1>11 DEF IInv

LEMMA ChangeKeeps ==
    ASSUME IInv, NEW t \in Target, Change(t)
    PROVE  IInv'
<1>1. /\ TypeOK /\ changes' \in Nat /\ task' \in [Target -> Task]
      /\ UNCHANGED <<files, process, history, faults, crashes>>
  BY DEF IInv, TypeOK, Change
<1>2. /\ effect' \in [ActionId -> ScriptStates]
      /\ \A j \in ActionId : effect'[j] = effect[j] \/ effect[j] \in Running
  BY <1>1 DEF TypeOK, Change
<1>. QED BY <1>1, <1>2, ScriptsMove

\* What the process knew is gone; who still works has its locks on disk.
LEMMA CrashKeeps ==
    ASSUME IInv, Crash
    PROVE  IInv'
<1>1. /\ TypeOK /\ crashes' \in Nat /\ busy' = {}
      /\ nonce' = [i \in ActionId |-> "none"] /\ call' = [i \in ActionId |-> "none"]
      /\ reading' = [c \in Reader |-> NoReading]
      /\ UNCHANGED <<scheduler, files, history, faults, changes>>
  BY DEF IInv, TypeOK, Crash
<1>2. NoReading \in [id : ActionId \cup {NoAction}, file : Action]
  <2>1. << >> \in Seq(Phases)
    OBVIOUS
  <2>. QED BY <2>1 DEF NoReading, NoFile, Action, ActionStates
<1>3. TypeOK'
  BY <1>1, <1>2 DEF TypeOK, Calls, scheduler, files, history
<1>4. ActionsOK'
  BY <1>1 DEF IInv, ActionsOK, ActionOK, scheduler, files, history
<1>5. \A i \in ActionId : call'[i] = "none" /\ (Working(i)' => Working(i))
  BY <1>1 DEF Working, scheduler
<1>6. LocksHeld' /\ OneActionPerTarget'
  BY <1>1, <1>5 DEF IInv, LocksHeld, OneActionPerTarget, files
<1>7. ReadingOK'
  BY <1>1 DEF ReadingOK
<1>. QED BY <1>3, <1>4, <1>6, <1>7 DEF IInv

LEMMA InitInvariant == Init => IInv
<1>. SUFFICES ASSUME Init PROVE IInv
  OBVIOUS
<1>1. << >> \in Seq(Phases)
  OBVIOUS
<1>2. NoFile \in Action /\ NoFile.state = "absent" /\ Untouched(NoFile)
  BY <1>1 DEF NoFile, Action, ActionStates, Untouched, Entries
<1>3. NoReading \in [id : ActionId \cup {NoAction}, file : Action]
  BY <1>2 DEF NoReading
<1>4. TypeOK
  BY <1>2, <1>3 DEF Init, TypeOK, Calls
<1>5. ActionsOK
  BY <1>2 DEF Init, ActionsOK, ActionOK
<1>6. LocksHeld /\ OneActionPerTarget /\ ReadingOK
  BY DEF Init, LocksHeld, OneActionPerTarget, Working, ReadingOK
<1>. QED BY <1>4, <1>5, <1>6 DEF IInv

LEMMA NextInvariant == IInv /\ [Next]_vars => IInv'
<1>. SUFFICES ASSUME IInv, [Next]_vars PROVE IInv'
  OBVIOUS
<1>1. ASSUME NEW i \in ActionId, Request(i) PROVE IInv'
  <2>1. ASSUME NEW t \in Target, Prepare(i, t) PROVE IInv'
    BY <2>1, ProposeKeeps DEF Prepare
  <2>2. ASSUME NEW t \in Target, NEW kept \in Target, PrepareRecommended(i, t, kept)
        PROVE  IInv'
    BY <2>2, ProposeKeeps DEF PrepareRecommended
  <2>3. ASSUME NEW old \in ActionId, Restore(i, old) PROVE IInv'
    <3>1. record[old].target \in Target
      BY <2>3 DEF Restore, IInv, ActionsOK, ActionOK
    <3>. QED BY <2>3, <3>1, ProposeKeeps DEF Restore
  <2>4. ASSUME NEW n \in ActionId, Approve(i, n) PROVE IInv'
    BY <2>4, ApprovedKeeps
  <2>. QED BY <1>1, <2>1, <2>2, <2>3, <2>4, ExpireKeeps DEF Request
<1>2. ASSUME NEW i \in ActionId, CallStep(i) \/ CheckTask(i) \/ TakeEffect(i) PROVE IInv'
  BY <1>2, CallStepKeeps, CheckTaskKeeps, TakeEffectKeeps
<1>3. ASSUME NEW c \in Reader,
             ReconcileEnds(c) \/ \E i \in ActionId : ReconcileStarts(c, i)
      PROVE  IInv'
  BY <1>3, ReconcileStartsKeeps, ReconcileEndsKeeps
<1>4. ASSUME NEW t \in Target, Change(t) PROVE IInv'
  BY <1>4, ChangeKeeps
<1>5. CASE UNCHANGED vars
  BY <1>5 DEF IInv, TypeOK, ActionsOK, LocksHeld, OneActionPerTarget, Working, ReadingOK,
     vars, scheduler, files, process, history, bounds
<1>. QED BY <1>1, <1>2, <1>3, <1>4, <1>5, CrashKeeps DEF Next

-----------------------------------------------------------------------------
(* The theorems.                                                            *)

\* The inductive invariant holds in every reachable state of the gateway.
THEOREM Invariant == Spec => []IInv
BY InitInvariant, NextInvariant, PTL DEF Spec

\* Type correctness of the gateway, its files and its adapter.
THEOREM TypeCorrect == Spec => []TypeOK
<1>1. IInv => TypeOK
  BY DEF IInv
<1>. QED BY <1>1, Invariant, PTL

\* "Persist before the side effect": no script is started whose dispatch is not on
\* file, and none is started twice, whatever saves fail and processes die.
THEOREM StartedOnceOnFile == Spec => []DispatchedOnceOnFile
<1>1. IInv => DispatchedOnceOnFile
  BY DEF IInv, ActionsOK, ActionOK, DispatchedOnceOnFile
<1>. QED BY <1>1, Invariant, PTL

\* Locks: no two actions, a dead process's script included, work on one target.
THEOREM TargetsExclusive == Spec => []OneActionPerTarget
<1>1. IInv => OneActionPerTarget
  BY DEF IInv
<1>. QED BY <1>1, Invariant, PTL

\* A verified action was executed by the script it started.
THEOREM VerifiedByItsScript == Spec => []VerifiedMeansExecuted
<1>1. IInv => VerifiedMeansExecuted
  BY DEF IInv, ActionsOK, ActionOK, VerifiedMeansExecuted
<1>. QED BY <1>1, Invariant, PTL


-----------------------------------------------------------------------------
(* Approvals: who may start a script, and which file a step may change.     *)

\* An approval belongs to the process that issued it, and serves one request.
ApprovalOK ==
    \A i \in ActionId :
        /\ nonce[i] # "none" \/ call[i] # "none"
             => prepared[i] = crashes /\ record[i].state # "absent"
        /\ nonce[i] = "live" \/ refused[i] => call[i] = "none" /\ applied[i] = 0
        /\ refused[i] => nonce[i] # "live" /\ record[i].state # "absent"

\* What a step of the call of i writes: its own file, never back to "absent".
OwnFileOnly(i) ==
    /\ \A j \in ActionId \ {i} : record'[j] = record[j] /\ call'[j] = call[j]
    /\ record'[i].state = record[i].state \/ record'[i].state # "absent"

LEMMA GiveUpWrites ==
    ASSUME TypeOK, NEW i \in ActionId, NEW action \in Action, NEW failed,
           GiveUp(i, action, failed)
    PROVE  OwnFileOnly(i)
<1>1. record' = record \/ record' = [record EXCEPT ![i] = GivenUp(action)]
  BY DEF GiveUp
<1>2. GivenUp(action).state # "absent"
  BY GivenUpFile
<1>3. call' = [call EXCEPT ![i] = "none"]
  BY DEF GiveUp, Leave
<1>. QED BY <1>1, <1>2, <1>3 DEF OwnFileOnly, TypeOK

LEMMA SaveWrites ==
    ASSUME TypeOK, NEW i \in ActionId, NEW action \in Action, action.state # "absent",
           NEW next, Save(i, action, next)
    PROVE  OwnFileOnly(i)
<1>1. CASE GiveUp(i, action, 1)
  BY <1>1, GiveUpWrites
<1>2. CASE /\ record' = [record EXCEPT ![i] = action]
           /\ IF next = "none" THEN Leave(i)
                               ELSE /\ call' = [call EXCEPT ![i] = next]
                                    /\ UNCHANGED <<busy, lockFile>>
  <2>1. call' = [call EXCEPT ![i] = "none"] \/ call' = [call EXCEPT ![i] = next]
    BY <1>2 DEF Leave
  <2>. QED BY <1>2, <2>1 DEF OwnFileOnly, TypeOK
<1>. QED BY <1>1, <1>2 DEF Save

LEMMA CallStepWrites ==
    ASSUME IInv, NEW i \in ActionId, CallStep(i)
    PROVE  /\ OwnFileOnly(i) /\ call[i] # "none" /\ ApproveKeeps
           /\ record[i].state \in {"awaiting_approval", "approved", "executing"}
           /\ \A j \in ActionId \ {i} : applied'[j] = applied[j]
<1>1. TypeOK /\ record[i] \in Action
  BY DEF IInv, TypeOK
<1>2. /\ call[i] # "none" /\ ApproveKeeps
      /\ call[i] \in {"locked", "preflight", "verifying", "applying", "readback",
                      "survivor", "concluding"}
  BY DEF CallStep, RecordApproved, Preflight, VerifyRecommendation, ApplyAnswers, Readback,
     ReadSurvivor, Conclude
<1>3. record[i].state \in {"awaiting_approval", "approved", "executing"}
  BY <1>2 DEF IInv, ActionsOK, ActionOK
<1>4. \A j \in ActionId \ {i} : applied'[j] = applied[j]
  BY <1>1 DEF TypeOK, CallStep, RecordApproved, Preflight, VerifyRecommendation,
     ApplyAnswers, Readback, ReadSurvivor, Conclude, Dispatch
<1>5. ASSUME NEW phase \in Phases
      PROVE  Logged(record[i], phase) \in Action /\ Logged(record[i], phase).state # "absent"
  <2>1. /\ Logged(record[i], phase) \in Action
        /\ Logged(record[i], phase)
             = [record[i] EXCEPT !.timeline = Append(record[i].timeline, phase)]
    BY <1>1, LoggedFile
  <2>. QED BY <1>1, <1>3, <2>1 DEF Action
<1>6. ASSUME NEW state \in ActionStates \ {"absent"}, NEW phase \in Phases
      PROVE  /\ Moved(record[i], state, phase) \in Action
             /\ Moved(record[i], state, phase).state # "absent"
  BY <1>1, MovedFile
<1>7. OwnFileOnly(i)
  <2>1. CASE RecordApproved(i)
    BY <1>1, <1>6, <2>1, SaveWrites DEF RecordApproved, ActionStates, Phases
  <2>2. ASSUME Dispatch(i) PROVE OwnFileOnly(i)
    BY <1>1, <1>6, <2>2, SaveWrites DEF Dispatch, ActionStates, Phases
  <2>3. ASSUME GiveUp(i, record[i], 0) PROVE OwnFileOnly(i)
    BY <1>1, <2>3, GiveUpWrites
  <2>4. ASSUME NEW next, call' = [call EXCEPT ![i] = next], record' = record
        PROVE  OwnFileOnly(i)
    BY <1>1, <2>4 DEF OwnFileOnly, TypeOK
  <2>5. ASSUME SaveVerified(i) PROVE OwnFileOnly(i)
    BY <1>1, <1>6, <2>5, SaveWrites DEF SaveVerified, ActionStates, Phases
  <2>6. CASE Preflight(i)
    BY <2>2, <2>3, <2>4, <2>6 DEF Preflight
  <2>7. CASE VerifyRecommendation(i)
    BY <2>2, <2>3, <2>7 DEF VerifyRecommendation
  <2>8. CASE ApplyAnswers(i)
    BY <1>1, <1>5, <2>3, <2>8, SaveWrites DEF ApplyAnswers, Phases
  <2>9. CASE Readback(i)
    BY <2>3, <2>4, <2>5, <2>9 DEF Readback
  <2>10. CASE ReadSurvivor(i)
    BY <1>1, <1>5, <2>3, <2>10, SaveWrites DEF ReadSurvivor, Phases
  <2>11. CASE Conclude(i)
    BY <2>5, <2>11 DEF Conclude
  <2>. QED BY <2>1, <2>6, <2>7, <2>8, <2>9, <2>10, <2>11 DEF CallStep
<1>. QED BY <1>2, <1>3, <1>4, <1>7

LEMMA ApprovalInit == Init => ApprovalOK
BY DEF Init, ApprovalOK

LEMMA ApprovalNext == IInv /\ ApprovalOK /\ [Next]_vars => ApprovalOK'
<1>. SUFFICES ASSUME IInv, ApprovalOK, [Next]_vars PROVE ApprovalOK'
  OBVIOUS
<1>. USE DEF ApprovalOK
<1>1. TypeOK
  BY DEF IInv
<1>2. ASSUME NEW i \in ActionId, NEW t, NEW kept, NEW restoreOf, Propose(i, t, kept, restoreOf)
      PROVE  ApprovalOK'
  <2>1. /\ record[i].state = "absent" /\ crashes' = crashes
        /\ UNCHANGED <<call, applied, refused>>
        /\ nonce'[i] = "live" /\ prepared'[i] = crashes
        /\ \A j \in ActionId \ {i} : nonce'[j] = nonce[j] /\ prepared'[j] = prepared[j]
                                     /\ record'[j] = record[j]
        /\ record'[i].state # "absent"
    BY <1>1, <1>2 DEF Propose, TypeOK, bounds
  <2>2. call[i] = "none" /\ applied[i] = 0 /\ ~refused[i]
    BY <2>1 DEF IInv, ActionsOK, ActionOK
  <2>. QED BY <2>1, <2>2
<1>3. ASSUME NEW i \in ActionId, Request(i) PROVE ApprovalOK'
  <2>1. ASSUME NEW n \in ActionId, Approve(i, n) PROVE ApprovalOK'
    <3>1. /\ nonce[i] # "none" /\ nonce[n] = "live" /\ nonce'[n] = "used"
          /\ \A j \in ActionId \ {n} : nonce'[j] = nonce[j]
          /\ UNCHANGED <<record, applied, prepared, crashes>>
      BY <1>1, <2>1 DEF Approve, TypeOK, bounds
    <3>2. \/ /\ n = i /\ refused' = refused
             /\ \A j \in ActionId \ {i} : call'[j] = call[j]
          \/ call' = call /\ \A j \in ActionId : refused'[j] => j = n \/ refused[j]
      BY <1>1, <2>1 DEF Approve, TypeOK
    <3>. QED BY <3>1, <3>2
  <2>2. CASE Expire(i)
    <3>1. /\ UNCHANGED <<record, call, applied, refused, prepared, crashes>>
          /\ \A j \in ActionId : nonce'[j] \in {nonce[j], "none"}
      BY <1>1, <2>2 DEF Expire, TypeOK, files, history, bounds
    <3>. QED BY <3>1
  <2>. QED
    BY <1>2, <1>3, <2>1, <2>2 DEF Request, Prepare, PrepareRecommended, Restore
<1>4. ASSUME NEW i \in ActionId, CallStep(i) PROVE ApprovalOK'
  <2>1. /\ OwnFileOnly(i) /\ call[i] # "none"
        /\ UNCHANGED <<nonce, refused, prepared, crashes>>
        /\ \A j \in ActionId \ {i} : applied'[j] = applied[j]
    BY <1>4, CallStepWrites DEF ApproveKeeps
  <2>. QED BY <2>1 DEF OwnFileOnly
<1>5. ASSUME NEW i \in ActionId, CheckTask(i) \/ TakeEffect(i) PROVE ApprovalOK'
  BY <1>5 DEF CheckTask, TakeEffect, files, process, history, bounds
<1>6. ASSUME NEW c \in Reader, NEW i \in ActionId, ReconcileStarts(c, i) PROVE ApprovalOK'
  BY <1>6 DEF ReconcileStarts, files, history, bounds
<1>7. ASSUME NEW c \in Reader, ReconcileEnds(c) PROVE ApprovalOK'
  <2>. DEFINE action == Moved(reading[c].file, "outcome_unknown", "reconciled")
  <2>1. reading[c].file \in Action
    BY <1>1, <1>7 DEF TypeOK
  <2>2. action.state = "outcome_unknown"
    BY <2>1, MovedFile DEF ActionStates, Phases
  <2>3. record' = record \/ record' = [record EXCEPT ![reading[c].id] = action]
    BY <1>7 DEF ReconcileEnds
  <2>. HIDE DEF action
  <2>4. \A j \in ActionId : record'[j] = record[j] \/ record'[j].state # "absent"
    BY <1>1, <2>2, <2>3 DEF TypeOK
  <2>5. UNCHANGED <<nonce, call, applied, refused, prepared, crashes>>
    BY <1>7 DEF ReconcileEnds, history
  <2>. QED BY <2>4, <2>5
<1>8. ASSUME NEW t \in Target, Change(t) PROVE ApprovalOK'
  BY <1>8 DEF Change, files, process, history
<1>9. CASE Crash
  <2>1. /\ \A i \in ActionId : nonce'[i] = "none" /\ call'[i] = "none"
        /\ UNCHANGED <<record, applied, refused>>
    BY <1>9 DEF Crash, files, history
  <2>. QED BY <2>1
<1>10. CASE UNCHANGED vars
  BY <1>10 DEF vars, files, process, history, bounds
<1>. QED BY <1>3, <1>4, <1>5, <1>6, <1>7, <1>8, <1>9, <1>10 DEF Next

\* An approval spent on a refused request never starts a script.
THEOREM RefusedIsSpentForever == Spec => []RefusedIsSpent
<1>1. IInv /\ ApprovalOK => RefusedIsSpent
  BY DEF ApprovalOK, RefusedIsSpent
<1>2. Spec => []ApprovalOK
  BY Invariant, ApprovalInit, ApprovalNext, PTL DEF Spec
<1>. QED BY <1>1, <1>2, Invariant, PTL

\* "Restart invalidates outstanding authority": a script is started only by the
\* process that prepared its action.
THEOREM RestartEndsAuthority == Spec => ApprovalDiesWithProcess
<1>1. IInv /\ ApprovalOK /\ [Next]_vars =>
        [\A i \in ActionId : applied'[i] # applied[i] => prepared[i] = crashes]_vars
  <2>. SUFFICES ASSUME IInv, ApprovalOK, Next, NEW i \in ActionId, applied'[i] # applied[i]
                PROVE  prepared[i] = crashes
    OBVIOUS
  <2>1. PICK j \in ActionId : CallStep(j)
    BY DEF Next, Request, Prepare, PrepareRecommended, Restore, Propose, Approve, Expire,
       CheckTask, TakeEffect, ReconcileEnds, ReconcileStarts, Change, Crash, history
  <2>2. i = j /\ call[j] # "none"
    BY <2>1, CallStepWrites
  <2>. QED BY <2>2 DEF ApprovalOK
<1>2. Spec => []ApprovalOK
  BY Invariant, ApprovalInit, ApprovalNext, PTL DEF Spec
<1>. QED BY <1>1, <1>2, Invariant, PTL DEF Spec, ApprovalDiesWithProcess

\* An outcome on file is final: whoever may still write the file keeps its state.
THEOREM OutcomesAreFinal == Spec => OutcomeIsFinal
<1>1. IInv /\ [Next]_vars =>
        [\A i \in ActionId :
            record[i].state \in {"verified", "failed", "outcome_unknown"}
                => record'[i].state = record[i].state]_vars
  <2>. SUFFICES ASSUME IInv, Next, NEW i \in ActionId,
                       record[i].state \in {"verified", "failed", "outcome_unknown"}
                PROVE  record'[i].state = record[i].state
    OBVIOUS
  <2>1. CASE \E j \in ActionId : CallStep(j)
    <3>1. PICK j \in ActionId : CallStep(j)
      BY <2>1
    <3>2. OwnFileOnly(j) /\ i # j
      BY <3>1, CallStepWrites
    <3>. QED BY <3>2 DEF OwnFileOnly
  <2>2. CASE \E c \in Reader : ReconcileEnds(c)
    <3>1. PICK c \in Reader : ReconcileEnds(c)
      BY <2>2
    <3>. DEFINE action == Moved(reading[c].file, "outcome_unknown", "reconciled")
    <3>2. /\ reading[c].file \in Action
          /\ record[reading[c].id].state \in {"executing", "outcome_unknown"}
      BY <3>1 DEF IInv, TypeOK, ReadingOK, ReconcileEnds
    <3>3. action.state = "outcome_unknown"
      BY <3>2, MovedFile DEF ActionStates, Phases
    <3>4. record' = record \/ record' = [record EXCEPT ![reading[c].id] = action]
      BY <3>1 DEF ReconcileEnds
    <3>. HIDE DEF action
    <3>. QED BY <3>2, <3>3, <3>4 DEF IInv, TypeOK
  <2>3. CASE \E j \in ActionId : \E t, kept, restoreOf : Propose(j, t, kept, restoreOf)
    BY <2>3 DEF Propose, IInv, TypeOK
  <2>4. CASE UNCHANGED record
    BY <2>4
  <2>. QED
    BY <2>1, <2>2, <2>3, <2>4 DEF Next, Request, Prepare, PrepareRecommended, Restore,
       Approve, Expire, CheckTask, TakeEffect, ReconcileStarts, Change, Crash, files
<1>. QED BY <1>1, Invariant, PTL DEF Spec, OutcomeIsFinal

-----------------------------------------------------------------------------
(* What an action is sealed with stays, and what rests on it: restores and  *)
(* the task a recommendation counts on.                                     *)

\* What the proposal and its approval are about.
Sealed(action) ==
    [target |-> action.target, definition |-> action.definition,
     enabled |-> action.enabled, kept |-> action.kept,
     keptDefinition |-> action.keptDefinition, restoreOf |-> action.restoreOf]

\* A reconcile's copy is of the same sealed action as the file.
CopiesOK ==
    \A c \in Reader :
        reading[c] # NoReading => Sealed(reading[c].file) = Sealed(record[reading[c].id])

\* A proposal to restore is on file and names a verified action it would undo.
RestoresOK ==
    \A i \in ActionId : record[i].restoreOf # NoAction =>
        /\ record[i].restoreOf \in ActionId
        /\ record[i].state # "absent"
        /\ LET old == record[record[i].restoreOf]
           IN  /\ old.state = "verified"
               /\ record[i].target = old.target
               /\ record[i].definition = old.definition
               /\ Desired(record[i]) = old.enabled

\* While only the gateway changes tasks, a script that has yet to act still finds
\* the task its recommendation counts on enabled.
KeptRuns ==
    \A i \in ActionId :
        changes = 0 /\ effect[i] \in Running /\ record[i].kept # NoTarget
            => task[record[i].kept].enabled

SealInv == CopiesOK /\ RestoresOK /\ KeptRuns /\ CheckStillHolds

\* New entries and states leave the seal alone.
LEMMA SealedLogged ==
    ASSUME NEW action \in Action, NEW phase \in Phases
    PROVE  Sealed(Logged(action, phase)) = Sealed(action)
BY LoggedFile DEF Sealed, Action

LEMMA SealedMoved ==
    ASSUME NEW action \in Action, NEW state \in ActionStates, NEW phase \in Phases
    PROVE  Sealed(Moved(action, state, phase)) = Sealed(action)
<1>. DEFINE moved == [action EXCEPT !.state = state]
<1>1. moved \in Action /\ Sealed(moved) = Sealed(action)
  BY DEF Sealed, Action
<1>. HIDE DEF moved
<1>2. Sealed(Logged(moved, phase)) = Sealed(moved)
  BY <1>1, SealedLogged
<1>. QED BY <1>1, <1>2 DEF Moved, moved

LEMMA SealedGivenUp ==
    ASSUME NEW action \in Action
    PROVE  Sealed(GivenUp(action)) = Sealed(action)
BY SealedMoved DEF GivenUp, ActionStates, Phases

LEMMA GiveUpSeals ==
    ASSUME TypeOK, NEW i \in ActionId, NEW action \in Action, NEW failed,
           Sealed(action) = Sealed(record[i]), GiveUp(i, action, failed)
    PROVE  \A j \in ActionId : Sealed(record'[j]) = Sealed(record[j])
<1>1. record' = record \/ record' = [record EXCEPT ![i] = GivenUp(action)]
  BY DEF GiveUp
<1>2. Sealed(GivenUp(action)) = Sealed(record[i])
  BY SealedGivenUp
<1>. QED BY <1>1, <1>2 DEF TypeOK

LEMMA SaveSeals ==
    ASSUME TypeOK, NEW i \in ActionId, NEW action \in Action, NEW next,
           Sealed(action) = Sealed(record[i]), Save(i, action, next)
    PROVE  \A j \in ActionId : Sealed(record'[j]) = Sealed(record[j])
<1>1. CASE GiveUp(i, action, 1)
  BY <1>1, GiveUpSeals
<1>2. CASE record' = [record EXCEPT ![i] = action]
  BY <1>2 DEF TypeOK
<1>. QED BY <1>1, <1>2 DEF Save

LEMMA CallStepSeals ==
    ASSUME IInv, NEW i \in ActionId, CallStep(i)
    PROVE  \A j \in ActionId : Sealed(record'[j]) = Sealed(record[j])
<1>. DEFINE Kept == \A j \in ActionId : Sealed(record'[j]) = Sealed(record[j])
<1>. SUFFICES Kept
  OBVIOUS
<1>1. TypeOK /\ record[i] \in Action
  BY DEF IInv, TypeOK
<1>2. ASSUME NEW phase \in Phases, NEW next, Save(i, Logged(record[i], phase), next)
      PROVE  Kept
  BY <1>1, <1>2, LoggedFile, SealedLogged, SaveSeals
<1>3. ASSUME NEW state \in ActionStates, NEW phase \in Phases, NEW next,
             Save(i, Moved(record[i], state, phase), next)
      PROVE  Kept
  BY <1>1, <1>3, MovedFile, SealedMoved, SaveSeals
<1>4. ASSUME GiveUp(i, record[i], 0) PROVE Kept
  BY <1>1, <1>4, GiveUpSeals
<1>5. ASSUME record' = record PROVE Kept
  BY <1>5
<1>. HIDE DEF Kept
<1>6. /\ {"readback_started", "survivor_verified", "verified", "approved", "dispatched"}
           \subseteq Phases
      /\ {"verified", "approved", "executing"} \subseteq ActionStates
  BY DEF Phases, ActionStates
<1>7. Dispatch(i) => Kept
  BY <1>3, <1>6 DEF Dispatch
<1>8. SaveVerified(i) => Kept
  BY <1>3, <1>6 DEF SaveVerified
<1>9. RecordApproved(i) => Kept
  BY <1>3, <1>6 DEF RecordApproved
<1>10. Preflight(i) \/ VerifyRecommendation(i) => Kept
  BY <1>4, <1>5, <1>7 DEF Preflight, VerifyRecommendation
<1>11. ApplyAnswers(i) \/ ReadSurvivor(i) => Kept
  BY <1>2, <1>4, <1>6 DEF ApplyAnswers, ReadSurvivor
<1>12. Readback(i) \/ Conclude(i) => Kept
  BY <1>4, <1>5, <1>8 DEF Readback, Conclude
<1>. QED BY <1>9, <1>10, <1>11, <1>12 DEF CallStep

\* Only a proposal puts something new on file: every other step leaves each seal,
\* a verified action, and the fact that a file is there.
FilesStay ==
    \A j \in ActionId :
        /\ Sealed(record'[j]) = Sealed(record[j])
        /\ record[j].state = "verified" => record'[j].state = "verified"
        /\ record[j].state # "absent" => record'[j].state # "absent"

Proposes(i) ==
    \/ \E t \in Target : Prepare(i, t)
    \/ \E t, kept \in Target : PrepareRecommended(i, t, kept)
    \/ \E old \in ActionId : Restore(i, old)

LEMMA StepsKeepFiles ==
    ASSUME IInv, CopiesOK, Next
    PROVE  (\E i \in ActionId : Proposes(i)) \/ FilesStay
<1>0. CASE \E i \in ActionId : Proposes(i)
  BY <1>0
<1>1. CASE \E i \in ActionId : CallStep(i)
  <2>1. PICK i \in ActionId : CallStep(i)
    BY <1>1
  <2>2. /\ OwnFileOnly(i)
        /\ record[i].state \in {"awaiting_approval", "approved", "executing"}
        /\ \A j \in ActionId : Sealed(record'[j]) = Sealed(record[j])
    BY <2>1, CallStepWrites, CallStepSeals
  <2>. QED BY <2>2 DEF OwnFileOnly, FilesStay
<1>2. CASE \E c \in Reader : ReconcileEnds(c)
  <2>1. PICK c \in Reader : ReconcileEnds(c)
    BY <1>2
  <2>. DEFINE action == Moved(reading[c].file, "outcome_unknown", "reconciled")
  <2>2. /\ reading[c].file \in Action /\ record \in [ActionId -> Action]
        /\ record[reading[c].id].state \in {"executing", "outcome_unknown"}
        /\ Sealed(reading[c].file) = Sealed(record[reading[c].id])
    BY <2>1 DEF IInv, TypeOK, ReadingOK, ReconcileEnds, CopiesOK
  <2>3. action.state = "outcome_unknown" /\ Sealed(action) = Sealed(reading[c].file)
    BY <2>2, MovedFile, SealedMoved DEF ActionStates, Phases
  <2>4. record' = record \/ record' = [record EXCEPT ![reading[c].id] = action]
    BY <2>1 DEF ReconcileEnds
  <2>. HIDE DEF action
  <2>. QED BY <2>2, <2>3, <2>4 DEF FilesStay
<1>3. CASE UNCHANGED record
  BY <1>3 DEF FilesStay
<1>. QED
  BY <1>0, <1>1, <1>2, <1>3 DEF Next, Request, Proposes, Approve, Expire, CheckTask,
     TakeEffect, ReconcileStarts, Change, Crash, files

\* What a proposal writes.
LEMMA ProposeWrites ==
    ASSUME TypeOK, NEW i \in ActionId, NEW t \in Target, NEW kept, NEW restoreOf,
           Propose(i, t, kept, restoreOf)
    PROVE  /\ record[i].state = "absent" /\ record'[i].state = "awaiting_approval"
           /\ record'[i].target = t /\ record'[i].restoreOf = restoreOf
           /\ record'[i].definition = task[t].definition
           /\ record'[i].enabled = task[t].enabled
           /\ \A j \in ActionId \ {i} : record'[j] = record[j]
           /\ UNCHANGED <<task, effect, reading, changes>>
BY DEF TypeOK, Propose, scheduler, bounds

\* ... and what may be proposed: an action to restore is a verified one, as it is.
LEMMA ProposesWrites ==
    ASSUME IInv, NEW i \in ActionId, Proposes(i)
    PROVE  /\ record[i].state = "absent" /\ record'[i].state = "awaiting_approval"
           /\ \A j \in ActionId \ {i} : record'[j] = record[j]
           /\ UNCHANGED <<task, effect, reading, changes>>
           /\ record'[i].restoreOf # NoAction =>
                 LET old == record'[i].restoreOf
                 IN  /\ old \in ActionId /\ record[old].state = "verified"
                     /\ record'[i].target = record[old].target
                     /\ record'[i].definition = record[old].definition
                     /\ Desired(record'[i]) = record[old].enabled
<1>. DEFINE Wrote(restoreOf) ==
              /\ record[i].state = "absent" /\ record'[i].state = "awaiting_approval"
              /\ \A j \in ActionId \ {i} : record'[j] = record[j]
              /\ UNCHANGED <<task, effect, reading, changes>>
              /\ record'[i].restoreOf = restoreOf
<1>1. TypeOK
  BY DEF IInv
<1>2. ASSUME NEW t \in Target, NEW kept, NEW restoreOf, Propose(i, t, kept, restoreOf)
      PROVE  Wrote(restoreOf)
  BY <1>1, <1>2, ProposeWrites
<1>3. CASE \E t \in Target : Prepare(i, t)
  BY <1>2, <1>3 DEF Prepare
<1>4. CASE \E t, kept \in Target : PrepareRecommended(i, t, kept)
  BY <1>2, <1>4 DEF PrepareRecommended
<1>5. ASSUME NEW old \in ActionId, Restore(i, old)
      PROVE  /\ Wrote(old) /\ record[old].state = "verified"
             /\ record'[i].target = record[old].target
             /\ record'[i].definition = record[old].definition
             /\ Desired(record'[i]) = record[old].enabled
  <2>1. /\ record[old].state = "verified" /\ record[old].target \in Target
        /\ task[record[old].target].definition = record[old].definition
        /\ task[record[old].target].enabled = Desired(record[old])
        /\ Propose(i, record[old].target, NoTarget, old)
    BY <1>5 DEF Restore, IInv, ActionsOK, ActionOK
  <2>2. /\ record'[i].target = record[old].target
        /\ record'[i].definition = task[record[old].target].definition
        /\ record'[i].enabled = task[record[old].target].enabled
    BY <1>1, <2>1, ProposeWrites
  <2>3. record[old].enabled \in BOOLEAN
    BY <1>1 DEF TypeOK, Action
  <2>. QED BY <1>2, <2>1, <2>2, <2>3 DEF Desired
<1>. QED BY <1>3, <1>4, <1>5 DEF Proposes

LEMMA CopiesNext == IInv /\ CopiesOK /\ [Next]_vars => CopiesOK'
<1>. SUFFICES ASSUME IInv, CopiesOK, [Next]_vars, NEW c \in Reader, reading'[c] # NoReading
              PROVE  Sealed(reading'[c].file) = Sealed(record'[reading'[c].id])
  BY DEF CopiesOK
<1>1. ASSUME NEW i \in ActionId, Proposes(i)
      PROVE  Sealed(reading'[c].file) = Sealed(record'[reading'[c].id])
  <2>1. /\ reading' = reading /\ record[i].state = "absent"
        /\ \A j \in ActionId \ {i} : record'[j] = record[j]
    BY <1>1, ProposesWrites
  <2>. QED BY <2>1 DEF IInv, ReadingOK, CopiesOK
<1>2. CASE \E i \in ActionId : \E d \in Reader : ReconcileStarts(d, i)
  BY <1>2 DEF ReconcileStarts, IInv, TypeOK, CopiesOK, files
<1>3. CASE UNCHANGED vars
  BY <1>3 DEF vars, files, process, CopiesOK
<1>4. ASSUME FilesStay, reading'[c] = reading[c]
      PROVE  Sealed(reading'[c].file) = Sealed(record'[reading'[c].id])
  <2>1. reading[c].id \in ActionId
    BY <1>4 DEF IInv, ReadingOK
  <2>. QED BY <1>4, <2>1 DEF FilesStay, CopiesOK
<1>5. ASSUME Next, ~ \E i \in ActionId : Proposes(i),
             ~ \E i \in ActionId : \E d \in Reader : ReconcileStarts(d, i)
      PROVE  reading'[c] = reading[c]
  <2>1. \A i \in ActionId : CallStep(i) => UNCHANGED reading
    BY CallStepWrites DEF ApproveKeeps
  <2>2. reading \in [Reader -> [id : ActionId \cup {NoAction}, file : Action]]
    BY DEF IInv, TypeOK
  <2>3. ASSUME NEW d \in Reader, ReconcileEnds(d) PROVE reading'[c] = reading[c]
    BY <2>2, <2>3 DEF ReconcileEnds
  <2>4. Crash => reading'[c] = NoReading
    BY DEF Crash
  <2>. QED
    BY <1>5, <2>1, <2>3, <2>4 DEF Next, Request, Proposes, Approve, Expire, CheckTask,
       TakeEffect, Change, process
<1>. QED BY <1>1, <1>2, <1>3, <1>4, <1>5, StepsKeepFiles

LEMMA RestoresNext == IInv /\ CopiesOK /\ RestoresOK /\ [Next]_vars => RestoresOK'
<1>. SUFFICES ASSUME IInv, CopiesOK, RestoresOK, [Next]_vars PROVE RestoresOK'
  OBVIOUS
\* The action a proposal would restore is verified, so the new file is not its file.
<1>1. ASSUME NEW i \in ActionId, Proposes(i) PROVE RestoresOK'
  <2>. SUFFICES ASSUME NEW j \in ActionId, record'[j].restoreOf # NoAction,
                       NEW old, old = record'[j].restoreOf
                PROVE  /\ old \in ActionId /\ record'[j].state # "absent"
                       /\ record'[old].state = "verified"
                       /\ record'[j].target = record'[old].target
                       /\ record'[j].definition = record'[old].definition
                       /\ Desired(record'[j]) = record'[old].enabled
    BY DEF RestoresOK, Desired
  <2>1. /\ record[i].state = "absent" /\ record'[i].state = "awaiting_approval"
        /\ \A k \in ActionId \ {i} : record'[k] = record[k]
    BY <1>1, ProposesWrites
  <2>2. CASE j = i
    <3>1. /\ old \in ActionId /\ record[old].state = "verified"
          /\ record'[i].target = record[old].target
          /\ record'[i].definition = record[old].definition
          /\ Desired(record'[i]) = record[old].enabled
      BY <1>1, <2>2, ProposesWrites
    <3>. QED BY <2>1, <2>2, <3>1
  <2>3. CASE j # i
    <3>1. record'[j] = record[j] /\ old \in ActionId /\ record[old].state = "verified"
      BY <2>1, <2>3 DEF RestoresOK
    <3>2. record'[old] = record[old] /\ Desired(record'[j]) = Desired(record[j])
      BY <2>1, <3>1
    <3>. QED BY <3>1, <3>2 DEF RestoresOK
  <2>. QED BY <2>2, <2>3
<1>2. ASSUME FilesStay PROVE RestoresOK'
  <2>1. \A j \in ActionId : /\ record'[j].target = record[j].target
                            /\ record'[j].definition = record[j].definition
                            /\ record'[j].enabled = record[j].enabled
                            /\ record'[j].restoreOf = record[j].restoreOf
    BY <1>2 DEF FilesStay, Sealed
  <2>. QED BY <1>2, <2>1 DEF FilesStay, RestoresOK, Desired
<1>3. CASE UNCHANGED vars
  BY <1>3 DEF vars, files, RestoresOK, Desired
<1>. QED BY <1>1, <1>2, <1>3, StepsKeepFiles

\* A call starts a script only after it has seen the task the recommendation keeps
\* enabled, and touches no other script.
LEMMA CallStepStarts ==
    ASSUME IInv, NEW i \in ActionId, CallStep(i)
    PROVE  /\ \A j \in ActionId \ {i} : effect'[j] = effect[j]
           /\ effect'[i] = "checked" => effect[i] = "checked"
           /\ effect'[i] \in Running =>
                 \/ effect[i] \in Running \/ record[i].kept = NoTarget
                 \/ task[record[i].kept].enabled
<1>1. effect \in [ActionId -> ScriptStates]
  BY DEF IInv, TypeOK
<1>2. CASE \/ RecordApproved(i) \/ ApplyAnswers(i)
           \/ Readback(i) \/ ReadSurvivor(i) \/ Conclude(i)
  BY <1>1, <1>2 DEF RecordApproved, ApplyAnswers, Readback, ReadSurvivor, Conclude
<1>3. CASE Preflight(i)
  BY <1>1, <1>3 DEF Preflight, Dispatch
<1>4. CASE VerifyRecommendation(i)
  BY <1>1, <1>4 DEF VerifyRecommendation, Dispatch, RecommendationHolds, Recommends
<1>. QED BY <1>2, <1>3, <1>4 DEF CallStep

\* Who holds the kept task is alone on it, so no script of the gateway disables it.
LEMMA KeptRunsNext == IInv /\ CopiesOK /\ KeptRuns /\ [Next]_vars => KeptRuns'
<1>. SUFFICES ASSUME IInv, CopiesOK, KeptRuns, [Next]_vars, NEW j \in ActionId,
                     changes' = 0, effect'[j] \in Running, record'[j].kept # NoTarget
              PROVE  task'[record'[j].kept].enabled
  BY DEF KeptRuns
<1>1. CASE \E i \in ActionId : Proposes(i)
  <2>1. PICK i \in ActionId : Proposes(i)
    BY <1>1
  <2>2. /\ record[i].state = "absent" /\ UNCHANGED <<task, effect, changes>>
        /\ \A k \in ActionId \ {i} : record'[k] = record[k]
    BY <2>1, ProposesWrites
  <2>3. effect[i] = "none"
    BY <2>2 DEF IInv, ActionsOK, ActionOK
  <2>. QED BY <2>2, <2>3 DEF KeptRuns
<1>2. ASSUME FilesStay PROVE record'[j].kept = record[j].kept
  BY <1>2 DEF FilesStay, Sealed
<1>3. CASE \E i \in ActionId : CallStep(i)
  <2>1. PICK i \in ActionId : CallStep(i)
    BY <1>3
  <2>2. /\ UNCHANGED <<task, changes>>
        /\ \A k \in ActionId \ {i} : effect'[k] = effect[k]
        /\ effect'[i] \in Running =>
              \/ effect[i] \in Running \/ record[i].kept = NoTarget
              \/ task[record[i].kept].enabled
        /\ \A k \in ActionId : Sealed(record'[k]) = Sealed(record[k])
    BY <2>1, CallStepWrites, CallStepStarts, CallStepSeals DEF ApproveKeeps
  <2>3. record'[j].kept = record[j].kept
    BY <2>2 DEF Sealed
  <2>. QED BY <2>2, <2>3 DEF KeptRuns
<1>4. CASE \E i \in ActionId : TakeEffect(i)
  <2>1. PICK i \in ActionId : TakeEffect(i)
    BY <1>4
  <2>2. /\ effect[i] \in Running /\ record' = record /\ changes' = changes
        /\ effect \in [ActionId -> ScriptStates]
        /\ task \in [Target -> Task] /\ record[j] \in Action /\ record[i].state # "absent"
    BY <2>1 DEF TakeEffect, files, bounds, IInv, TypeOK, ActionsOK, ActionOK
  <2>3. effect'[i] \notin Running /\ \A k \in ActionId \ {i} : effect'[k] = effect[k]
    BY <2>1, <2>2 DEF TakeEffect
  <2>4. j # i /\ effect[j] \in Running /\ task[record[j].kept].enabled
    BY <2>2, <2>3 DEF KeptRuns
  <2>5. Locks(record[i]) \cap Locks(record[j]) = {}
    BY <2>2, <2>4 DEF IInv, OneActionPerTarget, Working
  <2>6. record[i].target \in Target /\ record[i].target # NoTarget
    BY <2>2, GatewaySentinels DEF IInv, ActionsOK, ActionOK
  <2>7. record[j].kept \in Target /\ record[j].kept # record[i].target
    BY <2>2, <2>5, <2>6 DEF Locks, Action
  <2>8. task'[record[j].kept] = task[record[j].kept]
    BY <2>1, <2>2, <2>6, <2>7 DEF TakeEffect
  <2>. QED BY <2>2, <2>4, <2>8
<1>5. CASE \E t \in Target : Change(t)
  BY <1>5 DEF Change, IInv, TypeOK
<1>6. CASE UNCHANGED <<task, effect, changes>> /\ FilesStay
  BY <1>2, <1>6 DEF KeptRuns
<1>7. CASE \E i \in ActionId : CheckTask(i)
  <2>1. PICK i \in ActionId : CheckTask(i)
    BY <1>7
  <2>2. /\ UNCHANGED <<task, record, changes>> /\ effect \in [ActionId -> ScriptStates]
        /\ effect[i] \in Running
    BY <2>1 DEF CheckTask, files, bounds, IInv, TypeOK
  <2>3. \A k \in ActionId \ {i} : effect'[k] = effect[k]
    BY <2>1, <2>2 DEF CheckTask
  <2>. QED BY <2>2, <2>3 DEF KeptRuns
<1>8. CASE UNCHANGED vars
  BY <1>8 DEF vars, scheduler, files, bounds, KeptRuns
<1>9. CASE Next
  BY <1>1, <1>3, <1>4, <1>5, <1>6, <1>7, <1>9, StepsKeepFiles DEF Next, Request, Proposes,
     Approve, Expire, ReconcileStarts, ReconcileEnds, Crash, scheduler, bounds
<1>. QED BY <1>8, <1>9

\* Of the gateway's scripts only the one that checked a task can change it: whoever
\* works on it holds its lock file, a script of a dead process as well.
LEMMA ChecksNext == IInv /\ CopiesOK /\ CheckStillHolds /\ [Next]_vars => CheckStillHolds'
<1>. SUFFICES ASSUME IInv, CopiesOK, CheckStillHolds, [Next]_vars,
                     NEW j \in ActionId, effect'[j] = "checked"
              PROVE  Unchanged(record[j])'
  BY DEF CheckStillHolds
<1>. DEFINE SameSeal == /\ record'[j].target = record[j].target
                        /\ record'[j].definition = record[j].definition
                        /\ record'[j].enabled = record[j].enabled
<1>0. /\ effect \in [ActionId -> ScriptStates] /\ task \in [Target -> Task]
      /\ record[j] \in Action
  BY DEF IInv, TypeOK
<1>1. ASSUME effect[j] = "checked", SameSeal,
             task'[record[j].target] = task[record[j].target]
      PROVE  Unchanged(record[j])'
  BY <1>1 DEF CheckStillHolds, Unchanged
<1>2. FilesStay => SameSeal
  BY DEF FilesStay, Sealed
<1>3. CASE \E i \in ActionId : Proposes(i)
  <2>1. PICK i \in ActionId : Proposes(i)
    BY <1>3
  <2>2. /\ record[i].state = "absent" /\ UNCHANGED <<task, effect>>
        /\ \A k \in ActionId \ {i} : record'[k] = record[k]
    BY <2>1, ProposesWrites
  <2>3. effect[i] = "none"
    BY <2>2 DEF IInv, ActionsOK, ActionOK
  <2>. QED BY <1>1, <2>2, <2>3
<1>4. CASE \E i \in ActionId : CallStep(i)
  <2>1. PICK i \in ActionId : CallStep(i)
    BY <1>4
  <2>2. /\ task' = task /\ effect[j] = "checked"
        /\ \A k \in ActionId : Sealed(record'[k]) = Sealed(record[k])
    BY <2>1, CallStepWrites, CallStepStarts, CallStepSeals DEF ApproveKeeps
  <2>3. SameSeal
    BY <2>2 DEF Sealed
  <2>. QED BY <1>1, <2>2, <2>3
<1>5. CASE \E i \in ActionId : CheckTask(i)
  <2>1. PICK i \in ActionId : CheckTask(i)
    BY <1>5
  <2>2. /\ UNCHANGED <<task, record>> /\ \A k \in ActionId \ {i} : effect'[k] = effect[k]
        /\ effect'[i] = "checked" => Unchanged(record[i])
    BY <1>0, <2>1 DEF CheckTask, files
  <2>3. CASE j = i
    BY <2>2, <2>3 DEF Unchanged
  <2>4. CASE j # i
    BY <1>1, <2>2, <2>4
  <2>. QED BY <2>3, <2>4
<1>6. CASE \E i \in ActionId : TakeEffect(i)
  <2>1. PICK i \in ActionId : TakeEffect(i)
    BY <1>6
  <2>2. /\ effect[i] \in Running /\ record' = record /\ effect'[i] = "done"
        /\ \A k \in ActionId \ {i} : effect'[k] = effect[k]
    BY <1>0, <2>1 DEF TakeEffect, files
  <2>3. j # i /\ effect[j] = "checked"
    BY <2>2
  <2>4. Locks(record[i]) \cap Locks(record[j]) = {}
    BY <2>2, <2>3 DEF IInv, OneActionPerTarget, Working
  <2>5. record[j].state # "absent" /\ record[i].state # "absent"
    BY <2>2, <2>3 DEF IInv, ActionsOK, ActionOK
  <2>6. record[j].target \in Target /\ record[i].target \in Target
    BY <2>5 DEF IInv, ActionsOK, ActionOK
  <2>7. record[j].target # record[i].target
    BY <2>4, <2>6, GatewaySentinels DEF Locks
  <2>8. task'[record[j].target] = task[record[j].target]
    BY <1>0, <2>1, <2>6, <2>7 DEF TakeEffect
  <2>. QED BY <1>1, <2>2, <2>3, <2>8
<1>7. CASE \E t \in Target : Change(t)
  <2>1. PICK t \in Target : Change(t)
    BY <1>7
  <2>2. /\ record' = record /\ effect[j] = "checked" /\ record[j].target # t
        /\ \E now : task' = [task EXCEPT ![t] = now]
    BY <1>0, <2>1 DEF Change, files
  <2>3. record[j].target \in Target
    BY <2>2 DEF IInv, ActionsOK, ActionOK
  <2>. QED BY <1>0, <1>1, <2>2, <2>3
<1>8. CASE UNCHANGED <<task, effect>> /\ FilesStay
  BY <1>1, <1>2, <1>8
<1>9. CASE UNCHANGED vars
  BY <1>1, <1>9 DEF vars, scheduler, files
<1>10. CASE Next
  BY <1>3, <1>4, <1>5, <1>6, <1>7, <1>8, <1>10, StepsKeepFiles DEF Next, Request, Proposes,
     Approve, Expire, ReconcileStarts, ReconcileEnds, Crash, scheduler
<1>. QED BY <1>9, <1>10

LEMMA SealInit == Init => SealInv
BY DEF Init, SealInv, CopiesOK, RestoresOK, KeptRuns, CheckStillHolds, NoFile, NoReading

LEMMA SealNext == IInv /\ SealInv /\ [Next]_vars => SealInv'
BY CopiesNext, RestoresNext, KeptRunsNext, ChecksNext DEF SealInv

\* The files keep what their approvals are about, in every reachable state.
THEOREM SealInvariant == Spec => []SealInv
BY Invariant, SealInit, SealNext, PTL DEF Spec

\* A proposal to restore undoes a verified action, and exactly that: the same task
\* and definition, back to the enabled flag the action found, for as long as the
\* proposal is on file, whatever reconciles and restarts happen.
THEOREM RestoresUndo == Spec => []RestoreUndoesVerified
<1>1. SealInv => RestoreUndoesVerified
  BY DEF SealInv, RestoresOK, RestoreUndoesVerified
<1>. QED BY <1>1, SealInvariant, PTL

\* What a script has checked stays as it was approved until the script changes it,
\* for as long as nobody outside changes that task: the gateway's other actions and
\* the scripts of dead processes never come between the two commands.
THEOREM CheckedStaysApproved == Spec => []CheckStillHolds
<1>1. SealInv => CheckStillHolds
  BY DEF SealInv
<1>. QED BY <1>1, SealInvariant, PTL

\* As long as nobody else changes tasks, a recommended pause never takes effect
\* once the task it counts on has stopped: not even another action of the gateway,
\* or a script a dead process left behind, can have disabled it in between.
THEOREM SurvivorsStillRun == Spec => SurvivorStillRuns
<1>1. SealInv /\ [Next]_vars =>
        [\A i \in ActionId :
            changes = 0 /\ record[i].kept # NoTarget
                /\ effect[i] \in Running /\ effect'[i] = "done"
              => task[record[i].kept].enabled]_vars
  BY DEF SealInv, KeptRuns
<1>. QED BY <1>1, SealInvariant, PTL DEF Spec, SurvivorStillRuns
=============================================================================
