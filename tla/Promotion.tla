----------------------------- MODULE Promotion -----------------------------
(***************************************************************************)
(* Repository promotion (src/src/repositoryPromotion): a candidate commit  *)
(* is tested, reviewed, merged into main, checked out where the assistant  *)
(* runs, restarted and verified; a deployment that cannot be verified is   *)
(* rolled back by a forward commit.                                        *)
(*                                                                         *)
(* A promotion is a row: it is saved after every effect, by a rename, and  *)
(* a row found in one of four waiting states may be resumed by any driver  *)
(* process; every other unfinished row is for a person.  The drivers share *)
(* a lock file that a dead one leaves behind.  Between any two steps the   *)
(* world may move main, the candidate's branch or the clock.               *)
(*                                                                         *)
(* A tree is the set of changes it contains and main the sequence of the   *)
(* trees it has had, so that a commit of main is an index into it: a       *)
(* candidate adds its own change to its base, and a merge of a candidate   *)
(* into a main that moved has a tree nobody tested.                        *)
(***************************************************************************)
EXTENDS Integers, Sequences

CONSTANTS
    RowId,       \* promotions
    Proc,        \* driver processes: the command line, the accepted-work driver
    NoProc,      \* there is no lock file
    NoRow,       \* no call, no candidate
    Foreign,     \* changes others may merge into main
    MaxFaults,   \* bound: process deaths and failed saves
    MaxDrifts    \* bound: moves of main or of a candidate's branch

ASSUME PromotionBounds == MaxFaults \in Nat /\ MaxDrifts \in Nat
ASSUME PromotionNames == NoProc \notin Proc /\ NoRow \notin RowId /\ Foreign \cap RowId = {}

VARIABLES
    main,       \* the trees main has had
    branch,     \* RowId -> the pull request of the candidate
    runtime,    \* the commit that is checked out, and the one that runs
    saved,      \* RowId -> the row on file
    passed,     \* candidates with a passing review receipt on file
    lock,       \* whose lock file stands
    call,       \* Proc -> the finish or resume in progress
    grants,     \* Proc -> rows whose authority the process holds
    expired,    \* rows whose authority has run out
    spent,      \* history: how often a row asked for its review, merge and rollback
    faults, drifts

remote == <<main, branch>>
files == <<saved, passed>>
authority == <<grants, expired>>
bounds == <<faults, drifts>>
vars == <<remote, runtime, files, lock, call, authority, spent, bounds>>

-----------------------------------------------------------------------------
(* Rows *)

Resumable == {"awaiting_review", "awaiting_idle", "awaiting_administrator",
              "awaiting_reload_idle"}
Ended == {"needs_reconciliation", "needs_attention", "reviewed_hold", "complete",
          "rolled_back"}
Passing == {"preflight", "pr_prepared", "accepted_committed", "reviewing", "reviewed", "gated",
            "merged", "deployed", "verification_failed", "rollback_executed"}
RowStates == {"new"} \cup Resumable \cup Ended \cup Passing

\* A commit of main; 0 is none.
Commit == 0 .. Len(main)

\* of: whose candidate the row promotes; held: stops before the review; ruled:
\* needs the Owner's authority; base: the main the candidate was made from; snap:
\* the runtime that was saved; merge and back: the merge and the rollback made.
RowFor(of, held, ruled, base) ==
    [state |-> "new", of |-> of, held |-> held, ruled |-> ruled,
     base |-> base, snap |-> 0, merge |-> 0, back |-> 0]
NewRow == RowFor(NoRow, FALSE, FALSE, 0)

\* A call is where it is (at), by which entry it came (by), and its own copy of
\* the row.
Entries == {"finish", "review", "deploy", "direct"}
Idle == [i |-> NoRow, at |-> "idle", by |-> "finish", row |-> NewRow]
Stages == {"inspect", "prepare", "accept", "review", "gate", "recheck", "merge", "witness",
           "checkout", "restart", "verify", "rollback", "rollbackMerge", "rollbackCheckout",
           "rollbackRestart", "verifyRollback", "recheckReview", "recheckPending",
           "recheckDeployed", "hold", "save", "release"}

\* What is asked of others for a row.
Effects == RowId \X {"review", "merge", "rollback"}

Tip == Len(main)
Tested(row) == main[row.base] \cup {row.of}

Init ==
    /\ main = << {} >>
    /\ branch = [i \in RowId |-> "none"]
    /\ runtime = [source |-> 1, boot |-> 1]
    /\ saved = [i \in RowId |-> NewRow]
    /\ passed = {}
    /\ lock = NoProc
    /\ call = [p \in Proc |-> Idle]
    /\ grants = [p \in Proc |-> {}]
    /\ expired = {}
    /\ spent = [e \in Effects |-> 0]
    /\ faults = 0
    /\ drifts = 0

At(p, s) == call[p].at = s
Row(p) == call[p].row
Live(p) == Row(p).ruled => call[p].i \notin expired

Move(p, s, row) ==
    call' = [call EXCEPT ![p] = [i |-> @.i, at |-> s, by |-> @.by, row |-> row]]

\* Record: the row is about to be saved in state s.
In(row, s) ==
    [state |-> s, of |-> row.of, held |-> row.held, ruled |-> row.ruled,
     base |-> row.base, snap |-> row.snap, merge |-> row.merge, back |-> row.back]
Record(p, row, s) == Move(p, "save", In(row, s))
Goto(p, s) == Move(p, s, Row(p))

\* A rollback that did not end is not named by the row.
Unended(row) ==
    [row EXCEPT !.back = IF row.state = "verification_failed" THEN 0 ELSE row.back]
Attention(p) == Record(p, Unended(Row(p)), "needs_attention")

Spend(p, what) == spent' = [spent EXCEPT ![<<call[p].i, what>>] = @ + 1]

\* deployAndVerify answers what is thrown in it by a rollback; a resume that
\* goes on with the restart does not, and leaves the row waiting.
Undeployed(p) ==
    IF call[p].by = "direct" THEN Goto(p, "release")
                             ELSE Record(p, Row(p), "verification_failed")

-----------------------------------------------------------------------------
(* The entries, and the lock *)

Enter(p, i, at, by, row) ==
    /\ call[p] = Idle
    /\ lock = NoProc
    /\ lock' = p
    /\ call' = [call EXCEPT ![p] = [i |-> i, at |-> at, by |-> by, row |-> row]]
    /\ UNCHANGED <<remote, runtime, files, expired, spent, bounds>>

\* finish, and finish that stops before the review: the candidate was made from
\* some main, not always the last one.
Finish(p, i) ==
    /\ saved[i] = NewRow
    /\ \E held \in BOOLEAN, base \in 1 .. Tip :
          Enter(p, i, "inspect", "finish", RowFor(i, held, FALSE, base))
    /\ UNCHANGED grants

\* The pull request of a reviewed candidate is open on the main it was made from,
\* and the runtime it saved is that main.
Acceptable(e) ==
    /\ e \in passed
    /\ branch[e] = "open"
    /\ saved[e].base = Tip /\ saved[e].snap = Tip
    /\ runtime = [source |-> Tip, boot |-> Tip]

\* promoteCommitted: a row of its own for a candidate another row prepared.
PromoteCommitted(p, i, e) ==
    /\ e # i
    /\ saved[i] = NewRow
    /\ Acceptable(e)
    /\ Enter(p, i, "inspect", "finish", RowFor(e, FALSE, TRUE, saved[e].base))
    /\ grants' = [grants EXCEPT ![p] = @ \cup {i}]

\* An authorized row needs the authority this very process holds.
Resume(p, i) ==
    /\ saved[i].state \in Resumable
    /\ saved[i].ruled => i \in grants[p] \ expired
    /\ CASE saved[i].state = "awaiting_review" -> Enter(p, i, "recheckReview", "review", saved[i])
         [] saved[i].state = "awaiting_idle" -> Enter(p, i, "recheckPending", "deploy", saved[i])
         [] OTHER -> Enter(p, i, "recheckDeployed", "direct", saved[i])
    /\ UNCHANGED grants

Release(p) ==
    /\ At(p, "release")
    /\ lock' = NoProc
    /\ call' = [call EXCEPT ![p] = Idle]
    /\ UNCHANGED <<remote, runtime, files, authority, spent, bounds>>

-----------------------------------------------------------------------------
(* Saving the row *)

Onwards(row, by) ==
    CASE row.state = "preflight" -> IF row.ruled THEN "accept" ELSE "prepare"
      [] row.state = "pr_prepared" -> IF row.held THEN "hold" ELSE "review"
      [] row.state = "reviewing" -> "review"
      [] row.state = "reviewed" -> IF by = "review" THEN "hold" ELSE "gate"
      [] row.state = "accepted_committed" -> "gate"
      [] row.state = "gated" -> "recheck"
      [] row.state = "merged" -> "witness"
      [] row.state = "deployed" -> "verify"
      [] row.state = "verification_failed" -> "rollback"
      [] row.state = "rollback_executed" -> "verifyRollback"
      [] OTHER -> "release"

Save(p) ==
    /\ At(p, "save")
    /\ saved' = [saved EXCEPT ![call[p].i] = Row(p)]
    /\ Goto(p, Onwards(Row(p), call[p].by))
    /\ UNCHANGED <<remote, runtime, passed, lock, authority, spent, bounds>>

\* A save that throws is caught where the effect before it would be.  One of
\* needs_attention is not caught again (finish repeats that of a rollback once, as
\* if it had not failed), and nor is that of verification_failed outside finish.
SaveFails(p) ==
    LET s == Row(p).state IN
    /\ At(p, "save")
    /\ faults < MaxFaults
    /\ faults' = faults + 1
    /\ CASE s \in {"deployed", "complete", "awaiting_idle", "awaiting_administrator",
                   "awaiting_reload_idle"} -> Undeployed(p)
         [] s = "needs_attention" -> Goto(p, "release")
         [] s = "verification_failed" /\ call[p].by # "finish" -> Goto(p, "release")
         [] OTHER -> Attention(p)
    /\ UNCHANGED <<remote, runtime, files, lock, authority, spent, drifts>>

-----------------------------------------------------------------------------
(* From the preflight to the merge *)

\* A service that runs another commit than the one checked out blocks; a candidate
\* made from an older main is for a reconciliation.
Inspect(p) ==
    LET row == [Row(p) EXCEPT !.snap = runtime.source] IN
    /\ At(p, "inspect")
    /\ \/ Record(p, row, CASE runtime.boot # runtime.source -> "needs_attention"
                           [] row.base # Tip -> "needs_reconciliation"
                           [] OTHER -> "preflight")
       \/ Attention(p)
    /\ UNCHANGED <<remote, runtime, files, lock, authority, spent, bounds>>

\* prepare, test, commit, publish and the pull request.
Prepare(p) ==
    /\ At(p, "prepare")
    /\ \/ Attention(p) /\ UNCHANGED branch
       \/ /\ branch' = [branch EXCEPT ![Row(p).of] = "open"]
          /\ Record(p, Row(p), "pr_prepared")
    /\ UNCHANGED <<main, runtime, files, lock, authority, spent, bounds>>

\* What was found acceptable is looked at again.
Accept(p) ==
    /\ At(p, "accept")
    /\ \/ Attention(p)
       \/ /\ Live(p) /\ Acceptable(Row(p).of)
          /\ Record(p, Row(p), "accepted_committed")
    /\ UNCHANGED <<remote, runtime, files, lock, authority, spent, bounds>>

\* The receipt is on file before the row is.
Review(p) ==
    /\ At(p, "review")
    /\ Spend(p, "review")
    /\ \/ Attention(p) /\ UNCHANGED passed
       \/ passed' = passed \cup {Row(p).of} /\ Record(p, Row(p), "reviewed")
    /\ UNCHANGED <<remote, runtime, saved, lock, authority, bounds>>

Hold(p) ==
    /\ At(p, "hold")
    /\ Record(p, Row(p), IF call[p].by = "review" THEN "reviewed_hold" ELSE "awaiting_review")
    /\ UNCHANGED <<remote, runtime, files, lock, authority, spent, bounds>>

Gate(p) ==
    /\ At(p, "gate")
    /\ \/ Attention(p)
       \/ /\ Live(p) /\ branch[Row(p).of] = "open" /\ runtime.boot = Row(p).snap
          /\ Record(p, Row(p), "gated")
    /\ UNCHANGED <<remote, runtime, files, lock, authority, spent, bounds>>

\* The last look at main, at the pull request and at the service.
Recheck(p) ==
    /\ At(p, "recheck")
    /\ \/ Attention(p)
       \/ /\ Live(p) /\ branch[Row(p).of] = "open"
          /\ Tip = Row(p).base /\ runtime.boot = Row(p).snap
          /\ Goto(p, "merge")
    /\ UNCHANGED <<remote, runtime, files, lock, authority, spent, bounds>>

\* What the remote merges is its main of this moment.  An answer may be lost, and
\* a tree that is not the tested one is refused after the merge: neither leaves a
\* merge in the row.
Merge(p) ==
    LET merged == main[Tip] \cup {Row(p).of} IN
    /\ At(p, "merge")
    /\ Spend(p, "merge")
    /\ \/ Attention(p) /\ UNCHANGED remote
       \/ /\ branch[Row(p).of] = "open"
          /\ main' = Append(main, merged)
          /\ branch' = [branch EXCEPT ![Row(p).of] = "merged"]
          /\ \/ Attention(p)
             \/ /\ merged = Tested(Row(p))
                /\ Record(p, [Row(p) EXCEPT !.merge = Tip + 1], "merged")
    /\ UNCHANGED <<runtime, files, lock, authority, bounds>>

-----------------------------------------------------------------------------
(* The deployment *)

\* Somebody is at work where the assistant runs: wait.
Witness(p) ==
    /\ At(p, "witness")
    /\ \/ Live(p) /\ (Record(p, Row(p), "awaiting_idle") \/ Goto(p, "checkout"))
       \/ Undeployed(p)
    /\ UNCHANGED <<remote, runtime, files, lock, authority, spent, bounds>>

CheckoutOfMain(p) ==
    LET row == Row(p) IN
    /\ At(p, "checkout")
    /\ \/ Undeployed(p) /\ UNCHANGED runtime
       \/ /\ Live(p) /\ main[row.merge] = Tested(row) /\ runtime.source = row.snap
          /\ runtime' = [runtime EXCEPT !.source = Tip]
          /\ Goto(p, "restart") \/ Undeployed(p)
    /\ UNCHANGED <<remote, files, lock, authority, spent, bounds>>

Checkout(p) ==
    LET row == Row(p) IN
    /\ At(p, "checkout")
    /\ \/ Undeployed(p) /\ UNCHANGED runtime
       \/ /\ Live(p) /\ main[row.merge] = Tested(row) /\ runtime.source = row.snap
          /\ runtime' = [runtime EXCEPT !.source = row.merge]
          /\ Goto(p, "restart") \/ Undeployed(p)
    /\ UNCHANGED <<remote, files, lock, authority, spent, bounds>>

\* The helper's exit code is no evidence that the service came up anew.
Restarted == runtime' = [runtime EXCEPT !.boot = runtime.source] \/ UNCHANGED runtime

Restart(p) ==
    /\ At(p, "restart")
    /\ \/ Undeployed(p) /\ Restarted
       \/ /\ Live(p)
          /\ \/ Record(p, Row(p), "awaiting_administrator") /\ UNCHANGED runtime
             \/ /\ Restarted
                /\ IF call[p].by = "direct" THEN Goto(p, "verify")
                                            ELSE Record(p, Row(p), "deployed")
    /\ UNCHANGED <<remote, files, lock, authority, spent, bounds>>

Verify(p) ==
    /\ At(p, "verify")
    /\ \/ Undeployed(p) \/ Record(p, Row(p), "verification_failed")
       \/ /\ runtime = [source |-> Row(p).merge, boot |-> Row(p).merge]
          /\ Record(p, Row(p), "complete")
    /\ UNCHANGED <<remote, runtime, files, lock, authority, spent, bounds>>

-----------------------------------------------------------------------------
(* The rollback *)

\* A commit with the tree of the saved runtime is put on the merge and offered to
\* main, which must not have moved.
Rollback(p) ==
    /\ At(p, "rollback")
    /\ \/ Attention(p)
       \/ Live(p) /\ Tip = Row(p).merge /\ Goto(p, "rollbackMerge")
    /\ UNCHANGED <<remote, runtime, files, lock, authority, spent, bounds>>

\* The remote merges three ways: what the rollback removes and what it brings back
\* is removed from and brought back to its main of this moment.
RollbackMerge(p) ==
    LET bad == main[Row(p).merge]
        good == main[Row(p).snap]
    IN
    /\ At(p, "rollbackMerge")
    /\ Spend(p, "rollback")
    /\ \/ Attention(p) /\ UNCHANGED main
       \/ /\ main' = Append(main, (main[Tip] \ (bad \ good)) \cup (good \ bad))
          /\ \/ Attention(p)
             \/ Move(p, "rollbackCheckout", [Row(p) EXCEPT !.back = Tip + 1])
    /\ UNCHANGED <<branch, runtime, files, lock, authority, bounds>>

RollbackCheckout(p) ==
    /\ At(p, "rollbackCheckout")
    /\ \/ Attention(p) /\ UNCHANGED runtime
       \/ /\ Live(p)
          /\ runtime' = [runtime EXCEPT !.source = Row(p).back]
          /\ Goto(p, "rollbackRestart") \/ Attention(p)
    /\ UNCHANGED <<remote, files, lock, authority, spent, bounds>>

\* A restart that needs an administrator is not told from one that was done.
RollbackRestart(p) ==
    /\ At(p, "rollbackRestart")
    /\ Restarted
    /\ \/ Attention(p)
       \/ Live(p) /\ Record(p, Row(p), "rollback_executed")
    /\ UNCHANGED <<remote, files, lock, authority, spent, bounds>>

VerifyRollbackSource(p) ==
    /\ At(p, "verifyRollback")
    /\ \/ Attention(p)
       \/ /\ runtime.source = Row(p).back
          /\ Record(p, Row(p), "rolled_back")
    /\ UNCHANGED <<remote, runtime, files, lock, authority, spent, bounds>>

VerifyRollback(p) ==
    /\ At(p, "verifyRollback")
    /\ \/ Attention(p)
       \/ /\ runtime = [source |-> Row(p).back, boot |-> Row(p).back]
          /\ Record(p, Row(p), "rolled_back")
    /\ UNCHANGED <<remote, runtime, files, lock, authority, spent, bounds>>

-----------------------------------------------------------------------------
(* What a resume looks at first *)

RecheckReviewUnsaved(p) ==
    /\ At(p, "recheckReview")
    /\ \/ Attention(p)
       \/ /\ branch[Row(p).of] = "open" /\ Tip = Row(p).base
          /\ runtime = [source |-> Row(p).snap, boot |-> Row(p).snap]
          /\ Goto(p, "review")
    /\ UNCHANGED <<remote, runtime, files, lock, authority, spent, bounds>>

\* The review is asked for only after the row says so on file.
RecheckReview(p) ==
    /\ At(p, "recheckReview")
    /\ \/ Attention(p)
       \/ /\ branch[Row(p).of] = "open" /\ Tip = Row(p).base
          /\ runtime = [source |-> Row(p).snap, boot |-> Row(p).snap]
          /\ Record(p, Row(p), "reviewing")
    /\ UNCHANGED <<remote, runtime, files, lock, authority, spent, bounds>>

RecheckPending(p) ==
    /\ At(p, "recheckPending")
    /\ \/ Goto(p, "release")
       \/ IF Tip = Row(p).merge /\ runtime = [source |-> Row(p).snap, boot |-> Row(p).snap]
          THEN Goto(p, "witness") ELSE Attention(p)
    /\ UNCHANGED <<remote, runtime, files, lock, authority, spent, bounds>>

\* Only the restart is left; it too waits for nobody to be at work.
RecheckDeployed(p) ==
    /\ At(p, "recheckDeployed")
    /\ \/ Goto(p, "release")
       \/ IF Tip = Row(p).merge /\ runtime.source = Row(p).merge
          THEN Goto(p, "restart") \/ Record(p, Row(p), "awaiting_reload_idle")
          ELSE Attention(p)
    /\ UNCHANGED <<remote, runtime, files, lock, authority, spent, bounds>>

-----------------------------------------------------------------------------
(* The world *)

\* The process dies: its lock file stays, the authorities it held are gone.
Crash(p) ==
    /\ call[p] # Idle
    /\ faults < MaxFaults
    /\ faults' = faults + 1
    /\ call' = [call EXCEPT ![p] = Idle]
    /\ grants' = [grants EXCEPT ![p] = {}]
    /\ UNCHANGED <<remote, runtime, files, lock, expired, spent, drifts>>

\* The command ends.
Exit(p) ==
    /\ call[p] = Idle
    /\ grants[p] # {}
    /\ grants' = [grants EXCEPT ![p] = {}]
    /\ UNCHANGED <<remote, runtime, files, lock, call, expired, spent, bounds>>

\* A person inspects a lock file whose process is dead and removes it.
ClearLock ==
    /\ lock \in Proc
    /\ call[lock] = Idle
    /\ lock' = NoProc
    /\ UNCHANGED <<remote, runtime, files, call, authority, spent, bounds>>

\* A person starts the service again, on what is checked out.
AdminRestart ==
    /\ runtime.boot # runtime.source
    /\ runtime' = [runtime EXCEPT !.boot = runtime.source]
    /\ UNCHANGED <<remote, files, lock, call, authority, spent, bounds>>

Expire(i) ==
    /\ \E p \in Proc : i \in grants[p] \ expired
    /\ expired' = expired \cup {i}
    /\ UNCHANGED <<remote, runtime, files, lock, call, grants, spent, bounds>>

Drift ==
    /\ drifts < MaxDrifts
    /\ drifts' = drifts + 1
    /\ \/ \E f \in Foreign \ main[Tip] :
             main' = Append(main, main[Tip] \cup {f}) /\ UNCHANGED branch
       \/ \E i \in RowId : /\ branch[i] = "open"
                           /\ branch' = [branch EXCEPT ![i] = "changed"]
                           /\ UNCHANGED main
    /\ UNCHANGED <<runtime, files, lock, call, authority, spent, faults>>

Forward(p) ==
    \/ Inspect(p) \/ Prepare(p) \/ Accept(p) \/ Review(p) \/ Hold(p)
    \/ Gate(p) \/ Recheck(p) \/ Merge(p)
    \/ Witness(p) \/ Checkout(p) \/ Restart(p) \/ Verify(p)
Backward(p) ==
    \/ Rollback(p) \/ RollbackMerge(p) \/ RollbackCheckout(p) \/ RollbackRestart(p)
    \/ VerifyRollback(p)
Entry(p) ==
    \/ \E i \in RowId : Finish(p, i) \/ Resume(p, i) \/ \E e \in RowId : PromoteCommitted(p, i, e)
    \/ RecheckReview(p) \/ RecheckPending(p) \/ RecheckDeployed(p)
    \/ Save(p) \/ SaveFails(p) \/ Release(p)
World ==
    \/ ClearLock \/ AdminRestart \/ Drift
    \/ \E p \in Proc : Crash(p) \/ Exit(p)
    \/ \E i \in RowId : Expire(i)

Next == World \/ \E p \in Proc : Entry(p) \/ Forward(p) \/ Backward(p)

Spec == Init /\ [][Next]_vars

-----------------------------------------------------------------------------
(* What should hold *)

Rows == [state : RowStates, of : RowId \cup {NoRow}, held : BOOLEAN, ruled : BOOLEAN,
         base : Commit, snap : Commit, merge : Commit, back : Commit]
Calls == [i : RowId \cup {NoRow}, at : Stages \cup {"idle"}, by : Entries, row : Rows]

\* TypeOK: rows name commits main has, what is checked out and what runs are commits
\* of main, and whoever is in a call has the lock file.
TypeOK ==
    /\ main \in Seq(SUBSET (RowId \cup Foreign)) /\ main # << >>
    /\ branch \in [RowId -> {"none", "open", "changed", "merged"}]
    /\ runtime \in [source : 1 .. Tip, boot : 1 .. Tip]
    /\ saved \in [RowId -> Rows]
    /\ passed \subseteq RowId /\ expired \subseteq RowId
    /\ lock \in Proc \cup {NoProc}
    /\ call \in [Proc -> Calls]
    /\ grants \in [Proc -> SUBSET RowId]
    /\ spent \in [Effects -> Nat]
    /\ \A p \in Proc : call[p] # Idle => lock = p

\* DeployedIsTested: what is checked out where the assistant runs only ever changes
\* to the forward commit of a rollback, or to a merge whose tree is the one that
\* was tested, of a candidate with a passing review, whatever happened to main
\* and however many processes, resumes and crashes lie between.
DeployedIsTested ==
    [][runtime'.source # runtime.source =>
          \E p \in Proc :
             LET row == Row(p) IN
             \/ row.back # 0 /\ runtime'.source = row.back
             \/ /\ runtime'.source = row.merge
                /\ main[row.merge] = Tested(row)
                /\ row.of \in passed]_vars

\* NothingRepeated: no row asks for its review, its merge or its rollback a second
\* time: not when it is resumed, not after a crash or a failed save between the
\* effect and its record, and not while somebody clears the lock.
NothingRepeated == \A e \in Effects : spent[e] <= 1

\* SettledIsLive: a row on file as complete, or as rolled back, names a commit the
\* assistant was brought to: it is checked out or was followed by another, and it
\* is what runs while it is checked out.
SettledIsLive ==
    \A i \in RowId :
       saved[i].state \in {"complete", "rolled_back"} =>
          LET c == IF saved[i].state = "complete" THEN saved[i].merge ELSE saved[i].back IN
          /\ c # 0 /\ runtime.source >= c
          /\ runtime.source = c => runtime.boot = c
=============================================================================
