-------------------------- MODULE PromotionProofs --------------------------
(***************************************************************************)
(* Proofs about Promotion, for any number of rows, processes, faults and   *)
(* drifts.                                                                 *)
(*                                                                         *)
(* The invariant ties the state of a call's row to where the call is, says *)
(* that between two saves the row on file is in the same state, and bounds *)
(* what was asked for by the states from which it can be asked.            *)
(***************************************************************************)
EXTENDS Promotion, TLAPS

-----------------------------------------------------------------------------
(* The inductive invariant *)

\* Rows whose candidate was reviewed, and rows that were merged.
Reviewed == {"reviewed", "accepted_committed", "gated", "merged",
             "awaiting_idle", "awaiting_administrator", "awaiting_reload_idle", "deployed",
             "verification_failed", "rollback_executed", "rolled_back", "complete"}
Merged == {"merged", "awaiting_idle", "awaiting_administrator", "awaiting_reload_idle",
           "deployed", "verification_failed", "rollback_executed", "rolled_back", "complete"}

\* The states in which a review, a merge or a rollback was not asked for yet.
Unreviewed == {"new", "preflight", "pr_prepared", "awaiting_review", "reviewing"}
Unmerged == Unreviewed \cup {"accepted_committed", "reviewed", "reviewed_hold", "gated"}
Unrolled == RowStates \ {"needs_attention", "rollback_executed", "rolled_back"}

\* Later: a runtime the one before may have become.  What settled on the former
\* is settled on the latter.
Later(rt, next) ==
    \/ rt.source < next.source
    \/ next.source = rt.source /\ next.boot \in {rt.boot, rt.source}

\* The row r, when the candidates ps are reviewed and the runtime is rt.
RowOK(r, ps, rt) ==
    /\ r.state \in Reviewed => r.of \in ps
    /\ r.state \in Merged => r.merge # 0
    /\ r.merge # 0 => r.snap < r.merge
    /\ r.state \in {"rollback_executed", "rolled_back"} => r.back # 0
    /\ r.state # "new" => r.of \in RowId /\ r.base # 0
    /\ r.state \notin {"new", "needs_attention"} => r.snap # 0
    /\ r.state = "complete" =>
          r.merge <= rt.source /\ (rt.source = r.merge => rt.boot = r.merge)
    /\ r.state = "rolled_back" =>
          r.back <= rt.source /\ (rt.source = r.back => rt.boot = r.back)

\* The row of i on file, when sp was asked for.
SavedOK(i, r, ps, rt, sp) ==
    /\ RowOK(r, ps, rt)
    /\ r.state = "new" => r = NewRow
    /\ r.state \in {"new", "awaiting_review"} =>
          sp[<<i, "review">>] = 0 /\ sp[<<i, "merge">>] = 0
    /\ r.state \in {"new"} \cup Resumable => sp[<<i, "rollback">>] = 0

\* The states of the row at each place of a call.
Place(at, s) ==
    /\ at = "inspect" => s = "new"
    /\ at \in {"prepare", "accept"} => s = "preflight"
    /\ at = "review" => s \in {"pr_prepared", "reviewing"}
    /\ at = "hold" => s \in {"pr_prepared", "reviewed"}
    /\ at = "gate" => s \in {"reviewed", "accepted_committed"}
    /\ at \in {"recheck", "merge"} => s = "gated"
    /\ at \in {"witness", "checkout"} => s \in {"merged", "awaiting_idle"}
    /\ at = "restart" =>
          s \in {"merged", "awaiting_idle", "awaiting_administrator", "awaiting_reload_idle"}
    /\ at = "verify" =>
          s \in {"merged", "awaiting_idle", "deployed", "awaiting_administrator",
                 "awaiting_reload_idle"}
    /\ at \in {"rollback", "rollbackMerge", "rollbackCheckout", "rollbackRestart"} =>
          s = "verification_failed"
    /\ at = "verifyRollback" => s = "rollback_executed"
    /\ at = "recheckReview" => s = "awaiting_review"
    /\ at = "recheckPending" => s = "awaiting_idle"
    /\ at = "recheckDeployed" => s \in {"awaiting_administrator", "awaiting_reload_idle"}
    /\ at = "save" => s # "new"

\* The call c: its row agrees with the file sv and with what was asked for.
CallOK(c, sv, ps, rt, sp) ==
    /\ c.i \in RowId /\ c.row.of \in RowId /\ c.row.base # 0
    /\ Place(c.at, c.row.state)
    /\ RowOK(c.row, ps, rt)
    /\ c.at = "hold" /\ c.by # "review" => c.row.state = "pr_prepared"
    /\ c.at \notin {"save", "release"} => sv[c.i].state = c.row.state
    /\ c.at # "release" =>
          /\ c.row.state \in Unreviewed => sp[<<c.i, "review">>] = 0
          /\ c.row.state \in Unmerged => sp[<<c.i, "merge">>] = 0
          /\ c.row.state \in Unrolled /\ c.at \notin {"rollbackCheckout", "rollbackRestart"} =>
                sp[<<c.i, "rollback">>] = 0
    /\ c.at = "inspect" => c.row.merge = 0
    /\ c.at \in {"rollbackCheckout", "rollbackRestart"} => c.row.back # 0
    /\ c.at = "rollbackCheckout" => rt.source < c.row.back

IInv ==
    /\ TypeOK
    /\ \A i \in RowId : SavedOK(i, saved[i], passed, runtime, spent)
    /\ \A p \in Proc : IF call[p].at = "idle" THEN call[p] = Idle
                       ELSE CallOK(call[p], saved, passed, runtime, spent)
    /\ NothingRepeated

-----------------------------------------------------------------------------
(* Lemmas about the parts *)

\* A row keeps its invariant when more was reviewed and the runtime went on.
LEMMA RowLater ==
    ASSUME NEW r, r.merge \in Nat, r.back \in Nat,
           NEW ps, NEW ps2, ps \subseteq ps2,
           NEW rt, NEW rt2, rt.source \in Nat, rt2.source \in Nat, Later(rt, rt2),
           RowOK(r, ps, rt)
    PROVE  RowOK(r, ps2, rt2)
BY DEF RowOK, Later

\* So does the row on file, when nothing was asked for it or it cannot be resumed.
LEMMA SavedLater ==
    ASSUME NEW i, NEW r, r.merge \in Nat, r.back \in Nat,
           NEW ps, NEW ps2, ps \subseteq ps2,
           NEW rt, NEW rt2, rt.source \in Nat, rt2.source \in Nat, Later(rt, rt2),
           NEW sp, NEW sp2,
           SavedOK(i, r, ps, rt, sp),
           \/ r.state \notin {"new"} \cup Resumable
           \/ \A w \in {"review", "merge", "rollback"} : sp2[<<i, w>>] = sp[<<i, w>>]
    PROVE  SavedOK(i, r, ps2, rt2, sp2)
<1>1. RowOK(r, ps2, rt2)
  BY RowLater DEF SavedOK
<1>2. QED
  BY <1>1 DEF SavedOK, Resumable

\* The call c, moved to s with the row.
Moved(c, s, row) == [i |-> c.i, at |-> s, by |-> c.by, row |-> row]
Given(c) == Moved(c, "save", In(Unended(c.row), "needs_attention"))
Failed(c) == Moved(c, "save", In(c.row, "verification_failed"))
Left(c) == Moved(c, "release", c.row)

\* A row put into another state, or without its rollback, is a row.
LEMMA InRows ==
    ASSUME NEW r \in Rows, NEW s \in RowStates
    PROVE  /\ In(r, s) \in Rows
           /\ Unended(r) \in Rows
BY DEF In, Unended, Rows, Commit

\* A row may be given to a person from anywhere, whatever happened.
LEMMA GivenOK ==
    ASSUME NEW c \in Calls, NEW sv, NEW ps, NEW rt, NEW sp,
           NEW sv2, NEW ps2, NEW rt2, NEW sp2,
           CallOK(c, sv, ps, rt, sp)
    PROVE  CallOK(Given(c), sv2, ps2, rt2, sp2) /\ Given(c) \in Calls
<1>1. c.row \in Rows /\ c.i \in RowId /\ c.by \in Entries
  BY DEF CallOK, Calls
<1> DEFINE row == In(Unended(c.row), "needs_attention")
<1>2. row \in Rows
  BY <1>1, InRows DEF RowStates, Ended
<1>3. /\ row.state = "needs_attention"
      /\ row.of = c.row.of /\ row.base = c.row.base
      /\ row.snap = c.row.snap /\ row.merge = c.row.merge
  BY <1>1 DEF In, Unended, Rows
<1>4. Given(c) = [i |-> c.i, at |-> "save", by |-> c.by, row |-> row]
  BY DEF Given, Moved
<1> HIDE DEF row
<1>5. RowOK(row, ps2, rt2)
  BY <1>3 DEF CallOK, RowOK, Reviewed, Merged
<1>6. Given(c) \in Calls
  BY <1>1, <1>2, <1>4 DEF Calls, Stages
<1>7. CallOK(Given(c), sv2, ps2, rt2, sp2)
  BY <1>3, <1>4, <1>5 DEF CallOK, Place, Unreviewed, Unmerged, Unrolled
<1>8. QED
  BY <1>6, <1>7

\* A call may be left from anywhere.
LEMMA LeftOK ==
    ASSUME NEW c \in Calls, NEW sv, NEW ps, NEW rt, NEW sp,
           NEW ps2, ps \subseteq ps2,
           NEW rt2, rt.source \in Nat, rt2.source \in Nat, Later(rt, rt2), NEW sp2,
           CallOK(c, sv, ps, rt, sp)
    PROVE  CallOK(Left(c), sv, ps2, rt2, sp2) /\ Left(c) \in Calls
<1>1. RowOK(c.row, ps2, rt2)
  <2>1. c.row.merge \in Nat /\ c.row.back \in Nat
    BY DEF Calls, Rows, Commit
  <2>2. QED
    BY <2>1, RowLater DEF CallOK
<1>2. QED
  BY <1>1 DEF CallOK, Left, Moved, Calls, Stages, Place

\* What was merged and not rolled back may be found not to be deployed.
Deploying == {"merged", "awaiting_idle", "awaiting_administrator", "awaiting_reload_idle",
              "deployed", "complete"}

\* Such a row may be saved as one whose verification failed.
LEMMA FailedOK ==
    ASSUME NEW c \in Calls, NEW sv, NEW ps, NEW rt, NEW sp, NEW sv2, NEW rt2,
           CallOK(c, sv, ps, rt, sp),
           c.row.state \in Deploying, c.at # "release"
    PROVE  CallOK(Failed(c), sv2, ps, rt2, sp) /\ Failed(c) \in Calls
<1>1. c.row \in Rows /\ c.i \in RowId /\ c.by \in Entries
  BY DEF CallOK, Calls
<1> DEFINE row == In(c.row, "verification_failed")
<1>2. row \in Rows
  BY <1>1, InRows DEF RowStates, Passing
<1>3. /\ row.state = "verification_failed"
      /\ row.of = c.row.of /\ row.base = c.row.base
      /\ row.snap = c.row.snap /\ row.merge = c.row.merge
  BY DEF In
<1>4. Failed(c) = [i |-> c.i, at |-> "save", by |-> c.by, row |-> row]
  BY DEF Failed, Moved
<1> HIDE DEF row
<1>5. RowOK(row, ps, rt2)
  BY <1>3 DEF CallOK, RowOK, Reviewed, Merged, Deploying
<1>6. Failed(c) \in Calls
  BY <1>1, <1>2, <1>4 DEF Calls, Stages
<1>7. sp[<<c.i, "rollback">>] = 0
  <2>1. c.at \notin {"rollbackCheckout", "rollbackRestart"}
    BY DEF CallOK, Place, Deploying
  <2>2. c.row.state \in Unrolled
    BY <1>1 DEF Rows, Unrolled, Deploying
  <2>3. QED
    BY <2>1, <2>2 DEF CallOK
<1>8. CallOK(Failed(c), sv2, ps, rt2, sp)
  BY <1>1, <1>3, <1>4, <1>5, <1>7 DEF CallOK, Place, Unreviewed, Unmerged
<1>9. QED
  BY <1>6, <1>8

-----------------------------------------------------------------------------
(* The step of a call *)

Trees == SUBSET (RowId \cup Foreign)

\* Main stays, or gets a tree more; its commits stay.
MainGoes == main' = main \/ \E x \in Trees : main' = Append(main, x)

\* Main never loses a commit, so what was a row or a call remains one.
LEMMA MainGrows ==
    ASSUME TypeOK, MainGoes
    PROVE  /\ main' \in Seq(SUBSET (RowId \cup Foreign)) /\ main' # << >>
           /\ Tip \in Nat /\ Tip' \in Nat /\ Tip <= Tip'
           /\ Rows \subseteq Rows' /\ Calls \subseteq Calls'
<1>1. main' \in Seq(SUBSET (RowId \cup Foreign)) /\ main' # << >> /\ Tip <= Tip'
  <2>1. CASE main' = main
    BY <2>1 DEF TypeOK, Tip
  <2>2. CASE \E x \in Trees : main' = Append(main, x)
    <3>1. PICK x \in Trees : main' = Append(main, x)
      BY <2>2
    <3>2. main \in Seq(Trees)
      BY DEF TypeOK, Trees
    <3>3. main' \in Seq(Trees) /\ Len(main') = Len(main) + 1
      BY <3>1, <3>2
    <3>4. main' # << >>
      BY <3>2, <3>3
    <3>5. QED
      BY <3>2, <3>3, <3>4 DEF Trees, Tip
  <2>3. QED
    BY <2>1, <2>2 DEF MainGoes
<1>2. Tip \in Nat /\ Tip' \in Nat
  BY <1>1 DEF TypeOK, Tip
<1>3. Commit \subseteq Commit'
  BY <1>1, <1>2 DEF Commit, Tip
<1>4. Rows \subseteq Rows'
  BY <1>3 DEF Rows
<1>5. Calls \subseteq Calls'
  BY <1>4 DEF Calls
<1>6. QED
  BY <1>1, <1>2, <1>4, <1>5

\* While a process is in a call no other is.
LEMMA Alone ==
    ASSUME IInv, NEW p \in Proc, call[p].at # "idle", NEW q \in Proc, q # p
    PROVE  call[q] = Idle /\ call[q].at = "idle"
BY DEF IInv, TypeOK, Idle

\* A row asks at most once, from a state that is not taken up again.
Asks(i) ==
    \/ spent' = spent
    \/ /\ saved[i].state \notin {"new"} \cup Resumable
       /\ \E w \in {"review", "merge", "rollback"} :
             /\ spent[<<i, w>>] = 0
             /\ spent' = [spent EXCEPT ![<<i, w>>] = @ + 1]

\* What may change in a step of p besides its call.
Side(p) ==
    /\ UNCHANGED <<saved, lock, grants, expired>>
    /\ MainGoes
    /\ branch' \in [RowId -> {"none", "open", "changed", "merged"}]
    /\ passed \subseteq passed' /\ passed' \subseteq RowId
    /\ runtime' \in [source : 1 .. Tip', boot : 1 .. Tip'] /\ Later(runtime, runtime')
    /\ Asks(call[p].i)

\* A step of p's call that saves nothing keeps the invariant if the call p comes to
\* is in order.
LEMMA CallStep ==
    ASSUME IInv, NEW p \in Proc, call[p].at # "idle",
           NEW c, c \in Calls', c.at # "idle", call' = [call EXCEPT ![p] = c],
           Side(p),
           CallOK(c, saved, passed', runtime', spent')
    PROVE  IInv'
<1> USE DEF IInv, Side
<1>1. /\ Tip \in Nat /\ Tip' \in Nat /\ Tip <= Tip'
      /\ main' \in Seq(SUBSET (RowId \cup Foreign)) /\ main' # << >>
      /\ Rows \subseteq Rows' /\ Calls \subseteq Calls'
  BY MainGrows
<1>2. call[p].i \in RowId
  BY DEF CallOK
<1>3. spent' \in [Effects -> Nat] /\ \A e \in Effects : spent'[e] <= 1
  <2>1. spent \in [Effects -> Nat] /\ \A e \in Effects : spent[e] <= 1
    BY DEF TypeOK, NothingRepeated
  <2>2. CASE spent' = spent
    BY <2>1, <2>2
  <2>3. ASSUME NEW w \in {"review", "merge", "rollback"},
               spent[<<call[p].i, w>>] = 0,
               spent' = [spent EXCEPT ![<<call[p].i, w>>] = @ + 1]
        PROVE  spent' \in [Effects -> Nat] /\ \A e \in Effects : spent'[e] <= 1
    <3>1. <<call[p].i, w>> \in Effects
      BY <1>2 DEF Effects
    <3>2. QED
      BY <2>1, <2>3, <3>1
  <2>4. QED
    BY <2>2, <2>3 DEF Asks
<1>4. call' \in [Proc -> Calls'] /\ \A q \in Proc : call'[q] # Idle => lock' = q
  <2>1. call \in [Proc -> Calls] /\ lock = p
    BY DEF TypeOK, Idle
  <2>2. \A q \in Proc : q # p => call[q] = Idle
    BY Alone
  <2>3. QED
    BY <1>1, <2>1, <2>2
<1>5. TypeOK'
  <2>1. saved' \in [RowId -> Rows']
    BY <1>1 DEF TypeOK
  <2>2. /\ grants' \in [Proc -> SUBSET RowId] /\ expired' \subseteq RowId
        /\ lock' \in Proc \cup {NoProc}
    BY DEF TypeOK
  <2>3. QED
    BY <1>1, <1>3, <1>4, <2>1, <2>2 DEF TypeOK
<1>6. ASSUME NEW i \in RowId
      PROVE  SavedOK(i, saved'[i], passed', runtime', spent')
  <2>1. saved[i] \in Rows /\ SavedOK(i, saved[i], passed, runtime, spent)
    BY DEF TypeOK
  <2>2. saved[i].merge \in Nat /\ saved[i].back \in Nat
    BY <2>1 DEF Rows, Commit
  <2>3. runtime.source \in Nat /\ runtime'.source \in Nat
    BY <1>1 DEF TypeOK
  <2>4. \/ saved[i].state \notin {"new"} \cup Resumable
        \/ \A w \in {"review", "merge", "rollback"} : spent'[<<i, w>>] = spent[<<i, w>>]
    <3>1. CASE i = call[p].i
      BY <3>1 DEF Asks
    <3>2. CASE i # call[p].i
      <4>1. spent \in [Effects -> Nat]
        BY DEF TypeOK
      <4>2. ASSUME NEW w \in {"review", "merge", "rollback"}
            PROVE  spent'[<<i, w>>] = spent[<<i, w>>]
        <5>1. <<i, w>> \in Effects
          BY DEF Effects
        <5>2. QED
          BY <3>2, <4>1, <5>1 DEF Asks
      <4>3. QED
        BY <4>2
    <3>3. QED
      BY <3>1, <3>2
  <2>5. SavedOK(i, saved[i], passed', runtime', spent')
    BY <2>1, <2>2, <2>3, <2>4, SavedLater
  <2>6. QED
    BY <2>5
<1>7. ASSUME NEW q \in Proc
      PROVE  IF call'[q].at = "idle" THEN call'[q] = Idle
             ELSE CallOK(call'[q], saved', passed', runtime', spent')
  <2>1. call \in [Proc -> Calls]
    BY DEF TypeOK
  <2>2. CASE q = p
    BY <2>1, <2>2
  <2>3. CASE q # p
    BY <2>1, <2>3, Alone
  <2>4. QED
    BY <2>2, <2>3
<1>8. QED
  BY <1>3, <1>5, <1>6, <1>7 DEF NothingRepeated
-----------------------------------------------------------------------------
(* The kinds of moves *)

\* What is known of a process in a call.
LEMMA InCall ==
    ASSUME IInv, NEW p \in Proc, call[p].at # "idle"
    PROVE  /\ call[p] \in Calls /\ call[p].i \in RowId /\ call[p].by \in Entries
           /\ Row(p) = call[p].row
           /\ Row(p) \in Rows /\ Row(p).of \in RowId /\ Row(p).base # 0
           /\ CallOK(call[p], saved, passed, runtime, spent)
           /\ Tip \in Nat \ {0}
           /\ runtime.source \in 1 .. Tip /\ runtime.boot \in 1 .. Tip
<1>1. main # << >> /\ main \in Seq(SUBSET (RowId \cup Foreign))
  BY DEF IInv, TypeOK
<1>2. Tip \in Nat \ {0}
  BY <1>1 DEF Tip
<1>3. call[p] \in Calls /\ CallOK(call[p], saved, passed, runtime, spent)
  BY DEF IInv, TypeOK
<1>4. QED
  BY <1>2, <1>3 DEF IInv, TypeOK, Row, CallOK, Calls

\* A step that leaves main, the runtime, the files and the counts alone, and only
\* may touch a branch, is quiet.
LEMMA QuietSide ==
    ASSUME IInv, NEW p \in Proc,
           main' = main, runtime' = runtime, UNCHANGED <<files, lock, authority, spent>>,
           branch' \in [RowId -> {"none", "open", "changed", "merged"}]
    PROVE  Side(p)
BY DEF IInv, TypeOK, Side, MainGoes, Later, Asks, files, authority, Tip

\* Giving a row to a person keeps the invariant, from anywhere.
LEMMA AttentionKeeps ==
    ASSUME IInv, NEW p \in Proc, call[p].at # "idle", Side(p), Attention(p)
    PROVE  IInv'
<1>1. call' = [call EXCEPT ![p] = Given(call[p])]
  BY DEF Attention, Record, Move, Given, Moved, Row
<1>2. /\ CallOK(Given(call[p]), saved, passed', runtime', spent')
      /\ Given(call[p]) \in Calls
  BY InCall, GivenOK
<1>3. Given(call[p]) \in Calls'
  BY <1>2, MainGrows DEF Side, IInv
<1>4. Given(call[p]).at # "idle"
  BY DEF Given, Moved
<1>5. QED
  BY <1>1, <1>2, <1>3, <1>4, CallStep

\* So does leaving a call.
LEMMA LeftKeeps ==
    ASSUME IInv, NEW p \in Proc, call[p].at # "idle", Side(p), Goto(p, "release")
    PROVE  IInv'
<1>1. call' = [call EXCEPT ![p] = Left(call[p])]
  BY DEF Goto, Move, Left, Moved, Row
<1>2. runtime.source \in Nat /\ runtime'.source \in Nat
  BY InCall, MainGrows DEF Side, IInv
<1>3. /\ CallOK(Left(call[p]), saved, passed', runtime', spent')
      /\ Left(call[p]) \in Calls
  BY <1>2, InCall, LeftOK DEF Side
<1>4. Left(call[p]) \in Calls'
  BY <1>3, MainGrows DEF Side, IInv
<1>5. Left(call[p]).at # "idle"
  BY DEF Left, Moved
<1>6. QED
  BY <1>1, <1>3, <1>4, <1>5, CallStep

\* So does answering a failed deployment by a rollback.
LEMMA UndeployedKeeps ==
    ASSUME IInv, NEW p \in Proc, call[p].at \notin {"idle", "release"},
           Row(p).state \in Deploying, Side(p), UNCHANGED <<passed, spent>>,
           Undeployed(p) \/ Record(p, Row(p), "verification_failed")
    PROVE  IInv'
<1>1. CASE Goto(p, "release")
  BY <1>1, LeftKeeps
<1>2. CASE Record(p, Row(p), "verification_failed")
  <2>1. call' = [call EXCEPT ![p] = Failed(call[p])]
    BY <1>2 DEF Record, Move, Failed, Moved, Row
  <2>2. /\ CallOK(Failed(call[p]), saved, passed', runtime', spent')
        /\ Failed(call[p]) \in Calls
    BY InCall, FailedOK
  <2>3. Failed(call[p]) \in Calls'
    BY <2>2, MainGrows DEF Side, IInv
  <2>4. Failed(call[p]).at # "idle"
    BY DEF Failed, Moved
  <2>5. QED
    BY <2>1, <2>2, <2>3, <2>4, CallStep
<1>3. QED
  BY <1>1, <1>2 DEF Undeployed

\* A row about to be saved.
LEMMA RecordKeeps ==
    ASSUME IInv, NEW p \in Proc, call[p].at # "idle", Side(p),
           NEW row, row \in Rows', NEW s \in RowStates \ {"new"}, Record(p, row, s),
           row.of \in RowId, row.base # 0,
           RowOK(In(row, s), passed', runtime'),
           s \in Unreviewed => spent'[<<call[p].i, "review">>] = 0,
           s \in Unmerged => spent'[<<call[p].i, "merge">>] = 0,
           s \in Unrolled => spent'[<<call[p].i, "rollback">>] = 0
    PROVE  IInv'
<1> DEFINE c == Moved(call[p], "save", In(row, s))
<1>1. call' = [call EXCEPT ![p] = c]
  BY DEF Record, Move, Moved
<1>2. In(row, s) \in Rows'
  BY DEF In, Rows
<1>3. c.i = call[p].i /\ c.at = "save" /\ c.by = call[p].by /\ c.row = In(row, s)
  BY DEF Moved
<1>4. c \in Calls'
  BY <1>2, InCall DEF Calls, Stages, Moved
<1>5. CallOK(c, saved, passed', runtime', spent')
  <2>1. In(row, s).state = s /\ In(row, s).of = row.of /\ In(row, s).base = row.base
    BY DEF In
  <2> HIDE DEF c
  <2>2. QED
    BY <1>3, <2>1, InCall DEF CallOK, Place
<1> HIDE DEF c
<1>6. QED
  BY <1>1, <1>3, <1>4, <1>5, CallStep

\* A call that goes on with the row it has.
LEMMA GotoKeeps ==
    ASSUME IInv, NEW p \in Proc, call[p].at \notin {"idle", "save", "release"}, Side(p),
           UNCHANGED spent,
           NEW s \in Stages \ {"save", "release", "hold", "inspect", "rollbackCheckout"},
           Goto(p, s), Place(s, Row(p).state),
           \/ call[p].at \notin {"rollbackCheckout", "rollbackRestart"}
           \/ s = "rollbackRestart",
           s = "rollbackRestart" => Row(p).back # 0
    PROVE  IInv'
<1> DEFINE c == Moved(call[p], s, Row(p))
<1>1. call' = [call EXCEPT ![p] = c]
  BY DEF Goto, Move, Moved
<1>2. c.i = call[p].i /\ c.at = s /\ c.by = call[p].by /\ c.row = Row(p)
  BY DEF Moved
<1>3. Row(p) \in Rows'
  BY InCall, MainGrows DEF Side, IInv
<1>4. c \in Calls' /\ c.at # "idle"
  BY <1>3, InCall DEF Calls, Stages, Moved
<1>5. RowOK(Row(p), passed', runtime')
  <2>1. runtime.source \in Nat /\ runtime'.source \in Nat
    BY InCall, MainGrows DEF Side, IInv
  <2>2. Row(p).merge \in Nat /\ Row(p).back \in Nat
    BY InCall DEF Rows, Commit
  <2>3. RowOK(Row(p), passed, runtime)
    BY InCall DEF CallOK
  <2>4. QED
    BY <2>1, <2>2, <2>3, RowLater DEF Side
<1>6. CallOK(c, saved, passed', runtime', spent')
  <2> HIDE DEF c
  <2>1. CallOK(call[p], saved, passed, runtime, spent) /\ Row(p) = call[p].row
    BY InCall
  <2>2. QED
    BY <1>2, <1>5, <2>1 DEF CallOK
<1> HIDE DEF c
<1>7. QED
  BY <1>1, <1>4, <1>6, CallStep

\* Nothing but the call changes.
Quiet == UNCHANGED <<remote, runtime, files, lock, authority, spent>>

\* Such a step is one that CallStep allows.
LEMMA QuietIs ==
    ASSUME IInv, NEW p \in Proc, Quiet
    PROVE  Side(p) /\ Rows' = Rows /\ UNCHANGED <<main, passed, runtime, spent>>
<1>1. Side(p)
  BY QuietSide DEF Quiet, remote, IInv, TypeOK
<1>2. QED
  BY <1>1 DEF Quiet, remote, files, Rows, Commit

\* A row saved as it is, but for its state.
LEMMA RenameKeeps ==
    ASSUME IInv, NEW p \in Proc,
           call[p].at \notin {"idle", "save", "release", "rollbackCheckout", "rollbackRestart"},
           Side(p), UNCHANGED <<passed, runtime, spent>>,
           NEW s \in RowStates \ {"new"}, Record(p, Row(p), s),
           s \in Reviewed => Row(p).of \in passed,
           s \in Merged => Row(p).merge # 0,
           s # "needs_attention" => Row(p).snap # 0,
           s \in {"rollback_executed", "rolled_back"} => Row(p).back # 0,
           s = "complete" => runtime = [source |-> Row(p).merge, boot |-> Row(p).merge],
           s = "rolled_back" => runtime = [source |-> Row(p).back, boot |-> Row(p).back],
           s \in Unreviewed => Row(p).state \in Unreviewed,
           s \in Unmerged => Row(p).state \in Unmerged,
           s \in Unrolled => Row(p).state \in Unrolled
    PROVE  IInv'
<1>1. Row(p) \in Rows' /\ Row(p) \in Rows
  BY InCall, MainGrows DEF Side, IInv
<1>2. /\ s \in Unreviewed => spent'[<<call[p].i, "review">>] = 0
      /\ s \in Unmerged => spent'[<<call[p].i, "merge">>] = 0
      /\ s \in Unrolled => spent'[<<call[p].i, "rollback">>] = 0
  BY InCall DEF CallOK
<1>3. RowOK(In(Row(p), s), passed', runtime')
  <2> DEFINE row == In(Row(p), s)
  <2>1. /\ row.state = s /\ row.of = Row(p).of /\ row.base = Row(p).base
        /\ row.snap = Row(p).snap /\ row.merge = Row(p).merge /\ row.back = Row(p).back
    BY DEF In
  <2>2. Row(p).merge \in Nat /\ Row(p).back \in Nat
    BY <1>1 DEF Rows, Commit
  <2>3. /\ Row(p).merge # 0 => Row(p).snap < Row(p).merge
        /\ Row(p).of \in RowId /\ Row(p).base # 0
    BY InCall DEF CallOK, RowOK
  <2> HIDE DEF row
  <2>4. passed' = passed /\ runtime' = runtime /\ s # "new"
    OBVIOUS
  <2>5. s = "complete" =>
           row.merge <= runtime.source /\ (runtime.source = row.merge => runtime.boot = row.merge)
    BY <2>1, <2>2
  <2>6. s = "rolled_back" =>
           row.back <= runtime.source /\ (runtime.source = row.back => runtime.boot = row.back)
    BY <2>1, <2>2
  <2>7. RowOK(row, passed', runtime')
    BY <2>1, <2>3, <2>4, <2>5, <2>6 DEF RowOK
  <2>8. QED
    BY <2>7 DEF row
<1>4. QED
  BY <1>1, <1>2, <1>3, InCall, RecordKeeps

-----------------------------------------------------------------------------
(* From the preflight to the merge, one lemma per action *)

\* The preflight names the runtime that is saved.
LEMMA InspectKeeps ==
    ASSUME IInv, NEW p \in Proc, Inspect(p)
    PROVE  IInv'
<1>1. call[p].at = "inspect" /\ Quiet
  BY DEF Inspect, At, Quiet, remote, files, authority, bounds
<1>2. Side(p) /\ Rows' = Rows /\ UNCHANGED <<passed, runtime, spent>>
  BY <1>1, QuietIs
<1>3. CASE Attention(p)
  BY <1>1, <1>2, <1>3, AttentionKeeps
<1> DEFINE row == [Row(p) EXCEPT !.snap = runtime.source]
<1>4. ASSUME NEW s \in {"needs_attention", "needs_reconciliation", "preflight"},
             Record(p, row, s)
      PROVE  IInv'
  <2>1. /\ Row(p).state = "new" /\ Row(p).merge = 0
        /\ spent[<<call[p].i, "review">>] = 0 /\ spent[<<call[p].i, "merge">>] = 0
        /\ spent[<<call[p].i, "rollback">>] = 0
    BY <1>1, InCall DEF CallOK, Place, Unreviewed, Unmerged, Unrolled, RowStates
  <2>2. row \in Rows /\ row.snap # 0 /\ row.merge = 0 /\ row.of = Row(p).of
        /\ row.base = Row(p).base
    BY <1>1, <2>1, InCall DEF Rows, Commit, Tip
  <2> HIDE DEF row
  <2>3. RowOK(In(row, s), passed', runtime')
    <3>1. /\ In(row, s).state = s /\ In(row, s).merge = 0 /\ In(row, s).snap # 0
          /\ In(row, s).of \in RowId /\ In(row, s).base # 0
      BY <2>2, InCall, <1>1 DEF In
    <3>2. QED
      BY <3>1 DEF RowOK, Reviewed, Merged
  <2>4. s \in RowStates \ {"new"}
    BY DEF RowStates, Ended, Passing
  <2>5. row.of \in RowId /\ row.base # 0
    BY <2>2, InCall, <1>1
  <2>6. QED
    BY <1>1, <1>2, <1>4, <2>1, <2>2, <2>3, <2>4, <2>5, RecordKeeps
<1>5. QED
  BY <1>3, <1>4 DEF Inspect

\* A pull request opened changes nothing of what is settled.
LEMMA PrepareKeeps ==
    ASSUME IInv, NEW p \in Proc, Prepare(p)
    PROVE  IInv'
<1>1. call[p].at = "prepare" /\ UNCHANGED <<main, runtime, files, lock, authority, spent>>
  BY DEF Prepare, At, files, authority, bounds
<1>2. Side(p)
  <2>1. branch' \in [RowId -> {"none", "open", "changed", "merged"}]
    BY DEF Prepare, Attention, IInv, TypeOK
  <2>2. QED
    BY <1>1, <2>1, QuietSide
<1>3. CASE Attention(p)
  BY <1>1, <1>2, <1>3, AttentionKeeps
<1>4. CASE Record(p, Row(p), "pr_prepared")
  <2>1. Row(p).state = "preflight" /\ Row(p).snap # 0
    BY <1>1, InCall DEF CallOK, Place, RowOK
  <2>2. QED
    BY <1>1, <1>2, <1>4, <2>1, RenameKeeps
    DEF files, RowStates, Passing, Reviewed, Merged, Unreviewed, Unmerged, Unrolled
<1>5. QED
  BY <1>3, <1>4 DEF Prepare

\* Only a reviewed candidate is accepted.
LEMMA AcceptKeeps ==
    ASSUME IInv, NEW p \in Proc, Accept(p)
    PROVE  IInv'
<1>1. call[p].at = "accept" /\ Quiet
  BY DEF Accept, At, Quiet, remote, files, authority, bounds
<1>2. Side(p) /\ UNCHANGED <<passed, runtime, spent>>
  BY <1>1, QuietIs
<1>3. CASE Attention(p)
  BY <1>1, <1>2, <1>3, AttentionKeeps
<1>4. CASE Acceptable(Row(p).of) /\ Record(p, Row(p), "accepted_committed")
  <2>1. Row(p).state = "preflight" /\ Row(p).snap # 0 /\ Row(p).of \in passed
    BY <1>1, <1>4, InCall DEF CallOK, Place, RowOK, Acceptable
  <2>2. QED
    BY <1>1, <1>2, <1>4, <2>1, RenameKeeps
    DEF RowStates, Passing, Reviewed, Merged, Unreviewed, Unmerged, Unrolled
<1>5. QED
  BY <1>3, <1>4 DEF Accept

\* What a row that is on file asks for, once.
LEMMA SpendSide ==
    ASSUME IInv, NEW p \in Proc, call[p].at # "idle",
           NEW w \in {"review", "merge", "rollback"}, Spend(p, w),
           saved[call[p].i].state \notin {"new"} \cup Resumable,
           spent[<<call[p].i, w>>] = 0,
           UNCHANGED <<saved, lock, grants, expired, runtime>>, MainGoes,
           branch' \in [RowId -> {"none", "open", "changed", "merged"}],
           passed \subseteq passed', passed' \subseteq RowId
    PROVE  /\ Side(p)
           /\ \A v \in {"review", "merge", "rollback"} \ {w} :
                 spent'[<<call[p].i, v>>] = spent[<<call[p].i, v>>]
<1>1. spent' = [spent EXCEPT ![<<call[p].i, w>>] = @ + 1]
  BY DEF Spend
<1>2. Asks(call[p].i)
  BY <1>1 DEF Asks
<1>3. runtime' \in [source : 1 .. Tip', boot : 1 .. Tip'] /\ Later(runtime, runtime')
  <2>1. runtime \in [source : 1 .. Tip, boot : 1 .. Tip] /\ Tip \in Nat /\ Tip' \in Nat
        /\ Tip <= Tip'
    BY MainGrows DEF IInv, TypeOK
  <2>2. QED
    BY <2>1 DEF Later
<1>4. spent \in [Effects -> Nat]
  BY DEF IInv, TypeOK
<1>5. \A v \in {"review", "merge", "rollback"} \ {w} :
         spent'[<<call[p].i, v>>] = spent[<<call[p].i, v>>]
  <2>1. call[p].i \in RowId
    BY InCall
  <2>2. \A v \in {"review", "merge", "rollback"} : <<call[p].i, v>> \in Effects
    BY <2>1 DEF Effects
  <2>3. QED
    BY <1>1, <1>4, <2>2
<1>6. QED
  BY <1>2, <1>3, <1>5 DEF Side

\* The receipt is there when the row says reviewed, and was asked for once.
LEMMA ReviewKeeps ==
    ASSUME IInv, NEW p \in Proc, Review(p)
    PROVE  IInv'
<1>1. /\ call[p].at = "review" /\ Spend(p, "review")
      /\ UNCHANGED <<main, branch, runtime, saved, lock, grants, expired>>
  BY DEF Review, At, remote, authority, bounds
<1>2. /\ Row(p).state \in {"pr_prepared", "reviewing"} /\ Row(p).snap # 0
      /\ saved[call[p].i].state = Row(p).state
      /\ spent[<<call[p].i, "review">>] = 0 /\ spent[<<call[p].i, "merge">>] = 0
      /\ spent[<<call[p].i, "rollback">>] = 0
  <2>1. CallOK(call[p], saved, passed, runtime, spent) /\ Row(p) = call[p].row
    BY <1>1, InCall
  <2>2. Row(p).state \in {"pr_prepared", "reviewing"}
    BY <1>1, <2>1 DEF CallOK, Place
  <2>3. Row(p).state \in Unrolled
    BY <2>2 DEF Unrolled, RowStates, Passing
  <2>4. QED
    BY <1>1, <2>1, <2>2, <2>3 DEF CallOK, RowOK, Unreviewed, Unmerged
<1>3. passed \subseteq passed' /\ passed' \subseteq RowId
  BY <1>1, InCall DEF Review, IInv, TypeOK
<1>4. /\ Side(p)
      /\ spent'[<<call[p].i, "merge">>] = 0 /\ spent'[<<call[p].i, "rollback">>] = 0
  <2>1. branch' \in [RowId -> {"none", "open", "changed", "merged"}] /\ MainGoes
    BY <1>1 DEF IInv, TypeOK, MainGoes
  <2>2. saved[call[p].i].state \notin {"new"} \cup Resumable
    BY <1>2 DEF Resumable
  <2>3. QED
    BY <1>1, <1>2, <1>3, <2>1, <2>2, SpendSide
<1>5. CASE Attention(p)
  BY <1>1, <1>4, <1>5, AttentionKeeps
<1>6. CASE Row(p).of \in passed' /\ Record(p, Row(p), "reviewed")
  <2>1. Row(p) \in Rows' /\ Row(p).of \in RowId /\ Row(p).base # 0
    BY <1>1, <1>4, InCall, MainGrows DEF Side, IInv
  <2>2. RowOK(In(Row(p), "reviewed"), passed', runtime')
    <3>1. Row(p).merge # 0 => Row(p).snap < Row(p).merge
      BY <1>1, InCall DEF CallOK, RowOK
    <3>2. QED
      BY <1>2, <1>6, <2>1, <3>1 DEF RowOK, In, Merged
  <2>3. "reviewed" \in RowStates \ {"new"} /\ "reviewed" \notin Unreviewed
    BY DEF RowStates, Passing, Unreviewed
  <2>4. QED
    BY <1>1, <1>4, <1>6, <2>1, <2>2, <2>3, RecordKeeps
<1>7. QED
  BY <1>5, <1>6 DEF Review

\* A call that holds before the review did not ask for it.
LEMMA HoldKeeps ==
    ASSUME IInv, NEW p \in Proc, Hold(p)
    PROVE  IInv'
<1>1. call[p].at = "hold" /\ Quiet
  BY DEF Hold, At, Quiet, remote, files, authority, bounds
<1>2. Side(p) /\ UNCHANGED <<passed, runtime, spent>>
  BY <1>1, QuietIs
<1>3. /\ Row(p).state \in {"pr_prepared", "reviewed"} /\ Row(p).snap # 0
      /\ call[p].by # "review" => Row(p).state = "pr_prepared"
  BY <1>1, InCall DEF CallOK, Place, RowOK
<1>4. CASE Record(p, Row(p), "reviewed_hold")
  BY <1>1, <1>2, <1>3, <1>4, RenameKeeps
  DEF RowStates, Passing, Ended, Reviewed, Merged, Unreviewed, Unmerged, Unrolled
<1>5. CASE call[p].by # "review" /\ Record(p, Row(p), "awaiting_review")
  BY <1>1, <1>2, <1>3, <1>5, RenameKeeps
  DEF RowStates, Passing, Resumable, Reviewed, Merged, Unreviewed, Unmerged, Unrolled
<1>6. QED
  BY <1>4, <1>5 DEF Hold

\* A gated row is a reviewed one.
LEMMA GateKeeps ==
    ASSUME IInv, NEW p \in Proc, Gate(p)
    PROVE  IInv'
<1>1. call[p].at = "gate" /\ Quiet
  BY DEF Gate, At, Quiet, remote, files, authority, bounds
<1>2. Side(p) /\ UNCHANGED <<passed, runtime, spent>>
  BY <1>1, QuietIs
<1>3. CASE Attention(p)
  BY <1>1, <1>2, <1>3, AttentionKeeps
<1>4. CASE Record(p, Row(p), "gated")
  <2>1. /\ Row(p).state \in {"reviewed", "accepted_committed"} /\ Row(p).snap # 0
        /\ Row(p).of \in passed
    BY <1>1, InCall DEF CallOK, Place, RowOK, Reviewed
  <2>2. QED
    BY <1>1, <1>2, <1>4, <2>1, RenameKeeps
    DEF RowStates, Passing, Reviewed, Merged, Unreviewed, Unmerged, Unrolled
<1>5. QED
  BY <1>3, <1>4 DEF Gate

\* The last look changes nothing.
LEMMA RecheckKeeps ==
    ASSUME IInv, NEW p \in Proc, Recheck(p)
    PROVE  IInv'
<1>1. call[p].at = "recheck" /\ Quiet
  BY DEF Recheck, At, Quiet, remote, files, authority, bounds
<1>2. Side(p) /\ UNCHANGED spent
  BY <1>1, QuietIs
<1>3. CASE Attention(p)
  BY <1>1, <1>2, <1>3, AttentionKeeps
<1>4. CASE Goto(p, "merge")
  <2>1. Place("merge", Row(p).state)
    BY <1>1, InCall DEF CallOK, Place
  <2>2. QED
    BY <1>1, <1>2, <1>4, <2>1, GotoKeeps DEF Stages
<1>5. QED
  BY <1>3, <1>4 DEF Recheck

\* A merge is asked for once, and is later than the saved runtime.
LEMMA MergeKeeps ==
    ASSUME IInv, NEW p \in Proc, Merge(p)
    PROVE  IInv'
<1>1. /\ call[p].at = "merge" /\ Spend(p, "merge")
      /\ UNCHANGED <<runtime, saved, passed, lock, grants, expired>>
  BY DEF Merge, At, files, authority, bounds
<1>2. /\ Row(p).state = "gated" /\ Row(p).snap # 0 /\ Row(p).of \in passed
      /\ Row(p).of \in RowId /\ Row(p).base # 0 /\ Row(p) \in Rows
      /\ saved[call[p].i].state = "gated"
      /\ spent[<<call[p].i, "merge">>] = 0 /\ spent[<<call[p].i, "rollback">>] = 0
  <2>1. CallOK(call[p], saved, passed, runtime, spent) /\ Row(p) = call[p].row
    BY <1>1, InCall
  <2>2. Row(p).state = "gated"
    BY <1>1, <2>1 DEF CallOK, Place
  <2>3. Row(p).state \in Unrolled
    BY <2>2 DEF Unrolled, RowStates, Passing
  <2>4. QED
    BY <1>1, <2>1, <2>2, <2>3, InCall DEF CallOK, RowOK, Reviewed, Unmerged
<1>3. main \in Seq(SUBSET (RowId \cup Foreign)) /\ Tip \in Nat \ {0} /\ main[Tip] \in Trees
  BY <1>1, InCall DEF IInv, TypeOK, Tip, Trees
<1>4. MainGoes /\ branch' \in [RowId -> {"none", "open", "changed", "merged"}]
  <2>1. CASE UNCHANGED remote
    BY <2>1 DEF remote, MainGoes, IInv, TypeOK
  <2>2. CASE /\ main' = Append(main, main[Tip] \cup {Row(p).of})
             /\ branch' = [branch EXCEPT ![Row(p).of] = "merged"]
    <3>1. main[Tip] \cup {Row(p).of} \in Trees
      BY <1>2, <1>3 DEF Trees
    <3>2. QED
      BY <2>2, <3>1 DEF MainGoes, IInv, TypeOK
  <2>3. QED
    BY <2>1, <2>2 DEF Merge
<1>5. Side(p) /\ spent'[<<call[p].i, "rollback">>] = 0
  <2>1. saved[call[p].i].state \notin {"new"} \cup Resumable
    BY <1>2 DEF Resumable
  <2>2. passed \subseteq passed' /\ passed' \subseteq RowId
    BY <1>1 DEF IInv, TypeOK
  <2>3. QED
    BY <1>1, <1>2, <1>4, <2>1, <2>2, SpendSide
<1>6. CASE Attention(p)
  BY <1>1, <1>5, <1>6, AttentionKeeps
<1> DEFINE row == [Row(p) EXCEPT !.merge = Tip + 1]
<1>7. CASE /\ main' = Append(main, main[Tip] \cup {Row(p).of})
           /\ Record(p, row, "merged")
  <2>1. Tip' = Tip + 1
    BY <1>3, <1>7 DEF Tip
  <2>2. Row(p) \in Rows'
    BY <1>1, <1>4, InCall, MainGrows DEF IInv
  <2>3. /\ row \in Rows' /\ row.merge = Tip + 1 /\ row.of = Row(p).of
        /\ row.base = Row(p).base /\ row.snap = Row(p).snap
    BY <1>3, <2>1, <2>2 DEF Rows, Commit, Tip
  <2>4. Row(p).snap < Tip + 1
    BY <1>2, <1>3 DEF Rows, Commit, Tip
  <2> HIDE DEF row
  <2>5. RowOK(In(row, "merged"), passed', runtime')
    BY <1>1, <1>2, <1>3, <2>3, <2>4 DEF RowOK, In
  <2>6. "merged" \in RowStates \ {"new"} /\ "merged" \notin Unreviewed \cup Unmerged
    BY DEF RowStates, Passing, Unreviewed, Unmerged
  <2>7. row.of \in RowId /\ row.base # 0
    BY <1>2, <2>3
  <2>8. QED
    BY <1>1, <1>5, <1>7, <2>3, <2>5, <2>6, <2>7, RecordKeeps
<1>8. QED
  BY <1>6, <1>7 DEF Merge

-----------------------------------------------------------------------------
(* The deployment *)

\* A row that waits for the assistant to be idle was not rolled back.
LEMMA WitnessKeeps ==
    ASSUME IInv, NEW p \in Proc, Witness(p)
    PROVE  IInv'
<1>1. call[p].at = "witness" /\ Quiet
  BY DEF Witness, At, Quiet, remote, files, authority, bounds
<1>2. Side(p) /\ UNCHANGED <<passed, runtime, spent>>
  BY <1>1, QuietIs
<1>3. /\ Row(p).state \in {"merged", "awaiting_idle"} /\ Row(p).snap # 0
      /\ Row(p).of \in passed /\ Row(p).merge # 0
  BY <1>1, InCall DEF CallOK, Place, RowOK, Reviewed, Merged
<1>4. CASE Record(p, Row(p), "awaiting_idle")
  BY <1>1, <1>2, <1>3, <1>4, RenameKeeps
  DEF RowStates, Passing, Resumable, Unreviewed, Unmerged, Unrolled
<1>5. CASE Goto(p, "checkout")
  BY <1>1, <1>2, <1>3, <1>5, GotoKeeps DEF Stages, Place
<1>6. CASE Undeployed(p)
  BY <1>1, <1>2, <1>3, <1>6, UndeployedKeeps DEF Deploying
<1>7. QED
  BY <1>4, <1>5, <1>6 DEF Witness

\* A checkout of the merge goes forward on main.
LEMMA CheckoutKeeps ==
    ASSUME IInv, NEW p \in Proc, Checkout(p)
    PROVE  IInv'
<1>1. call[p].at = "checkout" /\ UNCHANGED <<remote, files, lock, authority, spent>>
  BY DEF Checkout, At, bounds
<1>2. /\ Row(p).state \in {"merged", "awaiting_idle"}
      /\ Row(p).merge # 0 /\ Row(p).snap < Row(p).merge /\ Row(p) \in Rows
  BY <1>1, InCall DEF CallOK, Place, RowOK, Merged
<1>3. CASE UNCHANGED runtime /\ Undeployed(p)
  <2>1. Side(p) /\ UNCHANGED passed
    BY <1>1, <1>3, QuietIs DEF Quiet, files
  <2>2. QED
    BY <1>1, <1>2, <1>3, <2>1, UndeployedKeeps DEF Deploying
<1>4. CASE /\ runtime.source = Row(p).snap
           /\ runtime' = [runtime EXCEPT !.source = Row(p).merge]
           /\ Goto(p, "restart") \/ Undeployed(p)
  <2>1. runtime' \in [source : 1 .. Tip', boot : 1 .. Tip'] /\ Later(runtime, runtime')
    <3>1. Tip' = Tip /\ Tip \in Nat \ {0} /\ runtime \in [source : 1 .. Tip, boot : 1 .. Tip]
      BY <1>1, InCall DEF Tip, remote, IInv, TypeOK
    <3>2. Row(p).merge \in 1 .. Tip
      BY <1>2, <3>1 DEF Rows, Commit, Tip
    <3>3. QED
      BY <1>2, <1>4, <3>1, <3>2 DEF Later
  <2>2. Side(p) /\ UNCHANGED <<passed, spent>>
    BY <1>1, <2>1 DEF Side, MainGoes, Asks, remote, files, authority, IInv, TypeOK
  <2>3. CASE Goto(p, "restart")
    BY <1>1, <1>2, <2>2, <2>3, GotoKeeps DEF Stages, Place
  <2>4. CASE Undeployed(p)
    BY <1>1, <1>2, <2>2, <2>4, UndeployedKeeps DEF Deploying
  <2>5. QED
    BY <1>4, <2>3, <2>4
<1>5. QED
  BY <1>3, <1>4 DEF Checkout

\* A restart, done or not, is no harm to what is settled.
LEMMA RestartSide ==
    ASSUME IInv, NEW p \in Proc, call[p].at # "idle", Restarted,
           UNCHANGED <<remote, files, lock, authority, spent>>
    PROVE  Side(p) /\ UNCHANGED <<passed, spent>> /\ runtime'.source = runtime.source
<1>1. Tip' = Tip /\ Tip \in Nat \ {0} /\ runtime \in [source : 1 .. Tip, boot : 1 .. Tip]
  BY InCall DEF Tip, remote, IInv, TypeOK
<1>2. /\ runtime' \in [source : 1 .. Tip', boot : 1 .. Tip'] /\ Later(runtime, runtime')
      /\ runtime'.source = runtime.source
  BY <1>1 DEF Later, Restarted
<1>3. QED
  BY <1>2 DEF Side, MainGoes, Asks, remote, files, authority, IInv, TypeOK

\* A restart, done or not, waiting or not, unsettles nothing.
LEMMA RestartKeeps ==
    ASSUME IInv, NEW p \in Proc, Restart(p)
    PROVE  IInv'
<1>1. /\ call[p].at = "restart" /\ UNCHANGED <<remote, files, lock, authority, spent>>
      /\ Restarted
  BY DEF Restart, At, bounds, Restarted
<1>2. Side(p) /\ UNCHANGED <<passed, spent>>
  BY <1>1, RestartSide
<1>3. /\ Row(p).state \in {"merged", "awaiting_idle", "awaiting_administrator",
                           "awaiting_reload_idle"}
      /\ Row(p).merge # 0 /\ Row(p).snap # 0 /\ Row(p).of \in passed
  BY <1>1, InCall DEF CallOK, Place, RowOK, Merged, Reviewed
<1>4. CASE Undeployed(p)
  BY <1>1, <1>2, <1>3, <1>4, UndeployedKeeps DEF Deploying
<1>5. CASE Record(p, Row(p), "awaiting_administrator") /\ UNCHANGED runtime
  BY <1>1, <1>2, <1>3, <1>5, RenameKeeps
  DEF RowStates, Passing, Resumable, Unreviewed, Unmerged, Unrolled
<1>6. CASE Goto(p, "verify")
  BY <1>1, <1>2, <1>3, <1>6, GotoKeeps DEF Stages, Place
<1>7. CASE Record(p, Row(p), "deployed")
  <2>1. Row(p) \in Rows' /\ Row(p).of \in RowId /\ Row(p).base # 0
    BY <1>1, <1>2, InCall, MainGrows DEF Side, IInv
  <2>2. spent'[<<call[p].i, "rollback">>] = 0
    <3>1. Row(p).state \in Unrolled
      BY <1>3 DEF Unrolled, RowStates, Resumable, Passing
    <3>2. QED
      BY <1>1, <1>2, <3>1, InCall DEF CallOK
  <2>3. RowOK(In(Row(p), "deployed"), passed', runtime')
    <3>1. Row(p).merge # 0 => Row(p).snap < Row(p).merge
      BY <1>1, InCall DEF CallOK, RowOK
    <3>2. QED
      BY <1>2, <1>3, <2>1, <3>1 DEF RowOK, In
  <2>4. "deployed" \in RowStates \ {"new"} /\ "deployed" \notin Unreviewed \cup Unmerged
    BY DEF RowStates, Passing, Unreviewed, Unmerged
  <2>5. QED
    BY <1>1, <1>2, <1>7, <2>1, <2>2, <2>3, <2>4, RecordKeeps
<1>8. QED
  BY <1>4, <1>5, <1>6, <1>7 DEF Restart

\* Complete is said of what is checked out and runs.
LEMMA VerifyKeeps ==
    ASSUME IInv, NEW p \in Proc, Verify(p)
    PROVE  IInv'
<1>1. call[p].at = "verify" /\ Quiet
  BY DEF Verify, At, Quiet, remote, files, authority, bounds
<1>2. Side(p) /\ UNCHANGED <<passed, runtime, spent>>
  BY <1>1, QuietIs
<1>3. /\ Row(p).state \in {"merged", "awaiting_idle", "deployed", "awaiting_administrator",
                           "awaiting_reload_idle"}
      /\ Row(p).merge # 0 /\ Row(p).snap # 0 /\ Row(p).of \in passed
  BY <1>1, InCall DEF CallOK, Place, RowOK, Merged, Reviewed
<1>4. CASE Undeployed(p) \/ Record(p, Row(p), "verification_failed")
  BY <1>1, <1>2, <1>3, <1>4, UndeployedKeeps DEF Deploying
<1>5. CASE /\ runtime = [source |-> Row(p).merge, boot |-> Row(p).merge]
           /\ Record(p, Row(p), "complete")
  <2>1. Row(p).state \in Unrolled
    BY <1>3 DEF Unrolled, RowStates, Resumable, Passing
  <2>2. "complete" \in RowStates \ {"new"} /\ "complete" \notin Unreviewed \cup Unmerged
    BY DEF RowStates, Ended, Unreviewed, Unmerged
  <2>3. QED
    BY <1>1, <1>2, <1>3, <1>5, <2>1, <2>2, RenameKeeps
<1>6. QED
  BY <1>4, <1>5 DEF Verify

-----------------------------------------------------------------------------
(* The rollback *)

\* The decision to roll back changes nothing.
LEMMA RollbackKeeps ==
    ASSUME IInv, NEW p \in Proc, Rollback(p)
    PROVE  IInv'
<1>1. call[p].at = "rollback" /\ Quiet
  BY DEF Rollback, At, Quiet, remote, files, authority, bounds
<1>2. Side(p) /\ UNCHANGED spent
  BY <1>1, QuietIs
<1>3. CASE Attention(p)
  BY <1>1, <1>2, <1>3, AttentionKeeps
<1>4. CASE Goto(p, "rollbackMerge")
  <2>1. Place("rollbackMerge", Row(p).state)
    BY <1>1, InCall DEF CallOK, Place
  <2>2. QED
    BY <1>1, <1>2, <1>4, <2>1, GotoKeeps DEF Stages
<1>5. QED
  BY <1>3, <1>4 DEF Rollback

\* The forward commit is asked for once, and is later than what is checked out.
LEMMA RollbackMergeKeeps ==
    ASSUME IInv, NEW p \in Proc, RollbackMerge(p)
    PROVE  IInv'
<1>1. /\ call[p].at = "rollbackMerge" /\ Spend(p, "rollback")
      /\ UNCHANGED <<branch, runtime, saved, passed, lock, grants, expired>>
  BY DEF RollbackMerge, At, files, authority, bounds
<1>2. CallOK(call[p], saved, passed, runtime, spent) /\ Row(p) = call[p].row /\ Row(p) \in Rows
  BY <1>1, InCall
<1>3. /\ Row(p).state = "verification_failed" /\ Row(p).snap # 0 /\ Row(p).merge # 0
      /\ saved[call[p].i].state = "verification_failed"
      /\ spent[<<call[p].i, "rollback">>] = 0
  <2>1. Row(p).state = "verification_failed"
    BY <1>1, <1>2 DEF CallOK, Place
  <2>2. Row(p).state \in Unrolled
    BY <2>1 DEF Unrolled, RowStates, Passing
  <2>3. QED
    BY <1>1, <1>2, <2>1, <2>2 DEF CallOK, RowOK, Merged
<1>4. main \in Seq(Trees) /\ Tip \in Nat \ {0}
  BY <1>1, InCall DEF IInv, TypeOK, Tip, Trees
<1> DEFINE bad == main[Row(p).merge]
           good == main[Row(p).snap]
           back == (main[Tip] \ (bad \ good)) \cup (good \ bad)
<1>5. back \in Trees
  <2>1. Row(p).merge \in 1 .. Len(main) /\ Row(p).snap \in 1 .. Len(main)
    BY <1>2, <1>3, <1>4 DEF Rows, Commit, Tip
  <2>2. good \in Trees /\ bad \in Trees /\ main[Tip] \in Trees
    BY <1>4, <2>1 DEF Tip
  <2>3. QED
    BY <2>2 DEF Trees
<1> HIDE DEF back
<1>6. main' = main \/ main' = Append(main, back)
  BY DEF RollbackMerge, back
<1>7. Side(p)
  <2>1. MainGoes
    BY <1>5, <1>6 DEF MainGoes
  <2>2. branch' \in [RowId -> {"none", "open", "changed", "merged"}] /\ passed' \subseteq RowId
    BY <1>1 DEF IInv, TypeOK
  <2>3. saved[call[p].i].state \notin {"new"} \cup Resumable
    BY <1>3 DEF Resumable
  <2>4. QED
    BY <1>1, <1>3, <2>1, <2>2, <2>3, SpendSide
<1>8. CASE Attention(p)
  BY <1>1, <1>7, <1>8, AttentionKeeps
<1> DEFINE row == [Row(p) EXCEPT !.back = Tip + 1]
           c == Moved(call[p], "rollbackCheckout", row)
<1>9. CASE /\ main' = Append(main, back)
           /\ Move(p, "rollbackCheckout", row)
  <2>1. call' = [call EXCEPT ![p] = c]
    BY <1>9 DEF Move, Moved
  <2>2. Tip' = Tip + 1 /\ Rows \subseteq Rows'
    BY <1>4, <1>7, <1>9, MainGrows DEF Tip, Side, IInv
  <2>3. /\ row \in Rows' /\ row.state = Row(p).state /\ row.merge = Row(p).merge
        /\ row.of = Row(p).of /\ row.base = Row(p).base /\ row.snap = Row(p).snap
        /\ row.back = Tip + 1
    BY <1>2, <1>4, <2>2 DEF Rows, Commit, Tip
  <2>4. runtime.source < row.back /\ row.back # 0
    BY <1>1, <2>3, InCall
  <2> HIDE DEF row
  <2>5. c.i = call[p].i /\ c.at = "rollbackCheckout" /\ c.by = call[p].by /\ c.row = row
    BY DEF Moved
  <2>6. c \in Calls'
    BY <1>1, <2>3, InCall DEF Calls, Stages, Moved
  <2>7. RowOK(row, passed', runtime')
    <3>1. RowOK(Row(p), passed, runtime)
      BY <1>2 DEF CallOK
    <3>2. QED
      BY <1>1, <1>3, <2>3, <2>4, <3>1 DEF RowOK
  <2> HIDE DEF c
  <2>8. CallOK(c, saved, passed', runtime', spent')
    <3>1. row.of \in RowId /\ row.base # 0 /\ c.i \in RowId
      BY <1>1, <2>3, <2>5, InCall
    <3>2. row.state = "verification_failed"
      BY <1>3, <2>3
    <3>3. "verification_failed" \notin Unreviewed \cup Unmerged
      BY DEF Unreviewed, Unmerged
    <3>4. QED
      BY <1>1, <1>3, <2>4, <2>5, <2>7, <3>1, <3>2, <3>3 DEF CallOK, Place
  <2>9. QED
    BY <1>1, <1>7, <2>1, <2>5, <2>6, <2>8, CallStep
<1>10. QED
  BY <1>8, <1>9 DEF RollbackMerge, back

\* A checkout of the forward commit goes forward on main.
LEMMA RollbackCheckoutKeeps ==
    ASSUME IInv, NEW p \in Proc, RollbackCheckout(p)
    PROVE  IInv'
<1>1. call[p].at = "rollbackCheckout" /\ UNCHANGED <<remote, files, lock, authority, spent>>
  BY DEF RollbackCheckout, At, bounds
<1>2. /\ Row(p).state = "verification_failed" /\ Row(p).back # 0
      /\ runtime.source < Row(p).back /\ Row(p) \in Rows
  BY <1>1, InCall DEF CallOK, Place
<1>3. Side(p)
  <2>1. CASE UNCHANGED runtime
    BY <1>1, <2>1, QuietIs DEF Quiet
  <2>2. CASE runtime' = [runtime EXCEPT !.source = Row(p).back]
    <3>1. Tip' = Tip /\ Tip \in Nat \ {0} /\ runtime \in [source : 1 .. Tip, boot : 1 .. Tip]
      BY <1>1, InCall DEF Tip, remote, IInv, TypeOK
    <3>2. Row(p).back \in 1 .. Tip
      BY <1>2, <3>1 DEF Rows, Commit, Tip
    <3>3. runtime' \in [source : 1 .. Tip', boot : 1 .. Tip'] /\ Later(runtime, runtime')
      BY <1>2, <2>2, <3>1, <3>2 DEF Later
    <3>4. QED
      BY <1>1, <3>3 DEF Side, MainGoes, Asks, remote, files, authority, IInv, TypeOK
  <2>3. QED
    BY <2>1, <2>2 DEF RollbackCheckout
<1>4. CASE Attention(p)
  BY <1>1, <1>3, <1>4, AttentionKeeps
<1>5. CASE Goto(p, "rollbackRestart")
  BY <1>1, <1>2, <1>3, <1>5, GotoKeeps DEF Stages, Place
<1>6. QED
  BY <1>4, <1>5 DEF RollbackCheckout

\* A rollback that was executed names its commit.
LEMMA RollbackRestartKeeps ==
    ASSUME IInv, NEW p \in Proc, RollbackRestart(p)
    PROVE  IInv'
<1>1. /\ call[p].at = "rollbackRestart" /\ Restarted
      /\ UNCHANGED <<remote, files, lock, authority, spent>>
  BY DEF RollbackRestart, At, bounds
<1>2. Side(p) /\ UNCHANGED passed
  BY <1>1, RestartSide
<1>3. CASE Attention(p)
  BY <1>1, <1>2, <1>3, AttentionKeeps
<1>4. CASE Record(p, Row(p), "rollback_executed")
  <2>1. Row(p) \in Rows' /\ Row(p).of \in RowId /\ Row(p).base # 0
    BY <1>1, <1>2, InCall, MainGrows DEF Side, IInv
  <2>2. /\ Row(p).state = "verification_failed" /\ Row(p).back # 0
        /\ Row(p).snap # 0 /\ Row(p).merge # 0 /\ Row(p).snap < Row(p).merge
        /\ Row(p).of \in passed
    BY <1>1, InCall DEF CallOK, Place, RowOK, Reviewed, Merged
  <2>3. RowOK(In(Row(p), "rollback_executed"), passed', runtime')
    BY <1>2, <2>1, <2>2 DEF RowOK, In
  <2>4. /\ "rollback_executed" \in RowStates \ {"new"}
        /\ "rollback_executed" \notin (Unreviewed \cup Unmerged) \cup Unrolled
    BY DEF RowStates, Passing, Unreviewed, Unmerged, Unrolled
  <2>5. QED
    BY <1>1, <1>2, <1>4, <2>1, <2>3, <2>4, RecordKeeps
<1>5. QED
  BY <1>3, <1>4 DEF RollbackRestart

\* Rolled back is said of what is checked out and runs.
LEMMA VerifyRollbackKeeps ==
    ASSUME IInv, NEW p \in Proc, VerifyRollback(p)
    PROVE  IInv'
<1>1. call[p].at = "verifyRollback" /\ Quiet
  BY DEF VerifyRollback, At, Quiet, remote, files, authority, bounds
<1>2. Side(p) /\ UNCHANGED <<passed, runtime, spent>>
  BY <1>1, QuietIs
<1>3. CASE Attention(p)
  BY <1>1, <1>2, <1>3, AttentionKeeps
<1>4. CASE /\ runtime = [source |-> Row(p).back, boot |-> Row(p).back]
           /\ Record(p, Row(p), "rolled_back")
  <2>1. /\ Row(p).state = "rollback_executed" /\ Row(p).back # 0 /\ Row(p).snap # 0
        /\ Row(p).merge # 0 /\ Row(p).of \in passed
    BY <1>1, InCall DEF CallOK, Place, RowOK, Reviewed, Merged
  <2>2. /\ "rolled_back" \in RowStates \ {"new"}
        /\ "rolled_back" \notin (Unreviewed \cup Unmerged) \cup Unrolled
    BY DEF RowStates, Ended, Unreviewed, Unmerged, Unrolled
  <2>3. QED
    BY <1>1, <1>2, <1>4, <2>1, <2>2, RenameKeeps
<1>5. QED
  BY <1>3, <1>4 DEF VerifyRollback

-----------------------------------------------------------------------------
(* What a resume looks at first, and a save that throws *)

\* The intention to review is recorded before the review is asked for.
LEMMA RecheckReviewKeeps ==
    ASSUME IInv, NEW p \in Proc, RecheckReview(p)
    PROVE  IInv'
<1>1. call[p].at = "recheckReview" /\ Quiet
  BY DEF RecheckReview, At, Quiet, remote, files, authority, bounds
<1>2. Side(p) /\ UNCHANGED <<passed, runtime, spent>>
  BY <1>1, QuietIs
<1>3. CASE Attention(p)
  BY <1>1, <1>2, <1>3, AttentionKeeps
<1>4. CASE Record(p, Row(p), "reviewing")
  <2>1. Row(p).state = "awaiting_review" /\ Row(p).snap # 0
    BY <1>1, InCall DEF CallOK, Place, RowOK
  <2>2. QED
    BY <1>1, <1>2, <1>4, <2>1, RenameKeeps
    DEF RowStates, Resumable, Passing, Reviewed, Merged, Unreviewed, Unmerged, Unrolled
<1>5. QED
  BY <1>3, <1>4 DEF RecheckReview

\* A pending deployment is taken up, left waiting, or given to a person.
LEMMA RecheckPendingKeeps ==
    ASSUME IInv, NEW p \in Proc, RecheckPending(p)
    PROVE  IInv'
<1>1. call[p].at = "recheckPending" /\ Quiet
  BY DEF RecheckPending, At, Quiet, remote, files, authority, bounds
<1>2. Side(p) /\ UNCHANGED <<passed, runtime, spent>>
  BY <1>1, QuietIs
<1>3. CASE Attention(p)
  BY <1>1, <1>2, <1>3, AttentionKeeps
<1>4. CASE Goto(p, "release")
  BY <1>1, <1>2, <1>4, LeftKeeps
<1>5. CASE Goto(p, "witness")
  <2>1. Place("witness", Row(p).state)
    BY <1>1, InCall DEF CallOK, Place
  <2>2. QED
    BY <1>1, <1>2, <1>5, <2>1, GotoKeeps DEF Stages
<1>6. QED
  BY <1>3, <1>4, <1>5 DEF RecheckPending

\* So is a pending restart.
LEMMA RecheckDeployedKeeps ==
    ASSUME IInv, NEW p \in Proc, RecheckDeployed(p)
    PROVE  IInv'
<1>1. call[p].at = "recheckDeployed" /\ Quiet
  BY DEF RecheckDeployed, At, Quiet, remote, files, authority, bounds
<1>2. Side(p) /\ UNCHANGED <<passed, runtime, spent>>
  BY <1>1, QuietIs
<1>3. /\ Row(p).state \in {"awaiting_administrator", "awaiting_reload_idle"}
      /\ Row(p).snap # 0 /\ Row(p).merge # 0 /\ Row(p).of \in passed
  BY <1>1, InCall DEF CallOK, Place, RowOK, Merged, Reviewed
<1>4. CASE Attention(p)
  BY <1>1, <1>2, <1>4, AttentionKeeps
<1>5. CASE Goto(p, "release")
  BY <1>1, <1>2, <1>5, LeftKeeps
<1>6. CASE Goto(p, "restart")
  BY <1>1, <1>2, <1>3, <1>6, GotoKeeps DEF Stages, Place
<1>7. CASE Record(p, Row(p), "awaiting_reload_idle")
  BY <1>1, <1>2, <1>3, <1>7, RenameKeeps
  DEF RowStates, Resumable, Passing, Unreviewed, Unmerged, Unrolled
<1>8. QED
  BY <1>4, <1>5, <1>6, <1>7 DEF RecheckDeployed

\* A save that throws leaves a row that was, or is, in order.
LEMMA SaveFailsKeeps ==
    ASSUME IInv, NEW p \in Proc, SaveFails(p)
    PROVE  IInv'
<1>1. call[p].at = "save" /\ Quiet
  BY DEF SaveFails, At, Quiet, remote, files, authority
<1>2. Side(p) /\ UNCHANGED <<passed, runtime, spent>>
  BY <1>1, QuietIs
<1>3. CASE Attention(p)
  BY <1>1, <1>2, <1>3, AttentionKeeps
<1>4. CASE Goto(p, "release")
  BY <1>1, <1>2, <1>4, LeftKeeps
<1>5. CASE /\ Row(p).state \in {"deployed", "complete", "awaiting_idle",
                                "awaiting_administrator", "awaiting_reload_idle"}
           /\ Undeployed(p)
  BY <1>1, <1>2, <1>5, UndeployedKeeps DEF Deploying
<1>6. QED
  BY <1>3, <1>4, <1>5 DEF SaveFails

-----------------------------------------------------------------------------
(* Saving the row *)

\* After a save the call is where the state of its row belongs.
LEMMA OnwardsPlace ==
    ASSUME NEW row, row.state \in RowStates \ {"new"}, NEW by
    PROVE  LET at == Onwards(row, by) IN
           /\ at \in Stages \ {"inspect", "save", "rollbackCheckout", "rollbackRestart"}
           /\ Place(at, row.state)
           /\ at = "hold" /\ by # "review" => row.state = "pr_prepared"
<1>1. CASE row.state \in {"preflight", "pr_prepared", "reviewing", "reviewed",
                          "accepted_committed", "gated"}
  BY <1>1 DEF Onwards, Place, Stages
<1>2. CASE row.state \in {"merged", "deployed", "verification_failed", "rollback_executed"}
  BY <1>2 DEF Onwards, Place, Stages
<1>3. CASE row.state \in Resumable \cup Ended
  BY <1>3 DEF Onwards, Place, Stages, Resumable, Ended
<1>4. QED
  BY <1>1, <1>2, <1>3 DEF RowStates, Passing

\* The row on file is as good as the one the call carried.
LEMMA SaveKeeps ==
    ASSUME IInv, NEW p \in Proc, Save(p)
    PROVE  IInv'
<1> DEFINE i == call[p].i
           c == Moved(call[p], Onwards(Row(p), call[p].by), Row(p))
<1>1. /\ call[p].at = "save" /\ saved' = [saved EXCEPT ![i] = Row(p)]
      /\ call' = [call EXCEPT ![p] = c]
      /\ UNCHANGED <<main, branch, runtime, passed, lock, grants, expired, spent>>
  BY DEF Save, At, Goto, Move, Moved, remote, authority, bounds
<1>2. /\ i \in RowId /\ call[p] \in Calls /\ Row(p) \in Rows /\ Row(p) = call[p].row
      /\ CallOK(call[p], saved, passed, runtime, spent)
  BY <1>1, InCall
<1>3. Row(p).state \in RowStates \ {"new"}
  BY <1>1, <1>2 DEF CallOK, Place, Rows
<1>4. Rows' = Rows /\ Calls' = Calls
  BY <1>1 DEF Rows, Calls, Commit
<1>5. c.i = i /\ c.at = Onwards(Row(p), call[p].by) /\ c.by = call[p].by /\ c.row = Row(p)
  BY DEF Moved
<1>6. /\ c.at \in Stages \ {"inspect", "save", "rollbackCheckout", "rollbackRestart"}
      /\ Place(c.at, c.row.state)
      /\ c.at = "hold" /\ c.by # "review" => c.row.state = "pr_prepared"
  BY <1>3, <1>5, OnwardsPlace
<1>7. c \in Calls /\ c.at # "idle"
  BY <1>2, <1>6 DEF Calls, Moved, Stages
<1> HIDE DEF c, i
<1>8. TypeOK'
  <2>1. saved' \in [RowId -> Rows'] /\ call' \in [Proc -> Calls']
    BY <1>1, <1>2, <1>4, <1>7 DEF IInv, TypeOK
  <2>2. \A q \in Proc : call'[q] # Idle => lock' = q
    <3>1. call \in [Proc -> Calls] /\ lock = p
      BY <1>1 DEF IInv, TypeOK, Idle
    <3>2. QED
      BY <1>1, <3>1, Alone
  <2>3. QED
    BY <1>1, <2>1, <2>2 DEF IInv, TypeOK, Tip
<1>9. ASSUME NEW j \in RowId
      PROVE  SavedOK(j, saved'[j], passed', runtime', spent')
  <2>1. saved \in [RowId -> Rows] /\ SavedOK(j, saved[j], passed, runtime, spent)
    BY DEF IInv, TypeOK
  <2>2. CASE j # i
    BY <1>1, <2>1, <2>2
  <2>3. CASE j = i
    <3>1. saved'[j] = Row(p)
      BY <1>1, <1>2, <2>1, <2>3
    <3>2. RowOK(Row(p), passed, runtime)
      BY <1>2 DEF CallOK
    <3>3. /\ Row(p).state \in Unreviewed => spent[<<i, "review">>] = 0
          /\ Row(p).state \in Unmerged => spent[<<i, "merge">>] = 0
          /\ Row(p).state \in Unrolled => spent[<<i, "rollback">>] = 0
      BY <1>1, <1>2 DEF CallOK, i
    <3>4. /\ "awaiting_review" \in Unreviewed /\ "awaiting_review" \in Unmerged
          /\ Resumable \subseteq Unrolled
      BY DEF Unreviewed, Unmerged, Unrolled, RowStates, Resumable
    <3>5. QED
      BY <1>1, <1>3, <2>3, <3>1, <3>2, <3>3, <3>4 DEF SavedOK
  <2>4. QED
    BY <2>2, <2>3
<1>10. CallOK(c, saved', passed', runtime', spent')
  <2>1. saved'[c.i].state = c.row.state
    BY <1>1, <1>2, <1>5 DEF IInv, TypeOK
  <2>2. RowOK(c.row, passed', runtime')
    BY <1>1, <1>2, <1>5 DEF CallOK
  <2>3. /\ c.row.state \in Unreviewed => spent'[<<c.i, "review">>] = 0
        /\ c.row.state \in Unmerged => spent'[<<c.i, "merge">>] = 0
        /\ c.row.state \in Unrolled => spent'[<<c.i, "rollback">>] = 0
    BY <1>1, <1>2, <1>5 DEF CallOK, i
  <2>4. c.i \in RowId /\ c.row.of \in RowId /\ c.row.base # 0
    BY <1>1, <1>2, <1>5, InCall
  <2>5. QED
    BY <1>6, <2>1, <2>2, <2>3, <2>4 DEF CallOK
<1>11. ASSUME NEW q \in Proc
       PROVE  IF call'[q].at = "idle" THEN call'[q] = Idle
              ELSE CallOK(call'[q], saved', passed', runtime', spent')
  <2>1. call \in [Proc -> Calls]
    BY DEF IInv, TypeOK
  <2>2. CASE q = p
    BY <1>1, <1>7, <1>10, <2>1, <2>2
  <2>3. CASE q # p
    BY <1>1, <2>1, <2>3, Alone
  <2>4. QED
    BY <2>2, <2>3
<1>12. QED
  BY <1>1, <1>8, <1>9, <1>11 DEF IInv, NothingRepeated

-----------------------------------------------------------------------------
(* The entries *)

\* A call that is in order may begin while there is no lock file.
LEMMA EnterKeeps ==
    ASSUME IInv, NEW p \in Proc, NEW i \in RowId, NEW at \in Stages, NEW by \in Entries,
           NEW row \in Rows, Enter(p, i, at, by, row),
           grants' \in [Proc -> SUBSET RowId],
           CallOK([i |-> i, at |-> at, by |-> by, row |-> row], saved, passed, runtime, spent)
    PROVE  IInv'
<1> DEFINE c == [i |-> i, at |-> at, by |-> by, row |-> row]
<1>1. /\ lock = NoProc /\ lock' = p /\ call' = [call EXCEPT ![p] = c]
      /\ UNCHANGED <<main, branch, runtime, saved, passed, expired, spent>>
  BY DEF Enter, remote, files, bounds
<1>2. c \in Calls /\ c.at # "idle"
  BY DEF Calls, Stages
<1> HIDE DEF c
<1>3. Rows' = Rows /\ Calls' = Calls
  BY <1>1 DEF Rows, Calls, Commit
<1>4. call \in [Proc -> Calls] /\ \A q \in Proc : call[q] = Idle
  BY <1>1, PromotionNames DEF IInv, TypeOK
<1>5. TypeOK'
  <2>1. call' \in [Proc -> Calls'] /\ \A q \in Proc : call'[q] # Idle => lock' = q
    BY <1>1, <1>2, <1>3, <1>4
  <2>2. saved' \in [RowId -> Rows']
    BY <1>1, <1>3 DEF IInv, TypeOK
  <2>3. QED
    BY <1>1, <2>1, <2>2 DEF IInv, TypeOK, Tip
<1>6. ASSUME NEW q \in Proc
      PROVE  IF call'[q].at = "idle" THEN call'[q] = Idle
             ELSE CallOK(call'[q], saved', passed', runtime', spent')
  <2>1. CallOK(c, saved', passed', runtime', spent')
    BY <1>1 DEF c
  <2>2. Idle.at = "idle"
    BY DEF Idle
  <2>3. QED
    BY <1>1, <1>2, <1>4, <2>1, <2>2
<1>7. QED
  BY <1>1, <1>5, <1>6 DEF IInv, NothingRepeated

\* A call for a row that was not begun is in order.
LEMMA NewCall ==
    ASSUME IInv, NEW p \in Proc, NEW i \in RowId, saved[i] = NewRow,
           NEW row \in Rows, row.state = "new", row.merge = 0, row.of \in RowId, row.base # 0,
           Enter(p, i, "inspect", "finish", row),
           grants' \in [Proc -> SUBSET RowId]
    PROVE  IInv'
<1> DEFINE c == [i |-> i, at |-> "inspect", by |-> "finish", row |-> row]
<1>1. c.i = i /\ c.at = "inspect" /\ c.by = "finish" /\ c.row = row
  OBVIOUS
<1>2. /\ spent[<<i, "review">>] = 0 /\ spent[<<i, "merge">>] = 0
      /\ spent[<<i, "rollback">>] = 0 /\ saved[i].state = "new"
  BY DEF IInv, SavedOK, NewRow, RowFor
<1> HIDE DEF c
<1>3. RowOK(row, passed, runtime)
  BY DEF RowOK, Reviewed, Merged
<1>4. CallOK(c, saved, passed, runtime, spent)
  BY <1>1, <1>2, <1>3 DEF CallOK, Place
<1>5. QED
  BY <1>4, EnterKeeps DEF c, Stages, Entries

\* A promotion begins.
LEMMA FinishKeeps ==
    ASSUME IInv, NEW p \in Proc, NEW i \in RowId, Finish(p, i)
    PROVE  IInv'
<1>1. PICK held \in BOOLEAN, base \in 1 .. Tip :
         Enter(p, i, "inspect", "finish", RowFor(i, held, FALSE, base))
  BY DEF Finish
<1> DEFINE row == RowFor(i, held, FALSE, base)
<1>2. Tip \in Nat
  BY DEF IInv, TypeOK, Tip
<1>3. /\ row \in Rows /\ row.state = "new" /\ row.merge = 0 /\ row.of \in RowId
      /\ row.base # 0
  <2>1. row = [state |-> "new", of |-> i, held |-> held, ruled |-> FALSE, base |-> base,
               snap |-> 0, merge |-> 0, back |-> 0]
    BY DEF RowFor
  <2>2. base \in Commit /\ 0 \in Commit /\ base # 0
    BY <1>2 DEF Commit, Tip
  <2> HIDE DEF row
  <2>3. QED
    BY <2>1, <2>2 DEF Rows, RowStates
<1>4. grants' \in [Proc -> SUBSET RowId] /\ saved[i] = NewRow
  BY DEF Finish, IInv, TypeOK
<1> HIDE DEF row
<1>5. Enter(p, i, "inspect", "finish", row)
  BY <1>1 DEF row
<1>6. QED
  BY <1>3, <1>4, <1>5, NewCall

\* An authorized promotion of a prepared candidate begins.
LEMMA PromoteCommittedKeeps ==
    ASSUME IInv, NEW p \in Proc, NEW i \in RowId, NEW e \in RowId, PromoteCommitted(p, i, e)
    PROVE  IInv'
<1> DEFINE row == RowFor(e, FALSE, TRUE, saved[e].base)
<1>1. /\ Enter(p, i, "inspect", "finish", row) /\ saved[i] = NewRow
      /\ saved[e].base = Tip /\ grants' = [grants EXCEPT ![p] = @ \cup {i}]
  BY DEF PromoteCommitted, Acceptable
<1>2. Tip \in Nat \ {0}
  <2>1. main # << >> /\ main \in Seq(SUBSET (RowId \cup Foreign))
    BY DEF IInv, TypeOK
  <2>2. QED
    BY <2>1 DEF Tip
<1>3. /\ row \in Rows /\ row.state = "new" /\ row.merge = 0 /\ row.of \in RowId
      /\ row.base # 0
  <2>1. row = [state |-> "new", of |-> e, held |-> FALSE, ruled |-> TRUE, base |-> Tip,
               snap |-> 0, merge |-> 0, back |-> 0]
    BY <1>1 DEF RowFor
  <2>2. Tip \in Commit /\ 0 \in Commit
    BY <1>2 DEF Commit, Tip
  <2> HIDE DEF row
  <2>3. QED
    BY <1>2, <2>1, <2>2 DEF Rows, RowStates
<1>4. grants' \in [Proc -> SUBSET RowId]
  BY <1>1 DEF IInv, TypeOK
<1> HIDE DEF row
<1>5. QED
  BY <1>1, <1>3, <1>4, NewCall

\* A waiting row is taken up where it waits.
LEMMA ResumeKeeps ==
    ASSUME IInv, NEW p \in Proc, NEW i \in RowId, Resume(p, i)
    PROVE  IInv'
<1>1. saved[i].state \in Resumable /\ grants' \in [Proc -> SUBSET RowId] /\ saved[i] \in Rows
  BY DEF Resume, IInv, TypeOK
<1>2. /\ RowOK(saved[i], passed, runtime) /\ spent[<<i, "rollback">>] = 0
      /\ saved[i].state = "awaiting_review" =>
            spent[<<i, "review">>] = 0 /\ spent[<<i, "merge">>] = 0
  BY <1>1 DEF IInv, SavedOK
<1>3. saved[i].of \in RowId /\ saved[i].base # 0
  BY <1>1, <1>2 DEF RowOK, Resumable
<1>4. ASSUME NEW at \in {"recheckReview", "recheckPending", "recheckDeployed"},
             NEW by \in Entries, Place(at, saved[i].state), Enter(p, i, at, by, saved[i])
      PROVE  IInv'
  <2> DEFINE c == [i |-> i, at |-> at, by |-> by, row |-> saved[i]]
  <2>1. c.i = i /\ c.at = at /\ c.by = by /\ c.row = saved[i]
    OBVIOUS
  <2> HIDE DEF c
  <2>2. /\ saved[i].state \in Unreviewed => saved[i].state = "awaiting_review"
        /\ saved[i].state \in Unmerged => saved[i].state = "awaiting_review"
    BY <1>1 DEF Unreviewed, Unmerged, Resumable
  <2>3. CallOK(c, saved, passed, runtime, spent)
    BY <1>2, <1>3, <1>4, <2>1, <2>2 DEF CallOK
  <2>4. at \in Stages
    BY DEF Stages
  <2>5. QED
    BY <1>1, <1>4, <2>3, <2>4, EnterKeeps DEF c
<1>5. CASE saved[i].state = "awaiting_review"
  <2>1. Place("recheckReview", saved[i].state) /\ "review" \in Entries
    BY <1>5 DEF Place, Entries
  <2>2. Enter(p, i, "recheckReview", "review", saved[i])
    BY <1>5 DEF Resume
  <2>3. QED
    BY <1>4, <2>1, <2>2
<1>6. CASE saved[i].state = "awaiting_idle"
  <2>1. Place("recheckPending", saved[i].state) /\ "deploy" \in Entries
    BY <1>6 DEF Place, Entries
  <2>2. Enter(p, i, "recheckPending", "deploy", saved[i])
    BY <1>6 DEF Resume
  <2>3. QED
    BY <1>4, <2>1, <2>2
<1>7. CASE saved[i].state \in {"awaiting_administrator", "awaiting_reload_idle"}
  <2>1. Place("recheckDeployed", saved[i].state) /\ "direct" \in Entries
    BY <1>7 DEF Place, Entries
  <2>2. Enter(p, i, "recheckDeployed", "direct", saved[i])
    BY <1>7 DEF Resume
  <2>3. QED
    BY <1>4, <2>1, <2>2
<1>8. QED
  BY <1>1, <1>5, <1>6, <1>7 DEF Resumable

-----------------------------------------------------------------------------
(* The end of a call, and the world *)

\* The world moves main and branches, restarts what is checked out, and ends calls.
LEMMA WorldKeeps ==
    ASSUME IInv, UNCHANGED <<saved, passed, spent>>, MainGoes,
           branch' \in [RowId -> {"none", "open", "changed", "merged"}],
           \/ UNCHANGED runtime
           \/ runtime' = [runtime EXCEPT !.boot = runtime.source],
           grants' \in [Proc -> SUBSET RowId], expired' \subseteq RowId,
           lock' \in Proc \cup {NoProc},
           \/ call' = call
           \/ \E p \in Proc : call' = [call EXCEPT ![p] = Idle],
           \A q \in Proc : call'[q] # Idle => lock' = q
    PROVE  IInv'
<1>1. /\ Tip \in Nat /\ Tip' \in Nat /\ Tip <= Tip'
      /\ main' \in Seq(SUBSET (RowId \cup Foreign)) /\ main' # << >>
      /\ Rows \subseteq Rows' /\ Calls \subseteq Calls'
  BY MainGrows DEF IInv
<1>2. /\ runtime' \in [source : 1 .. Tip', boot : 1 .. Tip'] /\ Later(runtime, runtime')
      /\ runtime.source \in Nat /\ runtime'.source = runtime.source
  <2>1. runtime \in [source : 1 .. Tip, boot : 1 .. Tip]
    BY DEF IInv, TypeOK
  <2>2. QED
    BY <1>1, <2>1 DEF Later
<1>3. call \in [Proc -> Calls]
  BY DEF IInv, TypeOK
<1>4. Idle \in Calls' /\ Idle.at = "idle"
  BY <1>1 DEF Idle, NewRow, RowFor, Calls, Rows, Commit, RowStates, Entries, Tip
<1>5. TypeOK'
  <2>1. call' \in [Proc -> Calls']
    BY <1>1, <1>3, <1>4
  <2>2. saved' \in [RowId -> Rows'] /\ passed' \subseteq RowId /\ spent' \in [Effects -> Nat]
    BY <1>1 DEF IInv, TypeOK
  <2>3. QED
    BY <1>1, <1>2, <2>1, <2>2 DEF TypeOK
<1>6. ASSUME NEW i \in RowId
      PROVE  SavedOK(i, saved'[i], passed', runtime', spent')
  <2>1. saved[i] \in Rows /\ SavedOK(i, saved[i], passed, runtime, spent)
    BY DEF IInv, TypeOK
  <2>2. saved[i].merge \in Nat /\ saved[i].back \in Nat
    BY <2>1 DEF Rows, Commit
  <2>3. SavedOK(i, saved[i], passed, runtime', spent)
    BY <1>2, <2>1, <2>2, SavedLater
  <2>4. QED
    BY <2>3
<1>7. ASSUME NEW q \in Proc
      PROVE  IF call'[q].at = "idle" THEN call'[q] = Idle
             ELSE CallOK(call'[q], saved', passed', runtime', spent')
  <2>1. call'[q] = call[q] \/ call'[q] = Idle
    BY <1>3
  <2>2. ASSUME call[q].at # "idle"
        PROVE  CallOK(call[q], saved, passed, runtime', spent)
    <3>1. CallOK(call[q], saved, passed, runtime, spent) /\ call[q] \in Calls
      BY <2>2, <1>3 DEF IInv
    <3>2. call[q].row.merge \in Nat /\ call[q].row.back \in Nat
      BY <3>1 DEF Calls, Rows, Commit
    <3>3. RowOK(call[q].row, passed, runtime')
      BY <1>2, <3>1, <3>2, RowLater DEF CallOK
    <3>4. QED
      BY <1>2, <3>1, <3>3 DEF CallOK
  <2>3. QED
    BY <1>4, <2>1, <2>2 DEF IInv
<1>8. QED
  BY <1>5, <1>6, <1>7 DEF IInv, NothingRepeated

\* A call ends.
LEMMA ReleaseKeeps ==
    ASSUME IInv, NEW p \in Proc, Release(p)
    PROVE  IInv'
<1>1. call[p].at = "release" /\ call' = [call EXCEPT ![p] = Idle] /\ lock' = NoProc
  BY DEF Release, At
<1>2. \A q \in Proc : call'[q] = Idle
  <2>1. call \in [Proc -> Calls]
    BY DEF IInv, TypeOK
  <2>2. QED
    BY <1>1, <2>1, Alone
<1>3. QED
  BY <1>1, <1>2, WorldKeeps
  DEF Release, remote, files, authority, bounds, MainGoes, IInv, TypeOK

\* A process dies in a call.
LEMMA CrashKeeps ==
    ASSUME IInv, NEW p \in Proc, Crash(p)
    PROVE  IInv'
<1>1. /\ call' = [call EXCEPT ![p] = Idle] /\ grants' = [grants EXCEPT ![p] = {}]
      /\ UNCHANGED <<main, branch, runtime, saved, passed, lock, expired, spent>>
  BY DEF Crash, remote, files
<1>2. \A q \in Proc : call'[q] # Idle => lock' = q
  BY <1>1 DEF IInv, TypeOK
<1>3. grants' \in [Proc -> SUBSET RowId]
  BY <1>1 DEF IInv, TypeOK
<1>4. QED
  BY <1>1, <1>2, <1>3, WorldKeeps DEF MainGoes, IInv, TypeOK

\* Others move main or a branch.
LEMMA DriftKeeps ==
    ASSUME IInv, Drift
    PROVE  IInv'
<1>1. UNCHANGED <<runtime, saved, passed, lock, call, grants, expired, spent>>
  BY DEF Drift, files, authority
<1>2. main \in Seq(Trees) /\ Tip \in Nat \ {0}
  <2>1. main # << >> /\ main \in Seq(Trees)
    BY DEF IInv, TypeOK, Trees
  <2>2. QED
    BY <2>1 DEF Tip
<1>3. MainGoes
  <2>1. CASE main' = main
    BY <2>1 DEF MainGoes
  <2>2. ASSUME NEW f \in Foreign, main' = Append(main, main[Tip] \cup {f})
        PROVE  MainGoes
    <3>1. main[Tip] \in Trees
      BY <1>2 DEF Tip
    <3>2. main[Tip] \cup {f} \in Trees
      BY <3>1 DEF Trees
    <3>3. QED
      BY <2>2, <3>2 DEF MainGoes
  <2>3. QED
    BY <2>1, <2>2 DEF Drift
<1>4. branch' \in [RowId -> {"none", "open", "changed", "merged"}]
  BY DEF Drift, IInv, TypeOK
<1>5. QED
  BY <1>1, <1>3, <1>4, WorldKeeps DEF IInv, TypeOK

\* No step of the world breaks the invariant.
LEMMA WorldStepKeeps ==
    ASSUME IInv, World
    PROVE  IInv'
<1>1. CASE ClearLock
  <2>1. \A q \in Proc : call'[q] = Idle
    BY <1>1 DEF ClearLock, IInv, TypeOK
  <2>2. QED
    BY <1>1, <2>1, WorldKeeps
    DEF ClearLock, remote, files, authority, bounds, MainGoes, IInv, TypeOK
<1>2. CASE AdminRestart
  BY <1>2, WorldKeeps
  DEF AdminRestart, remote, files, authority, bounds, MainGoes, IInv, TypeOK
<1>3. CASE Drift
  BY <1>3, DriftKeeps
<1>4. ASSUME NEW p \in Proc, Crash(p)
      PROVE  IInv'
  BY <1>4, CrashKeeps
<1>5. ASSUME NEW p \in Proc, Exit(p)
      PROVE  IInv'
  <2>1. grants' \in [Proc -> SUBSET RowId]
    BY <1>5 DEF Exit, IInv, TypeOK
  <2>2. QED
    BY <1>5, <2>1, WorldKeeps DEF Exit, remote, files, bounds, MainGoes, IInv, TypeOK
<1>6. ASSUME NEW i \in RowId, Expire(i)
      PROVE  IInv'
  BY <1>6, WorldKeeps DEF Expire, remote, files, bounds, MainGoes, IInv, TypeOK
<1>7. QED
  BY <1>1, <1>2, <1>3, <1>4, <1>5, <1>6 DEF World

-----------------------------------------------------------------------------
(* The theorems *)

\* The initial states satisfy the invariant.
LEMMA InitInv == Init => IInv
<1> SUFFICES ASSUME Init PROVE IInv
  OBVIOUS
<1>1. main \in Seq(SUBSET (RowId \cup Foreign)) /\ main # << >> /\ Tip = 1
  BY DEF Init, Tip
<1>2. NewRow \in Rows
  BY <1>1 DEF NewRow, RowFor, Rows, Commit, RowStates, Tip
<1>3. Idle \in Calls /\ Idle.at = "idle"
  BY <1>2 DEF Idle, Calls, Entries
<1>4. TypeOK
  BY <1>1, <1>2, <1>3 DEF Init, TypeOK
<1>5. ASSUME NEW i \in RowId
      PROVE  SavedOK(i, saved[i], passed, runtime, spent)
  <2>1. saved[i] = NewRow
    BY DEF Init
  <2>2. \A w \in {"review", "merge", "rollback"} : spent[<<i, w>>] = 0
    BY DEF Init, Effects
  <2>3. NewRow.state = "new" /\ NewRow.merge = 0
    BY DEF NewRow, RowFor
  <2>4. RowOK(NewRow, passed, runtime)
    BY <2>3 DEF RowOK, Reviewed, Merged
  <2>5. QED
    BY <2>1, <2>2, <2>3, <2>4 DEF SavedOK
<1>6. NothingRepeated /\ \A p \in Proc : call[p] = Idle
  BY DEF Init, NothingRepeated
<1>7. QED
  BY <1>3, <1>4, <1>5, <1>6 DEF IInv

\* Every step keeps the invariant.
LEMMA NextInv == IInv /\ [Next]_vars => IInv'
<1> SUFFICES ASSUME IInv, [Next]_vars PROVE IInv'
  OBVIOUS
<1>1. CASE UNCHANGED vars
  <2>1. UNCHANGED <<main, branch, runtime, saved, passed, lock, call, grants, expired, spent>>
    BY <1>1 DEF vars, remote, files, authority
  <2>2. QED
    BY <2>1, WorldKeeps DEF MainGoes, IInv, TypeOK
<1>2. CASE World
  BY <1>2, WorldStepKeeps
<1>3. ASSUME NEW p \in Proc, Entry(p) PROVE IInv'
  BY <1>3, FinishKeeps, ResumeKeeps, PromoteCommittedKeeps, RecheckReviewKeeps,
     RecheckPendingKeeps, RecheckDeployedKeeps, SaveKeeps, SaveFailsKeeps, ReleaseKeeps
  DEF Entry
<1>4. ASSUME NEW p \in Proc, Forward(p) PROVE IInv'
  BY <1>4, InspectKeeps, PrepareKeeps, AcceptKeeps, ReviewKeeps, HoldKeeps, GateKeeps,
     RecheckKeeps, MergeKeeps, WitnessKeeps, CheckoutKeeps, RestartKeeps, VerifyKeeps
  DEF Forward
<1>5. ASSUME NEW p \in Proc, Backward(p) PROVE IInv'
  BY <1>5, RollbackKeeps, RollbackMergeKeeps, RollbackCheckoutKeeps, RollbackRestartKeeps,
     VerifyRollbackKeeps
  DEF Backward
<1>6. QED
  BY <1>1, <1>2, <1>3, <1>4, <1>5 DEF Next

\* Invariance: the inductive invariant holds in every state of every execution.
THEOREM Invariance == Spec => []IInv
<1>1. QED
  BY InitInv, NextInv, PTL DEF Spec

\* TypeCorrect: rows name commits main has, what is checked out and what runs are
\* commits of main, and whoever is in a call has the lock file.
THEOREM TypeCorrect == Spec => []TypeOK
<1>1. IInv => TypeOK
  BY DEF IInv
<1>2. QED
  BY <1>1, Invariance, PTL

\* OnceOnly: no row asks for its review, its merge or its rollback a second time,
\* however often a process dies, a save fails or a row is resumed.
THEOREM OnceOnly == Spec => []NothingRepeated
<1>1. IInv => NothingRepeated
  BY DEF IInv
<1>2. QED
  BY <1>1, Invariance, PTL

\* LiveWhenSettled: a row on file as complete or rolled back names a commit that
\* was checked out, and that runs as long as it is what is checked out.
THEOREM LiveWhenSettled == Spec => []SettledIsLive
<1>1. IInv => SettledIsLive
  <2> SUFFICES ASSUME IInv, NEW i \in RowId
               PROVE  saved[i].state \in {"complete", "rolled_back"} =>
                         LET c == IF saved[i].state = "complete" THEN saved[i].merge
                                                                 ELSE saved[i].back IN
                         /\ c # 0 /\ runtime.source >= c
                         /\ runtime.source = c => runtime.boot = c
    BY DEF SettledIsLive
  <2>1. RowOK(saved[i], passed, runtime) /\ saved[i] \in Rows
    BY DEF IInv, SavedOK, TypeOK
  <2>2. saved[i].merge \in Nat /\ saved[i].back \in Nat /\ runtime.source \in Nat
    BY <2>1 DEF Rows, Commit, IInv, TypeOK
  <2>3. QED
    BY <2>1, <2>2 DEF RowOK, Merged
<1>2. QED
  BY <1>1, Invariance, PTL

\* OnlyTestedDeployed: what is checked out where the assistant runs only changes to
\* the forward commit of a rollback, or to a merge with the tree that was tested, of
\* a candidate that was reviewed.
THEOREM OnlyTestedDeployed == Spec => DeployedIsTested
<1> DEFINE Good ==
      runtime'.source # runtime.source =>
          \E p \in Proc :
             LET row == Row(p) IN
             \/ row.back # 0 /\ runtime'.source = row.back
             \/ /\ runtime'.source = row.merge
                /\ main[row.merge] = Tested(row)
                /\ row.of \in passed
<1>1. IInv /\ [Next]_vars => [Good]_vars
  <2> SUFFICES ASSUME IInv, Next, runtime'.source # runtime.source
               PROVE  Good
    BY DEF vars
  <2>1. runtime \in [source : 1 .. Tip, boot : 1 .. Tip]
    BY DEF IInv, TypeOK
  <2>2. \/ \E p \in Proc : Checkout(p) \/ RollbackCheckout(p)
        \/ \E p \in Proc : Restart(p) \/ RollbackRestart(p)
        \/ AdminRestart
    <3>1. CASE World
      BY <3>1 DEF World, ClearLock, Drift, Crash, Exit, Expire
    <3>2. ASSUME NEW p \in Proc, Entry(p) PROVE FALSE
      BY <3>2 DEF Entry, Finish, Resume, PromoteCommitted, Enter, RecheckReview,
                  RecheckPending, RecheckDeployed, Save, SaveFails, Release
    <3>3. ASSUME NEW p \in Proc, Forward(p), ~Checkout(p), ~Restart(p) PROVE FALSE
      BY <3>3 DEF Forward, Inspect, Prepare, Accept, Review, Hold, Gate, Recheck, Merge,
                  Witness, Verify
    <3>4. ASSUME NEW p \in Proc, Backward(p), ~RollbackCheckout(p), ~RollbackRestart(p)
          PROVE  FALSE
      BY <3>4 DEF Backward, Rollback, RollbackMerge, VerifyRollback
    <3>5. QED
      BY <3>1, <3>2, <3>3, <3>4 DEF Next
  <2>3. ASSUME NEW p \in Proc, Restart(p) \/ RollbackRestart(p) \/ AdminRestart
        PROVE  FALSE
    BY <2>1, <2>3 DEF Restart, RollbackRestart, Restarted, AdminRestart
  <2>4. ~AdminRestart
    BY <2>1 DEF AdminRestart
  <2>5. ASSUME NEW p \in Proc, Checkout(p) PROVE Good
    <3>1. call[p].at = "checkout"
      BY <2>5 DEF Checkout, At
    <3>2. Row(p).of \in passed
      BY <3>1, InCall DEF CallOK, Place, RowOK, Reviewed
    <3>3. runtime'.source = Row(p).merge /\ main[Row(p).merge] = Tested(Row(p))
      BY <2>1, <2>5 DEF Checkout
    <3>4. QED
      BY <3>2, <3>3
  <2>6. ASSUME NEW p \in Proc, RollbackCheckout(p) PROVE Good
    <3>1. call[p].at = "rollbackCheckout"
      BY <2>6 DEF RollbackCheckout, At
    <3>2. Row(p).back # 0
      BY <3>1, InCall DEF CallOK
    <3>3. runtime'.source = Row(p).back
      BY <2>1, <2>6 DEF RollbackCheckout
    <3>4. QED
      BY <3>2, <3>3
  <2>7. QED
    BY <2>2, <2>3, <2>4, <2>5, <2>6
<1>2. QED
  BY <1>1, Invariance, PTL DEF Spec, DeployedIsTested
=============================================================================
