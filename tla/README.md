# AROMA-HUB: models, checks and proofs

This directory is a TLA+ development of the backend in `src/`: what happens
between the moment a human confirms a piece of work, or approves an action, and
the moment its outcome is on record, over failed writes, process deaths and
restarts; what the two ledgers of the OpenClaw plane know of executors that
nobody can stop on demand; how one confirmation lets a plan be developed by a
worker in another process; how a tested commit becomes what the assistant runs,
or is taken back; and how the administrative mailbox is imported, followed and
analysed without losing a message or talking over the Owner.

    tlc -config store.cfg MCRunStore          # a model-checking run
    tlapm RunStoreProofs.tla                  # the proofs about the Run store and confirmed Proposals
    tlapm ActionGatewayProofs.tla             # the proofs about the action gateway
    tlapm OpenClawProofs.tla                  # the proofs about the OpenClaw plane
    tlapm PromotionProofs.tla                 # the proofs about repository promotion
    tlapm ConfirmedDevelopmentProofs.tla      # the proofs about confirmed development
    tlapm MailImportProofs.tla                # the proofs about the import of mail
    tlapm MailReceiverProofs.tla              # the proofs about the receiver of mail
    tlapm MailTurnsProofs.tla                 # the proofs about the turns at the model

## 1. Inventory

The hub is one Node process. Its event loop runs one synchronous block at a
time; everything concurrent comes from callbacks that interleave between blocks,
from files that outlive the process, and from the process dying between two of
its own writes. Almost every store follows one pattern: records in a `Map`, and
after each change the *whole* map written to a JSON file by temp file and rename.
So a single file is never torn, and the hard questions are about what happens
*between* writes: memory ahead of a file whose write failed, two files that
describe one event, an external execution that no file knows of.

| part | state | operations | talks to |
|---|---|---|---|
| Run timeline `run/run.js` | append-only list of stages per Run; status folded from it | `createRun`, `appendStage` (guards), `deriveStatus` | - |
| Run store `run/store.js` | runs map + runs file | `startRun`, three claim gates, background dispatch, `approveRun`, `rejectRun`, `reconcile`, `retry` | dispatcher (callback), artifacts (startup) |
| Recovery `run/recovery.js` | none | fold of task, result and audit evidence into a mark | Run store |
| Dispatcher `capability/dispatcher.js` | none of its own | policy, candidates, fallback loop | writes the Run's timeline through a context |
| Sandbox worker `workers/runWorkerInBackground.js` | task and result artifacts | one run | never touches the timeline |
| Agent runner `agent/agentRunner.js`, enquiry lane | audit log | gates, invoke, audit | timeline through the confirm service |
| Proposal store `coo/proposal.js` | proposals map + proposals file | propose, bridge, link, confirm, cancel | `startRun` inside confirm |
| Confirm service `agent/confirmService.js` | none | the one confirm action | proposal store, claim gates, worker, agent, enquiry |
| Authorization `agent/agentAuthorization.js` | flags of the process | five lanes, mutually exclusive | confirm service, scheduler |
| Owner approval `agent/ownerApprovalStore.js`, router | sessions, nonces, sealed orders, cached results | seal, issue, consume, approve | confirm service |
| OpenClaw plane `agent/openClaw*.js` | quarantine ledger, instance store, lock directory, sandbox envelopes | prepare, launch, turn, stop, observe, retire, clean | systemd, the OpenClaw client |
| Action gateway `actions/service.js` | action files, lock files, approvals in memory | inspect, prepare, restore, approve, reconcile | owner approval store, Windows scheduler |
| Repository promotion `repositoryPromotion/` | one row file per promotion, receipts, a lock file, authorities in memory | finish, promote a committed candidate, resume, deploy, roll back | git, GitHub, the service that runs |
| Task planner `core/taskPlanner/` | one file of plans, the slot (`active`), the running execution in memory | plan, register, prepare a recipe, refresh, confirm, stop | the bridge, by HTTP |
| Bridge `subscription/bridge.js`, project tasks, project work | drafts and coding runs in files, approvals and running workers in memory | start, approve, prepare, cancel, read | the planner, the Owner's own pages, language models, isolated workers |
| Company mail `company/mail*.js` | import, receiver and scheduler checkpoints and the captured mail in the structured store; turns, calls and flags in memory | start, pause, resume, cancel, pull, capture, advance, acknowledge, analyse, index | Gmail, Pub/Sub, the structured store, the model, conversations (`app.js`) |
| Computer orders, rechecks | records in files | state machines of their own | external tools |
| Intake, context, persona, views | caches | text in, text out | language models |

What is hard here, and where (the full list, with lines, is `hazards` in
`PROJECT.json`):

* **Two files, one decision.** A confirm writes the runs file, the proposals file
  and the runs file again; the process may die after any of them.
* **Memory ahead of the file.** `appendAndFlush` changes memory first. A failed
  write throws, some callers swallow the throw, and the next write of *any* Run
  publishes what the failed one left.
* **Three lanes, one Run.** Develop, sandbox worker and agent may each be offered
  the same Run.
* **Recovery from partial evidence.** Task artifact, result artifact, audit and
  timeline can each be missing, because each write can fail alone.
* **A script nobody waits for.** The gateway's script runs in a process of its own:
  its reply may be lost after it took effect, and it outlives the hub that
  started it. Only its saved dispatch and its lock file tell the next process.
* **A world that moves.** Administrators change scheduled tasks between the read
  that a proposal shows, the read before the dispatch and the change itself.
* **A process that cannot be accounted for.** An OpenClaw executor may come up
  after its launch was given up, may outlive the client that waited for it, and
  may come back after its last process has ended. The ledgers must never say less.
* **Whole documents, several processes.** Both ledgers are read, changed and
  rewritten as one document; a lock directory, left behind by a death, is all that
  keeps two processes from undoing each other's records.
* **An answer that is no evidence.** A merge may have happened although its answer
  was lost, a restart may be reported and the old process still run, and main may
  move between the last look at it and the merge.
* **Two processes, one plan.** The planner records what it asks of the bridge and
  then asks. A request may be given up and handled all the same, the plan's row is
  rewritten from a copy older than an await, and each of the two may die alone.
* **A mailbox that moves under its reader.** Messages come and go between the pages
  of a listing, history expires, notifications are lost or late; an import may be
  held, and another begun, while a tick of the first waits for an answer.
* **One model, three loops and the Owner.** Each loop tests the flags of the others
  before awaits in which those change.
* **Waiting for an answer.** Approve waits for Apply, the dispatcher for an
  adapter, the runners for a worker; requests and deaths fall into the wait.

## 2. The modules

| module | models | lines of code it stands for |
|---|---|---|
| `RunTimeline` | `run.js` and `recovery.js` as operators: stages, statuses, append guards, evidence fold | ~400 |
| `RunStore` | `store.js`, the dispatcher, the worker and the agent runner: one action per synchronous block, or per file write where a block has several | ~1,300 |
| `RunLedger` | abstract: what a reader of the runs file may rely on | - |
| `ConfirmFlow` | `proposal.js`, `confirmService.js` and their wiring, on top of `RunStore` | ~900 |
| `ActionGateway` | `actions/service.js`, `actions/store.js`, the recommendation and the scheduler script, with the approvals they use | ~250 (dense) |
| `OpenClaw` | the quarantine ledger, the instance store, the lock, the composition with its launcher and verifier, the governed workspace, the transport and the reconciler | ~1,900 |
| `Promotion` | `coordinator.js`, `workflow.js` and what they use of git, GitHub and the running service | ~600 (dense) |
| `ConfirmedDevelopment` | `taskPlanner/service.js` and `confirmedExecution.js`, the project lanes of the bridge and its client, `projectTasks/service.js`, `projectWork/service.js` as a plan uses them | ~900 (dense) |
| `Mailbox` | external: what Gmail answers to a listing, a read and a history call, as the code uses them | - |
| `MailImport` | `mailHistory.js`: the import of the whole mailbox | ~110 (dense) |
| `MailReceiver` | `mailEvents.js` and what it uses of `mailMemory.js` and `mailbox.js`: the receiver of notifications | ~130 (dense) |
| `MailTurns` | `mailScheduler.js`, `analyze`, `analyzeNext` and the index loop of `mailMemory.js`, `mailAnalysis.js`, the index worker of `mailSemantic.js`, the foreground of `app.js` | ~300 (dense) |
| `RunStoreProofs`, `ActionGatewayProofs`, `OpenClawProofs`, `PromotionProofs`, `ConfirmedDevelopmentProofs`, `MailImportProofs`, `MailReceiverProofs`, `MailTurnsProofs` | theorems about the module each is named after, those of `RunStoreProofs` about `ConfirmFlow` as well | - |
| `MCRunStore`, `MCConfirmFlow`, `MCActionGateway`, `MCOpenClaw`, `MCPromotion`, `MCConfirmedDevelopment`, `MCMailImport`, `MCMailReceiver`, `MCMailTurns` | symmetry, one constraint and one constant, for TLC | - |

`ActionGateway` stands alone: in the code it shares with the rest only the
approval store's functions and the entry point that routes a message to it. So
does `OpenClaw`: no entry point of the hub constructs the plane yet, so what it
shares with the rest is the approval it is started for. `Promotion` stands alone
too: it is driven by a command line and by the accepted-work driver, outside the
hub's own process. `ConfirmedDevelopment` composes the planner's service with the
bridge, the two processes and the requests between them; it ends where a coding run
is completed, and `Promotion` begins where that run was accepted and committed.
`MailImport` and `MailReceiver` both EXTEND `Mailbox` and share nothing else that a
guard reads: each has a checkpoint of its own, and capturing a message twice is one
capture. `MailTurns` takes captures as events and composes four parts of the process.

`ConfirmFlow` EXTENDS `RunStore` and reuses its actions: `ConfirmProposal` is
`StartRun` plus the change of the Proposal, `ConfirmSpawnsWorker` is
`ClaimWorker`, `ConfirmReplies` is `ClaimAgent` plus the reply.

### How state and steps correspond

`mem` is the map of `run.js`, `disk` the runs file. `proposals` and `filed` are
the same pair for Proposals. `Flush(ok)` is the write of a whole file; `~ok` is a
throw. `job`, `worker` and `agent` are the program counters of a Run's background
dispatch, sandbox worker and agent runner. `Crash` forgets all of them and loads
`mem` from `disk`; `Reconcile` visits the loaded Runs one at a time; `Listen`
opens the server.

A synchronous block with several writes is several actions, because the process
may die between two writes, but no other callback may run there. `Free` says so:
a new block starts only when no counter is *in turn* (`JobInTurn`,
`AgentInTurn`) and no retry is half done. In `ConfirmFlow`, `Idle` adds the
confirm in progress. A queued callback (`"queued"`) and an awaited answer
(`"working"`) do release the thread.

Three history variables, read by no guard, record what really happened, whatever
the files say: `begun` (hand-offs that began to execute), `applied` (Apply
dispatches), `outcome` (what the executor reported). `source` records the
Proposal a Run was created for.

In `ActionGateway`, `record` is the action files (one per action, written whole),
`lockFile` and `busy` the lock files and the set in memory, `nonce` the sealed
order and session of an action together with its one nonce. `call[i]` is where
`approve` stands. It has one action per stretch between two awaits; a stretch
that saves twice (`RecordApproved` before the first read, `ReadSurvivor` before
`Conclude`) is two, for a death between the saves, and `Free` keeps other blocks
out. `Save` is `record(r, phase)` inside the `try`: when it throws, the step ends
in the `catch` and `finally` blocks, `GiveUp`, which saves the record *as memory
has it*, the entry that was not saved included. `reading` is the copy that each
`reconcile` in flight took before its await. `task` and `effect` are outside the
process: the scheduler's tasks, and the script started for an action, which
`Crash` leaves alone. A script that has not acted when its time limit passes is
killed (`"dropped"`); one whose process died may still act. The script itself is two
steps, `CheckTask` and `TakeEffect`, as its read and its command are; a change by others
may come between them.

In `OpenClaw`, `ledger` and `instance` are the two documents on disk; there is no
memory beside them, every operation reads them again. `lock` is the lock
directory, `envelope` the sandbox of an approval, `owner` the approvals whose
directory the governed workspace of a process knows (in memory, so a crash
forgets it: such a directory is never cleaned). `call[p]` is the one synchronous
call of process `p` and where it stands, `turn[p]` the transport's turn, which
yields the process at `agentsAdd` and `turn`, the two awaits. A put inside a
section is two steps, `Read` into `copy[p]` and the write of the changed copy;
puts elsewhere are one, and `Unshared` keeps them out of other processes'
sections: the composition's header demands that of whoever mounts those parts,
and no code enforces it. `torn` is a ledger file cut short in the middle of a
write (that file is truncated and rewritten in place, the instance store is
renamed); every operation that reads it refuses. `executor` and `task` are the
world: what systemd runs, and what OpenClaw reports of the task.

The launch of an executor is five steps of one section, `PrepareInstance`,
`MarkRunning`, `LaunchAttempted`, `LaunchUnit`, `ObserveCgroup`; a crash or a
failed write may follow any of them. Its end is `RequestStop`, `StopUnit`, the
two readings of the verifier, `ObserveExecutorGone`, the two readings again and
`Retire`. The verifier's readings are separate steps because the world moves
between them.

In `Promotion`, `saved` is the row files, `call[p]` the one `finish` or `resume` of
a process with its own copy of the row, and `lock` the lock file, which names its
process and outlives it. Every stage of the workflow is an action that ends in
`Record`, followed by the action `Save` (or `SaveFails`, answered by whichever
`catch` the code has there); `Onwards` is what comes after each saved state.
`main` is the sequence of the trees the branch has had, so a commit is an index;
a tree is the set of changes in it, and `Tested` the tree a row's tests ran on.
`runtime` is what is checked out and what runs where the assistant lives. `branch`,
`main` and `runtime.boot` are changed by others too (`Drift`, `AdminRestart`).
`grants` are the authorities a process holds in memory; `expired` is the clock.
`spent` counts what was really asked of the reviewer and of GitHub.

In `ConfirmedDevelopment`, `row` is the file of plans: whether planning completed,
the state of the confirmed execution, `registrationPreparation` and
`registrationLink` as one field `draft` with its `maker`, `preparation` as `recipe`.
`slot` is the planner's `active` with the flow that holds it and *that flow's copy*
of the row, which its last save writes back (`PlanFiled`, `SourceConfirmed`,
`SlotAnswered`); the execution has no copy and reads the row for every save
(`Own`). `delegation.at` is the await the execution stands at; `Calls` is `call()`,
`Fails` its `catch` block, which stops the child it knows. A development is a pair of a plan and
who asked for it (`Job`). `asking[s]` and `answer[s]` are the request one side of
the backend waits for and what it got; `net` holds what the bridge has not handled.
The bridge handles one request at a time (`busy`, answered 503), so a handler is one
action, from its look at both lanes to its answer. `Rejected` covers the 503, an
unreachable bridge and the 125 s limit: such a request may leave `net` or stay in
it and be handled later. `task` and `work` are the rows of the two bridge services,
`lane` the draft whose providers have not all settled, `aborted` who was told to
stop, `seal` whose request sealed a coding run, and `asked` the drafts that record
a preparation intent. `begun` counts the developments the bridge really began, and
`unread` marks the plans whose stop got an error for an answer.

In the three mail modules a message is its place in the mailbox: `arrived` messages
have come, `deleted` are gone, and a history id is the number of messages there were.
A page token names the message at which a listing goes on.

In `MailImport`, `import` is the checkpoint row and `own` the tick's local copy `s`,
which `advance` replaces by what it wrote; `pc` is the await a tick stands at, and
`asked` says that an accepted start waits for its write; a tick may begin meanwhile, and
`overlapped` (history) that one was under way when the start was written. `Scan` lists a page,
`SavePage` saves it, `Check`, `Capture` and `Count` take one message of it, `Close` ends it.

In `MailReceiver`, `ev` is the checkpoint, `notices` what waits at Pub/Sub, `batch`
what a tick pulled and `page` what it listed. A tick is `Begin` (with `AskCursor` the
first time), `Pull`, `Sift`, then `History` or, while a recovery is on record,
`Rescan`; `Check` and `Capture` for each message; `Listed` or `Scanned`, which moves the cursor
and the page token or the scan, and `Acknowledge`. Every step may end in `Throw`.

In `MailTurns`, `tick` is where the scheduler's tick stands, `base` and `win` its local
`attempts` and `window`; `by` and `step` are whose the analysis (`analyzing`) is and
where it stands; `lingering` is the call of `createMailAnalyzer` that timed out and is
still `pending`; `ix` is the index attempt, `stopped` that its `generation` has passed.
`waiting`, `prefer` and `turn` are `analysisWaiting`, `preferAnalysis` and
`preferIndexUntil`. `Attempt` is one block: the write of the attempt has been answered
and `analyzeNext` makes all tests that come before its first await.

The history variables of `ActionGateway`: `applied` counts the scripts started for an action,
`refused` marks an approval spent on a request that was then refused, `prepared`
is the incarnation (number of deaths) that prepared an action.

### What is abstracted

* The facts of a stage, except the outcome in `AGENT_FINISHED` and the Run named
  by `RETRY_ATTEMPT`: no other fact is read by a guard or a fold.
* The choices the code makes from data the models do not hold are left open:
  the policy verdict, whether a capability has candidates, whether a success
  carries a patch, whether an Apply carries a backup reference, whether a runner
  refuses at one of its gates.
* `authorize()` is a constant of a process (`lane`, from the environment) that a
  restart may change. The five flags are exclusive; two on is `"conflict"`.
* A task artifact and its result are one task per Run: a Run is handed to the
  worker once (`AtMostOneExecution`).
* In `ConfirmFlow`, owner approvals enter as the identity (`Approval`) a sealed order carries.
* The id of a new Run or attempt is assumed to be fresh. The code takes 8 hex digits of a
  UUID and sets the map without a test (`run.js:212`, `:235`); `DurableTerminalIsFinal`
  and `OneOriginalRun` rest on it, as a repeated id would replace a Run.
* `dispatchRun` has no caller in production. It is modelled because it is public
  and its comment promises that it is safe to call.

In the gateway:

* `inspect` keeps nothing that `prepare` does not read again and compare, so
  preparing is one step on the task as it is. When the save in `prepare` throws,
  no caller has the id of the action, and the step is as if it had not happened.
* A definition is its hash. `Covered` says which definitions cover which; the
  order of the catalogue, which decides between two equal tasks, is left open.
  Enabled and runtime are two booleans: the flag, and whether the task is idle.
* Sealed order, nonce and session expire at times of their own; `Expire` ends all
  of them at once. An expired action cannot be approved either way.
* A lock file that cannot be created for another reason than its existence refuses
  the request as a held one does.
* One gateway process runs at a time.
* Left out: the presentation of a proposal in chat and its typed confirmation,
  the binding of an action to a conversation, and the usage, promotion and
  procurement operations behind the same entry point.

In the OpenClaw plane:

* The evidence of a reading (process ids, control groups, markers, inodes) is
  reduced to what it says of the executor; any reading may come back unusable.
* `status` keeps two of the five terminal task statuses, a success and a failure.
* The composition's `reconcile` takes the lock for a pass over all records; it is
  one unlocked step per record, which allows more interleavings.
* A lock that could not be released is the lock of a dead process: it stands
  until a person removes the directory (`ClearLock`).
* Left out: `observePids`, the legacy phase name, the status views, and the
  checks that a grant or a retirement verdict is genuine.

In repository promotion:

* `prepare`, `test`, `commit`, `publish` and the pull request are one stage, and so
  are `preserve` and what follows it: no other actor sees what lies between, and a
  row in one of these states is not taken up again.
* The looks of one recheck are one step, except that the last look and the merge
  are two. A look that fails for any reason is `Attention`.
* A branch is open, changed by others, or merged; the checks on GitHub are part of
  being open.
* `promoteCommitted` looks before it takes the lock and again in `acceptCommitted`:
  the first look is the guard of the entry, the second is `Accept`.
* Forward and recovery authority expire together, as `prepare` sets them.
* Left out: `begin`, which prepares a report for a person; how work is preserved and
  scanned; overlays and client publication; the three approvals behind an authority;
  the files of accepted-work requests.

In confirmed development:

* Planning and drafting are an end each: which of their steps failed decides nothing
  here but that the plan is not completed, or the draft not registered.
* An approval of the bridge is sealed, shown and redeemed in one request, as the
  delegation does it; whatever refuses it (`Declines`) leaves all files as they were.
* What a coding run did in its worktree is its outcome.
* The hour of a consent and the ten seconds of a stop are `expired` and `late`.
* Left out: planning itself, replanning, and repository-scoped requests and
  renewals; in project work, recoveries, budgets, lineages and the adoption of a run;
  writes of the two services that fail.

In the mail modules:

* A page of a listing ends wherever Google likes. A message is captured, excluded or
  gone; which of the first two, and why, is left open.
* The receiver's configuration is assumed complete, and the daily renewal of the watch
  is left out: it decides which notifications are sent, and here any may be, or none.
* A page token stays usable as long as its start cursor is served (see `hazards`).
* A wait is `retry`, `"soon"` (2 and 5 seconds) or `"later"` (half a minute and more,
  quota and back-off included); only the order in which timers can fire is kept.
* One conversation at a time, handled for as long as its response is open. The code counts
  the foreground by the response too (`app.js:893`), and goes on to the handler, or with it,
  although the client has left (`app.js:894`): what such a handler asks of the model is not
  covered by `TalkIsAlone`.
* `MailTurns` keeps no mail: that something waits to be analysed or indexed, and that
  it changed meanwhile, is open at every look. The catch-up mode is modelled, with `Cap` for its 120 attempts an
  hour; the balanced mode differs in its numbers. The mailbox's lease and the memory
  switch are one flag, `enabled`.
* Left out: the five-minute scan of recent mail, what the index saves, rebuilds and
  recalls, approvals of threads, the Pub/Sub connection, and all texts.

## 3. The runs

All runs disable the deadlock check: a server with nothing left to do waits for
requests, and with bounded Runs, faults and crashes that is a state without
successors.

| run | question | bounds |
|---|---|---|
| `store` | does the life of a Run keep its promises, is it retried once, and does the store implement `RunLedger`? six properties | 1 Run, and up to 2 attempts once it is interrupted (`OneOriginalRun`), 2 candidates, 2 failed writes (1 with attempts), 2 deaths; 136,384 states |
| `flow_faults` | does a confirm hand off, refuse and reply truthfully? | 1 Proposal, 2 Runs, every authorization but Develop, 1 failed write of either file, 1 restart |
| `flow_crashes` | does a claimed agent Run settle, over deaths between the two files? | 1 Proposal, 2 Runs, four lanes, 2 deaths, fairness; 361,360 states |
| `gateway` | is an action started once, alone on its targets, as approved, and reported as it was? seven properties | 2 actions, 2 tasks, 2 definitions, 1 change by others, 1 reconcile, 1 failed save, 1 death; about 3,890,000 states |
| `openclaw` | do the ledgers account for every executor? four properties | 2 approvals, 2 processes, 1 crash or failed write, 1 successor; 1,460,866 states |
| `promotion` | is only tested work deployed, is anything asked for twice, and is what is settled live? | 2 rows, 2 processes, 2 deaths or failed saves, 2 moves of main or a branch; 881,981 states |
| `development` | is a plan developed once and on record, do the workers exclude each other, and does a delegation stop and end? | 2 plans, one with every request and one with a recipe, 1 unreadable row, 2 deaths of either process, any number of lost, late and refused requests, fairness; 510,074 states |
| `import` | unless its start was written during a tick, is an import reported complete whole and, unless it was reopened, counted once? is every import left alone when held, and does it end? | 2 messages, 2 starts at any step, 1 thrown call, 1 death, 1 hold of a completed import, fairness; 2,135,074 states |
| `receiver` | do the cursor and the acknowledgements pass only mail that was dealt with, and is all mail dealt with? | 2 messages, any notifications, 1 fault, fairness; 1,754,480 states |
| `turns` | do analyses and the index keep out of each other's calls, does a conversation come first, does the hour's budget hold, does each of the two loops get its turns? | 2 attempts an hour, nothing else bounded, fairness; 672,864 states |
| `gateway_failed`, `import_overlap` | two statements of the code and its comments that the code does not keep | as `gateway` and `import`, smaller |

The type invariants are not repeated in the runs: each is
proved, for every value of the constants, and so are six properties that no run names:
`AtMostOneExecution` (which `ImplementsLedger` implies too), `FiledRunIsOnFile`,
`RefusedIsSpent`, `ApprovalDiesWithProcess`, `EnvelopeOutlivesExecutor` and
`CursorForward`.

Why the bounds are enough to be interesting: every claim gate is contended by
one Run and three lanes, so one Run suffices for exclusion; two Runs are needed
only where a write for one publishes the other, and for confirming one Proposal
twice; a third for two attempts of one original. One failed write makes memory
and file diverge, a second lets the repair fail as well. Two deaths allow a
death during recovery from a death. Two candidates exercise the fallback loop
of the dispatcher.

In the gateway, two actions on two tasks are the smallest instance with a contended
lock, a recommendation whose kept task another action may pause, and a restore of
an earlier action; two definitions are needed for a change that is not only of the
enabled flag. One death suffices for a script that outlives its process and for
approvals and locks met by the next one. `MaxReconciles` bounds the entries that
reconciles add to one file; one reconcile may overlap an approval of the other
action, a death, and a script that still runs. `OutcomeIsFinal` is proved for any
number of reconciles. Prepare, recommend and restore are bounded by the set of actions.

In the OpenClaw plane, two approvals are what a lockout is about, and two
processes what a lock is about. One fault may fall between any two writes of a
launch, of its end or of a cleanup; one successor suffices for an executor that
comes back between two readings of the verifier. The properties of this run are
also proved, for every number of all four.

In repository promotion, two rows are needed for one that promotes the other's
candidate, and for a deployment that supersedes another; two processes for the
lock. Two faults are a death and the loss of a save of what follows it; of two
moves, one may be the candidate's branch and one main, or main may move before and
after a merge. The properties of this run are proved for every number as well.

In confirmed development one plan is delegated, registered and prepared by hand in
every order, and the recipe of another competes with it for the two lanes. Two
deaths may be one of each process, or a restart followed by the loss of what the
restart asked for. Losses and refusals of requests need no bound. `MaxFaults` bounds
reads that are answered with an error, which change nothing on the bridge.

For mail, two messages are what a page boundary, a message deleted between two pages
and a notification for the earlier of two messages need; what the import and the
receiver keep is proved for every number. One fault may be a call that failed, an answer that was lost
or a death, at any step. In `import` a tick may begin while an accepted start waits for
its write, as in the code; `overlapped` records it, two properties make it an exception,
and `import_overlap` states one of them without it. In `turns` two attempts an hour let an attempt be given back
while another was spent; the Owner's pauses, resumes and analyses, conversations,
switches of memory, faults, hours and timers are unbounded.

`flow_faults` leaves the Develop lane out because with it
`OneExecutionPerProposal` is false: Develop is dispatched inside `startRun`,
before the proposals file is written, so a failed write followed by a restart
lets a second confirm execute the same Proposal again. `flow_crashes`, which has
the Develop lane, has deaths but no failed writes.

### The properties

Those marked (p) are proved and not repeated in a run.

*Store.* `ExecutionHasDurableClaim` (no execution whose claim a restart could
forget), `AtMostOneExecution` (p), `OwnerActsOnce` (an Apply is approved, and a Run
retried, once),
`SettledTruthfully` (a success on record was reported by an executor),
`PendingMeansNeverBegun` (recovery does not call "never started" what was),
`DurableTerminalIsFinal`, `ImplementsLedger`.

*Confirm.* `HandedOffRunIsConfirmed`, `OneExecutionPerProposal`,
`FiledRunIsOnFile` (p), `FiledDecisionIsFinal` (over cancels, failed writes and
restarts), `ReplyIsTruthful` (accepted means that the claim is on file, refused that
nothing is executed), and the liveness property `ClaimedAgentRunSettles`.

*Gateway.* `DispatchedOnceOnFile` (a started script has its one dispatch on file,
and is the only one), `OneActionPerTarget` (also against the script of a dead
process), `VerifiedMeansExecuted` (never verified on somebody else's change),
`RefusedIsSpent` (p), `RestoreUndoesVerified`, `ApprovalDiesWithProcess` (p),
`CheckStillHolds` (no other action and no script of a dead process changes a task
between the check a script makes of it and its change), `SurvivorStillRuns` (two
actions never pause each other's cover) and `OutcomeIsFinal` (no late save, of a reconcile either, withdraws
a verdict).

`CheckStillHolds` says no more than the code can keep. The check and the change of a
script are two commands (`windowsScheduler.js:26`, `:28`), and a change from outside
between them is not noticed (docs/ACTION-GATEWAY-V1.md:76-77 admits it): the task is
then changed all the same (`"overtaken"`).

*OpenClaw.* `LiveIsCovered` (an executor that runs, may still start or may come
back is held by a record that locks every further begin out),
`EvidencePrecedesExecutor` (the disk says beforehand that one is about to start),
`EnvelopeOutlivesExecutor` (p), `NeverRanIsTrue`, `LedgerReadable` (no legal sequence
writes a record that the reader refuses, which would lock everything out).

*Promotion.* `DeployedIsTested` (what is checked out changes only to a tested merge
of a reviewed candidate, or to the forward commit of a rollback),
`NothingRepeated` (no second review, merge or rollback for a row, over resumes and
deaths), `SettledIsLive` (complete and rolled back are said only of what runs).
One might expect that a row that was rolled back has restored the saved tree. That
does not hold: others may merge between the last look at main and the merge of the
forward commit, and the resulting tree is compared with nothing
(`github.js:83-91`), while after a promotion's merge it is (`coordinator.js:124`).
The model has that behaviour; it is listed under `hazards`.

*Confirmed development.* `OneJournaledDevelopment` (the bridge begins one development
per plan, by hand or by delegation, and the plan's row says who asked, before it
begins and ever after), `OneWorkerAtATime` (over two services and the two looks of
the router), `CancelledHasStopped` (an execution recorded as cancelled left none of
its children in progress) and the liveness property `DelegationEnds`.

Three things one might expect of this part do not hold, and are not stated:

* A stop that reads its child and is answered with an error (HTTP 200, no run) takes
  it for a child that needs no stop (`confirmedExecution.js:137-146`):
  `CancelledHasStopped` exempts the plans in `unread`.
* A cancelled draft is recorded as cancelled while a provider may still answer; the
  lane stays taken until it does, which is what `OneWorkerAtATime` is about.
* The planner's last save writes a copy of the row that is up to three seconds old.
  What is recorded in between by an execution that asked nothing of the bridge, its
  consent included, is erased, and the plan may be confirmed again. Nothing that
  asked the bridge can be erased: to ask it needs the slot.

*Mail.* Of the import: `CompletedImportIsWhole` (all mail that was there at the start
and still is has been counted; not of an import whose start was written during a tick),
`CoverageIsReal` (counts are of distinct messages that are in the store, over replays;
not of such an import, nor of one that was held after it completed and then resumed),
`HeldImportStands` (a tick under way writes nothing
into an import the Owner has paused or cancelled) and the liveness property
`ImportEnds`. Of the receiver: `CursorCovers` and `AckedIsSettled` (neither the cursor
nor an acknowledgement passes mail that was not dealt with), `CursorForward` (p) and the
liveness property `MailIsSettled` (with no notification at all, with an expiring
history, all mail is dealt with). Of the turns: `OneModelCall` (no analysis waits for the
model while the index does, nor while another analysis's call, given up or not, has not
settled), `TalkIsAlone` (while a conversation whose response is open is handled nothing
calls in the background; what the Owner asked for may), `BudgetKept` (over deferrals
that give attempts back, failed writes, deaths and the change of the hour) and the
liveness property `BothGetTurns`.

Three things one might expect of the turns do not hold. The index may call while an
analysis's call that was given up still goes on: `ProcessingIsSerial`, below. A pause does
not keep a tick that is past its own test of it from calling the model. And an Owner
who resumes without end can, by the clock, keep the index waiting for as long as that
lasts: each resume makes the scheduler due at once.

Each one is broken by at least one plausible change of the code; the changed
operators stand beside the originals, marked *Mutant*.

### Refinement

`RunLedger` keeps four facts per Run: known, owners, settled, executions.
`LedgerView` reads the first three off `disk` and the last off `begun`. A write
of the file may reveal for every Run what failed writes left in memory, so the
abstract step `Write` concerns all Runs at once; an execution needs an owner
that is already in the file; a settled entry never changes. A death is a
stuttering step: nothing a reader of the file relies on is lost.

### Fairness

`FlowFairness` asks weak fairness of the steps of a confirm (they are one
synchronous block), of startup (reconcile and listen run to completion before
requests are served) and of every Run's background steps (queued callbacks run;
the worker and the agent runner kill an execution at its timeout, so an awaited
answer arrives). Nothing is asked of requests, restarts or failed writes.
`ClaimedAgentRunSettles` is checked without failed writes: the terminal append is
best effort, and when it fails nothing in the process tries again.

`FairSpec` of confirmed development asks weak fairness of the backend's
continuations (`SlotStep`, `DelegationStep`), of the time limit of a request
(`Rejected`) and of the passing of time. Nothing is asked of the bridge, of the
Owner, of the workers or of a death: an execution ends although its child never
does.

Of the mail modules, `ImportSpec` and `ReceiverSpec` ask weak fairness of the steps of
a tick and of its timer: ticks come every two seconds and every call settles. History
is not asked to stop expiring, nor notifications to come. `TurnsSpec` asks weak
fairness of the tick, the analysis and the index (`setInterval`, `setTimeout`, and the
65 seconds of a call), that an aborted call settles, and that time passes. `Due` has
strong fairness: a wait of a minute ends although the index loop's own, shorter waits
come and go meanwhile. Nothing is asked of the Owner, conversations or new mail.

### What two of the runs found

* `gateway_failed`: when the save of `verified` throws, the action, which took
  effect, is recorded as `failed`: the `catch` block looks at a state that was
  set before the save. It can then be neither reconciled nor restored.
* `import_overlap`: a start is accepted when no tick is busy, but a tick may begin
  before its write is done. A tick that was taking up the failed import of before then
  goes on in the new one, which ends `completed` with nothing listed. If it throws
instead, the new import lists the mailbox again, and the message that tick had counted
into it is counted twice (`CountsOnce`), against `mailHistory.js:71`.

Other behaviours of the code that its comments rule out are in the models as well. For
six of them the formula that a comment or a doc amounts to is kept beside the properties, and
TLC refutes it when a `.cfg` names it:

* `ConfirmFlow!SealedOrderNotExecutedElsewhere`: a sealed agent (or enquiry) order that
  is answered *not authorized*, and audited as approved but not dispatched, has its task
  executed by the Develop or the worker lane when that is the lane in force.
* `ConfirmFlow!NeverConfirmedAgain`: a Proposal whose Run is already on file can be
  confirmed again after a death between the two writes.
* `RunStore!PolledTerminalIsFinal`: a terminal status served to a poller is withdrawn by
  a restart when its write had failed.
* `OpenClaw!OneExecutorAtATime`: the lockout is asked when an approval is prepared, not
  when it is launched. Two approvals prepared before either is launched are both
  launched, the second while the first is running.
* `MailTurns!ProcessingIsSerial` ("Processing is serial",
  `docs/ADMIN-MAIL-NOTIFICATIONS.md:51`): an analysis gives its call up after 65 seconds
  and aborts it; `indexNext` (`mailMemory.js:155`) asks whether an analysis is running,
  not whether such a call is still pending, and may call the model beside it. Only the
  next analysis, and a conversation, ask or wait for it.
* `MailImport!CountsOnce`: a message may be counted twice in an import whose start was
  written during a tick, and in one that was completed, held and resumed.
* A Proposal can be filed as confirmed without a Run: the flush of the runs file throws
  after memory was marked, and the next write of the proposals file publishes the mark.
* A completed import can be paused or cancelled, and a resume then imports the mailbox
  again on top of the counts of before (`MaxReopens` bounds it).

## 4. The proofs

### The Run store

`RunStoreProofs` proves, for every set of Runs and approvals, every number of
candidates and every bound on failed writes and deaths:

* `TypeCorrect`: `Spec => []TypeOK`
* `DurableClaimBeforeExecution`: `Spec => []ExecutionHasDurableClaim`
* `ExecutedAtMostOnce`: `Spec => []AtMostOneExecution`

They rest on the named assumptions of `RunTimeline` and `RunStore`: the sentinels
`NoApproval` and `NoRun` are not members of the sets they complete, `Candidates`
is a positive number and the bounds are numbers.

`AtMostOneExecution` is not inductive: nothing in it says that a Run already
executed cannot be queued again. The inductive invariant `IInv` adds

* `ClaimsInMemory`: memory shows every claim the file has. A gate looks at memory;
  without this a claim known only to the file would not stop it. It is kept
  because memory changes first and is replaced only by the file itself.
* `ExecutionHasDurableClaim`: whatever is queued or running, or ever ran, has its
  claim in the file. With the first part, a gate that opens has found a Run that
  was never handed out, in this or any earlier process.
* `ClaimsExclusive`: one lane per Run, so two program counters of one Run are
  never both active.
* `HandedOffOnce`: at most one execution begun, and none while one is still queued.

Every action falls into one of two kinds. A *quiet* step writes the store
without touching claims (`QuietStep`; lemmas `AppendedQuietly`,
`RecordedQuietly`, `CreatedQuietly`, `KeptQuietly` cover the ways of doing so)
and moves its program counter inside the set of states that need the claim it
already has. A *claim* step is one of the three gates (`ClaimDispatchKeeps`,
`ClaimWorkerKeeps`, `ClaimAgentKeeps`): it opens only on a Run without claims,
and queues the hand-off only if the write succeeded. `Crash` resets the counters
and makes memory equal to the file.

Its second part goes on from there, under the same assumptions:

* `EndedIsFinal`: `Spec => DurableTerminalIsFinal`
* `PendingNeverBegun`: `Spec => PendingMeansNeverBegun`
* `StoreImplementsLedger`: `Spec => ImplementsLedger`

Its invariant `LInv` adds to `IInv`

* `FileOK`: memory has every stage of the file, and equals it where the file is
  terminal. A write publishes for *every* Run what earlier failed writes left in
  memory; without this the write of one Run could change the ended record of another.
* `TurnOK`: while an executor is queued or awaited, the last stage of its Run is the
  one it was handed the Run with. Nobody else may append in between, so the Run cannot
  have been settled by the time the executor begins.
* `TodoOK`: a startup visits only Runs that were loaded.

Every step of a living process is `Forward` (`LivesKept`): the file stays or becomes
memory, and each Run stays as it is, is created, or gains one stage when it had not
ended, a stage that is `Justified` by the state it is appended in (that a reconciled
success has evidence for it, that APPLYING finds a pending patch, and so on). `Crash`
leaves the file alone. A step also begins one open, claimed Run or none
(`LivesBegins`). The two together are the two actions of `RunLedger` under
`LedgerView` (`WrittenEntry`).

Its third part draws on `Justified`:

* `StatusIsOutcome`: `Spec => []SettledTruthfully`
* `AskedOnceDoneOnce`: `Spec => []OwnerActsOnce`

Its invariant `OInv` adds to `LInv`

* `Reported` and `Finished`: each piece of evidence has the claim of its lane in the
  file, and the executor of that lane is past the point where the outcome is decided.
  The other lanes are closed by the claim, in this process and every later one; so the
  outcome is what the evidence says, for good.
* `Truthful`: so is a status drawn from it. It stays true because a stage that ends a
  Run is its last (`EndsOnce`), and by `TurnOK` no executor has a Run that ended.
* `Decided` and `Applied`: a Run once in APPLYING is never pending again. Only a
  dispatch in turn asks for approval, and it would need a claim that is taken.
* `Linking`, `LinkOK`, `OneLink`: from its creation to its link the attempt of a retry
  has the thread to itself, so that its original, interrupted in the file, gets no
  second one in between; a death in between leaves an attempt that names no original.

### The confirm flow

`RunStoreProofs` goes on to prove, for every set of Proposals, Runs and approvals, every set of
lanes a boot may be configured for and every number of deaths and failed writes of
either file: `FlowTypeCorrect`, `HandOffIsConfirmed`, `RepliesAreTruthful`,
`DecisionIsFinal`, `OneActOneExecution`, `RunBeforeProposal`, `FlowExecutesAtMostOnce`,
`FlowImplementsLedger` and `FlowStatusIsOutcome`, from the named assumptions of
`RunTimeline`, `RunStore` and `ConfirmFlow`.

`FlowDrives` says that each step of the composition is a step of the store, one of an
enquiry, a restart, or a write of the proposals file alone; so the invariants `LInv` and
`OInv` of the store survive (`FlowKeepsStore`, `FlowOutcomes`) and with them the ledger
and the truth of outcomes. On top, `FlowInv` has:

* `FileAgrees`: what the proposals file says of a decided Proposal memory says too, so no
  later write of the whole map takes it back; a Run that either names is in the runs file.
* `ConfirmOK`: where the confirm in progress stands. Its Run is in the file, in nobody's
  hands but those of a lane the confirm has passed, and the file calls its Proposal
  confirmed exactly from the write of that file on. It is inductive because the confirm
  holds the thread.
* `HandedOK`: a claim of the agent or the worker lane, in memory already, has its
  Proposal in the proposals file (`Filed`), which `FileAgrees` keeps there.
* `RepliedOK`: a Run that the Owner was told nothing came of is in nobody's hands
  (`Spared`); as only the confirm that created a Run hands it off (`CreatedOK`), and an
  executor works only for a Run it was handed (`BackgroundMoves`), it stays so.
* `ExecutedOK`: what executes is `Filed`, or the Develop lane has it and the confirm is
  about to write. This part, and `OneActOneExecution`, assume `OneAtATime`: no boot has
  the Develop lane, or no write fails. Section 3 says what happens otherwise.

Each action has a lemma; `OtherRun` does the Runs it does not concern.

### The action gateway

`ActionGatewayProofs` proves, for every set of actions, targets, definitions and
readers, every `Covered` relation and all bounds: `TypeCorrect`,
`StartedOnceOnFile`, `TargetsExclusive`, `VerifiedByItsScript`,
`RefusedIsSpentForever`, `RestartEndsAuthority`, `OutcomesAreFinal`, `RestoresUndo`,
`CheckedStaysApproved` and `SurvivorsStillRun`, from the named assumptions of
`ActionGateway` (sentinels outside the sets they complete, bounds are numbers).

None of these is inductive. `IInv` has five parts:

* `TypeOK`.
* `ActionsOK` ties, for each action, its file to the position of its call, its
  script and its number of starts. A dispatch happens only at a position where the
  file says `approved`, and such an action was never started; past it the file
  says `executing`, which no request accepts.
* `LocksHeld`: a call holds its targets in `busy` and in lock files, a script left
  by a dead process in lock files alone. This is why a new call, which takes only
  free targets, works on none that an old script may still change.
* `OneActionPerTarget`, preserved because of it.
* `ReadingOK`: the copy a reconcile took is of an action that is executing or
  uncertain and that no call can reach again, so writing it back later withdraws
  no outcome.

`ApprovalOK`, proved on top, says that a live nonce and a call belong to the
present incarnation, and that a live or refused approval has started nothing.

`SealInv`, also on top, is about what an action is sealed with (its task, the
definition and flag it was proposed on, the task it counts on, the action it would
undo):

* `CopiesOK`: every step leaves a seal alone, and the copy of a reconcile carries the
  same one, so that writing the copy back exchanges nothing under an approval.
* `RestoresOK`: a restore on file names an action that is verified, which is final, and
  is its inverse; both keep their seals.
* `KeptRuns`: as long as nobody else changes tasks, a script that has yet to act still
  finds the task it counts on enabled. That task is locked as one of the action's
  targets, on disk also after the process died, so whatever could disable it would be
  a second action on one target (`OneActionPerTarget`). `SurvivorStillRuns` says this
  of the step alone, and is not provable without it.
* `CheckStillHolds` itself: whatever else could change a task that was checked would
  work on the same target, and a change by others takes the script out of `"checked"`.

The lemmas go by the pieces steps are made of: `GiveUp`, `Save`, `Leave`,
`Dispatch`; the scheduler's own steps touch no file.

### The OpenClaw plane

`OpenClawProofs` proves, for every set of approvals and of processes and every
number of faults and successors: `Typed`, `NoExecutorEscapes`, `IntentIsDurable`,
`EnvelopeStays`, `NothingRanThere` and `WritesAreReadable`, from the named
assumptions of `OpenClaw` (sentinels outside the sets they complete, bounds are
numbers).

The properties speak of records and executors; what makes them inductive is what
a call or a turn may still do. `IInv` has, beside the types:

* `OneCall`: at most one synchronous call is in progress over all processes, and
  one inside a section holds the lock. `FreshCopy`: a copy about to be written back
  is the document as it is. Together they say that no put is lost.
* `RecordOK`: per approval, `Shape` (what a record in each state looks like) and
  the ties between record, instance, envelope and executor: a record in which
  nothing has begun has no executor and no launch intent, an observed control
  group belongs to an executor that came up.
* `CallOK`: what a call has established at each position is still so when it takes
  its next step. At `launchUnit` the record is RUNNING and nothing runs; at
  `markRetired` the executor is gone, which nothing leaves.
* `TurnOK`: a turn is the only one of its approval, and not of the unit lane.

`StepKeeps`, `SectionLedgerPut`, `SectionInstancePut`, `WorkspacePut`, `TurnPut`
and `CutKeeps` reduce the steps of each kind to what they say of their own
approval; the lemmas `...Wrote` say what each put writes.

### Repository promotion

`PromotionProofs` proves, for every set of rows and processes and every number of
faults and moves: `TypeCorrect`, `OnceOnly`, `LiveWhenSettled` and
`OnlyTestedDeployed`, from the named assumptions of `Promotion`. `IInv` has, beside
the types and `NothingRepeated`:

* `SavedOK`, for the row on file: a row from the review on names a reviewed
  candidate, a merge is later on main than the runtime that was saved, what is
  complete or rolled back is what runs as long as it is checked out; and a row that
  can be resumed into a review, a merge or a rollback has not asked for it.
* `CallOK`, for a call: the state of its row fits the place it is at (`Place`), and
  between two saves the row on file is in the same state. This is why a death at
  any place leaves a row that either may be resumed without repeating anything, or
  may not be resumed. After `rollbackMerge`, the forward commit is later than what
  is checked out.

What settled stays settled because whatever happens to the runtime goes forward on
main, or starts what is checked out (`Later`, `RowLater`). `CallStep` reduces every
step inside a call to the order of the call it leads to; `RecordKeeps`,
`RenameKeeps`, `GotoKeeps`, `AttentionKeeps`, `LeftKeeps` and `UndeployedKeeps` are
the kinds of such steps, and each action has a lemma that says which kinds it uses.

### Confirmed development

`ConfirmedDevelopmentProofs` proves, for every set of plans, every set of things the
Owner may ask and every number of faults and deaths: `TypeCorrect`, `DevelopedOnce`,
`WorkersExclusive` and `CancelledStops`, from the named assumptions of
`ConfirmedDevelopment` (the sentinel is no plan, what may be asked is about plans,
bounds are numbers). `IInv` has, beside the types:

* `Journaled`: of whatever is on its way to the bridge, begun there or in its files,
  the intent is on the plan's row. A beginning on its way belongs to a plan of which
  nothing was begun, and a row has one development. This makes it harmless that a
  request given up arrives later: whoever would ask again finds its intent.
* `Held`: the copy of the flow that holds the slot may be stale, but not in what was
  asked (`Same`); the execution holds the slot exactly while it registers. So writing
  a copy back erases no intent.
* `Placed`: where the execution stands, and that one that stops has its verdict.
* `Lanes`: a draft in progress has the lane, beside `OneWorkerAtATime` itself, which
  is not inductive without it.

Steps of the execution go through `Waits`, `Pauses`, `Ends`, `Fails` and `Calls`, of
which each has a lemma (`...Continues`) that reduces it to what it leaves alone;
`DelegationKeeps` does the rest. `BridgeKeeps` and `BeginsJournaled` are the same for
the bridge.

`CancelledHasStopped` relates the row of one process to the files of another, with
requests in between that may be handled after they were given up. `StopInv` is what it
rests on:

* `Filed`: a draft on the bridge was begun, a coding run was asked for and its draft is
  registered, and an approval on its way is of a run that is on file.
* `Executing`: the running execution knows its children, and as long as it knows of no
  coding run, none of its own codes and no approval is on its way. So a late approval
  can only concern a run that the stop will ask about.
* `Told`: an answer that names an end (`TaskEnds`, `WorkEnds`) is still true when it is
  read, because what has ended on the bridge stays ended (`Grows`).
* `Copied`: the flow that holds the slot works on another plan's row, and its stale copy
  says "cancelled" only where the row does.
* `CancelledIsSafe`: the property itself, in the form that no later step undoes. A
  draft has ended or was never asked for; a coding run has ended, or neither runs nor
  can be approved any more.

Each step of the execution either goes on with a child it knows (`Going`) or ends
(`Ended`); `OutcomeKeeps` shows once that both keep `StopInv`. The steps of the slot
leave the running execution's row alone (`SlotStands`), and those of the bridge leave
the backend alone (`BackendWaits`).

### The import of mail

`MailImportProofs` proves, for every number of messages, faults, deaths, starts and
reopenings, with starts written during a tick among the steps: `ImportIsTyped`,
`CompletedImportCoversTheStart`, `ImportCountsOnce` and `HeldImportIsLeftAlone`, from the
named assumptions of `Mailbox` and `MailImport` (bounds are numbers). The second and the
third state `CompletedImportIsWhole` and `CoverageIsReal`, whose exceptions, `overlapped`
and `reopened`, are behaviours of the code that break them.

The tick decides on its copy of the checkpoint and `advance` writes into the checkpoint
of that moment, so a statement about the outcome alone is not inductive. `IInv` speaks of
the work that an import has still to do, which is the rest of the saved page (`Rest`) and
the mail older than a token (`Before`):

* `Following`: while a tick goes on, its copy and the checkpoint say the same of that
  work, although a control may have changed the state; and the import is not completed.
* `Placed`: the place of the tick agrees with its copy, and a message to be counted is
  the current one, captured if it is to be counted as retained.
* `Ahead`: what was there at the start is counted, deleted or still ahead. `ScanShows`
  gives it for a page that is listed: what is neither shown nor deleted is older than the
  page's token, so the page can be worked off message by message.
  Both are said of imports that are not `overlapped`, from the write of their start on.
* `Once`: until a completed import is held again, what is ahead was not counted yet, is
  listed once and not again on a later page; so a message leaves `Rest` in the one step
  that counts it, and a replay after a throw or a death begins behind it.

Every step that leaves this work alone (the controls, deaths, throws, the clock, mail that
comes or is deleted) keeps it by one lemma, `StandsKeeps`.

### The receiver of mail

`MailReceiverProofs` proves, for every number of messages and of faults:
`ReceiverIsTyped`, `CursorIsCovered`, `AcknowledgedIsSettled` and `CursorNeverBack`,
from the named assumptions of `Mailbox` and `MailReceiver` (bounds are numbers).
`CursorCovers` is not inductive: the write that moves the cursor is steps away from
the listing that justifies it, with deaths, arrivals and deletions in between. `IInv`
has, beside the types (`TypeOK`, `Shape`):

* `Beginning`: before there is a cursor nothing was acknowledged and no token saved.
* `Coverage`: whatever is on file claims only mail that was dealt with: the cursor, the
  acknowledgements, a page token (all before it) and a scan's token (all from it up to
  the baseline, as a scan goes from the newest message down).
* `PageCovers`: so does the page in hand, of which some messages are still to be done.
* `BatchBelow`: the notifications in hand lie below the target, and below the cursor
  once the tick is about to acknowledge them.

Steps that leave the cursor and the tokens alone keep `Coverage` because what is dealt
with stays so (`Standing`); the others have a lemma each.

### The turns at the model

`MailTurnsProofs` proves, for every number of attempts an hour: `TypeCorrect`,
`ModelCallsExclusive`, `ConversationsAlone` and `BudgetIsKept`. The flags are read
before awaits in which they change, so each property needs what has held since the
reading. `IInv` has, beside the types (`Flags`, `Kinds`):

* `Placed`: an analysis has an owner while it stands anywhere, and only the Owner's
  stops the index first.
* `KeptOut`: while the scheduler holds a reservation, and from the moment an analysis has
  stopped the index, the index is at its timer; an analysis that calls has found no call
  of another still pending.
* `Alone`: once a conversation waits for no call, the scheduler has none in flight and
  may not begin one, and the index rests.
* `Paid`: a call is made from an attempt counted in the same hour and not yet spent
  (`Unspent`); an attempt that is given back has not called. The hour may change between
  the two, so `Paid` speaks of both the file and the tick's copy.

### Only model-checked

Liveness, with ENABLED, is beyond this prover: `ClaimedAgentRunSettles`,
`DelegationEnds`, `ImportEnds`, `MailIsSettled` and `BothGetTurns`.

## 5. Not modelled yet, and the plan

The parts left out are listed with their reasons in `PROJECT.json`. In order:

1. **Owner approval** (`OwnerApproval`: sessions, nonces, sealed orders), and its
   composition with `ConfirmFlow`: one approval, one confirm.
2. **OpenClaw**: the composition's `reconcile` as a section of its own, and an
   abstract specification of the lockout that both lanes implement.
3. **The rest of the action gateway**: a proposal presented in chat and confirmed
   by a typed answer, which needs the conversation's one open proposal.
4. **Computer orders** (single-use authorizations around external effects), and of
   repository promotion the queue of accepted-work requests and the three approvals
   behind an authority.
5. **The rest of development**: replanning, repository-scoped requests and renewals,
   the recoveries and budgets of project work.
6. **Mail**: the five-minute scan, the durable back-off of the
   index, approvals of threads.
