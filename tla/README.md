# A formal model of TerminalWisely

TerminalWisely is a desktop SSH terminal with an "AI engineer". Three programs share the work:

- a **webview** (React, TypeScript, `src/src`): one JavaScript thread that shows everything, follows the agent,
  asks the user for approvals and starts the agent's commands;
- a **back end** (Tauri, Rust, `src/src-tauri`): a thread pool that runs the webview's commands, owns the SSH
  sessions, keeps the registry of privilege leases and writes the catalogs to disk;
- a **sidecar** (Python, `src/agent-sidecar`): one asyncio thread that runs the agent loop, decides what needs an
  approval, issues leases and keeps the session log.

This directory holds TLA+ modules of the parts whose correctness depends on the order in which things happen, the
TLC instances that check them, and proofs for TLAPS.

Paths below are relative to `src/`.

## 1. Inventory

### 1.1 How the parts interact

```
        approve / reject / stop
 user ─────────────────────────▶ webview ── register_privilege_lease, ai_terminal_exec ──▶ back end ── SSH ──▶ host
                                 │    ▲                                                     │
              tool_result,       │    │ events: approval_needed, tool_call,                 └─ catalogs on disk
              approval_decision, │    │ tool_timeout … (a stream; after a failure, pulls)
              user_answer, stop  ▼    │
                                 sidecar ── session log and wait snapshot on disk; the model's HTTP API
```

1. The sidecar samples the model, which asks for tool calls. Policy lets a call run, wants an approval, or answers
   it at once. For the first two the loop *waits*: it creates a future, sets the run's status, writes an event for
   the host and a wait snapshot to disk.
2. The webview follows the event log. It opens the dialog of an approval and posts the decision; it queues the
   command of a `tool_call` on the session and posts the result. It does not await the command.
3. An approved call carries a lease: the exact command and session, an expiry, a number of executions. The webview
   registers it with the back end and calls `ai_terminal_exec` with its id. The back end tests the lease, runs the
   command, and then charges the lease.
4. A time limit in the sidecar ends a wait the host does not answer. Stop and a new chat cancel a run. The sidecar
   may be killed at any time; a wait is then re-armed from its snapshot.

### 1.2 Components

| component | state | operations | what is hard | what makes it correct |
|---|---|---|---|---|
| privilege leases (`ai_engineer/leases.rs`, `terminal.rs`) | map from lease id to action, expiry, executions | register, test, run, charge | the mutex is given up during the run and between the two halves of the charge | what runs is what was approved; successes stay within what was granted, and so do runs, up to the calls that race |
| agent runs (`agent-sidecar/app/agent/loop.py`, `graph.py`, `stall.py`, `state.py`, `main.py`, `wait_snapshot.py`, `guards/timeout.py`) | runs, status, pending wait, task, snapshot, tool messages | start, supersede, stop, sample, wait, answer, time out, re-arm, stall | restarts with a wait open, late and repeated answers, time limits, cancellation in a wait, file errors that are swallowed | a command is dispatched once and only if approved; a stopped run stays stopped; waits survive a restart; and how far this depends on files that can be written |
| host bridge (`lib/aiEngineer/chatClient.ts`, `toolBridge.ts`, `hostExecQueue.ts`, `postToolResult.ts`) | stream and pull cursors, handled and settled sets, dialog, queue, jobs | handle an event, decide, run, post a result, fall back to pulling, stop | two clients of one log; lost requests and responses; late results | results answer their own call; only approved commands run; dialogs are never held up by the host |
| durable catalogs (`durable.rs`) | file, mirror, `.bak`, temporary file | load, restore, save | a crash between any two system calls; failing calls; threads that share a temporary file | what was acknowledged survives; a catalog is not emptied by accident |
| database leases and statement gate, the workbench (`db/lease.rs`, `gate.rs`, `auth.rs`, `commands.rs`, `DbWorkbench.tsx`) | leases, connection revisions, the approval card, a sequence number | run, approve, authorise, consume, cancel, deliver | the connection changes between card, click and run; responses come late | what runs is what the card showed, where it showed it |
| in-flight database work (`db/live.rs`) | flights, early cancels, queue of 32 | begin, cancel, close, drop | critical sections that are not joined | whoever stops a query is heard; the tables do not leak |
| connection catalog and vault (`db/catalog.rs`, `secrets.rs`, `commands.rs`) | records, secrets in memory and on disk | save with a probe and a rollback, delete, import | a fault or the end of the process between any two writes | record and secret belong together, and were probed together |
| session log (`agent-sidecar/app/session/*`) | events, surface | append, repair, compact, clone, reload | a range chosen before an await and replaced after it | what was said leaves the surface only for a summary made of it; the model never sees a call without its result; a reload rebuilds the surface |
| file transfers (`transfer.rs`, `ssh/stream_transfer.rs`, `ssh/sftp.rs`, `ssh/client.rs`, `session/mod.rs`) | registry of cancel flags, read task, queue, the remote path | upload, send, download, cancel, clean up | reader and writer see the flag at different times, or not at all; ends that go silent | success means the whole file; a cancelled transfer stops |
| SSH sessions (`session/mod.rs`, `ssh/*`) | sessions, leases | open, reconnect, close, lease | tests and actions under different locks | not modelled |
| policy and approval cache (`policy/*`, `harness/*`) | tables, cached approvals | classify a command | text | — (its three outcomes are inputs of AgentRun) |
| sidecar supervision, model gateway, CLI runtimes, research and skills, chat history, Kubernetes, files, proxies, shell, Markdown editor | see `PROJECT.json` | | input and output | not modelled, reason in `PROJECT.json` |

`PROJECT.json` lists every component with its sources and, under "hazards", each place where an order of events
that no unit test reaches can go wrong, with the property that covers it or the reason none does.

## 2. The modules

| module | models | state and steps |
|---|---|---|
| `PrivilegeLease` | the lease registry and `ai_terminal_exec` | one step per critical section and per outcome of the command |
| `AgentRun` | the runs of one SSH session in the sidecar | one step from one suspension of the event loop to the next |
| `HostBridge` | the webview's side of one run | one step between two awaits |
| `DurableCatalog` | one catalog on disk | one step per system call |
| `CatalogRegister` | what a catalog promises its callers | abstract: a register whose unacknowledged writes may or may not have happened |
| `DbQuery` | the workbench, the gate, the flights and the driver's PostgreSQL path | one step per lock, per await and per click |
| `DbConnections` | saved connections and their passwords | one step per write and per probe |
| `SessionLog` | the log of an agent run, its compaction and its replay | one step from one await of the loop to the next |
| `FileTransfer` | uploads, downloads and server-to-server sends | one step per chunk, per look at the flag, per await |
| `PrivilegeLease_proofs`, `AgentRun_proofs`, `HostBridge_proofs`, `FileTransfer_proofs`, `DbQuery_proofs`, `DbConnections_proofs`, `DurableCatalog_proofs`, `SessionLog_proofs` | — | typing, the inductive invariant, one lemma per action, the theorems of section 4 |
| `MC…` | bounded instances | |

A module that gives a definition a mutated twin (`RegisterLate` beside `Register`) does so to show that the
property named with it in `PROJECT.json` depends on that piece of code: with the twin in place TLC finds the
property violated.

### 2.1 PrivilegeLease

`registry` is the map behind the mutex, `issued` what the sidecar signed off, `call` the concurrent invocations. A
session id and a command are one *action*, because the registry only compares them.

- `Issue`: `finish_approval_wait` or `_try_session_approval` in the sidecar.
- `Register`: `register_privilege_lease`; refuses an expired lease, otherwise inserts over what is there.
- `Begin`, `Refuse`: `assert_lease_ready` before the run; a refusal may drop an expired entry.
- `Finish`, `TimeOut`, `Fail`: the outcomes of the capture. Only the first goes on to the charge.
- `ConsumeCheck`, `ConsumeCharge`: the two critical sections of `consume_lease`.
- `granted`, `ran`, `uncharged`, `succeeded` are history: executions the registrations allow, runs that reached the
  host, those of them that were never charged because they timed out, failed, or came to the charge after the
  expiry, results returned as a success.

### 2.2 AgentRun

`run` is the `AgentRun` object (status, flags, pending wait, watchdog), `loop` where its coroutine is suspended,
`disk` the session log and the wait snapshot, `talk` the calls and tool messages of the conversation, `hist` the
history of decisions, dispatches and file errors. A call of the conversation is of this run or came with the log
that the run resumes (`base`, `came`).

- `Create`, `Cancel`, `Restart`: `create_run` with `_cancel_other_runs`, or `create_run_resuming` with the log of
  any earlier run, open calls and results included (`Cloned`), `cancel_run`, the death of the process. Cancelling a
  task is two steps: the flag and the task (`TaskCancelled`), and the handler of `CancelledError` (`Die`).
- `Enter`, `Cleared`: a wait begins (future, status, event, snapshot) and ends. The snapshot is kept in the run's
  metadata (`memo`) and in a file. `record_wait_snapshot` and `clear_wait_snapshot` swallow the errors of the file:
  one that cannot be written stays as it was, or is cut short and reads back as none; one that cannot be removed
  stays (`Saved`, `Cleared`; `hist.unsaved` and `hist.unremoved` say of which waits).
- `Sample`, `Proceed`: what a sample brings and what the loop does with the rest of the turn's calls.
- `WakeHost`, `WakeApproval`: the loop after its future is resolved; an approval leads straight to the dispatch of
  the command.
- `Timeout`: `ToolTimeoutGuard` and `_resolve_timeout`.
- `Hydrate`, `Rearmed`, `Resolved`, `Delivered`: reading a run back, re-arming its wait, and the handlers
  `tool_result`, `approval_decision`, `user_answer`, which may come at any time and any number of times.
- `Stall`, `WatchdogExit`: the watchdog's poll.

### 2.3 HostBridge

The sidecar is reduced to the status, the asked call and the event log (`AskApproval`, `Dispatch`, `ToolTimeout`,
`RunEnds`, the two acceptance tests). `client` holds the stream client and the pull client, each with a cursor, the
dialog it awaits (`at`), and its `handled` and `settled` sets. The stream client handles events on a promise chain:
it stops at a dialog, never at a command.

- `HandleApproval`, `HandleElsewhere`, `HandleToolCall`, `HandleToolTimeout`: `handleProtocolEvent`;
  `HandleElsewhere` is the rejection posted at once when another chat is open.
- `StreamBreaks`, `StreamCloses`, `PullFails`, `DecisionFails`, `PostFails`: each request or response that can be
  lost, with both outcomes for the receiver. `FallBack` starts the pull client at the first event with empty sets
  while what the stream has queued goes on.
- `StartJob`, `RefuseJob`, `FinishJob`, `PostResult`: `enqueueHostExec` and `postToolResultWithRetry`.
- `Stop`: `stopActiveRun`, which rejects an open dialog and aborts the signal.

### 2.4 DurableCatalog and CatalogRegister

A document is the set of its records. A file is a document, missing, or unreadable. `Load`, `Restore`, `Choose`,
`Read` are `load_value` with `restore_if_needed`; `Save`, `Guard` are `save_value`; `Create`, `Write`, `Backup`,
`Remove`, `Rename…` are the system calls of `atomic_write` and `replace_file`, for the primary and then the mirror.
`Crash` may cut off a copy to `.bak`; `CallFails` makes any of the calls fail; a failed restore is ignored and a
failed save reported, as in the code. `Found` is what a load would show if the process were started now, and the
refinement mapping is `doc <- Found`: `CatalogRegister` is the promise.

### 2.5 DbQuery

Every `db_query`, every Cancel and the close of the SSH session is a task of its own. A statement is its class, an
operation id names the request, its flight and its lease.

- `Run`, `Approve`, `ApproveRun`, `Reject`, `Cancel`, `Select`, `SwitchWorkspace`, `Save`, `SaveDone`, `Deliver`:
  the workbench. `Approve` takes the card's connection for the lease and the *selected* one for the request, and
  leaves the card up, as the component does; `Deliver` is what `run` does with a response.
- `Authorize`, `LeaseExpires`: `run_authorized`, `decide_sql` and `consume_db_lease`.
- `TakeEarly`, `InsertOperation`, `PushSession`, `Drop`, `CancelLookup`, `CancelQueue`, `CloseSession`,
  `RemoveSession`: the three tables of `live.rs`, one step per lock.
- `Dial`, `Send`, `Finish`, `Halted`, `Timeout`, `CancelAnswered`: the driver. A halt is heard before the
  connection is dialled and while the statement runs, not in between. A halt or the deadline of a running statement
  leads to `cancel_postgres`, a connection of its own to the server, which is awaited without a deadline: the
  command is `cancelling` until it ends.

### 2.6 DbConnections

`catalog` and `vault` are the files, `memory` the vault's copy, `keychain` where an earlier version kept the
passwords. A save goes `load`, `secret`, `probe`, `store`, and after a failure `rollback`; a delete removes the
password and stores the catalog. Every write may fail and the process may end between any two steps (`Crash`),
after which the vault is read again and the keychain is imported once more if its marker is missing. `doubt` and
`half` record what a fault in the middle of a command may have left.

A record says whether the vault has a password for it (`secret`). `Had` is the password that a save finds: none
where the record names no secret, whatever the vault holds; that is also what a rollback puts back. `Unusable` are
the refusals; an engine of `Optional` (redis) needs no password, and a save that neither types nor clears one
leaves the vault alone (`Touches`). `Probed` is what the server is asked: a typed password is probed without the
blanks around it (`Trim`) and stored with them.

### 2.7 SessionLog

`log` has the events and the surface, the positions of the events the model is shown. The file is rewritten in the
same step as each append, so it is not a variable. `load_jsonl_rows` goes through its rows one by one, and rows are
only ever added: `read` is the surface it would make of the rows so far, carried along with each event (`Fold` is
the body of its loop), and `Reloaded` is the log with that surface. The repair's list without the results that have
no call is `Kept`, its stubs are `Stubs`: `Ordered` lists a set of positions, or of calls, from its smallest
member, by counting, where the code filters a list and walks a set (whose order nothing depends on). `Stretch` is
`select_compactable_range`, `Repaired` is `_repair_tool_message_pairs`, `Prepare` the head of the loop (repair,
reminder, compaction under pressure). `Compacting` … `Summarised` are the two sides of the await in
`_compact_region`; `UserContext`, `Stop` and `Restart` may come in between. `Resume` is the clone of a prior run,
`RearmedAnswered` the loop driven by the watcher of a re-armed wait. `Turn` puts a system prompt in front where
there is none, the context of the turn before the user's message and perhaps skills after it.

A message holds what was said in it, which is how a loss becomes visible; a summary holds what it was given of its
stretch (`Summaries`). A summarizer is given all of it; the fallback, when that fails, lists the last
`FallbackKeep` messages (12 in the code); and every message is cut to a length on the way, so that of an earlier
summary any part may be missing. What a summary leaves out is `omitted`. What is sampled is the surface after
`compact_messages_for_model`, which drops the oldest messages one by one while they exceed the budget: `Trimmed` is
what it leaves when it has dropped n.

`Spec` begins with a new log, or with one that a command-line runtime began without a prompt. The latter gets its
prompt in front when it is continued, and is read back with the prompt elsewhere (`ReplayIsSurface`, section 3):
after that a later compaction can lose what was said. `SpecFromStart` is `Spec` without restarts and clones of such
a log, and with them for every other; the properties and the theorems are about it.

### 2.8 FileTransfer

`tr` is the task of a send, an upload or a download, with its registry entry and cancel flag, `rd` the read task it
spawned with their bounded queue (in a download: the read it awaits together with the write of the chunk before),
`src` how the source ends, `dest` what the path holds. `Begin`, `Cancel`, `Clear` are the registry; `Connected`,
`NotConnected` the `select!` of a connection and the flag; `ReadChunk`, `Eof`, `Poll`, `Push`, `Drained` the
reader; `Receive`, `Write`, `WriteFails`, `QueueClosed`, `Finish` the loop that writes; `Removes`, `Cleanup`,
`Remove` what a cancel does to the path. When the task of a transfer returns, its connections end, and with them a
reader nobody awaits (`Leave`). A chunk counts as written when it is handed to the destination, which may have up
to four more to answer for. `ReturnCut` is a return without a word of those that failed: of a send whose
destination goes away without a status, and of an upload, whose last act is a `shutdown()` with its result dropped
(`Short` is what the path holds then).

## 3. What the runs show

| run | bounds | result |
|---|---|---|
| `privilege_lease` | one lease, two actions, two calls, three instants, up to 2 executions per lease, five runs | 94 704 states, holds |
| `agent_run` | two runs, two calls between them, three lives: runs created, restarts, runs with file errors | 602 964 states, holds |
| `host_bridge` | two calls, one failure, two attempts, a stop at any time | 1 761 203 states, holds |
| `approval_respected` | the same | **violated** |
| `durable_catalog` | one thread, two records, two crashes, one failing call; or two loading threads after a crash | 292 262 states, holds |
| `durable_reader` | one saving and one loading thread, no crash, no failure | **violated** |
| `db_query` | two connections, two requests, one save or switch, an early queue of one | 536 301 states, holds |
| `db_connections` | two connections, an engine that needs a password and one that does not, two passwords, three commands, two faults | 1 433 485 states, holds |
| `session_log` | four messages, two calls, one restart or clone | 1 517 584 states, holds |
| `log_replays` | three messages, two calls, one restart or clone | **violated** |
| `file_transfer` | a send and an upload to one remote path, or two downloads to one local path; two chunks, a queue of one | 349 913 states, holds |
| `cancel_stops` | the same, the source may go silent | **violated** |

**privilege_lease.** Successful results never exceed the executions granted (`SuccessWithinGrant`); an entry in the
map has an execution left (`NeverExhaustedInMap`, so the "exhausted" answer is never given); a command under a
lease is the one approved for it (`RunsWhatWasApproved`), also when the entry is dropped or registered again while
the command runs; every invocation returns (`EveryCallReturns`). The lease is tested before the run and charged
after it, and a run that timed out is not charged, so two racing calls, or a retry after a timeout, run the command
twice. How often is `RunsPerExecution`: an execution lets no more than one run per racing call through, whatever is
registered again in between, and what is not charged comes on top. A second registration under the same id, which
the back end allows until the expiry, counts as granted.

**agent_run.** A call is dispatched at most once (`DispatchOnce`), and a call that needed an approval only if it
was approved and not rejected (`OnlyApprovedSent`), through restarts, re-armed waits and late decisions. An awaited
answer is on disk (`OpenWaitIsDurable`). These three hold as far as the wait snapshots can be written and removed,
and each says which file error breaks it: a snapshot that could not be saved is not there; an approval whose
snapshot could not be removed can be asked again after a restart, and be given after it was rejected; if the
snapshot of the dispatch that followed it could not be saved either, the command can be dispatched again. A created
run has at most one tool message per call (`AnsweredOnce`), the calls of the log it was resumed with included, of
which only those that came with it may have more; it is inert once stopped or superseded (`EndedIsFinal`), and is
alone among the created ones of its session (`OneCreatedRunActive`). A host that never answers does not hold it
(`HostWaitEnds`). The last four are about runs this process created: a run that is read back from disk has a
watcher that nothing cancels, so a stopped run whose snapshot was left behind can come back after a restart. The
model has that behaviour, and two more that no property is about: the tool limit leaves a run that waits for an
approval or for the user parked on a dead future, and the watchdog ends at the first wait it sees.

**host_bridge.** Of the jobs of a session one is on the host (`OneAtATime`); results answer their own call
(`ResultsMatch`); a call is approved, and a command that needs an approval runs, only if the user said yes to that
call, which need not be the user's last word (`ApprovedByUser`); an approval nobody sees can always be shown next
(`PromptNotBlocked`), except where it is said why not.

**durable_catalog.** With one thread the files implement the register (`ImplementsRegister`, `AckedSurvives`)
through two crashes and a failing call; without a failing call no crash empties a catalog (`CrashesKeepRecords`).
After a crash two threads that restore at once through the same temporary file still find the acknowledged
document.

**db_query.** A statement that needs an approval reaches a server only if the user approved that statement for that
connection as it was on the card, the same server included, although connections are saved, selected and switched
between card, click and run: only the lease's revision does this (`OnlyApproved`). A cancel that does not overlap
`begin`, and a close of the session, reach the query (`StopHeard`); the tables hold the running queries and nothing
else (`NoLeak`); what was in flight at a Cancel, or at a click on another connection, is not shown afterwards
(`NoLateResult`; a change of workspace and the reselect after a save do not count the sequence number up, and a
response of before them is shown); every request ends and the workbench does not stay busy, though the server never
connects and never answers the statement (`RequestsEnd`), if the requests to cancel a statement end: that is the
one await of a command without a deadline, and without the condition the property is false. Two things the model
has that these allow: a cancel that meets `begin` half-way is lost, and a second click on Approve, possible because
the card stays up, runs the statement again (`DoubleClick` switches it on; the run leaves it off, since each click
is an approval and it only makes more states).

**db_connections.** While no command runs, record and password of a connection are those of its last successful
command, now and after a restart; a fault may leave another, but only one that the interrupted command dealt with,
or none, where the fault left a record that names no secret: the rollback of the next save then removes the
password that the vault still has (`ConnectionKept`). What a successful save leaves was accepted by the server as a
pair, the password up to the blanks around it (`ProbedTogether`): one typed with blanks is probed without them and
stored with them, so what a query then logs in with need not be what was probed. The commands come one after the
other, as the one busy form of the workbench issues them; with two tasks `ConnectionKept` fails, because a save
stores the whole catalog it loaded before its probe.

**session_log.** What was said leaves the surface only for a summary that was made of it, by a compaction that
awaits its summary while messages arrive (`OnlySummariesOmit`): it is on the surface, in a summary there, or was
left out by the fallback or by a cut. When the model is sampled, every call on the surface has its result and every
result its call; and however much the trim on the way to the model drops, a call that it leaves has its result
(`SampledPaired`). The converse fails: the trim drops a call before its result, and the model is shown a result
without a call. A compaction keeps the prompt and the tail (`TailKept`). The scene with a log begun by a
command-line runtime has no restart: with both, `OnlySummariesOmit` fails by the defect of finding 3.

**file_transfer.** A transfer that reports success has put every chunk at its path, in spite of a cancel that came
too late and of what reader and writer each saw of it (`WholeIfSent`). Excepted are sends whose source or
destination breaks off, because a channel without an exit status counts as success and a status that comes before
the end of the data is skipped; uploads whose last writes fail, because up to four are outstanding at the
`shutdown()` and its result is dropped; and paths that another transfer touches. A transfer that runs can be
cancelled, and after a cancel at most the chunk being written is still handed to the destination (`CancelHeard`).
Excepted are downloads: `download_file` looks at the flag only when a read has brought nothing for 200 ms, so one
that flows is not stopped, and is reported as a success that the status bar has already dropped. Every transfer
ends if its ends answer or fail (`TransfersEnd`). The model also has what no document excludes: a cancelled send or
download removes the path even if it never opened it.

**The four violations** are places where a sentence of the repository and the code part:

1. `approval_respected`: after a stream failure the pull client replays the log. An approval is asked again; the
   rejection (or the stop) is answered with a 409 that nobody reads and the command in the same batch starts; a
   command that ran starts a second time while its lease is valid.
2. `durable_reader`: a load that meets the gap between the removal and the rename restores the older mirror through
   the temporary file the save is about to rename; the save returns Ok and its document is lost.
3. `log_replays`: `insert_system_at_front` and `replace_surface_messages` mark their events as appended, which is
   not what they do to the surface; a log that is read back has the prompt in the middle and the repaired messages
   beside the old ones.
4. `cancel_stops`: the read task of a send, ended by the flag, still waits for its source's channel to end
   (`read_result.and(….await)` evaluates its argument), and the writer waits for the read task. A silent source on
   a live connection keeps a cancelled transfer running; the keep-alive (10 intervals of 30 s) ends only a dead
   link.

### 3.1 Why the bounds are enough

Leases do not interact, so one is enough; two calls are the racing pair, two executions separate "one left" from
"used up", three instants give *before*, *at* and *after* an expiry. In the agent two calls give a late answer a
wrong call to hit, two runs let one supersede or resume the other, and three lives let a re-armed wait be lost
again; a run with a file error counts as a life, so that an error meets one restart. In the webview two calls do
the same; one failure already makes both clients run at once, which is where the trouble is, and a failing pull
needs no budget. `Attempts` is 2 where the code has 3: a lost response and a retry. In the catalog two records tell
*older*, *newer* and *emptied* apart, two crashes let a crash meet what the recovery of an earlier one left, and
failing calls fall on every call in turn. In the workbench two requests are a card and its approval, or a query and
the one that makes its cancel late; one save or switch makes a card stale; a queue of one for the code's 32 is full
with the second cancel. Two connections, two passwords and three commands are a connection saved, edited and
removed while another must stay as it is. Of the two engines one needs a password, and of the two passwords one is
the other with a blank, so that the probe and the vault differ. Four messages, with the prompt, the contexts, the
results and the stubs beside them, make a compaction, a second one over the first's summary, and messages in
between; a tail of one is the smallest, a stretch of four leaves room for a call and its result in it, and a
fallback that lists one message leaves out the others. Two chunks and a queue of one have a chunk being written,
one in the queue and one that waits for room; with three chunks and a queue of two the safety properties hold as
well (807 998 states).

`MaxRun`, `MaxExec`, `MaxGrant`, `MaxTime`, `MaxCall`, `MaxLife`, `MaxFault`, `MaxCrash`, `MaxFail`, `MaxMove`,
`MaxCommand`, `MaxSaid`, `MaxReload` are the names of the bounds; each is a conjunct of the guard of the step it
bounds, and no configuration uses a constraint.

`MCDurableCatalog`, `MCDbQuery`, `MCSessionLog` and `MCFileTransfer` start in one of two *scenes*: the initial
states and the next-state relation are those of the module, and a scene only chooses among its initial states, so
that two costly things (a restart and a second thread, an edited connection and a closing session, a remote and a
local path) do not multiply each other. The two of `MCSessionLog` are the two disjuncts of `Start` (section 2.7).

`CHECK_DEADLOCK FALSE` is set where a session really may stop: a session whose runs are over (`AgentRun`), used up
bounds of commands and messages (`DbConnections`, `SessionLog`). `DbQuery` and `FileTransfer` end in a step of
their own (`Idle`, `AllDone`), whose guard says what must be finished.

### 3.2 Fairness

- `PrivilegeLease`: weak fairness of the outcome of a running command, because `ai_exec_limits` gives every command
  a total limit, and of the two critical sections, because the mutex is never held across an await. Used by
  `EveryCallReturns`.
- `AgentRun`: weak fairness of a host wait's end, by its answer or by the tool time limit: the event loop resumes a
  wait whose future is resolved, and `wait_for` fires. Nothing is assumed of the model, the user, the host or the
  watchdog. Used by `HostWaitEnds`.
- `DbQuery`: weak fairness of the steps of a command, its deadlines among them, and of the answer to a save.
  Nothing is assumed of the user or the server. The PostgreSQL path has a deadline for the connection and for the
  statement, but none for its cancel request, a connection of its own (`CancelAnswered`, which is not fair). Used
  by `RequestsEnd`, whose premise is that no command stays `cancelling` for good. The MySQL and SQL Server paths
  await some answers without a deadline, and the property is not about them.
- `FileTransfer`: `StallFairness` has the application's tasks run and lets a connection, a write, the end of the
  destination's channel and a removal end with an answer or an error; the source may be silent. Used by
  `CancelStops`. `Fairness` adds that the source goes on and ends. Used by `TransfersEnd`.
- `HostBridge`, `DurableCatalog`, `DbConnections` and `SessionLog` state safety only.

## 4. What is proved

Each of the eight components has a module of proofs (`<component>_proofs`, 14 307 obligations together). The
theorems hold for every value of the constants that the assumptions below allow: any number of runs, calls, leases,
tasks, transfers, threads and connections, and any bound on the events that the runs of section 3 cap.

| theorem | statement | what it says |
|---|---|---|
| **`PrivilegeLease_proofs`** | | |
| `TypeCorrect` | `Spec => []TypeOK` | |
| `SuccessesAreGranted` | `Spec => []SuccessWithinGrant` | successes stay within what was granted, however many calls race |
| `OnlyApprovedRuns` | `Spec => []RunsWhatWasApproved` | a command under a lease is the one approved for it |
| `ExhaustedIsUnknown` | `Spec => []NeverExhaustedInMap` | the "exhausted" answer is dead code |
| `RunsAreBounded` | `Spec => []RunsPerExecution` | an execution lets one run per racing call onto the host at most, uncharged runs apart |
| **`AgentRun_proofs`** | | |
| `TypeCorrect` | `Spec => []TypeOK` | |
| `DispatchedOnce` | `Spec => []DispatchOnce` | a call is sent to the host once at most, unless two file operations on its waits failed |
| `SentAsDecided` | `Spec => []OnlyApprovedSent` | a gated command is sent only after a yes, and after no rejection unless its snapshot could not be removed |
| `WaitsAreDurable` | `Spec => []OpenWaitIsDurable` | an awaited answer is on disk, unless saving it failed |
| `CallsAnsweredOnce` | `Spec => []AnsweredOnce` | a created run adds no second tool message to a call, cloned calls included |
| `OneActive` | `Spec => []OneCreatedRunActive` | one active created run per session |
| `EndedForGood` | `Spec => EndedIsFinal` | *action property*: a created run that was stopped or superseded stays over and sends nothing |
| **`HostBridge_proofs`** | | |
| `TypeCorrect` | `Spec => []TypeOK` | |
| `OneOnHost` | `Spec => []OneAtATime` | one job of the session is on the host |
| `ResultsAreOwn` | `Spec => []ResultsMatch` | a result answers its own call |
| `UserApproves` | `Spec => []ApprovedByUser` | a gated command is on the host only after the user's yes to it, which need not be the last word |
| `PromptComes` | `Spec => []PromptNotBlocked` | no hung command keeps a prompt from being shown |
| **`FileTransfer_proofs`** | | |
| `TypeCorrect` | `Spec => []TypeOK` | |
| `SuccessIsWhole` | `Spec => []WholeIfSent` | a reported success has every chunk at the path, with the exceptions of section 3 |
| `CancelIsHeard` | `Spec => []CancelHeard` | a running transfer can be cancelled; of a send or an upload one chunk at most is still handed on |
| **`DbQuery_proofs`** | | |
| `TypeCorrect` | `Spec => []TypeOK` | |
| `RunsAsApproved` | `Spec => []OnlyApproved` | what needs an approval runs where and as the card showed it |
| `TablesAreExact` | `Spec => []NoLeak` | the tables hold the running queries and nothing else |
| `StopsAreHeard` | `Spec => []StopHeard` | a cancel or a close reaches its query |
| `LateIsDropped` | `Spec => NoLateResult` | *action property*: a response of before a Cancel, or before a click on another connection, is not shown |
| **`DbConnections_proofs`** | | |
| `TypeCorrect` | `Spec => []TypeOK` | |
| `AcceptedTogether` | `Spec => []ProbedTogether` | what a save reports as saved, a server accepted as a pair, up to the blanks around the password; any commands at once |
| `OneByOne` | `Task = {t}` proves `Spec => []ConnectionKept` | record and password stay those of the last successful command, up to what a fault left |
| **`DurableCatalog_proofs`** | | |
| `TypeCorrect` | `Spec => []TypeOK` | |
| `OneThreadKeeps` | `Init /\ live = {t} /\ [][Next]_vars => []AckedSurvives` | an acknowledged document survives crashes and failing calls |
| `OneThreadEmptiesNone` | the same `=> CrashesKeepRecords` | *action property*: no crash empties a catalog |
| `OneThreadImplements` | the same `=> ImplementsRegister` | *refinement*: the files implement `CatalogRegister` |
| `RestoredTogether` | `InitRestarted /\ live \cap Saver = {} /\ [][Next]_vars => []AckedSurvives` | threads that restore at once find the acknowledged document |
| `RestoredImplements` | the same `=> ImplementsRegister` | and implement the register |
| **`SessionLog_proofs`** | | |
| `TypeCorrect` | `SpecFromStart => []TypeOK` | |
| `OmittedBySummaries` | `SpecFromStart => []OnlySummariesOmit` | what was said is on the surface, in a summary on it, or was left out by a summary made of it |
| `SampledPairedAlways` | `SpecFromStart => []SampledPaired` | every call on the sampled surface has its result and every result its call; a trim keeps the results of the calls it keeps |
| `TailIsKept` | `SpecFromStart => TailKept` | *action property*: a compaction keeps the prompt, the tail and what came during its await |

### 4.1 Assumptions and hypotheses

Each is in the module that declares the constants, named, and evaluated by TLC on every run.

- `LeaseAssumption`, `BoundAssumption` (everywhere): bounds are naturals; those of capacities (`MaxExec`,
  `EarlyLimit`, `Chunks`, `Depth`, `Attempts`, `FallbackKeep`, the calls of `HostBridge`) are positive, as in the
  code. The calls of `PrivilegeLease` are finitely many, for `RunsPerExecution` counts them.
- `AbsentAssumption`, `NoneAssumption`: the mark of "nothing" is not one of the things. TLA+ leaves open whether a
  string equals a number or a record; the code's `None` and `null` differ from both.
- `RunAssumption`: runs are numbered and finitely many. `create_run` supersedes *every* other active run in one
  step, and the order of their ids is the order of creation.
- `QueryAssumption`: statements and modes are among those `decide_sql` knows. `DoubleClick` may be either, so the
  theorems cover the second click on Approve that the run leaves out.
- `ConnectionAssumption`: there are a connection and a password, and no password is `NoPw`; a password without the
  blanks around it is a password (one of blanks only stays: the save then probes with what the vault has).

Theorems of three modules have a hypothesis about the behaviour, each for a reason TLC shows:

- `OneByOne` has one task. With two, `ConnectionKept` is false: a save stores the whole catalog it loaded before
  its probe. `AcceptedTogether` needs no such hypothesis.
- `OneThread…` has one live thread, which may save. With a reader beside it `AckedSurvives` is false: that is the
  violation `durable_reader`.
- `Restored…` has threads that only load, in the state after a crash (`InitRestarted`); `MaxCrash # 0` because that
  crash counts. Without a saver nothing else is assumed of them, further crashes and failing calls included.
- Those of `SessionLog` are about `SpecFromStart`: a log that began without a prompt is not restarted or cloned.
  Without that `OnlySummariesOmit` is false, which is the consequence of the divergence `log_replays` shows.
- `BoundAssumption` of `SessionLog` has `MaxSaid > 1`: a command-line runtime begins its log with two messages.

### 4.2 The inductive invariants

None of the safety properties is inductive as it stands. TLC checked each invariant below on the instance of its
run before it was proved (for `DbConnections` also with two tasks, 253 264 states; for the single thread of
`DurableCatalog` with two crashes and two failing calls, 1 006 902 states, and for two loading threads 153 576
states). The step is proved action by action; an action that changes one record of a function has a lemma that says
what it does to that record, and one lemma says what a change of one record leaves alone.

- **PrivilegeLease** `IInv == TypeOK /\ EntryAsIssued /\ NeverExhaustedInMap /\ Budget /\ RunsWhatWasApproved`.
  `SuccessWithinGrant` fails to be inductive in a state with as many successes as grants *and* an entry with
  executions left; `Budget` counts those too. That a charge keeps it needs `NeverExhaustedInMap`.
  `RunsWhatWasApproved` needs `EntryAsIssued`: the call stays right when its entry is dropped or registered anew.
  `RunsPerExecution` has an invariant of its own on top, `Reach`: the runs that passed the gate are
  accounted for by the successes, each with one run per racing call, and by the calls under way; once a lease is
  used up, the execution that used it up accounts for all of those.
- **AgentRun** `IInv == TypeOK /\ (\A r \in Run : Good(State(r))) /\ OneCreatedRunActive`. `Good` is about one run
  with its loop, disk and history. `DispatchOnce` rests on what is *not yet* done: calls beyond those asked for
  (`FreshUntouched`), the calls left in a turn (`TodoUntouched`) and an approval on disk or in the metadata
  (`SnapPending`: undecided and unsent, so a re-armed wait may still dispatch it, or else a file error explains it:
  `Undecided`, `Outlives`, `Doubled`). `WaitDurable` ties the loop to the snapshot, `EndedStops` and `Follows` say
  that a created run only moves towards its end.
- **HostBridge** `IInv` follows a call: the log names only calls that were asked for, and a `tool_call` only of one
  that is `Cleared` (`Logged`); a client has handled only what is behind it in the log (`Behind`); a job exists
  only for a cleared call that its client handled (`Queued`), and the job on the host is the head of the queue
  (`HeadRuns`). `PromptNotBlocked` needs that the event of the open approval is the last of the log and new
  (`Waiting`), and that a client past it holds the dialog (`Passed`, `Asks`, `Shown`).
- **FileTransfer** `IInv == TypeOK /\ \A t \in Transfer : Good(t)`. `Accounted` is the balance: chunks at the path,
  being written, queued and in the reader's hand are all that was read, as long as the path is `Mine`. `Owned` says
  when it is; `ReadAll` what a reader that reports success has seen; `LastChunk` carries `CancelHeard`.
- **DbQuery** `IInv` has two chains. `Approval` follows the card to the lease (`Leased`) to the request that used
  it (`Gated`), over `Saves`: a revision names a server. `Stopped` follows a cancel from the order in which ids
  were queued (`Kept`: at most `EarlyLimit - 1` later ones can have pushed it out) to the flight (`Heard`, `Told`).
  `Abandoned` compares sequence numbers for `NoLateResult`.
- **DbConnections** `IInv == TypeOK /\ (\A t \in Task : Formed(task[t])) /\ ProbedTogether` for any tasks.
  `Alone(t)` adds how the files and memory may differ (`Twofold`, `Recorded`, `Earlier` before the keychain is
  copied) and what the running command has done (`Doing`: what a rollback would restore is allowed as well).
- **DurableCatalog** `Alone(t) == TypeOK /\ Lonely(t) /\ Held /\ Written(thread[t]) /\ (fails = 0 =>
  Fresh(thread[t]))`. `Held`: each file is missing or a document that may be found, and a *missing* primary has one
  in its `.bak`; it says nothing of a `.bak` beside an existing primary, which may be old or cut off. `Written` is
  how far `atomic_write` is. `Fresh` holds until a call fails, which is when a failed restore makes a command load
  less than there is to find. `Loaders`: the mirror holds the acknowledged document, which is all that anybody
  writes. For the refinement every action is shown to be a step of `CatalogRegister` or to leave `Found`, `acked`
  and `tried` alone; `RenamePrimary` and the crashes are the ones that need `Held`.
- **SessionLog** `IInv == said \in Counts /\ reloads \in 0..MaxReload /\ Good(log, work, said, reloads <
  MaxReload)`. `OnlySummariesOmit` is one conjunct of it (`Whole`), and what else it needs is said in three ideas.
  `Settled` is why a balanced stretch may be cut out: a call that is answered at all has a result *after* it, and
  after the first such result there is another only if the call is there again as well (a log that is read back
  shows messages twice), so a stretch in which every call has its result leaves no half of a pair behind
  (`CutPaired`, `CutSettled`). `SpanGood` says what stays true of the stretch while its summary is awaited:
  messages only come at the end, so its positions, its balance and what it holds are as they were, so that what its
  summary holds and omits is together what the stretch held. `Mirrored`, needed as long as a restart or a clone may
  come, relates the surface in memory to the one read back: a repair leaves the old messages in front of the new
  ones, so they differ, but the one read back ends with all that the one in memory shows after its second message,
  and has the second too (`Follows`). So the same `replace`, which hits older messages in the one read back, leaves
  in it all that it leaves in memory, and a restart loses nothing that was said. Filters, stubs and folds are dealt
  with by `OrderedParts` (the list of a set) and one lemma per operator on what it keeps.

### 4.3 Checked by TLC only

- *Liveness*: `EveryCallReturns`, `HostWaitEnds`, `RequestsEnd`, `TransfersEnd`. Liveness under fairness, and
  ENABLED, are out of the prover's reach.
- The four violations of section 3 are counterexamples of the runs; nothing is proved of them.

No module has a RECURSIVE operator.

## 5. What is left out, and why

- *PrivilegeLease*: capture and truncation of output, the sudo wrapping of the command text.
- *AgentRun*: a snapshot file cut off inside a character, whose `UnicodeDecodeError` is not swallowed like that of
  broken JSON; a wait directory that cannot be made; `chat/continue` (no client in the repository calls it), the
  apt dry run before an approval, ops plans, command-line agent runtimes (they reuse the waits), the text of
  prompts and messages.
- *HostBridge*: `ask_user` (the same await as an approval), database and Kubernetes tools, the sudo password prompt
  and retry inside a job, events that only draw. The lease's expiry is a choice at the start of a job.
- *DurableCatalog*: the restore notice, the one-time migration of the old directory, path checks. A crash is one of
  the process: loss of power, where finished calls may be lost, is not modelled. Two *saving* threads are not
  checked, since a single reader already breaks the promise; the read-modify-write commands of `session/mod.rs`
  hold no lock from load to save, so of two at once one update is lost.
- *DbQuery*: how a text gets its class, the row limit, explain, import and export, the database a connection is
  used with (a lease does not name one), the commands that only read. A query that is not cancelled or closed and
  whose server never answers is ended by `Timeout`.
- *DbConnections*: a record of a file (SQLite), which has no password and no server; the checks of the form, the
  import of catalogs that still held passwords, saved queries, the cipher. A write of a file is one step here; what
  happens inside it is `DurableCatalog`.
- *SessionLog*: what a summarizer says of what it is given, the lengths to which single messages and an over-long
  last message are cut, the text of messages, what counts as evidence (left open), token estimates. The rewrite of
  the file is one step with the append; a crash inside it, which truncates the log, is not modelled.
  `compaction_busy` looks for a start without an end, and both are appended in one step, so it never holds; one
  loop per run is assumed, which two stale waits can break.
- *FileTransfer*: the second and later files of one upload, which run the same pipeline again, directories (`tar`),
  progress and completion events, a destination the remote `cat` cannot open. The fallback of a send through `/tmp`
  and sudo looks for a text that the relay's error, an exit code, does not have; those of an upload and a download
  run a similar pipeline to another path. What a transfer does before it is in the registry (resolving paths,
  measuring the source) cannot be cancelled and is not modelled.
- The components marked `not_modelled` in `PROJECT.json`, each with its reason. Most of the repository by size is
  presentation (panels, workbenches, an editor), scripts, or input and output around a library (SSH, Kubernetes,
  database drivers, the web view), where no order of events decides a property; the SSH session table would be the
  next module.

## 6. Plan

1. **Proofs**: the safety half of what the liveness properties rest on.
2. **Compositions**: `AgentRun` with `HostBridge` (the webview's reduced sidecar as a refinement target of
   `AgentRun`), and `HostBridge` with `PrivilegeLease` (a replayed registration).

The project keeps to about a dozen runs: as components were added, runs that showed a divergence already recorded
elsewhere gave way to runs of the new modules.
