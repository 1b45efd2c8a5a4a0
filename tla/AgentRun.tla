----------------------------- MODULE AgentRun -----------------------------
(***************************************************************************)
(* The life of the agent runs of one SSH session in the sidecar            *)
(* (agent-sidecar/app): the store of runs (state.py), the loop that drives *)
(* a run (agent/loop.py), the waits for the host, the user and an approval *)
(* with their durable snapshots (agent/graph.py, agent/wait_snapshot.py),  *)
(* the stall watchdog (agent/stall.py), the tool time limit                *)
(* (harness/guards/timeout.py) and the HTTP handlers that answer a wait    *)
(* (main.py).                                                              *)
(*                                                                         *)
(* The sidecar is one asyncio thread: a step of the model is what runs     *)
(* from one suspension to the next.  A loop is suspended while it samples  *)
(* the model and while it awaits the future of a wait.  A created run is   *)
(* driven by its task; a run read back from disk by the watcher of a       *)
(* re-armed wait, which nothing cancels.  Tools that are answered inside   *)
(* the sidecar are part of `sample'.  Calls of a run are numbered in the   *)
(* order the model asks for them, those of the run it resumes first.       *)
(*                                                                         *)
(* A snapshot file may fail to be written (the old one stays, or the new   *)
(* one is cut short and reads back as none) and to be removed; the code    *)
(* swallows both errors, and `hist' keeps them.                            *)
(***************************************************************************)
EXTENDS Integers, FiniteSetsExt

CONSTANTS
    Run,          \* run ids of the session, numbered as they are created
    None,         \* no wait, no snapshot
    MaxCall,      \* bound: calls the model asks for, in all runs together
    MaxLife       \* bound: runs created, restarts and runs that meet a file
                  \* error, together

ASSUME RunAssumption == Run \subseteq Nat /\ IsFiniteSet(Run)
ASSUME BoundAssumption == MaxCall \in Nat /\ MaxLife \in Nat

VARIABLES
    run,          \* AgentRun objects: status, flags, pending wait, watchdog
    loop,         \* the loop of a run: where it is suspended, and on what
    disk,         \* per run: has a session log; the wait snapshot file
    talk,         \* per run: calls asked for, tool messages per call, and how
                  \* many of both came with the log it was resumed from
    hist,         \* history: decisions, dispatches, failed saves and removals
                  \* of snapshots, how the run was ended
    restarts

vars == <<run, loop, disk, talk, hist, restarts>>

Call   == 1..MaxCall
Kind   == {"tool", "approval", "user"}
Active == {"running", "waiting_tool", "waiting_approval", "waiting_user"}
Ended  == {"completed", "failed", "cancelled"}
Wait   == [kind : Kind, call : Call]

ASSUME NoneAssumption == None \notin [kind : Kind, call : Nat]

Waiting(k) == CASE k = "tool" -> "waiting_tool"
                [] k = "approval" -> "waiting_approval"
                [] k = "user" -> "waiting_user"

\* pend.fut tells whose future an answer would resolve: the one the loop
\* awaits, or one nobody awaits (open, or already done).
TypeOK ==
    /\ run \in [Run -> [mem : BOOLEAN, status : Active \cup Ended \cup {"idle"},
                        cancelReq : BOOLEAN, hydrated : BOOLEAN, dog : BOOLEAN,
                        pend : [kind : Kind, call : Call,
                                fut : {"loop", "open", "done"}] \cup {None},
                        memo : Wait \cup {None}]]
    /\ loop \in [Run -> [pc : Kind \cup {"off", "sample", "dying"}, call : Call \cup {0},
                         got : {"open", "yes", "no", "cancelled", "dead"},
                         by : {"call", "resume", "rearm"}, todo : SUBSET Call]]
    /\ disk \in [Run -> [log : BOOLEAN, snap : Wait \cup {None}]]
    /\ talk \in [Run -> [asked : 0..MaxCall, msgs : [Call -> Nat],
                         base : 0..MaxCall, came : [Call -> Nat]]]
    /\ hist \in [Run -> [gated : SUBSET Call, approved : SUBSET Call,
                         rejected : SUBSET Call, sent : [Call -> 0..2],
                         unsaved : SUBSET Wait, unremoved : SUBSET Wait,
                         ended : BOOLEAN]]
    /\ restarts \in 0..MaxLife

Off      == [pc |-> "off", call |-> 0, got |-> "open", by |-> "call", todo |-> {}]
Sampling == [Off EXCEPT !.pc = "sample"]
Gone     == [mem |-> FALSE, status |-> "idle", cancelReq |-> FALSE,
             hydrated |-> FALSE, dog |-> FALSE, pend |-> None, memo |-> None]

Init ==
    /\ run = [r \in Run |-> Gone]
    /\ loop = [r \in Run |-> Off]
    /\ disk = [r \in Run |-> [log |-> FALSE, snap |-> None]]
    /\ talk = [r \in Run |-> [asked |-> 0, msgs |-> [c \in Call |-> 0],
                              base |-> 0, came |-> [c \in Call |-> 0]]]
    /\ hist = [r \in Run |-> [gated |-> {}, approved |-> {}, rejected |-> {},
                              sent |-> [c \in Call |-> 0],
                              unsaved |-> {}, unremoved |-> {},
                              ended |-> FALSE]]
    /\ restarts = 0

---------------------------------------------------------------------------
(* Helpers: a run, its loop, disk, conversation and history as one value. *)

State(r) == [run |-> run[r], loop |-> loop[r], disk |-> disk[r],
             talk |-> talk[r], hist |-> hist[r]]

Become(r, s) ==
    /\ run'  = [run EXCEPT ![r] = s.run]
    /\ loop' = [loop EXCEPT ![r] = s.loop]
    /\ disk' = [disk EXCEPT ![r] = s.disk]
    /\ talk' = [talk EXCEPT ![r] = s.talk]
    /\ hist' = [hist EXCEPT ![r] = s.hist]
    /\ UNCHANGED restarts

\* The bounds: runs and restarts, calls, and file errors still to come.
Lives == restarts + Cardinality({r \in Run : disk[r].log})
        + Cardinality({r \in Run : hist[r].unsaved \cup hist[r].unremoved # {}})
LifeLeft  == Lives < MaxLife
CallsLeft == MaxCall - MapThenSumSet(LAMBDA r : talk[r].asked - talk[r].base, Run)
FaultLeft == Lives + 1 < MaxLife

\* _add_tool_result
Answer(s, c) == [s EXCEPT !.talk.msgs[c] = @ + 1]

\* _repair_tool_message_pairs, _fill_missing_tool_results and the "skipped"
\* results: every call the model asked for has a tool message.
Filled(s) ==
    [s EXCEPT !.talk.msgs = [c \in Call |->
        IF c <= s.talk.asked /\ @[c] = 0 THEN 1 ELSE @[c]]]

\* The loop returns; _emit_conclusion sets the status whatever it was.
Conclude(s, status) == [s EXCEPT !.run.status = status, !.loop = Off]

\* record_wait_snapshot: the metadata always, the file if it can be written.
\* A file that cannot stays as it was, or is cut short and reads back as none.
Saved(s, w) ==
    {[s EXCEPT !.run.memo = w, !.disk.snap = w]} \cup
    {[s EXCEPT !.run.memo = w, !.disk.snap = f, !.hist.unsaved = @ \cup {w}] :
        f \in {g \in {s.disk.snap, None} : FaultLeft}}

\* A wait is begun: a fresh future, the status, and the event that tells the
\* host (a tool wait dispatches the command).
Begun(s, k, c, by, todo) ==
    [s EXCEPT !.run.status = Waiting(k),
              !.run.pend = [kind |-> k, call |-> c, fut |-> "loop"],
              !.loop = [pc |-> k, call |-> c, got |-> "open",
                        by |-> by, todo |-> todo],
              !.hist.sent[c] = IF k = "tool" /\ @ < 2 THEN @ + 1 ELSE @,
              !.hist.gated = IF k = "approval" THEN @ \cup {c} ELSE @]

\* Mutant of Enter: ask_user forgets its snapshot.
EnterAskForgotten(s, k, c, by, todo) ==
    IF k = "user" THEN {Begun(s, k, c, by, todo)}
    ELSE Saved(Begun(s, k, c, by, todo), [kind |-> k, call |-> c])

\* A wait begins, and then its snapshot is taken.  It is entered by a call of
\* this turn, under the tool time limit, or by the resumption of a re-armed
\* approval, which has none.
Enter(s, k, c, by, todo) ==
    Saved(Begun(s, k, c, by, todo), [kind |-> k, call |-> c])

\* Mutant of Cleared: nobody removes the snapshot file.
ClearedInMemory(s) == {[s EXCEPT !.run.pend = None, !.run.memo = None]}

\* clear_run_wait and pending_* = None.  A file that cannot be removed stays.
Cleared(s) ==
    LET t == [s EXCEPT !.run.pend = None, !.run.memo = None]
    IN  {[t EXCEPT !.disk.snap = None]} \cup
        {[t EXCEPT !.hist.unremoved = @ \cup {w}] :
            w \in {v \in {s.disk.snap} \ {None} : FaultLeft}}

First(S) == CHOOSE c \in S : \A d \in S : c <= d

\* Mutant of Proceed: the call that is begun stays among those to do.
ProceedAgain(s, todo) ==
    IF s.run.cancelReq THEN {Conclude(Filled(s), "cancelled")}
    ELSE {Conclude(s, "failed")} \cup
         IF todo = {} THEN {[Filled(s) EXCEPT !.loop = Sampling]}
         ELSE UNION {Enter(s, k, First(todo), "call", todo) : k \in Kind}

\* What the loop does next with the calls left in this turn: stop if it was
\* told to, run out of budget, begin the next call, or sample again.  A call
\* needs no approval, an approval, or is ask_user.
Proceed(s, todo) ==
    IF s.run.cancelReq THEN {Conclude(Filled(s), "cancelled")}
    ELSE {Conclude(s, "failed")} \cup
         IF todo = {} THEN {[Filled(s) EXCEPT !.loop = Sampling]}
         ELSE UNION {Enter(s, k, First(todo), "call", todo \ {First(todo)}) :
                        k \in Kind}

---------------------------------------------------------------------------
(* The store: a new run supersedes the others of its session. *)

\* Mutant of TaskCancelled: the flag is set and the task left to notice.
TaskLeftRunning(q) == loop[q]

\* task.cancel(): the awaited future dies with it.
TaskCancelled(q) ==
    IF run[q].hydrated \/ loop[q].pc = "off" THEN loop[q]
    ELSE [loop[q] EXCEPT !.pc = "dying", !.got = IF @ = "open" THEN "dead" ELSE @]

\* Mutant of Superseded: a run that waits is not taken for active.
SupersededRunning(q) == run[q].mem /\ run[q].status = "running"

\* SessionStore._cancel_run.  Pending waits are not resolved.
Superseded(q) == run[q].mem /\ run[q].status \in Active

\* clone_log, and the repair of the new log before its first sample.
Cloned(t) ==
    LET m == [c \in Call |-> IF c <= t.asked /\ t.msgs[c] = 0 THEN 1 ELSE t.msgs[c]]
    IN  [asked |-> t.asked, msgs |-> m, base |-> t.asked, came |-> m]

\* chat_start: create_run, or create_run_resuming with the log of a run q,
\* which may be active still, in memory or on disk.
Create(r) ==
    /\ ~disk[r].log /\ LifeLeft
    /\ \A q \in Run : q < r => disk[q].log
    /\ run' = [q \in Run |->
                 IF q = r THEN [Gone EXCEPT !.mem = TRUE, !.status = "running",
                                            !.dog = TRUE]
                 ELSE IF Superseded(q)
                      THEN [run[q] EXCEPT !.cancelReq = TRUE, !.status = "cancelled"]
                      ELSE run[q]]
    /\ loop' = [q \in Run |->
                  IF q = r THEN Sampling
                  ELSE IF Superseded(q) THEN TaskCancelled(q) ELSE loop[q]]
    /\ disk' = [disk EXCEPT ![r].log = TRUE]
    /\ hist' = [q \in Run |-> [hist[q] EXCEPT !.ended = @ \/ (q # r /\ Superseded(q))]]
    /\ \/ UNCHANGED talk
       \/ \E q \in Run : disk[q].log /\ talk' = [talk EXCEPT ![r] = Cloned(talk[q])]
    /\ UNCHANGED restarts

\* Mutant of Stopped: the future is resolved with a mark no waiter knows.
StoppedUnmarked(r) ==
    [TaskCancelled(r) EXCEPT !.got = IF @ = "open" THEN "stopped" ELSE @]

\* How cancel_run leaves the loop: its task cancelled, or the future it
\* awaits resolved as cancelled.
Stopped(r) ==
    LET l == TaskCancelled(r)
        p == run[r].pend
    IN  IF p # None /\ p.fut = "loop" /\ l.pc \in Kind /\ l.got = "open"
        THEN [l EXCEPT !.got = "cancelled"] ELSE l

\* cancel_run, the user's STOP.  The snapshot file stays where it is.
Cancel(r) ==
    /\ run[r].mem
    /\ run' = [run EXCEPT ![r] =
                 [run[r] EXCEPT !.cancelReq = TRUE, !.dog = FALSE, !.pend = None,
                                !.status = IF @ \in Ended THEN @ ELSE "cancelled"]]
    /\ loop' = [loop EXCEPT ![r] = Stopped(r)]
    /\ hist' = [hist EXCEPT ![r].ended = TRUE]
    /\ UNCHANGED <<disk, talk, restarts>>

\* The sidecar process dies and comes back: only the disk is left.
Restart ==
    /\ LifeLeft
    /\ restarts' = restarts + 1
    /\ run' = [r \in Run |-> Gone]
    /\ loop' = [r \in Run |-> Off]
    /\ UNCHANGED <<disk, talk, hist>>

---------------------------------------------------------------------------
(* Waits re-armed from disk. *)

\* The snapshot that is re-armed: the file, or else the metadata.
Snapshot(s) == IF s.disk.snap # None THEN s.disk.snap ELSE s.run.memo

\* Mutant of Rearmed: the host is told again.
RearmedResent(s) ==
    IF Snapshot(s) = None THEN s
    ELSE [Begun(s, Snapshot(s).kind, Snapshot(s).call, "rearm", {})
            EXCEPT !.run.memo = Snapshot(s)]

\* rearm_wait_from_disk and arm_wait_watcher: a watcher is started unless
\* the previous one still runs, and then nobody awaits the new future.
Rearmed(s) ==
    IF Snapshot(s) = None THEN s
    ELSE LET k == Snapshot(s).kind
             c == Snapshot(s).call
             t == [s EXCEPT !.run.status = Waiting(k), !.run.memo = Snapshot(s)] IN
         IF s.loop.pc = "off"
         THEN [t EXCEPT !.run.pend = [kind |-> k, call |-> c, fut |-> "loop"],
                        !.loop = [pc |-> k, call |-> c, got |-> "open",
                                  by |-> "rearm", todo |-> {}]]
         ELSE [t EXCEPT !.run.pend = [kind |-> k, call |-> c, fut |-> "open"]]

\* hydrate_run_from_disk followed by ensure_hydrated_wait_armed.
Hydrated(s) ==
    Rearmed([s EXCEPT !.run = [Gone EXCEPT !.mem = TRUE, !.hydrated = TRUE],
                      !.loop = Off])

\* transcript and pull of a run that is not in memory.
Hydrate(r) ==
    /\ ~run[r].mem /\ disk[r].log
    /\ Become(r, Hydrated(State(r)))

\* _resolve_run(arm_wait=True)
Resolved(s) ==
    IF ~s.run.mem THEN Hydrated(s)
    ELSE IF s.run.hydrated /\ s.run.pend = None
            /\ s.run.status \notin {Waiting(k) : k \in Kind}
         THEN Rearmed(s)
    ELSE s

\* deliver_*: the pending wait must be the one answered and its future open;
\* otherwise the handler answers 409 and leaves the run as resolved.
Delivered(s, k, c, value) ==
    LET p == s.run.pend IN
    IF p = None THEN s
    ELSE IF p.kind # k \/ p.call # c THEN s
    ELSE IF p.fut = "open" THEN [s EXCEPT !.run.pend.fut = "done"]
    ELSE IF p.fut = "loop" /\ s.loop.pc = k /\ s.loop.got = "open"
         THEN [s EXCEPT !.loop.got = value]
    ELSE s

Post(r, k, c, value) ==
    /\ run[r].mem \/ disk[r].log
    /\ Become(r, Delivered(Resolved(State(r)), k, c, value))

\* tool_result: the host answers what was dispatched to it, as often and as
\* late as it likes.
ToolResult(r, c) == hist[r].sent[c] > 0 /\ Post(r, "tool", c, "yes")

\* user_answer
UserAnswer(r, c) == c <= talk[r].asked /\ Post(r, "user", c, "yes")

\* approval_decision on a call the user was asked about.
Decision(r, c, value) == c \in hist[r].gated /\ Post(r, "approval", c, value)

---------------------------------------------------------------------------
(* The loop. *)

\* A sample comes back: with calls, with an answer, with an error, or cut
\* short because the run was told to stop.
Sample(r) ==
    /\ loop[r].pc = "sample"
    /\ \/ \E st \in {"completed", "failed"} : Become(r, Conclude(State(r), st))
       \/ run[r].cancelReq /\ Become(r, Conclude(Filled(State(r)), "cancelled"))
       \/ \E n \in Call :
             /\ n \in (talk[r].asked + 1)..(talk[r].asked + CallsLeft)
             /\ \E t \in Proceed([State(r) EXCEPT !.talk.asked = n],
                               (talk[r].asked + 1)..n) : Become(r, t)

\* What a wait that was resolved as cancelled records of its call.
Interrupted(s, by, c) ==
    Conclude(CASE by = "call" -> Filled(s)
               [] by = "resume" -> Answer(s, c)
               [] by = "rearm" -> s, "cancelled")

\* The future of a host wait or of ask_user is resolved.
WakeHost(r) ==
    LET l == loop[r] IN
    /\ l.pc \in {"tool", "user"}
    /\ \E s \in Cleared(State(r)) :
          \/ /\ l.got = "cancelled"
             /\ Become(r, Interrupted(s, l.by, l.call))
          \/ /\ l.got = "yes"
             /\ \E t \in Proceed([Answer(s, l.call) EXCEPT !.run.status = "running"],
                                 l.todo) : Become(r, t)

\* finish_approval_wait, and resume_from_approval_wait for a re-armed one: an
\* approved command is dispatched at once, without another look at the run.
WakeApproval(r) ==
    LET l == loop[r] IN
    /\ l.pc = "approval"
    /\ \E u \in Cleared(State(r)) :
       LET s == [u EXCEPT !.run.status = "running"] IN
          \/ /\ l.got = "cancelled"
             /\ Become(r, Interrupted(s, l.by, l.call))
          \/ /\ l.got = "yes"
             /\ \E t \in Enter([s EXCEPT !.hist.approved = @ \cup {l.call}], "tool",
                               l.call, IF l.by = "call" THEN "call" ELSE "resume",
                               l.todo) : Become(r, t)
          \/ /\ l.got = "no"
             /\ \E t \in Proceed([Answer(s, l.call)
                                    EXCEPT !.hist.rejected = @ \cup {l.call}],
                                 l.todo) : Become(r, t)

\* Mutant of Timeout: a command on the host has no limit.
TimeoutNotOnHost(r) ==
    /\ loop[r].pc \in Kind \ {"tool"} /\ loop[r].by = "call"
    /\ Become(r, [Filled(State(r)) EXCEPT !.loop = Off])

\* ToolTimeoutGuard ends the tool body; _resolve_timeout.  Only a tool wait
\* of this call is withdrawn, and the snapshot file of no wait is.  A wait
\* that was re-armed from disk is not under the guard.
Timeout(r) ==
    /\ loop[r].pc \in Kind /\ loop[r].by = "call"
    /\ LET p == run[r].pend
           c == loop[r].call
           s == [State(r) EXCEPT !.loop.got = "dead"]
           withdrawn == p # None /\ p.kind = "tool" /\ p.call = c
           s1 == IF withdrawn
                 THEN [s EXCEPT !.run.pend = None, !.run.status = "running"] ELSE s
           s2 == IF s1.talk.msgs[c] = 0 THEN Answer(s1, c) ELSE s1
       IN  IF s2.run.status = "cancelled" \/ s2.run.pend # None
           THEN Become(r, [Filled(s2) EXCEPT !.loop = Off])
           ELSE \E t \in Proceed([s2 EXCEPT !.run.status = "running"],
                                 loop[r].todo) : Become(r, t)

\* The task's CancelledError handler.
Die(r) ==
    /\ loop[r].pc = "dying"
    /\ Become(r, Conclude(State(r), "cancelled"))

---------------------------------------------------------------------------
(* The watchdog of a created run. *)

\* It polls: silent for too long while the model is sampled.
Stall(r) ==
    /\ run[r].dog /\ ~run[r].cancelReq
    /\ run[r].status = "running" /\ run[r].pend = None /\ loop[r].pc = "sample"
    /\ run' = [run EXCEPT ![r].status = "failed", ![r].dog = FALSE]
    /\ loop' = [loop EXCEPT ![r] = TaskCancelled(r)]
    /\ UNCHANGED <<disk, talk, hist, restarts>>

\* It polls and finds the run in any other status: it is done for good.
WatchdogExit(r) ==
    /\ run[r].dog /\ (run[r].status # "running" \/ run[r].cancelReq)
    /\ run' = [run EXCEPT ![r].dog = FALSE]
    /\ UNCHANGED <<loop, disk, talk, hist, restarts>>

---------------------------------------------------------------------------
Loop(r) == Sample(r) \/ WakeHost(r) \/ WakeApproval(r) \/ Die(r)

Next ==
    \/ \E r \in Run :
          \/ Create(r) \/ Cancel(r) \/ Hydrate(r)
          \/ Loop(r) \/ Timeout(r)
          \/ Stall(r) \/ WatchdogExit(r)
          \/ \E c \in Call : \/ ToolResult(r, c) \/ UserAnswer(r, c)
                             \/ \E v \in {"yes", "no"} : Decision(r, c, v)
    \/ Restart

\* The event loop resumes a wait whose future is resolved, and wait_for fires.
\* Nothing is assumed of the model, the user, the host or the watchdog.
Fairness == \A r \in Run : WF_vars(WakeHost(r) \/ Timeout(r))

Spec == Init /\ [][Next]_vars /\ Fairness

---------------------------------------------------------------------------
(* Properties. *)

\* The file operations on the wait for an approval, and on the dispatch that
\* follows it, that failed without anyone being told.
Outlived(r, c) == [kind |-> "approval", call |-> c] \in hist[r].unremoved
Unnoted(r, c)  == [kind |-> "tool", call |-> c] \in hist[r].unsaved

\* A command is dispatched to the host at most once per call of the model,
\* through re-armed waits, late decisions and restarts of the sidecar, unless
\* both the removal of its approval's snapshot and the snapshot of its
\* dispatch failed.
DispatchOnce ==
    \A r \in Run, c \in Call :
        hist[r].sent[c] <= 1 \/ (Outlived(r, c) /\ Unnoted(r, c))

\* A command the policy wanted approved is dispatched only if the user
\* approved it, also when the wait is re-armed from disk or the decision comes
\* after the time limit; and not if the user ever rejected it, unless the
\* snapshot of that wait could not be removed.
OnlyApprovedSent ==
    \A r \in Run : \A c \in hist[r].gated :
        hist[r].sent[c] > 0 =>
            /\ c \in hist[r].approved
            /\ c \in hist[r].rejected => Outlived(r, c)

\* As long as an answer is awaited, the snapshot on disk is that wait, unless
\* saving it failed: a sidecar killed at any moment can be asked to take the
\* same answer.
OpenWaitIsDurable ==
    \A r \in Run :
        loop[r].pc \in Kind /\ loop[r].got = "open" =>
            LET w == [kind |-> loop[r].pc, call |-> loop[r].call]
            IN  disk[r].snap = w \/ w \in hist[r].unsaved

\* A run this process created gives each call at most one tool message (chat
\* APIs refuse a second), the calls of the run it resumes included: only what
\* came with that log may have more.
AnsweredOnce ==
    \A r \in Run, c \in Call :
        run[r].mem /\ ~run[r].hydrated =>
            talk[r].msgs[c] <= 1 \/ talk[r].msgs[c] = talk[r].came[c]

\* A run this process created and that was stopped by the user or superseded
\* by a new run dispatches nothing more and is never active again, whatever
\* results and decisions still come in for it.
EndedIsFinal ==
    [][\A r \in Run :
         hist[r].ended /\ run[r].mem /\ run'[r].mem /\ ~run[r].hydrated =>
            /\ hist'[r].sent = hist[r].sent
            /\ run'[r].status \in Ended]_vars

\* Of the runs this process created for a session one at most is active.
OneCreatedRunActive ==
    \A p, q \in {r \in Run : run[r].mem /\ ~run[r].hydrated /\ run[r].status \in Active} :
        p = q

\* A host that never answers does not hold a created run: the time limit
\* takes it back to the model or to its end.
HostWaitEnds ==
    \A r \in Run :
        loop[r].pc = "tool" /\ ~run[r].hydrated ~> loop[r].pc # "tool"
===========================================================================
