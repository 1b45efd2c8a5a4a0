---------------------------- MODULE HostBridge ----------------------------
(***************************************************************************)
(* The webview's side of an agent run (src/lib/aiEngineer): the client     *)
(* that follows the event log of the run, first over a stream and, when    *)
(* the stream fails, by pulling (chatClient.ts); the queue that runs the   *)
(* commands of a session one at a time (hostExecQueue.ts); the delivery of *)
(* their results (postToolResult.ts); and the approval dialog of the store *)
(* (stores/aiEngineerStore.ts).  The sidecar is reduced to what this side  *)
(* can see of it: AgentRun models its inside.                              *)
(*                                                                         *)
(* The webview is one JavaScript thread: a step of the model is what runs  *)
(* between two awaits.  The stream client handles its events on a promise  *)
(* chain, so it stops at a dialog but not at a command on the host.  The   *)
(* pull client starts again at the first event with empty sets, while what *)
(* the stream client has queued, and the stream itself when only a handler *)
(* failed, go on.                                                          *)
(***************************************************************************)
EXTENDS Integers, Sequences, FiniteSets

CONSTANTS
    MaxCall,    \* bound: host calls the model asks for in the run
    MaxFault,   \* bound: requests and streams that fail
    Attempts,   \* attempts of postToolResultWithRetry (3 in the code)
    None        \* no call

ASSUME BoundAssumption == MaxCall \in Nat \ {0} /\ MaxFault \in Nat
                          /\ Attempts \in Nat \ {0}

VARIABLES
    log,        \* the run's events that the host acts on
    sidecar,    \* what the run waits for, and what it was told
    client,     \* the stream client and the pull client
    dialog,     \* the store's one pendingApproval slot
    queue,      \* enqueueHostExec: jobs of the session, the head runs
    job,        \* what became of a client's job for a call
    ran,        \* history: commands started on the host, per call
    said,       \* history: did the user ever say yes to a call, and the last word
    stopped,    \* the user pressed Stop: signal.aborted
    faults      \* failures so far

vars == <<log, sidecar, client, dialog, queue, job, ran, said,
          stopped, faults>>

Call   == 1..MaxCall
Client == {"stream", "pull"}
Job    == Client \X Call
Event  == [type : {"approval_needed", "tool_call", "tool_timeout"}, call : Call]

ASSUME NoneAssumption == None \notin Call /\ None \notin Job

TypeOK ==
    /\ log \in Seq(Event)
    /\ sidecar \in [status : {"running", "waiting_tool", "waiting_approval",
                              "approved", "parked", "ended"},
                    asked : 0..MaxCall, gated : SUBSET Call, approved : SUBSET Call,
                    got : [Call -> SUBSET Call]]
    /\ client \in [Client -> [mode : {"off", "open", "broken", "failed", "done"},
                              cur : Nat, lim : Nat, last : BOOLEAN,
                              at : Call \cup {None},
                              handled : SUBSET Event, settled : SUBSET Call]]
    /\ dialog \in Job \cup {None}
    /\ queue \in Seq(Job)
    /\ job \in [Job -> [pc : {"none", "queued", "running", "posting", "end", "lost"},
                        left : 0..Attempts]]
    /\ ran \in [Call -> 0..2]
    /\ said \in [Call -> [yes : BOOLEAN, last : BOOLEAN \cup {None}]]
    /\ stopped \in BOOLEAN
    /\ faults \in 0..MaxFault

NewClient == [mode |-> "off", cur |-> 1, lim |-> 0, last |-> FALSE, at |-> None,
              handled |-> {}, settled |-> {}]

Init ==
    /\ log = <<>>
    /\ sidecar = [status |-> "running", asked |-> 0, gated |-> {}, approved |-> {},
                  got |-> [c \in Call |-> {}]]
    /\ client = [k \in Client |-> IF k = "stream" THEN [NewClient EXCEPT !.mode = "open"]
                                  ELSE NewClient]
    /\ dialog = None
    /\ queue = <<>>
    /\ job = [j \in Job |-> [pc |-> "none", left |-> Attempts]]
    /\ ran = [c \in Call |-> 0]
    /\ said = [c \in Call |-> [yes |-> FALSE, last |-> None]]
    /\ stopped = FALSE
    /\ faults = 0

Fault == faults < MaxFault /\ faults' = faults + 1

Ev(type, c) == [type |-> type, call |-> c]

---------------------------------------------------------------------------
(* The sidecar, as the host sees it. *)

host == <<client, dialog, queue, job, ran, said, stopped, faults>>

\* The model asks for the next command and policy wants an approval for it.
AskApproval ==
    /\ sidecar.status = "running" /\ sidecar.asked < MaxCall
    /\ LET c == sidecar.asked + 1 IN
       /\ sidecar' = [sidecar EXCEPT !.asked = c, !.status = "waiting_approval",
                                     !.gated = @ \cup {c}]
       /\ log' = Append(log, Ev("approval_needed", c))
    /\ UNCHANGED host

\* Mutant of Dispatch: the approved command is taken for the one before.
DispatchOffByOne ==
    /\ \/ sidecar.status = "running" /\ sidecar.asked < MaxCall
       \/ sidecar.status = "approved"
    /\ sidecar' = [sidecar EXCEPT !.asked = @ + 1, !.status = "waiting_tool"]
    /\ log' = Append(log, Ev("tool_call", sidecar.asked + 1))
    /\ UNCHANGED host

\* The next command needs none, or the one asked about was approved: the
\* tool_call with awaiting_host tells the host to run it.
Dispatch ==
    /\ \/ sidecar.status = "running" /\ sidecar.asked < MaxCall
       \/ sidecar.status = "approved"
    /\ LET c == IF sidecar.status = "approved" THEN sidecar.asked ELSE sidecar.asked + 1
       IN /\ sidecar' = [sidecar EXCEPT !.asked = c, !.status = "waiting_tool"]
          /\ log' = Append(log, Ev("tool_call", c))
    /\ UNCHANGED host

\* The time limit of the tool ends the wait; a run whose approval was open
\* stays with a future that takes no decision (AgentRun!Timeout).
ToolTimeout ==
    /\ sidecar.status \in {"waiting_tool", "waiting_approval"}
    /\ sidecar' = [sidecar EXCEPT !.status = IF @ = "waiting_tool" THEN "running"
                                             ELSE "parked"]
    /\ log' = Append(log, Ev("tool_timeout", sidecar.asked))
    /\ UNCHANGED host

\* The model concludes, or the cancel request of a stopped run arrives.
RunEnds ==
    /\ \/ sidecar.status = "running"
       \/ stopped /\ sidecar.status # "ended"
    /\ sidecar' = [sidecar EXCEPT !.status = "ended"]
    /\ UNCHANGED <<log, host>>

\* Mutant of DecisionAccepted: the approval_id is not compared.
DecisionAcceptedAnyId(c) == sidecar.status = "waiting_approval"

\* deliver_approval_decision: there is a wait, and it is for this approval.
DecisionAccepted(c) == sidecar.status = "waiting_approval" /\ sidecar.asked = c

\* POST /v1/approval_decision; a 409 leaves the run alone and the client does
\* not look at the status of the response.
Decided(c, yes) ==
    IF DecisionAccepted(c)
    THEN [sidecar EXCEPT !.status = IF yes THEN "approved" ELSE "running",
                         !.approved = IF yes THEN @ \cup {sidecar.asked} ELSE @]
    ELSE sidecar

\* Mutant of ResultAccepted: the call_id is not compared.
ResultAcceptedAnyId(c) == sidecar.status = "waiting_tool"

\* deliver_tool_result: there is a wait, and it is for this call.
ResultAccepted(c) == sidecar.status = "waiting_tool" /\ sidecar.asked = c

Answered(c) == [sidecar EXCEPT !.status = "running", !.got[sidecar.asked] = @ \cup {c}]

---------------------------------------------------------------------------
(* The clients. *)

Stream == client["stream"]
Pull   == client["pull"]

\* runAgentChat: the stream's promise rejects, and unless that was the abort
\* the pull client takes over; the first rejection only.
FallBack(cl) ==
    IF cl["pull"].mode = "off" /\ ~stopped
    THEN [cl EXCEPT !["pull"].mode = "open"] ELSE cl

\* The next event a client may handle: the stream has what was sent before it
\* broke, and drops everything once the signal is aborted; the pull client
\* works through its batch whatever the signal says.
MayHandle(k) ==
    /\ client[k].at = None
    /\ client[k].cur <= Len(log)
    /\ IF k = "stream" THEN /\ ~stopped
                            /\ \/ Stream.mode = "open"
                               \/ Stream.mode = "broken" /\ Stream.cur <= Stream.lim
                       ELSE Pull.mode = "open" /\ Pull.cur <= Pull.lim

\* Mutant of HandlesNow: the chain awaits the command it started.
HandlesNowAwaitsHost(k) ==
    MayHandle(k) /\ \A c \in Call : job[<<k, c>>].pc \notin {"queued", "running"}

HandlesNow(k) == MayHandle(k)

\* handleProtocolEvent, approval_needed: ask once, and stay until answered.
HandleApproval(k) ==
    LET e == log[client[k].cur] IN
    /\ HandlesNow(k) /\ e.type = "approval_needed"
    /\ IF e \in client[k].handled
       THEN /\ client' = [client EXCEPT ![k].cur = @ + 1]
            /\ UNCHANGED dialog
       ELSE /\ client' = [client EXCEPT ![k].cur = @ + 1, ![k].at = e.call,
                                        ![k].handled = @ \cup {e}]
            /\ dialog' = <<k, e.call>>
    /\ UNCHANGED <<log, sidecar, queue, job, ran, said, stopped, faults>>

\* A handler of a client threw: the stream's rejects the promise and its chain
\* goes on with the next event while the pull client starts; the pull ends.
Threw(cl, k) == IF k = "stream" THEN FallBack(cl) ELSE [cl EXCEPT !["pull"].mode = "failed"]

\* onApproval while the user has another chat open: no dialog, a rejection is
\* posted at once (and may be lost like any other).
HandleElsewhere(k) ==
    LET e  == log[client[k].cur]
        cl == [client EXCEPT ![k].cur = @ + 1, ![k].handled = @ \cup {e}] IN
    /\ HandlesNow(k) /\ e.type = "approval_needed" /\ e \notin client[k].handled
    /\ \/ sidecar' = Decided(e.call, FALSE) /\ client' = cl /\ UNCHANGED faults
       \/ Fault /\ sidecar' \in {sidecar, Decided(e.call, FALSE)} /\ client' = Threw(cl, k)
    /\ UNCHANGED <<log, dialog, queue, job, ran, said, stopped>>

\* tool_call with awaiting_host: the job is queued and not awaited.
HandleToolCall(k) ==
    LET e == log[client[k].cur] IN
    /\ HandlesNow(k) /\ e.type = "tool_call"
    /\ client' = [client EXCEPT ![k].cur = @ + 1, ![k].handled = @ \cup {e}]
    /\ IF e \in client[k].handled THEN UNCHANGED <<queue, job>>
       ELSE /\ queue' = Append(queue, <<k, e.call>>)
            /\ job' = [job EXCEPT ![<<k, e.call>>].pc = "queued"]
    /\ UNCHANGED <<log, sidecar, dialog, ran, said, stopped, faults>>

\* tool_timeout: a result that returns later is not wanted.
HandleToolTimeout(k) ==
    LET e == log[client[k].cur] IN
    /\ HandlesNow(k) /\ e.type = "tool_timeout"
    /\ client' = [client EXCEPT ![k].cur = @ + 1, ![k].settled = @ \cup {e.call}]
    /\ UNCHANGED <<log, sidecar, dialog, queue, job, ran, said, stopped, faults>>

\* A turn of the pull loop: the rest of the log is the next batch.  What a
\* broken stream left on the chain runs first, up to a dialog: those are
\* microtasks, and the pull awaits a response.
PullBatch ==
    /\ ~(Stream.mode = "broken" /\ MayHandle("stream"))
    /\ Pull.mode = "open" /\ Pull.at = None /\ Pull.cur > Pull.lim
    /\ ~Pull.last /\ ~stopped
    /\ client' = [client EXCEPT !["pull"].lim = Len(log),
                                !["pull"].last = sidecar.status = "ended"]
    /\ Pull.lim < Len(log) \/ sidecar.status = "ended"
    /\ UNCHANGED <<log, sidecar, dialog, queue, job, ran, said, stopped, faults>>

\* stream_end, a terminal status after the last batch, or the abort.
ClientDone(k) ==
    /\ client[k].mode = "open" /\ client[k].at = None
    /\ \/ k = "stream" /\ (stopped \/ (sidecar.status = "ended" /\ Stream.cur > Len(log)))
       \/ k = "pull" /\ Pull.cur > Pull.lim /\ (stopped \/ Pull.last)
    /\ client' = [client EXCEPT ![k].mode = "done"]
    /\ UNCHANGED <<log, sidecar, dialog, queue, job, ran, said, stopped, faults>>

\* ai_sidecar_stream returns an error: a read that saw nothing for ten minutes,
\* a reset connection.  Events sent before stay on the chain.
StreamBreaks ==
    /\ Fault
    /\ Stream.mode = "open" /\ ~stopped
    /\ \E n \in (Stream.cur - 1)..Len(log) :
          client' = FallBack([client EXCEPT !["stream"].mode = "broken",
                                            !["stream"].lim = n])
    /\ UNCHANGED <<log, sidecar, dialog, queue, job, ran, said, stopped>>

\* The connection is closed in the middle of the run: sidecar_sse_stream ends
\* as if the run had, and after what was sent runAgentChat returns.
StreamCloses ==
    /\ Fault
    /\ Stream.mode = "open" /\ ~stopped
    /\ \E n \in (Stream.cur - 1)..Len(log) :
          client' = [client EXCEPT !["stream"].mode = "broken", !["stream"].lim = n]
    /\ UNCHANGED <<log, sidecar, dialog, queue, job, ran, said, stopped>>

\* A pull request fails: runAgentChat throws. (The pull client exists only
\* after a fault and ends here, so this needs no budget of its own.)
PullFails ==
    /\ Pull.mode = "open" /\ Pull.at = None /\ Pull.cur > Pull.lim
    /\ client' = [client EXCEPT !["pull"].mode = "failed", !["pull"].cur = 1,
                                !["pull"].lim = 0, !["pull"].last = FALSE]
    /\ UNCHANGED <<log, sidecar, dialog, queue, job, ran, said, stopped, faults>>

Say(was, yes) == [yes |-> was.yes \/ yes, last |-> yes]

\* The user decides in the dialog; the client the dialog belongs to posts it.
UserDecides(yes) ==
    /\ dialog # None
    /\ dialog' = None
    /\ said' = [said EXCEPT ![dialog[2]] = Say(@, yes)]
    /\ sidecar' = Decided(dialog[2], yes)
    /\ client' = [client EXCEPT ![dialog[1]].at = None]
    /\ UNCHANGED <<log, queue, job, ran, stopped, faults>>

\* The same, and the request or its response is lost.
DecisionFails(yes) ==
    /\ Fault
    /\ dialog # None
    /\ dialog' = None
    /\ said' = [said EXCEPT ![dialog[2]] = Say(@, yes)]
    /\ sidecar' \in {sidecar, Decided(dialog[2], yes)}
    /\ client' = Threw([client EXCEPT ![dialog[1]].at = None], dialog[1])
    /\ UNCHANGED <<log, queue, job, ran, stopped>>

\* stopActiveRun: an open dialog is answered with a rejection, the signal is
\* aborted, the cancel request is sent (RunEnds is its arrival).
Stop ==
    /\ ~stopped /\ \E k \in Client : client[k].mode \in {"open", "broken"}
    /\ stopped' = TRUE
    /\ dialog' = None
    /\ IF dialog = None THEN UNCHANGED <<said, sidecar, client>>
       ELSE /\ said' = [said EXCEPT ![dialog[2]] = Say(@, FALSE)]
            /\ sidecar' = Decided(dialog[2], FALSE)
            /\ client' = [client EXCEPT ![dialog[1]].at = None]
    /\ UNCHANGED <<log, queue, job, ran, faults>>

---------------------------------------------------------------------------
(* The jobs. *)

Charge(n) == IF n < 2 THEN n + 1 ELSE n

\* Mutant of Turn: a job does not wait for the one before it.
TurnAny(j) == \E i \in DOMAIN queue : queue[i] = j

\* enqueueHostExec: a job starts when everything before it has settled.
Turn(j) == queue # <<>> /\ Head(queue) = j

\* executeToolCall: the lease is registered (again, if it was before) and the
\* command is started.
StartJob(j) ==
    /\ job[j].pc = "queued" /\ Turn(j)
    /\ job' = [job EXCEPT ![j].pc = "running"]
    /\ ran' = [ran EXCEPT ![j[2]] = Charge(@)]
    /\ UNCHANGED <<log, sidecar, client, dialog, queue, said, stopped, faults>>

\* The job ends, which is the turn of the next one, and its result goes to the
\* sidecar unless the call is settled.
Settle(j) ==
    /\ queue' = Tail(queue)
    /\ IF j[2] \in client[j[1]].settled
       THEN /\ job' = [job EXCEPT ![j].pc = "end"]
            /\ UNCHANGED client
       ELSE /\ job' = [job EXCEPT ![j].pc = "posting"]
            /\ client' = [client EXCEPT ![j[1]].settled = @ \cup {j[2]}]
    /\ UNCHANGED <<log, sidecar, dialog, ran, said, stopped, faults>>

\* register_privilege_lease refuses a lease past its time, which it may be
\* whenever a job's turn comes: an error result.
RefuseJob(j) ==
    /\ job[j].pc = "queued" /\ Turn(j)
    /\ j[2] \in sidecar.gated
    /\ Settle(j)

FinishJob(j) == job[j].pc = "running" /\ Settle(j)

\* postToolResultWithRetry: delivered, or 409 because the wait has ended.
PostResult(j) ==
    /\ job[j].pc = "posting"
    /\ sidecar' = IF ResultAccepted(j[2]) THEN Answered(j[2]) ELSE sidecar
    /\ job' = [job EXCEPT ![j].pc = "end"]
    /\ UNCHANGED <<log, client, dialog, queue, ran, said, stopped, faults>>

\* An attempt whose request or response is lost; the last one is given up.
PostFails(j) ==
    /\ Fault
    /\ job[j].pc = "posting"
    /\ sidecar' \in {sidecar, IF ResultAccepted(j[2]) THEN Answered(j[2]) ELSE sidecar}
    /\ job' = [job EXCEPT ![j].left = @ - 1,
                          ![j].pc = IF job[j].left = 1 THEN "lost" ELSE "posting"]
    /\ UNCHANGED <<log, client, dialog, queue, ran, said, stopped>>

\* A run that is over, with nothing left for the webview to do.
Rest ==
    /\ sidecar.status = "ended" /\ queue = <<>> /\ dialog = None
    /\ \A j \in Job : job[j].pc # "posting"
    /\ UNCHANGED vars

Next ==
    \/ AskApproval \/ Dispatch \/ ToolTimeout \/ RunEnds
    \/ \E k \in Client : HandleApproval(k) \/ HandleElsewhere(k) \/ HandleToolCall(k)
                         \/ HandleToolTimeout(k) \/ ClientDone(k)
    \/ PullBatch \/ StreamBreaks \/ StreamCloses \/ PullFails \/ Stop
    \/ \E yes \in BOOLEAN : UserDecides(yes) \/ DecisionFails(yes)
    \/ \E j \in Job : StartJob(j) \/ RefuseJob(j) \/ FinishJob(j)
                      \/ PostResult(j) \/ PostFails(j)
    \/ Rest

Spec == Init /\ [][Next]_vars

---------------------------------------------------------------------------
(* Properties. *)

\* enqueueHostExec: of the jobs of a session at most one is on the host,
\* though two clients queue them and nothing awaits them.
OneAtATime == \A i, j \in Job : job[i].pc = "running" /\ job[j].pc = "running" => i = j

\* A result the run was given for a call is a result of that call, also when
\* it is late, retried, or of a job that a replayed tool_call started.
ResultsMatch == \A c \in Call : sidecar.got[c] \subseteq {c}

\* A command is approved only if the user said yes to that command (a dialog
\* that outlives the wait it was opened for approves nothing else), and one
\* that needs an approval is on the host only after such a yes.  Whether it
\* was still the user's last word is ApprovalRespected.
ApprovedByUser ==
    /\ \A c \in sidecar.approved : said[c].yes
    /\ \A c \in sidecar.gated : ran[c] > 0 => c \in sidecar.approved

\* While the run waits for an approval that nobody sees, a client can go on
\* and show it, whatever hangs on the host and however many results wait to
\* be posted: only the user, a lost connection or a stop hold a client up.
\* One case is left out: with both clients at work the stream's dialog can
\* take the slot from the pull client's, which then waits for ever.
PullDisplaced == Pull.at # None /\ dialog # <<"pull", Pull.at>>
NotFollowed ==
    stopped \/ Pull.mode = "failed" \/ (Stream.mode = "broken" /\ Pull.mode = "off")
CanPull == Pull.mode = "open" /\ Pull.at = None /\ Pull.lim < Len(log) /\ ~Pull.last
PromptNotBlocked ==
    sidecar.status = "waiting_approval" =>
        \/ dialog # None
        \/ CanPull \/ \E k \in Client : HandlesNow(k)
        \/ NotFollowed \/ PullDisplaced

\* A command that needs an approval is started once, and only while the
\* user's last word on it is yes.
ApprovalRespected ==
    [][\A c \in sidecar.gated :
         ran'[c] > ran[c] => ran[c] = 0 /\ said[c].last = TRUE]_vars
===========================================================================
