------------------------------ MODULE DbQuery ------------------------------
(***************************************************************************)
(* A statement on its way from the database workbench to a server: the     *)
(* webview's request, approval card and Cancel button                      *)
(* (components/db/DbWorkbench.tsx), the command that reads the connection, *)
(* asks the gate and consumes the one-shot lease (db/commands.rs,          *)
(* db/gate.rs, db/auth.rs, db/lease.rs), the three tables through which a  *)
(* running query can be stopped (db/live.rs), and the driver (db/driver.rs,*)
(* its PostgreSQL path).  Every request, cancel and close is a task of its *)
(* own: they interleave at each lock and each await.                       *)
(* A statement is its class; the operation id is fresh for every request,  *)
(* so it also names the flight and, for an approved request, its lease.    *)
(***************************************************************************)
EXTENDS Integers, FiniteSets, SequencesExt

CONSTANTS
    Conn,         \* saved connections
    Tunnelled,    \* those that go through the SSH session
    Op,           \* operation ids: 1..n, used in this order
    Stmt,         \* classes of the statements the user runs
    Mode,         \* security modes
    MaxMove,      \* bound: saves of a connection and clicks on another one
    EarlyLimit,   \* ids the queue of early cancels keeps; 32 in the code
    DoubleClick   \* whether Approve may be clicked again while its card is up

ASSUME QueryAssumption ==
    /\ Tunnelled \subseteq Conn /\ Op \subseteq Nat \ {0} /\ DoubleClick \in BOOLEAN
    /\ Stmt \subseteq {"read", "write", "ddl"} /\ Mode \subseteq {"observe", "safe", "autonomous"}
    /\ MaxMove \in Nat /\ EarlyLimit \in Nat \ {0}

VARIABLES
    catalog,      \* the stored revision of each connection and the server it names
    mode,         \* security_mode of the settings
    session,      \* the SSH session: open, closing (flights told) or closed
    lease,        \* registered leases of a user's approval
    operations, sessions, early,   \* OPERATIONS, SESSIONS and EARLY_CANCEL
    req,          \* the requests: one db_query command each
    cancel,       \* the db_cancel_query command of each operation
    ui,           \* the workbench
    saving,       \* the connection whose save is being awaited, as a set
    moves,
    sent,         \* history: statements that reached a server
    queued,       \* history: the early cancels in the order they were queued, and
                  \* where the request was then
    late,         \* history: flights that joined the session after cancel_ssh
    stale         \* history: requests in flight at a Cancel or at a click on another
                  \* connection (not at a change of workspace, nor at a save's reselect)

tables  == <<operations, sessions, early>>
history == <<sent, queued, late, stale>>
vars == <<catalog, mode, session, lease, operations, sessions, early, req, cancel,
          ui, saving, moves, sent, queued, late, stale>>

NoCard == [op |-> 0]
Card   == {NoCard} \cup [op : Op, conn : Conn, stmt : Stmt, rev : 1..MaxMove + 1,
                         target : 1..MaxMove + 1, used : BOOLEAN]
Unused == [pc |-> "free"]

\* Between the check for an early cancel and the last of begin's insertions,
\* and from there to the end of the query.
InBegin == {"taken", "inserted"}
Flying  == {"begun", "dialled", "sent", "cancelling"}
PC == {"free", "approved", "called", "ready", "dropping", "respond", "done"} \cup InBegin \cup Flying

Req == {Unused} \cup
       [pc : PC, conn : Conn, stmt : Stmt, leased : BOOLEAN, seq : Nat, rev : 1..MaxMove + 1,
        snap : [rev : 1..MaxMove + 1, target : 1..MaxMove + 1], card : Card,
        halt : {"None", "Cancelled", "SessionClosed"}, res : {"rows", "approval", "error"}]

TypeOK ==
    /\ catalog \in [Conn -> [rev : 1..MaxMove + 1, target : 1..MaxMove + 1]]
    /\ mode \in Mode /\ session \in {"open", "closing", "closed"}
    /\ lease \subseteq [id : Op, conn : Conn, rev : 1..MaxMove + 1, stmt : Stmt]
    /\ operations \subseteq Op /\ sessions \subseteq Op
    /\ early \in Seq(Op) /\ Len(early) <= EarlyLimit
    /\ req \in [Op -> Req]
    /\ cancel \in [Op -> {"no", "called", "missed", "done"}]
    /\ ui \in [sel : Conn, known : [Conn -> 1..MaxMove + 1], seq : Nat, op : Op \cup {0},
               busy : BOOLEAN, pending : Card, submitted : Stmt \cup {""},
               shown : Op \cup {0}]
    /\ saving \subseteq Conn /\ Cardinality(saving) <= 1 /\ moves \in 0..MaxMove

Init ==
    /\ catalog = [c \in Conn |-> [rev |-> 1, target |-> 1]]
    /\ mode \in Mode /\ session \in {"open", "closed"} /\ lease = {}
    /\ operations = {} /\ sessions = {} /\ early = <<>>
    /\ req = [o \in Op |-> Unused]
    /\ cancel = [o \in Op |-> "no"]
    /\ \E c \in Conn :
          ui = [sel |-> c, known |-> [d \in Conn |-> 1], seq |-> 0, op |-> 0, busy |-> FALSE,
                pending |-> NoCard, submitted |-> "", shown |-> 0]
    /\ saving = {} /\ moves \in 0..MaxMove
    /\ sent = {} /\ queued = <<>> /\ late = {} /\ stale = {}

---------------------------------------------------------------------------
(* The workbench *)

Fresh(o) == req[o].pc = "free" /\ \A p \in Op : p < o => req[p].pc # "free"

\* run and the request it invokes; the record is the closure's.
Request(o, c, s, card) ==
    [pc |-> "called", conn |-> c, stmt |-> s, leased |-> card # NoCard, seq |-> ui.seq,
     rev |-> ui.known[c], snap |-> catalog[c], card |-> card, halt |-> "None",
     res |-> "error"]

Run(o, s) ==
    /\ Fresh(o)
    /\ req' = [req EXCEPT ![o] = Request(o, ui.sel, s, NoCard)]
    /\ ui' = [ui EXCEPT !.op = o, !.busy = TRUE, !.submitted = s,
                        !.pending = IF @ # NoCard /\ @.stmt # s THEN NoCard ELSE @]
    /\ UNCHANGED <<catalog, mode, session, lease, tables, cancel, saving, moves, history>>

\* approve: the lease is registered for what the card says; run follows when
\* the answer is back, with the connection that was selected at the click.
Approve(o) ==
    /\ Fresh(o) /\ ui.pending # NoCard
    /\ ui.pending.stmt = ui.submitted
    /\ DoubleClick \/ ~ui.pending.used
    /\ LET p == ui.pending IN
          /\ lease' = lease \cup {[id |-> o, conn |-> p.conn, rev |-> p.rev, stmt |-> p.stmt]}
          /\ req' = [req EXCEPT ![o] = [Request(o, ui.sel, p.stmt, p) EXCEPT !.pc = "approved"]]
          /\ ui' = [ui EXCEPT !.pending.used = TRUE]
    /\ UNCHANGED <<catalog, mode, session, tables, cancel, saving, moves, history>>

ApproveRun(o) ==
    /\ req[o].pc = "approved"
    /\ req' = [req EXCEPT ![o].pc = "called", ![o].seq = ui.seq]
    /\ ui' = [ui EXCEPT !.op = o, !.busy = TRUE, !.submitted = req[o].stmt]
    /\ UNCHANGED <<catalog, mode, session, lease, tables, cancel, saving, moves, history>>

Reject ==
    /\ ui.pending # NoCard
    /\ ui' = [ui EXCEPT !.pending = NoCard]
    /\ UNCHANGED <<catalog, mode, session, lease, tables, req, cancel, saving, moves, history>>

InFlight == {o \in Op : req[o].pc \notin {"free", "approved", "done"}}

\* Mutant of Cancel: the sequence number stays.
CancelNoSeq ==
    /\ ui.busy
    /\ ui' = [ui EXCEPT !.op = 0, !.busy = FALSE]
    /\ cancel' = IF ui.op # 0 /\ cancel[ui.op] = "no"
                 THEN [cancel EXCEPT ![ui.op] = "called"] ELSE cancel
    /\ stale' = stale \cup InFlight
    /\ UNCHANGED <<catalog, mode, session, lease, tables, req, saving, moves,
                   sent, queued, late>>

Cancel ==
    /\ ui.busy
    /\ ui' = [ui EXCEPT !.seq = @ + 1, !.op = 0, !.busy = FALSE]
    /\ cancel' = IF ui.op # 0 THEN [cancel EXCEPT ![ui.op] = "called"] ELSE cancel
    /\ stale' = stale \cup InFlight
    /\ UNCHANGED <<catalog, mode, session, lease, tables, req, saving, moves,
                   sent, queued, late>>

\* A click on another connection: clearWork.
Select(c) ==
    /\ c # ui.sel /\ moves < MaxMove /\ moves' = moves + 1
    /\ ui' = [ui EXCEPT !.sel = c, !.seq = @ + 1, !.pending = NoCard, !.busy = FALSE, !.shown = 0]
    /\ stale' = stale \cup InFlight
    /\ UNCHANGED <<catalog, mode, session, lease, tables, req, cancel, saving,
                   sent, queued, late>>

\* A click on a workspace of another connection: only the selection changes,
\* not the sequence number.
SwitchWorkspace(c) ==
    /\ c # ui.sel /\ moves < MaxMove /\ moves' = moves + 1
    /\ ui' = [ui EXCEPT !.sel = c]
    /\ UNCHANGED <<catalog, mode, session, lease, tables, req, cancel, saving, history>>

\* The rest of run: a response of an older sequence number, or of a revision
\* other than the one the request was made for, is dropped.
Deliver(o) ==
    LET r == req[o]
        idle == [ui EXCEPT !.busy = FALSE]
    IN /\ r.pc = "respond"
       /\ req' = [req EXCEPT ![o].pc = "done"]
       /\ ui' = IF r.seq # ui.seq THEN ui
                ELSE IF r.res # "error" /\ r.snap.rev # r.rev THEN idle
                ELSE IF r.res = "approval" THEN [idle EXCEPT !.pending = r.card]
                ELSE [idle EXCEPT !.pending = NoCard, !.shown = IF r.res = "rows" THEN o ELSE @]
       /\ UNCHANGED <<catalog, mode, session, lease, tables, cancel, saving, moves, history>>

\* The connection form: busy while the save is awaited.
Save(c) ==
    /\ ~ui.busy /\ saving = {}
    /\ moves < MaxMove /\ moves' = moves + 1
    /\ saving' = {c}
    /\ ui' = [ui EXCEPT !.busy = TRUE]
    /\ UNCHANGED <<catalog, mode, session, lease, tables, req, cancel, history>>

\* An edited record: another server, a higher revision.
Stored(c) == [catalog[c] EXCEPT !.rev = @ + 1, !.target = @ + 1]

\* The save has failed, or the webview lists the connections again and selects
\* the saved one.
SaveDone ==
    /\ \E c \in saving :
          \/ catalog' = catalog /\ ui' = [ui EXCEPT !.busy = FALSE]
          \/ /\ catalog' = [catalog EXCEPT ![c] = Stored(c)]
             /\ ui' = [ui EXCEPT !.busy = FALSE, !.sel = c, !.known[c] = Stored(c).rev]
    /\ saving' = {}
    /\ UNCHANGED <<mode, session, lease, tables, req, cancel, moves, history>>

---------------------------------------------------------------------------
(* run_authorized: the connection is read, and the gate decides *)

At(o, pc) == req' = [req EXCEPT ![o].pc = pc]
Fails(o, pc) == req' = [req EXCEPT ![o].pc = pc, ![o].res = "error"]

\* decide_sql.
Decision(class) ==
    IF class = "read" THEN "allow"
    ELSE IF mode = "observe" THEN "deny"
    ELSE IF mode = "autonomous" /\ class = "write" THEN "allow"
    ELSE "approval"

\* Mutant of Matches: the revision is not compared.
MatchesNoRev(l, r, o) == l.id = o /\ l.conn = r.conn /\ l.stmt = r.stmt

\* The comparisons of consume_db_lease.
Matches(l, r, o) ==
    l.id = o /\ l.conn = r.conn /\ l.rev = r.snap.rev /\ l.stmt = r.stmt

\* The connection is read, and authorize refuses, asks for an approval or
\* consumes its lease.  Where the mode allows the statement, a lease is
\* registered and consumed on the spot.  (One step: after the read only the
\* lease is shared, and it is read and consumed under one lock.)
Authorize(o) ==
    LET r == [req[o] EXCEPT !.snap = catalog[req[o].conn]]
        found == {l \in lease : Matches(l, r, o)}
        to(n) == req' = [req EXCEPT ![o] = n]
        card == [op |-> o, conn |-> r.conn, stmt |-> r.stmt, rev |-> r.snap.rev,
                 target |-> r.snap.target, used |-> FALSE]
    IN /\ req[o].pc = "called"
       /\ \/ /\ \/ Decision(r.stmt) = "deny"
                \/ Decision(r.stmt) = "approval" /\ r.leased /\ found = {}
             /\ to([r EXCEPT !.pc = "respond", !.res = "error"]) /\ UNCHANGED lease
          \/ /\ Decision(r.stmt) = "approval" /\ ~r.leased
             /\ to([r EXCEPT !.pc = "respond", !.res = "approval", !.card = card])
             /\ UNCHANGED lease
          \/ /\ Decision(r.stmt) = "approval" /\ r.leased /\ found # {}
             /\ to([r EXCEPT !.pc = "ready"]) /\ lease' = lease \ found
          \/ /\ Decision(r.stmt) = "allow"
             /\ to([r EXCEPT !.pc = "ready"]) /\ UNCHANGED lease
       /\ UNCHANGED <<catalog, mode, session, tables, cancel, ui, saving, moves, history>>

\* 120 seconds: consume_db_lease refuses the lease and removes it.
LeaseExpires(l) ==
    /\ lease' = lease \ {l}
    /\ UNCHANGED <<catalog, mode, session, tables, req, cancel, ui, saving, moves, history>>

---------------------------------------------------------------------------
(* live.rs: three tables, three locks *)

\* o is in the queue of early cancels, for the first time at i.
FoundAt(o, i) == early[i] = o /\ \A j \in 1..i - 1 : early[j] # o

TakeEarly(o) ==
    /\ req[o].pc = "ready"
    /\ \/ \E i \in 1..Len(early) :
             /\ FoundAt(o, i) /\ early' = RemoveAt(early, i)
             /\ req' = [req EXCEPT ![o].pc = "taken", ![o].halt = "Cancelled"]
       \/ /\ \A i \in 1..Len(early) : early[i] # o
          /\ UNCHANGED early
          /\ req' = [req EXCEPT ![o].pc = "taken", ![o].halt = "None"]
    /\ UNCHANGED <<catalog, mode, session, lease, operations, sessions, cancel, ui,
                   saving, moves, history>>

InsertOperation(o) ==
    /\ req[o].pc = "taken"
    /\ operations' = operations \cup {o}
    /\ At(o, "inserted")
    /\ UNCHANGED <<catalog, mode, session, lease, sessions, early, cancel, ui, saving,
                   moves, history>>

PushSession(o) ==
    /\ req[o].pc = "inserted"
    /\ IF req[o].conn \in Tunnelled
       THEN /\ sessions' = sessions \cup {o}
            /\ late' = IF session = "open" THEN late ELSE late \cup {o}
       ELSE UNCHANGED <<sessions, late>>
    /\ At(o, "begun")
    /\ UNCHANGED <<catalog, mode, session, lease, operations, early, cancel, ui, saving,
                   moves, sent, queued, stale>>

\* Mutant of Drop: the session keeps the flight.
DropKeepsSession(o) ==
    /\ req[o].pc = "dropping"
    /\ operations' = operations \ {o}
    /\ At(o, "respond")
    /\ UNCHANGED <<catalog, mode, session, lease, sessions, early, cancel, ui, saving,
                   moves, history>>

\* Drop: both entries of the flight; nothing looks at a flight that has ended.
Drop(o) ==
    /\ req[o].pc = "dropping"
    /\ operations' = operations \ {o} /\ sessions' = sessions \ {o}
    /\ At(o, "respond")
    /\ UNCHANGED <<catalog, mode, session, lease, early, cancel, ui, saving, moves, history>>

\* cancel_operation: the flight is told, or is not there.
CancelLookup(o) ==
    /\ cancel[o] = "called"
    /\ IF o \in operations
       THEN /\ cancel' = [cancel EXCEPT ![o] = "done"]
            /\ req' = [req EXCEPT ![o].halt = "Cancelled"]
       ELSE /\ cancel' = [cancel EXCEPT ![o] = "missed"]
            /\ UNCHANGED req
    /\ UNCHANGED <<catalog, mode, session, lease, tables, ui, saving, moves, history>>

\* Mutant of Keep: nothing makes room.
KeepAll(q) == q

\* The oldest id makes room.
Keep(q) == IF Len(q) > EarlyLimit THEN Tail(q) ELSE q

\* ... and an early cancel is left for it.
CancelQueue(o) ==
    /\ cancel[o] = "missed"
    /\ cancel' = [cancel EXCEPT ![o] = "done"]
    /\ early' = IF \E i \in 1..Len(early) : early[i] = o THEN early ELSE Keep(Append(early, o))
    /\ queued' = Append(queued, [op |-> o, pc |-> req[o].pc])
    /\ UNCHANGED <<catalog, mode, session, lease, operations, sessions, req, ui, saving,
                   moves, sent, late, stale>>

\* SessionManager.close: cancel_ssh, and then the session is removed.
CloseSession ==
    /\ session = "open" /\ Tunnelled # {}
    /\ session' = "closing"
    /\ req' = [o \in Op |-> IF o \in sessions THEN [req[o] EXCEPT !.halt = "SessionClosed"]
                            ELSE req[o]]
    /\ UNCHANGED <<catalog, mode, lease, tables, cancel, ui, saving, moves, history>>

RemoveSession ==
    /\ session = "closing"
    /\ session' = "closed"
    /\ UNCHANGED <<catalog, mode, lease, tables, req, cancel, ui, saving, moves, history>>

---------------------------------------------------------------------------
(* driver.rs *)

\* Mutant of Dial: the halt is only looked at while the statement runs.
DialBlind(o) ==
    /\ req[o].pc = "begun"
    /\ At(o, "dialled")
    /\ UNCHANGED <<catalog, mode, session, lease, tables, cancel, ui, saving, moves, history>>

\* execute_dial up to the connection: a halted flight and one whose session is
\* gone end here.
Dial(o) ==
    /\ req[o].pc = "begun"
    /\ IF \/ req[o].halt # "None"
          \/ req[o].conn \in Tunnelled /\ session = "closed"
       THEN Fails(o, "dropping")
       ELSE At(o, "dialled")
    /\ UNCHANGED <<catalog, mode, session, lease, tables, cancel, ui, saving, moves, history>>

\* Connected: the statement goes to the server the snapshot names.
Send(o) ==
    LET r == req[o] IN
    /\ r.pc = "dialled"
    /\ At(o, "sent")
    /\ sent' = sent \cup {[op |-> o, conn |-> r.conn, target |-> r.snap.target, stmt |-> r.stmt,
                           leased |-> r.leased, card |-> r.card]}
    /\ UNCHANGED <<catalog, mode, session, lease, tables, cancel, ui, saving, moves,
                   queued, late, stale>>

\* The work is done, with rows or an error; a connection may also be refused.
Finish(o) ==
    /\ \/ req[o].pc = "sent" /\ req' = [req EXCEPT ![o].pc = "dropping", ![o].res = "rows"]
       \/ req[o].pc \in {"dialled", "sent"} /\ Fails(o, "dropping")
    /\ UNCHANGED <<catalog, mode, session, lease, tables, cancel, ui, saving, moves, history>>

\* select! hears the halt while the statement runs, not while it connects.  The
\* branch goes on to the cancel request.
Halted(o) ==
    /\ req[o].pc = "sent" /\ req[o].halt # "None"
    /\ Fails(o, "cancelling")
    /\ UNCHANGED <<catalog, mode, session, lease, tables, cancel, ui, saving, moves, history>>

\* Mutant of Timeout: only the connection has a deadline.
TimeoutConnect(o) ==
    /\ req[o].pc = "dialled"
    /\ Fails(o, "dropping")
    /\ UNCHANGED <<catalog, mode, session, lease, tables, cancel, ui, saving, moves, history>>

\* query_timeout: a connection ends with it, a statement goes on to the cancel
\* request.
Timeout(o) ==
    /\ \/ req[o].pc = "dialled" /\ Fails(o, "dropping")
       \/ req[o].pc = "sent" /\ Fails(o, "cancelling")
    /\ UNCHANGED <<catalog, mode, session, lease, tables, cancel, ui, saving, moves, history>>

\* cancel_postgres: a connection of its own to the server, and its handshake,
\* awaited without a deadline.  However it ends, the query ends with its error.
CancelAnswered(o) ==
    /\ req[o].pc = "cancelling"
    /\ At(o, "dropping")
    /\ UNCHANGED <<catalog, mode, session, lease, tables, cancel, ui, saving, moves, history>>

---------------------------------------------------------------------------

Command(o) ==
    \/ ApproveRun(o) \/ Authorize(o) \/ TakeEarly(o) \/ InsertOperation(o)
    \/ PushSession(o) \/ Dial(o) \/ Timeout(o) \/ Halted(o) \/ Drop(o) \/ Deliver(o)

\* The end of a scenario: every operation id is used up and every task done.
Idle ==
    /\ \A o \in Op : req[o].pc = "done" /\ cancel[o] \in {"no", "done"}
    /\ saving = {}
    /\ UNCHANGED vars

Next ==
    \/ \E o \in Op : \/ \E s \in Stmt : Run(o, s)
                     \/ Approve(o) \/ Command(o) \/ Send(o) \/ Finish(o)
                     \/ CancelAnswered(o)
                     \/ CancelLookup(o) \/ CancelQueue(o)
    \/ Reject \/ Cancel \/ SaveDone \/ CloseSession \/ RemoveSession
    \/ \E c \in Conn : Select(c) \/ SwitchWorkspace(c) \/ Save(c)
    \/ \E l \in lease : LeaseExpires(l)
    \/ Idle

\* The steps of a command follow one another, a deadline comes, a save is
\* answered.  Nothing makes the user click or the server answer, neither the
\* statement nor the request to cancel it.
Fairness ==
    /\ \A o \in Op : WF_vars(Command(o))
    /\ WF_vars(SaveDone)

Spec == Init /\ [][Next]_vars
FairSpec == Spec /\ Fairness

---------------------------------------------------------------------------
(* Properties. *)

\* A statement that the mode lets run only with an approval reaches a server
\* only if the user approved that statement for that connection as it was when
\* the card was made: the same server, though connections are saved, selected
\* and switched between the card, the click and the run.
OnlyApproved ==
    \A s \in sent : Decision(s.stmt) # "allow" =>
        /\ Decision(s.stmt) = "approval" /\ s.card # NoCard
        /\ s.card.conn = s.conn /\ s.card.stmt = s.stmt /\ s.card.target = s.target

\* The early cancel of o was queued while the request was at pc, and was not
\* pushed out of the queue by later ones.
Waits(o, pc) ==
    \E i \in 1..Len(queued) : /\ queued[i].op = o /\ queued[i].pc \in pc
                              /\ Len(queued) - i < EarlyLimit

BeforeBegin == {"called", "ready"}

\* Whoever stops a query is heard.  A cancel that did not overlap begin tells
\* the running query, and one whose cancel was waiting for it when it began is
\* never sent; closing the SSH session tells every flight that had joined it.
StopHeard ==
    /\ \A o \in Op : cancel[o] = "done" /\ req[o].pc \in Flying =>
          \/ req[o].halt # "None"
          \/ ~Waits(o, BeforeBegin) /\ \E i \in 1..Len(queued) : queued[i].op = o
    /\ \A s \in sent : ~Waits(s.op, BeforeBegin)
    /\ session # "open" => \A o \in sessions \ late : req[o].halt # "None"

\* The tables hold the running queries and nothing else: whatever way a query
\* ends, both its entries are gone when its response is back.
NoLeak ==
    /\ operations = {o \in Op : req[o].pc \in {"inserted", "dropping"} \cup Flying}
    /\ sessions \subseteq {o \in Op : req[o].pc \in {"dropping"} \cup Flying}

\* What was in flight when the user pressed Cancel or clicked another connection
\* is not shown afterwards, neither as rows nor as a card to approve.  A change
\* of workspace and the reselect after a save take no new sequence number: what
\* was in flight then may still appear, and is not in stale.
NoLateResult ==
    [][\A o \in stale : /\ ui'.shown = o => ui.shown = o
                        /\ ui'.pending.op = o => ui.pending.op = o]_vars

\* Every request gets its response and the workbench does not stay busy, though
\* the server never connects and never answers the statement.  The one wait of a
\* command without a deadline is excepted: for the request that cancels a
\* statement, which the server may leave unanswered for good.
RequestsEnd ==
    (\A o \in Op : []<>(req[o].pc # "cancelling")) =>
        /\ \A o \in Op : req[o].pc \in {"approved", "called"} ~> req[o].pc = "done"
        /\ ui.busy ~> ~ui.busy
===========================================================================
