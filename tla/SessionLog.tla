---------------------------- MODULE SessionLog ----------------------------
(***************************************************************************)
(* The session log of an agent run in the sidecar (agent-sidecar/app): a   *)
(* list of events and the surface, the positions of the events the model   *)
(* is shown (session/log.py); the compaction that replaces a stretch of    *)
(* the surface by a summary it has awaited (session/compaction.py,         *)
(* session/tool_pairing.py); the loop that writes the log (agent/loop.py); *)
(* and the log read back from its file (session/store.py, state.py).       *)
(*                                                                         *)
(* Every append is followed by a rewrite of the file in the same step, so  *)
(* the file holds what `log' holds and is not a variable.  Events that     *)
(* never reach the surface (tool/call, compaction/start and /end,          *)
(* session/repair) are left out: compaction_busy looks for a start without *)
(* an end, and both are appended in one step.  Positions count from 1.     *)
(*                                                                         *)
(* A message is known by what it holds: the one thing said in it, or, for  *)
(* a summary, what it was given of the messages of its stretch.  What a    *)
(* summarizer says of what it is given, and a length to which every        *)
(* message is cut on the way, are left out: a thing is held if it is       *)
(* begun.                                                                  *)
(***************************************************************************)
EXTENDS Integers, FiniteSets, SequencesExt

CONSTANTS
    Retain,       \* compact_retain_tail
    MinCompact,   \* min_compact_nodes
    FallbackKeep, \* the messages of a stretch that _fallback_summary lists
    MaxSaid,      \* bound: messages of the user and of the model
    MaxCall,      \* bound: tool calls
    MaxReload     \* bound: restarts of the sidecar and clones of the log

ASSUME BoundAssumption ==
    /\ {Retain, MinCompact, FallbackKeep, MaxSaid, MaxCall, MaxReload} \subseteq Nat
    /\ MinCompact > 0 /\ FallbackKeep > 0
    /\ MaxSaid > 1     \* what a command-line runtime begins a log with

VARIABLES
    log,        \* the SessionLog: events and surface; and the surface that
                \* load_jsonl_rows, row by row, makes of these events
    work,       \* the loop: where it is suspended, and on what
    said,       \* history: messages and calls made so far, and what the
                \* summaries that took their place did not hold
    reloads

vars == <<log, work, said, reloads>>

Call == 1..MaxCall
Said == 1..MaxSaid
Role == {"system", "user", "assistant", "tool"}

Appended == [kind |-> "append"]
Replaced(from, to) == [kind |-> "replace", from |-> from, to |-> to]

Message(role, holds, calls, answers) ==
    [role |-> role, holds |-> holds, calls |-> calls, answers |-> answers]
System       == Message("system", {}, {}, 0)    \* prompt, context or skills
User(n)      == Message("user", {n}, {}, 0)
Summary(ns)  == Message("user", ns, {}, 0)
Reminder     == Message("user", {}, {}, 0)
Result(c)    == Message("tool", {}, {}, c)
Reply(n, cs) == Message("assistant", {n}, cs, 0)

(***************************************************************************)
(* The log.                                                                *)
(***************************************************************************)

Event(m, op) == [msg |-> m, op |-> op]

Shadow(s, from, to, seq) ==
    SubSeq(s, 1, from - 1) \o <<seq>> \o SubSeq(s, to + 1, Len(s))

\* One row of load_jsonl_rows; a slice past the end of a list is empty.
Fold(s, seq, op) ==
    LET Within(n) == IF n < Len(s) THEN n ELSE Len(s) IN
    IF op.kind = "append" THEN Append(s, seq)
    ELSE SubSeq(s, 1, Within(op.from - 1)) \o <<seq>>
         \o SubSeq(s, op.to + 1, Len(s))

\* One more event, and the surface it leaves in memory.
Logged(l, m, op, surface) ==
    [events  |-> Append(l.events, Event(m, op)),
     surface |-> surface,
     read    |-> Fold(l.read, Len(l.events) + 1, op)]

Put(l, m) == Logged(l, m, Appended, Append(l.surface, Len(l.events) + 1))

Replace(l, from, to, m) ==
    Logged(l, m, Replaced(from, to), Shadow(l.surface, from, to, Len(l.events) + 1))

\* The event says that it was appended; the surface has it at the front.
InsertFront(l, m) ==
    Logged(l, m, Appended, <<Len(l.events) + 1>> \o l.surface)

\* New events for all of ms, marked as appended.
Extended(l, ms, surface) ==
    LET new == [i \in DOMAIN ms |-> Len(l.events) + i] IN
    [events  |-> l.events \o [i \in DOMAIN ms |-> Event(ms[i], Appended)],
     surface |-> surface \o new,
     read    |-> l.read \o new]

PutAll(l, ms) == Extended(l, ms, l.surface)

\* replace_surface_messages: no event takes the old ones off the surface.
Rewrite(l, ms) == Extended(l, ms, <<>>)

\* derive_messages
Messages(l) == [i \in DOMAIN l.surface |-> l.events[l.surface[i]].msg]

Reloaded == [log EXCEPT !.surface = log.read]

HeldBy(ms) == UNION {m.holds : m \in ToSet(ms)}

(***************************************************************************)
(* The stretch to compact.                                                 *)
(***************************************************************************)

\* Mutant of Balanced: the pairing is not looked at.
BalancedAlways(ms, from, to) == from <= to

\* is_balanced_surface_range
Balanced(ms, from, to) ==
    \A i \in from..to : \A c \in ms[i].calls : \E j \in i+1..to : ms[j].answers = c

\* Mutant of Stretch: the system prompt is summarised too.
StretchWithPrompt(ms, r) ==
    LET Ends    == {to \in 1..Len(ms) - r : Balanced(ms, 1, to)}
        Longest == {to \in Ends : \A e \in Ends : e <= to} IN
    IF Len(ms) <= r + MinCompact THEN {}
    ELSE {<<1, to>> : to \in {e \in Longest : e >= MinCompact}}

\* select_compactable_range for a tail of r messages; the longest balanced
\* stretch after the system prompt, if it is long enough.
Stretch(ms, r) ==
    LET from    == IF ms[1].role = "system" THEN 2 ELSE 1
        Ends    == {to \in from..Len(ms) - r : Balanced(ms, from, to)}
        Longest == {to \in Ends : \A e \in Ends : e <= to} IN
    IF Len(ms) <= r + MinCompact THEN {}
    ELSE {<<from, to>> : to \in {e \in Longest : e - from + 1 >= MinCompact}}

\* Mutant of Stretches: of the tail one message less is kept.
StretchesShortTail(ms) == UNION {Stretch(ms, Retain + more) : more \in {-1, 2, 4}}

\* Evidence in the tail keeps two or four messages more; whether a message
\* looks like evidence is left open.
Stretches(ms) == UNION {Stretch(ms, Retain + more) : more \in {0, 2, 4}}

(***************************************************************************)
(* The loop.                                                               *)
(***************************************************************************)

Idle == [pc |-> "idle", todo |-> {}, span |-> <<>>, holds |-> {}, omits |-> {},
         why |-> "pressure", retried |-> FALSE, reminded |-> FALSE,
         watched |-> FALSE]

NewLog == [events |-> <<>>, surface |-> <<>>, read |-> <<>>]

\* A new log, or one that a command-line runtime began without a prompt.
Begun(cli) ==
    /\ log = IF cli
             THEN Put(Put(NewLog, User(1)), Reply(2, {}))
             ELSE NewLog
    /\ work = Idle
    /\ said = [msgs |-> IF cli THEN 2 ELSE 0, calls |-> 0, omitted |-> {}]

Init == reloads = 0 /\ \E cli \in BOOLEAN : Begun(cli)

TypeOK ==
    /\ DOMAIN log = {"events", "surface", "read"}
    /\ \A e \in ToSet(log.events) :
          /\ e.msg \in [role : Role, holds : SUBSET Said, calls : SUBSET Call,
                        answers : Call \cup {0}]
          /\ e.op = Appended \/ e.op.from \in 2..e.op.to
    /\ ToSet(log.surface) \cup ToSet(log.read) \subseteq DOMAIN log.events
    /\ work.pc \in {"idle", "sample", "compact", "tools", "rearmed"}
    /\ work.todo \subseteq Call /\ work.holds \cup work.omits \subseteq Said
    /\ work.pc = "compact" => /\ Len(work.span) = 2
                              /\ work.span[2] <= Len(log.surface)
    /\ said.msgs \in 0..MaxSaid /\ said.calls \in 0..MaxCall
    /\ said.omitted \subseteq Said
    /\ reloads \in 0..MaxReload

Calls(ms)    == UNION {m.calls : m \in ToSet(ms)}
Answered(ms) == {m.answers : m \in ToSet(ms)} \ {0}

\* The members of a set of numbers, in order.
Place(S, i) == Cardinality({j \in S : j <= i})
Ordered(S)  == [k \in 1..Cardinality(S) |-> CHOOSE i \in S : Place(S, i) = k]

Stubs(cs) == [k \in DOMAIN Ordered(cs) |-> Result(Ordered(cs)[k])]

\* The messages without the results of calls that are not there.
Kept(ms) ==
    LET keep == {i \in DOMAIN ms : ms[i].role = "tool" => ms[i].answers \in Calls(ms)}
    IN [k \in DOMAIN Ordered(keep) |-> ms[Ordered(keep)[k]]]

\* _repair_tool_message_pairs
Paired(ms)  == Kept(ms) \o Stubs(Calls(ms) \ Answered(Kept(ms)))
Repaired(l) == IF Paired(Messages(l)) = Messages(l) THEN l
               ELSE Rewrite(l, Paired(Messages(l)))

\* _fallback_summary, when the summarizer fails: the last messages only.
Latest(ms) ==
    SubSeq(ms, IF Len(ms) > FallbackKeep THEN Len(ms) - FallbackKeep + 1 ELSE 1, Len(ms))

\* _summarize: what the summary of ms may hold.  Every message is cut to a
\* length: of an earlier summary any part may be behind the cut.
Summaries(ms) ==
    UNION {{holds \in SUBSET HeldBy(given) :
              \A m \in ToSet(given) : Cardinality(m.holds) = 1 => m.holds \subseteq holds} :
           given \in {ms, Latest(ms)}}

\* The summary is asked for with the messages of the stretch as they are now;
\* whether the summarizer will fail is decided here too, and known later.
Compacting(l, w, span, why) ==
    LET stretch == SubSeq(Messages(l), span[1], span[2]) IN
    /\ log' = l
    /\ \E holds \in Summaries(stretch) :
          work' = [w EXCEPT !.pc = "compact", !.span = span, !.why = why,
                            !.holds = holds, !.omits = HeldBy(stretch) \ holds]

\* The head of the loop: the repair, then _prepare_model_context, which may
\* remind the model of its budget once and compacts if the messages exceed
\* it, then the model is sampled.
Prepare(l, w) ==
    \E remind \in BOOLEAN :
       LET ready == IF remind THEN Put(Repaired(l), Reminder) ELSE Repaired(l)
           w1    == [w EXCEPT !.reminded = @ \/ remind] IN
       /\ ~(remind /\ w.reminded)
       /\ \/ log' = ready /\ work' = [w1 EXCEPT !.pc = "sample"]
          \/ \E span \in Stretches(Messages(ready)) :
                Compacting(ready, w1, span, "pressure")

\* compact_messages_for_model, on the way from the surface to the model: over
\* the budget the oldest messages go one by one, but none of the system's
\* (they are merged in front) and not the last of the user's.  The places
\* that are left when n have gone.
Trimmed(ms, n) ==
    LET users == {i \in DOMAIN ms : ms[i].role = "user"}
        free  == {i \in DOMAIN ms : /\ ms[i].role # "system"
                                    /\ i \in users => \E j \in users : i < j}
    IN {i \in DOMAIN ms : i \in free => Place(free, i) > n}

\* The loop has ended; what the metadata of the run remembers stays.
Rested == [Idle EXCEPT !.retried = work.retried, !.reminded = work.reminded]

Say(n) == /\ said.msgs + n <= MaxSaid
          /\ said' = [said EXCEPT !.msgs = @ + n]
Next1  == said.msgs + 1

\* run_until_pause_or_done with a message of the user: a system prompt first,
\* the context of the turn before the message, and skills that match it after.
Turn(l, fresh) ==
    LET Prompted == IF l.surface = <<>> THEN Put(l, System)
                    ELSE IF Messages(l)[1].role # "system" THEN InsertFront(l, System)
                    ELSE l
        Asked    == Put(Put(Prompted, System), User(Next1)) IN
    /\ Say(1)
    /\ \E begun \in {Asked, Put(Asked, System)} : Prepare(begun, fresh)

\* chat_start and chat_continue on the run itself.
Continue == work.pc = "idle" /\ Turn(log, Rested) /\ UNCHANGED reloads

\* create_run_resuming: the prior run is stopped and its log cloned by
\* reading back its events.
Resume ==
    /\ log.events # <<>> /\ reloads < MaxReload
    /\ reloads' = reloads + 1
    /\ Turn(Reloaded, Idle)

\* user_context: a message of the user in the middle of a run.
UserContext ==
    /\ log.events # <<>>
    /\ Say(1)
    /\ log' = Put(log, User(Next1))
    /\ UNCHANGED <<work, reloads>>

\* The model's answer ends the turn, or the harness asks for more.
Answer ==
    /\ work.pc = "sample" /\ Say(1)
    /\ log' = Put(log, Reply(Next1, {}))
    /\ work' = Rested
    /\ UNCHANGED reloads

Nudge ==
    /\ work.pc = "sample" /\ Say(2)
    /\ Prepare(Put(Put(log, Reply(Next1, {})), User(Next1 + 1)), work)
    /\ UNCHANGED reloads

AskTools ==
    /\ work.pc = "sample"
    /\ \E k \in 1..(MaxCall - said.calls) :
          LET cs == said.calls+1..said.calls+k IN
          /\ said.msgs < MaxSaid
          /\ said' = [said EXCEPT !.msgs = Next1, !.calls = @ + k]
          /\ log' = Put(log, Reply(Next1, cs))
          /\ work' = [work EXCEPT !.pc = "tools", !.todo = cs]
    /\ UNCHANGED reloads

First(cs) == CHOOSE c \in cs : \A d \in cs : c <= d

\* _handle_tool_call of the first call left, and the head after the last.
ToolDone ==
    /\ work.pc = "tools"
    /\ LET c    == First(work.todo)
           left == work.todo \ {c}
           w    == [work EXCEPT !.todo = left] IN
       IF left # {} THEN log' = Put(log, Result(c)) /\ work' = w
       ELSE Prepare(Put(log, Result(c)), w)
    /\ UNCHANGED <<said, reloads>>

\* _stream_assistant_turn: once in the life of a run, an overflow of the
\* model's context compacts and samples again.
Overflow ==
    /\ work.pc = "sample" /\ ~work.retried
    /\ LET spans == Stretches(Messages(log))
           w     == [work EXCEPT !.retried = TRUE] IN
       \/ \E span \in spans : Compacting(log, w, span, "overflow")
       \/ log' = log /\ work' = [Rested EXCEPT !.retried = TRUE]
    /\ UNCHANGED <<said, reloads>>

\* Mutant of Checkpoint: the stretch is counted from the end of the surface
\* as it is after the await.
CheckpointLate(l, w) ==
    Replace(l, w.span[1], Len(l.surface) - Retain, Summary(w.holds))

\* The checkpoint that _compact_region appends.
Checkpoint(l, w) == Replace(l, w.span[1], w.span[2], Summary(w.holds))

\* The loop goes on to sample.
Compacted == [work EXCEPT !.pc = "sample", !.span = <<>>, !.holds = {}, !.omits = {}]

Summarised ==
    /\ work.pc = "compact"
    /\ log' = Checkpoint(log, work)
    /\ work' = Compacted
    /\ said' = [said EXCEPT !.omitted = @ \cup work.omits]
    /\ UNCHANGED reloads

\* No summary, or one that is not shorter: an overflow is raised again.
NotSummarised ==
    /\ work.pc = "compact"
    /\ work' = IF work.why = "overflow" THEN Rested ELSE Compacted
    /\ UNCHANGED <<log, said, reloads>>

\* Cancelled, failed, stalled or out of budget: no results for open calls.
Stop ==
    /\ work.pc \notin {"idle", "rearmed"}
    /\ work' = Rested
    /\ UNCHANGED <<log, said, reloads>>

\* _fill_missing_tool_results: a loop that a watcher drives is not cancelled
\* at its await and answers the calls of the last assistant message.
StopFilled ==
    /\ work.pc = "tools" /\ work.watched
    /\ log' = PutAll(log, Stubs(work.todo))
    /\ work' = Rested
    /\ UNCHANGED <<said, reloads>>

\* The sidecar dies and the run is read back; the call it waited for may be
\* armed again.
Restart ==
    /\ reloads < MaxReload
    /\ reloads' = reloads + 1
    /\ log' = Reloaded
    /\ \/ work' = Idle
       \/ /\ work.pc \in {"tools", "rearmed"}
          /\ work' = [Idle EXCEPT !.pc = "rearmed", !.todo = work.todo]
    /\ UNCHANGED said

\* _watch_wait_and_resume: the result (a wait that records none: nothing),
\* then the loop from its head.
RearmedAnswered ==
    /\ work.pc = "rearmed"
    /\ \E l \in {log, Put(log, Result(First(work.todo)))} :
          Prepare(l, [Idle EXCEPT !.watched = TRUE])
    /\ UNCHANGED <<said, reloads>>

RearmedCancelled ==
    /\ work.pc = "rearmed"
    /\ work' = Idle
    /\ UNCHANGED <<log, said, reloads>>

Next ==
    \/ Continue \/ Resume \/ UserContext
    \/ Answer \/ Nudge \/ AskTools \/ ToolDone \/ Overflow
    \/ Summarised \/ NotSummarised
    \/ Stop \/ StopFilled
    \/ Restart \/ RearmedAnswered \/ RearmedCancelled

Spec == Init /\ [][Next]_vars

\* A log that began without a prompt gets one in front, where its events do
\* not have it: after a reload the properties below are not claimed of it.
Start == \/ reloads = 0 /\ Begun(FALSE)
         \/ reloads = MaxReload /\ Begun(TRUE)

SpecFromStart == Start /\ [][Next]_vars

(***************************************************************************)
(* Properties.                                                             *)
(***************************************************************************)

\* What was said leaves the surface only for a summary that was made of it:
\* it is on the surface, or in the summary that took its place there, or it
\* was left out by one (the fallback lists the last messages of its stretch,
\* and an earlier summary is cut to a length), however compactions, messages
\* that arrive while a summary is awaited, repairs, clones and reloads follow
\* each other.  (compaction.py:79, state.py:100, loop.py:3183)
OnlySummariesOmit == 1..said.msgs \subseteq HeldBy(Messages(log)) \cup said.omitted

\* When the loop samples the model, every tool call on the surface has its
\* result and every result its call, whatever was cut out by a compaction
\* since the repair; and of what a trim leaves for the model, however much
\* it drops, every call still has its result.  (The result of a call that
\* was dropped may be left without it.)  (tool_pairing.py:8, loop.py:3187,
\* llm/context.py:279)
SampledPaired ==
    work.pc = "sample" =>
        LET ms == Messages(log) IN
        /\ Calls(ms) = Answered(ms)
        /\ \A n \in 1..Len(ms) : \A i \in Trimmed(ms, n) : \A c \in ms[i].calls :
              \E j \in Trimmed(ms, n) : ms[j].answers = c

Compacts ==
    /\ work.pc = "compact"
    /\ Len(log'.events) = Len(log.events) + 1
    /\ Last(log'.events).op.kind = "replace"

KeepsTail ==
    LET old == Messages(log)
        new == Messages(log') IN
    /\ new[1] = old[1]
    /\ Len(old) - work.span[2] >= Retain
    /\ SubSeq(new, work.span[1] + 1, Len(new)) = SubSeq(old, work.span[2] + 1, Len(old))

\* A compaction takes neither the system prompt nor any of the last messages
\* that were there when it began or came since.  (tool_pairing.py:35)
TailKept == [][Compacts => KeepsTail]_vars

\* The log that is read back shows the model what the log in memory shows.
\* Violated: the events of a repair are marked as appended, and the messages
\* they replace stay.  (log.py:354)
ReplayIsSurface == Messages(Reloaded) = Messages(log)
=============================================================================
