------------------------- MODULE HostBridge_proofs -------------------------
(***************************************************************************)
(* What the host bridge keeps, for any number of calls, failures and       *)
(* attempts: one command at a time on the host, results that answer their  *)
(* own call, approvals that come from the user, and a prompt that no hung  *)
(* command holds back.                                                     *)
(*                                                                         *)
(* The invariant follows a call through the parts: the log names no call   *)
(* the run has not asked for, and a tool_call only of one that needs no    *)
(* approval or has it (Cleared); what a client has handled is behind it in *)
(* the log; so a job exists only for a cleared call, and the event of the  *)
(* open approval is new to a client that reaches it.                       *)
(***************************************************************************)
EXTENDS HostBridge, TLAPS, SequenceTheorems

\* The run has asked for c, and c needs no approval or has it.
Cleared(c) == c <= sidecar.asked /\ (c \in sidecar.gated => c \in sidecar.approved)

\* The run and the calls it has asked for.
Asking ==
    /\ sidecar.gated \subseteq 1..sidecar.asked
    /\ sidecar.status \in {"waiting_tool", "waiting_approval", "approved", "parked"}
       => sidecar.asked \in Call
    /\ sidecar.status = "approved" => sidecar.asked \in sidecar.approved
    /\ \A c \in sidecar.approved : said[c].yes

\* The log names calls that were asked for, and commands that are cleared.
Logged ==
    \A i \in 1..Len(log) :
        /\ log[i].call <= sidecar.asked
        /\ log[i].type = "tool_call" => Cleared(log[i].call)

\* A run that waits for an approval has asked for it with its last event, and
\* for the first time.
Waiting ==
    sidecar.status = "waiting_approval" =>
        /\ Len(log) >= 1 /\ log[Len(log)] = Ev("approval_needed", sidecar.asked)
        /\ \A i \in 1..(Len(log) - 1) : log[i].call < sidecar.asked

\* A job was queued once, for an event its client has handled; until it is
\* lost it has an attempt left.
Queued ==
    \A j \in Job :
        /\ job[j].pc # "none" => /\ Cleared(j[2])
                                 /\ Ev("tool_call", j[2]) \in client[j[1]].handled
        /\ job[j].pc # "lost" => job[j].left >= 1
        /\ job[j].pc = "none" => job[j].left = Attempts

\* The job on the host is the first in the queue.
HeadRuns == \A j \in Job : job[j].pc = "running" => queue # <<>> /\ Head(queue) = j

Started == \A c \in Call : ran[c] > 0 => Cleared(c)

\* A client is somewhere in the log, or just behind it.
Placed(k) ==
    /\ client[k].cur \in 1..(Len(log) + 1) /\ client[k].lim <= Len(log)
    /\ client[k].last => sidecar.status = "ended"
    /\ client[k].mode = "done" => stopped \/ sidecar.status = "ended"

\* The approval a client asks about is the event it has handled last.
Asks(k) ==
    client[k].at # None =>
        /\ client[k].cur > 1
        /\ log[client[k].cur - 1] = Ev("approval_needed", client[k].at)

\* What a client has handled is behind it in the log.
Behind(k) ==
    client[k].mode # "failed" =>
        \A e \in client[k].handled :
            \E i \in 1..Len(log) : i < client[k].cur /\ log[i] = e

\* A client that has passed the open approval asks about it; the stream may
\* have lost the answer, and then the pull client is there.
Passed(k) ==
    /\ sidecar.status = "waiting_approval" /\ ~stopped
    /\ client[k].mode = "open" /\ (k = "stream" => Pull.mode = "off")
    /\ client[k].cur > Len(log)
    => client[k].at # None

\* The dialog belongs to a client that waits for it; while the stream is alone
\* its dialog is the one that is open.
Shown ==
    /\ dialog # None => client[dialog[1]].at = dialog[2]
    /\ Pull.mode = "off" /\ Stream.at # None => dialog = <<"stream", Stream.at>>
    /\ Stream.mode \notin {"off", "failed"} /\ Pull.mode # "broken"
    /\ Pull.mode = "off" => Pull.cur = 1

Following(k) == Placed(k) /\ Asks(k) /\ Behind(k) /\ Passed(k)

\* The inductive invariant.
IInv ==
    /\ TypeOK
    /\ Asking /\ Logged /\ Waiting /\ ResultsMatch
    /\ Queued /\ HeadRuns /\ Started
    /\ \A k \in Client : Following(k)
    /\ Shown

---------------------------------------------------------------------------
(* Typing. *)

SideRec == [status : {"running", "waiting_tool", "waiting_approval",
                      "approved", "parked", "ended"},
            asked : 0..MaxCall, gated : SUBSET Call, approved : SUBSET Call,
            got : [Call -> SUBSET Call]]
ClientRec == [mode : {"off", "open", "broken", "failed", "done"},
              cur : Nat, lim : Nat, last : BOOLEAN, at : Call \cup {None},
              handled : SUBSET Event, settled : SUBSET Call]
JobRec == [pc : {"none", "queued", "running", "posting", "end", "lost"}, left : 0..Attempts]
SaidRec == [yes : BOOLEAN, last : BOOLEAN \cup {None}]

Typing ==
    /\ log \in Seq(Event) /\ sidecar \in SideRec
    /\ client \in [Client -> ClientRec] /\ dialog \in Job \cup {None}
    /\ queue \in Seq(Job) /\ job \in [Job -> JobRec]
    /\ ran \in [Call -> 0..2] /\ said \in [Call -> SaidRec]
    /\ stopped \in BOOLEAN /\ faults \in 0..MaxFault

LEMMA TypeIs == (TypeOK <=> Typing) /\ (TypeOK' <=> Typing')
BY DEF Typing, TypeOK, SideRec, ClientRec, JobRec, SaidRec

LEMMA Calls == \A c : c \in Call <=> c \in Nat /\ 1 <= c /\ c <= MaxCall
BY BoundAssumption DEF Call

LEMMA EvTyped ==
    ASSUME NEW c \in Call
    PROVE  /\ Ev("approval_needed", c) \in Event /\ Ev("tool_call", c) \in Event
           /\ Ev("tool_timeout", c) \in Event
           /\ \A t : Ev(t, c).type = t /\ Ev(t, c).call = c
BY DEF Ev, Event

\* The event a client is at.
LEMMA AtEvent ==
    ASSUME Typing, NEW k \in Client, Placed(k), MayHandle(k)
    PROVE  /\ client[k].cur \in 1..Len(log) /\ log[client[k].cur] \in Event
           /\ log[client[k].cur].call \in Call /\ client[k].at = None
           /\ client[k] \in ClientRec /\ client[k].cur \in Nat /\ Len(log) \in Nat
<1>1. client[k].cur \in 1..Len(log) /\ client[k].at = None /\ client[k] \in ClientRec
      /\ client[k].cur \in Nat /\ Len(log) \in Nat
  BY DEF Typing, Placed, MayHandle, ClientRec
<1>2. log[client[k].cur] \in Event
  BY <1>1 DEF Typing
<1> QED
  BY <1>1, <1>2 DEF Event

---------------------------------------------------------------------------
(* The run. *)

Run == Asking /\ Logged /\ Waiting /\ ResultsMatch

\* What a step of the run or of one who answers it does to the run, as the
\* clients and the jobs see it.
Goes ==
    /\ \A c \in Call : Cleared(c) => Cleared(c)'
    /\ sidecar.status = "ended" => sidecar'.status = "ended"
    /\ \/ /\ log' = log
          /\ sidecar'.status = "waiting_approval"
             => sidecar.status = "waiting_approval" /\ sidecar'.asked = sidecar.asked
       \/ \E e \in Event : log' = Append(log, e)

RunStep == sidecar' \in SideRec /\ log' \in Seq(Event) /\ Run' /\ Goes

LEMMA LogTyped ==
    ASSUME Typing
    PROVE  /\ Len(log) \in Nat /\ \A i \in 1..Len(log) : log[i] \in Event /\ log[i].call \in Call
           /\ \A e \in Event : /\ Append(log, e) \in Seq(Event)
                               /\ Len(Append(log, e)) = Len(log) + 1
                               /\ \A i \in 1..Len(log) : Append(log, e)[i] = log[i]
                               /\ Append(log, e)[Len(log) + 1] = e
<1>1. Len(log) \in Nat /\ \A i \in 1..Len(log) : log[i] \in Event
  BY DEF Typing
<1>2. \A i \in 1..Len(log) : log[i].call \in Call
  BY <1>1 DEF Event
<1>3. \A e \in Event : /\ Append(log, e) \in Seq(Event)
                       /\ Len(Append(log, e)) = Len(log) + 1
                       /\ \A i \in 1..Len(log) : Append(log, e)[i] = log[i]
                       /\ Append(log, e)[Len(log) + 1] = e
  BY DEF Typing
<1> QED
  BY <1>1, <1>2, <1>3

\* Nothing changes for the run; what the user said is not unsaid.
LEMMA RunKept ==
    ASSUME Typing, Run, UNCHANGED <<sidecar, log>>,
           \A c \in Call : said[c].yes => said'[c].yes
    PROVE  RunStep
<1>1. sidecar.approved \subseteq Call
  BY DEF Typing, SideRec
<1> QED
  BY <1>1 DEF Typing, Run, RunStep, Goes, Asking, Logged, Waiting, ResultsMatch, Cleared

\* The run goes on without a new event, or ends.
LEMMA RunOn ==
    ASSUME Typing, Run, log' = log, NEW s \in SideRec, sidecar' = s,
           s.asked = sidecar.asked, s.gated = sidecar.gated, s.got = sidecar.got,
           sidecar.approved \subseteq s.approved,
           s.approved \subseteq sidecar.approved \cup {sidecar.asked},
           \A c \in s.approved : said'[c].yes,
           sidecar.status = "ended" => s.status = "ended",
           s.status \in {"running", "ended"}
              \/ (s.status = "approved" /\ sidecar.asked \in Call \cap s.approved)
    PROVE  RunStep
<1>1. \A c \in Call : Cleared(c) => Cleared(c)'
  BY DEF Cleared
<1>2. Asking' /\ Waiting' /\ ResultsMatch'
  BY DEF Run, Asking, Waiting, ResultsMatch
<1>3. Logged'
  BY <1>1, LogTyped DEF Run, Logged
<1> QED
  BY <1>1, <1>2, <1>3 DEF RunStep, Run, Goes, Typing

LEMMA DecidedStep ==
    ASSUME Typing, Run, log' = log, NEW c \in Call, NEW yes \in BOOLEAN,
           sidecar' = Decided(c, yes), yes => said'[c].yes,
           \A d \in Call : said[d].yes => said'[d].yes
    PROVE  /\ RunStep
           /\ sidecar.status = "waiting_approval" /\ sidecar.asked = c
              => sidecar'.status # "waiting_approval"
<1>1. CASE ~DecisionAccepted(c)
  BY <1>1, RunKept DEF Decided, DecisionAccepted
<1>2. CASE DecisionAccepted(c)
  <2> DEFINE status == IF yes THEN "approved" ELSE "running"
             approved == IF yes THEN sidecar.approved \cup {sidecar.asked} ELSE sidecar.approved
             s == [sidecar EXCEPT !.status = status, !.approved = approved]
  <2>1. sidecar' = s
    BY <1>2 DEF Decided
  <2>2. approved \subseteq Call /\ sidecar.asked = c
    BY <1>2 DEF Typing, SideRec, DecisionAccepted
  <2>3. /\ s \in SideRec /\ s.status = status /\ s.approved = approved
        /\ s.asked = sidecar.asked /\ s.gated = sidecar.gated /\ s.got = sidecar.got
    BY <2>2 DEF Typing, SideRec
  <2>4. \A d \in approved : said'[d].yes
    BY <2>2 DEF Run, Asking
  <2>5. sidecar.status # "ended"
    BY <1>2 DEF DecisionAccepted
  <2>6. /\ status = "running" \/ (status = "approved" /\ sidecar.asked \in approved)
        /\ sidecar.approved \subseteq approved
        /\ approved \subseteq sidecar.approved \cup {sidecar.asked}
    OBVIOUS
  <2> HIDE DEF s, status, approved
  <2> QED
    BY <2>1, <2>2, <2>3, <2>4, <2>5, <2>6, RunOn
<1> QED
  BY <1>1, <1>2

LEMMA RunEndsStep ==
    ASSUME Typing, Run, RunEnds
    PROVE  RunStep
<1> DEFINE s == [sidecar EXCEPT !.status = "ended"]
<1>1. sidecar' = s /\ UNCHANGED <<log, said>>
  BY DEF RunEnds, host
<1>2. /\ s \in SideRec /\ s.status = "ended" /\ s.approved = sidecar.approved
      /\ s.asked = sidecar.asked /\ s.gated = sidecar.gated /\ s.got = sidecar.got
  BY DEF Typing, SideRec
<1> HIDE DEF s
<1> QED
  BY <1>1, <1>2, RunOn DEF Run, Asking

LEMMA AnsweredStep ==
    ASSUME Typing, Run, UNCHANGED <<log, said>>, NEW c \in Call,
           sidecar' = IF ResultAccepted(c) THEN Answered(c) ELSE sidecar
    PROVE  RunStep
<1>1. CASE ~ResultAccepted(c)
  BY <1>1, RunKept
<1>2. CASE ResultAccepted(c)
  <2>1. sidecar.asked = c /\ sidecar.status = "waiting_tool"
    BY <1>2 DEF ResultAccepted
  <2> DEFINE got == [sidecar.got EXCEPT ![c] = sidecar.got[c] \cup {c}]
             s == [sidecar EXCEPT !.status = "running", !.got = got]
  <2>2. sidecar' = s
    BY <1>2, <2>1 DEF Answered
  <2>3. got \in [Call -> SUBSET Call] /\ \A d \in Call : got[d] \subseteq {d}
    BY DEF Typing, SideRec, Run, ResultsMatch
  <2>4. /\ s \in SideRec /\ s.status = "running" /\ s.approved = sidecar.approved
        /\ s.asked = sidecar.asked /\ s.gated = sidecar.gated /\ s.got = got
    BY <2>3 DEF Typing, SideRec
  <2> HIDE DEF s, got
  <2>5. \A d \in Call : Cleared(d) => Cleared(d)'
    BY <2>2, <2>4 DEF Cleared
  <2>6. Asking' /\ Waiting'
    BY <2>2, <2>4 DEF Run, Asking, Waiting
  <2>7. Logged'
    BY <2>2, <2>4, <2>5, LogTyped DEF Run, Logged
  <2>8. ResultsMatch'
    BY <2>2, <2>3, <2>4 DEF ResultsMatch
  <2> QED
    BY <2>1, <2>2, <2>4, <2>5, <2>6, <2>7, <2>8 DEF RunStep, Run, Goes, Typing
<1> QED
  BY <1>1, <1>2

\* The run writes an event.
LEMMA RunWrites ==
    ASSUME Typing, Run, NEW e \in Event, log' = Append(log, e), UNCHANGED said,
           NEW s \in SideRec, sidecar' = s,
           sidecar.asked <= s.asked, e.call = s.asked,
           \/ s.gated = sidecar.gated
           \/ s.gated = sidecar.gated \cup {s.asked} /\ s.asked = sidecar.asked + 1,
           s.gated # sidecar.gated => s.status = "waiting_approval",
           s.approved = sidecar.approved, s.got = sidecar.got,
           sidecar.status # "ended",
           s.status \in {"waiting_tool", "running", "waiting_approval", "parked"},
           s.status = "waiting_approval" => e.type = "approval_needed"
                                            /\ s.asked = sidecar.asked + 1,
           e.type = "tool_call" => /\ s.gated = sidecar.gated
                                   /\ \/ s.asked = sidecar.asked + 1
                                      \/ Cleared(s.asked)
    PROVE  RunStep
<1>1. s.asked \in Call /\ sidecar.asked \in 0..MaxCall /\ s.gated \subseteq Call
      /\ sidecar.gated \subseteq 1..sidecar.asked
  BY DEF Event, Typing, SideRec, Run, Asking
<1>2. \A c \in Call : Cleared(c) => Cleared(c)'
  BY <1>1, BoundAssumption DEF Cleared, Call
<1>3. Asking'
  BY <1>1, BoundAssumption DEF Run, Asking, Call
<1>4. ResultsMatch'
  BY DEF Run, ResultsMatch
<1>5. \A i \in 1..Len(log) : log'[i] = log[i] /\ log[i].call \in Call /\ log[i].call <= sidecar.asked
  BY LogTyped DEF Run, Logged
<1>6. Len(log') = Len(log) + 1 /\ log'[Len(log) + 1] = e /\ log' \in Seq(Event) /\ Len(log) \in Nat
  BY LogTyped
<1>7. e.type = "tool_call" => Cleared(s.asked)'
  BY <1>1, BoundAssumption DEF Cleared, Call
<1>8. Logged'
  <2> SUFFICES ASSUME NEW i \in 1..(Len(log) + 1), NEW c, c = log'[i].call
               PROVE  /\ c <= s.asked
                      /\ log'[i].type = "tool_call" => Cleared(c)'
    BY <1>6 DEF Logged, Cleared
  <2>1. CASE i \in 1..Len(log)
    <3>1. c \in Call /\ c <= sidecar.asked /\ (log[i].type = "tool_call" => Cleared(c))
      BY <1>5, <2>1 DEF Run, Logged
    <3>2. c <= s.asked
      BY <1>1, <3>1, BoundAssumption DEF Call
    <3> QED
      BY <1>2, <1>5, <2>1, <3>1, <3>2
  <2>2. CASE i = Len(log) + 1
    <3>1. c = s.asked /\ log'[i] = e
      BY <1>6, <2>2
    <3> QED
      BY <1>1, <1>7, <3>1, BoundAssumption DEF Call
  <2> QED
    BY <1>6, <2>1, <2>2
<1>9. Waiting'
  <2> SUFFICES ASSUME s.status = "waiting_approval"
               PROVE  /\ Len(log') >= 1 /\ log'[Len(log')] = Ev("approval_needed", s.asked)
                      /\ \A i \in 1..(Len(log') - 1) : log'[i].call < s.asked
    BY DEF Waiting
  <2>1. e = Ev("approval_needed", s.asked)
    BY DEF Ev, Event
  <2>2. \A i \in 1..Len(log) : log'[i].call < s.asked
    BY <1>1, <1>5, BoundAssumption DEF Call
  <2>3. Len(log') - 1 = Len(log)
    BY <1>6
  <2> QED
    BY <1>6, <2>1, <2>2, <2>3
<1> QED
  BY <1>2, <1>3, <1>4, <1>6, <1>8, <1>9 DEF RunStep, Run, Goes

LEMMA AskApprovalStep ==
    ASSUME Typing, Run, AskApproval
    PROVE  RunStep
<1> DEFINE c == sidecar.asked + 1
           s == [sidecar EXCEPT !.asked = c, !.status = "waiting_approval",
                                !.gated = sidecar.gated \cup {c}]
           e == Ev("approval_needed", c)
<1>1. /\ sidecar' = s /\ log' = Append(log, e) /\ UNCHANGED said
      /\ sidecar.status = "running" /\ sidecar.asked < MaxCall
  BY DEF AskApproval, host
<1>2. sidecar.asked \in 0..MaxCall /\ c \in 0..MaxCall /\ c \in Call /\ sidecar.asked <= c
  BY <1>1, BoundAssumption DEF Typing, SideRec, Call
<1>3. e \in Event /\ e.call = c /\ e.type = "approval_needed"
  BY <1>2, EvTyped
<1>4. /\ s \in SideRec /\ s.asked = c /\ s.status = "waiting_approval"
      /\ s.gated = sidecar.gated \cup {c} /\ s.approved = sidecar.approved
      /\ s.got = sidecar.got
  BY <1>2 DEF Typing, SideRec
<1>5. c = sidecar.asked + 1
  OBVIOUS
<1> HIDE DEF s, e, c
<1> QED
  BY <1>1, <1>2, <1>3, <1>4, <1>5, RunWrites

LEMMA DispatchStep ==
    ASSUME Typing, Run, Dispatch
    PROVE  RunStep
<1> DEFINE c == IF sidecar.status = "approved" THEN sidecar.asked ELSE sidecar.asked + 1
           s == [sidecar EXCEPT !.asked = c, !.status = "waiting_tool"]
           e == Ev("tool_call", c)
<1>1. /\ sidecar' = s /\ log' = Append(log, e) /\ UNCHANGED said
      /\ \/ sidecar.status = "running" /\ sidecar.asked < MaxCall
         \/ sidecar.status = "approved"
  BY DEF Dispatch, host
<1>2. /\ sidecar.asked \in 0..MaxCall /\ c \in 0..MaxCall /\ c \in Call /\ sidecar.asked <= c
      /\ c = sidecar.asked + 1 \/ Cleared(c)
  <2>1. CASE sidecar.status = "approved"
    BY <2>1, BoundAssumption DEF Typing, SideRec, Run, Asking, Call, Cleared
  <2>2. CASE sidecar.status = "running" /\ sidecar.asked < MaxCall
    BY <2>2, BoundAssumption DEF Typing, SideRec, Call
  <2> QED
    BY <1>1, <2>1, <2>2
<1>3. e \in Event /\ e.call = c /\ e.type = "tool_call"
  BY <1>2, EvTyped
<1>4. /\ s \in SideRec /\ s.asked = c /\ s.status = "waiting_tool"
      /\ s.gated = sidecar.gated /\ s.approved = sidecar.approved
      /\ s.got = sidecar.got
  BY <1>2 DEF Typing, SideRec
<1> HIDE DEF s, e, c
<1> QED
  BY <1>1, <1>2, <1>3, <1>4, RunWrites

LEMMA ToolTimeoutStep ==
    ASSUME Typing, Run, ToolTimeout
    PROVE  RunStep
<1> DEFINE c == sidecar.asked
           status == IF sidecar.status = "waiting_tool" THEN "running" ELSE "parked"
           s == [sidecar EXCEPT !.status = status]
           e == Ev("tool_timeout", c)
<1>1. /\ sidecar' = s /\ log' = Append(log, e) /\ UNCHANGED said
      /\ sidecar.status \in {"waiting_tool", "waiting_approval"}
  BY DEF ToolTimeout, host
<1>2. c \in Call /\ c \in 0..MaxCall /\ c <= c
  BY <1>1, BoundAssumption DEF Typing, SideRec, Run, Asking, Call
<1>3. e \in Event /\ e.call = c /\ e.type = "tool_timeout"
  BY <1>2, EvTyped
<1>4. /\ s \in SideRec /\ s.asked = c /\ s.status = status
      /\ s.gated = sidecar.gated /\ s.approved = sidecar.approved
      /\ s.got = sidecar.got
  BY <1>2 DEF Typing, SideRec
<1>5. status \in {"running", "parked"} /\ c = sidecar.asked
  OBVIOUS
<1> HIDE DEF s, e, c, status
<1> QED
  BY <1>1, <1>2, <1>3, <1>4, <1>5, RunWrites

---------------------------------------------------------------------------
(* The jobs. *)

Jobs == Queued /\ HeadRuns /\ Started

LEMMA JobOf == \A j \in Job : j[1] \in Client /\ j[2] \in Call /\ j = <<j[1], j[2]>>
BY DEF Job

LEMMA JobsKept ==
    ASSUME Typing, Jobs, Goes, UNCHANGED <<queue, job, ran>>,
           \A k \in Client : client[k].handled \subseteq client'[k].handled
    PROVE  Jobs'
<1>1. Queued'
  BY JobOf DEF Jobs, Queued, Goes
<1>2. HeadRuns' /\ Started'
  BY DEF Jobs, HeadRuns, Started, Goes
<1> QED
  BY <1>1, <1>2 DEF Jobs

\* One job changes, the run does not, and a client handles what it did.
LEMMA JobMoves ==
    ASSUME Typing, Jobs, Goes, NEW j \in Job, NEW x \in JobRec,
           job' = [job EXCEPT ![j] = x],
           \A k \in Client : client[k].handled \subseteq client'[k].handled,
           x.pc # "none", Cleared(j[2]),
           Ev("tool_call", j[2]) \in client'[j[1]].handled,
           x.pc # "lost" => x.left >= 1
    PROVE  Queued' /\ job' \in [Job -> JobRec]
<1>1. job' \in [Job -> JobRec]
  BY DEF Typing
<1>2. ASSUME NEW i \in Job
      PROVE  /\ job'[i].pc # "none" => /\ Cleared(i[2])'
                                       /\ Ev("tool_call", i[2]) \in client'[i[1]].handled
             /\ job'[i].pc # "lost" => job'[i].left >= 1
             /\ job'[i].pc = "none" => job'[i].left = Attempts
  <2>1. CASE i = j
    BY <2>1, JobOf DEF Typing, Goes
  <2>2. CASE i # j
    BY <2>2, JobOf DEF Typing, Goes, Jobs, Queued
  <2> QED
    BY <2>1, <2>2
<1> QED
  BY <1>1, <1>2 DEF Queued

---------------------------------------------------------------------------
(* The clients. *)

Clients == (\A k \in Client : Following(k)) /\ Shown

LEMMA LogGrows ==
    ASSUME Typing, Goes
    PROVE  /\ Len(log) \in Nat /\ Len(log') \in Nat /\ Len(log) <= Len(log')
           /\ \A i \in 1..Len(log) : log'[i] = log[i]
           /\ log' # log => Len(log') = Len(log) + 1
<1>1. CASE log' = log
  BY <1>1, LogTyped
<1>2. CASE \E e \in Event : log' = Append(log, e)
  BY <1>2, LogTyped
<1> QED
  BY <1>1, <1>2 DEF Goes

\* A client that does nothing.
LEMMA FollowingKept ==
    ASSUME Typing, Goes, stopped => stopped', NEW k \in Client, Following(k),
           client'[k].mode = client[k].mode, client'[k].cur = client[k].cur,
           client'[k].lim = client[k].lim, client'[k].last = client[k].last,
           client'[k].at = client[k].at, client'[k].handled = client[k].handled,
           Pull'.mode = "off" => Pull.mode = "off"
    PROVE  Following(k)'
<1>1. client[k] \in ClientRec /\ client[k].cur \in Nat /\ client[k].lim \in Nat
  BY DEF Typing, ClientRec
<1>2. Placed(k)'
  BY <1>1, LogGrows DEF Following, Placed, Goes
<1>3. Asks(k)'
  BY <1>1, LogGrows DEF Following, Asks, Placed
<1>4. Behind(k)'
  BY <1>1, LogGrows DEF Following, Behind, Placed
<1>5. Passed(k)'
  <2>1. CASE log' = log
    BY <2>1 DEF Following, Passed, Goes, Pull
  <2>2. CASE log' # log
    BY <1>1, <2>2, LogGrows DEF Following, Passed, Placed
  <2> QED
    BY <2>1, <2>2
<1> QED
  BY <1>2, <1>3, <1>4, <1>5 DEF Following

\* A client handles the event it is at.
LEMMA FollowingOn ==
    ASSUME Typing, Run, Goes, UNCHANGED <<log, stopped>>, NEW k \in Client, Following(k),
           MayHandle(k),
           client'[k].mode \in {client[k].mode, "failed"},
           client'[k].cur = client[k].cur + 1,
           client'[k].lim = client[k].lim, client'[k].last = client[k].last,
           client'[k].at # None
              => log[client[k].cur] = Ev("approval_needed", client'[k].at),
           client'[k].handled \subseteq client[k].handled \cup {log[client[k].cur]},
           /\ sidecar'.status = "waiting_approval" /\ client[k].cur = Len(log)
           /\ client'[k].mode = "open" /\ (k = "stream" => Pull'.mode = "off")
           /\ log[client[k].cur] = Ev("approval_needed", sidecar.asked)
           => client'[k].at # None
    PROVE  Following(k)'
<1>1. /\ client[k].cur \in 1..Len(log) /\ client[k] \in ClientRec /\ client[k].cur \in Nat
      /\ client[k].lim \in Nat /\ Len(log) \in Nat
  BY AtEvent DEF Following, Typing, ClientRec
<1>2. Placed(k)'
  BY <1>1 DEF Following, Placed, Goes
<1>3. Asks(k)'
  BY <1>1 DEF Asks
<1>4. Behind(k)'
  <2> SUFFICES ASSUME client'[k].mode # "failed", NEW e \in client'[k].handled
               PROVE  \E i \in 1..Len(log) : i < client[k].cur + 1 /\ log[i] = e
    BY DEF Behind
  <2>1. CASE e \in client[k].handled
    BY <1>1, <2>1 DEF Following, Behind
  <2>2. CASE e = log[client[k].cur]
    BY <1>1, <2>2
  <2> QED
    BY <2>1, <2>2
<1>5. Passed(k)'
  <2> SUFFICES ASSUME sidecar'.status = "waiting_approval", client'[k].mode = "open",
                      k = "stream" => Pull'.mode = "off", client'[k].cur > Len(log)
               PROVE  client'[k].at # None
    BY DEF Passed, Pull
  <2>1. client[k].cur = Len(log)
    BY <1>1
  <2>2. sidecar.status = "waiting_approval"
    <3>1. Append(log, log[1]) # log
      BY <1>1, LogTyped
    <3>2. \A e \in Event : Append(log, e) # log
      BY LogTyped
    <3> QED
      BY <3>2 DEF Goes
  <2>3. log[client[k].cur] = Ev("approval_needed", sidecar.asked)
    BY <2>1, <2>2 DEF Run, Waiting
  <2> QED
    BY <2>1, <2>3
<1> QED
  BY <1>2, <1>3, <1>4, <1>5 DEF Following

\* An event that a client has handled before is not the open approval.
LEMMA HandledBefore ==
    ASSUME Typing, Run, NEW k \in Client, Following(k), MayHandle(k),
           client[k].mode # "failed",
           log[client[k].cur] \in client[k].handled,
           sidecar.status = "waiting_approval"
    PROVE  client[k].cur # Len(log)
<1> SUFFICES ASSUME client[k].cur = Len(log) PROVE FALSE
  OBVIOUS
<1>1. client[k].cur \in 1..Len(log) /\ Len(log) \in Nat
  BY AtEvent DEF Following
<1>2. PICK i \in 1..Len(log) : i < client[k].cur /\ log[i] = log[client[k].cur]
  BY DEF Following, Behind
<1>3. i \in 1..(Len(log) - 1)
  BY <1>1, <1>2
<1>4. log[i].call < sidecar.asked /\ log[Len(log)] = Ev("approval_needed", sidecar.asked)
  BY <1>3 DEF Run, Waiting
<1>5. log[i].call = sidecar.asked /\ sidecar.asked \in Nat
  BY <1>2, <1>4 DEF Ev, Typing, SideRec
<1> QED
  BY <1>4, <1>5

\* A client is given its answer: the run has it, or the client no longer
\* counts.
LEMMA FollowingFreed ==
    ASSUME Typing, Run, Goes, log' = log, stopped => stopped', NEW k \in Client, Following(k),
           NEW c \in Call, client[k].at = c,
           client'[k].mode \in {client[k].mode, "failed"},
           client'[k].cur = client[k].cur, client'[k].lim = client[k].lim,
           client'[k].last = client[k].last, client'[k].at = None,
           client'[k].handled = client[k].handled,
           \/ sidecar.status = "waiting_approval" /\ sidecar.asked = c
              => sidecar'.status # "waiting_approval"
           \/ stopped' \/ client'[k].mode = "failed"
           \/ k = "stream" /\ Pull'.mode # "off"
    PROVE  Following(k)'
<1>1. client[k] \in ClientRec /\ client[k].cur \in Nat /\ client[k].lim \in Nat /\ Len(log) \in Nat
  BY DEF Typing, ClientRec
<1>2. Placed(k)' /\ Asks(k)'
  BY <1>1 DEF Following, Placed, Asks, Goes
<1>3. Behind(k)'
  BY DEF Following, Behind
<1>4. Passed(k)'
  <2> SUFFICES ASSUME sidecar'.status = "waiting_approval", ~stopped',
                      client'[k].mode = "open",
                      k = "stream" => Pull'.mode = "off", client[k].cur > Len(log)
               PROVE  FALSE
    BY DEF Passed, Pull
  <2>1. sidecar.status = "waiting_approval"
    <3>1. \A e \in Event : Append(log, e) # log
      BY LogTyped
    <3> QED
      BY <3>1 DEF Goes
  <2>2. client[k].cur - 1 = Len(log)
    BY <1>1 DEF Following, Placed
  <2>3. log[Len(log)] = Ev("approval_needed", c)
    BY <2>2, NoneAssumption DEF Following, Asks
  <2>4. sidecar.asked = c
    BY <2>1, <2>3 DEF Run, Waiting, Ev
  <2> QED
    BY <2>1, <2>4
<1> QED
  BY <1>2, <1>3, <1>4 DEF Following

\* The pull client starts.
LEMMA FollowingOpened ==
    ASSUME Typing, Run, Goes, log' = log, stopped' = stopped, Following("pull"), Shown,
           Pull.mode = "off", client'["pull"] = [Pull EXCEPT !.mode = "open"]
    PROVE  Following("pull")'
<1>1. /\ Pull \in ClientRec /\ Pull.cur \in Nat /\ Pull.lim \in Nat /\ Len(log) \in Nat
      /\ Pull = client["pull"]
  BY DEF Typing, ClientRec, Pull, Client
<1>2. LET x == client'["pull"]
      IN  /\ x.mode = "open" /\ x.cur = Pull.cur /\ x.lim = Pull.lim /\ x.last = Pull.last
          /\ x.at = Pull.at /\ x.handled = Pull.handled
  BY <1>1 DEF ClientRec
<1>3. Placed("pull")' /\ Asks("pull")'
  BY <1>1, <1>2 DEF Following, Placed, Asks, Goes
<1>4. Behind("pull")'
  BY <1>1, <1>2 DEF Following, Behind
<1>5. sidecar'.status = "waiting_approval" => Len(log) >= 1
  <2>1. \A e \in Event : Append(log, e) # log
    BY LogTyped
  <2> QED
    BY <2>1 DEF Goes, Run, Waiting
<1>6. Passed("pull")'
  BY <1>1, <1>2, <1>5 DEF Passed, Shown
<1> QED
  BY <1>3, <1>4, <1>6 DEF Following

LEMMA FellBack ==
    ASSUME NEW cl \in [Client -> ClientRec]
    PROVE  /\ FallBack(cl) \in [Client -> ClientRec]
           /\ FallBack(cl)["stream"] = cl["stream"]
           /\ \/ FallBack(cl)["pull"] = cl["pull"] /\ (cl["pull"].mode # "off" \/ stopped)
              \/ /\ FallBack(cl)["pull"] = [cl["pull"] EXCEPT !.mode = "open"]
                 /\ cl["pull"].mode = "off"
                 /\ FallBack(cl)["pull"].mode = "open"
BY DEF FallBack, Client, ClientRec

\* A step of the host that leaves the run's log and the jobs alone: what is
\* left to show of it.
LEMMA ClientStep ==
    ASSUME IInv, RunStep, UNCHANGED <<queue, job, ran>>,
           Clients', client' \in [Client -> ClientRec], dialog' \in Job \cup {None},
           said' \in [Call -> SaidRec], stopped' \in BOOLEAN, faults' \in 0..MaxFault,
           \A k \in Client : client[k].handled \subseteq client'[k].handled
    PROVE  IInv'
<1>1. Typing /\ Jobs
  BY TypeIs DEF IInv, Jobs
<1>2. Jobs'
  BY <1>1, JobsKept DEF RunStep
<1>3. Typing'
  BY <1>1 DEF RunStep, Typing
<1> QED
  BY <1>2, <1>3, TypeIs DEF IInv, Jobs, Clients, RunStep, Run

LEMMA InvIs ==
    ASSUME IInv
    PROVE  /\ Typing /\ Run /\ Jobs /\ Clients
           /\ sidecar \in SideRec /\ client \in [Client -> ClientRec]
           /\ dialog \in Job \cup {None} /\ said \in [Call -> SaidRec]
           /\ stopped \in BOOLEAN /\ faults \in 0..MaxFault
           /\ \A k \in Client : Following(k) /\ client[k] \in ClientRec
           /\ UNCHANGED <<sidecar, log, said>> => RunStep
           /\ Shown /\ queue \in Seq(Job) /\ job \in [Job -> JobRec]
<1>1. Typing /\ Run /\ Jobs /\ Clients
  BY TypeIs DEF IInv, Run, Jobs, Clients
<1>2. UNCHANGED <<sidecar, log, said>> => RunStep
  BY <1>1, RunKept
<1> QED
  BY <1>1, <1>2 DEF Typing, Clients

LEMMA Faulty == ASSUME IInv, Fault PROVE faults' \in 0..MaxFault
BY InvIs, BoundAssumption DEF Fault

LEMMA RunActs ==
    ASSUME IInv, AskApproval \/ Dispatch \/ ToolTimeout \/ RunEnds
    PROVE  IInv'
<1>1. RunStep /\ UNCHANGED host
  BY InvIs, AskApprovalStep, DispatchStep, ToolTimeoutStep, RunEndsStep
     DEF AskApproval, Dispatch, ToolTimeout, RunEnds
<1>2. UNCHANGED <<client, dialog, queue, job, ran, said, stopped, faults>>
  BY <1>1 DEF host
<1>3. \A k \in Client : Following(k)'
  BY <1>1, <1>2, InvIs, FollowingKept DEF RunStep, Pull
<1>4. Shown'
  BY <1>2, InvIs DEF Shown, Pull, Stream
<1> QED
  BY <1>1, <1>2, <1>3, <1>4, InvIs, ClientStep DEF Clients

---------------------------------------------------------------------------
(* What the clients do. *)

LEMMA HandleApprovalKeeps ==
    ASSUME IInv, NEW k \in Client, HandleApproval(k)
    PROVE  IInv'
<1> DEFINE e == log[client[k].cur]
<1>1. /\ MayHandle(k) /\ e.type = "approval_needed" /\ RunStep /\ Goes
      /\ UNCHANGED <<log, sidecar, queue, job, ran, said, stopped, faults>>
  BY InvIs DEF HandleApproval, HandlesNow, RunStep
<1>2. /\ client[k].cur \in 1..Len(log) /\ e \in Event /\ e.call \in Call /\ client[k].at = None
      /\ client[k] \in ClientRec /\ client[k].cur \in Nat /\ Len(log) \in Nat
      /\ e.call # None /\ e = Ev("approval_needed", e.call)
  <2>1. \A c : c \in Call => c # None
    BY NoneAssumption
  <2>2. e \in Event /\ e.call \in Call
    BY <1>1, AtEvent, InvIs DEF Following
  <2>3. e = Ev("approval_needed", e.call)
    BY <1>1, <2>2 DEF Ev, Event
  <2> QED
    BY <1>1, <2>1, <2>2, <2>3, AtEvent, InvIs DEF Following
<1>3. client[k].mode # "failed" /\ client[k].mode # "off"
  BY <1>1, InvIs DEF MayHandle, Stream, Pull, Client, Shown
<1>4. CASE e \in client[k].handled
  <2> DEFINE x == [client[k] EXCEPT !.cur = client[k].cur + 1]
  <2>1. client' = [client EXCEPT ![k] = x] /\ dialog' = dialog
    BY <1>1, <1>4 DEF HandleApproval
  <2>2. /\ x \in ClientRec /\ x.mode = client[k].mode /\ x.cur = client[k].cur + 1
        /\ x.lim = client[k].lim /\ x.last = client[k].last /\ x.at = client[k].at
        /\ x.handled = client[k].handled
    BY <1>2 DEF ClientRec
  <2> HIDE DEF x, e
  <2>3. /\ client' \in [Client -> ClientRec] /\ client'[k] = x
        /\ \A l \in Client : l # k => client'[l] = client[l]
        /\ \A l \in Client : client[l].handled \subseteq client'[l].handled
    BY <2>1, <2>2, InvIs
  <2>4. Following(k)'
    BY <1>1, <1>2, <1>3, <1>4, <2>2, <2>3, FollowingOn, HandledBefore, InvIs DEF e
  <2>5. Pull'.mode = "off" => Pull.mode = "off"
    BY <2>2, <2>3 DEF Pull, Client
  <2>6. \A l \in Client : l # k => Following(l)'
    BY <1>1, <2>3, <2>5, FollowingKept, InvIs
  <2>7. Shown'
    BY <1>2, <1>3, <2>1, <2>2, <2>3, InvIs, NoneAssumption DEF Shown, Pull, Stream, Client, Job
  <2> QED
    BY <1>1, <2>1, <2>3, <2>4, <2>6, <2>7, ClientStep, InvIs DEF Clients
<1>5. CASE e \notin client[k].handled
  <2> DEFINE x == [client[k] EXCEPT !.cur = client[k].cur + 1, !.at = e.call,
                                    !.handled = client[k].handled \cup {e}]
  <2>1. client' = [client EXCEPT ![k] = x] /\ dialog' = <<k, e.call>>
    BY <1>1, <1>5 DEF HandleApproval
  <2>2. /\ x \in ClientRec /\ x.mode = client[k].mode /\ x.cur = client[k].cur + 1
        /\ x.lim = client[k].lim /\ x.last = client[k].last /\ x.at = e.call
        /\ x.handled = client[k].handled \cup {e}
    <3> DEFINE h == client[k].handled \cup {e}
    <3>1. x = [client[k] EXCEPT !.cur = client[k].cur + 1, !.at = e.call, !.handled = h]
      OBVIOUS
    <3>2. h \in SUBSET Event /\ client[k].cur + 1 \in Nat /\ e.call \in Call \cup {None}
      BY <1>2 DEF ClientRec
    <3> HIDE DEF x, e, h
    <3>3. /\ x \in ClientRec /\ x.mode = client[k].mode /\ x.cur = client[k].cur + 1
          /\ x.lim = client[k].lim /\ x.last = client[k].last /\ x.at = e.call
          /\ x.handled = h
      BY <1>2, <3>1, <3>2 DEF ClientRec
    <3> QED
      BY <3>3 DEF h
  <2> HIDE DEF x, e
  <2>3. /\ client' \in [Client -> ClientRec] /\ client'[k] = x
        /\ \A l \in Client : l # k => client'[l] = client[l]
        /\ \A l \in Client : client[l].handled \subseteq client'[l].handled
    BY <2>1, <2>2, InvIs
  <2>4. Following(k)'
    BY <1>1, <1>2, <2>2, <2>3, FollowingOn, InvIs DEF e
  <2>5. Pull'.mode = "off" => Pull.mode = "off"
    BY <2>2, <2>3 DEF Pull, Client
  <2>6. \A l \in Client : l # k => Following(l)'
    BY <1>1, <2>3, <2>5, FollowingKept, InvIs
  <2>7. dialog' \in Job /\ dialog'[1] = k /\ dialog'[2] = e.call
    BY <1>2, <2>1 DEF Job
  <2>8. Shown'
    BY <1>2, <1>3, <2>1, <2>2, <2>3, <2>7, InvIs DEF Shown, Pull, Stream, Client
  <2> QED
    BY <1>1, <2>1, <2>3, <2>4, <2>6, <2>7, <2>8, ClientStep, InvIs DEF Clients
<1> QED
  BY <1>4, <1>5

\* The stream's promise is rejected.
LEMMA PullTakesOver ==
    ASSUME IInv, Goes, log' = log, stopped' = stopped,
           NEW cl \in [Client -> ClientRec], cl["pull"] = Pull, client' = FallBack(cl)
    PROVE  /\ client' \in [Client -> ClientRec] /\ client'["stream"] = cl["stream"]
           /\ Following("pull")' /\ Pull'.at = Pull.at /\ Pull'.handled = Pull.handled
           /\ Pull'.mode = "off" => stopped /\ Pull.mode = "off" /\ Pull' = Pull
           /\ Pull'.mode \in {Pull.mode, "open"}
<1>1. "pull" \in Client /\ Pull \in ClientRec /\ Following("pull") /\ Pull = client["pull"]
  BY InvIs DEF Client, Pull
<1>2. CASE client'["pull"] = Pull /\ (Pull.mode # "off" \/ stopped)
  BY <1>1, <1>2, InvIs, FellBack, FollowingKept DEF Pull
<1>3. CASE client'["pull"] = [Pull EXCEPT !.mode = "open"] /\ Pull.mode = "off"
  BY <1>1, <1>3, InvIs, FellBack, FollowingOpened DEF Pull, ClientRec
<1> QED
  BY <1>2, <1>3, FellBack

LEMMA HandleElsewhereKeeps ==
    ASSUME IInv, NEW k \in Client, HandleElsewhere(k)
    PROVE  IInv'
<1> DEFINE e == log[client[k].cur]
           x == [client[k] EXCEPT !.cur = client[k].cur + 1,
                                  !.handled = client[k].handled \cup {e}]
           cl == [client EXCEPT ![k].cur = client[k].cur + 1,
                                ![k].handled = client[k].handled \cup {e}]
<1>1. /\ MayHandle(k) /\ e.type = "approval_needed"
      /\ UNCHANGED <<log, dialog, queue, job, ran, said, stopped>>
  BY DEF HandleElsewhere, HandlesNow
<1>2. /\ client[k].cur \in 1..Len(log) /\ e \in Event /\ e.call \in Call /\ client[k].at = None
      /\ client[k] \in ClientRec /\ client[k].cur \in Nat
  BY <1>1, AtEvent, InvIs DEF Following
<1>3. \/ sidecar' = Decided(e.call, FALSE) /\ client' = cl /\ UNCHANGED faults
      \/ Fault /\ sidecar' \in {sidecar, Decided(e.call, FALSE)} /\ client' = Threw(cl, k)
  BY DEF HandleElsewhere
<1>4. /\ x \in ClientRec /\ x.mode = client[k].mode /\ x.cur = client[k].cur + 1
      /\ x.lim = client[k].lim /\ x.last = client[k].last /\ x.at = None
      /\ x.handled = client[k].handled \cup {e}
  <2> DEFINE h == client[k].handled \cup {e}
  <2>1. x = [client[k] EXCEPT !.cur = client[k].cur + 1, !.handled = h]
    OBVIOUS
  <2>2. h \in SUBSET Event /\ client[k].cur + 1 \in Nat
    BY <1>2 DEF ClientRec
  <2> HIDE DEF x, e, h
  <2>3. /\ x \in ClientRec /\ x.mode = client[k].mode /\ x.cur = client[k].cur + 1
        /\ x.lim = client[k].lim /\ x.last = client[k].last /\ x.at = client[k].at
        /\ x.handled = h
    BY <1>2, <2>1, <2>2 DEF ClientRec
  <2> QED
    BY <1>2, <2>3 DEF h
<1>5. /\ cl \in [Client -> ClientRec] /\ cl[k] = x /\ \A l \in Client : l # k => cl[l] = client[l]
  <2>1. cl = [client EXCEPT ![k] = x]
    BY InvIs
  <2> HIDE DEF x, cl
  <2> QED
    BY <1>4, <2>1, InvIs
<1>6. client[k].mode # "failed" /\ (k = "stream" => ~stopped) /\ (k = "pull" => Pull.mode = "open")
  BY <1>1, InvIs DEF MayHandle, Stream, Pull, Client, Shown
<1>7. /\ RunStep /\ Goes
      /\ sidecar' = Decided(e.call, FALSE) /\ sidecar.status = "waiting_approval"
         /\ sidecar.asked = e.call => sidecar'.status # "waiting_approval"
  <2>1. CASE sidecar' = sidecar
    <3>1. RunStep
      BY <1>1, <2>1, InvIs
    <3>2. sidecar' = Decided(e.call, FALSE) =>
             (sidecar.status = "waiting_approval" /\ sidecar.asked = e.call
              => sidecar'.status # "waiting_approval")
      BY <1>1, <1>2, InvIs, DecidedStep
    <3> QED
      BY <3>1, <3>2 DEF RunStep
  <2>2. CASE sidecar' = Decided(e.call, FALSE)
    BY <1>1, <1>2, <2>2, InvIs, DecidedStep DEF RunStep
  <2> QED
    BY <1>3, <2>1, <2>2
<1>8. faults' \in 0..MaxFault
  BY <1>3, Faulty, InvIs
<1>9. log[client[k].cur] = Ev("approval_needed", sidecar.asked) => e.call = sidecar.asked
  BY DEF Ev
<1>10. \A j \in Job : j # None
  BY NoneAssumption
<1>11. e = log[client[k].cur]
  OBVIOUS
<1> HIDE DEF e, x, cl
<1>12. CASE sidecar' = Decided(e.call, FALSE) /\ client' = cl
  <2>1. Pull'.mode = "off" => Pull.mode = "off"
    BY <1>4, <1>5, <1>12 DEF Pull, Client
  <2>2. \A l \in Client : l # k => Following(l)'
    BY <1>1, <1>5, <1>7, <1>12, <2>1, FollowingKept, InvIs
  <2>3. sidecar'.status = "waiting_approval" => sidecar.status = "waiting_approval"
    <3>1. \A d \in Event : Append(log, d) # log
      BY LogTyped, InvIs
    <3> QED
      BY <1>1, <1>7, <3>1 DEF Goes
  <2>4. Following(k)'
    BY <1>1, <1>4, <1>5, <1>7, <1>9, <1>11, <1>12, <2>3, FollowingOn, InvIs
  <2>5. Shown'
    BY <1>1, <1>2, <1>4, <1>5, <1>6, <1>12, InvIs, NoneAssumption
       DEF Shown, Pull, Stream, Client, Job
  <2>6. \A l \in Client : client[l].handled \subseteq client'[l].handled
    BY <1>4, <1>5, <1>12
  <2> QED
    BY <1>1, <1>5, <1>7, <1>8, <1>12, <2>2, <2>4, <2>5, <2>6, ClientStep, InvIs DEF Clients
<1>13. CASE k = "stream" /\ client' = FallBack(cl)
  <2>1. /\ client' \in [Client -> ClientRec] /\ client'["stream"] = x
        /\ Following("pull")' /\ Pull'.mode # "off" /\ Pull'.handled = Pull.handled
        /\ Pull'.at = Pull.at /\ Pull'.mode \in {Pull.mode, "open"}
    BY <1>1, <1>5, <1>6, <1>7, <1>13, PullTakesOver DEF Client, Pull
  <2>2. Following("stream")'
    BY <1>1, <1>4, <1>7, <1>11, <1>13, <2>1, FollowingOn, InvIs
  <2>3. Shown'
    BY <1>1, <1>2, <1>4, <1>6, <1>13, <2>1, InvIs, NoneAssumption
       DEF Shown, Pull, Stream, Client, Job
  <2>4. \A l \in Client : client[l].handled \subseteq client'[l].handled /\ Following(l)'
    BY <1>4, <1>13, <2>1, <2>2 DEF Client, Pull
  <2> QED
    BY <1>1, <1>7, <1>8, <2>1, <2>3, <2>4, ClientStep, InvIs DEF Clients
<1>14. CASE k = "pull" /\ client' = [cl EXCEPT !["pull"].mode = "failed"]
  <2>1. /\ client' \in [Client -> ClientRec] /\ client'["stream"] = Stream
        /\ client'["pull"] = [x EXCEPT !.mode = "failed"]
    BY <1>4, <1>5, <1>14 DEF Client, ClientRec, Stream
  <2>2. LET y == client'["pull"]
        IN  /\ y.mode = "failed" /\ y.cur = x.cur /\ y.lim = x.lim /\ y.last = x.last
            /\ y.at = None /\ y.handled = x.handled
    BY <1>4, <2>1 DEF ClientRec
  <2>3. Following("pull")'
    BY <1>1, <1>4, <1>7, <1>11, <1>14, <2>2, FollowingOn, InvIs
  <2>4. Following("stream")'
    BY <1>1, <1>7, <2>1, <2>2, FollowingKept, InvIs DEF Client, Pull, Stream
  <2>5. Shown'
    BY <1>1, <1>2, <1>14, <2>1, <2>2, InvIs, NoneAssumption DEF Shown, Pull, Stream, Client, Job
  <2>6. \A l \in Client : client[l].handled \subseteq client'[l].handled /\ Following(l)'
    BY <1>4, <1>14, <2>1, <2>2, <2>3, <2>4 DEF Client, Stream
  <2> QED
    BY <1>1, <1>7, <1>8, <2>1, <2>5, <2>6, ClientStep, InvIs DEF Clients
<1> QED
  BY <1>3, <1>12, <1>13, <1>14 DEF Threw, Client

\* What is left to show when jobs or the queue change as well.
LEMMA Assembled ==
    ASSUME IInv, RunStep, Jobs', Clients', queue' \in Seq(Job), job' \in [Job -> JobRec],
           ran' \in [Call -> 0..2], client' \in [Client -> ClientRec],
           dialog' \in Job \cup {None}, said' \in [Call -> SaidRec],
           stopped' \in BOOLEAN, faults' \in 0..MaxFault
    PROVE  IInv'
<1>1. Typing'
  BY DEF RunStep, Typing
<1> QED
  BY <1>1, TypeIs DEF IInv, Jobs, Clients, RunStep, Run

LEMMA HandleToolCallKeeps ==
    ASSUME IInv, NEW k \in Client, HandleToolCall(k)
    PROVE  IInv'
<1> DEFINE e == log[client[k].cur]
           h == client[k].handled \cup {e}
           x == [client[k] EXCEPT !.cur = client[k].cur + 1, !.handled = h]
           j == <<k, e.call>>
<1>1. /\ MayHandle(k) /\ e.type = "tool_call" /\ client' = [client EXCEPT ![k] = x]
      /\ UNCHANGED <<log, sidecar, dialog, ran, said, stopped, faults>>
  BY InvIs DEF HandleToolCall, HandlesNow
<1>2. /\ client[k].cur \in 1..Len(log) /\ e \in Event /\ e.call \in Call /\ client[k].at = None
      /\ client[k] \in ClientRec /\ client[k].cur \in Nat /\ Len(log) \in Nat
  BY <1>1, AtEvent, InvIs DEF Following
<1>3. e = Ev("tool_call", e.call) /\ \A c : Ev("approval_needed", c) # e
  BY <1>1, <1>2 DEF Ev, Event
<1>4. IF e \in client[k].handled THEN UNCHANGED <<queue, job>>
      ELSE /\ queue' = Append(queue, j)
           /\ job' = [job EXCEPT ![j].pc = "queued"]
  BY DEF HandleToolCall
<1>5. j \in Job /\ j[1] = k /\ j[2] = e.call /\ Cleared(e.call)
  BY <1>1, <1>2, InvIs DEF Job, Run, Logged
<1>6. h \in SUBSET Event /\ client[k].cur + 1 \in Nat
  BY <1>2 DEF ClientRec
<1>7. client[k].handled \subseteq h /\ e \in h
      /\ h \subseteq client[k].handled \cup {log[client[k].cur]} /\ e = log[client[k].cur]
  OBVIOUS
<1> HIDE DEF e, h, j
<1>8. /\ x \in ClientRec /\ x.mode = client[k].mode /\ x.cur = client[k].cur + 1
      /\ x.lim = client[k].lim /\ x.last = client[k].last /\ x.at = client[k].at
      /\ x.handled = h
  BY <1>2, <1>6 DEF ClientRec
<1> HIDE DEF x
<1>9. /\ client' \in [Client -> ClientRec] /\ client'[k] = x
      /\ \A l \in Client : l # k => client'[l] = client[l]
      /\ \A l \in Client : client[l].handled \subseteq client'[l].handled
  BY <1>1, <1>7, <1>8, InvIs
<1>10. RunStep /\ Goes
  BY <1>1, InvIs DEF RunStep
<1>11. Pull'.mode = "off" => Pull.mode = "off"
  BY <1>8, <1>9 DEF Pull, Client
<1>12. Following(k)'
  BY <1>1, <1>2, <1>3, <1>7, <1>8, <1>9, <1>10, FollowingOn, InvIs
<1>13. \A l \in Client : l # k => Following(l)'
  BY <1>1, <1>9, <1>10, <1>11, FollowingKept, InvIs
<1>14. client[k].mode # "off"
  BY <1>1, InvIs DEF MayHandle, Stream, Pull, Client
<1>15. Shown'
  <2>1. \A l \in Client : client'[l].mode = client[l].mode /\ client'[l].at = client[l].at
    BY <1>8, <1>9
  <2>2. Pull.mode = "off" => Pull' = Pull
    BY <1>9, <1>14 DEF Pull, Client
  <2> QED
    BY <1>1, <2>1, <2>2, JobOf, InvIs DEF Shown, Pull, Stream, Client
<1>16. Jobs' /\ queue' \in Seq(Job) /\ job' \in [Job -> JobRec]
  <2>1. CASE UNCHANGED <<queue, job>>
    BY <1>1, <1>9, <1>10, <2>1, JobsKept, InvIs
  <2>2. CASE /\ e \notin client[k].handled
             /\ queue' = Append(queue, j)
             /\ job' = [job EXCEPT ![j].pc = "queued"]
    <3> DEFINE y == [job[j] EXCEPT !.pc = "queued"]
    <3>1. job[j].pc = "none" /\ job[j].left = Attempts /\ job[j] \in JobRec
      BY <1>3, <1>5, <2>2, InvIs DEF Jobs, Queued
    <3>2. /\ y \in JobRec /\ y.pc = "queued" /\ y.left = Attempts
          /\ job' = [job EXCEPT ![j] = y]
      BY <1>5, <2>2, <3>1, InvIs DEF JobRec
    <3> HIDE DEF y
    <3>3. Queued' /\ job' \in [Job -> JobRec]
      <4>1. Ev("tool_call", j[2]) \in client'[j[1]].handled /\ Cleared(j[2])
        BY <1>3, <1>5, <1>7, <1>8, <1>9
      <4>2. y.pc # "none" /\ y.left >= 1
        BY <3>2, BoundAssumption
      <4> QED
        BY <1>5, <1>9, <1>10, <3>2, <4>1, <4>2, JobMoves, InvIs
    <3>4. queue' \in Seq(Job) /\ queue' # <<>> /\ (queue # <<>> => Head(queue') = Head(queue))
      BY <1>5, <2>2, InvIs
    <3>5. HeadRuns'
      BY <1>5, <3>2, <3>4, InvIs DEF Jobs, HeadRuns
    <3>6. Started'
      BY <1>1, <1>10, InvIs DEF Jobs, Started, Goes
    <3> QED
      BY <3>3, <3>4, <3>5, <3>6 DEF Jobs
  <2> QED
    BY <1>4, <2>1, <2>2
<1> QED
  BY <1>1, <1>9, <1>10, <1>12, <1>13, <1>15, <1>16, Assembled, InvIs DEF Clients, Typing

LEMMA HandleToolTimeoutKeeps ==
    ASSUME IInv, NEW k \in Client, HandleToolTimeout(k)
    PROVE  IInv'
<1> DEFINE e == log[client[k].cur]
           q == client[k].settled \cup {e.call}
           x == [client[k] EXCEPT !.cur = client[k].cur + 1, !.settled = q]
<1>1. /\ MayHandle(k) /\ e.type = "tool_timeout" /\ client' = [client EXCEPT ![k] = x]
      /\ UNCHANGED <<log, sidecar, dialog, queue, job, ran, said, stopped, faults>>
  BY InvIs DEF HandleToolTimeout, HandlesNow
<1>2. /\ client[k].cur \in 1..Len(log) /\ e \in Event /\ e.call \in Call /\ client[k].at = None
      /\ client[k] \in ClientRec /\ client[k].cur \in Nat /\ Len(log) \in Nat
  BY <1>1, AtEvent, InvIs DEF Following
<1>3. (\A c : Ev("approval_needed", c) # e) /\ e = log[client[k].cur]
  BY <1>1 DEF Ev
<1>4. q \in SUBSET Call /\ client[k].cur + 1 \in Nat
  BY <1>2 DEF ClientRec
<1> HIDE DEF e, q
<1>5. /\ x \in ClientRec /\ x.mode = client[k].mode /\ x.cur = client[k].cur + 1
      /\ x.lim = client[k].lim /\ x.last = client[k].last /\ x.at = client[k].at
      /\ x.handled = client[k].handled
  BY <1>2, <1>4 DEF ClientRec
<1> HIDE DEF x
<1>6. /\ client' \in [Client -> ClientRec] /\ client'[k] = x
      /\ \A l \in Client : l # k => client'[l] = client[l]
      /\ \A l \in Client : client[l].handled \subseteq client'[l].handled
  BY <1>1, <1>5, InvIs
<1>7. RunStep /\ Goes
  BY <1>1, InvIs DEF RunStep
<1>8. Pull'.mode = "off" => Pull.mode = "off"
  BY <1>5, <1>6 DEF Pull, Client
<1>9. Following(k)'
  BY <1>1, <1>2, <1>3, <1>5, <1>6, <1>7, FollowingOn, InvIs
<1>10. \A l \in Client : l # k => Following(l)'
  BY <1>1, <1>6, <1>7, <1>8, FollowingKept, InvIs
<1>11. client[k].mode # "off"
  BY <1>1, InvIs DEF MayHandle, Stream, Pull, Client
<1>12. Shown'
  <2>1. \A l \in Client : client'[l].mode = client[l].mode /\ client'[l].at = client[l].at
    BY <1>5, <1>6
  <2>2. Pull.mode = "off" => Pull' = Pull
    BY <1>6, <1>11 DEF Pull, Client
  <2> QED
    BY <1>1, <2>1, <2>2, JobOf, InvIs DEF Shown, Pull, Stream, Client
<1> QED
  BY <1>1, <1>6, <1>7, <1>9, <1>10, <1>12, ClientStep, InvIs DEF Clients

---------------------------------------------------------------------------
(* How the clients end. *)

\* A client stays where it is in the log; its mode, or the end of its batch,
\* changes.
LEMMA FollowingStays ==
    ASSUME Typing, UNCHANGED <<log, sidecar, stopped>>, NEW k \in Client, Following(k),
           client'[k].cur = client[k].cur, client'[k].at = client[k].at,
           client'[k].handled = client[k].handled, client'[k].lim <= Len(log),
           client'[k].last => sidecar.status = "ended",
           client'[k].mode = "done" => stopped \/ sidecar.status = "ended",
           client'[k].mode = client[k].mode
              \/ (client[k].mode # "failed" /\ client'[k].mode \in {"broken", "done"}),
           Pull'.mode = "off" => Pull.mode = "off"
    PROVE  Following(k)'
<1>1. Placed(k)' /\ Asks(k)'
  BY DEF Following, Placed, Asks
<1>2. Behind(k)'
  BY DEF Following, Behind
<1>3. Passed(k)'
  BY DEF Following, Passed, Pull
<1> QED
  BY <1>1, <1>2, <1>3 DEF Following

LEMMA PullBatchKeeps ==
    ASSUME IInv, PullBatch
    PROVE  IInv'
<1> DEFINE last == sidecar.status = "ended"
           x == [Pull EXCEPT !.lim = Len(log), !.last = last]
<1>1. /\ Pull.mode = "open"
      /\ UNCHANGED <<log, sidecar, dialog, queue, job, ran, said, stopped, faults>>
  BY DEF PullBatch
<1>2. client' = [client EXCEPT !["pull"].lim = Len(log), !["pull"].last = last]
  BY DEF PullBatch
<1>3. Pull = client["pull"] /\ Pull \in ClientRec /\ "pull" \in Client /\ Len(log) \in Nat
      /\ last \in BOOLEAN
  BY InvIs DEF Pull, Client, Typing
<1>4. client' = [client EXCEPT !["pull"] = x]
  BY <1>2, <1>3, InvIs
<1>5. last => sidecar.status = "ended"
  OBVIOUS
<1> HIDE DEF last
<1>6. /\ x \in ClientRec /\ x.mode = Pull.mode /\ x.cur = Pull.cur
      /\ x.lim = Len(log) /\ x.last = last /\ x.at = Pull.at /\ x.handled = Pull.handled
  BY <1>3 DEF ClientRec
<1> HIDE DEF x
<1>7. /\ client' \in [Client -> ClientRec] /\ Pull' = x /\ client'["pull"] = x
      /\ client'["stream"] = client["stream"]
      /\ \A l \in Client : client[l].handled \subseteq client'[l].handled
  BY <1>3, <1>4, <1>6, InvIs DEF Pull, Client
<1>8. RunStep /\ Goes
  BY <1>1, InvIs DEF RunStep
<1>9. Following("pull")'
  BY <1>1, <1>3, <1>5, <1>6, <1>7, FollowingStays, InvIs
<1>10. Following("stream")'
  BY <1>1, <1>6, <1>7, <1>8, FollowingKept, InvIs DEF Client
<1>11. Shown'
  BY <1>1, <1>3, <1>6, <1>7, InvIs, JobOf DEF Shown, Pull, Stream, Client
<1> QED
  BY <1>1, <1>7, <1>8, <1>9, <1>10, <1>11, ClientStep, InvIs DEF Clients, Client

LEMMA ClientDoneKeeps ==
    ASSUME IInv, NEW k \in Client, ClientDone(k)
    PROVE  IInv'
<1> DEFINE x == [client[k] EXCEPT !.mode = "done"]
<1>1. /\ client[k].mode = "open" /\ client[k].at = None
      /\ client' = [client EXCEPT ![k] = x]
      /\ UNCHANGED <<log, sidecar, dialog, queue, job, ran, said, stopped, faults>>
  BY InvIs DEF ClientDone
<1>2. stopped \/ sidecar.status = "ended"
  BY InvIs DEF ClientDone, Following, Placed, Pull, Client
<1>3. /\ x \in ClientRec /\ x.mode = "done" /\ x.cur = client[k].cur
      /\ x.lim = client[k].lim /\ x.last = client[k].last /\ x.at = client[k].at
      /\ x.handled = client[k].handled
  BY InvIs DEF ClientRec
<1> HIDE DEF x
<1>4. /\ client' \in [Client -> ClientRec] /\ client'[k] = x
      /\ \A l \in Client : l # k => client'[l] = client[l]
      /\ \A l \in Client : client[l].handled \subseteq client'[l].handled
  BY <1>1, <1>3, InvIs
<1>5. RunStep /\ Goes
  BY <1>1, InvIs DEF RunStep
<1>6. Pull'.mode = "off" => Pull.mode = "off" /\ Pull' = Pull
  BY <1>3, <1>4 DEF Pull, Client
<1>7. Following(k)'
  BY <1>1, <1>2, <1>3, <1>4, <1>6, FollowingStays, InvIs DEF Following, Placed
<1>8. \A l \in Client : l # k => Following(l)'
  BY <1>1, <1>4, <1>5, <1>6, FollowingKept, InvIs
<1>9. Shown'
  <2>1. \A l \in Client : client'[l].at = client[l].at
    BY <1>3, <1>4
  <2>2. Stream'.mode \notin {"off", "failed"} /\ Pull'.mode # "broken"
    BY <1>3, <1>4, InvIs DEF Shown, Stream, Pull, Client
  <2> QED
    BY <1>1, <1>6, <2>1, <2>2, JobOf, InvIs DEF Shown, Pull, Stream, Client
<1> QED
  BY <1>1, <1>4, <1>5, <1>7, <1>8, <1>9, ClientStep, InvIs DEF Clients

\* The stream is gone; n is the last event that was sent before.
LEMMA StreamGone ==
    ASSUME IInv, NEW n \in (Stream.cur - 1)..Len(log), Stream.mode = "open", ~stopped,
           NEW cl, cl = [client EXCEPT !["stream"].mode = "broken", !["stream"].lim = n],
           client' \in {cl, FallBack(cl)}, Fault,
           UNCHANGED <<log, sidecar, dialog, queue, job, ran, said, stopped>>
    PROVE  IInv'
<1> DEFINE x == [Stream EXCEPT !.mode = "broken", !.lim = n]
<1>1. /\ Stream = client["stream"] /\ Stream \in ClientRec /\ "stream" \in Client
      /\ Pull = client["pull"] /\ "pull" \in Client /\ "pull" # "stream"
  BY InvIs DEF Stream, Pull, Client
<1>2. n \in Nat /\ n <= Len(log)
  <2>1. Stream.cur >= 1 /\ Stream.cur \in Nat /\ Len(log) \in Nat
    BY <1>1, InvIs DEF Following, Placed, ClientRec, Typing
  <2> QED
    BY <2>1
<1>3. cl = [client EXCEPT !["stream"] = x]
  BY <1>1, InvIs
<1>4. /\ x \in ClientRec /\ x.mode = "broken" /\ x.cur = Stream.cur
      /\ x.lim = n /\ x.last = Stream.last /\ x.at = Stream.at /\ x.handled = Stream.handled
  BY <1>1, <1>2 DEF ClientRec
<1> HIDE DEF x
<1>5. cl \in [Client -> ClientRec] /\ cl["stream"] = x /\ cl["pull"] = Pull
  BY <1>1, <1>3, <1>4, InvIs
<1>6. RunStep /\ Goes /\ faults' \in 0..MaxFault
  BY Faulty, InvIs DEF RunStep
<1>7. /\ client' \in [Client -> ClientRec] /\ client'["stream"] = x /\ Following("pull")'
      /\ Pull'.at = Pull.at /\ Pull'.handled = Pull.handled
      /\ Pull'.mode = "off" => Pull.mode = "off" /\ Pull' = Pull
      /\ Pull'.mode \in {Pull.mode, "open"}
  <2>1. CASE client' = cl
    <3>1. Pull' = Pull
      BY <1>5, <2>1 DEF Pull
    <3> QED
      BY <1>1, <1>5, <1>6, <2>1, <3>1, FollowingKept, InvIs
  <2>2. CASE client' = FallBack(cl)
    BY <1>5, <1>6, <2>2, PullTakesOver
  <2> QED
    BY <2>1, <2>2
<1>8. Following("stream")'
  BY <1>1, <1>2, <1>4, <1>7, FollowingStays, InvIs DEF Following, Placed
<1>9. Shown'
  <2>1. Stream' = x
    BY <1>7 DEF Stream
  <2>2. \A l \in Client : client'[l].at = client[l].at
    BY <1>1, <1>4, <1>7 DEF Client, Pull
  <2> QED
    BY <1>4, <1>7, <2>1, <2>2, JobOf, InvIs DEF Shown
<1>10. \A l \in Client : client[l].handled \subseteq client'[l].handled /\ Following(l)'
  BY <1>1, <1>4, <1>7, <1>8 DEF Client, Pull
<1> QED
  BY <1>6, <1>7, <1>9, <1>10, ClientStep, InvIs DEF Clients

LEMMA StreamBreaksKeeps ==
    ASSUME IInv, StreamBreaks \/ StreamCloses
    PROVE  IInv'
BY StreamGone DEF StreamBreaks, StreamCloses

LEMMA PullFailsKeeps ==
    ASSUME IInv, PullFails
    PROVE  IInv'
<1> DEFINE x == [Pull EXCEPT !.mode = "failed", !.cur = 1, !.lim = 0, !.last = FALSE]
<1>1. /\ Pull.at = None /\ Pull.mode = "open"
      /\ UNCHANGED <<log, sidecar, dialog, queue, job, ran, said, stopped, faults>>
      /\ client' = [client EXCEPT !["pull"].mode = "failed", !["pull"].cur = 1,
                                  !["pull"].lim = 0, !["pull"].last = FALSE]
  BY DEF PullFails
<1>2. Pull = client["pull"] /\ Pull \in ClientRec /\ "pull" \in Client
      /\ Stream = client["stream"] /\ "stream" \in Client /\ Len(log) \in Nat
  BY InvIs DEF Pull, Stream, Client, Typing
<1>3. client' = [client EXCEPT !["pull"] = x]
  BY <1>1, <1>2, InvIs
<1>4. /\ x \in ClientRec /\ x.mode = "failed" /\ x.cur = 1 /\ x.lim = 0 /\ ~x.last
      /\ x.at = Pull.at /\ x.handled = Pull.handled
  BY <1>2 DEF ClientRec
<1> HIDE DEF x
<1>5. /\ client' \in [Client -> ClientRec] /\ client'["pull"] = x /\ Pull' = x
      /\ client'["stream"] = client["stream"] /\ Stream' = Stream
  BY <1>2, <1>3, <1>4, InvIs DEF Pull, Stream, Client
<1>6. RunStep /\ Goes
  BY <1>1, InvIs DEF RunStep
<1>7. Following("pull")'
  BY <1>1, <1>2, <1>4, <1>5 DEF Following, Placed, Asks, Behind, Passed
<1>8. Following("stream")'
  BY <1>1, <1>2, <1>4, <1>5, <1>6, FollowingKept, InvIs
<1>9. Shown'
  <2>1. \A l \in Client : client'[l].at = client[l].at
    BY <1>2, <1>4, <1>5 DEF Client
  <2> QED
    BY <1>1, <1>4, <1>5, <2>1, JobOf, InvIs DEF Shown
<1>10. \A l \in Client : client[l].handled \subseteq client'[l].handled /\ Following(l)'
  BY <1>2, <1>4, <1>5, <1>7, <1>8 DEF Client
<1> QED
  BY <1>1, <1>5, <1>6, <1>9, <1>10, ClientStep, InvIs DEF Clients

---------------------------------------------------------------------------
(* What the user does. *)

LEMMA SayTyped ==
    ASSUME NEW was \in SaidRec, NEW yes \in BOOLEAN
    PROVE  /\ Say(was, yes) \in SaidRec
           /\ yes => Say(was, yes).yes
           /\ was.yes => Say(was, yes).yes
BY DEF Say, SaidRec

\* The dialog is answered, and its client goes on.
LEMMA Answers ==
    ASSUME IInv, NEW yes \in BOOLEAN, dialog # None,
           said' = [said EXCEPT ![dialog[2]] = Say(said[dialog[2]], yes)],
           log' = log, sidecar' \in {sidecar, Decided(dialog[2], yes)}
    PROVE  /\ dialog \in Job /\ dialog[1] \in Client /\ dialog[2] \in Call
           /\ client[dialog[1]].at = dialog[2]
           /\ RunStep /\ Goes /\ said' \in [Call -> SaidRec]
           /\ sidecar' = Decided(dialog[2], yes) =>
                (sidecar.status = "waiting_approval" /\ sidecar.asked = dialog[2]
                 => sidecar'.status # "waiting_approval")
<1>1. dialog \in Job /\ dialog[1] \in Client /\ dialog[2] \in Call
      /\ client[dialog[1]].at = dialog[2]
  BY JobOf, InvIs DEF Shown
<1>2. /\ said' \in [Call -> SaidRec]
      /\ \A d \in Call : said[d].yes => said'[d].yes
      /\ yes => said'[dialog[2]].yes
  BY <1>1, SayTyped, InvIs
<1>3. RunStep /\ (sidecar' = Decided(dialog[2], yes) =>
                   (sidecar.status = "waiting_approval" /\ sidecar.asked = dialog[2]
                    => sidecar'.status # "waiting_approval"))
  <2>1. CASE sidecar' = Decided(dialog[2], yes)
    BY <1>1, <1>2, <2>1, DecidedStep, InvIs
  <2>2. CASE sidecar' # Decided(dialog[2], yes)
    BY <1>2, <2>2, RunKept, InvIs
  <2> QED
    BY <2>1, <2>2
<1> QED
  BY <1>1, <1>2, <1>3 DEF RunStep

\* The record of the client that is let go.
LEMMA Freed ==
    ASSUME IInv, NEW k \in Client
    PROVE  LET x == [client[k] EXCEPT !.at = None]
               cl == [client EXCEPT ![k].at = None]
           IN  /\ x \in ClientRec /\ x.mode = client[k].mode /\ x.cur = client[k].cur
               /\ x.lim = client[k].lim /\ x.last = client[k].last /\ x.at = None
               /\ x.handled = client[k].handled
               /\ cl \in [Client -> ClientRec] /\ cl[k] = x
               /\ \A l \in Client : l # k => cl[l] = client[l]
<1> DEFINE x == [client[k] EXCEPT !.at = None]
           cl == [client EXCEPT ![k].at = None]
<1>1. /\ x \in ClientRec /\ x.mode = client[k].mode /\ x.cur = client[k].cur
      /\ x.lim = client[k].lim /\ x.last = client[k].last /\ x.at = None
      /\ x.handled = client[k].handled
  BY InvIs DEF ClientRec
<1>2. cl = [client EXCEPT ![k] = x]
  BY InvIs
<1> HIDE DEF x, cl
<1>3. /\ cl \in [Client -> ClientRec] /\ cl[k] = x
      /\ \A l \in Client : l # k => cl[l] = client[l]
  BY <1>1, <1>2, InvIs
<1> QED
  BY <1>1, <1>3 DEF x, cl

\* The dialog is closed, and its client is let go without a failure.
LEMMA LetGo ==
    ASSUME IInv, RunStep, NEW k \in Client, NEW c \in Call, client[k].at = c,
           dialog # None, dialog[1] = k, dialog' = None, log' = log,
           UNCHANGED <<queue, job, ran, faults>>,
           stopped => stopped', stopped' \in BOOLEAN, said' \in [Call -> SaidRec],
           sidecar.status = "waiting_approval" /\ sidecar.asked = c
              => sidecar'.status # "waiting_approval",
           client' \in [Client -> ClientRec],
           client'[k].mode = client[k].mode, client'[k].cur = client[k].cur,
           client'[k].lim = client[k].lim, client'[k].last = client[k].last,
           client'[k].at = None, client'[k].handled = client[k].handled,
           \A l \in Client : l # k => client'[l] = client[l]
    PROVE  IInv'
<1>1. Goes
  BY DEF RunStep
<1>2. Pull'.mode = Pull.mode /\ Pull'.cur = Pull.cur /\ Stream'.mode = Stream.mode
  BY DEF Pull, Stream, Client
<1>3. Following(k)'
  BY <1>1, FollowingFreed, InvIs
<1>4. \A l \in Client : l # k => Following(l)'
  BY <1>1, <1>2, FollowingKept, InvIs
<1>5. Shown'
  <2>1. Pull'.mode = "off" => Stream'.at = None
    <3>1. CASE k = "stream"
      BY <3>1 DEF Stream
    <3>2. CASE k = "pull"
      <4>1. Pull.at = c /\ c # None /\ Stream' = Stream
        BY <3>2, NoneAssumption DEF Pull, Stream, Client
      <4>2. dialog # <<"stream", Stream.at>>
        BY <3>2
      <4> QED
        BY <1>2, <4>1, <4>2, InvIs DEF Shown
    <3> QED
      BY <3>1, <3>2 DEF Client
  <2> QED
    BY <1>2, <2>1, InvIs DEF Shown
<1>6. \A l \in Client : client[l].handled \subseteq client'[l].handled /\ Following(l)'
  BY <1>3, <1>4
<1>7. Clients' /\ dialog' \in Job \cup {None} /\ faults' \in 0..MaxFault
  BY <1>5, <1>6, InvIs DEF Clients
<1> QED
  BY <1>6, <1>7, ClientStep

LEMMA Closed ==
    ASSUME IInv, NEW yes \in BOOLEAN, dialog # None, dialog' = None,
           said' = [said EXCEPT ![dialog[2]] = Say(said[dialog[2]], yes)],
           sidecar' = Decided(dialog[2], yes),
           client' = [client EXCEPT ![dialog[1]].at = None],
           UNCHANGED <<log, queue, job, ran, faults>>,
           stopped => stopped', stopped' \in BOOLEAN
    PROVE  IInv'
<1>1. /\ dialog[1] \in Client /\ dialog[2] \in Call /\ client[dialog[1]].at = dialog[2]
      /\ RunStep /\ said' \in [Call -> SaidRec]
      /\ sidecar.status = "waiting_approval" /\ sidecar.asked = dialog[2]
         => sidecar'.status # "waiting_approval"
  BY Answers
<1> DEFINE k == dialog[1]
           x == [client[k] EXCEPT !.at = None]
<1>2. /\ x.mode = client[k].mode /\ x.cur = client[k].cur
      /\ x.lim = client[k].lim /\ x.last = client[k].last /\ x.at = None
      /\ x.handled = client[k].handled
      /\ client' \in [Client -> ClientRec] /\ client'[k] = x
      /\ \A l \in Client : l # k => client'[l] = client[l]
  BY <1>1, Freed
<1>3. PICK c : c = dialog[2]
  OBVIOUS
<1>4. k = dialog[1]
  OBVIOUS
<1> HIDE DEF k, x
<1>5. log' = log /\ UNCHANGED <<queue, job, ran, faults>>
  OBVIOUS
<1> QED
  BY <1>1, <1>2, <1>3, <1>4, <1>5, LetGo

LEMMA UserDecidesKeeps ==
    ASSUME IInv, NEW yes \in BOOLEAN, UserDecides(yes)
    PROVE  IInv'
BY Closed, InvIs DEF UserDecides

LEMMA StopKeeps ==
    ASSUME IInv, Stop
    PROVE  IInv'
<1>1. CASE dialog # None
  BY <1>1, Closed DEF Stop
<1>2. CASE dialog = None
  <2>1. RunStep /\ Goes /\ UNCHANGED <<log, sidecar, client, dialog, queue, job, ran, said, faults>>
    BY <1>2, InvIs DEF Stop, RunStep
  <2>2. stopped' = TRUE
    BY DEF Stop
  <2>3. \A l \in Client : Following(l)'
    BY <2>1, <2>2, FollowingKept, InvIs DEF Pull
  <2>4. Shown'
    BY <2>1, InvIs DEF Shown, Pull, Stream
  <2> QED
    BY <2>1, <2>2, <2>3, <2>4, ClientStep, InvIs DEF Clients
<1> QED
  BY <1>1, <1>2

LEMMA DecisionFailsKeeps ==
    ASSUME IInv, NEW yes \in BOOLEAN, DecisionFails(yes)
    PROVE  IInv'
<1> DEFINE k == dialog[1]
           x == [client[k] EXCEPT !.at = None]
           cl == [client EXCEPT ![k].at = None]
<1>1. /\ dialog # None /\ dialog' = None /\ Fault
      /\ said' = [said EXCEPT ![dialog[2]] = Say(said[dialog[2]], yes)]
      /\ sidecar' \in {sidecar, Decided(dialog[2], yes)}
      /\ client' = Threw(cl, k)
      /\ UNCHANGED <<log, queue, job, ran, stopped>>
  BY DEF DecisionFails
<1>2. /\ k \in Client /\ dialog[2] \in Call /\ client[k].at = dialog[2] /\ dialog = <<k, dialog[2]>>
      /\ RunStep /\ Goes /\ said' \in [Call -> SaidRec]
  BY <1>1, Answers, JobOf
<1>3. /\ x \in ClientRec /\ x.mode = client[k].mode /\ x.cur = client[k].cur
      /\ x.lim = client[k].lim /\ x.last = client[k].last /\ x.at = None
      /\ x.handled = client[k].handled
      /\ cl \in [Client -> ClientRec] /\ cl[k] = x
      /\ \A l \in Client : l # k => cl[l] = client[l]
  BY <1>2, Freed
<1> HIDE DEF k, x, cl
<1>4. dialog[2] # None /\ faults' \in 0..MaxFault
  BY <1>1, <1>2, NoneAssumption, Faulty, InvIs
<1>5. CASE k = "stream"
  <2>1. /\ client' \in [Client -> ClientRec] /\ client'["stream"] = x
        /\ Following("pull")' /\ Pull'.handled = Pull.handled /\ Pull'.at = Pull.at
        /\ Pull'.mode = "off" => stopped /\ Pull.mode = "off" /\ Pull' = Pull
        /\ Pull'.mode \in {Pull.mode, "open"}
    BY <1>1, <1>2, <1>3, <1>5, PullTakesOver DEF Client, Pull, Threw
  <2>2. Following("stream")'
    BY <1>1, <1>2, <1>3, <1>5, <2>1, FollowingFreed, InvIs
  <2>3. Shown'
    BY <1>1, <1>3, <1>5, <2>1, InvIs DEF Shown, Stream
  <2>4. \A l \in Client : client[l].handled \subseteq client'[l].handled /\ Following(l)'
    BY <1>3, <1>5, <2>1, <2>2 DEF Client, Pull
  <2> QED
    BY <1>1, <1>2, <1>4, <2>1, <2>3, <2>4, ClientStep, InvIs DEF Clients
<1>6. CASE k = "pull"
  <2>1. /\ client' \in [Client -> ClientRec] /\ client'["stream"] = Stream
        /\ client'["pull"] = [x EXCEPT !.mode = "failed"]
    BY <1>1, <1>3, <1>6 DEF Client, ClientRec, Stream, Threw
  <2>2. LET y == client'["pull"]
        IN  /\ y.mode = "failed" /\ y.cur = x.cur /\ y.lim = x.lim /\ y.last = x.last
            /\ y.at = None /\ y.handled = x.handled
    BY <1>3, <2>1 DEF ClientRec
  <2>3. Following("pull")'
    BY <1>1, <1>2, <1>3, <1>6, <2>2, FollowingFreed, InvIs
  <2>4. Following("stream")'
    BY <1>1, <1>2, <2>1, <2>2, FollowingKept, InvIs DEF Client, Pull, Stream
  <2>5. Shown'
    BY <1>1, <2>1, <2>2, InvIs DEF Shown, Pull, Stream
  <2>6. client["pull"].handled \subseteq client'["pull"].handled
    BY <1>3, <1>6, <2>2
  <2>7. client["stream"].handled \subseteq client'["stream"].handled
    BY <2>1 DEF Stream
  <2>8. \A l \in Client : client[l].handled \subseteq client'[l].handled /\ Following(l)'
    BY <2>3, <2>4, <2>6, <2>7 DEF Client
  <2> QED
    BY <1>1, <1>2, <1>4, <2>1, <2>5, <2>8, ClientStep, InvIs DEF Clients
<1> QED
  BY <1>2, <1>5, <1>6 DEF Client

---------------------------------------------------------------------------
(* What becomes of a job. *)

\* The clients are where they were; the calls they hold settled may change.
LEMMA ClientsKept ==
    ASSUME IInv, RunStep, UNCHANGED <<dialog, stopped>>, client' \in [Client -> ClientRec],
           \A k \in Client :
              /\ client'[k].mode = client[k].mode /\ client'[k].cur = client[k].cur
              /\ client'[k].lim = client[k].lim /\ client'[k].last = client[k].last
              /\ client'[k].at = client[k].at /\ client'[k].handled = client[k].handled
    PROVE  Clients'
<1>1. Goes
  BY DEF RunStep
<1>2. /\ Pull'.mode = Pull.mode /\ Pull'.cur = Pull.cur /\ Stream'.mode = Stream.mode
      /\ Stream'.at = Stream.at
  BY DEF Pull, Stream, Client
<1>3. \A k \in Client : Following(k)'
  BY <1>1, <1>2, FollowingKept, InvIs
<1>4. Shown'
  BY <1>2, JobOf, InvIs DEF Shown
<1> QED
  BY <1>3, <1>4 DEF Clients

LEMMA ChargeTyped == \A n \in 0..2 : Charge(n) \in 0..2
BY DEF Charge

\* A job that is there is that of a cleared call whose event was handled.
LEMMA JobIs ==
    ASSUME IInv, NEW j \in Job, job[j].pc # "none"
    PROVE  /\ j[1] \in Client /\ j[2] \in Call /\ job[j] \in JobRec
           /\ Cleared(j[2]) /\ Ev("tool_call", j[2]) \in client[j[1]].handled
           /\ job[j].pc # "lost" => job[j].left >= 1
BY JobOf, InvIs DEF Jobs, Queued

LEMMA StartJobKeeps ==
    ASSUME IInv, NEW j \in Job, StartJob(j)
    PROVE  IInv'
<1> DEFINE x == [job[j] EXCEPT !.pc = "running"]
           n == Charge(ran[j[2]])
<1>1. /\ job[j].pc = "queued" /\ queue # <<>> /\ Head(queue) = j
      /\ job' = [job EXCEPT ![j] = x] /\ ran' = [ran EXCEPT ![j[2]] = n]
      /\ UNCHANGED <<log, sidecar, client, dialog, queue, said, stopped, faults>>
  BY InvIs DEF StartJob, Turn
<1>2. /\ j[1] \in Client /\ j[2] \in Call /\ job[j] \in JobRec
      /\ Cleared(j[2]) /\ Ev("tool_call", j[2]) \in client[j[1]].handled
      /\ job[j].left >= 1
  BY <1>1, JobIs
<1>3. x \in JobRec /\ x.pc = "running" /\ x.left = job[j].left
  BY <1>2 DEF JobRec
<1>4. ran \in [Call -> 0..2] /\ n \in 0..2
  BY <1>2, ChargeTyped, InvIs DEF Typing
<1> HIDE DEF x, n
<1>5. RunStep /\ Goes /\ Clients'
  BY <1>1, ClientsKept, InvIs DEF RunStep
<1>6. Queued' /\ job' \in [Job -> JobRec]
  BY <1>1, <1>2, <1>3, <1>5, JobMoves, InvIs
<1>7. HeadRuns'
  BY <1>1, <1>3, InvIs DEF Jobs, HeadRuns
<1>8. ran' \in [Call -> 0..2]
  BY <1>1, <1>4
<1>9. Started'
  BY <1>1, <1>2, <1>4, <1>5, InvIs DEF Jobs, Started, Goes
<1>10. Jobs'
  BY <1>6, <1>7, <1>9 DEF Jobs
<1> QED
  BY <1>1, <1>5, <1>6, <1>8, <1>10, Assembled, InvIs

LEMMA SettleKeeps ==
    ASSUME IInv, NEW j \in Job, Settle(j), job[j].pc \in {"queued", "running"},
           queue # <<>>, Head(queue) = j
    PROVE  IInv'
<1> DEFINE k == j[1]
           settled == client[k].settled \cup {j[2]}
           y == [client[k] EXCEPT !.settled = settled]
<1>1. /\ queue' = Tail(queue)
      /\ UNCHANGED <<log, sidecar, dialog, ran, said, stopped, faults>>
      /\ \/ job' = [job EXCEPT ![j].pc = "end"] /\ client' = client
         \/ /\ job' = [job EXCEPT ![j].pc = "posting"]
            /\ client' = [client EXCEPT ![k].settled = settled]
  BY DEF Settle
<1>2. /\ k \in Client /\ j[2] \in Call /\ job[j] \in JobRec
      /\ Cleared(j[2]) /\ Ev("tool_call", j[2]) \in client[k].handled
      /\ job[j].left >= 1
  BY JobIs
<1>3. /\ client' \in [Client -> ClientRec]
      /\ \A l \in Client :
            /\ client'[l].mode = client[l].mode /\ client'[l].cur = client[l].cur
            /\ client'[l].lim = client[l].lim /\ client'[l].last = client[l].last
            /\ client'[l].at = client[l].at /\ client'[l].handled = client[l].handled
  <2>1. CASE client' = client
    BY <2>1, InvIs
  <2>2. CASE client' = [client EXCEPT ![k].settled = settled]
    <3>1. settled \in SUBSET Call /\ client[k] \in ClientRec
      BY <1>2, InvIs DEF ClientRec
    <3>2. client' = [client EXCEPT ![k] = y]
      BY <1>2, <2>2, InvIs
    <3> HIDE DEF settled, k
    <3>3. /\ y \in ClientRec /\ y.mode = client[k].mode /\ y.cur = client[k].cur
          /\ y.lim = client[k].lim /\ y.last = client[k].last /\ y.at = client[k].at
          /\ y.handled = client[k].handled
      BY <3>1 DEF ClientRec
    <3> HIDE DEF y
    <3>4. client' \in [Client -> ClientRec] /\ client'[k] = y
          /\ \A l \in Client : l # k => client'[l] = client[l]
      BY <1>2, <3>2, <3>3, InvIs
    <3> QED
      BY <3>3, <3>4
  <2> QED
    BY <1>1, <2>1, <2>2
<1> HIDE DEF k, settled, y
<1>4. RunStep /\ Goes /\ Clients'
  BY <1>1, <1>3, ClientsKept, InvIs DEF RunStep
<1>5. PICK pc \in {"end", "posting"} : job' = [job EXCEPT ![j].pc = pc]
  BY <1>1
<1> DEFINE x == [job[j] EXCEPT !.pc = pc]
<1>6. job' = [job EXCEPT ![j] = x] /\ x \in JobRec /\ x.pc = pc /\ x.left = job[j].left
  BY <1>2, <1>5, InvIs DEF JobRec
<1> HIDE DEF x
<1>7. Queued' /\ job' \in [Job -> JobRec]
  BY <1>2, <1>3, <1>4, <1>5, <1>6, JobMoves, InvIs DEF k
<1>8. HeadRuns'
  BY <1>5, <1>6, InvIs DEF Jobs, HeadRuns
<1>9. Started'
  BY <1>1, <1>4, InvIs DEF Jobs, Started, Goes
<1>10. Jobs' /\ queue' \in Seq(Job) /\ ran' \in [Call -> 0..2]
  BY <1>1, <1>7, <1>8, <1>9, InvIs DEF Jobs, Typing
<1> QED
  BY <1>1, <1>3, <1>4, <1>7, <1>10, Assembled, InvIs

LEMMA JobEnds ==
    ASSUME IInv, NEW j \in Job, RefuseJob(j) \/ FinishJob(j)
    PROVE  IInv'
<1>1. CASE RefuseJob(j)
  BY <1>1, SettleKeeps DEF RefuseJob, Turn
<1>2. CASE FinishJob(j)
  BY <1>2, SettleKeeps, InvIs DEF FinishJob, Jobs, HeadRuns
<1> QED
  BY <1>1, <1>2

\* A result that is posted, delivered or not, and what becomes of its job.
LEMMA Posted ==
    ASSUME IInv, NEW j \in Job, job[j].pc = "posting", NEW x \in JobRec,
           x.pc \in {"posting", "end", "lost"}, x.pc # "lost" => x.left >= 1,
           job' = [job EXCEPT ![j] = x],
           sidecar' \in {sidecar, IF ResultAccepted(j[2]) THEN Answered(j[2]) ELSE sidecar},
           UNCHANGED <<log, client, dialog, queue, ran, said, stopped>>,
           faults' \in 0..MaxFault
    PROVE  IInv'
<1>1. /\ j[1] \in Client /\ j[2] \in Call
      /\ Cleared(j[2]) /\ Ev("tool_call", j[2]) \in client[j[1]].handled
  BY JobIs
<1>2. RunStep /\ Goes
  <2>1. CASE sidecar' = sidecar
    BY <2>1, InvIs DEF RunStep
  <2>2. CASE sidecar' = IF ResultAccepted(j[2]) THEN Answered(j[2]) ELSE sidecar
    BY <1>1, <2>2, AnsweredStep, InvIs DEF RunStep
  <2> QED
    BY <2>1, <2>2
<1>3. Clients'
  BY <1>2, ClientsKept, InvIs
<1>4. Queued' /\ job' \in [Job -> JobRec]
  BY <1>1, <1>2, JobMoves, InvIs
<1>5. HeadRuns'
  BY InvIs DEF Jobs, HeadRuns
<1>6. Started'
  BY <1>2, InvIs DEF Jobs, Started, Goes
<1>7. Jobs' /\ ran' \in [Call -> 0..2]
  BY <1>4, <1>5, <1>6, InvIs DEF Jobs, Typing
<1> QED
  BY <1>2, <1>3, <1>4, <1>7, Assembled, InvIs

LEMMA PostResultKeeps ==
    ASSUME IInv, NEW j \in Job, PostResult(j)
    PROVE  IInv'
<1> DEFINE x == [job[j] EXCEPT !.pc = "end"]
<1>1. /\ job[j].pc = "posting" /\ job' = [job EXCEPT ![j] = x]
      /\ sidecar' \in {sidecar, IF ResultAccepted(j[2]) THEN Answered(j[2]) ELSE sidecar}
      /\ UNCHANGED <<log, client, dialog, queue, ran, said, stopped>> /\ faults' = faults
  BY InvIs DEF PostResult
<1>2. x \in JobRec /\ x.pc = "end" /\ x.left = job[j].left /\ job[j].left >= 1
  BY <1>1, JobIs DEF JobRec
<1> HIDE DEF x
<1> QED
  BY <1>1, <1>2, Posted, InvIs

LEMMA PostFailsKeeps ==
    ASSUME IInv, NEW j \in Job, PostFails(j)
    PROVE  IInv'
<1> DEFINE pc == IF job[j].left = 1 THEN "lost" ELSE "posting"
           left == job[j].left - 1
           x == [job[j] EXCEPT !.left = left, !.pc = pc]
<1>1. /\ job[j].pc = "posting" /\ job' = [job EXCEPT ![j] = x]
      /\ sidecar' \in {sidecar, IF ResultAccepted(j[2]) THEN Answered(j[2]) ELSE sidecar}
      /\ UNCHANGED <<log, client, dialog, queue, ran, said, stopped>> /\ Fault
  BY InvIs DEF PostFails
<1>2. job[j] \in JobRec /\ job[j].left >= 1 /\ job[j].left \in 0..Attempts
  BY <1>1, JobIs DEF JobRec
<1>3. left \in 0..Attempts /\ pc \in {"posting", "lost"} /\ (pc # "lost" => left >= 1)
  BY <1>2, BoundAssumption
<1> HIDE DEF left, pc
<1>4. x \in JobRec /\ x.pc = pc /\ x.left = left
  BY <1>2, <1>3 DEF JobRec
<1> HIDE DEF x
<1>5. faults' \in 0..MaxFault
  BY <1>1, Faulty
<1> QED
  BY <1>1, <1>3, <1>4, <1>5, Posted

---------------------------------------------------------------------------
(* The theorems. *)

LEMMA InitIInv == Init => IInv
<1> SUFFICES ASSUME Init PROVE IInv
  OBVIOUS
<1>1. NewClient \in ClientRec /\ [NewClient EXCEPT !.mode = "open"] \in ClientRec
  BY DEF NewClient, ClientRec
<1>2. /\ client \in [Client -> ClientRec]
      /\ client["stream"] = [NewClient EXCEPT !.mode = "open"] /\ client["pull"] = NewClient
  BY <1>1 DEF Init, Client
<1>3. \A k \in Client : /\ client[k].cur = 1 /\ client[k].lim = 0 /\ ~client[k].last
                        /\ client[k].at = None /\ client[k].handled = {}
                        /\ client[k].mode \in {"open", "off"}
  BY <1>2 DEF NewClient, Client
<1>4. /\ log = <<>> /\ Len(log) = 0 /\ log \in Seq(Event) /\ queue = <<>> /\ queue \in Seq(Job)
      /\ dialog = None /\ stopped = FALSE
      /\ faults \in 0..MaxFault
  BY BoundAssumption DEF Init
<1>5. /\ sidecar.status = "running" /\ sidecar.asked = 0 /\ sidecar.gated = {}
      /\ sidecar.approved = {} /\ \A c \in Call : sidecar.got[c] = {}
  BY DEF Init
<1>6. sidecar \in SideRec
  BY BoundAssumption DEF Init, SideRec
<1>7. /\ job \in [Job -> JobRec]
      /\ \A j \in Job : job[j].pc = "none" /\ job[j].left = Attempts
  BY BoundAssumption DEF Init, JobRec
<1>8. ran \in [Call -> 0..2] /\ said \in [Call -> SaidRec] /\ \A c \in Call : ran[c] = 0
  BY DEF Init, SaidRec
<1>9. Typing
  BY <1>2, <1>4, <1>6, <1>7, <1>8 DEF Typing
<1>10. Asking /\ Logged /\ Waiting /\ ResultsMatch
  BY <1>4, <1>5 DEF Asking, Logged, Waiting, ResultsMatch
<1>11. Queued /\ HeadRuns /\ Started
  BY <1>7, <1>8, BoundAssumption DEF Queued, HeadRuns, Started
<1>12. \A k \in Client : Following(k)
  BY <1>3, <1>4, <1>5 DEF Following, Placed, Asks, Behind, Passed
<1>13. Shown
  BY <1>2, <1>3, <1>4 DEF Shown, Stream, Pull, NewClient, Client
<1> QED
  BY <1>9, <1>10, <1>11, <1>12, <1>13, TypeIs DEF IInv

LEMMA NextIInv == IInv /\ [Next]_vars => IInv'
<1> SUFFICES ASSUME IInv, [Next]_vars PROVE IInv'
  OBVIOUS
<1>1. CASE UNCHANGED vars
  <2>1. /\ UNCHANGED <<log, sidecar, client, dialog, queue, job, ran, said, stopped, faults>>
    BY <1>1 DEF vars
  <2>2. RunStep /\ Clients'
    BY <2>1, ClientsKept, InvIs
  <2> QED
    BY <2>1, <2>2, ClientStep, InvIs
<1>2. CASE AskApproval \/ Dispatch \/ ToolTimeout \/ RunEnds
  BY <1>2, RunActs
<1>3. ASSUME NEW k \in Client,
             HandleApproval(k) \/ HandleElsewhere(k) \/ HandleToolCall(k)
             \/ HandleToolTimeout(k) \/ ClientDone(k)
      PROVE  IInv'
  BY <1>3, HandleApprovalKeeps, HandleElsewhereKeeps, HandleToolCallKeeps,
     HandleToolTimeoutKeeps, ClientDoneKeeps
<1>4. CASE PullBatch \/ StreamBreaks \/ StreamCloses \/ PullFails \/ Stop
  BY <1>4, PullBatchKeeps, StreamBreaksKeeps, PullFailsKeeps, StopKeeps
<1>5. ASSUME NEW yes \in BOOLEAN, UserDecides(yes) \/ DecisionFails(yes) PROVE IInv'
  BY <1>5, UserDecidesKeeps, DecisionFailsKeeps
<1>6. ASSUME NEW j \in Job,
             StartJob(j) \/ RefuseJob(j) \/ FinishJob(j) \/ PostResult(j) \/ PostFails(j)
      PROVE  IInv'
  BY <1>6, StartJobKeeps, JobEnds, PostResultKeeps, PostFailsKeeps
<1> QED
  BY <1>1, <1>2, <1>3, <1>4, <1>5, <1>6 DEF Next, Rest

LEMMA Inductive == Spec => []IInv
BY InitIInv, NextIInv, PTL DEF Spec

\* The variables keep their types: no call beyond those asked for, no attempt
\* below zero, no client before the first event.
THEOREM TypeCorrect == Spec => []TypeOK
<1>1. IInv => TypeOK
  BY DEF IInv
<1> QED
  BY <1>1, Inductive, PTL

\* Of the jobs that the two clients queue for a session at most one is on the
\* host.
THEOREM OneOnHost == Spec => []OneAtATime
<1>1. IInv => OneAtATime
  BY DEF IInv, HeadRuns, OneAtATime
<1> QED
  BY <1>1, Inductive, PTL

\* A result the run is given for a call is a result of that call.
THEOREM ResultsAreOwn == Spec => []ResultsMatch
<1>1. IInv => ResultsMatch
  BY DEF IInv
<1> QED
  BY <1>1, Inductive, PTL

\* Only the user approves, each command for itself, and a command that needs an
\* approval reaches the host only after a yes to it.  The yes need not be the
\* user's last word (ApprovalRespected does not hold).
THEOREM UserApproves == Spec => []ApprovedByUser
<1>1. IInv => ApprovedByUser
  BY InvIs DEF Run, Asking, Jobs, Started, Cleared, ApprovedByUser, Typing, SideRec
<1> QED
  BY <1>1, Inductive, PTL

\* While the run waits for an approval that nobody sees, a client can go on and
\* show it, whatever hangs on the host.
THEOREM PromptComes == Spec => []PromptNotBlocked
<1>1. IInv => PromptNotBlocked
  <2> SUFFICES ASSUME IInv, sidecar.status = "waiting_approval", dialog = None,
                      ~NotFollowed, ~PullDisplaced, ~CanPull
               PROVE  \E k \in Client : HandlesNow(k)
    BY DEF PromptNotBlocked
  <2>1. /\ ~stopped /\ Pull.mode # "failed"
        /\ Stream.mode # "broken" \/ Pull.mode # "off"
    BY DEF NotFollowed
  <2>2. \A k \in Client : Placed(k) /\ Passed(k) /\ client[k] \in ClientRec
    BY InvIs DEF Following
  <2>3. /\ Pull = client["pull"] /\ Stream = client["stream"]
        /\ "pull" \in Client /\ "stream" \in Client /\ Len(log) \in Nat
    BY InvIs DEF Pull, Stream, Client, Typing
  <2>4. /\ Pull.cur \in Nat /\ Pull.lim \in Nat /\ Stream.cur \in Nat
        /\ Pull.mode \in {"off", "open", "broken", "failed", "done"}
        /\ Stream.mode \in {"off", "open", "broken", "failed", "done"}
    BY <2>2, <2>3 DEF ClientRec
  <2>5. CASE Pull.mode = "open"
    <3>1. Pull.at = None
      <4> SUFFICES ASSUME Pull.at # None PROVE FALSE
        OBVIOUS
      <4>1. Pull.at \in Call
        BY <2>2, <2>3 DEF ClientRec
      <4>2. <<"pull", Pull.at>> \in Job
        BY <2>3, <4>1 DEF Job
      <4> QED
        BY <4>2, NoneAssumption DEF PullDisplaced
    <3>2. ~Pull.last
      BY <2>2, <2>3 DEF Placed
    <3>3. Pull.cur <= Len(log)
      BY <2>1, <2>2, <2>3, <2>4, <2>5, <3>1 DEF Passed
    <3>4. Pull.lim = Len(log)
      BY <2>2, <2>3, <2>4, <2>5, <3>1, <3>2 DEF CanPull, Placed
    <3>5. MayHandle("pull")
      BY <2>3, <2>5, <3>1, <3>3, <3>4 DEF MayHandle
    <3> QED
      BY <2>3, <3>5 DEF HandlesNow
  <2>6. CASE Pull.mode = "off"
    <3>1. Stream.at = None
      <4> SUFFICES ASSUME Stream.at # None PROVE FALSE
        OBVIOUS
      <4>1. Stream.at \in Call
        BY <2>2, <2>3 DEF ClientRec
      <4>2. <<"stream", Stream.at>> \in Job
        BY <2>3, <4>1 DEF Job
      <4> QED
        BY <2>6, <4>2, NoneAssumption, InvIs DEF Shown
    <3>2. Stream.mode = "open"
      BY <2>1, <2>2, <2>3, <2>4, <2>6, InvIs DEF Placed, Shown
    <3>3. Stream.cur <= Len(log)
      BY <2>1, <2>2, <2>3, <2>4, <2>6, <3>1, <3>2 DEF Passed
    <3>4. MayHandle("stream")
      BY <2>1, <2>3, <3>1, <3>2, <3>3 DEF MayHandle
    <3> QED
      BY <2>3, <3>4 DEF HandlesNow
  <2>7. CASE Pull.mode \in {"broken", "done"}
    BY <2>1, <2>2, <2>3, <2>7, InvIs DEF Placed, Shown
  <2> QED
    BY <2>1, <2>4, <2>5, <2>6, <2>7
<1> QED
  BY <1>1, Inductive, PTL
=============================================================================
