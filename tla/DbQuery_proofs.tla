--------------------------- MODULE DbQuery_proofs ---------------------------
(***************************************************************************)
(* What a statement keeps on its way to the server, for any connections,   *)
(* requests, saves and size of the queue of early cancels: it runs only as *)
(* the user approved it, whoever stops it is heard, its flight leaves the  *)
(* tables, and an abandoned request shows nothing.                         *)
(*                                                                         *)
(* The invariant follows the approval from the card over the lease to the  *)
(* request that consumed it, and the cancel from the list of what was      *)
(* queued over the queue of early cancels to the flight.                   *)
(***************************************************************************)
EXTENDS DbQuery, TLAPS, FiniteSetTheorems

\* A revision names a server, and saves are bounded by moves.
Saves ==
    /\ \A c \in Conn : /\ catalog[c].rev = catalog[c].target
                       /\ catalog[c].rev <= moves + 1
                       /\ saving # {} => catalog[c].rev <= moves
    /\ \A c \in saving : saving = {c}

Named(k) == k # NoCard => k.rev = k.target

\* What the user approved is on the card of the request.
Carded(o) ==
    LET r == req[o] IN
    r.pc # "free" => /\ r.leased => r.card # NoCard
                     /\ Named(r.card) /\ r.snap.rev = r.snap.target
                     /\ r.res = "approval" => r.card.op = o

\* A lease says what its request's card says.
Leased(l) ==
    LET r == req[l.id] IN
    /\ r.pc # "free" /\ r.leased
    /\ r.card.conn = l.conn /\ r.card.rev = l.rev /\ r.card.stmt = l.stmt

\* OnlyApproved, from the gate on.
Gated(o) ==
    LET r == req[o] IN
    r.pc \in {"ready", "begun", "dialled"} \cup InBegin /\ Decision(r.stmt) # "allow" =>
        /\ Decision(r.stmt) = "approval" /\ r.card # NoCard
        /\ r.card.conn = r.conn /\ r.card.stmt = r.stmt /\ r.card.target = r.snap.target

Approval ==
    /\ Saves /\ Named(ui.pending)
    /\ \A o \in Op : Carded(o) /\ Gated(o)
    /\ \A l \in lease : Leased(l)
    /\ OnlyApproved

\* A request whose sequence number is the workbench's was not abandoned.
Abandoned ==
    /\ stale \subseteq Op
    /\ \A o \in Op : req[o].pc # "free" => req[o].seq <= ui.seq
    /\ \A o \in stale : /\ req[o].pc \notin {"free", "approved"}
                        /\ req[o].pc = "done" \/ req[o].seq < ui.seq

\* An operation is cancelled once, and its id queued only then.
CancelOnce ==
    /\ ui.op # 0 => cancel[ui.op] = "no" /\ req[ui.op].pc \notin {"free", "approved"}
    /\ \A o \in Op : cancel[o] # "no" => req[o].pc \notin {"free", "approved"}
    /\ \A i \in 1..Len(early) : cancel[early[i]] = "done"
    /\ \A i \in 1..Len(queued) : cancel[queued[i].op] = "done"

\* A cancel that waits for its request is in the queue of early cancels, and
\* has no more of them behind it than were queued since.
Kept(o) ==
    req[o].pc \in BeforeBegin =>
        \A i \in 1..Len(queued) : queued[i].op = o /\ Len(queued) - i < EarlyLimit =>
            \E p \in 1..Len(early) : early[p] = o /\ Len(early) - p <= Len(queued) - i

\* A request that began with a cancel waiting for it knows, and is not sent.
Heard(o) ==
    /\ req[o].pc \in InBegin \cup {"begun"} /\ Waits(o, BeforeBegin) => req[o].halt # "None"
    /\ req[o].pc \in {"dialled", "sent", "cancelling"} => ~Waits(o, BeforeBegin)

\* A cancel that is over has told its request or was queued.
Told(o) ==
    cancel[o] = "done" /\ req[o].pc \notin {"dropping", "respond", "done"} =>
        \/ req[o].pc \in {"inserted"} \cup Flying /\ req[o].halt # "None"
        \/ \E i \in 1..Len(queued) : queued[i].op = o

Stopped ==
    /\ \A o \in Op : Kept(o) /\ Heard(o) /\ Told(o)
    /\ \A s \in sent : /\ s.op \in Op /\ ~Waits(s.op, BeforeBegin)
                       /\ req[s.op].pc \in {"sent", "cancelling", "dropping", "respond", "done"}
    /\ session # "open" => \A o \in sessions \ late : req[o].halt # "None"

\* The inductive invariant.
IInv ==
    /\ TypeOK /\ queued \in Seq([op : Op, pc : PC])
    /\ Approval /\ NoLeak /\ Abandoned /\ CancelOnce /\ Stopped

---------------------------------------------------------------------------
(* Typing. *)

Rev     == 1..MaxMove + 1
Version == [rev : Rev, target : Rev]
CardRec == [op : Op, conn : Conn, stmt : Stmt, rev : Rev, target : Rev, used : BOOLEAN]
ReqRec  == [pc : PC, conn : Conn, stmt : Stmt, leased : BOOLEAN, seq : Nat, rev : Rev,
            snap : Version, card : Card, halt : {"None", "Cancelled", "SessionClosed"},
            res : {"rows", "approval", "error"}]
UiRec   == [sel : Conn, known : [Conn -> Rev], seq : Nat, op : Op \cup {0}, busy : BOOLEAN,
            pending : Card, submitted : Stmt \cup {""}, shown : Op \cup {0}]

Typing ==
    /\ catalog \in [Conn -> Version] /\ mode \in Mode
    /\ session \in {"open", "closing", "closed"}
    /\ lease \subseteq [id : Op, conn : Conn, rev : Rev, stmt : Stmt]
    /\ operations \subseteq Op /\ sessions \subseteq Op
    /\ early \in Seq(Op) /\ Len(early) <= EarlyLimit
    /\ req \in [Op -> {Unused} \cup ReqRec]
    /\ cancel \in [Op -> {"no", "called", "missed", "done"}]
    /\ ui \in UiRec
    /\ saving \subseteq Conn /\ Cardinality(saving) <= 1 /\ moves \in 0..MaxMove

LEMMA TypeIs == (TypeOK <=> Typing) /\ (TypeOK' <=> Typing')
BY DEF TypeOK, Typing, Req, ReqRec, Version, Rev, UiRec

LEMMA CardIs == Card = {NoCard} \cup CardRec
BY DEF Card, CardRec, Rev

\* Cards, and requests that are under way, are records.
LEMMA InvIs ==
    ASSUME IInv
    PROVE  /\ Typing /\ Approval /\ NoLeak /\ Abandoned /\ CancelOnce /\ Stopped
           /\ queued \in Seq([op : Op, pc : PC])
           /\ \A o \in Op : req[o].pc # "free" => req[o] \in ReqRec
           /\ \A k \in CardRec : k # NoCard
<1>1. \A k \in CardRec : k # NoCard
  <2>1. \A k \in CardRec : k.op # 0
    BY QueryAssumption DEF CardRec
  <2> QED
    BY <2>1 DEF NoCard
<1> QED
  BY <1>1, TypeIs DEF IInv, Typing, Unused

\* The request keeps what it is for.
Same(o) ==
    /\ req'[o].conn = req[o].conn /\ req'[o].stmt = req[o].stmt
    /\ req'[o].leased = req[o].leased /\ req'[o].snap = req[o].snap
    /\ req'[o].card = req[o].card

\* A step of one request, to n, that knows the halt h and has the result s.
Step(o, n, h, s) ==
    /\ req' \in [Op -> {Unused} \cup ReqRec]
    /\ \A p \in Op : p # o => req'[p] = req[p]
    /\ req'[o] \in ReqRec /\ req'[o].pc = n /\ req'[o].halt = h /\ req'[o].res = s
    /\ Same(o) /\ req'[o].seq = req[o].seq

LEMMA Stepped ==
    ASSUME IInv, NEW o \in Op, req[o].pc # "free", NEW n \in PC,
           NEW h \in {"None", "Cancelled", "SessionClosed"},
           NEW s \in {"rows", "approval", "error"},
           req' = [req EXCEPT ![o] = [req[o] EXCEPT !.pc = n, !.halt = h, !.res = s]]
    PROVE  Step(o, n, h, s)
<1> DEFINE x == [req[o] EXCEPT !.pc = n, !.halt = h, !.res = s]
<1>1. /\ x \in ReqRec /\ x.pc = n /\ x.halt = h /\ x.res = s
      /\ x.conn = req[o].conn /\ x.stmt = req[o].stmt /\ x.leased = req[o].leased
      /\ x.snap = req[o].snap /\ x.card = req[o].card /\ x.seq = req[o].seq
  BY InvIs DEF ReqRec
<1>2. req' = [req EXCEPT ![o] = x]
  OBVIOUS
<1> HIDE DEF x
<1>3. req'[o] = x /\ req' \in [Op -> {Unused} \cup ReqRec]
      /\ \A p \in Op : p # o => req'[p] = req[p]
  BY <1>1, <1>2, InvIs DEF Typing
<1> QED
  BY <1>1, <1>3 DEF Step, Same

LEMMA AtIs ==
    ASSUME IInv, NEW o \in Op, req[o].pc # "free", NEW n \in PC
    PROVE  /\ At(o, n) => Step(o, n, req[o].halt, req[o].res)
           /\ Fails(o, n) => Step(o, n, req[o].halt, "error")
<1>1. req[o] \in ReqRec /\ req \in [Op -> {Unused} \cup ReqRec]
  BY InvIs DEF Typing
<1>2. /\ req[o].halt \in {"None", "Cancelled", "SessionClosed"}
      /\ req[o].res \in {"rows", "approval", "error"}
  BY <1>1 DEF ReqRec
<1>3. [req[o] EXCEPT !.pc = n]
        = [req[o] EXCEPT !.pc = n, !.halt = req[o].halt, !.res = req[o].res]
  BY <1>1 DEF ReqRec
<1>4. [req[o] EXCEPT !.pc = n, !.res = "error"]
        = [req[o] EXCEPT !.pc = n, !.halt = req[o].halt, !.res = "error"]
  BY <1>1 DEF ReqRec
<1>5. At(o, n) => req' = [req EXCEPT ![o] = [req[o] EXCEPT !.pc = n]]
  BY <1>1 DEF At
<1>6. Fails(o, n) => req' = [req EXCEPT ![o] = [req[o] EXCEPT !.pc = n, !.res = "error"]]
  BY <1>1 DEF Fails
<1>7. ASSUME At(o, n) PROVE Step(o, n, req[o].halt, req[o].res)
  <2>1. req' = [req EXCEPT ![o] = [req[o] EXCEPT !.pc = n, !.halt = req[o].halt,
                                                 !.res = req[o].res]]
    BY <1>3, <1>5, <1>7
  <2> QED
    BY <1>2, <2>1, Stepped
<1>8. ASSUME Fails(o, n) PROVE Step(o, n, req[o].halt, "error")
  <2>1. req' = [req EXCEPT ![o] = [req[o] EXCEPT !.pc = n, !.halt = req[o].halt,
                                                 !.res = "error"]]
    BY <1>4, <1>6, <1>8
  <2> QED
    BY <1>2, <2>1, Stepped
<1> QED
  BY <1>7, <1>8

---------------------------------------------------------------------------
(* What a step must leave alone, one part of the invariant at a time. *)

LEMMA InSeq ==
    ASSUME NEW S, NEW q \in Seq(S)
    PROVE  \A i \in 1..Len(q) : q[i] \in S
OBVIOUS

LEMMA Queues ==
    ASSUME IInv
    PROVE  /\ \A i \in 1..Len(early) : early[i] \in Op
           /\ \A i \in 1..Len(queued) : queued[i].op \in Op /\ queued[i].pc \in PC
           /\ ui.op # 0 => ui.op \in Op
<1>1. \A i \in 1..Len(early) : early[i] \in Op
  BY InvIs, InSeq DEF Typing
<1>2. \A i \in 1..Len(queued) : queued[i] \in [op : Op, pc : PC]
  BY InvIs, InSeq
<1> QED
  BY <1>1, <1>2, InvIs DEF Typing, UiRec

\* A request keeps what was approved, and does not pass the gate.
Ungated(o) ==
    \/ req'[o] = req[o]
    \/ /\ req[o].pc # "free" /\ req'[o].pc # "free" /\ Same(o)
       /\ req'[o].pc \in {"ready", "begun", "dialled"} \cup InBegin
          => req[o].pc \in {"ready", "begun", "dialled"} \cup InBegin
       /\ req'[o].res = "approval" => req[o].res = "approval"

LEMMA RequestKept ==
    ASSUME IInv, mode' = mode, NEW o \in Op, Ungated(o)
    PROVE  Carded(o)' /\ Gated(o)'
<1>1. Carded(o)'
  BY InvIs DEF Approval, Carded, Ungated, Same
<1>2. Gated(o)'
  <2>1. \A t : Decision(t)' = Decision(t)
    BY DEF Decision
  <2> QED
    BY <2>1, InvIs DEF Approval, Gated, Ungated, Same
<1> QED
  BY <1>1, <1>2

LEMMA LeasesKept ==
    ASSUME IInv, lease' \subseteq lease, \A o \in Op : Ungated(o)
    PROVE  \A l \in lease' : Leased(l)'
<1> SUFFICES ASSUME NEW l \in lease' PROVE Leased(l)'
  OBVIOUS
<1>1. l.id \in Op /\ Leased(l)
  BY InvIs DEF Approval, Typing
<1> QED
  BY <1>1 DEF Leased, Ungated, Same

LEMMA SavesKept ==
    ASSUME IInv
    PROVE  /\ UNCHANGED <<catalog, saving, moves>> => Saves'
           /\ UNCHANGED <<mode, sent>> => OnlyApproved'
BY InvIs DEF Approval, Saves, OnlyApproved, Decision

LEMMA ApprovalKept ==
    ASSUME IInv, mode' = mode, Saves', OnlyApproved', Named(ui'.pending),
           lease' \subseteq lease, \A o \in Op : Ungated(o)
    PROVE  Approval'
<1>1. Named(ui.pending)'
  BY DEF Named
<1> QED
  BY <1>1, RequestKept, LeasesKept DEF Approval

Registered == {"inserted", "dropping"} \cup Flying
Joined     == {"dropping"} \cup Flying

LEMMA NoLeakKept ==
    ASSUME IInv, UNCHANGED <<operations, sessions>>,
           \A o \in Op : /\ req'[o].pc \in Registered <=> req[o].pc \in Registered
                         /\ req[o].pc \in Joined => req'[o].pc \in Joined
    PROVE  NoLeak'
BY InvIs DEF NoLeak, Registered, Joined

\* No request is abandoned, or numbered anew.
LEMMA AbandonedKept ==
    ASSUME IInv, stale' = stale, ui'.seq = ui.seq,
           \A o \in Op : \/ req'[o] = req[o]
                         \/ /\ req[o].pc # "free" /\ req'[o].seq = req[o].seq
                            /\ req'[o].pc \in {"free", "approved"} => req[o].pc = "approved"
                            /\ req[o].pc = "done" => req'[o].pc = "done"
    PROVE  Abandoned'
BY InvIs DEF Abandoned

LEMMA CancelOnceKept ==
    ASSUME IInv, UNCHANGED <<cancel, early, queued>>, ui'.op \in {0, ui.op},
           \A o \in Op : req[o].pc \notin {"free", "approved"}
                         => req'[o].pc \notin {"free", "approved"}
    PROVE  CancelOnce'
<1>1. ui.op # 0 => ui.op \in Op
  BY InvIs DEF Typing, UiRec
<1> QED
  BY <1>1, InvIs DEF CancelOnce, Typing

\* What a request may do while nobody is cancelled: it keeps its halt, and is
\* dialled only when it has none.
Onward(o) ==
    \/ req'[o] = req[o]
    \/ /\ req'[o].pc \in BeforeBegin => req[o].pc \in {"free", "approved"} \cup BeforeBegin
       /\ req'[o].pc \in InBegin \cup {"begun"} => req[o].pc \in InBegin \cup {"begun"}
       /\ req'[o].pc \in {"dialled", "sent", "cancelling"}
          => \/ req[o].pc \in {"dialled", "sent", "cancelling"}
             \/ req[o].pc = "begun" /\ req[o].halt = "None"
       /\ req'[o].pc \in {"free", "approved"} => req[o].pc \in {"free", "approved"}
       /\ req[o].pc \in {"sent", "cancelling", "dropping", "respond", "done"}
          => req'[o].pc \in {"sent", "cancelling", "dropping", "respond", "done"}
       /\ req[o].pc \in {"dropping", "respond", "done"}
          => req'[o].pc \in {"dropping", "respond", "done"}
       /\ req[o].pc \in {"inserted"} \cup Flying
          => req'[o].pc \in {"inserted", "dropping", "respond", "done"} \cup Flying
       /\ req[o].halt # "None" /\ req[o].pc # "free" => req'[o].halt # "None"

LEMMA StoppedKept ==
    ASSUME IInv, UNCHANGED <<cancel, early, queued>>, \A o \in Op : Onward(o),
           session' # "open" => session # "open" /\ sessions' \ late' \subseteq sessions \ late,
           \A s \in sent' : \/ s \in sent
                            \/ s.op \in Op /\ req[s.op].pc = "dialled" /\ req'[s.op].pc = "sent"
    PROVE  Stopped'
<1>1. \A o : Waits(o, BeforeBegin)' <=> Waits(o, BeforeBegin)
  <2>1. queued' = queued
    OBVIOUS
  <2> QED
    BY <2>1, Zenon DEF Waits, BeforeBegin
<1>2. \A i \in 1..Len(queued) : queued[i] \in [op : Op, pc : PC]
  BY InvIs, InSeq
<1>3. \A o \in Op : req[o].pc \in {"free", "approved"}
        => \A i \in 1..Len(queued) : queued[i].op # o
  BY <1>2, InvIs DEF CancelOnce
<1>4. \A o \in Op : Kept(o)'
  BY <1>3, InvIs DEF Stopped, Kept, Onward, BeforeBegin
<1>5. \A o \in Op : Heard(o)'
  BY <1>1, InvIs DEF Stopped, Heard, Onward, InBegin
<1>6. \A o \in Op : Told(o)'
  BY InvIs DEF Stopped, Told, Onward, Flying, CancelOnce
<1>7. \A s \in sent' : /\ s.op \in Op /\ ~Waits(s.op, BeforeBegin)'
                       /\ req'[s.op].pc \in {"sent", "cancelling", "dropping", "respond", "done"}
  BY <1>1, InvIs DEF Stopped, Heard, Onward
<1>8. session' # "open" => \A o \in sessions' \ late' : req'[o].halt # "None"
  <2>1. \A o \in sessions : o \in Op /\ req[o].pc # "free"
    BY InvIs DEF NoLeak, Typing, Flying
  <2> QED
    BY <2>1, InvIs DEF Stopped, Onward
<1> QED
  BY <1>4, <1>5, <1>6, <1>7, <1>8 DEF Stopped

---------------------------------------------------------------------------
(* The command: driver and flight. *)

LEMMA Flies ==
    ASSUME IInv, NEW o \in Op, NEW n \in {"dialled", "cancelling", "dropping"},
           NEW s \in {req[o].res, "error", "rows"},
           Step(o, n, req[o].halt, s), req[o].pc \in Flying,
           n = "dialled" => req[o].pc = "begun" /\ req[o].halt = "None",
           n = "cancelling" => req[o].pc = "sent",
           UNCHANGED <<catalog, mode, session, lease, tables, cancel, ui, saving, moves, history>>
    PROVE  IInv'
<1>1. TypeOK' /\ queued' \in Seq([op : Op, pc : PC])
  BY TypeIs, InvIs DEF Typing, Step, tables, history
<1>2. Approval'
  <2>1. \A p \in Op : Ungated(p)
    BY DEF Step, Ungated, Flying, InBegin
  <2> QED
    BY <2>1, InvIs, SavesKept, ApprovalKept DEF Approval, history
<1>3. NoLeak'
  <2>1. \A p \in Op : /\ req'[p].pc \in Registered <=> req[p].pc \in Registered
                      /\ req[p].pc \in Joined => req'[p].pc \in Joined
    BY DEF Step, Registered, Joined, Flying
  <2> QED
    BY <2>1, NoLeakKept DEF tables
<1>4. Abandoned'
  <2>1. \A p \in Op : \/ req'[p] = req[p]
                      \/ /\ req[p].pc # "free" /\ req'[p].seq = req[p].seq
                         /\ req'[p].pc \notin {"free", "approved"} /\ req[p].pc # "done"
    BY DEF Step, Flying
  <2> QED
    BY <2>1, AbandonedKept DEF history
<1>5. CancelOnce'
  <2>1. \A p \in Op : req[p].pc \notin {"free", "approved"}
                      => req'[p].pc \notin {"free", "approved"}
    BY DEF Step
  <2> QED
    BY <2>1, CancelOnceKept DEF history, tables
<1>6. Stopped'
  <2>1. \A p \in Op : Onward(p)
    BY DEF Step, Onward, Flying, InBegin, BeforeBegin
  <2> QED
    BY <2>1, StoppedKept DEF history, tables
<1> QED
  BY <1>1, <1>2, <1>3, <1>4, <1>5, <1>6 DEF IInv

LEMMA DriverKeeps ==
    ASSUME IInv, NEW o \in Op, Dial(o) \/ Finish(o) \/ Halted(o) \/ Timeout(o) \/ CancelAnswered(o)
    PROVE  IInv'
<1>1. /\ req[o].pc \in Flying /\ req[o].pc # "free"
      /\ UNCHANGED <<catalog, mode, session, lease, tables, cancel, ui, saving, moves, history>>
  BY DEF Dial, Finish, Halted, Timeout, CancelAnswered, Flying
<1>2. "dialled" \in PC /\ "dropping" \in PC /\ "cancelling" \in PC
  BY DEF PC, Flying
<1>3. CASE Fails(o, "dropping")
  BY <1>1, <1>2, <1>3, AtIs, Flies
<1>4. CASE At(o, "dialled") /\ req[o].pc = "begun" /\ req[o].halt = "None"
  BY <1>1, <1>2, <1>4, AtIs, Flies
<1>5. CASE req' = [req EXCEPT ![o].pc = "dropping", ![o].res = "rows"]
  <2>1. req[o] \in ReqRec /\ req \in [Op -> {Unused} \cup ReqRec]
    BY <1>1, InvIs DEF Typing
  <2>2. req[o].halt \in {"None", "Cancelled", "SessionClosed"}
    BY <2>1 DEF ReqRec
  <2>3. [req[o] EXCEPT !.pc = "dropping", !.res = "rows"]
          = [req[o] EXCEPT !.pc = "dropping", !.halt = req[o].halt, !.res = "rows"]
    BY <2>1 DEF ReqRec
  <2>4. req' = [req EXCEPT ![o] = [req[o] EXCEPT !.pc = "dropping", !.res = "rows"]]
    BY <1>5, <2>1
  <2>5. req' = [req EXCEPT ![o] = [req[o] EXCEPT !.pc = "dropping", !.halt = req[o].halt,
                                                 !.res = "rows"]]
    BY <2>3, <2>4
  <2>6. Step(o, "dropping", req[o].halt, "rows")
    BY <1>1, <1>2, <2>2, <2>5, Stepped
  <2> QED
    BY <1>1, <2>6, Flies
<1>6. CASE Fails(o, "cancelling") /\ req[o].pc = "sent"
  BY <1>1, <1>2, <1>6, AtIs, Flies
<1>7. CASE At(o, "dropping")
  BY <1>1, <1>2, <1>7, AtIs, Flies
<1> QED
  BY <1>3, <1>4, <1>5, <1>6, <1>7 DEF Dial, Finish, Halted, Timeout, CancelAnswered

\* Steps that move no request.
LEMMA StillKeeps ==
    ASSUME IInv, TypeOK', UNCHANGED <<mode, tables, req, cancel, history>>, Saves',
           Named(ui'.pending), lease' \subseteq lease, ui'.seq = ui.seq, ui'.op = ui.op,
           session' # "open" => session # "open"
    PROVE  IInv'
<1>1. \A o \in Op : Ungated(o) /\ Onward(o) /\ req'[o] = req[o]
  BY DEF Ungated, Onward
<1>2. Approval'
  BY <1>1, SavesKept, ApprovalKept DEF history
<1>3. NoLeak' /\ Abandoned' /\ CancelOnce'
  BY <1>1, NoLeakKept, AbandonedKept, CancelOnceKept DEF history, tables
<1>4. Stopped'
  BY <1>1, StoppedKept DEF history, tables
<1> QED
  BY <1>2, <1>3, <1>4, InvIs DEF IInv, history

LEMMA NoCardNamed == Named(NoCard)
BY DEF Named

LEMMA RejectKeeps ==
    ASSUME IInv, Reject
    PROVE  IInv'
<1>1. /\ ui' \in UiRec /\ ui'.pending = NoCard /\ ui'.seq = ui.seq /\ ui'.op = ui.op
  BY InvIs, CardIs DEF Reject, Typing, UiRec
<1>2. TypeOK'
  BY <1>1, InvIs, TypeIs DEF Reject, Typing, tables
<1>3. UNCHANGED <<catalog, saving, moves, mode, session, lease, tables, req, cancel, history>>
  BY DEF Reject
<1> QED
  BY <1>1, <1>2, <1>3, NoCardNamed, SavesKept, StillKeeps

LEMMA SwitchKeeps ==
    ASSUME IInv, NEW c \in Conn, SwitchWorkspace(c)
    PROVE  IInv'
<1>1. /\ ui' \in UiRec /\ ui'.pending = ui.pending /\ ui'.seq = ui.seq /\ ui'.op = ui.op
  BY InvIs DEF SwitchWorkspace, Typing, UiRec
<1>2. moves' \in 0..MaxMove /\ moves' = moves + 1
  BY InvIs, QueryAssumption DEF SwitchWorkspace, Typing
<1>3. UNCHANGED <<catalog, saving, mode, session, lease, tables, req, cancel, history>>
  BY DEF SwitchWorkspace
<1>4. TypeOK'
  BY <1>1, <1>2, <1>3, InvIs, TypeIs DEF Typing, tables
<1>5. Saves'
  BY <1>2, <1>3, InvIs DEF Saves, Approval, Typing, Version, Rev
<1> QED
  BY <1>1, <1>3, <1>4, <1>5, InvIs, StillKeeps DEF Approval

LEMMA SaveKeeps ==
    ASSUME IInv, NEW c \in Conn, Save(c)
    PROVE  IInv'
<1>1. /\ ui' \in UiRec /\ ui'.pending = ui.pending /\ ui'.seq = ui.seq /\ ui'.op = ui.op
  BY InvIs DEF Save, Typing, UiRec
<1>2. moves' \in 0..MaxMove /\ moves' = moves + 1 /\ saving' = {c} /\ saving = {}
  BY InvIs, QueryAssumption DEF Save, Typing
<1>3. UNCHANGED <<catalog, mode, session, lease, tables, req, cancel, history>>
  BY DEF Save
<1>4. TypeOK'
  <2>1. Cardinality(saving') <= 1 /\ saving' \subseteq Conn
    BY <1>2, FS_Singleton
  <2> QED
    BY <1>1, <1>2, <1>3, <2>1, InvIs, TypeIs DEF Typing, tables
<1>5. Saves'
  BY <1>2, <1>3, InvIs DEF Saves, Approval, Typing, Version, Rev
<1> QED
  BY <1>1, <1>3, <1>4, <1>5, InvIs, StillKeeps DEF Approval

LEMMA SaveDoneKeeps ==
    ASSUME IInv, SaveDone
    PROVE  IInv'
<1>1. PICK c \in saving :
          \/ catalog' = catalog /\ ui' = [ui EXCEPT !.busy = FALSE]
          \/ /\ catalog' = [catalog EXCEPT ![c] = Stored(c)]
             /\ ui' = [ui EXCEPT !.busy = FALSE, !.sel = c, !.known[c] = Stored(c).rev]
  BY DEF SaveDone
<1>2. c \in Conn /\ saving # {} /\ catalog[c] \in Version /\ catalog[c].rev <= moves
      /\ moves \in 0..MaxMove /\ catalog[c].rev = catalog[c].target
  BY InvIs DEF Typing, Approval, Saves
<1>3. /\ Stored(c) \in Version /\ Stored(c).rev = Stored(c).target
      /\ Stored(c).rev <= moves + 1 /\ Stored(c).rev \in Rev
  <2>1. catalog[c].rev + 1 \in Rev /\ catalog[c].rev + 1 <= moves + 1
        /\ catalog[c].rev + 1 = catalog[c].target + 1
    BY <1>2, QueryAssumption DEF Version, Rev
  <2>2. Stored(c) = [catalog[c] EXCEPT !.rev = catalog[c].rev + 1,
                                       !.target = catalog[c].target + 1]
    BY DEF Stored
  <2>3. Stored(c) = [rev |-> catalog[c].rev + 1, target |-> catalog[c].target + 1]
    BY <1>2, <2>2 DEF Version
  <2> QED
    BY <2>1, <2>3 DEF Version
<1>4. /\ saving' = {}
      /\ UNCHANGED <<mode, session, lease, tables, req, cancel, moves, history>>
  BY DEF SaveDone
<1> DEFINE n == Stored(c)
           known == [ui.known EXCEPT ![c] = n.rev]
<1>a. /\ catalog' = catalog \/ catalog' = [catalog EXCEPT ![c] = n]
      /\ \/ ui' = [ui EXCEPT !.busy = FALSE]
         \/ ui' = [ui EXCEPT !.busy = FALSE, !.sel = c, !.known = known]
  BY <1>1
<1>b. known \in [Conn -> Rev] /\ ui \in UiRec /\ catalog \in [Conn -> Version]
      /\ n \in Version /\ n.rev = n.target /\ n.rev <= moves + 1
      /\ \A d \in Conn : catalog[d].rev = catalog[d].target /\ catalog[d].rev <= moves + 1
  BY <1>3, InvIs DEF Typing, UiRec, Approval, Saves
<1> HIDE DEF n, known
<1>5. /\ catalog' \in [Conn -> Version]
      /\ \A d \in Conn : catalog'[d].rev = catalog'[d].target /\ catalog'[d].rev <= moves + 1
  BY <1>a, <1>b
<1>6. /\ ui' \in UiRec /\ ui'.pending = ui.pending /\ ui'.seq = ui.seq /\ ui'.op = ui.op
  BY <1>a, <1>b, <1>2 DEF UiRec
<1>7. TypeOK'
  BY <1>4, <1>5, <1>6, InvIs, TypeIs, FS_EmptySet DEF Typing, tables
<1>8. Saves'
  BY <1>4, <1>5, <1>2 DEF Saves
<1> QED
  BY <1>4, <1>6, <1>7, <1>8, InvIs, StillKeeps DEF Approval

LEMMA ElsewhereKeeps ==
    ASSUME IInv, RemoveSession \/ \E l \in lease : LeaseExpires(l)
    PROVE  IInv'
<1>1. UNCHANGED <<catalog, mode, tables, req, cancel, ui, saving, moves, history>>
  BY DEF RemoveSession, LeaseExpires
<1>2. lease' \subseteq lease /\ session' \in {session, "closed"}
      /\ (session' # "open" => session # "open")
  BY DEF RemoveSession, LeaseExpires
<1>3. TypeOK'
  BY <1>1, <1>2, InvIs, TypeIs DEF Typing, tables
<1> QED
  BY <1>1, <1>2, <1>3, InvIs, SavesKept, StillKeeps DEF Approval

LEMMA SendKeeps ==
    ASSUME IInv, NEW o \in Op, Send(o)
    PROVE  IInv'
<1> DEFINE r == req[o]
           x == [op |-> o, conn |-> r.conn, target |-> r.snap.target, stmt |-> r.stmt,
                 leased |-> r.leased, card |-> r.card]
<1>1. /\ r.pc = "dialled" /\ At(o, "sent") /\ sent' = sent \cup {x}
      /\ UNCHANGED <<catalog, mode, session, lease, tables, cancel, ui, saving, moves,
                     queued, late, stale>>
  BY DEF Send
<1>2. Step(o, "sent", req[o].halt, req[o].res)
  BY <1>1, AtIs DEF PC, Flying
<1>3. /\ x.op = o /\ x.conn = r.conn /\ x.target = r.snap.target /\ x.stmt = r.stmt
      /\ x.card = r.card
  OBVIOUS
<1> HIDE DEF x
<1>4. TypeOK' /\ queued' \in Seq([op : Op, pc : PC])
  BY <1>1, <1>2, TypeIs, InvIs DEF Typing, Step, tables
<1>5. Approval'
  <2>1. \A p \in Op : Ungated(p)
    BY <1>1, <1>2 DEF Step, Ungated, InBegin
  <2>2. OnlyApproved'
    <3>1. \A t : Decision(t)' = Decision(t)
      BY <1>1 DEF Decision
    <3> QED
      BY <1>1, <1>3, <3>1, InvIs DEF Approval, OnlyApproved, Gated
  <2> QED
    BY <1>1, <2>1, <2>2, InvIs, SavesKept, ApprovalKept DEF Approval
<1>6. NoLeak'
  <2>1. \A p \in Op : /\ req'[p].pc \in Registered <=> req[p].pc \in Registered
                      /\ req[p].pc \in Joined => req'[p].pc \in Joined
    BY <1>1, <1>2 DEF Step, Registered, Joined, Flying
  <2> QED
    BY <1>1, <2>1, NoLeakKept DEF tables
<1>7. Abandoned'
  <2>1. \A p \in Op : \/ req'[p] = req[p]
                      \/ /\ req[p].pc # "free" /\ req'[p].seq = req[p].seq
                         /\ req'[p].pc \notin {"free", "approved"} /\ req[p].pc # "done"
    BY <1>1, <1>2 DEF Step
  <2> QED
    BY <1>1, <2>1, AbandonedKept
<1>8. CancelOnce'
  <2>1. \A p \in Op : req[p].pc \notin {"free", "approved"}
                      => req'[p].pc \notin {"free", "approved"}
    BY <1>2 DEF Step
  <2> QED
    BY <1>1, <2>1, CancelOnceKept DEF tables
<1>9. Stopped'
  <2>1. \A p \in Op : Onward(p)
    BY <1>1, <1>2 DEF Step, Onward, Flying, InBegin, BeforeBegin
  <2> QED
    BY <1>1, <1>2, <1>3, <2>1, StoppedKept DEF tables, Step
<1> QED
  BY <1>4, <1>5, <1>6, <1>7, <1>8, <1>9 DEF IInv

\* A request that moves on, whatever it does to the tables of flights.
LEMMA MovesOn ==
    ASSUME IInv, NEW o \in Op, NEW n \in {"inserted", "begun", "respond", "done"},
           Step(o, n, req[o].halt, req[o].res),
           <<req[o].pc, n>> \in {<<"taken", "inserted">>, <<"inserted", "begun">>,
                                 <<"dropping", "respond">>, <<"respond", "done">>},
           UNCHANGED <<catalog, mode, session, lease, early, cancel, saving, moves,
                       sent, queued, stale>>,
           operations' \subseteq Op, sessions' \subseteq Op, NoLeak',
           session # "open" => sessions' \ late' \subseteq sessions \ late,
           ui' \in UiRec, ui'.seq = ui.seq, ui'.op = ui.op, Named(ui'.pending)
    PROVE  IInv'
<1>1. TypeOK' /\ queued' \in Seq([op : Op, pc : PC])
  BY TypeIs, InvIs DEF Typing, Step
<1>2. Approval'
  <2>1. \A p \in Op : Ungated(p)
    BY DEF Step, Ungated, InBegin
  <2> QED
    BY <2>1, SavesKept, ApprovalKept
<1>3. Abandoned'
  <2>1. \A p \in Op : \/ req'[p] = req[p]
                      \/ /\ req[p].pc # "free" /\ req'[p].seq = req[p].seq
                         /\ req'[p].pc \notin {"free", "approved"} /\ req[p].pc # "done"
    BY DEF Step
  <2> QED
    BY <2>1, AbandonedKept
<1>4. CancelOnce'
  <2>1. \A p \in Op : req[p].pc \notin {"free", "approved"}
                      => req'[p].pc \notin {"free", "approved"}
    BY DEF Step
  <2> QED
    BY <2>1, CancelOnceKept
<1>5. Stopped'
  <2>1. \A p \in Op : Onward(p)
    BY DEF Step, Onward, Flying, InBegin, BeforeBegin
  <2> QED
    BY <2>1, StoppedKept
<1> QED
  BY <1>1, <1>2, <1>3, <1>4, <1>5 DEF IInv

LEMMA BeginKeeps ==
    ASSUME IInv, NEW o \in Op, InsertOperation(o) \/ PushSession(o)
    PROVE  IInv'
<1>1. UNCHANGED <<catalog, mode, session, lease, early, cancel, ui, saving, moves,
                  sent, queued, stale>>
  BY DEF InsertOperation, PushSession, history
<1>2. ui' \in UiRec /\ ui' = ui /\ Named(ui'.pending)
  BY <1>1, InvIs DEF Typing, Approval, Named
<1>3. CASE InsertOperation(o)
  <2>1. Step(o, "inserted", req[o].halt, req[o].res) /\ req[o].pc = "taken"
    BY <1>3, AtIs DEF InsertOperation, PC, InBegin
  <2>2. operations' = operations \cup {o} /\ sessions' = sessions /\ late' = late
    BY <1>3 DEF InsertOperation, history
  <2>3. NoLeak'
    BY <2>1, <2>2, InvIs DEF NoLeak, Step, Flying
  <2> QED
    BY <1>1, <1>2, <2>1, <2>2, <2>3, InvIs, MovesOn DEF Typing
<1>4. CASE PushSession(o)
  <2>1. Step(o, "begun", req[o].halt, req[o].res) /\ req[o].pc = "inserted"
    BY <1>4, AtIs DEF PushSession, PC, Flying
  <2>2. /\ operations' = operations /\ sessions \subseteq sessions'
        /\ sessions' \subseteq sessions \cup {o}
        /\ session # "open" => sessions' \ late' \subseteq sessions \ late
    BY <1>4 DEF PushSession
  <2>3. NoLeak'
    BY <2>1, <2>2, InvIs DEF NoLeak, Step, Flying
  <2> QED
    BY <1>1, <1>2, <1>4, <2>1, <2>2, <2>3, InvIs, MovesOn DEF Typing
<1> QED
  BY <1>3, <1>4

LEMMA DropKeeps ==
    ASSUME IInv, NEW o \in Op, Drop(o)
    PROVE  IInv'
<1>1. /\ operations' = operations \ {o} /\ sessions' = sessions \ {o}
      /\ UNCHANGED <<catalog, mode, session, lease, early, cancel, ui, saving, moves,
                     sent, queued, late, stale>>
  BY DEF Drop, history
<1>2. Step(o, "respond", req[o].halt, req[o].res) /\ req[o].pc = "dropping"
  BY AtIs DEF Drop, PC
<1>3. NoLeak'
  BY <1>1, <1>2, InvIs DEF NoLeak, Step, Flying
<1>4. ui' \in UiRec /\ ui' = ui /\ Named(ui'.pending)
  BY <1>1, InvIs DEF Typing, Approval, Named
<1> QED
  BY <1>1, <1>2, <1>3, <1>4, InvIs, MovesOn DEF Typing

LEMMA DeliverKeeps ==
    ASSUME IInv, NEW o \in Op, Deliver(o)
    PROVE  IInv'
<1> DEFINE r == req[o]
           idle == [ui EXCEPT !.busy = FALSE]
           shown == IF r.res = "rows" THEN o ELSE ui.shown
<1>1. /\ req[o].pc = "respond" /\ At(o, "done")
      /\ UNCHANGED <<catalog, mode, session, lease, tables, cancel, saving, moves, history>>
  BY DEF Deliver, At
<1>2. \/ ui' = ui \/ ui' = idle
      \/ ui' = [idle EXCEPT !.pending = r.card]
      \/ ui' = [idle EXCEPT !.pending = NoCard, !.shown = shown]
  BY DEF Deliver
<1>3. Step(o, "done", req[o].halt, req[o].res)
  BY <1>1, AtIs DEF PC
<1>4. /\ ui \in UiRec /\ Named(ui.pending) /\ r \in ReqRec /\ Named(r.card)
      /\ r.card \in Card /\ NoCard \in Card /\ shown \in Op \cup {0}
  BY <1>1, InvIs, CardIs DEF Typing, Approval, Carded, ReqRec, UiRec
<1> HIDE DEF r, shown
<1>5. /\ idle \in UiRec /\ idle.seq = ui.seq /\ idle.op = ui.op /\ idle.pending = ui.pending
  BY <1>4 DEF UiRec
<1> HIDE DEF idle
<1>6. /\ ui' \in UiRec /\ ui'.seq = ui.seq /\ ui'.op = ui.op
      /\ ui'.pending \in {ui.pending, r.card, NoCard}
  BY <1>2, <1>4, <1>5 DEF UiRec
<1>7. Named(ui'.pending)
  BY <1>4, <1>6, NoCardNamed
<1>8. NoLeak'
  <2>1. \A p \in Op : /\ req'[p].pc \in Registered <=> req[p].pc \in Registered
                      /\ req[p].pc \in Joined => req'[p].pc \in Joined
    BY <1>1, <1>3 DEF Step, Registered, Joined, Flying
  <2> QED
    BY <1>1, <2>1, NoLeakKept DEF tables
<1>9. /\ UNCHANGED <<catalog, mode, session, lease, early, cancel, saving, moves,
                     sent, queued, stale>>
      /\ operations' \subseteq Op /\ sessions' \subseteq Op
      /\ sessions' \ late' \subseteq sessions \ late
  BY <1>1, InvIs DEF tables, history, Typing
<1> QED
  BY <1>1, <1>3, <1>6, <1>7, <1>8, <1>9, MovesOn

\* Steps that halt requests: they keep all but their halt.
Halts(o) ==
    \/ req'[o] = req[o]
    \/ /\ Same(o) /\ req'[o].pc = req[o].pc /\ req[o].pc # "free"
       /\ req'[o].seq = req[o].seq /\ req'[o].res = req[o].res /\ req'[o].halt # "None"

LEMMA HaltsKept ==
    ASSUME IInv, req' \in [Op -> {Unused} \cup ReqRec], \A o \in Op : Halts(o),
           UNCHANGED <<catalog, mode, lease, tables, ui, saving, moves, history>>
    PROVE  Approval' /\ NoLeak' /\ Abandoned'
<1>1. Approval'
  <2>1. \A p \in Op : Ungated(p)
    BY DEF Halts, Ungated
  <2>2. Named(ui'.pending)
    BY InvIs DEF Approval, Named
  <2> QED
    BY <2>1, <2>2, SavesKept, ApprovalKept DEF history
<1>2. NoLeak'
  BY NoLeakKept DEF Halts, tables
<1>3. Abandoned'
  BY AbandonedKept DEF Halts, history
<1> QED
  BY <1>1, <1>2, <1>3

LEMMA CloseKeeps ==
    ASSUME IInv, CloseSession
    PROVE  IInv'
<1>1. /\ session' = "closing"
      /\ UNCHANGED <<catalog, mode, lease, tables, cancel, ui, saving, moves, history>>
      /\ req' = [o \in Op |-> IF o \in sessions THEN [req[o] EXCEPT !.halt = "SessionClosed"]
                              ELSE req[o]]
  BY DEF CloseSession
<1>2. \A o \in sessions :
         /\ o \in Op /\ req[o].pc # "free" /\ req[o] \in ReqRec
         /\ req'[o] = [req[o] EXCEPT !.halt = "SessionClosed"]
  BY <1>1, InvIs DEF NoLeak, Typing, Flying
<1>3. \A o \in sessions :
         LET x == [req[o] EXCEPT !.halt = "SessionClosed"]
         IN  /\ x \in ReqRec /\ x.pc = req[o].pc /\ x.seq = req[o].seq
             /\ x.res = req[o].res /\ x.halt = "SessionClosed"
             /\ x.conn = req[o].conn /\ x.stmt = req[o].stmt /\ x.leased = req[o].leased
             /\ x.snap = req[o].snap /\ x.card = req[o].card
  BY <1>2 DEF ReqRec
<1>4. \A o \in Op : /\ Halts(o) /\ req'[o] \in {Unused} \cup ReqRec
                    /\ o \in sessions => req'[o].halt # "None"
  BY <1>1, <1>2, <1>3, InvIs DEF Halts, Same, Typing
<1>5. req' \in [Op -> {Unused} \cup ReqRec]
  BY <1>1, <1>4
<1>6. TypeOK' /\ queued' \in Seq([op : Op, pc : PC])
  BY <1>1, <1>5, TypeIs, InvIs DEF Typing, tables, history
<1>7. CancelOnce'
  <2>1. \A p \in Op : req[p].pc \notin {"free", "approved"}
                      => req'[p].pc \notin {"free", "approved"}
    BY <1>4 DEF Halts
  <2> QED
    BY <1>1, <2>1, CancelOnceKept DEF tables, history
<1>8. Stopped'
  <2>1. \A o : Waits(o, BeforeBegin)' <=> Waits(o, BeforeBegin)
    <3>1. queued' = queued
      BY <1>1 DEF history
    <3> QED
      BY <3>1, Zenon DEF Waits, BeforeBegin
  <2>2. \A o \in Op : Kept(o)' /\ Heard(o)' /\ Told(o)'
    BY <1>1, <1>4, <2>1, InvIs DEF Stopped, Kept, Heard, Told, Halts, tables, history
  <2>3. \A s \in sent' : /\ s.op \in Op /\ ~Waits(s.op, BeforeBegin)'
                         /\ req'[s.op].pc \in {"sent", "cancelling", "dropping", "respond", "done"}
    BY <1>1, <1>4, <2>1, InvIs DEF Stopped, Halts, history
  <2>4. \A o \in sessions' \ late' : req'[o].halt # "None"
    BY <1>1, <1>2, <1>4 DEF tables
  <2> QED
    BY <2>2, <2>3, <2>4 DEF Stopped
<1> QED
  BY <1>1, <1>4, <1>5, <1>6, <1>7, <1>8, HaltsKept DEF IInv

LEMMA LookupKeeps ==
    ASSUME IInv, NEW o \in Op, CancelLookup(o)
    PROVE  IInv'
<1>1. /\ cancel[o] = "called"
      /\ cancel' \in [Op -> {"no", "called", "missed", "done"}]
      /\ cancel'[o] \in {"missed", "done"} /\ \A p \in Op : p # o => cancel'[p] = cancel[p]
      /\ UNCHANGED <<catalog, mode, session, lease, tables, ui, saving, moves, history>>
  BY InvIs DEF CancelLookup, Typing
<1>2. CASE o \notin operations
  <2>1. req' = req /\ cancel'[o] = "missed"
    BY <1>2, InvIs DEF CancelLookup, Typing
  <2>2. TypeOK' /\ queued' \in Seq([op : Op, pc : PC])
    BY <1>1, <2>1, TypeIs, InvIs DEF Typing, tables, history
  <2>3. \A p \in Op : Halts(p)
    BY <2>1 DEF Halts
  <2>7. CancelOnce'
    BY <1>1, <2>1, Queues, InvIs DEF CancelOnce, tables, history
  <2>8. Stopped'
    <3>1. \A p : Waits(p, BeforeBegin)' <=> Waits(p, BeforeBegin)
      <4>1. queued' = queued
        BY <1>1 DEF history
      <4> QED
        BY <4>1, Zenon DEF Waits, BeforeBegin
    <3>2. \A p \in Op : cancel'[p] = "done" => cancel[p] = "done"
      BY <1>1, <2>1
    <3>3. \A p \in Op : Kept(p)' /\ Heard(p)' /\ Told(p)'
      BY <1>1, <2>1, <3>1, <3>2, InvIs DEF Stopped, Kept, Heard, Told, tables, history
    <3> QED
      BY <1>1, <2>1, <3>1, <3>3, InvIs DEF Stopped, tables, history
  <2> QED
    BY <1>1, <2>1, <2>2, <2>3, <2>7, <2>8, InvIs, HaltsKept DEF IInv, Typing
<1>3. CASE o \in operations
  <2>1. req' = [req EXCEPT ![o].halt = "Cancelled"] /\ cancel'[o] = "done"
    BY <1>1, <1>3, InvIs DEF CancelLookup, Typing
  <2>2. req[o].pc \in {"inserted", "dropping"} \cup Flying /\ req[o].pc # "free"
    BY <1>3, InvIs DEF NoLeak, Flying
  <2>3. Step(o, req[o].pc, "Cancelled", req[o].res)
    <3>1. req[o] \in ReqRec /\ req \in [Op -> {Unused} \cup ReqRec]
      BY <2>2, InvIs DEF Typing
    <3>2. req[o].pc \in PC /\ req[o].res \in {"rows", "approval", "error"}
      BY <3>1 DEF ReqRec
    <3>3. [req[o] EXCEPT !.halt = "Cancelled"]
            = [req[o] EXCEPT !.pc = req[o].pc, !.halt = "Cancelled", !.res = req[o].res]
      BY <3>1 DEF ReqRec
    <3>4. req' = [req EXCEPT ![o] = [req[o] EXCEPT !.halt = "Cancelled"]]
      BY <2>1, <3>1
    <3>5. req' = [req EXCEPT ![o] = [req[o] EXCEPT !.pc = req[o].pc, !.halt = "Cancelled",
                                                   !.res = req[o].res]]
      BY <3>3, <3>4
    <3> QED
      BY <2>2, <3>2, <3>5, Stepped
  <2>4. TypeOK' /\ queued' \in Seq([op : Op, pc : PC])
    BY <1>1, <2>3, TypeIs, InvIs DEF Typing, Step, tables, history
  <2>5. \A p \in Op : Halts(p)
    BY <2>2, <2>3 DEF Halts, Step
  <2>6. \A p \in Op : req'[p].pc = req[p].pc
    BY <2>3 DEF Step
  <2>10. CancelOnce'
    BY <1>1, <2>1, <2>6, Queues, InvIs DEF CancelOnce, tables, history
  <2>11. Stopped'
    <3>1. \A p : Waits(p, BeforeBegin)' <=> Waits(p, BeforeBegin)
      <4>1. queued' = queued
        BY <1>1 DEF history
      <4> QED
        BY <4>1, Zenon DEF Waits, BeforeBegin
    <3>2. \A p \in Op : Kept(p)'
      BY <1>1, <2>6, InvIs DEF Stopped, Kept, tables, history
    <3>3. \A p \in Op : Heard(p)'
      BY <2>5, <2>6, <3>1, InvIs DEF Stopped, Heard, Halts
    <3>4. \A p \in Op : Told(p)'
      <4>1. Told(o)'
        BY <2>2, <2>3 DEF Told, Step
      <4>2. \A p \in Op : p # o => cancel'[p] = cancel[p] /\ req'[p] = req[p]
        BY <1>1, <2>3 DEF Step
      <4> QED
        BY <1>1, <4>1, <4>2, InvIs DEF Stopped, Told, history
    <3>5. session' # "open" => \A p \in sessions' \ late' : req'[p].halt # "None"
      BY <1>1, <2>5, InvIs DEF Stopped, Halts, Typing, tables, history
    <3> QED
      BY <1>1, <2>6, <3>1, <3>2, <3>3, <3>4, <3>5, InvIs DEF Stopped, history
  <2> QED
    BY <1>1, <2>3, <2>4, <2>5, <2>10, <2>11, HaltsKept DEF IInv, Step
<1> QED
  BY <1>2, <1>3

---------------------------------------------------------------------------
(* The queue of early cancels. *)

LEMMA Removed ==
    ASSUME NEW S, NEW q \in Seq(S), NEW i \in 1..Len(q)
    PROVE  /\ RemoveAt(q, i) \in Seq(S) /\ Len(RemoveAt(q, i)) = Len(q) - 1
           /\ \A j \in 1..Len(q) - 1 : RemoveAt(q, i)[j] = IF j < i THEN q[j] ELSE q[j + 1]
<1> DEFINE a == SubSeq(q, 1, i - 1)
           b == SubSeq(q, i + 1, Len(q))
<1>1. a \in Seq(S) /\ Len(a) = i - 1 /\ \A j \in 1..i - 1 : a[j] = q[j]
  OBVIOUS
<1>2. b \in Seq(S) /\ Len(b) = Len(q) - i /\ \A j \in 1..Len(q) - i : b[j] = q[j + i]
  OBVIOUS
<1>3. RemoveAt(q, i) = a \o b
  BY DEF RemoveAt
<1>4. i \in Nat /\ i <= Len(q) /\ i >= 1 /\ Len(q) \in Nat
  OBVIOUS
<1> HIDE DEF a, b
<1>5. a \o b \in Seq(S)
  BY <1>1, <1>2
<1>6. Len(a \o b) = Len(q) - 1
  <2>1. a \in Seq(S) /\ b \in Seq(S)
    BY <1>1, <1>2
  <2>2. Len(a \o b) = Len(a) + Len(b)
    BY ONLY <2>1
  <2> QED
    BY <1>1, <1>2, <1>4, <2>2
<1>7. \A j \in 1..Len(q) - 1 : (a \o b)[j] = IF j < i THEN q[j] ELSE q[j + 1]
  BY <1>1, <1>2
<1> QED
  BY <1>3, <1>5, <1>6, <1>7

\* k is the queue q with o behind it; what was near its end is as near still.
Extends(k, q, o) ==
    /\ k \in Seq(Op) /\ Len(k) <= EarlyLimit /\ Len(k) >= 1 /\ k[Len(k)] = o
    /\ \A p \in 1..Len(q) : Len(q) + 1 - p < EarlyLimit =>
          \E r \in 1..Len(k) : k[r] = q[p] /\ Len(k) - r = Len(q) + 1 - p
    /\ \A r \in 1..Len(k) : k[r] = o \/ \E p \in 1..Len(q) : k[r] = q[p]

\* The oldest makes room: the others keep their distance to the end.
LEMMA Pushed ==
    ASSUME NEW q \in Seq(Op), Len(q) <= EarlyLimit, NEW o \in Op
    PROVE  Extends(Keep(Append(q, o)), q, o)
<1> DEFINE a == Append(q, o)
<1>1. /\ a \in Seq(Op) /\ Len(a) = Len(q) + 1 /\ a[Len(q) + 1] = o
      /\ \A p \in 1..Len(q) : a[p] = q[p]
  OBVIOUS
<1>2. EarlyLimit \in Nat /\ EarlyLimit >= 1 /\ Len(q) \in Nat
  BY QueryAssumption
<1> HIDE DEF a
<1>3. CASE Len(a) > EarlyLimit
  <2>1. Keep(a) = Tail(a)
    BY <1>3 DEF Keep
  <2> DEFINE t == Tail(a)
  <2>2. a # <<>>
    BY <1>1, <1>2
  <2>3. t \in Seq(Op) /\ Len(t) = Len(a) - 1 /\ \A r \in 1..Len(t) : t[r] = a[r + 1]
    BY <1>1, <2>2
  <2> HIDE DEF t
  <2>4. Len(q) = EarlyLimit /\ Len(t) = Len(q)
    BY <1>1, <1>2, <1>3, <2>3
  <2>5. t[Len(t)] = o
    BY <1>1, <1>2, <2>3, <2>4
  <2>6. \A p \in 1..Len(q) : Len(q) + 1 - p < EarlyLimit =>
             /\ p - 1 \in 1..Len(t) /\ t[p - 1] = q[p] /\ Len(t) - (p - 1) = Len(q) + 1 - p
    BY <1>1, <1>2, <2>3, <2>4
  <2>7. \A r \in 1..Len(t) : t[r] = o \/ \E p \in 1..Len(q) : t[r] = q[p]
    <3> TAKE r \in 1..Len(t)
    <3>1. CASE r = Len(t)
      BY <2>5, <3>1
    <3>2. CASE r # Len(t)
      <4>1. r + 1 \in 1..Len(q) /\ t[r] = q[r + 1]
        BY <1>1, <1>2, <2>3, <2>4, <3>2
      <4> QED
        BY <4>1
    <3> QED
      BY <3>1, <3>2
  <2>8. /\ Len(t) <= EarlyLimit /\ Len(t) >= 1
        /\ \A p \in 1..Len(q) : Len(q) + 1 - p < EarlyLimit =>
               \E r \in 1..Len(t) : t[r] = q[p] /\ Len(t) - r = Len(q) + 1 - p
    BY <1>2, <2>4, <2>6
  <2> QED
    <3>1. Extends(t, q, o)
      BY <2>3, <2>5, <2>7, <2>8 DEF Extends
    <3> QED
      BY <2>1, <3>1 DEF a, t
<1>4. CASE ~(Len(a) > EarlyLimit)
  <2>1. Keep(a) = a
    BY <1>4 DEF Keep
  <2>2. \A p \in 1..Len(q) : p \in 1..Len(a) /\ a[p] = q[p] /\ Len(a) - p = Len(q) + 1 - p
    BY <1>1, <1>2
  <2>3. /\ Len(a) <= EarlyLimit /\ Len(a) >= 1 /\ a[Len(a)] = o
    BY <1>1, <1>2, <1>4
  <2>4. \A r \in 1..Len(a) : a[r] = o \/ \E p \in 1..Len(q) : a[r] = q[p]
    BY <1>1, <1>2
  <2> QED
    <3>1. Extends(a, q, o)
      BY <1>1, <2>2, <2>3, <2>4 DEF Extends
    <3> QED
      BY <2>1, <3>1 DEF a
<1> QED
  BY <1>3, <1>4

LEMMA CancelQueueKeeps ==
    ASSUME IInv, NEW o \in Op, CancelQueue(o)
    PROVE  IInv'
<1> DEFINE item == [op |-> o, pc |-> req[o].pc]
<1>1. /\ cancel[o] = "missed" /\ cancel' = [cancel EXCEPT ![o] = "done"]
      /\ early' = IF \E i \in 1..Len(early) : early[i] = o THEN early
                  ELSE Keep(Append(early, o))
      /\ queued' = Append(queued, item)
      /\ UNCHANGED <<catalog, mode, session, lease, operations, sessions, req, ui, saving,
                     moves, sent, late, stale>>
  BY DEF CancelQueue
<1>2. /\ early \in Seq(Op) /\ Len(early) <= EarlyLimit /\ Len(early) \in Nat
      /\ queued \in Seq([op : Op, pc : PC]) /\ Len(queued) \in Nat
  BY InvIs DEF Typing
<1>3. req[o].pc \in PC /\ req[o].pc \notin {"free", "approved"}
  BY <1>1, InvIs DEF CancelOnce, ReqRec
<1>4. item.op = o /\ item.pc = req[o].pc /\ item \in [op : Op, pc : PC]
  BY <1>3
<1> HIDE DEF item
<1>5. /\ queued' \in Seq([op : Op, pc : PC]) /\ Len(queued') = Len(queued) + 1
      /\ queued'[Len(queued) + 1] = item /\ \A i \in 1..Len(queued) : queued'[i] = queued[i]
  BY <1>1, <1>2, <1>4
<1>6. \A i \in 1..Len(early) : early[i] # o
  BY <1>1, InvIs DEF CancelOnce
<1>7. early' = Keep(Append(early, o))
  BY <1>1, <1>6
<1>8. /\ early' \in Seq(Op) /\ Len(early') <= EarlyLimit /\ Len(early') >= 1
      /\ early'[Len(early')] = o
      /\ \A p \in 1..Len(early) : Len(early) + 1 - p < EarlyLimit =>
            \E r \in 1..Len(early') :
               early'[r] = early[p] /\ Len(early') - r = Len(early) + 1 - p
      /\ \A r \in 1..Len(early') : early'[r] = o \/ \E p \in 1..Len(early) : early'[r] = early[p]
  <2>1. Extends(early', early, o)
    BY <1>2, <1>7, Pushed
  <2> QED
    BY <2>1 DEF Extends
<1>9. /\ cancel' \in [Op -> {"no", "called", "missed", "done"}] /\ cancel'[o] = "done"
      /\ \A p \in Op : p # o => cancel'[p] = cancel[p]
  BY <1>1, InvIs DEF Typing
<1>10. TypeOK'
  BY <1>1, <1>8, <1>9, InvIs, TypeIs DEF Typing
<1>11. Approval' /\ NoLeak' /\ Abandoned'
  <2>1. \A p \in Op : Ungated(p) /\ req'[p] = req[p]
    BY <1>1 DEF Ungated
  <2>2. Named(ui'.pending)
    BY <1>1, InvIs DEF Approval, Named
  <2> QED
    BY <1>1, <2>1, <2>2, SavesKept, ApprovalKept, NoLeakKept, AbandonedKept
<1>12. CancelOnce'
  <2>1. ui'.op # 0 => cancel'[ui'.op] = "no" /\ req'[ui'.op].pc \notin {"free", "approved"}
    BY <1>1, <1>9, Queues, InvIs DEF CancelOnce
  <2>2. \A p \in Op : cancel'[p] # "no" => req'[p].pc \notin {"free", "approved"}
    BY <1>1, <1>3, <1>9, InvIs DEF CancelOnce
  <2>3. ASSUME NEW i \in 1..Len(early') PROVE cancel'[early'[i]] = "done"
    <3>1. CASE early'[i] = o
      BY <1>9, <3>1
    <3>2. CASE early'[i] # o
      <4>1. PICK p \in 1..Len(early) : early'[i] = early[p]
        BY <1>8, <3>2
      <4>2. early[p] \in Op /\ cancel[early[p]] = "done"
        BY Queues, InvIs DEF CancelOnce
      <4> QED
        BY <1>9, <3>2, <4>1, <4>2
    <3> QED
      BY <3>1, <3>2
  <2>4. \A i \in 1..Len(queued') : cancel'[queued'[i].op] = "done"
    BY <1>2, <1>4, <1>5, <1>9, Queues, InvIs DEF CancelOnce
  <2> QED
    BY <2>1, <2>2, <2>3, <2>4 DEF CancelOnce
<1>13. \A p \in Op : Waits(p, BeforeBegin)' =>
                       Waits(p, BeforeBegin) \/ (p = o /\ req[o].pc \in BeforeBegin)
  <2> SUFFICES ASSUME NEW p \in Op, NEW i \in 1..Len(queued'), queued'[i].op = p,
                      queued'[i].pc \in BeforeBegin, Len(queued') - i < EarlyLimit
               PROVE  Waits(p, BeforeBegin) \/ (p = o /\ req[o].pc \in BeforeBegin)
    BY DEF Waits, BeforeBegin
  <2>1. CASE i = Len(queued) + 1
    BY <1>4, <1>5, <2>1
  <2>2. CASE i # Len(queued) + 1
    <3>1. i \in 1..Len(queued) /\ Len(queued) - i < EarlyLimit
      BY <1>2, <1>5, <2>2, QueryAssumption
    <3> QED
      BY <1>5, <3>1 DEF Waits
  <2> QED
    BY <2>1, <2>2
<1>14. \A p \in Op : Kept(p)'
  <2> SUFFICES ASSUME NEW p \in Op, req'[p].pc \in BeforeBegin,
                      NEW i \in 1..Len(queued'), queued'[i].op = p,
                      Len(queued') - i < EarlyLimit
               PROVE  \E r \in 1..Len(early') :
                          early'[r] = p /\ Len(early') - r <= Len(queued') - i
    BY DEF Kept, BeforeBegin
  <2>1. CASE i = Len(queued) + 1
    <3>1. p = o /\ Len(queued') - i = 0
      BY <1>2, <1>4, <1>5, <2>1
    <3>2. Len(early') \in 1..Len(early') /\ Len(early') - Len(early') = 0
      BY <1>8
    <3> QED
      BY <1>8, <3>1, <3>2
  <2>2. CASE i # Len(queued) + 1
    <3>1. i \in 1..Len(queued) /\ Len(queued) - i < EarlyLimit
          /\ Len(queued') - i = Len(queued) - i + 1
      BY <1>2, <1>5, <2>2, QueryAssumption
    <3>2. queued[i].op = p /\ req[p].pc \in BeforeBegin
      BY <1>1, <1>5, <3>1
    <3>3. PICK q \in 1..Len(early) : early[q] = p /\ Len(early) - q <= Len(queued) - i
      BY <3>1, <3>2, InvIs DEF Stopped, Kept
    <3>4. Len(early) + 1 - q < EarlyLimit
      <4>1. Len(queued) - i + 1 < EarlyLimit
        BY <3>1
      <4> QED
        BY <1>2, <3>3, <4>1, QueryAssumption
    <3>5. PICK r \in 1..Len(early') :
             early'[r] = early[q] /\ Len(early') - r = Len(early) + 1 - q
      BY <1>8, <3>4
    <3>6. Len(early') - r <= Len(queued') - i
      BY <1>2, <1>5, <3>1, <3>3, <3>5
    <3> QED
      BY <3>3, <3>5, <3>6
  <2> QED
    BY <2>1, <2>2
<1>15. \A p \in Op : Heard(p)'
  BY <1>1, <1>13, InvIs DEF Stopped, Heard, InBegin, BeforeBegin
<1>16. \A p \in Op : Told(p)'
  <2>1. Len(queued') \in 1..Len(queued') /\ queued'[Len(queued')].op = o
    BY <1>2, <1>4, <1>5
  <2>2. \A i \in 1..Len(queued) : i \in 1..Len(queued') /\ queued'[i] = queued[i]
    BY <1>2, <1>5
  <2> QED
    BY <1>1, <1>9, <2>1, <2>2, InvIs DEF Stopped, Told
<1>17. Stopped'
  BY <1>1, <1>13, <1>14, <1>15, <1>16, InvIs DEF Stopped, BeforeBegin
<1> QED
  BY <1>5, <1>10, <1>11, <1>12, <1>17 DEF IInv

LEMMA TakeEarlyKeeps ==
    ASSUME IInv, NEW o \in Op, TakeEarly(o)
    PROVE  IInv'
<1>1. /\ req[o].pc = "ready"
      /\ UNCHANGED <<catalog, mode, session, lease, operations, sessions, cancel, ui,
                     saving, moves, sent, queued, late, stale>>
  BY DEF TakeEarly, history
<1>2. /\ req[o] \in ReqRec /\ req \in [Op -> {Unused} \cup ReqRec]
      /\ early \in Seq(Op) /\ Len(early) <= EarlyLimit /\ Len(early) \in Nat
      /\ queued \in Seq([op : Op, pc : PC]) /\ Len(queued) \in Nat
  BY <1>1, InvIs DEF Typing
<1>3. PICK h \in {"None", "Cancelled"} :
         /\ req' = [req EXCEPT ![o].pc = "taken", ![o].halt = h]
         /\ \/ /\ h = "Cancelled"
               /\ \E i \in 1..Len(early) : early[i] = o /\ early' = RemoveAt(early, i)
            \/ /\ h = "None" /\ \A i \in 1..Len(early) : early[i] # o
               /\ early' = early
  BY DEF TakeEarly, FoundAt
<1>4. Step(o, "taken", h, req[o].res)
  <2>1. req[o].res \in {"rows", "approval", "error"} /\ "taken" \in PC
    BY <1>2 DEF ReqRec, PC, InBegin
  <2>2. req' = [req EXCEPT ![o] = [req[o] EXCEPT !.pc = "taken", !.halt = h]]
    BY <1>2, <1>3
  <2>3. [req[o] EXCEPT !.pc = "taken", !.halt = h]
          = [req[o] EXCEPT !.pc = "taken", !.halt = h, !.res = req[o].res]
    BY <1>2 DEF ReqRec
  <2>4. req' = [req EXCEPT ![o] = [req[o] EXCEPT !.pc = "taken", !.halt = h,
                                                 !.res = req[o].res]]
    BY <2>2, <2>3
  <2> QED
    BY <1>1, <2>1, <2>4, Stepped
<1>5. /\ early' \in Seq(Op) /\ Len(early') <= EarlyLimit
      /\ \A r \in 1..Len(early') : \E p \in 1..Len(early) : early'[r] = early[p]
      /\ \A p \in 1..Len(early) : early[p] # o =>
            \E r \in 1..Len(early') :
               early'[r] = early[p] /\ Len(early') - r <= Len(early) - p
  <2>1. CASE early' = early
    BY <1>2, <2>1
  <2>2. CASE \E i \in 1..Len(early) : early[i] = o /\ early' = RemoveAt(early, i)
    <3>1. PICK i \in 1..Len(early) : early[i] = o /\ early' = RemoveAt(early, i)
      BY <2>2
    <3>2. /\ early' \in Seq(Op) /\ Len(early') = Len(early) - 1
          /\ \A j \in 1..Len(early) - 1 : early'[j] = IF j < i THEN early[j] ELSE early[j + 1]
      BY <1>2, <3>1, Removed
    <3>3. \A r \in 1..Len(early') : \E p \in 1..Len(early) : early'[r] = early[p]
      <4> TAKE r \in 1..Len(early')
      <4>1. r \in 1..Len(early) /\ r + 1 \in 1..Len(early) /\ early'[r] \in {early[r], early[r + 1]}
        BY <1>2, <3>1, <3>2
      <4> QED
        BY <4>1
    <3>4. \A p \in 1..Len(early) : early[p] # o =>
            \E r \in 1..Len(early') :
               early'[r] = early[p] /\ Len(early') - r <= Len(early) - p
      <4> SUFFICES ASSUME NEW p \in 1..Len(early), p # i
                   PROVE  \E r \in 1..Len(early') :
                             early'[r] = early[p] /\ Len(early') - r <= Len(early) - p
        BY <3>1
      <4>1. CASE p < i
        <5>1. p \in 1..Len(early') /\ early'[p] = early[p] /\ Len(early') - p <= Len(early) - p
          BY <1>2, <3>1, <3>2, <4>1
        <5> QED
          BY <5>1
      <4>2. CASE p > i
        <5>1. p - 1 \in 1..Len(early') /\ early'[p - 1] = early[p]
              /\ Len(early') - (p - 1) <= Len(early) - p
          BY <1>2, <3>1, <3>2, <4>2
        <5> QED
          BY <5>1
      <4> QED
        BY <4>1, <4>2
    <3>5. Len(early') <= EarlyLimit
      BY <1>2, <3>2, QueryAssumption
    <3> QED
      BY <3>2, <3>3, <3>4, <3>5
  <2> QED
    BY <1>3, <2>1, <2>2
<1>6. TypeOK'
  BY <1>1, <1>4, <1>5, TypeIs, InvIs DEF Typing, Step
<1>7. Approval'
  <2>1. \A p \in Op : Ungated(p)
    BY <1>1, <1>4 DEF Step, Ungated, InBegin
  <2>2. Named(ui'.pending)
    BY <1>1, InvIs DEF Approval, Named
  <2> QED
    BY <1>1, <2>1, <2>2, SavesKept, ApprovalKept
<1>8. NoLeak'
  <2>1. \A p \in Op : /\ req'[p].pc \in Registered <=> req[p].pc \in Registered
                      /\ req[p].pc \in Joined => req'[p].pc \in Joined
    BY <1>1, <1>4 DEF Step, Registered, Joined, Flying
  <2> QED
    BY <1>1, <2>1, NoLeakKept
<1>9. Abandoned'
  <2>1. \A p \in Op : \/ req'[p] = req[p]
                      \/ /\ req[p].pc # "free" /\ req'[p].seq = req[p].seq
                         /\ req'[p].pc \notin {"free", "approved"} /\ req[p].pc # "done"
    BY <1>1, <1>4 DEF Step
  <2> QED
    BY <1>1, <2>1, AbandonedKept
<1>10. CancelOnce'
  <2>1. \A p \in Op : req[p].pc \notin {"free", "approved"}
                      => req'[p].pc \notin {"free", "approved"}
    BY <1>4 DEF Step
  <2>2. ASSUME NEW i \in 1..Len(early') PROVE cancel[early'[i]] = "done"
    <3>1. PICK p \in 1..Len(early) : early'[i] = early[p]
      BY <1>5
    <3>2. cancel[early[p]] = "done"
      BY InvIs DEF CancelOnce
    <3> QED
      BY <3>1, <3>2
  <2> QED
    BY <1>1, <2>1, <2>2, Queues, InvIs DEF CancelOnce
<1>11. \A p : Waits(p, BeforeBegin)' <=> Waits(p, BeforeBegin)
  <2>1. queued' = queued
    BY <1>1
  <2> QED
    BY <2>1, Zenon DEF Waits, BeforeBegin
<1>12. \A p \in Op : Kept(p)'
  <2> SUFFICES ASSUME NEW p \in Op, req'[p].pc \in BeforeBegin, NEW i \in 1..Len(queued),
                      queued[i].op = p, Len(queued) - i < EarlyLimit
               PROVE  \E r \in 1..Len(early') :
                          early'[r] = p /\ Len(early') - r <= Len(queued) - i
    BY <1>1 DEF Kept, BeforeBegin
  <2>1. p # o /\ req[p].pc \in BeforeBegin
    BY <1>4 DEF Step, BeforeBegin
  <2>2. PICK q \in 1..Len(early) : early[q] = p /\ Len(early) - q <= Len(queued) - i
    BY <2>1, InvIs DEF Stopped, Kept
  <2>3. PICK r \in 1..Len(early') : early'[r] = early[q] /\ Len(early') - r <= Len(early) - q
    BY <1>5, <2>1, <2>2
  <2>4. Len(early') - r <= Len(queued) - i
    BY <1>2, <1>5, <2>2, <2>3
  <2> QED
    BY <2>2, <2>3, <2>4
<1>13. Heard(o)'
  <2>1. Waits(o, BeforeBegin) => \E p \in 1..Len(early) : early[p] = o
    BY <1>1, InvIs DEF Stopped, Kept, Waits, BeforeBegin
  <2>2. Waits(o, BeforeBegin) => h = "Cancelled"
    BY <1>3, <2>1
  <2> QED
    BY <1>4, <1>11, <2>2 DEF Heard, Step
<1>14. \A p \in Op : Heard(p)' /\ Told(p)'
  <2>1. \A p \in Op : p # o => req'[p] = req[p]
    BY <1>4 DEF Step
  <2>2. Told(o)'
    BY <1>1, InvIs DEF Stopped, Told, Flying
  <2> QED
    BY <1>1, <1>11, <1>13, <2>1, <2>2, InvIs DEF Stopped, Heard, Told
<1>15. \A s \in sent' : /\ s.op \in Op /\ ~Waits(s.op, BeforeBegin)'
                        /\ req'[s.op].pc \in {"sent", "cancelling", "dropping", "respond", "done"}
  BY <1>1, <1>4, <1>11, InvIs DEF Stopped, Step
<1>16. session' # "open" => \A p \in sessions' \ late' : req'[p].halt # "None"
  <2>1. o \notin sessions
    BY <1>1, InvIs DEF NoLeak, Flying
  <2> QED
    BY <1>1, <1>4, <2>1, InvIs DEF Stopped, Step, Typing
<1> QED
  BY <1>1, <1>2, <1>6, <1>7, <1>8, <1>9, <1>10, <1>12, <1>14, <1>15, <1>16 DEF IInv, Stopped

---------------------------------------------------------------------------
(* The workbench. *)

\* What was in flight is abandoned: the workbench counts on.
LEMMA AbandonKeeps ==
    ASSUME IInv, ui' \in UiRec, ui'.seq = ui.seq + 1, Named(ui'.pending), Saves',
           moves' \in 0..MaxMove, stale' = stale \cup InFlight,
           \/ ui'.op = ui.op /\ cancel' = cancel
           \/ ui'.op = 0 /\ ui.op = 0 /\ cancel' = cancel
           \/ ui'.op = 0 /\ ui.op # 0 /\ cancel' = [cancel EXCEPT ![ui.op] = "called"],
           UNCHANGED <<catalog, mode, session, lease, tables, req, saving, sent, queued, late>>
    PROVE  IInv'
<1>1. /\ cancel' \in [Op -> {"no", "called", "missed", "done"}]
      /\ \A p \in Op : cancel'[p] # cancel[p] =>
            cancel[p] = "no" /\ cancel'[p] = "called" /\ req[p].pc \notin {"free", "approved"}
      /\ ui'.op # 0 => ui'.op = ui.op /\ cancel' = cancel
  BY Queues, InvIs DEF CancelOnce, Typing
<1>2. TypeOK' /\ queued' \in Seq([op : Op, pc : PC])
  BY <1>1, InvIs, TypeIs DEF Typing, tables
<1>3. Approval' /\ NoLeak'
  <2>1. \A p \in Op : Ungated(p) /\ req'[p] = req[p]
    BY DEF Ungated
  <2> QED
    BY <2>1, SavesKept, ApprovalKept, NoLeakKept DEF tables
<1>4. Abandoned'
  <2>1. \A p \in Op : req[p].pc # "free" =>
             req[p].seq \in Nat /\ req[p].seq <= ui.seq /\ ui.seq \in Nat
    BY InvIs DEF Abandoned, ReqRec, UiRec, Typing
  <2>2. \A p \in Op : req[p].pc # "free" => req[p].seq < ui'.seq /\ req[p].seq <= ui'.seq
    BY <2>1
  <2>3. \A p \in InFlight : p \in Op /\ req[p].pc \notin {"free", "approved"}
    BY DEF InFlight
  <2> QED
    BY <2>2, <2>3, InvIs DEF Abandoned
<1>5. CancelOnce'
  <2>1. \A i \in 1..Len(early) : cancel'[early[i]] = "done"
    BY <1>1, Queues, InvIs DEF CancelOnce
  <2>2. \A i \in 1..Len(queued) : cancel'[queued[i].op] = "done"
    BY <1>1, Queues, InvIs DEF CancelOnce
  <2> QED
    BY <1>1, <2>1, <2>2, InvIs DEF CancelOnce, tables
<1>6. Stopped'
  <2>1. \A p : Waits(p, BeforeBegin)' <=> Waits(p, BeforeBegin)
    <3>1. queued' = queued
      OBVIOUS
    <3> QED
      BY <3>1, Zenon DEF Waits, BeforeBegin
  <2>2. \A p \in Op : cancel'[p] = "done" => cancel[p] = "done"
    BY <1>1
  <2>3. \A p \in Op : Kept(p)' /\ Heard(p)' /\ Told(p)'
    BY <2>1, <2>2, InvIs DEF Stopped, Kept, Heard, Told, tables
  <2> QED
    BY <2>1, <2>3, InvIs DEF Stopped, tables
<1> QED
  BY <1>2, <1>3, <1>4, <1>5, <1>6 DEF IInv

LEMMA CancelKeeps ==
    ASSUME IInv, Cancel
    PROVE  IInv'
<1>1. /\ ui' \in UiRec /\ ui'.seq = ui.seq + 1 /\ ui'.op = 0 /\ ui'.pending = ui.pending
  <2> DEFINE n == ui.seq + 1
  <2>1. ui' = [ui EXCEPT !.seq = n, !.op = 0, !.busy = FALSE]
    BY DEF Cancel
  <2>2. ui \in UiRec /\ n \in Nat
    <3>1. ui.seq \in Nat
      BY InvIs DEF Typing, UiRec
    <3> QED
      BY <3>1, InvIs DEF Typing
  <2>3. n = ui.seq + 1
    OBVIOUS
  <2> HIDE DEF n
  <2> QED
    BY <2>1, <2>2, <2>3 DEF UiRec
<1>2. Named(ui'.pending) /\ Saves'
  BY <1>1, SavesKept, InvIs DEF Cancel, Approval
<1> QED
  BY <1>1, <1>2, AbandonKeeps, InvIs DEF Cancel, Typing

LEMMA SelectKeeps ==
    ASSUME IInv, NEW c \in Conn, Select(c)
    PROVE  IInv'
<1>1. /\ ui' \in UiRec /\ ui'.seq = ui.seq + 1 /\ ui'.op = ui.op /\ ui'.pending = NoCard
  <2> DEFINE n == ui.seq + 1
  <2>1. ui' = [ui EXCEPT !.sel = c, !.seq = n, !.pending = NoCard, !.busy = FALSE, !.shown = 0]
    BY DEF Select
  <2>2. ui \in UiRec /\ n \in Nat /\ NoCard \in Card
    <3>1. ui.seq \in Nat
      BY InvIs DEF Typing, UiRec
    <3> QED
      BY <3>1, InvIs, CardIs DEF Typing
  <2>3. n = ui.seq + 1
    OBVIOUS
  <2> HIDE DEF n
  <2> QED
    BY <2>1, <2>2, <2>3 DEF UiRec
<1>2. moves' \in 0..MaxMove /\ moves' = moves + 1
  BY InvIs, QueryAssumption DEF Select, Typing
<1>3. UNCHANGED <<catalog, saving>>
  BY DEF Select
<1>4. Named(ui'.pending) /\ Saves'
  BY <1>1, <1>2, <1>3, NoCardNamed, InvIs DEF Approval, Saves, Typing, Version, Rev
<1> QED
  BY <1>1, <1>2, <1>4, AbandonKeeps DEF Select

\* A new request; a lease that comes with it says what its card says.
LEMMA Opened ==
    ASSUME IInv, NEW o \in Op, req[o].pc = "free",
           NEW x \in ReqRec, x.pc \in {"called", "approved"}, x.seq = ui.seq, x.res = "error",
           x.leased => x.card # NoCard, Named(x.card), x.snap.rev = x.snap.target,
           req' = [req EXCEPT ![o] = x],
           ui' \in UiRec, ui'.seq = ui.seq, Named(ui'.pending),
           ui'.op = ui.op \/ (ui'.op = o /\ x.pc = "called"),
           \/ lease' = lease
           \/ \E l \in [id : Op, conn : Conn, rev : Rev, stmt : Stmt] :
                /\ lease' = lease \cup {l} /\ l.id = o /\ x.leased
                /\ x.card.conn = l.conn /\ x.card.rev = l.rev /\ x.card.stmt = l.stmt,
           UNCHANGED <<catalog, mode, session, tables, cancel, saving, moves, history>>
    PROVE  IInv'
<1>1. /\ req' \in [Op -> {Unused} \cup ReqRec] /\ req'[o] = x
      /\ \A p \in Op : p # o => req'[p] = req[p]
  BY InvIs DEF Typing
<1>2. lease' \subseteq [id : Op, conn : Conn, rev : Rev, stmt : Stmt]
  BY InvIs DEF Typing
<1>3. TypeOK' /\ queued' \in Seq([op : Op, pc : PC])
  BY <1>1, <1>2, InvIs, TypeIs DEF Typing, tables, history
<1>4. Approval'
  <2>1. \A p \in Op : p # o => Carded(p)' /\ Gated(p)'
    <3>1. \A p \in Op : p # o => Ungated(p)
      BY <1>1 DEF Ungated
    <3> QED
      BY <3>1, RequestKept
  <2>2. Carded(o)' /\ Gated(o)'
    BY <1>1 DEF Carded, Gated, InBegin
  <2>3. \A l \in lease : l.id \in Op /\ l.id # o /\ Leased(l)'
    BY <1>1, InvIs DEF Approval, Leased, Typing
  <2>4. \A l \in lease' : Leased(l)'
    BY <1>1, <2>3 DEF Leased
  <2>5. Saves' /\ OnlyApproved'
    BY SavesKept DEF history
  <2>6. Named(ui.pending)'
    BY DEF Named
  <2> QED
    BY <2>1, <2>2, <2>4, <2>5, <2>6 DEF Approval
<1>5. NoLeak'
  <2>1. \A p \in Op : /\ req'[p].pc \in Registered <=> req[p].pc \in Registered
                      /\ req[p].pc \in Joined => req'[p].pc \in Joined
    BY <1>1 DEF Registered, Joined, Flying
  <2> QED
    BY <2>1, NoLeakKept DEF tables
<1>6. Abandoned'
  <2>1. ui.seq \in Nat
    BY InvIs DEF Typing, UiRec
  <2> QED
    BY <1>1, <2>1, InvIs DEF Abandoned, history
<1>7. cancel[o] = "no"
  BY InvIs DEF CancelOnce, Typing
<1>8. CancelOnce'
  BY <1>1, <1>7, Queues, InvIs DEF CancelOnce, tables, history
<1>9. Stopped'
  <2>1. \A p \in Op : p # o => Onward(p)
    BY <1>1 DEF Onward
  <2>2. Onward(o)
    BY <1>1 DEF Onward, BeforeBegin, InBegin, Flying
  <2> QED
    BY <2>1, <2>2, StoppedKept DEF history, tables
<1> QED
  BY <1>3, <1>4, <1>5, <1>6, <1>8, <1>9 DEF IInv

\* Requests are made for the connection as it is.
LEMMA Requested ==
    ASSUME IInv, NEW o \in Op, NEW c \in Conn, NEW t \in Stmt, NEW k \in Card, Named(k)
    PROVE  LET x == Request(o, c, t, k) IN
           /\ x \in ReqRec /\ x.pc = "called" /\ x.seq = ui.seq /\ x.res = "error"
           /\ x.leased <=> k # NoCard
           /\ x.card = k /\ x.snap.rev = x.snap.target
<1>1. /\ catalog[c] \in Version /\ catalog[c].rev = catalog[c].target
      /\ ui.seq \in Nat /\ ui.known[c] \in Rev /\ "called" \in PC
      /\ (k # NoCard) \in BOOLEAN
  BY InvIs DEF Typing, UiRec, PC, Approval, Saves
<1> QED
  BY <1>1 DEF Request, ReqRec

LEMMA RunKeeps ==
    ASSUME IInv, NEW o \in Op, NEW t \in Stmt, Run(o, t)
    PROVE  IInv'
<1> DEFINE x == Request(o, ui.sel, t, NoCard)
           card == IF ui.pending # NoCard /\ ui.pending.stmt # t THEN NoCard ELSE ui.pending
<1>1. /\ req[o].pc = "free" /\ req' = [req EXCEPT ![o] = x]
      /\ ui' = [ui EXCEPT !.op = o, !.busy = TRUE, !.submitted = t, !.pending = card]
      /\ UNCHANGED <<catalog, mode, session, lease, tables, cancel, saving, moves, history>>
  BY DEF Run, Fresh
<1>2. /\ ui \in UiRec /\ ui.sel \in Conn /\ NoCard \in Card /\ card \in Card /\ Named(card)
  BY InvIs, CardIs, NoCardNamed DEF Typing, UiRec, Approval
<1>3. /\ x \in ReqRec /\ x.pc = "called" /\ x.seq = ui.seq /\ x.res = "error" /\ ~x.leased
      /\ x.card = NoCard /\ x.snap.rev = x.snap.target
  BY <1>2, NoCardNamed, Requested
<1> HIDE DEF x, card
<1>4. ui' \in UiRec /\ ui'.seq = ui.seq /\ ui'.op = o /\ ui'.pending = card
  BY <1>1, <1>2 DEF UiRec
<1> QED
  BY <1>1, <1>2, <1>3, <1>4, NoCardNamed, Opened

LEMMA ApproveKeeps ==
    ASSUME IInv, NEW o \in Op, Approve(o)
    PROVE  IInv'
<1> DEFINE k == ui.pending
           y == Request(o, ui.sel, k.stmt, k)
           x == [y EXCEPT !.pc = "approved"]
           l == [id |-> o, conn |-> k.conn, rev |-> k.rev, stmt |-> k.stmt]
           card == [k EXCEPT !.used = TRUE]
<1>1. /\ req[o].pc = "free" /\ k # NoCard /\ req' = [req EXCEPT ![o] = x]
      /\ lease' = lease \cup {l}
      /\ ui' = [ui EXCEPT !.pending = card]
      /\ UNCHANGED <<catalog, mode, session, tables, cancel, saving, moves, history>>
  BY DEF Approve, Fresh
<1>2. /\ ui \in UiRec /\ ui.sel \in Conn /\ k \in CardRec /\ Named(k) /\ k \in Card
  BY <1>1, InvIs, CardIs DEF Typing, UiRec, Approval
<1>3. /\ card \in CardRec /\ card.rev = k.rev /\ card.target = k.target
      /\ l \in [id : Op, conn : Conn, rev : Rev, stmt : Stmt] /\ k.stmt \in Stmt
      /\ l.id = o /\ l.conn = k.conn /\ l.rev = k.rev /\ l.stmt = k.stmt
  BY <1>2 DEF CardRec
<1>4. card \in Card /\ Named(card)
  BY <1>1, <1>2, <1>3, CardIs DEF Named
<1>5. /\ y \in ReqRec /\ y.seq = ui.seq /\ y.res = "error" /\ y.leased
      /\ y.card = k /\ y.snap.rev = y.snap.target
  BY <1>1, <1>2, <1>3, Requested
<1>6. "approved" \in PC
  BY DEF PC
<1> HIDE DEF y, l, card, k
<1>7. /\ x \in ReqRec /\ x.pc = "approved" /\ x.seq = ui.seq /\ x.res = "error" /\ x.leased
      /\ x.card = k /\ x.snap.rev = x.snap.target
  BY <1>5, <1>6 DEF ReqRec
<1> HIDE DEF x
<1>8. ui' \in UiRec /\ ui'.seq = ui.seq /\ ui'.op = ui.op /\ ui'.pending = card
  BY <1>1, <1>2, <1>4 DEF UiRec
<1> QED
  BY <1>1, <1>2, <1>3, <1>4, <1>7, <1>8, Opened

LEMMA ApproveRunKeeps ==
    ASSUME IInv, NEW o \in Op, ApproveRun(o)
    PROVE  IInv'
<1> DEFINE x == [req[o] EXCEPT !.pc = "called", !.seq = ui.seq]
<1>1. /\ req[o].pc = "approved"
      /\ UNCHANGED <<catalog, mode, session, lease, tables, cancel, saving, moves, history>>
      /\ ui' = [ui EXCEPT !.op = o, !.busy = TRUE, !.submitted = req[o].stmt]
  BY DEF ApproveRun
<1>2. /\ req[o] \in ReqRec /\ req \in [Op -> {Unused} \cup ReqRec] /\ ui \in UiRec
      /\ ui.seq \in Nat /\ req[o].stmt \in Stmt /\ "called" \in PC
  BY <1>1, InvIs DEF Typing, UiRec, ReqRec, PC
<1>3. req' = [req EXCEPT ![o] = x]
  BY <1>2 DEF ApproveRun
<1>4. /\ x \in ReqRec /\ x.pc = "called" /\ x.seq = ui.seq /\ x.res = req[o].res
      /\ x.conn = req[o].conn /\ x.stmt = req[o].stmt /\ x.leased = req[o].leased
      /\ x.snap = req[o].snap /\ x.card = req[o].card
  BY <1>2 DEF ReqRec
<1> HIDE DEF x
<1>5. /\ req' \in [Op -> {Unused} \cup ReqRec] /\ req'[o] = x
      /\ \A p \in Op : p # o => req'[p] = req[p]
  BY <1>2, <1>3, <1>4
<1>6. ui' \in UiRec /\ ui'.seq = ui.seq /\ ui'.op = o /\ ui'.pending = ui.pending
  BY <1>1, <1>2 DEF UiRec
<1>7. TypeOK' /\ queued' \in Seq([op : Op, pc : PC])
  BY <1>1, <1>5, <1>6, InvIs, TypeIs DEF Typing, tables, history
<1>8. Approval'
  <2>1. \A p \in Op : Ungated(p)
    BY <1>1, <1>4, <1>5 DEF Ungated, Same, InBegin
  <2>2. Named(ui'.pending)
    BY <1>6, InvIs DEF Approval
  <2> QED
    BY <1>1, <2>1, <2>2, SavesKept, ApprovalKept DEF history
<1>9. NoLeak'
  <2>1. \A p \in Op : /\ req'[p].pc \in Registered <=> req[p].pc \in Registered
                      /\ req[p].pc \in Joined => req'[p].pc \in Joined
    BY <1>1, <1>4, <1>5 DEF Registered, Joined, Flying
  <2> QED
    BY <1>1, <2>1, NoLeakKept DEF tables
<1>10. Abandoned'
  BY <1>1, <1>2, <1>4, <1>5, <1>6, InvIs DEF Abandoned, history
<1>11. cancel[o] = "no"
  BY <1>1, InvIs DEF CancelOnce, Typing
<1>12. CancelOnce'
  BY <1>1, <1>4, <1>5, <1>6, <1>11, Queues, InvIs DEF CancelOnce, tables, history
<1>13. Stopped'
  <2>1. \A p \in Op : p # o => Onward(p)
    BY <1>5 DEF Onward
  <2>2. Told(o)' /\ Heard(o)' /\ Kept(o)'
    <3>1. \A i \in 1..Len(queued) : queued[i].op # o
      BY <1>11, InvIs DEF CancelOnce
    <3> QED
      BY <1>1, <1>4, <1>5, <1>11, <3>1
         DEF Told, Heard, Kept, BeforeBegin, InBegin, history, tables
  <2>3. \A p : Waits(p, BeforeBegin)' <=> Waits(p, BeforeBegin)
    <3>1. queued' = queued
      BY <1>1 DEF history
    <3> QED
      BY <3>1, Zenon DEF Waits, BeforeBegin
  <2>4. \A p \in Op : p # o => Told(p)' /\ Heard(p)' /\ Kept(p)'
    BY <1>1, <1>5, <2>3, InvIs DEF Stopped, Told, Heard, Kept, history, tables
  <2>5. o \notin sessions /\ \A s \in sent : s.op # o
    BY <1>1, InvIs DEF NoLeak, Stopped, Flying
  <2> QED
    BY <1>1, <1>5, <2>2, <2>3, <2>4, <2>5, InvIs DEF Stopped, Typing, history, tables
<1> QED
  BY <1>7, <1>8, <1>9, <1>10, <1>12, <1>13 DEF IInv

---------------------------------------------------------------------------
(* The gate. *)

LEMMA AuthorizeKeeps ==
    ASSUME IInv, NEW o \in Op, Authorize(o)
    PROVE  IInv'
<1> DEFINE r == [req[o] EXCEPT !.snap = catalog[req[o].conn]]
           found == {l \in lease : Matches(l, r, o)}
           card == [op |-> o, conn |-> r.conn, stmt |-> r.stmt, rev |-> r.snap.rev,
                    target |-> r.snap.target, used |-> FALSE]
<1>1. /\ req[o].pc = "called"
      /\ UNCHANGED <<catalog, mode, session, tables, cancel, ui, saving, moves, history>>
  BY DEF Authorize
<1>2. /\ req[o] \in ReqRec /\ req \in [Op -> {Unused} \cup ReqRec] /\ Carded(o)
      /\ \A c \in Conn : catalog[c] \in Version /\ catalog[c].rev = catalog[c].target
  BY <1>1, InvIs DEF Typing, Approval, Saves
<1>3. PICK n \in {"respond", "ready"}, s \in {"error", "approval", req[o].res},
           k \in {req[o].card, card} :
      LET x == [r EXCEPT !.pc = n, !.res = s, !.card = k] IN
      /\ req' = [req EXCEPT ![o] = x]
      /\ \/ n = "respond" /\ s = "error" /\ k = req[o].card /\ lease' = lease
         \/ n = "respond" /\ s = "approval" /\ k = card /\ lease' = lease /\ ~r.leased
         \/ /\ n = "ready" /\ s = req[o].res /\ k = req[o].card
            /\ \/ /\ Decision(r.stmt) = "approval" /\ r.leased /\ found # {}
                  /\ lease' = lease \ found
               \/ Decision(r.stmt) = "allow" /\ lease' = lease
  <2>1. /\ r \in ReqRec /\ r.card = req[o].card /\ r.res = req[o].res
    BY <1>2 DEF ReqRec
  <2>2. Authorize(o) =>
      \/ req' = [req EXCEPT ![o] = [r EXCEPT !.pc = "respond", !.res = "error"]] /\ lease' = lease
      \/ /\ req' = [req EXCEPT ![o] = [r EXCEPT !.pc = "respond", !.res = "approval", !.card = card]]
         /\ lease' = lease /\ ~r.leased
      \/ /\ req' = [req EXCEPT ![o] = [r EXCEPT !.pc = "ready"]]
         /\ \/ /\ Decision(r.stmt) = "approval" /\ r.leased /\ found # {}
               /\ lease' = lease \ found
            \/ Decision(r.stmt) = "allow" /\ lease' = lease
    BY DEF Authorize
  <2> HIDE DEF r, found, card
  <2>3. /\ [r EXCEPT !.pc = "respond", !.res = "error"]
              = [r EXCEPT !.pc = "respond", !.res = "error", !.card = req[o].card]
        /\ [r EXCEPT !.pc = "ready"]
              = [r EXCEPT !.pc = "ready", !.res = req[o].res, !.card = req[o].card]
    BY <2>1 DEF ReqRec
  <2> QED
    BY <2>2, <2>3
<1> DEFINE x == [r EXCEPT !.pc = n, !.res = s, !.card = k]
<1>4. /\ r \in ReqRec /\ r.conn = req[o].conn /\ r.stmt = req[o].stmt /\ r.leased = req[o].leased
      /\ r.card = req[o].card /\ r.halt = req[o].halt /\ r.seq = req[o].seq
      /\ r.snap = catalog[req[o].conn] /\ r.snap.rev = r.snap.target /\ r.snap \in Version
      /\ r.conn \in Conn /\ r.stmt \in Stmt
  BY <1>2 DEF ReqRec
<1>5. /\ card \in CardRec /\ card.op = o /\ card.rev = r.snap.rev /\ card.target = r.snap.target
  BY <1>4 DEF CardRec, Version
<1>6. k \in Card /\ n \in PC /\ s \in {"rows", "approval", "error"}
  BY <1>2, <1>5, CardIs DEF PC, ReqRec
<1>7. \A l \in found : l \in lease /\ l.id = o /\ l.conn = r.conn /\ l.rev = r.snap.rev /\ l.stmt = r.stmt
  BY DEF Matches
<1>8. x = [r EXCEPT !.pc = n, !.res = s, !.card = k]
  OBVIOUS
<1> HIDE DEF r, found, card, x
<1>9. /\ x \in ReqRec /\ x.pc = n /\ x.res = s /\ x.card = k /\ x.conn = r.conn
      /\ x.stmt = r.stmt /\ x.leased = r.leased /\ x.snap = r.snap /\ x.halt = r.halt
      /\ x.seq = r.seq
  BY <1>4, <1>6, <1>8 DEF ReqRec
<1>10. /\ req' \in [Op -> {Unused} \cup ReqRec] /\ req'[o] = x
       /\ \A p \in Op : p # o => req'[p] = req[p]
  BY <1>2, <1>3, <1>8, <1>9
<1>11. lease' \subseteq lease
  BY <1>3
<1>12. TypeOK' /\ queued' \in Seq([op : Op, pc : PC])
  BY <1>1, <1>10, <1>11, InvIs, TypeIs DEF Typing, tables, history
<1>13. Approval'
  <2>1. \A p \in Op : p # o => Carded(p)' /\ Gated(p)'
    BY <1>1, <1>10, RequestKept DEF Ungated
  <2>2. Carded(o)'
    <3>1. Named(k) /\ (r.leased => k # NoCard) /\ (s = "approval" => k.op = o)
      BY <1>1, <1>2, <1>3, <1>4, <1>5 DEF Carded, Named
    <3> QED
      BY <1>4, <1>9, <1>10, <3>1 DEF Carded
  <2>3. Gated(o)'
    <3>1. CASE Decision(r.stmt) = "approval" /\ r.leased /\ found # {} /\ k = req[o].card
      <4>1. PICK l \in found : TRUE
        BY <3>1
      <4>2. /\ k.conn = l.conn /\ k.rev = l.rev /\ k.stmt = l.stmt /\ k # NoCard /\ k.rev = k.target
        BY <1>1, <1>2, <1>4, <1>7, <3>1, <4>1, InvIs DEF Approval, Leased, Carded, Named
      <4>3. k.conn = r.conn /\ k.stmt = r.stmt /\ k.target = r.snap.target
        BY <1>4, <1>7, <4>1, <4>2
      <4> QED
        BY <1>1, <1>9, <1>10, <3>1, <4>2, <4>3 DEF Gated, Decision
    <3>2. CASE Decision(r.stmt) = "allow"
      BY <1>1, <1>9, <1>10, <3>2 DEF Gated, Decision
    <3>3. CASE n = "respond"
      BY <1>9, <1>10, <3>3 DEF Gated, InBegin
    <3> QED
      BY <1>3, <3>1, <3>2, <3>3
  <2>4. \A l \in lease' : Leased(l)'
    <3> SUFFICES ASSUME NEW l \in lease, l \in lease' PROVE Leased(l)'
      BY <1>11
    <3>1. l.id \in Op /\ Leased(l)
      BY InvIs DEF Approval, Typing
    <3>2. CASE l.id # o
      BY <1>10, <3>1, <3>2 DEF Leased
    <3>3. CASE l.id = o
      <4>1. req[o].leased
        BY <3>1, <3>3 DEF Leased
      <4>2. k = req[o].card
        BY <1>3, <1>4, <4>1
      <4> QED
        BY <1>3, <1>4, <1>9, <1>10, <3>1, <3>3, <4>2 DEF Leased
    <3> QED
      BY <3>2, <3>3
  <2>5. Saves' /\ OnlyApproved'
    BY <1>1, SavesKept DEF history
  <2>6. Named(ui.pending)'
    BY <1>1, InvIs DEF Approval, Named
  <2> QED
    BY <2>1, <2>2, <2>3, <2>4, <2>5, <2>6 DEF Approval
<1>14. NoLeak'
  <2>1. \A p \in Op : /\ req'[p].pc \in Registered <=> req[p].pc \in Registered
                      /\ req[p].pc \in Joined => req'[p].pc \in Joined
    BY <1>1, <1>9, <1>10 DEF Registered, Joined, Flying
  <2> QED
    BY <1>1, <2>1, NoLeakKept DEF tables
<1>15. Abandoned'
  <2>1. \A p \in Op : \/ req'[p] = req[p]
                      \/ /\ req[p].pc # "free" /\ req'[p].seq = req[p].seq
                         /\ req'[p].pc \notin {"free", "approved"} /\ req[p].pc # "done"
    BY <1>1, <1>4, <1>9, <1>10
  <2> QED
    BY <1>1, <2>1, AbandonedKept DEF history
<1>16. CancelOnce'
  <2>1. \A p \in Op : req[p].pc \notin {"free", "approved"}
                      => req'[p].pc \notin {"free", "approved"}
    BY <1>9, <1>10
  <2> QED
    BY <1>1, <2>1, CancelOnceKept DEF history, tables
<1>17. Stopped'
  <2>1. \A p \in Op : Onward(p)
    BY <1>1, <1>4, <1>9, <1>10 DEF Onward, Flying, InBegin, BeforeBegin
  <2> QED
    BY <1>1, <2>1, StoppedKept DEF history, tables
<1> QED
  BY <1>12, <1>13, <1>14, <1>15, <1>16, <1>17 DEF IInv

---------------------------------------------------------------------------

LEMMA Start == Init => IInv
<1> SUFFICES ASSUME Init PROVE IInv
  OBVIOUS
<1>1. /\ MaxMove \in Nat /\ EarlyLimit \in Nat \ {0} /\ 1 \in Rev /\ moves \in Nat
      /\ [rev |-> 1, target |-> 1] \in Version
  <2>1. MaxMove \in Nat /\ EarlyLimit \in Nat \ {0}
    BY QueryAssumption
  <2>2. moves \in 0..MaxMove
    BY DEF Init
  <2>3. 1 \in Rev
    BY <2>1 DEF Rev
  <2> QED
    BY <2>1, <2>2, <2>3 DEF Version
<1>2. PICK c \in Conn :
         ui = [sel |-> c, known |-> [d \in Conn |-> 1], seq |-> 0, op |-> 0, busy |-> FALSE,
               pending |-> NoCard, submitted |-> "", shown |-> 0]
  BY DEF Init
<1>3. ui \in UiRec
  BY <1>1, <1>2, CardIs DEF UiRec
<1>4. TypeOK
  <2>1. \A o \in Op : req[o] = Unused
    BY DEF Init
  <2>2. req \in [Op -> {Unused} \cup ReqRec]
    BY <2>1 DEF Init
  <2>3. Cardinality({}) = 0
    BY FS_EmptySet
  <2>4. catalog \in [Conn -> Version] /\ cancel \in [Op -> {"no", "called", "missed", "done"}]
    BY <1>1 DEF Init
  <2>5. /\ early \in Seq(Op) /\ Len(early) <= EarlyLimit
        /\ saving \subseteq Conn /\ Cardinality(saving) <= 1
    <3>1. early = <<>> /\ saving = {}
      BY DEF Init
    <3>2. Len(<<>>) = 0 /\ <<>> \in Seq(Op)
      OBVIOUS
    <3> QED
      BY <1>1, <2>3, <3>1, <3>2
  <2>6. Typing
    BY <1>3, <2>2, <2>4, <2>5 DEF Init, Typing
  <2> QED
    BY <2>6, TypeIs
<1>5. \A o \in Op : req[o].pc = "free" /\ cancel[o] = "no"
  BY DEF Init, Unused
<1>6. Approval
  <2>1. Saves
    <3>1. /\ saving = {}
          /\ \A d \in Conn : catalog[d].rev = 1 /\ catalog[d].target = 1
      BY DEF Init
    <3> QED
      BY <1>1, <3>1 DEF Saves
  <2>2. Named(ui.pending)
    BY <1>2, NoCardNamed
  <2>3. \A o \in Op : Carded(o) /\ Gated(o)
    BY <1>5 DEF Carded, Gated, InBegin
  <2>4. lease = {} /\ OnlyApproved
    BY DEF Init, OnlyApproved
  <2> QED
    BY <2>1, <2>2, <2>3, <2>4 DEF Approval
<1>7. NoLeak /\ Abandoned /\ CancelOnce
  <2>1. /\ operations = {} /\ sessions = {} /\ stale = {} /\ ui.op = 0
        /\ Len(early) = 0 /\ Len(queued) = 0
    BY <1>2 DEF Init
  <2> QED
    BY <1>5, <2>1 DEF NoLeak, Abandoned, CancelOnce, Flying
<1>8. Stopped
  <2>1. sent = {} /\ sessions = {} /\ Len(queued) = 0
    BY DEF Init
  <2>2. \A o \in Op : ~Waits(o, BeforeBegin)
    BY <2>1 DEF Waits
  <2>3. \A o \in Op : Kept(o) /\ Heard(o) /\ Told(o)
    BY <1>5, <2>1, <2>2 DEF Kept, Heard, Told
  <2> QED
    BY <2>1, <2>3 DEF Stopped
<1>9. queued \in Seq([op : Op, pc : PC])
  <2>1. queued = <<>>
    BY DEF Init
  <2> QED
    BY <2>1
<1> QED
  BY <1>4, <1>6, <1>7, <1>8, <1>9 DEF IInv

LEMMA StepKeeps == IInv /\ [Next]_vars => IInv'
<1> SUFFICES ASSUME IInv, [Next]_vars PROVE IInv'
  OBVIOUS
<1>1. ASSUME NEW o \in Op, \E t \in Stmt : Run(o, t) PROVE IInv'
  BY <1>1, RunKeeps
<1>2. ASSUME NEW o \in Op, Approve(o) PROVE IInv'
  BY <1>2, ApproveKeeps
<1>3. ASSUME NEW o \in Op, Command(o) PROVE IInv'
  BY <1>3, ApproveRunKeeps, AuthorizeKeeps, TakeEarlyKeeps, BeginKeeps, DriverKeeps, DropKeeps,
     DeliverKeeps DEF Command
<1>4. ASSUME NEW o \in Op, Send(o) \/ Finish(o) \/ CancelAnswered(o) PROVE IInv'
  BY <1>4, SendKeeps, DriverKeeps
<1>5. ASSUME NEW o \in Op, CancelLookup(o) \/ CancelQueue(o) PROVE IInv'
  BY <1>5, LookupKeeps, CancelQueueKeeps
<1>6. CASE Reject \/ Cancel \/ SaveDone \/ CloseSession \/ RemoveSession
  BY <1>6, RejectKeeps, CancelKeeps, SaveDoneKeeps, CloseKeeps, ElsewhereKeeps
<1>7. ASSUME NEW c \in Conn, Select(c) \/ SwitchWorkspace(c) \/ Save(c) PROVE IInv'
  BY <1>7, SelectKeeps, SwitchKeeps, SaveKeeps
<1>8. CASE \E l \in lease : LeaseExpires(l)
  BY <1>8, ElsewhereKeeps
<1>9. CASE UNCHANGED vars
  <2>1. UNCHANGED <<catalog, mode, session, lease, tables, req, cancel, ui, saving, moves, history>>
    BY <1>9 DEF vars, tables, history
  <2>2. TypeOK'
    BY <2>1, InvIs, TypeIs DEF Typing, tables
  <2>3. Named(ui'.pending)
    BY <2>1, InvIs DEF Approval, Named
  <2> QED
    BY <2>1, <2>2, <2>3, SavesKept, StillKeeps
<1> QED
  BY <1>1, <1>2, <1>3, <1>4, <1>5, <1>6, <1>7, <1>8, <1>9 DEF Next, Idle

LEMMA Inductive == Spec => []IInv
BY Start, StepKeeps, PTL DEF Spec

\* Types.
THEOREM TypeCorrect == Spec => []TypeOK
<1>1. IInv => TypeOK
  BY DEF IInv
<1> QED
  BY <1>1, Inductive, PTL

\* A statement that needs an approval reaches a server only as the user
\* approved it, for the connection and the server that the card was made for.
THEOREM RunsAsApproved == Spec => []OnlyApproved
<1>1. IInv => OnlyApproved
  BY DEF IInv, Approval
<1> QED
  BY <1>1, Inductive, PTL

\* The tables of flights hold the running queries and nothing else.
THEOREM TablesAreExact == Spec => []NoLeak
<1>1. IInv => NoLeak
  BY DEF IInv
<1> QED
  BY <1>1, Inductive, PTL

\* A cancel that does not overlap begin, and a close of the session, reach the
\* query they are for.
THEOREM StopsAreHeard == Spec => []StopHeard
<1>1. IInv => StopHeard
  <2> SUFFICES ASSUME IInv PROVE StopHeard
    OBVIOUS
  <2>1. ASSUME NEW o \in Op, cancel[o] = "done", req[o].pc \in Flying
        PROVE  \/ req[o].halt # "None"
               \/ ~Waits(o, BeforeBegin) /\ \E i \in 1..Len(queued) : queued[i].op = o
    BY <2>1, InvIs DEF Stopped, Heard, Told, Flying
  <2> QED
    BY <2>1, InvIs DEF Stopped, StopHeard
<1> QED
  BY <1>1, Inductive, PTL

LEMMA ShownLate ==
    ASSUME IInv, [Next]_vars, NEW o \in stale
    PROVE  /\ ui'.shown = o => ui.shown = o
           /\ ui'.pending.op = o => ui.pending.op = o
<1>1. /\ ui \in UiRec /\ o \in Op /\ o # 0 /\ NoCard.op # o
      /\ req[o].pc = "done" \/ req[o].seq < ui.seq
  BY InvIs, QueryAssumption DEF Abandoned, Typing, NoCard
<1>2. CASE ui' = ui
  BY <1>2
<1>3. ASSUME NEW p \in Op, NEW t \in Stmt, Run(p, t)
      PROVE  ui'.shown = ui.shown /\ ui'.pending \in {ui.pending, NoCard}
  <2> DEFINE card == IF ui.pending # NoCard /\ ui.pending.stmt # t THEN NoCard ELSE ui.pending
  <2>1. ui' = [ui EXCEPT !.op = p, !.busy = TRUE, !.submitted = t, !.pending = card]
    BY <1>3 DEF Run
  <2>2. card \in {ui.pending, NoCard}
    OBVIOUS
  <2> HIDE DEF card
  <2> QED
    BY <1>1, <2>1, <2>2 DEF UiRec
<1>4. ASSUME NEW p \in Op, Approve(p)
      PROVE  ui'.shown = ui.shown /\ ui'.pending.op = ui.pending.op
  <2> DEFINE card == [ui.pending EXCEPT !.used = TRUE]
  <2>1. ui' = [ui EXCEPT !.pending = card] /\ ui.pending \in CardRec
    BY <1>1, <1>4, CardIs DEF Approve, UiRec
  <2>2. card.op = ui.pending.op
    BY <2>1 DEF CardRec
  <2> HIDE DEF card
  <2> QED
    BY <1>1, <2>1, <2>2 DEF UiRec
<1>5. ASSUME NEW p \in Op, ApproveRun(p) PROVE ui'.shown = ui.shown /\ ui'.pending = ui.pending
  BY <1>1, <1>5 DEF ApproveRun, UiRec
<1>6. ASSUME NEW p \in Op, Deliver(p)
      PROVE  \/ ui' = ui
             \/ /\ p # o /\ ui'.shown \in {ui.shown, p}
                /\ ui'.pending \in {ui.pending, NoCard} \/ ui'.pending.op = p
  <2> DEFINE idle == [ui EXCEPT !.busy = FALSE]
             shown == IF req[p].res = "rows" THEN p ELSE ui.shown
  <2>1. \/ ui' = ui
        \/ /\ req[p].seq = ui.seq
           /\ \/ ui' = idle
              \/ req[p].res = "approval" /\ ui' = [idle EXCEPT !.pending = req[p].card]
              \/ ui' = [idle EXCEPT !.pending = NoCard, !.shown = shown]
    BY <1>6 DEF Deliver
  <2>2. req[p].pc = "respond" /\ (req[p].res = "approval" => req[p].card.op = p)
    BY <1>6, InvIs DEF Deliver, Approval, Carded
  <2>3. req[p].seq = ui.seq => p # o
    <3>1. ui.seq \in Nat
      BY <1>1 DEF UiRec
    <3> QED
      BY <1>1, <2>2, <3>1
  <2>4. /\ idle \in UiRec /\ idle.shown = ui.shown /\ idle.pending = ui.pending
        /\ shown \in {p, ui.shown}
    BY <1>1 DEF UiRec
  <2> HIDE DEF idle, shown
  <2> QED
    BY <2>1, <2>2, <2>3, <2>4 DEF UiRec
<1>7. ASSUME Reject \/ Cancel \/ SaveDone
      PROVE  ui'.shown = ui.shown /\ ui'.pending \in {ui.pending, NoCard}
  BY <1>1, <1>7 DEF Reject, Cancel, SaveDone, UiRec
<1>8. ASSUME NEW c \in Conn, Select(c) \/ SwitchWorkspace(c) \/ Save(c)
      PROVE  ui'.shown \in {ui.shown, 0} /\ ui'.pending \in {ui.pending, NoCard}
  BY <1>1, <1>8 DEF Select, SwitchWorkspace, Save, UiRec
<1>9. ASSUME NEW p \in Op, Command(p), ~ApproveRun(p), ~Deliver(p) PROVE ui' = ui
  BY <1>9 DEF Command, Authorize, TakeEarly, InsertOperation, PushSession, Dial, Timeout, Halted,
     Drop
<1>10. ASSUME NEW p \in Op, Send(p) \/ Finish(p) \/ CancelAnswered(p) \/ CancelLookup(p)
                               \/ CancelQueue(p)
       PROVE  ui' = ui
  BY <1>10 DEF Send, Finish, CancelAnswered, CancelLookup, CancelQueue
<1>11. ASSUME CloseSession \/ RemoveSession \/ (\E l \in lease : LeaseExpires(l))
                \/ UNCHANGED vars
       PROVE  ui' = ui
  BY <1>11 DEF CloseSession, RemoveSession, LeaseExpires, vars
<1> QED
  BY <1>1, <1>2, <1>3, <1>4, <1>5, <1>6, <1>7, <1>8, <1>9, <1>10, <1>11 DEF Next, Idle

\* What was in flight at a Cancel, or at a click on another connection, is not
\* shown afterwards: the workbench drops the response by its sequence number.
THEOREM LateIsDropped == Spec => NoLateResult
<1>1. ASSUME IInv, [Next]_vars, NEW o \in stale
      PROVE  /\ ui'.shown = o => ui.shown = o
             /\ ui'.pending.op = o => ui.pending.op = o
  BY <1>1, ShownLate
<1>2. IInv /\ [Next]_vars
      => [\A o \in stale : /\ ui'.shown = o => ui.shown = o
                           /\ ui'.pending.op = o => ui.pending.op = o]_vars
  BY <1>1
<1> QED
  BY <1>2, Inductive, PTL DEF Spec, NoLateResult
=============================================================================
