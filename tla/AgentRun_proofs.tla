--------------------------- MODULE AgentRun_proofs ---------------------------
(***************************************************************************)
(* Proofs about the runs of a session, for every set of runs and every     *)
(* bound on calls and restarts.                                            *)
(*                                                                         *)
(* A step changes one run, or every run in the same way, so the invariant  *)
(* is a predicate on State(r): a run with its loop, disk, conversation and *)
(* history.  The operators the actions are built from take such a value    *)
(* and return one; each has a lemma about the parts it changes.            *)
(***************************************************************************)
EXTENDS AgentRun, TLAPS, FiniteSetTheorems, WellFoundedInduction

---------------------------------------------------------------------------
(* The invariant of one run. *)

Pend    == [kind : Kind, call : Call, fut : {"loop", "open", "done"}]
RunRec  == [mem : BOOLEAN, status : Active \cup Ended \cup {"idle"},
            cancelReq : BOOLEAN, hydrated : BOOLEAN, dog : BOOLEAN,
            pend : Pend \cup {None}, memo : Wait \cup {None}]
LoopRec == [pc : Kind \cup {"off", "sample", "dying"}, call : Call \cup {0},
            got : {"open", "yes", "no", "cancelled", "dead"},
            by : {"call", "resume", "rearm"}, todo : SUBSET Call]
DiskRec == [log : BOOLEAN, snap : Wait \cup {None}]
TalkRec == [asked : 0..MaxCall, msgs : [Call -> Nat],
            base : 0..MaxCall, came : [Call -> Nat]]
HistRec == [gated : SUBSET Call, approved : SUBSET Call, rejected : SUBSET Call,
            sent : [Call -> 0..2], unsaved : SUBSET Wait, unremoved : SUBSET Wait,
            ended : BOOLEAN]
StateRec == [run : RunRec, loop : LoopRec, disk : DiskRec, talk : TalkRec, hist : HistRec]

\* A run this process created, and not one it read back from disk.
Created(s) == s.run.mem /\ ~s.run.hydrated

\* Nothing has happened to a call the model has not asked for.
FreshUntouched(s) ==
    \A c \in Call : c > s.talk.asked =>
        s.hist.sent[c] = 0 /\ c \notin s.hist.gated /\ s.talk.msgs[c] = 0

\* The approval of a call outlived its removal, and the dispatch that followed
\* was not noted either.
Outlives(h, c) == [kind |-> "approval", call |-> c] \in h.unremoved
Doubled(h, c)  == Outlives(h, c) /\ [kind |-> "tool", call |-> c] \in h.unsaved

\* An approval that is still to be decided, as far as the files told.
Undecided(h, c) ==
    /\ c \in h.gated
    /\ c \in h.rejected => Outlives(h, c)
    /\ h.sent[c] = 0 \/ Doubled(h, c)

\* A wait that may be taken up, of a run that has asked for n calls.
Pending(h, n, w) ==
    w # None => /\ w.call <= n
                /\ w.kind = "approval" => Undecided(h, w.call)

\* What can be re-armed, from the file or the metadata, may be taken up, and
\* the metadata knows nothing that the file does not, but for failed saves.
SnapPending(s) ==
    /\ Pending(s.hist, s.talk.asked, s.disk.snap)
    /\ Pending(s.hist, s.talk.asked, s.run.memo)
    /\ s.run.memo # None => s.run.memo = s.disk.snap \/ s.run.memo \in s.hist.unsaved

\* The call of a loop that waits.
LoopPending(s) ==
    s.loop.pc \in Kind =>
        /\ s.loop.call \in Call /\ s.loop.call <= s.talk.asked
        /\ s.loop.pc = "approval" => Undecided(s.hist, s.loop.call)

\* The snapshot is the wait the loop is in, answered or not, if it was saved.
WaitDurable(s) ==
    s.loop.pc \in Kind =>
        LET w == [kind |-> s.loop.pc, call |-> s.loop.call]
        IN  s.disk.snap = w \/ w \in s.hist.unsaved

\* The calls C of this turn are still to be begun.
Untouched(s, C) ==
    \A c \in C : /\ c <= s.talk.asked
                 /\ s.hist.sent[c] = 0 /\ c \notin s.hist.gated
                 /\ Created(s) => s.talk.msgs[c] = 0

TodoUntouched(s) ==
    s.loop.pc \in Kind => /\ s.loop.call \notin s.loop.todo
                          /\ Untouched(s, s.loop.todo)

\* What was sent was sent once, and as the user decided, but for what the
\* file errors explain.
PolicyOf(h) ==
    /\ h.rejected \subseteq h.gated
    /\ \A c \in h.gated :
          h.sent[c] > 0 => c \in h.approved /\ (c \in h.rejected => Outlives(h, c))
    /\ \A c \in Call : h.sent[c] <= 1 \/ Doubled(h, c)

Policy(s) == PolicyOf(s.hist)

\* A created run answers each call once, and the call it waits for not yet.
AtMostOneAnswer(s) ==
    Created(s) => \A c \in Call : s.talk.msgs[c] <= 1 \/ s.talk.msgs[c] = s.talk.came[c]

WaitUnanswered(s) ==
    Created(s) /\ s.loop.pc \in Kind => s.loop.by = "call" /\ s.talk.msgs[s.loop.call] = 0

\* A created run whose status says that it is over has no loop any more, or
\* one that only dies, and a run that was ended has such a status.
EndedStops(s) ==
    Created(s) =>
        /\ s.run.status # "idle"
        /\ s.run.status \in Ended => s.loop.pc \in {"off", "dying"}
        /\ s.hist.ended => s.run.status \in Ended

\* A run that was never created.
Unborn(s) == ~s.disk.log => ~s.run.mem /\ s.talk.asked = 0 /\ ~s.hist.ended

\* A loop belongs to a run that was created.
LoopOfRun(s) == s.loop.pc # "off" => s.disk.log

\* What holds of a run also between two parts of a step.
Sound(s) ==
    /\ s \in StateRec
    /\ FreshUntouched(s)
    /\ Policy(s)
    /\ AtMostOneAnswer(s)
    /\ Unborn(s)

\* The inductive invariant, of one run.
Good(s) ==
    /\ Sound(s)
    /\ SnapPending(s)
    /\ LoopPending(s)
    /\ WaitDurable(s)
    /\ TodoUntouched(s)
    /\ WaitUnanswered(s)
    /\ EndedStops(s)
    /\ LoopOfRun(s)

\* What a step of one run other than its creation may do to it.
Follows(s, t) ==
    /\ t.disk.log = s.disk.log
    /\ s.run.mem => t.run.mem /\ t.run.hydrated = s.run.hydrated
    /\ s.hist.ended => t.hist.ended
    /\ Created(t) => /\ Created(s)
                     /\ t.run.status \in Active => s.run.status \in Active
                     /\ s.hist.ended => t.hist.sent = s.hist.sent

\* A run whose loop may go on.
Live(s) ==
    /\ s.disk.log
    /\ Created(s) => s.run.status \in Active /\ ~s.hist.ended

---------------------------------------------------------------------------
(* Helpers. *)

\* A set of natural numbers that is not empty has a least element.
LEMMA LeastExists ==
    ASSUME NEW S \in SUBSET Nat, S # {}
    PROVE  \E c \in S : \A d \in S : c <= d
<1> DEFINE R == OpToRel(<, Nat)
<1>1. IsWellFoundedOn(R, Nat)
  BY NatLessThanWellFounded
<1>2. \A y, x \in Nat : y < x => <<y, x>> \in R
  BY DEF OpToRel
<1> HIDE DEF R
<1>3. PICK x \in S : \A y \in S : ~(<<y, x>> \in R)
  BY <1>1, WFMin
<1>4. \A y \in S : ~(y < x)
  BY <1>2, <1>3
<1>5. \A y \in S : x <= y
  BY <1>4, SMT
<1> QED
  BY <1>5

\* The call a turn begins next is one of those to do.
LEMMA FirstInTodo ==
    ASSUME NEW todo \in SUBSET Call, todo # {}
    PROVE  First(todo) \in todo
<1>1. todo \in SUBSET Nat
  BY BoundAssumption DEF Call
<1>2. \E c \in todo : \A d \in todo : c <= d
  BY <1>1, LeastExists
<1> QED
  BY <1>2 DEF First

\* What a step may add to the history without deciding or dispatching.
SameHist(s, t) ==
    /\ t.hist.gated = s.hist.gated /\ t.hist.approved = s.hist.approved
    /\ t.hist.rejected = s.hist.rejected /\ t.hist.sent = s.hist.sent
    /\ s.hist.unsaved \subseteq t.hist.unsaved
    /\ s.hist.unremoved \subseteq t.hist.unremoved

\* What may be taken up stays so.
LEMMA PendingKept ==
    ASSUME NEW s, NEW t, SameHist(s, t), NEW n, NEW w, Pending(s.hist, n, w)
    PROVE  Pending(t.hist, n, w)
BY DEF SameHist, Pending, Undecided, Outlives, Doubled

LEMMA UndecidedKept ==
    ASSUME NEW s, NEW t, SameHist(s, t), NEW c, Undecided(s.hist, c)
    PROVE  Undecided(t.hist, c)
BY DEF SameHist, Undecided, Outlives, Doubled

LEMMA PolicyKept ==
    ASSUME NEW s, NEW t, SameHist(s, t), Policy(s)
    PROVE  Policy(t)
BY DEF SameHist, Policy, PolicyOf, Outlives, Doubled

\* A step that leaves the snapshots alone.
LEMMA SnapKept ==
    ASSUME NEW s, NEW t, SnapPending(s), SameHist(s, t),
           t.disk.snap = s.disk.snap, t.run.memo = s.run.memo,
           t.talk.asked = s.talk.asked
    PROVE  SnapPending(t)
<1>1. /\ Pending(t.hist, s.talk.asked, s.disk.snap)
      /\ Pending(t.hist, s.talk.asked, s.run.memo)
  BY PendingKept DEF SnapPending
<1> QED
  BY <1>1 DEF SnapPending, SameHist

\* What Enter changes of s.
Entered(s, t, k, c, by, todo) ==
    /\ t.run.mem = s.run.mem /\ t.run.hydrated = s.run.hydrated
    /\ t.run.status = Waiting(k) /\ t.run.status \in Active
    /\ t.run.memo = [kind |-> k, call |-> c]
    /\ t.loop.pc = k /\ t.loop.call = c /\ t.loop.by = by /\ t.loop.todo = todo
    /\ t.disk.log = s.disk.log
    /\ \/ t.disk.snap = [kind |-> k, call |-> c] /\ t.hist.unsaved = s.hist.unsaved
       \/ /\ t.disk.snap \in {s.disk.snap, None}
          /\ t.hist.unsaved = s.hist.unsaved \cup {[kind |-> k, call |-> c]}
    /\ t.talk = s.talk
    /\ t.hist.approved = s.hist.approved /\ t.hist.rejected = s.hist.rejected
    /\ t.hist.unremoved = s.hist.unremoved
    /\ t.hist.gated = IF k = "approval" THEN s.hist.gated \cup {c} ELSE s.hist.gated
    /\ \A d \in Call : d # c \/ k # "tool" => t.hist.sent[d] = s.hist.sent[d]
    /\ k = "tool" /\ s.hist.sent[c] = 0 => t.hist.sent[c] = 1
    /\ t.hist.ended = s.hist.ended

\* A wait that was begun.
BegunAs(s, t, k, c, by, todo) ==
    /\ t \in StateRec
    /\ t.run.mem = s.run.mem /\ t.run.hydrated = s.run.hydrated
    /\ t.run.status = Waiting(k) /\ t.run.status \in Active
    /\ t.loop.pc = k /\ t.loop.call = c /\ t.loop.by = by /\ t.loop.todo = todo
    /\ t.disk = s.disk /\ t.talk = s.talk
    /\ t.hist.approved = s.hist.approved /\ t.hist.rejected = s.hist.rejected
    /\ t.hist.unsaved = s.hist.unsaved /\ t.hist.unremoved = s.hist.unremoved
    /\ t.hist.gated = IF k = "approval" THEN s.hist.gated \cup {c} ELSE s.hist.gated
    /\ \A d \in Call : d # c \/ k # "tool" => t.hist.sent[d] = s.hist.sent[d]
    /\ k = "tool" /\ s.hist.sent[c] = 0 => t.hist.sent[c] = 1
    /\ t.hist.ended = s.hist.ended

\* Beginning a wait, apart from its snapshot.
LEMMA BegunParts ==
    ASSUME NEW s \in StateRec, NEW k \in Kind, NEW c \in Call,
           NEW by \in {"call", "resume", "rearm"}, NEW todo \in SUBSET Call,
           NEW t, t = Begun(s, k, c, by, todo)
    PROVE  BegunAs(s, t, k, c, by, todo)
<1>1. Waiting(k) \in Active
  BY DEF Waiting, Active, Kind
<1>2. /\ t.run = [s.run EXCEPT !.status = Waiting(k),
                               !.pend = [kind |-> k, call |-> c, fut |-> "loop"]]
      /\ t.loop = [pc |-> k, call |-> c, got |-> "open", by |-> by, todo |-> todo]
      /\ t.disk = s.disk
      /\ t.talk = s.talk
      /\ t.hist = [s.hist EXCEPT
            !.sent[c] = IF k = "tool" /\ @ < 2 THEN @ + 1 ELSE @,
            !.gated = IF k = "approval" THEN @ \cup {c} ELSE @]
      /\ t = [run |-> t.run, loop |-> t.loop, disk |-> t.disk, talk |-> t.talk,
              hist |-> t.hist]
  BY DEF Begun, StateRec
<1>3. t.run \in RunRec
  <2>1. [kind |-> k, call |-> c, fut |-> "loop"] \in Pend \cup {None}
    BY DEF Pend
  <2>2. s.run \in RunRec
    BY DEF StateRec
  <2> QED
    BY <1>1, <1>2, <2>1, <2>2 DEF RunRec
<1>4. t.loop \in LoopRec /\ t.disk \in DiskRec /\ t.talk \in TalkRec
  BY <1>2 DEF LoopRec, StateRec
<1>5. t.hist \in HistRec
  <2>1. s.hist \in HistRec
    BY DEF StateRec
  <2>2. [s.hist.sent EXCEPT ![c] = IF k = "tool" /\ @ < 2 THEN @ + 1 ELSE @]
           \in [Call -> 0..2]
    BY <2>1 DEF HistRec
  <2>3. (IF k = "approval" THEN s.hist.gated \cup {c} ELSE s.hist.gated) \in SUBSET Call
    BY <2>1 DEF HistRec
  <2> QED
    BY <1>2, <2>1, <2>2, <2>3 DEF HistRec
<1>6. t \in StateRec
  BY <1>2, <1>3, <1>4, <1>5 DEF StateRec
<1>7. t.run.mem = s.run.mem /\ t.run.hydrated = s.run.hydrated /\ t.run.status = Waiting(k)
  BY <1>2 DEF StateRec, RunRec
<1>8. t.loop.pc = k /\ t.loop.call = c /\ t.loop.by = by /\ t.loop.todo = todo
  BY <1>2
<1>9. /\ t.hist.approved = s.hist.approved /\ t.hist.rejected = s.hist.rejected
      /\ t.hist.unsaved = s.hist.unsaved /\ t.hist.unremoved = s.hist.unremoved
      /\ t.hist.gated = IF k = "approval" THEN s.hist.gated \cup {c} ELSE s.hist.gated
      /\ t.hist.ended = s.hist.ended
      /\ t.hist.sent = [s.hist.sent EXCEPT ![c] = IF k = "tool" /\ @ < 2 THEN @ + 1 ELSE @]
  BY <1>2 DEF StateRec, HistRec
<1>10. s.hist.sent \in [Call -> 0..2]
  BY DEF StateRec, HistRec
<1> QED
  BY <1>1, <1>2, <1>6, <1>7, <1>8, <1>9, <1>10 DEF BegunAs

\* Saving a snapshot, whatever becomes of the file.
LEMMA SavedParts ==
    ASSUME NEW u \in StateRec, NEW w \in Wait, NEW t \in Saved(u, w)
    PROVE  /\ t \in StateRec
           /\ t.run.mem = u.run.mem /\ t.run.hydrated = u.run.hydrated
           /\ t.run.status = u.run.status /\ t.run.memo = w
           /\ t.loop = u.loop /\ t.disk.log = u.disk.log /\ t.talk = u.talk
           /\ \/ t.disk.snap = w /\ t.hist = u.hist
              \/ /\ t.disk.snap \in {u.disk.snap, None}
                 /\ t.hist = [u.hist EXCEPT !.unsaved = @ \cup {w}]
<1>1. /\ u.run \in RunRec /\ u.disk \in DiskRec /\ u.hist \in HistRec
      /\ u.loop \in LoopRec /\ u.talk \in TalkRec
  BY DEF StateRec
<1>2. CASE t = [u EXCEPT !.run.memo = w, !.disk.snap = w]
  <2>1. /\ t.run = [u.run EXCEPT !.memo = w] /\ t.disk = [u.disk EXCEPT !.snap = w]
        /\ t.loop = u.loop /\ t.talk = u.talk /\ t.hist = u.hist
        /\ t = [run |-> t.run, loop |-> t.loop, disk |-> t.disk, talk |-> t.talk,
                hist |-> t.hist]
    BY <1>2 DEF StateRec
  <2>2. t.run \in RunRec /\ t.disk \in DiskRec
    BY <1>1, <2>1 DEF RunRec, DiskRec
  <2>3. t \in StateRec
    BY <1>1, <2>1, <2>2 DEF StateRec
  <2> QED
    BY <1>1, <2>1, <2>3 DEF RunRec, DiskRec
<1>3. ASSUME NEW f \in {u.disk.snap, None},
             t = [u EXCEPT !.run.memo = w, !.disk.snap = f, !.hist.unsaved = @ \cup {w}]
      PROVE  /\ t \in StateRec
             /\ t.run.mem = u.run.mem /\ t.run.hydrated = u.run.hydrated
             /\ t.run.status = u.run.status /\ t.run.memo = w
             /\ t.loop = u.loop /\ t.disk.log = u.disk.log /\ t.talk = u.talk
             /\ t.disk.snap = f
             /\ t.hist = [u.hist EXCEPT !.unsaved = @ \cup {w}]
  <2>1. /\ t.run = [u.run EXCEPT !.memo = w] /\ t.disk = [u.disk EXCEPT !.snap = f]
        /\ t.loop = u.loop /\ t.talk = u.talk
        /\ t.hist = [u.hist EXCEPT !.unsaved = @ \cup {w}]
        /\ t = [run |-> t.run, loop |-> t.loop, disk |-> t.disk, talk |-> t.talk,
                hist |-> t.hist]
    BY <1>3 DEF StateRec
  <2>2. t.run \in RunRec /\ t.disk \in DiskRec /\ t.hist \in HistRec
    BY <1>1, <2>1 DEF RunRec, DiskRec, HistRec
  <2>3. t \in StateRec
    BY <1>1, <2>1, <2>2 DEF StateRec
  <2> QED
    BY <1>1, <2>1, <2>3 DEF RunRec, DiskRec
<1> QED
  BY <1>2, <1>3 DEF Saved

LEMMA EnterParts ==
    ASSUME NEW s \in StateRec, NEW k \in Kind, NEW c \in Call,
           NEW by \in {"call", "resume", "rearm"}, NEW todo \in SUBSET Call,
           NEW t \in Enter(s, k, c, by, todo)
    PROVE  t \in StateRec /\ Entered(s, t, k, c, by, todo)
<1> DEFINE u == Begun(s, k, c, by, todo)
           w == [kind |-> k, call |-> c]
<1>1. w \in Wait
  BY DEF Wait
<1>2. /\ u \in StateRec
      /\ u.run.mem = s.run.mem /\ u.run.hydrated = s.run.hydrated
      /\ u.run.status = Waiting(k) /\ u.run.status \in Active
      /\ u.loop.pc = k /\ u.loop.call = c /\ u.loop.by = by /\ u.loop.todo = todo
      /\ u.disk = s.disk /\ u.talk = s.talk
      /\ u.hist.approved = s.hist.approved /\ u.hist.rejected = s.hist.rejected
      /\ u.hist.unsaved = s.hist.unsaved /\ u.hist.unremoved = s.hist.unremoved
      /\ u.hist.gated = IF k = "approval" THEN s.hist.gated \cup {c} ELSE s.hist.gated
      /\ \A d \in Call : d # c \/ k # "tool" => u.hist.sent[d] = s.hist.sent[d]
      /\ k = "tool" /\ s.hist.sent[c] = 0 => u.hist.sent[c] = 1
      /\ u.hist.ended = s.hist.ended
  <2>1. u = Begun(s, k, c, by, todo)
    OBVIOUS
  <2> HIDE DEF u
  <2>2. BegunAs(s, u, k, c, by, todo)
    BY <2>1, BegunParts
  <2> QED
    BY <2>2 DEF BegunAs
<1>3. t \in Saved(u, w)
  BY DEF Enter
<1> HIDE DEF u, w
<1>4. /\ t \in StateRec
      /\ t.run.mem = u.run.mem /\ t.run.hydrated = u.run.hydrated
      /\ t.run.status = u.run.status /\ t.run.memo = w
      /\ t.loop = u.loop /\ t.disk.log = u.disk.log /\ t.talk = u.talk
      /\ \/ t.disk.snap = w /\ t.hist = u.hist
         \/ /\ t.disk.snap \in {u.disk.snap, None}
            /\ t.hist = [u.hist EXCEPT !.unsaved = @ \cup {w}]
  BY <1>1, <1>2, <1>3, SavedParts
<1>5. /\ t.hist.approved = u.hist.approved /\ t.hist.rejected = u.hist.rejected
      /\ t.hist.unremoved = u.hist.unremoved /\ t.hist.gated = u.hist.gated
      /\ t.hist.sent = u.hist.sent /\ t.hist.ended = u.hist.ended
      /\ \/ t.disk.snap = w /\ t.hist.unsaved = u.hist.unsaved
         \/ /\ t.disk.snap \in {u.disk.snap, None}
            /\ t.hist.unsaved = u.hist.unsaved \cup {w}
  BY <1>2, <1>4 DEF StateRec, HistRec
<1>6. w = [kind |-> k, call |-> c]
  BY DEF w
<1> QED
  BY <1>2, <1>4, <1>5, <1>6 DEF Entered

\* A call that nothing was done for yet, or a command the user has approved.
MayBegin(s, k, c) ==
    \/ s.hist.sent[c] = 0 /\ c \notin s.hist.gated
    \/ /\ k = "tool" /\ c \in s.hist.approved /\ Undecided(s.hist, c)
       /\ s.disk.snap = [kind |-> "approval", call |-> c] => Outlives(s.hist, c)

\* Entering a wait for such a call restores the invariant.
LEMMA EnterGood ==
    ASSUME NEW s, Sound(s), SnapPending(s), Live(s), NEW k \in Kind, NEW c \in Call,
           NEW by \in {"call", "resume", "rearm"}, NEW todo \in SUBSET Call,
           c <= s.talk.asked, c \notin todo, Untouched(s, todo), MayBegin(s, k, c),
           Created(s) => by = "call" /\ s.talk.msgs[c] = 0,
           NEW t \in Enter(s, k, c, by, todo)
    PROVE  Good(t) /\ Follows(s, t)
<1>1. s \in StateRec
  BY DEF Sound
<1>2. t \in StateRec /\ Entered(s, t, k, c, by, todo)
  BY <1>1, EnterParts
<1>3. /\ s.talk.asked \in Nat /\ Call \subseteq Nat
      /\ s.hist.gated \subseteq Call /\ s.hist.rejected \subseteq s.hist.gated
      /\ s.disk.snap \in Wait \cup {None}
  BY <1>1, BoundAssumption DEF StateRec, TalkRec, HistRec, DiskRec, Call, Sound, Policy, PolicyOf
<1>4. FreshUntouched(t)
  BY <1>2, <1>3 DEF Entered, Sound, FreshUntouched
<1>5. \A d : /\ Outlives(s.hist, d) => Outlives(t.hist, d)
             /\ Doubled(s.hist, d) => Doubled(t.hist, d)
  BY <1>2 DEF Entered, Outlives, Doubled
<1>6. Policy(t)
  <2>1. ASSUME NEW d \in Call
        PROVE  t.hist.sent[d] <= 1 \/ Doubled(t.hist, d)
    <3>1. s.hist.sent[d] <= 1 \/ Doubled(s.hist, d)
      BY DEF Sound, Policy, PolicyOf
    <3>2. s.hist.sent[c] = 0 \/ Doubled(s.hist, c)
      BY DEF MayBegin, Undecided
    <3>3. CASE d = c /\ k = "tool"
      BY <1>2, <1>5, <3>2, <3>3 DEF Entered
    <3>4. CASE d # c \/ k # "tool"
      BY <1>2, <1>5, <3>1, <3>4 DEF Entered
    <3> QED
      BY <3>3, <3>4
  <2>2. ASSUME NEW d \in t.hist.gated, t.hist.sent[d] > 0
        PROVE  d \in t.hist.approved /\ (d \in t.hist.rejected => Outlives(t.hist, d))
    <3>1. d \in Call
      BY <1>2, <1>3, <2>2 DEF Entered
    <3>2. CASE d = c /\ k = "tool" /\ d \in s.hist.gated
      <4>1. d \in s.hist.approved /\ (d \in s.hist.rejected => Outlives(s.hist, d))
        BY <3>2 DEF MayBegin, Undecided
      <4> QED
        BY <1>2, <1>5, <4>1 DEF Entered
    <3>3. CASE (d # c \/ k # "tool") /\ d \in s.hist.gated
      <4>1. t.hist.sent[d] = s.hist.sent[d]
        BY <1>2, <3>1, <3>3 DEF Entered
      <4>2. d \in s.hist.approved /\ (d \in s.hist.rejected => Outlives(s.hist, d))
        BY <2>2, <3>3, <4>1 DEF Sound, Policy, PolicyOf
      <4> QED
        BY <1>2, <1>5, <4>2 DEF Entered
    <3>4. d \in s.hist.gated
      <4>1. SUFFICES ASSUME d \notin s.hist.gated
                     PROVE  FALSE
        OBVIOUS
      <4>2. d = c /\ k = "approval"
        BY <1>2, <2>2, <4>1 DEF Entered
      <4>3. s.hist.sent[c] = 0
        BY <4>1, <4>2 DEF MayBegin, Undecided
      <4>4. t.hist.sent[d] = s.hist.sent[d]
        BY <1>2, <4>2 DEF Entered
      <4> QED
        BY <2>2, <4>2, <4>3, <4>4
    <3> QED
      BY <3>2, <3>3, <3>4
  <2>3. t.hist.rejected \subseteq t.hist.gated
    BY <1>2, <1>3 DEF Entered
  <2> QED
    BY <2>1, <2>2, <2>3 DEF Policy, PolicyOf
<1>7. AtMostOneAnswer(t) /\ Unborn(t)
  BY <1>2 DEF Entered, Sound, AtMostOneAnswer, Unborn, Created
<1> DEFINE w == [kind |-> k, call |-> c]
<1>8. k = "approval" => Undecided(t.hist, c)
  <2> SUFFICES ASSUME k = "approval"
               PROVE  Undecided(t.hist, c)
    OBVIOUS
  <2>1. s.hist.sent[c] = 0 /\ c \notin s.hist.gated
    BY DEF MayBegin
  <2>2. t.hist.sent[c] = 0 /\ c \in t.hist.gated /\ c \notin t.hist.rejected
    BY <1>2, <1>3, <2>1 DEF Entered
  <2> QED
    BY <2>2 DEF Undecided
<1>9. Pending(t.hist, t.talk.asked, w)
  BY <1>2, <1>8 DEF Entered, Pending
<1>10. t.disk.snap # w => Pending(t.hist, t.talk.asked, s.disk.snap)
  <2> SUFFICES ASSUME t.disk.snap # w, s.disk.snap # None,
                      s.disk.snap.kind = "approval"
               PROVE  Undecided(t.hist, s.disk.snap.call)
    BY <1>2 DEF Entered, Pending, SnapPending
  <2> DEFINE d == s.disk.snap.call
  <2>1. Undecided(s.hist, d)
    BY DEF SnapPending, Pending
  <2>2. s.disk.snap = [kind |-> "approval", call |-> d] /\ d \in Call
    BY <1>3 DEF Wait
  <2> HIDE DEF d
  <2>3. d \in t.hist.gated /\ (d \in t.hist.rejected => Outlives(t.hist, d))
    BY <1>2, <1>5, <2>1 DEF Entered, Undecided
  <2>4. CASE d = c /\ k = "tool"
    <3>1. Outlives(s.hist, c)
      BY <2>1, <2>2, <2>4 DEF MayBegin, Undecided
    <3>2. [kind |-> "tool", call |-> c] \in t.hist.unsaved
      BY <1>2, <2>4 DEF Entered
    <3> QED
      BY <1>5, <2>3, <2>4, <3>1, <3>2 DEF Undecided, Doubled, d
  <2>5. CASE d # c \/ k # "tool"
    <3>1. t.hist.sent[d] = s.hist.sent[d]
      BY <1>2, <2>2, <2>5 DEF Entered
    <3> QED
      BY <1>5, <2>1, <2>3, <3>1 DEF Undecided, d
  <2> QED
    BY <2>4, <2>5
<1>11. SnapPending(t)
  <2>1. t.run.memo = w /\ (t.disk.snap = w \/ t.disk.snap \in {s.disk.snap, None})
        /\ (t.disk.snap = w \/ w \in t.hist.unsaved)
    BY <1>2 DEF Entered
  <2>2. Pending(t.hist, t.talk.asked, t.disk.snap)
    <3>1. CASE t.disk.snap = w
      BY <1>9, <3>1
    <3>2. CASE t.disk.snap # w /\ t.disk.snap = s.disk.snap
      BY <1>10, <3>2
    <3>3. CASE t.disk.snap = None
      BY <3>3 DEF Pending
    <3> QED
      BY <2>1, <3>1, <3>2, <3>3
  <2> QED
    BY <1>9, <2>1, <2>2 DEF SnapPending
<1>12. TodoUntouched(t)
  <2>1. ASSUME NEW d \in todo
        PROVE  /\ d <= t.talk.asked /\ t.hist.sent[d] = 0 /\ d \notin t.hist.gated
               /\ Created(t) => t.talk.msgs[d] = 0
    BY <1>2 DEF Entered, Untouched, Created
  <2> QED
    BY <1>2, <2>1 DEF Entered, TodoUntouched, Untouched
<1>13. LoopPending(t)
  BY <1>2, <1>8 DEF Entered, LoopPending
<1>14. WaitDurable(t)
  BY <1>2 DEF Entered, WaitDurable
<1>15. WaitUnanswered(t)
  BY <1>2 DEF Entered, WaitUnanswered, Created
<1>16. EndedStops(t) /\ LoopOfRun(t) /\ Follows(s, t)
  <2>1. /\ t.run.mem = s.run.mem /\ t.run.hydrated = s.run.hydrated
        /\ t.run.status \in Active /\ t.disk.log = s.disk.log
        /\ t.hist.ended = s.hist.ended
    BY <1>2 DEF Entered
  <2> QED
    BY <2>1 DEF EndedStops, LoopOfRun, Follows, Live, Created, Active, Ended
<1> QED
  BY <1>2, <1>4, <1>6, <1>7, <1>11, <1>12, <1>13, <1>14, <1>15, <1>16 DEF Good, Sound

LEMMA ConcludeParts ==
    ASSUME NEW s \in StateRec, NEW st \in Ended, NEW t, t = Conclude(s, st)
    PROVE  /\ t \in StateRec
           /\ t.run.mem = s.run.mem /\ t.run.hydrated = s.run.hydrated
           /\ t.run.status = st /\ t.run.memo = s.run.memo
           /\ t.loop = Off /\ t.loop.pc = "off"
           /\ t.disk = s.disk /\ t.talk = s.talk /\ t.hist = s.hist
<1>1. s.run \in RunRec
  BY DEF StateRec
<1>2. /\ t.run = [s.run EXCEPT !.status = st] /\ t.loop = Off
      /\ t.disk = s.disk /\ t.talk = s.talk /\ t.hist = s.hist
      /\ t = [run |-> t.run, loop |-> t.loop, disk |-> t.disk, talk |-> t.talk,
              hist |-> t.hist]
  BY DEF Conclude, StateRec
<1>3. t.run \in RunRec
  BY <1>1, <1>2 DEF RunRec
<1>4. Off \in LoopRec /\ Off.pc = "off"
  BY DEF Off, LoopRec
<1> QED
  BY <1>1, <1>2, <1>3, <1>4 DEF StateRec, RunRec

\* A loop that returns leaves a run that is over.
LEMMA ConcludeGood ==
    ASSUME NEW s, Sound(s), SnapPending(s), NEW st \in Ended, NEW t, t = Conclude(s, st)
    PROVE  Good(t) /\ Follows(s, t)
<1>1. s \in StateRec
  BY DEF Sound
<1>2. /\ t \in StateRec
      /\ t.run.mem = s.run.mem /\ t.run.hydrated = s.run.hydrated
      /\ t.run.status = st /\ t.run.memo = s.run.memo /\ t.loop.pc = "off"
      /\ t.disk = s.disk /\ t.talk = s.talk /\ t.hist = s.hist
  BY <1>1, ConcludeParts
<1>3. Sound(t) /\ SnapPending(t)
  BY <1>2 DEF Sound, SnapPending, FreshUntouched, Policy, AtMostOneAnswer, Unborn, Created
<1>4. /\ LoopPending(t) /\ WaitDurable(t) /\ TodoUntouched(t) /\ WaitUnanswered(t) /\ EndedStops(t)
      /\ LoopOfRun(t) /\ Follows(s, t)
  BY <1>2 DEF LoopPending, WaitDurable, TodoUntouched, WaitUnanswered, EndedStops, LoopOfRun,
     Follows, Created, Kind, Ended, Active
<1> QED
  BY <1>3, <1>4 DEF Good

\* A step that only gives calls tool messages.
SameButMsgs(s, t) ==
    /\ t.run = s.run /\ t.loop = s.loop /\ t.disk = s.disk /\ t.hist = s.hist
    /\ t.talk.asked = s.talk.asked /\ t.talk.came = s.talk.came

LEMMA FilledParts ==
    ASSUME NEW s, Sound(s), NEW t, t = Filled(s)
    PROVE  Sound(t) /\ SameButMsgs(s, t)
<1>1. s \in StateRec /\ s.talk \in TalkRec
  BY DEF Sound, StateRec
<1> DEFINE m == [c \in Call |->
        IF c <= s.talk.asked /\ s.talk.msgs[c] = 0 THEN 1 ELSE s.talk.msgs[c]]
<1>2. m \in [Call -> Nat]
  BY <1>1 DEF TalkRec
<1>3. /\ t.talk = [s.talk EXCEPT !.msgs = m]
      /\ t.run = s.run /\ t.loop = s.loop /\ t.disk = s.disk /\ t.hist = s.hist
      /\ t = [run |-> t.run, loop |-> t.loop, disk |-> t.disk, talk |-> t.talk,
              hist |-> t.hist]
  BY <1>1 DEF Filled, StateRec
<1>4. /\ t.talk.msgs = m /\ t.talk.asked = s.talk.asked /\ t.talk.came = s.talk.came
      /\ t.talk \in TalkRec
  BY <1>1, <1>2, <1>3 DEF TalkRec
<1>5. t \in StateRec
  BY <1>1, <1>3, <1>4 DEF StateRec
<1>6. /\ FreshUntouched(t) /\ AtMostOneAnswer(t)
      /\ Policy(t) /\ Unborn(t)
  <2>1. FreshUntouched(t)
    <3>1. s.talk.asked \in Nat /\ Call \subseteq Nat
      BY <1>1, BoundAssumption DEF TalkRec, Call
    <3> QED
      BY <1>3, <1>4, <3>1 DEF Sound, FreshUntouched
  <2>2. AtMostOneAnswer(t)
    BY <1>3, <1>4 DEF Sound, AtMostOneAnswer, Created
  <2> QED
    BY <1>3, <1>4, <2>1, <2>2 DEF Sound, Policy, Unborn
<1> QED
  BY <1>3, <1>4, <1>5, <1>6 DEF Sound, SameButMsgs

\* A tool message for a call that was asked for, and that has none yet if the
\* run is a created one.
LEMMA AnswerParts ==
    ASSUME NEW s, Sound(s), NEW c \in Call, c <= s.talk.asked,
           Created(s) => s.talk.msgs[c] = 0,
           NEW t, t = Answer(s, c)
    PROVE  /\ Sound(t) /\ SameButMsgs(s, t)
           /\ \A d \in Call \ {c} : t.talk.msgs[d] = s.talk.msgs[d]
<1>1. s \in StateRec /\ s.talk \in TalkRec
  BY DEF Sound, StateRec
<1>2. /\ t.talk = [s.talk EXCEPT !.msgs[c] = @ + 1]
      /\ t.run = s.run /\ t.loop = s.loop /\ t.disk = s.disk /\ t.hist = s.hist
      /\ t = [run |-> t.run, loop |-> t.loop, disk |-> t.disk, talk |-> t.talk,
              hist |-> t.hist]
  BY <1>1 DEF Answer, StateRec
<1>3. /\ t.talk.msgs = [s.talk.msgs EXCEPT ![c] = @ + 1]
      /\ t.talk.asked = s.talk.asked /\ t.talk.came = s.talk.came /\ t.talk \in TalkRec
  BY <1>1, <1>2 DEF TalkRec
<1>4. /\ t.talk.msgs[c] = s.talk.msgs[c] + 1
      /\ \A d \in Call \ {c} : t.talk.msgs[d] = s.talk.msgs[d]
      /\ s.talk.asked \in Nat /\ Call \subseteq Nat /\ s.talk.msgs[c] \in Nat
  <2>1. s.talk.msgs \in [Call -> Nat] /\ s.talk.asked \in 0..MaxCall
    BY <1>1 DEF TalkRec
  <2>2. s.talk.asked \in Nat /\ Call \subseteq Nat
    BY <2>1, BoundAssumption DEF Call
  <2> QED
    BY <1>3, <2>1, <2>2
<1>5. t \in StateRec
  BY <1>1, <1>2, <1>3 DEF StateRec
<1> HIDE DEF Call
<1>6. FreshUntouched(t)
  BY <1>2, <1>3, <1>4 DEF Sound, FreshUntouched
<1>7. AtMostOneAnswer(t)
  BY <1>2, <1>4 DEF Sound, AtMostOneAnswer, Created
<1> QED
  BY <1>2, <1>3, <1>4, <1>5, <1>6, <1>7 DEF Sound, SameButMsgs, Policy, Unborn

\* A step that touches neither the loop nor what was decided and dispatched.
Kept(s, t) ==
    /\ t.run.mem = s.run.mem /\ t.run.hydrated = s.run.hydrated
    /\ t.loop = s.loop /\ t.disk.log = s.disk.log /\ t.talk = s.talk
    /\ SameHist(s, t) /\ t.hist.ended = s.hist.ended

\* Removing a snapshot, whatever becomes of the file.
LEMMA ClearedParts ==
    ASSUME NEW s, Sound(s), SnapPending(s), NEW t \in Cleared(s)
    PROVE  /\ Sound(t) /\ Kept(s, t) /\ SnapPending(t)
           /\ t.run.status = s.run.status
           /\ t.run.memo = None
           /\ t.disk.snap # None => t.disk.snap \in t.hist.unremoved
<1>1. /\ s \in StateRec /\ s.run \in RunRec /\ s.disk \in DiskRec /\ s.hist \in HistRec
      /\ s.loop \in LoopRec /\ s.talk \in TalkRec
  BY DEF Sound, StateRec
<1> DEFINE newRun == [s.run EXCEPT !.pend = None, !.memo = None]
<1>2. /\ newRun \in RunRec /\ newRun.mem = s.run.mem
      /\ newRun.hydrated = s.run.hydrated /\ newRun.status = s.run.status
      /\ newRun.memo = None
  BY <1>1 DEF RunRec
<1>3. /\ t.run = newRun /\ t.loop = s.loop /\ t.talk = s.talk
      /\ \/ t.disk = [s.disk EXCEPT !.snap = None] /\ t.hist = s.hist
         \/ /\ t.disk = s.disk /\ s.disk.snap # None
            /\ t.hist = [s.hist EXCEPT !.unremoved = @ \cup {s.disk.snap}]
      /\ t = [run |-> t.run, loop |-> t.loop, disk |-> t.disk, talk |-> t.talk,
              hist |-> t.hist]
  BY <1>1 DEF Cleared, StateRec
<1> HIDE DEF newRun
<1>4. /\ t.disk \in DiskRec /\ t.disk.log = s.disk.log
      /\ t.disk.snap \in {s.disk.snap, None}
      /\ t.disk.snap # None => t.disk.snap \in t.hist.unremoved
      /\ t.hist \in HistRec /\ SameHist(s, t) /\ t.hist.ended = s.hist.ended
  <2>1. CASE t.disk = [s.disk EXCEPT !.snap = None] /\ t.hist = s.hist
    BY <1>1, <2>1 DEF DiskRec, SameHist
  <2>2. CASE /\ t.disk = s.disk /\ s.disk.snap # None
             /\ t.hist = [s.hist EXCEPT !.unremoved = @ \cup {s.disk.snap}]
    <3>1. s.disk.snap \in Wait
      BY <1>1, <2>2 DEF DiskRec
    <3> QED
      BY <1>1, <2>2, <3>1 DEF DiskRec, HistRec, SameHist
  <2> QED
    BY <1>3, <2>1, <2>2
<1>5. t \in StateRec
  BY <1>1, <1>2, <1>3, <1>4 DEF StateRec
<1>6. Policy(t)
  BY <1>4, PolicyKept DEF Sound
<1>7. FreshUntouched(t) /\ AtMostOneAnswer(t) /\ Unborn(t)
  BY <1>2, <1>3, <1>4 DEF Sound, FreshUntouched, AtMostOneAnswer, Unborn, Created, SameHist
<1>8. SnapPending(t)
  <2>1. Pending(t.hist, s.talk.asked, s.disk.snap)
    BY <1>4, PendingKept DEF SnapPending
  <2> QED
    BY <1>2, <1>3, <1>4, <2>1 DEF SnapPending, Pending
<1> QED
  BY <1>2, <1>3, <1>4, <1>5, <1>6, <1>7, <1>8 DEF Sound, Kept

LEMMA RunningParts ==
    ASSUME NEW s, Sound(s), NEW t, t = [s EXCEPT !.run.status = "running"]
    PROVE  /\ Sound(t) /\ Kept(s, t) /\ t.disk = s.disk /\ t.hist = s.hist
           /\ t.run.status = "running" /\ t.run.memo = s.run.memo
<1>1. s \in StateRec /\ s.run \in RunRec
  BY DEF Sound, StateRec
<1>2. /\ t.run = [s.run EXCEPT !.status = "running"]
      /\ t.disk = s.disk /\ t.loop = s.loop /\ t.talk = s.talk /\ t.hist = s.hist
      /\ t = [run |-> t.run, loop |-> t.loop, disk |-> t.disk, talk |-> t.talk,
              hist |-> t.hist]
  BY <1>1 DEF StateRec
<1>3. /\ t.run \in RunRec /\ t.run.status = "running" /\ t.run.memo = s.run.memo
      /\ t.run.mem = s.run.mem /\ t.run.hydrated = s.run.hydrated
  BY <1>1, <1>2 DEF RunRec, Active
<1>4. t \in StateRec
  BY <1>1, <1>2, <1>3 DEF StateRec
<1> QED
  BY <1>2, <1>3, <1>4 DEF Sound, Kept, SameHist, FreshUntouched, Policy, AtMostOneAnswer,
     Unborn, Created

\* The loop goes back to the model, or leaves the run as it is.
LEMMA LoopSetGood ==
    ASSUME NEW s, Sound(s), SnapPending(s), Live(s), NEW l \in {Off, Sampling},
           NEW t, t = [s EXCEPT !.loop = l]
    PROVE  Good(t) /\ Follows(s, t)
<1>1. s \in StateRec
  BY DEF Sound
<1>2. l \in LoopRec /\ l.pc \notin Kind
  BY DEF Off, Sampling, LoopRec, Kind
<1>3. /\ t \in StateRec /\ t.loop = l
      /\ t.run = s.run /\ t.disk = s.disk /\ t.talk = s.talk /\ t.hist = s.hist
  BY <1>1, <1>2 DEF StateRec
<1>4. Sound(t) /\ SnapPending(t)
  BY <1>3 DEF Sound, SnapPending, FreshUntouched, Policy, AtMostOneAnswer, Unborn, Created
<1>5. LoopPending(t) /\ WaitDurable(t) /\ TodoUntouched(t) /\ WaitUnanswered(t)
  BY <1>2, <1>3 DEF LoopPending, WaitDurable, TodoUntouched, WaitUnanswered
<1>6. EndedStops(t) /\ LoopOfRun(t) /\ Follows(s, t)
  BY <1>3 DEF EndedStops, LoopOfRun, Follows, Live, Created, Active, Ended
<1> QED
  BY <1>4, <1>5, <1>6 DEF Good

\* Whatever the loop does next restores the invariant, if the calls it has
\* still to do are untouched.
LEMMA ProceedGood ==
    ASSUME NEW s, Sound(s), SnapPending(s), Live(s),
           NEW todo \in SUBSET Call, Untouched(s, todo), NEW t \in Proceed(s, todo)
    PROVE  Good(t) /\ Follows(s, t)
<1> DEFINE f == Filled(s)
<1>1. Sound(f) /\ SameButMsgs(s, f)
  BY FilledParts
<1>2. SnapPending(f) /\ Live(f)
  BY <1>1 DEF SnapPending, Live, Created, SameButMsgs
<1>3. \A u : Follows(f, u) => Follows(s, u)
  BY <1>1 DEF Follows, Created, SameButMsgs
<1> HIDE DEF f
<1>4. CASE t = Conclude(f, "cancelled")
  BY <1>1, <1>2, <1>3, <1>4, ConcludeGood DEF Ended
<1>5. CASE t = Conclude(s, "failed")
  BY <1>5, ConcludeGood DEF Ended
<1>6. CASE t = [f EXCEPT !.loop = Sampling]
  BY <1>1, <1>2, <1>3, <1>6, LoopSetGood
<1>7. ASSUME todo # {}, NEW k \in Kind,
             t \in Enter(s, k, First(todo), "call", todo \ {First(todo)})
      PROVE  Good(t) /\ Follows(s, t)
  <2> DEFINE c == First(todo)
  <2>1. c \in todo
    BY <1>7, FirstInTodo
  <2> HIDE DEF c
  <2>2. /\ c \in Call /\ c <= s.talk.asked /\ c \notin todo \ {c}
        /\ s.hist.sent[c] = 0 /\ c \notin s.hist.gated
        /\ Created(s) => s.talk.msgs[c] = 0
    BY <2>1 DEF Untouched
  <2>3. Untouched(s, todo \ {c}) /\ todo \ {c} \in SUBSET Call
    BY DEF Untouched
  <2>4. MayBegin(s, k, c)
    BY <2>2 DEF MayBegin
  <2>5. t \in Enter(s, k, c, "call", todo \ {c})
    BY <1>7 DEF c
  <2> QED
    BY <2>2, <2>3, <2>4, <2>5, EnterGood
<1> QED
  BY <1>4, <1>5, <1>6, <1>7 DEF Proceed, f

\* A created run whose loop samples or waits has not been ended.
LEMMA LoopingIsLive ==
    ASSUME NEW s, Good(s), s.loop.pc \in Kind \cup {"sample"}
    PROVE  Live(s)
BY DEF Good, Sound, StateRec, RunRec, EndedStops, LoopOfRun, Live, Created, Kind, Active, Ended

---------------------------------------------------------------------------
(* Waits re-armed from disk, and answers. *)

\* A re-armed wait is one that may be taken up.
LEMMA RearmedGood ==
    ASSUME NEW s, Good(s), s.run.mem, s.run.hydrated, NEW t, t = Rearmed(s)
    PROVE  Good(t) /\ Follows(s, t) /\ t.run.mem /\ t.run.hydrated
<1>1. CASE Snapshot(s) = None
  BY <1>1 DEF Rearmed, Follows
<1>2. CASE Snapshot(s) # None
  <2> DEFINE w == Snapshot(s)
             k == w.kind
             c == w.call
             l == [pc |-> k, call |-> c, got |-> "open", by |-> "rearm", todo |-> {}]
  <2>1. /\ s \in StateRec /\ s.run \in RunRec /\ s.disk \in DiskRec /\ s.loop \in LoopRec
        /\ w \in Wait
    BY <1>2 DEF Good, Sound, StateRec, DiskRec, RunRec, Snapshot
  <2>2. k \in Kind /\ c \in Call /\ w = [kind |-> k, call |-> c]
    BY <2>1 DEF Wait
  <2>3. Waiting(k) \in Active
    BY <2>2 DEF Waiting, Kind, Active
  <2>4. l \in LoopRec
    BY <2>2 DEF LoopRec
  <2>5. Pending(s.hist, s.talk.asked, w) /\ (w = s.disk.snap \/ w \in s.hist.unsaved)
    BY <1>2 DEF Good, SnapPending, Snapshot
  <2> DEFINE run2(f) == [s.run EXCEPT !.status = Waiting(k), !.memo = w,
                                      !.pend = [kind |-> k, call |-> c, fut |-> f]]
  <2>6. /\ t.disk = s.disk /\ t.talk = s.talk /\ t.hist = s.hist
        /\ \E f \in {"loop", "open"} : t.run = run2(f)
        /\ t.loop = IF s.loop.pc = "off" THEN l ELSE s.loop
        /\ t = [run |-> t.run, loop |-> t.loop, disk |-> t.disk, talk |-> t.talk,
                hist |-> t.hist]
    BY <1>2, <2>1 DEF Rearmed, StateRec
  <2>7. /\ t.run \in RunRec /\ t.run.mem = s.run.mem /\ t.run.hydrated = s.run.hydrated
        /\ t.run.memo = w
    <3>1. \A f \in {"loop", "open"} : [kind |-> k, call |-> c, fut |-> f] \in Pend \cup {None}
      BY <2>2 DEF Pend
    <3>2. PICK f \in {"loop", "open"} : t.run = run2(f)
      BY <2>6
    <3>3. [kind |-> k, call |-> c, fut |-> f] \in Pend \cup {None}
      BY <3>1
    <3> HIDE DEF w
    <3> QED
      BY <2>1, <2>3, <3>2, <3>3 DEF RunRec
  <2>8. t \in StateRec
    BY <2>1, <2>4, <2>6, <2>7 DEF StateRec
  <2> HIDE DEF w
  <2>9. Sound(t) /\ SnapPending(t)
    <3>1. Sound(t)
      BY <2>6, <2>7, <2>8 DEF Good, Sound, FreshUntouched, Policy, AtMostOneAnswer,
         Unborn, Created
    <3>2. SnapPending(t)
      BY <2>5, <2>6, <2>7 DEF Good, SnapPending
    <3> QED
      BY <3>1, <3>2
  <2>10. ~Created(t) /\ LoopOfRun(t) /\ Follows(s, t) /\ t.run.mem /\ t.run.hydrated
    BY <2>6, <2>7 DEF Good, Sound, Unborn, Created, LoopOfRun, Follows
  <2>11. LoopPending(t) /\ WaitDurable(t) /\ TodoUntouched(t)
    <3>1. CASE s.loop.pc = "off"
      <4>1. t.loop = l
        BY <2>6, <3>1
      <4>2. t.loop.pc = k /\ t.loop.call = c /\ t.loop.todo = {}
        BY <4>1
      <4>3. w # None
        BY <1>2 DEF w
      <4>4. LoopPending(t)
        BY <2>2, <2>5, <2>6, <4>2, <4>3 DEF LoopPending, Pending
      <4>5. WaitDurable(t)
        BY <2>2, <2>5, <2>6, <4>2 DEF WaitDurable
      <4> QED
        BY <4>2, <4>4, <4>5 DEF TodoUntouched, Untouched
    <3>2. CASE s.loop.pc # "off"
      BY <2>6, <2>7, <3>2 DEF Good, LoopPending, WaitDurable, TodoUntouched, Untouched, Created
    <3> QED
      BY <3>1, <3>2
  <2> QED
    BY <2>9, <2>10, <2>11 DEF Good, WaitUnanswered, EndedStops
<1> QED
  BY <1>1, <1>2

\* A run read back from disk.
LEMMA HydratedGood ==
    ASSUME NEW s, Good(s), ~s.run.mem, s.disk.log, NEW t, t = Hydrated(s)
    PROVE  Good(t) /\ Follows(s, t)
<1> DEFINE u == [s EXCEPT !.run = [Gone EXCEPT !.mem = TRUE, !.hydrated = TRUE],
                          !.loop = Off]
<1>1. s \in StateRec
  BY DEF Good, Sound
<1>2. /\ [Gone EXCEPT !.mem = TRUE, !.hydrated = TRUE] \in RunRec
      /\ [Gone EXCEPT !.mem = TRUE, !.hydrated = TRUE].mem
      /\ [Gone EXCEPT !.mem = TRUE, !.hydrated = TRUE].hydrated
      /\ [Gone EXCEPT !.mem = TRUE, !.hydrated = TRUE].memo = None
      /\ Off \in LoopRec /\ Off.pc \notin Kind
  BY DEF Gone, RunRec, Off, LoopRec, Kind
<1>3. /\ u \in StateRec /\ u.run.mem /\ u.run.hydrated /\ u.run.memo = None /\ u.loop = Off
      /\ u.disk = s.disk /\ u.talk = s.talk /\ u.hist = s.hist
  BY <1>1, <1>2 DEF StateRec
<1> HIDE DEF u
<1>4. Good(u)
  BY <1>2, <1>3 DEF Good, Sound, SnapPending, Pending, FreshUntouched, Policy,
     AtMostOneAnswer, Unborn, LoopPending, WaitDurable, TodoUntouched, WaitUnanswered, EndedStops, LoopOfRun, Created
<1>5. t = Rearmed(u)
  BY DEF Hydrated, u
<1>6. Good(t) /\ Follows(u, t) /\ t.run.hydrated
  BY <1>3, <1>4, <1>5, RearmedGood
<1> QED
  BY <1>3, <1>6 DEF Follows, Created

LEMMA ResolvedGood ==
    ASSUME NEW s, Good(s), s.run.mem \/ s.disk.log, NEW t, t = Resolved(s)
    PROVE  Good(t) /\ Follows(s, t)
<1>1. CASE ~s.run.mem
  BY <1>1, HydratedGood DEF Resolved
<1>2. CASE s.run.mem /\ s.run.hydrated /\ t = Rearmed(s)
  BY <1>2, RearmedGood
<1>3. CASE t = s
  BY <1>3 DEF Follows
<1> QED
  BY <1>1, <1>2, <1>3 DEF Resolved

\* An answer changes no more than a future.
LEMMA DeliveredGood ==
    ASSUME NEW s, Good(s), NEW k, NEW c, NEW value \in {"yes", "no"},
           NEW t, t = Delivered(s, k, c, value)
    PROVE  Good(t) /\ Follows(s, t)
<1>1. s \in StateRec /\ s.run \in RunRec /\ s.loop \in LoopRec
  BY DEF Good, Sound, StateRec
<1>2. /\ t \in StateRec
      /\ t.run.mem = s.run.mem /\ t.run.hydrated = s.run.hydrated
      /\ t.run.status = s.run.status /\ t.run.memo = s.run.memo
      /\ t.loop.pc = s.loop.pc /\ t.loop.call = s.loop.call /\ t.loop.by = s.loop.by
      /\ t.loop.todo = s.loop.todo
      /\ t.disk = s.disk /\ t.talk = s.talk /\ t.hist = s.hist
  <2>1. CASE s.run.pend # None /\ t = [s EXCEPT !.run.pend.fut = "done"]
    <3>1. s.run.pend \in Pend
      BY <1>1, <2>1 DEF RunRec
    <3>2. [s.run.pend EXCEPT !.fut = "done"] \in Pend
      BY <3>1 DEF Pend
    <3>3. t.run = [s.run EXCEPT !.pend = [s.run.pend EXCEPT !.fut = "done"]]
      BY <1>1, <2>1 DEF StateRec, RunRec
    <3>4. /\ t.run \in RunRec /\ t.run.mem = s.run.mem /\ t.run.hydrated = s.run.hydrated
          /\ t.run.status = s.run.status /\ t.run.memo = s.run.memo
      BY <1>1, <3>2, <3>3 DEF RunRec
    <3> QED
      BY <1>1, <2>1, <3>4 DEF StateRec
  <2>2. CASE t = [s EXCEPT !.loop.got = value]
    <3>1. t.loop = [s.loop EXCEPT !.got = value]
      BY <1>1, <2>2 DEF StateRec
    <3>2. /\ t.loop \in LoopRec /\ t.loop.pc = s.loop.pc /\ t.loop.call = s.loop.call
          /\ t.loop.by = s.loop.by /\ t.loop.todo = s.loop.todo
      BY <1>1, <3>1 DEF LoopRec
    <3> QED
      BY <1>1, <2>2, <3>2 DEF StateRec
  <2>3. CASE t = s
    BY <1>1, <2>3
  <2> QED
    BY <2>1, <2>2, <2>3 DEF Delivered
<1>3. Sound(t) /\ SnapPending(t)
  BY <1>2 DEF Good, Sound, SnapPending, FreshUntouched, Policy, AtMostOneAnswer, Unborn,
     Created
<1>4. LoopPending(t) /\ WaitDurable(t) /\ TodoUntouched(t) /\ WaitUnanswered(t)
  BY <1>2 DEF Good, LoopPending, WaitDurable, TodoUntouched, Untouched, WaitUnanswered, Created
<1>5. EndedStops(t) /\ LoopOfRun(t) /\ Follows(s, t)
  BY <1>2 DEF Good, EndedStops, LoopOfRun, Follows, Created
<1> QED
  BY <1>3, <1>4, <1>5 DEF Good

---------------------------------------------------------------------------
(* The steps of a run. *)

LEMMA FollowsTransitive ==
    ASSUME NEW s, NEW t, NEW u, Follows(s, t), Follows(t, u)
    PROVE  Follows(s, u)
BY DEF Follows, Created

\* The model asks for calls, and nothing has happened to them yet.
LEMMA AskedParts ==
    ASSUME NEW s, Good(s), Live(s), NEW n \in Call, s.talk.asked < n,
           NEW t, t = [s EXCEPT !.talk.asked = n]
    PROVE  /\ Sound(t) /\ SnapPending(t) /\ Live(t) /\ Follows(s, t)
           /\ (s.talk.asked + 1)..n \in SUBSET Call
           /\ Untouched(t, (s.talk.asked + 1)..n)
<1>1. s \in StateRec /\ s.talk \in TalkRec /\ s.disk \in DiskRec
  BY DEF Good, Sound, StateRec
<1>2. t.talk = [s.talk EXCEPT !.asked = n]
  BY <1>1 DEF StateRec
<1>3. n \in 0..MaxCall /\ n \in Nat /\ s.talk.asked \in Nat /\ Call \subseteq Nat
  BY <1>1, BoundAssumption DEF Call, TalkRec
<1>4. /\ t.talk \in TalkRec /\ t.talk.asked = n /\ t.talk.msgs = s.talk.msgs
      /\ t.talk.came = s.talk.came
  BY <1>1, <1>2, <1>3 DEF TalkRec
<1>5. /\ t \in StateRec
      /\ t.run = s.run /\ t.loop = s.loop /\ t.disk = s.disk /\ t.hist = s.hist
  BY <1>1, <1>4 DEF StateRec
<1>6. (s.talk.asked + 1)..n \in SUBSET Call
  BY <1>3, BoundAssumption DEF Call
<1>7. FreshUntouched(t)
  <2> SUFFICES ASSUME NEW c \in Call, c > n
               PROVE  t.hist.sent[c] = 0 /\ c \notin t.hist.gated /\ t.talk.msgs[c] = 0
    BY <1>4 DEF FreshUntouched
  <2>1. c > s.talk.asked
    BY <1>3
  <2> QED
    BY <1>4, <1>5, <2>1 DEF Good, Sound, FreshUntouched
<1>8. Sound(t) /\ Live(t) /\ Follows(s, t)
  BY <1>4, <1>5, <1>7 DEF Good, Sound, Policy, AtMostOneAnswer, Unborn, Live, Follows, Created
<1>9. SnapPending(t)
  <2> SUFFICES ASSUME NEW w \in Wait \cup {None}, Pending(s.hist, s.talk.asked, w)
               PROVE  Pending(s.hist, n, w)
    <3>1. s.disk.snap \in Wait \cup {None} /\ s.run.memo \in Wait \cup {None}
      BY <1>1 DEF DiskRec, StateRec, RunRec
    <3> QED
      BY <1>4, <1>5, <3>1 DEF Good, SnapPending
  <2>1. w # None => w.call \in Nat /\ w.call <= s.talk.asked
    BY <1>3 DEF Pending, Wait
  <2>2. w # None => w.call <= n
    BY <1>3, <2>1
  <2> QED
    BY <2>2 DEF Pending
<1>10. Untouched(t, (s.talk.asked + 1)..n)
  <2> SUFFICES ASSUME NEW c \in (s.talk.asked + 1)..n
               PROVE  /\ c <= n /\ t.hist.sent[c] = 0 /\ c \notin t.hist.gated
                      /\ t.talk.msgs[c] = 0
    BY <1>4 DEF Untouched
  <2>1. c \in Call /\ c <= n /\ c > s.talk.asked
    BY <1>3, <1>6
  <2> QED
    BY <1>4, <1>5, <2>1 DEF Good, Sound, FreshUntouched
<1> QED
  BY <1>6, <1>8, <1>9, <1>10

\* A sample comes back.
LEMMA SampleGood ==
    ASSUME NEW r \in Run, Good(State(r)), Sample(r)
    PROVE  \E t : Become(r, t) /\ Good(t) /\ Follows(State(r), t)
<1> DEFINE s == State(r)
<1>1. s.loop = loop[r] /\ s.run = run[r] /\ s.talk = talk[r]
  BY DEF State
<1>2. Sound(s) /\ SnapPending(s) /\ Live(s)
  BY <1>1, LoopingIsLive DEF Sample, Good
<1>3. ASSUME NEW st \in {"completed", "failed"}, Become(r, Conclude(s, st))
      PROVE  \E t : Become(r, t) /\ Good(t) /\ Follows(s, t)
  <2> HIDE DEF s
  <2> QED
    BY <1>2, <1>3, ConcludeGood DEF Ended
<1>4. ASSUME Become(r, Conclude(Filled(s), "cancelled"))
      PROVE  \E t : Become(r, t) /\ Good(t) /\ Follows(s, t)
  <2> HIDE DEF s
  <2> DEFINE f == Filled(s)
  <2>1. Sound(f) /\ SameButMsgs(s, f)
    BY <1>2, FilledParts
  <2>2. SnapPending(f) /\ \A t : Follows(f, t) => Follows(s, t)
    BY <1>2, <2>1 DEF SnapPending, SameButMsgs, Follows, Created
  <2> HIDE DEF f
  <2>3. Become(r, Conclude(f, "cancelled"))
    BY <1>4 DEF f
  <2> QED
    BY <2>1, <2>2, <2>3, ConcludeGood DEF Ended
<1>5. ASSUME NEW n \in Call, n \in (s.talk.asked + 1)..(s.talk.asked + CallsLeft),
             NEW t \in Proceed([s EXCEPT !.talk.asked = n], (s.talk.asked + 1)..n)
      PROVE  Good(t) /\ Follows(s, t)
  <2>1. s.talk.asked \in Nat
    BY <1>2, BoundAssumption DEF Sound, StateRec, TalkRec
  <2>2. s.talk.asked < n
    BY <1>5, <2>1 DEF Call
  <2> DEFINE u == [s EXCEPT !.talk.asked = n]
  <2>3. Good(s)
    OBVIOUS
  <2> HIDE DEF s
  <2>4. /\ Sound(u) /\ SnapPending(u) /\ Live(u) /\ Follows(s, u)
        /\ (s.talk.asked + 1)..n \in SUBSET Call
        /\ Untouched(u, (s.talk.asked + 1)..n)
    BY <1>2, <2>2, <2>3, AskedParts
  <2>5. t \in Proceed(u, (s.talk.asked + 1)..n)
    BY <1>5
  <2> HIDE DEF u
  <2>6. Good(t) /\ Follows(u, t)
    BY <2>4, <2>5, ProceedGood
  <2> QED
    BY <2>4, <2>6, FollowsTransitive
<1> QED
  BY <1>1, <1>3, <1>4, <1>5 DEF Sample

\* What is known of a loop in a wait.
LEMMA WaitFacts ==
    ASSUME NEW s, Good(s), s.loop.pc \in Kind
    PROVE  /\ s.loop.call \in Call /\ s.loop.call <= s.talk.asked
           /\ s.loop.todo \in SUBSET Call /\ s.loop.call \notin s.loop.todo
           /\ s.loop.by \in {"call", "resume", "rearm"}
           /\ Untouched(s, s.loop.todo)
           /\ Created(s) => s.loop.by = "call" /\ s.talk.msgs[s.loop.call] = 0
           /\ s.loop.pc = "approval" =>
                Undecided(s.hist, s.loop.call)
           /\ Live(s)
<1>1. s \in StateRec /\ s.loop \in LoopRec
  BY DEF Good, Sound, StateRec
<1>2. s.loop.todo \in SUBSET Call /\ s.loop.by \in {"call", "resume", "rearm"}
  BY <1>1 DEF LoopRec
<1>3. Live(s)
  BY LoopingIsLive
<1> QED
  BY <1>2, <1>3 DEF Good, LoopPending, TodoUntouched, WaitUnanswered

\* An interrupted wait ends the run.
LEMMA InterruptedGood ==
    ASSUME NEW s, Sound(s), SnapPending(s), NEW c \in Call, c <= s.talk.asked,
           NEW by \in {"call", "resume", "rearm"}, Created(s) => by = "call",
           NEW t, t = Interrupted(s, by, c)
    PROVE  Good(t) /\ Follows(s, t)
<1>1. \A u : /\ Sound(u) /\ SameButMsgs(s, u) /\ t = Conclude(u, "cancelled")
             => Good(t) /\ Follows(s, t)
  <2> SUFFICES ASSUME NEW u, Sound(u), SameButMsgs(s, u), t = Conclude(u, "cancelled")
               PROVE  Good(t) /\ Follows(s, t)
    OBVIOUS
  <2>1. SnapPending(u) /\ Follows(s, u)
    BY DEF SnapPending, SameButMsgs, Follows, Created
  <2>2. Good(t) /\ Follows(u, t)
    BY <2>1, ConcludeGood DEF Ended
  <2> QED
    BY <2>1, <2>2, FollowsTransitive
<1>2. CASE by = "call"
  BY <1>1, <1>2, FilledParts DEF Interrupted
<1>3. CASE by = "resume"
  BY <1>1, <1>3, AnswerParts DEF Interrupted
<1>4. CASE by = "rearm"
  BY <1>1, <1>4 DEF Interrupted, SameButMsgs
<1> QED
  BY <1>2, <1>3, <1>4

\* The wait of a loop is over, and its snapshot is gone or marked.
LEMMA ClearedWait ==
    ASSUME NEW s, Good(s), s.loop.pc \in Kind, NEW u \in Cleared(s),
           NEW t, t \in {u, [u EXCEPT !.run.status = "running"]}
    PROVE  /\ Sound(t) /\ SnapPending(t)
           /\ t.run.memo = None
           /\ t.disk.snap # None => t.disk.snap \in t.hist.unremoved
           /\ Kept(s, t) /\ Follows(s, t) /\ Live(t)
           /\ Untouched(t, s.loop.todo)
           /\ s.loop.call \in Call /\ s.loop.call <= t.talk.asked
           /\ Created(t) => s.loop.by = "call" /\ t.talk.msgs[s.loop.call] = 0
<1>1. /\ Sound(u) /\ Kept(s, u) /\ SnapPending(u) /\ u.run.status = s.run.status
      /\ u.run.memo = None
      /\ u.disk.snap # None => u.disk.snap \in u.hist.unremoved
  BY ClearedParts DEF Good
<1>2. /\ Sound(t) /\ Kept(s, t) /\ SnapPending(t) /\ t.run.memo = None
      /\ t.disk.snap # None => t.disk.snap \in t.hist.unremoved
      /\ t.run.status \in {s.run.status, "running"}
  <2>1. CASE t = u
    BY <1>1, <2>1
  <2>2. CASE t = [u EXCEPT !.run.status = "running"]
    <3>1. /\ Sound(t) /\ Kept(u, t) /\ t.disk = u.disk /\ t.hist = u.hist
          /\ t.run.status = "running" /\ t.run.memo = u.run.memo
      BY <1>1, <2>2, RunningParts
    <3>2. SnapPending(t)
      BY <1>1, <3>1, SnapKept DEF Kept
    <3> QED
      BY <1>1, <3>1, <3>2 DEF Kept, SameHist
  <2> QED
    BY <2>1, <2>2
<1>3. /\ s.loop.call \in Call /\ s.loop.call <= s.talk.asked /\ Live(s)
      /\ Untouched(s, s.loop.todo)
      /\ Created(s) => s.loop.by = "call" /\ s.talk.msgs[s.loop.call] = 0
  BY WaitFacts
<1>4. Live(t)
  BY <1>2, <1>3 DEF Live, Kept, Created, Active
<1>5. Follows(s, t)
  BY <1>2, <1>3 DEF Follows, Live, Kept, SameHist, Created
<1> QED
  BY <1>2, <1>3, <1>4, <1>5 DEF Kept, SameHist, Untouched, Created

\* A host wait or a question to the user is answered, or cancelled.
LEMMA WakeHostGood ==
    ASSUME NEW r \in Run, Good(State(r)), WakeHost(r)
    PROVE  \E t : Become(r, t) /\ Good(t) /\ Follows(State(r), t)
<1> DEFINE g == State(r)
           c == g.loop.call
<1>1. g.loop = loop[r] /\ g.loop.pc \in Kind
  BY DEF State, WakeHost, Kind
<1>0. PICK s \in Cleared(g) :
         \/ Become(r, Interrupted(s, g.loop.by, c))
         \/ \E t \in Proceed([Answer(s, c) EXCEPT !.run.status = "running"], g.loop.todo) :
               Become(r, t)
  BY <1>1 DEF WakeHost
<1>2. /\ Sound(s) /\ SnapPending(s) /\ Follows(g, s) /\ Live(s) /\ s.loop = g.loop
      /\ Untouched(s, g.loop.todo)
      /\ c \in Call /\ c <= s.talk.asked
      /\ Created(s) => g.loop.by = "call" /\ s.talk.msgs[c] = 0
  <2> HIDE DEF g
  <2> QED
    BY <1>0, <1>1, ClearedWait DEF Kept, g
<1>3. /\ g.loop.todo \in SUBSET Call /\ c \notin g.loop.todo
      /\ g.loop.by \in {"call", "resume", "rearm"}
  <2> HIDE DEF g
  <2> QED
    BY <1>1, WaitFacts DEF g
<1> HIDE DEF c
<1>5. ASSUME Become(r, Interrupted(s, g.loop.by, c))
      PROVE  \E t : Become(r, t) /\ Good(t) /\ Follows(g, t)
  <2> HIDE DEF g
  <2>1. PICK t : t = Interrupted(s, g.loop.by, c)
    OBVIOUS
  <2>2. Good(t) /\ Follows(s, t)
    BY <1>2, <1>3, <2>1, InterruptedGood
  <2> QED
    BY <1>2, <1>5, <2>1, <2>2, FollowsTransitive
<1>6. ASSUME NEW t \in Proceed([Answer(s, c) EXCEPT !.run.status = "running"], g.loop.todo)
      PROVE  Good(t) /\ Follows(g, t)
  <2> HIDE DEF g
  <2> DEFINE a == Answer(s, c)
             u == [a EXCEPT !.run.status = "running"]
  <2>1. /\ Sound(a) /\ SameButMsgs(s, a)
        /\ \A d \in Call \ {c} : a.talk.msgs[d] = s.talk.msgs[d]
    BY <1>2, AnswerParts
  <2> HIDE DEF a
  <2>2. /\ Sound(u) /\ Kept(a, u) /\ u.disk = a.disk /\ u.hist = a.hist
        /\ u.run.status = "running" /\ u.run.memo = a.run.memo
    BY <2>1, RunningParts
  <2>3. t \in Proceed(u, g.loop.todo)
    BY <1>6 DEF a
  <2> HIDE DEF u
  <2>4. SnapPending(u) /\ Live(u) /\ Follows(s, u)
    <3>1. /\ u.run.mem = s.run.mem /\ u.run.hydrated = s.run.hydrated
          /\ u.run.status = "running" /\ u.disk = s.disk /\ u.hist = s.hist
          /\ u.talk.asked = s.talk.asked /\ u.run.memo = s.run.memo
      BY <2>1, <2>2 DEF SameButMsgs, Kept
    <3>2. SnapPending(u)
      BY <1>2, <3>1 DEF SnapPending
    <3>3. Live(u) /\ Follows(s, u)
      BY <1>2, <3>1 DEF Live, Follows, Created, Active
    <3> QED
      BY <3>2, <3>3
  <2>5. Untouched(u, g.loop.todo)
    BY <1>2, <1>3, <2>1, <2>2 DEF Untouched, SameButMsgs, Kept, SameHist, Created
  <2>6. Good(t) /\ Follows(u, t)
    BY <1>3, <2>2, <2>3, <2>4, <2>5, ProceedGood
  <2> QED
    BY <1>2, <2>4, <2>6, FollowsTransitive
<1> QED
  BY <1>0, <1>5, <1>6

\* The user's decision enters the history.
LEMMA ApprovedParts ==
    ASSUME NEW s, Sound(s), NEW c \in Call,
           NEW t, t = [s EXCEPT !.hist.approved = @ \cup {c}]
    PROVE  /\ Sound(t)
           /\ t.run = s.run /\ t.loop = s.loop /\ t.disk = s.disk /\ t.talk = s.talk
           /\ t.hist.gated = s.hist.gated /\ t.hist.sent = s.hist.sent
           /\ t.hist.rejected = s.hist.rejected /\ t.hist.ended = s.hist.ended
           /\ t.hist.unsaved = s.hist.unsaved /\ t.hist.unremoved = s.hist.unremoved
           /\ c \in t.hist.approved
<1>1. s \in StateRec /\ s.hist \in HistRec
  BY DEF Sound, StateRec
<1>2. /\ t.hist = [s.hist EXCEPT !.approved = @ \cup {c}]
      /\ t.run = s.run /\ t.loop = s.loop /\ t.disk = s.disk /\ t.talk = s.talk
      /\ t = [run |-> t.run, loop |-> t.loop, disk |-> t.disk, talk |-> t.talk,
              hist |-> t.hist]
  BY <1>1 DEF StateRec
<1>3. /\ t.hist \in HistRec /\ t.hist.approved = s.hist.approved \cup {c}
      /\ t.hist.gated = s.hist.gated /\ t.hist.sent = s.hist.sent
      /\ t.hist.rejected = s.hist.rejected /\ t.hist.ended = s.hist.ended
           /\ t.hist.unsaved = s.hist.unsaved /\ t.hist.unremoved = s.hist.unremoved
  BY <1>1, <1>2 DEF HistRec
<1>4. t \in StateRec
  BY <1>1, <1>2, <1>3 DEF StateRec
<1>5. FreshUntouched(t) /\ AtMostOneAnswer(t) /\ Unborn(t)
  BY <1>2, <1>3 DEF Sound, FreshUntouched, AtMostOneAnswer, Unborn, Created
<1>6. Policy(t)
  BY <1>3 DEF Sound, Policy, PolicyOf, Outlives, Doubled
<1> QED
  BY <1>2, <1>3, <1>4, <1>5, <1>6 DEF Sound

RejectedOf(s, c) == [s EXCEPT !.hist.rejected = @ \cup {c}]

\* A rejection enters the history.
LEMMA RejectedParts ==
    ASSUME NEW s, Sound(s), NEW c \in s.hist.gated,
           s.hist.sent[c] > 0 => Outlives(s.hist, c),
           NEW t, t = RejectedOf(s, c)
    PROVE  /\ Sound(t)
           /\ t.run = s.run /\ t.loop = s.loop /\ t.disk = s.disk /\ t.talk = s.talk
           /\ t.hist.gated = s.hist.gated /\ t.hist.sent = s.hist.sent
           /\ t.hist.ended = s.hist.ended
           /\ t.hist.unsaved = s.hist.unsaved /\ t.hist.unremoved = s.hist.unremoved
           /\ t.hist.rejected = s.hist.rejected \cup {c}
<1>1. s \in StateRec /\ s.hist \in HistRec
  BY DEF Sound, StateRec
<1>2. /\ t.hist = [s.hist EXCEPT !.rejected = @ \cup {c}]
      /\ t.run = s.run /\ t.loop = s.loop /\ t.disk = s.disk /\ t.talk = s.talk
      /\ t = [run |-> t.run, loop |-> t.loop, disk |-> t.disk, talk |-> t.talk,
              hist |-> t.hist]
  BY <1>1 DEF StateRec, RejectedOf
<1>3. /\ t.hist \in HistRec /\ t.hist.rejected = s.hist.rejected \cup {c}
      /\ t.hist.gated = s.hist.gated /\ t.hist.sent = s.hist.sent
      /\ t.hist.approved = s.hist.approved /\ t.hist.ended = s.hist.ended
      /\ t.hist.unsaved = s.hist.unsaved /\ t.hist.unremoved = s.hist.unremoved
  BY <1>1, <1>2 DEF HistRec
<1>4. t \in StateRec
  BY <1>1, <1>2, <1>3 DEF StateRec
<1>5. Policy(t)
  <2>1. t.hist.rejected \subseteq t.hist.gated
    BY <1>3 DEF Sound, Policy, PolicyOf
  <2>2. \A d : /\ Outlives(t.hist, d) = Outlives(s.hist, d)
               /\ Doubled(t.hist, d) = Doubled(s.hist, d)
    BY <1>3 DEF Outlives, Doubled
  <2>3. ASSUME NEW d \in t.hist.gated, t.hist.sent[d] > 0
        PROVE  d \in t.hist.approved /\ (d \in t.hist.rejected => Outlives(t.hist, d))
    <3>1. d \in s.hist.approved /\ (d \in s.hist.rejected => Outlives(s.hist, d))
      BY <1>3, <2>3 DEF Sound, Policy, PolicyOf
    <3> QED
      BY <1>3, <2>2, <2>3, <3>1
  <2>4. \A d \in Call : t.hist.sent[d] <= 1 \/ Doubled(t.hist, d)
    BY <1>3, <2>2 DEF Sound, Policy, PolicyOf
  <2> QED
    BY <2>1, <2>3, <2>4 DEF Policy, PolicyOf
<1>6. FreshUntouched(t)
  BY <1>2, <1>3 DEF Sound, FreshUntouched
<1>7. AtMostOneAnswer(t) /\ Unborn(t)
  BY <1>2, <1>3 DEF Sound, AtMostOneAnswer, Unborn, Created
<1>8. Sound(t)
  BY <1>4, <1>5, <1>6, <1>7 DEF Sound
<1> QED
  BY <1>2, <1>3, <1>8

\* The decision on an approval reaches its loop.
LEMMA WakeApprovalGood ==
    ASSUME NEW r \in Run, Good(State(r)), WakeApproval(r)
    PROVE  \E t : Become(r, t) /\ Good(t) /\ Follows(State(r), t)
<1> DEFINE g == State(r)
           c == g.loop.call
           todo == g.loop.todo
           running(u) == [u EXCEPT !.run.status = "running"]
           by  == IF g.loop.by = "call" THEN "call" ELSE "resume"
<1>1. g.loop = loop[r] /\ g.loop.pc = "approval"
  BY DEF State, WakeApproval
<1>2. PICK v \in Cleared(g) :
         \/ Become(r, Interrupted(running(v), g.loop.by, c))
         \/ \E t \in Enter([running(v) EXCEPT !.hist.approved = @ \cup {c}], "tool", c, by,
                           todo) : Become(r, t)
         \/ \E t \in Proceed([Answer(running(v), c) EXCEPT !.hist.rejected = @ \cup {c}],
                             todo) : Become(r, t)
  BY <1>1 DEF WakeApproval
<1> DEFINE s == running(v)
           yes == [s EXCEPT !.hist.approved = @ \cup {c}]
           no  == [Answer(s, c) EXCEPT !.hist.rejected = @ \cup {c}]
<1> HIDE DEF g
<1>3. /\ Sound(s) /\ SnapPending(s) /\ s.run.memo = None
      /\ s.disk.snap # None => s.disk.snap \in s.hist.unremoved
      /\ Kept(g, s) /\ Follows(g, s) /\ Live(s)
      /\ Untouched(s, todo)
      /\ c \in Call /\ c <= s.talk.asked
      /\ Created(s) => g.loop.by = "call" /\ s.talk.msgs[c] = 0
  BY <1>1, <1>2, ClearedWait DEF g, Kind
<1>4. /\ todo \in SUBSET Call /\ c \notin todo
      /\ g.loop.by \in {"call", "resume", "rearm"}
      /\ Undecided(g.hist, c)
  BY <1>1, WaitFacts DEF g, Kind
<1> HIDE DEF s, c, todo
<1>4a. Undecided(s.hist, c)
  BY <1>3, <1>4, UndecidedKept DEF Kept
<1>5. ASSUME Become(r, Interrupted(s, g.loop.by, c))
      PROVE  \E t : Become(r, t) /\ Good(t) /\ Follows(g, t)
  <2>1. PICK t : t = Interrupted(s, g.loop.by, c)
    OBVIOUS
  <2>2. Good(t) /\ Follows(s, t)
    BY <1>3, <1>4, <2>1, InterruptedGood
  <2> QED
    BY <1>3, <1>5, <2>1, <2>2, FollowsTransitive
<1>6. ASSUME NEW t \in Enter(yes, "tool", c, by, todo)
      PROVE  Good(t) /\ Follows(g, t)
  <2>1. /\ Sound(yes)
        /\ yes.run = s.run /\ yes.loop = s.loop /\ yes.disk = s.disk /\ yes.talk = s.talk
        /\ yes.hist.gated = s.hist.gated /\ yes.hist.sent = s.hist.sent
        /\ yes.hist.rejected = s.hist.rejected /\ yes.hist.ended = s.hist.ended
        /\ yes.hist.unsaved = s.hist.unsaved /\ yes.hist.unremoved = s.hist.unremoved
        /\ c \in yes.hist.approved
    BY <1>3, ApprovedParts
  <2> HIDE DEF yes
  <2>2. Live(yes) /\ Follows(s, yes) /\ Untouched(yes, todo)
    BY <1>3, <2>1 DEF Live, Follows, Untouched, Created
  <2>3. by \in {"call", "resume", "rearm"} /\ (Created(yes) => by = "call")
    BY <1>3, <2>1 DEF Created
  <2>4. Created(yes) => yes.talk.msgs[c] = 0
    BY <1>3, <2>1 DEF Created
  <2> HIDE DEF by
  <2>5. "tool" \in Kind
    BY DEF Kind
  <2>6. MayBegin(yes, "tool", c)
    <3>1. Undecided(yes.hist, c)
      BY <1>4a, <2>1 DEF Undecided, Outlives, Doubled
    <3>2. yes.disk.snap = [kind |-> "approval", call |-> c] => Outlives(yes.hist, c)
      <4>1. [kind |-> "approval", call |-> c] # None
        <5>1. "approval" \in Kind /\ c \in Nat
          BY <1>3, BoundAssumption DEF Kind, Call
        <5> QED
          BY <5>1, NoneAssumption
      <4> QED
        BY <1>3, <2>1, <4>1 DEF Outlives
    <3> QED
      BY <2>1, <3>1, <3>2 DEF MayBegin
  <2>7. SnapPending(yes)
    <3>1. Pending(yes.hist, s.talk.asked, s.disk.snap) /\ Pending(yes.hist, s.talk.asked, s.run.memo)
      BY <1>3, <2>1 DEF SnapPending, Pending, Undecided, Outlives, Doubled
    <3> QED
      BY <1>3, <2>1, <3>1 DEF SnapPending
  <2>8. c <= yes.talk.asked
    BY <1>3, <2>1
  <2>9. Good(t) /\ Follows(yes, t)
    BY <1>3, <1>4, <1>6, <2>1, <2>2, <2>3, <2>4, <2>5, <2>6, <2>7, <2>8, EnterGood
  <2> QED
    BY <1>3, <2>2, <2>9, FollowsTransitive
<1>7. ASSUME NEW t \in Proceed(no, todo)
      PROVE  Good(t) /\ Follows(g, t)
  <2> DEFINE a == Answer(s, c)
  <2>1. /\ Sound(a) /\ SameButMsgs(s, a)
        /\ \A d \in Call \ {c} : a.talk.msgs[d] = s.talk.msgs[d]
    BY <1>3, AnswerParts
  <2> HIDE DEF a
  <2>2. c \in a.hist.gated /\ (a.hist.sent[c] > 0 => Outlives(a.hist, c))
    BY <1>4a, <2>1 DEF SameButMsgs, Undecided, Doubled
  <2>3. /\ Sound(no)
        /\ no.run = a.run /\ no.loop = a.loop /\ no.disk = a.disk /\ no.talk = a.talk
        /\ no.hist.gated = a.hist.gated /\ no.hist.sent = a.hist.sent
        /\ no.hist.ended = a.hist.ended
        /\ no.hist.unsaved = a.hist.unsaved /\ no.hist.unremoved = a.hist.unremoved
        /\ no.hist.rejected = a.hist.rejected \cup {c}
    <3>1. no = RejectedOf(a, c)
      BY DEF a, RejectedOf
    <3> HIDE DEF no
    <3> QED
      BY <2>1, <2>2, <3>1, RejectedParts
  <2> HIDE DEF no
  <2>4. Live(no) /\ Follows(s, no)
    BY <1>3, <2>1, <2>3 DEF Live, Follows, SameButMsgs, Created
  <2>5. SnapPending(no)
    <3>1. \A d : /\ Outlives(no.hist, d) = Outlives(s.hist, d)
                 /\ Doubled(no.hist, d) = Doubled(s.hist, d)
      BY <2>1, <2>3 DEF Outlives, Doubled, SameButMsgs
    <3>2. no.disk.snap # None => no.disk.snap \in no.hist.unremoved
      BY <1>3, <2>1, <2>3 DEF SameButMsgs
    <3>3. Pending(no.hist, no.talk.asked, no.disk.snap)
      <4> SUFFICES ASSUME no.disk.snap # None, no.disk.snap.kind = "approval"
                   PROVE  Undecided(no.hist, no.disk.snap.call)
        BY <1>3, <2>1, <2>3 DEF Pending, SnapPending, SameButMsgs
      <4> DEFINE d == no.disk.snap.call
      <4>1. Undecided(s.hist, d)
        BY <1>3, <2>1, <2>3 DEF Pending, SnapPending, SameButMsgs
      <4>2. no.disk.snap = [kind |-> "approval", call |-> d]
        <5>1. no.disk.snap \in Wait
          BY <2>3 DEF Sound, StateRec, DiskRec
        <5> QED
          BY <5>1 DEF Wait
      <4>3. Outlives(no.hist, d)
        BY <3>2, <4>2 DEF Outlives
      <4> HIDE DEF d
      <4>4. Undecided(no.hist, d)
        BY <2>1, <2>3, <3>1, <4>1, <4>3 DEF Undecided, SameButMsgs
      <4> QED
        BY <4>4 DEF d
    <3>4. no.run.memo = None
      BY <1>3, <2>1, <2>3 DEF SameButMsgs
    <3> QED
      BY <3>3, <3>4 DEF SnapPending, Pending
  <2>6. Untouched(no, todo)
    BY <1>3, <1>4, <2>1, <2>3 DEF Untouched, SameButMsgs, Created
  <2>7. Good(t) /\ Follows(no, t)
    BY <1>4, <1>7, <2>3, <2>4, <2>5, <2>6, ProceedGood
  <2> QED
    BY <1>3, <2>4, <2>7, FollowsTransitive
<1> QED
  BY <1>2, <1>5, <1>6, <1>7 DEF g, s

\* What a future holds is no part of the invariant.
LEMMA GotGood ==
    ASSUME NEW s, Good(s), NEW t, t = [s EXCEPT !.loop.got = "dead"]
    PROVE  /\ Good(t) /\ Follows(s, t)
           /\ t.run = s.run /\ t.talk = s.talk
           /\ t.loop.pc = s.loop.pc /\ t.loop.call = s.loop.call
           /\ t.loop.todo = s.loop.todo
<1>1. s \in StateRec /\ s.loop \in LoopRec
  BY DEF Good, Sound, StateRec
<1>2. t.loop = [s.loop EXCEPT !.got = "dead"]
  BY <1>1 DEF StateRec
<1>3. /\ t.loop \in LoopRec /\ t.loop.pc = s.loop.pc /\ t.loop.call = s.loop.call
      /\ t.loop.by = s.loop.by /\ t.loop.todo = s.loop.todo
  BY <1>1, <1>2 DEF LoopRec
<1>4. /\ t \in StateRec
      /\ t.run = s.run /\ t.disk = s.disk /\ t.talk = s.talk /\ t.hist = s.hist
  BY <1>1, <1>3 DEF StateRec
<1>5. Sound(t) /\ SnapPending(t)
  BY <1>4 DEF Good, Sound, SnapPending, FreshUntouched, Policy, AtMostOneAnswer, Unborn,
     Created
<1>6. LoopPending(t) /\ WaitDurable(t) /\ TodoUntouched(t) /\ WaitUnanswered(t)
  BY <1>3, <1>4 DEF Good, LoopPending, WaitDurable, TodoUntouched, Untouched, WaitUnanswered,
     Created
<1>7. EndedStops(t) /\ LoopOfRun(t) /\ Follows(s, t)
  BY <1>3, <1>4 DEF Good, EndedStops, LoopOfRun, Follows, Created
<1> QED
  BY <1>3, <1>4, <1>5, <1>6, <1>7 DEF Good

LEMMA WithdrawnParts ==
    ASSUME NEW s, Sound(s),
           NEW t, t = [s EXCEPT !.run.pend = None, !.run.status = "running"]
    PROVE  /\ Sound(t) /\ Kept(s, t) /\ t.disk = s.disk /\ t.hist = s.hist
           /\ t.run.status = "running" /\ t.run.memo = s.run.memo
<1>1. s \in StateRec /\ s.run \in RunRec
  BY DEF Sound, StateRec
<1>2. /\ t.run = [s.run EXCEPT !.pend = None, !.status = "running"]
      /\ t.disk = s.disk /\ t.loop = s.loop /\ t.talk = s.talk /\ t.hist = s.hist
      /\ t = [run |-> t.run, loop |-> t.loop, disk |-> t.disk, talk |-> t.talk,
              hist |-> t.hist]
  BY <1>1 DEF StateRec
<1>3. /\ t.run \in RunRec /\ t.run.status = "running" /\ t.run.memo = s.run.memo
      /\ t.run.mem = s.run.mem /\ t.run.hydrated = s.run.hydrated
  BY <1>1, <1>2 DEF RunRec, Active
<1>4. t \in StateRec
  BY <1>1, <1>2, <1>3 DEF StateRec
<1> QED
  BY <1>2, <1>3, <1>4 DEF Sound, Kept, SameHist, FreshUntouched, Policy, AtMostOneAnswer,
     Unborn, Created

\* The time limit of a tool ends its wait.
LEMMA TimeoutGood ==
    ASSUME NEW r \in Run, Good(State(r)), Timeout(r)
    PROVE  \E t : Become(r, t) /\ Good(t) /\ Follows(State(r), t)
<1> DEFINE g  == State(r)
           s  == [g EXCEPT !.loop.got = "dead"]
           c  == loop[r].call
           todo == loop[r].todo
           p  == run[r].pend
           withdrawn == p # None /\ p.kind = "tool" /\ p.call = c
           s1 == IF withdrawn
                 THEN [s EXCEPT !.run.pend = None, !.run.status = "running"] ELSE s
           s2 == IF s1.talk.msgs[c] = 0 THEN Answer(s1, c) ELSE s1
           u  == [s2 EXCEPT !.run.status = "running"]
<1>1. g.loop.pc \in Kind /\ g.loop.call = c /\ g.loop.todo = todo
  BY DEF State, Timeout
<1>2. \/ Become(r, [Filled(s2) EXCEPT !.loop = Off])
      \/ \E t \in Proceed(u, todo) : Become(r, t)
  BY Zenon DEF Timeout
<1> HIDE DEF g, c, todo
<1>3. /\ Good(s) /\ Follows(g, s)
      /\ s.run = g.run /\ s.talk = g.talk
      /\ s.loop.pc = g.loop.pc /\ s.loop.call = c /\ s.loop.todo = todo
  BY <1>1, GotGood DEF g
<1> HIDE DEF s
<1>4. /\ c \in Call /\ c <= s.talk.asked
      /\ todo \in SUBSET Call /\ c \notin todo
      /\ Untouched(s, todo)
      /\ Created(s) => s.talk.msgs[c] = 0
      /\ Live(s)
  BY <1>1, <1>3, WaitFacts
<1>5. /\ Sound(s1) /\ Kept(s, s1) /\ s1.disk = s.disk /\ s1.hist = s.hist
      /\ s1.run.memo = s.run.memo
      /\ s1.run.status \in {"running", s.run.status}
  <2>1. CASE s1 = s
    BY <1>3, <2>1 DEF Good, Kept, SameHist
  <2>2. CASE s1 = [s EXCEPT !.run.pend = None, !.run.status = "running"]
    <3> HIDE DEF s1
    <3> QED
      BY <1>3, <2>2, WithdrawnParts DEF Good
  <2> QED
    BY <2>1, <2>2
<1> HIDE DEF s1
<1>6. /\ Sound(s2) /\ SameButMsgs(s1, s2)
      /\ \A d \in Call \ {c} : s2.talk.msgs[d] = s1.talk.msgs[d]
  <2>1. CASE s2 = Answer(s1, c)
    <3> HIDE DEF s2
    <3>1. Created(s1) => s1.talk.msgs[c] = 0
      BY <1>4, <1>5 DEF Kept, Created
    <3>2. c <= s1.talk.asked
      BY <1>4, <1>5 DEF Kept
    <3> QED
      BY <1>4, <1>5, <2>1, <3>1, <3>2, AnswerParts
  <2>2. CASE s2 = s1
    BY <1>5, <2>2 DEF SameButMsgs
  <2> QED
    BY <2>1, <2>2
<1> HIDE DEF s2
<1>7. SnapPending(s2) /\ Live(s2) /\ Follows(s, s2) /\ Untouched(s2, todo)
  <2>1. SnapPending(s2)
    BY <1>3, <1>5, <1>6 DEF Good, SnapPending, Kept, SameButMsgs
  <2>2. Live(s2) /\ Follows(s, s2)
    BY <1>4, <1>5, <1>6 DEF Live, Follows, Kept, SameButMsgs, Created, Active
  <2>3. Untouched(s2, todo)
    BY <1>4, <1>5, <1>6 DEF Untouched, Kept, SameHist, SameButMsgs, Created
  <2> QED
    BY <2>1, <2>2, <2>3
<1>8. ASSUME Become(r, [Filled(s2) EXCEPT !.loop = Off])
      PROVE  \E t : Become(r, t) /\ Good(t) /\ Follows(g, t)
  <2> DEFINE f == Filled(s2)
  <2>1. Sound(f) /\ SameButMsgs(s2, f)
    BY <1>6, FilledParts
  <2> HIDE DEF f
  <2>2. SnapPending(f) /\ Live(f) /\ Follows(s2, f)
    BY <1>7, <2>1 DEF SnapPending, Live, Follows, SameButMsgs, Created
  <2>3. PICK t : t = [f EXCEPT !.loop = Off]
    OBVIOUS
  <2>4. Good(t) /\ Follows(f, t)
    BY <2>1, <2>2, <2>3, LoopSetGood
  <2>5. Follows(g, t)
    BY <1>3, <1>7, <2>2, <2>4, FollowsTransitive
  <2> QED
    BY <1>8, <2>3, <2>4, <2>5 DEF f
<1>9. ASSUME NEW t \in Proceed(u, todo)
      PROVE  Good(t) /\ Follows(g, t)
  <2>1. /\ Sound(u) /\ Kept(s2, u) /\ u.disk = s2.disk /\ u.hist = s2.hist
        /\ u.run.status = "running" /\ u.run.memo = s2.run.memo
    BY <1>6, RunningParts
  <2> HIDE DEF u
  <2>2. SnapPending(u) /\ Live(u) /\ Follows(s2, u) /\ Untouched(u, todo)
    <3>1. SnapPending(u) /\ Untouched(u, todo)
      BY <1>7, <2>1 DEF SnapPending, Untouched, Kept, Created
    <3>2. Live(u) /\ Follows(s2, u)
      BY <1>7, <2>1 DEF Live, Follows, Kept, Created, Active
    <3> QED
      BY <3>1, <3>2
  <2>3. Good(t) /\ Follows(u, t)
    BY <1>4, <1>9, <2>1, <2>2, ProceedGood
  <2> QED
    BY <1>3, <1>7, <2>2, <2>3, FollowsTransitive
<1> QED
  BY <1>2, <1>8, <1>9 DEF g

---------------------------------------------------------------------------
(* Steps that stop a run from outside its loop. *)

\* How a cancelled task leaves the loop of a run.
LEMMA StoppedParts ==
    ASSUME TypeOK, NEW r \in Run, NEW l \in {TaskCancelled(r), Stopped(r)}
    PROVE  /\ l \in LoopRec
           /\ l.call = loop[r].call /\ l.by = loop[r].by /\ l.todo = loop[r].todo
           /\ l.pc = loop[r].pc \/ l.pc = "dying"
           /\ l.pc = "off" <=> loop[r].pc = "off"
           /\ ~run[r].hydrated => l.pc \in {"off", "dying"}
<1> DEFINE k == TaskCancelled(r)
<1>1. loop[r] \in LoopRec /\ run[r] \in RunRec
  BY DEF TypeOK, LoopRec, RunRec, Pend
<1>2. /\ k \in LoopRec
      /\ k.call = loop[r].call /\ k.by = loop[r].by /\ k.todo = loop[r].todo
      /\ k.pc = loop[r].pc \/ k.pc = "dying"
      /\ k.pc = "off" <=> loop[r].pc = "off"
      /\ ~run[r].hydrated => k.pc \in {"off", "dying"}
  BY <1>1 DEF TaskCancelled, LoopRec, Kind
<1> HIDE DEF k
<1>3. CASE l = k
  BY <1>2, <1>3
<1>4. CASE l = [k EXCEPT !.got = "cancelled"]
  BY <1>2, <1>4 DEF LoopRec
<1> QED
  BY <1>3, <1>4 DEF Stopped, k

\* Whatever stops a run leaves a run that is over, or one whose loop it did not
\* touch because it was read back from disk.
LEMMA StopGood ==
    ASSUME NEW s, Good(s), NEW t \in StateRec,
           t.run.mem = s.run.mem, t.run.hydrated = s.run.hydrated,
           t.run.status \in Ended, t.run.memo = s.run.memo,
           t.disk = s.disk, t.talk = s.talk, SameHist(s, t),
           s.hist.ended => t.hist.ended, s.run.mem,
           t.loop.call = s.loop.call, t.loop.by = s.loop.by, t.loop.todo = s.loop.todo,
           t.loop.pc = s.loop.pc \/ t.loop.pc = "dying",
           t.loop.pc = "off" <=> s.loop.pc = "off",
           ~s.run.hydrated => t.loop.pc \in {"off", "dying"}
    PROVE  Good(t) /\ Follows(s, t)
<1>1. Sound(t) /\ SnapPending(t)
  <2>1. Policy(t)
    BY PolicyKept DEF Good, Sound
  <2>2. SnapPending(t)
    BY SnapKept DEF Good
  <2> QED
    BY <2>1, <2>2 DEF Good, Sound, FreshUntouched, AtMostOneAnswer, Unborn, Created, SameHist
<1>2. /\ LoopPending(t) /\ WaitDurable(t) /\ TodoUntouched(t) /\ WaitUnanswered(t)
  <2>1. LoopPending(t)
    BY UndecidedKept DEF Good, LoopPending, Kind
  <2> QED
    BY <2>1 DEF Good, WaitDurable, TodoUntouched, Untouched, WaitUnanswered, Created, Kind,
       SameHist
<1>3. EndedStops(t) /\ LoopOfRun(t) /\ Follows(s, t)
  BY DEF Good, EndedStops, LoopOfRun, Follows, Created, Ended, Active, SameHist
<1> QED
  BY <1>1, <1>2, <1>3 DEF Good

\* The typing of the variables is that of every run.
LEMMA StateTyped ==
    ASSUME TypeOK, NEW r \in Run
    PROVE  /\ State(r) \in StateRec
           /\ run[r] \in RunRec /\ loop[r] \in LoopRec /\ disk[r] \in DiskRec
           /\ talk[r] \in TalkRec /\ hist[r] \in HistRec
BY DEF TypeOK, State, StateRec, RunRec, LoopRec, DiskRec, TalkRec, HistRec, Pend

\* cancel_run
LEMMA CancelGood ==
    ASSUME TypeOK, NEW r \in Run, Good(State(r)), Cancel(r)
    PROVE  \E t : Become(r, t) /\ Good(t) /\ Follows(State(r), t)
<1> DEFINE s == State(r)
           newRun == [run[r] EXCEPT !.cancelReq = TRUE, !.dog = FALSE, !.pend = None,
                                    !.status = IF @ \in Ended THEN @ ELSE "cancelled"]
           newHist == [hist[r] EXCEPT !.ended = TRUE]
           t == [run |-> newRun, loop |-> Stopped(r), disk |-> disk[r], talk |-> talk[r],
                 hist |-> newHist]
<1>1. /\ run[r] \in RunRec /\ loop[r] \in LoopRec /\ disk[r] \in DiskRec
      /\ talk[r] \in TalkRec /\ hist[r] \in HistRec
  BY StateTyped
<1>2. (IF run[r].status \in Ended THEN run[r].status ELSE "cancelled") \in Ended
  BY DEF Ended
<1>3. /\ newRun \in RunRec /\ newRun.mem = run[r].mem /\ newRun.hydrated = run[r].hydrated
      /\ newRun.status \in Ended /\ newRun.memo = run[r].memo
  BY <1>1, <1>2 DEF RunRec
<1>4. /\ newHist \in HistRec /\ newHist.ended
      /\ newHist.gated = hist[r].gated /\ newHist.approved = hist[r].approved
      /\ newHist.rejected = hist[r].rejected /\ newHist.sent = hist[r].sent
      /\ newHist.unsaved = hist[r].unsaved /\ newHist.unremoved = hist[r].unremoved
  BY <1>1 DEF HistRec
<1>5. Become(r, t)
  <2>0. run' = [run EXCEPT ![r] = newRun]
    BY DEF Cancel
  <2>1. loop' = [loop EXCEPT ![r] = Stopped(r)] /\ UNCHANGED <<disk, talk, restarts>>
    BY DEF Cancel
  <2>2. hist' = [hist EXCEPT ![r] = newHist]
    BY DEF Cancel
  <2>3. disk = [disk EXCEPT ![r] = disk[r]] /\ talk = [talk EXCEPT ![r] = talk[r]]
    BY DEF TypeOK
  <2> QED
    BY <2>0, <2>1, <2>2, <2>3 DEF Become
<1>6. Stopped(r) \in LoopRec
  BY StoppedParts
<1>7. t \in StateRec
  BY <1>1, <1>3, <1>4, <1>6 DEF StateRec
<1>8. s.run.mem
  BY DEF Cancel, State
<1>9. /\ Stopped(r).call = loop[r].call /\ Stopped(r).by = loop[r].by
      /\ Stopped(r).todo = loop[r].todo
      /\ Stopped(r).pc = loop[r].pc \/ Stopped(r).pc = "dying"
      /\ Stopped(r).pc = "off" <=> loop[r].pc = "off"
      /\ ~run[r].hydrated => Stopped(r).pc \in {"off", "dying"}
  BY StoppedParts
<1>10. /\ t.run = newRun /\ t.loop = Stopped(r) /\ t.disk = s.disk /\ t.talk = s.talk
       /\ t.hist = newHist
       /\ s.run = run[r] /\ s.loop = loop[r] /\ s.hist = hist[r]
  BY DEF State
<1> HIDE DEF s, t, newRun, newHist
<1>11. Good(t) /\ Follows(s, t)
  <2>1. Good(s)
    BY DEF s
  <2>2. SameHist(s, t) /\ t.run.memo = s.run.memo
    BY <1>3, <1>4, <1>10 DEF SameHist
  <2> QED
    BY <1>3, <1>4, <1>7, <1>8, <1>9, <1>10, <2>1, <2>2, StopGood
<1> QED
  BY <1>5, <1>11 DEF s

\* The watchdog ends a run that has been silent for too long.
LEMMA StallGood ==
    ASSUME TypeOK, NEW r \in Run, Good(State(r)), Stall(r)
    PROVE  \E t : Become(r, t) /\ Good(t) /\ Follows(State(r), t)
<1> DEFINE s == State(r)
           newRun == [run[r] EXCEPT !.status = "failed", !.dog = FALSE]
           l == TaskCancelled(r)
           t == [run |-> newRun, loop |-> l, disk |-> disk[r], talk |-> talk[r],
                 hist |-> hist[r]]
<1>1. /\ run[r] \in RunRec /\ loop[r] \in LoopRec /\ disk[r] \in DiskRec
      /\ talk[r] \in TalkRec /\ hist[r] \in HistRec
  BY StateTyped
<1>2. /\ newRun \in RunRec /\ newRun.mem = run[r].mem /\ newRun.hydrated = run[r].hydrated
      /\ newRun.status \in Ended /\ newRun.memo = run[r].memo
  BY <1>1 DEF RunRec, Ended
<1>4. Become(r, t)
  <2>1. run' = [run EXCEPT ![r] = newRun]
    BY DEF Stall, TypeOK
  <2>2. loop' = [loop EXCEPT ![r] = l] /\ UNCHANGED <<disk, talk, hist, restarts>>
    BY DEF Stall
  <2>3. /\ disk = [disk EXCEPT ![r] = disk[r]] /\ talk = [talk EXCEPT ![r] = talk[r]]
        /\ hist = [hist EXCEPT ![r] = hist[r]]
    BY DEF TypeOK
  <2> QED
    BY <2>1, <2>2, <2>3 DEF Become
<1>5. /\ l \in LoopRec
      /\ l.call = loop[r].call /\ l.by = loop[r].by /\ l.todo = loop[r].todo
      /\ l.pc = loop[r].pc \/ l.pc = "dying"
      /\ l.pc = "off" <=> loop[r].pc = "off"
      /\ ~run[r].hydrated => l.pc \in {"off", "dying"}
  BY StoppedParts
<1>6. t \in StateRec
  BY <1>1, <1>2, <1>5 DEF StateRec
<1>7. /\ t.run = newRun /\ t.loop = l /\ t.disk = s.disk /\ t.talk = s.talk
      /\ t.hist = s.hist
      /\ s.run = run[r] /\ s.loop = loop[r] /\ s.hist = hist[r]
      /\ Good(s)
  BY DEF State
<1>8. loop[r].pc = "sample" /\ run[r].status = "running"
  BY DEF Stall
<1> HIDE DEF s, t, l, newRun
<1>9. CASE s.run.mem
  <2>1. t.run.mem = s.run.mem /\ t.run.hydrated = s.run.hydrated /\ t.run.status \in Ended
    BY <1>2, <1>7
  <2>2. SameHist(s, t) /\ (s.hist.ended => t.hist.ended) /\ t.run.memo = s.run.memo
    BY <1>2, <1>7 DEF SameHist
  <2>3. /\ t.loop.call = s.loop.call /\ t.loop.by = s.loop.by /\ t.loop.todo = s.loop.todo
        /\ t.loop.pc = s.loop.pc \/ t.loop.pc = "dying"
        /\ t.loop.pc = "off" <=> s.loop.pc = "off"
        /\ ~s.run.hydrated => t.loop.pc \in {"off", "dying"}
    BY <1>5, <1>7
  <2>4. Good(t) /\ Follows(s, t)
    BY <1>6, <1>7, <1>9, <2>1, <2>2, <2>3, StopGood
  <2> QED
    BY <1>4, <2>4 DEF s
<1>10. CASE ~s.run.mem
  <2>1. Sound(t) /\ SnapPending(t)
    BY <1>2, <1>6, <1>7, <1>10 DEF Good, Sound, SnapPending, FreshUntouched, Policy,
       AtMostOneAnswer, Unborn, Created
  <2>2. LoopPending(t) /\ WaitDurable(t) /\ TodoUntouched(t) /\ WaitUnanswered(t)
    BY <1>5, <1>7, <1>8 DEF LoopPending, WaitDurable, TodoUntouched, WaitUnanswered, Kind
  <2>3. EndedStops(t) /\ LoopOfRun(t) /\ Follows(s, t)
    BY <1>2, <1>5, <1>7, <1>10 DEF Good, EndedStops, LoopOfRun, Follows, Created, Ended,
       Active
  <2> QED
    BY <1>4, <2>1, <2>2, <2>3 DEF Good, s
<1> QED
  BY <1>9, <1>10

LEMMA WatchdogExitGood ==
    ASSUME TypeOK, NEW r \in Run, Good(State(r)), WatchdogExit(r)
    PROVE  \E t : Become(r, t) /\ Good(t) /\ Follows(State(r), t)
<1> DEFINE s == State(r)
           newRun == [run[r] EXCEPT !.dog = FALSE]
           t == [run |-> newRun, loop |-> loop[r], disk |-> disk[r], talk |-> talk[r],
                 hist |-> hist[r]]
<1>1. /\ run[r] \in RunRec /\ loop[r] \in LoopRec /\ disk[r] \in DiskRec
      /\ talk[r] \in TalkRec /\ hist[r] \in HistRec
  BY StateTyped
<1>2. /\ newRun \in RunRec /\ newRun.mem = run[r].mem /\ newRun.hydrated = run[r].hydrated
      /\ newRun.status = run[r].status /\ newRun.memo = run[r].memo
  BY <1>1 DEF RunRec
<1>3. Become(r, t)
  <2>1. run' = [run EXCEPT ![r] = newRun] /\ UNCHANGED <<loop, disk, talk, hist, restarts>>
    BY DEF WatchdogExit
  <2>2. /\ loop = [loop EXCEPT ![r] = loop[r]] /\ disk = [disk EXCEPT ![r] = disk[r]]
        /\ talk = [talk EXCEPT ![r] = talk[r]] /\ hist = [hist EXCEPT ![r] = hist[r]]
    BY DEF TypeOK
  <2> QED
    BY <2>1, <2>2 DEF Become
<1>4. /\ t \in StateRec /\ t.run = newRun /\ t.loop = s.loop /\ t.disk = s.disk
      /\ t.talk = s.talk /\ t.hist = s.hist /\ s.run = run[r] /\ Good(s)
  BY <1>1, <1>2 DEF StateRec, State
<1> HIDE DEF s, t, newRun
<1>5. Sound(t) /\ SnapPending(t)
  BY <1>2, <1>4 DEF Good, Sound, SnapPending, FreshUntouched, Policy, AtMostOneAnswer,
     Unborn, Created
<1>6. LoopPending(t) /\ WaitDurable(t) /\ TodoUntouched(t) /\ WaitUnanswered(t)
  BY <1>2, <1>4 DEF Good, LoopPending, WaitDurable, TodoUntouched, Untouched, WaitUnanswered, Created
<1>7. EndedStops(t) /\ LoopOfRun(t) /\ Follows(s, t)
  BY <1>2, <1>4 DEF Good, EndedStops, LoopOfRun, Follows, Created
<1> QED
  BY <1>3, <1>5, <1>6, <1>7 DEF Good, s

---------------------------------------------------------------------------
(* Every step. *)

\* The inductive invariant.
IInv ==
    /\ TypeOK
    /\ \A r \in Run : Good(State(r))
    /\ OneCreatedRunActive

LEMMA InitIInv == Init => IInv
<1> SUFFICES ASSUME Init
             PROVE  IInv
  OBVIOUS
<1>1. TypeOK
  BY BoundAssumption DEF Init, TypeOK, Gone, Off, Call
<1>2. ASSUME NEW r \in Run
      PROVE  Good(State(r))
  <2>1. State(r) \in StateRec
    BY <1>1, StateTyped
  <2>2. State(r) = [run |-> Gone, loop |-> Off, disk |-> [log |-> FALSE, snap |-> None],
                    talk |-> [asked |-> 0, msgs |-> [c \in Call |-> 0],
                              base |-> 0, came |-> [c \in Call |-> 0]],
                    hist |-> [gated |-> {}, approved |-> {}, rejected |-> {},
                              sent |-> [c \in Call |-> 0],
                              unsaved |-> {}, unremoved |-> {}, ended |-> FALSE]]
    BY DEF Init, State
  <2>3. /\ ~State(r).run.mem /\ State(r).loop.pc = "off" /\ State(r).disk.snap = None
        /\ State(r).talk.asked = 0 /\ ~State(r).hist.ended /\ State(r).run.memo = None
        /\ State(r).hist.gated = {} /\ State(r).hist.rejected = {}
        /\ \A c \in Call : State(r).hist.sent[c] = 0 /\ State(r).talk.msgs[c] = 0
    BY <2>2 DEF Gone, Off
  <2> QED
    BY <2>1, <2>3 DEF Good, Sound, FreshUntouched, Policy, PolicyOf, AtMostOneAnswer, Unborn,
       SnapPending, Pending, LoopPending, WaitDurable, TodoUntouched, WaitUnanswered, EndedStops, LoopOfRun,
       Created, Kind
<1>3. OneCreatedRunActive
  BY DEF Init, Gone, OneCreatedRunActive
<1> QED
  BY <1>1, <1>2, <1>3 DEF IInv

\* A step that changes one run only.
LEMMA OneRunStep ==
    ASSUME IInv, NEW r \in Run, NEW t, Become(r, t), Good(t), Follows(State(r), t)
    PROVE  /\ IInv'
           /\ \A q \in Run : Follows(State(q), State(q)')
<1>1. /\ t.run \in RunRec /\ t.loop \in LoopRec /\ t.disk \in DiskRec
      /\ t.talk \in TalkRec /\ t.hist \in HistRec
      /\ t = [run |-> t.run, loop |-> t.loop, disk |-> t.disk, talk |-> t.talk,
              hist |-> t.hist]
  BY DEF Good, Sound, StateRec
<1>2. TypeOK'
  <2>1. run' \in [Run -> RunRec] /\ loop' \in [Run -> LoopRec]
    BY <1>1 DEF IInv, TypeOK, Become, RunRec, LoopRec, Pend
  <2>2. disk' \in [Run -> DiskRec] /\ talk' \in [Run -> TalkRec] /\ hist' \in [Run -> HistRec]
    BY <1>1 DEF IInv, TypeOK, Become, DiskRec, TalkRec, HistRec
  <2>3. restarts' \in 0..MaxLife
    BY DEF IInv, TypeOK, Become
  <2> QED
    BY <2>1, <2>2, <2>3 DEF TypeOK, RunRec, LoopRec, DiskRec, TalkRec, HistRec, Pend
<1>3. State(r)' = t
  BY <1>1 DEF IInv, TypeOK, Become, State
<1>4. ASSUME NEW q \in Run \ {r}
      PROVE  State(q)' = State(q) /\ run'[q] = run[q]
  BY DEF IInv, TypeOK, Become, State
<1>5. \A q \in Run : Good(State(q)')
  BY <1>3, <1>4 DEF IInv
<1>6. \A q \in Run : Follows(State(q), State(q)')
  BY <1>3, <1>4 DEF Follows
<1>7. \A q \in Run : run'[q] = State(q)'.run /\ run[q] = State(q).run
  BY DEF State
<1>8. OneCreatedRunActive'
  BY <1>6, <1>7 DEF IInv, OneCreatedRunActive, Follows, Created
<1> QED
  BY <1>2, <1>5, <1>6, <1>8 DEF IInv

\* A new run: it begins with nothing, and every other one is over or was not
\* active.
LEMMA CreateStep ==
    ASSUME IInv, NEW r \in Run, Create(r)
    PROVE  /\ IInv'
           /\ \A q \in Run : Follows(State(q), State(q)') \/ (~run[q].mem /\ ~hist[q].ended)
<1>1. TypeOK /\ ~disk[r].log /\ Good(State(r))
  BY DEF IInv, Create
<1>2. \A q \in Run : /\ run[q] \in RunRec /\ loop[q] \in LoopRec /\ disk[q] \in DiskRec
                     /\ talk[q] \in TalkRec /\ hist[q] \in HistRec
  BY <1>1, StateTyped
<1> DEFINE newRun(q) == [run[q] EXCEPT !.cancelReq = TRUE, !.status = "cancelled"]
           first == [Gone EXCEPT !.mem = TRUE, !.status = "running", !.dog = TRUE]
           newHist(q) == [hist[q] EXCEPT !.ended = @ \/ (q # r /\ Superseded(q))]
<1>3. /\ first \in RunRec /\ first.mem /\ ~first.hydrated /\ first.status = "running"
      /\ first.memo = None
      /\ Sampling \in LoopRec /\ Sampling.pc = "sample"
  BY DEF Gone, RunRec, Active, Sampling, Off, LoopRec
<1>4. /\ DOMAIN run' = Run /\ DOMAIN loop' = Run /\ DOMAIN hist' = Run
      /\ \A q \in Run :
           /\ run'[q] = IF q = r THEN first
                        ELSE IF Superseded(q) THEN newRun(q) ELSE run[q]
           /\ loop'[q] = IF q = r THEN Sampling
                         ELSE IF Superseded(q) THEN TaskCancelled(q) ELSE loop[q]
           /\ hist'[q] = newHist(q)
      /\ run' = [q \in Run |-> run'[q]] /\ loop' = [q \in Run |-> loop'[q]]
      /\ hist' = [q \in Run |-> hist'[q]]
  BY DEF Create
<1>5. /\ disk' = [disk EXCEPT ![r].log = TRUE] /\ UNCHANGED restarts
      /\ \/ talk' = talk
         \/ \E q \in Run : talk' = [talk EXCEPT ![r] = Cloned(talk[q])]
  BY DEF Create
<1>5a. /\ talk' \in [Run -> TalkRec]
       /\ \A q \in Run \ {r} : talk'[q] = talk[q]
       /\ talk'[r] = talk[r] \/ \E q \in Run : talk'[r] = Cloned(talk[q])
  <2>1. talk \in [Run -> TalkRec]
    BY <1>1 DEF TypeOK, TalkRec
  <2>2. ASSUME NEW x \in TalkRec
        PROVE  Cloned(x) \in TalkRec
    BY <2>2 DEF Cloned, TalkRec
  <2>3. CASE talk' = talk
    BY <2>1, <2>3
  <2>4. ASSUME NEW q \in Run, talk' = [talk EXCEPT ![r] = Cloned(talk[q])]
        PROVE  /\ talk' \in [Run -> TalkRec]
               /\ \A p \in Run \ {r} : talk'[p] = talk[p]
               /\ talk'[r] = Cloned(talk[q])
    <3>1. Cloned(talk[q]) \in TalkRec
      BY <2>1, <2>2
    <3> HIDE DEF TalkRec
    <3> QED
      BY <2>1, <2>4, <3>1
  <2> QED
    BY <1>5, <2>3, <2>4
<1>6. ASSUME NEW q \in Run
      PROVE  /\ newRun(q) \in RunRec /\ newRun(q).mem = run[q].mem
             /\ newRun(q).hydrated = run[q].hydrated /\ newRun(q).status = "cancelled"
             /\ newHist(q) \in HistRec
             /\ newHist(q).ended <=> (hist[q].ended \/ (q # r /\ Superseded(q)))
             /\ newHist(q).gated = hist[q].gated /\ newHist(q).approved = hist[q].approved
             /\ newHist(q).rejected = hist[q].rejected /\ newHist(q).sent = hist[q].sent
             /\ newHist(q).unsaved = hist[q].unsaved /\ newHist(q).unremoved = hist[q].unremoved
             /\ newRun(q).memo = run[q].memo
  <2>1. (hist[q].ended \/ (q # r /\ Superseded(q))) \in BOOLEAN
    BY <1>2 DEF HistRec
  <2> QED
    BY <1>2, <2>1 DEF RunRec, HistRec, Ended
<1> HIDE DEF newRun, first, newHist
<1>7. /\ disk' \in [Run -> DiskRec] /\ disk'[r].log /\ disk'[r].snap = disk[r].snap
      /\ \A q \in Run \ {r} : disk'[q] = disk[q]
  BY <1>1, <1>2, <1>5 DEF TypeOK, DiskRec
<1>8. TypeOK'
  <2>1. \A q \in Run : TaskCancelled(q) \in LoopRec
    BY <1>1, StoppedParts
  <2>2. run' \in [Run -> RunRec] /\ loop' \in [Run -> LoopRec] /\ hist' \in [Run -> HistRec]
    <3>1. \A q \in Run : run'[q] \in RunRec /\ loop'[q] \in LoopRec /\ hist'[q] \in HistRec
      BY <1>2, <1>3, <1>4, <1>6, <2>1
    <3> QED
      BY <1>4, <3>1
  <2>3. talk' \in [Run -> TalkRec] /\ restarts' \in 0..MaxLife
    BY <1>1, <1>5, <1>5a DEF TypeOK
  <2> QED
    BY <1>7, <2>2, <2>3 DEF TypeOK, RunRec, LoopRec, DiskRec, TalkRec, HistRec, Pend
<1>9. \A q \in Run : /\ State(q)' \in StateRec
                     /\ State(q)'.run = run'[q] /\ State(q)'.loop = loop'[q]
                     /\ State(q)'.disk = disk'[q] /\ State(q)'.talk = talk'[q]
                     /\ State(q)'.hist = hist'[q]
                     /\ State(q).run = run[q] /\ State(q).loop = loop[q]
                     /\ State(q).disk = disk[q] /\ State(q).talk = talk[q]
                     /\ State(q).hist = hist[q]
  <2>1. \A q \in Run : /\ run'[q] \in RunRec /\ loop'[q] \in LoopRec /\ disk'[q] \in DiskRec
                       /\ talk'[q] \in TalkRec /\ hist'[q] \in HistRec
    BY <1>8 DEF TypeOK, RunRec, LoopRec, DiskRec, TalkRec, HistRec, Pend
  <2> QED
    BY <2>1 DEF State, StateRec
<1>10. ASSUME NEW q \in Run, q # r, Superseded(q)
       PROVE  Good(State(q)') /\ Follows(State(q), State(q)')
  <2>1. /\ TaskCancelled(q).call = loop[q].call /\ TaskCancelled(q).by = loop[q].by
        /\ TaskCancelled(q).todo = loop[q].todo
        /\ TaskCancelled(q).pc = loop[q].pc \/ TaskCancelled(q).pc = "dying"
        /\ TaskCancelled(q).pc = "off" <=> loop[q].pc = "off"
        /\ ~run[q].hydrated => TaskCancelled(q).pc \in {"off", "dying"}
    BY <1>1, StoppedParts
  <2>2. /\ run'[q] = newRun(q) /\ loop'[q] = TaskCancelled(q) /\ hist'[q] = newHist(q)
        /\ disk'[q] = disk[q] /\ talk'[q] = talk[q] /\ run[q].mem
    BY <1>4, <1>5a, <1>7, <1>10 DEF Superseded
  <2>3. Good(State(q)) /\ "cancelled" \in Ended
    BY DEF IInv, Ended
  <2> DEFINE s == State(q)
             t == State(q)'
  <2>4. /\ s.run = run[q] /\ s.loop = loop[q] /\ s.hist = hist[q]
        /\ t.run = newRun(q) /\ t.loop = TaskCancelled(q) /\ t.hist = newHist(q)
        /\ t.disk = s.disk /\ t.talk = s.talk /\ t \in StateRec /\ Good(s)
    BY <1>9, <2>2, <2>3
  <2> HIDE DEF s, t
  <2>4a. SameHist(s, t) /\ t.run.memo = s.run.memo
    BY <1>6, <2>4 DEF SameHist
  <2>5. Good(t) /\ Follows(s, t)
    BY <1>6, <2>1, <2>2, <2>3, <2>4, <2>4a, StopGood
  <2> QED
    BY <2>5 DEF s, t
<1>11. ASSUME NEW q \in Run, q # r, ~Superseded(q)
       PROVE  Good(State(q)') /\ Follows(State(q), State(q)') /\ run'[q] = run[q]
  <2>1. /\ run'[q] = run[q] /\ loop'[q] = loop[q]
        /\ disk'[q] = disk[q] /\ talk'[q] = talk[q]
    BY <1>4, <1>5a, <1>7, <1>11
  <2>2. hist'[q].ended <=> hist[q].ended
    BY <1>4, <1>6, <1>11
  <2>3. hist'[q] = hist[q]
    BY <1>2, <1>4, <1>11 DEF HistRec, newHist
  <2>4. State(q)' = State(q)
    BY <2>1, <2>3 DEF State
  <2> QED
    BY <2>1, <2>4 DEF IInv, Follows
<1>12. Good(State(r)') /\ ~run[r].mem /\ ~hist[r].ended
  <2> DEFINE s == State(r)
             t == State(r)'
  <2>1. /\ s.run = run[r] /\ s.disk = disk[r] /\ s.hist = hist[r] /\ s.talk = talk[r]
        /\ t \in StateRec
        /\ t.run = first /\ t.loop = Sampling /\ t.disk.log /\ t.disk.snap = s.disk.snap
        /\ t.talk = talk'[r] /\ t.hist = newHist(r)
        /\ Good(s) /\ s \in StateRec /\ s.disk.snap \in Wait \cup {None}
    <3>1. s \in StateRec /\ disk[r] \in DiskRec
      BY <1>1, StateTyped
    <3>2. run'[r] = first /\ loop'[r] = Sampling /\ hist'[r] = newHist(r)
      BY <1>4
    <3> QED
      BY <1>1, <1>7, <1>9, <3>1, <3>2 DEF DiskRec
  <2>2. newHist(r).ended <=> hist[r].ended
    BY <1>6
  <2> HIDE DEF s, t
  <2>3. ~s.run.mem /\ s.talk.asked = 0 /\ ~s.hist.ended
    BY <1>1, <2>1 DEF Good, Sound, Unborn
  <2>4. \A c \in Call : c \in Nat /\ c > 0
    BY BoundAssumption DEF Call
  <2>5. \A c \in Call : s.talk.msgs[c] = 0 /\ s.hist.sent[c] = 0 /\ c \notin s.hist.gated
    BY <2>1, <2>3, <2>4 DEF Good, Sound, FreshUntouched
  <2>6. \A c \in Call : t.hist.sent[c] = 0 /\ c \notin t.hist.gated
    BY <1>6, <2>1, <2>5
  <2>7. t.disk.snap = None
    BY <2>1, <2>3, <2>4 DEF Good, SnapPending, Pending, Wait
  <2>8. /\ \A c \in Call : c > t.talk.asked => t.talk.msgs[c] = 0
        /\ \A c \in Call : t.talk.msgs[c] <= 1 \/ t.talk.msgs[c] = t.talk.came[c]
    <3>1. CASE talk'[r] = talk[r]
      BY <2>1, <2>5, <3>1
    <3>2. ASSUME NEW q \in Run, talk'[r] = Cloned(talk[q])
          PROVE  /\ \A c \in Call : c > t.talk.asked => t.talk.msgs[c] = 0
                 /\ \A c \in Call : t.talk.msgs[c] = t.talk.came[c]
      <4>1. FreshUntouched(State(q)) /\ State(q).talk = talk[q]
        BY DEF IInv, Good, Sound, State
      <4>2. talk[q].asked \in Nat
        BY <1>2, BoundAssumption DEF TalkRec
      <4>3. \A c \in Call : c > talk[q].asked => talk[q].msgs[c] = 0 /\ ~(c <= talk[q].asked)
        BY <2>4, <4>1, <4>2 DEF FreshUntouched
      <4> QED
        BY <2>1, <3>2, <4>3 DEF Cloned
    <3> QED
      BY <1>5a, <3>1, <3>2
  <2>9. Sound(t) /\ SnapPending(t)
    <3>1. Policy(t)
      BY <1>6, <2>1, <2>6 DEF Good, Sound, StateRec, HistRec, Policy, PolicyOf
    <3>2. SnapPending(t)
      BY <1>3, <2>1, <2>7 DEF SnapPending, Pending
    <3> QED
      BY <2>1, <2>6, <2>8, <3>1, <3>2 DEF Sound, FreshUntouched, AtMostOneAnswer, Unborn
  <2>10. LoopPending(t) /\ WaitDurable(t) /\ TodoUntouched(t) /\ WaitUnanswered(t) /\ LoopOfRun(t)
    BY <1>3, <2>1 DEF LoopPending, WaitDurable, TodoUntouched, WaitUnanswered, LoopOfRun, Kind
  <2>11. EndedStops(t)
    BY <1>3, <2>1, <2>2, <2>3 DEF EndedStops, Ended
  <2> QED
    BY <2>1, <2>3, <2>9, <2>10, <2>11 DEF Good, t
<1>13. OneCreatedRunActive'
  <2>1. ASSUME NEW q \in Run, run'[q].mem, ~run'[q].hydrated, run'[q].status \in Active
        PROVE  q = r
    <3>1. CASE q # r /\ Superseded(q)
      BY <1>4, <1>6, <2>1, <3>1 DEF Active
    <3>2. CASE q # r /\ ~Superseded(q)
      BY <1>11, <2>1, <3>2 DEF Superseded
    <3> QED
      BY <3>1, <3>2
  <2> QED
    BY <2>1 DEF OneCreatedRunActive
<1>14. \A q \in Run : Good(State(q)')
  BY <1>10, <1>11, <1>12
<1>15. IInv'
  BY <1>8, <1>13, <1>14 DEF IInv
<1> QED
  BY <1>10, <1>11, <1>12, <1>15

\* The sidecar dies: what is on disk is all that is left.
LEMMA RestartStep ==
    ASSUME IInv, Restart
    PROVE  IInv' /\ \A r \in Run : ~run'[r].mem
<1>1. /\ run' = [r \in Run |-> Gone] /\ loop' = [r \in Run |-> Off]
      /\ UNCHANGED <<disk, talk, hist>> /\ restarts' = restarts + 1 /\ LifeLeft
  BY DEF Restart
<1>2. Gone \in RunRec /\ ~Gone.mem /\ Gone.memo = None /\ Off \in LoopRec /\ Off.pc = "off"
  BY DEF Gone, RunRec, Off, LoopRec
<1>3. restarts' \in 0..MaxLife
  <2>1. restarts \in 0..MaxLife /\ MaxLife \in Nat
    BY BoundAssumption DEF IInv, TypeOK
  <2>2. ASSUME NEW S \in SUBSET Run
        PROVE  Cardinality(S) \in Nat
    BY RunAssumption, FS_Subset, FS_CardinalityType
  <2>3. /\ Cardinality({r \in Run : disk[r].log}) \in Nat
        /\ Cardinality({r \in Run : hist[r].unsaved \cup hist[r].unremoved # {}}) \in Nat
    BY <2>2
  <2> QED
    BY <1>1, <2>1, <2>3 DEF LifeLeft, Lives
<1>4. TypeOK'
  BY <1>1, <1>2, <1>3 DEF IInv, TypeOK, RunRec, LoopRec, Pend
<1>5. ASSUME NEW r \in Run
      PROVE  Good(State(r)')
  <2> DEFINE s == State(r)
             t == State(r)'
  <2>1. /\ t.run = Gone /\ t.loop = Off
        /\ t.disk = s.disk /\ t.talk = s.talk /\ t.hist = s.hist /\ Good(s)
        /\ t = [run |-> Gone, loop |-> Off, disk |-> s.disk, talk |-> s.talk, hist |-> s.hist]
    BY <1>1 DEF IInv, State
  <2> HIDE DEF s, t
  <2>2. t \in StateRec
    BY <1>2, <2>1 DEF Good, Sound, StateRec
  <2> QED
    BY <1>2, <2>1, <2>2 DEF Good, Sound, FreshUntouched, Policy, AtMostOneAnswer, Unborn,
       SnapPending, Pending, LoopPending, WaitDurable, TodoUntouched, WaitUnanswered, EndedStops, LoopOfRun,
       Created, Kind, t
<1> QED
  BY <1>1, <1>2, <1>4, <1>5 DEF IInv, OneCreatedRunActive

\* Every step keeps the invariant, and what it does to a run is one of three
\* things.
LEMMA NextIInv ==
    ASSUME IInv, [Next]_vars
    PROVE  /\ IInv'
           /\ \A r \in Run : \/ Follows(State(r), State(r)')
                             \/ ~run[r].mem /\ ~hist[r].ended
                             \/ ~run'[r].mem
<1> USE DEF IInv
<1>1. ASSUME NEW r \in Run,
             \E t : Become(r, t) /\ Good(t) /\ Follows(State(r), t)
      PROVE  IInv' /\ \A q \in Run : Follows(State(q), State(q)')
  BY <1>1, OneRunStep
<1>2. ASSUME NEW r \in Run, Create(r)
      PROVE  /\ IInv'
             /\ \A q \in Run : \/ Follows(State(q), State(q)')
                               \/ ~run[q].mem /\ ~hist[q].ended
  BY <1>2, CreateStep
<1>3. ASSUME NEW r \in Run, Cancel(r)
      PROVE  \E t : Become(r, t) /\ Good(t) /\ Follows(State(r), t)
  BY <1>3, CancelGood
<1>4. ASSUME NEW r \in Run, Hydrate(r)
      PROVE  \E t : Become(r, t) /\ Good(t) /\ Follows(State(r), t)
  BY <1>4, HydratedGood DEF Hydrate, State
<1>5. ASSUME NEW r \in Run, Loop(r)
      PROVE  \E t : Become(r, t) /\ Good(t) /\ Follows(State(r), t)
  <2>1. ASSUME Die(r)
        PROVE  \E t : Become(r, t) /\ Good(t) /\ Follows(State(r), t)
    BY <2>1, ConcludeGood DEF Die, Good, Ended
  <2> QED
    BY <1>5, <2>1, SampleGood, WakeHostGood, WakeApprovalGood DEF Loop
<1>6. ASSUME NEW r \in Run, Timeout(r)
      PROVE  \E t : Become(r, t) /\ Good(t) /\ Follows(State(r), t)
  BY <1>6, TimeoutGood
<1>7. ASSUME NEW r \in Run, Stall(r)
      PROVE  \E t : Become(r, t) /\ Good(t) /\ Follows(State(r), t)
  BY <1>7, StallGood
<1>8. ASSUME NEW r \in Run, WatchdogExit(r)
      PROVE  \E t : Become(r, t) /\ Good(t) /\ Follows(State(r), t)
  BY <1>8, WatchdogExitGood
<1>9. ASSUME NEW r \in Run, NEW k, NEW c \in Call, NEW v \in {"yes", "no"}, Post(r, k, c, v)
      PROVE  \E t : Become(r, t) /\ Good(t) /\ Follows(State(r), t)
  <2> DEFINE s == State(r)
             u == Resolved(s)
             t == Delivered(u, k, c, v)
  <2>1. Good(s) /\ (s.run.mem \/ s.disk.log)
    BY <1>9 DEF Post, State
  <2>2. Become(r, t)
    BY <1>9 DEF Post
  <2> HIDE DEF s
  <2>3. Good(u) /\ Follows(s, u)
    BY <2>1, ResolvedGood
  <2> HIDE DEF u
  <2>4. Good(t) /\ Follows(u, t)
    BY <2>3, DeliveredGood
  <2> HIDE DEF t
  <2> QED
    BY <2>2, <2>3, <2>4, FollowsTransitive DEF s
<1>10. ASSUME NEW r \in Run, NEW c \in Call,
              \/ ToolResult(r, c) \/ UserAnswer(r, c)
              \/ \E v \in {"yes", "no"} : Decision(r, c, v)
       PROVE  \E t : Become(r, t) /\ Good(t) /\ Follows(State(r), t)
  BY <1>9, <1>10 DEF ToolResult, UserAnswer, Decision
<1>11. ASSUME UNCHANGED vars
       PROVE  IInv' /\ \A r \in Run : Follows(State(r), State(r)')
  <2>1. UNCHANGED <<run, loop, disk, talk, hist, restarts>>
    BY <1>11 DEF vars
  <2>2. \A r \in Run : State(r)' = State(r)
    BY <2>1 DEF State
  <2>3. TypeOK' /\ OneCreatedRunActive'
    BY <2>1 DEF TypeOK, OneCreatedRunActive
  <2> QED
    BY <2>2, <2>3 DEF Follows
<1>12. CASE Restart
  BY <1>12, RestartStep
<1>13. CASE Next
  <2>1. CASE Restart
    BY <1>12, <2>1
  <2>2. ASSUME NEW r \in Run, Create(r)
        PROVE  /\ IInv'
               /\ \A q \in Run : \/ Follows(State(q), State(q)')
                                 \/ ~run[q].mem /\ ~hist[q].ended
    BY <1>2, <2>2
  <2>3. ASSUME NEW r \in Run,
               \/ Cancel(r) \/ Hydrate(r) \/ Loop(r) \/ Timeout(r)
               \/ Stall(r) \/ WatchdogExit(r)
               \/ \E c \in Call : \/ ToolResult(r, c) \/ UserAnswer(r, c)
                                  \/ \E v \in {"yes", "no"} : Decision(r, c, v)
        PROVE  IInv' /\ \A q \in Run : Follows(State(q), State(q)')
    <3>1. \E t : Become(r, t) /\ Good(t) /\ Follows(State(r), t)
      BY <1>3, <1>4, <1>5, <1>6, <1>7, <1>8, <1>10, <2>3
    <3> QED
      BY <1>1, <3>1
  <2> QED
    BY <1>13, <2>1, <2>2, <2>3 DEF Next
<1> QED
  BY <1>11, <1>13

---------------------------------------------------------------------------
(* Theorems. *)

\* Runs, loops, snapshots and conversations are well typed in every reachable
\* state.
THEOREM TypeCorrect == Spec => []TypeOK
<1>1. IInv => TypeOK
  BY DEF IInv
<1> QED
  BY InitIInv, NextIInv, <1>1, PTL DEF Spec

\* However waits are re-armed, answers repeated and the sidecar restarted, a
\* call of the model sends its command to the host once at most, unless neither
\* the removal of its approval's snapshot nor the snapshot of its dispatch
\* reached the disk.
THEOREM DispatchedOnce == Spec => []DispatchOnce
<1>1. IInv => DispatchOnce
  BY DEF IInv, Good, Sound, Policy, PolicyOf, State, DispatchOnce, Doubled, Outlives,
     Outlived, Unnoted
<1> QED
  BY InitIInv, NextIInv, <1>1, PTL DEF Spec

\* What the policy wanted approved runs only if the user approved it, and never
\* after a rejection unless the snapshot of that wait could not be removed.
THEOREM SentAsDecided == Spec => []OnlyApprovedSent
<1>1. IInv => OnlyApprovedSent
  <2> SUFFICES ASSUME IInv, NEW r \in Run, NEW c \in hist[r].gated, hist[r].sent[c] > 0
               PROVE  /\ c \in hist[r].approved
                      /\ c \in hist[r].rejected => Outlived(r, c)
    BY DEF OnlyApprovedSent
  <2>1. Policy(State(r)) /\ State(r).hist = hist[r]
    BY DEF IInv, Good, Sound, State
  <2> QED
    BY <2>1 DEF Policy, PolicyOf, Outlives, Outlived
<1> QED
  BY InitIInv, NextIInv, <1>1, PTL DEF Spec

\* At no moment does the loop await an answer that the disk does not know of,
\* unless saving that very wait failed.
THEOREM WaitsAreDurable == Spec => []OpenWaitIsDurable
<1>1. IInv => OpenWaitIsDurable
  BY DEF IInv, Good, WaitDurable, State, OpenWaitIsDurable
<1> QED
  BY InitIInv, NextIInv, <1>1, PTL DEF Spec

\* A run this process created gives each of its calls one tool message at most,
\* those of the run it resumes included.
THEOREM CallsAnsweredOnce == Spec => []AnsweredOnce
<1>1. IInv => AnsweredOnce
  BY DEF IInv, Good, Sound, AtMostOneAnswer, Created, State, AnsweredOnce
<1> QED
  BY InitIInv, NextIInv, <1>1, PTL DEF Spec

\* A session has one active run of this process at most.
THEOREM OneActive == Spec => []OneCreatedRunActive
<1>1. IInv => OneCreatedRunActive
  BY DEF IInv
<1> QED
  BY InitIInv, NextIInv, <1>1, PTL DEF Spec

\* A created run that was stopped or superseded stays over and sends nothing
\* more, in every step.
THEOREM EndedForGood == Spec => EndedIsFinal
<1>1. IInv /\ [Next]_vars =>
        [\A r \in Run :
           hist[r].ended /\ run[r].mem /\ run'[r].mem /\ ~run[r].hydrated =>
              /\ hist'[r].sent = hist[r].sent
              /\ run'[r].status \in Ended]_vars
  <2> SUFFICES ASSUME IInv, [Next]_vars, NEW r \in Run,
                      hist[r].ended, run[r].mem, run'[r].mem, ~run[r].hydrated
               PROVE  hist'[r].sent = hist[r].sent /\ run'[r].status \in Ended
    OBVIOUS
  <2> DEFINE s == State(r)
             t == State(r)'
  <2>1. /\ IInv' /\ Follows(s, t)
        /\ s.run = run[r] /\ s.hist = hist[r] /\ t.run = run'[r] /\ t.hist = hist'[r]
    BY NextIInv DEF State
  <2>2. Good(s) /\ Good(t)
    BY <2>1 DEF IInv
  <2> HIDE DEF s, t
  <2>3. Created(t) /\ ~(s.run.status \in Active)
    BY <2>1, <2>2 DEF Good, EndedStops, Follows, Created, Active, Ended
  <2>4. t.run.status \in Ended
    BY <2>1, <2>2, <2>3 DEF Good, EndedStops, Follows, Sound, StateRec, RunRec
  <2> QED
    BY <2>1, <2>3, <2>4 DEF Follows
<1> QED
  BY InitIInv, NextIInv, <1>1, PTL DEF Spec, EndedIsFinal
=============================================================================
