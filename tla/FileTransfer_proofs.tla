------------------------ MODULE FileTransfer_proofs ------------------------
(***************************************************************************)
(* What FileTransfer keeps for any number of transfers of one path, any    *)
(* length of a source and any depth of the queue: the type invariant, what *)
(* a cancel leaves through, and that a transfer which reports success has  *)
(* put every chunk at its path.                                            *)
(*                                                                         *)
(* The last of these rests on an account: while the open file of t is the  *)
(* one at the path and holds chunks of t alone, those, the one that is     *)
(* being written, those in the queue and the one its reader holds are all  *)
(* that the reader has read.                                               *)
(***************************************************************************)
EXTENDS FileTransfer, TLAPS

\* The path holds chunks of t and no others.
Mine(t) == dest = Of(t, dest.n)

\* The chunks of t that are on their way.
Held(t) == rd[t].queue + (IF tr[t].pc = "write" THEN 1 ELSE 0)
                       + (IF rd[t].pc = "full" THEN 1 ELSE 0)

\* A transfer that runs is in the registry; what is left of one that was
\* cancelled has that result.
Listed(t) == /\ tr[t].pc \in Running => tr[t].reg
             /\ tr[t].pc \in {"cleanup", "remove"} => tr[t].res = "cancelled"

\* A local source has ended from the beginning, a download has no queue.
Shaped(t) == /\ Is(t, "upload") => src[t] = "ok"
             /\ Is(t, "download") => rd[t].queue = 0

\* A chunk that was written after the cancel was the last one.
LastChunk(t) == ~Is(t, "download") /\ hist.after[t] # 0
                => hist.after[t] = 1 /\ tr[t].flag /\ tr[t].pc # "write"

\* A transfer whose path nobody else has touched writes to it.
Owned(t) == tr[t].pc \in Piping /\ t \notin hist.apart => t \in open /\ Mine(t)

\* No chunk is lost between the reader and the path.
Accounted(t) == tr[t].pc \in Piping /\ t \in open /\ Mine(t)
                => dest.n + Held(t) = rd[t].got

\* A reader that reports success has seen the end of its source, and all of
\* a source that ended well.
ReadAll(t) ==
    /\ rd[t].pc \in {"drain", "done"} /\ rd[t].res = "ok"
       => /\ src[t] # "up" /\ (src[t] = "ok" => rd[t].got = Chunks)
          /\ ~Is(t, "send") => src[t] = "ok"
    /\ tr[t].pc = "finish" => rd[t].pc = "done" /\ rd[t].queue = 0

\* WholeIfSent of one transfer.
Whole(t) ==
    /\ t \notin hist.apart \cup hist.cut
    /\ tr[t].pc \in {"clear", "done"} /\ tr[t].res = "ok"
    /\ Is(t, "send") => src[t] = "ok"
    => dest = Of(t, Chunks)

Good(t) == Listed(t) /\ Shaped(t) /\ LastChunk(t) /\ Owned(t) /\ Accounted(t)
           /\ ReadAll(t) /\ Whole(t)

\* The inductive invariant.
IInv == TypeOK /\ \A t \in Transfer : Good(t)

---------------------------------------------------------------------------
(* Typing. *)

Res == {"ok", "cancelled", "error"}
TaskRec == [kind : Kind, pc : Running \cup {"idle", "clear", "cleanup", "remove", "done"},
            res : Res, reg : BOOLEAN, flag : BOOLEAN]
ReadRec == [pc : {"off", "read", "full", "drain", "done"}, res : Res,
            got : 0..Chunks, queue : 0..Depth]
PathRec == {Absent, Old, Mixed} \cup {Of(t, n) : t \in Transfer, n \in 0..Chunks}
HistRec == [after : [Transfer -> 0..2], apart : SUBSET Transfer, cut : SUBSET Transfer]

Typing == /\ tr \in [Transfer -> TaskRec] /\ rd \in [Transfer -> ReadRec]
          /\ src \in [Transfer -> {"up", "ok", "bad", "lost"}]
          /\ dest \in PathRec /\ open \subseteq Transfer /\ hist \in HistRec

LEMMA TypeIs == (TypeOK <=> Typing) /\ (TypeOK' <=> Typing')
BY DEF Typing, TypeOK, TaskRec, ReadRec, PathRec, HistRec, Res

LEMMA PathTyped ==
    ASSUME NEW t \in Transfer
    PROVE  /\ \A n \in 0..Chunks : Of(t, n) \in PathRec
           /\ \A n, u, k : Of(t, n) = Of(u, k) <=> t = u /\ n = k
           /\ Absent \in PathRec /\ Mixed \in PathRec
           /\ \A n : Of(t, n).n = n /\ Of(t, n).by = t /\ Of(t, n).kind = "file"
           /\ \A n : Absent # Of(t, n) /\ Old # Of(t, n) /\ Mixed # Of(t, n)
           /\ \A n : dest = Of(t, n) => Mine(t)
           /\ dest \in PathRec /\ Mine(t) => dest.n \in 0..Chunks
BY DEF Of, PathRec, Absent, Old, Mixed, Path, Mine

LEMMA NoTaskTyped == NoTask \in ReadRec
BY BoundAssumption DEF NoTask, ReadRec, Res

---------------------------------------------------------------------------
(* The transfers that do not take the step. *)

\* A step of another transfer leaves alone what u has of its own, and does
\* not write chunks of u: what it does to the path it does not hide from u.
Kept(u) ==
    /\ tr'[u] = tr[u] /\ rd'[u] = rd[u] /\ src'[u] = src[u]
    /\ hist'.after[u] = hist.after[u] /\ (u \in hist.cut => u \in hist'.cut)
    /\ u \in hist.apart => u \in hist'.apart
    /\ \/ dest' = dest /\ (u \in open' <=> u \in open)
       \/ ~Mine(u)' /\ (u \in hist'.apart \/ ~Mine(u))

LEMMA KeptGood ==
    ASSUME NEW u \in Transfer, Good(u), Kept(u)
    PROVE  Good(u)'
<1>1. Listed(u)' /\ Shaped(u)' /\ LastChunk(u)' /\ ReadAll(u)'
  BY DEF Good, Kept, Listed, Shaped, LastChunk, ReadAll, Is
<1>2. Held(u)' = Held(u)
  BY DEF Kept, Held
<1>3. Owned(u)'
  BY DEF Good, Kept, Owned, Mine
<1>4. Accounted(u)'
  BY <1>2 DEF Good, Kept, Accounted, Mine
<1>5. Whole(u)'
  <2> SUFFICES ASSUME u \notin hist'.apart \cup hist'.cut,
                      tr[u].pc \in {"clear", "done"}, tr[u].res = "ok",
                      Is(u, "send") => src[u] = "ok"
               PROVE  dest' = Of(u, Chunks)
    BY DEF Kept, Whole, Is
  <2>1. dest = Of(u, Chunks)
    BY DEF Good, Kept, Whole
  <2>2. Mine(u)
    BY <2>1, PathTyped
  <2> QED
    BY <2>1, <2>2 DEF Kept
<1> QED
  BY <1>1, <1>3, <1>4, <1>5 DEF Good

\* What an operation of t shows: the types, its own invariant, and that the
\* others are kept.
Sound(t) == TypeOK' /\ Good(t)' /\ \A u \in Transfer \ {t} : Kept(u)

LEMMA SoundKeeps ==
    ASSUME IInv, NEW t \in Transfer, Sound(t)
    PROVE  IInv'
BY KeptGood DEF IInv, Sound

---------------------------------------------------------------------------
(* Lemmas about the operators. *)

\* The step leaves the path, its open files and the history alone.
LEMMA LocalKeeps ==
    ASSUME IInv, NEW t \in Transfer, UNCHANGED <<dest, open, hist>>,
           NEW x \in TaskRec, tr' = [tr EXCEPT ![t] = x],
           NEW r \in ReadRec, rd' = [rd EXCEPT ![t] = r],
           src' \in [Transfer -> {"up", "ok", "bad", "lost"}],
           \A u \in Transfer \ {t} : src'[u] = src[u]
    PROVE  /\ TypeOK' /\ \A u \in Transfer \ {t} : Kept(u)
           /\ tr'[t] = x /\ rd'[t] = r
           /\ Mine(t)' = Mine(t) /\ dest'.n = dest.n
<1>1. TypeOK' /\ tr'[t] = x /\ rd'[t] = r
  BY TypeIs DEF IInv, Typing
<1>2. \A u \in Transfer \ {t} : Kept(u)
  BY TypeIs DEF IInv, Typing, Kept
<1> QED
  BY <1>1, <1>2 DEF Mine

\* The invariant of one transfer in the words of its parts.
LEMMA GoodIs ==
    ASSUME IInv, NEW t \in Transfer
    PROVE  /\ tr[t] \in TaskRec /\ rd[t] \in ReadRec
           /\ src[t] \in {"up", "ok", "bad", "lost"} /\ hist.after[t] \in 0..2
           /\ Listed(t) /\ Shaped(t) /\ LastChunk(t) /\ Owned(t) /\ Accounted(t)
           /\ ReadAll(t) /\ Whole(t)
BY TypeIs DEF IInv, Good, Typing, HistRec

\* A step that changes no more than the place and the marks of a task outside
\* the pipe, before and after, and never lets it end as a success.
LEMMA MovedSound ==
    ASSUME IInv, NEW t \in Transfer, NEW x \in TaskRec,
           tr' = [tr EXCEPT ![t] = x], UNCHANGED <<rd, src, dest, open, hist>>,
           x.kind = tr[t].kind, tr[t].flag => x.flag,
           x.pc \in Running => x.reg, x.pc \in {"cleanup", "remove"} => x.res = "cancelled",
           x.pc \in Piping => x.pc = tr[t].pc,
           x.pc \in {"clear", "done"} /\ x.res = "ok"
              => tr[t].pc \in {"clear", "done"} /\ tr[t].res = "ok"
    PROVE  Sound(t)
<1>1. /\ TypeOK' /\ \A u \in Transfer \ {t} : Kept(u)
      /\ tr'[t] = x /\ rd'[t] = rd[t] /\ Mine(t)' = Mine(t)
  <2>1. rd' = [rd EXCEPT ![t] = rd[t]] /\ rd[t] \in ReadRec
    BY TypeIs DEF IInv, Typing
  <2>2. /\ src' \in [Transfer -> {"up", "ok", "bad", "lost"}]
        /\ \A u \in Transfer \ {t} : src'[u] = src[u]
        /\ UNCHANGED <<dest, open, hist>>
    BY TypeIs DEF IInv, Typing
  <2>3. /\ TypeOK' /\ \A u \in Transfer \ {t} : Kept(u)
        /\ tr'[t] = x /\ rd'[t] = rd[t] /\ Mine(t)' = Mine(t)
    BY ONLY IInv, tr' = [tr EXCEPT ![t] = x], t \in Transfer, x \in TaskRec,
       <2>1, <2>2, LocalKeeps
  <2> QED
    BY <2>3
<1>2. Listed(t)' /\ Shaped(t)' /\ LastChunk(t)' /\ Owned(t)' /\ ReadAll(t)'
  BY <1>1, GoodIs DEF Listed, Shaped, LastChunk, Owned, ReadAll, Is, Piping, Running
<1>3. Accounted(t)'
  BY <1>1, GoodIs DEF Accounted, Held, Piping
<1>4. Whole(t)'
  BY <1>1, GoodIs DEF Whole, Is
<1> QED
  BY <1>1, <1>2, <1>3, <1>4 DEF Sound, Good

\* What failed writes of t leave of the path holds no chunks of another.
LEMMA ShortPath ==
    ASSUME IInv, NEW t \in Transfer, NEW d \in Short(t)
    PROVE  /\ d \in PathRec
           /\ d = dest \/ \A u \in Transfer \ {t} : dest # Of(u, dest.n) /\ d # Of(u, d.n)
<1>1. dest \in PathRec
  BY TypeIs DEF IInv, Typing
<1>2. CASE d = dest
  BY <1>1, <1>2
<1>3. CASE d # dest
  <2>1. /\ dest.kind = "file" /\ dest.by = t
        /\ d \in {Of(t, n) : n \in 0..dest.n} \cup {Mixed}
    BY <1>3 DEF Short
  <2>2. dest.n \in 0..Chunks
    BY <1>1, <2>1 DEF PathRec, Of, Absent, Old, Mixed, Path
  <2>3. \A n \in 0..dest.n : n \in 0..Chunks
    BY <2>2, BoundAssumption
  <2>4. d \in PathRec
    BY <2>1, <2>3, PathTyped
  <2>5. \A u \in Transfer \ {t} : dest # Of(u, dest.n)
    BY <2>1, PathTyped
  <2>6. \A u \in Transfer \ {t} : d # Of(u, d.n)
    BY <2>1, PathTyped
  <2> QED
    BY <2>4, <2>5, <2>6
<1> QED
  BY <1>2, <1>3

\* The end of a task, with every result the code gives it.
LEMMA ReturnSound ==
    ASSUME IInv, NEW t \in Transfer, NEW res \in Res, Leave(t, res),
           tr[t].pc \in Running,
           \/ UNCHANGED <<dest, hist>>
           \/ dest' \in Short(t) /\ hist' = [hist EXCEPT !.cut = hist.cut \cup {t}],
           /\ t \notin hist'.apart \cup hist'.cut /\ res = "ok"
           /\ Is(t, "send") => src[t] = "ok"
           => dest = Of(t, Chunks)
    PROVE  Sound(t)
<1> DEFINE pc == IF res = "cancelled" /\ Removes(t) THEN "remove" ELSE "clear"
           x == [tr[t] EXCEPT !.res = res, !.pc = pc]
<1>1. /\ x \in TaskRec /\ x.kind = tr[t].kind /\ x.flag = tr[t].flag
      /\ x.pc = pc /\ x.res = res
  BY GoodIs DEF TaskRec
<1>2. tr' = [tr EXCEPT ![t] = x] /\ rd' = [rd EXCEPT ![t] = NoTask]
  BY DEF Leave
<1>3. src' = src /\ open' = open \ {t}
  BY DEF Leave
<1>4. hist'.after = hist.after /\ hist'.apart = hist.apart /\ hist.cut \subseteq hist'.cut
      /\ hist' \in HistRec /\ (dest' = dest \/ t \in hist'.cut)
  BY TypeIs DEF IInv, Typing, HistRec
<1>5. pc \in {"remove", "clear"} /\ (pc = "remove" => res = "cancelled")
  OBVIOUS
<1>10. /\ dest' \in PathRec
       /\ dest' = dest \/ \A u \in Transfer \ {t} : ~Mine(u) /\ ~Mine(u)'
  BY ShortPath, TypeIs DEF IInv, Typing, Mine
<1> HIDE DEF x, pc
<1>6. TypeOK' /\ tr'[t] = x /\ rd'[t] = NoTask
  BY <1>1, <1>2, <1>3, <1>4, <1>10, NoTaskTyped, TypeIs DEF IInv, Typing
<1>7. \A u \in Transfer \ {t} : Kept(u)
  BY <1>2, <1>3, <1>4, <1>10, TypeIs DEF IInv, Typing, Kept
<1>8. Listed(t)' /\ Shaped(t)' /\ LastChunk(t)' /\ Owned(t)' /\ ReadAll(t)' /\ Accounted(t)'
  BY <1>1, <1>3, <1>4, <1>5, <1>6, GoodIs
     DEF Listed, Shaped, LastChunk, Owned, ReadAll, Accounted, Is, Piping, Running, NoTask
<1>9. Whole(t)'
  BY <1>1, <1>3, <1>4, <1>5, <1>6 DEF Whole, Is
<1> QED
  BY <1>6, <1>7, <1>8, <1>9 DEF Sound, Good

\* A reader's step moves no chunk out of the account.
LEMMA Balance ==
    \A n, w, f, g, q0, q1, got0, got1 \in Int :
        n + (q0 + w + f) = got0 /\ got1 - q1 - g = got0 - q0 - f
        => n + (q1 + w + g) = got1
OBVIOUS

\* The reader of t takes a step, and the task does not.
LEMMA ReaderSound ==
    ASSUME IInv, NEW t \in Transfer, NEW r \in ReadRec,
           rd' = [rd EXCEPT ![t] = r], UNCHANGED <<tr, src, dest, open, hist>>,
           rd[t].pc # "done", Is(t, "download") => r.queue = 0,
           tr[t].pc \in Piping /\ t \in open
              => r.got - r.queue - (IF r.pc = "full" THEN 1 ELSE 0)
                 = rd[t].got - rd[t].queue - (IF rd[t].pc = "full" THEN 1 ELSE 0),
           r.pc \in {"drain", "done"} /\ r.res = "ok"
              => /\ src[t] # "up" /\ (src[t] = "ok" => r.got = Chunks)
                 /\ ~Is(t, "send") => src[t] = "ok"
    PROVE  Sound(t)
<1>1. /\ TypeOK' /\ \A u \in Transfer \ {t} : Kept(u)
      /\ tr'[t] = tr[t] /\ rd'[t] = r /\ Mine(t)' = Mine(t)
  <2>1. tr' = [tr EXCEPT ![t] = tr[t]]
    BY TypeIs DEF IInv, Typing
  <2> QED
    BY <2>1, GoodIs, LocalKeeps, TypeIs DEF IInv, Typing
<1>2. Listed(t)' /\ Shaped(t)' /\ LastChunk(t)' /\ Owned(t)' /\ ReadAll(t)' /\ Whole(t)'
  BY <1>1, GoodIs DEF Listed, Shaped, LastChunk, Owned, ReadAll, Whole, Is
<1>3. Accounted(t)'
  <2>1. r.got \in Int /\ r.queue \in Int /\ rd[t].got \in Int /\ rd[t].queue \in Int
    BY GoodIs DEF ReadRec
  <2> SUFFICES ASSUME tr[t].pc \in Piping, t \in open, Mine(t)
               PROVE  dest.n + Held(t)' = r.got
    BY <1>1 DEF Accounted
  <2>2. dest.n \in Int
    BY PathTyped, TypeIs DEF IInv, Typing
  <2>3. dest.n + Held(t) = rd[t].got
    BY GoodIs DEF Accounted
  <2> DEFINE w == IF tr[t].pc = "write" THEN 1 ELSE 0
             f == IF rd[t].pc = "full" THEN 1 ELSE 0
             g == IF r.pc = "full" THEN 1 ELSE 0
  <2>4. Held(t) = rd[t].queue + w + f /\ Held(t)' = r.queue + w + g
    BY <1>1 DEF Held
  <2>5. r.got - r.queue - g = rd[t].got - rd[t].queue - f
    OBVIOUS
  <2>6. w \in Int /\ f \in Int /\ g \in Int
    OBVIOUS
  <2> HIDE DEF w, f, g
  <2>7. dest.n + (rd[t].queue + w + f) = rd[t].got
    BY <2>3, <2>4
  <2>8. dest.n + (r.queue + w + g) = r.got
    <3> DEFINE n == dest.n  q0 == rd[t].queue  q1 == r.queue
               got0 == rd[t].got  got1 == r.got
    <3>1. /\ n \in Int /\ q0 \in Int /\ q1 \in Int /\ got0 \in Int /\ got1 \in Int
          /\ n + (q0 + w + f) = got0 /\ got1 - q1 - g = got0 - q0 - f
      BY <2>1, <2>2, <2>5, <2>7
    <3> HIDE DEF n, q0, q1, got0, got1
    <3>2. n + (q1 + w + g) = got1
      BY <2>6, <3>1, Balance
    <3> QED
      BY <3>2 DEF n, q1, got1
  <2> QED
    BY <2>4, <2>8
<1> QED
  BY <1>1, <1>2, <1>3 DEF Sound, Good

---------------------------------------------------------------------------
(* The registry and the connections. *)

\* The task goes elsewhere, outside the pipe, and nothing else changes.
LEMMA GotoSound ==
    ASSUME IInv, NEW t \in Transfer, NEW pc, Goto(t, pc),
           UNCHANGED <<rd, src, dest, open, hist>>, tr[t].pc \notin Piping,
           \/ pc \in Running \ Piping /\ tr[t].pc \in Running
           \/ pc \in {"remove", "clear", "done"} /\ tr[t].res = "cancelled"
    PROVE  Sound(t)
<1> DEFINE x == [tr[t] EXCEPT !.pc = pc]
<1>1. /\ x \in TaskRec /\ x.kind = tr[t].kind /\ x.flag = tr[t].flag
      /\ x.pc = pc /\ x.res = tr[t].res /\ x.reg = tr[t].reg
  BY GoodIs DEF TaskRec, Running, Piping
<1>2. tr' = [tr EXCEPT ![t] = x]
  BY DEF Goto
<1> HIDE DEF x
<1> QED
  BY <1>1, <1>2, MovedSound, GoodIs DEF Listed, Running, Piping

LEMMA BeginSound ==
    ASSUME IInv, NEW t \in Transfer, Begin(t)
    PROVE  Sound(t)
<1> DEFINE pc == IF Is(t, "send") THEN "from" ELSE "lookup"
           x == [tr[t] EXCEPT !.reg = TRUE, !.pc = pc]
<1>1. /\ x \in TaskRec /\ x.kind = tr[t].kind /\ x.flag = tr[t].flag
      /\ x.pc = pc /\ x.reg
  BY GoodIs DEF TaskRec, Running
<1>2. tr' = [tr EXCEPT ![t] = x] /\ UNCHANGED <<rd, src, dest, open, hist>>
  BY DEF Begin
<1>3. pc \in {"from", "lookup"}
  OBVIOUS
<1> HIDE DEF x, pc
<1> QED
  BY <1>1, <1>2, <1>3, MovedSound DEF Piping

LEMMA CancelSound ==
    ASSUME IInv, NEW t \in Transfer, Cancel(t)
    PROVE  Sound(t)
<1> DEFINE x == [tr[t] EXCEPT !.flag = TRUE]
<1>1. /\ x \in TaskRec /\ x.kind = tr[t].kind /\ x.flag
      /\ x.pc = tr[t].pc /\ x.res = tr[t].res /\ x.reg = tr[t].reg
  BY GoodIs DEF TaskRec
<1>2. tr' = [tr EXCEPT ![t] = x] /\ UNCHANGED <<rd, src, dest, open, hist>>
  BY DEF Cancel
<1> HIDE DEF x
<1> QED
  BY <1>1, <1>2, MovedSound, GoodIs DEF Listed

LEMMA EnterSound ==
    ASSUME IInv, NEW t \in Transfer, tr[t].pc \in {"lookup", "from"},
           Enter(t, "to"), UNCHANGED hist
    PROVE  Sound(t)
<1>1. CASE tr[t].flag
  BY <1>1, ReturnSound DEF Enter, Return, Running, Res
<1>2. CASE ~tr[t].flag
  BY <1>2, GotoSound DEF Enter, Running, Piping
<1> QED
  BY <1>1, <1>2

LEMMA LookupSound ==
    ASSUME IInv, NEW t \in Transfer, Lookup(t)
    PROVE  Sound(t)
<1>1. CASE Enter(t, "to")
  BY <1>1, EnterSound DEF Lookup
<1>2. CASE ~Enter(t, "to")
  <2> DEFINE x == [tr[t] EXCEPT !.pc = "done", !.res = "error"]
  <2>1. x \in TaskRec /\ x.kind = tr[t].kind /\ x.flag = tr[t].flag
        /\ x.pc = "done" /\ x.res = "error"
    BY GoodIs DEF TaskRec, Res
  <2>2. tr' = [tr EXCEPT ![t] = x] /\ UNCHANGED <<rd, src, dest, open, hist>>
    BY <1>2 DEF Lookup
  <2> HIDE DEF x
  <2> QED
    BY <2>1, <2>2, MovedSound DEF Running, Piping
<1> QED
  BY <1>1, <1>2

LEMMA ConnectedSound ==
    ASSUME IInv, NEW t \in Transfer, Connected(t)
    PROVE  Sound(t)
BY EnterSound, GotoSound DEF Connected, Running, Piping

LEMMA NotConnectedSound ==
    ASSUME IInv, NEW t \in Transfer, NotConnected(t)
    PROVE  Sound(t)
BY ReturnSound DEF NotConnected, Return, Running, Res

---------------------------------------------------------------------------
(* The pipe. *)

LEMMA EofSound ==
    ASSUME IInv, NEW t \in Transfer, Eof(t)
    PROVE  Sound(t)
<1> DEFINE res == IF Is(t, "download") /\ src[t] # "ok" THEN "error" ELSE "ok"
           pc == IF Is(t, "send") THEN "drain" ELSE "done"
           r == [rd[t] EXCEPT !.pc = pc, !.res = res]
<1>1. /\ rd' = [rd EXCEPT ![t] = r] /\ rd[t].pc = "read" /\ AtEnd(t)
      /\ UNCHANGED <<tr, src, dest, open, hist>>
  BY GoodIs, TypeIs DEF Eof, Stopped, IInv, Typing
<1>2. /\ r \in ReadRec /\ r.pc = pc /\ r.res = res
      /\ r.got = rd[t].got /\ r.queue = rd[t].queue
  BY GoodIs DEF ReadRec, Res
<1>3. pc \in {"drain", "done"}
  OBVIOUS
<1>4. src[t] # "up" /\ (src[t] = "ok" => rd[t].got = Chunks)
  BY <1>1 DEF AtEnd
<1>5. res = "ok" /\ ~Is(t, "send") => src[t] = "ok"
  BY GoodIs DEF Shaped, TaskRec, Kind, Is
<1>6. Is(t, "download") => rd[t].queue = 0
  BY GoodIs DEF Shaped
<1> HIDE DEF r, res, pc
<1> QED
  BY <1>1, <1>2, <1>3, <1>4, <1>5, <1>6, ReaderSound

LEMMA PollSound ==
    ASSUME IInv, NEW t \in Transfer, Poll(t)
    PROVE  Sound(t)
<1> DEFINE pc == IF Is(t, "send") THEN "drain" ELSE "done"
           r == [rd[t] EXCEPT !.pc = pc, !.res = "cancelled"]
<1>1. /\ rd' = [rd EXCEPT ![t] = r] /\ rd[t].pc = "read"
      /\ UNCHANGED <<tr, src, dest, open, hist>>
  BY GoodIs, TypeIs DEF Poll, Stopped, IInv, Typing
<1>2. /\ r \in ReadRec /\ r.pc = pc /\ r.res = "cancelled"
      /\ r.got = rd[t].got /\ r.queue = rd[t].queue
  BY GoodIs DEF ReadRec, Res
<1>3. pc \in {"drain", "done"}
  OBVIOUS
<1>4. Is(t, "download") => rd[t].queue = 0
  BY GoodIs DEF Shaped
<1> HIDE DEF r, pc
<1> QED
  BY <1>1, <1>2, <1>3, <1>4, ReaderSound

LEMMA ReadChunkSound ==
    ASSUME IInv, NEW t \in Transfer, ReadChunk(t)
    PROVE  Sound(t)
<1> DEFINE r == [rd[t] EXCEPT !.pc = "full", !.got = rd[t].got + 1]
<1>1. /\ rd' = [rd EXCEPT ![t] = r] /\ rd[t].pc = "read" /\ rd[t].got < Chunks
      /\ UNCHANGED <<tr, src, dest, open, hist>>
  BY TypeIs DEF ReadChunk, More, IInv, Typing
<1>2. rd[t].got \in 0..Chunks /\ rd[t].got + 1 \in 0..Chunks /\ rd[t].queue \in 0..Depth
  BY <1>1, GoodIs, BoundAssumption DEF ReadRec
<1>3. /\ r \in ReadRec /\ r.pc = "full" /\ r.got = rd[t].got + 1 /\ r.queue = rd[t].queue
  BY <1>2, GoodIs DEF ReadRec
<1>4. Is(t, "download") => rd[t].queue = 0
  BY GoodIs DEF Shaped
<1>5. r.got - r.queue - 1 = rd[t].got - rd[t].queue
  BY <1>2, <1>3
<1>6. rd[t].got - rd[t].queue = rd[t].got - rd[t].queue - 0
  BY <1>2
<1> HIDE DEF r
<1>7. rd[t].pc # "done" /\ rd[t].pc # "full" /\ r.pc \notin {"drain", "done"}
  BY <1>1, <1>3
<1> QED
  BY <1>1, <1>3, <1>4, <1>5, <1>6, <1>7, ReaderSound

LEMMA PushSound ==
    ASSUME IInv, NEW t \in Transfer, Push(t)
    PROVE  Sound(t)
<1> DEFINE s == [rd[t] EXCEPT !.queue = rd[t].queue + 1, !.pc = "read"]
           r == IF tr[t].flag THEN Stopped(t, s, "cancelled") ELSE s
<1>1. /\ rd' = [rd EXCEPT ![t] = r] /\ rd[t].pc = "full" /\ rd[t].queue < Depth
      /\ ~Is(t, "download") /\ UNCHANGED <<tr, src, dest, open, hist>>
  BY DEF Push
<1>2. rd[t].got \in 0..Chunks /\ rd[t].queue \in 0..Depth /\ rd[t].queue + 1 \in 0..Depth
  BY <1>1, GoodIs, BoundAssumption DEF ReadRec
<1>3. /\ s \in ReadRec /\ s.pc = "read" /\ s.got = rd[t].got /\ s.queue = rd[t].queue + 1
  BY <1>2, GoodIs DEF ReadRec
<1> HIDE DEF s
<1>4. /\ r \in ReadRec /\ r.pc \in {"read", "drain", "done"}
      /\ r.got = rd[t].got /\ r.queue = rd[t].queue + 1
      /\ r.pc # "read" => r.res = "cancelled"
  <2>1. CASE tr[t].flag
    BY <2>1, <1>3 DEF Stopped, ReadRec, Res
  <2>2. CASE ~tr[t].flag
    BY <2>2, <1>3
  <2> QED
    BY <2>1, <2>2
<1>5. r.got - r.queue = rd[t].got - rd[t].queue - 1
  BY <1>2, <1>4
<1> HIDE DEF r
<1>6. r.pc # "full" /\ (r.pc \in {"drain", "done"} => r.res # "ok")
  BY <1>4
<1>7. rd[t].pc # "done" /\ r.got - r.queue - 0 = rd[t].got - rd[t].queue - 1
  BY <1>1, <1>2, <1>4, <1>5
<1> QED
  BY <1>1, <1>4, <1>6, <1>7, ReaderSound

LEMMA DrainedSound ==
    ASSUME IInv, NEW t \in Transfer, Drained(t)
    PROVE  Sound(t)
<1>1. PICK res \in {rd[t].res, "error"} :
         /\ rd' = [rd EXCEPT ![t].pc = "done", ![t].res = res]
         /\ rd[t].pc = "drain" /\ UNCHANGED <<tr, src, dest, open, hist>>
  BY DEF Drained
<1> DEFINE r == [rd[t] EXCEPT !.pc = "done", !.res = res]
<1>2. rd' = [rd EXCEPT ![t] = r]
  BY <1>1
<1>3. /\ r \in ReadRec /\ r.pc = "done" /\ r.res = res
      /\ r.got = rd[t].got /\ r.queue = rd[t].queue
  BY GoodIs DEF ReadRec, Res
<1>4. Is(t, "download") => rd[t].queue = 0
  BY GoodIs DEF Shaped
<1>5. r.res = "ok" => /\ src[t] # "up" /\ (src[t] = "ok" => rd[t].got = Chunks)
                      /\ ~Is(t, "send") => src[t] = "ok"
  BY <1>1, <1>3, GoodIs DEF ReadAll
<1> HIDE DEF r
<1> QED
  BY <1>1, <1>2, <1>3, <1>4, <1>5, ReaderSound

LEMMA SourceEndsSound ==
    ASSUME IInv, NEW t \in Transfer, SourceEnds(t)
    PROVE  Sound(t)
<1>1. PICK s \in {"ok", "bad", "lost"} : src' = [src EXCEPT ![t] = s]
  BY DEF SourceEnds
<1>2. /\ tr[t].pc \in Piping /\ src[t] = "up" /\ UNCHANGED <<tr, rd, dest, open, hist>>
      /\ tr' = [tr EXCEPT ![t] = tr[t]] /\ rd' = [rd EXCEPT ![t] = rd[t]]
      /\ src' \in [Transfer -> {"up", "ok", "bad", "lost"}]
      /\ \A u \in Transfer \ {t} : src'[u] = src[u]
  BY <1>1, TypeIs DEF SourceEnds, IInv, Typing
<1>3. /\ TypeOK' /\ \A u \in Transfer \ {t} : Kept(u)
      /\ tr'[t] = tr[t] /\ rd'[t] = rd[t] /\ Mine(t)' = Mine(t) /\ Held(t)' = Held(t)
  BY <1>2, GoodIs, LocalKeeps DEF Held
<1>4. Listed(t)' /\ Shaped(t)' /\ LastChunk(t)' /\ Owned(t)' /\ Accounted(t)' /\ ReadAll(t)'
  BY <1>2, <1>3, GoodIs DEF Listed, Shaped, LastChunk, Owned, Accounted, ReadAll, Is
<1>5. Whole(t)'
  BY <1>2, <1>3 DEF Whole, Piping
<1> QED
  BY <1>3, <1>4, <1>5 DEF Sound, Good

LEMMA OpenSound ==
    ASSUME IInv, NEW t \in Transfer, Open(t)
    PROVE  Sound(t)
<1>1. CASE UNCHANGED hist /\ \E res \in {"cancelled", "error"} : Return(t, res)
  BY <1>1, ReturnSound DEF Open, Return, Running, Piping, Res
<1>2. CASE /\ Goto(t, "relay") /\ dest' = Of(t, 0) /\ open' = open \cup {t} /\ src' = src
           /\ rd' = [rd EXCEPT ![t] = IF tr[t].flag THEN Stopped(t, NoTask, "cancelled")
                                      ELSE [NoTask EXCEPT !.pc = "read"]]
           /\ hist' = [hist EXCEPT !.apart = Transfer \ {t}]
  <2> DEFINE x == [tr[t] EXCEPT !.pc = "relay"]
             r == IF tr[t].flag THEN Stopped(t, NoTask, "cancelled")
                  ELSE [NoTask EXCEPT !.pc = "read"]
  <2>1. /\ x \in TaskRec /\ x.kind = tr[t].kind /\ x.flag = tr[t].flag
        /\ x.pc = "relay" /\ x.reg = tr[t].reg
    BY GoodIs DEF TaskRec, Running, Piping
  <2>2. /\ r \in ReadRec /\ r.got = 0 /\ r.queue = 0 /\ r.pc # "full"
        /\ r.pc \in {"drain", "done"} => r.res # "ok"
    BY NoTaskTyped, BoundAssumption DEF ReadRec, Stopped, NoTask, Res
  <2>3. tr' = [tr EXCEPT ![t] = x] /\ rd' = [rd EXCEPT ![t] = r]
    BY <1>2 DEF Goto
  <2>4. hist'.after = hist.after /\ hist'.cut = hist.cut /\ hist'.apart = Transfer \ {t}
        /\ hist' \in HistRec
    BY <1>2, TypeIs DEF IInv, Typing, HistRec
  <2>5. 0 \in 0..Chunks /\ Of(t, 0) \in PathRec /\ Mine(t)'
    BY <1>2, BoundAssumption, PathTyped DEF Mine
  <2> HIDE DEF x, r
  <2>6. TypeOK' /\ tr'[t] = x /\ rd'[t] = r
    BY <1>2, <2>1, <2>2, <2>3, <2>4, <2>5, TypeIs DEF IInv, Typing
  <2>7. \A u \in Transfer \ {t} : Kept(u)
    <3> SUFFICES ASSUME NEW u \in Transfer \ {t} PROVE Kept(u)
      OBVIOUS
    <3>1. ~Mine(u)'
      BY <1>2, PathTyped DEF Mine
    <3> QED
      BY <1>2, <2>3, <2>4, <3>1, TypeIs DEF IInv, Typing, Kept
  <2>8. tr[t].pc = "open"
    BY DEF Open
  <2>9. Listed(t)' /\ Shaped(t)'
    BY <1>2, <2>1, <2>2, <2>6, <2>8, GoodIs DEF Listed, Shaped, Is, Running
  <2>10. LastChunk(t)' /\ Owned(t)'
    BY <1>2, <2>1, <2>4, <2>5, <2>6, GoodIs DEF LastChunk, Owned, Is
  <2>11. ReadAll(t)' /\ Whole(t)'
    BY <2>1, <2>2, <2>6 DEF ReadAll, Whole
  <2>12. Accounted(t)'
    <3>1. dest'.n = 0
      BY <1>2, PathTyped
    <3>2. Held(t)' = 0 + 0 + 0
      BY <2>1, <2>2, <2>6 DEF Held
    <3> QED
      BY <2>2, <2>6, <3>1, <3>2 DEF Accounted
  <2> QED
    BY <2>6, <2>7, <2>9, <2>10, <2>11, <2>12 DEF Sound, Good
<1> QED
  BY <1>1, <1>2 DEF Open

\* A chunk passes from the queue, or from the reader of a download, to the loop.
LEMMA TakenTyped ==
    ASSUME IInv, NEW t \in Transfer, HasChunk(t)
    PROVE  /\ Taken(t) \in ReadRec /\ Taken(t).got = rd[t].got
           /\ Taken(t).pc \in {"drain", "done"}
              => Taken(t).pc = rd[t].pc /\ Taken(t).res = rd[t].res
           /\ Is(t, "download") => Taken(t).queue = 0
           /\ Taken(t).queue + 1 + (IF Taken(t).pc = "full" THEN 1 ELSE 0)
              = rd[t].queue + (IF rd[t].pc = "full" THEN 1 ELSE 0)
<1>1. CASE Is(t, "download")
  BY <1>1, GoodIs, BoundAssumption DEF HasChunk, Taken, ReadRec, Shaped
<1>2. CASE ~Is(t, "download")
  <2>1. rd[t].queue \in 0..Depth /\ rd[t].queue > 0 /\ rd[t].queue - 1 \in 0..Depth
    BY <1>2, GoodIs, BoundAssumption DEF HasChunk, ReadRec
  <2>2. Taken(t) \in ReadRec /\ Taken(t).got = rd[t].got /\ Taken(t).pc = rd[t].pc
        /\ Taken(t).res = rd[t].res /\ Taken(t).queue = rd[t].queue - 1
    BY <1>2, <2>1, GoodIs DEF Taken, ReadRec
  <2> QED
    BY <1>2, <2>1, <2>2
<1> QED
  BY <1>1, <1>2

LEMMA ReceiveSound ==
    ASSUME IInv, NEW t \in Transfer, Receive(t)
    PROVE  Sound(t)
<1>1. tr[t].pc = "relay" /\ HasChunk(t) /\ UNCHANGED hist
  BY DEF Receive
<1>2. CASE tr[t].flag /\ ~Is(t, "download")
  BY <1>1, <1>2, ReturnSound DEF Receive, Return, Running, Piping, Res
<1>3. CASE ~(tr[t].flag /\ ~Is(t, "download"))
  <2> DEFINE x == [tr[t] EXCEPT !.pc = "write"]
  <2>1. /\ x \in TaskRec /\ x.kind = tr[t].kind /\ x.flag = tr[t].flag
        /\ x.pc = "write" /\ x.reg = tr[t].reg
    BY GoodIs DEF TaskRec, Running, Piping
  <2>2. /\ tr' = [tr EXCEPT ![t] = x] /\ rd' = [rd EXCEPT ![t] = Taken(t)]
        /\ UNCHANGED <<src, dest, open, hist>>
    BY <1>1, <1>3 DEF Receive, Goto
  <2> HIDE DEF x
  <2>3. /\ TypeOK' /\ \A u \in Transfer \ {t} : Kept(u)
        /\ tr'[t] = x /\ rd'[t] = Taken(t) /\ Mine(t)' = Mine(t)
    BY <1>1, <2>1, <2>2, TakenTyped, LocalKeeps, TypeIs DEF IInv, Typing
  <2>4. Listed(t)' /\ Owned(t)' /\ Whole(t)' /\ Shaped(t)' /\ LastChunk(t)' /\ ReadAll(t)'
    BY <1>1, <1>3, <2>1, <2>2, <2>3, TakenTyped, GoodIs
       DEF Listed, Owned, Whole, Shaped, LastChunk, ReadAll, Is, Running, Piping
  <2>5. Accounted(t)'
    <3>1. Held(t)' = Taken(t).queue + 1 + (IF Taken(t).pc = "full" THEN 1 ELSE 0)
      BY <2>1, <2>3 DEF Held
    <3>2. Held(t) = rd[t].queue + 0 + (IF rd[t].pc = "full" THEN 1 ELSE 0)
      BY <1>1 DEF Held
    <3>3. rd[t].queue + 0 = rd[t].queue
      BY GoodIs DEF ReadRec
    <3>4. Held(t)' = Held(t)
      BY <1>1, <3>1, <3>2, <3>3, TakenTyped
    <3>5. open' = open /\ dest' = dest /\ tr[t].pc \in Piping
      BY <1>1, <2>2 DEF Piping
    <3>6. Taken(t).got = rd[t].got
      BY <1>1, TakenTyped
    <3> QED
      BY <2>3, <3>4, <3>5, <3>6, GoodIs DEF Accounted
  <2> QED
    BY <2>3, <2>4, <2>5 DEF Sound, Good
<1> QED
  BY <1>2, <1>3

LEMMA WriteSound ==
    ASSUME IInv, NEW t \in Transfer, Write(t)
    PROVE  Sound(t)
<1> DEFINE x == [tr[t] EXCEPT !.pc = "relay"]
           after == IF tr[t].flag /\ hist.after[t] < 2 THEN hist.after[t] + 1
                    ELSE hist.after[t]
           apart == IF t \in open /\ ~Mine(t) THEN hist.apart \cup (Transfer \ {t})
                    ELSE hist.apart
<1>1. /\ x \in TaskRec /\ x.kind = tr[t].kind /\ x.flag = tr[t].flag
      /\ x.pc = "relay" /\ x.reg = tr[t].reg
  BY GoodIs DEF TaskRec, Running, Piping
<1>2. /\ tr[t].pc = "write" /\ tr' = [tr EXCEPT ![t] = x] /\ dest' = Grown(t)
      /\ UNCHANGED <<rd, src, open>>
  BY DEF Write, Goto
<1>3. /\ hist' \in HistRec /\ hist'.after = [hist.after EXCEPT ![t] = after]
      /\ hist'.apart = apart /\ hist'.cut = hist.cut
  <2>1. hist \in HistRec /\ after \in 0..2
    BY GoodIs, TypeIs DEF IInv, Typing
  <2>2. hist' = [hist EXCEPT !.after[t] = after, !.apart = apart]
    BY DEF Write, Mine
  <2>3. apart \subseteq Transfer
    BY <2>1 DEF HistRec
  <2> HIDE DEF after, apart
  <2> QED
    BY <2>1, <2>2, <2>3 DEF HistRec
<1> HIDE DEF x
<1>4. Mine(t) /\ t \in open => /\ Grown(t) = Of(t, dest.n + 1) /\ dest.n + 1 \in 0..Chunks
                               /\ dest.n \in 0..Chunks
  <2> SUFFICES ASSUME Mine(t), t \in open
               PROVE  /\ Grown(t) = Of(t, dest.n + 1) /\ dest.n + 1 \in 0..Chunks
                      /\ dest.n \in 0..Chunks
    OBVIOUS
  <2>1. Grown(t) = Of(t, dest.n + 1)
    BY DEF Grown, Mine, Of, Path
  <2>2. dest.n \in 0..Chunks
    BY PathTyped, TypeIs DEF IInv, Typing
  <2>3. dest.n + Held(t) = rd[t].got /\ rd[t].got \in 0..Chunks /\ rd[t].queue \in 0..Depth
    BY <1>2, GoodIs DEF Accounted, Piping, ReadRec
  <2>4. Held(t) = rd[t].queue + 1 + (IF rd[t].pc = "full" THEN 1 ELSE 0)
    BY <1>2 DEF Held
  <2>5. Held(t) \in Int /\ Held(t) >= 1
    BY <2>3, <2>4, BoundAssumption
  <2> QED
    BY <2>1, <2>2, <2>3, <2>5, BoundAssumption
<1>5. ~Mine(t) /\ t \in open => Grown(t) = Mixed
  BY TypeIs, PathTyped DEF Grown, Mine, IInv, Typing, PathRec, Of, Path, Absent, Old, Mixed
<1>6. t \notin open => Grown(t) = dest
  BY DEF Grown
<1>7. Grown(t) \in PathRec
  BY <1>4, <1>5, <1>6, PathTyped, TypeIs DEF IInv, Typing
<1>8. TypeOK' /\ tr'[t] = x /\ rd'[t] = rd[t]
  BY <1>1, <1>2, <1>3, <1>7, TypeIs DEF IInv, Typing
<1>9. \A u \in Transfer \ {t} : Kept(u)
  <2> SUFFICES ASSUME NEW u \in Transfer \ {t} PROVE Kept(u)
    OBVIOUS
  <2>1. /\ tr'[u] = tr[u] /\ rd'[u] = rd[u] /\ src'[u] = src[u]
        /\ hist'.after[u] = hist.after[u] /\ (u \in hist.cut => u \in hist'.cut)
        /\ u \in hist.apart => u \in hist'.apart
    BY <1>2, <1>3, TypeIs DEF IInv, Typing, HistRec
  <2>2. CASE t \notin open
    BY <1>2, <1>6, <2>1, <2>2 DEF Kept
  <2>3. CASE t \in open /\ Mine(t)
    <3>1. ~Mine(u)' /\ ~Mine(u)
      BY <1>2, <1>4, <2>3, PathTyped DEF Mine
    <3> QED
      BY <2>1, <3>1 DEF Kept
  <2>4. CASE t \in open /\ ~Mine(t)
    <3>1. ~Mine(u)' /\ u \in hist'.apart
      BY <1>2, <1>3, <1>5, <2>4, PathTyped DEF Mine
    <3> QED
      BY <2>1, <3>1 DEF Kept
  <2> QED
    BY <2>2, <2>3, <2>4
<1>10. Listed(t)' /\ Shaped(t)' /\ ReadAll(t)' /\ Whole(t)'
  BY <1>1, <1>2, <1>8, GoodIs DEF Listed, Shaped, ReadAll, Whole, Is, Running, Piping
<1>11. hist'.after[t] = after /\ (t \in hist'.apart <=> t \in hist.apart)
  BY <1>3, TypeIs DEF IInv, Typing, HistRec
<1>12. LastChunk(t)'
  BY <1>1, <1>2, <1>8, <1>11, GoodIs DEF LastChunk, Is
<1>13. Owned(t)'
  BY <1>2, <1>4, <1>8, <1>11, GoodIs, PathTyped DEF Owned, Mine, Piping
<1>14. Accounted(t)'
  <2> SUFFICES ASSUME t \in open, Mine(t)' PROVE dest'.n + Held(t)' = rd[t].got
    BY <1>2, <1>8 DEF Accounted
  <2>1. Mine(t)
    BY <1>2, <1>5, PathTyped DEF Mine
  <2>2. dest'.n = dest.n + 1 /\ dest.n \in Int
    BY <1>2, <1>4, <2>1, PathTyped
  <2>3. dest.n + Held(t) = rd[t].got /\ rd[t].queue \in Int
    BY <1>2, <2>1, GoodIs DEF Accounted, Piping, ReadRec
  <2>4. /\ Held(t) = rd[t].queue + 1 + (IF rd[t].pc = "full" THEN 1 ELSE 0)
        /\ Held(t)' = rd[t].queue + 0 + (IF rd[t].pc = "full" THEN 1 ELSE 0)
    BY <1>1, <1>2, <1>8 DEF Held
  <2>5. Held(t) = Held(t)' + 1 /\ Held(t)' \in Int
    BY <2>3, <2>4
  <2> QED
    BY <2>2, <2>3, <2>5
<1> QED
  BY <1>8, <1>9, <1>10, <1>12, <1>13, <1>14 DEF Sound, Good

LEMMA WriteFailsSound ==
    ASSUME IInv, NEW t \in Transfer, WriteFails(t)
    PROVE  Sound(t)
BY ReturnSound DEF WriteFails, Return, Running, Piping, Res

\* A return after failed writes that nobody was told of.
LEMMA CutSound ==
    ASSUME IInv, NEW t \in Transfer, NEW res \in Res, ReturnCut(t, res), tr[t].pc \in Running
    PROVE  Sound(t)
<1>1. t \in hist'.cut
  BY TypeIs DEF ReturnCut, IInv, Typing, HistRec
<1> QED
  BY <1>1, ReturnSound DEF ReturnCut

\* What a writer that has been told the end of the queue has at the path.
LEMMA PipeEmpty ==
    ASSUME IInv, NEW t \in Transfer, tr[t].pc \in {"relay", "finish"},
           rd[t].queue = 0, rd[t].pc = "done", rd[t].res = "ok",
           Is(t, "send") => src[t] = "ok", t \notin hist.apart
    PROVE  dest = Of(t, Chunks)
<1>1. t \in open /\ Mine(t)
  BY GoodIs DEF Owned, Piping
<1>2. Held(t) = 0 + 0 + 0
  BY DEF Held
<1>3. dest.n + Held(t) = rd[t].got
  BY <1>1, GoodIs DEF Accounted, Piping
<1>4. rd[t].got = Chunks
  BY GoodIs DEF ReadAll
<1>5. dest.n \in 0..Chunks
  BY <1>1, PathTyped, TypeIs DEF IInv, Typing
<1>6. dest.n = Chunks
  BY <1>2, <1>3, <1>4, <1>5
<1> QED
  BY <1>1, <1>6 DEF Mine

LEMMA QueueClosedSound ==
    ASSUME IInv, NEW t \in Transfer, QueueClosed(t)
    PROVE  Sound(t)
<1>1. tr[t].pc = "relay" /\ rd[t].queue = 0 /\ rd[t].pc = "done"
  BY DEF QueueClosed
<1>2. CASE Is(t, "send")
  <2> DEFINE x == [tr[t] EXCEPT !.pc = "finish"]
  <2>1. /\ x \in TaskRec /\ x.kind = tr[t].kind /\ x.flag = tr[t].flag
        /\ x.pc = "finish" /\ x.reg = tr[t].reg
    BY GoodIs DEF TaskRec, Running, Piping
  <2>2. /\ tr' = [tr EXCEPT ![t] = x] /\ rd' = [rd EXCEPT ![t] = rd[t]]
        /\ UNCHANGED <<rd, src, dest, open, hist>>
    BY <1>1, <1>2, TypeIs DEF QueueClosed, Goto, IInv, Typing, Is
  <2> HIDE DEF x
  <2>3. /\ TypeOK' /\ \A u \in Transfer \ {t} : Kept(u)
        /\ tr'[t] = x /\ rd'[t] = rd[t] /\ Mine(t)' = Mine(t)
    BY <2>1, <2>2, GoodIs, LocalKeeps, TypeIs DEF IInv, Typing
  <2>4. Listed(t)' /\ Owned(t)' /\ Whole(t)' /\ Shaped(t)' /\ LastChunk(t)' /\ ReadAll(t)'
    BY <1>1, <2>1, <2>2, <2>3, GoodIs
       DEF Listed, Owned, Whole, Shaped, LastChunk, ReadAll, Is, Running, Piping
  <2>5. Accounted(t)'
    <3>1. Held(t)' = Held(t)
      BY <1>1, <2>1, <2>2, <2>3 DEF Held
    <3> QED
      BY <1>1, <2>1, <2>2, <2>3, <3>1, GoodIs DEF Accounted, Piping
  <2> QED
    BY <2>3, <2>4, <2>5 DEF Sound, Good
<1>3. CASE ~Is(t, "send") /\ Return(t, rd[t].res) /\ UNCHANGED hist
  BY <1>1, <1>3, PipeEmpty, ReturnSound, GoodIs DEF Return, Running, Piping, ReadRec
<1>4. CASE Is(t, "upload") /\ rd[t].res = "ok" /\ ReturnCut(t, "ok")
  BY <1>1, <1>4, CutSound DEF Running, Piping, Res
<1> QED
  BY <1>2, <1>3, <1>4 DEF QueueClosed

LEMMA FinishSound ==
    ASSUME IInv, NEW t \in Transfer, Finish(t)
    PROVE  Sound(t)
<1>1. tr[t].pc = "finish" /\ tr[t].pc \in Running /\ rd[t].pc = "done" /\ rd[t].queue = 0
  BY GoodIs DEF Finish, ReadAll, Running, Piping
<1>2. CASE Return(t, "error") /\ UNCHANGED hist
  BY <1>1, <1>2, ReturnSound DEF Return, Res
<1>3. CASE Return(t, rd[t].res) /\ UNCHANGED hist
  BY <1>1, <1>3, PipeEmpty, ReturnSound, GoodIs DEF Return, ReadRec
<1>4. CASE ReturnCut(t, rd[t].res)
  BY <1>1, <1>4, CutSound, GoodIs DEF ReadRec
<1> QED
  BY <1>2, <1>3, <1>4 DEF Finish

---------------------------------------------------------------------------
(* After the transfer. *)

LEMMA ClearSound ==
    ASSUME IInv, NEW t \in Transfer, Clear(t)
    PROVE  Sound(t)
<1> DEFINE pc == IF Is(t, "send") /\ tr[t].res = "cancelled" THEN "cleanup" ELSE "done"
           x == [tr[t] EXCEPT !.reg = FALSE, !.pc = pc]
<1>1. /\ x \in TaskRec /\ x.kind = tr[t].kind /\ x.flag = tr[t].flag
      /\ x.pc = pc /\ x.res = tr[t].res
  BY GoodIs DEF TaskRec
<1>2. /\ tr[t].pc = "clear" /\ tr' = [tr EXCEPT ![t] = x]
      /\ UNCHANGED <<rd, src, dest, open, hist>>
  BY DEF Clear
<1>3. pc \in {"cleanup", "done"} /\ (pc = "cleanup" => tr[t].res = "cancelled")
  OBVIOUS
<1> HIDE DEF x, pc
<1> QED
  BY <1>1, <1>2, <1>3, MovedSound DEF Running, Piping

LEMMA CleanupSound ==
    ASSUME IInv, NEW t \in Transfer, Cleanup(t)
    PROVE  Sound(t)
BY GotoSound, GoodIs DEF Cleanup, Listed, Piping

LEMMA RemoveSound ==
    ASSUME IInv, NEW t \in Transfer, Remove(t)
    PROVE  Sound(t)
<1> DEFINE pc == IF Is(t, "send") THEN "done" ELSE "clear"
           x == [tr[t] EXCEPT !.pc = pc]
<1>1. /\ tr[t].pc = "remove" /\ tr[t].res = "cancelled" /\ Goto(t, pc)
      /\ pc \in {"done", "clear"} /\ UNCHANGED <<rd, src>>
  BY GoodIs DEF Remove, Listed
<1>2. CASE UNCHANGED <<dest, open, hist>>
  BY <1>1, <1>2, GotoSound DEF Piping
<1>3. CASE /\ dest' = Absent /\ open' = {}
           /\ hist' = [hist EXCEPT !.apart = @ \cup (Transfer \ {t})]
  <2>1. /\ x \in TaskRec /\ x.kind = tr[t].kind /\ x.flag = tr[t].flag
        /\ x.pc \in {"done", "clear"} /\ x.res = "cancelled"
    BY <1>1, GoodIs DEF TaskRec
  <2>2. tr' = [tr EXCEPT ![t] = x]
    BY <1>1 DEF Goto
  <2>3. /\ hist'.after = hist.after /\ hist'.cut = hist.cut /\ hist' \in HistRec
        /\ hist'.apart = hist.apart \cup (Transfer \ {t})
    BY <1>3, TypeIs DEF IInv, Typing, HistRec
  <2> HIDE DEF x, pc
  <2>4. TypeOK' /\ tr'[t] = x /\ rd'[t] = rd[t]
    BY <1>1, <1>3, <2>1, <2>2, <2>3, PathTyped, TypeIs DEF IInv, Typing
  <2>5. \A u \in Transfer \ {t} : Kept(u)
    <3> SUFFICES ASSUME NEW u \in Transfer \ {t} PROVE Kept(u)
      OBVIOUS
    <3>1. ~Mine(u)'
      BY <1>3, PathTyped DEF Mine
    <3> QED
      BY <1>1, <2>2, <2>3, <3>1, TypeIs DEF IInv, Typing, Kept
  <2>6. /\ Listed(t)' /\ Shaped(t)' /\ LastChunk(t)' /\ Owned(t)' /\ Accounted(t)'
        /\ ReadAll(t)' /\ Whole(t)'
    BY <1>1, <2>1, <2>3, <2>4, GoodIs
       DEF Listed, Shaped, LastChunk, Owned, Accounted, ReadAll, Whole, Is, Running, Piping
  <2> QED
    BY <2>4, <2>5, <2>6 DEF Sound, Good
<1> QED
  BY <1>1, <1>2, <1>3 DEF Remove

---------------------------------------------------------------------------
(* The theorems. *)

LEMMA InitIInv == Init => IInv
<1> SUFFICES ASSUME Init PROVE IInv
  OBVIOUS
<1>0. PICK kind \in [Transfer -> {"send", "upload"}] \cup [Transfer -> {"download"}] :
         /\ tr = [t \in Transfer |-> [kind |-> kind[t], pc |-> "idle", res |-> "ok",
                                     reg |-> FALSE, flag |-> FALSE]]
         /\ src = [t \in Transfer |-> IF kind[t] = "upload" THEN "ok" ELSE "up"]
  BY DEF Init
<1>1. /\ kind \in [Transfer -> Kind]
      /\ tr = [t \in Transfer |-> [kind |-> kind[t], pc |-> "idle", res |-> "ok",
                                   reg |-> FALSE, flag |-> FALSE]]
      /\ src = [t \in Transfer |-> IF kind[t] = "upload" THEN "ok" ELSE "up"]
  <2>1. kind \in [Transfer -> Kind]
    BY DEF Kind
  <2> QED
    BY <1>0, <2>1
<1>2. TypeOK
  <2>1. tr \in [Transfer -> TaskRec]
    BY <1>1 DEF TaskRec, Res
  <2>2. rd \in [Transfer -> ReadRec] /\ src \in [Transfer -> {"up", "ok", "bad", "lost"}]
    BY <1>1, NoTaskTyped DEF Init
  <2>3. hist \in HistRec /\ dest \in PathRec /\ open \subseteq Transfer
    BY DEF Init, HistRec, PathRec
  <2> QED
    BY <2>1, <2>2, <2>3, TypeIs DEF Typing
<1>3. ASSUME NEW t \in Transfer PROVE Good(t)
  <2>1. /\ tr[t].pc = "idle" /\ tr[t].kind = kind[t] /\ rd[t].pc = "off" /\ rd[t].queue = 0
        /\ hist.after[t] = 0 /\ src[t] = (IF kind[t] = "upload" THEN "ok" ELSE "up")
    BY <1>1 DEF Init, NoTask
  <2> QED
    BY <2>1 DEF Good, Listed, Shaped, LastChunk, Owned, Accounted, ReadAll, Whole, Is,
                Running, Piping
<1> QED
  BY <1>2, <1>3 DEF IInv

LEMMA NextIInv == IInv /\ [Next]_vars => IInv'
<1> SUFFICES ASSUME IInv, [Next]_vars PROVE IInv'
  OBVIOUS
<1>1. CASE UNCHANGED vars
  <2>1. TypeOK'
    BY <1>1 DEF IInv, TypeOK, vars
  <2>2. ASSUME NEW t \in Transfer PROVE Good(t)'
    BY <1>1, KeptGood DEF IInv, vars, Kept
  <2> QED
    BY <2>1, <2>2 DEF IInv
<1>2. ASSUME NEW t \in Transfer, Begin(t) \/ Cancel(t) PROVE Sound(t)
  BY <1>2, BeginSound, CancelSound
<1>3. ASSUME NEW t \in Transfer, Reader(t) PROVE Sound(t)
  BY <1>3, EofSound, PollSound, PushSound, DrainedSound DEF Reader
<1>4. ASSUME NEW t \in Transfer, Task(t) PROVE Sound(t)
  BY <1>4, LookupSound, ConnectedSound, NotConnectedSound, OpenSound, ReceiveSound,
     QueueClosedSound, ClearSound, CleanupSound DEF Task
<1>5. ASSUME NEW t \in Transfer, Target(t) PROVE Sound(t)
  BY <1>5, WriteSound, WriteFailsSound, FinishSound, RemoveSound DEF Target
<1>6. ASSUME NEW t \in Transfer, Source(t) PROVE Sound(t)
  BY <1>6, ReadChunkSound, SourceEndsSound DEF Source
<1> QED
  BY <1>1, <1>2, <1>3, <1>4, <1>5, <1>6, SoundKeeps DEF Next, AllDone

LEMMA Inductive == Spec => []IInv
BY InitIInv, NextIInv, PTL DEF Spec

\* The variables of the transfers keep their types; the queue never holds more
\* than its depth, and no more chunks reach the path than the source has.
THEOREM TypeCorrect == Spec => []TypeOK
<1>1. IInv => TypeOK
  BY DEF IInv
<1> QED
  BY <1>1, Inductive, PTL

\* A transfer that reports success has put every chunk at its path, whatever the
\* depth of the queue and whenever a cancel came.
THEOREM SuccessIsWhole == Spec => []WholeIfSent
<1>1. IInv => WholeIfSent
  BY DEF IInv, Good, Whole, WholeIfSent
<1> QED
  BY <1>1, Inductive, PTL

\* While a transfer runs it can be cancelled, and after a cancel at most the
\* chunk that was being written reaches the path of an upload or a send.
THEOREM CancelIsHeard == Spec => []CancelHeard
<1>1. IInv => CancelHeard
  <2> SUFFICES ASSUME IInv, NEW t \in Transfer
               PROVE  /\ tr[t].pc \in Running => tr[t].reg
                      /\ ~Is(t, "download") => hist.after[t] <= 1
    BY DEF CancelHeard
  <2> QED
    BY GoodIs DEF Listed, LastChunk
<1> QED
  BY <1>1, Inductive, PTL
=============================================================================
