----------------------- MODULE DurableCatalog_proofs -----------------------
(***************************************************************************)
(* What a durable catalog keeps, for any records, any number of crashes    *)
(* and of failing calls: one thread that loads and saves implements the    *)
(* register of CatalogRegister, and no crash makes it lose its records;    *)
(* any number of threads that load together after a crash find what was    *)
(* acknowledged.  A thread that loads beside one that saves does not, as   *)
(* TLC shows on MCDurableCatalogReader.                                    *)
(*                                                                         *)
(* The invariant of one thread says that each of the two files is missing  *)
(* or holds a document that may be found, that a missing primary has such  *)
(* a document in its .bak, and what the thread has written so far.  It     *)
(* says nothing of a .bak whose primary is there: that one may be old.     *)
(***************************************************************************)
EXTENDS DurableCatalog, TLAPS

Working == {"create", "write", "backup", "remove", "rename"}
Pc      == {"idle", "restore", "choose", "read", "loaded", "guard"} \cup Working

\* Documents a load may find.
Allowed == {acked} \cup tried

\* No other thread does anything.
Lonely(t) == /\ live = {t} /\ ~thread[t].moved
             /\ \A u \in Thread \ {t} : thread[u] = Idle

\* What the files hold.
Held == /\ \A d \in Dest : main[d] \in {Missing} \cup {File(x) : x \in Allowed}
        /\ main["primary"] = Missing => bak["primary"].recs \in Allowed

\* How far restore_if_needed is; how far atomic_write is, for the primary or,
\* after it, for the mirror.
Written(s) ==
    /\ s.pc = "choose" => ~HasRecords(main["primary"]) /\ s.readable = Readable(main["primary"])
    /\ s.pc \in Working =>
       /\ s.val \in Allowed /\ (s.ret = "save" => s.val \in tried)
       /\ s.dest = "mirror" => s.ret = "save" /\ main["primary"] = File(s.val)
       /\ s.pc \in {"backup", "remove", "rename"} => tmp[s.dest] = File(s.val)
       /\ s.pc = "remove" => main[s.dest] = Missing \/ bak[s.dest] = main[s.dest]

\* As long as no call has failed, a command has loaded what there is to find,
\* and a save that is not to empty the catalog empties none with records.
Fresh(s) ==
    /\ s.pc \in {"read", "loaded", "guard"} => Found = main["primary"].recs
    /\ s.pc \in Working /\ s.ret = "load" => s.val # {}
    /\ s.pc \in Working /\ s.val = {} => s.mode = "AllowEmpty" \/ Found = {}

\* The inductive invariant of the thread t, while it is the only one.
Alone(t) == TypeOK /\ Lonely(t) /\ Held /\ Written(thread[t]) /\ (fails = 0 => Fresh(thread[t]))

\* The inductive invariant of threads that load after a crash.
Loading(s) == s.dest = "primary" /\ s.ret = "load" /\ s.pc # "guard"
              /\ (s.pc \in Working => s.val = acked)
Loaders ==
    /\ TypeOK /\ live \cap Saver = {} /\ acked # {} /\ tried = {}
    /\ main["mirror"] = File(acked) /\ main["primary"].recs \in {{}, acked}
    /\ tmp["primary"].recs \in {{}, acked}
    /\ \A t \in Thread : Loading(thread[t]) /\ (t \notin live => thread[t] = Idle)

---------------------------------------------------------------------------
(* Typing. *)

ThreadRec == [pc : Pc, ret : {"load", "save"}, dest : Dest, val : Doc, mode : Mode, doc : Doc,
              moved : BOOLEAN, readable : BOOLEAN]

Typing ==
    /\ main \in [Dest -> Content] /\ bak \in [Dest -> Content] /\ tmp \in [Dest -> Content]
    /\ live \subseteq Thread /\ thread \in [Thread -> ThreadRec]
    /\ acked \in Doc /\ tried \in SUBSET Doc
    /\ crashes \in 0..MaxCrash /\ fails \in 0..MaxFail

LEMMA TypeIs == (TypeOK <=> Typing) /\ (TypeOK' <=> Typing')
<1>1. Pc = {"idle", "restore", "choose", "read", "loaded", "guard",
            "create", "write", "backup", "remove", "rename"}
  BY DEF Pc, Working
<1> QED
  BY <1>1 DEF Typing, TypeOK, ThreadRec

\* Files and what is read from them.
LEMMA ContentTyped ==
    /\ Missing \in Content /\ Bad \in Content /\ \A d \in Doc : File(d) \in Content
    /\ Missing # Bad /\ \A d : File(d) # Missing /\ File(d) # Bad /\ File(d).recs = d
    /\ Missing.recs = {} /\ Bad.recs = {} /\ \A d, e : File(d) = File(e) => d = e
    /\ \A c \in Content : c.recs \in Doc
    /\ \A c \in Content : Readable(c) <=> c \notin {Missing, Bad}
    /\ \A c : HasRecords(c) <=> c.recs # {}
    /\ {} \in Doc /\ "primary" \in Dest /\ "mirror" \in Dest
BY DEF Content, Missing, Bad, File, HasRecords, Readable, Doc, Dest

LEMMA IdleTyped ==
    /\ Idle \in ThreadRec /\ Idle.pc = "idle" /\ Idle.ret = "load" /\ Idle.dest = "primary"
    /\ Idle.moved = FALSE
BY DEF Idle, ThreadRec, Pc, Dest, Mode, Doc

\* What a load finds, by what is there.
Finds ==
    LET p == main["primary"]
        m == main["mirror"]
        b == bak["primary"]
    IN /\ HasRecords(p) => Found = p.recs
       /\ ~HasRecords(p) /\ HasRecords(m) => Found = m.recs
       /\ ~HasRecords(p) /\ ~HasRecords(m) /\ ~Readable(p) /\ HasRecords(b) => Found = b.recs
       /\ ~HasRecords(p) /\ ~HasRecords(m) /\ (Readable(p) \/ ~HasRecords(b)) => Found = {}

LEMMA FoundIs == Finds /\ Finds'
<1>1. \A x : (CHOOSE d \in {x} : TRUE) = x
  OBVIOUS
<1>2. Finds
  BY <1>1 DEF Finds, Found, Chosen
<1>3. Finds'
  BY <1>1 DEF Finds, Found, Chosen
<1> QED
  BY <1>2, <1>3

\* Where a thread goes on.
Others(t)  == \A u \in Thread \ {t} : thread'[u] = thread[u]
Like(r, s) == r.ret = s.ret /\ r.dest = s.dest /\ r.val = s.val /\ r.mode = s.mode /\ r.moved = s.moved

LEMMA GoTyped ==
    ASSUME TypeOK, NEW t \in Thread, NEW s \in ThreadRec, Go(t, s)
    PROVE  thread' \in [Thread -> ThreadRec] /\ thread'[t] = s /\ Others(t)
BY TypeIs DEF Typing, Go, Others

LEMMA ToTyped ==
    ASSUME TypeOK, NEW t \in Thread, NEW pc \in Pc, To(t, pc)
    PROVE  /\ thread' \in [Thread -> ThreadRec] /\ Others(t)
           /\ thread'[t].pc = pc /\ Like(thread'[t], thread[t])
<1> DEFINE s == [thread[t] EXCEPT !.pc = pc]
<1>1. thread[t] \in ThreadRec
  BY TypeIs DEF Typing
<1>2. s \in ThreadRec /\ s.pc = pc /\ Like(s, thread[t])
  BY <1>1 DEF ThreadRec, Like
<1>3. Go(t, s)
  BY DEF To
<1> HIDE DEF s
<1> QED
  BY <1>2, <1>3, GoTyped

LEMMA ErrorTyped ==
    ASSUME TypeOK, NEW t \in Thread, AfterError(t)
    PROVE  /\ thread' \in [Thread -> ThreadRec] /\ Others(t)
           /\ \/ thread[t].ret = "load" /\ thread'[t].pc = "read" /\ Like(thread'[t], thread[t])
              \/ thread[t].ret = "save" /\ thread'[t] = Idle
<1>1. "read" \in Pc /\ thread[t].ret \in {"load", "save"}
  BY TypeIs DEF Typing, ThreadRec, Pc
<1> QED
  BY <1>1, ToTyped, GoTyped, IdleTyped DEF AfterError

\* A thread that does not write.
Quiet == UNCHANGED <<files, acked, tried, crashes, fails, live>>

LEMMA QuietTyped ==
    ASSUME TypeOK, Quiet, thread' \in [Thread -> ThreadRec]
    PROVE  TypeOK' /\ Found' = Found
BY TypeIs DEF Typing, Quiet, files, Found, Chosen

LEMMA LoadDoes ==
    ASSUME TypeOK, NEW t \in Thread, Load(t)
    PROVE  /\ thread' \in [Thread -> ThreadRec] /\ Others(t) /\ Quiet
           /\ thread'[t].pc = "restore" /\ Like(thread'[t], Idle)
<1> DEFINE s == [Idle EXCEPT !.pc = "restore"]
<1>1. s \in ThreadRec /\ s.pc = "restore" /\ Like(s, Idle)
  BY IdleTyped DEF ThreadRec, Like, Pc
<1>2. Go(t, s) /\ Quiet
  BY DEF Load, Quiet
<1> HIDE DEF s
<1> QED
  BY <1>1, <1>2, GoTyped

LEMMA RestoreDoes ==
    ASSUME TypeOK, NEW t \in Thread, Restore(t)
    PROVE  /\ thread' \in [Thread -> ThreadRec] /\ Others(t) /\ Quiet
           /\ Like(thread'[t], thread[t])
           /\ \/ HasRecords(main["primary"]) /\ thread'[t].pc = "read"
              \/ /\ ~HasRecords(main["primary"]) /\ thread'[t].pc = "choose"
                 /\ thread'[t].readable = Readable(main["primary"])
<1> DEFINE p == main["primary"]
           pc == IF HasRecords(p) THEN "read" ELSE "choose"
           r == Readable(p) /\ ~HasRecords(p)
           s == [thread[t] EXCEPT !.pc = pc, !.readable = r]
<1>1. pc \in Pc /\ r \in BOOLEAN
  BY DEF Pc
<1>2. \/ HasRecords(p) /\ pc = "read"
      \/ ~HasRecords(p) /\ pc = "choose" /\ r = Readable(p)
  BY DEF Readable
<1>3. thread[t] \in ThreadRec
  BY TypeIs DEF Typing
<1>4. Go(t, s) /\ Quiet
  BY DEF Restore, Quiet
<1> HIDE DEF p, pc, r
<1>5. s \in ThreadRec /\ Like(s, thread[t]) /\ s.pc = pc /\ s.readable = r
  BY <1>1, <1>3 DEF ThreadRec, Like
<1> HIDE DEF s
<1>6. thread' \in [Thread -> ThreadRec] /\ thread'[t] = s /\ Others(t)
  BY <1>4, <1>5, GoTyped
<1> QED
  BY <1>2, <1>4, <1>5, <1>6 DEF p

LEMMA ChooseDoes ==
    ASSUME TypeOK, NEW t \in Thread, Choose(t)
    PROVE  /\ thread' \in [Thread -> ThreadRec] /\ Others(t) /\ Quiet
           /\ thread'[t].moved = thread[t].moved
           /\ \/ /\ Chosen(thread[t].readable) = {} /\ thread'[t].pc = "read"
                 /\ Like(thread'[t], thread[t])
              \/ /\ thread'[t].pc = "create" /\ thread'[t].ret = "load"
                 /\ thread'[t].dest = "primary" /\ thread'[t].val \in Chosen(thread[t].readable)
<1>1. thread[t] \in ThreadRec /\ Quiet /\ Pc = Pc \cup {"read", "create"}
  BY TypeIs DEF Typing, Choose, Quiet, Pc, Working
<1>2. CASE /\ Chosen(thread[t].readable) = {}
           /\ Go(t, [thread[t] EXCEPT !.pc = "read", !.readable = FALSE])
  <2> DEFINE s == [thread[t] EXCEPT !.pc = "read", !.readable = FALSE]
  <2>1. s \in ThreadRec /\ s.pc = "read" /\ Like(s, thread[t]) /\ s.moved = thread[t].moved
    BY <1>1 DEF ThreadRec, Like
  <2> HIDE DEF s
  <2> QED
    BY <1>1, <1>2, <2>1, GoTyped DEF s
<1>3. ASSUME NEW d \in Chosen(thread[t].readable),
             Go(t, [thread[t] EXCEPT !.pc = "create", !.ret = "load",
                                     !.dest = "primary", !.val = d, !.readable = FALSE])
      PROVE  /\ thread' \in [Thread -> ThreadRec] /\ Others(t)
             /\ thread'[t].moved = thread[t].moved
             /\ thread'[t].pc = "create" /\ thread'[t].ret = "load"
             /\ thread'[t].dest = "primary" /\ thread'[t].val = d
  <2> DEFINE s == [thread[t] EXCEPT !.pc = "create", !.ret = "load",
                                    !.dest = "primary", !.val = d, !.readable = FALSE]
  <2>1. d \in Doc
    BY <1>3, ContentTyped, TypeIs DEF Chosen, Typing
  <2>2. s \in ThreadRec /\ s.pc = "create" /\ s.ret = "load" /\ s.dest = "primary" /\ s.val = d
        /\ s.moved = thread[t].moved
    BY <1>1, <2>1, ContentTyped DEF ThreadRec
  <2> HIDE DEF s
  <2>3. Go(t, s)
    BY <1>3 DEF s
  <2> QED
    BY <2>2, <2>3, GoTyped
<1> QED
  BY <1>1, <1>2, <1>3 DEF Choose

LEMMA ReadDoes ==
    ASSUME TypeOK, NEW t \in Thread, Read(t)
    PROVE  /\ thread' \in [Thread -> ThreadRec] /\ Others(t) /\ Quiet
           /\ thread'[t].pc = "loaded" /\ thread'[t].doc = main["primary"].recs
           /\ Like(thread'[t], Idle)
<1> DEFINE s == [Idle EXCEPT !.pc = "loaded", !.doc = main["primary"].recs]
<1>1. main["primary"].recs \in Doc
  BY TypeIs, ContentTyped DEF Typing
<1>2. s \in ThreadRec /\ s.pc = "loaded" /\ s.doc = main["primary"].recs /\ Like(s, Idle)
  BY <1>1, IdleTyped DEF ThreadRec, Like, Pc
<1>3. Go(t, s) /\ Quiet
  BY DEF Read, Quiet
<1> HIDE DEF s
<1> QED
  BY <1>2, <1>3, GoTyped

LEMMA ShownDoes ==
    ASSUME TypeOK, NEW t \in Thread, Shown(t)
    PROVE  /\ thread' \in [Thread -> ThreadRec] /\ Others(t) /\ Quiet /\ thread'[t] = Idle
BY GoTyped, IdleTyped DEF Shown, Quiet

LEMMA SaveDoes ==
    ASSUME TypeOK, NEW t \in Thread, Save(t)
    PROVE  /\ thread' \in [Thread -> ThreadRec] /\ Others(t) /\ Quiet
           /\ thread'[t].pc = "guard" /\ thread'[t].moved = FALSE
<1>1. PICK e \in Edits(thread[t].doc) :
         Go(t, [Idle EXCEPT !.pc = "guard", !.val = e.val, !.mode = e.mode]) /\ Quiet
  BY DEF Save, Quiet
<1> DEFINE s == [Idle EXCEPT !.pc = "guard", !.val = e.val, !.mode = e.mode]
<1>2. thread[t].doc \in Doc
  BY TypeIs DEF Typing, ThreadRec
<1>3. e.val \in Doc /\ e.mode \in Mode
  BY <1>2 DEF Edits, Doc, Mode
<1>4. s \in ThreadRec /\ s.pc = "guard" /\ s.moved = FALSE
  BY <1>3, IdleTyped DEF ThreadRec, Pc
<1>5. Go(t, s)
  BY <1>1
<1> HIDE DEF s
<1> QED
  BY <1>1, <1>4, <1>5, GoTyped

LEMMA GuardDoes ==
    ASSUME TypeOK, NEW t \in Thread, Guard(t)
    PROVE  /\ thread' \in [Thread -> ThreadRec] /\ Others(t)
           /\ UNCHANGED <<files, acked, crashes, fails, live>>
           /\ \/ Refused(thread[t]) /\ thread'[t] = Idle /\ UNCHANGED tried
              \/ /\ ~Refused(thread[t]) /\ tried' = tried \cup {thread[t].val}
                 /\ thread'[t].pc = "create" /\ thread'[t].ret = "save" /\ thread'[t].dest = "primary"
                 /\ thread'[t].val = thread[t].val /\ thread'[t].mode = thread[t].mode
                 /\ thread'[t].moved = thread[t].moved
<1> DEFINE s == [thread[t] EXCEPT !.pc = "create", !.ret = "save", !.dest = "primary"]
<1>1. UNCHANGED <<files, acked, crashes, fails, live>> /\ thread[t] \in ThreadRec
  BY TypeIs DEF Guard, Typing
<1>2. s \in ThreadRec /\ s.pc = "create" /\ s.ret = "save" /\ s.dest = "primary"
      /\ s.val = thread[t].val /\ s.mode = thread[t].mode /\ s.moved = thread[t].moved
  BY <1>1 DEF ThreadRec, Pc, Working, Dest
<1>3. \/ Refused(thread[t]) /\ Go(t, Idle) /\ UNCHANGED tried
      \/ ~Refused(thread[t]) /\ Go(t, s) /\ tried' = tried \cup {thread[t].val}
  BY DEF Guard
<1> HIDE DEF s
<1> QED
  BY <1>1, <1>2, <1>3, GoTyped, IdleTyped

LEMMA CreateDoes ==
    ASSUME TypeOK, NEW t \in Thread, Create(t)
    PROVE  /\ thread' \in [Thread -> ThreadRec] /\ Others(t)
           /\ UNCHANGED <<main, bak, acked, tried, crashes, fails, live>>
           /\ thread[t].pc = "create" /\ tmp' = [tmp EXCEPT ![thread[t].dest] = Bad]
           /\ thread'[t].pc = "write" /\ ~thread'[t].moved
           /\ thread'[t].ret = thread[t].ret /\ thread'[t].dest = thread[t].dest
           /\ thread'[t].val = thread[t].val /\ thread'[t].mode = thread[t].mode
<1> DEFINE s == [thread[t] EXCEPT !.pc = "write", !.moved = FALSE]
<1>1. thread[t] \in ThreadRec
  BY TypeIs DEF Typing
<1>2. s \in ThreadRec /\ s.pc = "write" /\ ~s.moved /\ s.ret = thread[t].ret
      /\ s.dest = thread[t].dest /\ s.val = thread[t].val /\ s.mode = thread[t].mode
  BY <1>1 DEF ThreadRec, Pc, Working
<1>3. Go(t, s)
  BY DEF Create
<1> HIDE DEF s
<1>4. thread' \in [Thread -> ThreadRec] /\ thread'[t] = s /\ Others(t)
  BY <1>2, <1>3, GoTyped
<1> QED
  BY <1>2, <1>4 DEF Create

\* At most a handle of another thread on the renamed file has changed.
Beside(r, s) == /\ r.pc = s.pc /\ r.ret = s.ret /\ r.dest = s.dest /\ r.val = s.val
                /\ s.pc # "write" => r = s

\* A thread goes on with the rename done; the handles of others go with the file.
LEMMA RenamedDoes ==
    ASSUME TypeOK, NEW t \in Thread, NEW s \in ThreadRec, Renamed(t, s)
    PROVE  /\ thread' \in [Thread -> ThreadRec] /\ thread'[t] = s
           /\ \A u \in Thread \ {t} : Beside(thread'[u], thread[u])
           /\ UNCHANGED <<bak, crashes, fails, live>>
           /\ main' = [main EXCEPT ![thread[t].dest] = tmp[thread[t].dest]]
           /\ tmp' = [tmp EXCEPT ![thread[t].dest] = Missing]
<1> DEFINE d == thread[t].dest
           after(u) == [thread[u] EXCEPT !.moved = thread[u].moved
                                                   \/ (thread[u].dest = d /\ thread[u].pc = "write")]
<1>1. /\ thread' = [u \in Thread |-> IF u = t THEN s ELSE after(u)]
      /\ UNCHANGED <<bak, crashes, fails, live>>
      /\ main' = [main EXCEPT ![d] = tmp[d]] /\ tmp' = [tmp EXCEPT ![d] = Missing]
  BY DEF Renamed
<1>2. ASSUME NEW u \in Thread
      PROVE  after(u) \in ThreadRec /\ Beside(after(u), thread[u])
  <2>1. thread[u] \in ThreadRec
    BY TypeIs DEF Typing
  <2> DEFINE b == thread[u].moved \/ (thread[u].dest = d /\ thread[u].pc = "write")
  <2>2. b \in BOOLEAN /\ (thread[u].pc # "write" => b = thread[u].moved)
    BY <2>1 DEF ThreadRec
  <2>3. after(u) = [thread[u] EXCEPT !.moved = b]
    OBVIOUS
  <2> HIDE DEF b
  <2> QED
    BY <2>1, <2>2, <2>3 DEF ThreadRec, Beside
<1> HIDE DEF after
<1> QED
  BY <1>1, <1>2

\* What is written through a handle another thread shares may be cut off.
LEMMA WriteDoes ==
    ASSUME TypeOK, NEW t \in Thread, Write(t)
    PROVE  /\ thread' \in [Thread -> ThreadRec] /\ Others(t)
           /\ thread[t].pc = "write" /\ thread'[t].pc = "backup" /\ Like(thread'[t], thread[t])
           /\ UNCHANGED <<bak, acked, tried, crashes, fails, live>>
           /\ \E v \in {File(thread[t].val), Bad} :
                 /\ ~Shared(t) => v = File(thread[t].val)
                 /\ \/ /\ thread[t].moved /\ UNCHANGED tmp
                       /\ main' = [main EXCEPT ![thread[t].dest] = v]
                    \/ /\ ~thread[t].moved /\ UNCHANGED main
                       /\ tmp' = [tmp EXCEPT ![thread[t].dest] = v]
<1> DEFINE d == thread[t].dest
           c == IF Shared(t) THEN {File(thread[t].val), Bad} ELSE {File(thread[t].val)}
<1>1. /\ thread[t].pc = "write" /\ To(t, "backup")
      /\ UNCHANGED <<bak, acked, tried, crashes, fails, live>>
      /\ IF thread[t].moved
         THEN main' \in {[main EXCEPT ![d] = v] : v \in c} /\ UNCHANGED tmp
         ELSE tmp' \in {[tmp EXCEPT ![d] = v] : v \in c} /\ UNCHANGED main
  BY DEF Write
<1>2. c \subseteq {File(thread[t].val), Bad} /\ (~Shared(t) => c = {File(thread[t].val)})
  OBVIOUS
<1>3. "backup" \in Pc
  BY DEF Pc, Working
<1> HIDE DEF c
<1>4. PICK v \in c :
         \/ thread[t].moved /\ main' = [main EXCEPT ![d] = v] /\ UNCHANGED tmp
         \/ ~thread[t].moved /\ tmp' = [tmp EXCEPT ![d] = v] /\ UNCHANGED main
  BY <1>1
<1>5. v \in {File(thread[t].val), Bad} /\ (~Shared(t) => v = File(thread[t].val))
  BY <1>2, <1>4
<1>6. /\ thread' \in [Thread -> ThreadRec] /\ Others(t)
      /\ thread'[t].pc = "backup" /\ Like(thread'[t], thread[t])
  BY <1>1, <1>3, ToTyped
<1> QED
  BY <1>1, <1>4, <1>5, <1>6

LEMMA BackupDoes ==
    ASSUME TypeOK, NEW t \in Thread, Backup(t)
    PROVE  /\ thread' \in [Thread -> ThreadRec] /\ Others(t)
           /\ thread[t].pc = "backup" /\ thread'[t].pc = "remove" /\ Like(thread'[t], thread[t])
           /\ UNCHANGED <<main, tmp, acked, tried, crashes, fails, live>>
           /\ \/ main[thread[t].dest] = Missing /\ UNCHANGED bak
              \/ /\ main[thread[t].dest] # Missing
                 /\ bak' = [bak EXCEPT ![thread[t].dest] = main[thread[t].dest]]
<1>1. "remove" \in Pc
  BY DEF Pc, Working
<1> QED
  BY <1>1, ToTyped DEF Backup

LEMMA RemoveDoes ==
    ASSUME TypeOK, NEW t \in Thread, Remove(t)
    PROVE  /\ thread' \in [Thread -> ThreadRec] /\ Others(t)
           /\ thread[t].pc = "remove" /\ thread'[t].pc = "rename" /\ Like(thread'[t], thread[t])
           /\ UNCHANGED <<bak, tmp, acked, tried, crashes, fails, live>>
           /\ main' = [main EXCEPT ![thread[t].dest] = Missing]
<1>1. "rename" \in Pc
  BY DEF Pc, Working
<1> QED
  BY <1>1, ToTyped DEF Remove

\* A .bak that is cut off is Bad, and its destination is there.
LEMMA BakCutIs ==
    ASSUME TypeOK, NEW T \in SUBSET Thread, bak' \in {bak} \cup BakCut(T)
    PROVE  /\ bak' \in [Dest -> Content]
           /\ \A d \in Dest : bak'[d] = bak[d] \/ (main[d] # Missing /\ bak'[d] = Bad)
<1> USE TypeIs DEF Typing
<1>1. CASE bak' = bak
  BY <1>1
<1>2. CASE bak' \in BakCut(T)
  <2>1. PICK u \in T : bak' = [bak EXCEPT ![thread[u].dest] = Bad] /\ main[thread[u].dest] # Missing
    BY <1>2 DEF BakCut
  <2>2. thread[u].dest \in Dest
    BY DEF ThreadRec
  <2> QED
    BY <2>1, <2>2, ContentTyped
<1> QED
  BY <1>1, <1>2

LEMMA FailDoes ==
    ASSUME TypeOK, NEW t \in Thread, CallFails(t)
    PROVE  /\ AfterError(t) /\ thread[t].pc \in Working /\ fails' = fails + 1
           /\ fails' \in 0..MaxFail /\ fails' # 0
           /\ UNCHANGED <<main, tmp, acked, tried, crashes, live>>
           /\ bak' \in [Dest -> Content]
           /\ \A d \in Dest : bak'[d] = bak[d] \/ (main[d] # Missing /\ bak'[d] = Bad)
<1>1. fails \in 0..MaxFail /\ fails < MaxFail /\ fails' = fails + 1
  BY TypeIs DEF Typing, CallFails
<1>2. fails' \in 0..MaxFail /\ fails' # 0
  BY <1>1, BoundAssumption
<1>3. bak' \in {bak} \cup BakCut({t})
  BY DEF CallFails
<1> QED
  BY <1>1, <1>2, <1>3, BakCutIs DEF CallFails, Working

LEMMA CrashDoes ==
    ASSUME TypeOK, Crash
    PROVE  /\ thread' = [t \in Thread |-> Idle] /\ crashes' \in 0..MaxCrash
           /\ UNCHANGED <<main, acked, tried, fails, live>>
           /\ tmp' = [d \in Dest |-> Missing]
           /\ bak' \in [Dest -> Content]
           /\ \A d \in Dest : bak'[d] = bak[d] \/ (main[d] # Missing /\ bak'[d] = Bad)
<1>1. crashes' \in 0..MaxCrash
  BY BoundAssumption, TypeIs DEF Typing, Crash
<1>2. bak' \in {bak} \cup BakCut(Thread)
  BY DEF Crash
<1> QED
  BY <1>1, <1>2, BakCutIs DEF Crash

---------------------------------------------------------------------------
(* Any threads. *)

LEMMA StepTyped ==
    ASSUME TypeOK, NEW t \in Thread, Step(t)
    PROVE  TypeOK'
<1> USE TypeIs DEF Typing
<1>1. thread[t] \in ThreadRec /\ thread[t].dest \in Dest /\ thread[t].val \in Doc
  BY DEF ThreadRec
<1>2. tmp[thread[t].dest] \in Content /\ main[thread[t].dest] \in Content
      /\ Missing \in Content /\ Bad \in Content /\ File(thread[t].val) \in Content
  BY <1>1, ContentTyped
<1>3. CASE Load(t) \/ Restore(t) \/ Choose(t) \/ Read(t) \/ Shown(t) \/ Save(t)
  BY <1>3, LoadDoes, RestoreDoes, ChooseDoes, ReadDoes, ShownDoes, SaveDoes, QuietTyped
<1>4. CASE Guard(t)
  <2>1. tried' \in SUBSET Doc
    BY <1>1, <1>4, GuardDoes
  <2> QED
    BY <1>4, <2>1, GuardDoes DEF files
<1>5. CASE Create(t) \/ Backup(t) \/ Remove(t)
  BY <1>2, <1>5, CreateDoes, BackupDoes, RemoveDoes
<1>6. CASE Write(t)
  BY <1>2, <1>6, WriteDoes
<1>7. ASSUME NEW s \in ThreadRec, Renamed(t, s), acked' \in Doc, tried' \in SUBSET Doc
      PROVE  TypeOK'
  <2>1. main' \in [Dest -> Content] /\ tmp' \in [Dest -> Content]
    BY <1>2, <1>7, RenamedDoes
  <2> QED
    BY <1>7, <2>1, RenamedDoes
<1>8. CASE RenameRestored(t)
  <2>1. [thread[t] EXCEPT !.pc = "read"] \in ThreadRec
    BY <1>1 DEF ThreadRec, Pc
  <2> QED
    BY <1>7, <1>8, <2>1 DEF RenameRestored
<1>9. CASE RenamePrimary(t)
  <2>1. [thread[t] EXCEPT !.pc = "create", !.dest = "mirror"] \in ThreadRec
    BY <1>1 DEF ThreadRec, Pc, Working, Dest
  <2> QED
    BY <1>7, <1>9, <2>1 DEF RenamePrimary
<1>10. CASE RenameMirror(t)
  BY <1>1, <1>7, <1>10, IdleTyped DEF RenameMirror
<1>11. CASE RenameFails(t) \/ Vanished(t)
  BY <1>11, ErrorTyped DEF RenameFails, Vanished, files
<1>12. CASE CallFails(t)
  BY <1>12, FailDoes, ErrorTyped
<1> QED
  BY <1>3, <1>4, <1>5, <1>6, <1>8, <1>9, <1>10, <1>11, <1>12 DEF Step

LEMMA NextTyped == TypeOK /\ [Next]_vars => TypeOK'
<1> SUFFICES ASSUME TypeOK, [Next]_vars PROVE TypeOK'
  OBVIOUS
<1> USE TypeIs DEF Typing
<1>1. CASE Crash
  BY <1>1, CrashDoes, IdleTyped, ContentTyped
<1>2. CASE \E t \in live : Step(t)
  BY <1>2, StepTyped
<1>3. CASE UNCHANGED vars
  BY <1>3 DEF vars, files
<1> QED
  BY <1>1, <1>2, <1>3 DEF Next

LEMMA InitTyped == Init => TypeOK
<1> SUFFICES ASSUME Init PROVE TypeOK
  OBVIOUS
<1>1. /\ main = [d \in Dest |-> Missing] /\ bak = [d \in Dest |-> Missing]
      /\ tmp = [d \in Dest |-> Missing] /\ live \subseteq Thread /\ thread = [t \in Thread |-> Idle]
      /\ acked = {} /\ tried = {} /\ crashes = 0 /\ fails = 0
  BY DEF Init
<1>2. acked \in Doc /\ tried \subseteq Doc /\ thread \in [Thread -> ThreadRec]
  BY <1>1, IdleTyped, ContentTyped
<1>3. crashes \in 0..MaxCrash /\ fails \in 0..MaxFail
  BY <1>1, BoundAssumption
<1> QED
  BY <1>1, <1>2, <1>3, ContentTyped, TypeIs DEF Typing

\* Every variable keeps its type, whatever threads there are.
THEOREM TypeCorrect == Spec => []TypeOK
BY InitTyped, NextTyped, PTL DEF Spec

---------------------------------------------------------------------------
(* Threads that load together after a crash. *)

LEMMA LoadersInit ==
    ASSUME MaxCrash # 0, InitRestarted, live \cap Saver = {}
    PROVE  Loaders
<1>1. /\ acked \in Doc /\ acked # {} /\ tried = {} /\ thread = [t \in Thread |-> Idle]
      /\ main = [d \in Dest |-> IF d = "mirror" THEN File(acked) ELSE Missing]
      /\ bak \in [Dest -> Content] /\ tmp = [d \in Dest |-> Missing]
      /\ live \subseteq Thread /\ crashes = 1 /\ fails = 0
  BY DEF InitRestarted
<1>2. crashes \in 0..MaxCrash /\ fails \in 0..MaxFail
  BY <1>1, BoundAssumption
<1>3. thread \in [Thread -> ThreadRec] /\ tried \in SUBSET Doc
  BY <1>1, IdleTyped
<1>4. File(acked) \in Content
  BY <1>1, ContentTyped
<1>5. main \in [Dest -> Content] /\ tmp \in [Dest -> Content]
  BY <1>1, <1>4, ContentTyped
<1>6. TypeOK
  BY <1>1, <1>2, <1>3, <1>5, TypeIs DEF Typing
<1>7. main["mirror"] = File(acked) /\ main["primary"] = Missing /\ tmp["primary"] = Missing
  BY <1>1, ContentTyped DEF Dest
<1>8. \A t \in Thread : thread[t] = Idle /\ Loading(Idle)
  BY <1>1, IdleTyped DEF Loading, Working
<1> QED
  BY <1>1, <1>6, <1>7, <1>8, ContentTyped DEF Loaders

\* Every load finds the mirror's document, or has put it into the primary.
LEMMA LoadersFind == Loaders => Found = acked
BY FoundIs, ContentTyped DEF Finds, Loaders

\* A step of t leaves the mirror, and t goes on as a loader.
LoadStep(t) ==
    /\ TypeOK' /\ UNCHANGED <<live, acked, tried>> /\ main'["mirror"] = main["mirror"]
    /\ main'["primary"].recs \in {{}, acked} /\ tmp'["primary"].recs \in {{}, acked}
    /\ Loading(thread'[t])
    /\ \A u \in Thread \ {t} : Beside(thread'[u], thread[u])

LEMMA LoadStepKeeps ==
    ASSUME Loaders, NEW t \in live, LoadStep(t)
    PROVE  Loaders'
<1>1. /\ acked' = acked /\ live' = live
      /\ \A u \in Thread \ {t} : Beside(thread'[u], thread[u])
  BY DEF LoadStep
<1>2. ASSUME NEW u \in Thread, u # t
      PROVE  Loading(thread[u])' /\ (u \notin live => thread'[u] = Idle)
  <2>1. Loading(thread[u]) /\ (u \notin live => thread[u] = Idle)
    BY DEF Loaders
  <2>2. u \notin live => thread[u].pc # "write"
    BY <2>1, IdleTyped
  <2>3. Beside(thread'[u], thread[u])
    BY <1>1, <1>2
  <2>4. Loading(thread[u])'
    BY <1>1, <2>1, <2>3 DEF Loading, Beside
  <2> QED
    BY <2>1, <2>2, <2>3, <2>4 DEF Beside
<1>3. Loading(thread[t])'
  BY <1>1 DEF Loading, LoadStep
<1> QED
  BY <1>1, <1>2, <1>3 DEF Loaders, LoadStep

LEMMA LoaderSteps ==
    ASSUME Loaders, NEW t \in live, Step(t)
    PROVE  LoadStep(t)
<1> USE TypeIs DEF Typing
<1>1. /\ TypeOK /\ t \in Thread /\ t \notin Saver /\ Loading(thread[t]) /\ acked # {}
      /\ thread[t].dest = "primary" /\ thread[t].ret = "load" /\ thread[t].pc # "guard"
      /\ main["mirror"] = File(acked) /\ main["primary"].recs \in {{}, acked}
      /\ tmp["primary"].recs \in {{}, acked}
  BY DEF Loaders, Loading
<1>2. TypeOK'
  BY <1>1, StepTyped
<1>3. thread[t].pc \in Working => thread[t].val = acked
  BY <1>1 DEF Loading
<1>4. Missing.recs = {} /\ Bad.recs = {} /\ File(acked).recs = acked
  BY ContentTyped
<1>5. ASSUME Quiet, Others(t), Loading(thread'[t])
      PROVE  LoadStep(t)
  BY <1>1, <1>2, <1>5 DEF Quiet, files, Others, Beside, LoadStep
<1>6. CASE Load(t) \/ Read(t) \/ Shown(t)
  <2>1. thread'[t].pc \in {"restore", "loaded", "idle"} /\ thread'[t].dest = "primary"
        /\ thread'[t].ret = "load"
    BY <1>1, <1>6, LoadDoes, ReadDoes, ShownDoes, IdleTyped DEF Like
  <2> QED
    BY <1>1, <1>5, <1>6, <2>1, LoadDoes, ReadDoes, ShownDoes DEF Loading, Working
<1>7. CASE Restore(t)
  BY <1>1, <1>5, <1>7, RestoreDoes DEF Like, Loading, Working
<1>8. CASE Choose(t)
  <2>1. Chosen(thread[t].readable) = {acked}
    BY <1>1, <1>4 DEF Chosen, HasRecords
  <2> QED
    BY <1>1, <1>5, <1>8, <2>1, ChooseDoes DEF Like, Loading, Working
<1>9. CASE Save(t) \/ Guard(t) \/ RenamePrimary(t) \/ RenameMirror(t)
  BY <1>1, <1>9 DEF Save, Guard, RenamePrimary, RenameMirror
<1>10. CASE Create(t)
  <2>1. tmp'["primary"] = Bad
    BY <1>1, <1>10, CreateDoes, ContentTyped
  <2> QED
    BY <1>1, <1>2, <1>3, <1>4, <1>10, <2>1, CreateDoes DEF Others, Beside, Loading, LoadStep, Working
<1>11. CASE Write(t)
  <2>1. PICK v \in {File(acked), Bad} :
           \/ UNCHANGED tmp /\ main' = [main EXCEPT !["primary"] = v]
           \/ UNCHANGED main /\ tmp' = [tmp EXCEPT !["primary"] = v]
    <3>1. thread[t].pc = "write" /\ thread[t].val = acked
      BY <1>1, <1>3, <1>11, WriteDoes DEF Working
    <3> QED
      BY <1>1, <1>11, <3>1, WriteDoes
  <2>2. v.recs \in {{}, acked}
    BY <1>4
  <2>3. /\ main'["primary"].recs \in {{}, acked} /\ tmp'["primary"].recs \in {{}, acked}
        /\ main'["mirror"] = main["mirror"]
    BY <1>1, <2>1, <2>2, ContentTyped
  <2> QED
    BY <1>1, <1>2, <1>3, <1>11, <2>3, WriteDoes DEF Others, Beside, Like, Loading, LoadStep, Working
<1>12. CASE Backup(t)
  BY <1>1, <1>2, <1>3, <1>12, BackupDoes DEF Others, Beside, Like, Loading, LoadStep, Working
<1>13. CASE Remove(t)
  <2>1. main'["primary"] = Missing /\ main'["mirror"] = main["mirror"]
    BY <1>1, <1>13, RemoveDoes, ContentTyped
  <2> QED
    BY <1>1, <1>2, <1>3, <1>4, <1>13, <2>1, RemoveDoes DEF Others, Beside, Like, Loading, LoadStep, Working
<1>14. CASE RenameRestored(t)
  <2> DEFINE s == [thread[t] EXCEPT !.pc = "read"]
  <2>1. s \in ThreadRec /\ s.pc = "read" /\ s.dest = "primary" /\ s.ret = "load"
    BY <1>1 DEF ThreadRec, Pc
  <2>2. Renamed(t, s) /\ UNCHANGED <<acked, tried>>
    BY <1>14 DEF RenameRestored
  <2> HIDE DEF s
  <2>3. /\ main'["primary"] = tmp["primary"] /\ main'["mirror"] = main["mirror"]
        /\ tmp'["primary"] = Missing
    BY <1>1, <2>1, <2>2, RenamedDoes, ContentTyped
  <2>4. thread'[t] = s /\ UNCHANGED live
    BY <1>1, <2>1, <2>2, RenamedDoes
  <2>5. \A u \in Thread \ {t} : Beside(thread'[u], thread[u])
    BY <1>1, <2>1, <2>2, RenamedDoes
  <2> QED
    BY <1>1, <1>2, <1>4, <2>1, <2>2, <2>3, <2>4, <2>5 DEF Loading, LoadStep, Working
<1>15. ASSUME AfterError(t), UNCHANGED <<main, tmp, acked, tried, live>>
       PROVE  LoadStep(t)
  <2>1. thread'[t].pc = "read" /\ Like(thread'[t], thread[t]) /\ Others(t)
    BY <1>1, <1>15, ErrorTyped
  <2> QED
    BY <1>1, <1>2, <1>15, <2>1 DEF Others, Beside, Like, Loading, LoadStep, Working
<1>16. CASE RenameFails(t) \/ Vanished(t) \/ CallFails(t)
  BY <1>15, <1>16 DEF RenameFails, Vanished, CallFails, files
<1> QED
  BY <1>6, <1>7, <1>8, <1>9, <1>10, <1>11, <1>12, <1>13, <1>14, <1>16 DEF Step

LEMMA NextLoads == Loaders /\ [Next]_vars => Loaders' /\ UNCHANGED <<acked, tried>>
<1> SUFFICES ASSUME Loaders, [Next]_vars PROVE Loaders' /\ UNCHANGED <<acked, tried>>
  OBVIOUS
<1>1. CASE Crash
  <2>1. TypeOK' /\ TypeOK
    BY <1>1, NextTyped DEF Loaders, Next
  <2>2. /\ UNCHANGED <<main, acked, tried, live>> /\ thread' = [t \in Thread |-> Idle]
        /\ tmp'["primary"] = Missing
    BY <1>1, <2>1, CrashDoes, ContentTyped
  <2>3. \A t \in Thread : thread'[t] = Idle /\ Loading(thread[t])'
    BY <2>2, IdleTyped DEF Loading, Working
  <2> QED
    BY <2>1, <2>2, <2>3, ContentTyped DEF Loaders
<1>2. CASE \E t \in live : Step(t)
  BY <1>2, LoaderSteps, LoadStepKeeps DEF LoadStep
<1>3. CASE UNCHANGED vars
  <2>1. TypeOK'
    BY <1>3, NextTyped DEF Loaders
  <2> QED
    BY <1>3, <2>1 DEF vars, files, Loaders, Loading
<1> QED
  BY <1>1, <1>2, <1>3 DEF Next

\* Any number of threads that load at the same time after a crash, and restore
\* the primary through the same temporary file (durable.rs:187), through more
\* crashes and failing calls: what is found stays the acknowledged document.
\* (MaxCrash # 0: the crash they start from counts.)
THEOREM RestoredTogether ==
    ASSUME MaxCrash # 0
    PROVE  InitRestarted /\ live \cap Saver = {} /\ [][Next]_vars => []AckedSurvives
<1>1. InitRestarted /\ live \cap Saver = {} => Loaders
  BY LoadersInit
<1>2. Loaders => AckedSurvives
  BY LoadersFind DEF AckedSurvives
<1>3. Loaders /\ [Next]_vars => Loaders'
  BY NextLoads
<1> QED
  BY <1>1, <1>2, <1>3, PTL

\* Those threads take no step that the register sees.
THEOREM RestoredImplements ==
    ASSUME MaxCrash # 0
    PROVE  InitRestarted /\ live \cap Saver = {} /\ [][Next]_vars => ImplementsRegister
<1>1. InitRestarted /\ live \cap Saver = {} => Loaders /\ Register!Init
  <2> SUFFICES ASSUME InitRestarted, live \cap Saver = {} PROVE Loaders /\ Register!Init
    OBVIOUS
  <2>1. Loaders /\ Found = acked /\ acked \in Doc
    BY LoadersInit, LoadersFind DEF InitRestarted
  <2> QED
    BY <2>1 DEF Register!Init, Loaders
<1>2. Loaders /\ [Next]_vars => Loaders'
  BY NextLoads
<1>3. Loaders => Found = acked
  BY LoadersFind
<1>4. Loaders /\ [Next]_vars /\ Found = acked /\ (Found = acked)'
      => [Register!Next]_<<Found, acked, tried>>
  BY NextLoads
<1> QED
  BY <1>1, <1>2, <1>3, <1>4, PTL DEF ImplementsRegister, Register!Spec

---------------------------------------------------------------------------
(* One thread that loads and saves. *)

\* Records get lost only in a save that is to empty the catalog.
Kept(t) == fails' = 0 /\ Found # {} /\ Found' = {}
           => thread[t].mode = "AllowEmpty" /\ thread[t].val = {}

Advance(t) == Alone(t)' /\ Kept(t)

LEMMA AloneIs ==
    ASSUME NEW t, Alone(t)
    PROVE  /\ t \in Thread /\ TypeOK /\ Held /\ Written(thread[t]) /\ live = {t} /\ ~thread[t].moved
           /\ thread[t] \in ThreadRec /\ (fails = 0 => Fresh(thread[t]))
           /\ \A u \in Thread \ {t} : thread[u] = Idle
BY TypeIs DEF Alone, Typing, Lonely

LEMMA LonelyKeeps ==
    ASSUME NEW t, Alone(t), UNCHANGED live, ~thread'[t].moved,
           \A u \in Thread \ {t} : Beside(thread'[u], thread[u])
    PROVE  Lonely(t)'
<1>1. \A u \in Thread \ {t} : thread[u] = Idle /\ Idle.pc # "write"
  BY AloneIs, IdleTyped
<1> QED
  BY <1>1, AloneIs DEF Lonely, Beside

\* What the invariant says of the two files.
LEMMA HeldIs ==
    ASSUME TypeOK, Held, NEW d \in Dest
    PROVE  /\ main[d] = Missing \/ (main[d] = File(main[d].recs) /\ main[d].recs \in Allowed)
           /\ Readable(main[d]) <=> main[d] # Missing
           /\ main[d] = Missing => ~HasRecords(main[d]) /\ main[d].recs = {}
<1>1. main[d] \in {Missing} \cup {File(x) : x \in Allowed}
  BY DEF Held
<1>2. main[d] \in Content
  BY TypeIs DEF Typing
<1> QED
  BY <1>1, <1>2, ContentTyped

\* A step that writes nothing.
LEMMA QuietAdvances ==
    ASSUME NEW t, Alone(t), TypeOK', Quiet, Others(t), ~thread'[t].moved,
           thread'[t].pc = "choose" => /\ ~HasRecords(main["primary"])
                                       /\ thread'[t].readable = Readable(main["primary"]),
           thread'[t].pc \in Working => /\ thread'[t].pc \in {"create"} /\ thread'[t].val \in Allowed
                                        /\ thread'[t].dest = "primary" /\ thread'[t].ret = "load"
                                        /\ thread'[t].val # {},
           fails = 0 /\ thread'[t].pc \in {"read", "loaded", "guard"} => Found = main["primary"].recs
    PROVE  Advance(t)
<1>1. Found' = Found
  BY DEF Quiet, files, Found, Chosen
<1>2. Held'
  BY AloneIs DEF Quiet, files, Held, Allowed
<1>3. Lonely(t)'
  BY LonelyKeeps DEF Others, Beside, Quiet
<1>4. Written(thread[t])'
  BY DEF Written, Quiet, files, Allowed
<1>5. fails' = 0 => Fresh(thread[t])'
  BY <1>1 DEF Fresh, Quiet, files
<1> QED
  BY <1>1, <1>2, <1>3, <1>4, <1>5 DEF Alone, Advance, Kept

LEMMA LoadsAdvance ==
    ASSUME NEW t, Alone(t), Load(t) \/ Restore(t) \/ Choose(t) \/ Read(t) \/ Shown(t) \/ Save(t)
    PROVE  Advance(t)
<1> DEFINE p == main["primary"]
           m == main["mirror"]
           b == bak["primary"]
<1>1. t \in Thread /\ TypeOK /\ Held /\ Written(thread[t]) /\ ~thread[t].moved
      /\ (fails = 0 => Fresh(thread[t]))
  BY AloneIs
<1>2. TypeOK'
  BY <1>1, StepTyped DEF Step
<1>3. Finds
  BY FoundIs
<1>4. CASE Load(t) \/ Shown(t)
  <2>1. thread'[t].pc \in {"restore", "idle"} /\ Quiet /\ Others(t) /\ ~thread'[t].moved
    BY <1>1, <1>4, LoadDoes, ShownDoes, IdleTyped DEF Like
  <2> QED
    BY <1>2, <2>1, QuietAdvances DEF Working
<1>5. CASE Restore(t)
  <2>1. /\ Quiet /\ Others(t) /\ ~thread'[t].moved
        /\ \/ HasRecords(p) /\ thread'[t].pc = "read"
           \/ ~HasRecords(p) /\ thread'[t].pc = "choose" /\ thread'[t].readable = Readable(p)
    BY <1>1, <1>5, RestoreDoes DEF Like
  <2>2. HasRecords(p) => Found = p.recs
    BY <1>3 DEF Finds
  <2> QED
    BY <1>2, <2>1, <2>2, QuietAdvances DEF Working
<1>6. CASE Choose(t)
  <2>1. /\ Quiet /\ Others(t) /\ ~thread'[t].moved
        /\ \/ /\ Chosen(thread[t].readable) = {} /\ thread'[t].pc = "read"
           \/ /\ thread'[t].pc = "create" /\ thread'[t].ret = "load"
              /\ thread'[t].dest = "primary" /\ thread'[t].val \in Chosen(thread[t].readable)
    BY <1>1, <1>6, ChooseDoes
  <2>2. ~HasRecords(p) /\ thread[t].readable = Readable(p)
    BY <1>1, <1>6 DEF Choose, Written
  <2>3. Chosen(thread[t].readable) = {} => Found = {} /\ p.recs = {}
    BY <1>3, <2>2 DEF Chosen, Finds, HasRecords
  <2>4. \A d \in Chosen(thread[t].readable) : d # {} /\ d \in Allowed
    <3>1. "primary" \in Dest /\ "mirror" \in Dest
      BY ContentTyped
    <3>2. HasRecords(m) => m.recs # {} /\ m.recs \in Allowed
      BY <1>1, <3>1, HeldIs DEF HasRecords
    <3>3. ~Readable(p) => b.recs \in Allowed
      BY <1>1, <3>1, HeldIs DEF Held
    <3> QED
      BY <2>2, <3>2, <3>3 DEF Chosen, HasRecords
  <2> QED
    BY <1>2, <2>1, <2>3, <2>4, QuietAdvances DEF Working
<1>7. CASE Read(t)
  <2>1. thread'[t].pc = "loaded" /\ Quiet /\ Others(t) /\ ~thread'[t].moved
    BY <1>1, <1>7, ReadDoes, IdleTyped DEF Like
  <2>2. fails = 0 => Found = p.recs
    BY <1>1, <1>7 DEF Read, Fresh
  <2> QED
    BY <1>2, <2>1, <2>2, QuietAdvances DEF Working
<1>8. CASE Save(t)
  <2>1. thread'[t].pc = "guard" /\ Quiet /\ Others(t) /\ ~thread'[t].moved
    BY <1>1, <1>8, SaveDoes
  <2>2. fails = 0 => Found = p.recs
    BY <1>1, <1>8 DEF Save, Fresh
  <2> QED
    BY <1>2, <2>1, <2>2, QuietAdvances DEF Working
<1> QED
  BY <1>4, <1>5, <1>6, <1>7, <1>8

LEMMA GuardAdvances ==
    ASSUME NEW t, Alone(t), Guard(t)
    PROVE  Advance(t) /\ (tried' = tried \/ tried' = tried \cup {thread[t].val}) /\ UNCHANGED acked
<1> DEFINE p == main["primary"]
<1>1. t \in Thread /\ TypeOK /\ Held /\ Written(thread[t]) /\ ~thread[t].moved
      /\ (fails = 0 => Fresh(thread[t])) /\ thread[t].mode \in Mode
  BY AloneIs DEF ThreadRec
<1>2. TypeOK'
  BY <1>1, StepTyped DEF Step
<1>3. CASE Refused(thread[t])
  <2>1. thread'[t] = Idle /\ Quiet /\ Others(t)
    BY <1>1, <1>3, GuardDoes DEF Quiet
  <2> QED
    BY <1>2, <2>1, QuietAdvances, IdleTyped DEF Quiet, Working
<1>4. CASE ~Refused(thread[t])
  <2>1. /\ Others(t) /\ UNCHANGED <<files, acked, crashes, fails, live>>
        /\ tried' = tried \cup {thread[t].val} /\ ~thread'[t].moved
        /\ thread'[t].pc = "create" /\ thread'[t].ret = "save" /\ thread'[t].dest = "primary"
        /\ thread'[t].val = thread[t].val /\ thread'[t].mode = thread[t].mode
    BY <1>1, <1>4, GuardDoes
  <2>2. Lonely(t)'
    BY <2>1, LonelyKeeps DEF Others, Beside
  <2>3. Allowed \subseteq Allowed' /\ Found' = Found
    BY <2>1 DEF Allowed, files, Found, Chosen
  <2>4. Held'
    BY <1>1, <2>1, <2>3 DEF Held, files
  <2>5. Written(thread[t])'
    BY <2>1 DEF Written, Allowed
  <2>6. fails = 0 /\ thread[t].val = {} => thread[t].mode = "AllowEmpty" \/ Found = {}
    <3>1. fails = 0 => Found = p.recs
      BY <1>1 DEF Guard, Fresh
    <3> QED
      BY <1>1, <1>4, <3>1 DEF Refused, HasRecords, Mode
  <2>7. fails' = 0 => Fresh(thread[t])'
    BY <2>1, <2>3, <2>6 DEF Fresh
  <2> QED
    BY <1>2, <2>1, <2>2, <2>3, <2>4, <2>5, <2>7 DEF Alone, Advance, Kept
<1> QED
  BY <1>3, <1>4, GuardDoes, <1>1

\* A thread in atomic_write.
LEMMA AtWork ==
    ASSUME NEW t, Alone(t), thread[t].pc \in Working
    PROVE  LET s == thread[t] IN
           /\ s.val \in Allowed /\ (s.ret = "save" => s.val \in tried)
           /\ s.dest = "mirror" => s.ret = "save" /\ main["primary"] = File(s.val)
           /\ s.pc \in {"backup", "remove", "rename"} => tmp[s.dest] = File(s.val)
           /\ s.pc = "remove" => main[s.dest] = Missing \/ bak[s.dest] = main[s.dest]
           /\ s.dest \in Dest /\ (s.dest = "mirror" \/ s.dest = "primary") /\ s.ret \in {"load", "save"}
           /\ fails = 0 => (s.ret = "load" => s.val # {})
                          /\ (s.val = {} => s.mode = "AllowEmpty" \/ Found = {})
<1>1. Written(thread[t]) /\ thread[t] \in ThreadRec /\ (fails = 0 => Fresh(thread[t]))
  BY AloneIs
<1> QED
  BY <1>1 DEF Written, Fresh, ThreadRec, Dest

\* A step of atomic_write on the temporary file or the .bak.
LEMMA BesideAdvances ==
    ASSUME NEW t, Alone(t), TypeOK', UNCHANGED <<main, acked, tried, fails, live>>, Others(t),
           thread[t].pc \in Working, thread'[t].pc \in Working, ~thread'[t].moved,
           thread'[t].ret = thread[t].ret, thread'[t].dest = thread[t].dest,
           thread'[t].val = thread[t].val, thread'[t].mode = thread[t].mode,
           main["primary"] = Missing => bak'["primary"] = bak["primary"],
           thread'[t].pc \in {"backup", "remove", "rename"} => tmp'[thread[t].dest] = File(thread[t].val),
           thread'[t].pc = "remove" => \/ main[thread[t].dest] = Missing
                                      \/ bak'[thread[t].dest] = main[thread[t].dest]
    PROVE  Advance(t)
<1>1. TypeOK /\ Held /\ "primary" \in Dest
  BY AloneIs, ContentTyped
<1>2. Held'
  BY <1>1 DEF Held, Allowed
<1>3. Found' = Found
  <2>1. Readable(main["primary"]) <=> main["primary"] # Missing
    BY <1>1, HeldIs
  <2> QED
    BY <2>1, FoundIs DEF Finds
<1>4. Lonely(t)'
  BY LonelyKeeps DEF Others, Beside
<1>5. Written(thread[t])'
  BY AtWork DEF Written, Allowed, Working
<1>6. fails' = 0 => Fresh(thread[t])'
  BY <1>3, AtWork DEF Fresh, Working
<1> QED
  BY <1>2, <1>3, <1>4, <1>5, <1>6 DEF Alone, Advance, Kept

LEMMA WritesAdvance ==
    ASSUME NEW t, Alone(t), Create(t) \/ Write(t) \/ Backup(t)
    PROVE  Advance(t)
<1>1. t \in Thread /\ TypeOK /\ ~thread[t].moved
      /\ \A u \in Thread \ {t} : thread[u] = Idle
  BY AloneIs
<1>2. TypeOK'
  BY <1>1, StepTyped DEF Step
<1>3. thread[t].dest \in Dest /\ tmp \in [Dest -> Content] /\ bak \in [Dest -> Content]
      /\ "primary" \in Dest
  BY <1>1, TypeIs, ContentTyped DEF Typing, ThreadRec
<1>4. CASE Create(t)
  BY <1>1, <1>2, <1>4, CreateDoes, BesideAdvances DEF Working
<1>5. CASE Write(t)
  <2>1. ~Shared(t)
    BY <1>1, IdleTyped DEF Shared
  <2>2. UNCHANGED main /\ tmp' = [tmp EXCEPT ![thread[t].dest] = File(thread[t].val)]
    BY <1>1, <1>5, <2>1, WriteDoes
  <2>3. tmp'[thread[t].dest] = File(thread[t].val)
    BY <1>3, <2>2
  <2> QED
    BY <1>1, <1>2, <1>5, <2>2, <2>3, WriteDoes, BesideAdvances DEF Like, Working
<1>6. CASE Backup(t)
  <2>1. thread[t].pc = "backup" /\ tmp'[thread[t].dest] = File(thread[t].val)
    BY <1>1, <1>6, BackupDoes, AtWork DEF Working
  <2>2. /\ main["primary"] = Missing => bak'["primary"] = bak["primary"]
        /\ main[thread[t].dest] = Missing \/ bak'[thread[t].dest] = main[thread[t].dest]
    BY <1>1, <1>3, <1>6, BackupDoes
  <2> QED
    BY <1>1, <1>2, <1>6, <2>1, <2>2, BackupDoes, BesideAdvances DEF Like, Working
<1> QED
  BY <1>4, <1>5, <1>6

LEMMA RemoveAdvances ==
    ASSUME NEW t, Alone(t), Remove(t)
    PROVE  Advance(t)
<1> DEFINE s == thread[t]
           p == main["primary"]
           m == main["mirror"]
           b == bak["primary"]
<1>1. t \in Thread /\ TypeOK /\ Held /\ ~s.moved /\ main \in [Dest -> Content]
      /\ "primary" \in Dest /\ "mirror" \in Dest /\ "primary" # "mirror"
  BY AloneIs, TypeIs, ContentTyped DEF Typing
<1>2. TypeOK'
  BY <1>1, StepTyped DEF Step
<1>3. /\ Others(t) /\ s.pc = "remove" /\ thread'[t].pc = "rename" /\ Like(thread'[t], s)
      /\ UNCHANGED <<bak, tmp, acked, tried, crashes, fails, live>>
      /\ main' = [main EXCEPT ![s.dest] = Missing]
  BY <1>1, RemoveDoes
<1>4. /\ s.val \in Allowed /\ (s.ret = "save" => s.val \in tried)
      /\ s.dest = "mirror" => s.ret = "save" /\ p = File(s.val)
      /\ tmp[s.dest] = File(s.val)
      /\ main[s.dest] = Missing \/ bak[s.dest] = main[s.dest]
      /\ s.dest \in Dest /\ (s.dest = "mirror" \/ s.dest = "primary")
      /\ fails = 0 => (s.ret = "load" => s.val # {})
                     /\ (s.val = {} => s.mode = "AllowEmpty" \/ Found = {})
  BY <1>3, AtWork DEF Working
<1>5. /\ s.dest = "primary" => main'["primary"] = Missing /\ main'["mirror"] = m
      /\ s.dest = "mirror" => main'["primary"] = p /\ main'["mirror"] = Missing
  BY <1>1, <1>3
<1>6. Held'
  <2>1. s.dest = "primary" => b.recs \in Allowed
    BY <1>1, <1>4, HeldIs DEF Held
  <2>2. \A d \in Dest : d = "primary" \/ d = "mirror"
    BY DEF Dest
  <2> QED
    BY <1>1, <1>3, <1>4, <1>5, <2>1, <2>2 DEF Held, Allowed
<1>7. Lonely(t)'
  BY <1>1, <1>3, LonelyKeeps DEF Others, Beside, Like
<1>8. Written(thread[t])'
  BY <1>3, <1>4, <1>5 DEF Written, Allowed, Like
<1>9. Finds /\ Finds' /\ (Readable(p) <=> p # Missing)
      /\ Missing.recs = {} /\ File(s.val).recs = s.val /\ Readable(File(s.val)) /\ ~Readable(Missing)
  BY <1>1, FoundIs, HeldIs DEF Readable, File, Missing
<1>10. s.dest = "primary" => (Found' = {} <=> Found = {})
  <2> SUFFICES ASSUME s.dest = "primary" PROVE Found' = {} <=> Found = {}
    OBVIOUS
  <2>1. bak' = bak /\ main'["primary"] = Missing /\ main'["mirror"] = m /\ (p = Missing \/ b = p)
    BY <1>3, <1>4, <1>5
  <2> QED
    BY <1>9, <2>1 DEF Finds, HasRecords
<1>11. s.dest = "mirror" => Found' = s.val /\ (s.val # {} => Found = s.val)
  <2> SUFFICES ASSUME s.dest = "mirror" PROVE Found' = s.val /\ (s.val # {} => Found = s.val)
    OBVIOUS
  <2>1. main'["primary"] = File(s.val) /\ p = File(s.val) /\ main'["mirror"] = Missing
    BY <1>4, <1>5
  <2> QED
    BY <1>9, <2>1 DEF Finds, HasRecords
<1>12. fails' = 0 => Fresh(thread[t])'
  BY <1>3, <1>4, <1>10, <1>11 DEF Fresh, Like, Working
<1>13. Kept(t)
  BY <1>3, <1>4, <1>10, <1>11 DEF Kept
<1> QED
  BY <1>2, <1>3, <1>6, <1>7, <1>8, <1>12, <1>13 DEF Alone, Advance

\* A rename, of a thread alone: the temporary file is the document it saves.
LEMMA RenameDoes ==
    ASSUME NEW t, Alone(t), NEW s \in ThreadRec, ~s.moved, Renamed(t, s), thread[t].pc = "rename"
    PROVE  /\ Lonely(t)' /\ thread'[t] = s /\ UNCHANGED <<bak, fails>>
           /\ main'[thread[t].dest] = File(thread[t].val)
           /\ thread[t].dest = "primary" => main'["mirror"] = main["mirror"]
           /\ thread[t].dest = "mirror" => main'["primary"] = main["primary"]
<1>1. t \in Thread /\ TypeOK /\ main \in [Dest -> Content] /\ thread[t].dest \in Dest
      /\ "primary" \in Dest /\ "mirror" \in Dest /\ "primary" # "mirror"
  BY AloneIs, TypeIs, ContentTyped DEF Typing, ThreadRec
<1>2. /\ main' = [main EXCEPT ![thread[t].dest] = tmp[thread[t].dest]]
      /\ thread'[t] = s /\ UNCHANGED <<bak, fails, live>>
      /\ \A u \in Thread \ {t} : Beside(thread'[u], thread[u])
  BY <1>1, RenamedDoes
<1>3. tmp[thread[t].dest] = File(thread[t].val)
  BY AtWork DEF Working
<1>4. Lonely(t)'
  BY <1>2, LonelyKeeps
<1> QED
  BY <1>1, <1>2, <1>3, <1>4

LEMMA RestoredAdvances ==
    ASSUME NEW t, Alone(t), RenameRestored(t)
    PROVE  Advance(t)
<1> DEFINE s == [thread[t] EXCEPT !.pc = "read"]
           v == thread[t].val
<1>1. t \in Thread /\ TypeOK /\ Held /\ ~thread[t].moved /\ thread[t] \in ThreadRec
  BY AloneIs
<1>2. TypeOK'
  BY <1>1, StepTyped DEF Step
<1>3. s \in ThreadRec /\ s.pc = "read" /\ ~s.moved
  BY <1>1 DEF ThreadRec, Pc
<1>4. thread[t].pc = "rename" /\ thread[t].ret = "load" /\ Renamed(t, s) /\ UNCHANGED <<acked, tried>>
  BY DEF RenameRestored
<1> HIDE DEF s
<1>5. v \in Allowed /\ thread[t].dest = "primary" /\ (fails = 0 => v # {})
  BY <1>4, AtWork DEF Working
<1>6. /\ Lonely(t)' /\ thread'[t] = s /\ UNCHANGED <<bak, fails>>
      /\ main'["primary"] = File(v) /\ main'["mirror"] = main["mirror"]
  BY <1>3, <1>4, <1>5, RenameDoes
<1>7. Finds' /\ File(v).recs = v /\ File(v) # Missing
  BY FoundIs, ContentTyped
<1>8. Held'
  BY <1>1, <1>4, <1>5, <1>6, <1>7 DEF Held, Allowed, Dest
<1>9. fails = 0 => Found' = v
  BY <1>5, <1>6, <1>7 DEF Finds, HasRecords
<1>10. Written(thread[t])'
  BY <1>3, <1>6 DEF Written, Working
<1>11. fails' = 0 => Fresh(thread[t])'
  BY <1>3, <1>6, <1>7, <1>9 DEF Fresh, Working
<1>12. Kept(t)
  BY <1>5, <1>6, <1>9 DEF Kept
<1> QED
  BY <1>2, <1>6, <1>8, <1>10, <1>11, <1>12 DEF Alone, Advance

LEMMA PrimaryAdvances ==
    ASSUME NEW t, Alone(t), RenamePrimary(t)
    PROVE  Advance(t)
<1> DEFINE s == [thread[t] EXCEPT !.pc = "create", !.dest = "mirror"]
           v == thread[t].val
           p == main["primary"]
           m == main["mirror"]
<1>1. t \in Thread /\ TypeOK /\ Held /\ ~thread[t].moved /\ thread[t] \in ThreadRec
  BY AloneIs
<1>2. TypeOK'
  BY <1>1, StepTyped DEF Step
<1>3. s \in ThreadRec /\ s.pc = "create" /\ s.dest = "mirror" /\ ~s.moved
      /\ s.ret = thread[t].ret /\ s.val = v /\ s.mode = thread[t].mode
  BY <1>1 DEF ThreadRec, Pc, Working, Dest
<1>4. thread[t].pc = "rename" /\ thread[t].ret = "save" /\ thread[t].dest = "primary"
      /\ Renamed(t, s) /\ UNCHANGED <<acked, tried>>
  BY DEF RenamePrimary
<1> HIDE DEF s
<1>5. v \in Allowed /\ v \in tried
      /\ (fails = 0 /\ v = {} => thread[t].mode = "AllowEmpty" \/ Found = {})
  BY <1>4, AtWork DEF Working
<1>6. /\ Lonely(t)' /\ thread'[t] = s /\ UNCHANGED <<bak, fails>>
      /\ main'["primary"] = File(v) /\ main'["mirror"] = m
  BY <1>3, <1>4, RenameDoes
<1>7. Finds /\ Finds' /\ File(v).recs = v /\ File(v) # Missing /\ Readable(File(v))
  BY FoundIs, ContentTyped DEF Readable, File
<1>8. Held'
  BY <1>1, <1>4, <1>5, <1>6, <1>7 DEF Held, Allowed, Dest
<1>9. v # {} => Found' = v
  BY <1>6, <1>7 DEF Finds, HasRecords
<1>10. v = {} /\ Found = {} => Found' = {}
  <2> SUFFICES ASSUME v = {}, Found = {} PROVE Found' = {}
    OBVIOUS
  <2>1. ~HasRecords(m)
    BY <1>7 DEF Finds, HasRecords
  <2> QED
    BY <1>6, <1>7, <2>1 DEF Finds, HasRecords
<1>11. Written(thread[t])'
  BY <1>3, <1>4, <1>5, <1>6 DEF Written, Working, Allowed
<1>12. fails' = 0 => Fresh(thread[t])'
  BY <1>3, <1>4, <1>5, <1>6, <1>10 DEF Fresh, Working
<1>13. Kept(t)
  BY <1>5, <1>6, <1>9 DEF Kept
<1> QED
  BY <1>2, <1>6, <1>8, <1>11, <1>12, <1>13 DEF Alone, Advance

LEMMA MirrorAdvances ==
    ASSUME NEW t, Alone(t), RenameMirror(t)
    PROVE  Advance(t) /\ thread[t].val \in tried /\ Found' = thread[t].val
           /\ acked' = thread[t].val /\ tried' = {}
<1> DEFINE v == thread[t].val
<1>1. t \in Thread /\ TypeOK /\ Held /\ ~thread[t].moved /\ thread[t] \in ThreadRec
  BY AloneIs
<1>2. TypeOK'
  BY <1>1, StepTyped DEF Step
<1>3. thread[t].pc = "rename" /\ thread[t].dest = "mirror" /\ Renamed(t, Idle)
      /\ acked' = v /\ tried' = {}
  BY DEF RenameMirror
<1>4. v \in tried /\ main["primary"] = File(v)
      /\ (fails = 0 /\ v = {} => thread[t].mode = "AllowEmpty" \/ Found = {})
  BY <1>3, AtWork DEF Working
<1>5. /\ Lonely(t)' /\ thread'[t] = Idle /\ UNCHANGED <<bak, fails>>
      /\ main'["mirror"] = File(v) /\ main'["primary"] = File(v)
  BY <1>3, <1>4, RenameDoes, IdleTyped
<1>6. Finds' /\ File(v).recs = v /\ File(v) # Missing /\ Readable(File(v))
  BY FoundIs, ContentTyped DEF Readable, File
<1>7. Held'
  BY <1>3, <1>5, <1>6 DEF Held, Allowed, Dest
<1>8. Found' = v
  BY <1>5, <1>6 DEF Finds, HasRecords
<1>9. Written(thread[t])' /\ Fresh(thread[t])'
  BY <1>5, IdleTyped DEF Written, Fresh, Working
<1>10. Kept(t)
  BY <1>4, <1>5, <1>8 DEF Kept
<1> QED
  BY <1>2, <1>3, <1>4, <1>5, <1>7, <1>8, <1>9, <1>10 DEF Alone, Advance

\* A .bak that is cut off has its primary beside it.
LEMMA CutAdvances ==
    ASSUME NEW t, Alone(t), TypeOK', UNCHANGED <<main, acked, tried>>, Lonely(t)',
           \A d \in Dest : bak'[d] = bak[d] \/ (main[d] # Missing /\ bak'[d] = Bad),
           thread'[t].pc \in {"idle", "read"}, fails' # 0 \/ thread'[t].pc = "idle"
    PROVE  Advance(t)
<1>1. TypeOK /\ Held /\ "primary" \in Dest
  BY AloneIs, ContentTyped
<1>2. main["primary"] = Missing => bak'["primary"] = bak["primary"]
  BY <1>1
<1>3. Held'
  BY <1>1, <1>2 DEF Held, Allowed
<1>4. Found' = Found
  <2>1. Readable(main["primary"]) <=> main["primary"] # Missing
    BY <1>1, HeldIs
  <2> QED
    BY <1>2, <2>1, FoundIs DEF Finds
<1>5. Written(thread[t])'
  BY DEF Written, Working
<1>6. fails' = 0 => Fresh(thread[t])'
  BY DEF Fresh, Working
<1> QED
  BY <1>3, <1>4, <1>5, <1>6 DEF Alone, Advance, Kept

LEMMA FailsAdvance ==
    ASSUME NEW t, Alone(t), RenameFails(t) \/ Vanished(t) \/ CallFails(t)
    PROVE  Advance(t)
<1>1. t \in Thread /\ TypeOK /\ ~thread[t].moved /\ \A u \in Thread \ {t} : thread[u] = Idle
  BY AloneIs
<1>2. TypeOK'
  BY <1>1, StepTyped DEF Step
<1>3. ~RenameFails(t)
  BY AtWork, ContentTyped DEF RenameFails, Working
<1>4. ~Vanished(t)
  BY <1>1, IdleTyped DEF Vanished
<1>5. CASE CallFails(t)
  <2>1. AfterError(t) /\ fails' # 0 /\ UNCHANGED <<main, acked, tried, live>>
        /\ \A d \in Dest : bak'[d] = bak[d] \/ (main[d] # Missing /\ bak'[d] = Bad)
    BY <1>1, <1>5, FailDoes
  <2>2. Others(t) /\ thread'[t].pc \in {"idle", "read"} /\ ~thread'[t].moved
    BY <1>1, <2>1, ErrorTyped, IdleTyped DEF Like
  <2>3. Lonely(t)'
    BY <2>1, <2>2, LonelyKeeps DEF Others, Beside
  <2> QED
    BY <1>2, <2>1, <2>2, <2>3, CutAdvances
<1> QED
  BY <1>3, <1>4, <1>5

LEMMA CrashAdvances ==
    ASSUME NEW t, Alone(t), Crash
    PROVE  Advance(t)
<1>1. TypeOK /\ t \in Thread /\ live = {t}
  BY AloneIs
<1>2. TypeOK'
  BY <1>1, NextTyped DEF Next
<1>3. /\ thread' = [u \in Thread |-> Idle] /\ UNCHANGED <<main, acked, tried, live>>
      /\ \A d \in Dest : bak'[d] = bak[d] \/ (main[d] # Missing /\ bak'[d] = Bad)
  BY <1>1, CrashDoes
<1>4. \A u \in Thread : thread'[u] = Idle
  BY <1>3
<1>5. Lonely(t)' /\ thread'[t].pc = "idle"
  BY <1>1, <1>3, <1>4, IdleTyped DEF Lonely
<1> QED
  BY <1>2, <1>3, <1>5, CutAdvances

LEMMA AloneInit ==
    ASSUME NEW t, Init, live = {t}
    PROVE  Alone(t) /\ Found = acked
<1>1. TypeOK
  BY InitTyped
<1>2. t \in Thread /\ \A u \in Thread : thread[u] = Idle
  BY DEF Init
<1>3. /\ main = [d \in Dest |-> Missing] /\ bak = [d \in Dest |-> Missing]
      /\ acked = {} /\ tried = {}
  BY DEF Init
<1>4. Held
  BY <1>3, ContentTyped DEF Held, Allowed
<1>5. Lonely(t) /\ Written(thread[t]) /\ Fresh(thread[t])
  BY <1>2, IdleTyped DEF Lonely, Written, Fresh, Working
<1>6. Found = {}
  BY <1>3, FoundIs, ContentTyped DEF Finds
<1> QED
  BY <1>1, <1>3, <1>4, <1>5, <1>6 DEF Alone

LEMMA AloneSurvives ==
    ASSUME NEW t, Alone(t)
    PROVE  AckedSurvives
<1> DEFINE p == main["primary"]
           m == main["mirror"]
<1>1. TypeOK /\ Held /\ "primary" \in Dest /\ "mirror" \in Dest
  BY AloneIs, ContentTyped
<1>2. /\ p = Missing \/ p.recs \in Allowed
      /\ m = Missing \/ m.recs \in Allowed
      /\ p = Missing => bak["primary"].recs \in Allowed
      /\ Readable(p) <=> p # Missing
      /\ p = Missing => p.recs = {}
      /\ m = Missing => m.recs = {}
  BY <1>1, HeldIs DEF Held
<1>3. Found \in Allowed
  BY <1>1, <1>2, FoundIs, ContentTyped DEF Finds, HasRecords
<1> QED
  BY <1>3 DEF AckedSurvives, Allowed

LEMMA StepAdvances ==
    ASSUME NEW t, Alone(t), Crash \/ \E u \in live : Step(u)
    PROVE  Advance(t)
<1>1. live = {t}
  BY AloneIs
<1>2. Crash \/ Step(t)
  BY <1>1
<1> QED
  BY <1>2, LoadsAdvance, GuardAdvances, WritesAdvance, RemoveAdvances, RestoredAdvances,
     PrimaryAdvances, MirrorAdvances, FailsAdvance, CrashAdvances DEF Step

LEMMA StillAlone ==
    ASSUME NEW t, Alone(t), UNCHANGED vars
    PROVE  Alone(t)' /\ Found' = Found
<1>1. UNCHANGED <<main, bak, tmp, live, thread, acked, tried, crashes, fails>>
  BY DEF vars, files
<1>2. TypeOK'
  BY AloneIs, NextTyped
<1>3. Found' = Found
  BY <1>1 DEF Found, Chosen
<1> QED
  BY <1>1, <1>2, <1>3 DEF Alone, Lonely, Held, Written, Fresh, Allowed

LEMMA NextAlone ==
    ASSUME NEW t
    PROVE  Alone(t) /\ [Next]_vars => Alone(t)'
BY StepAdvances, StillAlone DEF Next, Advance

\* One thread that loads and saves, through any crashes and failing calls: what
\* a load would find after a restart is the document of the last save that
\* returned, or of one called since (durable.rs:183-292).
THEOREM OneThreadKeeps ==
    ASSUME NEW t
    PROVE  Init /\ live = {t} /\ [][Next]_vars => []AckedSurvives
<1>1. Init /\ live = {t} => Alone(t)
  BY AloneInit
<1>2. Alone(t) => AckedSurvives
  BY AloneSurvives
<1>3. Alone(t) /\ [Next]_vars => Alone(t)'
  BY NextAlone
<1> QED
  BY <1>1, <1>2, <1>3, PTL

\* The same thread empties a catalog that has records only in a save that is to
\* (WriteMode::AllowEmpty, durable.rs:246), as long as no system call fails.
THEOREM OneThreadEmptiesNone ==
    ASSUME NEW only
    PROVE  Init /\ live = {only} /\ [][Next]_vars => CrashesKeepRecords
<1>1. Init /\ live = {only} => Alone(only)
  BY AloneInit
<1>2. Alone(only) /\ [Next]_vars => Alone(only)'
  BY NextAlone
<1>3. Alone(only) /\ [Next]_vars => [Emptied => DeletesLast]_vars
  BY StepAdvances, AloneIs DEF Next, Advance, Kept, Emptied, DeletesLast
<1> QED
  BY <1>1, <1>2, <1>3, PTL DEF CrashesKeepRecords

\* Every step of that thread is one of the register, or changes nothing of it.
LEMMA StepRegisters ==
    ASSUME NEW t, Alone(t), [Next]_vars, AckedSurvives'
    PROVE  [Register!Next]_<<Found, acked, tried>>
<1>1. t \in Thread /\ TypeOK /\ thread[t] \in ThreadRec /\ live = {t} /\ {} \in Doc
      /\ thread[t].val \in Doc
  BY AloneIs, ContentTyped DEF ThreadRec
<1>2. ASSUME UNCHANGED <<acked, tried>> PROVE Register!Next
  <2>1. Register!Waver
    BY <1>2 DEF Register!Waver, AckedSurvives
  <2> QED
    BY <1>1, <2>1 DEF Register!Next
<1>3. ASSUME UNCHANGED acked, tried' = tried \cup {thread[t].val} PROVE Register!Next
  <2>1. Register!Try(thread[t].val)
    BY <1>3 DEF Register!Try, AckedSurvives
  <2> QED
    BY <1>1, <2>1 DEF Register!Next
<1>4. CASE UNCHANGED vars
  BY <1>2, <1>4 DEF vars
<1>5. CASE Crash
  BY <1>2, <1>5 DEF Crash
<1>6. CASE Guard(t)
  BY <1>2, <1>3, <1>6, GuardAdvances
<1>7. CASE RenameMirror(t)
  <2>1. Register!Ack(thread[t].val)
    BY <1>7, MirrorAdvances DEF Register!Ack
  <2> QED
    BY <1>1, <2>1 DEF Register!Next
<1>8. CASE Load(t) \/ Restore(t) \/ Choose(t) \/ Read(t) \/ Shown(t) \/ Save(t)
  BY <1>2, <1>8 DEF Load, Restore, Choose, Read, Shown, Save
<1>9. CASE Create(t) \/ Write(t) \/ Backup(t) \/ Remove(t) \/ RenameRestored(t) \/ RenamePrimary(t)
           \/ RenameFails(t) \/ Vanished(t) \/ CallFails(t)
  BY <1>2, <1>9 DEF Create, Write, Backup, Remove, RenameRestored, RenamePrimary, RenameFails,
                    Vanished, CallFails
<1>10. UNCHANGED vars \/ Crash \/ Step(t)
  BY <1>1 DEF Next
<1> QED
  BY <1>4, <1>5, <1>6, <1>7, <1>8, <1>9, <1>10 DEF Step

\* The files implement the register of CatalogRegister.
THEOREM OneThreadImplements ==
    ASSUME NEW t
    PROVE  Init /\ live = {t} /\ [][Next]_vars => ImplementsRegister
<1>1. Init /\ live = {t} => Alone(t) /\ Register!Init
  <2> SUFFICES ASSUME Init, live = {t} PROVE Alone(t) /\ Register!Init
    OBVIOUS
  <2>1. acked \in Doc /\ tried = {}
    BY ContentTyped DEF Init
  <2> QED
    BY <2>1, AloneInit DEF Register!Init
<1>2. Alone(t) => AckedSurvives
  BY AloneSurvives
<1>3. Alone(t) /\ [Next]_vars => Alone(t)'
  BY NextAlone
<1>4. Alone(t) /\ [Next]_vars /\ AckedSurvives' => [Register!Next]_<<Found, acked, tried>>
  BY StepRegisters
<1> QED
  BY <1>1, <1>2, <1>3, <1>4, PTL DEF ImplementsRegister, Register!Spec
=============================================================================
