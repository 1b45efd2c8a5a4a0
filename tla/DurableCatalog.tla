-------------------------- MODULE DurableCatalog --------------------------
(***************************************************************************)
(* One catalog of src-tauri/src/durable.rs: a file in the app-data         *)
(* directory, its mirror in the home directory, their .bak copies and the  *)
(* temporary files, written one system call at a time by the threads that  *)
(* run Tauri commands, with a crash of the process between any two calls.  *)
(* A command loads the catalog, which may restore it, and then saves the   *)
(* document with a record more, with one less, or emptied.  A document is  *)
(* the set of its records; secrets live in a vault and are no part of it.  *)
(* The crash is one of the process: what a finished system call did stays. *)
(***************************************************************************)
EXTENDS Integers, FiniteSets

CONSTANTS
    Thread,      \* threads that run commands
    Saver,       \* those that save; the others only load
    Record,      \* records of the catalog
    MaxCrash,    \* bound: crashes
    MaxFail      \* bound: system calls that fail

ASSUME BoundAssumption == Saver \subseteq Thread /\ MaxCrash \in Nat /\ MaxFail \in Nat

VARIABLES
    main,        \* the file and its mirror
    bak,         \* their .bak
    tmp,         \* their temporary file: one name per process
    live,        \* the threads of this process; the scene of a behaviour
    thread,      \* where each thread is
    acked,       \* history: document of the last save that returned Ok
    tried,       \* history: documents of the saves called since
    crashes, fails

files == <<main, bak, tmp>>
vars  == <<main, bak, tmp, live, thread, acked, tried, crashes, fails>>

Doc     == SUBSET Record
\* A file: its records when it parses, and whether it is there.
File(d) == [kind |-> "doc", recs |-> d]
Missing == [kind |-> "missing", recs |-> {}]
Bad     == [kind |-> "bad", recs |-> {}]
Content == {File(d) : d \in Doc} \cup {Missing, Bad}
Dest    == {"primary", "mirror"}
Mode    == {"KeepRecords", "AllowEmpty"}

\* record_count of what read_value returns.
HasRecords(c) == c.recs # {}
Readable(c)   == c.kind = "doc"

Idle == [pc |-> "idle", ret |-> "load", dest |-> "primary", val |-> {},
         mode |-> "KeepRecords", doc |-> {}, moved |-> FALSE, readable |-> FALSE]

TypeOK ==
    /\ main \in [Dest -> Content] /\ bak \in [Dest -> Content] /\ tmp \in [Dest -> Content]
    /\ live \subseteq Thread
    /\ thread \in [Thread ->
          [pc : {"idle", "restore", "choose", "read", "loaded", "guard",
                 "create", "write", "backup", "remove", "rename"},
           ret : {"load", "save"}, dest : Dest, val : Doc, mode : Mode, doc : Doc,
           moved : BOOLEAN, readable : BOOLEAN]]
    /\ acked \in Doc /\ tried \in SUBSET Doc
    /\ crashes \in 0..MaxCrash /\ fails \in 0..MaxFail

Init ==
    /\ main = [d \in Dest |-> Missing]
    /\ bak = [d \in Dest |-> Missing]
    /\ tmp = [d \in Dest |-> Missing]
    /\ live \in SUBSET Thread \ {{}} /\ thread = [t \in Thread |-> Idle]
    /\ acked = {} /\ tried = {}
    /\ crashes = 0 /\ fails = 0

Go(t, s) == thread' = [thread EXCEPT ![t] = s]
To(t, pc) == Go(t, [thread[t] EXCEPT !.pc = pc])

---------------------------------------------------------------------------
(* load_value and restore_if_needed *)

\* What restore_if_needed writes back, given that the primary has no records:
\* the mirror's document, or for a missing or unreadable primary the .bak's.
Chosen(readable) ==
    IF HasRecords(main["mirror"]) THEN {main["mirror"].recs}
    ELSE IF ~readable /\ HasRecords(bak["primary"]) THEN {bak["primary"].recs}
    ELSE {}

Load(t) ==
    /\ thread[t].pc = "idle"
    /\ Go(t, [Idle EXCEPT !.pc = "restore"])
    /\ UNCHANGED <<files, acked, tried, crashes, fails, live>>

\* The primary is read, once; with records in it nothing is to be restored.
Restore(t) ==
    /\ thread[t].pc = "restore"
    /\ Go(t, [thread[t] EXCEPT
                !.pc = IF HasRecords(main["primary"]) THEN "read" ELSE "choose",
                !.readable = Readable(main["primary"]) /\ ~HasRecords(main["primary"])])
    /\ UNCHANGED <<files, acked, tried, crashes, fails, live>>

\* The mirror and the .bak are read, and a restore begins or not.  (Two reads,
\* one step: only a save writes the mirror, so among threads that load, and for
\* one thread alone, nothing can come between them that matters.)
Choose(t) ==
    /\ thread[t].pc = "choose"
    /\ IF Chosen(thread[t].readable) = {}
       THEN Go(t, [thread[t] EXCEPT !.pc = "read", !.readable = FALSE])
       ELSE \E d \in Chosen(thread[t].readable) :
               Go(t, [thread[t] EXCEPT !.pc = "create", !.ret = "load",
                                       !.dest = "primary", !.val = d, !.readable = FALSE])
    /\ UNCHANGED <<files, acked, tried, crashes, fails, live>>

Read(t) ==
    /\ thread[t].pc = "read"
    /\ Go(t, [Idle EXCEPT !.pc = "loaded", !.doc = main["primary"].recs])
    /\ UNCHANGED <<files, acked, tried, crashes, fails, live>>

\* A command that only shows the catalog.
Shown(t) ==
    /\ thread[t].pc = "loaded"
    /\ Go(t, Idle)
    /\ UNCHANGED <<files, acked, tried, crashes, fails, live>>

---------------------------------------------------------------------------
(* save_value *)

\* Mutant of Edits: the record added is a blank one.
EditsBlank(doc) == {[val |-> doc \cup {0}, mode |-> "KeepRecords"]}

\* The documents a command makes of the one it loaded: a record is added or
\* changed, the user deletes one, or a caller has nothing left and does not
\* say that it means it.
Edits(doc) == {[val |-> doc \cup {r}, mode |-> "KeepRecords"] : r \in Record}
              \cup {[val |-> doc \ {r}, mode |-> "AllowEmpty"] : r \in doc}
              \cup {[val |-> {}, mode |-> "KeepRecords"]}

Save(t) ==
    /\ thread[t].pc = "loaded" /\ t \in Saver
    /\ \E e \in Edits(thread[t].doc) :
          /\ Go(t, [Idle EXCEPT !.pc = "guard", !.val = e.val, !.mode = e.mode])
          /\ UNCHANGED <<files, acked, tried, crashes, fails, live>>

\* Mutant of Refused: an empty document is never refused.
RefusedNever(s) == FALSE

Refused(s) == s.mode = "KeepRecords" /\ s.val = {} /\ HasRecords(main["primary"])

Guard(t) ==
    /\ thread[t].pc = "guard"
    /\ IF Refused(thread[t])
       THEN Go(t, Idle) /\ UNCHANGED tried
       ELSE /\ Go(t, [thread[t] EXCEPT !.pc = "create", !.ret = "save",
                                       !.dest = "primary"])
            /\ tried' = tried \cup {thread[t].val}
    /\ UNCHANGED <<files, acked, crashes, fails, live>>

---------------------------------------------------------------------------
(* atomic_write and replace_file, for the primary and then the mirror *)

\* File::create truncates the temporary file, also one another thread of the
\* process is writing.
Create(t) ==
    /\ thread[t].pc = "create"
    /\ tmp' = [tmp EXCEPT ![thread[t].dest] = Bad]
    /\ Go(t, [thread[t] EXCEPT !.pc = "write", !.moved = FALSE])
    /\ UNCHANGED <<main, bak, acked, tried, crashes, fails, live>>

\* Others that have this temporary file open.
Shared(t) == \E u \in Thread \ {t} : /\ thread[u].dest = thread[t].dest
                                     /\ thread[u].pc = "write"

\* write_all and sync_all, through the handle: if another thread has renamed
\* the file meanwhile, it is the destination that is written.
Write(t) ==
    LET d == thread[t].dest
        c == IF Shared(t) THEN {File(thread[t].val), Bad} ELSE {File(thread[t].val)}
    IN /\ thread[t].pc = "write"
       /\ IF thread[t].moved
          THEN main' \in {[main EXCEPT ![d] = v] : v \in c} /\ UNCHANGED tmp
          ELSE tmp' \in {[tmp EXCEPT ![d] = v] : v \in c} /\ UNCHANGED main
       /\ To(t, "backup")
       /\ UNCHANGED <<bak, acked, tried, crashes, fails, live>>

\* Mutant of Backup: nothing is copied.
BackupNone(t) ==
    /\ thread[t].pc = "backup"
    /\ To(t, "remove")
    /\ UNCHANGED <<files, acked, tried, crashes, fails, live>>

Backup(t) ==
    LET d == thread[t].dest IN
    /\ thread[t].pc = "backup"
    /\ bak' = IF main[d] = Missing THEN bak ELSE [bak EXCEPT ![d] = main[d]]
    /\ To(t, "remove")
    /\ UNCHANGED <<main, tmp, acked, tried, crashes, fails, live>>

Remove(t) ==
    /\ thread[t].pc = "remove"
    /\ main' = [main EXCEPT ![thread[t].dest] = Missing]
    /\ To(t, "rename")
    /\ UNCHANGED <<bak, tmp, acked, tried, crashes, fails, live>>

\* Where a thread goes on when atomic_write failed: a failed restore is
\* ignored, a failed save returns the error.
AfterError(t) == IF thread[t].ret = "load" THEN To(t, "read") ELSE Go(t, Idle)

\* The rename; a handle another thread has on the file goes with it.
Renamed(t, next) ==
    LET d == thread[t].dest IN
    /\ main' = [main EXCEPT ![d] = tmp[d]]
    /\ tmp' = [tmp EXCEPT ![d] = Missing]
    /\ thread' = [u \in Thread |->
          IF u = t THEN next
          ELSE [thread[u] EXCEPT !.moved = @ \/ (thread[u].dest = d
                                                 /\ thread[u].pc = "write")]]
    /\ UNCHANGED <<bak, crashes, fails, live>>

RenameRestored(t) ==
    /\ thread[t].pc = "rename" /\ thread[t].ret = "load"
    /\ tmp["primary"] # Missing
    /\ Renamed(t, [thread[t] EXCEPT !.pc = "read"])
    /\ UNCHANGED <<acked, tried>>

\* Mutant of RenamePrimary: save_value returns and leaves the mirror for later.
RenamePrimaryAcks(t) ==
    /\ thread[t].pc = "rename" /\ thread[t].ret = "save" /\ thread[t].dest = "primary"
    /\ tmp["primary"] # Missing
    /\ Renamed(t, [thread[t] EXCEPT !.pc = "create", !.dest = "mirror"])
    /\ acked' = thread[t].val /\ tried' = {}

RenamePrimary(t) ==
    /\ thread[t].pc = "rename" /\ thread[t].ret = "save" /\ thread[t].dest = "primary"
    /\ tmp["primary"] # Missing
    /\ Renamed(t, [thread[t] EXCEPT !.pc = "create", !.dest = "mirror"])
    /\ UNCHANGED <<acked, tried>>

\* With the mirror in place save_value returns Ok.
RenameMirror(t) ==
    /\ thread[t].pc = "rename" /\ thread[t].dest = "mirror"
    /\ tmp["mirror"] # Missing
    /\ Renamed(t, Idle)
    /\ acked' = thread[t].val /\ tried' = {}

\* The temporary file is gone: another thread renamed it.
RenameFails(t) ==
    /\ thread[t].pc = "rename" /\ tmp[thread[t].dest] = Missing
    /\ AfterError(t)
    /\ UNCHANGED <<files, acked, tried, crashes, fails, live>>

\* The destination is gone: it was there when path.is_file or dest.exists
\* looked, and another thread removed it before the copy or the removal.
Vanished(t) ==
    /\ thread[t].pc \in {"backup", "remove"} /\ main[thread[t].dest] = Missing
    /\ \E u \in Thread \ {t} : thread[u].pc = "rename" /\ thread[u].dest = thread[t].dest
    /\ AfterError(t)
    /\ UNCHANGED <<files, acked, tried, crashes, fails, live>>

\* A .bak whose copy was cut off.
BakCut(T) == {[bak EXCEPT ![thread[t].dest] = Bad] :
                t \in {u \in T : thread[u].pc = "backup" /\ main[thread[u].dest] # Missing}}

\* Any other system call of atomic_write fails.
CallFails(t) ==
    /\ fails < MaxFail
    /\ thread[t].pc \in {"create", "write", "backup", "remove", "rename"}
    /\ fails' = fails + 1
    /\ AfterError(t)
    /\ bak' \in {bak} \cup BakCut({t})
    /\ UNCHANGED <<main, tmp, acked, tried, crashes, live>>

\* The process ends and is started again; a copy to .bak may be cut off.
Crash ==
    /\ crashes < MaxCrash
    /\ crashes' = crashes + 1
    /\ thread' = [t \in Thread |-> Idle]
    /\ bak' \in {bak} \cup BakCut(Thread)
    /\ tmp' = [d \in Dest |-> Missing]
    /\ UNCHANGED <<main, acked, tried, fails, live>>

Step(t) ==
    \/ Load(t) \/ Restore(t) \/ Choose(t) \/ Read(t) \/ Shown(t) \/ Save(t) \/ Guard(t)
    \/ Create(t) \/ Write(t) \/ Backup(t) \/ Remove(t)
    \/ RenameRestored(t) \/ RenamePrimary(t) \/ RenameMirror(t) \/ RenameFails(t)
    \/ Vanished(t) \/ CallFails(t)

Next == Crash \/ \E t \in live : Step(t)

Spec == Init /\ [][Next]_vars

\* The process is started after a crash between Remove and RenamePrimary,
\* with whatever the mirror's .bak then holds.
InitRestarted ==
    /\ acked \in Doc \ {{}} /\ tried = {}
    /\ main = [d \in Dest |-> IF d = "mirror" THEN File(acked) ELSE Missing]
    /\ bak \in [Dest -> Content] /\ bak["primary"] = File(acked)
    /\ tmp = [d \in Dest |-> Missing]
    /\ live \in SUBSET Thread \ {{}} /\ thread = [t \in Thread |-> Idle]
    /\ crashes = 1 /\ fails = 0

---------------------------------------------------------------------------
(* Properties. *)

\* What a load would find if the process were started again now.
Found ==
    LET p == main["primary"] IN
    IF HasRecords(p) THEN p.recs
    ELSE IF Chosen(Readable(p)) # {} THEN CHOOSE d \in Chosen(Readable(p)) : TRUE
    ELSE {}

\* A load, after any crash, finds the document of the last save that returned
\* or of one called since: the files implement a register.
Register == INSTANCE CatalogRegister WITH doc <- Found
ImplementsRegister == Register!Spec

\* A catalog that had records has none, and no system call has failed.
Emptied == fails' = 0 /\ Found # {} /\ Found' = {}

\* A command that deletes the last record is at work.
DeletesLast == \E t \in Thread : thread[t].mode = "AllowEmpty" /\ thread[t].val = {}

\* "no empty overwrite" as long as no system call fails: a catalog that has
\* records only becomes empty while a command that deletes the last one
\* explicitly is at work; no crash makes another save, or a load, empty it.
CrashesKeepRecords == [][Emptied => DeletesLast]_vars

\* The same promise without the history of how it came about: acknowledged
\* documents survive.
AckedSurvives == Found \in {acked} \cup tried
===========================================================================
