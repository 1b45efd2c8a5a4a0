--------------------------- MODULE FileTransfer ---------------------------
(***************************************************************************)
(* Files on their way to one path (src-tauri/src): uploads and sends from  *)
(* one server to another, or downloads, with the registry that cancels     *)
(* them (transfer.rs), the connections they open for themselves            *)
(* (ssh/client.rs), the task that reads, the bounded queue and the loop    *)
(* that writes (ssh/stream_transfer.rs, ssh/sftp.rs), and what a cancelled *)
(* transfer does to the path (session/mod.rs).                             *)
(*                                                                         *)
(* A file is read and written in chunks; the path holds nothing, a file    *)
(* that was there before, the chunks of one transfer, or a mixture.  A     *)
(* file that is removed while it is written takes the later chunks along.  *)
(* A chunk counts as written when it is handed to the destination, which   *)
(* may still have the last of them to answer for (max_concurrent_writes).  *)
(* A remote source and the destination answer, fail, or go silent.         *)
(*                                                                         *)
(* A download has no task that reads and no queue: it awaits the write of  *)
(* a chunk together with the read of the next.  rd is then that read.      *)
(*                                                                         *)
(* The fallback of a send that is refused for lack of permission, staging  *)
(* under /tmp and sudo mv, is left out: it looks for a text that the error *)
(* of the relay, an exit code, does not have.  So are those of an upload   *)
(* and a download, and the second and later files of an upload, which run  *)
(* the same pipeline again.                                                *)
(***************************************************************************)
EXTENDS Integers, FiniteSets

CONSTANTS
    Transfer,     \* transfer ids
    Chunks,       \* chunks of a source file
    Depth         \* STREAM_PIPELINE_DEPTH, SFTP_PIPELINE_DEPTH

ASSUME BoundAssumption ==
    {Chunks, Depth} \subseteq Nat \ {0}

VARIABLES
    tr,           \* the task of a transfer and its registry entry
    rd,           \* its reader and their queue
    src,          \* its source: still to end, or how it ended
    dest,         \* what the path holds
    open,         \* transfers whose open file is the one at the path
    hist          \* history: see TypeOK

vars == <<tr, rd, src, dest, open, hist>>

None == "none"
Path(kind, by, n) == [kind |-> kind, by |-> by, n |-> n]
Absent   == Path("absent", None, 0)
Old      == Path("old", None, 0)
Mixed    == Path("mixed", None, 0)
Of(t, n) == Path("file", t, n)

Kind    == {"send", "upload", "download"}
Piping  == {"relay", "write", "finish"}
Running == {"lookup", "from", "to", "open"} \cup Piping
NoTask  == [pc |-> "off", res |-> "ok", got |-> 0, queue |-> 0]

\* hist.after: chunks written after the cancel; hist.apart: transfers whose
\* path another one has opened, written or removed since they opened it;
\* hist.cut: transfers whose last writes failed and that were not told, of a
\* send because its destination went away before it said how it ended, of an
\* upload because it does not look at the result of the shutdown.
TypeOK ==
    /\ tr \in [Transfer -> [kind : Kind, pc : Running \cup {"idle", "clear", "cleanup", "remove", "done"},
                            res : {"ok", "cancelled", "error"},
                            reg : BOOLEAN, flag : BOOLEAN]]
    /\ rd \in [Transfer -> [pc : {"off", "read", "full", "drain", "done"},
                            res : {"ok", "cancelled", "error"},
                            got : 0..Chunks, queue : 0..Depth]]
    /\ src \in [Transfer -> {"up", "ok", "bad", "lost"}]
    /\ dest \in {Absent, Old, Mixed} \cup {Of(t, n) : t \in Transfer, n \in 0..Chunks}
    /\ open \subseteq Transfer
    /\ hist \in [after : [Transfer -> 0..2], apart : SUBSET Transfer, cut : SUBSET Transfer]

Init ==
    /\ \E kind \in [Transfer -> {"send", "upload"}] \cup [Transfer -> {"download"}] :
          /\ tr = [t \in Transfer |-> [kind |-> kind[t], pc |-> "idle", res |-> "ok",
                                      reg |-> FALSE, flag |-> FALSE]]
          /\ src = [t \in Transfer |-> IF kind[t] = "upload" THEN "ok" ELSE "up"]
    /\ rd = [t \in Transfer |-> NoTask]
    /\ dest \in {Absent, Old}
    /\ open = {}
    /\ hist = [after |-> [t \in Transfer |-> 0], apart |-> {}, cut |-> {}]

Is(t, kind) == tr[t].kind = kind

Goto(t, pc) == tr' = [tr EXCEPT ![t].pc = pc]

---------------------------------------------------------------------------
(* The registry, and how a transfer begins. *)

\* A send looks its sessions up before, the others after it is registered.
Begin(t) ==
    /\ tr[t].pc = "idle"
    /\ tr' = [tr EXCEPT ![t].reg = TRUE,
                        ![t].pc = IF Is(t, "send") THEN "from" ELSE "lookup"]
    /\ UNCHANGED <<rd, src, dest, open, hist>>

\* cancel_transfer that answers true.
Cancel(t) ==
    /\ tr[t].reg /\ ~tr[t].flag
    /\ tr' = [tr EXCEPT ![t].flag = TRUE]
    /\ UNCHANGED <<rd, src, dest, open, hist>>

\* A cancelled upload removes what it has opened, a cancelled download the
\* path, from the moment it is connected.
Removes(t) == \/ Is(t, "upload") /\ tr[t].pc \in Piping
              \/ Is(t, "download") /\ tr[t].pc \in Piping \cup {"open"}

\* The task of a transfer returns to its command.  Its connections end here
\* and with them its reader, which nobody awaits any more.
Leave(t, res) ==
    /\ tr' = [tr EXCEPT ![t].res = res,
                        ![t].pc = IF res = "cancelled" /\ Removes(t) THEN "remove"
                                  ELSE "clear"]
    /\ rd' = [rd EXCEPT ![t] = NoTask]
    /\ open' = open \ {t}
    /\ UNCHANGED src

Return(t, res) == Leave(t, res) /\ UNCHANGED dest

\* check_cancel on the way into open_transfer_connection.
Enter(t, pc) ==
    IF tr[t].flag THEN Return(t, "cancelled")
    ELSE Goto(t, pc) /\ UNCHANGED <<rd, src, dest, open>>

\* The tab of the session is still there, or it is not: then the transfer
\* returns at once, and its entry stays in the registry.
Lookup(t) ==
    /\ tr[t].pc = "lookup"
    /\ \/ Enter(t, "to")
       \/ /\ tr' = [tr EXCEPT ![t].pc = "done", ![t].res = "error"]
          /\ UNCHANGED <<rd, src, dest, open>>
    /\ UNCHANGED hist

---------------------------------------------------------------------------
(* The connections: the select! of the connection and the cancel flag. *)

Connected(t) ==
    /\ \/ tr[t].pc = "from" /\ Enter(t, "to")
       \/ tr[t].pc = "to" /\ Goto(t, "open") /\ UNCHANGED <<rd, src, dest, open>>
    /\ UNCHANGED hist

NotConnected(t) ==
    /\ tr[t].pc \in {"from", "to"}
    /\ Return(t, IF tr[t].flag THEN "cancelled" ELSE "error")
    /\ UNCHANGED hist

\* The reader r has its result; that of a send then waits for the channel of
\* its source to end, also after an error (read_result.and(wait.await)).
Stopped(t, r, res) ==
    [r EXCEPT !.pc = IF Is(t, "send") THEN "drain" ELSE "done", !.res = res]

\* Both ends of the pipe are opened, which empties the path, and the read task
\* is spawned; its first check of the flag is here.  A download checks the flag
\* before it opens the path, and not again.
Open(t) ==
    /\ tr[t].pc = "open"
    /\ \/ /\ ~(Is(t, "download") /\ tr[t].flag)
          /\ Goto(t, "relay")
          /\ rd' = [rd EXCEPT ![t] = IF tr[t].flag THEN Stopped(t, NoTask, "cancelled")
                                     ELSE [NoTask EXCEPT !.pc = "read"]]
          /\ dest' = Of(t, 0)
          /\ open' = open \cup {t}
          /\ hist' = [hist EXCEPT !.apart = Transfer \ {t}]
          /\ UNCHANGED src
       \/ Is(t, "download") /\ tr[t].flag /\ Return(t, "cancelled") /\ UNCHANGED hist
       \/ Return(t, "error") /\ UNCHANGED hist

---------------------------------------------------------------------------
(* The read task: chunks of the source into the queue. *)

More(t)  == src[t] \in {"up", "ok"} /\ rd[t].got < Chunks
AtEnd(t) == src[t] \in {"bad", "lost"} \/ (src[t] = "ok" /\ rd[t].got = Chunks)

ReadChunk(t) ==
    /\ rd[t].pc = "read" /\ More(t)
    /\ rd' = [rd EXCEPT ![t].pc = "full", ![t].got = @ + 1]
    /\ UNCHANGED <<tr, src, dest, open, hist>>

\* The end of the source's output, however it came; SFTP tells an error.
Eof(t) ==
    /\ rd[t].pc = "read" /\ AtEnd(t)
    /\ rd' = [rd EXCEPT ![t] =
          Stopped(t, @, IF Is(t, "download") /\ src[t] # "ok" THEN "error" ELSE "ok")]
    /\ UNCHANGED <<tr, src, dest, open, hist>>

\* Nothing came for 200 ms, and the flag is up.
Poll(t) ==
    /\ rd[t].pc = "read" /\ tr[t].flag
    /\ rd' = [rd EXCEPT ![t] = Stopped(t, @, "cancelled")]
    /\ UNCHANGED <<tr, src, dest, open, hist>>

\* Mutant of Push: the queue has no limit.
PushUnbounded(t) ==
    /\ ~Is(t, "download") /\ rd[t].pc = "full"
    /\ rd' = [rd EXCEPT ![t].queue = @ + 1, ![t].pc = "read"]
    /\ UNCHANGED <<tr, src, dest, open, hist>>

\* The chunk enters the queue; the loop begins with a look at the flag.
Push(t) ==
    /\ ~Is(t, "download") /\ rd[t].pc = "full" /\ rd[t].queue < Depth
    /\ LET r == [rd[t] EXCEPT !.queue = rd[t].queue + 1, !.pc = "read"]
       IN rd' = [rd EXCEPT ![t] = IF tr[t].flag THEN Stopped(t, r, "cancelled") ELSE r]
    /\ UNCHANGED <<tr, src, dest, open, hist>>

\* wait_channel_success: a bad status counts unless the reader has skipped it
\* on its way to the end of the data; a channel that ends without is fine.
Drained(t) ==
    /\ rd[t].pc = "drain" /\ src[t] # "up"
    /\ \E res \in {rd[t].res} \cup
                  (IF src[t] = "bad" /\ rd[t].res = "ok" THEN {"error"} ELSE {}) :
          rd' = [rd EXCEPT ![t].pc = "done", ![t].res = res]
    /\ UNCHANGED <<tr, src, dest, open, hist>>

\* A remote source ends: all of it, or too early, with a status or with the
\* connection.
SourceEnds(t) ==
    /\ tr[t].pc \in Piping /\ src[t] = "up"
    /\ src' \in {[src EXCEPT ![t] = s] : s \in {"ok", "bad", "lost"}}
    /\ UNCHANGED <<tr, rd, dest, open, hist>>

---------------------------------------------------------------------------
(* The loop that writes. *)

\* The next chunk: from the queue, or, in a download, as it was read; then the
\* next read begins with the write.
HasChunk(t) == IF Is(t, "download") THEN rd[t].pc = "full" ELSE rd[t].queue > 0
Taken(t) == IF Is(t, "download") THEN [rd[t] EXCEPT !.pc = "read"]
            ELSE [rd[t] EXCEPT !.queue = @ - 1]

\* Mutants of Receive: the flag is not looked at, or ends the loop without an
\* answer.
ReceiveBlind(t) ==
    /\ tr[t].pc = "relay" /\ HasChunk(t)
    /\ Goto(t, "write") /\ rd' = [rd EXCEPT ![t] = Taken(t)]
    /\ UNCHANGED <<src, dest, open, hist>>
ReceiveStops(t) ==
    /\ tr[t].pc = "relay" /\ HasChunk(t) /\ ~tr[t].flag
    /\ Goto(t, "write") /\ rd' = [rd EXCEPT ![t] = Taken(t)]
    /\ UNCHANGED <<src, dest, open, hist>>

\* A download does not look at the flag here.
Receive(t) ==
    /\ tr[t].pc = "relay" /\ HasChunk(t)
    /\ IF tr[t].flag /\ ~Is(t, "download") THEN Return(t, "cancelled")
       ELSE /\ Goto(t, "write") /\ rd' = [rd EXCEPT ![t] = Taken(t)]
            /\ UNCHANGED <<src, dest, open>>
    /\ UNCHANGED hist

\* What the path holds after one more chunk of t.
Grown(t) ==
    IF t \notin open THEN dest
    ELSE IF dest.kind = "file" /\ dest.by = t THEN Of(t, dest.n + 1) ELSE Mixed

Write(t) ==
    /\ tr[t].pc = "write"
    /\ Goto(t, "relay")
    /\ dest' = Grown(t)
    /\ hist' = [hist EXCEPT !.after[t] = IF tr[t].flag /\ @ < 2 THEN @ + 1 ELSE @,
                            !.apart = IF t \in open /\ dest # Of(t, dest.n)
                                      THEN @ \cup (Transfer \ {t}) ELSE @]
    /\ UNCHANGED <<rd, src, open>>

WriteFails(t) ==
    /\ tr[t].pc = "write"
    /\ Return(t, "error")
    /\ UNCHANGED hist

\* What the path holds when writes of t that it had not answered yet failed:
\* the last chunks are not there, or there are holes.
Short(t) ==
    IF t \in open /\ dest.kind = "file" /\ dest.by = t
    THEN {Of(t, n) : n \in 0..dest.n} \cup {Mixed} ELSE {dest}

\* t returns as if those writes had succeeded.
ReturnCut(t, res) ==
    /\ Leave(t, res)
    /\ dest' \in Short(t)
    /\ hist' = [hist EXCEPT !.cut = @ \cup {t}]

\* The reader has ended and no chunk is left.  An upload or a download has its
\* result, the shutdown of an upload's file fails without a word
\* (shutdown().await.ok()); a send tells the destination and waits for it.
QueueClosed(t) ==
    /\ tr[t].pc = "relay" /\ rd[t].queue = 0 /\ rd[t].pc = "done"
    /\ \/ /\ Is(t, "send") /\ Goto(t, "finish")
          /\ UNCHANGED <<rd, src, dest, open, hist>>
       \/ ~Is(t, "send") /\ Return(t, rd[t].res) /\ UNCHANGED hist
       \/ Is(t, "upload") /\ rd[t].res = "ok" /\ ReturnCut(t, "ok")

\* Mutant of Finish: the result of the read task is not looked at.
FinishAlone(t) ==
    /\ tr[t].pc = "finish"
    /\ \/ Return(t, "ok") /\ UNCHANGED hist
       \/ ReturnCut(t, "ok")
       \/ Return(t, "error") /\ UNCHANGED hist

\* The destination reports success, goes away without a word, which counts as
\* success, or fails.
Finish(t) ==
    /\ tr[t].pc = "finish"
    /\ \/ Return(t, rd[t].res) /\ UNCHANGED hist
       \/ ReturnCut(t, rd[t].res)
       \/ Return(t, "error") /\ UNCHANGED hist

---------------------------------------------------------------------------
(* After the transfer. *)

\* The entry is removed; a cancelled send then cleans up, on a connection of
\* its own, whether it had opened the path or not.
Clear(t) ==
    /\ tr[t].pc = "clear"
    /\ tr' = [tr EXCEPT ![t].reg = FALSE,
                        ![t].pc = IF Is(t, "send") /\ tr[t].res = "cancelled"
                                  THEN "cleanup" ELSE "done"]
    /\ UNCHANGED <<rd, src, dest, open, hist>>

Cleanup(t) ==
    /\ tr[t].pc = "cleanup"
    /\ Goto(t, "remove") \/ Goto(t, "done")
    /\ UNCHANGED <<rd, src, dest, open, hist>>

\* remove_remote_path, remove_remote_file, remove_file: what the path holds
\* goes, or the removal fails, which is ignored.
Remove(t) ==
    /\ tr[t].pc = "remove"
    /\ Goto(t, IF Is(t, "send") THEN "done" ELSE "clear")
    /\ \/ /\ dest' = Absent /\ open' = {}
          /\ hist' = [hist EXCEPT !.apart = @ \cup (Transfer \ {t})]
       \/ UNCHANGED <<dest, open, hist>>
    /\ UNCHANGED <<rd, src>>

---------------------------------------------------------------------------
Reader(t) == Eof(t) \/ Poll(t) \/ Push(t) \/ Drained(t)
Task(t)   == Lookup(t) \/ Connected(t) \/ NotConnected(t) \/ Open(t)
             \/ Receive(t) \/ QueueClosed(t) \/ Clear(t) \/ Cleanup(t)
Target(t) == Write(t) \/ WriteFails(t) \/ Finish(t) \/ Remove(t)
Source(t) == ReadChunk(t) \/ SourceEnds(t)

\* Every id is used up.
AllDone == /\ \A t \in Transfer : tr[t].pc = "done" /\ (tr[t].reg => tr[t].flag)
           /\ UNCHANGED vars

Next == \/ \E t \in Transfer : Begin(t) \/ Cancel(t) \/ Reader(t) \/ Task(t)
                               \/ Target(t) \/ Source(t)
        \/ AllDone

Spec == Init /\ [][Next]_vars

\* The application's tasks run, and a connection or what is asked of the
\* destination ends with an answer or an error.
StallFairness == \A t \in Transfer : WF_vars(Reader(t)) /\ WF_vars(Task(t)) /\ WF_vars(Target(t))

\* And the source goes on as well.
Fairness == StallFairness /\ \A t \in Transfer : WF_vars(ReadChunk(t)) /\ WF_vars(SourceEnds(t))

FairSpec == Spec /\ Fairness

---------------------------------------------------------------------------
(* Properties. *)

\* A transfer that reports success has put every chunk at its path, in spite
\* of the queue, of a cancel that came too late, and of what reader and writer
\* each saw of it.  Not so if the source of a send broke off or its destination
\* went away, for a channel without a status passes for success; if the last
\* writes of an upload failed, for nobody looks at its shutdown; or if another
\* transfer of the same path came in between.
WholeIfSent ==
    \A t \in Transfer \ (hist.apart \cup hist.cut) :
        /\ tr[t].pc \in {"clear", "done"} /\ tr[t].res = "ok"
        /\ Is(t, "send") => src[t] = "ok"
        => dest = Of(t, Chunks)

\* While a transfer runs it can be cancelled, and after a cancel that was
\* accepted at most the chunk whose write had begun is still handed to the
\* destination.  Not so for a download, which looks at the flag only when
\* nothing has come for 200 ms: one that flows is not stopped.
CancelHeard ==
    \A t \in Transfer : /\ tr[t].pc \in Running => tr[t].reg
                        /\ ~Is(t, "download") => hist.after[t] <= 1

\* Every transfer ends, cancelled or not, if its source and its destination
\* answer or fail.
TransfersEnd == \A t \in Transfer : tr[t].pc # "idle" ~> tr[t].pc = "done"

\* "the transfer stops, nothing hangs": a cancel that was accepted ends the
\* pipe, also when the source has gone silent.
CancelStops == \A t \in Transfer : tr[t].flag /\ tr[t].pc \in Piping ~> tr[t].pc \notin Piping
===========================================================================
