--------------------------- MODULE DbConnections ---------------------------
(***************************************************************************)
(* The saved database connections: records in a catalog file               *)
(* (db/catalog.rs, stored through durable.rs, here one atomic write) and   *)
(* their passwords in an encrypted vault file with a copy in memory        *)
(* (db/secrets.rs).  db_save_connection writes the password, awaits a      *)
(* probe of the server and stores the catalog; db_delete_connection        *)
(* removes the password and stores the catalog (db/commands.rs).  Writes   *)
(* fail, probes fail, and the process may end between any two of them.     *)
(***************************************************************************)
EXTENDS Integers, FiniteSets

CONSTANTS
    Task,        \* commands that may run at the same time
    Conn,        \* connection ids
    Target,      \* what a record says besides its password
    Optional,    \* those of an engine that needs no password (redis)
    Pw,          \* passwords a user types
    Trim(_),     \* a password without the blanks around it; one of blanks only stays
    MaxCommand,  \* bound: commands
    MaxFault     \* bound: crashes and failing writes

ASSUME ConnectionAssumption ==
    MaxCommand \in Nat /\ MaxFault \in Nat /\ Conn # {} /\ Pw # {} /\ 0 \notin Pw
    /\ Optional \subseteq Target /\ \A p \in Pw : Trim(p) \in Pw

VARIABLES
    catalog,     \* the catalog file: a record or Absent
    memory,      \* the vault in memory: a password or NoPw
    vault,       \* the vault file
    keychain,    \* passwords of an earlier version, in the login keychain
    imported,    \* the marker that they were copied
    task,        \* the commands
    acked,       \* history: record and password as the last command left them
    doubt,       \* history: passwords a fault may have left behind
    half,        \* history: connections whose record a failed write may have changed
    accepted,    \* history: target and password pairs a server accepted
    commands, faults

vars == <<catalog, memory, vault, keychain, imported, task, acked, doubt, half,
          accepted, commands, faults>>

NoPw == 0
Word == Pw \cup {NoPw}
\* A record names its secret or, for engines that need none, does not.
Absent == [target |-> "absent", secret |-> FALSE]
Record == [target : Target, secret : BOOLEAN] \cup {Absent}

Idle == [pc |-> "idle", kind |-> "none", conn |-> CHOOSE c \in Conn : TRUE, target |-> "absent",
         pw |-> NoPw, snap |-> [c \in Conn |-> Absent], previous |-> NoPw, written |-> FALSE]

TypeOK ==
    /\ catalog \in [Conn -> Record]
    /\ memory \in [Conn -> Word] /\ vault \in [Conn -> Word] /\ keychain \in [Conn -> Word]
    /\ imported \in BOOLEAN
    /\ task \in [Task -> [pc : {"idle", "load", "secret", "probe", "store", "rollback"},
                          kind : {"none", "typed", "blank", "clear", "new", "delete"},
                          conn : Conn, target : Target \cup {"absent"}, pw : Word,
                          snap : [Conn -> Record], previous : Word, written : BOOLEAN]]
    /\ acked \in [Conn -> [record : Record, pw : Word]]
    /\ doubt \in [Conn -> SUBSET Word] /\ half \subseteq Conn /\ accepted \subseteq Target \X Word
    /\ commands \in 0..MaxCommand /\ faults \in 0..MaxFault

\* One connection of an earlier version: its password, if it has one, is in the
\* keychain.
Init ==
    /\ catalog \in [Conn -> Record]
    /\ Cardinality({c \in Conn : catalog[c] # Absent}) = 1
    /\ keychain \in [Conn -> Word]
    /\ \A c \in Conn : /\ keychain[c] # NoPw <=> catalog[c].secret
                       /\ catalog[c] # Absent /\ ~catalog[c].secret => catalog[c].target \in Optional
    /\ memory = [c \in Conn |-> NoPw] /\ vault = memory
    /\ imported = FALSE
    /\ task = [t \in Task |-> Idle]
    /\ acked = [c \in Conn |-> [record |-> catalog[c], pw |-> keychain[c]]]
    /\ doubt = [c \in Conn |-> {}]
    /\ accepted = {<<catalog[c].target, keychain[c]>> : c \in {d \in Conn : catalog[d] # Absent}}
    /\ half = {} /\ commands = 0 /\ faults = 0

Go(t, s) == task' = [task EXCEPT ![t] = s]
Return(t) == Go(t, Idle)

---------------------------------------------------------------------------
(* FileVault: memory first, then the whole file *)

Written(m) == memory' = m /\ vault' = m

\* The write of the file fails: the entry in memory has changed.
NotWritten(m) ==
    /\ faults < MaxFault /\ faults' = faults + 1
    /\ memory' = m
    /\ doubt' = [c \in Conn |-> doubt[c] \cup (IF m[c] # vault[c] THEN {m[c], vault[c]} ELSE {})]
    /\ UNCHANGED vault

\* A command tells the user something new about c.
Acked(c, record, pw) ==
    /\ acked' = [acked EXCEPT ![c] = [record |-> record, pw |-> pw]]
    /\ doubt' = IF memory[c] = pw /\ vault[c] = pw THEN [doubt EXCEPT ![c] = {}]
                ELSE IF c \in half THEN [doubt EXCEPT ![c] = @ \cup {memory[c], vault[c]}]
                ELSE doubt
    /\ half' = half \ {c}

---------------------------------------------------------------------------
(* db_save_connection *)

Begin(t, c, kind) ==
    /\ task[t].pc = "idle" /\ commands < MaxCommand
    /\ commands' = commands + 1
    /\ \E d \in Target, p \in Word :
          /\ kind = "typed" => p # NoPw
          /\ kind \notin {"typed", "new"} => p = NoPw
          /\ kind = "clear" => d \in Optional
          /\ Go(t, [Idle EXCEPT !.pc = "load", !.kind = kind, !.conn = c, !.target = d, !.pw = p])
    /\ UNCHANGED <<catalog, memory, vault, keychain, imported, acked, doubt, half, accepted, faults>>

\* Passwords that are still in the keychain only.
Missing == {c \in Conn : catalog[c].secret /\ memory[c] = NoPw /\ keychain[c] # NoPw}

\* load_catalog: the file is read; the first time, the passwords of the earlier
\* version are copied, and the marker is written.
LoadCatalog(t) ==
    LET copied == [c \in Conn |-> IF c \in Missing THEN keychain[c] ELSE memory[c]]
        s == [task[t] EXCEPT !.pc = "secret", !.snap = catalog]
    IN /\ task[t].pc = "load"
       /\ \/ imported /\ Go(t, s) /\ UNCHANGED <<memory, vault, doubt, imported, faults>>
          \/ /\ ~imported /\ imported' = TRUE
             /\ Go(t, s)
             /\ IF Missing = {} THEN UNCHANGED <<memory, vault>> ELSE Written(copied)
             /\ UNCHANGED <<doubt, faults>>
          \/ /\ ~imported /\ Missing # {}
             /\ NotWritten(copied)
             /\ Return(t) /\ UNCHANGED imported
       /\ UNCHANGED <<catalog, keychain, acked, half, accepted, commands>>

\* The password that catalog.save finds for the record: none in the vault counts
\* where the record names no secret.
Had(s) == IF s.snap[s.conn].secret THEN memory[s.conn] ELSE NoPw

\* The save writes to the vault: a typed password, or the removal of a cleared one.
Touches(s) ==
    \/ s.pw # NoPw
    \/ s.kind = "clear" /\ s.snap[s.conn].secret

\* The record is not there; a password is needed, and neither typed nor had; or
\* the one that the record names is not in the vault.
Unusable(s) ==
    \/ s.kind # "new" /\ s.snap[s.conn] = Absent
    \/ /\ s.kind \in {"blank", "new"} /\ s.pw = NoPw /\ Had(s) = NoPw
       /\ s.target \in Optional => s.snap[s.conn].secret

Refused(t) ==
    LET s == task[t] IN
    /\ s.pc = "secret" /\ s.kind # "delete" /\ Unusable(s)
    /\ Return(t)
    /\ UNCHANGED <<catalog, memory, vault, keychain, imported, acked, doubt, half, accepted,
                   commands, faults>>

\* Mutant of Edited: a cleared form field is stored.
EditedBlank(s) == [s.snap EXCEPT ![s.conn] = [target |-> "", secret |-> s.kind # "clear"]]

\* The record the save makes of the snapshot: it names a secret if a password was
\* typed, or if it named one that was not cleared.
Names(s)  == s.pw # NoPw \/ (s.kind # "clear" /\ s.snap[s.conn].secret)
Edited(s) == [s.snap EXCEPT ![s.conn] = [target |-> s.target, secret |-> Names(s)]]

\* Mutant of Secret: the previous password is not kept for a rollback.
SecretForgets(t) ==
    LET s == task[t]
        m == [memory EXCEPT ![s.conn] = s.pw]
    IN /\ s.pc = "secret" /\ s.kind # "delete" /\ ~Unusable(s) /\ Touches(s)
       /\ Written(m)
       /\ Go(t, [s EXCEPT !.pc = "probe", !.snap = Edited(s), !.written = TRUE])
       /\ UNCHANGED <<catalog, keychain, imported, acked, doubt, half, accepted, commands, faults>>

\* catalog.save puts a typed password into the vault or deletes a cleared one;
\* if the vault fails, the command returns without a rollback.
Secret(t) ==
    LET s == task[t]
        m == [memory EXCEPT ![s.conn] = s.pw]
    IN /\ s.pc = "secret" /\ s.kind # "delete" /\ ~Unusable(s) /\ Touches(s)
       /\ \/ /\ Written(m)
             /\ Go(t, [s EXCEPT !.pc = "probe", !.snap = Edited(s),
                                !.previous = Had(s), !.written = TRUE])
             /\ UNCHANGED <<doubt, faults>>
          \/ NotWritten(m) /\ Return(t)
       /\ UNCHANGED <<catalog, keychain, imported, acked, half, accepted, commands>>

\* No password is typed and none is to be cleared: what the record names stays in
\* the vault, and it, or no password, is what is probed.
Keep(t) ==
    LET s == task[t] IN
    /\ s.pc = "secret" /\ s.kind # "delete" /\ ~Unusable(s) /\ ~Touches(s)
    /\ Go(t, [s EXCEPT !.pc = "probe", !.snap = Edited(s), !.pw = Had(s)])
    /\ UNCHANGED <<catalog, memory, vault, keychain, imported, acked, doubt, half, accepted,
                   commands, faults>>

\* Mutant of Probe: the answer of the server is not looked at.
ProbeBlind(t) ==
    /\ task[t].pc = "probe"
    /\ Go(t, [task[t] EXCEPT !.pc = "store"])
    /\ UNCHANGED <<catalog, memory, vault, keychain, imported, acked, doubt, half, accepted,
                   commands, faults>>

\* A typed password is probed without the blanks around it; the vault has them.
Typed(p)  == IF p = NoPw THEN NoPw ELSE Trim(p)
Probed(s) == IF s.kind \in {"typed", "new"} THEN Typed(s.pw) ELSE s.pw

\* The server accepts the form's target and password, or the save is undone.
Probe(t) ==
    LET s == task[t] IN
    /\ s.pc = "probe"
    /\ \/ /\ Go(t, [s EXCEPT !.pc = "store"])
          /\ accepted' = accepted \cup {<<s.target, Probed(s)>>}
       \/ Go(t, [s EXCEPT !.pc = "rollback"]) /\ UNCHANGED accepted
    /\ UNCHANGED <<catalog, memory, vault, keychain, imported, acked, doubt, half, commands, faults>>

\* save_value returns an error: the primary file has the document all the same
\* if it was the mirror that failed.  A deletion has removed the password by
\* then; and where the record left names no secret, a later save that is undone
\* removes it.
StoreFails(s) ==
    /\ faults < MaxFault /\ faults' = faults + 1
    /\ \/ UNCHANGED <<catalog, half>>
       \/ catalog' = s.snap /\ half' = half \cup {s.conn}
    /\ doubt' = IF s.kind = "delete" \/ ~catalog'[s.conn].secret
                THEN [doubt EXCEPT ![s.conn] = @ \cup {NoPw}] ELSE doubt
    /\ UNCHANGED acked

\* store_catalog writes the whole snapshot.
Store(t) ==
    LET s == task[t] IN
    /\ s.pc = "store" /\ s.kind # "delete"
    /\ \/ /\ catalog' = s.snap
          /\ Acked(s.conn, s.snap[s.conn], s.pw)
          /\ Return(t) /\ UNCHANGED faults
       \/ StoreFails(s) /\ Go(t, [s EXCEPT !.pc = "rollback"])
    /\ UNCHANGED <<memory, vault, keychain, imported, accepted, commands>>

\* rollback_save: the previous password again, or none; its error is ignored.
Rollback(t) ==
    LET s == task[t]
        m == [memory EXCEPT ![s.conn] = s.previous]
    IN /\ s.pc = "rollback"
       /\ Return(t)
       /\ \/ ~s.written /\ UNCHANGED <<memory, vault, doubt, faults>>
          \/ s.written /\ Written(m) /\ UNCHANGED <<doubt, faults>>
          \/ s.written /\ NotWritten(m)
       /\ UNCHANGED <<catalog, keychain, imported, acked, half, accepted, commands>>

---------------------------------------------------------------------------
(* db_delete_connection *)

\* catalog.delete: the record leaves the snapshot and its secret the vault; if
\* the vault fails, the catalog is not stored.
DeleteSecret(t) ==
    LET s == task[t]
        m == [memory EXCEPT ![s.conn] = NoPw]
        n == [s EXCEPT !.pc = "store", !.snap[s.conn] = Absent]
    IN /\ s.pc = "secret" /\ s.kind = "delete"
       /\ \/ /\ s.snap[s.conn] = Absent
             /\ Return(t) /\ UNCHANGED <<memory, vault, doubt, faults>>
          \/ /\ s.snap[s.conn] # Absent /\ ~s.snap[s.conn].secret
             /\ Go(t, n) /\ UNCHANGED <<memory, vault, doubt, faults>>
          \/ /\ s.snap[s.conn].secret
             /\ Written(m) /\ Go(t, n) /\ UNCHANGED <<doubt, faults>>
          \/ s.snap[s.conn].secret /\ NotWritten(m) /\ Return(t)
       /\ UNCHANGED <<catalog, keychain, imported, acked, half, accepted, commands>>

\* The catalog without the record; if it cannot be written, the record stays
\* and its password is gone.
StoreDeleted(t) ==
    LET s == task[t] IN
    /\ s.pc = "store" /\ s.kind = "delete"
    /\ Return(t)
    /\ \/ catalog' = s.snap /\ Acked(s.conn, Absent, NoPw) /\ UNCHANGED faults
       \/ StoreFails(s)
    /\ UNCHANGED <<memory, vault, keychain, imported, accepted, commands>>

---------------------------------------------------------------------------

\* Connections whose command is under way.
Busy == {task[t].conn : t \in {u \in Task : task[u].pc # "idle"}}

\* The process ends: the vault is read again from its file.
Crash ==
    /\ faults < MaxFault /\ faults' = faults + 1
    /\ memory' = vault
    /\ task' = [t \in Task |-> Idle]
    /\ doubt' = [c \in Conn |-> doubt[c] \cup (IF c \in Busy THEN {vault[c]} ELSE {})]
    /\ UNCHANGED <<catalog, vault, keychain, imported, acked, half, accepted, commands>>

Step(t) ==
    \/ \E c \in Conn :
          \/ acked[c].record = Absent /\ catalog[c] = Absent /\ c \notin Busy /\ Begin(t, c, "new")
          \/ \E k \in {"typed", "blank", "clear", "delete"} :
                catalog[c] # Absent /\ Begin(t, c, k)
    \/ LoadCatalog(t) \/ Refused(t) \/ Secret(t) \/ Keep(t) \/ Probe(t) \/ Store(t)
    \/ Rollback(t) \/ DeleteSecret(t) \/ StoreDeleted(t)

Next == Crash \/ \E t \in Task : Step(t)

Spec == Init /\ [][Next]_vars

---------------------------------------------------------------------------
(* Properties. *)

\* While no command runs, a connection has the record and, now and after a
\* restart, the password that its last successful command left: a save that was
\* refused or undone has changed neither, and a deleted connection leaves no
\* password.  Only a fault in the middle of a command of this connection leaves
\* another, and then one that command dealt with, or none where the fault left a
\* record that names no secret.
ConnectionKept ==
    Busy = {} => \A c \in Conn :
        /\ memory[c] \in {acked[c].pw} \cup doubt[c] \/ (~imported /\ c \in Missing)
        /\ imported => vault[c] \in {acked[c].pw} \cup doubt[c]
        /\ c \notin half => catalog[c] = acked[c].record

\* What a successful save leaves, the server accepted as a pair: this target
\* with this password, or with this password less the blanks around it.  (The
\* two differ in the code: that a query then logs in is not what is said.)
ProbedTogether ==
    \A c \in Conn : acked[c].record # Absent =>
        \E p \in {acked[c].pw, Typed(acked[c].pw)} : <<acked[c].record.target, p>> \in accepted
===========================================================================
