------------------------ MODULE DbConnections_proofs ------------------------
(***************************************************************************)
(* What saved connections keep: a save leaves a target and a password that *)
(* a server accepted together, for any number of commands at the same      *)
(* time; and, while commands follow one another, a connection has the      *)
(* record and the password its last successful command left, whatever      *)
(* fails in between.                                                       *)
(*                                                                         *)
(* The second does not hold of commands that overlap: each stores the      *)
(* whole catalog it loaded.  Its invariant says what the running command   *)
(* has done so far: which password is in the vault, which one a rollback   *)
(* would put there, and how its snapshot differs from the catalog.         *)
(***************************************************************************)
EXTENDS DbConnections, TLAPS, FiniteSetTheorems

Late == {"probe", "store", "rollback"}

\* What a command has made of its form.
Formed(s) ==
    /\ s.pc # "idle" => s.target \in Target
    /\ s.pc \in Late /\ s.kind # "delete" =>
          /\ s.snap[s.conn].target = s.target
          /\ ~s.snap[s.conn].secret => s.pw = NoPw
    /\ s.pc = "store" /\ s.kind # "delete" => <<s.target, Probed(s)>> \in accepted
    /\ s.pc = "store" /\ s.kind = "delete" => s.snap[s.conn] = Absent
    /\ s.kind = "clear" => s.pw = NoPw
    /\ s.pc \in {"probe", "rollback"} => s.kind # "delete"

\* The inductive invariant of any commands.
IInv == TypeOK /\ (\A t \in Task : Formed(task[t])) /\ ProbedTogether

\* What a connection's password may be, and where.
Allowed(c) == {acked[c].pw} \cup doubt[c]
Kept(c)    == memory[c] \in Allowed(c) /\ vault[c] \in Allowed(c)

\* A vault that was not written leaves both passwords in doubt.
Twofold(c) == memory[c] # vault[c] => memory[c] \in doubt[c] /\ vault[c] \in doubt[c]

\* A record that names no secret goes with no password, or a fault made it so.
Recorded(c) == /\ c \notin half => catalog[c] = acked[c].record
               /\ ~acked[c].record.secret => acked[c].pw = NoPw
               /\ ~catalog[c].secret => NoPw \in Allowed(c)

\* Before the passwords are copied, nothing has been done to a connection.
Earlier(c) ==
    ~imported => /\ vault[c] = NoPw /\ memory[c] \in {NoPw, keychain[c]} /\ c \notin half
                 /\ acked[c] = [record |-> catalog[c], pw |-> keychain[c]]
                 /\ keychain[c] # NoPw => catalog[c].secret

\* The password of a save: in the vault, with the one of before for a rollback;
\* or nothing was written, and it is what the connection has.
Held(s) ==
    \/ /\ s.written /\ memory[s.conn] = s.pw /\ vault[s.conn] = s.pw
       /\ s.previous \in Allowed(s.conn)
    \/ /\ ~s.written /\ Kept(s.conn)
       /\ memory[s.conn] \in {s.pw} \cup doubt[s.conn] \/ s.conn \in half

\* How far the command is.
Doing(s) ==
    /\ ~imported => s.pc \in {"idle", "load"}
    /\ imported => \A c \in Conn : c # s.conn \/ s.pc \in {"idle", "load", "secret"} => Kept(c)
    /\ s.pc = "secret" => s.snap = catalog
    /\ s.pc \in {"idle", "load", "secret"} => ~s.written
    /\ s.pc \in {"probe", "store"} => \A c \in Conn : c # s.conn => s.snap[c] = catalog[c]
    /\ s.pc \in Late /\ s.kind # "delete" =>
          Held(s)
    /\ s.pc = "store" /\ s.kind = "delete" =>
          \/ memory[s.conn] = NoPw /\ vault[s.conn] = NoPw
          \/ Kept(s.conn) /\ (s.conn \in half \/ acked[s.conn].pw = NoPw)

\* The inductive invariant of the command t, while it is the only one.
Alone(t) ==
    /\ \A c \in Conn : Twofold(c) /\ Recorded(c) /\ Earlier(c)
    /\ Doing(task[t])

---------------------------------------------------------------------------
(* Typing. *)

TaskRec == [pc : {"idle", "load", "secret", "probe", "store", "rollback"},
            kind : {"none", "typed", "blank", "clear", "new", "delete"},
            conn : Conn, target : Target \cup {"absent"}, pw : Word,
            snap : [Conn -> Record], previous : Word, written : BOOLEAN]
AckRec == [record : Record, pw : Word]

Typing ==
    /\ catalog \in [Conn -> Record]
    /\ memory \in [Conn -> Word] /\ vault \in [Conn -> Word] /\ keychain \in [Conn -> Word]
    /\ imported \in BOOLEAN
    /\ task \in [Task -> TaskRec] /\ acked \in [Conn -> AckRec]
    /\ doubt \in [Conn -> SUBSET Word] /\ half \subseteq Conn /\ accepted \subseteq Target \X Word
    /\ commands \in 0..MaxCommand /\ faults \in 0..MaxFault

LEMMA TypeIs == (TypeOK <=> Typing) /\ (TypeOK' <=> Typing')
BY DEF Typing, TypeOK, TaskRec, AckRec

LEMMA RecordTyped ==
    /\ Absent \in Record /\ Absent.secret = FALSE /\ NoPw \in Word /\ Pw \subseteq Word
    /\ \A d \in Target, b \in BOOLEAN : [target |-> d, secret |-> b] \in Record
    /\ \A r \in Record : r # Absent => r.target \in Target
BY DEF Record, Absent, Word, NoPw

LEMMA IdleTyped ==
    /\ Idle \in TaskRec /\ Idle.pc = "idle" /\ Idle.kind = "none" /\ Idle.pw = NoPw
    /\ Idle.written = FALSE
<1>1. (CHOOSE c \in Conn : TRUE) \in Conn
  BY ConnectionAssumption
<1>2. [c \in Conn |-> Absent] \in [Conn -> Record]
  BY RecordTyped
<1> QED
  BY <1>1, <1>2, RecordTyped DEF Idle, TaskRec

\* Counting the commands and the faults.
LEMMA CountTyped == /\ \A n \in 0..MaxCommand : n < MaxCommand => n + 1 \in 0..MaxCommand
                    /\ \A n \in 0..MaxFault : n < MaxFault => n + 1 \in 0..MaxFault
BY ConnectionAssumption

\* A vault with one password changed, written or not.
LEMMA VaultTyped ==
    ASSUME TypeOK, NEW m \in [Conn -> Word]
    PROVE  /\ Written(m) => memory' \in [Conn -> Word] /\ vault' \in [Conn -> Word]
           /\ NotWritten(m) => /\ memory' \in [Conn -> Word] /\ vault' \in [Conn -> Word]
                               /\ doubt' \in [Conn -> SUBSET Word] /\ faults' \in 0..MaxFault
<1> USE TypeIs DEF Typing
<1>1. NotWritten(m) => doubt' \in [Conn -> SUBSET Word]
  BY DEF NotWritten
<1>2. NotWritten(m) => faults' \in 0..MaxFault
  BY CountTyped DEF NotWritten
<1> QED
  BY <1>1, <1>2 DEF Written, NotWritten

LEMMA AckedTyped ==
    ASSUME TypeOK, NEW c \in Conn, NEW r \in Record, NEW p \in Word, Acked(c, r, p)
    PROVE  /\ acked' \in [Conn -> AckRec] /\ half' \subseteq Conn
           /\ doubt' \in [Conn -> SUBSET Word]
<1> USE TypeIs DEF Typing
<1>1. acked' \in [Conn -> AckRec]
  BY DEF Acked, AckRec
<1>2. memory[c] \in Word /\ vault[c] \in Word
  OBVIOUS
<1>3. doubt' \in [Conn -> SUBSET Word]
  BY <1>2 DEF Acked
<1> QED
  BY <1>1, <1>3 DEF Acked

---------------------------------------------------------------------------
(* Any commands. *)

\* What a step of t shows: the types, the other commands as they were, what t
\* has made of its form, and that no acceptance is forgotten.
Sound(t) == /\ TypeOK' /\ Formed(task[t])' /\ ProbedTogether'
            /\ \A u \in Task \ {t} : task'[u] = task[u]
            /\ accepted \subseteq accepted'

LEMMA SoundKeeps ==
    ASSUME IInv, NEW t \in Task, Sound(t)
    PROVE  IInv'
<1> SUFFICES ASSUME NEW u \in Task, u # t
             PROVE  Formed(task[u])'
  BY DEF IInv, Sound
<1>1. Formed(task[u]) /\ task'[u] = task[u]
  BY DEF IInv, Sound
<1> QED
  BY <1>1 DEF Formed, Sound

LEMMA InitTyped == Init => TypeOK
<1> SUFFICES ASSUME Init PROVE TypeOK
  OBVIOUS
<1>1. /\ catalog \in [Conn -> Record]
      /\ keychain \in [Conn -> Word] /\ memory = [c \in Conn |-> NoPw] /\ vault = memory
      /\ imported = FALSE /\ half = {} /\ commands = 0 /\ faults = 0
  BY DEF Init
<1>2. /\ task = [t \in Task |-> Idle] /\ doubt = [c \in Conn |-> {}]
      /\ acked = [c \in Conn |-> [record |-> catalog[c], pw |-> keychain[c]]]
      /\ accepted = {<<catalog[c].target, keychain[c]>> : c \in {d \in Conn : catalog[d] # Absent}}
  BY DEF Init
<1>3. catalog \in [Conn -> Record] /\ \A c \in Conn : catalog[c] # Absent => catalog[c].target \in Target
  BY <1>1, RecordTyped
<1>4. acked \in [Conn -> AckRec]
  BY <1>1, <1>2, <1>3 DEF AckRec
<1>5. accepted \subseteq Target \X Word
  BY <1>1, <1>2, <1>3
<1>6. memory \in [Conn -> Word] /\ vault \in [Conn -> Word]
  BY <1>1, RecordTyped
<1>7. task \in [Task -> TaskRec] /\ doubt \in [Conn -> SUBSET Word]
  BY <1>2, IdleTyped
<1>8. commands \in 0..MaxCommand /\ faults \in 0..MaxFault
  BY <1>1, ConnectionAssumption
<1> QED
  BY <1>1, <1>3, <1>4, <1>5, <1>6, <1>7, <1>8, TypeIs DEF Typing

LEMMA InitInvariant == Init => IInv
<1> SUFFICES ASSUME Init PROVE IInv
  OBVIOUS
<1>1. \A t \in Task : task[t] = Idle
  BY DEF Init
<1>2. \A t \in Task : Formed(task[t])
  BY <1>1, IdleTyped DEF Formed, Late
<1>3. /\ acked = [c \in Conn |-> [record |-> catalog[c], pw |-> keychain[c]]]
      /\ accepted = {<<catalog[c].target, keychain[c]>> : c \in {d \in Conn : catalog[d] # Absent}}
  BY DEF Init
<1>4. ProbedTogether
  BY <1>3 DEF ProbedTogether
<1> QED
  BY <1>2, <1>4, InitTyped DEF IInv

\* What is probed is a password, and the one that is stored or, trimmed, it.
LEMMA ProbedTyped ==
    ASSUME NEW s \in TaskRec
    PROVE  Probed(s) \in Word /\ Probed(s) \in {s.pw, Typed(s.pw)}
<1>1. s.pw \in Word
  BY DEF TaskRec
<1>2. Typed(s.pw) \in Word
  BY <1>1, ConnectionAssumption DEF Typed, Word, NoPw
<1> QED
  BY <1>1, <1>2 DEF Probed

LEMMA BeginSound ==
    ASSUME IInv, NEW t \in Task, NEW c \in Conn,
           NEW k \in {"typed", "blank", "clear", "new", "delete"}, Begin(t, c, k)
    PROVE  Sound(t)
<1> USE TypeIs DEF IInv, Typing
<1>1. PICK d \in Target, p \in Word :
         /\ k \notin {"typed", "new"} => p = NoPw
         /\ Go(t, [Idle EXCEPT !.pc = "load", !.kind = k, !.conn = c, !.target = d, !.pw = p])
  BY DEF Begin
<1> DEFINE n == [Idle EXCEPT !.pc = "load", !.kind = k, !.conn = c, !.target = d, !.pw = p]
<1>2. n \in TaskRec /\ n.pc = "load" /\ n.kind = k /\ n.target = d /\ n.pw = p
  BY IdleTyped, RecordTyped DEF TaskRec
<1>3. k = "clear" => p = NoPw
  BY <1>1
<1> HIDE DEF n
<1>4. task' = [task EXCEPT ![t] = n]
  BY <1>1 DEF Go, n
<1>5. commands' \in 0..MaxCommand
  BY CountTyped DEF Begin
<1>6. TypeOK'
  BY <1>2, <1>4, <1>5 DEF Begin
<1>7. Formed(task[t])'
  BY <1>2, <1>3, <1>4 DEF Formed, Late
<1> QED
  BY <1>4, <1>6, <1>7 DEF Begin, Sound, ProbedTogether

\* A command that ends, or fails, is idle.
LEMMA ReturnSound ==
    ASSUME IInv, NEW t \in Task, Return(t)
    PROVE  /\ task' \in [Task -> TaskRec] /\ Formed(task[t])'
           /\ \A u \in Task \ {t} : task'[u] = task[u]
<1>1. task' = [task EXCEPT ![t] = Idle] /\ task \in [Task -> TaskRec]
  BY TypeIs DEF Return, Go, IInv, Typing
<1> QED
  BY <1>1, IdleTyped DEF Formed, Late

LEMMA LoadSound ==
    ASSUME IInv, NEW t \in Task, LoadCatalog(t)
    PROVE  Sound(t)
<1> USE TypeIs DEF IInv, Typing
<1> DEFINE m == [c \in Conn |-> IF c \in Missing THEN keychain[c] ELSE memory[c]]
           s == [task[t] EXCEPT !.pc = "secret", !.snap = catalog]
<1>1. m \in [Conn -> Word]
  OBVIOUS
<1>2. task[t] \in TaskRec /\ Formed(task[t]) /\ task[t].pc = "load"
  BY DEF LoadCatalog
<1>3. s \in TaskRec /\ s.pc = "secret" /\ s.kind = task[t].kind /\ s.target = task[t].target
      /\ s.pw = task[t].pw
  BY <1>2 DEF TaskRec
<1>4. /\ UNCHANGED <<catalog, keychain, acked, half, accepted, commands>>
      /\ \/ imported /\ Go(t, s) /\ UNCHANGED <<memory, vault, doubt, imported, faults>>
         \/ /\ imported' = TRUE /\ Go(t, s)
            /\ UNCHANGED <<memory, vault>> \/ Written(m)
            /\ UNCHANGED <<doubt, faults>>
         \/ NotWritten(m) /\ Return(t) /\ UNCHANGED imported
  BY DEF LoadCatalog
<1> HIDE DEF m, s
<1>5. Go(t, s) => /\ task' \in [Task -> TaskRec] /\ Formed(task[t])'
                  /\ \A u \in Task \ {t} : task'[u] = task[u]
  BY <1>2, <1>3, <1>4 DEF Go, Formed, Late
<1>6. /\ task' \in [Task -> TaskRec] /\ Formed(task[t])'
      /\ \A u \in Task \ {t} : task'[u] = task[u]
  BY <1>4, <1>5, ReturnSound
<1>7. TypeOK'
  BY <1>1, <1>4, <1>6, VaultTyped
<1> QED
  BY <1>4, <1>6, <1>7 DEF Sound, ProbedTogether

LEMMA RefusedSound ==
    ASSUME IInv, NEW t \in Task, Refused(t)
    PROVE  Sound(t)
<1>1. Return(t) /\ UNCHANGED <<catalog, memory, vault, keychain, imported, acked, doubt, half,
                               accepted, commands, faults>>
  BY DEF Refused
<1>2. TypeOK'
  BY <1>1, ReturnSound, TypeIs DEF IInv, Typing
<1> QED
  BY <1>1, <1>2, ReturnSound DEF Sound, ProbedTogether, IInv

LEMMA EditedIs ==
    ASSUME NEW s \in TaskRec, s.target \in Target
    PROVE  /\ Edited(s) \in [Conn -> Record] /\ Edited(s)[s.conn].target = s.target
           /\ Edited(s)[s.conn].secret = Names(s)
           /\ \A c \in Conn : c # s.conn => Edited(s)[c] = s.snap[c]
<1>1. s.snap \in [Conn -> Record] /\ s.conn \in Conn
  BY DEF TaskRec
<1> DEFINE r == [target |-> s.target, secret |-> Names(s)]
<1>2. r \in Record /\ r.target = s.target /\ r.secret = Names(s)
  <2>1. Names(s) \in BOOLEAN
    BY <1>1 DEF Names, Record, Absent
  <2> QED
    BY <2>1 DEF Record
<1>3. Edited(s) = [s.snap EXCEPT ![s.conn] = r]
  BY DEF Edited
<1> HIDE DEF r
<1> QED
  BY <1>1, <1>2, <1>3

LEMMA SecretSound ==
    ASSUME IInv, NEW t \in Task, Secret(t)
    PROVE  Sound(t)
<1> USE TypeIs DEF IInv, Typing
<1> DEFINE s == task[t]
           m == [memory EXCEPT ![s.conn] = s.pw]
           n == [s EXCEPT !.pc = "probe", !.snap = Edited(s),
                          !.previous = Had(s), !.written = TRUE]
<1>1. s \in TaskRec /\ Formed(s) /\ s.pc = "secret" /\ s.target \in Target /\ s.kind # "delete"
  BY DEF Secret, Formed
<1>2. s.conn \in Conn /\ s.pw \in Word /\ Had(s) \in Word
  BY <1>1, RecordTyped DEF TaskRec, Had
<1>3. m \in [Conn -> Word]
  BY <1>2
<1>4. n \in TaskRec /\ n.pc = "probe" /\ n.kind = s.kind /\ n.target = s.target
      /\ n.pw = s.pw /\ n.snap = Edited(s) /\ n.conn = s.conn
  BY <1>1, <1>2, EditedIs DEF TaskRec
<1>5. /\ Edited(s)[s.conn].target = s.target
      /\ ~Edited(s)[s.conn].secret => s.pw = NoPw
      /\ s.kind = "clear" => s.pw = NoPw
  BY <1>1, EditedIs DEF Formed, Names
<1>6. /\ UNCHANGED <<catalog, keychain, imported, acked, half, accepted, commands>>
      /\ \/ Written(m) /\ Go(t, n) /\ UNCHANGED <<doubt, faults>>
         \/ NotWritten(m) /\ Return(t)
  BY DEF Secret
<1> HIDE DEF m, n
<1>7. Go(t, n) => task' = [task EXCEPT ![t] = n]
  BY DEF Go
<1>8. Go(t, n) => /\ task' \in [Task -> TaskRec] /\ Formed(task[t])'
                  /\ \A u \in Task \ {t} : task'[u] = task[u]
  <2> SUFFICES ASSUME Go(t, n)
               PROVE  /\ task' \in [Task -> TaskRec] /\ Formed(task[t])'
                      /\ \A u \in Task \ {t} : task'[u] = task[u]
    OBVIOUS
  <2>1. task' \in [Task -> TaskRec] /\ task'[t] = n /\ \A u \in Task \ {t} : task'[u] = task[u]
    BY <1>4, <1>7
  <2> QED
    BY <1>1, <1>4, <1>5, <2>1 DEF Formed, Late
<1>9. /\ task' \in [Task -> TaskRec] /\ Formed(task[t])'
      /\ \A u \in Task \ {t} : task'[u] = task[u]
  BY <1>6, <1>8, ReturnSound
<1>10. TypeOK'
  BY <1>3, <1>6, <1>9, VaultTyped
<1> QED
  BY <1>6, <1>9, <1>10 DEF Sound, ProbedTogether

LEMMA KeepSound ==
    ASSUME IInv, NEW t \in Task, Keep(t)
    PROVE  Sound(t)
<1> USE TypeIs DEF IInv, Typing
<1> DEFINE s == task[t]
           n == [s EXCEPT !.pc = "probe", !.snap = Edited(s), !.pw = Had(s)]
<1>1. s \in TaskRec /\ Formed(s) /\ s.pc = "secret" /\ s.target \in Target /\ s.kind # "delete"
  BY DEF Keep, Formed
<1>2. s.conn \in Conn /\ Had(s) \in Word
  BY <1>1, RecordTyped DEF TaskRec, Had
<1>3. n \in TaskRec /\ n.pc = "probe" /\ n.kind = s.kind /\ n.target = s.target
      /\ n.snap = Edited(s) /\ n.conn = s.conn /\ n.pw = Had(s)
  BY <1>1, <1>2, EditedIs DEF TaskRec
<1>4. /\ UNCHANGED <<catalog, memory, vault, keychain, imported, acked, doubt, half, accepted,
                     commands, faults>>
      /\ task' = [task EXCEPT ![t] = n]
  BY DEF Keep, Go
<1>5. /\ Edited(s)[s.conn].target = s.target
      /\ ~Edited(s)[s.conn].secret => Had(s) = NoPw
      /\ s.kind = "clear" => Had(s) = NoPw
  BY <1>1, EditedIs DEF Keep, Touches, Names, Had
<1> HIDE DEF n
<1>6. task'[t] = n /\ task' \in [Task -> TaskRec] /\ \A u \in Task \ {t} : task'[u] = task[u]
  BY <1>3, <1>4
<1>7. Formed(task[t])'
  BY <1>1, <1>3, <1>5, <1>6 DEF Formed, Late
<1>8. TypeOK'
  BY <1>4, <1>6
<1> QED
  BY <1>4, <1>6, <1>7, <1>8 DEF Sound, ProbedTogether

LEMMA ProbeSound ==
    ASSUME IInv, NEW t \in Task, Probe(t)
    PROVE  Sound(t)
<1> USE TypeIs DEF IInv, Typing
<1> DEFINE s == task[t]
<1>1. s \in TaskRec /\ Formed(s) /\ s.pc = "probe" /\ s.target \in Target /\ s.pw \in Word
  BY DEF Probe, Formed, TaskRec
<1>2. \A pc \in {"store", "rollback"} :
         [s EXCEPT !.pc = pc] \in TaskRec /\ [s EXCEPT !.pc = pc].pc = pc
  BY <1>1 DEF TaskRec
<1>3. /\ UNCHANGED <<catalog, memory, vault, keychain, imported, acked, doubt, half, commands, faults>>
      /\ \/ /\ task' = [task EXCEPT ![t] = [s EXCEPT !.pc = "store"]]
            /\ accepted' = accepted \cup {<<s.target, Probed(s)>>}
         \/ task' = [task EXCEPT ![t] = [s EXCEPT !.pc = "rollback"]] /\ UNCHANGED accepted
  BY DEF Probe, Go
<1>4. PICK pc \in {"store", "rollback"} : task' = [task EXCEPT ![t] = [s EXCEPT !.pc = pc]]
  BY <1>3
<1>5. task' \in [Task -> TaskRec] /\ \A u \in Task \ {t} : task'[u] = task[u]
  BY <1>2, <1>4
<1>6. accepted \subseteq accepted' /\ accepted' \subseteq Target \X Word
  BY <1>1, <1>3, ProbedTyped
<1>7. TypeOK'
  BY <1>3, <1>5, <1>6
<1>8. Formed(task[t])'
  <2> DEFINE n == [s EXCEPT !.pc = pc]
  <2>1. n.pc = pc /\ n.kind = s.kind /\ n.conn = s.conn /\ n.target = s.target /\ n.pw = s.pw
        /\ n.snap = s.snap
    BY <1>1 DEF TaskRec
  <2>2. task'[t] = n
    BY <1>4
  <2>3. s.kind # "delete" /\ (s.kind = "clear" => s.pw = NoPw)
        /\ s.snap[s.conn].target = s.target /\ (~s.snap[s.conn].secret => s.pw = NoPw)
    BY <1>1 DEF Formed, Late
  <2>5. Probed(n) = Probed(s)
    BY <2>1 DEF Probed
  <2>4. pc = "store" => <<s.target, Probed(s)>> \in accepted'
    <3>1. pc = "store" => n.pc = "store"
      BY <2>1
    <3>2. [s EXCEPT !.pc = "rollback"].pc = "rollback"
      BY <1>1 DEF TaskRec
    <3>3. task' = [task EXCEPT ![t] = [s EXCEPT !.pc = "rollback"]] => n.pc = "rollback"
      BY <2>2, <3>2
    <3> QED
      BY <1>3, <3>1, <3>3
  <2> HIDE DEF n
  <2> QED
    BY <1>1, <2>1, <2>2, <2>3, <2>4, <2>5 DEF Formed, Late
<1>9. ProbedTogether'
  BY <1>3, <1>6 DEF ProbedTogether
<1> QED
  BY <1>5, <1>6, <1>7, <1>8, <1>9 DEF Sound

\* A store that fails keeps types; for a save that is to be rolled back, see Store.
LEMMA StoreFailsTyped ==
    ASSUME TypeOK, NEW s \in TaskRec, StoreFails(s)
    PROVE  /\ catalog' \in [Conn -> Record] /\ half' \subseteq Conn /\ faults' \in 0..MaxFault
           /\ doubt' \in [Conn -> SUBSET Word]
<1> USE TypeIs DEF Typing
<1>1. s.snap \in [Conn -> Record] /\ s.conn \in Conn
  BY DEF TaskRec
<1>2. faults' \in 0..MaxFault
  BY CountTyped DEF StoreFails
<1>3. doubt' \in [Conn -> SUBSET Word]
  BY <1>1, RecordTyped DEF StoreFails
<1> QED
  BY <1>1, <1>2, <1>3 DEF StoreFails

\* A pair that is acknowledged was accepted.
LEMMA AckedProbed ==
    ASSUME IInv, NEW c \in Conn, NEW r \in Record, NEW p \in Word, Acked(c, r, p),
           UNCHANGED accepted,
           r # Absent => \E q \in {p, Typed(p)} : <<r.target, q>> \in accepted
    PROVE  ProbedTogether'
<1> USE TypeIs DEF IInv, Typing
<1>1. acked' = [acked EXCEPT ![c] = [record |-> r, pw |-> p]]
  BY DEF Acked
<1>2. acked'[c].record = r /\ acked'[c].pw = p /\ \A d \in Conn : d # c => acked'[d] = acked[d]
  BY <1>1
<1> QED
  BY <1>2 DEF ProbedTogether

LEMMA StoreSound ==
    ASSUME IInv, NEW t \in Task, Store(t)
    PROVE  Sound(t)
<1> USE TypeIs DEF IInv, Typing
<1> DEFINE s == task[t]
           n == [s EXCEPT !.pc = "rollback"]
<1>1. s \in TaskRec /\ Formed(s) /\ s.pc = "store" /\ s.kind # "delete" /\ s.target \in Target
  BY DEF Store, Formed
<1>2. s.conn \in Conn /\ s.pw \in Word /\ s.snap \in [Conn -> Record] /\ s.snap[s.conn] \in Record
  BY <1>1 DEF TaskRec
<1>3. /\ UNCHANGED <<memory, vault, keychain, imported, accepted, commands>>
      /\ \/ catalog' = s.snap /\ Acked(s.conn, s.snap[s.conn], s.pw) /\ Return(t) /\ UNCHANGED faults
         \/ StoreFails(s) /\ Go(t, n)
  BY DEF Store
<1>4. s.snap[s.conn].target = s.target /\ \E q \in {s.pw, Typed(s.pw)} : <<s.target, q>> \in accepted
  BY <1>1, ProbedTyped DEF Formed, Late
<1>5. CASE Return(t) /\ Acked(s.conn, s.snap[s.conn], s.pw) /\ catalog' = s.snap /\ UNCHANGED faults
  <2>1. ProbedTogether'
    BY <1>2, <1>3, <1>4, <1>5, AckedProbed
  <2>2. TypeOK'
    BY <1>2, <1>3, <1>5, AckedTyped, ReturnSound
  <2> QED
    BY <1>3, <1>5, <2>1, <2>2, ReturnSound DEF Sound
<1>6. CASE StoreFails(s) /\ Go(t, n)
  <2>1. n \in TaskRec /\ n.pc = "rollback" /\ n.kind = s.kind /\ n.conn = s.conn
        /\ n.target = s.target /\ n.pw = s.pw /\ n.snap = s.snap
    BY <1>1 DEF TaskRec
  <2>2. /\ s.snap[s.conn].target = s.target /\ (~s.snap[s.conn].secret => s.pw = NoPw)
        /\ s.kind = "clear" => s.pw = NoPw
    BY <1>1 DEF Formed, Late
  <2> HIDE DEF n
  <2>3. task' = [task EXCEPT ![t] = n]
    BY <1>6 DEF Go
  <2>4. task' \in [Task -> TaskRec] /\ task'[t] = n /\ \A u \in Task \ {t} : task'[u] = task[u]
    BY <2>1, <2>3
  <2>5. Formed(task[t])'
    BY <1>1, <2>1, <2>2, <2>4 DEF Formed, Late
  <2>6. UNCHANGED acked
    BY <1>6 DEF StoreFails
  <2>7. TypeOK'
    BY <1>1, <1>3, <1>6, <2>4, <2>6, StoreFailsTyped
  <2> QED
    BY <1>3, <2>4, <2>5, <2>6, <2>7 DEF Sound, ProbedTogether
<1> QED
  BY <1>3, <1>5, <1>6

LEMMA RollbackSound ==
    ASSUME IInv, NEW t \in Task, Rollback(t)
    PROVE  Sound(t)
<1> USE TypeIs DEF IInv, Typing
<1> DEFINE s == task[t]
           m == [memory EXCEPT ![s.conn] = s.previous]
<1>1. s \in TaskRec
  OBVIOUS
<1>2. m \in [Conn -> Word]
  BY <1>1 DEF TaskRec
<1>3. /\ Return(t) /\ UNCHANGED <<catalog, keychain, imported, acked, half, accepted, commands>>
      /\ \/ UNCHANGED <<memory, vault, doubt, faults>>
         \/ Written(m) /\ UNCHANGED <<doubt, faults>>
         \/ NotWritten(m)
  BY DEF Rollback
<1> HIDE DEF m
<1>4. TypeOK'
  BY <1>2, <1>3, ReturnSound, VaultTyped
<1> QED
  BY <1>3, <1>4, ReturnSound DEF Sound, ProbedTogether

LEMMA DeleteSecretSound ==
    ASSUME IInv, NEW t \in Task, DeleteSecret(t)
    PROVE  Sound(t)
<1> USE TypeIs DEF IInv, Typing
<1> DEFINE s == task[t]
           m == [memory EXCEPT ![s.conn] = NoPw]
           n == [s EXCEPT !.pc = "store", !.snap[s.conn] = Absent]
<1>1. s \in TaskRec /\ Formed(s) /\ s.pc = "secret" /\ s.kind = "delete" /\ s.target \in Target
      /\ s.conn \in Conn /\ s.snap \in [Conn -> Record]
  BY DEF DeleteSecret, Formed, TaskRec
<1>2. m \in [Conn -> Word]
  BY RecordTyped
<1>3. n \in TaskRec /\ n.pc = "store" /\ n.kind = "delete" /\ n.conn = s.conn
      /\ n.target = s.target /\ n.pw = s.pw /\ n.snap[s.conn] = Absent
  <2>1. [s.snap EXCEPT ![s.conn] = Absent] \in [Conn -> Record]
    BY <1>1, RecordTyped
  <2> QED
    BY <1>1, <2>1 DEF TaskRec
<1>4. /\ UNCHANGED <<catalog, keychain, imported, acked, half, accepted, commands>>
      /\ \/ Return(t) /\ UNCHANGED <<memory, vault, doubt, faults>>
         \/ Go(t, n) /\ UNCHANGED <<memory, vault, doubt, faults>>
         \/ Written(m) /\ Go(t, n) /\ UNCHANGED <<doubt, faults>>
         \/ NotWritten(m) /\ Return(t)
  BY DEF DeleteSecret
<1> HIDE DEF m, n
<1>5. Go(t, n) => /\ task' \in [Task -> TaskRec] /\ Formed(task[t])'
                  /\ \A u \in Task \ {t} : task'[u] = task[u]
  BY <1>1, <1>3, <1>4 DEF Go, Formed, Late
<1>6. /\ task' \in [Task -> TaskRec] /\ Formed(task[t])'
      /\ \A u \in Task \ {t} : task'[u] = task[u]
  BY <1>4, <1>5, ReturnSound
<1>7. TypeOK'
  BY <1>2, <1>4, <1>6, VaultTyped
<1> QED
  BY <1>4, <1>6, <1>7 DEF Sound, ProbedTogether

LEMMA StoreDeletedSound ==
    ASSUME IInv, NEW t \in Task, StoreDeleted(t)
    PROVE  Sound(t)
<1> USE TypeIs DEF IInv, Typing
<1> DEFINE s == task[t]
<1>1. s \in TaskRec /\ s.conn \in Conn /\ s.snap \in [Conn -> Record]
  BY DEF TaskRec
<1>2. /\ Return(t) /\ UNCHANGED <<memory, vault, keychain, imported, accepted, commands>>
      /\ \/ catalog' = s.snap /\ Acked(s.conn, Absent, NoPw) /\ UNCHANGED faults
         \/ StoreFails(s)
  BY DEF StoreDeleted
<1>3. CASE catalog' = s.snap /\ Acked(s.conn, Absent, NoPw) /\ UNCHANGED faults
  <2>1. ProbedTogether'
    BY <1>1, <1>2, <1>3, AckedProbed, RecordTyped
  <2>2. TypeOK'
    BY <1>1, <1>2, <1>3, AckedTyped, ReturnSound, RecordTyped
  <2> QED
    BY <1>2, <2>1, <2>2, ReturnSound DEF Sound
<1>4. CASE StoreFails(s)
  <2>1. UNCHANGED acked
    BY <1>4 DEF StoreFails
  <2>3. TypeOK'
    BY <1>1, <1>2, <1>4, <2>1, StoreFailsTyped, ReturnSound
  <2> QED
    BY <1>2, <2>1, <2>3, ReturnSound DEF Sound, ProbedTogether
<1> QED
  BY <1>2, <1>3, <1>4

LEMMA CrashKeeps ==
    ASSUME IInv, Crash
    PROVE  IInv'
<1> USE TypeIs DEF IInv, Typing
<1>1. task' = [t \in Task |-> Idle] /\ memory' = vault
      /\ UNCHANGED <<catalog, vault, keychain, imported, acked, half, accepted, commands>>
  BY DEF Crash
<1>2. doubt' \in [Conn -> SUBSET Word]
  BY DEF Crash
<1>3. faults' \in 0..MaxFault
  BY CountTyped DEF Crash
<1>4. TypeOK'
  BY <1>1, <1>2, <1>3, IdleTyped
<1>5. \A t \in Task : Formed(task[t])'
  BY <1>1, IdleTyped DEF Formed, Late
<1> QED
  BY <1>1, <1>4, <1>5 DEF ProbedTogether

LEMMA StepSound ==
    ASSUME IInv, NEW t \in Task, Step(t)
    PROVE  Sound(t)
BY BeginSound, LoadSound, RefusedSound, SecretSound, KeepSound, ProbeSound, StoreSound,
   RollbackSound, DeleteSecretSound, StoreDeletedSound DEF Step

LEMMA NextKeeps == IInv /\ [Next]_vars => IInv'
<1> SUFFICES ASSUME IInv, [Next]_vars PROVE IInv'
  OBVIOUS
<1>1. CASE Crash
  BY <1>1, CrashKeeps
<1>2. ASSUME NEW t \in Task, Step(t) PROVE IInv'
  BY <1>2, StepSound, SoundKeeps
<1>3. CASE UNCHANGED vars
  <2>1. UNCHANGED <<catalog, memory, vault, keychain, imported, task, acked, doubt, half,
                    accepted, commands, faults>>
    BY <1>3 DEF vars
  <2> QED
    BY <2>1, TypeIs DEF IInv, Typing, Formed, ProbedTogether
<1> QED
  BY <1>1, <1>2, <1>3 DEF Next

LEMMA Invariance == Spec => []IInv
BY InitInvariant, NextKeeps, PTL DEF Spec

\* Every variable keeps its type.
THEOREM TypeCorrect == Spec => []TypeOK
<1>1. IInv => TypeOK
  BY DEF IInv
<1> QED
  BY <1>1, Invariance, PTL

\* What a save reports to the user as saved, a server has accepted: this target
\* with this password or, as a typed one is probed without the blanks around it
\* and stored with them (commands.rs:199-204, 222-245), with what the probe made
\* of it; however many commands overlap.
THEOREM AcceptedTogether == Spec => []ProbedTogether
<1>1. IInv => ProbedTogether
  BY DEF IInv
<1> QED
  BY <1>1, Invariance, PTL

---------------------------------------------------------------------------
(* One command after the other. *)

\* What Alone says of one connection, whatever the command does.
Sane(c) == Twofold(c) /\ Recorded(c) /\ Earlier(c)

\* Nothing that is said of a connection has changed.
Still == UNCHANGED <<catalog, memory, vault, keychain, imported, acked, doubt, half>>

LEMMA StillKeeps ==
    ASSUME NEW c \in Conn, Still
    PROVE  /\ Sane(c) => Sane(c)'
           /\ Kept(c) => Kept(c)'
           /\ Allowed(c)' = Allowed(c)
BY DEF Still, Sane, Twofold, Recorded, Earlier, Kept, Allowed

\* The vault is changed for one connection, written or not.
LEMMA VaultKeeps ==
    ASSUME TypeOK, NEW m \in [Conn -> Word], (Written(m) /\ UNCHANGED doubt) \/ NotWritten(m),
           imported, UNCHANGED <<catalog, keychain, imported, acked, half>>,
           NEW c \in Conn
    PROVE  /\ Sane(c) => Sane(c)'
           /\ Kept(c) /\ m[c] = memory[c] => Kept(c)'
           /\ NotWritten(m) /\ (Kept(c) \/ m[c] \in Allowed(c)) => Kept(c)'
           /\ Written(m) /\ m[c] \in Allowed(c) => Kept(c)'
           /\ Written(m) => memory'[c] = m[c] /\ vault'[c] = m[c]
           /\ Allowed(c) \subseteq Allowed(c)'
<1> USE TypeIs DEF Typing
<1>1. NotWritten(m) => doubt'[c] = doubt[c] \cup (IF m[c] # vault[c] THEN {m[c], vault[c]} ELSE {})
  BY DEF NotWritten
<1>2. Allowed(c) \subseteq Allowed(c)'
  BY <1>1 DEF Allowed
<1>3. Twofold(c)'
  BY <1>1 DEF Twofold, Written, NotWritten
<1>4. NotWritten(m) => memory' = m /\ vault' = vault
  BY DEF NotWritten
<1>5. NotWritten(m) /\ m[c] # vault[c] => Kept(c)'
  BY <1>1, <1>4 DEF Kept, Allowed
<1>6. NotWritten(m) /\ m[c] = vault[c] /\ (Kept(c) \/ m[c] \in Allowed(c)) => Kept(c)'
  BY <1>2, <1>4 DEF Kept
<1>7. Written(m) => memory'[c] = m[c] /\ vault'[c] = m[c]
  BY DEF Written
<1>8. Written(m) /\ m[c] \in Allowed(c) => Kept(c)'
  BY <1>2, <1>7 DEF Kept
<1>9. Sane(c) => Sane(c)'
  BY <1>2, <1>3 DEF Sane, Recorded, Earlier
<1>10. Written(m) /\ Kept(c) /\ m[c] = memory[c] => Kept(c)'
  BY <1>8 DEF Kept
<1> QED
  BY <1>2, <1>5, <1>6, <1>7, <1>8, <1>9, <1>10

\* A command that has ended leaves every connection with what is allowed.
LEMMA DoingIdle ==
    ASSUME imported', \A c \in Conn : Kept(c)'
    PROVE  Doing(Idle)'
BY IdleTyped DEF Doing, Late

LEMMA AloneInit ==
    ASSUME Init, NEW t \in Task
    PROVE  Alone(t)
<1>1. TypeOK
  BY InitTyped
<1>2. task[t] = Idle /\ ~imported
  BY DEF Init
<1>3. Doing(task[t])
  BY <1>2, IdleTyped DEF Doing, Late
<1> SUFFICES ASSUME NEW c \in Conn
             PROVE  Twofold(c) /\ Recorded(c) /\ Earlier(c)
  BY <1>3 DEF Alone
<1>4. /\ memory[c] = NoPw /\ vault[c] = NoPw /\ half = {}
      /\ acked[c] = [record |-> catalog[c], pw |-> keychain[c]]
  BY DEF Init
<1>5. keychain[c] # NoPw <=> catalog[c].secret
  BY DEF Init
<1> QED
  BY <1>4, <1>5, RecordTyped DEF Twofold, Recorded, Earlier, Allowed

LEMMA ReturnDoes ==
    ASSUME IInv, NEW t \in Task, Return(t), imported', \A c \in Conn : Kept(c)'
    PROVE  Doing(task[t])'
<1>1. task'[t] = Idle
  BY TypeIs DEF Return, Go, IInv, Typing
<1>2. Doing(Idle)'
  BY DoingIdle
<1> QED
  BY <1>1, <1>2 DEF Doing

LEMMA BeginAlone ==
    ASSUME IInv, NEW t \in Task, Alone(t), NEW c \in Conn,
           NEW k \in {"typed", "blank", "clear", "new", "delete"}, Begin(t, c, k)
    PROVE  Alone(t)'
<1> USE TypeIs DEF IInv, Typing
<1>1. PICK d \in Target, p \in Word :
         /\ k \notin {"typed", "new"} => p = NoPw
         /\ Go(t, [Idle EXCEPT !.pc = "load", !.kind = k, !.conn = c, !.target = d, !.pw = p])
  BY DEF Begin
<1> DEFINE n == [Idle EXCEPT !.pc = "load", !.kind = k, !.conn = c, !.target = d, !.pw = p]
<1>2. n.pc = "load" /\ n.written = FALSE
  BY IdleTyped DEF TaskRec
<1> HIDE DEF n
<1>3. task'[t] = n
  BY <1>1 DEF Go, n
<1>4. Still /\ task[t].pc = "idle"
  BY DEF Begin, Still
<1>5. \A e \in Conn : Sane(e)' /\ (Kept(e) => Kept(e)')
  BY <1>4, StillKeeps DEF Alone, Sane
<1>6. imported => \A e \in Conn : Kept(e)
  BY <1>4 DEF Alone, Doing
<1>7. Doing(task[t])'
  BY <1>2, <1>3, <1>4, <1>5, <1>6 DEF Doing, Late, Still
<1> QED
  BY <1>5, <1>7 DEF Alone, Sane

LEMMA LoadAlone ==
    ASSUME IInv, NEW t \in Task, Alone(t), LoadCatalog(t)
    PROVE  Alone(t)'
<1> USE TypeIs DEF IInv, Typing
<1> DEFINE m == [c \in Conn |-> IF c \in Missing THEN keychain[c] ELSE memory[c]]
           s == [task[t] EXCEPT !.pc = "secret", !.snap = catalog]
<1>1. /\ m \in [Conn -> Word]
      /\ \A c \in Conn : m[c] = IF c \in Missing THEN keychain[c] ELSE memory[c]
  OBVIOUS
<1>2. task[t] \in TaskRec /\ task[t].pc = "load" /\ ~task[t].written
  BY DEF LoadCatalog, Alone, Doing
<1>3. s.pc = "secret" /\ s.snap = catalog /\ ~s.written
  BY <1>2 DEF TaskRec
<1>4. /\ UNCHANGED <<catalog, keychain, acked, half, accepted, commands>>
      /\ \/ imported /\ Go(t, s) /\ UNCHANGED <<memory, vault, doubt, imported, faults>>
         \/ /\ ~imported /\ imported' = TRUE /\ Go(t, s)
            /\ IF Missing = {} THEN UNCHANGED <<memory, vault>> ELSE Written(m)
            /\ UNCHANGED <<doubt, faults>>
         \/ ~imported /\ NotWritten(m) /\ Return(t) /\ UNCHANGED imported
  BY DEF LoadCatalog
<1> HIDE DEF m, s
<1>5. Go(t, s) => task'[t] = s
  BY DEF Go
<1>6. \A c \in Conn : Sane(c) /\ Twofold(c) /\ Recorded(c) /\ Earlier(c)
  BY DEF Alone, Sane
<1>7. CASE imported /\ Go(t, s) /\ UNCHANGED <<memory, vault, doubt, imported, faults>>
  <2>1. Still
    BY <1>4, <1>7 DEF Still
  <2>2. \A c \in Conn : Sane(c)' /\ Kept(c)'
    BY <1>2, <1>6, <1>7, <2>1, StillKeeps DEF Alone, Doing
  <2>3. Doing(task[t])'
    BY <1>3, <1>4, <1>5, <1>7, <2>2 DEF Doing, Late
  <2> QED
    BY <2>2, <2>3 DEF Alone, Sane
<1>8. CASE /\ ~imported /\ imported' = TRUE /\ Go(t, s)
           /\ IF Missing = {} THEN UNCHANGED <<memory, vault>> ELSE Written(m)
           /\ UNCHANGED <<doubt, faults>>
  <2>1. ASSUME NEW c \in Conn PROVE Sane(c)' /\ Kept(c)'
    <3>1. /\ vault[c] = NoPw /\ memory[c] \in {NoPw, keychain[c]} /\ acked[c].pw = keychain[c]
          /\ keychain[c] # NoPw => catalog[c].secret
      BY <1>6, <1>8 DEF Earlier
    <3>2. acked' = acked /\ doubt' = doubt /\ imported' = TRUE /\ Recorded(c)'
      BY <1>4, <1>6, <1>8 DEF Recorded, Allowed
    <3>3. CASE Missing = {}
      <4>1. memory' = memory /\ vault' = vault
        BY <1>8, <3>3
      <4>2. memory[c] = keychain[c]
        BY <3>1, <3>3 DEF Missing
      <4>3. vault[c] \in Allowed(c) /\ memory[c] \in Allowed(c)
        BY <1>6, <3>1, <4>2 DEF Twofold, Allowed
      <4> QED
        BY <1>6, <3>2, <4>1, <4>3 DEF Sane, Twofold, Earlier, Kept, Allowed
    <3>4. CASE Missing # {}
      <4>1. memory' = m /\ vault' = m
        BY <1>8, <3>4 DEF Written
      <4>2. m[c] = keychain[c]
        BY <1>1, <3>1 DEF Missing
      <4> QED
        BY <3>1, <3>2, <4>1, <4>2 DEF Sane, Twofold, Earlier, Kept, Allowed
    <3> QED
      BY <3>3, <3>4
  <2>2. Doing(task[t])'
    BY <1>3, <1>4, <1>5, <1>8, <2>1 DEF Doing, Late
  <2> QED
    BY <2>1, <2>2 DEF Alone, Sane
<1>9. CASE ~imported /\ NotWritten(m) /\ Return(t) /\ UNCHANGED imported
  <2>1. ASSUME NEW c \in Conn PROVE Twofold(c)' /\ Recorded(c)' /\ Earlier(c)'
    <3>1. /\ memory' = m /\ vault' = vault
          /\ doubt'[c] = doubt[c] \cup (IF m[c] # vault[c] THEN {m[c], vault[c]} ELSE {})
      BY <1>9 DEF NotWritten
    <3>2. m[c] \in {NoPw, keychain[c]}
      BY <1>1, <1>6, <1>9 DEF Earlier
    <3> QED
      BY <1>4, <1>6, <1>9, <3>1, <3>2 DEF Twofold, Recorded, Earlier, Allowed
  <2>2. task'[t] = Idle
    BY <1>9 DEF Return, Go
  <2>3. Doing(task[t])'
    BY <1>9, <2>2, IdleTyped DEF Doing, Late
  <2> QED
    BY <2>1, <2>3 DEF Alone
<1> QED
  BY <1>4, <1>7, <1>8, <1>9

\* From here on the passwords have been copied.
LEMMA PastLoad ==
    ASSUME NEW t \in Task, Alone(t), task[t].pc \in {"secret"} \cup Late
    PROVE  /\ imported /\ \A c \in Conn : Sane(c)
           /\ \A c \in Conn : c # task[t].conn \/ task[t].pc = "secret" => Kept(c)
BY DEF Alone, Sane, Doing, Late

LEMMA RefusedAlone ==
    ASSUME IInv, NEW t \in Task, Alone(t), Refused(t)
    PROVE  Alone(t)'
<1>1. Still /\ Return(t) /\ task[t].pc = "secret"
  BY DEF Refused, Still
<1>2. imported' /\ \A c \in Conn : Sane(c)' /\ Kept(c)'
  BY <1>1, PastLoad, StillKeeps DEF Still
<1> QED
  BY <1>1, <1>2, ReturnDoes DEF Alone, Sane

LEMMA SecretAlone ==
    ASSUME IInv, NEW t \in Task, Alone(t), Secret(t)
    PROVE  Alone(t)'
<1> USE TypeIs DEF IInv, Typing
<1> DEFINE s == task[t]
           m == [memory EXCEPT ![s.conn] = s.pw]
           n == [s EXCEPT !.pc = "probe", !.snap = Edited(s),
                          !.previous = Had(s), !.written = TRUE]
<1>1. s \in TaskRec /\ Formed(s) /\ s.pc = "secret" /\ s.target \in Target /\ s.kind # "delete"
  BY DEF Secret, Formed
<1>2. s.conn \in Conn /\ s.pw \in Word
  BY <1>1 DEF TaskRec
<1>3. m \in [Conn -> Word] /\ m[s.conn] = s.pw /\ \A c \in Conn : c # s.conn => m[c] = memory[c]
  BY <1>2
<1>4. /\ n.pc = "probe" /\ n.kind = s.kind /\ n.pw = s.pw /\ n.conn = s.conn /\ n.written
      /\ n.previous = Had(s) /\ n.snap = Edited(s)
  BY <1>1 DEF TaskRec
<1>5. \A c \in Conn : c # s.conn => Edited(s)[c] = catalog[c]
  BY <1>1, EditedIs DEF Alone, Doing
<1>6. /\ UNCHANGED <<catalog, keychain, imported, acked, half, accepted, commands>>
      /\ \/ Written(m) /\ Go(t, n) /\ UNCHANGED <<doubt, faults>>
         \/ NotWritten(m) /\ Return(t)
  BY DEF Secret
<1> HIDE DEF m, n
<1>7. imported /\ \A c \in Conn : Sane(c) /\ Kept(c)
  BY <1>1, PastLoad
<1>8. /\ \A c \in Conn : Sane(c)' /\ Allowed(c) \subseteq Allowed(c)'
      /\ \A c \in Conn : c # s.conn \/ NotWritten(m) => Kept(c)'
  BY <1>3, <1>6, <1>7, VaultKeeps
<1>9. CASE Written(m) /\ Go(t, n)
  <2>1. task'[t] = n
    BY <1>9 DEF Go
  <2>2. memory'[s.conn] = s.pw /\ vault'[s.conn] = s.pw
    BY <1>2, <1>3, <1>9 DEF Written
  <2>3. \A c \in Conn : c = s.conn => Had(s) \in Allowed(c)'
    <3>1. s.snap = catalog
      BY <1>1 DEF Alone, Doing
    <3>2. Had(s) \in Allowed(s.conn)
      BY <1>2, <1>7, <3>1 DEF Had, Kept, Sane, Recorded
    <3> QED
      BY <1>2, <1>8, <3>2
  <2>4. /\ \A c \in Conn : c # n.conn => Kept(c)' /\ n.snap[c] = catalog'[c]
        /\ n.previous = Had(s) /\ n.conn = s.conn /\ n.conn \in Conn
        /\ memory'[n.conn] = n.pw /\ vault'[n.conn] = n.pw
    BY <1>2, <1>4, <1>5, <1>6, <1>8, <2>2
  <2>5. \A c \in Conn : c = n.conn => n.previous \in Allowed(c)'
    BY <1>2, <2>3, <2>4
  <2>6. Doing(task[t])'
    BY <1>4, <1>6, <1>7, <2>1, <2>4, <2>5 DEF Doing, Late, Held
  <2> QED
    BY <1>8, <2>6 DEF Alone, Sane
<1>10. CASE NotWritten(m) /\ Return(t)
  BY <1>6, <1>7, <1>8, <1>10, ReturnDoes DEF Alone, Sane
<1> QED
  BY <1>6, <1>9, <1>10

LEMMA KeepAlone ==
    ASSUME IInv, NEW t \in Task, Alone(t), Keep(t)
    PROVE  Alone(t)'
<1> USE TypeIs DEF IInv, Typing
<1> DEFINE s == task[t]
           n == [s EXCEPT !.pc = "probe", !.snap = Edited(s), !.pw = Had(s)]
<1>1. s \in TaskRec /\ Formed(s) /\ s.pc = "secret" /\ s.target \in Target /\ s.kind # "delete"
  BY DEF Keep, Formed
<1>2. s.conn \in Conn /\ ~s.written
  BY <1>1 DEF TaskRec, Alone, Doing
<1>3. /\ n.pc = "probe" /\ n.kind = s.kind /\ n.pw = Had(s) /\ n.conn = s.conn
      /\ ~n.written /\ n.snap = Edited(s)
  BY <1>1, <1>2 DEF TaskRec
<1>4. \A c \in Conn : c # s.conn => Edited(s)[c] = catalog[c]
  <2>1. s.snap = catalog
    BY <1>1 DEF Alone, Doing
  <2> QED
    BY <1>1, <2>1, EditedIs
<1>5. Still /\ Go(t, n)
  BY DEF Keep, Still
<1> HIDE DEF n
<1>6. task'[t] = n
  BY <1>5 DEF Go
<1>7. imported' /\ catalog' = catalog /\ memory' = memory /\ \A c \in Conn : Sane(c)' /\ Kept(c)'
  BY <1>1, <1>5, PastLoad, StillKeeps DEF Still
<1>9. memory[s.conn] \in {Had(s)} \cup doubt[s.conn] \/ s.conn \in half
  <2>1. s.snap = catalog /\ Recorded(s.conn) /\ Kept(s.conn)
    BY <1>1, <1>2, PastLoad DEF Alone, Doing
  <2> QED
    BY <2>1 DEF Had, Recorded, Kept, Allowed
<1>8. Doing(task[t])'
  BY <1>2, <1>3, <1>4, <1>5, <1>6, <1>7, <1>9 DEF Doing, Late, Still, Held
<1> QED
  BY <1>7, <1>8 DEF Alone, Sane

LEMMA ProbeAlone ==
    ASSUME IInv, NEW t \in Task, Alone(t), Probe(t)
    PROVE  Alone(t)'
<1> USE TypeIs DEF IInv, Typing
<1>1. PICK pc \in {"store", "rollback"} : Go(t, [task[t] EXCEPT !.pc = pc])
  BY DEF Probe
<1> DEFINE s == task[t]
           n == [s EXCEPT !.pc = pc]
<1>2. s \in TaskRec /\ Formed(s) /\ s.pc = "probe" /\ Still
  BY DEF Probe, Still
<1>3. /\ n.pc = pc /\ n.kind = s.kind /\ n.pw = s.pw /\ n.conn = s.conn /\ n.snap = s.snap
      /\ n.written = s.written /\ n.previous = s.previous /\ s.conn \in Conn /\ s.kind # "delete"
  BY <1>2 DEF TaskRec, Formed
<1> HIDE DEF n
<1>4. task'[t] = n
  BY <1>1 DEF Go, n
<1>5. /\ imported' /\ \A c \in Conn : Sane(c)' /\ Allowed(c)' = Allowed(c) /\ (Kept(c) => Kept(c)')
      /\ catalog' = catalog /\ memory' = memory /\ vault' = vault
      /\ \A c \in Conn : c # s.conn => Kept(c)'
  BY <1>2, PastLoad, StillKeeps DEF Still, Late
<1>6. /\ Held(s)
      /\ \A c \in Conn : c # s.conn => s.snap[c] = catalog[c]
  BY <1>2, <1>3 DEF Alone, Doing, Late
<1>7. Doing(task[t])'
  BY <1>2, <1>3, <1>4, <1>5, <1>6 DEF Doing, Late, Held, Still
<1> QED
  BY <1>5, <1>7 DEF Alone, Sane

LEMMA RollbackAlone ==
    ASSUME IInv, NEW t \in Task, Alone(t), Rollback(t)
    PROVE  Alone(t)'
<1> USE TypeIs DEF IInv, Typing
<1> DEFINE s == task[t]
           m == [memory EXCEPT ![s.conn] = s.previous]
<1>1. s \in TaskRec /\ Formed(s) /\ s.pc = "rollback" /\ Return(t)
      /\ UNCHANGED <<catalog, keychain, imported, acked, half, accepted, commands>>
  BY DEF Rollback
<1>2. s.conn \in Conn /\ s.previous \in Word /\ s.kind # "delete"
  BY <1>1 DEF TaskRec, Formed
<1>3. m \in [Conn -> Word] /\ m[s.conn] = s.previous /\ \A c \in Conn : c # s.conn => m[c] = memory[c]
  BY <1>2
<1>4. \/ ~s.written /\ UNCHANGED <<memory, vault, doubt, faults>>
      \/ s.written /\ ((Written(m) /\ UNCHANGED <<doubt, faults>>) \/ NotWritten(m))
  BY DEF Rollback
<1> HIDE DEF m
<1>5. /\ imported /\ \A c \in Conn : Sane(c) /\ (c # s.conn => Kept(c))
      /\ \/ s.written /\ s.previous \in Allowed(s.conn)
         \/ ~s.written /\ Kept(s.conn)
  BY <1>1, <1>2, PastLoad DEF Alone, Doing, Late, Held
<1>6. CASE ~s.written /\ UNCHANGED <<memory, vault, doubt, faults>>
  <2>1. Still /\ \A c \in Conn : Kept(c)
    BY <1>1, <1>5, <1>6 DEF Still
  <2>2. imported' /\ \A c \in Conn : Sane(c)' /\ Kept(c)'
    BY <1>1, <1>5, <2>1, StillKeeps
  <2> QED
    BY <1>1, <2>2, ReturnDoes DEF Alone, Sane
<1>7. CASE s.written /\ ((Written(m) /\ UNCHANGED <<doubt, faults>>) \/ NotWritten(m))
  <2>1. m[s.conn] \in Allowed(s.conn)
    BY <1>3, <1>5, <1>7
  <2>2. ASSUME NEW c \in Conn PROVE Sane(c)' /\ Kept(c)'
    BY <1>1, <1>3, <1>5, <1>7, <2>1, VaultKeeps
  <2> QED
    BY <1>1, <1>5, <2>2, ReturnDoes DEF Alone, Sane
<1> QED
  BY <1>4, <1>6, <1>7

LEMMA DeleteSecretAlone ==
    ASSUME IInv, NEW t \in Task, Alone(t), DeleteSecret(t)
    PROVE  Alone(t)'
<1> USE TypeIs DEF IInv, Typing
<1> DEFINE s == task[t]
           m == [memory EXCEPT ![s.conn] = NoPw]
           n == [s EXCEPT !.pc = "store", !.snap[s.conn] = Absent]
<1>1. s \in TaskRec /\ s.pc = "secret" /\ s.kind = "delete" /\ s.conn \in Conn
      /\ s.snap = catalog
  BY DEF DeleteSecret, TaskRec, Alone, Doing
<1>2. m \in [Conn -> Word] /\ m[s.conn] = NoPw /\ \A c \in Conn : c # s.conn => m[c] = memory[c]
  BY <1>1, RecordTyped
<1>3. /\ n.pc = "store" /\ n.kind = "delete" /\ n.conn = s.conn
      /\ \A c \in Conn : c # s.conn => n.snap[c] = catalog[c]
  BY <1>1 DEF TaskRec
<1>4. /\ UNCHANGED <<catalog, keychain, imported, acked, half, accepted, commands>>
      /\ \/ Return(t) /\ UNCHANGED <<memory, vault, doubt, faults>>
         \/ ~s.snap[s.conn].secret /\ Go(t, n) /\ UNCHANGED <<memory, vault, doubt, faults>>
         \/ Written(m) /\ Go(t, n) /\ UNCHANGED <<doubt, faults>>
         \/ NotWritten(m) /\ Return(t)
  BY DEF DeleteSecret
<1> HIDE DEF m, n
<1>5. imported /\ \A c \in Conn : Sane(c) /\ Kept(c)
  BY <1>1, PastLoad
<1>6. CASE Return(t) /\ UNCHANGED <<memory, vault, doubt, faults>>
  <2>1. Still
    BY <1>4, <1>6 DEF Still
  <2>2. imported' /\ \A c \in Conn : Sane(c)' /\ Kept(c)'
    BY <1>4, <1>5, <2>1, StillKeeps
  <2> QED
    BY <1>6, <2>2, ReturnDoes DEF Alone, Sane
<1>7. CASE ~s.snap[s.conn].secret /\ Go(t, n) /\ UNCHANGED <<memory, vault, doubt, faults>>
  <2>1. Still /\ task'[t] = n
    BY <1>4, <1>7 DEF Still, Go
  <2>2. imported' /\ \A c \in Conn : Sane(c)' /\ Kept(c)'
    BY <1>4, <1>5, <2>1, StillKeeps
  <2>3. s.conn \in half \/ acked[s.conn].pw = NoPw
    BY <1>1, <1>5, <1>7 DEF Sane, Recorded
  <2>4. Doing(task[t])'
    BY <1>1, <1>3, <1>4, <2>1, <2>2, <2>3 DEF Doing, Late
  <2> QED
    BY <2>2, <2>4 DEF Alone, Sane
<1>8. CASE Written(m) /\ Go(t, n) /\ UNCHANGED <<doubt, faults>>
  <2>1. task'[t] = n
    BY <1>8 DEF Go
  <2>2. memory'[s.conn] = NoPw /\ vault'[s.conn] = NoPw
    BY <1>1, <1>2, <1>8 DEF Written
  <2>3. \A c \in Conn : Sane(c)' /\ (c # s.conn => Kept(c)')
    BY <1>2, <1>4, <1>5, <1>8, VaultKeeps
  <2>4. Doing(task[t])'
    BY <1>1, <1>3, <1>4, <1>5, <2>1, <2>2, <2>3 DEF Doing, Late
  <2> QED
    BY <2>3, <2>4 DEF Alone, Sane
<1>9. CASE NotWritten(m) /\ Return(t)
  <2>1. \A c \in Conn : Sane(c)' /\ Kept(c)'
    BY <1>2, <1>4, <1>5, <1>9, VaultKeeps
  <2> QED
    BY <1>4, <1>5, <1>9, <2>1, ReturnDoes DEF Alone, Sane
<1> QED
  BY <1>4, <1>6, <1>7, <1>8, <1>9

\* The history of what the last command left, after an acknowledgement.
LEMMA AckedKeeps ==
    ASSUME TypeOK, NEW c \in Conn, NEW r \in Record, NEW p \in Word, Acked(c, r, p),
           imported, UNCHANGED <<memory, vault, keychain, imported>>,
           ~r.secret => p = NoPw, catalog'[c] = r,
           \A d \in Conn : d # c => catalog'[d] = catalog[d],
           \A d \in Conn : Sane(d) /\ (d # c => Kept(d)),
           memory[c] \in {p} \cup doubt[c] \/ c \in half,
           vault[c] \in {p} \cup doubt[c] \/ c \in half
    PROVE  \A d \in Conn : Sane(d)' /\ Kept(d)'
<1> USE TypeIs DEF Typing
<1>1. SUFFICES ASSUME NEW d \in Conn PROVE Sane(d)' /\ Kept(d)'
  OBVIOUS
<1>2. /\ acked' = [acked EXCEPT ![c] = [record |-> r, pw |-> p]] /\ half' = half \ {c}
      /\ doubt' = IF memory[c] = p /\ vault[c] = p THEN [doubt EXCEPT ![c] = {}]
                  ELSE IF c \in half THEN [doubt EXCEPT ![c] = @ \cup {memory[c], vault[c]}]
                  ELSE doubt
  BY DEF Acked
<1>3. acked'[c].record = r /\ acked'[c].pw = p
  BY <1>2
<1>4. \/ memory[c] = p /\ vault[c] = p
      \/ doubt[c] \subseteq doubt'[c] /\ (c \in half => {memory[c], vault[c]} \subseteq doubt'[c])
  BY <1>2
<1>5. CASE d = c
  <2>1. memory[c] \in {p} \cup doubt'[c] /\ vault[c] \in {p} \cup doubt'[c]
    BY <1>4
  <2>2. Kept(c)'
    BY <1>3, <2>1 DEF Kept, Allowed
  <2>3. Twofold(c)'
    BY <1>4 DEF Sane, Twofold
  <2>4. Recorded(c)' /\ Earlier(c)'
    BY <1>3 DEF Recorded, Earlier, Allowed
  <2> QED
    BY <1>5, <2>2, <2>3, <2>4 DEF Sane
<1>6. CASE d # c
  <2>1. acked'[d] = acked[d] /\ doubt'[d] = doubt[d] /\ (d \in half' <=> d \in half)
        /\ catalog'[d] = catalog[d]
    BY <1>2, <1>6
  <2>2. Sane(d) /\ Kept(d)
    BY <1>6
  <2> QED
    BY <2>1, <2>2 DEF Sane, Twofold, Recorded, Earlier, Kept, Allowed
<1> QED
  BY <1>5, <1>6

\* A store that fails leaves the record, or puts the connection aside.
LEMMA StoreFailsKeeps ==
    ASSUME TypeOK, NEW s \in TaskRec, StoreFails(s), imported, UNCHANGED imported,
           \A d \in Conn : d # s.conn => s.snap[d] = catalog[d]
    PROVE  \A c \in Conn : /\ (Recorded(c) => Recorded(c)') /\ Earlier(c)'
                           /\ doubt[c] \subseteq doubt'[c] /\ acked'[c] = acked[c]
<1>1. \/ UNCHANGED <<catalog, half, acked>>
      \/ catalog' = s.snap /\ half' = half \cup {s.conn} /\ UNCHANGED acked
  BY DEF StoreFails
<1> USE TypeIs DEF Typing
<1>2. s.conn \in Conn /\ \A c \in Conn : doubt[c] \subseteq doubt'[c]
  BY DEF StoreFails, TaskRec
<1>3. ~catalog'[s.conn].secret => NoPw \in doubt'[s.conn]
  BY <1>2 DEF StoreFails
<1>4. \A c \in Conn : c # s.conn => catalog'[c] = catalog[c]
  BY <1>1
<1>5. ASSUME NEW c \in Conn, Recorded(c) PROVE Recorded(c)'
  <2>1. acked' = acked /\ (c \notin half' => catalog'[c] = catalog[c] /\ c \notin half)
    BY <1>1, <1>4
  <2>2. ~catalog'[c].secret => NoPw \in Allowed(c)'
    BY <1>2, <1>3, <1>4, <1>5, <2>1 DEF Recorded, Allowed
  <2> QED
    BY <1>5, <2>1, <2>2 DEF Recorded
<1> QED
  BY <1>1, <1>2, <1>5 DEF Earlier

LEMMA StoreAlone ==
    ASSUME IInv, NEW t \in Task, Alone(t), Store(t)
    PROVE  Alone(t)'
<1> USE TypeIs DEF IInv, Typing
<1> DEFINE s == task[t]
           n == [s EXCEPT !.pc = "rollback"]
<1>1. s \in TaskRec /\ Formed(s) /\ s.pc = "store" /\ s.kind # "delete"
  BY DEF Store
<1>2. s.conn \in Conn /\ s.pw \in Word /\ s.snap[s.conn] \in Record
  BY <1>1 DEF TaskRec
<1>3. /\ UNCHANGED <<memory, vault, keychain, imported, accepted, commands>>
      /\ \/ catalog' = s.snap /\ Acked(s.conn, s.snap[s.conn], s.pw) /\ Return(t)
         \/ StoreFails(s) /\ Go(t, n)
  BY DEF Store
<1>4. imported /\ \A c \in Conn : Sane(c) /\ (c # s.conn => Kept(c))
  BY <1>1, PastLoad DEF Late
<1>5. /\ Held(s)
      /\ \A c \in Conn : c # s.conn => s.snap[c] = catalog[c]
  BY <1>1 DEF Alone, Doing, Late
<1>6. CASE catalog' = s.snap /\ Acked(s.conn, s.snap[s.conn], s.pw) /\ Return(t)
  <2>1. ~s.snap[s.conn].secret => s.pw = NoPw
    BY <1>1 DEF Formed, Late
  <2>2. /\ memory[s.conn] \in {s.pw} \cup doubt[s.conn] \/ s.conn \in half
        /\ vault[s.conn] \in {s.pw} \cup doubt[s.conn] \/ s.conn \in half
    BY <1>2, <1>4, <1>5 DEF Sane, Twofold, Held
  <2>3. \A c \in Conn : Sane(c)' /\ Kept(c)'
    <3> DEFINE r == s.snap[s.conn]
    <3>1. r \in Record /\ Acked(s.conn, r, s.pw) /\ (~r.secret => s.pw = NoPw)
          /\ catalog'[s.conn] = r
      BY <1>2, <1>6, <2>1
    <3>2. \A c \in Conn : c # s.conn => catalog'[c] = catalog[c]
      BY <1>5, <1>6
    <3> HIDE DEF r, s
    <3> QED
      BY <1>2, <1>3, <1>4, <1>5, <2>2, <3>1, <3>2, AckedKeeps
  <2> QED
    BY <1>3, <1>4, <1>6, <2>3, ReturnDoes DEF Alone, Sane
<1>7. CASE StoreFails(s) /\ Go(t, n)
  <2>1. /\ n.pc = "rollback" /\ n.kind # "delete" /\ n.pw = s.pw /\ n.conn = s.conn
        /\ n.written = s.written /\ n.previous = s.previous
    BY <1>1 DEF TaskRec
  <2> HIDE DEF n
  <2>2. task'[t] = n
    BY <1>7 DEF Go
  <2>3. \A c \in Conn : /\ Recorded(c)' /\ Earlier(c)'
                        /\ doubt[c] \subseteq doubt'[c] /\ acked'[c] = acked[c]
    <3>1. StoreFails(s) /\ imported /\ UNCHANGED imported
          /\ \A c \in Conn : Recorded(c) /\ (c # s.conn => s.snap[c] = catalog[c])
      BY <1>3, <1>4, <1>5, <1>7 DEF Sane
    <3> HIDE DEF s
    <3> QED
      BY <1>1, <3>1, StoreFailsKeeps
  <2>4. \A c \in Conn : /\ Sane(c)' /\ (Kept(c) => Kept(c)') /\ Allowed(c) \subseteq Allowed(c)'
    BY <1>3, <1>4, <1>7, <2>3 DEF Sane, Twofold, Kept, Allowed
  <2>6. half \subseteq half'
    BY <1>7 DEF StoreFails
  <2>5. Doing(task[t])'
    BY <1>2, <1>3, <1>4, <1>5, <2>1, <2>2, <2>3, <2>4, <2>6 DEF Doing, Late, Held
  <2> QED
    BY <2>4, <2>5 DEF Alone, Sane
<1> QED
  BY <1>3, <1>6, <1>7

LEMMA StoreDeletedAlone ==
    ASSUME IInv, NEW t \in Task, Alone(t), StoreDeleted(t)
    PROVE  Alone(t)'
<1> USE TypeIs DEF IInv, Typing
<1> DEFINE s == task[t]
<1>1. s \in TaskRec /\ Formed(s) /\ s.pc = "store" /\ s.kind = "delete" /\ s.conn \in Conn
      /\ s.snap[s.conn] = Absent
  BY DEF StoreDeleted, TaskRec, Formed
<1>2. /\ Return(t) /\ UNCHANGED <<memory, vault, keychain, imported, accepted, commands>>
      /\ \/ catalog' = s.snap /\ Acked(s.conn, Absent, NoPw)
         \/ StoreFails(s)
  BY DEF StoreDeleted
<1>3. imported /\ \A c \in Conn : Sane(c) /\ (c # s.conn => Kept(c))
  BY <1>1, PastLoad DEF Late
<1>4. /\ \A c \in Conn : c # s.conn => s.snap[c] = catalog[c]
      /\ \/ memory[s.conn] = NoPw /\ vault[s.conn] = NoPw
         \/ Kept(s.conn) /\ (s.conn \in half \/ acked[s.conn].pw = NoPw)
  BY <1>1 DEF Alone, Doing, Late
<1>5. CASE catalog' = s.snap /\ Acked(s.conn, Absent, NoPw)
  <2>1. /\ memory[s.conn] \in {NoPw} \cup doubt[s.conn] \/ s.conn \in half
        /\ vault[s.conn] \in {NoPw} \cup doubt[s.conn] \/ s.conn \in half
    BY <1>4 DEF Kept, Allowed
  <2>2. catalog'[s.conn] = Absent /\ \A c \in Conn : c # s.conn => catalog'[c] = catalog[c]
    BY <1>1, <1>4, <1>5
  <2>3. \A c \in Conn : Sane(c)' /\ Kept(c)'
    <3> HIDE DEF s
    <3> QED
      BY <1>1, <1>2, <1>3, <1>5, <2>1, <2>2, RecordTyped, AckedKeeps
  <2> QED
    BY <1>2, <1>3, <2>3, ReturnDoes DEF Alone, Sane
<1>6. CASE StoreFails(s)
  <2>1. \A c \in Conn : Recorded(c)' /\ Earlier(c)' /\ acked'[c] = acked[c]
    <3>1. StoreFails(s) /\ imported /\ UNCHANGED imported
          /\ \A c \in Conn : Recorded(c) /\ (c # s.conn => s.snap[c] = catalog[c])
      BY <1>2, <1>3, <1>4, <1>6 DEF Sane
    <3> HIDE DEF s
    <3> QED
      BY <1>1, <3>1, StoreFailsKeeps
  <2>2. NoPw \in doubt'[s.conn] /\ \A c \in Conn : doubt[c] \subseteq doubt'[c]
    BY <1>1, <1>6 DEF StoreFails
  <2>3. ASSUME NEW c \in Conn PROVE Sane(c)' /\ Kept(c)'
    BY <1>2, <1>3, <1>4, <2>1, <2>2 DEF Sane, Twofold, Kept, Allowed
  <2> QED
    BY <1>2, <1>3, <2>3, ReturnDoes DEF Alone, Sane
<1> QED
  BY <1>2, <1>5, <1>6

LEMMA CrashAlone ==
    ASSUME IInv, NEW t, Task = {t}, Alone(t), Crash
    PROVE  Alone(t)'
<1> USE TypeIs DEF IInv, Typing
<1>1. /\ task'[t] = Idle /\ memory' = vault
      /\ UNCHANGED <<catalog, vault, keychain, imported, acked, half>>
      /\ \A c \in Conn : doubt'[c] = doubt[c] \cup (IF c \in Busy THEN {vault[c]} ELSE {})
  BY DEF Crash
<1>2. ASSUME NEW c \in Conn PROVE Twofold(c)' /\ Recorded(c)' /\ Earlier(c)'
  BY <1>1 DEF Alone, Twofold, Recorded, Earlier, Allowed
<1>3. ASSUME NEW c \in Conn, imported PROVE Kept(c)'
  <2>1. CASE c = task[t].conn /\ task[t].pc \in Late
    <3>1. c \in Busy
      BY <2>1 DEF Busy, Late
    <3> QED
      BY <1>1, <3>1 DEF Kept, Allowed
  <2>2. CASE ~(c = task[t].conn /\ task[t].pc \in Late)
    <3>1. task[t].pc \in {"idle", "load", "secret"} \cup Late
      BY DEF TaskRec, Late
    <3>2. Kept(c)
      BY <1>3, <2>2, <3>1 DEF Alone, Doing
    <3> QED
      BY <1>1, <3>2 DEF Kept, Allowed
  <2> QED
    BY <2>1, <2>2
<1>4. Doing(task[t])'
  BY <1>1, <1>3, IdleTyped DEF Doing, Late
<1> QED
  BY <1>2, <1>4 DEF Alone

LEMMA NextAlone ==
    ASSUME NEW t, Task = {t}
    PROVE  IInv /\ Alone(t) /\ [Next]_vars => Alone(t)'
<1> SUFFICES ASSUME IInv, Alone(t), [Next]_vars PROVE Alone(t)'
  OBVIOUS
<1>1. CASE Crash
  BY <1>1, CrashAlone
<1>2. CASE Step(t)
  BY <1>2, BeginAlone, LoadAlone, RefusedAlone, SecretAlone, KeepAlone, ProbeAlone, StoreAlone,
     RollbackAlone, DeleteSecretAlone, StoreDeletedAlone DEF Step
<1>3. CASE UNCHANGED vars
  <2>1. Still /\ task' = task
    BY <1>3 DEF vars, Still
  <2> QED
    BY <2>1 DEF Still, Alone, Twofold, Recorded, Earlier, Doing, Held, Kept, Allowed
<1> QED
  BY <1>1, <1>2, <1>3 DEF Next

LEMMA AloneKept ==
    ASSUME IInv, NEW t, Task = {t}, Alone(t)
    PROVE  ConnectionKept
<1> SUFFICES ASSUME Busy = {}, NEW c \in Conn
             PROVE  /\ memory[c] \in {acked[c].pw} \cup doubt[c] \/ (~imported /\ c \in Missing)
                    /\ imported => vault[c] \in {acked[c].pw} \cup doubt[c]
                    /\ c \notin half => catalog[c] = acked[c].record
  BY DEF ConnectionKept
<1>1. task[t].pc = "idle"
  BY DEF Busy
<1>2. imported => Kept(c)
  BY <1>1 DEF Alone, Doing
<1>3. ~imported => memory[c] = acked[c].pw \/ c \in Missing
  <2>1. Earlier(c)
    BY DEF Alone
  <2>2. ~imported => /\ memory[c] \in {NoPw, keychain[c]} /\ acked[c].pw = keychain[c]
                     /\ keychain[c] # NoPw => catalog[c].secret
    BY <2>1 DEF Earlier
  <2> QED
    BY <2>2 DEF Missing
<1>4. c \notin half => catalog[c] = acked[c].record
  BY DEF Alone, Recorded
<1> QED
  BY <1>2, <1>3, <1>4 DEF Kept, Allowed

\* Commands that follow one another, as the one form of the workbench issues
\* them, leave each connection with the record and the password that the last
\* successful one left (catalog.rs:125-268, commands.rs:205-245), through vaults
\* and catalogs that cannot be written, refused probes and restarts: only
\* passwords of an interrupted command of this connection are in doubt.
THEOREM OneByOne ==
    ASSUME NEW t, Task = {t}
    PROVE  Spec => []ConnectionKept
<1>1. Init => Alone(t)
  BY AloneInit
<1>2. IInv /\ Alone(t) /\ [Next]_vars => Alone(t)'
  BY NextAlone
<1>3. IInv /\ Alone(t) => ConnectionKept
  BY AloneKept
<1> QED
  BY <1>1, <1>2, <1>3, Invariance, PTL DEF Spec
=============================================================================
