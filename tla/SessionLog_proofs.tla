------------------------ MODULE SessionLog_proofs ------------------------
(***************************************************************************)
(* Proofs about SessionLog.                                                *)
(***************************************************************************)
EXTENDS SessionLog, TLAPS, FiniteSetTheorems, SequenceTheorems, WellFoundedInduction

-----------------------------------------------------------------------------
(* The inductive invariant. *)

\* A result says nothing and calls nothing, a prompt nothing at all, and only
\* a result answers a call.
Shaped(m) ==
    /\ m.answers # 0 => m.role = "tool"
    /\ m.role = "tool" => m.holds = {} /\ m.calls = {}
    /\ m.role = "system" => m.holds = {} /\ m.calls = {}
    /\ m.calls # {} => m.role = "assistant"

\* What a message may be after s.msgs messages and s.calls calls.
Msgs(s) == {m \in [role : Role, holds : SUBSET (1..s.msgs), calls : SUBSET (1..s.calls),
                   answers : 0..s.calls] : Shaped(m)}

Ops == {Appended} \cup {o \in [kind : {"replace"}, from : Nat, to : Nat] : o.from \in 2..o.to}

Events(s) == [msg : Msgs(s), op : Ops]

Logs(s) == {l \in [events : Seq(Events(s)), surface : Seq(Nat), read : Seq(Nat)] :
               /\ l.surface \in Seq(1..Len(l.events))
               /\ l.read \in Seq(1..Len(l.events))}

\* The messages at the positions q of the events es.
At(es, q) == [i \in DOMAIN q |-> es[q[i]].msg]

\* The messages a reader of the file is shown.
Reread(l) == At(l.events, l.read)

\* A call that is answered at all is answered after it.
AnsweredAfter(ms) ==
    \A i, j \in DOMAIN ms : ms[j].answers \in ms[i].calls =>
        \E k \in DOMAIN ms : i < k /\ ms[k].answers = ms[j].answers

\* A call that is answered twice after it is made again in between or later.
AskedAgain(ms) ==
    \A i, j, k \in DOMAIN ms :
        /\ i < j /\ j < k
        /\ ms[j].answers \in ms[i].calls /\ ms[k].answers = ms[j].answers
        => \E a \in DOMAIN ms : j < a /\ ms[j].answers \in ms[a].calls

Settled(ms) == AnsweredAfter(ms) /\ AskedAgain(ms)

FirstIsSystem(ms) == Len(ms) > 0 /\ ms[1].role = "system"

\* From the third message on, ms is the end of rs; its second is the second
\* of rs or also in that end.
Follows(ms, rs) ==
    LET d == Len(rs) - Len(ms) IN
    /\ d >= 0
    /\ \A i \in 3..Len(ms) : ms[i] = rs[i + d]
    /\ Len(ms) > 1 => ms[2] \in {rs[2], rs[2 + d]}

Mirrored(l) ==
    /\ l.events # <<>> => FirstIsSystem(Messages(l)) /\ FirstIsSystem(Reread(l))
    /\ Follows(Messages(l), Reread(l))
    /\ Settled(Reread(l))

\* The log l after s was said, if it may still be read back (again) or not.
Steady(l, s, again) ==
    /\ l \in Logs(s)
    /\ Settled(Messages(l))
    /\ again => Mirrored(l)

Whole(l, s) == 1..s.msgs \subseteq HeldBy(Messages(l)) \cup s.omitted

Works(s) == [pc : {"idle", "sample", "compact", "tools", "rearmed"},
             todo : SUBSET (1..s.calls), span : Seq(Nat),
             holds : SUBSET (1..s.msgs), omits : SUBSET (1..s.msgs),
             why : {"pressure", "overflow"},
             retried : BOOLEAN, reminded : BOOLEAN, watched : BOOLEAN]

Unanswered(ms, cs) == \A j \in DOMAIN ms : ms[j].answers \notin cs

\* The stretch that is being summarised.
SpanGood(ms, w) ==
    /\ Len(w.span) = 2 /\ w.span[1] = 2
    /\ w.span[2] \in 2..Len(ms) /\ w.span[2] + Retain <= Len(ms)
    /\ Balanced(ms, 2, w.span[2])
    /\ w.holds \cup w.omits = HeldBy(SubSeq(ms, 2, w.span[2]))

Good(l, w, s, again) ==
    /\ Steady(l, s, again) /\ Whole(l, s)
    /\ w \in Works(s)
    /\ w.todo # {} <=> w.pc \in {"tools", "rearmed"}
    /\ w.pc # "idle" => FirstIsSystem(Messages(l))
    /\ Unanswered(Messages(l), w.todo)
    /\ again => Unanswered(Reread(l), w.todo)
    /\ w.pc \in {"sample", "compact"} => Calls(Messages(l)) = Answered(Messages(l))
    /\ w.pc = "compact" => SpanGood(Messages(l), w)

Counts == [msgs : 0..MaxSaid, calls : 0..MaxCall, omitted : SUBSET Said]

IInv ==
    /\ said \in Counts
    /\ reloads \in 0..MaxReload
    /\ Good(log, work, said, reloads < MaxReload)

-----------------------------------------------------------------------------
(* Sequences of messages. *)

\* What a sequence of messages holds, calls and answers, message by message.
LEMMA Members ==
    ASSUME NEW ms
    PROVE  /\ \A n : n \in HeldBy(ms) <=> \E i \in DOMAIN ms : n \in ms[i].holds
           /\ \A c : c \in Calls(ms) <=> \E i \in DOMAIN ms : c \in ms[i].calls
           /\ \A c : c \in Answered(ms) <=> c # 0 /\ \E i \in DOMAIN ms : ms[i].answers = c
<1>1. \A n : n \in HeldBy(ms) <=> \E i \in DOMAIN ms : n \in ms[i].holds
  BY DEF HeldBy, ToSet
<1>2. \A c : c \in Calls(ms) <=> \E i \in DOMAIN ms : c \in ms[i].calls
  BY DEF Calls, ToSet
<1>3. \A c : c \in Answered(ms) <=> c # 0 /\ \E i \in DOMAIN ms : ms[i].answers = c
  BY DEF Answered, ToSet
<1> QED
  BY <1>1, <1>2, <1>3

\* The fields of a message.
LEMMA MsgFields ==
    ASSUME NEW s \in Counts, NEW m \in Msgs(s)
    PROVE  /\ m \in [role : Role, holds : SUBSET (1..s.msgs), calls : SUBSET (1..s.calls),
                     answers : 0..s.calls]
           /\ Shaped(m)
           /\ m.answers \in Nat
           /\ m.answers \notin m.calls
<1>1. m \in [role : Role, holds : SUBSET (1..s.msgs), calls : SUBSET (1..s.calls),
             answers : 0..s.calls] /\ Shaped(m)
  BY DEF Msgs
<1>2. s.calls \in Nat
  BY BoundAssumption DEF Counts
<1>3. 0 \notin m.calls
  BY <1>1, <1>2
<1> QED
  BY <1>1, <1>2, <1>3 DEF Shaped

\* A message of a sequence.
LEMMA MsgAt ==
    ASSUME NEW s \in Counts, NEW ms \in Seq(Msgs(s))
    PROVE  /\ Len(ms) \in Nat /\ DOMAIN ms = 1..Len(ms)
           /\ \A i \in 1..Len(ms) :
                 /\ ms[i] \in Msgs(s)
                 /\ ms[i] \in [role : Role, holds : SUBSET (1..s.msgs),
                               calls : SUBSET (1..s.calls), answers : 0..s.calls]
                 /\ Shaped(ms[i])
                 /\ ms[i].answers \in Nat
                 /\ ms[i].answers \notin ms[i].calls
                 /\ 0 \notin ms[i].calls
<1>1. Len(ms) \in Nat /\ DOMAIN ms = 1..Len(ms) /\ \A i \in 1..Len(ms) : ms[i] \in Msgs(s)
  BY LenProperties, ElementOfSeq
<1>2. ASSUME NEW i \in 1..Len(ms)
      PROVE  0 \notin ms[i].calls
  BY <1>1, MsgFields, BoundAssumption DEF Counts
<1> QED
  BY <1>1, <1>2, MsgFields

\* What it is for a sequence to be settled, position by position.
LEMMA SettledAt ==
    ASSUME NEW s \in Counts, NEW ms \in Seq(Msgs(s))
    PROVE  Settled(ms) <=>
           /\ \A i, j \in 1..Len(ms) : ms[j].answers \in ms[i].calls =>
                 \E k \in 1..Len(ms) : i < k /\ ms[k].answers = ms[j].answers
           /\ \A i, j, k \in 1..Len(ms) :
                 /\ i < j /\ j < k
                 /\ ms[j].answers \in ms[i].calls /\ ms[k].answers = ms[j].answers
                 => \E a \in 1..Len(ms) : j < a /\ ms[j].answers \in ms[a].calls
<1>1. DOMAIN ms = 1..Len(ms)
  BY LenProperties
<1>2. AnsweredAfter(ms) <=>
         \A i, j \in 1..Len(ms) : ms[j].answers \in ms[i].calls =>
            \E k \in 1..Len(ms) : i < k /\ ms[k].answers = ms[j].answers
  BY <1>1 DEF AnsweredAfter
<1>3. AskedAgain(ms) <=>
         \A i, j, k \in 1..Len(ms) :
            /\ i < j /\ j < k
            /\ ms[j].answers \in ms[i].calls /\ ms[k].answers = ms[j].answers
            => \E a \in 1..Len(ms) : j < a /\ ms[j].answers \in ms[a].calls
  BY <1>1 DEF AskedAgain
<1> QED
  BY <1>2, <1>3 DEF Settled

\* A new message at the end whose calls, and whose answer, are new.
LEMMA AppendSettled ==
    ASSUME NEW s \in Counts, NEW ms \in Seq(Msgs(s)), NEW m \in Msgs(s), Settled(ms),
           Unanswered(ms, m.calls), m.answers # 0 => Unanswered(ms, {m.answers})
    PROVE  Settled(Append(ms, m))
<1> DEFINE new == Append(ms, m)
           n == Len(ms)
<1>1. /\ n \in Nat /\ Len(new) = n + 1 /\ DOMAIN new = 1..n+1 /\ DOMAIN ms = 1..n
      /\ \A i \in 1..n : new[i] = ms[i]
      /\ new[n + 1] = m
      /\ new \in Seq(Msgs(s))
  BY AppendProperties, LenProperties
<1>2. 0 \notin m.calls /\ m.answers \notin m.calls
  BY MsgFields, BoundAssumption DEF Counts
<1>3. \A i \in 1..n : 0 \notin ms[i].calls
  BY MsgAt
<1> HIDE DEF new, n
<1>4. AnsweredAfter(new)
  <2>0. DOMAIN new = 1..n+1
    BY <1>1
  <2> SUFFICES ASSUME NEW i \in 1..n+1, NEW j \in 1..n+1, new[j].answers \in new[i].calls
               PROVE  \E k \in 1..n+1 : i < k /\ new[k].answers = new[j].answers
    BY <2>0 DEF AnsweredAfter
  <2>1. i # n + 1
    BY <1>1, <1>2 DEF Unanswered
  <2>2. CASE j = n + 1
    BY <1>1, <2>1, <2>2
  <2>3. CASE j # n + 1
    <3>1. i \in 1..n /\ j \in 1..n
      BY <1>1, <2>1, <2>3
    <3>2. ms[j].answers \in ms[i].calls /\ new[j] = ms[j]
      BY <1>1, <3>1
    <3>3. \A p, q \in 1..n : ms[q].answers \in ms[p].calls =>
             \E k \in 1..n : p < k /\ ms[k].answers = ms[q].answers
      BY SettledAt DEF n
    <3>4. PICK k \in 1..n : i < k /\ ms[k].answers = ms[j].answers
      BY <3>1, <3>2, <3>3
    <3>5. k \in 1..n+1 /\ new[k] = ms[k]
      BY <1>1
    <3> QED
      BY <3>2, <3>4, <3>5
  <2> QED
    BY <2>2, <2>3
<1>5. AskedAgain(new)
  <2> SUFFICES ASSUME NEW i \in 1..n+1, NEW j \in 1..n+1, NEW k \in 1..n+1, i < j, j < k,
                      new[j].answers \in new[i].calls, new[k].answers = new[j].answers
               PROVE  \E a \in 1..n+1 : j < a /\ new[j].answers \in new[a].calls
    BY <1>1 DEF AskedAgain
  <2>1. i \in 1..n /\ j \in 1..n
    BY <1>1
  <2>2. k # n + 1
    <3> SUFFICES ASSUME k = n + 1 PROVE FALSE
      OBVIOUS
    <3>1. m.answers = ms[j].answers /\ m.answers # 0
      BY <1>1, <1>3, <2>1
    <3> QED
      BY <1>1, <2>1, <3>1 DEF Unanswered
  <2>3. k \in 1..n
    BY <1>1, <2>2
  <2>4. PICK a \in 1..n : j < a /\ ms[j].answers \in ms[a].calls
    BY <1>1, <2>1, <2>3 DEF Settled, AskedAgain
  <2> QED
    BY <1>1, <2>1, <2>4
<1> QED
  BY <1>4, <1>5 DEF Settled, new

\* What a message at the end adds.
LEMMA AppendMembers ==
    ASSUME NEW s \in Counts, NEW ms \in Seq(Msgs(s)), NEW m \in Msgs(s)
    PROVE  /\ HeldBy(Append(ms, m)) = HeldBy(ms) \cup m.holds
           /\ Calls(Append(ms, m)) = Calls(ms) \cup m.calls
           /\ Answered(Append(ms, m)) = Answered(ms) \cup ({m.answers} \ {0})
           /\ FirstIsSystem(ms) \/ (m.role = "system" /\ ms = <<>>) => FirstIsSystem(Append(ms, m))
           /\ \A cs : Unanswered(ms, cs) /\ m.answers \notin cs => Unanswered(Append(ms, m), cs)
<1> DEFINE new == Append(ms, m)
           n == Len(ms)
<1>1. /\ n \in Nat /\ Len(new) = n + 1 /\ DOMAIN new = 1..n+1 /\ DOMAIN ms = 1..n
      /\ \A i \in 1..n : new[i] = ms[i]
      /\ new[n + 1] = m
      /\ new \in Seq(Msgs(s))
  BY AppendProperties, LenProperties
<1>2. ms = <<>> => n = 0
  OBVIOUS
<1> HIDE DEF new
<1>3. ASSUME NEW i \in 1..n+1 PROVE i \in 1..n \/ i = n + 1
  BY <1>1
<1>4. 1..n+1 = 1..n \cup {n + 1}
  BY <1>1
<1> HIDE DEF n
<1>5. HeldBy(new) = HeldBy(ms) \cup m.holds
  BY <1>1, <1>4, Members
<1>6. Calls(new) = Calls(ms) \cup m.calls
  BY <1>1, <1>4, Members
<1>7. Answered(new) = Answered(ms) \cup ({m.answers} \ {0})
  BY <1>1, <1>4, Members
<1>8. FirstIsSystem(ms) \/ (m.role = "system" /\ ms = <<>>) => FirstIsSystem(new)
  BY <1>1, <1>2 DEF FirstIsSystem, n
<1>9. \A cs : Unanswered(ms, cs) /\ m.answers \notin cs => Unanswered(new, cs)
  BY <1>1, <1>4 DEF Unanswered
<1> QED
  BY <1>5, <1>6, <1>7, <1>8, <1>9 DEF new

\* What two sequences hold, call and answer together.
LEMMA ConcatMembers ==
    ASSUME NEW s \in Counts, NEW a \in Seq(Msgs(s)), NEW b \in Seq(Msgs(s))
    PROVE  /\ HeldBy(a \o b) = HeldBy(a) \cup HeldBy(b)
           /\ Calls(a \o b) = Calls(a) \cup Calls(b)
           /\ Answered(a \o b) = Answered(a) \cup Answered(b)
           /\ FirstIsSystem(a) => FirstIsSystem(a \o b)
<1> DEFINE new == a \o b
           n == Len(a)
<1>1. /\ n \in Nat /\ Len(b) \in Nat /\ DOMAIN new = 1..n + Len(b)
      /\ DOMAIN a = 1..n /\ DOMAIN b = 1..Len(b) /\ Len(new) = n + Len(b)
      /\ \A i \in 1..n + Len(b) : new[i] = IF i <= n THEN a[i] ELSE b[i - n]
  BY ConcatProperties, LenProperties
<1> HIDE DEF new
<1>2. \A i \in DOMAIN new : (i \in DOMAIN a /\ new[i] = a[i]) \/ (i - n \in DOMAIN b /\ new[i] = b[i - n])
  BY <1>1
<1>3. \A i \in DOMAIN a : i \in DOMAIN new /\ new[i] = a[i]
  BY <1>1
<1>4. \A i \in DOMAIN b : i + n \in DOMAIN new /\ new[i + n] = b[i]
  BY <1>1
<1>5. FirstIsSystem(a) => FirstIsSystem(new)
  BY <1>1 DEF FirstIsSystem
<1>6. HeldBy(new) = HeldBy(a) \cup HeldBy(b)
  <2>1. \A x : (\E i \in DOMAIN new : x \in new[i].holds)
             <=> \/ \E i \in DOMAIN a : x \in a[i].holds
                 \/ \E i \in DOMAIN b : x \in b[i].holds
    BY <1>2, <1>3, <1>4
  <2> QED
    BY <2>1, Members
<1>7. Calls(new) = Calls(a) \cup Calls(b)
  <2>1. \A x : (\E i \in DOMAIN new : x \in new[i].calls)
             <=> \/ \E i \in DOMAIN a : x \in a[i].calls
                 \/ \E i \in DOMAIN b : x \in b[i].calls
    BY <1>2, <1>3, <1>4
  <2> QED
    BY <2>1, Members
<1>8. Answered(new) = Answered(a) \cup Answered(b)
  BY <1>2, <1>3, <1>4, Members
<1> QED
  BY <1>5, <1>6, <1>7, <1>8 DEF new

\* Two settled sequences, the second with all its calls answered and all its
\* answers called for in itself.
LEMMA ConcatSettled ==
    ASSUME NEW s \in Counts, NEW a \in Seq(Msgs(s)), NEW b \in Seq(Msgs(s)),
           Settled(a), Settled(b), Calls(b) = Answered(b)
    PROVE  Settled(a \o b)
<1> DEFINE new == a \o b
           n == Len(a)
           z == Len(a) + Len(b)
<1>1. /\ n \in Nat /\ Len(b) \in Nat /\ z \in Nat /\ DOMAIN new = 1..z /\ z = n + Len(b)
      /\ DOMAIN a = 1..n /\ DOMAIN b = 1..Len(b)
      /\ \A i \in 1..z : new[i] = IF i <= n THEN a[i] ELSE b[i - n]
  BY ConcatProperties, LenProperties
<1> HIDE DEF new
<1>2. /\ \A i \in 1..n : i \in 1..z /\ new[i] = a[i]
      /\ \A i \in 1..Len(b) : i + n \in 1..z /\ new[i + n] = b[i]
      /\ \A i \in 1..z : i \in 1..n \/ (i - n \in 1..Len(b) /\ new[i] = b[i - n])
  <2> DEFINE o == Len(b)
  <2>1. /\ n \in Nat /\ o \in Nat /\ z = n + o
        /\ \A i \in 1..z : new[i] = IF i <= n THEN a[i] ELSE b[i - n]
    BY <1>1
  <2> HIDE DEF n, z, o
  <2>2. \A i \in 1..n : i \in 1..z /\ new[i] = a[i]
    BY <2>1
  <2>3. ASSUME NEW i \in 1..o PROVE i + n \in 1..z /\ new[i + n] = b[i]
    <3>1. i + n \in 1..z /\ ~(i + n <= n) /\ (i + n) - n = i
      BY <2>1
    <3> QED
      BY <2>1, <3>1
  <2>4. ASSUME NEW i \in 1..z
        PROVE  i \in 1..n \/ (i - n \in 1..o /\ new[i] = b[i - n])
    BY <2>1
  <2> QED
    BY <2>2, <2>3, <2>4 DEF o
<1>3. \A i \in 1..Len(b) : 0 \notin b[i].calls /\ b[i].answers \notin b[i].calls
  BY MsgAt
<1>4. \A i \in 1..n : 0 \notin a[i].calls
  BY MsgAt
<1> HIDE DEF new, n, z
<1>5. ASSUME NEW i \in 1..Len(b), NEW c \in b[i].calls
      PROVE  \E k \in 1..Len(b) : i < k /\ b[k].answers = c
  <2>1. c \in Answered(b)
    BY <1>1, <1>5, Members
  <2>2. PICK j \in 1..Len(b) : b[j].answers = c
    BY <1>1, <2>1, Members
  <2> QED
    BY <1>5, <2>2, SettledAt
<1>6. ASSUME NEW k \in 1..Len(b), b[k].answers # 0
      PROVE  \E i \in 1..Len(b) : b[k].answers \in b[i].calls
  <2> DEFINE c == b[k].answers
  <2>1. c # 0 /\ \E i \in DOMAIN b : b[i].answers = c
    BY <1>1, <1>6
  <2> HIDE DEF c
  <2>2. c \in Answered(b)
    BY <2>1, Members
  <2>3. \E i \in DOMAIN b : c \in b[i].calls
    BY <2>2, Members
  <2> QED
    BY <1>1, <2>3 DEF c
<1>7. AnsweredAfter(new)
  <2>0. DOMAIN new = 1..z
    BY <1>1
  <2> SUFFICES ASSUME NEW i \in 1..z, NEW j \in 1..z, new[j].answers \in new[i].calls
               PROVE  \E k \in 1..z : i < k /\ new[k].answers = new[j].answers
    BY <2>0 DEF AnsweredAfter
  <2>1. CASE i - n \in 1..Len(b) /\ new[i] = b[i - n]
    <3>1. PICK k \in 1..Len(b) : i - n < k /\ b[k].answers = new[j].answers
      BY <1>5, <2>1
    <3> QED
      BY <1>1, <1>2, <3>1
  <2>2. CASE i \in 1..n /\ j \in 1..n
    <3>1. PICK k \in 1..n : i < k /\ a[k].answers = a[j].answers
      BY <1>2, <2>2, SettledAt DEF n
    <3> QED
      BY <1>2, <2>2, <3>1
  <2>3. CASE i \in 1..n /\ j \notin 1..n
    BY <1>1, <2>3
  <2> QED
    BY <1>2, <2>1, <2>2, <2>3
<1>8. AskedAgain(new)
  <2>0. DOMAIN new = 1..z
    BY <1>1
  <2> SUFFICES ASSUME NEW i \in 1..z, NEW j \in 1..z, NEW k \in 1..z, i < j, j < k,
                      new[j].answers \in new[i].calls, new[k].answers = new[j].answers
               PROVE  \E c \in 1..z : j < c /\ new[j].answers \in new[c].calls
    BY <2>0 DEF AskedAgain
  <2>1. CASE k \in 1..n
    <3>1. i \in 1..n /\ j \in 1..n
      BY <1>1, <2>1
    <3>2. PICK c \in 1..n : j < c /\ a[j].answers \in a[c].calls
      BY <1>2, <2>1, <3>1, SettledAt DEF n
    <3> QED
      BY <1>2, <3>1, <3>2
  <2>2. CASE k - n \in 1..Len(b) /\ new[k] = b[k - n]
    <3>1. new[j].answers # 0
      BY <1>2, <1>3, <1>4
    <3>2. PICK c \in 1..Len(b) : new[j].answers \in b[c].calls
      BY <1>6, <2>2, <3>1
    <3>3. CASE j < c + n
      BY <1>2, <3>2, <3>3
    <3>4. CASE ~(j < c + n)
      <4>1. j - n \in 1..Len(b) /\ new[j] = b[j - n] /\ j - n >= c
        BY <1>1, <1>2, <3>2, <3>4
      <4>2. j - n # c
        BY <1>3, <3>2, <4>1
      <4>3. c < j - n /\ j - n < k - n
        BY <1>1, <4>1, <4>2
      <4>4. PICK e \in 1..Len(b) : j - n < e /\ b[j - n].answers \in b[e].calls
        BY <2>2, <3>2, <4>1, <4>3, SettledAt
      <4>5. e + n \in 1..z /\ new[e + n] = b[e]
        BY <1>2
      <4>6. j < e + n
        BY <1>1, <4>4
      <4> QED
        BY <4>1, <4>4, <4>5, <4>6
    <3> QED
      BY <3>3, <3>4
  <2> QED
    BY <1>2, <2>1, <2>2
<1> QED
  BY <1>7, <1>8 DEF Settled, new

-----------------------------------------------------------------------------
(* What a reader of the file is shown. *)

\* A surface that is read back as it is.
LEMMA FollowsSelf ==
    ASSUME NEW s \in Counts, NEW ms \in Seq(Msgs(s))
    PROVE  Follows(ms, ms)
<1>1. Len(ms) \in Nat
  BY LenProperties
<1>2. Len(ms) - Len(ms) = 0 /\ \A i \in 3..Len(ms) : i + 0 = i
  BY <1>1
<1> QED
  BY <1>1, <1>2 DEF Follows

\* One more message on both surfaces.
LEMMA FollowsAppend ==
    ASSUME NEW s \in Counts, NEW ms \in Seq(Msgs(s)), NEW rs \in Seq(Msgs(s)),
           NEW m \in Msgs(s), Follows(ms, rs)
    PROVE  Follows(Append(ms, m), Append(rs, m))
<1> DEFINE new == Append(ms, m)
           old == Append(rs, m)
           d == Len(rs) - Len(ms)
<1>1. /\ Len(ms) \in Nat /\ Len(new) = Len(ms) + 1
      /\ \A i \in 1..Len(ms) : new[i] = ms[i]
      /\ new[Len(ms) + 1] = m
  BY AppendProperties, LenProperties
<1>2. /\ Len(rs) \in Nat /\ Len(old) = Len(rs) + 1
      /\ \A i \in 1..Len(rs) : old[i] = rs[i]
      /\ old[Len(rs) + 1] = m
  BY AppendProperties, LenProperties
<1> HIDE DEF new, old
<1>3. d >= 0 /\ Len(old) - Len(new) = d /\ d \in Int
  BY <1>1, <1>2 DEF Follows
<1>4. ASSUME NEW i \in 3..Len(new) PROVE new[i] = old[i + d]
  <2>1. CASE i = Len(ms) + 1
    BY <1>1, <1>2, <2>1
  <2>2. CASE i # Len(ms) + 1
    <3>1. i \in 3..Len(ms) /\ i + d \in 1..Len(rs) /\ i \in 1..Len(ms)
      BY <1>1, <1>2, <1>3, <2>2
    <3>2. ms[i] = rs[i + d]
      BY <3>1 DEF Follows
    <3> QED
      BY <1>1, <1>2, <3>1, <3>2
  <2> QED
    BY <2>1, <2>2
<1>5. ASSUME Len(new) > 1 PROVE new[2] \in {old[2], old[2 + d]}
  <2>1. CASE Len(ms) = 1
    BY <1>1, <1>2, <2>1
  <2>2. CASE Len(ms) > 1
    <3>1. 2 \in 1..Len(ms) /\ 2 \in 1..Len(rs) /\ 2 + d \in 1..Len(rs)
      BY <1>1, <1>2, <1>3, <2>2
    <3>2. ms[2] \in {rs[2], rs[2 + d]}
      BY <2>2 DEF Follows
    <3> QED
      BY <1>1, <1>2, <3>1, <3>2
  <2>3. Len(ms) # 0
    BY <1>1, <1>5
  <2>4. \A n \in Nat : n # 0 => n = 1 \/ n > 1
    OBVIOUS
  <2>5. Len(ms) = 1 \/ Len(ms) > 1
    BY <1>1, <2>3, <2>4
  <2> QED
    BY <2>1, <2>2, <2>5
<1>6. Follows(new, old)
  BY <1>3, <1>4, <1>5 DEF Follows
<1> QED
  BY <1>6 DEF new, old

\* A rewritten surface: in the file the new messages come after the old ones.
LEMMA FollowsConcat ==
    ASSUME NEW s \in Counts, NEW rs \in Seq(Msgs(s)), NEW ms \in Seq(Msgs(s))
    PROVE  Follows(ms, rs \o ms)
<1>1. /\ Len(ms) \in Nat /\ Len(rs) \in Nat /\ Len(rs \o ms) = Len(rs) + Len(ms)
      /\ \A i \in 1..Len(rs) + Len(ms) : (rs \o ms)[i] = IF i <= Len(rs) THEN rs[i] ELSE ms[i - Len(rs)]
  BY ConcatProperties, LenProperties
<1>2. Len(rs \o ms) - Len(ms) = Len(rs)
  BY <1>1
<1>3. \A i \in 1..Len(ms) : (rs \o ms)[i + Len(rs)] = ms[i]
  BY <1>1
<1> QED
  BY <1>1, <1>2, <1>3 DEF Follows

\* What is held on the surface a reader is shown, too.
LEMMA FollowsHeld ==
    ASSUME NEW s \in Counts, NEW ms \in Seq(Msgs(s)), NEW rs \in Seq(Msgs(s)),
           Follows(ms, rs), FirstIsSystem(ms)
    PROVE  HeldBy(ms) \subseteq HeldBy(rs)
<1> DEFINE d == Len(rs) - Len(ms)
<1>1. /\ Len(ms) \in Nat /\ DOMAIN ms = 1..Len(ms)
      /\ Len(rs) \in Nat /\ DOMAIN rs = 1..Len(rs)
      /\ d >= 0 /\ d \in Int
  BY LenProperties DEF Follows
<1>2. ms[1].holds = {}
  BY MsgAt DEF FirstIsSystem, Shaped
<1> SUFFICES ASSUME NEW n, NEW i \in 1..Len(ms), n \in ms[i].holds
             PROVE  \E j \in 1..Len(rs) : n \in rs[j].holds
  BY <1>1, Members
<1>3. CASE i = 1
  BY <1>2, <1>3
<1>4. CASE i = 2
  <2>1. ms[2] \in {rs[2], rs[2 + d]}
    BY <1>1, <1>4 DEF Follows
  <2>2. 2 \in 1..Len(rs) /\ 2 + d \in 1..Len(rs)
    BY <1>1, <1>4
  <2> QED
    BY <1>4, <2>1, <2>2
<1>5. CASE i \in 3..Len(ms)
  <2>1. ms[i] = rs[i + d] /\ i + d \in 1..Len(rs)
    BY <1>1, <1>5 DEF Follows
  <2> QED
    BY <2>1
<1> QED
  BY <1>1, <1>3, <1>4, <1>5

-----------------------------------------------------------------------------
(* Cutting out a stretch that begins at the second message. *)

IsCut(new, ms, to, m) ==
    /\ Len(new) = Len(ms) - to + 2
    /\ new[1] = ms[1] /\ new[2] = m
    /\ \A i \in 3..Len(new) : new[i] = ms[i + to - 2]

\* A position in the place of a stretch that begins after the prompt.
LEMMA ShadowParts ==
    ASSUME NEW S, NEW q \in Seq(S), NEW to \in 2..Len(q), NEW x \in S
    PROVE  /\ Shadow(q, 2, to, x) \in Seq(S)
           /\ Len(Shadow(q, 2, to, x)) = Len(q) - to + 2
           /\ Shadow(q, 2, to, x)[1] = q[1] /\ Shadow(q, 2, to, x)[2] = x
           /\ \A i \in 3..Len(q) - to + 2 : Shadow(q, 2, to, x)[i] = q[i + to - 2]
<1> DEFINE a == SubSeq(q, 1, 1)
           c == SubSeq(q, to + 1, Len(q))
           ab == a \o <<x>>
<1>1. Len(q) \in Nat /\ to \in Int /\ 2 <= to /\ to <= Len(q) /\ \A i \in 1..Len(q) : q[i] \in S
  BY LenProperties, ElementOfSeq
<1>2. \A i \in 1..1 : q[i] \in S
  BY <1>1
<1>3. a \in Seq(S) /\ Len(a) = 1 /\ a[1] = q[1]
  BY <1>2, SubSeqProperties
<1>4. \A i \in to + 1..Len(q) : q[i] \in S
  BY <1>1
<1>5. /\ c \in Seq(S)
      /\ Len(c) = IF to + 1 <= Len(q) THEN Len(q) - (to + 1) + 1 ELSE 0
      /\ \A i \in 1..Len(q) - (to + 1) + 1 : c[i] = q[to + 1 + i - 1]
  BY <1>1, <1>4, SubSeqProperties
<1>6. Len(c) = Len(q) - to /\ \A i \in 1..Len(q) - to : c[i] = q[to + i]
  <2>1. Len(c) = Len(q) - to
    BY <1>1, <1>5
  <2>2. ASSUME NEW i \in 1..Len(q) - to PROVE c[i] = q[to + i]
    <3>1. i \in 1..Len(q) - (to + 1) + 1 /\ to + 1 + i - 1 = to + i
      BY <1>1
    <3>2. c[i] = q[to + 1 + i - 1]
      BY <1>5, <3>1
    <3> QED
      BY <3>1, <3>2
  <2> QED
    BY <2>1, <2>2
<1>7. <<x>> \in Seq(S) /\ Len(<<x>>) = 1 /\ <<x>>[1] = x
  OBVIOUS
<1> HIDE DEF a, c
<1>8. ab \in Seq(S) /\ Len(ab) = 2 /\ ab[1] = q[1] /\ ab[2] = x
  <2>1. /\ ab \in Seq(S) /\ Len(ab) = Len(a) + Len(<<x>>)
        /\ \A i \in 1..Len(a) + Len(<<x>>) : ab[i] = IF i <= Len(a) THEN a[i] ELSE <<x>>[i - Len(a)]
    BY <1>3, <1>7, ConcatProperties
  <2>2. Len(a) + Len(<<x>>) = 2
    BY <1>3, <1>7
  <2> HIDE DEF ab
  <2>3. ab[1] = a[1] /\ ab[2] = <<x>>[1]
    BY <1>3, <2>1, <2>2
  <2> QED
    BY <1>3, <1>7, <2>1, <2>2, <2>3
<1> HIDE DEF ab
<1>9. /\ ab \o c \in Seq(S) /\ Len(ab \o c) = Len(q) - to + 2
      /\ \A i \in 1..Len(q) - to + 2 : (ab \o c)[i] = IF i <= 2 THEN ab[i] ELSE c[i - 2]
  <2>1. /\ ab \o c \in Seq(S) /\ Len(ab \o c) = Len(ab) + Len(c)
        /\ \A i \in 1..Len(ab) + Len(c) : (ab \o c)[i] = IF i <= Len(ab) THEN ab[i] ELSE c[i - Len(ab)]
    BY <1>5, <1>8, ConcatProperties
  <2>2. Len(ab) + Len(c) = Len(q) - to + 2
    BY <1>1, <1>6, <1>8
  <2> QED
    BY <1>8, <2>1, <2>2
<1>10. Shadow(q, 2, to, x) = ab \o c
  <2>1. 2 - 1 = 1
    OBVIOUS
  <2> QED
    BY <2>1, Zenon DEF Shadow, ab, a, c
<1>11. (ab \o c)[1] = q[1] /\ (ab \o c)[2] = x
  <2>1. 1 \in 1..Len(q) - to + 2 /\ 2 \in 1..Len(q) - to + 2
    BY <1>1
  <2> DEFINE u == ab \o c
  <2>2. \A i \in 1..Len(q) - to + 2 : u[i] = IF i <= 2 THEN ab[i] ELSE c[i - 2]
    BY <1>9
  <2> HIDE DEF u
  <2>3. u[1] = ab[1] /\ u[2] = ab[2]
    BY <2>1, <2>2
  <2> QED
    BY <1>8, <2>3 DEF u
<1>12. ASSUME NEW i \in 3..Len(q) - to + 2 PROVE (ab \o c)[i] = q[i + to - 2]
  <2>1. i \in 1..Len(q) - to + 2 /\ ~(i <= 2) /\ i - 2 \in 1..Len(q) - to /\ to + (i - 2) = i + to - 2
    BY <1>1
  <2> QED
    BY <1>6, <1>9, <2>1
<1> QED
  BY <1>9, <1>10, <1>11, <1>12

\* Positions of a sequence and of what is left of it.
LEMMA CutPlaces ==
    ASSUME NEW s \in Counts, NEW ms \in Seq(Msgs(s)), NEW new \in Seq(Msgs(s)),
           NEW to \in 2..Len(ms), NEW m, IsCut(new, ms, to, m), FirstIsSystem(ms),
           m.calls = {}, m.answers = 0
    PROVE  /\ \A i \in 3..Len(new) : i + to - 2 \in 1..Len(ms) /\ i + to - 2 > to
                                     /\ new[i] = ms[i + to - 2]
           /\ \A j \in 1..Len(ms) : j > to => j - to + 2 \in 3..Len(new) /\ new[j - to + 2] = ms[j]
           /\ \A i \in 1..Len(new) : i < 3 => new[i].calls = {} /\ new[i].answers = 0
           /\ \A i \in 1..Len(new) : i < 3 \/ i \in 3..Len(new)
<1>1. Len(ms) \in Nat /\ Len(new) \in Nat /\ to \in Nat /\ 2 <= to /\ to <= Len(ms)
      /\ Len(new) = Len(ms) - to + 2
  BY LenProperties DEF IsCut
<1>2. \A i \in 3..Len(new) : i + to - 2 \in 1..Len(ms) /\ i + to - 2 > to /\ new[i] = ms[i + to - 2]
  BY <1>1 DEF IsCut
<1>3. ASSUME NEW j \in 1..Len(ms), j > to
      PROVE  j - to + 2 \in 3..Len(new) /\ new[j - to + 2] = ms[j]
  <2>1. j - to + 2 \in 3..Len(new) /\ (j - to + 2) + to - 2 = j
    BY <1>1, <1>3
  <2> QED
    BY <1>2, <2>1
<1>4. ASSUME NEW i \in 1..Len(new), i < 3 PROVE new[i].calls = {} /\ new[i].answers = 0
  <2>1. i = 1 \/ i = 2
    BY <1>1, <1>4
  <2>2. ms[1].calls = {} /\ ms[1].answers = 0
    BY MsgAt DEF FirstIsSystem, Shaped
  <2> QED
    BY <2>1, <2>2 DEF IsCut
<1>5. \A i \in 1..Len(new) : i < 3 \/ i \in 3..Len(new)
  BY <1>1
<1> QED
  BY <1>2, <1>3, <1>4, <1>5

\* A compaction parts no call from a result that comes after it.
LEMMA CutSettled ==
    ASSUME NEW s \in Counts, NEW ms \in Seq(Msgs(s)), NEW new \in Seq(Msgs(s)),
           NEW to \in 2..Len(ms), NEW m, IsCut(new, ms, to, m), FirstIsSystem(ms),
           m.calls = {}, m.answers = 0, Settled(ms)
    PROVE  Settled(new)
<1>1. /\ \A i \in 3..Len(new) : i + to - 2 \in 1..Len(ms) /\ i + to - 2 > to
                                /\ new[i] = ms[i + to - 2]
      /\ \A j \in 1..Len(ms) : j > to => j - to + 2 \in 3..Len(new) /\ new[j - to + 2] = ms[j]
      /\ \A i \in 1..Len(new) : i < 3 => new[i].calls = {} /\ new[i].answers = 0
      /\ \A i \in 1..Len(new) : i < 3 \/ i \in 3..Len(new)
  BY CutPlaces
<1>2. Len(ms) \in Nat /\ Len(new) \in Nat /\ to \in Nat
  BY LenProperties
<1>3. \A i \in 1..Len(new) : 0 \notin new[i].calls
  BY MsgAt
<1>3a. \A p, q \in 1..Len(ms) : ms[q].answers \in ms[p].calls =>
         \E k \in 1..Len(ms) : p < k /\ ms[k].answers = ms[q].answers
  BY SettledAt
<1>4. ASSUME NEW i \in 1..Len(new), NEW j \in 1..Len(new), new[j].answers \in new[i].calls
      PROVE  \E k \in 1..Len(new) : i < k /\ new[k].answers = new[j].answers
  <2>1. new[j].answers # 0
    BY <1>3, <1>4
  <2>2. i \in 3..Len(new) /\ j \in 3..Len(new)
    BY <1>1, <1>4, <2>1
  <2> DEFINE p == i + to - 2
             q == j + to - 2
  <2>3. p \in 1..Len(ms) /\ p > to /\ q \in 1..Len(ms) /\ new[i] = ms[p] /\ new[j] = ms[q]
    BY <1>1, <2>2
  <2>4. PICK k \in 1..Len(ms) : p < k /\ ms[k].answers = ms[q].answers
    BY <1>4, <1>3a, <2>3
  <2>5. k > to
    BY <1>2, <2>3, <2>4
  <2>6. k - to + 2 \in 3..Len(new) /\ new[k - to + 2] = ms[k]
    BY <1>1, <2>5
  <2>7. k - to + 2 \in 1..Len(new) /\ i < k - to + 2
    <3>1. k \in Int /\ i \in Int /\ i + to - 2 < k
      BY <2>4
    <3>2. i < k - to + 2
      BY <1>2, <3>1
    <3> QED
      BY <2>6, <3>2
  <2> QED
    BY <2>3, <2>4, <2>6, <2>7
<1>5. ASSUME NEW i \in 1..Len(new), NEW j \in 1..Len(new), NEW k \in 1..Len(new), i < j, j < k,
             new[j].answers \in new[i].calls, new[k].answers = new[j].answers
      PROVE  \E a \in 1..Len(new) : j < a /\ new[j].answers \in new[a].calls
  <2>1. new[j].answers # 0
    BY <1>3, <1>5
  <2>2. i \in 3..Len(new) /\ j \in 3..Len(new) /\ k \in 3..Len(new)
    BY <1>1, <1>5, <2>1
  <2> DEFINE p == i + to - 2
             q == j + to - 2
             r == k + to - 2
  <2>3. /\ p \in 1..Len(ms) /\ q \in 1..Len(ms) /\ r \in 1..Len(ms) /\ q > to
        /\ new[i] = ms[p] /\ new[j] = ms[q] /\ new[k] = ms[r]
    BY <1>1, <2>2
  <2>4. p < q /\ q < r
    BY <1>2, <1>5
  <2> HIDE DEF p, q, r
  <2>5. PICK a \in 1..Len(ms) : q < a /\ ms[q].answers \in ms[a].calls
    BY <1>5, <2>3, <2>4, SettledAt
  <2>6. a > to
    BY <1>2, <2>3, <2>5
  <2>7. a - to + 2 \in 3..Len(new) /\ new[a - to + 2] = ms[a]
    BY <1>1, <2>6
  <2>8. a - to + 2 \in 1..Len(new) /\ j < a - to + 2
    <3>1. a \in Int /\ j \in Int /\ j + to - 2 < a
      BY <2>5 DEF q
    <3>2. j < a - to + 2
      BY <1>2, <3>1
    <3> QED
      BY <2>7, <3>2
  <2> QED
    BY <2>3, <2>5, <2>7, <2>8
<1> QED
  BY <1>4, <1>5, SettledAt

\* A set of natural numbers that is not empty has a least element.
LEMMA LeastExists ==
    ASSUME NEW S \in SUBSET Nat, S # {}
    PROVE  \E c \in S : \A d \in S : c <= d
<1> DEFINE R == OpToRel(<, Nat)
<1>1. IsWellFoundedOn(R, Nat)
  BY NatLessThanWellFounded
<1>2. \A y, x \in Nat : y < x => <<y, x>> \in R
  BY DEF OpToRel
<1> HIDE DEF R
<1>3. PICK x \in S : \A y \in S : ~(<<y, x>> \in R)
  BY <1>1, WFMin
<1>4. \A y \in S : ~(y < x)
  BY <1>2, <1>3
<1>5. \A y \in S : x <= y
  BY <1>4, SMT
<1> QED
  BY <1>5

\* And one with a bound has a greatest.
LEMMA GreatestExists ==
    ASSUME NEW n \in Nat, NEW S \in SUBSET (1..n), S # {}
    PROVE  \E c \in S : \A d \in S : d <= c
<1> DEFINE T == {n - x : x \in S}
<1>1. T \in SUBSET Nat /\ T # {}
  <2>1. \A x \in 1..n : n - x \in Nat
    OBVIOUS
  <2> QED
    BY <2>1
<1>2. PICK t \in T : \A u \in T : t <= u
  BY <1>1, LeastExists
<1>3. PICK c \in S : t = n - c
  BY <1>2
<1>4. ASSUME NEW d \in S PROVE d <= c
  <2>1. t <= n - d
    <3>1. n - d \in T
      OBVIOUS
    <3> HIDE DEF T
    <3> QED
      BY <1>2, <3>1
  <2>2. d \in Int /\ c \in Int
    BY <1>3
  <2> QED
    BY <1>3, <2>1, <2>2
<1> QED
  BY <1>4

\* A balanced stretch is cut out without parting a call from its result: an
\* answer after the stretch to a call in it is to a call made again since.
LEMMA CutPaired ==
    ASSUME NEW s \in Counts, NEW ms \in Seq(Msgs(s)), NEW new \in Seq(Msgs(s)),
           NEW to \in 2..Len(ms), NEW m, IsCut(new, ms, to, m), FirstIsSystem(ms),
           m.calls = {}, m.answers = 0, Settled(ms),
           Calls(ms) = Answered(ms), Balanced(ms, 2, to)
    PROVE  Calls(new) = Answered(new)
<1>1. /\ \A i \in 3..Len(new) : i + to - 2 \in 1..Len(ms) /\ i + to - 2 > to
                                /\ new[i] = ms[i + to - 2]
      /\ \A j \in 1..Len(ms) : j > to => j - to + 2 \in 3..Len(new) /\ new[j - to + 2] = ms[j]
      /\ \A i \in 1..Len(new) : i < 3 => new[i].calls = {} /\ new[i].answers = 0
      /\ \A i \in 1..Len(new) : i < 3 \/ i \in 3..Len(new)
  BY CutPlaces
<1>2. /\ Len(ms) \in Nat /\ Len(new) \in Nat /\ to \in Nat
      /\ DOMAIN ms = 1..Len(ms) /\ DOMAIN new = 1..Len(new)
  BY LenProperties
<1>3. ASSUME NEW c \in Calls(new) PROVE c \in Answered(new)
  <2>1. PICK i \in 1..Len(new) : c \in new[i].calls
    BY <1>2, <1>3, Members
  <2>2. i \in 3..Len(new)
    BY <1>1, <2>1
  <2> DEFINE p == i + to - 2
  <2>3. p \in 1..Len(ms) /\ p > to /\ new[i] = ms[p]
    BY <1>1, <2>2
  <2>4. c \in Answered(ms)
    BY <1>2, <2>1, <2>3, Members
  <2>5. PICK j \in 1..Len(ms) : ms[j].answers = c
    BY <1>2, <2>4, Members
  <2> HIDE DEF p
  <2>6. PICK k \in 1..Len(ms) : p < k /\ ms[k].answers = c
    <3>1. ms[j].answers \in ms[p].calls
      BY <2>1, <2>3, <2>5
    <3>2. p \in 1..Len(ms)
      BY <2>3
    <3>3. \E k \in 1..Len(ms) : p < k /\ ms[k].answers = ms[j].answers
      BY <3>1, <3>2, SettledAt
    <3> QED
      BY <2>5, <3>3
  <2>7. k > to
    BY <1>2, <2>3, <2>6
  <2>8. k - to + 2 \in 3..Len(new) /\ new[k - to + 2] = ms[k]
    BY <1>1, <2>7
  <2>9. k - to + 2 \in 1..Len(new) /\ c # 0
    BY <1>2, <2>4, <2>8, Members
  <2> QED
    BY <1>2, <2>6, <2>8, <2>9, Members
<1>4. ASSUME NEW c \in Answered(new) PROVE c \in Calls(new)
  <2>1. PICK g \in 1..Len(new) : new[g].answers = c /\ c # 0
    BY <1>2, <1>4, Members
  <2>2. g \in 3..Len(new)
    BY <1>1, <2>1
  <2> DEFINE k == g + to - 2
  <2>3. k \in 1..Len(ms) /\ k > to /\ new[g] = ms[k]
    BY <1>1, <2>2
  <2> HIDE DEF k
  <2>4. c \in Calls(ms)
    BY <1>2, <2>1, <2>3, Members
  <2>5. PICK i \in 1..Len(ms) : c \in ms[i].calls
    BY <1>2, <2>4, Members
  <2>6. ASSUME NEW a \in 1..Len(ms), a > to, c \in ms[a].calls
        PROVE  c \in Calls(new)
    <3>1. a - to + 2 \in 3..Len(new) /\ new[a - to + 2] = ms[a]
      BY <1>1, <2>6
    <3>2. a - to + 2 \in 1..Len(new)
      BY <3>1
    <3> QED
      BY <1>2, <2>6, <3>1, <3>2, Members
  <2>7. CASE i > to
    BY <2>5, <2>6, <2>7
  <2>8. CASE ~(i > to)
    <3>1. i # 1
      BY <2>5, MsgAt DEF FirstIsSystem, Shaped
    <3>2. i \in 2..to
      BY <1>2, <2>8, <3>1
    <3> DEFINE S == {j \in 1..to : i < j /\ ms[j].answers = c}
    <3>3. S # {}
      <4>1. PICK j \in i+1..to : ms[j].answers = c
        BY <2>5, <3>2 DEF Balanced
      <4>2. j \in 1..to /\ i < j
        BY <1>2, <3>2
      <4> QED
        BY <4>1, <4>2
    <3>4. PICK j \in S : \A d \in S : d <= j
      <4>1. S \in SUBSET (1..to)
        OBVIOUS
      <4> HIDE DEF S
      <4> QED
        BY <1>2, <3>3, <4>1, GreatestExists
    <3>5. j \in 1..Len(ms) /\ i < j /\ j < k /\ ms[j].answers = c /\ j \in 1..to
      BY <1>2, <2>3, <3>4
    <3>6. PICK a \in 1..Len(ms) : j < a /\ c \in ms[a].calls
      <4>1. ms[j].answers \in ms[i].calls /\ ms[k].answers = ms[j].answers
        BY <2>1, <2>3, <2>5, <3>5
      <4> HIDE DEF S
      <4>2. \E a \in 1..Len(ms) : j < a /\ ms[j].answers \in ms[a].calls
        BY <2>3, <3>5, <4>1, SettledAt
      <4> QED
        BY <3>5, <4>2
    <3>7. a > to
      <4> SUFFICES ASSUME ~(a > to) PROVE FALSE
        OBVIOUS
      <4>1. a \in 2..to
        BY <1>2, <3>5, <3>6
      <4>2. PICK b \in a+1..to : ms[b].answers = c
        BY <3>6, <4>1 DEF Balanced
      <4>3. b \in 1..to /\ i < b /\ b > j
        BY <1>2, <3>5, <3>6, <4>1
      <4>4. b \in S
        BY <4>2, <4>3
      <4> HIDE DEF S
      <4>5. b <= j
        BY <3>4, <4>4
      <4> QED
        BY <1>2, <3>5, <4>3, <4>5
    <3> QED
      BY <2>6, <3>6, <3>7
  <2> QED
    BY <2>7, <2>8
<1> QED
  BY <1>3, <1>4

\* A summary that holds what the stretch holds, but for what it omits, takes
\* its place.
LEMMA CutHeld ==
    ASSUME NEW s \in Counts, NEW ms \in Seq(Msgs(s)), NEW new \in Seq(Msgs(s)),
           NEW to \in 2..Len(ms), NEW m, IsCut(new, ms, to, m), FirstIsSystem(ms),
           m.calls = {}, m.answers = 0,
           NEW omits, m.holds \cup omits = HeldBy(SubSeq(ms, 2, to))
    PROVE  HeldBy(ms) \subseteq HeldBy(new) \cup omits
<1>1. \A j \in 1..Len(ms) : j > to => j - to + 2 \in 3..Len(new) /\ new[j - to + 2] = ms[j]
  <2>1. /\ \A i \in 3..Len(new) : i + to - 2 \in 1..Len(ms) /\ i + to - 2 > to
                                  /\ new[i] = ms[i + to - 2]
        /\ \A j \in 1..Len(ms) : j > to => j - to + 2 \in 3..Len(new) /\ new[j - to + 2] = ms[j]
        /\ \A i \in 1..Len(new) : i < 3 => new[i].calls = {} /\ new[i].answers = 0
        /\ \A i \in 1..Len(new) : i < 3 \/ i \in 3..Len(new)
    BY CutPlaces
  <2> QED
    BY <2>1
<1>2. /\ Len(ms) \in Nat /\ Len(new) \in Nat /\ to \in Nat /\ 2 <= to /\ to <= Len(ms)
      /\ DOMAIN ms = 1..Len(ms) /\ DOMAIN new = 1..Len(new)
      /\ Len(new) = Len(ms) - to + 2 /\ new[2] = m
  BY LenProperties DEF IsCut
<1>3. ms[1].holds = {}
  BY MsgAt DEF FirstIsSystem, Shaped
<1>4. ASSUME NEW n \in HeldBy(ms) PROVE n \in HeldBy(new) \cup omits
  <2>1. PICK i \in 1..Len(ms) : n \in ms[i].holds
    BY <1>2, <1>4, Members
  <2>2. CASE i > to
    <3>1. i - to + 2 \in 3..Len(new) /\ new[i - to + 2] = ms[i]
      BY <1>1, <2>2
    <3>2. i - to + 2 \in 1..Len(new)
      BY <3>1
    <3> QED
      BY <1>2, <2>1, <3>1, <3>2, Members
  <2>3. CASE ~(i > to)
    <3>1. i # 1
      BY <1>3, <2>1
    <3>2. i \in 2..to
      BY <1>2, <2>3, <3>1
    <3> DEFINE q == SubSeq(ms, 2, to)
    <3>3. q \in Seq(Msgs(s)) /\ Len(q) = to - 1 /\ \A j \in 1..to - 1 : q[j] = ms[2 + j - 1]
      <4>1. \A j \in 2..to : ms[j] \in Msgs(s)
        BY <1>2, MsgAt
      <4>2. to - 2 + 1 = to - 1
        BY <1>2
      <4> QED
        BY <1>2, <4>1, <4>2, SubSeqProperties
    <3>4. i - 1 \in 1..to - 1 /\ 2 + (i - 1) - 1 = i
      BY <1>2, <3>2
    <3>5. DOMAIN q = 1..Len(q)
      BY <3>3, LenProperties
    <3>6. i - 1 \in DOMAIN q /\ n \in q[i - 1].holds
      BY <2>1, <3>3, <3>4, <3>5
    <3>7. n \in m.holds \cup omits
      <4> HIDE DEF q
      <4>1. n \in HeldBy(q)
        BY <3>6, Members
      <4> QED
        BY <4>1 DEF q
    <3>8. 2 \in 1..Len(new)
      BY <1>2
    <3> QED
      BY <1>2, <3>7, <3>8, Members
  <2> QED
    BY <2>2, <2>3
<1> QED
  BY <1>4

\* The same cut on both surfaces.
LEMMA FollowsCut ==
    ASSUME NEW s \in Counts, NEW ms \in Seq(Msgs(s)), NEW rs \in Seq(Msgs(s)),
           NEW new \in Seq(Msgs(s)), NEW old \in Seq(Msgs(s)),
           NEW to \in 2..Len(ms), NEW m, IsCut(new, ms, to, m), IsCut(old, rs, to, m),
           Follows(ms, rs)
    PROVE  Follows(new, old)
<1> DEFINE d == Len(rs) - Len(ms)
<1>1. /\ Len(ms) \in Nat /\ Len(rs) \in Nat /\ to \in Nat /\ 2 <= to /\ to <= Len(ms)
      /\ Len(new) = Len(ms) - to + 2 /\ new[2] = m
      /\ Len(old) = Len(rs) - to + 2 /\ old[2] = m
      /\ d >= 0
  BY LenProperties DEF IsCut, Follows
<1>2. Len(old) - Len(new) = d
  BY <1>1
<1>3. ASSUME NEW i \in 3..Len(new) PROVE new[i] = old[i + d]
  <2>1. i + to - 2 \in 3..Len(ms) /\ i + d \in 3..Len(old)
    BY <1>1
  <2>2. new[i] = ms[i + to - 2] /\ old[i + d] = rs[i + d + to - 2]
    BY <2>1 DEF IsCut
  <2>3. ms[i + to - 2] = rs[(i + to - 2) + d]
    BY <2>1 DEF Follows
  <2>4. (i + to - 2) + d = i + d + to - 2
    BY <1>1
  <2> QED
    BY <2>2, <2>3, <2>4
<1> QED
  BY <1>1, <1>2, <1>3 DEF Follows

-----------------------------------------------------------------------------
(* The members of a set in order. *)

\* The place of a member is its rank; the places are those from 1 on.
LEMMA PlaceParts ==
    ASSUME NEW n \in Nat, NEW S \in SUBSET (1..n)
    PROVE  /\ Cardinality(S) \in Nat
           /\ \A i \in S : Place(S, i) \in 1..Cardinality(S)
           /\ \A i, j \in S : i < j => Place(S, i) < Place(S, j)
           /\ \A k \in 1..Cardinality(S) : \E i \in S : Place(S, i) = k
<1> DEFINE B(i) == {j \in S : j <= i}
<1>1. IsFiniteSet(S) /\ Cardinality(S) \in Nat
  <2>1. IsFiniteSet(1..n)
    BY FS_Interval
  <2>2. IsFiniteSet(S)
    BY <2>1, FS_Subset
  <2> QED
    BY <2>2, FS_CardinalityType
<1>2. \A i : /\ B(i) \in SUBSET S /\ IsFiniteSet(B(i)) /\ Cardinality(B(i)) \in Nat
             /\ Cardinality(B(i)) <= Cardinality(S)
  <2> TAKE i
  <2>1. B(i) \in SUBSET S
    OBVIOUS
  <2> HIDE DEF B
  <2>2. IsFiniteSet(B(i)) /\ Cardinality(B(i)) <= Cardinality(S)
    BY <1>1, <2>1, FS_Subset
  <2> QED
    BY <2>1, <2>2, FS_CardinalityType
<1>3. \A i : Place(S, i) = Cardinality(B(i))
  BY DEF Place
<1>4. ASSUME NEW i \in S PROVE Place(S, i) \in 1..Cardinality(S)
  <2>1. i \in B(i)
    OBVIOUS
  <2> HIDE DEF B
  <2>2. Cardinality(B(i)) # 0
    BY <1>2, <2>1, FS_EmptySet
  <2> QED
    BY <1>1, <1>2, <1>3, <2>2
<1>5. ASSUME NEW i \in S, NEW j \in S, i < j PROVE Place(S, i) < Place(S, j)
  <2>1. B(i) \in SUBSET B(j)
    <3>1. ASSUME NEW x \in S, x <= i PROVE x <= j
      <4>1. x \in Int /\ i \in Int /\ j \in Int
        OBVIOUS
      <4> QED
        BY <1>5, <3>1, <4>1
    <3> QED
      BY <3>1
  <2>2. B(i) # B(j)
    <3>1. j \in B(j) /\ j \notin B(i)
      BY <1>5
    <3> QED
      BY <3>1
  <2> HIDE DEF B
  <2>3. Cardinality(B(i)) <= Cardinality(B(j)) /\ Cardinality(B(i)) # Cardinality(B(j))
    BY <1>2, <2>1, <2>2, FS_Subset
  <2> QED
    BY <1>2, <1>3, <2>3
<1>6. \A k \in 1..Cardinality(S) : \E i \in S : Place(S, i) = k
  <2> DEFINE f == [i \in S |-> Place(S, i)]
  <2>1. f \in [S -> 1..Cardinality(S)]
    BY <1>4
  <2>2. ASSUME NEW i \in S, NEW j \in S, f[i] = f[j] PROVE i = j
    <3>1. Place(S, i) = Place(S, j) /\ Place(S, i) \in Int
      BY <1>4, <2>2
    <3>2. ~(i < j) /\ ~(j < i)
      BY <1>5, <3>1
    <3> QED
      BY <3>2
  <2>3. DOMAIN f = S /\ \A i \in S : f[i] = Place(S, i)
    OBVIOUS
  <2> HIDE DEF f
  <2>4. f \in Injection(S, 1..Cardinality(S))
    BY <2>1, <2>2, <2>3 DEF Injection, IsInjective
  <2>5. IsFiniteSet(1..Cardinality(S)) /\ Cardinality(1..Cardinality(S)) = Cardinality(S)
    BY <1>1, FS_Interval
  <2>6. f \in Surjection(S, 1..Cardinality(S))
    BY <2>4, <2>5, FS_Injection
  <2> QED
    BY <2>3, <2>6 DEF Surjection
<1> QED
  BY <1>1, <1>4, <1>5, <1>6

\* Ordered lists each member once, in ascending order.
LEMMA OrderedParts ==
    ASSUME NEW n \in Nat, NEW S \in SUBSET (1..n)
    PROVE  /\ Cardinality(S) \in Nat
           /\ DOMAIN Ordered(S) = 1..Cardinality(S)
           /\ \A k \in 1..Cardinality(S) : Ordered(S)[k] \in S
           /\ \A i \in S : Place(S, i) \in 1..Cardinality(S) /\ Ordered(S)[Place(S, i)] = i
           /\ \A k, l \in 1..Cardinality(S) : k < l <=> Ordered(S)[k] < Ordered(S)[l]
<1> DEFINE z == Cardinality(S)
           o == Ordered(S)
<1>1. /\ z \in Nat
      /\ \A i \in S : Place(S, i) \in 1..z
      /\ \A i, j \in S : i < j => Place(S, i) < Place(S, j)
      /\ \A k \in 1..z : \E i \in S : Place(S, i) = k
  BY PlaceParts
<1>2. DOMAIN o = 1..z /\ \A k \in 1..z : o[k] = CHOOSE i \in S : Place(S, i) = k
  BY DEF Ordered
<1> HIDE DEF o, z
<1>3. \A k \in 1..z : o[k] \in S /\ Place(S, o[k]) = k
  BY <1>1, <1>2
<1>4. ASSUME NEW i \in S PROVE o[Place(S, i)] = i
  <2> DEFINE j == o[Place(S, i)]
  <2>1. j \in S /\ Place(S, j) = Place(S, i) /\ Place(S, i) \in 1..z
    BY <1>1, <1>3
  <2> HIDE DEF j
  <2>2. ~(i < j) /\ ~(j < i)
    BY <1>1, <2>1
  <2>3. j \in Int /\ i \in Int
    BY <2>1
  <2>4. i = j
    BY <2>2, <2>3
  <2> QED
    BY <2>4 DEF j
<1>5. ASSUME NEW k \in 1..z, NEW l \in 1..z PROVE k < l <=> o[k] < o[l]
  <2>1. o[k] \in S /\ o[l] \in S /\ Place(S, o[k]) = k /\ Place(S, o[l]) = l
    BY <1>3
  <2>2. o[k] < o[l] => k < l
    BY <1>1, <2>1
  <2>3. o[l] < o[k] => l < k
    BY <1>1, <2>1
  <2>4. o[k] \in Int /\ o[l] \in Int
    <3>1. \A i \in S : i \in Int
      OBVIOUS
    <3> QED
      BY <2>1, <3>1
  <2>5. k < l => o[k] # o[l]
    BY <2>1
  <2> QED
    BY <2>2, <2>3, <2>4, <2>5
<1> QED
  BY <1>1, <1>2, <1>3, <1>4, <1>5 DEF o, z

-----------------------------------------------------------------------------
(* The repair. *)

\* The positions of the messages that the repair keeps.
Keep(ms) == {i \in DOMAIN ms : ms[i].role = "tool" => ms[i].answers \in Calls(ms)}

\* The messages that the repair keeps, in their order.
LEMMA KeptParts ==
    ASSUME NEW s \in Counts, NEW ms \in Seq(Msgs(s))
    PROVE  /\ Kept(ms) \in Seq(Msgs(s))
           /\ \A k \in 1..Len(Kept(ms)) :
                 Ordered(Keep(ms))[k] \in Keep(ms) /\ Kept(ms)[k] = ms[Ordered(Keep(ms))[k]]
           /\ \A i \in Keep(ms) :
                 /\ Place(Keep(ms), i) \in 1..Len(Kept(ms))
                 /\ Ordered(Keep(ms))[Place(Keep(ms), i)] = i
                 /\ Kept(ms)[Place(Keep(ms), i)] = ms[i]
           /\ \A k, l \in 1..Len(Kept(ms)) :
                 k < l <=> Ordered(Keep(ms))[k] < Ordered(Keep(ms))[l]
<1> DEFINE S == Keep(ms)
           o == Ordered(S)
           z == Cardinality(S)
<1>1. Len(ms) \in Nat /\ DOMAIN ms = 1..Len(ms) /\ \A i \in 1..Len(ms) : ms[i] \in Msgs(s)
  BY MsgAt
<1>2. S \in SUBSET (1..Len(ms))
  BY <1>1 DEF Keep
<1> HIDE DEF S
<1>3. /\ z \in Nat /\ DOMAIN o = 1..z
      /\ \A k \in 1..z : o[k] \in S
      /\ \A i \in S : Place(S, i) \in 1..z /\ o[Place(S, i)] = i
      /\ \A k, l \in 1..z : k < l <=> o[k] < o[l]
  BY <1>1, <1>2, OrderedParts
<1> HIDE DEF o, z
<1>4. Kept(ms) = [k \in DOMAIN o |-> ms[o[k]]]
  BY DEF Kept, o, S, Keep
<1>5. /\ Kept(ms) \in Seq(Msgs(s)) /\ Len(Kept(ms)) = z
      /\ \A k \in 1..z : Kept(ms)[k] = ms[o[k]]
  <2>1. \A k \in 1..z : ms[o[k]] \in Msgs(s)
    BY <1>1, <1>2, <1>3
  <2>2. Kept(ms) \in [1..z -> Msgs(s)]
    BY <1>3, <1>4, <2>1
  <2>3. Kept(ms) \in Seq(Msgs(s))
    BY <1>3, <2>2
  <2>4. Len(Kept(ms)) \in Nat /\ 1..Len(Kept(ms)) = 1..z
    BY <2>2, <2>3, LenProperties
  <2>5. Len(Kept(ms)) = z
    BY <1>3, <2>4
  <2> QED
    BY <1>3, <1>4, <2>3, <2>5
<1> QED
  BY <1>3, <1>5 DEF o, S

\* What the repair keeps.
LEMMA KeptMembers ==
    ASSUME NEW s \in Counts, NEW ms \in Seq(Msgs(s))
    PROVE  /\ HeldBy(Kept(ms)) = HeldBy(ms)
           /\ Calls(Kept(ms)) = Calls(ms)
           /\ Answered(Kept(ms)) = Answered(ms) \cap Calls(ms)
<1> DEFINE S == Keep(ms)
           o == Ordered(Keep(ms))
           b == Kept(ms)
<1>1. /\ b \in Seq(Msgs(s))
      /\ \A k \in 1..Len(b) : o[k] \in S /\ b[k] = ms[o[k]]
      /\ \A i \in S : Place(S, i) \in 1..Len(b) /\ b[Place(S, i)] = ms[i]
  BY KeptParts
<1>2. DOMAIN b = 1..Len(b) /\ DOMAIN ms = 1..Len(ms)
  BY <1>1, LenProperties
<1>3. \A i \in 1..Len(ms) : Shaped(ms[i])
  BY MsgAt
<1>4. /\ S \subseteq 1..Len(ms)
      /\ \A i \in 1..Len(ms) : ms[i].role # "tool" => i \in S
      /\ \A i \in 1..Len(ms) : ms[i].answers \in Calls(ms) => i \in S
      /\ \A i \in S : ms[i].answers # 0 => ms[i].answers \in Calls(ms)
  BY <1>2, <1>3 DEF Keep, Shaped
<1> HIDE DEF S, o, b
<1>5. \A k \in DOMAIN b : o[k] \in DOMAIN ms /\ b[k] = ms[o[k]]
  BY <1>1, <1>2, <1>4
<1>6. \A i \in DOMAIN ms : (ms[i].holds # {} \/ ms[i].calls # {}) =>
         Place(S, i) \in DOMAIN b /\ b[Place(S, i)] = ms[i]
  BY <1>1, <1>2, <1>3, <1>4 DEF Shaped
<1>7. HeldBy(b) = HeldBy(ms)
  <2>1. ASSUME NEW n \in HeldBy(b) PROVE n \in HeldBy(ms)
    BY <1>5, <2>1, Members
  <2>2. ASSUME NEW n \in HeldBy(ms) PROVE n \in HeldBy(b)
    <3>1. PICK i \in DOMAIN ms : n \in ms[i].holds
      BY <2>2, Members
    <3>2. Place(S, i) \in DOMAIN b /\ b[Place(S, i)] = ms[i]
      BY <1>6, <3>1
    <3> QED
      BY <3>1, <3>2, Members
  <2> QED
    BY <2>1, <2>2
<1>8. Calls(b) = Calls(ms)
  <2>1. ASSUME NEW n \in Calls(b) PROVE n \in Calls(ms)
    BY <1>5, <2>1, Members
  <2>2. ASSUME NEW n \in Calls(ms) PROVE n \in Calls(b)
    <3>1. PICK i \in DOMAIN ms : n \in ms[i].calls
      BY <2>2, Members
    <3>2. Place(S, i) \in DOMAIN b /\ b[Place(S, i)] = ms[i]
      BY <1>6, <3>1
    <3> QED
      BY <3>1, <3>2, Members
  <2> QED
    BY <2>1, <2>2
<1>9. ASSUME NEW c \in Answered(b) PROVE c \in Answered(ms) \cap Calls(ms)
  <2>1. PICK k \in 1..Len(b) : c # 0 /\ b[k].answers = c
    BY <1>2, <1>9, Members
  <2>2. o[k] \in S /\ o[k] \in 1..Len(ms) /\ ms[o[k]].answers = c
    BY <1>1, <1>4, <2>1
  <2>3. c \in Calls(ms)
    BY <1>4, <2>1, <2>2
  <2> QED
    BY <1>2, <2>1, <2>2, <2>3, Members
<1>10. ASSUME NEW c \in Answered(ms) \cap Calls(ms) PROVE c \in Answered(b)
  <2>1. PICK i \in 1..Len(ms) : c # 0 /\ ms[i].answers = c
    BY <1>2, <1>10, Members
  <2>2. Place(S, i) \in 1..Len(b) /\ b[Place(S, i)] = ms[i]
    BY <1>1, <1>4, <1>10, <2>1
  <2> QED
    BY <1>2, <2>1, <2>2, Members
<1> QED
  BY <1>7, <1>8, <1>9, <1>10 DEF b

\* The repair takes away only results, and those whose call is not there.
LEMMA KeptSettled ==
    ASSUME NEW s \in Counts, NEW ms \in Seq(Msgs(s)), Settled(ms)
    PROVE  Settled(Kept(ms))
<1> DEFINE S == Keep(ms)
           o == Ordered(Keep(ms))
           b == Kept(ms)
<1>1. /\ b \in Seq(Msgs(s))
      /\ \A k \in 1..Len(b) : o[k] \in S /\ b[k] = ms[o[k]]
      /\ \A i \in S : Place(S, i) \in 1..Len(b) /\ o[Place(S, i)] = i /\ b[Place(S, i)] = ms[i]
      /\ \A k, l \in 1..Len(b) : k < l <=> o[k] < o[l]
  BY KeptParts
<1>2. DOMAIN ms = 1..Len(ms)
  BY LenProperties
<1>3. \A i \in 1..Len(ms) : Shaped(ms[i])
  BY MsgAt
<1>4. /\ S \subseteq 1..Len(ms)
      /\ \A i \in 1..Len(ms) : ms[i].role # "tool" => i \in S
      /\ \A i \in 1..Len(ms) : ms[i].answers \in Calls(ms) => i \in S
  BY <1>2 DEF Keep
<1> HIDE DEF S, o, b
<1>5. ASSUME NEW i \in 1..Len(b), NEW j \in 1..Len(b), b[j].answers \in b[i].calls
      PROVE  \E k \in 1..Len(b) : i < k /\ b[k].answers = b[j].answers
  <2> DEFINE p == o[i]
             q == o[j]
  <2>1. /\ p \in 1..Len(ms) /\ q \in 1..Len(ms)
        /\ b[i] = ms[p] /\ b[j] = ms[q]
    BY <1>1, <1>4
  <2> HIDE DEF p, q
  <2>2. ms[q].answers \in ms[p].calls
    BY <1>5, <2>1
  <2>3. \E k \in 1..Len(ms) : p < k /\ ms[k].answers = ms[q].answers
    BY <2>1, <2>2, SettledAt
  <2>4. PICK k \in 1..Len(ms) : p < k /\ ms[k].answers = ms[q].answers
    BY <2>3
  <2>5. ms[k].answers \in Calls(ms)
    BY <1>2, <2>1, <2>2, <2>4, Members
  <2>6. k \in S
    BY <1>4, <2>5
  <2>7. Place(S, k) \in 1..Len(b) /\ o[Place(S, k)] = k /\ b[Place(S, k)] = ms[k]
    BY <1>1, <2>6
  <2>8. i < Place(S, k)
    BY <1>1, <2>4, <2>7 DEF p
  <2> QED
    BY <2>1, <2>4, <2>7, <2>8
<1>6. ASSUME NEW i \in 1..Len(b), NEW j \in 1..Len(b), NEW k \in 1..Len(b), i < j, j < k,
             b[j].answers \in b[i].calls, b[k].answers = b[j].answers
      PROVE  \E a \in 1..Len(b) : j < a /\ b[j].answers \in b[a].calls
  <2> DEFINE p == o[i]
             q == o[j]
             r == o[k]
  <2>1. /\ p \in 1..Len(ms) /\ q \in 1..Len(ms) /\ r \in 1..Len(ms)
        /\ b[i] = ms[p] /\ b[j] = ms[q] /\ b[k] = ms[r]
    BY <1>1, <1>4
  <2>2. p < q /\ q < r
    BY <1>1, <1>6
  <2> HIDE DEF p, q, r
  <2>3. ms[q].answers \in ms[p].calls /\ ms[r].answers = ms[q].answers
    BY <1>6, <2>1
  <2>4. \E a \in 1..Len(ms) : q < a /\ ms[q].answers \in ms[a].calls
    BY <2>1, <2>2, <2>3, SettledAt
  <2>5. PICK a \in 1..Len(ms) : q < a /\ ms[q].answers \in ms[a].calls
    BY <2>4
  <2>6. a \in S
    BY <1>3, <1>4, <2>5 DEF Shaped
  <2>7. Place(S, a) \in 1..Len(b) /\ o[Place(S, a)] = a /\ b[Place(S, a)] = ms[a]
    BY <1>1, <2>6
  <2>8. j < Place(S, a)
    BY <1>1, <2>5, <2>7 DEF q
  <2> QED
    BY <2>1, <2>5, <2>7, <2>8
<1>7. Settled(b)
  BY <1>1, <1>5, <1>6, SettledAt
<1> QED
  BY <1>7 DEF b

\* The prompt is no result: the repair keeps it.
LEMMA KeptFirst ==
    ASSUME NEW s \in Counts, NEW ms \in Seq(Msgs(s)), FirstIsSystem(ms)
    PROVE  FirstIsSystem(Kept(ms))
<1> DEFINE S == Keep(ms)
           o == Ordered(Keep(ms))
           b == Kept(ms)
           p == Place(S, 1)
<1>1. Len(ms) \in Nat /\ DOMAIN ms = 1..Len(ms) /\ Len(ms) > 0 /\ ms[1].role = "system"
  BY LenProperties DEF FirstIsSystem
<1>2. 1 \in S /\ S \subseteq 1..Len(ms)
  BY <1>1 DEF Keep
<1>3. /\ b \in Seq(Msgs(s)) /\ Len(b) \in Nat
      /\ \A k \in 1..Len(b) : o[k] \in S /\ b[k] = ms[o[k]]
      /\ \A k, l \in 1..Len(b) : k < l <=> o[k] < o[l]
      /\ p \in 1..Len(b) /\ o[p] = 1 /\ b[p] = ms[1]
  BY <1>2, KeptParts, LenProperties
<1> HIDE DEF S, o, b, p
<1>4. p = 1
  <2> SUFFICES ASSUME p # 1 PROVE FALSE
    OBVIOUS
  <2>1. 1 \in 1..Len(b) /\ 1 < p
    BY <1>3
  <2>2. o[1] < 1
    BY <1>3, <2>1
  <2>3. o[1] \in 1..Len(ms)
    BY <1>2, <1>3, <2>1
  <2> QED
    BY <1>1, <2>2, <2>3
<1>5. FirstIsSystem(b)
  BY <1>1, <1>3, <1>4 DEF FirstIsSystem
<1> QED
  BY <1>5 DEF b

\* One result for each call of a set.
LEMMA StubsParts ==
    ASSUME NEW s \in Counts, NEW cs \in SUBSET (1..s.calls)
    PROVE  /\ Stubs(cs) \in Seq(Msgs(s))
           /\ \A k \in 1..Len(Stubs(cs)) : /\ Stubs(cs)[k].answers \in cs
                                           /\ Stubs(cs)[k].calls = {}
                                           /\ Stubs(cs)[k].holds = {}
           /\ \A k, l \in 1..Len(Stubs(cs)) : k < l => Stubs(cs)[k].answers # Stubs(cs)[l].answers
           /\ HeldBy(Stubs(cs)) = {} /\ Calls(Stubs(cs)) = {} /\ Answered(Stubs(cs)) = cs
<1> DEFINE o == Ordered(cs)
           z == Cardinality(cs)
           b == Stubs(cs)
<1>1. s.calls \in Nat
  BY BoundAssumption DEF Counts
<1>2. /\ z \in Nat /\ DOMAIN o = 1..z
      /\ \A k \in 1..z : o[k] \in cs
      /\ \A i \in cs : Place(cs, i) \in 1..z /\ o[Place(cs, i)] = i
      /\ \A k, l \in 1..z : k < l <=> o[k] < o[l]
  BY <1>1, OrderedParts
<1>3. b = [k \in DOMAIN o |-> Result(o[k])]
  BY DEF Stubs
<1> HIDE DEF o, z, b
<1>4. \A c \in cs : /\ Result(c) \in Msgs(s) /\ Result(c).answers = c
                    /\ Result(c).calls = {} /\ Result(c).holds = {}
  BY <1>1 DEF Result, Message, Msgs, Shaped, Role
<1>5. b \in [1..z -> Msgs(s)]
  BY <1>2, <1>3, <1>4
<1>6. b \in Seq(Msgs(s))
  BY <1>2, <1>5
<1>7. Len(b) = z /\ DOMAIN b = 1..z
  BY <1>2, <1>5, <1>6, LenProperties
<1>8. \A k \in 1..z : b[k].answers = o[k] /\ b[k].calls = {} /\ b[k].holds = {} /\ o[k] \in cs
  BY <1>2, <1>3, <1>4
<1>9. \A k, l \in 1..z : k < l => b[k].answers # b[l].answers
  <2>1. \A c \in cs : ~(c < c)
    BY <1>1
  <2> QED
    BY <1>2, <1>8, <2>1
<1>10. HeldBy(b) = {} /\ Calls(b) = {}
  BY <1>7, <1>8, Members
<1>11. 0 \notin cs
  BY <1>1
<1>12. Answered(b) = cs
  <2>1. \A c \in cs : Place(cs, c) \in DOMAIN b /\ b[Place(cs, c)].answers = c
    BY <1>2, <1>7, <1>8
  <2>2. \A k \in DOMAIN b : b[k].answers \in cs
    BY <1>7, <1>8
  <2>3. ASSUME NEW c \in cs PROVE c \in Answered(b)
    BY <1>11, <2>1, Members
  <2>4. ASSUME NEW c \in Answered(b) PROVE c \in cs
    BY <2>2, <2>4, Members
  <2> QED
    BY <2>3, <2>4
<1> QED
  BY <1>6, <1>7, <1>8, <1>9, <1>10, <1>12 DEF b

\* The results of calls that nothing answers yet, at the end.
LEMMA StubsSettled ==
    ASSUME NEW s \in Counts, NEW a \in Seq(Msgs(s)), NEW cs \in SUBSET (1..s.calls),
           Settled(a), Unanswered(a, cs)
    PROVE  Settled(a \o Stubs(cs))
<1> DEFINE b == Stubs(cs)
           new == a \o b
           n == Len(a)
           z == n + Len(b)
<1>1. /\ b \in Seq(Msgs(s))
      /\ \A k \in 1..Len(b) : b[k].answers \in cs /\ b[k].calls = {}
      /\ \A k, l \in 1..Len(b) : k < l => b[k].answers # b[l].answers
  BY StubsParts
<1> HIDE DEF b
<1>2. /\ n \in Nat /\ Len(b) \in Nat /\ z \in Nat /\ z = n + Len(b) /\ DOMAIN a = 1..n
      /\ new \in Seq(Msgs(s)) /\ Len(new) = z
      /\ \A i \in 1..z : new[i] = IF i <= n THEN a[i] ELSE b[i - n]
  BY <1>1, ConcatProperties, LenProperties
<1> HIDE DEF new
<1>3. /\ \A i \in 1..n : i \in 1..z /\ new[i] = a[i]
      /\ \A i \in 1..z : i \in 1..n \/ (i - n \in 1..Len(b) /\ new[i] = b[i - n])
  BY <1>2
<1>4. \A i \in 1..n : a[i].answers \notin cs
  BY <1>2 DEF Unanswered
<1> HIDE DEF n, z
<1>5. ASSUME NEW i \in 1..z, NEW j \in 1..z, new[j].answers \in new[i].calls
      PROVE  \E k \in 1..z : i < k /\ new[k].answers = new[j].answers
  <2>1. i \in 1..n
    BY <1>1, <1>3, <1>5
  <2>2. CASE j \in 1..n
    <3>1. a[j].answers \in a[i].calls
      BY <1>3, <1>5, <2>1, <2>2
    <3>2. \E k \in 1..n : i < k /\ a[k].answers = a[j].answers
      BY <2>1, <2>2, <3>1, SettledAt DEF n
    <3> QED
      BY <1>3, <2>2, <3>2
  <2>3. CASE j \notin 1..n
    BY <1>2, <2>1, <2>3
  <2> QED
    BY <2>2, <2>3
<1>6. ASSUME NEW i \in 1..z, NEW j \in 1..z, NEW k \in 1..z, i < j, j < k,
             new[j].answers \in new[i].calls, new[k].answers = new[j].answers
      PROVE  \E c \in 1..z : j < c /\ new[j].answers \in new[c].calls
  <2>1. i \in 1..n
    BY <1>1, <1>3, <1>6
  <2>2. CASE k \in 1..n
    <3>1. j \in 1..n
      BY <1>2, <1>6, <2>2
    <3>2. a[j].answers \in a[i].calls /\ a[k].answers = a[j].answers
      BY <1>3, <1>6, <2>1, <2>2, <3>1
    <3>3. \E c \in 1..n : j < c /\ a[j].answers \in a[c].calls
      BY <1>6, <2>1, <2>2, <3>1, <3>2, SettledAt DEF n
    <3> QED
      BY <1>3, <3>1, <3>3
  <2>3. CASE k \notin 1..n
    <3>1. k - n \in 1..Len(b) /\ new[k] = b[k - n]
      BY <1>3, <2>3
    <3>2. new[j].answers \in cs
      BY <1>1, <1>6, <3>1
    <3>3. j \notin 1..n
      BY <1>3, <1>4, <3>2
    <3>4. j - n \in 1..Len(b) /\ new[j] = b[j - n]
      BY <1>3, <3>3
    <3>5. j - n < k - n
      BY <1>2, <1>6
    <3> QED
      BY <1>1, <1>6, <3>1, <3>4, <3>5
  <2> QED
    BY <2>2, <2>3
<1>7. Settled(new)
  <2>1. new \in Seq(Msgs(s)) /\ Len(new) = z
    BY <1>2
  <2> QED
    BY <1>5, <1>6, <2>1, SettledAt
<1> QED
  BY <1>7 DEF new, b

\* After the repair every call has its result and every result its call,
\* and what was said is still there.
LEMMA PairedGood ==
    ASSUME NEW s \in Counts, NEW ms \in Seq(Msgs(s)), Settled(ms)
    PROVE  /\ Paired(ms) \in Seq(Msgs(s))
           /\ Settled(Paired(ms))
           /\ Calls(Paired(ms)) = Answered(Paired(ms))
           /\ HeldBy(Paired(ms)) = HeldBy(ms)
           /\ FirstIsSystem(ms) => FirstIsSystem(Paired(ms))
<1> DEFINE a == Kept(ms)
           cs == Calls(ms) \ Answered(a)
           b == Stubs(cs)
<1>1. /\ a \in Seq(Msgs(s)) /\ Settled(a) /\ HeldBy(a) = HeldBy(ms) /\ Calls(a) = Calls(ms)
      /\ Answered(a) = Answered(ms) \cap Calls(ms)
      /\ FirstIsSystem(ms) => FirstIsSystem(a)
  BY KeptParts, KeptMembers, KeptSettled, KeptFirst
<1> HIDE DEF a
<1>2. cs \in SUBSET (1..s.calls)
  <2>1. \A c \in Calls(ms) : \E i \in DOMAIN ms : c \in ms[i].calls
    BY Members
  <2> QED
    BY <2>1, MsgAt
<1>3. Unanswered(a, cs)
  <2>1. 0 \notin cs
    BY <1>2, BoundAssumption DEF Counts
  <2> QED
    BY <2>1, Members DEF Unanswered
<1> HIDE DEF cs
<1>4. b \in Seq(Msgs(s)) /\ HeldBy(b) = {} /\ Calls(b) = {} /\ Answered(b) = cs
  BY <1>2, StubsParts
<1>5. Settled(a \o b)
  BY <1>1, <1>2, <1>3, StubsSettled
<1> HIDE DEF b
<1>6. /\ a \o b \in Seq(Msgs(s))
      /\ HeldBy(a \o b) = HeldBy(ms)
      /\ Calls(a \o b) = Calls(ms)
      /\ Answered(a \o b) = Answered(a) \cup cs
      /\ FirstIsSystem(ms) => FirstIsSystem(a \o b)
  <2>1. a \o b \in Seq(Msgs(s))
    BY <1>1, <1>4, ConcatProperties
  <2>2. /\ HeldBy(a \o b) = HeldBy(a) \cup HeldBy(b)
        /\ Calls(a \o b) = Calls(a) \cup Calls(b)
        /\ Answered(a \o b) = Answered(a) \cup Answered(b)
        /\ FirstIsSystem(a) => FirstIsSystem(a \o b)
    BY <1>1, <1>4, ConcatMembers
  <2> QED
    BY <1>1, <1>4, <2>1, <2>2
<1>7. Answered(a) \cup cs = Calls(ms)
  BY <1>1 DEF cs
<1> QED
  BY <1>5, <1>6, <1>7 DEF Paired, a, b, cs

-----------------------------------------------------------------------------
(* The log, and what its operations do to what is shown of it. *)

\* One message for every position.
LEMMA AtParts ==
    ASSUME NEW s \in Counts, NEW es \in Seq(Events(s)), NEW q \in Seq(1..Len(es))
    PROVE  /\ At(es, q) \in Seq(Msgs(s)) /\ Len(At(es, q)) = Len(q) /\ Len(q) \in Nat
           /\ \A i \in 1..Len(q) : q[i] \in 1..Len(es) /\ At(es, q)[i] = es[q[i]].msg
<1>1. Len(q) \in Nat /\ DOMAIN q = 1..Len(q) /\ \A i \in 1..Len(q) : q[i] \in 1..Len(es)
  BY LenProperties, ElementOfSeq
<1>2. \A i \in 1..Len(es) : es[i] \in Events(s)
  BY ElementOfSeq
<1>3. \A i \in 1..Len(es) : es[i].msg \in Msgs(s)
  BY <1>2 DEF Events
<1>4. At(es, q) \in [1..Len(q) -> Msgs(s)]
  BY <1>1, <1>3 DEF At
<1>5. At(es, q) \in Seq(Msgs(s))
  <2> DEFINE n == Len(q)
             a == At(es, q)
             S == Msgs(s)
  <2>1. n \in Nat /\ a \in [1..n -> S]
    BY <1>1, <1>4
  <2> HIDE DEF n, a, S
  <2>2. a \in Seq(S)
    BY <2>1
  <2> QED
    BY <2>2 DEF a, S
<1>6. Len(At(es, q)) = Len(q)
  BY <1>1, <1>4, <1>5, LenProperties
<1> QED
  BY <1>1, <1>5, <1>6 DEF At

\* What is shown of a log.
LEMMA Shown ==
    ASSUME NEW s \in Counts, NEW l \in Logs(s)
    PROVE  /\ l.events \in Seq(Events(s)) /\ Len(l.events) \in Nat
           /\ l.surface \in Seq(1..Len(l.events)) /\ l.read \in Seq(1..Len(l.events))
           /\ Messages(l) = At(l.events, l.surface)
           /\ Messages(l) \in Seq(Msgs(s)) /\ Len(Messages(l)) = Len(l.surface)
           /\ Reread(l) \in Seq(Msgs(s)) /\ Len(Reread(l)) = Len(l.read)
           /\ Len(l.surface) \in Nat /\ Len(l.read) \in Nat
<1>1. /\ l.events \in Seq(Events(s))
      /\ l.surface \in Seq(1..Len(l.events)) /\ l.read \in Seq(1..Len(l.events))
  BY DEF Logs
<1>2. Messages(l) = At(l.events, l.surface)
  BY DEF Messages, At
<1>3. At(l.events, l.surface) \in Seq(Msgs(s)) /\ Len(At(l.events, l.surface)) = Len(l.surface)
      /\ Len(l.surface) \in Nat
  BY <1>1, AtParts
<1>4. Reread(l) \in Seq(Msgs(s)) /\ Len(Reread(l)) = Len(l.read) /\ Len(l.read) \in Nat
  BY <1>1, AtParts DEF Reread
<1> QED
  BY <1>1, <1>2, <1>3, <1>4, LenProperties

\* One more event changes nothing that is shown at earlier positions.
LEMMA AtAppend ==
    ASSUME NEW s \in Counts, NEW es \in Seq(Events(s)), NEW e \in Events(s),
           NEW q \in Seq(1..Len(es))
    PROVE  /\ Append(es, e) \in Seq(Events(s)) /\ Len(Append(es, e)) = Len(es) + 1
           /\ q \in Seq(1..Len(es) + 1) /\ Len(es) + 1 \in 1..Len(es) + 1
           /\ At(Append(es, e), q) = At(es, q)
           /\ Append(es, e)[Len(es) + 1] = e
           /\ \A i \in 1..Len(es) : Append(es, e)[i] = es[i]
<1>1. /\ Append(es, e) \in Seq(Events(s)) /\ Len(Append(es, e)) = Len(es) + 1
      /\ \A i \in 1..Len(es) : Append(es, e)[i] = es[i]
      /\ Append(es, e)[Len(es) + 1] = e
      /\ Len(es) \in Nat
  BY AppendProperties, LenProperties
<1>2. 1..Len(es) \subseteq 1..Len(es) + 1 /\ Len(es) + 1 \in 1..Len(es) + 1
  BY <1>1
<1>3. q \in Seq(1..Len(es) + 1)
  BY <1>2, SeqMonotonic
<1>4. DOMAIN q = 1..Len(q) /\ \A i \in 1..Len(q) : q[i] \in 1..Len(es)
  BY LenProperties, ElementOfSeq
<1>5. At(Append(es, e), q) = At(es, q)
  BY <1>1, <1>4 DEF At
<1> QED
  BY <1>1, <1>2, <1>3, <1>5

\* The new position at the end.
LEMMA AtEnd ==
    ASSUME NEW s \in Counts, NEW es \in Seq(Events(s)), NEW e \in Events(s),
           NEW q \in Seq(1..Len(es))
    PROVE  /\ Append(q, Len(es) + 1) \in Seq(1..Len(es) + 1)
           /\ At(Append(es, e), Append(q, Len(es) + 1)) = Append(At(es, q), e.msg)
<1> DEFINE n == Len(es) + 1
           fs == Append(es, e)
           p == Append(q, n)
           a == At(es, q)
           b == Append(a, e.msg)
<1>1. /\ fs \in Seq(Events(s)) /\ Len(fs) = n /\ q \in Seq(1..n) /\ n \in 1..n
      /\ fs[n] = e /\ \A i \in 1..Len(es) : fs[i] = es[i]
  BY AtAppend
<1> HIDE DEF n, fs
<1>2. /\ p \in Seq(1..n) /\ Len(p) = Len(q) + 1 /\ p[Len(q) + 1] = n
      /\ \A i \in 1..Len(q) : p[i] = q[i]
  BY <1>1, AppendProperties
<1>3. /\ a \in Seq(Msgs(s)) /\ Len(a) = Len(q) /\ Len(q) \in Nat
      /\ \A i \in 1..Len(q) : q[i] \in 1..Len(es) /\ a[i] = es[q[i]].msg
  BY AtParts
<1> HIDE DEF p, a
<1>4. e.msg \in Msgs(s)
  BY DEF Events
<1>5. /\ b \in Seq(Msgs(s)) /\ Len(b) = Len(q) + 1 /\ b[Len(q) + 1] = e.msg
      /\ \A i \in 1..Len(q) : b[i] = a[i]
  BY <1>3, <1>4, AppendProperties
<1> HIDE DEF b
<1>6. /\ At(fs, p) \in Seq(Msgs(s)) /\ Len(At(fs, p)) = Len(q) + 1
      /\ \A i \in 1..Len(q) + 1 : At(fs, p)[i] = fs[p[i]].msg
  BY <1>1, <1>2, AtParts
<1>7. ASSUME NEW i \in 1..Len(q) + 1 PROVE At(fs, p)[i] = b[i]
  <2>1. CASE i = Len(q) + 1
    BY <1>1, <1>2, <1>5, <1>6, <2>1
  <2>2. CASE i # Len(q) + 1
    <3>1. i \in 1..Len(q)
      BY <1>3, <2>2
    <3>2. p[i] = q[i] /\ q[i] \in 1..Len(es) /\ fs[q[i]] = es[q[i]]
      BY <1>1, <1>2, <1>3, <3>1
    <3> QED
      BY <1>3, <1>5, <1>6, <3>1, <3>2
  <2> QED
    BY <2>1, <2>2
<1>8. At(fs, p) = b
  BY <1>5, <1>6, <1>7, SeqEqual
<1> QED
  BY <1>2, <1>8 DEF n, fs, p, a, b

\* The new position in the place of a stretch.
LEMMA AtCut ==
    ASSUME NEW s \in Counts, NEW es \in Seq(Events(s)), NEW e \in Events(s),
           NEW q \in Seq(1..Len(es)), NEW to \in 2..Len(q)
    PROVE  /\ Shadow(q, 2, to, Len(es) + 1) \in Seq(1..Len(es) + 1)
           /\ IsCut(At(Append(es, e), Shadow(q, 2, to, Len(es) + 1)), At(es, q), to, e.msg)
<1> DEFINE n == Len(es) + 1
           fs == Append(es, e)
           p == Shadow(q, 2, to, n)
           a == At(es, q)
<1>1. /\ fs \in Seq(Events(s)) /\ Len(fs) = n /\ q \in Seq(1..n) /\ n \in 1..n
      /\ fs[n] = e /\ \A i \in 1..Len(es) : fs[i] = es[i]
  BY AtAppend
<1> HIDE DEF n, fs
<1>2. /\ p \in Seq(1..n) /\ Len(p) = Len(q) - to + 2 /\ p[1] = q[1] /\ p[2] = n
      /\ \A i \in 3..Len(q) - to + 2 : p[i] = q[i + to - 2]
  <2> DEFINE T == 1..n
  <2>1. q \in Seq(T) /\ n \in T /\ to \in 2..Len(q)
    BY <1>1
  <2> HIDE DEF T, p
  <2>2. /\ Shadow(q, 2, to, n) \in Seq(T)
        /\ Len(Shadow(q, 2, to, n)) = Len(q) - to + 2
        /\ Shadow(q, 2, to, n)[1] = q[1] /\ Shadow(q, 2, to, n)[2] = n
        /\ \A i \in 3..Len(q) - to + 2 : Shadow(q, 2, to, n)[i] = q[i + to - 2]
    BY <2>1, ShadowParts
  <2> QED
    BY <2>2 DEF T, p
<1>3. /\ Len(a) = Len(q) /\ Len(q) \in Nat
      /\ \A i \in 1..Len(q) : q[i] \in 1..Len(es) /\ a[i] = es[q[i]].msg
  BY AtParts
<1> HIDE DEF p, a
<1> DEFINE b == At(fs, p)
<1>4. Len(b) = Len(p) /\ \A i \in 1..Len(p) : b[i] = fs[p[i]].msg
  <2>1. fs \in Seq(Events(s)) /\ p \in Seq(1..Len(fs))
    BY <1>1, <1>2
  <2> QED
    BY <2>1, AtParts
<1> HIDE DEF b
<1>5. 1 \in 1..Len(p) /\ 2 \in 1..Len(p) /\ 1 \in 1..Len(q) /\ to \in Nat
  BY <1>2, <1>3
<1>6. b[1] = a[1] /\ b[2] = e.msg
  <2>1. b[1] = fs[q[1]].msg /\ b[2] = fs[n].msg
    BY <1>2, <1>4, <1>5
  <2>2. fs[q[1]] = es[q[1]] /\ a[1] = es[q[1]].msg
    BY <1>1, <1>3, <1>5
  <2> QED
    BY <1>1, <2>1, <2>2
<1>7. ASSUME NEW i \in 3..Len(q) - to + 2 PROVE b[i] = a[i + to - 2]
  <2>1. i \in 1..Len(p) /\ i + to - 2 \in 1..Len(q)
    BY <1>2, <1>3, <1>5
  <2>2. p[i] = q[i + to - 2] /\ fs[q[i + to - 2]] = es[q[i + to - 2]]
    BY <1>1, <1>2, <1>3, <2>1
  <2> QED
    BY <1>3, <1>4, <2>1, <2>2
<1>8. IsCut(b, a, to, e.msg)
  BY <1>2, <1>3, <1>4, <1>6, <1>7 DEF IsCut
<1> QED
  BY <1>2, <1>8 DEF n, fs, p, a, b

\* The new position in front.
LEMMA AtFront ==
    ASSUME NEW s \in Counts, NEW es \in Seq(Events(s)), NEW e \in Events(s),
           NEW q \in Seq(1..Len(es))
    PROVE  /\ <<Len(es) + 1>> \o q \in Seq(1..Len(es) + 1)
           /\ At(Append(es, e), <<Len(es) + 1>> \o q) = <<e.msg>> \o At(es, q)
<1> DEFINE n == Len(es) + 1
           fs == Append(es, e)
           h == <<n>>
           p == h \o q
           a == At(es, q)
           g == <<e.msg>>
           b == g \o a
<1>1. /\ fs \in Seq(Events(s)) /\ Len(fs) = n /\ q \in Seq(1..n) /\ n \in 1..n
      /\ fs[n] = e /\ \A i \in 1..Len(es) : fs[i] = es[i]
  BY AtAppend
<1> HIDE DEF n, fs
<1>2. h \in Seq(1..n) /\ Len(h) = 1 /\ h[1] = n
  BY <1>1
<1>3. e.msg \in Msgs(s)
  BY DEF Events
<1>4. g \in Seq(Msgs(s)) /\ Len(g) = 1 /\ g[1] = e.msg
  BY <1>3
<1> HIDE DEF h, g
<1>5. /\ a \in Seq(Msgs(s)) /\ Len(a) = Len(q) /\ Len(q) \in Nat
      /\ \A i \in 1..Len(q) : q[i] \in 1..Len(es) /\ a[i] = es[q[i]].msg
  BY AtParts
<1> HIDE DEF a
<1>6. /\ p \in Seq(1..n) /\ Len(p) = Len(h) + Len(q)
      /\ \A i \in 1..Len(h) + Len(q) : p[i] = IF i <= Len(h) THEN h[i] ELSE q[i - Len(h)]
  BY <1>1, <1>2, ConcatProperties
<1>7. /\ b \in Seq(Msgs(s)) /\ Len(b) = Len(g) + Len(a)
      /\ \A i \in 1..Len(g) + Len(a) : b[i] = IF i <= Len(g) THEN g[i] ELSE a[i - Len(g)]
  <2>1. g \in Seq(Msgs(s)) /\ a \in Seq(Msgs(s))
    BY <1>4, <1>5
  <2> QED
    BY <2>1, ConcatProperties
<1> HIDE DEF p, b
<1>8. /\ At(fs, p) \in Seq(Msgs(s)) /\ Len(At(fs, p)) = Len(p)
      /\ \A i \in 1..Len(p) : At(fs, p)[i] = fs[p[i]].msg
  BY <1>1, <1>6, AtParts
<1>9. Len(p) = 1 + Len(q) /\ Len(b) = 1 + Len(q)
  BY <1>2, <1>4, <1>5, <1>6, <1>7
<1>10. ASSUME NEW i \in 1..Len(p) PROVE At(fs, p)[i] = b[i]
  <2>1. CASE i = 1
    <3>1. p[i] = n /\ b[i] = e.msg
      BY <1>2, <1>4, <1>5, <1>6, <1>7, <1>9, <2>1
    <3> QED
      BY <1>1, <1>8, <3>1
  <2>2. CASE i # 1
    <3>1. i - 1 \in 1..Len(q) /\ ~(i <= 1)
      BY <1>5, <1>9, <2>2
    <3>2. p[i] = q[i - 1] /\ b[i] = a[i - 1]
      BY <1>2, <1>4, <1>5, <1>6, <1>7, <1>9, <3>1
    <3>3. a[i - 1] = es[q[i - 1]].msg /\ fs[q[i - 1]] = es[q[i - 1]]
      BY <1>1, <1>5, <3>1
    <3> QED
      BY <1>8, <3>2, <3>3
  <2> QED
    BY <2>1, <2>2
<1>11. At(fs, p) = b
  BY <1>7, <1>8, <1>9, <1>10, SeqEqual
<1> QED
  BY <1>6, <1>11 DEF n, fs, h, p, a, g, b

\* New positions at the end for all of ms.
LEMMA AtConcat ==
    ASSUME NEW s \in Counts, NEW es \in Seq(Events(s)), NEW q \in Seq(1..Len(es)),
           NEW ms \in Seq(Msgs(s))
    PROVE  LET more == [i \in DOMAIN ms |-> Event(ms[i], Appended)]
               new == [i \in DOMAIN ms |-> Len(es) + i]
           IN  /\ es \o more \in Seq(Events(s))
               /\ Len(es \o more) = Len(es) + Len(ms)
               /\ \A i \in 1..Len(es) : (es \o more)[i] = es[i]
               /\ \A i \in Len(es) + 1..Len(es) + Len(ms) : (es \o more)[i].op = Appended
               /\ q \o new \in Seq(1..Len(es) + Len(ms))
               /\ At(es \o more, q \o new) = At(es, q) \o ms
<1> DEFINE more == [i \in DOMAIN ms |-> Event(ms[i], Appended)]
           new == [i \in DOMAIN ms |-> Len(es) + i]
           fs == es \o more
           p == q \o new
           a == At(es, q)
           b == a \o ms
           n == Len(es)
           k == Len(ms)
           z == Len(q)
<1>1. n \in Nat /\ k \in Nat /\ DOMAIN ms = 1..k /\ \A i \in 1..k : ms[i] \in Msgs(s)
  BY LenProperties, ElementOfSeq
<1>2. more \in Seq(Events(s)) /\ Len(more) = k /\ \A i \in 1..k : more[i] = Event(ms[i], Appended)
  <2>1. \A i \in 1..k : Event(ms[i], Appended) \in Events(s)
    BY <1>1 DEF Event, Events, Ops
  <2>2. more \in [1..k -> Events(s)]
    BY <1>1, <2>1
  <2>3. more \in Seq(Events(s))
    BY <1>1, <2>2
  <2>4. Len(more) = k
    BY <1>1, <2>2, <2>3, LenProperties
  <2> QED
    BY <1>1, <2>3, <2>4
<1>3. new \in Seq(1..n + k) /\ Len(new) = k /\ \A i \in 1..k : new[i] = n + i
  <2>1. \A i \in 1..k : n + i \in 1..n + k
    BY <1>1
  <2>2. new \in [1..k -> 1..n + k]
    BY <1>1, <2>1
  <2>3. new \in Seq(1..n + k)
    BY <1>1, <2>2
  <2>4. Len(new) = k
    BY <1>1, <2>2, <2>3, LenProperties
  <2> QED
    BY <1>1, <2>3, <2>4
<1>4. q \in Seq(1..n + k)
  <2>1. 1..n \subseteq 1..n + k
    BY <1>1
  <2> QED
    BY <2>1, SeqMonotonic
<1>5. /\ a \in Seq(Msgs(s)) /\ Len(a) = z /\ z \in Nat
      /\ \A i \in 1..z : q[i] \in 1..n /\ a[i] = es[q[i]].msg
  BY AtParts
<1> HIDE DEF more, new, a
<1>6. /\ fs \in Seq(Events(s)) /\ Len(fs) = n + k
      /\ \A i \in 1..n + k : fs[i] = IF i <= n THEN es[i] ELSE more[i - n]
  <2>1. more \in Seq(Events(s)) /\ Len(more) = k
    BY <1>2
  <2>2. /\ fs \in Seq(Events(s)) /\ Len(fs) = Len(es) + Len(more)
        /\ \A i \in 1..Len(es) + Len(more) : fs[i] = IF i <= Len(es) THEN es[i] ELSE more[i - Len(es)]
    BY <2>1, ConcatProperties
  <2> HIDE DEF fs
  <2> QED
    BY <2>1, <2>2
<1>7. /\ p \in Seq(1..n + k) /\ Len(p) = z + k
      /\ \A i \in 1..z + k : p[i] = IF i <= z THEN q[i] ELSE new[i - z]
  <2>1. new \in Seq(1..n + k) /\ Len(new) = k /\ q \in Seq(1..n + k)
    BY <1>3, <1>4
  <2> HIDE DEF n, k
  <2> QED
    BY <2>1, ConcatProperties
<1>8. /\ b \in Seq(Msgs(s)) /\ Len(b) = z + k
      /\ \A i \in 1..z + k : b[i] = IF i <= z THEN a[i] ELSE ms[i - z]
  <2>1. a \in Seq(Msgs(s)) /\ Len(a) = z
    BY <1>5
  <2> HIDE DEF z
  <2> QED
    BY <2>1, ConcatProperties
<1> HIDE DEF fs, p, b, n, k, z
<1>9. /\ \A i \in 1..n : fs[i] = es[i]
      /\ \A i \in 1..k : fs[n + i] = Event(ms[i], Appended)
  <2>1. \A i \in 1..n : i \in 1..n + k /\ i <= n
    BY <1>1
  <2>2. \A i \in 1..k : n + i \in 1..n + k /\ ~(n + i <= n) /\ (n + i) - n = i
    BY <1>1
  <2> QED
    BY <1>2, <1>6, <2>1, <2>2
<1>10. \A i \in n + 1..n + k : fs[i].op = Appended
  <2> SUFFICES ASSUME NEW i \in n + 1..n + k PROVE fs[i].op = Appended
    OBVIOUS
  <2>1. i - n \in 1..k /\ n + (i - n) = i
    BY <1>1
  <2>2. fs[i] = Event(ms[i - n], Appended)
    BY <1>9, <2>1
  <2> QED
    BY <2>2 DEF Event
<1>11. /\ At(fs, p) \in Seq(Msgs(s)) /\ Len(At(fs, p)) = z + k
       /\ \A i \in 1..z + k : At(fs, p)[i] = fs[p[i]].msg
  BY <1>6, <1>7, AtParts
<1>12. ASSUME NEW i \in 1..z + k PROVE At(fs, p)[i] = b[i]
  <2>1. CASE i <= z
    <3>1. i \in 1..z
      BY <1>5, <2>1
    <3>2. p[i] = q[i] /\ b[i] = a[i] /\ fs[q[i]] = es[q[i]]
      BY <1>5, <1>7, <1>8, <1>9, <2>1, <3>1
    <3> QED
      BY <1>5, <1>11, <3>1, <3>2
  <2>2. CASE ~(i <= z)
    <3>1. i - z \in 1..k
      BY <1>1, <1>5, <2>2
    <3>2. p[i] = n + (i - z) /\ b[i] = ms[i - z]
      BY <1>3, <1>7, <1>8, <2>2, <3>1
    <3>3. fs[p[i]] = Event(ms[i - z], Appended)
      BY <1>9, <3>1, <3>2
    <3> QED
      BY <1>11, <3>2, <3>3 DEF Event
  <2> QED
    BY <2>1, <2>2
<1>13. At(fs, p) = b
  BY <1>8, <1>11, <1>12, SeqEqual
<1> QED
  BY <1>6, <1>7, <1>9, <1>10, <1>13 DEF fs, p, b, n, k, more, new, a

\* What is in a log that more than s was said for.
LEMMA LogsMore ==
    ASSUME NEW s \in Counts, NEW t \in Counts, s.msgs <= t.msgs, s.calls <= t.calls,
           NEW l \in Logs(s)
    PROVE  l \in Logs(t)
<1>1. Msgs(s) \subseteq Msgs(t)
  <2>1. /\ 1..s.msgs \subseteq 1..t.msgs /\ 1..s.calls \subseteq 1..t.calls
        /\ 0..s.calls \subseteq 0..t.calls
    BY BoundAssumption DEF Counts
  <2> QED
    BY <2>1 DEF Msgs
<1>2. Events(s) \subseteq Events(t)
  BY <1>1 DEF Events
<1>3. Seq(Events(s)) \subseteq Seq(Events(t))
  BY <1>2, SeqMonotonic
<1> QED
  BY <1>3 DEF Logs

\* The log has grown by events that say that they were appended.
Adds(l, k) ==
    /\ Len(l.events) <= Len(k.events)
    /\ \A i \in 1..Len(l.events) : k.events[i] = l.events[i]
    /\ \A i \in Len(l.events) + 1..Len(k.events) : k.events[i].op = Appended

\* No event at all.
LEMMA AddsSelf ==
    ASSUME NEW s \in Counts, NEW l \in Logs(s)
    PROVE  Adds(l, l)
<1>1. Len(l.events) \in Nat
  BY Shown
<1> QED
  BY <1>1 DEF Adds

\* Events after events.
LEMMA AddsMore ==
    ASSUME NEW s \in Counts, NEW l \in Logs(s), NEW k \in Logs(s), NEW j \in Logs(s),
           Adds(l, k), Adds(k, j)
    PROVE  Adds(l, j)
<1>1. Len(l.events) \in Nat /\ Len(k.events) \in Nat /\ Len(j.events) \in Nat
  BY Shown
<1>2. \A i \in 1..Len(l.events) : i \in 1..Len(k.events)
  BY <1>1 DEF Adds
<1>3. \A i \in Len(l.events) + 1..Len(j.events) :
         \/ i \in Len(l.events) + 1..Len(k.events) /\ i \in 1..Len(k.events)
         \/ i \in Len(k.events) + 1..Len(j.events)
  BY <1>1 DEF Adds
<1>4. Len(l.events) <= Len(j.events)
  BY <1>1 DEF Adds
<1>5. ASSUME NEW i \in 1..Len(l.events) PROVE j.events[i] = l.events[i]
  BY <1>2 DEF Adds
<1>6. ASSUME NEW i \in Len(l.events) + 1..Len(j.events) PROVE j.events[i].op = Appended
  <2>1. CASE i \in Len(l.events) + 1..Len(k.events) /\ i \in 1..Len(k.events)
    BY <2>1 DEF Adds
  <2>2. CASE i \in Len(k.events) + 1..Len(j.events)
    BY <2>2 DEF Adds
  <2> QED
    BY <1>3, <2>1, <2>2
<1> QED
  BY <1>4, <1>5, <1>6 DEF Adds

\* One append, in memory and in what is read back.
LEMMA PutView ==
    ASSUME NEW s \in Counts, NEW l \in Logs(s), NEW m \in Msgs(s)
    PROVE  /\ Put(l, m) \in Logs(s)
           /\ Messages(Put(l, m)) = Append(Messages(l), m)
           /\ Reread(Put(l, m)) = Append(Reread(l), m)
           /\ Put(l, m).events = Append(l.events, Event(m, Appended))
           /\ Put(l, m).events # <<>>
           /\ Adds(l, Put(l, m))
<1> DEFINE e == Event(m, Appended)
           n == Len(l.events) + 1
           k == Put(l, m)
<1>1. /\ l.events \in Seq(Events(s)) /\ Len(l.events) \in Nat
      /\ l.surface \in Seq(1..Len(l.events)) /\ l.read \in Seq(1..Len(l.events))
      /\ Messages(l) = At(l.events, l.surface)
  BY Shown
<1>2. e \in Events(s) /\ e.msg = m
  BY DEF Event, Events, Ops
<1>3. k = [events |-> Append(l.events, e), surface |-> Append(l.surface, n), read |-> Append(l.read, n)]
  BY DEF Put, Logged, Fold, Appended
<1> HIDE DEF e, k
<1>4. /\ Append(l.events, e) \in Seq(Events(s)) /\ Len(Append(l.events, e)) = n
      /\ Append(l.events, e)[n] = e
      /\ \A i \in 1..Len(l.events) : Append(l.events, e)[i] = l.events[i]
  BY <1>1, <1>2, AtAppend
<1>5. /\ Append(l.surface, n) \in Seq(1..n)
      /\ At(Append(l.events, e), Append(l.surface, n)) = Append(At(l.events, l.surface), m)
  BY <1>1, <1>2, AtEnd
<1>6. /\ Append(l.read, n) \in Seq(1..n)
      /\ At(Append(l.events, e), Append(l.read, n)) = Append(At(l.events, l.read), m)
  BY <1>1, <1>2, AtEnd
<1>7. Append(l.surface, n) \in Seq(Nat) /\ Append(l.read, n) \in Seq(Nat)
  <2>1. 1..n \subseteq Nat
    BY <1>1
  <2> QED
    BY <1>5, <1>6, <2>1, SeqMonotonic
<1>8. k \in Logs(s)
  BY <1>3, <1>4, <1>5, <1>6, <1>7 DEF Logs
<1>9. Messages(k) = Append(Messages(l), m)
  BY <1>1, <1>3, <1>5, <1>8, Shown
<1>10. Reread(k) = Append(Reread(l), m)
  BY <1>3, <1>6 DEF Reread
<1>11. k.events = Append(l.events, e) /\ k.events # <<>>
  <2>1. k.events = Append(l.events, e)
    BY <1>3
  <2>2. Append(l.events, e) # <<>>
    <3>1. l.events \in Seq(Events(s)) /\ e \in Events(s)
      BY <1>1, <1>2
    <3> QED
      BY <3>1, AppendProperties
  <2> QED
    BY <2>1, <2>2
<1>12. Adds(l, k)
  <2>1. k.events = Append(l.events, e)
    BY <1>3
  <2>2. \A i \in Len(l.events) + 1..n : i = n
    BY <1>1
  <2>3. e.op = Appended
    BY DEF e, Event
  <2> QED
    BY <1>1, <1>4, <2>1, <2>2, <2>3 DEF Adds
<1> QED
  BY <1>8, <1>9, <1>10, <1>11, <1>12 DEF k, e

\* The log with a message put at its end.
LEMMA PutSteady ==
    ASSUME NEW s \in Counts, NEW again \in BOOLEAN, NEW l, Steady(l, s, again), NEW m \in Msgs(s),
           Unanswered(Messages(l), m.calls),
           m.answers # 0 => Unanswered(Messages(l), {m.answers}),
           again => /\ Unanswered(Reread(l), m.calls)
                    /\ m.answers # 0 => Unanswered(Reread(l), {m.answers})
                    /\ l.events = <<>> => m.role = "system"
    PROVE  Steady(Put(l, m), s, again)
<1> DEFINE k == Put(l, m)
           M == Messages(l)
           R == Reread(l)
<1>1. l \in Logs(s) /\ Settled(M) /\ (again => Mirrored(l))
  BY DEF Steady
<1>2. M \in Seq(Msgs(s)) /\ R \in Seq(Msgs(s)) /\ Len(M) = Len(l.surface) /\ Len(R) = Len(l.read)
      /\ l.surface \in Seq(1..Len(l.events)) /\ l.read \in Seq(1..Len(l.events))
  BY <1>1, Shown
<1>3. k \in Logs(s) /\ Messages(k) = Append(M, m) /\ Reread(k) = Append(R, m)
  BY <1>1, PutView
<1>4. Settled(Append(M, m))
  BY <1>1, <1>2, AppendSettled
<1> HIDE DEF k, M, R
<1>5. ASSUME again PROVE Mirrored(k)
  <2>1. Follows(M, R) /\ Settled(R) /\ (l.events # <<>> => FirstIsSystem(M) /\ FirstIsSystem(R))
    BY <1>1, <1>5 DEF Mirrored, M, R
  <2>2. Follows(Append(M, m), Append(R, m))
    BY <1>2, <2>1, FollowsAppend
  <2>3. Settled(Append(R, m))
    BY <1>2, <1>5, <2>1, AppendSettled DEF R
  <2>4. FirstIsSystem(Append(M, m)) /\ FirstIsSystem(Append(R, m))
    <3>1. CASE l.events # <<>>
      BY <1>2, <2>1, <3>1, AppendMembers
    <3>2. CASE l.events = <<>>
      <4>1. M = <<>> /\ R = <<>>
        <5>1. Len(l.events) = 0
          BY <3>2
        <5>2. \A i \in 1..Len(l.surface) : l.surface[i] \in 1..Len(l.events)
          BY <1>2, ElementOfSeq
        <5>3. \A i \in 1..Len(l.read) : l.read[i] \in 1..Len(l.events)
          BY <1>2, ElementOfSeq
        <5>4. Len(l.surface) \in Nat /\ Len(l.read) \in Nat
          BY <1>1, Shown
        <5>5. Len(l.surface) = 0 /\ Len(l.read) = 0
          BY <5>1, <5>2, <5>3, <5>4
        <5> QED
          BY <1>2, <5>5, EmptySeq
      <4> QED
        BY <1>2, <1>5, <3>2, <4>1, AppendMembers
    <3> QED
      BY <3>1, <3>2
  <2> QED
    BY <1>3, <2>2, <2>3, <2>4 DEF Mirrored
<1> QED
  BY <1>3, <1>4, <1>5 DEF Steady, k

\* A message that calls and answers nothing.
LEMMA PutPlain ==
    ASSUME NEW s \in Counts, NEW again \in BOOLEAN, NEW l, Steady(l, s, again), NEW m \in Msgs(s),
           m.calls = {}, m.answers = 0,
           again /\ l.events = <<>> => m.role = "system"
    PROVE  Steady(Put(l, m), s, again)
BY PutSteady DEF Unanswered

\* A log that shows something has events.
LEMMA ShowsEvents ==
    ASSUME NEW s \in Counts, NEW l \in Logs(s), Messages(l) # <<>>
    PROVE  l.events # <<>>
<1>1. /\ l.surface \in Seq(1..Len(l.events)) /\ Messages(l) \in Seq(Msgs(s))
      /\ Len(Messages(l)) = Len(l.surface) /\ Len(l.surface) \in Nat
  BY Shown
<1>2. Len(l.surface) # 0
  BY <1>1, EmptySeq
<1>3. l.surface[1] \in 1..Len(l.events)
  BY <1>1, <1>2, ElementOfSeq
<1> QED
  BY <1>3

\* Several appends at once: the messages come after those at the positions q
\* in memory, and after all that is read back.
LEMMA ExtendedView ==
    ASSUME NEW s \in Counts, NEW l \in Logs(s), NEW ms \in Seq(Msgs(s)),
           NEW q \in Seq(1..Len(l.events))
    PROVE  /\ Extended(l, ms, q) \in Logs(s)
           /\ Messages(Extended(l, ms, q)) = At(l.events, q) \o ms
           /\ Reread(Extended(l, ms, q)) = Reread(l) \o ms
           /\ Adds(l, Extended(l, ms, q))
<1> DEFINE es == l.events
           more == [i \in DOMAIN ms |-> Event(ms[i], Appended)]
           new == [i \in DOMAIN ms |-> Len(es) + i]
           k == Extended(l, ms, q)
           z == Len(es) + Len(ms)
<1>1. /\ es \in Seq(Events(s)) /\ Len(es) \in Nat /\ l.read \in Seq(1..Len(es)) /\ Len(ms) \in Nat
  BY Shown, LenProperties
<1>2. k = [events |-> es \o more, surface |-> q \o new, read |-> l.read \o new]
  BY DEF Extended
<1>3. /\ es \o more \in Seq(Events(s)) /\ Len(es \o more) = z
      /\ \A i \in 1..Len(es) : (es \o more)[i] = es[i]
      /\ \A i \in Len(es) + 1..z : (es \o more)[i].op = Appended
      /\ q \o new \in Seq(1..z)
      /\ At(es \o more, q \o new) = At(es, q) \o ms
  <2>1. es \in Seq(Events(s)) /\ q \in Seq(1..Len(es))
    BY <1>1
  <2> HIDE DEF es
  <2>2. Len(es \o more) = z
    BY <2>1, AtConcat
  <2>3. es \o more \in Seq(Events(s))
    BY <2>1, AtConcat
  <2>4. \A i \in 1..Len(es) : (es \o more)[i] = es[i]
    BY <2>1, AtConcat
  <2>5. \A i \in Len(es) + 1..z : (es \o more)[i].op = Appended
    BY <2>1, AtConcat
  <2>6. q \o new \in Seq(1..z) /\ At(es \o more, q \o new) = At(es, q) \o ms
    BY <2>1, AtConcat
  <2> QED
    BY <2>2, <2>3, <2>4, <2>5, <2>6
<1>4. l.read \o new \in Seq(1..z) /\ At(es \o more, l.read \o new) = At(es, l.read) \o ms
  <2> DEFINE r == l.read
  <2>1. es \in Seq(Events(s)) /\ r \in Seq(1..Len(es))
    BY <1>1
  <2> HIDE DEF es, r
  <2>2. r \o new \in Seq(1..z) /\ At(es \o more, r \o new) = At(es, r) \o ms
    BY <2>1, AtConcat
  <2> QED
    BY <2>2 DEF r
<1> HIDE DEF more, new, k
<1>5. q \o new \in Seq(Nat) /\ l.read \o new \in Seq(Nat)
  <2>1. 1..z \subseteq Nat
    BY <1>1
  <2> QED
    BY <1>3, <1>4, <2>1, SeqMonotonic
<1>6. k \in Logs(s)
  BY <1>2, <1>3, <1>4, <1>5 DEF Logs
<1>7. k.events = es \o more /\ k.surface = q \o new /\ k.read = l.read \o new
  BY <1>2
<1>8. Messages(k) = At(es, q) \o ms
  BY <1>3, <1>6, <1>7, Shown
<1>9. Reread(k) = Reread(l) \o ms
  BY <1>4, <1>7 DEF Reread
<1>10. Adds(l, k)
  <2>1. Len(es) <= z
    BY <1>1
  <2> QED
    BY <1>3, <1>7, <2>1 DEF Adds
<1> QED
  BY <1>6, <1>8, <1>9, <1>10 DEF k

\* A rewritten surface shows the new messages only, the file the old ones
\* before them.
LEMMA RewriteView ==
    ASSUME NEW s \in Counts, NEW l \in Logs(s), NEW ms \in Seq(Msgs(s))
    PROVE  /\ Rewrite(l, ms) \in Logs(s)
           /\ Messages(Rewrite(l, ms)) = ms
           /\ Reread(Rewrite(l, ms)) = Reread(l) \o ms
           /\ Adds(l, Rewrite(l, ms))
<1>1. <<>> \in Seq(1..Len(l.events)) /\ l.events \in Seq(Events(s))
  BY Shown, EmptySeq
<1>2. At(l.events, <<>>) = <<>>
  BY DEF At
<1>3. <<>> \o ms = ms
  BY ConcatEmptySeq
<1> QED
  BY <1>1, <1>2, <1>3, ExtendedView DEF Rewrite

\* The log after the repair.
LEMMA RepairedSteady ==
    ASSUME NEW s \in Counts, NEW again \in BOOLEAN, NEW l, Steady(l, s, again),
           FirstIsSystem(Messages(l))
    PROVE  /\ Steady(Repaired(l), s, again)
           /\ FirstIsSystem(Messages(Repaired(l)))
           /\ Calls(Messages(Repaired(l))) = Answered(Messages(Repaired(l)))
           /\ HeldBy(Messages(Repaired(l))) = HeldBy(Messages(l))
           /\ Adds(l, Repaired(l))
<1> DEFINE M == Messages(l)
           P == Paired(M)
           R == Reread(l)
           k == Rewrite(l, P)
<1>1. l \in Logs(s) /\ Settled(M) /\ (again => Mirrored(l))
  BY DEF Steady
<1>2. M \in Seq(Msgs(s)) /\ R \in Seq(Msgs(s)) /\ Len(M) \in Nat
  BY <1>1, Shown
<1>3. /\ P \in Seq(Msgs(s)) /\ Settled(P) /\ Calls(P) = Answered(P)
      /\ HeldBy(P) = HeldBy(M) /\ FirstIsSystem(P)
  BY <1>1, <1>2, PairedGood
<1>4. Repaired(l) = IF P = M THEN l ELSE k
  BY DEF Repaired
<1>5. CASE P = M
  <2>1. Adds(l, l)
    BY <1>1, AddsSelf
  <2> HIDE DEF P
  <2> QED
    BY <1>3, <1>4, <1>5, <2>1
<1>6. CASE P # M
  <2> HIDE DEF P
  <2>1. k \in Logs(s) /\ Messages(k) = P /\ Reread(k) = R \o P /\ Adds(l, k)
    BY <1>1, <1>3, RewriteView
  <2> HIDE DEF k
  <2>2. ASSUME again PROVE Mirrored(k)
    <3>1. l.events # <<>>
      <4>1. M # <<>>
        BY <1>2, EmptySeq DEF FirstIsSystem
      <4> QED
        BY <1>1, <4>1, ShowsEvents
    <3>2. Settled(R) /\ FirstIsSystem(R)
      BY <1>1, <2>2, <3>1 DEF Mirrored
    <3> HIDE DEF R
    <3>3. Settled(R \o P)
      BY <1>2, <1>3, <3>2, ConcatSettled
    <3>4. FirstIsSystem(R \o P)
      BY <1>2, <1>3, <3>2, ConcatMembers
    <3>5. Follows(P, R \o P)
      BY <1>2, <1>3, FollowsConcat
    <3> QED
      BY <1>3, <2>1, <3>3, <3>4, <3>5 DEF Mirrored
  <2>3. Steady(k, s, again)
    BY <1>3, <2>1, <2>2 DEF Steady
  <2> QED
    BY <1>3, <1>4, <1>6, <2>1, <2>3
<1> QED
  BY <1>5, <1>6

\* A row that replaces a stretch, read back: the stretch of the surface in
\* memory, if the surface read so far is as long.
LEMMA FoldParts ==
    ASSUME NEW S, NEW q \in Seq(S), NEW to \in Nat, 2 <= to, NEW x \in S
    PROVE  /\ Fold(q, x, Replaced(2, to)) \in Seq(S)
           /\ to <= Len(q) => Fold(q, x, Replaced(2, to)) = Shadow(q, 2, to, x)
<1> DEFINE w == IF 2 - 1 < Len(q) THEN 2 - 1 ELSE Len(q)
           a == SubSeq(q, 1, w)
           b == SubSeq(q, to + 1, Len(q))
<1>1. Replaced(2, to).kind # "append" /\ Replaced(2, to).from = 2 /\ Replaced(2, to).to = to
  BY DEF Replaced
<1>2. Fold(q, x, Replaced(2, to)) = a \o <<x>> \o b
  BY <1>1 DEF Fold
<1>3. Len(q) \in Nat /\ w \in Nat /\ w <= Len(q)
  BY LenProperties
<1>4. to <= Len(q) => w = 2 - 1
  BY <1>3
<1>5. a \in Seq(S)
  <2>1. \A i \in 1..w : q[i] \in S
    BY <1>3, ElementOfSeq
  <2> HIDE DEF w
  <2> QED
    BY <1>3, <2>1, SubSeqProperties
<1>6. b \in Seq(S)
  <2>1. to + 1 \in Int /\ \A i \in to + 1..Len(q) : q[i] \in S
    BY <1>3, ElementOfSeq
  <2> QED
    BY <1>3, <2>1, SubSeqProperties
<1>7. to <= Len(q) => a \o <<x>> \o b = Shadow(q, 2, to, x)
  BY <1>4 DEF Shadow
<1> HIDE DEF a, b
<1>8. a \o <<x>> \o b \in Seq(S)
  <2>1. <<x>> \in Seq(S)
    OBVIOUS
  <2>2. a \o <<x>> \in Seq(S)
    BY <1>5, <2>1, ConcatProperties
  <2> QED
    BY <1>6, <2>2, ConcatProperties
<1> QED
  BY <1>2, <1>7, <1>8

\* The summary in the place of its stretch.
LEMMA CheckpointView ==
    ASSUME NEW s \in Counts, NEW l \in Logs(s), NEW to \in 2..Len(Messages(l)), NEW m \in Msgs(s)
    PROVE  /\ Replace(l, 2, to, m) \in Logs(s)
           /\ IsCut(Messages(Replace(l, 2, to, m)), Messages(l), to, m)
           /\ to <= Len(Reread(l)) =>
                 IsCut(Reread(Replace(l, 2, to, m)), Reread(l), to, m)
           /\ Replace(l, 2, to, m).events = Append(l.events, Event(m, Replaced(2, to)))
           /\ Replace(l, 2, to, m).events # <<>>
           /\ Len(Replace(l, 2, to, m).events) = Len(l.events) + 1
<1> DEFINE e == Event(m, Replaced(2, to))
           n == Len(l.events) + 1
           k == Replace(l, 2, to, m)
           es == l.events
           f == Fold(l.read, n, Replaced(2, to))
<1>1. /\ es \in Seq(Events(s)) /\ Len(es) \in Nat
      /\ l.surface \in Seq(1..Len(es)) /\ l.read \in Seq(1..Len(es))
      /\ Messages(l) = At(es, l.surface)
      /\ Len(Messages(l)) = Len(l.surface) /\ Len(Reread(l)) = Len(l.read)
      /\ Len(l.surface) \in Nat /\ Len(l.read) \in Nat
  BY Shown
<1>2. to \in Nat /\ 2 <= to /\ to \in 2..Len(l.surface)
      /\ (to <= Len(Reread(l)) => to \in 2..Len(l.read))
  BY <1>1
<1>3. e \in Events(s) /\ e.msg = m
  <2>1. Replaced(2, to) \in Ops
    BY <1>2 DEF Replaced, Ops
  <2> QED
    BY <2>1 DEF Event, Events
<1>4. f \in Seq(1..n) /\ (to <= Len(Reread(l)) => f = Shadow(l.read, 2, to, n))
  <2>1. n \in 1..n /\ l.read \in Seq(1..n)
    <3>1. 1..Len(es) \subseteq 1..n /\ n \in 1..n
      BY <1>1
    <3> QED
      BY <1>1, <3>1, SeqMonotonic
  <2> DEFINE S == 1..n
             q == l.read
  <2>2. n \in S /\ q \in Seq(S) /\ to \in Nat /\ 2 <= to /\ Len(Reread(l)) = Len(q)
    BY <1>1, <1>2, <2>1
  <2>3. f = Fold(q, n, Replaced(2, to))
    OBVIOUS
  <2> HIDE DEF S, q, f, n
  <2>4. f \in Seq(S) /\ (to <= Len(q) => f = Shadow(q, 2, to, n))
    BY <2>2, <2>3, FoldParts
  <2> QED
    BY <2>2, <2>4 DEF S, q
<1>5. k = [events |-> Append(es, e), surface |-> Shadow(l.surface, 2, to, n),
           read |-> f]
  BY DEF Replace, Logged
<1> HIDE DEF e, k, f
<1>6. Append(es, e) \in Seq(Events(s)) /\ Len(Append(es, e)) = n
  BY <1>1, <1>3, AtAppend
<1>7. /\ Shadow(l.surface, 2, to, n) \in Seq(1..n)
      /\ IsCut(At(Append(es, e), Shadow(l.surface, 2, to, n)), At(es, l.surface), to, m)
  BY <1>1, <1>2, <1>3, AtCut
<1>8. to <= Len(Reread(l)) =>
         IsCut(At(Append(es, e), Shadow(l.read, 2, to, n)), At(es, l.read), to, m)
  BY <1>1, <1>2, <1>3, AtCut
<1>9. Shadow(l.surface, 2, to, n) \in Seq(Nat) /\ f \in Seq(Nat)
  <2>1. 1..n \subseteq Nat
    BY <1>1
  <2> QED
    BY <1>4, <1>7, <2>1, SeqMonotonic
<1>10. k \in Logs(s)
  BY <1>4, <1>5, <1>6, <1>7, <1>9 DEF Logs
<1>11. /\ k.events = Append(es, e) /\ k.surface = Shadow(l.surface, 2, to, n)
       /\ k.read = f
  BY <1>5
<1>12. IsCut(Messages(k), Messages(l), to, m)
  BY <1>1, <1>7, <1>10, <1>11, Shown
<1>13. to <= Len(Reread(l)) => IsCut(Reread(k), Reread(l), to, m)
  BY <1>4, <1>8, <1>11 DEF Reread
<1> QED
  BY <1>10, <1>11, <1>12, <1>13 DEF k, e

\* The prompt in front of a log that began without.
LEMMA FrontSteady ==
    ASSUME NEW s \in Counts, NEW l, Steady(l, s, FALSE)
    PROVE  /\ Steady(InsertFront(l, System), s, FALSE)
           /\ FirstIsSystem(Messages(InsertFront(l, System)))
           /\ HeldBy(Messages(l)) \subseteq HeldBy(Messages(InsertFront(l, System)))
           /\ Adds(l, InsertFront(l, System))
<1> DEFINE e == Event(System, Appended)
           n == Len(l.events) + 1
           k == InsertFront(l, System)
           es == l.events
           M == Messages(l)
           g == <<System>>
<1>1. l \in Logs(s) /\ Settled(M)
  BY DEF Steady
<1>2. /\ es \in Seq(Events(s)) /\ Len(es) \in Nat
      /\ l.surface \in Seq(1..Len(es)) /\ l.read \in Seq(1..Len(es))
      /\ M = At(es, l.surface) /\ M \in Seq(Msgs(s))
  BY <1>1, Shown
<1>3. System \in Msgs(s) /\ System.role = "system" /\ System.calls = {} /\ System.answers = 0
  BY BoundAssumption DEF System, Message, Msgs, Shaped, Role, Counts
<1>4. e \in Events(s) /\ e.msg = System /\ e.op = Appended
  BY <1>3 DEF Event, Events, Ops
<1>5. k = [events |-> Append(es, e), surface |-> <<n>> \o l.surface, read |-> Append(l.read, n)]
  BY DEF InsertFront, Logged, Fold, Appended
<1> HIDE DEF e, k, M
<1>6. /\ Append(es, e) \in Seq(Events(s)) /\ Len(Append(es, e)) = n
      /\ Append(es, e)[n] = e
      /\ \A i \in 1..Len(es) : Append(es, e)[i] = es[i]
  BY <1>2, <1>4, AtAppend
<1>7. /\ <<n>> \o l.surface \in Seq(1..n)
      /\ At(Append(es, e), <<n>> \o l.surface) = g \o M
  BY <1>2, <1>4, AtFront
<1>8. Append(l.read, n) \in Seq(1..n)
  BY <1>2, <1>4, AtEnd
<1>9. <<n>> \o l.surface \in Seq(Nat) /\ Append(l.read, n) \in Seq(Nat)
  <2>1. 1..n \subseteq Nat
    BY <1>2
  <2> QED
    BY <1>7, <1>8, <2>1, SeqMonotonic
<1>10. k \in Logs(s)
  BY <1>5, <1>6, <1>7, <1>8, <1>9 DEF Logs
<1>11. k.events = Append(es, e) /\ k.surface = <<n>> \o l.surface
  BY <1>5
<1>12. Messages(k) = g \o M
  BY <1>7, <1>10, <1>11, Shown
<1>13. Adds(l, k)
  <2>1. \A i \in Len(es) + 1..n : i = n
    BY <1>2
  <2> QED
    BY <1>2, <1>4, <1>6, <1>11, <2>1 DEF Adds
<1>14. g \in Seq(Msgs(s)) /\ Len(g) = 1 /\ g[1] = System
  BY <1>3
<1> HIDE DEF g
<1>15. FirstIsSystem(g)
  BY <1>3, <1>14 DEF FirstIsSystem
<1>16. FirstIsSystem(g \o M) /\ HeldBy(M) \subseteq HeldBy(g \o M)
  BY <1>2, <1>14, <1>15, ConcatMembers
<1>17. Settled(g \o M)
  <2> DEFINE f == g \o M
             z == Len(M)
  <2>1. /\ f \in Seq(Msgs(s)) /\ Len(f) = 1 + z /\ z \in Nat
        /\ \A i \in 1..1 + z : f[i] = IF i <= 1 THEN g[i] ELSE M[i - 1]
    <3>1. /\ f \in Seq(Msgs(s)) /\ Len(f) = Len(g) + z
          /\ \A i \in 1..Len(g) + z : f[i] = IF i <= Len(g) THEN g[i] ELSE M[i - Len(g)]
      BY <1>2, <1>14, ConcatProperties
    <3>2. z \in Nat
      BY <1>2, LenProperties
    <3> HIDE DEF f, z
    <3> QED
      BY <1>14, <3>1, <3>2
  <2> HIDE DEF f, z
  <2>2. f[1].calls = {} /\ f[1].answers = 0
    BY <1>3, <1>14, <2>1
  <2>3. \A i \in 1..1 + z : i # 1 => i - 1 \in 1..z /\ f[i] = M[i - 1]
    BY <2>1
  <2>4. \A i \in 1..z : i + 1 \in 1..1 + z /\ f[i + 1] = M[i]
    BY <2>1
  <2>5. \A i \in 1..1 + z : 0 \notin f[i].calls
    BY <2>1, MsgAt
  <2>6. ASSUME NEW i \in 1..1 + z, NEW j \in 1..1 + z, f[j].answers \in f[i].calls
        PROVE  \E b \in 1..1 + z : i < b /\ f[b].answers = f[j].answers
    <3>1. i # 1 /\ j # 1
      BY <2>2, <2>5, <2>6
    <3>2. i - 1 \in 1..z /\ j - 1 \in 1..z /\ M[j - 1].answers \in M[i - 1].calls
          /\ f[j] = M[j - 1]
      BY <2>3, <2>6, <3>1
    <3>3. \E b \in 1..z : i - 1 < b /\ M[b].answers = M[j - 1].answers
      <4>1. \A p, q \in 1..Len(M) : M[q].answers \in M[p].calls =>
               \E b \in 1..Len(M) : p < b /\ M[b].answers = M[q].answers
        BY <1>1, <1>2, SettledAt
      <4> QED
        BY <3>2, <4>1 DEF z
    <3>4. PICK b \in 1..z : i - 1 < b /\ M[b].answers = M[j - 1].answers
      BY <3>3
    <3>5. b + 1 \in 1..1 + z /\ i < b + 1 /\ f[b + 1] = M[b]
      BY <2>1, <2>4, <3>4
    <3> QED
      BY <3>2, <3>4, <3>5
  <2>7. ASSUME NEW i \in 1..1 + z, NEW j \in 1..1 + z, NEW b \in 1..1 + z, i < j, j < b,
               f[j].answers \in f[i].calls, f[b].answers = f[j].answers
        PROVE  \E a \in 1..1 + z : j < a /\ f[j].answers \in f[a].calls
    <3>1. i # 1 /\ j # 1 /\ b # 1
      BY <2>2, <2>5, <2>7
    <3>2. /\ i - 1 \in 1..z /\ j - 1 \in 1..z /\ b - 1 \in 1..z
          /\ f[i] = M[i - 1] /\ f[j] = M[j - 1] /\ f[b] = M[b - 1]
      BY <2>3, <3>1
    <3>3. i - 1 < j - 1 /\ j - 1 < b - 1
      BY <2>1, <2>7
    <3>4. M[j - 1].answers \in M[i - 1].calls /\ M[b - 1].answers = M[j - 1].answers
      BY <2>7, <3>2
    <3>5. \E a \in 1..z : j - 1 < a /\ M[j - 1].answers \in M[a].calls
      BY <1>1, <1>2, <3>2, <3>3, <3>4, SettledAt DEF z
    <3>6. PICK a \in 1..z : j - 1 < a /\ M[j - 1].answers \in M[a].calls
      BY <3>5
    <3>7. a + 1 \in 1..1 + z /\ j < a + 1 /\ f[a + 1] = M[a]
      BY <2>1, <2>4, <3>6
    <3> QED
      BY <3>2, <3>6, <3>7
  <2>8. f \in Seq(Msgs(s)) /\ Len(f) = 1 + z
    BY <2>1
  <2>9. Settled(f)
    <3> DEFINE y == 1 + z
    <3>1. /\ \A i \in 1..y, j \in 1..y : f[j].answers \in f[i].calls =>
               \E b \in 1..y : i < b /\ f[b].answers = f[j].answers
          /\ \A i \in 1..y, j \in 1..y, b \in 1..y :
               i < j /\ j < b /\ f[j].answers \in f[i].calls /\ f[b].answers = f[j].answers =>
               \E a \in 1..y : j < a /\ f[j].answers \in f[a].calls
      BY <2>6, <2>7
    <3>2. y = Len(f)
      BY <2>8
    <3> HIDE DEF y
    <3> QED
      BY <2>8, <3>1, <3>2, SettledAt
  <2> QED
    BY <2>9 DEF f
<1>18. Steady(k, s, FALSE)
  BY <1>10, <1>12, <1>17 DEF Steady
<1> QED
  BY <1>12, <1>13, <1>16, <1>18 DEF k, M

-----------------------------------------------------------------------------
(* The head of the loop. *)

\* What is chosen for compaction begins after the prompt, ends before the
\* tail and parts no call from its result.
LEMMA StretchParts ==
    ASSUME NEW s \in Counts, NEW ms \in Seq(Msgs(s)), FirstIsSystem(ms),
           NEW span \in Stretches(ms)
    PROVE  \E to \in 2..Len(ms) : /\ span = <<2, to>> /\ to + Retain <= Len(ms)
                                  /\ Balanced(ms, 2, to)
<1>1. Len(ms) \in Nat /\ Retain \in Nat /\ MinCompact \in Nat /\ MinCompact > 0
  BY LenProperties, BoundAssumption
<1>2. PICK more \in {0, 2, 4} : span \in Stretch(ms, Retain + more)
  BY DEF Stretches
<1> DEFINE r == Retain + more
           Ends    == {to \in 2..Len(ms) - r : Balanced(ms, 2, to)}
           Longest == {to \in Ends : \A e \in Ends : e <= to}
<1>3. r \in Nat /\ r >= Retain
  BY <1>1, <1>2
<1>4. Stretch(ms, r) = IF Len(ms) <= r + MinCompact THEN {}
                       ELSE {<<2, to>> : to \in {e \in Longest : e - 2 + 1 >= MinCompact}}
  BY Zenon DEF Stretch, FirstIsSystem
<1> HIDE DEF r, Longest
<1>5. PICK to \in Longest : span = <<2, to>> /\ to - 2 + 1 >= MinCompact
  BY <1>2, <1>4 DEF r
<1>6. to \in 2..Len(ms) - r /\ Balanced(ms, 2, to)
  BY DEF Longest
<1>7. to \in 2..Len(ms) /\ to + Retain <= Len(ms)
  BY <1>1, <1>3, <1>6
<1> QED
  BY <1>5, <1>6, <1>7

\* What a stretch holds was said.
LEMMA StretchHeld ==
    ASSUME NEW s \in Counts, NEW ms \in Seq(Msgs(s)), NEW to \in 2..Len(ms)
    PROVE  HeldBy(SubSeq(ms, 2, to)) \in SUBSET (1..s.msgs)
<1> DEFINE q == SubSeq(ms, 2, to)
<1>1. Len(ms) \in Nat /\ \A j \in 2..to : ms[j] \in Msgs(s)
  BY MsgAt
<1>2. q \in Seq(Msgs(s))
  BY <1>1, SubSeqProperties
<1> HIDE DEF q
<1>3. ASSUME NEW n \in HeldBy(q) PROVE n \in 1..s.msgs
  <2>1. PICK i \in DOMAIN q : n \in q[i].holds
    BY <1>3, Members
  <2>2. q[i] \in Msgs(s) /\ i \in 1..Len(q)
    BY <1>2, <2>1, MsgAt
  <2> QED
    BY <1>2, <2>1, <2>2, MsgAt
<1> QED
  BY <1>3 DEF q

\* A summary holds nothing that its stretch does not hold.
LEMMA SummariesHeld ==
    ASSUME NEW s \in Counts, NEW M \in Seq(Msgs(s)), NEW to \in 2..Len(M),
           NEW holds \in Summaries(SubSeq(M, 2, to))
    PROVE  holds \in SUBSET HeldBy(SubSeq(M, 2, to))
<1> DEFINE q == SubSeq(M, 2, to)
<1>1. Len(M) \in Nat /\ \A j \in 2..to : M[j] \in Msgs(s)
  BY MsgAt
<1>2. q \in Seq(Msgs(s))
  BY <1>1, SubSeqProperties
<1> HIDE DEF q
<1>3. Len(q) \in Nat /\ DOMAIN q = 1..Len(q)
  BY <1>2, LenProperties
<1>4. holds \in SUBSET HeldBy(q) \/ holds \in SUBSET HeldBy(Latest(q))
  BY DEF Summaries, q
<1> DEFINE from == IF Len(q) > FallbackKeep THEN Len(q) - FallbackKeep + 1 ELSE 1
<1>5. HeldBy(Latest(q)) \subseteq HeldBy(q)
  <2>1. CASE Len(q) = 0
    <3>1. q = <<>>
      BY <1>2, <2>1, EmptySeq
    <3>2. Latest(q) = SubSeq(q, 1, 0)
      BY <2>1, BoundAssumption DEF Latest
    <3>3. Latest(q) = <<>>
      BY <3>2, SubSeqProperties, <1>2
    <3> QED
      BY <3>1, <3>3
  <2>2. CASE Len(q) # 0
    <3>1. from \in 1..Len(q)
      BY <1>3, <2>2, BoundAssumption
    <3>2. Latest(q) = SubSeq(q, from, Len(q))
      BY DEF Latest
    <3> HIDE DEF from
    <3> DEFINE r == SubSeq(q, from, Len(q))
    <3>3. /\ DOMAIN r = 1..Len(q) - from + 1
          /\ \A i \in 1..Len(q) - from + 1 : r[i] = q[from + i - 1]
      BY <1>2, <1>3, <3>1, SubSeqProperties
    <3> HIDE DEF r
    <3> SUFFICES ASSUME NEW n \in HeldBy(r) PROVE n \in HeldBy(q)
      BY <3>2 DEF r
    <3>4. PICK i \in DOMAIN r : n \in r[i].holds
      BY Members
    <3>5. i \in 1..Len(q) - from + 1 /\ n \in q[from + i - 1].holds
      BY <3>3, <3>4
    <3>6. from + i - 1 \in DOMAIN q
      BY <1>3, <3>1, <3>5
    <3> QED
      BY <3>5, <3>6, Members
  <2> QED
    BY <2>1, <2>2
<1> QED
  BY <1>4, <1>5 DEF q

\* The loop at the head, with a log that is repaired.
LEMMA SampleGood ==
    ASSUME NEW s \in Counts, NEW again \in BOOLEAN, NEW k, NEW v \in Works(s),
           Steady(k, s, again), Whole(k, s), FirstIsSystem(Messages(k)),
           Calls(Messages(k)) = Answered(Messages(k)),
           v.todo = {}, v.pc = "sample"
    PROVE  Good(k, v, s, again)
BY DEF Good, Unanswered

\* A compaction that has begun to wait for its summary.
LEMMA CompactGood ==
    ASSUME NEW s \in Counts, NEW again \in BOOLEAN, NEW k, NEW v \in Works(s),
           Steady(k, s, again), Whole(k, s), FirstIsSystem(Messages(k)),
           Calls(Messages(k)) = Answered(Messages(k)), v.todo = {},
           NEW span \in Stretches(Messages(k)), NEW why \in {"pressure", "overflow"},
           Compacting(k, v, span, why)
    PROVE  Good(log', work', s, again) /\ log' = k
<1> DEFINE M == Messages(k)
<1>1. M \in Seq(Msgs(s)) /\ Len(M) \in Nat
  BY Shown DEF Steady
<1> HIDE DEF M
<1>2. PICK to \in 2..Len(M) : /\ span = <<2, to>> /\ to + Retain <= Len(M)
                              /\ Balanced(M, 2, to)
  BY <1>1, StretchParts DEF M
<1>3. span[1] = 2 /\ span[2] = to /\ Len(span) = 2 /\ span \in Seq(Nat)
  BY <1>1, <1>2
<1> DEFINE held == HeldBy(SubSeq(M, 2, to))
<1>4. held \in SUBSET (1..s.msgs)
  BY <1>1, StretchHeld
<1>5. log' = k /\ \E holds \in Summaries(SubSeq(M, 2, to)) :
         work' = [v EXCEPT !.pc = "compact", !.span = span, !.why = why,
                           !.holds = holds, !.omits = held \ holds]
  BY <1>3 DEF Compacting, M
<1>6. PICK holds \in SUBSET held :
         work' = [v EXCEPT !.pc = "compact", !.span = span, !.why = why,
                           !.holds = holds, !.omits = held \ holds]
  BY <1>1, <1>5, SummariesHeld
<1> HIDE DEF held
<1>7. /\ work' \in Works(s) /\ work'.todo = {} /\ work'.pc = "compact"
      /\ work'.span = span /\ work'.holds \cup work'.omits = held
  BY <1>3, <1>4, <1>6 DEF Works
<1>8. SpanGood(M, work')
  BY <1>2, <1>3, <1>7 DEF SpanGood, held
<1> QED
  BY <1>5, <1>7, <1>8 DEF Good, Unanswered, M

\* The head of the loop, whether it repairs, reminds and compacts or not.
LEMMA PrepareGood ==
    ASSUME NEW s \in Counts, NEW again \in BOOLEAN, NEW l, NEW w \in Works(s),
           Steady(l, s, again), Whole(l, s), FirstIsSystem(Messages(l)), w.todo = {},
           Prepare(l, w)
    PROVE  Good(log', work', s, again) /\ Adds(l, log')
<1>1. PICK remind \in BOOLEAN :
       LET ready == IF remind THEN Put(Repaired(l), Reminder) ELSE Repaired(l)
           w1    == [w EXCEPT !.reminded = @ \/ remind] IN
       \/ log' = ready /\ work' = [w1 EXCEPT !.pc = "sample"]
       \/ \E span \in Stretches(Messages(ready)) : Compacting(ready, w1, span, "pressure")
  BY Zenon DEF Prepare
<1> DEFINE a == Repaired(l)
           k == IF remind THEN Put(a, Reminder) ELSE a
           v == [w EXCEPT !.reminded = @ \/ remind]
<1>2. /\ Steady(a, s, again) /\ FirstIsSystem(Messages(a))
      /\ Calls(Messages(a)) = Answered(Messages(a))
      /\ HeldBy(Messages(a)) = HeldBy(Messages(l))
      /\ Adds(l, a)
  BY RepairedSteady
<1> HIDE DEF a
<1>3. /\ l \in Logs(s) /\ a \in Logs(s) /\ Messages(a) \in Seq(Msgs(s))
      /\ Len(Messages(a)) \in Nat
  BY <1>2, Shown DEF Steady
<1>4. /\ Reminder \in Msgs(s) /\ Reminder.calls = {} /\ Reminder.answers = 0
      /\ Reminder.holds = {}
  BY BoundAssumption DEF Reminder, Message, Msgs, Shaped, Role, Counts
<1>5. a.events # <<>>
  <2>1. Messages(a) # <<>>
    BY <1>2, EmptySeq DEF FirstIsSystem
  <2> QED
    BY <1>3, <2>1, ShowsEvents
<1> DEFINE p == Put(a, Reminder)
<1>6. /\ Steady(p, s, again) /\ p \in Logs(s)
      /\ Messages(p) = Append(Messages(a), Reminder) /\ Adds(a, p)
  BY <1>2, <1>3, <1>4, <1>5, PutPlain, PutView
<1> HIDE DEF p
<1>7. /\ FirstIsSystem(Messages(p)) /\ Calls(Messages(p)) = Answered(Messages(p))
      /\ HeldBy(Messages(p)) = HeldBy(Messages(a))
  <2> DEFINE b == Append(Messages(a), Reminder)
  <2>1. /\ HeldBy(b) = HeldBy(Messages(a)) \cup Reminder.holds
        /\ Calls(b) = Calls(Messages(a)) \cup Reminder.calls
        /\ Answered(b) = Answered(Messages(a)) \cup ({Reminder.answers} \ {0})
        /\ FirstIsSystem(b)
    <3> DEFINE ms == Messages(a)
    <3>1. ms \in Seq(Msgs(s)) /\ FirstIsSystem(ms) /\ Reminder \in Msgs(s)
      BY <1>2, <1>3, <1>4
    <3> HIDE DEF ms
    <3>2. /\ HeldBy(Append(ms, Reminder)) = HeldBy(ms) \cup Reminder.holds
          /\ Calls(Append(ms, Reminder)) = Calls(ms) \cup Reminder.calls
          /\ Answered(Append(ms, Reminder)) = Answered(ms) \cup ({Reminder.answers} \ {0})
          /\ FirstIsSystem(Append(ms, Reminder))
      BY <3>1, AppendMembers
    <3> QED
      BY <3>2 DEF ms
  <2> HIDE DEF b
  <2>2. HeldBy(b) = HeldBy(Messages(a)) /\ Calls(b) = Calls(Messages(a))
    BY <1>4, <2>1
  <2>3. Answered(b) = Answered(Messages(a))
    BY <1>4, <2>1
  <2> QED
    BY <1>2, <1>6, <2>1, <2>2, <2>3 DEF b
<1>8. /\ Steady(k, s, again) /\ k \in Logs(s) /\ Adds(l, k)
      /\ FirstIsSystem(Messages(k)) /\ Calls(Messages(k)) = Answered(Messages(k))
      /\ HeldBy(Messages(k)) = HeldBy(Messages(l))
  BY <1>2, <1>3, <1>6, <1>7, AddsMore DEF p
<1>9. v \in Works(s) /\ v.todo = {}
  BY DEF Works
<1>10. Whole(k, s)
  BY <1>8 DEF Whole
<1>11. \/ log' = k /\ work' = [v EXCEPT !.pc = "sample"]
       \/ \E span \in Stretches(Messages(k)) : Compacting(k, v, span, "pressure")
  BY <1>1 DEF a
<1> HIDE DEF k, v
<1>12. CASE log' = k /\ work' = [v EXCEPT !.pc = "sample"]
  <2>1. work' \in Works(s) /\ work'.pc = "sample" /\ work'.todo = {}
    BY <1>9, <1>12 DEF Works
  <2>2. Good(k, work', s, again)
    BY <1>8, <1>10, <2>1, SampleGood
  <2> QED
    BY <1>8, <1>12, <2>2
<1>13. CASE \E span \in Stretches(Messages(k)) : Compacting(k, v, span, "pressure")
  BY <1>8, <1>9, <1>10, <1>13, CompactGood
<1> QED
  BY <1>11, <1>12, <1>13

-----------------------------------------------------------------------------
(* What the steps put on the log. *)

\* A message that says one thing more and calls and answers nothing.
LEMMA SaySteady ==
    ASSUME NEW s \in Counts, NEW t \in Counts, NEW again \in BOOLEAN, NEW l,
           Steady(l, s, again), Whole(l, s), l.events # <<>> \/ ~again,
           t.msgs = s.msgs + 1, t.calls = s.calls, t.omitted = s.omitted,
           NEW m \in Msgs(t), m.holds = {s.msgs + 1}, m.calls = {}, m.answers = 0
    PROVE  /\ Steady(Put(l, m), t, again) /\ Whole(Put(l, m), t)
           /\ Messages(Put(l, m)) = Append(Messages(l), m)
           /\ Messages(l) \in Seq(Msgs(t))
           /\ Put(l, m).events # <<>>
           /\ Adds(l, Put(l, m))
<1>1. s.msgs \in Nat /\ s.calls \in Nat /\ s.msgs <= t.msgs /\ s.calls <= t.calls
  BY BoundAssumption DEF Counts
<1>2. l \in Logs(t) /\ Steady(l, t, again)
  BY <1>1, LogsMore DEF Steady
<1>3. Steady(Put(l, m), t, again)
  BY <1>2, PutPlain
<1>4. /\ Messages(Put(l, m)) = Append(Messages(l), m) /\ Messages(l) \in Seq(Msgs(t))
      /\ Put(l, m).events # <<>>
      /\ Adds(l, Put(l, m))
  BY <1>2, PutView, Shown
<1>5. HeldBy(Append(Messages(l), m)) = HeldBy(Messages(l)) \cup m.holds
  BY <1>4, AppendMembers
<1>6. 1..t.msgs \subseteq 1..s.msgs \cup {s.msgs + 1}
  BY <1>1
<1>7. Whole(Put(l, m), t)
  BY <1>4, <1>5, <1>6 DEF Whole
<1> QED
  BY <1>3, <1>4, <1>7

\* What the user or the model says is such a message.
LEMMA SaidMsgs ==
    ASSUME NEW s \in Counts, NEW n \in 1..s.msgs
    PROVE  /\ User(n) \in Msgs(s) /\ User(n).holds = {n} /\ User(n).calls = {}
           /\ User(n).answers = 0
           /\ Reply(n, {}) \in Msgs(s) /\ Reply(n, {}).holds = {n} /\ Reply(n, {}).calls = {}
           /\ Reply(n, {}).answers = 0
BY BoundAssumption DEF User, Reply, Message, Msgs, Shaped, Role, Counts

\* The counts after n more messages.
LEMMA SayCounts ==
    ASSUME said \in Counts, NEW n \in {1, 2}, Say(n)
    PROVE  /\ said' \in Counts /\ said'.msgs = said.msgs + n /\ said'.calls = said.calls
           /\ said'.omitted = said.omitted
           /\ said.msgs \in Nat /\ said.calls \in Nat
BY BoundAssumption DEF Say, Counts

\* The loop at rest.
LEMMA RestGood ==
    ASSUME NEW s \in Counts, NEW again \in BOOLEAN, NEW l, NEW v \in Works(s),
           Steady(l, s, again), Whole(l, s), v.pc = "idle", v.todo = {}
    PROVE  Good(l, v, s, again)
BY DEF Good, Unanswered

\* A fresh loop is idle.
LEMMA IdleWorks ==
    ASSUME NEW s \in Counts
    PROVE  Idle \in Works(s) /\ Idle.pc = "idle" /\ Idle.todo = {}
<1>1. <<>> \in Seq(Nat)
  BY EmptySeq
<1> QED
  BY <1>1 DEF Idle, Works

\* A loop that has ended is idle, whatever the metadata remembers.
LEMMA RestedWorks ==
    ASSUME NEW s \in Counts, NEW t \in Counts, work \in Works(t)
    PROVE  Rested \in Works(s) /\ Rested.pc = "idle" /\ Rested.todo = {}
<1>1. Idle \in Works(s) /\ Idle.pc = "idle" /\ Idle.todo = {}
  BY IdleWorks
<1>2. work.retried \in BOOLEAN /\ work.reminded \in BOOLEAN
  BY DEF Works
<1> QED
  BY <1>1, <1>2 DEF Rested, Works

\* The context of a turn, or skills that match it, on a log with a prompt.
LEMMA SystemPut ==
    ASSUME NEW s \in Counts, NEW again \in BOOLEAN, NEW l,
           Steady(l, s, again), Whole(l, s), FirstIsSystem(Messages(l))
    PROVE  LET k == Put(l, System) IN
           /\ Steady(k, s, again) /\ Whole(k, s) /\ FirstIsSystem(Messages(k))
           /\ Adds(l, k)
<1> DEFINE k == Put(l, System)
           M == Messages(l)
           y == System
<1>1. l \in Logs(s) /\ M \in Seq(Msgs(s))
  BY Shown DEF Steady
<1>2. y \in Msgs(s) /\ y.role = "system" /\ y.calls = {} /\ y.answers = 0
  BY BoundAssumption DEF System, Message, Msgs, Shaped, Role, Counts
<1>3. Steady(k, s, again)
  BY <1>2, PutPlain
<1>4. Messages(k) = Append(M, y) /\ Adds(l, k)
  BY <1>1, <1>2, PutView
<1>5. FirstIsSystem(M)
  OBVIOUS
<1> HIDE DEF M, y
<1>6. HeldBy(Append(M, y)) = HeldBy(M) \cup y.holds /\ FirstIsSystem(Append(M, y))
  BY <1>1, <1>2, <1>5, AppendMembers
<1>7. Whole(k, s)
  BY <1>4, <1>6 DEF Whole, M
<1> QED
  BY <1>3, <1>4, <1>6, <1>7

\* A message of the user, on a log that is idle or read back.
LEMMA TurnGood ==
    ASSUME said \in Counts, NEW again \in BOOLEAN, NEW l, NEW fresh \in Works(said),
           Steady(l, said, again), Whole(l, said), fresh.todo = {}, Turn(l, fresh)
    PROVE  said' \in Counts /\ Good(log', work', said', again) /\ Adds(l, log')
<1> DEFINE M == Messages(l)
           k == IF l.surface = <<>> THEN Put(l, System)
                ELSE IF M[1].role # "system" THEN InsertFront(l, System)
                ELSE l
           h == Put(k, System)
           m == User(said.msgs + 1)
           p == Put(h, m)
           q == Put(p, System)
<1>1. Say(1) /\ \E begun \in {p, q} : Prepare(begun, fresh)
  BY DEF Turn, Next1
<1>2. /\ said' \in Counts /\ said'.msgs = said.msgs + 1 /\ said'.calls = said.calls
      /\ said'.omitted = said.omitted
      /\ said.msgs \in Nat /\ said.calls \in Nat
  BY <1>1, SayCounts
<1>3. l \in Logs(said) /\ M \in Seq(Msgs(said)) /\ Len(M) = Len(l.surface) /\ Len(M) \in Nat
      /\ l.surface \in Seq(1..Len(l.events))
  BY Shown DEF Steady
<1>4. Steady(k, said, again) /\ Whole(k, said) /\ FirstIsSystem(Messages(k)) /\ Adds(l, k)
  <2>1. CASE l.surface = <<>>
    <3>1. k = Put(l, System)
      BY <2>1
    <3>2. M = <<>>
      BY <1>3, <2>1, EmptySeq
    <3>3. System \in Msgs(said) /\ System.role = "system" /\ System.calls = {} /\ System.answers = 0
      BY BoundAssumption DEF System, Message, Msgs, Shaped, Role, Counts
    <3> HIDE DEF k, M
    <3>4. Steady(k, said, again)
      BY <3>1, <3>3, PutPlain
    <3>5. Messages(k) = Append(M, System) /\ Adds(l, k)
      BY <1>3, <3>1, <3>3, PutView DEF M
    <3>6. HeldBy(M) \subseteq HeldBy(Messages(k)) /\ FirstIsSystem(Messages(k))
      <4> DEFINE y == System
      <4>1. M \in Seq(Msgs(said)) /\ y \in Msgs(said) /\ y.role = "system"
        BY <1>3, <3>3
      <4> HIDE DEF y
      <4>2. /\ HeldBy(Append(M, y)) = HeldBy(M) \cup y.holds
            /\ FirstIsSystem(M) \/ (y.role = "system" /\ M = <<>>) => FirstIsSystem(Append(M, y))
        BY <4>1, AppendMembers
      <4>3. /\ HeldBy(M) \subseteq HeldBy(Append(M, y))
            /\ FirstIsSystem(Append(M, y))
        BY <3>2, <4>1, <4>2
      <4> QED
        BY <3>5, <4>3 DEF y
    <3> QED
      BY <3>4, <3>5, <3>6 DEF Whole, M
  <2>2. CASE l.surface # <<>> /\ M[1].role # "system"
    <3>1. k = InsertFront(l, System)
      BY <2>2
    <3>2. M # <<>>
      BY <1>3, <2>2, EmptySeq
    <3>3. ~again
      <4> SUFFICES ASSUME again PROVE FALSE
        OBVIOUS
      <4>1. l.events # <<>>
        BY <1>3, <3>2, ShowsEvents
      <4> QED
        BY <2>2, <4>1 DEF Steady, Mirrored, FirstIsSystem
    <3>4. again = FALSE
      BY <3>3
    <3> HIDE DEF k
    <3> QED
      BY <3>1, <3>4, FrontSteady DEF Whole
  <2>3. CASE l.surface # <<>> /\ M[1].role = "system"
    <3>1. k = l
      BY <2>3
    <3>2. FirstIsSystem(M)
      BY <1>3, <2>3, EmptySeq DEF FirstIsSystem
    <3> HIDE DEF k
    <3> QED
      BY <1>3, <3>1, <3>2, AddsSelf
  <2> QED
    BY <2>1, <2>2, <2>3
<1> HIDE DEF k
<1>5. /\ m \in Msgs(said') /\ m.holds = {said.msgs + 1} /\ m.calls = {} /\ m.answers = 0
  BY <1>2, SaidMsgs
<1>6. Steady(h, said, again) /\ Whole(h, said) /\ FirstIsSystem(Messages(h)) /\ Adds(k, h)
  BY <1>4, SystemPut
<1>7. k \in Logs(said) /\ h \in Logs(said) /\ h.events # <<>>
  <2>1. k \in Logs(said) /\ h \in Logs(said)
    BY <1>4, <1>6 DEF Steady
  <2>2. Messages(h) # <<>>
    BY <1>6, EmptySeq DEF FirstIsSystem
  <2> QED
    BY <2>1, <2>2, ShowsEvents
<1> HIDE DEF m, h
<1>8. /\ Steady(p, said', again) /\ Whole(p, said')
      /\ Messages(p) = Append(Messages(h), m) /\ Messages(h) \in Seq(Msgs(said'))
      /\ Adds(h, p)
  BY <1>2, <1>5, <1>6, <1>7, SaySteady
<1> HIDE DEF p
<1>9. FirstIsSystem(Messages(p))
  BY <1>2, <1>5, <1>6, <1>8, AppendMembers
<1>10. Steady(q, said', again) /\ Whole(q, said') /\ FirstIsSystem(Messages(q)) /\ Adds(p, q)
  <2> DEFINE t == said'
  <2>1. t \in Counts /\ Steady(p, t, again) /\ Whole(p, t) /\ FirstIsSystem(Messages(p))
    BY <1>2, <1>8, <1>9
  <2> HIDE DEF t
  <2>2. Steady(q, t, again) /\ Whole(q, t) /\ FirstIsSystem(Messages(q)) /\ Adds(p, q)
    BY <2>1, SystemPut
  <2> QED
    BY <2>2 DEF t
<1> HIDE DEF q
<1>11. PICK begun \in {p, q} : Prepare(begun, fresh)
  BY <1>1
<1>12. Adds(p, begun) /\ begun \in Logs(said')
  <2> DEFINE t == said'
  <2>1. p \in Logs(t) /\ q \in Logs(t) /\ t \in Counts
    BY <1>2, <1>8, <1>10 DEF Steady
  <2> HIDE DEF t
  <2>2. Adds(p, p)
    BY <2>1, AddsSelf
  <2> QED
    BY <1>10, <2>1, <2>2 DEF t
<1>13. /\ Steady(begun, said', again) /\ Whole(begun, said')
       /\ FirstIsSystem(Messages(begun))
  BY <1>8, <1>9, <1>10
<1>14. fresh \in Works(said')
  BY <1>2 DEF Works
<1>15. Good(log', work', said', again) /\ Adds(begun, log')
  BY <1>2, <1>11, <1>13, <1>14, PrepareGood
<1>16. Adds(l, log')
  <2> DEFINE t == said'
  <2>1. t \in Counts /\ said.msgs <= t.msgs /\ said.calls <= t.calls
    BY <1>2
  <2>2. p \in Logs(t) /\ log' \in Logs(t) /\ begun \in Logs(t)
    BY <1>8, <1>12, <1>15 DEF Steady, Good
  <2> HIDE DEF t
  <2>3. l \in Logs(t) /\ k \in Logs(t) /\ h \in Logs(t)
    BY <1>3, <1>7, <2>1, LogsMore
  <2>4. Adds(l, h)
    BY <1>4, <1>6, <2>1, <2>3, AddsMore
  <2>5. Adds(l, p)
    BY <1>8, <2>1, <2>2, <2>3, <2>4, AddsMore
  <2>6. Adds(l, begun)
    BY <1>12, <2>1, <2>2, <2>3, <2>5, AddsMore
  <2> QED
    BY <1>15, <2>1, <2>2, <2>3, <2>6, AddsMore
<1> QED
  BY <1>2, <1>15, <1>16

\* The log read back.
LEMMA ReloadedSteady ==
    ASSUME NEW s \in Counts, NEW again \in BOOLEAN, Steady(log, s, TRUE), Whole(log, s)
    PROVE  /\ Steady(Reloaded, s, again)
           /\ Whole(Reloaded, s)
           /\ Messages(Reloaded) = Reread(log)
           /\ Reread(Reloaded) = Reread(log)
           /\ Reloaded.events = log.events
<1>1. log \in Logs(s) /\ Mirrored(log)
  BY DEF Steady
<1>2. /\ Reread(log) \in Seq(Msgs(s)) /\ Messages(log) \in Seq(Msgs(s))
      /\ log.events \in Seq(Events(s)) /\ Len(log.events) \in Nat
  BY <1>1, Shown
<1>3. /\ Reloaded \in Logs(s) /\ Reloaded.events = log.events
      /\ Reloaded.surface = log.read /\ Reloaded.read = log.read
  BY <1>1 DEF Reloaded, Logs
<1>4. Messages(Reloaded) = Reread(log) /\ Reread(Reloaded) = Reread(log)
  BY <1>3, Shown DEF Reread
<1>5. Mirrored(Reloaded)
  BY <1>1, <1>2, <1>3, <1>4, FollowsSelf DEF Mirrored
<1>6. Whole(Reloaded, s)
  <2>1. CASE log.events # <<>>
    BY <1>1, <1>2, <1>4, <2>1, FollowsHeld DEF Whole, Mirrored
  <2>2. CASE log.events = <<>>
    <3>1. Messages(log) = <<>>
      BY <1>1, <2>2, ShowsEvents
    <3>2. HeldBy(<<>>) = {}
      BY DEF HeldBy, ToSet
    <3> QED
      BY <3>1, <3>2 DEF Whole
  <2> QED
    BY <2>1, <2>2
<1> QED
  BY <1>1, <1>3, <1>4, <1>5, <1>6 DEF Steady, Mirrored

\* A message at the end does not touch the stretch.
LEMMA SpanAppend ==
    ASSUME NEW s \in Counts, NEW ms \in Seq(Msgs(s)), NEW m \in Msgs(s), NEW w, SpanGood(ms, w)
    PROVE  SpanGood(Append(ms, m), w)
<1> DEFINE new == Append(ms, m)
           to == w.span[2]
<1>1. /\ Len(ms) \in Nat /\ Len(new) = Len(ms) + 1
      /\ \A i \in 1..Len(ms) : new[i] = ms[i] /\ ms[i] \in Msgs(s)
  BY AppendProperties, MsgAt
<1> HIDE DEF new
<1>2. /\ Len(w.span) = 2 /\ w.span[1] = 2
      /\ to \in 2..Len(ms) /\ to + Retain <= Len(ms)
      /\ Balanced(ms, 2, to)
      /\ w.holds \cup w.omits = HeldBy(SubSeq(ms, 2, to))
  BY DEF SpanGood
<1> HIDE DEF to
<1>3. to \in 2..Len(new) /\ to + Retain <= Len(new) /\ \A i \in 2..to : i \in 1..Len(ms)
  BY <1>1, <1>2, BoundAssumption
<1>4. Balanced(new, 2, to)
  <2> SUFFICES ASSUME NEW i \in 2..to, NEW c \in new[i].calls
               PROVE  \E j \in i+1..to : new[j].answers = c
    BY DEF Balanced
  <2>1. c \in ms[i].calls
    BY <1>1, <1>3
  <2>2. PICK j \in i+1..to : ms[j].answers = c
    BY <1>2, <2>1 DEF Balanced
  <2>3. j \in 1..Len(ms)
    BY <1>1, <1>2
  <2> QED
    BY <1>1, <2>2, <2>3
<1>5. SubSeq(new, 2, to) = SubSeq(ms, 2, to)
  <2>1. to \in Int /\ \A i \in 2..to : new[i] \in Msgs(s) /\ ms[i] \in Msgs(s) /\ new[i] = ms[i]
    BY <1>1, <1>3
  <2>2. /\ SubSeq(new, 2, to) \in Seq(Msgs(s))
        /\ Len(SubSeq(new, 2, to)) = IF 2 <= to THEN to - 2 + 1 ELSE 0
        /\ \A i \in 1..to - 2 + 1 : SubSeq(new, 2, to)[i] = new[2 + i - 1]
    BY <2>1, SubSeqProperties
  <2>3. /\ SubSeq(ms, 2, to) \in Seq(Msgs(s))
        /\ Len(SubSeq(ms, 2, to)) = IF 2 <= to THEN to - 2 + 1 ELSE 0
        /\ \A i \in 1..to - 2 + 1 : SubSeq(ms, 2, to)[i] = ms[2 + i - 1]
    BY <2>1, SubSeqProperties
  <2>4. 2 <= to
    BY <1>2
  <2>5. \A i \in 1..to - 2 + 1 : 2 + i - 1 \in 2..to
    BY <2>1
  <2> QED
    BY <2>1, <2>2, <2>3, <2>4, <2>5, SeqEqual
<1> QED
  BY <1>2, <1>3, <1>4, <1>5 DEF SpanGood, new, to

\* The surface in memory and the one of the file, both with more at the end.
LEMMA FollowsExtend ==
    ASSUME NEW s \in Counts, NEW ms \in Seq(Msgs(s)), NEW rs \in Seq(Msgs(s)),
           NEW b \in Seq(Msgs(s)), Follows(ms, rs), Len(ms) > 0
    PROVE  Follows(ms \o b, rs \o b)
<1> DEFINE new == ms \o b
           old == rs \o b
           d == Len(rs) - Len(ms)
<1>1. /\ Len(ms) \in Nat /\ Len(b) \in Nat /\ Len(new) = Len(ms) + Len(b)
      /\ \A i \in 1..Len(ms) + Len(b) : new[i] = IF i <= Len(ms) THEN ms[i] ELSE b[i - Len(ms)]
  BY ConcatProperties, LenProperties
<1>2. /\ Len(rs) \in Nat /\ Len(old) = Len(rs) + Len(b)
      /\ \A i \in 1..Len(rs) + Len(b) : old[i] = IF i <= Len(rs) THEN rs[i] ELSE b[i - Len(rs)]
  BY ConcatProperties, LenProperties
<1> HIDE DEF new, old
<1>3. d >= 0 /\ Len(old) - Len(new) = d /\ d \in Int
  BY <1>1, <1>2 DEF Follows
<1>4. ASSUME NEW i \in 1..Len(new), ~(i <= Len(ms)) PROVE new[i] = old[i + d]
  <2>1. i + d \in 1..Len(rs) + Len(b) /\ ~(i + d <= Len(rs)) /\ (i + d) - Len(rs) = i - Len(ms)
    BY <1>1, <1>2, <1>3, <1>4
  <2>2. i \in 1..Len(ms) + Len(b)
    BY <1>1
  <2>3. new[i] = b[i - Len(ms)] /\ old[i + d] = b[(i + d) - Len(rs)]
    BY <1>1, <1>2, <1>4, <2>1, <2>2
  <2> QED
    BY <2>1, <2>3
<1>5. ASSUME NEW i \in 3..Len(new) PROVE new[i] = old[i + d]
  <2>1. CASE i <= Len(ms)
    <3>1. /\ i \in 3..Len(ms) /\ i \in 1..Len(ms) + Len(b)
          /\ i + d \in 1..Len(rs) + Len(b) /\ i + d <= Len(rs)
      BY <1>1, <1>2, <1>3, <2>1
    <3>2. ms[i] = rs[i + d]
      BY <3>1 DEF Follows
    <3> QED
      BY <1>1, <1>2, <2>1, <3>1, <3>2
  <2>2. CASE ~(i <= Len(ms))
    BY <1>4, <2>2
  <2> QED
    BY <2>1, <2>2
<1>6. ASSUME Len(new) > 1 PROVE new[2] \in {old[2], old[2 + d]}
  <2>1. CASE 2 <= Len(ms)
    <3>1. /\ 2 \in 1..Len(ms) + Len(b) /\ 2 \in 1..Len(rs) + Len(b)
          /\ 2 + d \in 1..Len(rs) + Len(b) /\ 2 <= Len(rs) /\ 2 + d <= Len(rs)
      BY <1>1, <1>2, <1>3, <2>1
    <3>2. ms[2] \in {rs[2], rs[2 + d]}
      BY <2>1 DEF Follows
    <3>3. new[2] = ms[2] /\ old[2] = rs[2] /\ old[2 + d] = rs[2 + d]
      BY <1>1, <1>2, <2>1, <3>1
    <3> QED
      BY <3>2, <3>3
  <2>2. CASE ~(2 <= Len(ms))
    <3>1. 2 \in 1..Len(new)
      BY <1>1, <1>6
    <3> QED
      BY <1>4, <2>2, <3>1
  <2> QED
    BY <2>1, <2>2
<1>7. Follows(new, old)
  BY <1>3, <1>5, <1>6 DEF Follows
<1> QED
  BY <1>7 DEF new, old

-----------------------------------------------------------------------------
(* The steps. *)

\* May the log be read back again?
Again == reloads < MaxReload

\* The parts of the invariant that the steps need.
LEMMA InvParts ==
    ASSUME IInv
    PROVE  /\ said \in Counts /\ said.msgs \in Nat /\ said.calls \in Nat
           /\ reloads \in 0..MaxReload /\ MaxReload \in Nat /\ Again \in BOOLEAN
           /\ Steady(log, said, Again) /\ Whole(log, said)
           /\ log \in Logs(said) /\ work \in Works(said)
           /\ Messages(log) \in Seq(Msgs(said)) /\ Reread(log) \in Seq(Msgs(said))
           /\ work.todo \in SUBSET (1..said.calls)
           /\ work.todo # {} <=> work.pc \in {"tools", "rearmed"}
           /\ work.pc # "idle" => FirstIsSystem(Messages(log)) /\ log.events # <<>>
           /\ Unanswered(Messages(log), work.todo)
           /\ Again => Unanswered(Reread(log), work.todo)
           /\ work.pc \in {"sample", "compact"} => Calls(Messages(log)) = Answered(Messages(log))
           /\ work.pc = "compact" => SpanGood(Messages(log), work)
<1>1. said \in Counts /\ reloads \in 0..MaxReload /\ Good(log, work, said, Again)
  BY DEF IInv, Again
<1>2. Again \in BOOLEAN
  BY DEF Again
<1>3. said.msgs \in Nat /\ said.calls \in Nat /\ MaxReload \in Nat
  BY <1>1, BoundAssumption DEF Counts
<1> HIDE DEF Again
<1>4. log \in Logs(said)
  BY <1>1 DEF Good, Steady
<1>5. Messages(log) \in Seq(Msgs(said)) /\ Reread(log) \in Seq(Msgs(said))
  BY <1>1, <1>4, Shown
<1>6. work.pc # "idle" => FirstIsSystem(Messages(log)) /\ log.events # <<>>
  BY <1>1, <1>4, <1>5, ShowsEvents, EmptySeq DEF Good, FirstIsSystem
<1>7. work \in Works(said) /\ work.todo \in SUBSET (1..said.calls)
  BY <1>1 DEF Good, Works
<1> QED
  BY <1>1, <1>2, <1>3, <1>4, <1>5, <1>6, <1>7 DEF Good

\* What a step keeps that does not read the log back.
LEMMA InvNext ==
    ASSUME said' \in Counts, reloads' = reloads, reloads \in 0..MaxReload,
           Good(log', work', said', Again)
    PROVE  IInv'
BY DEF IInv, Again

\* chat_start and chat_continue keep the invariant.
LEMMA ContinueStep ==
    ASSUME IInv, Continue
    PROVE  IInv' /\ Adds(log, log')
<1>1. said \in Counts /\ Again \in BOOLEAN /\ Steady(log, said, Again) /\ Whole(log, said)
      /\ work \in Works(said) /\ reloads \in 0..MaxReload
  BY InvParts
<1>2. Turn(log, Rested) /\ reloads' = reloads
  BY DEF Continue
<1>3. Rested \in Works(said) /\ Rested.todo = {}
  BY <1>1, RestedWorks
<1>4. said' \in Counts /\ Good(log', work', said', Again) /\ Adds(log, log')
  BY <1>1, <1>2, <1>3, TurnGood
<1> QED
  BY <1>1, <1>2, <1>4, InvNext

\* create_run_resuming keeps the invariant: the clone shows what is read back.
LEMMA ResumeStep ==
    ASSUME IInv, Resume
    PROVE  IInv' /\ Adds(log, log')
<1>1. said \in Counts /\ Again \in BOOLEAN /\ Steady(log, said, Again) /\ Whole(log, said)
      /\ reloads \in 0..MaxReload /\ MaxReload \in Nat
  BY InvParts
<1>2. Turn(Reloaded, Idle) /\ reloads' = reloads + 1 /\ reloads < MaxReload
  BY DEF Resume
<1>3. Steady(log, said, TRUE)
  BY <1>1, <1>2 DEF Again, Steady
<1> DEFINE more == reloads' < MaxReload
<1>4. more \in BOOLEAN
  OBVIOUS
<1> HIDE DEF more
<1>5. Steady(Reloaded, said, more) /\ Whole(Reloaded, said) /\ Reloaded.events = log.events
  BY <1>1, <1>3, <1>4, ReloadedSteady
<1>6. Idle \in Works(said) /\ Idle.todo = {}
  BY <1>1, IdleWorks
<1>7. said' \in Counts /\ Good(log', work', said', more) /\ Adds(Reloaded, log')
  BY <1>1, <1>2, <1>4, <1>5, <1>6, TurnGood
<1>8. Adds(log, log')
  BY <1>5, <1>7 DEF Adds
<1>9. reloads' \in 0..MaxReload
  BY <1>1, <1>2
<1> QED
  BY <1>7, <1>8, <1>9 DEF IInv, more

\* A message in the middle of a run keeps the invariant: a stretch that a
\* compaction waits with is still where it was.
LEMMA UserContextStep ==
    ASSUME IInv, UserContext
    PROVE  IInv' /\ Adds(log, log')
<1> DEFINE m == User(said.msgs + 1)
           k == Put(log, m)
           M == Messages(log)
<1>1. /\ said \in Counts /\ Again \in BOOLEAN /\ Steady(log, said, Again) /\ Whole(log, said)
      /\ work \in Works(said) /\ reloads \in 0..MaxReload
      /\ work.todo \in SUBSET (1..said.calls)
      /\ work.todo # {} <=> work.pc \in {"tools", "rearmed"}
      /\ work.pc # "idle" => FirstIsSystem(M)
      /\ Unanswered(M, work.todo)
      /\ Again => Unanswered(Reread(log), work.todo)
      /\ work.pc \in {"sample", "compact"} => Calls(M) = Answered(M)
      /\ work.pc = "compact" => SpanGood(M, work)
  BY InvParts
<1>2. log.events # <<>> /\ Say(1) /\ log' = k /\ work' = work /\ reloads' = reloads
  BY DEF UserContext, Next1
<1>3. /\ said' \in Counts /\ said'.msgs = said.msgs + 1 /\ said'.calls = said.calls
      /\ said'.omitted = said.omitted
      /\ said.msgs \in Nat /\ said.calls \in Nat
  BY <1>1, <1>2, SayCounts
<1>4. /\ m \in Msgs(said') /\ m.holds = {said.msgs + 1} /\ m.calls = {} /\ m.answers = 0
  BY <1>3, SaidMsgs
<1> HIDE DEF m, M
<1>5. /\ Steady(k, said', Again) /\ Whole(k, said') /\ Messages(k) = Append(M, m)
      /\ M \in Seq(Msgs(said')) /\ Adds(log, k)
  BY <1>1, <1>2, <1>3, <1>4, SaySteady DEF M
<1>6. /\ Calls(Append(M, m)) = Calls(M) \cup m.calls
      /\ Answered(Append(M, m)) = Answered(M) \cup ({m.answers} \ {0})
      /\ FirstIsSystem(M) => FirstIsSystem(Append(M, m))
      /\ \A cs : Unanswered(M, cs) /\ m.answers \notin cs => Unanswered(Append(M, m), cs)
  <2>1. said' \in Counts /\ M \in Seq(Msgs(said')) /\ m \in Msgs(said')
    BY <1>3, <1>4, <1>5
  <2> DEFINE s == said'
  <2>2. s \in Counts /\ M \in Seq(Msgs(s)) /\ m \in Msgs(s)
    BY <2>1
  <2> HIDE DEF s
  <2> QED
    BY <2>2, AppendMembers
<1>7. Calls(M) = Answered(M) => Calls(Append(M, m)) = Answered(Append(M, m))
  BY <1>4, <1>6
<1>8. 0 \notin work.todo
  BY <1>1, <1>3
<1>9. Again => Unanswered(Reread(k), work.todo)
  <2>1. log \in Logs(said')
    BY <1>1, <1>3, LogsMore DEF Steady
  <2>2. Reread(k) = Append(Reread(log), m) /\ Reread(log) \in Seq(Msgs(said'))
    BY <1>3, <1>4, <2>1, PutView, Shown
  <2> QED
    BY <1>1, <1>3, <1>4, <1>8, <2>2, AppendMembers
<1>10. SpanGood(M, work) => SpanGood(Append(M, m), work)
  BY <1>3, <1>4, <1>5, SpanAppend
<1>11. work \in Works(said')
  BY <1>1, <1>3 DEF Works
<1> HIDE DEF k
<1>12. Good(k, work, said', Again)
  <2>1. Unanswered(Messages(k), work.todo)
    BY <1>1, <1>4, <1>5, <1>6, <1>8
  <2>2. work.pc # "idle" => FirstIsSystem(Messages(k))
    BY <1>1, <1>5, <1>6
  <2>3. work.pc \in {"sample", "compact"} => Calls(Messages(k)) = Answered(Messages(k))
    BY <1>1, <1>5, <1>7
  <2>4. work.pc = "compact" => SpanGood(Messages(k), work)
    BY <1>1, <1>5, <1>10
  <2> QED
    BY <1>1, <1>5, <1>9, <1>11, <2>1, <2>2, <2>3, <2>4 DEF Good
<1> QED
  BY <1>1, <1>2, <1>3, <1>5, <1>12, InvNext

\* An answer keeps the invariant.
LEMMA AnswerStep ==
    ASSUME IInv, Answer
    PROVE  IInv' /\ Adds(log, log')
<1> DEFINE m == Reply(said.msgs + 1, {})
           k == Put(log, m)
<1>1. /\ said \in Counts /\ Again \in BOOLEAN /\ Steady(log, said, Again) /\ Whole(log, said)
      /\ work \in Works(said) /\ reloads \in 0..MaxReload
      /\ work.pc # "idle" => log.events # <<>>
  BY InvParts
<1>2. /\ work.pc = "sample" /\ Say(1) /\ log' = k /\ work' = Rested /\ reloads' = reloads
  BY DEF Answer, Next1
<1>3. /\ said' \in Counts /\ said'.msgs = said.msgs + 1 /\ said'.calls = said.calls
      /\ said'.omitted = said.omitted
      /\ said.msgs \in Nat /\ said.calls \in Nat
  BY <1>1, <1>2, SayCounts
<1>4. /\ m \in Msgs(said') /\ m.holds = {said.msgs + 1} /\ m.calls = {} /\ m.answers = 0
  BY <1>3, SaidMsgs
<1> HIDE DEF m
<1>5. Steady(k, said', Again) /\ Whole(k, said') /\ Adds(log, k)
  BY <1>1, <1>2, <1>3, <1>4, SaySteady
<1> HIDE DEF k
<1>6. Rested \in Works(said') /\ Rested.pc = "idle" /\ Rested.todo = {}
  BY <1>1, <1>3, RestedWorks
<1>7. Good(k, Rested, said', Again)
  BY <1>1, <1>3, <1>5, <1>6, RestGood
<1> QED
  BY <1>1, <1>2, <1>3, <1>5, <1>7, InvNext

\* An answer that the harness is not content with keeps the invariant.
LEMMA NudgeStep ==
    ASSUME IInv, Nudge
    PROVE  IInv' /\ Adds(log, log')
<1> DEFINE m == Reply(said.msgs + 1, {})
           k == Put(log, m)
           u == User(said.msgs + 1 + 1)
           p == Put(k, u)
           t == [said EXCEPT !.msgs = @ + 1]
<1>1. /\ said \in Counts /\ Again \in BOOLEAN /\ Steady(log, said, Again) /\ Whole(log, said)
      /\ work \in Works(said) /\ reloads \in 0..MaxReload
      /\ work.pc # "idle" => FirstIsSystem(Messages(log)) /\ log.events # <<>>
      /\ work.todo # {} <=> work.pc \in {"tools", "rearmed"}
  BY InvParts
<1>2. /\ work.pc = "sample" /\ Say(2) /\ Prepare(p, work) /\ reloads' = reloads
  BY DEF Nudge, Next1
<1>3. /\ said' \in Counts /\ said'.msgs = said.msgs + 2 /\ said'.calls = said.calls
      /\ said'.omitted = said.omitted
      /\ said.msgs \in Nat /\ said.calls \in Nat
  BY <1>1, <1>2, SayCounts
<1>4. /\ t \in Counts /\ t.msgs = said.msgs + 1 /\ t.calls = said.calls
      /\ t.omitted = said.omitted
  BY <1>1, <1>3, BoundAssumption DEF Counts
<1> HIDE DEF t
<1>5. /\ m \in Msgs(t) /\ m.holds = {said.msgs + 1} /\ m.calls = {} /\ m.answers = 0
  BY <1>3, <1>4, SaidMsgs
<1>6. /\ u \in Msgs(said') /\ u.holds = {t.msgs + 1} /\ u.calls = {} /\ u.answers = 0
  BY <1>3, <1>4, SaidMsgs
<1> HIDE DEF m, u
<1>7. /\ Steady(k, t, Again) /\ Whole(k, t) /\ Adds(log, k) /\ k.events # <<>>
      /\ Messages(k) = Append(Messages(log), m) /\ Messages(log) \in Seq(Msgs(t))
  BY <1>1, <1>2, <1>4, <1>5, SaySteady
<1>8. FirstIsSystem(Messages(k))
  BY <1>1, <1>2, <1>4, <1>5, <1>7, AppendMembers
<1> HIDE DEF k
<1>9. said'.msgs = t.msgs + 1 /\ said'.calls = t.calls /\ said'.omitted = t.omitted
  BY <1>3, <1>4
<1>10. /\ Steady(p, said', Again) /\ Whole(p, said') /\ Adds(k, p)
       /\ Messages(p) = Append(Messages(k), u) /\ Messages(k) \in Seq(Msgs(said'))
  <2> DEFINE s == said'
  <2>1. /\ t \in Counts /\ s \in Counts /\ Again \in BOOLEAN
        /\ Steady(k, t, Again) /\ Whole(k, t) /\ k.events # <<>>
        /\ s.msgs = t.msgs + 1 /\ s.calls = t.calls /\ s.omitted = t.omitted
        /\ u \in Msgs(s) /\ u.holds = {t.msgs + 1} /\ u.calls = {} /\ u.answers = 0
    BY <1>1, <1>3, <1>4, <1>6, <1>7, <1>9
  <2> HIDE DEF s
  <2>2. /\ Steady(Put(k, u), s, Again) /\ Whole(Put(k, u), s) /\ Adds(k, Put(k, u))
        /\ Messages(Put(k, u)) = Append(Messages(k), u) /\ Messages(k) \in Seq(Msgs(s))
    BY <2>1, SaySteady
  <2> QED
    BY <2>2 DEF s
<1>11. FirstIsSystem(Messages(p))
  BY <1>3, <1>6, <1>8, <1>10, AppendMembers
<1> HIDE DEF p
<1>12. work \in Works(said') /\ work.todo = {}
  BY <1>1, <1>2, <1>3 DEF Works
<1>13. Good(log', work', said', Again) /\ Adds(p, log')
  BY <1>1, <1>2, <1>3, <1>10, <1>11, <1>12, PrepareGood
<1>14. Adds(log, log')
  <2>1. log \in Logs(said')
    <3>1. log \in Logs(said) /\ said.msgs <= said'.msgs /\ said.calls <= said'.calls
      BY <1>1, <1>3 DEF Steady
    <3> QED
      BY <1>1, <1>3, <3>1, LogsMore
  <2>2. k \in Logs(said')
    <3>1. k \in Logs(t) /\ t.msgs <= said'.msgs /\ t.calls <= said'.calls
      BY <1>3, <1>4, <1>7, <1>9 DEF Steady
    <3> QED
      BY <1>3, <1>4, <3>1, LogsMore
  <2>3. p \in Logs(said') /\ log' \in Logs(said')
    BY <1>10, <1>13 DEF Steady, Good
  <2> QED
    BY <1>3, <1>7, <1>10, <1>13, <2>1, <2>2, <2>3, AddsMore
<1> QED
  BY <1>1, <1>2, <1>3, <1>13, <1>14, InvNext

\* Calls made later have no results yet.
LEMMA FreshCalls ==
    ASSUME NEW s \in Counts, NEW ms \in Seq(Msgs(s)), NEW cs, \A c \in cs : c > s.calls
    PROVE  Unanswered(ms, cs)
<1>1. DOMAIN ms = 1..Len(ms) /\ s.calls \in Nat
  BY MsgAt, BoundAssumption DEF Counts
<1>2. \A j \in 1..Len(ms) : ms[j].answers \in 0..s.calls
  BY MsgAt
<1>3. \A c \in cs : c \notin 0..s.calls
  BY <1>1
<1> QED
  BY <1>1, <1>2, <1>3 DEF Unanswered

\* New tool calls keep the invariant: no result of theirs is there yet.
LEMMA AskToolsStep ==
    ASSUME IInv, AskTools
    PROVE  IInv' /\ Adds(log, log')
<1>1. PICK k \in 1..(MaxCall - said.calls) :
         /\ said.msgs < MaxSaid
         /\ said' = [said EXCEPT !.msgs = Next1, !.calls = @ + k]
         /\ log' = Put(log, Reply(Next1, said.calls+1..said.calls+k))
         /\ work' = [work EXCEPT !.pc = "tools", !.todo = said.calls+1..said.calls+k]
  BY DEF AskTools
<1> DEFINE cs == said.calls+1..said.calls+k
           m == Reply(said.msgs + 1, cs)
           l == Put(log, m)
           t == said'
           M == Messages(log)
           R == Reread(log)
           w == work'
<1>2. /\ said \in Counts /\ said.msgs \in Nat /\ said.calls \in Nat /\ Again \in BOOLEAN
      /\ Steady(log, said, Again) /\ Whole(log, said) /\ log \in Logs(said)
      /\ work \in Works(said) /\ reloads \in 0..MaxReload
      /\ M \in Seq(Msgs(said)) /\ R \in Seq(Msgs(said))
      /\ work.pc # "idle" => FirstIsSystem(M) /\ log.events # <<>>
  BY InvParts
<1>3. work.pc = "sample" /\ reloads' = reloads
  BY DEF AskTools
<1>4. k \in Nat /\ k > 0 /\ said.calls + k <= MaxCall /\ MaxCall \in Nat /\ MaxSaid \in Nat
  BY <1>2, BoundAssumption DEF Counts
<1>5. /\ t \in Counts /\ t.msgs = said.msgs + 1 /\ t.calls = said.calls + k
      /\ t.omitted = said.omitted
      /\ said.msgs <= t.msgs /\ said.calls <= t.calls
  <2> DEFINE a == said.msgs + 1
             b == said.calls + k
  <2>1. a \in 0..MaxSaid /\ b \in 0..MaxCall /\ said.msgs <= a /\ said.calls <= b
    BY <1>1, <1>2, <1>4
  <2>2. t = [said EXCEPT !.msgs = a, !.calls = b]
    BY <1>1 DEF Next1
  <2> HIDE DEF a, b, t
  <2>3. /\ t \in Counts /\ t.msgs = a /\ t.calls = b /\ t.omitted = said.omitted
    BY <1>2, <2>1, <2>2 DEF Counts
  <2> QED
    BY <2>1, <2>3 DEF a, b
<1>6. /\ cs \in SUBSET (1..t.calls) /\ cs # {} /\ 0 \notin cs
      /\ \A c \in cs : c > said.calls
  <2> DEFINE n == said.calls
             o == t.calls
  <2>1. n \in Nat /\ k \in Nat /\ k > 0 /\ o = n + k
    BY <1>2, <1>4, <1>5
  <2>2. cs = n+1..n+k
    OBVIOUS
  <2> HIDE DEF n, o, t, cs
  <2>3. n + 1 \in cs
    BY <2>1, <2>2
  <2>4. \A c \in cs : c \in 1..o /\ c > n /\ c # 0
    BY <2>1, <2>2
  <2> QED
    BY <2>3, <2>4 DEF n, o
<1>7. log' = l /\ w = [work EXCEPT !.pc = "tools", !.todo = cs]
  BY <1>1 DEF Next1
<1> HIDE DEF t, cs, w
<1>8. m \in Msgs(t) /\ m.holds = {said.msgs + 1} /\ m.calls = cs /\ m.answers = 0
  <2>1. said.msgs + 1 \in 1..t.msgs /\ 0 \in 0..t.calls
    <3> DEFINE n == said.msgs
               o == said.calls
               x == t.msgs
               y == t.calls
    <3>1. n \in Nat /\ o \in Nat /\ k \in Nat /\ x = n + 1 /\ y = o + k
      BY <1>2, <1>4, <1>5
    <3> HIDE DEF n, o, x, y
    <3>2. n + 1 \in 1..x /\ 0 \in 0..y
      BY <3>1
    <3> QED
      BY <3>2 DEF n, x, y
  <2>2. {said.msgs + 1} \in SUBSET (1..t.msgs)
    BY <2>1
  <2> QED
    BY <1>6, <2>1, <2>2 DEF Msgs, Shaped, Reply, Message, Role
<1> HIDE DEF m
<1>9. log \in Logs(t)
  BY <1>2, <1>5, LogsMore
<1>10. Steady(log, t, Again)
  BY <1>2, <1>9 DEF Steady
<1>11. Unanswered(M, cs) /\ Unanswered(R, cs)
  BY <1>2, <1>6, FreshCalls
<1>12. M \in Seq(Msgs(t)) /\ R \in Seq(Msgs(t))
  BY <1>5, <1>9, Shown
<1>13. /\ Messages(l) = Append(M, m) /\ Reread(l) = Append(R, m) /\ Adds(log, l)
  BY <1>5, <1>8, <1>9, PutView
<1>14. Steady(l, t, Again)
  BY <1>2, <1>3, <1>5, <1>8, <1>10, <1>11, PutSteady
<1>15. /\ HeldBy(Append(M, m)) = HeldBy(M) \cup m.holds
       /\ FirstIsSystem(M) => FirstIsSystem(Append(M, m))
       /\ Unanswered(Append(M, m), cs)
  BY <1>5, <1>6, <1>8, <1>11, <1>12, AppendMembers
<1>16. Unanswered(Append(R, m), cs)
  BY <1>5, <1>6, <1>8, <1>11, <1>12, AppendMembers
<1>17. Whole(l, t)
  <2>1. 1..said.msgs + 1 \subseteq 1..said.msgs \cup {said.msgs + 1}
    BY <1>2
  <2> QED
    BY <1>2, <1>5, <1>8, <1>13, <1>15, <2>1 DEF Whole
<1>18. w \in Works(t) /\ w.pc = "tools" /\ w.todo = cs
  <2>1. SUBSET (1..said.msgs) \subseteq SUBSET (1..t.msgs)
    BY <1>2, <1>5
  <2> QED
    BY <1>2, <1>6, <1>7, <2>1 DEF Works
<1> HIDE DEF l
<1>19. Good(l, w, t, Again)
  BY <1>2, <1>3, <1>6, <1>13, <1>14, <1>15, <1>16, <1>17, <1>18 DEF Good
<1> QED
  BY <1>2, <1>3, <1>5, <1>7, <1>13, <1>19, InvNext DEF t, w

\* The result of the first call that is left.
LEMMA ResultPut ==
    ASSUME IInv, work.pc \in {"tools", "rearmed"}
    PROVE  LET c == First(work.todo)
               p == Put(log, Result(c))
           IN  /\ c \in work.todo
               /\ Steady(p, said, Again) /\ Whole(p, said) /\ Adds(log, p)
               /\ FirstIsSystem(Messages(p))
               /\ Unanswered(Messages(p), work.todo \ {c})
               /\ Again => Unanswered(Reread(p), work.todo \ {c})
<1> DEFINE c == First(work.todo)
           m == Result(c)
           p == Put(log, m)
           M == Messages(log)
           R == Reread(log)
<1>1. /\ said \in Counts /\ said.calls \in Nat /\ Again \in BOOLEAN
      /\ Steady(log, said, Again) /\ Whole(log, said) /\ log \in Logs(said)
      /\ M \in Seq(Msgs(said)) /\ R \in Seq(Msgs(said))
      /\ work.todo \in SUBSET (1..said.calls) /\ work.todo # {}
      /\ FirstIsSystem(M) /\ log.events # <<>>
      /\ Unanswered(M, work.todo)
      /\ Again => Unanswered(R, work.todo)
  BY InvParts
<1>2. c \in work.todo
  <2> DEFINE T == work.todo
  <2>1. T \in SUBSET Nat /\ T # {}
    BY <1>1
  <2> HIDE DEF T
  <2>2. \E d \in T : \A e \in T : d <= e
    BY <2>1, LeastExists
  <2> QED
    BY <2>2 DEF First, T
<1> HIDE DEF c
<1>3. c \in 1..said.calls /\ c # 0
  BY <1>1, <1>2
<1>4. m \in Msgs(said) /\ m.holds = {} /\ m.calls = {} /\ m.answers = c
  BY <1>1, <1>3 DEF Msgs, Shaped, Result, Message, Role
<1> HIDE DEF m
<1>5. /\ Unanswered(M, m.calls) /\ Unanswered(M, {m.answers})
      /\ Again => Unanswered(R, m.calls) /\ Unanswered(R, {m.answers})
  BY <1>1, <1>2, <1>4 DEF Unanswered
<1>6. Steady(p, said, Again)
  BY <1>1, <1>4, <1>5, PutSteady
<1>7. Messages(p) = Append(M, m) /\ Reread(p) = Append(R, m) /\ Adds(log, p)
  BY <1>1, <1>4, PutView
<1>8. /\ HeldBy(Append(M, m)) = HeldBy(M) \cup m.holds
      /\ FirstIsSystem(M) => FirstIsSystem(Append(M, m))
      /\ \A cs : Unanswered(M, cs) /\ m.answers \notin cs => Unanswered(Append(M, m), cs)
  <2>1. said \in Counts /\ M \in Seq(Msgs(said)) /\ m \in Msgs(said)
    BY <1>1, <1>4
  <2> HIDE DEF M
  <2> QED
    BY <2>1, AppendMembers
<1>9. \A cs : Unanswered(R, cs) /\ m.answers \notin cs => Unanswered(Append(R, m), cs)
  BY <1>1, <1>4, AppendMembers
<1>10. /\ Unanswered(M, work.todo \ {c}) /\ m.answers \notin work.todo \ {c}
       /\ Again => Unanswered(R, work.todo \ {c})
  BY <1>1, <1>4 DEF Unanswered
<1>11. Whole(p, said)
  BY <1>1, <1>7, <1>8 DEF Whole
<1> HIDE DEF p
<1>12. Unanswered(Messages(p), work.todo \ {c})
  BY <1>7, <1>8, <1>10
<1>13. Again => Unanswered(Reread(p), work.todo \ {c})
  BY <1>7, <1>9, <1>10
<1>14. FirstIsSystem(Messages(p))
  BY <1>1, <1>7, <1>8
<1> QED
  BY <1>2, <1>6, <1>7, <1>11, <1>12, <1>13, <1>14 DEF p, m, c

\* A tool's result keeps the invariant; after the last one the head of the
\* loop follows.
LEMMA ToolDoneStep ==
    ASSUME IInv, ToolDone
    PROVE  IInv' /\ Adds(log, log')
<1> DEFINE c == First(work.todo)
           p == Put(log, Result(c))
           left == work.todo \ {c}
           w == [work EXCEPT !.todo = left]
<1>1. work.pc = "tools" /\ said' = said /\ reloads' = reloads
      /\ IF left # {} THEN log' = p /\ work' = w ELSE Prepare(p, w)
  BY DEF ToolDone
<1>2. /\ said \in Counts /\ said.calls \in Nat /\ Again \in BOOLEAN
      /\ work \in Works(said) /\ reloads \in 0..MaxReload
      /\ work.todo \in SUBSET (1..said.calls)
  BY InvParts
<1>3. /\ c \in work.todo
      /\ Steady(p, said, Again) /\ Whole(p, said) /\ Adds(log, p)
      /\ FirstIsSystem(Messages(p))
      /\ Unanswered(Messages(p), left)
      /\ Again => Unanswered(Reread(p), left)
  BY <1>1, ResultPut
<1> HIDE DEF p, c
<1>4. w \in Works(said) /\ w.todo = left /\ w.pc = "tools"
  <2>1. left \in SUBSET (1..said.calls)
    BY <1>2
  <2> HIDE DEF left
  <2> QED
    BY <1>1, <1>2, <2>1 DEF Works
<1> HIDE DEF w, left
<1>5. CASE left # {}
  <2>1. Good(p, w, said, Again)
    BY <1>3, <1>4, <1>5 DEF Good
  <2> QED
    BY <1>1, <1>2, <1>3, <1>5, <2>1, InvNext
<1>6. CASE left = {}
  <2>1. Good(log', work', said, Again) /\ Adds(p, log')
    BY <1>1, <1>2, <1>3, <1>4, <1>6, PrepareGood
  <2>2. log \in Logs(said) /\ p \in Logs(said) /\ log' \in Logs(said)
    BY <1>3, <2>1, InvParts DEF Steady, Good
  <2>3. Adds(log, log')
    BY <1>2, <1>3, <2>1, <2>2, AddsMore
  <2> QED
    BY <1>1, <1>2, <2>1, <2>3, InvNext
<1> QED
  BY <1>5, <1>6

\* The loop ends and the log is as it was.
LEMMA RestStep ==
    ASSUME IInv, log' = log, said' = said, reloads' = reloads,
           work' \in Works(said), work'.pc = "idle", work'.todo = {}
    PROVE  IInv' /\ Adds(log, log')
<1>1. /\ said \in Counts /\ Again \in BOOLEAN /\ reloads \in 0..MaxReload
      /\ Steady(log, said, Again) /\ Whole(log, said) /\ log \in Logs(said)
  BY InvParts
<1> DEFINE v == work'
<1>2. v \in Works(said) /\ v.pc = "idle" /\ v.todo = {}
  OBVIOUS
<1> HIDE DEF v
<1>3. Good(log, v, said, Again) /\ Adds(log, log)
  BY <1>1, <1>2, RestGood, AddsSelf
<1> QED
  BY <1>1, <1>3, InvNext DEF v

\* The loop goes on to sample and the log is as it was.
LEMMA SampleStep ==
    ASSUME IInv, work.pc \in {"sample", "compact"},
           log' = log, said' = said, reloads' = reloads,
           work' \in Works(said), work'.pc = "sample", work'.todo = {}
    PROVE  IInv' /\ Adds(log, log')
<1>1. /\ said \in Counts /\ Again \in BOOLEAN /\ reloads \in 0..MaxReload
      /\ Steady(log, said, Again) /\ Whole(log, said) /\ log \in Logs(said)
      /\ FirstIsSystem(Messages(log))
      /\ Calls(Messages(log)) = Answered(Messages(log))
  BY InvParts
<1> DEFINE v == work'
<1>2. v \in Works(said) /\ v.pc = "sample" /\ v.todo = {}
  OBVIOUS
<1> HIDE DEF v
<1>3. Good(log, v, said, Again)
  BY <1>1, <1>2, SampleGood
<1>4. Adds(log, log)
  BY <1>1, AddsSelf
<1> QED
  BY <1>1, <1>3, <1>4, InvNext DEF v

\* An overflow of the model's context keeps the invariant.
LEMMA OverflowStep ==
    ASSUME IInv, Overflow
    PROVE  IInv' /\ Adds(log, log')
<1> DEFINE w == [work EXCEPT !.retried = TRUE]
           v == [Rested EXCEPT !.retried = TRUE]
<1>1. /\ work.pc = "sample" /\ said' = said /\ reloads' = reloads
      /\ \/ \E span \in Stretches(Messages(log)) : Compacting(log, w, span, "overflow")
         \/ log' = log /\ work' = v
  BY DEF Overflow
<1>2. /\ said \in Counts /\ Again \in BOOLEAN /\ reloads \in 0..MaxReload
      /\ Steady(log, said, Again) /\ Whole(log, said) /\ log \in Logs(said)
      /\ FirstIsSystem(Messages(log))
      /\ Calls(Messages(log)) = Answered(Messages(log))
      /\ work \in Works(said) /\ work.todo = {}
  BY <1>1, InvParts
<1>3. w \in Works(said) /\ w.todo = {}
  BY <1>2 DEF Works
<1>4. Rested \in Works(said) /\ Rested.pc = "idle" /\ Rested.todo = {}
  BY <1>2, RestedWorks
<1>5. v \in Works(said) /\ v.pc = "idle" /\ v.todo = {}
  BY <1>4 DEF Works
<1> HIDE DEF w, v
<1>6. ASSUME NEW span \in Stretches(Messages(log)), Compacting(log, w, span, "overflow")
      PROVE  IInv' /\ Adds(log, log')
  <2>1. Good(log', work', said, Again) /\ log' = log
    BY <1>2, <1>3, <1>6, CompactGood
  <2>2. Adds(log, log)
    BY <1>2, AddsSelf
  <2> QED
    BY <1>1, <1>2, <2>1, <2>2, InvNext
<1>7. ASSUME log' = log, work' = v
      PROVE  IInv' /\ Adds(log, log')
  BY <1>1, <1>5, <1>7, RestStep
<1> QED
  BY <1>1, <1>6, <1>7

\* The loop goes on to sample after a compaction.
LEMMA CompactedWorks ==
    ASSUME NEW s \in Counts, work \in Works(s), work.todo = {}
    PROVE  Compacted \in Works(s) /\ Compacted.pc = "sample" /\ Compacted.todo = {}
<1>1. <<>> \in Seq(Nat) /\ {} \in SUBSET (1..s.msgs)
  BY EmptySeq
<1> QED
  BY <1>1 DEF Works, Compacted

\* A compaction without a summary keeps the invariant.
LEMMA NotSummarisedStep ==
    ASSUME IInv, NotSummarised
    PROVE  IInv' /\ Adds(log, log')
<1> DEFINE v == Compacted
<1>1. /\ work.pc = "compact" /\ log' = log /\ said' = said /\ reloads' = reloads
      /\ work' = IF work.why = "overflow" THEN Rested ELSE v
  BY DEF NotSummarised
<1>2. said \in Counts /\ work \in Works(said) /\ work.todo = {}
  BY <1>1, InvParts
<1>3. Rested \in Works(said) /\ Rested.pc = "idle" /\ Rested.todo = {}
  BY <1>2, RestedWorks
<1>4. v \in Works(said) /\ v.pc = "sample" /\ v.todo = {}
  BY <1>2, CompactedWorks
<1> HIDE DEF v
<1>5. CASE work.why = "overflow"
  BY <1>1, <1>3, <1>5, RestStep
<1>6. CASE work.why # "overflow"
  BY <1>1, <1>4, <1>6, SampleStep
<1> QED
  BY <1>5, <1>6

\* A cancelled, failed or stalled loop keeps the invariant.
LEMMA StopStep ==
    ASSUME IInv, Stop
    PROVE  IInv' /\ Adds(log, log')
<1>1. log' = log /\ said' = said /\ reloads' = reloads /\ work' = Rested
  BY DEF Stop
<1>2. Rested \in Works(said) /\ Rested.pc = "idle" /\ Rested.todo = {}
  BY InvParts, RestedWorks
<1> QED
  BY <1>1, <1>2, RestStep

\* A rearmed wait that is cancelled keeps the invariant.
LEMMA RearmedCancelledStep ==
    ASSUME IInv, RearmedCancelled
    PROVE  IInv' /\ Adds(log, log')
<1>1. log' = log /\ said' = said /\ reloads' = reloads /\ work' = Idle
  BY DEF RearmedCancelled
<1>2. Idle \in Works(said) /\ Idle.pc = "idle" /\ Idle.todo = {}
  BY InvParts, IdleWorks
<1> QED
  BY <1>1, <1>2, RestStep

\* A rearmed wait that is answered keeps the invariant, whether it records a
\* result or not.
LEMMA RearmedAnsweredStep ==
    ASSUME IInv, RearmedAnswered
    PROVE  IInv' /\ Adds(log, log')
<1> DEFINE p == Put(log, Result(First(work.todo)))
           w == [Idle EXCEPT !.watched = TRUE]
<1>1. /\ work.pc = "rearmed" /\ said' = said /\ reloads' = reloads
      /\ \E l \in {log, p} : Prepare(l, w)
  BY DEF RearmedAnswered
<1>2. /\ said \in Counts /\ Again \in BOOLEAN /\ reloads \in 0..MaxReload
      /\ Steady(log, said, Again) /\ Whole(log, said) /\ log \in Logs(said)
      /\ FirstIsSystem(Messages(log))
  BY <1>1, InvParts
<1>3. /\ Steady(p, said, Again) /\ Whole(p, said) /\ Adds(log, p)
      /\ FirstIsSystem(Messages(p))
  BY <1>1, ResultPut
<1>4. w \in Works(said) /\ w.todo = {}
  BY <1>2, IdleWorks DEF Works
<1> HIDE DEF p, w
<1>5. PICK l \in {log, p} : Prepare(l, w)
  BY <1>1
<1>6. /\ Steady(l, said, Again) /\ Whole(l, said) /\ FirstIsSystem(Messages(l))
      /\ Adds(log, l)
  <2>1. Adds(log, log)
    BY <1>2, AddsSelf
  <2> QED
    BY <1>2, <1>3, <1>5, <2>1
<1>7. Good(log', work', said, Again) /\ Adds(l, log')
  BY <1>2, <1>4, <1>5, <1>6, PrepareGood
<1>8. Adds(log, log')
  <2>1. l \in Logs(said) /\ log' \in Logs(said)
    BY <1>6, <1>7 DEF Steady, Good
  <2> QED
    BY <1>2, <1>6, <1>7, <2>1, AddsMore
<1> QED
  BY <1>1, <1>2, <1>7, <1>8, InvNext

\* The calls of the last message answered when a watched loop ends.
LEMMA StopFilledStep ==
    ASSUME IInv, StopFilled
    PROVE  IInv' /\ Adds(log, log')
<1> DEFINE M == Messages(log)
           R == Reread(log)
           b == Stubs(work.todo)
           k == Extended(log, b, log.surface)
<1>1. /\ work.pc = "tools" /\ said' = said /\ reloads' = reloads
      /\ log' = k /\ work' = Rested
  BY DEF StopFilled, PutAll
<1>2. /\ said \in Counts /\ said.calls \in Nat /\ Again \in BOOLEAN
      /\ Steady(log, said, Again) /\ Whole(log, said) /\ log \in Logs(said)
      /\ reloads \in 0..MaxReload
      /\ M \in Seq(Msgs(said)) /\ R \in Seq(Msgs(said))
      /\ work \in Works(said) /\ work.todo \in SUBSET (1..said.calls)
      /\ FirstIsSystem(M) /\ log.events # <<>>
      /\ Unanswered(M, work.todo)
      /\ Again => Unanswered(R, work.todo)
  BY <1>1, InvParts
<1>3. /\ log.surface \in Seq(1..Len(log.events)) /\ M = At(log.events, log.surface)
      /\ Len(M) \in Nat
  BY <1>2, Shown
<1>4. b \in Seq(Msgs(said)) /\ HeldBy(b) = {}
  BY <1>2, StubsParts
<1>5. Settled(M \o b)
  BY <1>2, StubsSettled DEF Steady
<1>6. Again => Settled(R \o b)
  BY <1>2, StubsSettled DEF Steady, Mirrored
<1> HIDE DEF b
<1>7. /\ k \in Logs(said) /\ Messages(k) = M \o b /\ Reread(k) = R \o b /\ Adds(log, k)
  <2> DEFINE q == log.surface
  <2>1. /\ said \in Counts /\ log \in Logs(said) /\ b \in Seq(Msgs(said))
        /\ q \in Seq(1..Len(log.events)) /\ M = At(log.events, q) /\ k = Extended(log, b, q)
    BY <1>2, <1>3, <1>4
  <2> HIDE DEF q, k, M
  <2> QED
    BY <2>1, ExtendedView
<1>8. HeldBy(M \o b) = HeldBy(M) \cup HeldBy(b) /\ FirstIsSystem(M \o b)
  <2>1. /\ said \in Counts /\ M \in Seq(Msgs(said)) /\ b \in Seq(Msgs(said))
        /\ FirstIsSystem(M)
    BY <1>2, <1>4
  <2> HIDE DEF M
  <2> QED
    BY <2>1, ConcatMembers
<1>9. Again => FirstIsSystem(R \o b)
  <2>1. Again => FirstIsSystem(R)
    BY <1>2 DEF Steady, Mirrored
  <2> QED
    BY <1>2, <1>4, <2>1, ConcatMembers
<1>10. Again => Follows(M \o b, R \o b)
  <2>1. Again => Follows(M, R)
    BY <1>2 DEF Steady, Mirrored
  <2>2. Len(M) > 0
    BY <1>2 DEF FirstIsSystem
  <2> QED
    BY <1>2, <1>4, <2>1, <2>2, FollowsExtend
<1> HIDE DEF k, M, R
<1>11. Steady(k, said, Again)
  BY <1>5, <1>6, <1>7, <1>8, <1>9, <1>10 DEF Steady, Mirrored
<1>12. Whole(k, said)
  BY <1>2, <1>4, <1>7, <1>8 DEF Whole, M
<1>13. Rested \in Works(said) /\ Rested.pc = "idle" /\ Rested.todo = {}
  BY <1>2, RestedWorks
<1>14. Good(k, Rested, said, Again)
  BY <1>2, <1>11, <1>12, <1>13, RestGood
<1> QED
  BY <1>1, <1>2, <1>7, <1>14, InvNext

\* A restart keeps the invariant: the log is what was read back.
LEMMA RestartStep ==
    ASSUME IInv, Restart
    PROVE  IInv' /\ Adds(log, log')
<1> DEFINE M == Messages(log)
           R == Reread(log)
           more == reloads' < MaxReload
           w == [Idle EXCEPT !.pc = "rearmed", !.todo = work.todo]
<1>1. /\ reloads < MaxReload /\ reloads' = reloads + 1 /\ said' = said /\ log' = Reloaded
      /\ \/ work' = Idle
         \/ work.pc \in {"tools", "rearmed"} /\ work' = w
  BY DEF Restart
<1>2. /\ said \in Counts /\ Again \in BOOLEAN /\ reloads \in 0..MaxReload /\ MaxReload \in Nat
      /\ Steady(log, said, Again) /\ Whole(log, said) /\ log \in Logs(said)
      /\ work \in Works(said) /\ work.todo \in SUBSET (1..said.calls)
      /\ work.todo # {} <=> work.pc \in {"tools", "rearmed"}
      /\ work.pc # "idle" => log.events # <<>>
      /\ Again => Unanswered(R, work.todo)
  BY InvParts
<1>3. Again /\ reloads' \in 0..MaxReload /\ more \in BOOLEAN
  BY <1>1, <1>2 DEF Again
<1>4. Steady(log, said, TRUE)
  BY <1>2, <1>3 DEF Steady
<1> HIDE DEF more
<1>5. /\ Steady(Reloaded, said, more) /\ Whole(Reloaded, said)
      /\ Messages(Reloaded) = R /\ Reread(Reloaded) = R /\ Reloaded.events = log.events
  BY <1>2, <1>3, <1>4, ReloadedSteady
<1>6. Adds(log, Reloaded)
  <2>1. Adds(log, log)
    BY <1>2, AddsSelf
  <2> QED
    BY <1>5, <2>1 DEF Adds
<1>7. Idle \in Works(said) /\ Idle.pc = "idle" /\ Idle.todo = {}
  BY <1>2, IdleWorks
<1>8. Good(Reloaded, Idle, said, more)
  BY <1>2, <1>3, <1>5, <1>7, RestGood
<1>9. ASSUME work.pc \in {"tools", "rearmed"}
      PROVE  Good(Reloaded, w, said, more)
  <2>1. w \in Works(said) /\ w.pc = "rearmed" /\ w.todo = work.todo
    BY <1>2, <1>7 DEF Works
  <2> HIDE DEF w
  <2>2. FirstIsSystem(R)
    BY <1>2, <1>4, <1>9 DEF Steady, Mirrored
  <2>3. Unanswered(R, w.todo)
    BY <1>2, <1>3, <2>1
  <2>4. w.todo # {}
    BY <1>2, <1>9, <2>1
  <2> HIDE DEF R
  <2> QED
    BY <1>5, <2>1, <2>2, <2>3, <2>4 DEF Good
<1> HIDE DEF w
<1>10. Good(log', work', said', more)
  BY <1>1, <1>8, <1>9
<1>11. said' \in Counts
  BY <1>1, <1>2
<1> QED
  BY <1>1, <1>3, <1>6, <1>10, <1>11 DEF IInv, more

\* The checkpoint: the messages after the stretch are those that were there
\* when it was chosen and those that came while its summary was awaited.
LEMMA SummarisedStep ==
    ASSUME IInv, Summarised
    PROVE  IInv' /\ KeepsTail
<1> DEFINE M == Messages(log)
           R == Reread(log)
           to == work.span[2]
           m == Summary(work.holds)
           k == Replace(log, 2, to, m)
           w == Compacted
           N == Messages(k)
           O == Reread(k)
           t == said'
<1>1. /\ work.pc = "compact" /\ reloads' = reloads
      /\ t = [said EXCEPT !.omitted = @ \cup work.omits]
      /\ log' = Replace(log, work.span[1], to, m) /\ work' = w
  BY DEF Summarised, Checkpoint
<1>2. /\ said \in Counts /\ said.calls \in Nat /\ Again \in BOOLEAN
      /\ Steady(log, said, Again) /\ Whole(log, said) /\ log \in Logs(said)
      /\ reloads \in 0..MaxReload
      /\ M \in Seq(Msgs(said)) /\ R \in Seq(Msgs(said))
      /\ work \in Works(said) /\ work.todo = {}
      /\ FirstIsSystem(M)
      /\ Calls(M) = Answered(M) /\ SpanGood(M, work)
  BY <1>1, InvParts
<1>3. /\ work.span[1] = 2 /\ to \in 2..Len(M) /\ to + Retain <= Len(M)
      /\ Balanced(M, 2, to) /\ work.holds \cup work.omits = HeldBy(SubSeq(M, 2, to))
  BY <1>2 DEF SpanGood
<1>4. m \in Msgs(said) /\ m.calls = {} /\ m.answers = 0 /\ m.holds = work.holds
  BY <1>2 DEF Works, Msgs, Shaped, Summary, Message, Role
<1>5. Len(M) \in Nat /\ Len(R) \in Nat
  BY <1>2, MsgAt
<1>6. Again => /\ Settled(R) /\ Follows(M, R) /\ FirstIsSystem(R) /\ to \in 2..Len(R)
  <2>1. log.events # <<>>
    BY <1>1, InvParts
  <2>2. Again => Settled(R) /\ Follows(M, R) /\ FirstIsSystem(R)
    BY <1>2, <2>1 DEF Steady, Mirrored
  <2>3. Again => Len(M) <= Len(R)
    BY <1>5, <2>2 DEF Follows
  <2> QED
    BY <1>3, <1>5, <2>2, <2>3
<1> HIDE DEF m, to
<1>7. /\ k \in Logs(said) /\ IsCut(N, M, to, m)
      /\ to <= Len(R) => IsCut(O, R, to, m)
      /\ k.events # <<>>
  BY <1>2, <1>3, <1>4, CheckpointView
<1> HIDE DEF k
<1>8. N \in Seq(Msgs(said)) /\ O \in Seq(Msgs(said))
  BY <1>2, <1>7, Shown
<1> HIDE DEF M, R, N, O
<1>9. Settled(N)
  <2>1. Settled(M)
    BY <1>2 DEF Steady, M
  <2> QED
    BY <1>2, <1>3, <1>4, <1>7, <1>8, <2>1, CutSettled
<1>10. Calls(N) = Answered(N)
  <2>1. Settled(M)
    BY <1>2 DEF Steady, M
  <2> QED
    BY <1>2, <1>3, <1>4, <1>7, <1>8, <2>1, CutPaired
<1>11. HeldBy(M) \subseteq HeldBy(N) \cup work.omits
  BY <1>2, <1>3, <1>4, <1>7, <1>8, CutHeld
<1>12. FirstIsSystem(N)
  <2>1. Len(N) = Len(M) - to + 2 /\ N[1] = M[1]
    BY <1>7 DEF IsCut
  <2> QED
    BY <1>2, <1>3, <1>5, <2>1 DEF FirstIsSystem
<1>13. Again => IsCut(O, R, to, m)
  BY <1>5, <1>6, <1>7
<1>14. Again => FirstIsSystem(O)
  <2>1. Again => Len(O) = Len(R) - to + 2 /\ O[1] = R[1]
    BY <1>13 DEF IsCut
  <2> QED
    BY <1>5, <1>6, <2>1 DEF FirstIsSystem
<1>15. Again => Settled(O)
  BY <1>2, <1>4, <1>6, <1>8, <1>13, CutSettled
<1>16. Again => Follows(N, O)
  BY <1>2, <1>3, <1>6, <1>7, <1>8, <1>13, FollowsCut
<1>17. Steady(k, said, Again)
  BY <1>7, <1>9, <1>12, <1>14, <1>15, <1>16 DEF Steady, Mirrored, N, O
<1>18. /\ t \in Counts /\ t.msgs = said.msgs /\ t.calls = said.calls
       /\ t.omitted = said.omitted \cup work.omits
  <2>1. work.omits \in SUBSET Said
    <3>1. work.omits \in SUBSET (1..said.msgs)
      BY <1>2 DEF Works
    <3> QED
      BY <1>2, <3>1, BoundAssumption DEF Counts, Said
  <2> QED
    BY <1>1, <1>2, <2>1 DEF Counts
<1> HIDE DEF t
<1>19. Steady(k, t, Again) /\ Whole(k, t) /\ w \in Works(t) /\ w.pc = "sample" /\ w.todo = {}
  <2>1. said.msgs <= t.msgs /\ said.calls <= t.calls
    BY <1>2, <1>18 DEF Counts
  <2>2. k \in Logs(t)
    BY <1>2, <1>7, <1>18, <2>1, LogsMore
  <2>3. Steady(k, t, Again)
    BY <1>17, <2>2 DEF Steady
  <2>4. Whole(k, t)
    BY <1>2, <1>11, <1>18 DEF Whole, M, N
  <2>5. work \in Works(t)
    BY <1>2, <1>18 DEF Works
  <2> QED
    BY <1>2, <1>18, <2>3, <2>4, <2>5, CompactedWorks
<1> HIDE DEF w
<1>20. Good(k, w, t, Again)
  BY <1>2, <1>10, <1>12, <1>18, <1>19, SampleGood DEF N
<1>21. log' = k
  BY <1>1, <1>3 DEF k
<1>22. IInv'
  BY <1>1, <1>2, <1>18, <1>20, <1>21, InvNext DEF t
<1>23. N[1] = M[1]
  BY <1>7 DEF IsCut
<1>24. Retain \in Nat /\ Len(M) - to >= Retain
  BY <1>3, <1>5, BoundAssumption
<1>25. SubSeq(N, 2 + 1, Len(N)) = SubSeq(M, to + 1, Len(M))
  <2> DEFINE n == Len(M) - to
  <2>1. n \in Nat /\ to \in Nat /\ Len(N) = n + 2
    BY <1>3, <1>5, <1>7 DEF IsCut
  <2>2. \A i \in 1..Len(N) : N[i] \in Msgs(said)
    BY <1>8, MsgAt, <1>2
  <2>3. \A i \in 1..Len(M) : M[i] \in Msgs(said)
    BY <1>2, MsgAt
  <2>4. /\ \A i \in 3..n + 2 : N[i] \in Msgs(said) /\ N[i] = M[i + to - 2]
        /\ \A i \in to + 1..Len(M) : M[i] \in Msgs(said)
        /\ Len(M) - (to + 1) + 1 = n /\ (n + 2) - 3 + 1 = n
    BY <1>3, <1>5, <1>7, <2>1, <2>2, <2>3 DEF IsCut
  <2> DEFINE a == SubSeq(N, 3, n + 2)
             b == SubSeq(M, to + 1, Len(M))
  <2> HIDE DEF n
  <2>5. /\ a \in Seq(Msgs(said)) /\ Len(a) = n
        /\ \A i \in 1..n : a[i] = N[3 + i - 1]
    <3> DEFINE z == n + 2
    <3>1. 3 \in Int /\ z \in Int /\ \A i \in 3..z : N[i] \in Msgs(said)
      BY <2>1, <2>4
    <3>2. z - 3 + 1 = n /\ (3 <= z \/ n = 0)
      BY <2>1
    <3> HIDE DEF z
    <3>3. /\ SubSeq(N, 3, z) \in Seq(Msgs(said))
          /\ Len(SubSeq(N, 3, z)) = IF 3 <= z THEN z - 3 + 1 ELSE 0
          /\ \A i \in 1..z - 3 + 1 : SubSeq(N, 3, z)[i] = N[3 + i - 1]
      BY <3>1, SubSeqProperties
    <3>4. Len(SubSeq(N, 3, z)) = n
      BY <3>2, <3>3
    <3> QED
      BY <3>2, <3>3, <3>4 DEF z
  <2>6. /\ b \in Seq(Msgs(said)) /\ Len(b) = n
        /\ \A i \in 1..n : b[i] = M[to + 1 + i - 1]
    <3> DEFINE z == Len(M)
               f == to + 1
    <3>1. /\ f \in Int /\ z \in Int /\ \A i \in f..z : M[i] \in Msgs(said)
          /\ f <= z + 1 /\ z - f + 1 = n
      BY <1>3, <1>5, <2>1, <2>4
    <3> HIDE DEF z, f
    <3>2. /\ SubSeq(M, f, z) \in Seq(Msgs(said))
          /\ Len(SubSeq(M, f, z)) = IF f <= z THEN z - f + 1 ELSE 0
          /\ \A i \in 1..z - f + 1 : SubSeq(M, f, z)[i] = M[f + i - 1]
      BY <3>1, SubSeqProperties
    <3>3. Len(SubSeq(M, f, z)) = n
      BY <2>1, <3>1, <3>2
    <3> QED
      BY <3>1, <3>2, <3>3 DEF z, f
  <2>7. \A i \in 1..n : N[3 + i - 1] = M[to + 1 + i - 1]
    <3> TAKE i \in 1..n
    <3>1. 3 + i - 1 \in 3..n + 2 /\ 3 + i - 1 + to - 2 = to + 1 + i - 1
      BY <2>1
    <3> QED
      BY <2>4, <3>1
  <2> HIDE DEF a, b
  <2>8. a = b
    BY <2>5, <2>6, <2>7, SeqEqual
  <2> QED
    BY <2>1, <2>8 DEF a, b
<1> QED
  BY <1>3, <1>21, <1>22, <1>23, <1>24, <1>25 DEF KeepsTail, M, N, to

\* A step that only adds events is no compaction.
LEMMA AddsNoCut ==
    ASSUME NEW s \in Counts, log \in Logs(s), NEW t \in Counts, log' \in Logs(t), Adds(log, log')
    PROVE  ~Compacts
<1> DEFINE n == Len(log.events)
           es == log'.events
<1>1. n \in Nat /\ es \in Seq(Events(t)) /\ Len(es) \in Nat
  <2> DEFINE k == log'
  <2>1. k \in Logs(t)
    OBVIOUS
  <2> HIDE DEF k
  <2>2. k.events \in Seq(Events(t)) /\ Len(k.events) \in Nat
    BY <2>1, Shown
  <2> QED
    BY <2>2, Shown DEF k
<1>2. \A i \in n + 1..Len(es) : es[i].op = Appended
  BY DEF Adds
<1> HIDE DEF n, es
<1>3. SUFFICES ASSUME Len(es) = n + 1, Last(es).op.kind = "replace"
               PROVE  FALSE
  BY DEF Compacts, n, es
<1>4. Last(es).op = Appended
  BY <1>1, <1>2, <1>3 DEF Last
<1> QED
  BY <1>3, <1>4 DEF Appended

\* No variable changes.
LEMMA StutterStep ==
    ASSUME IInv, UNCHANGED vars
    PROVE  IInv' /\ Adds(log, log')
<1>1. log' = log /\ work' = work /\ said' = said /\ reloads' = reloads
  BY DEF vars
<1>2. said \in Counts /\ log \in Logs(said)
  BY InvParts
<1>3. Adds(log, log)
  BY <1>2, AddsSelf
<1>4. IInv'
  <2>1. said \in Counts /\ reloads \in 0..MaxReload /\ Good(log, work, said, reloads < MaxReload)
    BY DEF IInv
  <2> QED
    BY <1>1, <2>1 DEF IInv
<1> QED
  BY <1>1, <1>3, <1>4

\* One step of the specification.
LEMMA NextIInv ==
    ASSUME IInv, [Next]_vars
    PROVE  IInv' /\ (Compacts => KeepsTail)
<1>1. CASE Summarised
  BY <1>1, SummarisedStep
<1>2. CASE [Next]_vars /\ ~Summarised
  <2>1. IInv' /\ Adds(log, log')
    BY <1>2, ContinueStep, ResumeStep, UserContextStep, AnswerStep, NudgeStep, AskToolsStep,
       ToolDoneStep, OverflowStep, NotSummarisedStep, StopStep, StopFilledStep, RestartStep,
       RearmedAnsweredStep, RearmedCancelledStep, StutterStep DEF Next
  <2>2. said \in Counts /\ log \in Logs(said)
    BY InvParts
  <2>3. said' \in Counts /\ log' \in Logs(said')
    <3>1. said' \in Counts /\ Good(log', work', said', reloads' < MaxReload)
      BY <2>1 DEF IInv
    <3> QED
      BY <3>1 DEF Good, Steady
  <2>4. ~Compacts
    BY <2>1, <2>2, <2>3, AddsNoCut
  <2> QED
    BY <2>1, <2>4
<1> QED
  BY <1>1, <1>2

\* A log without events.
LEMMA NewLogSteady ==
    ASSUME NEW s \in Counts, NEW again \in BOOLEAN
    PROVE  /\ Steady(NewLog, s, again)
           /\ Messages(NewLog) = <<>>
<1>1. NewLog \in Logs(s)
  <2>1. NewLog = [events |-> <<>>, surface |-> <<>>, read |-> <<>>]
    BY DEF NewLog
  <2>2. <<>> \in Seq(Events(s)) /\ <<>> \in Seq(Nat) /\ <<>> \in Seq(1..Len(<<>>))
    BY EmptySeq
  <2> QED
    BY <2>1, <2>2 DEF Logs
<1> DEFINE M == Messages(NewLog)
           R == Reread(NewLog)
<1>2. /\ M \in Seq(Msgs(s)) /\ Len(M) = Len(NewLog.surface)
      /\ R \in Seq(Msgs(s)) /\ Len(R) = Len(NewLog.read)
  BY <1>1, Shown
<1>3. NewLog.surface = <<>> /\ NewLog.read = <<>> /\ NewLog.events = <<>>
  BY DEF NewLog
<1> HIDE DEF M, R
<1>4. M = <<>> /\ R = <<>>
  BY <1>2, <1>3, EmptySeq
<1>5. Settled(M)
  <2>1. 1..Len(M) = {}
    BY <1>4, EmptySeq
  <2>2. Settled(M) <=>
           /\ \A i, j \in 1..Len(M) : M[j].answers \in M[i].calls =>
                 \E k \in 1..Len(M) : i < k /\ M[k].answers = M[j].answers
           /\ \A i, j, k \in 1..Len(M) :
                 /\ i < j /\ j < k
                 /\ M[j].answers \in M[i].calls /\ M[k].answers = M[j].answers
                 => \E a \in 1..Len(M) : j < a /\ M[j].answers \in M[a].calls
    BY <1>2, SettledAt
  <2> QED
    BY <2>1, <2>2
<1>6. Follows(M, M)
  BY <1>2, FollowsSelf
<1> QED
  BY <1>1, <1>3, <1>4, <1>5, <1>6 DEF Steady, Mirrored, M, R

\* Both beginnings of a log satisfy the invariant.
LEMMA StartIInv ==
    ASSUME Start
    PROVE  IInv
<1>1. MaxReload \in Nat /\ MaxSaid \in Nat /\ MaxCall \in Nat /\ MaxSaid > 1
  BY BoundAssumption
<1>2. CASE reloads = 0 /\ Begun(FALSE)
  <2>1. log = NewLog /\ work = Idle /\ said = [msgs |-> 0, calls |-> 0, omitted |-> {}]
    BY <1>2 DEF Begun
  <2>2. said \in Counts /\ said.msgs = 0
    BY <1>1, <2>1 DEF Counts
  <2> DEFINE more == reloads < MaxReload
  <2>3. more \in BOOLEAN
    OBVIOUS
  <2> HIDE DEF more
  <2>4. Steady(NewLog, said, more) /\ Messages(NewLog) = <<>>
    BY <2>2, <2>3, NewLogSteady
  <2>5. Whole(NewLog, said)
    BY <2>2 DEF Whole
  <2>6. Idle \in Works(said) /\ Idle.pc = "idle" /\ Idle.todo = {}
    BY <2>2, IdleWorks
  <2>7. Good(NewLog, Idle, said, more)
    BY <2>2, <2>3, <2>4, <2>5, <2>6, RestGood
  <2> QED
    BY <1>1, <1>2, <2>1, <2>2, <2>7 DEF IInv, more
<1>3. CASE reloads = MaxReload /\ Begun(TRUE)
  <2> DEFINE a == User(1)
             b == Reply(2, {})
             k == Put(NewLog, a)
             l == Put(k, b)
  <2>1. log = l /\ work = Idle /\ said = [msgs |-> 2, calls |-> 0, omitted |-> {}]
    BY <1>3 DEF Begun
  <2>2. said \in Counts /\ said.msgs = 2
    BY <1>1, <2>1 DEF Counts
  <2>3. /\ a \in Msgs(said) /\ a.holds = {1} /\ a.calls = {} /\ a.answers = 0
        /\ b \in Msgs(said) /\ b.holds = {2} /\ b.calls = {} /\ b.answers = 0
    <3>1. 1 \in 1..said.msgs /\ 2 \in 1..said.msgs
      BY <2>2
    <3> QED
      BY <2>2, <3>1, SaidMsgs
  <2> HIDE DEF a, b
  <2>4. Steady(NewLog, said, FALSE) /\ Messages(NewLog) = <<>>
    BY <2>2, NewLogSteady
  <2>5. Steady(k, said, FALSE) /\ Messages(k) = Append(<<>>, a)
    <3>1. NewLog \in Logs(said)
      BY <2>4 DEF Steady
    <3>2. Messages(Put(NewLog, a)) = Append(Messages(NewLog), a)
      BY <2>2, <2>3, <3>1, PutView
    <3>3. Steady(Put(NewLog, a), said, FALSE)
      BY <2>2, <2>3, <2>4, PutPlain
    <3> QED
      BY <2>4, <3>2, <3>3
  <2> HIDE DEF k
  <2>6. Steady(l, said, FALSE) /\ Messages(l) = Append(Messages(k), b)
        /\ Messages(k) \in Seq(Msgs(said))
    <3>1. k \in Logs(said)
      BY <2>5 DEF Steady
    <3>2. Messages(Put(k, b)) = Append(Messages(k), b) /\ Messages(k) \in Seq(Msgs(said))
      BY <2>2, <2>3, <3>1, PutView, Shown
    <3>3. Steady(Put(k, b), said, FALSE)
      BY <2>2, <2>3, <2>5, PutPlain
    <3> QED
      BY <3>2, <3>3
  <2>7. HeldBy(Messages(l)) = HeldBy(Messages(k)) \cup {2}
    BY <2>2, <2>3, <2>6, AppendMembers
  <2>8. HeldBy(Messages(k)) = HeldBy(<<>>) \cup {1}
    <3> DEFINE z == <<>>
    <3>1. z \in Seq(Msgs(said))
      BY EmptySeq
    <3>2. Messages(k) = Append(z, a)
      BY <2>5
    <3> HIDE DEF z
    <3>3. HeldBy(Append(z, a)) = HeldBy(z) \cup a.holds
      BY <2>2, <2>3, <3>1, AppendMembers
    <3> QED
      BY <2>3, <3>2, <3>3 DEF z
  <2>9. Whole(l, said)
    BY <2>2, <2>7, <2>8 DEF Whole
  <2> HIDE DEF l
  <2>10. Idle \in Works(said) /\ Idle.pc = "idle" /\ Idle.todo = {}
    BY <2>2, IdleWorks
  <2>11. Good(l, Idle, said, FALSE)
    BY <2>2, <2>6, <2>9, <2>10, RestGood
  <2> DEFINE more == reloads < MaxReload
  <2>12. more = FALSE /\ reloads \in 0..MaxReload
    BY <1>1, <1>3
  <2> HIDE DEF more
  <2>13. Good(log, work, said, more)
    BY <2>1, <2>11, <2>12
  <2> QED
    BY <2>2, <2>12, <2>13 DEF IInv, more
<1> QED
  BY <1>2, <1>3 DEF Start

\* What the invariant says of every event and of the two surfaces.
LEMMA InvTypeOK ==
    ASSUME IInv
    PROVE  TypeOK
<1>1. /\ said \in Counts /\ said.msgs \in Nat /\ said.calls \in Nat
      /\ reloads \in 0..MaxReload /\ log \in Logs(said) /\ work \in Works(said)
      /\ work.todo \in SUBSET (1..said.calls)
      /\ work.pc = "compact" => SpanGood(Messages(log), work)
  BY InvParts
<1>2. said.msgs \in 0..MaxSaid /\ said.calls \in 0..MaxCall /\ MaxSaid \in Nat /\ MaxCall \in Nat
  BY <1>1, BoundAssumption DEF Counts
<1>3. 1..said.msgs \subseteq Said /\ 1..said.calls \subseteq Call
      /\ 0..said.calls \subseteq Call \cup {0}
  BY <1>1, <1>2 DEF Said, Call
<1>4. DOMAIN log = {"events", "surface", "read"}
  BY <1>1 DEF Logs
<1>5. /\ log.events \in Seq(Events(said)) /\ Len(log.events) \in Nat
      /\ log.surface \in Seq(1..Len(log.events)) /\ log.read \in Seq(1..Len(log.events))
      /\ Len(Messages(log)) = Len(log.surface)
  BY <1>1, Shown
<1>6. ASSUME NEW e \in ToSet(log.events)
      PROVE  /\ e.msg \in [role : Role, holds : SUBSET Said, calls : SUBSET Call,
                           answers : Call \cup {0}]
             /\ e.op = Appended \/ e.op.from \in 2..e.op.to
  <2>1. e \in Events(said)
    BY <1>5, <1>6, ElementOfSeq DEF ToSet
  <2>2. e.msg \in Msgs(said) /\ e.op \in Ops
    BY <2>1 DEF Events
  <2> DEFINE m == e.msg
  <2>3. m \in [role : Role, holds : SUBSET (1..said.msgs), calls : SUBSET (1..said.calls),
               answers : 0..said.calls]
    BY <2>2 DEF Msgs
  <2> HIDE DEF m
  <2>4. m \in [role : Role, holds : SUBSET Said, calls : SUBSET Call, answers : Call \cup {0}]
    BY <1>3, <2>3
  <2>5. e.op = Appended \/ e.op.from \in 2..e.op.to
    BY <2>2 DEF Ops
  <2> QED
    BY <2>4, <2>5 DEF m
<1>7. ToSet(log.surface) \cup ToSet(log.read) \subseteq DOMAIN log.events
  <2>1. DOMAIN log.events = 1..Len(log.events)
    BY <1>5, LenProperties
  <2>2. ToSet(log.surface) \subseteq 1..Len(log.events)
    BY <1>5, ElementOfSeq DEF ToSet
  <2>3. ToSet(log.read) \subseteq 1..Len(log.events)
    BY <1>5, ElementOfSeq DEF ToSet
  <2> QED
    BY <2>1, <2>2, <2>3
<1>8. /\ work.pc \in {"idle", "sample", "compact", "tools", "rearmed"}
      /\ work.todo \subseteq Call /\ work.holds \cup work.omits \subseteq Said
  BY <1>1, <1>3 DEF Works
<1>10. said.omitted \subseteq Said
  BY <1>1 DEF Counts
<1>9. work.pc = "compact" => Len(work.span) = 2 /\ work.span[2] <= Len(log.surface)
  <2>1. work.pc = "compact" => Len(work.span) = 2 /\ work.span[2] \in 2..Len(Messages(log))
    BY <1>1 DEF SpanGood
  <2> QED
    BY <1>5, <2>1
<1> QED
  BY <1>1, <1>2, <1>4, <1>6, <1>7, <1>8, <1>9, <1>10 DEF TypeOK

(***************************************************************************)
(* The theorems.                                                           *)
(***************************************************************************)

\* IInv holds throughout, whatever compactions, messages, repairs, clones and
\* restarts follow each other.
THEOREM Invariant == SpecFromStart => []IInv
<1>1. Start => IInv
  BY StartIInv
<1>2. IInv /\ [Next]_vars => IInv'
  BY NextIInv
<1> QED
  BY <1>1, <1>2, PTL DEF SpecFromStart

\* Every event, both surfaces and the loop's state are well formed; a stretch
\* that a compaction waits with is still on the surface.
THEOREM TypeCorrect == SpecFromStart => []TypeOK
BY Invariant, InvTypeOK, PTL

\* What was said is on the surface or in a summary on it, but for what the
\* summaries themselves left out.
THEOREM OmittedBySummaries == SpecFromStart => []OnlySummariesOmit
<1>1. IInv => OnlySummariesOmit
  BY InvParts DEF Whole, OnlySummariesOmit
<1> QED
  BY <1>1, Invariant, PTL

\* Of what a trim leaves, every call has its result: the result is later, and
\* what is dropped is the oldest.
LEMMA TrimPaired ==
    ASSUME NEW s \in Counts, NEW ms \in Seq(Msgs(s)), AnsweredAfter(ms),
           Calls(ms) = Answered(ms),
           NEW n \in Nat, NEW i \in Trimmed(ms, n), NEW c \in ms[i].calls
    PROVE  \E j \in Trimmed(ms, n) : ms[j].answers = c
<1> DEFINE users == {a \in DOMAIN ms : ms[a].role = "user"}
           free  == {a \in DOMAIN ms : /\ ms[a].role # "system"
                                       /\ a \in users => \E b \in users : a < b}
<1>1. Trimmed(ms, n) = {a \in DOMAIN ms : a \in free => Place(free, a) > n}
  BY DEF Trimmed
<1>2. /\ Len(ms) \in Nat /\ DOMAIN ms = 1..Len(ms) /\ i \in 1..Len(ms)
      /\ \A a \in 1..Len(ms) : Shaped(ms[a]) /\ ms[a].answers \in Nat /\ 0 \notin ms[a].calls
  BY <1>1, MsgAt
<1>3. c # 0 /\ c \in Answered(ms)
  BY <1>2, Members
<1>4. PICK k \in DOMAIN ms : ms[k].answers = c
  BY <1>3, Members
<1>5. PICK j \in DOMAIN ms : i < j /\ ms[j].answers = c
  BY <1>2, <1>4 DEF AnsweredAfter
<1>6. i \in free
  BY <1>2 DEF Shaped
<1>7. j \in free
  BY <1>2, <1>3, <1>5 DEF Shaped
<1>8. free \in SUBSET (1..Len(ms))
  BY <1>2
<1>9. Place(free, i) > n
  BY <1>1, <1>6
<1> HIDE DEF free
<1>10. /\ Place(free, i) < Place(free, j)
       /\ Place(free, i) \in 1..Cardinality(free) /\ Place(free, j) \in 1..Cardinality(free)
       /\ Cardinality(free) \in Nat
  BY <1>2, <1>5, <1>6, <1>7, <1>8, PlaceParts
<1>11. Place(free, j) > n
  BY <1>9, <1>10
<1> QED
  BY <1>1, <1>5, <1>11

\* A model is sampled with every call on the surface answered and every
\* result asked for, and with every call that a trim leaves answered.
THEOREM SampledPairedAlways == SpecFromStart => []SampledPaired
<1>1. IInv => SampledPaired
  <2> SUFFICES ASSUME IInv, work.pc = "sample" PROVE SampledPaired
    BY DEF SampledPaired
  <2> DEFINE ms == Messages(log)
  <2>1. /\ said \in Counts /\ ms \in Seq(Msgs(said)) /\ Calls(ms) = Answered(ms)
        /\ AnsweredAfter(ms)
    BY InvParts DEF Steady, Settled
  <2>2. Len(ms) \in Nat
    BY <2>1, LenProperties
  <2> HIDE DEF ms
  <2>3. \A n \in 1..Len(ms) : \A i \in Trimmed(ms, n) : \A c \in ms[i].calls :
           \E j \in Trimmed(ms, n) : ms[j].answers = c
    BY <2>1, <2>2, TrimPaired
  <2> QED
    BY <2>1, <2>3 DEF SampledPaired, ms
<1> QED
  BY <1>1, Invariant, PTL

\* A compaction keeps the prompt and the messages after its stretch, those
\* that came during the await included.
THEOREM TailIsKept == SpecFromStart => TailKept
<1>1. IInv /\ [Next]_vars => [Compacts => KeepsTail]_vars
  BY NextIInv
<1> QED
  BY <1>1, Invariant, PTL DEF SpecFromStart, TailKept

=============================================================================
