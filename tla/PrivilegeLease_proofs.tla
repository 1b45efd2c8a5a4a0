----------------------- MODULE PrivilegeLease_proofs -----------------------
(***************************************************************************)
(* Proofs about the privilege lease registry, for every set of leases,     *)
(* actions and calls and every bound.                                      *)
(***************************************************************************)
EXTENDS PrivilegeLease, FiniteSetTheorems, TLAPS

\* A registry entry carries the terms the sidecar issued under its id.
EntryAsIssued ==
    \A l \in Lease : Registered(l) =>
        /\ issued[l] # Absent
        /\ registry[l].action = issued[l].action
        /\ registry[l].expires = issued[l].expires

\* The inductive invariant.
IInv ==
    /\ TypeOK
    /\ EntryAsIssued
    /\ NeverExhaustedInMap
    /\ Budget
    /\ RunsWhatWasApproved

\* Typing of the two records a lease id leads to.
LEMMA EntryTyped ==
    ASSUME TypeOK, NEW l \in Lease, Registered(l)
    PROVE  /\ registry[l] \in Entry
           /\ registry[l].action \in Action
           /\ registry[l].max \in Nat /\ registry[l].executions \in Nat
BY DEF TypeOK, Registered, Entry, Terms, Time

LEMMA IssuedTyped ==
    ASSUME TypeOK, NEW l \in Lease, issued[l] # Absent
    PROVE  /\ issued[l] \in Terms
           /\ issued[l].max \in Nat /\ issued[l].max >= 1
           /\ Fresh(l) \in Entry /\ Fresh(l) # Absent
<1>1. issued[l] \in Terms
  BY DEF TypeOK
<1>2. Fresh(l) \in Entry
  BY <1>1, LeaseAssumption DEF Fresh, Entry, Terms
<1> QED
  BY <1>1, <1>2, AbsentAssumption, LeaseAssumption DEF Terms

\* What a charge makes of an entry that has an execution left.
LEMMA ChargedTyped ==
    ASSUME NEW e \in Entry, e.executions < e.max
    PROVE  /\ Charged(e) \in Entry \cup {Absent}
           /\ Charged(e) # Absent =>
                /\ Charged(e).action = e.action /\ Charged(e).expires = e.expires
                /\ Charged(e).max = e.max
                /\ Charged(e).executions = e.executions + 1
                /\ Charged(e).executions < Charged(e).max
<1>1. e.max \in 1..MaxExec /\ e.executions \in 0..MaxExec
  BY DEF Entry
<1>2. CASE e.executions + 1 >= e.max
  BY <1>2 DEF Charged
<1>3. CASE ~(e.executions + 1 >= e.max)
  <2>1. Charged(e) = [e EXCEPT !.executions = e.executions + 1]
    BY <1>3 DEF Charged
  <2>2. e.executions + 1 < e.max /\ e.executions + 1 \in 0..MaxExec
    BY <1>1, <1>3, LeaseAssumption
  <2>3. Charged(e) \in Entry
    BY <2>1, <2>2 DEF Entry
  <2> QED
    BY <2>1, <2>2, <2>3 DEF Entry
<1> QED
  BY <1>2, <1>3

\* The invariant holds at the start.
LEMMA InitIInv == Init => IInv
BY LeaseAssumption DEF Init, IInv, TypeOK, EntryAsIssued, NeverExhaustedInMap, Budget,
   RunsWhatWasApproved, Registered, Time, Phase

\* What an action that replaces one registry entry has to show.
LEMMA EntryReplaced ==
    ASSUME IInv, NEW l \in Lease, NEW e \in Entry \cup {Absent},
           registry' = [registry EXCEPT ![l] = e],
           UNCHANGED <<clock, issued>>,
           call' \in [Call -> [pc : Phase, lease : Lease \cup {NoLease}, action : Action]],
           ran' \in [Lease -> Nat], uncharged' \in [Lease -> Nat],
           granted' \in [Lease -> Nat], succeeded' \in [Lease -> Nat],
           \A m \in Lease \ {l} :
              granted'[m] = granted[m] /\ succeeded'[m] = succeeded[m],
           e # Absent => /\ issued[l] # Absent
                         /\ e.action = issued[l].action
                         /\ e.expires = issued[l].expires
                         /\ e.executions < e.max,
           succeeded'[l] + (IF e # Absent THEN e.max - e.executions ELSE 0)
              <= granted'[l]
    PROVE  TypeOK' /\ EntryAsIssued' /\ NeverExhaustedInMap' /\ Budget'
<1>1. /\ registry'[l] = e
      /\ \A m \in Lease \ {l} : registry'[m] = registry[m]
  BY DEF IInv, TypeOK
<1>2. TypeOK'
  BY DEF IInv, TypeOK
<1>3. EntryAsIssued'
  BY <1>1 DEF IInv, EntryAsIssued, Registered
<1>4. NeverExhaustedInMap'
  BY <1>1 DEF IInv, NeverExhaustedInMap, Registered
<1>5. Budget'
  <2> SUFFICES ASSUME NEW m \in Lease
               PROVE  succeeded'[m] + (IF registry'[m] # Absent
                         THEN registry'[m].max - registry'[m].executions ELSE 0)
                        <= granted'[m]
    BY DEF Budget, Registered
  <2>1. CASE m = l
    BY <1>1, <2>1
  <2>2. CASE m # l
    BY <1>1, <2>2 DEF IInv, Budget, Registered
  <2> QED
    BY <2>1, <2>2
<1> QED
  BY <1>2, <1>3, <1>4, <1>5

\* Dropping an expired entry keeps the invariant, whatever the calls do.
LEMMA DropKeepsIInv ==
    ASSUME IInv, NEW l \in Lease, NEW a \in Action, DropIfExpired(l, a),
           UNCHANGED <<clock, issued, granted, succeeded>>,
           ran' \in [Lease -> Nat], uncharged' \in [Lease -> Nat],
           call' \in [Call -> [pc : Phase, lease : Lease \cup {NoLease}, action : Action]]
    PROVE  TypeOK' /\ EntryAsIssued' /\ NeverExhaustedInMap' /\ Budget'
<1>1. CASE Registered(l) /\ registry[l].action = a /\ Expired(l)
  <2>1. registry' = [registry EXCEPT ![l] = Absent]
    BY <1>1 DEF DropIfExpired
  <2>2. succeeded[l] <= granted[l]
    <3>1. succeeded[l] + (registry[l].max - registry[l].executions) <= granted[l]
      BY <1>1 DEF IInv, Budget
    <3>2. registry[l].executions < registry[l].max
      BY <1>1 DEF IInv, NeverExhaustedInMap
    <3>3. registry[l].max \in Nat /\ registry[l].executions \in Nat
      BY <1>1, EntryTyped DEF IInv
    <3> QED
      BY <3>1, <3>2, <3>3 DEF IInv, TypeOK
  <2>3. succeeded'[l] + 0 <= granted'[l]
    BY <2>2 DEF IInv, TypeOK
  <2> QED
    BY <2>1, <2>3, EntryReplaced DEF IInv, TypeOK
<1>2. CASE ~(Registered(l) /\ registry[l].action = a /\ Expired(l))
  <2>1. registry' = registry
    BY <1>2 DEF DropIfExpired
  <2> QED
    BY <2>1 DEF IInv, TypeOK, EntryAsIssued, NeverExhaustedInMap, Budget, Registered
<1> QED
  BY <1>1, <1>2

\* The history of a run stays typed.
LEMMA RanTyped ==
    ASSUME TypeOK, NEW k \in Call, NEW n \in {0, 1}, NEW m \in {0, 1}, Ran(k, n, m)
    PROVE  ran' \in [Lease -> Nat] /\ uncharged' \in [Lease -> Nat]
BY DEF Ran, TypeOK

\* Moving one call keeps what the running calls were approved for.
LEMMA GotoKeepsApproved ==
    ASSUME IInv, NEW k \in Call, NEW pc \in Phase, Goto(k, pc),
           call[k].pc # "idle", UNCHANGED issued
    PROVE  /\ call' \in [Call -> [pc : Phase, lease : Lease \cup {NoLease}, action : Action]]
           /\ RunsWhatWasApproved'
<1>1. call' \in [Call -> [pc : Phase, lease : Lease \cup {NoLease}, action : Action]]
  BY DEF IInv, TypeOK, Goto
<1>2. \A j \in Call :
         /\ call'[j].lease = call[j].lease
         /\ call'[j].action = call[j].action
         /\ call'[j].pc # "idle" => call[j].pc # "idle"
  BY DEF IInv, TypeOK, Goto
<1>3. RunsWhatWasApproved'
  <2> SUFFICES ASSUME NEW j \in Call, call'[j].pc # "idle", call'[j].lease \in Lease
               PROVE  /\ issued'[call'[j].lease] # Absent
                      /\ issued'[call'[j].lease].action = call'[j].action
    BY DEF RunsWhatWasApproved
  <2>1. /\ call[j].pc # "idle" /\ call[j].lease \in Lease
        /\ call'[j].lease = call[j].lease /\ call'[j].action = call[j].action
    BY <1>2
  <2>2. /\ issued[call[j].lease] # Absent
        /\ issued[call[j].lease].action = call[j].action
    BY <2>1 DEF IInv, RunsWhatWasApproved
  <2>3. issued' = issued
    OBVIOUS
  <2> QED
    BY <2>1, <2>2, <2>3
<1> QED
  BY <1>1, <1>3

\* Every step keeps the invariant.
LEMMA NextIInv == IInv /\ [Next]_vars => IInv'
<1> SUFFICES ASSUME IInv, [Next]_vars PROVE IInv'
  OBVIOUS
<1> USE DEF IInv
<1>1. ASSUME NEW l \in Lease, NEW t \in Terms, Issue(l, t)
      PROVE  IInv'
  <2>1. \A m \in Lease : issued[m] # Absent => issued'[m] = issued[m]
    BY <1>1 DEF Issue, TypeOK
  <2>2. TypeOK'
    BY <1>1 DEF Issue, TypeOK
  <2>3. EntryAsIssued' /\ NeverExhaustedInMap' /\ Budget'
    BY <1>1, <2>1 DEF Issue, EntryAsIssued, NeverExhaustedInMap, Budget, Registered
  <2>4. RunsWhatWasApproved'
    BY <1>1, <2>1 DEF Issue, RunsWhatWasApproved
  <2> QED
    BY <2>2, <2>3, <2>4
<1>2. ASSUME NEW l \in Lease, Register(l)
      PROVE  IInv'
  <2>1. /\ Fresh(l) \in Entry /\ Fresh(l) # Absent
        /\ issued[l].max \in Nat /\ issued[l].max >= 1
    BY <1>2, IssuedTyped DEF Register
  <2>2. /\ Fresh(l).action = issued[l].action /\ Fresh(l).expires = issued[l].expires
        /\ Fresh(l).max = issued[l].max /\ Fresh(l).executions = 0
    BY DEF Fresh
  <2>3. succeeded[l] <= granted[l]
    <3>1. CASE Registered(l)
      <4>1. /\ registry[l].max \in Nat /\ registry[l].executions \in Nat
            /\ registry[l].executions < registry[l].max
        BY <3>1, EntryTyped DEF NeverExhaustedInMap
      <4>2. succeeded[l] + (registry[l].max - registry[l].executions) <= granted[l]
        BY <3>1 DEF Budget
      <4> QED
        BY <4>1, <4>2 DEF TypeOK
    <3>2. CASE ~Registered(l)
      BY <3>2 DEF Budget, TypeOK
    <3> QED
      BY <3>1, <3>2
  <2>4. /\ granted'[l] = granted[l] + issued[l].max
        /\ granted' \in [Lease -> Nat]
        /\ \A m \in Lease \ {l} : granted'[m] = granted[m]
    BY <1>2, <2>1 DEF Register, TypeOK
  <2>5. succeeded'[l] + (Fresh(l).max - Fresh(l).executions) <= granted'[l]
    BY <1>2, <2>1, <2>2, <2>3, <2>4 DEF Register, TypeOK
  <2>6. TypeOK' /\ EntryAsIssued' /\ NeverExhaustedInMap' /\ Budget'
    <3> DEFINE e == Fresh(l)
    <3>1. /\ e \in Entry \cup {Absent} /\ e # Absent
          /\ issued[l] # Absent /\ e.action = issued[l].action
          /\ e.expires = issued[l].expires
          /\ e.executions < e.max
      BY <1>2, <2>1, <2>2 DEF Register
    <3>2. /\ registry' = [registry EXCEPT ![l] = e]
          /\ UNCHANGED <<clock, issued, ran, uncharged, call, succeeded>>
      BY <1>2 DEF Register
    <3>3. succeeded'[l] + (IF e # Absent THEN e.max - e.executions ELSE 0) <= granted'[l]
      BY <2>5, <3>1
    <3> HIDE DEF e
    <3> QED
      BY <2>4, <3>1, <3>2, <3>3, EntryReplaced DEF TypeOK
  <2>7. RunsWhatWasApproved'
    BY <1>2 DEF Register, RunsWhatWasApproved
  <2> QED
    BY <2>6, <2>7
<1>3. ASSUME NEW k \in Call, NEW l \in Lease \cup {NoLease}, NEW a \in Action,
             Begin(k, l, a)
      PROVE  IInv'
  <2>1. TypeOK'
    BY <1>3 DEF Begin, TypeOK, Phase
  <2>2. EntryAsIssued' /\ NeverExhaustedInMap' /\ Budget'
    BY <1>3 DEF Begin, EntryAsIssued, NeverExhaustedInMap, Budget, Registered
  <2>3. l \in Lease => issued[l] # Absent /\ issued[l].action = a
    BY <1>3, LeaseAssumption DEF Begin, Ready, EntryAsIssued
  <2>4. RunsWhatWasApproved'
    BY <1>3, <2>3 DEF Begin, RunsWhatWasApproved, TypeOK
  <2> QED
    BY <2>1, <2>2, <2>4
<1>4. ASSUME NEW k \in Call, NEW l \in Lease, NEW a \in Action, Refuse(k, l, a)
      PROVE  IInv'
  <2>1. TypeOK' /\ EntryAsIssued' /\ NeverExhaustedInMap' /\ Budget'
    BY <1>4, DropKeepsIInv DEF Refuse, TypeOK
  <2>2. RunsWhatWasApproved'
    BY <1>4 DEF Refuse, RunsWhatWasApproved
  <2> QED
    BY <2>1, <2>2
<1>5. ASSUME NEW k \in Call, Outcome(k)
      PROVE  IInv'
  <2>1. PICK pc \in Phase, n \in {0, 1}, m \in {0, 1} : Goto(k, pc) /\ Ran(k, n, m)
    BY <1>5 DEF Outcome, Finish, TimeOut, Fail, Phase
  <2>2. /\ call[k].pc # "idle"
        /\ UNCHANGED <<clock, issued, registry, granted, succeeded>>
    BY <1>5 DEF Outcome, Finish, TimeOut, Fail
  <2>3. ran' \in [Lease -> Nat] /\ uncharged' \in [Lease -> Nat]
    BY <2>1, RanTyped
  <2>4. call' \in [Call -> [pc : Phase, lease : Lease \cup {NoLease}, action : Action]]
        /\ RunsWhatWasApproved'
    BY <2>1, <2>2, GotoKeepsApproved
  <2>5. TypeOK'
    BY <2>2, <2>3, <2>4 DEF TypeOK
  <2>6. EntryAsIssued' /\ NeverExhaustedInMap' /\ Budget'
    BY <2>2 DEF EntryAsIssued, NeverExhaustedInMap, Budget, Registered
  <2> QED
    BY <2>4, <2>5, <2>6
<1>6. ASSUME NEW k \in Call, ConsumeCheck(k)
      PROVE  IInv'
  <2>1. /\ call[k].pc # "idle" /\ call[k].action \in Action
        /\ UNCHANGED <<clock, issued, granted, succeeded>>
    BY <1>6 DEF ConsumeCheck, TypeOK
  <2>1a. ran' \in [Lease -> Nat] /\ uncharged' \in [Lease -> Nat]
    BY <1>6, RanTyped DEF ConsumeCheck, ChargeRefused, TypeOK
  <2>2. PICK pc \in Phase : Goto(k, pc)
    BY <1>6 DEF ConsumeCheck, Phase
  <2>3. call' \in [Call -> [pc : Phase, lease : Lease \cup {NoLease}, action : Action]]
        /\ RunsWhatWasApproved'
    BY <2>1, <2>2, GotoKeepsApproved
  <2>4. CASE UNCHANGED registry
    BY <2>1, <2>1a, <2>3, <2>4 DEF TypeOK, EntryAsIssued, NeverExhaustedInMap, Budget, Registered
  <2>5. CASE DropIfExpired(call[k].lease, call[k].action) /\ call[k].lease \in Lease
    BY <2>1, <2>1a, <2>3, <2>5, DropKeepsIInv
  <2>6. CASE DropIfExpired(call[k].lease, call[k].action) /\ call[k].lease \notin Lease
    <3>1. registry' = registry
      BY <2>6 DEF DropIfExpired, TypeOK
    <3> QED
      BY <2>4, <3>1
  <2> QED
    BY <1>6, <2>4, <2>5, <2>6 DEF ConsumeCheck
<1>7. ASSUME NEW k \in Call, ConsumeCharge(k)
      PROVE  IInv'
  <2> DEFINE l == call[k].lease
  <2>1. /\ call[k].pc # "idle" /\ Goto(k, "idle") /\ "idle" \in Phase
        /\ UNCHANGED <<clock, issued, granted>>
    BY <1>7 DEF ConsumeCharge, Phase
  <2>1a. ran' \in [Lease -> Nat] /\ uncharged' \in [Lease -> Nat]
    BY <1>7, RanTyped DEF ConsumeCharge, ChargeRefused, TypeOK
  <2>2. call' \in [Call -> [pc : Phase, lease : Lease \cup {NoLease}, action : Action]]
        /\ RunsWhatWasApproved'
    BY <2>1, GotoKeepsApproved
  <2>3. CASE Registered(l) /\ l \in Lease
    <3> DEFINE e == Charged(registry[l])
    <3>1. /\ registry[l] \in Entry /\ registry[l].executions < registry[l].max
          /\ registry[l].max \in Nat /\ registry[l].executions \in Nat
      BY <2>3, EntryTyped DEF NeverExhaustedInMap
    <3>2. /\ e \in Entry \cup {Absent}
          /\ e # Absent => /\ e.action = registry[l].action
                           /\ e.expires = registry[l].expires
                           /\ e.max = registry[l].max
                           /\ e.executions = registry[l].executions + 1
                           /\ e.executions < e.max
      BY <3>1, ChargedTyped
    <3>3. /\ issued[l] # Absent /\ registry[l].action = issued[l].action
          /\ registry[l].expires = issued[l].expires
      BY <2>3 DEF EntryAsIssued
    <3>4. /\ registry' = [registry EXCEPT ![l] = e]
          /\ succeeded' = [succeeded EXCEPT ![l] = @ + 1]
      BY <1>7, <2>3 DEF ConsumeCharge
    <3>5. /\ succeeded'[l] = succeeded[l] + 1
          /\ succeeded' \in [Lease -> Nat]
          /\ \A m \in Lease \ {l} : succeeded'[m] = succeeded[m]
      BY <2>3, <3>4 DEF TypeOK
    <3>6. succeeded[l] + (registry[l].max - registry[l].executions) <= granted[l]
      BY <2>3 DEF Budget
    <3>7. succeeded'[l] + (IF e # Absent THEN e.max - e.executions ELSE 0) <= granted'[l]
      <4>1. granted[l] \in Nat /\ succeeded[l] \in Nat /\ granted' = granted
        BY <2>1, <2>3 DEF TypeOK
      <4> HIDE DEF e
      <4> QED
        BY <3>1, <3>2, <3>5, <3>6, <4>1
    <3> HIDE DEF e
    <3>8. \A m \in Lease \ {l} : granted'[m] = granted[m] /\ succeeded'[m] = succeeded[m]
      BY <2>1, <3>5
    <3>9. e # Absent => /\ issued[l] # Absent
                        /\ e.action = issued[l].action
                        /\ e.expires = issued[l].expires
                        /\ e.executions < e.max
      BY <3>2, <3>3
    <3>10. granted' \in [Lease -> Nat]
      BY <2>1 DEF TypeOK
    <3>11. l \in Lease /\ UNCHANGED <<clock, issued>>
      BY <2>1, <2>3
    <3> HIDE DEF l
    <3>12. TypeOK' /\ EntryAsIssued' /\ NeverExhaustedInMap' /\ Budget'
      BY <2>1a, <2>2, <3>2, <3>4, <3>5, <3>7, <3>8, <3>9, <3>10, <3>11, EntryReplaced
    <3> QED
      BY <2>2, <3>12
  <2>4. CASE ~(Registered(l) /\ l \in Lease)
    <3>1. registry' = registry /\ succeeded' = succeeded
      BY <1>7, <2>4 DEF ConsumeCharge, TypeOK
    <3> QED
      BY <2>1, <2>1a, <2>2, <3>1 DEF TypeOK, EntryAsIssued, NeverExhaustedInMap, Budget, Registered
  <2> QED
    BY <2>3, <2>4
<1>8. CASE Tick
  BY <1>8, LeaseAssumption DEF Tick, TypeOK, Time, EntryAsIssued, NeverExhaustedInMap, Budget,
     RunsWhatWasApproved, Registered
<1>9. CASE UNCHANGED vars
  BY <1>9 DEF vars, TypeOK, EntryAsIssued, NeverExhaustedInMap, Budget, RunsWhatWasApproved,
     Registered
<1> QED
  BY <1>1, <1>2, <1>3, <1>4, <1>5, <1>6, <1>7, <1>8, <1>9 DEF Next

\* The registry and the calls are well typed in every reachable state.
THEOREM TypeCorrect == Spec => []TypeOK
<1>1. IInv => TypeOK
  BY DEF IInv
<1> QED
  BY InitIInv, NextIInv, <1>1, PTL DEF Spec

\* However many invocations of ai_terminal_exec race on a lease, and whenever
\* it is registered again, the results given as a success under it never
\* exceed what its registrations granted.
THEOREM SuccessesAreGranted == Spec => []SuccessWithinGrant
<1>1. IInv => SuccessWithinGrant
  <2> SUFFICES ASSUME IInv, NEW l \in Lease PROVE succeeded[l] <= granted[l]
    BY DEF SuccessWithinGrant
  <2>1. CASE Registered(l)
    <3>1. /\ registry[l].max \in Nat /\ registry[l].executions \in Nat
          /\ registry[l].executions < registry[l].max
      BY <2>1, EntryTyped DEF IInv, NeverExhaustedInMap
    <3> QED
      BY <2>1, <3>1 DEF IInv, Budget, TypeOK
  <2>2. CASE ~Registered(l)
    BY <2>2 DEF IInv, Budget, TypeOK
  <2> QED
    BY <2>1, <2>2
<1> QED
  BY InitIInv, NextIInv, <1>1, PTL DEF Spec

\* Whatever runs on a host under a lease is the action that lease was issued
\* for, also while the entry expires or is registered again.
THEOREM OnlyApprovedRuns == Spec => []RunsWhatWasApproved
<1>1. IInv => RunsWhatWasApproved
  BY DEF IInv
<1> QED
  BY InitIInv, NextIInv, <1>1, PTL DEF Spec

\* The branch of assert_lease_ready that answers "privilege lease exhausted"
\* is dead: no call ever finds an entry without an execution left.
THEOREM ExhaustedIsUnknown == Spec => []NeverExhaustedInMap
<1>1. IInv => NeverExhaustedInMap
  BY DEF IInv
<1> QED
  BY InitIInv, NextIInv, <1>1, PTL DEF Spec

---------------------------------------------------------------------------
(* How often a command runs. *)

Racing == Cardinality(Call)
Running(l) == {k \in Call : call[k].pc = "running" /\ call[k].lease = l}
Under(l)   == {k \in Call : call[k].pc # "idle" /\ call[k].lease = l}
Late(l)    == issued[l] # Absent /\ issued[l].expires <= clock

\* Runs that passed the gate, but for those that are not charged.
Begun(l) == ran[l] + Cardinality(Running(l)) - uncharged[l]

\* While the lease is in the map, calls under way come on top of what its
\* successes account for; once it is used up they were all let through by
\* the execution that used it up.
ReachAt(l) ==
    /\ Begun(l) <= Racing * granted[l]
    /\ Registered(l) => Begun(l) <= Racing * succeeded[l] + Cardinality(Under(l))
    /\ ~Registered(l) /\ ~Late(l) => Begun(l) <= Racing * succeeded[l]

Reach == \A l \in Lease : ReachAt(l)

\* Counting a set of which one member at most comes or goes.
LEMMA CountOne ==
    ASSUME NEW S, NEW T, NEW k, IsFiniteSet(S), IsFiniteSet(T),
           \A j : j # k => (j \in S <=> j \in T)
    PROVE  /\ Cardinality(S) \in Nat /\ Cardinality(T) \in Nat
           /\ Cardinality(T) = Cardinality(S) + (IF k \in T THEN 1 ELSE 0)
                                              - (IF k \in S THEN 1 ELSE 0)
<1>1. S \ {k} = T \ {k}
  OBVIOUS
<1>2. Cardinality(S) \in Nat /\ Cardinality(T) \in Nat
  BY FS_CardinalityType
<1>3. Cardinality(S \ {k}) = IF k \in S THEN Cardinality(S) - 1 ELSE Cardinality(S)
  BY FS_RemoveElement
<1>4. Cardinality(T \ {k}) = IF k \in T THEN Cardinality(T) - 1 ELSE Cardinality(T)
  BY FS_RemoveElement
<1> QED
  BY <1>1, <1>2, <1>3, <1>4

\* The calls under a lease are finitely many, and no more than there are.
LEMMA Counted ==
    ASSUME NEW l \in Lease
    PROVE  /\ IsFiniteSet(Running(l)) /\ IsFiniteSet(Running(l)')
           /\ IsFiniteSet(Under(l)) /\ IsFiniteSet(Under(l)')
           /\ Racing \in Nat /\ Cardinality(Running(l)) \in Nat
           /\ Cardinality(Under(l)) \in Nat /\ Cardinality(Under(l)) <= Racing
           /\ Cardinality(Under(l)') \in Nat /\ Cardinality(Under(l)') <= Racing
<1>1. /\ Running(l) \in SUBSET Call /\ Running(l)' \in SUBSET Call
      /\ Under(l) \in SUBSET Call /\ Under(l)' \in SUBSET Call
  BY DEF Running, Under
<1>2. IsFiniteSet(Call)
  BY LeaseAssumption
<1>3. /\ IsFiniteSet(Running(l)) /\ IsFiniteSet(Running(l)')
      /\ IsFiniteSet(Under(l)) /\ IsFiniteSet(Under(l)')
      /\ Cardinality(Under(l)) <= Racing /\ Cardinality(Under(l)') <= Racing
  <2> DEFINE R == Running(l)
             Rp == Running(l)'
             U == Under(l)
             Up == Under(l)'
  <2>1. /\ R \in SUBSET Call /\ Rp \in SUBSET Call /\ U \in SUBSET Call /\ Up \in SUBSET Call
    BY <1>1
  <2> HIDE DEF R, Rp, U, Up
  <2>2. /\ IsFiniteSet(R) /\ IsFiniteSet(Rp) /\ IsFiniteSet(U) /\ IsFiniteSet(Up)
        /\ Cardinality(U) <= Cardinality(Call) /\ Cardinality(Up) <= Cardinality(Call)
    BY <1>2, <2>1, FS_Subset
  <2> QED
    BY <2>2 DEF R, Rp, U, Up, Racing
<1> QED
  BY <1>2, <1>3, FS_CardinalityType DEF Racing

\* What the step of one call does to the counts of a lease.
LEMMA CallCounts ==
    ASSUME NEW k \in Call, NEW l \in Lease,
           \A j \in Call \ {k} : call'[j] = call[j]
    PROVE  /\ Cardinality(Running(l)') = Cardinality(Running(l))
                 + (IF k \in Running(l)' THEN 1 ELSE 0) - (IF k \in Running(l) THEN 1 ELSE 0)
           /\ Cardinality(Under(l)') = Cardinality(Under(l))
                 + (IF k \in Under(l)' THEN 1 ELSE 0) - (IF k \in Under(l) THEN 1 ELSE 0)
<1> DEFINE R == Running(l)
           Rp == Running(l)'
           U == Under(l)
           Up == Under(l)'
<1>1. /\ IsFiniteSet(R) /\ IsFiniteSet(Rp) /\ IsFiniteSet(U) /\ IsFiniteSet(Up)
  BY Counted
<1>2. /\ \A j : j # k => (j \in R <=> j \in Rp)
      /\ \A j : j # k => (j \in U <=> j \in Up)
  BY DEF Running, Under
<1> HIDE DEF R, Rp, U, Up
<1>3. /\ Cardinality(Rp) = Cardinality(R) + (IF k \in Rp THEN 1 ELSE 0) - (IF k \in R THEN 1 ELSE 0)
      /\ Cardinality(Up) = Cardinality(U) + (IF k \in Up THEN 1 ELSE 0) - (IF k \in U THEN 1 ELSE 0)
  BY <1>1, <1>2, CountOne
<1> QED
  BY <1>3 DEF R, Rp, U, Up

\* The arithmetic of the bound.
LEMMA Times ==
    ASSUME NEW n \in Nat, NEW a \in Nat, NEW b \in Nat
    PROVE  /\ n * a \in Nat /\ n * (a + 1) = n * a + n
           /\ a <= b => n * a <= n * b
<1>1. n * a \in Nat /\ n * (a + 1) = n * a + n
  OBVIOUS
<1>2. ASSUME a <= b PROVE n * a <= n * b
  <2>1. PICK d \in Nat : b = a + d
    BY <1>2, b - a \in Nat
  <2>2. n * b = n * a + n * d /\ n * d \in Nat
    BY <2>1
  <2> QED
    BY <1>1, <2>2
<1> QED
  BY <1>1, <1>2

\* A lease in the map has successes left to give.
LEMMA RoomLeft ==
    ASSUME IInv, NEW l \in Lease, Registered(l)
    PROVE  succeeded[l] + 1 <= granted[l]
<1>1. /\ registry[l].max \in Nat /\ registry[l].executions \in Nat
      /\ registry[l].executions < registry[l].max
  BY EntryTyped DEF IInv, NeverExhaustedInMap
<1>2. succeeded[l] + (registry[l].max - registry[l].executions) <= granted[l]
  BY DEF IInv, Budget
<1> QED
  BY <1>1, <1>2 DEF IInv, TypeOK

\* A step that lets no run of l through and charges none.
Quiet(l) ==
    /\ Begun(l)' <= Begun(l)
    /\ granted[l] <= granted'[l] /\ succeeded'[l] = succeeded[l]
    /\ Registered(l)' =>
          \/ /\ Registered(l)
             /\ Begun(l)' - Cardinality(Under(l)') <= Begun(l) - Cardinality(Under(l))
          \/ ~Registered(l) /\ ~Late(l)
    /\ ~Registered(l)' /\ ~Late(l)' => ~Registered(l) /\ ~Late(l)

\* The numbers that are compared.
LEMMA Numbers ==
    ASSUME IInv, IInv', NEW l \in Lease
    PROVE  /\ Begun(l) \in Int /\ Begun(l)' \in Int
           /\ granted[l] \in Nat /\ granted'[l] \in Nat
           /\ succeeded[l] \in Nat /\ succeeded'[l] \in Nat
<1>1. /\ Cardinality(Running(l)) \in Nat /\ Cardinality(Running(l)') \in Nat
  BY Counted, FS_CardinalityType
<1>2. /\ ran[l] \in Nat /\ ran'[l] \in Nat /\ uncharged[l] \in Nat /\ uncharged'[l] \in Nat
      /\ granted[l] \in Nat /\ granted'[l] \in Nat
      /\ succeeded[l] \in Nat /\ succeeded'[l] \in Nat
  BY DEF IInv, TypeOK
<1> QED
  BY <1>1, <1>2 DEF Begun

\* Such a step keeps the bound.
LEMMA QuietKeeps ==
    ASSUME IInv, IInv', NEW l \in Lease, ReachAt(l), Quiet(l)
    PROVE  ReachAt(l)'
<1> DEFINE b == Begun(l)
           bp == Begun(l)'
           f == Cardinality(Under(l))
           fp == Cardinality(Under(l)')
           n == Racing
           np == Racing'
<1>1. /\ b \in Int /\ bp \in Int /\ f \in Nat /\ fp \in Nat /\ n \in Nat /\ np = n
      /\ granted[l] \in Nat /\ granted'[l] \in Nat /\ succeeded[l] \in Nat
  BY Numbers, Counted DEF Racing
<1>2. n * granted[l] <= n * granted'[l] /\ n * granted[l] \in Nat /\ n * granted'[l] \in Nat
      /\ n * succeeded[l] \in Nat
  <2>1. granted[l] <= granted'[l]
    BY DEF Quiet
  <2> HIDE DEF n
  <2> QED
    BY <1>1, <2>1, Times
<1>3. /\ bp <= b /\ succeeded'[l] = succeeded[l]
      /\ Registered(l)' => \/ Registered(l) /\ bp - fp <= b - f
                           \/ ~Registered(l) /\ ~Late(l)
      /\ ~Registered(l)' /\ ~Late(l)' => ~Registered(l) /\ ~Late(l)
  BY DEF Quiet
<1>4. /\ b <= n * granted[l]
      /\ Registered(l) => b <= n * succeeded[l] + f
      /\ ~Registered(l) /\ ~Late(l) => b <= n * succeeded[l]
  BY DEF ReachAt
<1> HIDE DEF b, bp, f, fp, n, np
<1>5. bp <= n * granted'[l]
  BY <1>1, <1>2, <1>3, <1>4
<1>6. Registered(l)' => bp <= n * succeeded'[l] + fp
  BY <1>1, <1>2, <1>3, <1>4
<1>7. ~Registered(l)' /\ ~Late(l)' => bp <= n * succeeded'[l]
  BY <1>1, <1>2, <1>3, <1>4
<1>8. /\ bp <= np * granted'[l]
      /\ Registered(l)' => bp <= np * succeeded'[l] + fp
      /\ ~Registered(l)' /\ ~Late(l)' => bp <= np * succeeded'[l]
  BY <1>1, <1>5, <1>6, <1>7
<1> QED
  BY <1>8 DEF ReachAt, bp, fp, np

\* The gate lets a call through: an execution is left for it.
LEMMA BeginReach ==
    ASSUME IInv, IInv', NEW k \in Call, NEW l \in Lease, NEW a \in Action, Begin(k, l, a),
           ReachAt(l)
    PROVE  ReachAt(l)'
<1> DEFINE b == Begun(l)
           bp == Begun(l)'
           f == Cardinality(Under(l))
           fp == Cardinality(Under(l)')
           n == Racing
           np == Racing'
<1>1. /\ b \in Int /\ bp \in Int /\ f \in Nat /\ fp \in Nat /\ n \in Nat /\ np = n
      /\ fp <= n
      /\ granted[l] \in Nat /\ succeeded[l] \in Nat
  BY Numbers, Counted DEF Racing
<1>2. /\ Registered(l) /\ Registered(l)'
      /\ UNCHANGED <<issued, registry, granted, ran, uncharged, succeeded>>
      /\ \A j \in Call \ {k} : call'[j] = call[j]
      /\ call[k].pc = "idle" /\ call'[k].pc = "running" /\ call'[k].lease = l
  BY LeaseAssumption DEF Begin, Ready, Registered, IInv, TypeOK
<1>3. /\ k \notin Running(l) /\ k \notin Under(l)
      /\ k \in Running(l)' /\ k \in Under(l)'
  BY <1>2 DEF Running, Under
<1>4. bp = b + 1 /\ fp = f + 1
  <2>1. /\ Cardinality(Running(l)') = Cardinality(Running(l)) + 1
        /\ Cardinality(Under(l)') = Cardinality(Under(l)) + 1
    BY <1>2, <1>3, CallCounts, Counted
  <2>2. Cardinality(Running(l)) \in Nat /\ ran[l] \in Nat /\ uncharged[l] \in Nat
    BY Counted DEF IInv, TypeOK
  <2> QED
    BY <1>2, <2>1, <2>2 DEF Begun
<1>5. succeeded[l] + 1 <= granted[l]
  BY <1>2, RoomLeft
<1>6. b <= n * succeeded[l] + f
  BY <1>2 DEF ReachAt
<1> HIDE DEF b, bp, f, fp, n, np
<1>7. /\ n * succeeded[l] \in Nat /\ n * granted[l] \in Nat
      /\ n * (succeeded[l] + 1) = n * succeeded[l] + n
      /\ n * (succeeded[l] + 1) <= n * granted[l]
  BY <1>1, <1>5, Times
<1>8. bp <= n * succeeded[l] + fp /\ bp <= n * granted[l]
  BY <1>1, <1>4, <1>6, <1>7
<1>9. bp <= np * succeeded'[l] + fp /\ bp <= np * granted'[l]
  BY <1>1, <1>2, <1>8
<1> QED
  BY <1>2, <1>9 DEF ReachAt, bp, fp, np

\* A charge: what it uses up accounts for all that are under way.
LEMMA ChargeReach ==
    ASSUME IInv, IInv', NEW k \in Call, ConsumeCharge(k),
           NEW l \in Lease, call[k].lease = l, Registered(l), ReachAt(l)
    PROVE  ReachAt(l)'
<1> DEFINE b == Begun(l)
           bp == Begun(l)'
           f == Cardinality(Under(l))
           fp == Cardinality(Under(l)')
           n == Racing
           np == Racing'
<1>1. l \in Lease /\ Registered(l)
  OBVIOUS
<1>2. /\ UNCHANGED <<granted, ran, uncharged>> /\ succeeded'[l] = succeeded[l] + 1
      /\ \A j \in Call \ {k} : call'[j] = call[j]
      /\ call[k].pc = "charging" /\ call'[k].pc = "idle"
  BY <1>1 DEF ConsumeCharge, Goto, IInv, TypeOK
<1>3. /\ b \in Int /\ bp \in Int /\ f \in Nat /\ fp \in Nat /\ n \in Nat /\ np = n
      /\ f <= n
      /\ granted[l] \in Nat /\ succeeded[l] \in Nat
  BY <1>1, Numbers, Counted DEF Racing
<1>4. bp = b
  <2>1. k \notin Running(l) /\ k \notin Running(l)'
    BY <1>2 DEF Running
  <2>2. Cardinality(Running(l)') = Cardinality(Running(l))
    BY <1>1, <1>2, <2>1, CallCounts, Counted
  <2> QED
    BY <1>2, <2>2 DEF Begun
<1>5. /\ b <= n * granted[l] /\ b <= n * succeeded[l] + f
  BY <1>1 DEF ReachAt
<1> HIDE DEF b, bp, f, fp, n, np
<1>6. n * succeeded[l] \in Nat /\ n * (succeeded[l] + 1) = n * succeeded[l] + n
  BY <1>3, Times
<1>7. bp <= n * (succeeded[l] + 1)
  BY <1>3, <1>4, <1>5, <1>6
<1>8. bp <= n * (succeeded[l] + 1) + fp
  <2>1. n * (succeeded[l] + 1) \in Nat
    BY <1>3, Times
  <2> QED
    BY <1>3, <1>7, <2>1
<1>9. /\ bp <= np * granted'[l] /\ bp <= np * succeeded'[l]
      /\ bp <= np * succeeded'[l] + fp
  BY <1>2, <1>3, <1>4, <1>5, <1>7, <1>8
<1> QED
  BY <1>9 DEF ReachAt, bp, fp, np

\* A step that leaves the calls and their history alone.
LEMMA StillQuiet ==
    ASSUME IInv, IInv', NEW l \in Lease,
           UNCHANGED <<call, ran, uncharged, succeeded>>, granted[l] <= granted'[l],
           Registered(l)' => Registered(l) \/ (~Registered(l) /\ ~Late(l)),
           ~Registered(l)' /\ ~Late(l)' => ~Registered(l) /\ ~Late(l)
    PROVE  Quiet(l)
<1>1. Running(l)' = Running(l) /\ Under(l)' = Under(l)
  BY DEF Running, Under
<1>2. Begun(l)' = Begun(l)
  BY <1>1 DEF Begun
<1>3. Begun(l) \in Int /\ Cardinality(Under(l)) \in Nat
  BY Numbers, Counted
<1> QED
  BY <1>1, <1>2, <1>3 DEF Quiet

\* The step of a call that does not concern l.
LEMMA ElsewhereQuiet ==
    ASSUME IInv, IInv', NEW k \in Call, NEW l \in Lease,
           \A j \in Call \ {k} : call'[j] = call[j],
           k \notin Under(l), k \notin Under(l)',
           ran'[l] = ran[l], uncharged'[l] = uncharged[l], succeeded'[l] = succeeded[l],
           UNCHANGED <<clock, issued, granted>>, registry'[l] = registry[l]
    PROVE  Quiet(l)
<1>1. k \notin Running(l) /\ k \notin Running(l)'
  BY DEF Running, Under
<1>2. /\ Cardinality(Running(l)') = Cardinality(Running(l))
      /\ Cardinality(Under(l)') = Cardinality(Under(l))
  BY <1>1, CallCounts, Counted
<1>3. Begun(l)' = Begun(l)
  BY <1>2 DEF Begun
<1>4. Begun(l) \in Int /\ Cardinality(Under(l)) \in Nat /\ granted[l] \in Nat
  BY Numbers, Counted
<1>5. (Registered(l)' <=> Registered(l)) /\ (Late(l)' <=> Late(l))
  BY DEF Registered, Late
<1> QED
  BY <1>2, <1>3, <1>4, <1>5 DEF Quiet

\* A run ends.
LEMMA OutcomeQuiet ==
    ASSUME IInv, IInv', NEW k \in Call, Outcome(k), NEW l \in Lease
    PROVE  Quiet(l)
<1>1. /\ \A j \in Call \ {k} : call'[j] = call[j]
      /\ call[k].pc = "running" /\ call'[k].lease = call[k].lease
      /\ UNCHANGED <<clock, issued, registry, granted, succeeded>>
  BY DEF Outcome, Finish, TimeOut, Fail, Goto, IInv, TypeOK
<1>2. CASE call[k].lease # l
  <2>1. ran'[l] = ran[l] /\ uncharged'[l] = uncharged[l]
    BY <1>2 DEF Outcome, Finish, TimeOut, Fail, Ran, IInv, TypeOK
  <2>2. k \notin Under(l) /\ k \notin Under(l)'
    BY <1>1, <1>2 DEF Under
  <2> QED
    BY <1>1, <2>1, <2>2, ElsewhereQuiet
<1>3. CASE call[k].lease = l
  <2>1. \/ /\ call'[k].pc = "finished"
           /\ ran'[l] = ran[l] + 1 /\ uncharged'[l] = uncharged[l]
        \/ /\ call'[k].pc = "idle"
           /\ ran'[l] - uncharged'[l] = ran[l] - uncharged[l]
    BY <1>3 DEF Outcome, Finish, TimeOut, Fail, Ran, Goto, IInv, TypeOK
  <2>2. /\ k \in Running(l) /\ k \notin Running(l)' /\ k \in Under(l)
        /\ k \in Under(l)' <=> call'[k].pc = "finished"
    BY <1>1, <1>3, <2>1 DEF Running, Under
  <2>3. Cardinality(Running(l)') = Cardinality(Running(l)) - 1
    BY <1>1, <2>2, CallCounts, Counted
  <2>4. Cardinality(Under(l)') = Cardinality(Under(l)) - (IF k \in Under(l)' THEN 0 ELSE 1)
    BY <1>1, <2>2, CallCounts, Counted
  <2>5. /\ Cardinality(Running(l)) \in Nat /\ Cardinality(Under(l)) \in Nat
        /\ ran[l] \in Nat /\ ran'[l] \in Nat /\ uncharged[l] \in Nat /\ uncharged'[l] \in Nat
        /\ granted[l] \in Nat
    BY Counted DEF IInv, TypeOK
  <2>6. /\ Begun(l)' <= Begun(l)
        /\ Begun(l)' - Cardinality(Under(l)') <= Begun(l) - Cardinality(Under(l))
    BY <2>1, <2>2, <2>3, <2>4, <2>5 DEF Begun
  <2>7. (Registered(l)' <=> Registered(l)) /\ (Late(l)' <=> Late(l))
    BY <1>1 DEF Registered, Late
  <2> QED
    BY <1>1, <2>5, <2>6, <2>7 DEF Quiet
<1> QED
  BY <1>2, <1>3

\* A charge that is refused, in either critical section, finds the lease gone
\* or leaves it gone.
LEMMA RefusedQuiet ==
    ASSUME IInv, IInv', NEW k \in Call, NEW l \in Lease, call[k].lease = l,
           call[k].pc \in {"finished", "charging"}, Goto(k, "idle"), ChargeRefused(k),
           UNCHANGED <<clock, issued, granted, succeeded>>,
           ~Registered(l)', Registered(l) => Late(l)
    PROVE  Quiet(l)
<1>1. /\ \A j \in Call \ {k} : call'[j] = call[j]
      /\ call'[k].pc = "idle"
  BY DEF Goto, IInv, TypeOK
<1>2. k \notin Running(l) /\ k \notin Running(l)'
  BY <1>1 DEF Running
<1>3. Cardinality(Running(l)') = Cardinality(Running(l))
  BY <1>1, <1>2, CallCounts, Counted
<1>4. ran'[l] = ran[l] /\ uncharged[l] <= uncharged'[l]
  BY DEF ChargeRefused, Ran, IInv, TypeOK
<1>5. /\ Cardinality(Running(l)) \in Nat /\ granted[l] \in Nat
      /\ ran[l] \in Nat /\ uncharged[l] \in Nat /\ uncharged'[l] \in Nat
  BY Counted DEF IInv, TypeOK
<1>6. Begun(l)' <= Begun(l)
  BY <1>3, <1>4, <1>5 DEF Begun
<1>7. Late(l)' <=> Late(l)
  BY DEF Late
<1> QED
  BY <1>5, <1>6, <1>7 DEF Quiet

\* The first critical section of a charge.
LEMMA CheckQuiet ==
    ASSUME IInv, IInv', NEW k \in Call, ConsumeCheck(k), NEW l \in Lease
    PROVE  Quiet(l)
<1>1. /\ \A j \in Call \ {k} : call'[j] = call[j]
      /\ call[k].pc = "finished" /\ call'[k].lease = call[k].lease
      /\ UNCHANGED <<clock, issued, granted, succeeded>>
  BY DEF ConsumeCheck, Goto, IInv, TypeOK
<1>2. CASE call[k].lease # l
  <2>1. /\ ran'[l] = ran[l] /\ uncharged'[l] = uncharged[l]
        /\ registry'[l] = registry[l]
    BY <1>2 DEF ConsumeCheck, ChargeRefused, Ran, DropIfExpired, IInv, TypeOK
  <2>2. k \notin Under(l) /\ k \notin Under(l)'
    BY <1>1, <1>2 DEF Under
  <2> QED
    BY <1>1, <2>1, <2>2, ElsewhereQuiet
<1>3. CASE call[k].lease = l /\ Ready(l, call[k].action)
  <2>1. call'[k].pc = "charging" /\ UNCHANGED <<registry, ran, uncharged>>
    BY <1>3 DEF ConsumeCheck, Goto, IInv, TypeOK
  <2>2. /\ k \notin Running(l) /\ k \notin Running(l)' /\ k \in Under(l) /\ k \in Under(l)'
    BY <1>1, <1>3, <2>1 DEF Running, Under
  <2>3. /\ Cardinality(Running(l)') = Cardinality(Running(l))
        /\ Cardinality(Under(l)') = Cardinality(Under(l))
    BY <1>1, <2>2, CallCounts, Counted
  <2>4. Begun(l)' = Begun(l)
    BY <2>1, <2>3 DEF Begun
  <2>5. Begun(l) \in Int /\ Cardinality(Under(l)) \in Nat /\ granted[l] \in Nat
    BY Numbers, Counted
  <2>6. (Registered(l)' <=> Registered(l)) /\ (Late(l)' <=> Late(l))
    BY <1>1, <2>1 DEF Registered, Late
  <2> QED
    BY <1>1, <2>3, <2>4, <2>5, <2>6 DEF Quiet
<1>4. CASE call[k].lease = l /\ ~Ready(l, call[k].action)
  <2>1. Goto(k, "idle") /\ DropIfExpired(l, call[k].action) /\ ChargeRefused(k)
    BY <1>4 DEF ConsumeCheck
  <2>2. Registered(l) => Expired(l) /\ registry[l].action = call[k].action /\ Late(l)
    <3> SUFFICES ASSUME Registered(l)
                 PROVE  Expired(l) /\ registry[l].action = call[k].action /\ Late(l)
      OBVIOUS
    <3>1. issued[l] # Absent /\ issued[l].action = call[k].action
      BY <1>1, <1>4 DEF IInv, RunsWhatWasApproved
    <3>2. registry[l].action = issued[l].action /\ registry[l].expires = issued[l].expires
      BY DEF IInv, EntryAsIssued
    <3>3. registry[l].executions < registry[l].max
      BY DEF IInv, NeverExhaustedInMap
    <3> QED
      BY <1>4, <3>1, <3>2, <3>3 DEF Ready, Expired, Late
  <2>3. ~Registered(l)'
    BY <2>1, <2>2 DEF DropIfExpired, Registered, IInv, TypeOK
  <2> QED
    BY <1>1, <1>4, <2>1, <2>2, <2>3, RefusedQuiet
<1> QED
  BY <1>2, <1>3, <1>4

\* Every step keeps the bound.
LEMMA NextReach == IInv /\ IInv' /\ Reach /\ [Next]_vars => Reach'
<1> SUFFICES ASSUME IInv, IInv', Reach, [Next]_vars, NEW l \in Lease
             PROVE  ReachAt(l)'
  BY DEF Reach
<1>1. ReachAt(l)
  BY DEF Reach
<1>2. ASSUME NEW m \in Lease, NEW t \in Terms, Issue(m, t)
      PROVE  Quiet(l)
  <2>1. /\ UNCHANGED <<call, ran, uncharged, succeeded, granted, registry, clock>>
        /\ issued'[l] # issued[l] => issued'[l] = t /\ t.expires > clock
    BY <1>2 DEF Issue, IInv, TypeOK
  <2>2. Late(l) => Late(l)'
    BY <1>2, <2>1 DEF Late, Issue, IInv, TypeOK
  <2>3. (Registered(l)' <=> Registered(l)) /\ granted[l] <= granted'[l]
    BY <2>1, Numbers DEF Registered
  <2>4. Registered(l) => issued[l] # Absent
    BY DEF IInv, EntryAsIssued
  <2> QED
    BY <2>1, <2>2, <2>3, StillQuiet
<1>3. ASSUME NEW m \in Lease, Register(m)
      PROVE  Quiet(l)
  <2>1. /\ UNCHANGED <<call, ran, uncharged, succeeded, issued, clock>>
        /\ m # l => registry'[l] = registry[l] /\ granted'[l] = granted[l]
        /\ m = l => granted'[l] = granted[l] + issued[l].max /\ ~Late(l)
    BY <1>3 DEF Register, Late, IInv, TypeOK, Terms, Time
  <2>2. m = l => Registered(l)'
    BY <1>3, IssuedTyped DEF Register, Registered, IInv, TypeOK
  <2>3. granted[l] <= granted'[l]
    BY <1>3, <2>1, IssuedTyped, Numbers DEF Register, IInv
  <2>4. Late(l)' <=> Late(l)
    BY <2>1 DEF Late
  <2>5. Registered(l)' => Registered(l) \/ (~Registered(l) /\ ~Late(l))
    BY <2>1 DEF Registered
  <2>6. ~Registered(l)' /\ ~Late(l)' => ~Registered(l) /\ ~Late(l)
    BY <2>1, <2>2, <2>4 DEF Registered
  <2> QED
    BY <2>1, <2>3, <2>5, <2>6, StillQuiet
<1>4. ASSUME NEW k \in Call, NEW m \in Lease \cup {NoLease}, NEW a \in Action,
             Begin(k, m, a), m # l
      PROVE  Quiet(l)
  <2>1. /\ \A j \in Call \ {k} : call'[j] = call[j]
        /\ call[k].pc = "idle" /\ call'[k].lease = m
        /\ UNCHANGED <<clock, issued, registry, granted, ran, uncharged, succeeded>>
    BY <1>4 DEF Begin, IInv, TypeOK
  <2>2. k \notin Under(l) /\ k \notin Under(l)'
    BY <1>4, <2>1 DEF Under
  <2> QED
    BY <2>1, <2>2, ElsewhereQuiet
<1>5. ASSUME NEW k \in Call, NEW m \in Lease, NEW a \in Action, Refuse(k, m, a)
      PROVE  Quiet(l)
  <2>1. /\ UNCHANGED <<call, ran, uncharged, succeeded, granted, issued, clock>>
        /\ registry'[l] = registry[l] \/ (registry'[l] = Absent /\ Registered(l) /\ Expired(l))
    BY <1>5 DEF Refuse, DropIfExpired, IInv, TypeOK
  <2>2. Registered(l) /\ Expired(l) => Late(l)
    BY DEF IInv, EntryAsIssued, Expired, Late
  <2>3. (Late(l)' <=> Late(l)) /\ granted[l] <= granted'[l]
    BY <2>1, Numbers DEF Late
  <2>4. /\ Registered(l)' => Registered(l)
        /\ ~Registered(l)' /\ ~Late(l)' => ~Registered(l) /\ ~Late(l)
    BY <2>1, <2>2, <2>3 DEF Registered
  <2> QED
    BY <2>1, <2>3, <2>4, StillQuiet
<1>6. ASSUME NEW k \in Call, ConsumeCharge(k), ~(call[k].lease = l /\ Registered(l))
      PROVE  Quiet(l)
  <2>1. /\ \A j \in Call \ {k} : call'[j] = call[j]
        /\ call[k].pc = "charging" /\ call'[k].lease = call[k].lease /\ Goto(k, "idle")
        /\ UNCHANGED <<clock, issued, granted>>
    BY <1>6 DEF ConsumeCharge, Goto, IInv, TypeOK
  <2>2. CASE call[k].lease # l
    <3>1. /\ ran'[l] = ran[l] /\ uncharged'[l] = uncharged[l]
          /\ registry'[l] = registry[l] /\ succeeded'[l] = succeeded[l]
      BY <1>6, <2>2 DEF ConsumeCharge, ChargeRefused, Ran, IInv, TypeOK
    <3>2. k \notin Under(l) /\ k \notin Under(l)'
      BY <2>1, <2>2 DEF Under
    <3> QED
      BY <2>1, <3>1, <3>2, ElsewhereQuiet
  <2>3. CASE call[k].lease = l
    <3>1. ~Registered(l) /\ UNCHANGED <<registry, succeeded>> /\ ChargeRefused(k)
      BY <1>6, <2>3 DEF ConsumeCharge
    <3>2. ~Registered(l)'
      BY <3>1 DEF Registered
    <3> QED
      BY <2>1, <2>3, <3>1, <3>2, RefusedQuiet
  <2> QED
    BY <2>2, <2>3
<1>7. ASSUME Tick PROVE Quiet(l)
  <2>1. /\ UNCHANGED <<call, ran, uncharged, succeeded, granted, issued, registry>>
        /\ clock' = clock + 1 /\ clock \in Nat
    BY <1>7, LeaseAssumption DEF Tick, IInv, TypeOK, Time
  <2>2. issued[l] # Absent => issued[l].expires \in Nat
    BY LeaseAssumption DEF IInv, TypeOK, Terms, Time
  <2>3. Late(l) => Late(l)'
    BY <2>1, <2>2 DEF Late
  <2>4. (Registered(l)' <=> Registered(l)) /\ granted[l] <= granted'[l]
    BY <2>1, Numbers DEF Registered
  <2> QED
    BY <2>1, <2>3, <2>4, StillQuiet
<1>8. ASSUME UNCHANGED vars PROVE Quiet(l)
  <2>1. /\ UNCHANGED <<call, ran, uncharged, succeeded>>
        /\ (Registered(l)' <=> Registered(l)) /\ (Late(l)' <=> Late(l))
        /\ granted[l] <= granted'[l]
    BY <1>8, Numbers DEF vars, Registered, Late
  <2> QED
    BY <2>1, StillQuiet
<1>9. ASSUME Quiet(l) PROVE ReachAt(l)'
  BY <1>1, <1>9, QuietKeeps
<1>10. ASSUME NEW k \in Call, NEW a \in Action, Begin(k, l, a)
       PROVE  ReachAt(l)'
  BY <1>1, <1>10, BeginReach
<1>11. ASSUME NEW k \in Call, ConsumeCharge(k), call[k].lease = l, Registered(l)
       PROVE  ReachAt(l)'
  BY <1>1, <1>11, ChargeReach
<1>12. ASSUME NEW k \in Call, Outcome(k) \/ ConsumeCheck(k)
       PROVE  Quiet(l)
  BY <1>12, OutcomeQuiet, CheckQuiet
<1> QED
  BY <1>2, <1>3, <1>4, <1>5, <1>6, <1>7, <1>8, <1>9, <1>10, <1>11, <1>12 DEF Next

\* Nothing has run at the start.
LEMMA InitReach == Init => Reach
<1> SUFFICES ASSUME Init, NEW l \in Lease PROVE ReachAt(l)
  BY DEF Reach
<1>1. Running(l) = {}
  BY DEF Init, Running
<1>2. Begun(l) = 0
  BY <1>1, FS_EmptySet DEF Begun, Init
<1>3. /\ Racing \in Nat /\ Cardinality(Under(l)) \in Nat
      /\ granted[l] = 0 /\ succeeded[l] = 0
  BY Counted DEF Init
<1>4. Racing * 0 = 0
  BY <1>3
<1> QED
  BY <1>2, <1>3, <1>4 DEF ReachAt

\* However many calls race on a lease, and whenever it is registered again, an
\* execution lets at most one run per call onto the host that is not accounted
\* for as timed out, failed or late.
THEOREM RunsAreBounded == Spec => []RunsPerExecution
<1>1. IInv /\ Reach => RunsPerExecution
  <2> SUFFICES ASSUME IInv, Reach, NEW l \in Lease
               PROVE  ran[l] <= Cardinality(Call) * granted[l] + uncharged[l]
    BY DEF RunsPerExecution
  <2>1. Begun(l) <= Racing * granted[l]
    BY DEF Reach, ReachAt
  <2>2. /\ Cardinality(Running(l)) \in Nat /\ Racing \in Nat
        /\ ran[l] \in Nat /\ uncharged[l] \in Nat /\ granted[l] \in Nat
    BY Counted DEF IInv, TypeOK
  <2>3. Racing * granted[l] \in Nat
    BY <2>2, Times
  <2> DEFINE p == Racing * granted[l]
  <2>4. /\ p \in Nat /\ ran[l] + Cardinality(Running(l)) - uncharged[l] <= p
    BY <2>1, <2>3 DEF Begun
  <2> HIDE DEF p
  <2>5. ran[l] <= p + uncharged[l]
    BY <2>2, <2>4
  <2> QED
    BY <2>5 DEF p, Racing
<1> QED
  BY InitIInv, NextIInv, InitReach, NextReach, <1>1, PTL DEF Spec
============================================================================
