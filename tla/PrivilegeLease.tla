-------------------------- MODULE PrivilegeLease --------------------------
(***************************************************************************)
(* The privilege lease registry of the desktop back end                    *)
(* (src-tauri/src/ai_engineer/leases.rs) and the command that spends a     *)
(* lease, ai_terminal_exec (src-tauri/src/ai_engineer/terminal.rs).        *)
(*                                                                         *)
(* The agent sidecar issues a lease when the user approves one exact       *)
(* action; the webview registers it and then calls ai_terminal_exec with   *)
(* its id.  The command tests the lease under the registry's mutex, gives  *)
(* the mutex up, runs the command on the host for as long as it takes, and *)
(* only then tests and charges the lease, in two more critical sections.   *)
(* Calls run on the thread pool, so every critical section is a step of    *)
(* its own and the steps of several calls interleave.                      *)
(*                                                                         *)
(* A session id and a command are abstracted to one `action': the registry *)
(* only ever compares the two for equality.                                *)
(***************************************************************************)
EXTENDS Integers, FiniteSets

CONSTANTS
    Lease,       \* lease ids, unique over the life of the program
    Action,      \* exact <<session, command>> pairs
    Call,        \* concurrent invocations of ai_terminal_exec
    NoLease,     \* the lease_id of a call that presents none
    Absent,      \* registry entry of an id that is not in the map
    MaxTime,     \* bound: last instant of the clock
    MaxExec,     \* bound: largest max_executions a lease is issued with
    MaxGrant,    \* bound: executions granted to one lease by registrations
    MaxRun       \* bound: runs of one lease that reach the host

ASSUME LeaseAssumption ==
    /\ NoLease \notin Lease
    /\ IsFiniteSet(Call)
    /\ MaxTime \in Nat /\ MaxExec \in Nat \ {0}
    /\ MaxGrant \in Nat /\ MaxRun \in Nat

VARIABLES
    clock,       \* now_epoch_s
    issued,      \* what the sidecar issued under each id
    registry,    \* the map behind the mutex
    call,        \* each invocation: where it is and what it was asked
    granted,     \* history: executions the registrations of a lease allow
    ran,         \* history: runs of the lease's action that reached the host
    uncharged,   \* history: those that timed out, failed or came to the
                 \* charge after the lease had expired
    succeeded    \* history: results returned as a success under the lease

vars == <<clock, issued, registry, call, granted, ran, uncharged, succeeded>>

Time  == 0..MaxTime
Terms == [action : Action, expires : Time, max : 1..MaxExec]
Entry == [action : Action, expires : Time, max : 1..MaxExec,
          executions : 0..MaxExec]
\* An entry that is in the map is never absent, whatever Absent is.
ASSUME AbsentAssumption == Absent \notin Entry /\ Absent \notin Terms

Phase == {"idle", "running", "finished", "charging"}

TypeOK ==
    /\ clock \in Time
    /\ issued \in [Lease -> Terms \cup {Absent}]
    /\ registry \in [Lease -> Entry \cup {Absent}]
    /\ call \in [Call -> [pc : Phase, lease : Lease \cup {NoLease},
                          action : Action]]
    /\ granted \in [Lease -> Nat]
    /\ ran \in [Lease -> Nat]
    /\ uncharged \in [Lease -> Nat]
    /\ succeeded \in [Lease -> Nat]

Init ==
    /\ clock = 0
    /\ issued = [l \in Lease |-> Absent]
    /\ registry = [l \in Lease |-> Absent]
    /\ call \in [Call -> [pc : {"idle"}, lease : {NoLease}, action : Action]]
    /\ granted = [l \in Lease |-> 0]
    /\ ran = [l \in Lease |-> 0]
    /\ uncharged = [l \in Lease |-> 0]
    /\ succeeded = [l \in Lease |-> 0]

---------------------------------------------------------------------------
(* The registry. *)

Registered(l) == registry[l] # Absent

Expired(l) == registry[l].expires <= clock

\* Mutant of Ready: the gate forgets to compare the action.
ReadyAnyAction(l, a) ==
    /\ Registered(l)
    /\ ~Expired(l)
    /\ registry[l].executions < registry[l].max

\* assert_lease_ready: exact action, not expired, executions left.
Ready(l, a) ==
    /\ Registered(l)
    /\ registry[l].action = a
    /\ ~Expired(l)
    /\ registry[l].executions < registry[l].max

\* assert_lease_ready drops an entry it finds expired, after the session
\* and the command have been compared.
DropIfExpired(l, a) ==
    registry' = IF Registered(l) /\ registry[l].action = a /\ Expired(l)
                THEN [registry EXCEPT ![l] = Absent]
                ELSE registry

\* finish_approval_wait / _try_session_approval: a fresh id, the exact
\* action that was approved, an expiry from now.
Issue(l, t) ==
    /\ issued[l] = Absent
    /\ t.expires > clock
    /\ issued' = [issued EXCEPT ![l] = t]
    /\ UNCHANGED <<clock, registry, call, granted, ran, uncharged, succeeded>>

\* What the sidecar issued under l, as a fresh entry of the map.
Fresh(l) == [action     |-> issued[l].action,
             expires    |-> issued[l].expires,
             max        |-> issued[l].max,
             executions |-> 0]

\* register_privilege_lease: refused once expired; otherwise the entry is
\* inserted over whatever the map holds, with its executions at zero.
Register(l) ==
    /\ issued[l] # Absent
    /\ issued[l].expires > clock
    /\ granted[l] + issued[l].max <= MaxGrant
    /\ registry' = [registry EXCEPT ![l] = Fresh(l)]
    /\ granted' = [granted EXCEPT ![l] = @ + issued[l].max]
    /\ UNCHANGED <<clock, issued, call, ran, uncharged, succeeded>>

---------------------------------------------------------------------------
(* One invocation of ai_terminal_exec. *)

Goto(k, pc) == call' = [call EXCEPT ![k].pc = pc]

\* The gate: a call that presents a lease passes only if the lease is ready.
\* A call the sidecar did not mark requires_lease may present none.
Begin(k, l, a) ==
    /\ call[k].pc = "idle"
    /\ l # NoLease => /\ ran[l] < MaxRun
                      /\ Ready(l, a)
    /\ call' = [call EXCEPT ![k] = [pc |-> "running", lease |-> l, action |-> a]]
    /\ UNCHANGED <<clock, issued, registry, granted, ran, uncharged, succeeded>>

\* The gate refuses; what it leaves behind is the removal of an expired entry.
Refuse(k, l, a) ==
    /\ call[k].pc = "idle"
    /\ ~Ready(l, a)
    /\ DropIfExpired(l, a)
    /\ UNCHANGED <<clock, issued, call, granted, ran, uncharged, succeeded>>

\* The history of a run that ends: n runs reached the host, m uncharged.
Ran(k, n, m) ==
    LET l == call[k].lease IN
    IF l \in Lease
    THEN /\ ran' = [ran EXCEPT ![l] = @ + n]
         /\ uncharged' = [uncharged EXCEPT ![l] = @ + m]
    ELSE UNCHANGED <<ran, uncharged>>

\* The command ended within its limits and asked for no password.
Finish(k) ==
    /\ call[k].pc = "running"
    /\ Goto(k, IF call[k].lease \in Lease THEN "finished" ELSE "idle")
    /\ Ran(k, 1, 0)
    /\ UNCHANGED <<clock, issued, registry, granted, succeeded>>

\* exec_command_capture_with_limits gave up waiting: the answer says
\* timed_out and the lease is not charged.
TimeOut(k) ==
    /\ call[k].pc = "running"
    /\ Goto(k, "idle")
    /\ Ran(k, 1, 1)
    /\ UNCHANGED <<clock, issued, registry, granted, succeeded>>

\* The output asks for a password, the session is gone, or the channel broke:
\* an error goes back and the lease is not charged.  After a broken channel
\* nobody knows whether the command ran.
Fail(k) ==
    /\ call[k].pc = "running"
    /\ Goto(k, "idle")
    /\ \E n \in {0, 1} : Ran(k, n, n)
    /\ UNCHANGED <<clock, issued, registry, granted, succeeded>>

\* The history of a charge that is refused: too late, or another call was
\* faster.
ChargeRefused(k) == Ran(k, 0, IF issued[call[k].lease].expires <= clock THEN 1 ELSE 0)

\* Mutant of ConsumeCheck: a lease that is no longer ready is waited for.
ConsumeCheckWaits(k) ==
    /\ call[k].pc = "finished"
    /\ Ready(call[k].lease, call[k].action)
    /\ Goto(k, "charging")
    /\ UNCHANGED <<clock, issued, registry, granted, ran, uncharged, succeeded>>

\* consume_lease, first critical section.  When the lease is no longer ready
\* the caller gets an error although the command ran.
ConsumeCheck(k) ==
    /\ call[k].pc = "finished"
    /\ IF Ready(call[k].lease, call[k].action)
       THEN /\ Goto(k, "charging")
            /\ UNCHANGED <<registry, ran, uncharged>>
       ELSE /\ Goto(k, "idle")
            /\ DropIfExpired(call[k].lease, call[k].action)
            /\ ChargeRefused(k)
    /\ UNCHANGED <<clock, issued, granted, succeeded>>

\* Mutants of Charged: an exhausted entry stays, for one charge too long or
\* for ever; the execution is counted in a copy of the entry.
ChargedACopy(e) == e
ChargedOffByOne(e) ==
    IF e.executions >= e.max THEN Absent ELSE [e EXCEPT !.executions = @ + 1]
ChargedNeverRemoved(e) == [e EXCEPT !.executions = @ + 1]

\* What the second critical section leaves in the map: one execution more,
\* and nothing once they are used up.
Charged(e) ==
    IF e.executions + 1 >= e.max THEN Absent
    ELSE [e EXCEPT !.executions = @ + 1]

\* Mutant of ConsumeCharge: an id no longer in the map is let through.
ConsumeChargeTolerant(k) ==
    LET l == call[k].lease IN
    /\ call[k].pc = "charging"
    /\ Goto(k, "idle")
    /\ registry' = [registry EXCEPT ![l] = IF Registered(l) THEN Charged(@) ELSE @]
    /\ succeeded' = [succeeded EXCEPT ![l] = @ + 1]
    /\ UNCHANGED <<clock, issued, granted, ran, uncharged>>

\* consume_lease, second critical section.  It tests nothing again but that
\* the id is still in the map.
ConsumeCharge(k) ==
    LET l == call[k].lease IN
    /\ call[k].pc = "charging"
    /\ Goto(k, "idle")
    /\ IF Registered(l)
       THEN /\ registry' = [registry EXCEPT ![l] = Charged(@)]
            /\ succeeded' = [succeeded EXCEPT ![l] = @ + 1]
            /\ UNCHANGED <<ran, uncharged>>
       ELSE /\ ChargeRefused(k)
            /\ UNCHANGED <<registry, succeeded>>
    /\ UNCHANGED <<clock, issued, granted>>

Tick ==
    /\ clock < MaxTime
    /\ clock' = clock + 1
    /\ UNCHANGED <<issued, registry, call, granted, ran, uncharged, succeeded>>

Outcome(k) == Finish(k) \/ TimeOut(k) \/ Fail(k)

Next ==
    \/ \E l \in Lease, t \in Terms : Issue(l, t)
    \/ \E l \in Lease : Register(l)
    \/ \E k \in Call, l \in Lease \cup {NoLease}, a \in Action : Begin(k, l, a)
    \/ \E k \in Call, l \in Lease, a \in Action : Refuse(k, l, a)
    \/ \E k \in Call : Outcome(k) \/ ConsumeCheck(k) \/ ConsumeCharge(k)
    \/ Tick

\* Every command has a total limit (ai_exec_limits), so a running call gets
\* some outcome; the critical sections are never held across an await.
Fairness ==
    \A k \in Call : /\ WF_vars(Outcome(k))
                    /\ WF_vars(ConsumeCheck(k))
                    /\ WF_vars(ConsumeCharge(k))

Spec == Init /\ [][Next]_vars /\ Fairness

---------------------------------------------------------------------------
(* Properties. *)

\* The webview never gets more successful results under a lease than its
\* registrations allow, however many calls race between the test before the
\* run and the charge after it.
SuccessWithinGrant == \A l \in Lease : succeeded[l] <= granted[l]

\* The accounting behind it: results already given plus executions still in
\* the map never exceed what was granted.
Budget ==
    \A l \in Lease :
        succeeded[l] + (IF Registered(l)
                        THEN registry[l].max - registry[l].executions ELSE 0)
            <= granted[l]

\* A lease that is in the map always has an execution left: the branch that
\* answers "privilege lease exhausted" is never taken, an exhausted lease is
\* an unknown one.
NeverExhaustedInMap ==
    \A l \in Lease : Registered(l) => registry[l].executions < registry[l].max

\* What runs on the host under a lease is the exact action the user approved
\* for that lease, also after the entry was dropped or registered again while
\* the command runs.
RunsWhatWasApproved ==
    \A k \in Call :
        call[k].pc # "idle" /\ call[k].lease \in Lease =>
            /\ issued[call[k].lease] # Absent
            /\ issued[call[k].lease].action = call[k].action

\* Every invocation returns to the webview.
EveryCallReturns == \A k \in Call : call[k].pc # "idle" ~> call[k].pc = "idle"

\* The gate comes before the run and the charge after it, so calls that race
\* may run a command more often than was granted; but an execution lets no more
\* than one run per racing call through, whatever is registered again in
\* between.  Runs that time out or fail, or that end when the lease has
\* expired, are not charged and come on top.
RunsPerExecution ==
    \A l \in Lease :
        ran[l] <= Cardinality(Call) * granted[l] + uncharged[l]
===========================================================================
