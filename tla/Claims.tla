------------------------------- MODULE Claims -------------------------------
(***************************************************************************)
(* Distributed execution ownership: the claim row of ONE logical execution *)
(* id, and the ClaimGuards that tasks of several replicas hold on it.      *)
(*                                                                         *)
(* Source: crates/core/src/ownership.rs (registry, guard, permit, memory   *)
(* store) and crates/core/src/db/claims.rs (the authoritative Postgres     *)
(* store).  Rows of different execution ids never read one another, so one *)
(* row is the whole interaction.                                           *)
(*                                                                         *)
(* Time is kept as what is left of a period: `lease' stands for            *)
(* lease_until - now (0 = lapsed) and `hold' for updated_at + grace - now, *)
(* kept for a handed-off row only, the one row whose grace is ever read.   *)
(***************************************************************************)
EXTENDS Naturals

CONSTANTS
    Tasks,         \* concurrent attempts at the execution, on any replica
    Replicas,      \* owner ids
    ReplicaOf,     \* the replica a task runs on
    NoOwner,       \* owner of the absent row
    Lease,         \* [ha].claim_lease_secs, in ticks
    Grace,         \* [ha].claim_handoff_grace_secs, in ticks
    MAX_RENEWALS,  \* renewal budget of one guard
    MaxEpoch       \* bound: generations explored

ASSUME ClaimsAssumption ==
    /\ ReplicaOf \in [Tasks -> Replicas]
    /\ NoOwner \notin Replicas
    /\ Lease \in Nat \ {0}
    /\ Grace \in Nat \ {0}
    /\ MAX_RENEWALS \in Nat
    /\ MaxEpoch \in Nat

VARIABLES
    row,    \* the execution_claims row
    guard,  \* guard[t]: the ClaimGuard task t holds, and where t stands
    wire    \* store requests whose caller timed out: may still be executed

vars == <<row, guard, wire>>

Modes    == {"released", "handed_off"}
Statuses == {"absent", "claimed"} \cup Modes
Stages   == {"idle", "owned", "cleared", "lost"}

Rows     == [status : Statuses, owner : Replicas \cup {NoOwner},
             epoch : Nat, lease : 0..Lease, hold : 0..Grace]
Guards   == [stage : Stages, epoch : Nat, renewals : 0..MAX_RENEWALS]
Requests == [op : {"renew"} \cup Modes, owner : Replicas, epoch : Nat]

NoRow   == [status |-> "absent", owner |-> NoOwner, epoch |-> 0,
            lease |-> 0, hold |-> 0]
NoGuard == [stage |-> "idle", epoch |-> 0, renewals |-> 0]

-----------------------------------------------------------------------------
(* The store: each operator is one atomic statement on the row.            *)

\* Mutant: the grace of a handed-off row is not tested.
ReacquirableNoGrace(r) ==
    \/ r.status \in {"absent", "released", "handed_off"}
    \/ r.status = "claimed" /\ r.lease = 0

\* The WHERE clause of the claim upsert.
Reacquirable(r) ==
    \/ r.status \in {"absent", "released"}
    \/ r.status = "claimed" /\ r.lease = 0
    \/ r.status = "handed_off" /\ r.hold = 0

\* Mutant: the upsert keeps the generation.
ClaimedSameEpoch(r, owner) ==
    [status |-> "claimed", owner |-> owner, epoch |-> r.epoch,
     lease |-> Lease, hold |-> 0]

\* The row a successful claim writes: a new generation, a full lease.
Claimed(r, owner) ==
    [status |-> "claimed", owner |-> owner, epoch |-> r.epoch + 1,
     lease |-> Lease, hold |-> 0]

\* Mutant: the compare-and-set tests the owner but not the generation.
OwnsAnyEpoch(r, owner, epoch) == r.owner = owner /\ r.status = "claimed"

\* The compare-and-set of verify, renew and release.
Owns(r, owner, epoch) ==
    r.owner = owner /\ r.epoch = epoch /\ r.status = "claimed"

Verified(r, owner, epoch) == Owns(r, owner, epoch) /\ r.lease > 0

\* Mutant: the renewal does not test that the lease still runs.
RenewedAfterLapse(r, owner, epoch) ==
    IF Owns(r, owner, epoch) THEN [r EXCEPT !.lease = Lease] ELSE r

\* A renewal extends a running lease by the granted span, and nothing else.
Renewed(r, owner, epoch) ==
    IF Verified(r, owner, epoch) THEN [r EXCEPT !.lease = Lease] ELSE r

\* release(mode) has no lease test: a lapsed claim nobody took over yet may
\* still be released or handed off by its owner.
Terminal(r, owner, epoch, mode) ==
    IF Owns(r, owner, epoch)
    THEN [r EXCEPT !.status = mode,
                   !.hold   = IF mode = "handed_off" THEN Grace ELSE 0]
    ELSE r

\* A request as the store executes it.
Executed(r, m) ==
    IF m.op = "renew" THEN Renewed(r, m.owner, m.epoch)
                      ELSE Terminal(r, m.owner, m.epoch, m.op)

-----------------------------------------------------------------------------
Init ==
    /\ row = NoRow
    /\ guard = [t \in Tasks |-> NoGuard]
    /\ wire = {}

\* Store time passes.
Tick ==
    /\ row' = [row EXCEPT !.lease = IF @ > 0 THEN @ - 1 ELSE 0,
                          !.hold  = IF @ > 0 THEN @ - 1 ELSE 0]
    /\ UNCHANGED <<guard, wire>>

\* OwnershipRegistry::claim answered Acquired: the task gets a fresh guard.
Acquire(t) ==
    /\ guard[t].stage = "idle"
    /\ Reacquirable(row)
    /\ row.epoch < MaxEpoch
    /\ row' = Claimed(row, ReplicaOf[t])
    /\ guard' = [guard EXCEPT ![t] = [stage |-> "owned", epoch |-> row.epoch + 1,
                                      renewals |-> 0]]
    /\ UNCHANGED wire

\* The upsert committed but its answer was lost: the registry returns Err and
\* the task fails closed, so the row is claimed and no guard exists.
AcquireReplyLost(t) ==
    /\ guard[t].stage = "idle"
    /\ Reacquirable(row)
    /\ row.epoch < MaxEpoch
    /\ row' = Claimed(row, ReplicaOf[t])
    /\ UNCHANGED <<guard, wire>>

\* ClaimGuard::fence answered Ok: the money-moving continuation may run.
FenceOk(t) ==
    /\ guard[t].stage \in {"owned", "cleared"}
    /\ Verified(row, ReplicaOf[t], guard[t].epoch)
    /\ guard' = [guard EXCEPT ![t].stage = "cleared"]
    /\ UNCHANGED <<row, wire>>

\* ClaimGuard::fence answered Err: verify was false, or the store did not
\* answer (at any time).  Both block the continuation.
FenceLost(t) ==
    /\ guard[t].stage \in {"owned", "cleared"}
    /\ guard' = [guard EXCEPT ![t].stage = "lost"]
    /\ UNCHANGED <<row, wire>>

\* Where a request sent to the store ends up: executed now, never executed,
\* or executed after its caller has given up on it.
Send(m) ==
    \/ row' = Executed(row, m) /\ UNCHANGED wire
    \/ UNCHANGED <<row, wire>>
    \/ UNCHANGED row /\ wire' = wire \cup {m}

\* Mutant: renewals are not counted.
RenewUncounted(t) ==
    /\ guard[t].stage \in {"owned", "cleared"}
    /\ UNCHANGED guard
    /\ Send([op |-> "renew", owner |-> ReplicaOf[t], epoch |-> guard[t].epoch])

\* ClaimGuard::renew within its budget; the budget is spent before the call.
Renew(t) ==
    /\ guard[t].stage \in {"owned", "cleared"}
    /\ guard[t].renewals < MAX_RENEWALS
    /\ guard' = [guard EXCEPT ![t].renewals = @ + 1]
    /\ Send([op |-> "renew", owner |-> ReplicaOf[t], epoch |-> guard[t].epoch])

\* ClaimGuard::transition (complete, release, hand_off): done is set first,
\* so the guard is spent whatever the store answers.
Finish(t, mode) ==
    /\ guard[t].stage # "idle"
    /\ guard' = [guard EXCEPT ![t] = NoGuard]
    /\ Send([op |-> mode, owner |-> ReplicaOf[t], epoch |-> guard[t].epoch])

\* A guard dropped without a terminal transition (early return, panic).
Drop(t) ==
    /\ guard[t].stage # "idle"
    /\ guard' = [guard EXCEPT ![t] = NoGuard]
    /\ UNCHANGED <<row, wire>>

\* A replica dies with all its guards; it may come back under the same
\* configured [ha].replica_id.
Crash(o) ==
    /\ \E t \in Tasks : ReplicaOf[t] = o /\ guard[t].stage # "idle"
    /\ guard' = [t \in Tasks |-> IF ReplicaOf[t] = o THEN NoGuard ELSE guard[t]]
    /\ UNCHANGED <<row, wire>>

\* A request whose caller timed out reaches the store after all.
LateRequest(m) ==
    /\ m \in wire
    /\ row' = Executed(row, m)
    /\ wire' = wire \ {m}
    /\ UNCHANGED guard

Next ==
    \/ Tick
    \/ \E t \in Tasks : \/ Acquire(t) \/ AcquireReplyLost(t)
                        \/ FenceOk(t) \/ FenceLost(t) \/ Renew(t) \/ Drop(t)
    \/ \E t \in Tasks, mode \in Modes : Finish(t, mode)
    \/ \E o \in Replicas : Crash(o)
    \/ \E m \in wire : LateRequest(m)

Spec == Init /\ [][Next]_vars

\* Only time is fair: tasks may hang, crash or never be scheduled.
FairSpec == Spec /\ WF_vars(Tick)

-----------------------------------------------------------------------------
(* What the stores promise: a lease that grants each token once.           *)

Live == row.status = "claimed" /\ row.lease > 0

Abstract == INSTANCE FencingLease WITH token <- row.epoch, active <- Live

\* Every behaviour of the store and its guards is one of a fencing-token
\* lease: a generation is granted only when the previous one is dead, and a
\* dead one is never revived.
ImplementsFencingLease == Abstract!Spec

-----------------------------------------------------------------------------
(* Properties.                                                             *)

\* Types; and renewals stay within the budget, generations within the bound.
TypeOK ==
    /\ row \in Rows
    /\ guard \in [Tasks -> Guards]
    /\ wire \subseteq Requests

\* Task t would pass the fence at this instant.
Holds(t) == /\ guard[t].stage \in {"owned", "cleared"}
            /\ Verified(row, ReplicaOf[t], guard[t].epoch)

\* AT MOST ONE ACTIVE OWNER: no two tasks, not even two of one replica, pass
\* ClaimGuard::fence at the same time.
SingleOwner == \A t, u \in Tasks : Holds(t) /\ Holds(u) => t = u

\* The guards in hand carry distinct generations, none newer than the row's:
\* what makes SingleOwner inductive.
TokensUnique ==
    \A t \in Tasks : guard[t].stage # "idle" =>
        /\ guard[t].epoch > 0
        /\ guard[t].epoch <= row.epoch
        /\ \A u \in Tasks \ {t} :
              guard[u].stage # "idle" => guard[u].epoch # guard[t].epoch

\* Once fenced, fenced for ever: a guard that has failed verify (lapsed, taken
\* over, released) never passes it again, whatever renewals arrive late.
FencedForever ==
    [][\A t \in Tasks :
          (guard[t].stage # "idle" /\ guard'[t].epoch = guard[t].epoch /\ ~Holds(t))
             => ~Holds(t)']_vars

\* A hand-off to reconciliation is final for its generation: no late release
\* or renewal of the old owner reopens it, and a new generation starts only
\* when the grace has passed.
HandoffSticks ==
    [][row.status = "handed_off" =>
          \/ row'.epoch = row.epoch /\ row'.status = "handed_off"
          \/ row'.epoch > row.epoch /\ row.hold = 0]_vars

\* Hung-worker protection: no generation keeps a live lease for ever, even
\* when its owner does nothing but renew (MAX_RENEWALS).
HungOwnerLosesLease ==
    \A e \in 1..MaxEpoch :
        (row.epoch = e /\ Live) ~> ~(row.epoch = e /\ Live)

=============================================================================
