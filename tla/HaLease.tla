------------------------------- MODULE HaLease -------------------------------
(***************************************************************************)
(* Leases of cluster-singleton roles (crates/core/src/ha, crates/core/src/ *)
(* db/ha.rs, crates/server/src/ha.rs).                                     *)
(*                                                                         *)
(* Several workers compete for one role.  Each runs two tasks: the loop of *)
(* LeasedWorker, which acquires the lease, renews it, fences and runs the  *)
(* job, and the heartbeat loop, which re-verifies the lease and publishes  *)
(* whether the worker is ready.  They share HaRuntime's map of held leases *)
(* (`cache'), and the shutdown sequence releases what it finds there while *)
(* the loop may still be at work.                                          *)
(*                                                                         *)
(* Every store call is one step.  Time is the number of ticks the lease    *)
(* has left; `released' is folded into it, because release_lease sets      *)
(* expires_at to now and every reader of the flag also tests expires_at.   *)
(* The ticker's interval is not modelled: a worker may wake at any time,   *)
(* and a job may take any time, for ever included.                         *)
(***************************************************************************)
EXTENDS Naturals

CONSTANTS
    Workers,      \* worker ids (the replica_id of a process)
    Ttl,          \* lease_ttl
    RenewEvery,   \* renew_interval: a third of the TTL
    MaxGen,       \* bound on the generations granted
    MaxFaults     \* bound on failed store calls and on crashes

ASSUME TimesAssumption == Ttl \in Nat \ {0} /\ RenewEvery \in Nat \ {0}
ASSUME BoundsAssumption == MaxGen \in Nat /\ MaxFaults \in Nat

VARIABLES
    row,      \* the ha_leases row of the role; generation 0 = no row yet
    pc,       \* where the LeasedWorker loop of each worker stands
    guard,    \* generation of the loop's LeaseGuard, 0 = None
    cache,    \* generation in HaRuntime's inner.leases, 0 = no entry
    due,      \* ticks until renew_at
    state,    \* WorkerState of the registration
    ready,    \* the readiness verdict last published
    halt,     \* shutdown of the process: "no", "signalled", "drained"
    faults    \* failed calls and crashes so far

vars == <<row, pc, guard, cache, due, state, ready, halt, faults>>

Generations == 0..MaxGen

Rows == [holder : Workers, gen : Generations, left : 0..Ttl]

\* "off": no process.  "idle": waiting in select!.  "fence": about to verify.
\* "job": inside job().await.  "done": the loop has ended.
Places == {"off", "idle", "fence", "job", "done"}

\* The worker states the program enters; Running, Degraded and
\* RecoveryRequired have no caller, and Recovering is left before the loops
\* are spawned.
WorkerStates == {"Starting", "Ready", "LeaseLost", "Draining", "Stopped"}

\* A worker is still Starting here only if its registration failed: there is
\* then no registration whose state could change.
CanTransition(from, to) ==
    \/ from \in {"Ready", "LeaseLost"} /\ to = "Draining"
    \/ from = "Draining" /\ to = "Stopped"
    \/ from = "Ready" /\ to = "LeaseLost"

\* set_state: an illegal move is refused and changes nothing.
SetState(from, to) == IF CanTransition(from, to) THEN to ELSE from

Init ==
    /\ row \in {r \in Rows : r.gen = 0 /\ r.left = 0}
    /\ pc = [w \in Workers |-> "off"]
    /\ guard = [w \in Workers |-> 0]
    /\ cache = [w \in Workers |-> 0]
    /\ due = [w \in Workers |-> 0]
    /\ state = [w \in Workers |-> "Starting"]
    /\ ready = [w \in Workers |-> FALSE]
    /\ halt = [w \in Workers |-> "no"]
    /\ faults = 0

-----------------------------------------------------------------------------
(* The store.                                                              *)

\* verify_lease.
Owned(w, g) == row.holder = w /\ row.gen = g /\ row.left > 0

\* Mutant of Acquirable: the lease of a dead holder is never taken over.
AcquirableByHolder(w) == row.gen = 0 \/ row.holder = w

\* acquire_lease admits anybody once the lease has lapsed, and its holder at
\* any time: a worker that lost its guard, or restarted, takes a new one.
Acquirable(w) == row.left = 0 \/ row.holder = w

Acquired(w) == [holder |-> w, gen |-> row.gen + 1, left |-> Ttl]

\* Mutant of Renewable: the statement does not test expires_at.
RenewableLate(w, g) == row.holder = w /\ row.gen = g

\* The condition of renew_lease.
Renewable(w, g) == row.holder = w /\ row.gen = g /\ row.left > 0

Renewed(w, g) ==
    IF Renewable(w, g) THEN [holder |-> w, gen |-> g, left |-> Ttl] ELSE row

Released(w, g) ==
    IF row.holder = w /\ row.gen = g
    THEN [holder |-> w, gen |-> g, left |-> 0] ELSE row

\* A call fails: the caller sees an error, whether or not it was executed.
Fault == faults < MaxFaults /\ faults' = faults + 1

-----------------------------------------------------------------------------
(* LeasedWorker: one turn of the loop.                                     *)

\* Step 1 of a turn: no guard yet.  A heartbeat that was told that an earlier
\* entry is lost removes whatever entry it then finds: also the new one.
Acquire(w) ==
    /\ pc[w] = "idle" /\ guard[w] = 0
    /\ row.gen < MaxGen
    /\ \/ /\ Acquirable(w)
          /\ row' = Acquired(w)
          /\ guard' = [guard EXCEPT ![w] = row.gen + 1]
          /\ \/ cache' = [cache EXCEPT ![w] = row.gen + 1] /\ UNCHANGED ready
             \/ /\ cache[w] # 0 /\ ~Owned(w, cache[w]) /\ halt[w] = "no"
                /\ cache' = [cache EXCEPT ![w] = 0]
                /\ ready' = [ready EXCEPT ![w] = FALSE]
          /\ due' = [due EXCEPT ![w] = RenewEvery]
          /\ pc' = [pc EXCEPT ![w] = "fence"]
          /\ UNCHANGED faults
       \/ \* Granted, but the reply is lost: the loop goes on without a guard.
          /\ Acquirable(w)
          /\ Fault
          /\ row' = Acquired(w)
          /\ UNCHANGED <<pc, guard, cache, due, ready>>
    /\ UNCHANGED <<state, halt>>

\* Step 2: renew on schedule.  A refusal also clears the runtime's entry, an
\* error does not; either way the loop lets go of its guard.
Renew(w) ==
    /\ pc[w] = "idle" /\ guard[w] # 0 /\ due[w] = 0
    /\ \/ /\ Renewable(w, guard[w])
          /\ row' = Renewed(w, guard[w])
          /\ due' = [due EXCEPT ![w] = RenewEvery]
          /\ pc' = [pc EXCEPT ![w] = "fence"]
          /\ UNCHANGED <<guard, cache, faults>>
       \/ /\ ~Renewable(w, guard[w])
          /\ guard' = [guard EXCEPT ![w] = 0]
          /\ cache' = [cache EXCEPT ![w] = 0]
          /\ UNCHANGED <<row, pc, due, faults>>
       \/ /\ Fault
          /\ row' \in {row, Renewed(w, guard[w])}
          /\ guard' = [guard EXCEPT ![w] = 0]
          /\ UNCHANGED <<pc, cache, due>>
    /\ UNCHANGED <<state, ready, halt>>

\* Step 3: fence, then run the job while nothing renews the lease.
Fence(w) ==
    /\ \/ pc[w] = "fence"
       \/ pc[w] = "idle" /\ guard[w] # 0 /\ due[w] > 0
    /\ \/ /\ Owned(w, guard[w])
          /\ pc' = [pc EXCEPT ![w] = "job"]
          /\ UNCHANGED <<guard, cache, faults>>
       \/ /\ ~Owned(w, guard[w])
          /\ pc' = [pc EXCEPT ![w] = "idle"]
          /\ guard' = [guard EXCEPT ![w] = 0]
          /\ cache' = [cache EXCEPT ![w] = 0]
          /\ UNCHANGED faults
       \/ /\ Fault
          /\ pc' = [pc EXCEPT ![w] = "idle"]
          /\ guard' = [guard EXCEPT ![w] = 0]
          /\ UNCHANGED cache
    /\ UNCHANGED <<row, due, state, ready, halt>>

JobEnds(w) ==
    /\ pc[w] = "job"
    /\ pc' = [pc EXCEPT ![w] = "idle"]
    /\ UNCHANGED <<row, guard, cache, due, state, ready, halt, faults>>

\* Mutant of Leave: the loop relies on the ha-drain phase to release.
LeaveQuietly(w) ==
    /\ pc[w] = "idle" /\ halt[w] # "no"
    /\ pc' = [pc EXCEPT ![w] = "done"]
    /\ guard' = [guard EXCEPT ![w] = 0]
    /\ UNCHANGED <<row, cache, due, state, ready, halt, faults>>

\* The loop sees the shutdown signal in select! and releases its lease.
Leave(w) ==
    /\ pc[w] = "idle" /\ halt[w] # "no"
    /\ \/ row' = Released(w, guard[w]) /\ UNCHANGED faults
       \/ row' = row /\ guard[w] # 0 /\ Fault
    /\ pc' = [pc EXCEPT ![w] = "done"]
    /\ guard' = [guard EXCEPT ![w] = 0]
    /\ cache' = IF guard[w] = 0 THEN cache ELSE [cache EXCEPT ![w] = 0]
    /\ UNCHANGED <<due, state, ready, halt>>

-----------------------------------------------------------------------------
(* The heartbeat loop, the shutdown sequence and the process.              *)

\* refresh_readiness: verify_required_leases drops an entry the store does
\* not confirm (`kept' is what is left of it), then the verdict is published.
Refreshed(w, kept, st) ==
    /\ cache' = [cache EXCEPT ![w] = kept]
    /\ ready' = [ready EXCEPT ![w] = st = "Ready" /\ kept # 0]
    /\ state' = [state EXCEPT ![w] = st]

\* Mutant of Confirmed: readiness is decided from the local map.
ConfirmedFromMap(w) == cache[w]

Confirmed(w) == IF Owned(w, cache[w]) THEN cache[w] ELSE 0

\* One beat.  A write that fails makes the worker LeaseLost, for the rest of
\* this life: only register_and_recover leads back to Ready.  A verification
\* that fails drops the entry.
Heartbeat(w) ==
    /\ pc[w] # "off" /\ halt[w] = "no"
    /\ \/ Refreshed(w, Confirmed(w), state[w]) /\ UNCHANGED faults
       \/ Fault /\ Refreshed(w, Confirmed(w), SetState(state[w], "LeaseLost"))
       \/ Fault /\ Refreshed(w, 0, state[w])
    /\ UNCHANGED <<row, pc, guard, due, halt>>

\* The ha-drain phase: release what the runtime's map names.  The loop may
\* still be in a job, or about to acquire: the phase before it waits for the
\* loop only 15 seconds.
Drain(w) ==
    /\ pc[w] # "off" /\ halt[w] = "signalled"
    /\ \/ row' = Released(w, Confirmed(w)) /\ UNCHANGED faults
       \/ row' = row /\ Fault
    /\ Refreshed(w, 0, SetState(SetState(state[w], "Draining"), "Stopped"))
    /\ halt' = [halt EXCEPT ![w] = "drained"]
    /\ UNCHANGED <<pc, guard, due>>

\* The process gets its shutdown signal.
Signal(w) ==
    /\ pc[w] # "off" /\ halt[w] = "no"
    /\ halt' = [halt EXCEPT ![w] = "signalled"]
    /\ UNCHANGED <<row, pc, guard, cache, due, state, ready, faults>>

\* The process is gone, and all it had in memory.
Gone(w) ==
    /\ pc' = [pc EXCEPT ![w] = "off"]
    /\ guard' = [guard EXCEPT ![w] = 0]
    /\ cache' = [cache EXCEPT ![w] = 0]
    /\ due' = [due EXCEPT ![w] = 0]
    /\ state' = [state EXCEPT ![w] = "Starting"]
    /\ ready' = [ready EXCEPT ![w] = FALSE]
    /\ halt' = [halt EXCEPT ![w] = "no"]
    /\ UNCHANGED row

Exit(w) ==
    /\ pc[w] = "done" /\ halt[w] = "drained"
    /\ Gone(w)
    /\ UNCHANGED faults

\* A crash, or an exit at the phases' deadlines with the loop still at work.
Crash(w) == pc[w] # "off" /\ Fault /\ Gone(w)

\* register_and_recover, then the loops.  A registration that fails leaves
\* no row to keep a state in: the worker stays Starting.
Start(w) ==
    /\ pc[w] = "off"
    /\ pc' = [pc EXCEPT ![w] = "idle"]
    /\ \/ state' = [state EXCEPT ![w] = "Ready"] /\ UNCHANGED faults
       \/ state' = state /\ Fault
    /\ UNCHANGED <<row, guard, cache, due, ready, halt>>

Less(n) == IF n = 0 THEN 0 ELSE n - 1

Tick ==
    /\ row.left > 0 \/ \E w \in Workers : due[w] > 0
    /\ row' = [holder |-> row.holder, gen |-> row.gen, left |-> Less(row.left)]
    /\ due' = [w \in Workers |-> Less(due[w])]
    /\ UNCHANGED <<pc, guard, cache, state, ready, halt, faults>>

Turn(w) == Acquire(w) \/ Renew(w) \/ Fence(w)

Next ==
    \/ \E w \in Workers :
          \/ Turn(w) \/ JobEnds(w) \/ Leave(w)
          \/ Heartbeat(w) \/ Signal(w) \/ Drain(w)
          \/ Exit(w) \/ Crash(w) \/ Start(w)
    \/ Tick

Spec == Init /\ [][Next]_vars

\* Time passes, a loop that is not inside a job takes its turns, and
\* heartbeats come.  Nothing makes a job end, a process start or a signal
\* arrive.
Fairness ==
    /\ WF_vars(Tick)
    /\ \A w \in Workers : WF_vars(Turn(w)) /\ WF_vars(Heartbeat(w))

FairSpec == Spec /\ Fairness

-----------------------------------------------------------------------------
(* Properties.                                                             *)

\* Types; deadlines and generations stay within their bounds.
TypeOK ==
    /\ row \in Rows
    /\ pc \in [Workers -> Places]
    /\ guard \in [Workers -> Generations]
    /\ cache \in [Workers -> Generations]
    /\ due \in [Workers -> 0..RenewEvery]
    /\ state \in [Workers -> WorkerStates]
    /\ ready \in [Workers -> BOOLEAN]
    /\ halt \in [Workers -> {"no", "signalled", "drained"}]
    /\ faults \in 0..MaxFaults

\* "Release on the way out so a standby can take over at once": while no call
\* has failed and no process died, a worker whose loop has ended and whose
\* ha-drain phase is over holds no live lease, although the loop may acquire
\* one after the drain and the drain may release one under the loop.
ShutdownReleases ==
    \A w \in Workers :
        faults = 0 /\ pc[w] = "done" /\ halt[w] = "drained"
            => ~(row.holder = w /\ row.left > 0)

\* Fencing is for good: a guard that has failed verification (its lease
\* lapsed, was released or was taken over) never passes it again while the
\* loop carries it, whatever renewals are still on their way.
StaleForever ==
    [][\A w \in Workers :
          guard[w] # 0 /\ guard'[w] = guard[w] /\ ~Owned(w, guard[w])
              => ~Owned(w, guard[w])']_vars

\* A job starts.
Begins == \E w \in Workers : pc[w] # "job" /\ pc'[w] = "job"

\* Takeover: if one worker stays up and its own jobs end, jobs of the role
\* keep starting, although holders crash, hang in a job, lose replies and
\* are stopped (unless the model has used up its generations).
RoleServed ==
    \A w \in Workers :
        <>[](pc[w] \notin {"off", "done"}) /\ []<>(pc[w] # "job")
            => []<>(row.gen = MaxGen) \/ []<><<Begins>>_vars

\* Readiness follows ownership: a worker that reports READY without owning
\* the role it requires does not go on doing so, even if its loop hangs in a
\* job and never sees a refusal itself.
HonestReadiness ==
    \A w \in Workers :
        ready[w] /\ ~Owned(w, cache[w])
            ~> (~ready[w] \/ Owned(w, cache[w]) \/ halt[w] # "no")

=============================================================================
