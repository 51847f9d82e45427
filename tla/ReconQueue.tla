----------------------------- MODULE ReconQueue -----------------------------
(***************************************************************************)
(* The reconciliation queue: ONE (kind, subject) row of                    *)
(* reconciliation_state, the producers that enqueue it, and the recovery   *)
(* workers of several replicas that claim it and write verdicts.           *)
(*                                                                         *)
(* Source: crates/core/src/db/repo.rs (ReconRepo) and                      *)
(* crates/core/src/recovery.rs (RecoveryWorker).  Every statement of the   *)
(* repository is keyed by one (kind, subject), so rows do not interact.    *)
(*                                                                         *)
(* `due' stands for next_attempt_at <= now().  A batch is claimed at once  *)
(* and worked through in sequence, so the 60 s of a claim may lapse before *)
(* or while a worker deals with the item.                                  *)
(***************************************************************************)
EXTENDS Naturals

CONSTANTS
    Workers,      \* recovery workers, one per replica
    MaxAttempts,  \* max_attempts of the row
    MaxStops,     \* bound: worker shutdowns and crashes in one behaviour
    Faults        \* which of the failures below may happen

QueueFaults ==
    {"crash",     \* a worker dies holding a claim
     "write",     \* a verdict's UPDATE fails (.ok() drops the error)
     "requeue"}   \* a producer enqueues a subject whose attempts are spent

ASSUME ReconQueueAssumption ==
    /\ MaxAttempts \in Nat \ {0}
    /\ MaxStops \in Nat
    /\ Faults \subseteq QueueFaults

VARIABLES
    row,     \* the reconciliation_state row
    worker,  \* worker[w]: idle, holding a claim, or holding a verdict
    stops,   \* shutdowns and crashes so far
    exists   \* the truth source can resolve the subject at all

queueVars == <<row, worker, stops, exists>>

Verdicts  == {"resolved", "retry", "give_up"}
QueueRows == [status : {"absent", "pending", "in_progress", "resolved", "failed"},
              attempts : 0..MaxAttempts, due : BOOLEAN]
Active(r) == r.status \in {"pending", "in_progress"}

-----------------------------------------------------------------------------
(* The repository: one atomic statement each.                              *)

\* enqueue: a resolved row stays resolved; any other becomes pending and due.
Enqueued(r) ==
    IF r.status = "absent" THEN [status |-> "pending", attempts |-> 0, due |-> TRUE]
    ELSE [r EXCEPT !.status = IF @ = "resolved" THEN "resolved" ELSE "pending",
                   !.due = TRUE]

\* Mutant: the attempt budget is not tested.
ClaimableForever(r) == Active(r) /\ r.due

\* The inner SELECT of claim_due.
Claimable(r) == Active(r) /\ r.due /\ r.attempts < MaxAttempts

Claimed(r) == [status |-> "in_progress", attempts |-> r.attempts + 1, due |-> FALSE]

\* Mutant: an exhausted item goes back to pending instead of being parked.
FailedNeverParked(r) == [r EXCEPT !.status = "pending", !.due = FALSE]

\* fail: backoff, or parked once the attempts are spent.  No status test.
Failed(r) ==
    [r EXCEPT !.status = IF r.attempts >= MaxAttempts THEN "failed" ELSE "pending",
              !.due = FALSE]

\* release: only an in_progress row, whoever holds it now.
Released(r) ==
    IF r.status = "in_progress"
    THEN [status |-> "pending", attempts |-> IF r.attempts > 0 THEN r.attempts - 1 ELSE 0,
          due |-> TRUE]
    ELSE r

\* resolve, fail and give_up, by verdict.
Settled(r, verdict) ==
    IF verdict = "resolved" THEN [r EXCEPT !.status = "resolved"]
    ELSE IF verdict = "retry" THEN Failed(r)
    ELSE [r EXCEPT !.status = "failed", !.attempts = MaxAttempts]

-----------------------------------------------------------------------------
QueueInit ==
    /\ row = [status |-> "absent", attempts |-> 0, due |-> FALSE]
    /\ worker = [w \in Workers |-> "idle"]
    /\ stops = 0
    /\ exists \in BOOLEAN

\* A producer or a sweep enqueues the subject.
Enqueue ==
    /\ "requeue" \in Faults \/ row.attempts < MaxAttempts
    /\ row' = Enqueued(row)
    /\ UNCHANGED <<worker, stops, exists>>

\* reopen_resolved, the periodic re-verification of positions.
Reopen ==
    /\ row.status = "resolved"
    /\ row' = [status |-> "pending", attempts |-> 0, due |-> TRUE]
    /\ UNCHANGED <<worker, stops, exists>>

\* next_attempt_at is reached.
Elapse ==
    /\ ~row.due
    /\ row' = [row EXCEPT !.due = TRUE]
    /\ UNCHANGED <<worker, stops, exists>>

\* Mutant: the claim does not count as an attempt until it is processed.
ClaimUncounted(w) ==
    /\ worker[w] = "idle"
    /\ Claimable(row)
    /\ row' = [row EXCEPT !.status = "in_progress", !.due = FALSE]
    /\ worker' = [worker EXCEPT ![w] = "claimed"]
    /\ UNCHANGED <<stops, exists>>

\* run_once claims a batch that holds the item.
Claim(w) ==
    /\ worker[w] = "idle"
    /\ Claimable(row)
    /\ row' = Claimed(row)
    /\ worker' = [worker EXCEPT ![w] = "claimed"]
    /\ UNCHANGED <<stops, exists>>

\* TruthSource::resolve answers; an unreachable or missing source, or an
\* outcome that is still open, is a retry.
Look(w) ==
    /\ worker[w] = "claimed"
    /\ \E v \in {"retry", IF exists THEN "resolved" ELSE "give_up"} :
          worker' = [worker EXCEPT ![w] = v]
    /\ UNCHANGED <<row, stops, exists>>

\* The verdict is written; without a lease test, so however late.
WriteVerdict(w) ==
    /\ worker[w] \in Verdicts
    /\ \/ row' = Settled(row, worker[w])
       \/ "write" \in Faults /\ UNCHANGED row
    /\ worker' = [worker EXCEPT ![w] = "idle"]
    /\ UNCHANGED <<stops, exists>>

\* Shutdown is signalled before the item's turn: the claim is put back.
Stop(w) ==
    /\ worker[w] = "claimed" /\ stops < MaxStops
    /\ row' = Released(row)
    /\ worker' = [worker EXCEPT ![w] = "idle"]
    /\ stops' = stops + 1
    /\ UNCHANGED exists

\* The process dies, and is started again.
Crash(w) ==
    /\ "crash" \in Faults
    /\ worker[w] # "idle" /\ stops < MaxStops
    /\ worker' = [worker EXCEPT ![w] = "idle"]
    /\ stops' = stops + 1
    /\ UNCHANGED <<row, exists>>

QueueNext ==
    \/ Enqueue \/ Reopen \/ Elapse
    \/ \E w \in Workers : Claim(w) \/ Look(w) \/ WriteVerdict(w) \/ Stop(w) \/ Crash(w)

QueueSpec == QueueInit /\ [][QueueNext]_queueVars

\* Time passes, and every worker's poll loop goes on (it is restarted when
\* its process is).
QueueFairSpec ==
    /\ QueueSpec /\ WF_queueVars(Elapse)
    /\ \A w \in Workers :
          WF_queueVars(Claim(w)) /\ WF_queueVars(Look(w)) /\ WF_queueVars(WriteVerdict(w))

-----------------------------------------------------------------------------
(* Properties.                                                             *)

\* Types; attempts never exceed max_attempts.
QueueTypeOK ==
    /\ row \in QueueRows
    /\ worker \in [Workers -> {"idle", "claimed"} \cup Verdicts]
    /\ stops \in 0..MaxStops
    /\ exists \in BOOLEAN

\* Nothing is lost on its last attempt: an item that claim_due will never
\* hand out again, and that nobody has settled, is in a worker's hands.
NoOrphan ==
    Active(row) /\ row.attempts = MaxAttempts => \E w \in Workers : worker[w] # "idle"

\* fail, "Exhausted items land in `failed` for operator attention": an item
\* never stays pending or in progress for ever.
ActiveGetsSettled == Active(row) ~> row.status \in {"resolved", "failed"}

\* Whatever fails, no item is retried for ever: it is settled, or its attempts
\* are spent.
AttemptsRunOut ==
    Active(row) ~> (row.status \in {"resolved", "failed"} \/ row.attempts = MaxAttempts)

\* What several replicas may do to one item: once a verdict has resolved it,
\* only reopen_resolved (which resets the attempts) makes it active again.
ResolvedSticks ==
    [][row.status = "resolved" =>
          row'.status = "resolved" \/ (row'.status = "pending" /\ row'.attempts = 0)]_queueVars

=============================================================================
