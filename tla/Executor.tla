------------------------------ MODULE Executor ------------------------------
(***************************************************************************)
(* The lifecycle of ONE execution intent inside one process: the execution *)
(* ledger and its duplicate guard, the callers that run the intent through *)
(* the Solana executor, the transactions they sign, the durable row, and   *)
(* the verdicts of reconciliation.                                         *)
(*                                                                         *)
(* Source: crates/core/src/execution/mod.rs (ledger),                      *)
(* crates/solana-kit/src/execute.rs and rpc.rs (executor),                 *)
(* crates/server/src/persist.rs (sink, restore) and recon.rs (verdicts).   *)
(*                                                                         *)
(* A signature is the number of the attempt that signed it.  Faults names  *)
(* the failures of the environment that an instance lets happen.           *)
(***************************************************************************)
EXTENDS Naturals

CONSTANTS
    Callers,      \* tasks that may run this intent
    Prebuilt,     \* those that use send_prebuilt (one attempt, no rebuild)
    MaxAttempts,  \* ExecPolicy::max_attempts
    MaxSig,       \* bound: transactions signed in one behaviour
    Faults        \* which of the failures below may happen

AllFaults ==
    {"unheard",    \* a send is refused after an earlier try was never answered
     "sink",       \* an upsert of the durable row fails
     "reread",     \* the second getTransaction of confirm_tracked fails
     "redeliver",  \* the queue keeps an item whose verdict was applied
     "restore",    \* the durable rows are unreadable at startup
     "evict"}      \* the ledger is over its capacity

ASSUME ExecutorAssumption ==
    /\ Prebuilt \subseteq Callers
    /\ MaxAttempts \in Nat \ {0}
    /\ MaxSig \in Nat
    /\ Faults \subseteq AllFaults

VARIABLES
    rec,    \* the ledger record of the intent
    known,  \* by_signature: signatures that lead to the record
    row,    \* execution_lifecycle row of the intent
    run,    \* run[c]: where caller c is in Executor::run
    next,   \* the next attempt to be signed
    tx,     \* tx[s]: what the cluster makes of transaction s
    queue   \* signatures waiting for a reconciliation verdict

vars == <<rec, known, row, run, next, tx, queue>>

Sigs   == 1..MaxSig
States == {"none", "created", "validated", "submitted", "pending",
           "confirmed", "failed", "expired", "reconciled"}
Said   == {"ok", "maybe", "limited", "stale", "no"}
Stages == {"idle", "begun", "built", "submitted", "sending", "confirm", "rebuild"}

Records == [state : States, sig : 0..MaxSig, failed : BOOLEAN]
Runs    == [stage : Stages, sig : 0..MaxSig, attempt : 0..MaxAttempts,
            said : Said, missed : BOOLEAN]

NoRecord == [state |-> "none", sig |-> 0, failed |-> FALSE]
NotRunning == [stage |-> "idle", sig |-> 0, attempt |-> 0,
               said |-> "ok", missed |-> FALSE]

-----------------------------------------------------------------------------
(* The ledger.                                                             *)

\* ExecutionState::can_transition_to
CanTransition(from, to) ==
    \/ from = "created"   /\ to \in {"validated", "failed", "expired"}
    \/ from = "validated" /\ to \in {"submitted", "confirmed", "failed", "expired"}
    \/ from = "submitted" /\ to \in {"pending", "confirmed", "failed", "expired", "reconciled"}
    \/ from = "pending"   /\ to \in {"confirmed", "failed", "expired", "reconciled"}
    \/ from \in {"confirmed", "failed", "expired"} /\ to = "reconciled"

\* Mutant: a record whose run has only begun counts as re-armable.
CanRearmCreated(r) ==
    \/ r.state \in {"created", "failed", "expired"}
    \/ r.state = "reconciled" /\ r.failed

\* ExecutionRecord::can_rearm, and the absent record that begin takes as new.
CanRearm(r) ==
    \/ r.state \in {"failed", "expired"}
    \/ r.state = "reconciled" /\ r.failed
CanBegin(r) == r.state = "none" \/ CanRearm(r)

\* The sink: what the row may be after a transition to record r.
Persisted(r) == {r} \cup (IF "sink" \in Faults THEN {row} ELSE {})

\* begin: a fresh or re-armed record; the index of old signatures is kept.
Begun ==
    /\ rec' = [state |-> "created", sig |-> 0, failed |-> FALSE]
    /\ row' \in Persisted(rec')

\* apply of a transition that carries no failure class, to record r; illegal
\* moves are logged and dropped by Executor::mark.
Mark(r, to) ==
    IF CanTransition(r.state, to)
    THEN /\ rec' = [r EXCEPT !.state = to,
                             !.failed = @ /\ to # "confirmed"]
         /\ row' \in Persisted(rec')
    ELSE rec' = r /\ UNCHANGED row

\* fail: the state a failure class leads to; a record already there is
\* annotated without a transition, so without a sink write.
MarkFailed(to) ==
    IF rec.state = to
    THEN rec' = [rec EXCEPT !.failed = TRUE] /\ UNCHANGED row
    ELSE IF CanTransition(rec.state, to)
    THEN /\ rec' = [rec EXCEPT !.state = to, !.failed = TRUE]
         /\ row' \in Persisted(rec')
    ELSE UNCHANGED <<rec, row>>

-----------------------------------------------------------------------------
(* Broadcast routes.  A call to an endpoint ends with what the last try was *)
(* told; `unheard' says that some try of the call got no answer.           *)

Refused(said) == said \in {"limited", "stale", "no"}

\* sendTransaction through retry_classified: timeouts and rate limits are
\* tried again, and the class of the LAST try is returned.
RpcCalls == {a \in [said : Said, unheard : BOOLEAN] : a.said = "maybe" => a.unheard}

\* One bundle POST.
JitoCalls == {a \in RpcCalls : a.unheard <=> a.said = "maybe"}

\* SendError::combine
Combine(p, f) ==
    IF "maybe" \in {p, f} THEN "maybe" ELSE IF "stale" \in {p, f} THEN "stale" ELSE f

\* What a route reports, and whether its bytes may be with a leader.
Reached(calls) == \E a \in calls : a.said = "ok" \/ a.unheard
Report(said, calls) == [said |-> said, left |-> Reached(calls)]

\* broadcast_rpc with a failover endpoint (broadcast_fanout reports the same
\* set of outcomes for two endpoints), or without one.
FailedOver(p, f) ==
    Report(IF f.said = "ok" THEN "ok" ELSE Combine(p.said, f.said), {p, f})
RpcReports ==
    {Report(p.said, {p}) : p \in RpcCalls} \cup
    {FailedOver(p, f) : p \in {a \in RpcCalls : a.said # "ok"}, f \in RpcCalls}

JitoReports == {Report(j.said, {j}) : j \in JitoCalls}

\* JitoThenRpc falls back on any Jito error; Race awaits both.  When both
\* routes fail, each reports the RPC error alone.
BothReports ==
    {[said |-> IF j.said = "ok" THEN "ok" ELSE r.said, left |-> j.left \/ r.left] :
        j \in JitoReports, r \in RpcReports}

\* Every outcome of the broadcast step; without the fault, the instances
\* where a refusal follows a try that was never answered are left out.
Reports ==
    {o \in RpcReports \cup JitoReports \cup BothReports :
        "unheard" \in Faults \/ ~(Refused(o.said) /\ o.left)}

-----------------------------------------------------------------------------
Init ==
    /\ rec = NoRecord /\ row = NoRecord
    /\ known = {} /\ queue = {}
    /\ run = [c \in Callers |-> NotRunning]
    /\ next = 1
    /\ tx = [s \in Sigs |-> "signed"]

\* A caller at the start of its n-th attempt.
Attempt(n) == [stage |-> "begun", sig |-> next, attempt |-> n,
               said |-> "ok", missed |-> FALSE]

Goes(c, stage) == run' = [run EXCEPT ![c].stage = stage]
Returns(c)     == run' = [run EXCEPT ![c] = NotRunning]

\* run / send_prebuilt up to the duplicate guard (a refused duplicate
\* returns at once and changes nothing).
Begin(c) ==
    /\ run[c].stage = "idle" /\ next <= MaxSig
    /\ CanBegin(rec)
    /\ Begun
    /\ run' = [run EXCEPT ![c] = Attempt(1)]
    /\ next' = next + 1
    /\ UNCHANGED <<known, tx, queue>>

\* Mutant: a refused duplicate is retried instead of ending the run.
RearmInsists(c) ==
    /\ run[c].stage = "rebuild"
    /\ \/ /\ CanBegin(rec) /\ next <= MaxSig
          /\ Begun
          /\ run' = [run EXCEPT ![c] = Attempt(run[c].attempt + 1)]
          /\ next' = next + 1
       \/ next > MaxSig /\ Returns(c) /\ UNCHANGED <<rec, row, next>>
    /\ UNCHANGED <<known, tx, queue>>

\* The attempt loop re-arms the intent; when another path raced it, or the
\* bound on signatures is reached, the run ends.
Rearm(c) ==
    /\ run[c].stage = "rebuild"
    /\ IF CanBegin(rec) /\ next <= MaxSig
       THEN /\ Begun
            /\ run' = [run EXCEPT ![c] = Attempt(run[c].attempt + 1)]
            /\ next' = next + 1
       ELSE Returns(c) /\ UNCHANGED <<rec, row, next>>
    /\ UNCHANGED <<known, tx, queue>>

\* Mutant: the attempt budget is compared off by one.
SettlesPastBudget(c, retryable) ==
    IF retryable /\ c \notin Prebuilt /\ run[c].attempt <= MaxAttempts
    THEN Goes(c, "rebuild")
    ELSE Returns(c)

\* A failed attempt ends the run, or goes round the loop when the class is
\* rebuildable and the budget allows it.
Settles(c, retryable) ==
    IF retryable /\ c \notin Prebuilt /\ run[c].attempt < MaxAttempts
    THEN Goes(c, "rebuild")
    ELSE Returns(c)

\* The attempt dies before anything is signed or sent: fee veto, build error,
\* simulation reject, prebuilt blockhash check.
Abort(c) ==
    /\ run[c].stage \in {"begun", "built"}
    /\ \E to \in {"failed", "expired"} : MarkFailed(to)
    /\ \E retryable \in BOOLEAN : Settles(c, retryable)
    /\ UNCHANGED <<known, next, tx, queue>>

\* Signed: attach_submission indexes the signature, then Validated.
Build(c) ==
    /\ run[c].stage = "begun"
    /\ IF rec.state = "none"
       THEN UNCHANGED <<rec, row, known>>
       ELSE /\ known' = known \cup {run[c].sig}
            /\ Mark([rec EXCEPT !.sig = run[c].sig], "validated")
    /\ Goes(c, "built")
    /\ UNCHANGED <<next, tx, queue>>

\* Mutant: the bytes leave before the record says so.
SubmitUnlogged(c) ==
    /\ run[c].stage = "built"
    /\ Goes(c, "submitted")
    /\ UNCHANGED <<rec, row, known, next, tx, queue>>

\* Write-ahead: the record says submitted before the bytes leave.
Submit(c) ==
    /\ run[c].stage = "built"
    /\ Mark(rec, "submitted")
    /\ Goes(c, "submitted")
    /\ UNCHANGED <<known, next, tx, queue>>

\* The bytes leave, or every endpoint refuses them.
Transmit(c) ==
    /\ run[c].stage = "submitted"
    /\ \E o \in Reports :
          /\ run' = [run EXCEPT ![c] = [@ EXCEPT !.stage = "sending", !.said = o.said]]
          /\ tx' = [tx EXCEPT ![run[c].sig] = IF o.left THEN "flying" ELSE @]
    /\ UNCHANGED <<rec, row, known, next, queue>>

\* Mutant: an unanswered broadcast is taken for a failed one.
AnswerMaybeFailed(c) ==
    /\ run[c].stage = "sending"
    /\ \/ run[c].said = "ok"    /\ Mark(rec, "pending")   /\ Goes(c, "confirm")
       \/ run[c].said = "stale" /\ MarkFailed("expired") /\ Settles(c, TRUE)
       \/ run[c].said \in {"maybe", "limited", "no"} /\ MarkFailed("failed")
                                                    /\ Settles(c, run[c].said # "no")
    /\ UNCHANGED <<known, next, tx, queue>>

\* The classified answer of the broadcast is acted on.
Answer(c) ==
    /\ run[c].stage = "sending"
    /\ \/ run[c].said = "ok"    /\ Mark(rec, "pending")   /\ Goes(c, "confirm")
       \/ run[c].said = "maybe" /\ MarkFailed("pending") /\ Goes(c, "confirm")
       \/ run[c].said = "stale" /\ MarkFailed("expired") /\ Settles(c, TRUE)
       \/ run[c].said \in {"limited", "no"} /\ MarkFailed("failed")
                                           /\ Settles(c, run[c].said = "limited")
    /\ UNCHANGED <<known, next, tx, queue>>

\* confirm_tracked polls and the transaction is not visible.
Miss(c) ==
    /\ run[c].stage = "confirm"
    /\ tx[run[c].sig] \in {"flying", "dead"}
    /\ run' = [run EXCEPT ![c].missed = TRUE]
    /\ UNCHANGED <<rec, known, row, next, tx, queue>>

\* It is visible: confirmed (the published order queues it for
\* reconciliation), or landed with a program error.
Confirm(c) ==
    /\ run[c].stage = "confirm"
    /\ \/ /\ tx[run[c].sig] = "landed"
          /\ Mark(rec, "confirmed")
          /\ queue' = queue \cup {run[c].sig}
       \/ /\ tx[run[c].sig] = "reverted"
          /\ MarkFailed("failed")
          /\ UNCHANGED queue
    /\ Returns(c)
    /\ UNCHANGED <<known, next, tx>>

\* The confirmation budget ends (RPC errors included): the record stays
\* pending and reconciliation owns the signature.
Timeout(c) ==
    /\ run[c].stage = "confirm"
    /\ MarkFailed("pending")
    /\ queue' = queue \cup {run[c].sig}
    /\ Returns(c)
    /\ UNCHANGED <<known, next, tx>>

\* A poll missed it, the block height has passed the validity window and the
\* second read shows nothing - or fails, which the code takes for the same.
Expired(c) ==
    /\ run[c].stage = "confirm" /\ run[c].missed
    /\ \/ tx[run[c].sig] = "dead"
       \/ "reread" \in Faults /\ tx[run[c].sig] # "flying"
    /\ MarkFailed("expired")
    /\ Settles(c, TRUE)
    /\ UNCHANGED <<known, next, tx, queue>>

-----------------------------------------------------------------------------
(* The cluster, reconciliation, restarts.                                  *)

\* The cluster executes a transaction in flight, or its blockhash expires.
Land(s) ==
    /\ tx[s] = "flying"
    /\ tx' \in {[tx EXCEPT ![s] = out] : out \in {"landed", "reverted", "dead"}}
    /\ UNCHANGED <<rec, known, row, run, next, queue>>

\* Mutant: the verdict's failure flag is inverted.
VerdictInverted(s) ==
    /\ s \in queue /\ tx[s] \in {"landed", "reverted"}
    /\ IF s \in known /\ CanTransition(rec.state, "reconciled")
       THEN /\ rec' = [rec EXCEPT !.state = "reconciled", !.failed = tx[s] = "landed"]
            /\ row' \in Persisted(rec')
       ELSE UNCHANGED <<rec, row>>
    /\ queue' = queue \ {s}
    /\ UNCHANGED <<known, run, next, tx>>

\* SolanaTxTruth::resolve with a definite observation, then
\* reconcile_signature.  The record is found by ANY of its signatures.
Verdict(s) ==
    /\ s \in queue /\ tx[s] \in {"landed", "reverted"}
    /\ IF s \in known /\ CanTransition(rec.state, "reconciled")
       THEN /\ rec' = [rec EXCEPT !.state = "reconciled", !.failed = tx[s] = "reverted"]
            /\ row' \in Persisted(rec')
       ELSE UNCHANGED <<rec, row>>
    /\ queue' \in {queue \ {s}} \cup (IF "redeliver" \in Faults THEN {queue} ELSE {})
    /\ UNCHANGED <<known, run, next, tx>>

\* Mutant: a restart takes a submitted record for one never sent.
RecoveredSubmittedFailed(r) ==
    IF r.state \in {"created", "validated", "submitted"}
    THEN [r EXCEPT !.state = "failed", !.failed = TRUE]
    ELSE r

\* resolve_after_restart: what a hydrated record becomes.
Recovered(r) ==
    IF r.state \in {"created", "validated"} THEN [r EXCEPT !.state = "failed", !.failed = TRUE]
    ELSE IF r.state = "submitted" THEN [r EXCEPT !.state = "pending", !.failed = TRUE]
    ELSE r

\* Mutant: a restart hands nothing to reconciliation.
RestartUnqueued ==
    /\ run' = [c \in Callers |-> NotRunning]
    /\ \E r \in {row} \cup (IF "restore" \in Faults THEN {NoRecord} ELSE {}) :
          /\ rec' = Recovered(r)
          /\ IF Recovered(r) = r THEN UNCHANGED row ELSE row' \in Persisted(Recovered(r))
          /\ known' = {r.sig} \ {0}
    /\ UNCHANGED <<next, tx, queue>>

\* The process dies and comes back: the callers are gone, the ledger is what
\* the durable rows say, and ambiguous signatures are queued.
Restart ==
    /\ run' = [c \in Callers |-> NotRunning]
    /\ \E r \in {row} \cup (IF "restore" \in Faults THEN {NoRecord} ELSE {}) :
          /\ rec' = Recovered(r)
          /\ IF Recovered(r) = r THEN UNCHANGED row ELSE row' \in Persisted(Recovered(r))
          /\ known' = {r.sig} \ {0}
          /\ queue' = queue \cup (IF r.state \in {"submitted", "pending"}
                                  THEN {r.sig} \ {0} ELSE {})
    /\ UNCHANGED <<next, tx>>

\* evict_if_needed drops a settled record and its current signature.
Evict ==
    /\ "evict" \in Faults
    /\ rec.state \in {"confirmed", "failed", "expired", "reconciled"}
    /\ rec' = NoRecord
    /\ known' = known \ {rec.sig}
    /\ UNCHANGED <<row, run, next, tx, queue>>

CallerStep(c) ==
    \/ Begin(c) \/ Rearm(c) \/ Abort(c) \/ Build(c) \/ Submit(c) \/ Transmit(c)
    \/ Answer(c) \/ Miss(c) \/ Confirm(c) \/ Timeout(c) \/ Expired(c)

Next ==
    \/ \E c \in Callers : CallerStep(c)
    \/ \E s \in Sigs : Land(s) \/ Verdict(s)
    \/ Restart
    \/ Evict

Spec == Init /\ [][Next]_vars

\* Steps of a run are awaited by a live task, the confirmation loop has a
\* deadline, and the reconciliation worker polls for ever.
FairSpec ==
    /\ Spec
    /\ \A c \in Callers :
          /\ WF_vars(Rearm(c)) /\ WF_vars(Build(c)) /\ WF_vars(Submit(c))
          /\ WF_vars(Transmit(c)) /\ WF_vars(Answer(c)) /\ WF_vars(Timeout(c))
    /\ \A s \in Sigs : WF_vars(Verdict(s))

-----------------------------------------------------------------------------
(* Properties.                                                             *)

\* Types; and the attempts a caller spends stay within run's budget.
TypeOK ==
    /\ rec \in Records /\ row \in Records
    /\ known \subseteq Sigs /\ queue \subseteq Sigs
    /\ run \in [Callers -> Runs]
    /\ next \in 1..(MaxSig + 1)
    /\ tx \in [Sigs -> {"signed", "flying", "landed", "reverted", "dead"}]

Alive(s) == tx[s] \in {"flying", "landed"}

\* An intent moves money at most once: over all attempts, rebuilds, restarts
\* and verdicts, no two of its transactions land.
AtMostOneLanding ==
    \A s, t \in Sigs : tx[s] = "landed" /\ tx[t] = "landed" => s = t

\* can_rearm, "a previous attempt that provably never landed may be
\* re-armed": whenever begin would accept the intent, none of its
\* transactions has landed or may still land.
RearmableIsDead == CanBegin(rec) => \A s \in Sigs : ~Alive(s)

\* The duplicate guard: no two callers are between begin and the outcome.
Working(c) == run[c].stage \notin {"idle", "rebuild"}
SoleRunner == \A c, d \in Callers : Working(c) /\ Working(d) => c = d

\* Write-ahead: a transaction that may land is named by a durable row that a
\* restart keeps blocked.
WriteAhead ==
    \A s \in Sigs : Alive(s) => row.sig = s /\ ~CanBegin(Recovered(row))

\* Why the above hold while no fault happens.  A transaction that may land
\* is the record's own, under a state begin refuses; the durable row agrees
\* with the record; a caller and the record move in step; and a queued
\* signature leads to the record only if it is the record's own.
TracksAlive ==
    \A s \in Sigs : Alive(s) =>
        /\ rec.sig = s
        /\ \/ rec.state \in {"submitted", "pending", "confirmed"}
           \/ rec.state = "reconciled" /\ ~rec.failed
RowAgrees ==
    /\ row.state = rec.state /\ row.sig = rec.sig
    /\ rec.state # "pending" => row.failed = rec.failed
InStep ==
    \A c \in Callers : Working(c) =>
        /\ run[c].sig \in 1..(next - 1) /\ run[c].sig \notin queue
        /\ run[c].stage = "begun" => rec.state = "created"
        /\ run[c].stage = "built" => rec.state = "validated"
        /\ run[c].stage \in {"submitted", "sending"} => rec.state = "submitted"
        /\ run[c].stage = "confirm" => rec.state = "pending"
        /\ run[c].stage # "begun" => rec.sig = run[c].sig
        /\ run[c].stage \in {"begun", "built", "submitted"} => tx[run[c].sig] = "signed"
        /\ run[c].stage = "sending" /\ Refused(run[c].said) => ~Alive(run[c].sig)
QueueOwn ==
    \A s \in queue \cap known :
        /\ s = rec.sig
        /\ \/ rec.state \in {"pending", "confirmed"}
           \/ rec.state = "reconciled" /\ ~rec.failed
        /\ \A c \in Callers : ~Working(c)
Issued ==
    /\ rec.sig \in 0..(next - 1)
    /\ rec.sig # 0 => rec.sig \in known
    /\ queue \subseteq 1..(next - 1)
    /\ \A s \in Sigs : s >= next => tx[s] = "signed"
    /\ rec.state = "confirmed" => rec.sig \in Sigs /\ tx[rec.sig] = "landed"
LedgerInv == TracksAlive /\ RowAgrees /\ InStep /\ SoleRunner /\ QueueOwn /\ Issued

\* apply, "a landed transaction must never look re-armable": an intent the
\* ledger has confirmed is never accepted again.
ConfirmedIsFinal ==
    [][rec.state = "confirmed" => ~CanBegin(rec')]_vars

\* What is left pending for a transaction that landed is eventually closed
\* by its caller or by reconciliation, across restarts.
LandedGetsClosed ==
    \A s \in Sigs : (rec.sig = s /\ tx[s] = "landed")
                       ~> (rec.state \in {"confirmed", "reconciled"} /\ ~rec.failed)

\* Every run returns, whatever fails: rebuilds are bounded.
RunsReturn == \A c \in Callers : Working(c) ~> run[c].stage = "idle"

=============================================================================
