--------------------------- MODULE ExecutorProofs ---------------------------
(***************************************************************************)
(* Machine-checked proofs about Executor: type correctness under every     *)
(* combination of faults, and, while none happens, that an intent moves    *)
(* money at most once, for any callers, attempt budget and bound.          *)
(***************************************************************************)
EXTENDS Executor, TLAPS

USE ExecutorAssumption

-----------------------------------------------------------------------------
(* The ledger's operations keep records well formed.                       *)

\* A row the sink may leave behind is a record.
LEMMA PersistedType ==
    ASSUME TypeOK, NEW r \in Records, NEW x \in Persisted(r)
    PROVE  x \in Records
BY DEF Persisted, TypeOK

\* What Mark does, legal or not.
LEMMA MarkType ==
    ASSUME TypeOK, NEW r \in Records, NEW to \in States, Mark(r, to)
    PROVE  /\ rec' \in Records /\ row' \in Records
           /\ rec'.sig = r.sig
<1>1. CASE CanTransition(r.state, to)
  <2> DEFINE f == r.failed /\ to # "confirmed"
  <2>1. rec' = [r EXCEPT !.state = to, !.failed = f] /\ row' \in Persisted(rec')
    BY <1>1 DEF Mark
  <2>2. f \in BOOLEAN
    BY DEF Records
  <2> HIDE DEF f
  <2>3. rec' \in Records /\ rec'.sig = r.sig
    BY <2>1, <2>2 DEF Records
  <2>4. QED
    BY <2>1, <2>3, PersistedType
<1>2. CASE ~CanTransition(r.state, to)
  BY <1>2 DEF Mark, TypeOK
<1>3. QED
  BY <1>1, <1>2

\* What MarkFailed does, legal or not.
LEMMA MarkFailedType ==
    ASSUME TypeOK, NEW to \in States, MarkFailed(to)
    PROVE  /\ rec' \in Records /\ row' \in Records
           /\ rec'.sig = rec.sig
<1>0. rec \in Records /\ row \in Records
  BY DEF TypeOK
<1>1. CASE rec.state = to
  BY <1>0, <1>1 DEF MarkFailed, Records
<1>2. CASE rec.state # to /\ CanTransition(rec.state, to)
  <2>1. rec' = [rec EXCEPT !.state = to, !.failed = TRUE] /\ row' \in Persisted(rec')
    BY <1>2 DEF MarkFailed
  <2>2. rec' \in Records /\ rec'.sig = rec.sig
    BY <1>0, <2>1 DEF Records
  <2>3. QED
    BY <2>1, <2>2, PersistedType
<1>3. CASE rec.state # to /\ ~CanTransition(rec.state, to)
  BY <1>0, <1>3 DEF MarkFailed
<1>4. QED
  BY <1>1, <1>2, <1>3

\* A caller that waits to rebuild has budget for one more attempt, and one
\* that runs has a transaction of its own.
Budget ==
    \A c \in Callers :
        /\ run[c].stage = "rebuild" => run[c].attempt < MaxAttempts
        /\ run[c].stage # "idle" => run[c].sig \in Sigs

\* The callers are well formed and within their budget.
RunsOK == run \in [Callers -> Runs] /\ Budget

\* Moving a caller, or returning it, keeps the callers well formed.
LEMMA RunType ==
    ASSUME RunsOK, NEW c \in Callers, run[c].stage # "idle"
    PROVE  /\ \A stage \in Stages \ {"rebuild"} : Goes(c, stage) => RunsOK'
           /\ Returns(c) => RunsOK'
           /\ \A b \in BOOLEAN : Settles(c, b) => RunsOK'
<1>0. run \in [Callers -> Runs] /\ NotRunning \in Runs /\ NotRunning.stage = "idle"
  BY DEF RunsOK, NotRunning, Runs, Stages, Said
<1>1. ASSUME NEW stage \in Stages, Goes(c, stage),
             run[c].sig \in Sigs,
             stage = "rebuild" => run[c].attempt < MaxAttempts
      PROVE  RunsOK'
  <2>1. run' \in [Callers -> Runs]
    BY <1>0, <1>1 DEF Goes, Runs
  <2>2. ASSUME NEW d \in Callers
        PROVE  /\ run'[d].stage = "rebuild" => run'[d].attempt < MaxAttempts
               /\ run'[d].stage # "idle" => run'[d].sig \in Sigs
    <3>1. CASE d = c
      BY <1>0, <1>1, <3>1 DEF Goes, Runs
    <3>2. CASE d # c
      BY <1>0, <1>1, <3>2 DEF Goes, RunsOK, Budget
    <3>3. QED
      BY <3>1, <3>2
  <2>3. QED
    BY <2>1, <2>2 DEF RunsOK, Budget
<1>2. ASSUME Returns(c) PROVE RunsOK'
  <2>1. run' \in [Callers -> Runs]
    BY <1>0, <1>2 DEF Returns
  <2>2. \A d \in Callers : run'[d] = run[d] \/ run'[d].stage = "idle"
    BY <1>0, <1>2 DEF Returns
  <2>3. QED
    BY <2>1, <2>2 DEF RunsOK, Budget
<1>3. "rebuild" \in Stages
  BY DEF Stages
<1>4. run[c].sig \in Sigs
  BY DEF RunsOK, Budget
<1>5. ASSUME NEW b \in BOOLEAN, Settles(c, b) PROVE RunsOK'
  BY <1>1, <1>2, <1>3, <1>4, <1>5 DEF Settles
<1>6. QED
  BY <1>1, <1>2, <1>4, <1>5

\* A begun record is a record.
LEMMA BegunType ==
    ASSUME TypeOK, Begun
    PROVE  rec' \in Records /\ row' \in Records
<1>1. rec' \in Records
  BY DEF Begun, Records, States
<1>2. QED
  BY <1>1, PersistedType DEF Begun

\* A recovered record is a record with the same signature.
LEMMA RecoveredType ==
    ASSUME NEW r \in Records
    PROVE  Recovered(r) \in Records /\ Recovered(r).sig = r.sig
BY DEF Recovered, Records, States

\* What a broadcast route reports is a classified answer.
LEMMA ReportsSaid ==
    \A o \in Reports : o.said \in Said
<1>1. \A a \in RpcCalls : a.said \in Said
  BY DEF RpcCalls
<1>2. \A a \in JitoCalls : a.said \in Said
  BY <1>1 DEF JitoCalls
<1>3. \A p, f \in Said : Combine(p, f) \in Said
  BY DEF Combine, Said
<1>a. ASSUME NEW said, NEW calls PROVE Report(said, calls).said = said
  BY DEF Report
<1>4. ASSUME NEW o \in JitoReports PROVE o.said \in Said
  <2>1. PICK j \in JitoCalls : o = Report(j.said, {j})
    BY <1>4 DEF JitoReports
  <2>2. QED
    BY <1>2, <1>a, <2>1
<1>5. ASSUME NEW o \in RpcReports PROVE o.said \in Said
  <2>1. CASE \E p \in RpcCalls : o = Report(p.said, {p})
    BY <1>1, <1>a, <2>1
  <2>2. CASE \E p \in RpcCalls, f \in RpcCalls : o = FailedOver(p, f)
    <3>1. PICK p \in RpcCalls, f \in RpcCalls : o = FailedOver(p, f)
      BY <2>2
    <3>2. o.said = IF f.said = "ok" THEN "ok" ELSE Combine(p.said, f.said)
      BY <1>a, <3>1 DEF FailedOver
    <3>3. QED
      BY <1>1, <1>3, <3>2
  <2>3. QED
    BY <1>5, <2>1, <2>2 DEF RpcReports
<1>6. \A o \in BothReports : o.said \in Said
  BY <1>4, <1>5 DEF BothReports
<1>7. QED
  BY <1>4, <1>5, <1>6 DEF Reports

-----------------------------------------------------------------------------
(* Type correctness.                                                       *)

\* Every step keeps the types and the budget, whatever fails.
LEMMA NextType == TypeOK /\ Budget /\ [Next]_vars => TypeOK' /\ Budget'
<1> SUFFICES ASSUME TypeOK, Budget, [Next]_vars PROVE TypeOK' /\ Budget'
  OBVIOUS
<1> DEFINE Outcomes == {"signed", "flying", "landed", "reverted", "dead"}
<1>0. /\ rec \in Records /\ row \in Records
      /\ known \subseteq Sigs /\ queue \subseteq Sigs
      /\ run \in [Callers -> Runs]
      /\ next \in 1..(MaxSig + 1)
      /\ tx \in [Sigs -> Outcomes]
      /\ NotRunning \in Runs /\ NoRecord \in Records
  BY DEF TypeOK, NotRunning, NoRecord, Records, Runs, Stages, Said, States
<1>a. /\ "failed" \in States /\ "expired" \in States /\ "pending" \in States
      /\ "confirmed" \in States /\ "validated" \in States /\ "submitted" \in States
      /\ "built" \in Stages \ {"rebuild"} /\ "submitted" \in Stages \ {"rebuild"}
      /\ "confirm" \in Stages \ {"rebuild"}
  BY DEF Stages, States
<1>b. RunsOK
  BY <1>0 DEF RunsOK
\* What each part of a step keeps is enough.
<1>c. ASSUME rec' \in Records, row' \in Records, known' \subseteq Sigs,
             queue' \subseteq Sigs, RunsOK', next' \in 1..(MaxSig + 1),
             tx' \in [Sigs -> Outcomes]
      PROVE  TypeOK' /\ Budget'
  BY <1>c DEF TypeOK, RunsOK
<1> HIDE DEF Outcomes
\* A caller's new attempt.
<1>d. ASSUME NEW c \in Callers, NEW n \in 1..MaxAttempts, next <= MaxSig,
             run' = [run EXCEPT ![c] = Attempt(n)], next' = next + 1
      PROVE  RunsOK' /\ next' \in 1..(MaxSig + 1)
  <2>1. next \in Sigs /\ next' \in 1..(MaxSig + 1)
    BY <1>0, <1>d DEF Sigs
  <2>2. Attempt(n) \in Runs /\ Attempt(n).stage = "begun" /\ Attempt(n).sig \in Sigs
    BY <2>1 DEF Attempt, Runs, Stages, Said, Sigs
  <2>3. run' \in [Callers -> Runs]
    BY <1>0, <1>d, <2>2
  <2>4. \A d \in Callers : run'[d] = run[d] \/ run'[d] = Attempt(n)
    BY <1>0, <1>d
  <2>5. QED
    BY <2>1, <2>2, <2>3, <2>4 DEF RunsOK, Budget
<1>1. ASSUME NEW c \in Callers, Begin(c) PROVE TypeOK' /\ Budget'
  <2>1. rec' \in Records /\ row' \in Records
    BY <1>1, BegunType DEF Begin
  <2>2. RunsOK' /\ next' \in 1..(MaxSig + 1)
    <3>1. 1 \in 1..MaxAttempts
      OBVIOUS
    <3>2. QED
      BY <1>1, <1>d, <3>1 DEF Begin
  <2>3. QED
    BY <1>0, <1>1, <1>c, <2>1, <2>2 DEF Begin
<1>2. ASSUME NEW c \in Callers, Rearm(c) PROVE TypeOK' /\ Budget'
  <2>1. CASE CanBegin(rec) /\ next <= MaxSig
    <3>1. rec' \in Records /\ row' \in Records
      BY <1>2, <2>1, BegunType DEF Rearm
    <3>2. run[c].attempt + 1 \in 1..MaxAttempts
      BY <1>0, <1>2 DEF Rearm, Budget, Runs
    <3>3. RunsOK' /\ next' \in 1..(MaxSig + 1)
      BY <1>2, <2>1, <3>2, <1>d DEF Rearm
    <3>4. QED
      BY <1>0, <1>2, <1>c, <3>1, <3>3 DEF Rearm
  <2>2. CASE ~(CanBegin(rec) /\ next <= MaxSig)
    BY <1>0, <1>b, <1>c, <1>2, <2>2, RunType DEF Rearm
  <2>3. QED
    BY <2>1, <2>2
<1>3. ASSUME NEW c \in Callers, Abort(c) PROVE TypeOK' /\ Budget'
  <2>1. rec' \in Records /\ row' \in Records
    BY <1>a, <1>3, MarkFailedType DEF Abort
  <2>2. RunsOK'
    BY <1>b, <1>3, RunType DEF Abort
  <2>3. QED
    BY <1>0, <1>3, <1>c, <2>1, <2>2 DEF Abort
<1>4. ASSUME NEW c \in Callers, Build(c) PROVE TypeOK' /\ Budget'
  <2>1. RunsOK'
    BY <1>a, <1>b, <1>4, RunType DEF Build
  <2>2. CASE rec.state = "none"
    BY <1>0, <1>4, <1>c, <2>1, <2>2 DEF Build
  <2>3. CASE rec.state # "none"
    <3>1. run[c].sig \in Sigs /\ run[c].sig \in 0..MaxSig
      BY <1>0, <1>4 DEF Build, Budget, Runs
    <3>2. [rec EXCEPT !.sig = run[c].sig] \in Records
      BY <1>0, <3>1 DEF Records
    <3>3. rec' \in Records /\ row' \in Records
      BY <1>a, <1>4, <2>3, <3>2, MarkType DEF Build
    <3>4. QED
      BY <1>0, <1>4, <1>c, <2>1, <2>3, <3>1, <3>3 DEF Build
  <2>4. QED
    BY <2>2, <2>3
<1>5. ASSUME NEW c \in Callers, Submit(c) PROVE TypeOK' /\ Budget'
  <2>1. rec' \in Records /\ row' \in Records
    BY <1>0, <1>a, <1>5, MarkType DEF Submit
  <2>2. RunsOK'
    BY <1>a, <1>b, <1>5, RunType DEF Submit
  <2>3. QED
    BY <1>0, <1>5, <1>c, <2>1, <2>2 DEF Submit
<1>6. ASSUME NEW c \in Callers, Transmit(c) PROVE TypeOK' /\ Budget'
  <2>1. PICK o \in Reports :
          /\ run' = [run EXCEPT ![c] = [@ EXCEPT !.stage = "sending", !.said = o.said]]
          /\ tx' = [tx EXCEPT ![run[c].sig] = IF o.left THEN "flying" ELSE @]
    BY <1>6 DEF Transmit
  <2>2. o.said \in Said
    BY ReportsSaid
  <2>3. tx' \in [Sigs -> Outcomes]
    BY <1>0, <2>1 DEF Outcomes
  <2>4. [run[c] EXCEPT !.stage = "sending", !.said = o.said] \in Runs
    BY <1>0, <2>2 DEF Runs, Stages
  <2>5. run' \in [Callers -> Runs]
    BY <1>0, <2>1, <2>4
  <2>6. RunsOK'
    <3>1. \A d \in Callers : d # c => run'[d] = run[d]
      BY <1>0, <2>1
    <3>2. run'[c].stage = "sending" /\ run'[c].sig = run[c].sig
      BY <1>0, <2>1 DEF Runs
    <3>3. run[c].sig \in Sigs
      BY <1>6 DEF Transmit, Budget
    <3>4. QED
      BY <2>5, <3>1, <3>2, <3>3 DEF RunsOK, Budget
  <2>7. QED
    BY <1>0, <1>6, <1>c, <2>3, <2>6 DEF Transmit
<1>7. ASSUME NEW c \in Callers, Answer(c) PROVE TypeOK' /\ Budget'
  <2>1. rec' \in Records /\ row' \in Records
    BY <1>0, <1>a, <1>7, MarkType, MarkFailedType DEF Answer
  <2>2. RunsOK'
    BY <1>a, <1>b, <1>7, RunType DEF Answer
  <2>3. QED
    BY <1>0, <1>7, <1>c, <2>1, <2>2 DEF Answer
<1>8. ASSUME NEW c \in Callers, Miss(c) PROVE TypeOK' /\ Budget'
  <2>1. run' \in [Callers -> Runs]
    BY <1>0, <1>8 DEF Miss, Runs
  <2>2. \A d \in Callers : /\ run'[d].stage = run[d].stage
                           /\ run'[d].attempt = run[d].attempt
                           /\ run'[d].sig = run[d].sig
    BY <1>0, <1>8 DEF Miss, Runs
  <2>3. RunsOK'
    BY <2>1, <2>2 DEF RunsOK, Budget
  <2>4. QED
    BY <1>0, <1>8, <1>c, <2>3 DEF Miss
<1>9. ASSUME NEW c \in Callers, Confirm(c) PROVE TypeOK' /\ Budget'
  <2>1. rec' \in Records /\ row' \in Records
    BY <1>0, <1>a, <1>9, MarkType, MarkFailedType DEF Confirm
  <2>2. RunsOK' /\ run[c].sig \in Sigs
    BY <1>b, <1>9, RunType DEF Confirm, Budget
  <2>3. QED
    BY <1>0, <1>9, <1>c, <2>1, <2>2 DEF Confirm
<1>10. ASSUME NEW c \in Callers, Timeout(c) PROVE TypeOK' /\ Budget'
  <2>1. rec' \in Records /\ row' \in Records
    BY <1>a, <1>10, MarkFailedType DEF Timeout
  <2>2. RunsOK' /\ run[c].sig \in Sigs
    BY <1>b, <1>10, RunType DEF Timeout, Budget
  <2>3. QED
    BY <1>0, <1>10, <1>c, <2>1, <2>2 DEF Timeout
<1>11. ASSUME NEW c \in Callers, Expired(c) PROVE TypeOK' /\ Budget'
  <2>1. rec' \in Records /\ row' \in Records
    BY <1>a, <1>11, MarkFailedType DEF Expired
  <2>2. RunsOK'
    BY <1>b, <1>11, RunType DEF Expired
  <2>3. QED
    BY <1>0, <1>11, <1>c, <2>1, <2>2 DEF Expired
<1>12. ASSUME NEW s \in Sigs, Land(s) PROVE TypeOK' /\ Budget'
  <2>1. tx' \in [Sigs -> Outcomes]
    BY <1>0, <1>12 DEF Land, Outcomes
  <2>2. RunsOK'
    BY <1>b, <1>12 DEF Land, RunsOK, Budget
  <2>3. QED
    BY <1>0, <1>12, <1>c, <2>1, <2>2 DEF Land
<1>13. ASSUME NEW s \in Sigs, Verdict(s) PROVE TypeOK' /\ Budget'
  <2>1. RunsOK' /\ queue' \subseteq Sigs
    BY <1>0, <1>b, <1>13 DEF Verdict, RunsOK, Budget
  <2>2. CASE s \in known /\ CanTransition(rec.state, "reconciled")
    <3> DEFINE f == tx[s] = "reverted"
    <3>1. rec' = [rec EXCEPT !.state = "reconciled", !.failed = f] /\ f \in BOOLEAN
      BY <1>13, <2>2 DEF Verdict
    <3> HIDE DEF f
    <3>2. rec' \in Records
      BY <1>0, <3>1 DEF Records, States
    <3>3. row' \in Records
      BY <1>13, <2>2, <3>2, PersistedType DEF Verdict
    <3>4. QED
      BY <1>0, <1>13, <1>c, <2>1, <3>2, <3>3 DEF Verdict
  <2>3. CASE ~(s \in known /\ CanTransition(rec.state, "reconciled"))
    BY <1>0, <1>13, <1>c, <2>1, <2>3 DEF Verdict
  <2>4. QED
    BY <2>2, <2>3
<1>14. ASSUME Restart PROVE TypeOK' /\ Budget'
  <2>1. PICK r \in {row} \cup (IF "restore" \in Faults THEN {NoRecord} ELSE {}) :
          /\ rec' = Recovered(r)
          /\ IF Recovered(r) = r THEN UNCHANGED row ELSE row' \in Persisted(Recovered(r))
          /\ known' = {r.sig} \ {0}
          /\ queue' = queue \cup (IF r.state \in {"submitted", "pending"}
                                  THEN {r.sig} \ {0} ELSE {})
    BY <1>14 DEF Restart
  <2>2. r \in Records
    BY <1>0, <2>1
  <2>3. rec' \in Records /\ row' \in Records
    BY <1>0, <2>1, <2>2, RecoveredType, PersistedType
  <2>4. {r.sig} \ {0} \subseteq Sigs
    BY <2>2 DEF Records, Sigs
  <2>5. RunsOK'
    BY <1>0, <1>14 DEF Restart, RunsOK, Budget, NotRunning
  <2>6. QED
    BY <1>0, <1>14, <1>c, <2>1, <2>3, <2>4, <2>5 DEF Restart
<1>15. ASSUME Evict PROVE TypeOK' /\ Budget'
  BY <1>0, <1>b, <1>15, <1>c DEF Evict, RunsOK, Budget
<1>16. CASE UNCHANGED vars
  BY <1>16 DEF vars, TypeOK, Budget
<1>17. QED
  BY <1>1, <1>2, <1>3, <1>4, <1>5, <1>6, <1>7, <1>8, <1>9, <1>10, <1>11, <1>12,
     <1>13, <1>14, <1>15, <1>16 DEF Next, CallerStep

\* The record, the row, the callers, the transactions and the queue always
\* have their types, whatever combination of faults happens.
THEOREM TypeCorrect == Spec => [](TypeOK /\ Budget)
<1>1. Init => TypeOK /\ Budget
  BY DEF Init, TypeOK, Budget, NotRunning, NoRecord, Records, Runs, Stages, Said, States, Sigs
<1>2. QED
  BY <1>1, NextType, PTL DEF Spec

-----------------------------------------------------------------------------
(* The ledger while no fault happens.                                      *)

\* What holds before a step.
Good == TypeOK /\ Budget /\ LedgerInv

\* Without the sink fault a transition is durable with it.
LEMMA Durable ==
    ASSUME Faults = {}, NEW r, row' \in Persisted(r)
    PROVE  row' = r
BY DEF Persisted

\* A legal transition, field by field.
LEMMA MarkFields ==
    ASSUME Faults = {}, NEW r \in Records, NEW to \in States,
           CanTransition(r.state, to), Mark(r, to)
    PROVE  /\ rec'.state = to /\ rec'.sig = r.sig
           /\ rec'.failed = (r.failed /\ to # "confirmed")
           /\ row' = rec'
<1> DEFINE f == r.failed /\ to # "confirmed"
<1>1. rec' = [r EXCEPT !.state = to, !.failed = f] /\ row' \in Persisted(rec')
  BY DEF Mark
<1> HIDE DEF f
<1>2. rec'.state = to /\ rec'.sig = r.sig /\ rec'.failed = f
  BY <1>1 DEF Records
<1>3. row' = rec'
  BY <1>1, Durable
<1>4. QED
  BY <1>2, <1>3 DEF f

\* A legal failure transition, field by field.
LEMMA MarkFailedFields ==
    ASSUME Faults = {}, rec \in Records, NEW to \in States,
           CanTransition(rec.state, to), rec.state # to, MarkFailed(to)
    PROVE  /\ rec'.state = to /\ rec'.sig = rec.sig /\ rec'.failed = TRUE
           /\ row' = rec'
<1>1. rec' = [rec EXCEPT !.state = to, !.failed = TRUE] /\ row' \in Persisted(rec')
  BY DEF MarkFailed
<1>2. rec'.state = to /\ rec'.sig = rec.sig /\ rec'.failed = TRUE
  BY <1>1 DEF Records
<1>3. QED
  BY <1>1, <1>2, Durable

\* The one working caller moves on: it keeps its transaction, and no other
\* caller works.
LEMMA Moves ==
    ASSUME run \in [Callers -> Runs], SoleRunner, NEW c \in Callers, Working(c),
           NEW stage \in Stages, Goes(c, stage)
    PROVE  /\ run'[c].stage = stage /\ run'[c].sig = run[c].sig
           /\ run'[c].said = run[c].said
           /\ \A d \in Callers : d # c => ~Working(d)'
<1>1. run'[c].stage = stage /\ run'[c].sig = run[c].sig /\ run'[c].said = run[c].said
  BY DEF Goes, Runs
<1>2. \A d \in Callers : d # c => run'[d] = run[d]
  BY DEF Goes
<1>3. QED
  BY <1>1, <1>2 DEF SoleRunner, Working

\* The one working caller stops working: nobody works.
LEMMA Ends ==
    ASSUME run \in [Callers -> Runs], SoleRunner, NEW c \in Callers, Working(c),
           NEW b \in BOOLEAN, Settles(c, b) \/ Returns(c)
    PROVE  \A d \in Callers : ~Working(d)'
<1>1. \A d \in Callers : d # c => run'[d] = run[d]
  BY DEF Settles, Goes, Returns
<1>2. run'[c].stage \in {"idle", "rebuild"}
  BY DEF Settles, Goes, Returns, NotRunning, Runs
<1>3. QED
  BY <1>1, <1>2 DEF SoleRunner, Working

\* The states in which a caller works: begin refuses every one of them.
LEMMA WorkingState ==
    ASSUME InStep, NEW c \in Callers, Working(c), run \in [Callers -> Runs]
    PROVE  rec.state \in {"created", "validated", "submitted", "pending"}
BY DEF InStep, Working, Runs, Stages

\* begin accepts the intent: nothing may land, nobody works, and no queued
\* signature leads to the record.
LEMMA BeginnableIsQuiet ==
    ASSUME Good, CanBegin(rec)
    PROVE  /\ \A s \in Sigs : ~Alive(s)
           /\ \A c \in Callers : ~Working(c)
           /\ queue \cap known = {}
<1>1. \A s \in Sigs : ~Alive(s)
  BY DEF Good, LedgerInv, TracksAlive, CanBegin, CanRearm
<1>2. \A c \in Callers : ~Working(c)
  BY WorkingState DEF Good, LedgerInv, TypeOK, CanBegin, CanRearm
<1>3. queue \cap known = {}
  BY DEF Good, LedgerInv, QueueOwn, CanBegin, CanRearm
<1>4. QED
  BY <1>1, <1>2, <1>3

\* A caller starts an attempt, its first or a rebuild.
LEMMA Starts ==
    ASSUME Faults = {}, Good, NEW c \in Callers, NEW n, CanBegin(rec), next <= MaxSig,
           Begun, run' = [run EXCEPT ![c] = Attempt(n)], next' = next + 1,
           UNCHANGED <<known, tx, queue>>
    PROVE  LedgerInv'
<1>0. next \in 1..MaxSig /\ run \in [Callers -> Runs]
  BY DEF Good, TypeOK
<1>1. rec'.state = "created" /\ rec'.sig = 0 /\ rec'.failed = FALSE /\ row' = rec'
  BY Durable DEF Begun
<1>2. run'[c].stage = "begun" /\ run'[c].sig = next
  BY <1>0 DEF Attempt
<1>3. \A d \in Callers : d # c => ~Working(d)'
  <2>1. \A d \in Callers : d # c => run'[d] = run[d]
    BY <1>0
  <2>2. QED
    BY <2>1, BeginnableIsQuiet DEF Working
<1>4. \A s \in Sigs : ~Alive(s)'
  BY BeginnableIsQuiet DEF Alive
<1>5. next \in Sigs /\ tx[next] = "signed" /\ next \notin queue /\ queue \subseteq 1..(next - 1)
  BY <1>0 DEF Good, LedgerInv, Issued, Sigs
<1>6. TracksAlive'
  BY <1>4 DEF TracksAlive
<1>7. RowAgrees'
  BY <1>1 DEF RowAgrees
<1>8. InStep'
  BY <1>0, <1>1, <1>2, <1>3, <1>5 DEF InStep, Working
<1>9. SoleRunner'
  BY <1>3 DEF SoleRunner
<1>10. QueueOwn'
  BY BeginnableIsQuiet DEF QueueOwn
<1>11. Issued'
  <2>1. queue' \subseteq 1..(next' - 1)
    BY <1>0, <1>5
  <2>2. \A s \in Sigs : s >= next' => tx'[s] = "signed"
    BY <1>0 DEF Good, LedgerInv, Issued, Sigs
  <2>3. QED
    BY <1>0, <1>1, <2>1, <2>2 DEF Issued
<1>12. QED
  BY <1>6, <1>7, <1>8, <1>9, <1>10, <1>11 DEF LedgerInv

\* A working caller gives its attempt up, with nothing left that may land.
LEMMA Dies ==
    ASSUME Faults = {}, Good, NEW c \in Callers, Working(c),
           NEW to \in {"failed", "expired"}, MarkFailed(to),
           NEW b \in BOOLEAN, Settles(c, b) \/ Returns(c),
           \A s \in Sigs : ~Alive(s),
           UNCHANGED <<known, next, tx, queue>>
    PROVE  LedgerInv'
<1>0. rec \in Records /\ run \in [Callers -> Runs] /\ SoleRunner /\ InStep
  BY DEF Good, TypeOK, LedgerInv
<1>1. rec.state \in {"created", "validated", "submitted", "pending"}
  BY <1>0, WorkingState
<1>2. to \in States /\ rec.state # to /\ CanTransition(rec.state, to)
  BY <1>1 DEF States, CanTransition
<1>3. rec'.state = to /\ rec'.sig = rec.sig /\ rec'.failed = TRUE /\ row' = rec'
  BY <1>0, <1>2, MarkFailedFields
<1>4. \A d \in Callers : ~Working(d)'
  BY <1>0, Ends
<1>5. queue \cap known = {}
  BY DEF Good, LedgerInv, QueueOwn
<1>6. TracksAlive'
  BY DEF TracksAlive, Alive
<1>7. RowAgrees'
  BY <1>3 DEF RowAgrees
<1>8. InStep' /\ SoleRunner'
  BY <1>4 DEF InStep, SoleRunner
<1>9. QueueOwn'
  BY <1>5 DEF QueueOwn
<1>10. Issued'
  BY <1>3 DEF Good, LedgerInv, Issued
<1>11. QED
  BY <1>6, <1>7, <1>8, <1>9, <1>10 DEF LedgerInv

\* The steps of a working caller up to the broadcast.
LEMMA SendingSteps ==
    ASSUME Faults = {}, Good, NEW c \in Callers,
           Build(c) \/ Submit(c) \/ Transmit(c)
    PROVE  LedgerInv'
<1>0. /\ rec \in Records /\ run \in [Callers -> Runs]
      /\ SoleRunner /\ InStep /\ Working(c)
  BY DEF Good, TypeOK, LedgerInv, Working, Build, Submit, Transmit
<1>1. queue \cap known = {} /\ run[c].sig \notin queue /\ run[c].sig \in 1..(next - 1)
  BY <1>0 DEF Good, LedgerInv, QueueOwn, InStep
<1>2. run[c].sig \in Sigs /\ next \in 1..(MaxSig + 1)
  BY <1>0 DEF Good, TypeOK, Budget, Working
<1>3. {"built", "submitted", "sending"} \subseteq Stages
      /\ {"validated", "submitted"} \subseteq States
  BY DEF Stages, States
\* The parts that follow from where the caller and the record now are.
<1>4. CASE Build(c)
  <2>1. rec.state = "created" /\ tx[run[c].sig] = "signed"
    BY <1>0, <1>4 DEF Build, InStep
  <2> DEFINE r == [rec EXCEPT !.sig = run[c].sig]
  <2>2. r \in Records /\ r.state = "created" /\ r.sig = run[c].sig /\ r.failed = rec.failed
    BY <1>0, <1>2, <2>1 DEF Records, Sigs
  <2>3. Mark(r, "validated") /\ known' = known \cup {run[c].sig}
    BY <1>4, <2>1 DEF Build
  <2> HIDE DEF r
  <2>4. rec'.state = "validated" /\ rec'.sig = run[c].sig /\ row' = rec'
    BY <1>3, <2>2, <2>3, MarkFields DEF CanTransition
  <2>5. /\ run'[c].stage = "built" /\ run'[c].sig = run[c].sig
        /\ \A d \in Callers : d # c => ~Working(d)'
    BY <1>0, <1>3, <1>4, Moves DEF Build
  <2>6. next' = next /\ tx' = tx /\ queue' = queue
    BY <1>4 DEF Build
  <2>7. TracksAlive'
    BY <2>1, <2>6 DEF Good, LedgerInv, TracksAlive, Alive
  <2>8. RowAgrees'
    BY <2>4 DEF RowAgrees
  <2>9. InStep'
    BY <1>1, <2>1, <2>4, <2>5, <2>6 DEF InStep, Working
  <2>10. SoleRunner'
    BY <2>5 DEF SoleRunner
  <2>11. QueueOwn'
    BY <1>1, <2>3, <2>6 DEF QueueOwn
  <2>12. Issued'
    BY <1>1, <1>2, <2>3, <2>4, <2>6 DEF Good, LedgerInv, Issued
  <2>13. QED
    BY <2>7, <2>8, <2>9, <2>10, <2>11, <2>12 DEF LedgerInv
<1>5. CASE Submit(c)
  <2>1. rec.state = "validated" /\ rec.sig = run[c].sig /\ tx[run[c].sig] = "signed"
    BY <1>0, <1>5 DEF Submit, InStep, Working
  <2>2. rec'.state = "submitted" /\ rec'.sig = run[c].sig /\ row' = rec'
    BY <1>0, <1>3, <1>5, <2>1, MarkFields DEF Submit, CanTransition
  <2>3. /\ run'[c].stage = "submitted" /\ run'[c].sig = run[c].sig
        /\ \A d \in Callers : d # c => ~Working(d)'
    BY <1>0, <1>3, <1>5, Moves DEF Submit
  <2>4. next' = next /\ tx' = tx /\ queue' = queue /\ known' = known
    BY <1>5 DEF Submit
  <2>5. TracksAlive'
    BY <2>1, <2>4 DEF Good, LedgerInv, TracksAlive, Alive
  <2>6. RowAgrees'
    BY <2>2 DEF RowAgrees
  <2>7. InStep'
    BY <1>1, <2>1, <2>2, <2>3, <2>4 DEF InStep, Working
  <2>8. SoleRunner'
    BY <2>3 DEF SoleRunner
  <2>9. QueueOwn'
    BY <1>1, <2>4 DEF QueueOwn
  <2>10. Issued'
    BY <2>1, <2>2, <2>4 DEF Good, LedgerInv, Issued
  <2>11. QED
    BY <2>5, <2>6, <2>7, <2>8, <2>9, <2>10 DEF LedgerInv
<1>6. CASE Transmit(c)
  <2>1. PICK o \in Reports :
          /\ run' = [run EXCEPT ![c] = [@ EXCEPT !.stage = "sending", !.said = o.said]]
          /\ tx' = [tx EXCEPT ![run[c].sig] = IF o.left THEN "flying" ELSE @]
    BY <1>6 DEF Transmit
  <2>2. Refused(o.said) => ~o.left
    BY DEF Reports
  <2>3. /\ rec.state = "submitted" /\ rec.sig = run[c].sig
        /\ tx[run[c].sig] = "signed" /\ tx \in [Sigs -> {"signed", "flying", "landed", "reverted", "dead"}]
    BY <1>0, <1>6 DEF Transmit, InStep, Working, Good, TypeOK
  <2>4. run'[c].stage = "sending" /\ run'[c].sig = run[c].sig /\ run'[c].said = o.said
    BY <1>0, <2>1 DEF Runs
  <2>5. \A d \in Callers : d # c => ~Working(d)'
    <3>1. \A d \in Callers : d # c => run'[d] = run[d]
      BY <1>0, <2>1
    <3>2. QED
      BY <1>0, <3>1 DEF SoleRunner, Working
  <2>6. /\ rec' = rec /\ row' = row /\ known' = known /\ next' = next /\ queue' = queue
    BY <1>6 DEF Transmit
  <2>7. /\ \A s \in Sigs : s # run[c].sig => tx'[s] = tx[s]
        /\ tx'[run[c].sig] = IF o.left THEN "flying" ELSE "signed"
    BY <1>2, <2>1, <2>3
  <2>8. TracksAlive'
    BY <1>2, <2>3, <2>6, <2>7 DEF Good, LedgerInv, TracksAlive, Alive
  <2>9. RowAgrees'
    BY <2>6 DEF Good, LedgerInv, RowAgrees
  <2>10. InStep'
    BY <1>1, <2>2, <2>3, <2>4, <2>5, <2>6, <2>7 DEF InStep, Working, Alive
  <2>11. SoleRunner'
    BY <2>5 DEF SoleRunner
  <2>12. QueueOwn'
    BY <1>1, <2>6 DEF QueueOwn
  <2>13. Issued'
    BY <1>1, <1>2, <2>3, <2>6, <2>7 DEF Good, LedgerInv, Issued, Sigs
  <2>14. QED
    BY <2>8, <2>9, <2>10, <2>11, <2>12, <2>13 DEF LedgerInv
<1>7. QED
  BY <1>4, <1>5, <1>6

\* The answer of the broadcast.
LEMMA AnswerStep ==
    ASSUME Faults = {}, Good, NEW c \in Callers, Answer(c)
    PROVE  LedgerInv'
<1>0. /\ rec \in Records /\ run \in [Callers -> Runs]
      /\ SoleRunner /\ InStep /\ Working(c)
  BY DEF Good, TypeOK, LedgerInv, Working, Answer
<1>1. queue \cap known = {} /\ run[c].sig \notin queue /\ run[c].sig \in 1..(next - 1)
  BY <1>0 DEF Good, LedgerInv, QueueOwn, InStep
<1>2. rec.state = "submitted" /\ rec.sig = run[c].sig
  BY <1>0 DEF InStep, Answer, Working
<1>3. known' = known /\ next' = next /\ tx' = tx /\ queue' = queue
  BY DEF Answer
<1>4. CASE run[c].said \in {"ok", "maybe"}
  <2>1. (Mark(rec, "pending") \/ MarkFailed("pending")) /\ Goes(c, "confirm")
    BY <1>4 DEF Answer
  <2>2. "pending" \in States /\ "confirm" \in Stages
    BY DEF States, Stages
  <2>3. rec'.state = "pending" /\ rec'.sig = rec.sig /\ row' = rec'
    BY <1>0, <1>2, <2>1, <2>2, MarkFields, MarkFailedFields DEF CanTransition
  <2>4. /\ run'[c].stage = "confirm" /\ run'[c].sig = run[c].sig
        /\ \A d \in Callers : d # c => ~Working(d)'
    BY <1>0, <2>1, <2>2, Moves
  <2>5. TracksAlive'
    BY <1>3, <2>3 DEF Good, LedgerInv, TracksAlive, Alive
  <2>6. RowAgrees'
    BY <2>3 DEF RowAgrees
  <2>7. InStep'
    BY <1>1, <1>2, <1>3, <2>3, <2>4 DEF InStep, Working
  <2>8. SoleRunner'
    BY <2>4 DEF SoleRunner
  <2>9. QueueOwn'
    BY <1>1, <1>3 DEF QueueOwn
  <2>10. Issued'
    BY <1>2, <1>3, <2>3 DEF Good, LedgerInv, Issued
  <2>11. QED
    BY <2>5, <2>6, <2>7, <2>8, <2>9, <2>10 DEF LedgerInv
<1>5. CASE Refused(run[c].said)
  <2>1. \A s \in Sigs : ~Alive(s)
    BY <1>0, <1>2, <1>5 DEF Good, LedgerInv, TracksAlive, InStep, Answer
  <2>2. PICK to \in {"failed", "expired"}, b \in BOOLEAN : MarkFailed(to) /\ Settles(c, b)
    <3>1. CASE run[c].said = "stale"
      BY <3>1 DEF Answer
    <3>2. CASE run[c].said \in {"limited", "no"}
      BY <3>2 DEF Answer
    <3>3. QED
      BY <1>5, <3>1, <3>2 DEF Refused
  <2>3. QED
    BY <1>0, <1>3, <2>1, <2>2, Dies
<1>6. QED
  BY <1>4, <1>5 DEF Answer, Refused

\* Waiting for confirmation.
LEMMA ConfirmSteps ==
    ASSUME Faults = {}, Good, NEW c \in Callers,
           Miss(c) \/ Confirm(c) \/ Timeout(c) \/ Expired(c)
    PROVE  LedgerInv'
<1>0. /\ rec \in Records /\ run \in [Callers -> Runs]
      /\ SoleRunner /\ InStep /\ Working(c) /\ run[c].stage = "confirm"
  BY DEF Good, TypeOK, LedgerInv, Working, Miss, Confirm, Timeout, Expired
<1>1. queue \cap known = {} /\ run[c].sig \notin queue /\ run[c].sig \in 1..(next - 1)
  BY <1>0 DEF Good, LedgerInv, QueueOwn, InStep
<1>2. rec.state = "pending" /\ rec.sig = run[c].sig /\ run[c].sig \in Sigs
  BY <1>0 DEF InStep, Good, Budget
<1>3. row.state = "pending" /\ row.sig = rec.sig
  BY <1>2 DEF Good, LedgerInv, RowAgrees
<1>4. "confirmed" \in States /\ "pending" \in States
  BY DEF States
\* The signature goes to reconciliation and the run ends.
<1>5. ASSUME rec'.state \in {"pending", "confirmed"}, rec'.sig = rec.sig,
             rec'.state = "confirmed" => tx[rec.sig] = "landed",
             RowAgrees', Returns(c), queue' = queue \cup {run[c].sig},
             UNCHANGED <<known, next, tx>>
      PROVE  LedgerInv'
  <2>1. \A d \in Callers : ~Working(d)'
    BY <1>0, <1>5, Ends
  <2>2. TracksAlive'
    BY <1>5 DEF Good, LedgerInv, TracksAlive, Alive
  <2>3. InStep' /\ SoleRunner'
    BY <2>1 DEF InStep, SoleRunner
  <2>4. QueueOwn'
    BY <1>1, <1>2, <1>5, <2>1 DEF QueueOwn
  <2>5. Issued'
    BY <1>1, <1>2, <1>5 DEF Good, LedgerInv, Issued
  <2>6. QED
    BY <1>5, <2>2, <2>3, <2>4, <2>5 DEF LedgerInv
<1>6. CASE Miss(c)
  <2>1. /\ \A d \in Callers : /\ run'[d].stage = run[d].stage
                              /\ run'[d].sig = run[d].sig
                              /\ run'[d].said = run[d].said
        /\ UNCHANGED <<rec, known, row, next, tx, queue>>
    BY <1>0, <1>6 DEF Miss, Runs
  <2>2. TracksAlive' /\ RowAgrees' /\ Issued'
    BY <2>1 DEF Good, LedgerInv, TracksAlive, RowAgrees, Issued, Alive
  <2>3. InStep'
    BY <2>1, <1>0 DEF InStep, Working, Alive
  <2>4. SoleRunner'
    BY <2>1, <1>0 DEF SoleRunner, Working
  <2>5. QueueOwn'
    BY <2>1 DEF Good, LedgerInv, QueueOwn, Working
  <2>6. QED
    BY <2>2, <2>3, <2>4, <2>5 DEF LedgerInv
<1>7. CASE Confirm(c)
  <2>1. CASE tx[run[c].sig] = "landed"
    <3>1. Mark(rec, "confirmed") /\ queue' = queue \cup {run[c].sig}
      BY <1>7, <2>1 DEF Confirm
    <3>2. rec'.state = "confirmed" /\ rec'.sig = rec.sig /\ row' = rec'
      BY <1>0, <1>2, <1>4, <3>1, MarkFields DEF CanTransition
    <3>3. RowAgrees'
      BY <3>2 DEF RowAgrees
    <3>4. QED
      BY <1>2, <1>5, <1>7, <2>1, <3>1, <3>2, <3>3 DEF Confirm
  <2>2. CASE tx[run[c].sig] = "reverted"
    <3>1. \A s \in Sigs : ~Alive(s)
      BY <1>2, <2>2 DEF Good, LedgerInv, TracksAlive, Alive
    <3>2. MarkFailed("failed") /\ Returns(c) /\ UNCHANGED <<known, next, tx, queue>>
      BY <1>7, <2>2 DEF Confirm
    <3>3. QED
      BY <1>0, <3>1, <3>2, Dies
  <2>3. QED
    BY <1>7, <2>1, <2>2 DEF Confirm
<1>8. CASE Timeout(c)
  <2>1. rec' = [rec EXCEPT !.failed = TRUE] /\ row' = row
    BY <1>2, <1>8 DEF Timeout, MarkFailed
  <2>2. rec'.state = "pending" /\ rec'.sig = rec.sig
    BY <1>0, <1>2, <2>1 DEF Records
  <2>3. RowAgrees'
    BY <1>3, <2>1, <2>2 DEF RowAgrees
  <2>4. QED
    BY <1>5, <1>8, <2>2, <2>3 DEF Timeout
<1>9. CASE Expired(c)
  <2>1. tx[run[c].sig] = "dead"
    BY <1>9 DEF Expired
  <2>2. \A s \in Sigs : ~Alive(s)
    BY <1>2, <2>1 DEF Good, LedgerInv, TracksAlive, Alive
  <2>3. QED
    BY <1>0, <1>9, <2>2, Dies DEF Expired
<1>10. QED
  BY <1>6, <1>7, <1>8, <1>9

\* The cluster decides a transaction in flight.
LEMMA LandStep ==
    ASSUME Good, NEW s \in Sigs, Land(s)
    PROVE  LedgerInv'
<1>0. tx \in [Sigs -> {"signed", "flying", "landed", "reverted", "dead"}]
  BY DEF Good, TypeOK
<1>1. /\ tx[s] = "flying" /\ tx'[s] \in {"landed", "reverted", "dead"}
      /\ \A t \in Sigs : t # s => tx'[t] = tx[t]
      /\ UNCHANGED <<rec, known, row, run, next, queue>>
  BY <1>0 DEF Land
<1>2. \A t \in Sigs : Alive(t)' => Alive(t)
  BY <1>1 DEF Alive
<1>3. \A t \in Sigs : tx[t] \in {"signed", "landed"} => tx'[t] = tx[t]
  BY <1>1
<1>4. TracksAlive' /\ RowAgrees'
  BY <1>1, <1>2 DEF Good, LedgerInv, TracksAlive, RowAgrees
<1>5. InStep'
  <2>1. \A c \in Callers : Working(c) => run[c].sig \in Sigs
    BY DEF Good, Budget, Working
  <2>2. QED
    BY <1>1, <1>2, <1>3, <2>1 DEF Good, LedgerInv, InStep, Working
<1>6. SoleRunner' /\ QueueOwn'
  BY <1>1 DEF Good, LedgerInv, SoleRunner, QueueOwn, Working
<1>7. Issued'
  BY <1>1, <1>3 DEF Good, LedgerInv, Issued
<1>8. QED
  BY <1>4, <1>5, <1>6, <1>7 DEF LedgerInv

\* A verdict of reconciliation closes the record of its own signature only.
LEMMA VerdictStep ==
    ASSUME Faults = {}, Good, NEW s \in Sigs, Verdict(s)
    PROVE  LedgerInv'
<1>0. rec \in Records
  BY DEF Good, TypeOK
<1>1. queue' = queue \ {s} /\ UNCHANGED <<known, run, next, tx>>
  BY DEF Verdict
<1>2. CASE s \in known /\ CanTransition(rec.state, "reconciled")
  <2>1. s = rec.sig /\ \A c \in Callers : ~Working(c)
    BY <1>2 DEF Good, LedgerInv, QueueOwn, Verdict
  <2> DEFINE f == tx[s] = "reverted"
  <2>2. rec' = [rec EXCEPT !.state = "reconciled", !.failed = f] /\ row' \in Persisted(rec')
    BY <1>2 DEF Verdict
  <2> HIDE DEF f
  <2>3. rec'.state = "reconciled" /\ rec'.sig = rec.sig /\ rec'.failed = f /\ row' = rec'
    BY <1>0, <2>2, Durable DEF Records
  <2>4. TracksAlive'
    BY <1>1, <2>1, <2>3 DEF Good, LedgerInv, TracksAlive, Alive, f
  <2>5. RowAgrees'
    BY <2>3 DEF RowAgrees
  <2>6. InStep' /\ SoleRunner'
    BY <1>1, <2>1 DEF InStep, SoleRunner, Working
  <2>7. QueueOwn'
    BY <1>1, <2>1, <2>3 DEF Good, LedgerInv, QueueOwn
  <2>8. Issued'
    BY <1>1, <2>3 DEF Good, LedgerInv, Issued
  <2>9. QED
    BY <2>4, <2>5, <2>6, <2>7, <2>8 DEF LedgerInv
<1>3. CASE ~(s \in known /\ CanTransition(rec.state, "reconciled"))
  <2>1. rec' = rec /\ row' = row
    BY <1>3 DEF Verdict
  <2>2. TracksAlive' /\ RowAgrees'
    BY <1>1, <2>1 DEF Good, LedgerInv, TracksAlive, RowAgrees, Alive
  <2>3. InStep'
    BY <1>1, <2>1 DEF Good, LedgerInv, InStep, Working, Alive
  <2>4. SoleRunner' /\ QueueOwn' /\ Issued'
    BY <1>1, <2>1 DEF Good, LedgerInv, SoleRunner, QueueOwn, Issued, Working
  <2>5. QED
    BY <2>2, <2>3, <2>4 DEF LedgerInv
<1>4. QED
  BY <1>2, <1>3

\* A restart rebuilds the ledger from rows that agree with it.
LEMMA RestartStep ==
    ASSUME Faults = {}, Good, Restart
    PROVE  LedgerInv'
<1>0. rec \in Records /\ row \in Records /\ next \in 1..(MaxSig + 1)
  BY DEF Good, TypeOK
<1>1. /\ rec' = Recovered(row)
      /\ row' = Recovered(row)
      /\ known' = {row.sig} \ {0}
      /\ queue' = queue \cup (IF row.state \in {"submitted", "pending"}
                              THEN {row.sig} \ {0} ELSE {})
      /\ next' = next /\ tx' = tx
  BY Durable DEF Restart
<1>2. row.state = rec.state /\ row.sig = rec.sig
      /\ (rec.state # "pending" => row.failed = rec.failed)
  BY DEF Good, LedgerInv, RowAgrees
<1>3. /\ rec'.sig = rec.sig
      /\ rec'.state = IF rec.state \in {"created", "validated"} THEN "failed"
                      ELSE IF rec.state = "submitted" THEN "pending" ELSE rec.state
      /\ rec.state = "reconciled" => rec'.failed = rec.failed
  BY <1>0, <1>1, <1>2 DEF Recovered, Records
<1>4. \A c \in Callers : ~Working(c)'
  BY DEF Restart, NotRunning, Working
<1>5. TracksAlive'
  BY <1>1, <1>3 DEF Good, LedgerInv, TracksAlive, Alive
<1>6. RowAgrees'
  BY <1>1 DEF RowAgrees
<1>7. InStep' /\ SoleRunner'
  BY <1>4 DEF InStep, SoleRunner
<1>8. rec.sig \in 0..(next - 1) /\ (rec.sig # 0 => rec.sig \in known)
  BY DEF Good, LedgerInv, Issued
<1>9. QueueOwn'
  <2>1. ASSUME NEW s \in queue' \cap known'
        PROVE  /\ s = rec'.sig
               /\ \/ rec'.state \in {"pending", "confirmed"}
                  \/ rec'.state = "reconciled" /\ ~rec'.failed
    <3>1. s = rec.sig /\ s # 0
      BY <1>1, <1>2, <2>1
    <3>2. CASE s \in queue
      BY <1>3, <1>8, <3>1, <3>2 DEF Good, LedgerInv, QueueOwn
    <3>3. CASE s \notin queue
      BY <1>1, <1>2, <1>3, <2>1, <3>1, <3>3
    <3>4. QED
      BY <3>2, <3>3
  <2>2. QED
    BY <1>4, <2>1 DEF QueueOwn
<1>10. Issued'
  <2>1. queue' \subseteq 1..(next' - 1)
    <3>1. queue \subseteq 1..(next - 1)
      BY DEF Good, LedgerInv, Issued
    <3>2. {row.sig} \ {0} \subseteq 1..(next - 1)
      BY <1>0, <1>2, <1>8
    <3>3. QED
      BY <1>1, <3>1, <3>2
  <2>2. rec'.state = "confirmed" => rec'.sig \in Sigs /\ tx'[rec'.sig] = "landed"
    BY <1>1, <1>3 DEF Good, LedgerInv, Issued
  <2>3. QED
    BY <1>1, <1>2, <1>3, <1>8, <2>1, <2>2 DEF Good, LedgerInv, Issued
<1>11. QED
  BY <1>5, <1>6, <1>7, <1>9, <1>10 DEF LedgerInv

\* LedgerInv is inductive, together with the types, while no fault happens.
LEMMA NextLedger == Faults = {} /\ Good /\ [Next]_vars => LedgerInv'
<1> SUFFICES ASSUME Faults = {}, Good, [Next]_vars PROVE LedgerInv'
  OBVIOUS
<1>1. ASSUME NEW c \in Callers, Begin(c) PROVE LedgerInv'
  BY <1>1, Starts DEF Begin
<1>2. ASSUME NEW c \in Callers, Rearm(c) PROVE LedgerInv'
  <2>1. CASE CanBegin(rec) /\ next <= MaxSig
    BY <1>2, <2>1, Starts DEF Rearm
  <2>2. CASE ~(CanBegin(rec) /\ next <= MaxSig)
    <3>1. Returns(c) /\ UNCHANGED <<rec, row, next, known, tx, queue>> /\ ~Working(c)
      BY <1>2, <2>2 DEF Rearm, Working
    <3>2. \A d \in Callers : ~Working(d)' \/ run'[d] = run[d]
      BY <3>1 DEF Returns, Working, NotRunning, Good, TypeOK
    <3>3. TracksAlive' /\ RowAgrees' /\ Issued'
      BY <3>1 DEF Good, LedgerInv, TracksAlive, RowAgrees, Issued, Alive
    <3>4. InStep'
      BY <3>1, <3>2 DEF Good, LedgerInv, InStep, Working, Alive
    <3>5. SoleRunner' /\ QueueOwn'
      BY <3>1, <3>2 DEF Good, LedgerInv, SoleRunner, QueueOwn, Working
    <3>6. QED
      BY <3>3, <3>4, <3>5 DEF LedgerInv
  <2>3. QED
    BY <2>1, <2>2
<1>3. ASSUME NEW c \in Callers, Abort(c) PROVE LedgerInv'
  <2>1. Working(c) /\ rec.state \in {"created", "validated"}
    BY <1>3 DEF Abort, Working, Good, LedgerInv, InStep
  <2>2. \A s \in Sigs : ~Alive(s)
    BY <2>1 DEF Good, LedgerInv, TracksAlive
  <2>3. QED
    BY <1>3, <2>1, <2>2, Dies DEF Abort
<1>4. ASSUME NEW c \in Callers, CallerStep(c) PROVE LedgerInv'
  BY <1>1, <1>2, <1>3, <1>4, SendingSteps, AnswerStep, ConfirmSteps DEF CallerStep
<1>5. ASSUME Evict PROVE LedgerInv'
  BY <1>5 DEF Evict
<1>6. CASE UNCHANGED vars
  BY <1>6 DEF vars, Good, LedgerInv, TracksAlive, RowAgrees, InStep, SoleRunner,
              QueueOwn, Issued, Working, Alive
<1>7. QED
  BY <1>4, <1>5, <1>6, LandStep, VerdictStep, RestartStep DEF Next

\* The ledger, its durable row, the callers and the queue stay in step, for
\* any number of callers, attempts, rebuilds and restarts, as long as every
\* refused broadcast was heard, every row is written and read, a failed
\* reread does not happen, verdicts are applied once and nothing is evicted.
THEOREM LedgerStaysInStep ==
    ASSUME Faults = {} PROVE Spec => []LedgerInv
<1>1. Init => LedgerInv
  BY DEF Init, LedgerInv, TracksAlive, RowAgrees, InStep, SoleRunner, QueueOwn, Issued,
         Working, Alive, NoRecord, NotRunning, Sigs
<1>2. TypeOK /\ Budget /\ LedgerInv /\ [Next]_vars => LedgerInv'
  BY NextLedger DEF Good
<1>3. QED
  BY <1>1, <1>2, TypeCorrect, PTL DEF Spec

\* Whenever begin would accept the intent again, every transaction it ever
\* signed has failed, expired or never left: what can_rearm claims.
THEOREM RearmableIsAlwaysDead ==
    ASSUME Faults = {} PROVE Spec => []RearmableIsDead
<1>1. LedgerInv => RearmableIsDead
  BY DEF LedgerInv, TracksAlive, RearmableIsDead, CanBegin, CanRearm
<1>2. Spec => []LedgerInv
  BY LedgerStaysInStep
<1>3. QED
  BY <1>1, <1>2, PTL

\* An intent moves money at most once.
THEOREM LandsAtMostOnce ==
    ASSUME Faults = {} PROVE Spec => []AtMostOneLanding
<1>1. LedgerInv => AtMostOneLanding
  BY DEF LedgerInv, TracksAlive, AtMostOneLanding, Alive
<1>2. Spec => []LedgerInv
  BY LedgerStaysInStep
<1>3. QED
  BY <1>1, <1>2, PTL

\* A transaction that may land is named by a row a restart keeps blocked.
THEOREM AlwaysWrittenAhead ==
    ASSUME Faults = {} PROVE Spec => []WriteAhead
<1>1. TypeOK /\ LedgerInv => WriteAhead
  <2> SUFFICES ASSUME TypeOK, LedgerInv, NEW s \in Sigs, Alive(s)
               PROVE  row.sig = s /\ ~CanBegin(Recovered(row))
    BY DEF WriteAhead
  <2>1. row \in Records
    BY DEF TypeOK
  <2>2. row.sig = s /\ (\/ row.state \in {"submitted", "pending", "confirmed"}
                        \/ row.state = "reconciled" /\ ~row.failed)
    BY DEF LedgerInv, TracksAlive, RowAgrees
  <2>3. QED
    BY <2>1, <2>2 DEF Recovered, CanBegin, CanRearm, Records
<1>2. Spec => []LedgerInv
  BY LedgerStaysInStep
<1>3. QED
  BY <1>1, <1>2, TypeCorrect, PTL

\* Nothing un-lands a transaction, and no caller sends its bytes again.
LEMMA LandedStays ==
    ASSUME Good, [Next]_vars, NEW s \in Sigs, tx[s] = "landed"
    PROVE  tx'[s] = "landed"
<1>0. tx \in [Sigs -> {"signed", "flying", "landed", "reverted", "dead"}]
  BY DEF Good, TypeOK
<1>1. ASSUME NEW c \in Callers, Transmit(c) PROVE tx'[s] = "landed"
  <2>1. tx[run[c].sig] = "signed"
    BY <1>1 DEF Transmit, Good, LedgerInv, InStep, Working
  <2>2. QED
    BY <1>0, <1>1, <2>1 DEF Transmit
<1>2. ASSUME NEW t \in Sigs, Land(t) PROVE tx'[s] = "landed"
  BY <1>0, <1>2 DEF Land
<1>3. ASSUME NEW c \in Callers, CallerStep(c), ~Transmit(c) PROVE tx' = tx
  BY <1>3 DEF CallerStep, Begin, Rearm, Abort, Build, Submit, Answer, Miss, Confirm,
              Timeout, Expired
<1>4. ASSUME NEW t \in Sigs, Verdict(t) PROVE tx' = tx
  BY <1>4 DEF Verdict
<1>5. ASSUME Restart \/ Evict \/ UNCHANGED vars PROVE tx' = tx
  BY <1>5 DEF Restart, Evict, vars
<1>6. QED
  BY <1>1, <1>2, <1>3, <1>4, <1>5 DEF Next

\* A confirmed intent is never accepted again.
THEOREM ConfirmedStaysFinal ==
    ASSUME Faults = {} PROVE Spec => ConfirmedIsFinal
<1>1. TypeOK /\ Budget /\ LedgerInv /\ LedgerInv' /\ [Next]_vars
        => (rec.state = "confirmed" => ~CanBegin(rec'))
  <2> SUFFICES ASSUME TypeOK, Budget, LedgerInv, LedgerInv', [Next]_vars,
                      rec.state = "confirmed"
               PROVE  ~CanBegin(rec')
    OBVIOUS
  <2>1. PICK s \in Sigs : s = rec.sig /\ tx[s] = "landed"
    BY DEF LedgerInv, Issued
  <2>2. tx'[s] = "landed"
    BY <2>1, LandedStays DEF Good
  <2>3. Alive(s)'
    BY <2>2 DEF Alive
  <2>4. QED
    BY <2>3 DEF LedgerInv, TracksAlive, CanBegin, CanRearm
<1>2. Spec => []LedgerInv
  BY LedgerStaysInStep
<1>3. QED
  BY <1>1, <1>2, TypeCorrect, PTL DEF Spec, ConfirmedIsFinal

\* At most one caller works on an intent at any time: begin refuses a second
\* one, and a caller that re-arms finds nobody else at work.
THEOREM AlwaysSoleRunner ==
    ASSUME Faults = {} PROVE Spec => []SoleRunner
<1>1. LedgerInv => SoleRunner
  BY DEF LedgerInv
<1>2. QED
  BY <1>1, LedgerStaysInStep, PTL

=============================================================================
