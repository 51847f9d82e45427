---------------------------- MODULE ClaimsProofs ----------------------------
(***************************************************************************)
(* Machine-checked proofs about Claims, for every number of tasks and      *)
(* replicas and every lease, grace, renewal budget and epoch bound.        *)
(***************************************************************************)
EXTENDS Claims, TLAPS

USE ClaimsAssumption

-----------------------------------------------------------------------------
(* The store's statements keep the row well formed.                        *)

\* A successful claim writes a well-formed row.
LEMMA ClaimedType ==
    ASSUME NEW r \in Rows, NEW o \in Replicas
    PROVE  Claimed(r, o) \in Rows
BY DEF Claimed, Rows, Statuses

\* Whatever request reaches the store, on time or late, the row stays well
\* formed, its generation is unchanged, and only a terminal transition of a
\* claimed row changes its status.
LEMMA ExecutedRow ==
    ASSUME NEW r \in Rows, NEW m \in Requests
    PROVE  /\ Executed(r, m) \in Rows
           /\ Executed(r, m).epoch = r.epoch
           /\ Executed(r, m).owner = r.owner
           /\ r.status # "claimed" => Executed(r, m) = r
           /\ Executed(r, m).lease > 0 => r.lease > 0
<1>1. CASE m.op = "renew"
  <2>1. Executed(r, m) = Renewed(r, m.owner, m.epoch)
    BY <1>1 DEF Executed
  <2>2. CASE Verified(r, m.owner, m.epoch)
    BY <2>1, <2>2 DEF Renewed, Verified, Owns, Rows
  <2>3. CASE ~Verified(r, m.owner, m.epoch)
    BY <2>1, <2>3 DEF Renewed
  <2>4. QED
    BY <2>2, <2>3
<1>2. CASE m.op # "renew"
  <2>1. Executed(r, m) = Terminal(r, m.owner, m.epoch, m.op) /\ m.op \in Statuses
    BY <1>2 DEF Executed, Requests, Statuses, Modes
  <2>2. CASE Owns(r, m.owner, m.epoch)
    <3> DEFINE g == IF m.op = "handed_off" THEN Grace ELSE 0
    <3>1. g \in 0..Grace
      OBVIOUS
    <3>2. Executed(r, m) = [r EXCEPT !.status = m.op, !.hold = g]
      BY <2>1, <2>2 DEF Terminal
    <3>3. r.status = "claimed"
      BY <2>2 DEF Owns
    <3> HIDE DEF g
    <3>4. QED
      BY <2>1, <3>1, <3>2, <3>3 DEF Rows
  <2>3. CASE ~Owns(r, m.owner, m.epoch)
    BY <2>1, <2>3 DEF Terminal
  <2>4. QED
    BY <2>2, <2>3
<1>3. QED
  BY <1>1, <1>2

\* A request a guard sends is a request.
LEMMA GuardRequest ==
    ASSUME TypeOK, NEW t \in Tasks, NEW op \in {"renew"} \cup Modes
    PROVE  [op |-> op, owner |-> ReplicaOf[t], epoch |-> guard[t].epoch] \in Requests
BY DEF TypeOK, Guards, Requests

\* Sending a request leaves the generation and the types alone.
LEMMA SendFacts ==
    ASSUME TypeOK, NEW m \in Requests, Send(m)
    PROVE  /\ row' \in Rows
           /\ wire' \subseteq Requests
           /\ row'.epoch = row.epoch
           /\ row'.owner = row.owner
           /\ row.status # "claimed" => row' = row
           /\ row'.lease > 0 => row.lease > 0
<1>1. row \in Rows /\ wire \subseteq Requests
  BY DEF TypeOK
<1>2. CASE row' = Executed(row, m) /\ UNCHANGED wire
  BY <1>1, <1>2, ExecutedRow
<1>3. CASE UNCHANGED <<row, wire>>
  BY <1>1, <1>3
<1>4. CASE UNCHANGED row /\ wire' = wire \cup {m}
  BY <1>1, <1>4
<1>5. QED
  BY <1>2, <1>3, <1>4 DEF Send

-----------------------------------------------------------------------------
(* Type correctness.                                                       *)

\* Init satisfies the type invariant.
LEMMA InitType == Init => TypeOK
BY DEF Init, TypeOK, Rows, Guards, NoRow, NoGuard, Statuses, Stages

\* Every step of every task, the clock and the wire preserves the types.
LEMMA NextType == TypeOK /\ [Next]_vars => TypeOK'
<1> SUFFICES ASSUME TypeOK, [Next]_vars PROVE TypeOK'
  OBVIOUS
<1>0. /\ row \in Rows
      /\ guard \in [Tasks -> Guards]
      /\ wire \subseteq Requests
      /\ NoGuard \in Guards
  BY DEF TypeOK, NoGuard, Guards, Stages
<1>1. CASE Tick
  <2> DEFINE l == IF row.lease > 0 THEN row.lease - 1 ELSE 0
             h == IF row.hold > 0 THEN row.hold - 1 ELSE 0
  <2>1. l \in 0..Lease /\ h \in 0..Grace
    BY <1>0 DEF Rows
  <2>2. row' = [row EXCEPT !.lease = l, !.hold = h] /\ UNCHANGED <<guard, wire>>
    BY <1>1 DEF Tick
  <2> HIDE DEF l, h
  <2>3. row' \in Rows
    BY <1>0, <2>1, <2>2 DEF Rows
  <2>4. QED
    BY <1>0, <2>2, <2>3 DEF TypeOK
<1>2. ASSUME NEW t \in Tasks, Acquire(t) PROVE TypeOK'
  <2>1. row' \in Rows
    BY <1>0, <1>2, ClaimedType DEF Acquire
  <2>2. [stage |-> "owned", epoch |-> row.epoch + 1, renewals |-> 0] \in Guards
    BY <1>0 DEF Guards, Stages, Rows
  <2>3. QED
    BY <1>0, <1>2, <2>1, <2>2 DEF Acquire, TypeOK
<1>3. ASSUME NEW t \in Tasks, AcquireReplyLost(t) PROVE TypeOK'
  BY <1>0, <1>3, ClaimedType DEF AcquireReplyLost, TypeOK
<1>4. ASSUME NEW t \in Tasks, FenceOk(t) \/ FenceLost(t) PROVE TypeOK'
  BY <1>0, <1>4 DEF FenceOk, FenceLost, TypeOK, Guards, Stages
<1>5. ASSUME NEW t \in Tasks, Renew(t) PROVE TypeOK'
  <2>1. row' \in Rows /\ wire' \subseteq Requests
    BY <1>5, SendFacts, GuardRequest DEF Renew
  <2>2. guard' \in [Tasks -> Guards]
    BY <1>0, <1>5 DEF Renew, Guards
  <2>3. QED
    BY <2>1, <2>2 DEF TypeOK
<1>6. ASSUME NEW t \in Tasks, NEW mode \in Modes, Finish(t, mode) PROVE TypeOK'
  <2>1. row' \in Rows /\ wire' \subseteq Requests
    BY <1>6, SendFacts, GuardRequest DEF Finish
  <2>2. guard' \in [Tasks -> Guards]
    BY <1>0, <1>6 DEF Finish
  <2>3. QED
    BY <2>1, <2>2 DEF TypeOK
<1>7. ASSUME NEW t \in Tasks, Drop(t) PROVE TypeOK'
  BY <1>0, <1>7 DEF Drop, TypeOK
<1>8. ASSUME NEW o \in Replicas, Crash(o) PROVE TypeOK'
  BY <1>0, <1>8 DEF Crash, TypeOK
<1>9. ASSUME NEW m \in wire, LateRequest(m) PROVE TypeOK'
  <2>1. m \in Requests
    BY <1>0, <1>9
  <2>2. QED
    BY <1>0, <1>9, <2>1, ExecutedRow DEF LateRequest, TypeOK
<1>10. CASE UNCHANGED vars
  BY <1>10 DEF vars, TypeOK
<1>11. QED
  BY <1>1, <1>2, <1>3, <1>4, <1>5, <1>6, <1>7, <1>8, <1>9, <1>10 DEF Next

\* The claim row, the guards and the timed-out requests always have the shape
\* the stores and ClaimGuard give them.
THEOREM TypeCorrect == Spec => []TypeOK
BY InitType, NextType, PTL DEF Spec

-----------------------------------------------------------------------------
(* At most one active owner.                                               *)

\* Generations only grow, and a step that leaves the generation alone hands
\* out no guard.
LEMMA StepTokens ==
    ASSUME TypeOK, TokensUnique, [Next]_vars
    PROVE  TokensUnique'
<1>0. /\ row \in Rows
      /\ guard \in [Tasks -> Guards]
      /\ wire \subseteq Requests
      /\ NoGuard \in Guards
      /\ NoGuard.stage = "idle"
  BY DEF TypeOK, NoGuard, Guards, Stages
<1>1. CASE Tick
  BY <1>0, <1>1 DEF Tick, TokensUnique, Rows
<1>2. ASSUME NEW t \in Tasks, Acquire(t) PROVE TokensUnique'
  <2>1. /\ row'.epoch = row.epoch + 1
        /\ row.epoch \in Nat
        /\ guard'[t].epoch = row.epoch + 1
        /\ \A u \in Tasks \ {t} : guard'[u] = guard[u]
    BY <1>0, <1>2 DEF Acquire, Claimed, Rows
  <2>2. \A u \in Tasks : guard[u].epoch \in Nat
    BY <1>0 DEF Guards
  <2>3. QED
    BY <2>1, <2>2 DEF TokensUnique
<1>3. ASSUME NEW t \in Tasks, AcquireReplyLost(t) PROVE TokensUnique'
  <2>1. row'.epoch = row.epoch + 1 /\ row.epoch \in Nat /\ guard' = guard
    BY <1>0, <1>3 DEF AcquireReplyLost, Claimed, Rows
  <2>2. \A u \in Tasks : guard[u].epoch \in Nat
    BY <1>0 DEF Guards
  <2>3. QED
    BY <2>1, <2>2 DEF TokensUnique
<1>4. ASSUME NEW t \in Tasks, FenceOk(t) \/ FenceLost(t) PROVE TokensUnique'
  <2>1. row' = row
    BY <1>4 DEF FenceOk, FenceLost
  <2>2. \A u \in Tasks : guard'[u].epoch = guard[u].epoch
    BY <1>0, <1>4 DEF FenceOk, FenceLost, Guards
  <2>3. \A u \in Tasks : guard[u].stage = "idle" => guard'[u].stage = "idle"
    BY <1>0, <1>4 DEF FenceOk, FenceLost, Guards
  <2>4. QED
    BY <2>1, <2>2, <2>3 DEF TokensUnique
<1>5. ASSUME NEW t \in Tasks, Renew(t) PROVE TokensUnique'
  <2>1. row'.epoch = row.epoch
    BY <1>5, SendFacts, GuardRequest DEF Renew
  <2>2. \A u \in Tasks : guard'[u].epoch = guard[u].epoch /\ guard'[u].stage = guard[u].stage
    BY <1>0, <1>5 DEF Renew, Guards
  <2>3. QED
    BY <2>1, <2>2 DEF TokensUnique
<1>6. ASSUME NEW t \in Tasks, NEW mode \in Modes, Finish(t, mode) PROVE TokensUnique'
  <2>1. row'.epoch = row.epoch
    BY <1>6, SendFacts, GuardRequest DEF Finish
  <2>2. \A u \in Tasks : guard'[u].stage = "idle" \/ guard'[u] = guard[u]
    BY <1>0, <1>6 DEF Finish
  <2>3. QED
    BY <2>1, <2>2 DEF TokensUnique
<1>7. ASSUME NEW t \in Tasks, Drop(t) PROVE TokensUnique'
  <2>1. row' = row /\ \A u \in Tasks : guard'[u].stage = "idle" \/ guard'[u] = guard[u]
    BY <1>0, <1>7 DEF Drop
  <2>2. QED
    BY <2>1 DEF TokensUnique
<1>8. ASSUME NEW o \in Replicas, Crash(o) PROVE TokensUnique'
  <2>1. row' = row /\ \A u \in Tasks : guard'[u].stage = "idle" \/ guard'[u] = guard[u]
    BY <1>0, <1>8 DEF Crash
  <2>2. QED
    BY <2>1 DEF TokensUnique
<1>9. ASSUME NEW m \in wire, LateRequest(m) PROVE TokensUnique'
  <2>1. row'.epoch = row.epoch /\ guard' = guard
    BY <1>0, <1>9, ExecutedRow DEF LateRequest
  <2>2. QED
    BY <2>1 DEF TokensUnique
<1>10. CASE UNCHANGED vars
  BY <1>10 DEF vars, TokensUnique
<1>11. QED
  BY <1>1, <1>2, <1>3, <1>4, <1>5, <1>6, <1>7, <1>8, <1>9, <1>10 DEF Next

\* The inductive invariant: fencing tokens in hand are distinct and no newer
\* than the row's generation.
THEOREM TokensAlwaysUnique == Spec => [](TypeOK /\ TokensUnique)
<1>1. Init => TokensUnique
  BY DEF Init, TokensUnique, NoGuard
<1>2. QED
  BY <1>1, InitType, NextType, StepTokens, PTL DEF Spec

\* AT MOST ONE ACTIVE OWNER, for any number of tasks and replicas.
THEOREM AtMostOneOwner == Spec => []SingleOwner
<1>1. TypeOK /\ TokensUnique => SingleOwner
  BY DEF TypeOK, TokensUnique, SingleOwner, Holds, Verified, Owns
<1>2. QED
  BY <1>1, TokensAlwaysUnique, PTL

-----------------------------------------------------------------------------
(* What a step may do to the row.                                          *)

\* A new generation of a reacquirable row, with a full lease.
NewGeneration ==
    /\ Reacquirable(row)
    /\ row'.epoch = row.epoch + 1
    /\ row'.status = "claimed"
    /\ row'.lease = Lease

\* The same generation, no more alive than it was.
SameGeneration ==
    /\ row'.epoch = row.epoch
    /\ row'.owner = row.owner
    /\ row'.status = "claimed" => row.status = "claimed"
    /\ row.status = "handed_off" => row'.status = "handed_off"
    /\ row'.lease > 0 => row.lease > 0

\* Every step either starts a generation or can only weaken the current one:
\* late requests and renewals included.
LEMMA RowStep ==
    ASSUME TypeOK, [Next]_vars
    PROVE  NewGeneration \/ SameGeneration
<1>0. row \in Rows /\ wire \subseteq Requests
  BY DEF TypeOK
<1>1. CASE Tick
  <2> DEFINE l == IF row.lease > 0 THEN row.lease - 1 ELSE 0
             h == IF row.hold > 0 THEN row.hold - 1 ELSE 0
  <2>1. l > 0 => row.lease > 0
    OBVIOUS
  <2>2. row' = [row EXCEPT !.lease = l, !.hold = h]
    BY <1>1 DEF Tick
  <2> HIDE DEF l, h
  <2>3. QED
    BY <1>0, <2>1, <2>2 DEF Rows, SameGeneration
<1>2. ASSUME NEW t \in Tasks, Acquire(t) \/ AcquireReplyLost(t)
      PROVE  NewGeneration
  BY <1>2 DEF Acquire, AcquireReplyLost, Claimed, NewGeneration
<1>3. ASSUME NEW m \in Requests, Send(m) PROVE SameGeneration
  <2>1. /\ row' \in Rows
        /\ row'.epoch = row.epoch
        /\ row'.owner = row.owner
        /\ row.status # "claimed" => row' = row
        /\ row'.lease > 0 => row.lease > 0
    BY <1>3, SendFacts
  <2>2. QED
    BY <2>1 DEF SameGeneration
<1>4. ASSUME NEW t \in Tasks, Renew(t) PROVE SameGeneration
  BY <1>3, <1>4, GuardRequest DEF Renew
<1>5. ASSUME NEW t \in Tasks, NEW mode \in Modes, Finish(t, mode) PROVE SameGeneration
  BY <1>3, <1>5, GuardRequest DEF Finish
<1>6. ASSUME NEW m \in wire, LateRequest(m) PROVE SameGeneration
  <2>1. m \in Requests /\ row' = Executed(row, m)
    BY <1>0, <1>6 DEF LateRequest
  <2>2. QED
    BY <1>0, <2>1, ExecutedRow DEF SameGeneration
<1>7. CASE row' = row
  BY <1>7 DEF SameGeneration
<1>8. ASSUME NEW t \in Tasks, FenceOk(t) \/ FenceLost(t) \/ Drop(t) PROVE row' = row
  BY <1>8 DEF FenceOk, FenceLost, Drop
<1>9. ASSUME NEW o \in Replicas, Crash(o) PROVE row' = row
  BY <1>9 DEF Crash
<1>10. CASE UNCHANGED vars
  BY <1>7, <1>10 DEF vars
<1>11. QED
  BY <1>1, <1>2, <1>4, <1>5, <1>6, <1>7, <1>8, <1>9, <1>10 DEF Next

\* A generation starts only over a dead row.
LEMMA ReacquirableDead == Reacquirable(row) => ~Live
BY DEF Reacquirable, Live

-----------------------------------------------------------------------------
(* Hand-offs and the abstract lease.                                       *)

\* A hand-off is final for its generation, and the next generation waits for
\* the grace: no late release or renewal of the old owner reopens it.
THEOREM HandoffAlwaysSticks == Spec => HandoffSticks
<1>1. ASSUME TypeOK, [Next]_vars, row.status = "handed_off"
      PROVE  \/ row'.epoch = row.epoch /\ row'.status = "handed_off"
             \/ row'.epoch > row.epoch /\ row.hold = 0
  <2>1. row.epoch \in Nat
    BY <1>1 DEF TypeOK, Rows
  <2>2. CASE NewGeneration
    BY <1>1, <2>1, <2>2 DEF NewGeneration, Reacquirable
  <2>3. CASE SameGeneration
    BY <1>1, <2>3 DEF SameGeneration
  <2>4. QED
    BY <1>1, <2>2, <2>3, RowStep
<1>2. TypeOK /\ [Next]_vars =>
        (row.status = "handed_off" =>
           \/ row'.epoch = row.epoch /\ row'.status = "handed_off"
           \/ row'.epoch > row.epoch /\ row.hold = 0)
  BY <1>1
<1>3. QED
  BY <1>2, TypeCorrect, PTL DEF Spec, HandoffSticks

\* The store, its guards and its late requests implement a fencing-token
\* lease: each generation is granted once, over a dead predecessor, and a
\* dead generation is never revived.
THEOREM RefinesFencingLease == Spec => ImplementsFencingLease
<1>1. Init => Abstract!Init
  BY DEF Init, NoRow, Abstract!Init, Live
<1>2. ASSUME TypeOK, [Next]_vars PROVE [Abstract!Next]_(Abstract!lvars)
  <2>1. CASE NewGeneration
    <3>1. ~Live /\ row'.epoch = row.epoch + 1
      BY <2>1, ReacquirableDead DEF NewGeneration
    <3>2. Live'
      BY <2>1 DEF NewGeneration, Live
    <3>3. QED
      BY <3>1, <3>2 DEF Abstract!Next, Abstract!Grant
  <2>2. CASE SameGeneration
    <3>1. (Live' => Live) /\ row'.epoch = row.epoch
      BY <2>2 DEF SameGeneration, Live
    <3>2. CASE Live /\ ~Live'
      BY <3>1, <3>2 DEF Abstract!Next, Abstract!Lapse
    <3>3. CASE Live <=> Live'
      BY <3>1, <3>3 DEF Abstract!lvars, Live
    <3>4. QED
      BY <3>1, <3>2, <3>3
  <2>3. QED
    BY <1>2, <2>1, <2>2, RowStep
<1>3. TypeOK /\ [Next]_vars => [Abstract!Next]_(Abstract!lvars)
  BY <1>2
<1>4. QED
  BY <1>1, <1>3, TypeCorrect, PTL DEF Spec, ImplementsFencingLease, Abstract!Spec

-----------------------------------------------------------------------------
(* Once fenced, fenced for ever.                                           *)

\* A guard that keeps its generation through a step and passes the fence
\* after it passed it before.
LEMMA StepFenced ==
    ASSUME TypeOK, TokensUnique, [Next]_vars,
           NEW t \in Tasks, guard[t].stage # "idle",
           guard'[t].epoch = guard[t].epoch, Holds(t)'
    PROVE  Holds(t)
<1>0. /\ row \in Rows
      /\ guard \in [Tasks -> Guards]
      /\ guard[t].epoch <= row.epoch
      /\ row.epoch \in Nat /\ guard[t].epoch \in Nat
  BY DEF TypeOK, TokensUnique, Rows, Guards
<1>1. /\ guard'[t].stage \in {"owned", "cleared"}
      /\ row'.owner = ReplicaOf[t]
      /\ row'.epoch = guard[t].epoch
      /\ row'.status = "claimed"
      /\ row'.lease > 0
  BY DEF Holds, Verified, Owns
<1>2. SameGeneration
  BY <1>0, <1>1, RowStep DEF NewGeneration
<1>3. Verified(row, ReplicaOf[t], guard[t].epoch)
  BY <1>1, <1>2 DEF SameGeneration, Verified, Owns
<1>4. guard[t].stage \in {"owned", "cleared"}
  <2>1. SUFFICES ASSUME guard[t].stage = "lost" PROVE FALSE
    BY <1>0 DEF Guards, Stages
  <2>2. guard'[t].stage # "idle" /\ guard'[t].stage # "lost"
    BY <1>1
  <2>3. CASE guard' = guard
    BY <2>1, <2>2, <2>3
  <2>4. ASSUME NEW u \in Tasks,
               Acquire(u) \/ FenceOk(u) \/ FenceLost(u) \/ Renew(u)
        PROVE  guard'[t].stage = "lost"
    <3>1. CASE Acquire(u)
      BY <1>0, <2>1, <3>1 DEF Acquire
    <3>2. CASE FenceOk(u)
      BY <1>0, <2>1, <3>2 DEF FenceOk
    <3>3. CASE FenceLost(u)
      BY <1>0, <2>1, <3>3 DEF FenceLost, Guards
    <3>4. CASE Renew(u)
      BY <1>0, <2>1, <3>4 DEF Renew, Guards
    <3>5. QED
      BY <2>4, <3>1, <3>2, <3>3, <3>4
  <2>5. ASSUME NEW u \in Tasks, Drop(u) \/ \E mode \in Modes : Finish(u, mode)
        PROVE  guard'[t].stage \in {"lost", "idle"}
    <3>1. guard' = [guard EXCEPT ![u] = NoGuard]
      BY <2>5 DEF Drop, Finish
    <3>2. QED
      BY <1>0, <2>1, <3>1 DEF NoGuard
  <2>6. ASSUME NEW o \in Replicas, Crash(o)
        PROVE  guard'[t].stage \in {"lost", "idle"}
    BY <1>0, <2>1, <2>6 DEF Crash, NoGuard
  <2>7. ASSUME NEW u \in Tasks, AcquireReplyLost(u) PROVE guard' = guard
    BY <2>7 DEF AcquireReplyLost
  <2>8. ASSUME NEW m \in wire, LateRequest(m) PROVE guard' = guard
    BY <2>8 DEF LateRequest
  <2>9. CASE Tick \/ UNCHANGED vars
    BY <2>3, <2>9 DEF Tick, vars
  <2>10. QED
    BY <2>2, <2>3, <2>4, <2>5, <2>6, <2>7, <2>8, <2>9 DEF Next
<1>5. QED
  BY <1>3, <1>4 DEF Holds

\* Once fenced, fenced for ever: a guard that fails verify never passes it
\* again, whatever renewals and releases reach the store late.
THEOREM AlwaysFencedForever == Spec => FencedForever
<1>1. TypeOK /\ TokensUnique /\ [Next]_vars =>
        \A t \in Tasks :
          (guard[t].stage # "idle" /\ guard'[t].epoch = guard[t].epoch /\ ~Holds(t))
             => ~Holds(t)'
  BY StepFenced
<1>2. QED
  BY <1>1, TokensAlwaysUnique, PTL DEF Spec, FencedForever

=============================================================================
