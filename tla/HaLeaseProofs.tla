---------------------------- MODULE HaLeaseProofs ----------------------------
(***************************************************************************)
(* Proofs about HaLease, for any number of workers, any TTL and any bound  *)
(* on generations and faults.                                              *)
(***************************************************************************)
EXTENDS HaLease, TLAPS

\* The worker that holds a live lease carries it: as long as no call has
\* failed and no process died, the loop's guard is the row's generation and
\* the loop has not ended.
Carried ==
    faults = 0 =>
        \A w \in Workers :
            row.holder = w /\ row.left > 0
                => guard[w] = row.gen /\ pc[w] \notin {"off", "done"}

\* No guard is newer than the row.
GuardsGranted == \A w \in Workers : guard[w] <= row.gen

LeaseInv == TypeOK /\ GuardsGranted /\ Carried

-----------------------------------------------------------------------------
(* What the operators on the row return.                                   *)

\* A row built field by field is a row.
LEMMA RowType ==
    ASSUME NEW h \in Workers, NEW g \in Generations, NEW l \in 0..Ttl
    PROVE  /\ [holder |-> h, gen |-> g, left |-> l] \in Rows
           /\ [holder |-> h, gen |-> g, left |-> l].holder = h
           /\ [holder |-> h, gen |-> g, left |-> l].gen = g
           /\ [holder |-> h, gen |-> g, left |-> l].left = l
BY DEF Rows

\* The fields of a row.
LEMMA RowFields ==
    ASSUME NEW r \in Rows
    PROVE  r.holder \in Workers /\ r.gen \in Generations /\ r.left \in 0..Ttl
BY DEF Rows

\* A release leaves the row as it is or ends its lease.
LEMMA ReleaseEnds ==
    ASSUME TypeOK, NEW w \in Workers, NEW g \in Generations
    PROVE  /\ Released(w, g) \in Rows
           /\ Released(w, g).holder = row.holder
           /\ Released(w, g).gen = row.gen
           /\ Released(w, g).left <= row.left
           /\ row.holder = w /\ row.gen = g => Released(w, g).left = 0
<1>1. row \in Rows BY DEF TypeOK
<1>2. row.holder \in Workers /\ row.gen \in Generations /\ row.left \in 0..Ttl
    BY <1>1, RowFields
<1>3. 0 \in 0..Ttl BY TimesAssumption
<1>4. CASE row.holder = w /\ row.gen = g
    BY <1>2, <1>3, <1>4, RowType DEF Released
<1>5. CASE ~(row.holder = w /\ row.gen = g)
    BY <1>1, <1>2, <1>5 DEF Released
<1>6. QED BY <1>4, <1>5

\* A renewal leaves the row as it is or prolongs a lease that is live.
LEMMA RenewalKeeps ==
    ASSUME TypeOK, NEW w \in Workers, NEW g \in Generations
    PROVE  /\ Renewed(w, g) \in Rows
           /\ Renewed(w, g).holder = row.holder
           /\ Renewed(w, g).gen = row.gen
           /\ row.left = 0 => Renewed(w, g).left = 0
<1>1. row \in Rows BY DEF TypeOK
<1>2. row.holder \in Workers /\ row.gen \in Generations /\ row.left \in 0..Ttl
    BY <1>1, RowFields
<1>3. Ttl \in 0..Ttl BY TimesAssumption
<1>4. CASE Renewable(w, g)
    BY <1>2, <1>3, <1>4, RowType DEF Renewed, Renewable
<1>5. CASE ~Renewable(w, g)
    BY <1>1, <1>2, <1>5 DEF Renewed
<1>6. QED BY <1>4, <1>5

\* A grant is a live row of a generation nobody carries yet.
LEMMA GrantIsNew ==
    ASSUME TypeOK, NEW w \in Workers, row.gen < MaxGen
    PROVE  /\ Acquired(w) \in Rows
           /\ Acquired(w).holder = w
           /\ Acquired(w).gen = row.gen + 1
           /\ row.gen + 1 \in Generations
<1>1. row.gen \in Generations BY RowFields DEF TypeOK
<1>2. row.gen + 1 \in Generations BY <1>1, BoundsAssumption DEF Generations
<1>3. Ttl \in 0..Ttl BY TimesAssumption
<1>4. QED BY <1>2, <1>3, RowType DEF Acquired

\* Time only shortens the lease.
LEMMA TickShortens ==
    ASSUME TypeOK, Tick
    PROVE  /\ row' \in Rows
           /\ row'.holder = row.holder
           /\ row'.gen = row.gen
           /\ row.left = 0 => row'.left = 0
           /\ due' \in [Workers -> 0..RenewEvery]
<1>1. row.holder \in Workers /\ row.gen \in Generations /\ row.left \in 0..Ttl
    BY RowFields DEF TypeOK
<1>2. Less(row.left) \in 0..Ttl /\ (row.left = 0 => Less(row.left) = 0)
    BY <1>1, TimesAssumption DEF Less
<1>3. row' = [holder |-> row.holder, gen |-> row.gen, left |-> Less(row.left)]
    BY DEF Tick
<1>4. /\ row' \in Rows /\ row'.holder = row.holder /\ row'.gen = row.gen
      /\ row'.left = Less(row.left)
    BY <1>1, <1>2, <1>3, RowType
<1>5. \A w \in Workers : Less(due[w]) \in 0..RenewEvery
    <2> TAKE w \in Workers
    <2>1. due[w] \in 0..RenewEvery BY DEF TypeOK
    <2>2. QED BY <2>1, TimesAssumption DEF Less
<1>6. due' \in [Workers -> 0..RenewEvery] BY <1>5 DEF Tick
<1>7. QED BY <1>2, <1>4, <1>6

-----------------------------------------------------------------------------
(* The invariant is inductive.                                             *)

\* Of the worker states only legal ones are reached.
LEMMA SetStateType ==
    ASSUME NEW from \in WorkerStates, NEW to \in WorkerStates
    PROVE  SetState(from, to) \in WorkerStates
BY DEF SetState

\* What verification keeps of the runtime's entry is a generation.
LEMMA ConfirmedType ==
    ASSUME TypeOK, NEW w \in Workers
    PROVE  Confirmed(w) \in Generations
<1>1. cache[w] \in Generations /\ 0 \in Generations
    BY BoundsAssumption DEF TypeOK, Generations
<1>2. QED BY <1>1 DEF Confirmed

\* A fault is counted within its bound, and makes the count positive.
LEMMA FaultCounted ==
    ASSUME TypeOK, Fault
    PROVE  faults' \in 0..MaxFaults /\ faults' # 0
BY BoundsAssumption DEF TypeOK, Fault

\* refresh_readiness and the state change around it keep their types.
LEMMA RefreshedType ==
    ASSUME TypeOK, NEW w \in Workers, NEW kept \in Generations,
           NEW st \in WorkerStates, Refreshed(w, kept, st)
    PROVE  /\ cache' \in [Workers -> Generations]
           /\ ready' \in [Workers -> BOOLEAN]
           /\ state' \in [Workers -> WorkerStates]
<1>1. (st = "Ready" /\ kept # 0) \in BOOLEAN OBVIOUS
<1>2. cache' \in [Workers -> Generations] BY DEF TypeOK, Refreshed
<1>3. ready' \in [Workers -> BOOLEAN] BY <1>1, Zenon DEF TypeOK, Refreshed
<1>4. state' \in [Workers -> WorkerStates] BY DEF TypeOK, Refreshed
<1>5. QED BY <1>2, <1>3, <1>4

\* A grant, whether or not its reply arrives, keeps the invariant: the guard
\* is the new generation, or a fault is counted.
LEMMA AcquireKeeps ==
    ASSUME LeaseInv, NEW w \in Workers, Acquire(w)
    PROVE  LeaseInv'
<1> USE DEF LeaseInv
<1>1. /\ Acquired(w) \in Rows /\ Acquired(w).holder = w
      /\ Acquired(w).gen = row.gen + 1 /\ row.gen + 1 \in Generations
    BY GrantIsNew DEF Acquire
<1>2. row' = Acquired(w) BY DEF Acquire
<1>3. row.gen \in Nat BY RowFields DEF TypeOK, Generations
<1>4. \A v \in Workers : guard[v] \in Nat BY DEF TypeOK, Generations
<1>5. \/ /\ guard' = [guard EXCEPT ![w] = row.gen + 1]
         /\ cache' \in {[cache EXCEPT ![w] = row.gen + 1], [cache EXCEPT ![w] = 0]}
         /\ ready' \in {ready, [ready EXCEPT ![w] = FALSE]}
         /\ due' = [due EXCEPT ![w] = RenewEvery]
         /\ pc' = [pc EXCEPT ![w] = "fence"]
         /\ faults' = faults
      \/ Fault /\ UNCHANGED <<pc, guard, cache, due, ready>>
    BY DEF Acquire
<1>6. UNCHANGED <<state, halt>> /\ 0 \in Generations
    BY BoundsAssumption DEF Acquire, Generations
<1>7. RenewEvery \in 0..RenewEvery BY TimesAssumption
<1>8. TypeOK'
    <2>1. cache' \in [Workers -> Generations] BY <1>1, <1>5, <1>6 DEF TypeOK
    <2>2. ready' \in [Workers -> BOOLEAN] BY <1>5, Zenon DEF TypeOK
    <2>3. faults' \in 0..MaxFaults BY <1>5, FaultCounted DEF TypeOK
    <2>4. /\ pc' \in [Workers -> Places] /\ due' \in [Workers -> 0..RenewEvery]
          /\ guard' \in [Workers -> Generations]
        BY <1>1, <1>5, <1>7 DEF TypeOK, Places
    <2>5. QED BY <1>1, <1>2, <1>6, <2>1, <2>2, <2>3, <2>4 DEF TypeOK
<1>9. GuardsGranted'
    BY <1>1, <1>2, <1>3, <1>4, <1>5 DEF GuardsGranted, TypeOK
<1>10. Carried'
    BY <1>1, <1>2, <1>5, FaultCounted DEF Carried, TypeOK
<1>11. QED BY <1>8, <1>9, <1>10

\* A renewal keeps the invariant: a refused one had nothing left to carry.
LEMMA RenewKeeps ==
    ASSUME LeaseInv, NEW w \in Workers, Renew(w)
    PROVE  LeaseInv'
<1> USE DEF LeaseInv
<1>1. guard[w] \in Generations /\ 0 \in Generations
    BY BoundsAssumption DEF TypeOK, Generations
<1>2. /\ Renewed(w, guard[w]) \in Rows
      /\ Renewed(w, guard[w]).holder = row.holder
      /\ Renewed(w, guard[w]).gen = row.gen
      /\ row.left = 0 => Renewed(w, guard[w]).left = 0
    BY <1>1, RenewalKeeps
<1>3. row \in Rows /\ row.left \in Nat /\ row.gen \in Nat
    BY RowFields DEF TypeOK, Generations
<1>4. /\ row' \in Rows /\ row'.holder = row.holder /\ row'.gen = row.gen
      /\ row.left = 0 => row'.left = 0
    BY <1>2, <1>3 DEF Renew
<1>5. UNCHANGED <<state, ready, halt>> BY DEF Renew
<1>6. RenewEvery \in 0..RenewEvery BY TimesAssumption
<1>7. CASE /\ row' = Renewed(w, guard[w])
           /\ due' = [due EXCEPT ![w] = RenewEvery]
           /\ pc' = [pc EXCEPT ![w] = "fence"]
           /\ UNCHANGED <<guard, cache, faults>>
    <2>1. TypeOK' BY <1>4, <1>5, <1>6, <1>7 DEF TypeOK, Places
    <2>2. GuardsGranted' BY <1>4, <1>7 DEF GuardsGranted
    <2>3. Carried' BY <1>3, <1>4, <1>7 DEF Carried, TypeOK
    <2>4. QED BY <2>1, <2>2, <2>3
<1>8. CASE /\ ~Renewable(w, guard[w])
           /\ guard' = [guard EXCEPT ![w] = 0]
           /\ cache' = [cache EXCEPT ![w] = 0]
           /\ UNCHANGED <<row, pc, due, faults>>
    <2>1. TypeOK' BY <1>1, <1>5, <1>8 DEF TypeOK
    <2>2. GuardsGranted' BY <1>3, <1>8 DEF GuardsGranted, TypeOK
    <2>3. Carried' BY <1>8 DEF Carried, TypeOK, Renewable
    <2>4. QED BY <2>1, <2>2, <2>3
<1>9. CASE /\ Fault
           /\ guard' = [guard EXCEPT ![w] = 0]
           /\ UNCHANGED <<pc, cache, due>>
    <2>1. TypeOK' BY <1>1, <1>4, <1>5, <1>9, FaultCounted DEF TypeOK
    <2>2. GuardsGranted' BY <1>3, <1>4, <1>9 DEF GuardsGranted, TypeOK
    <2>3. Carried' BY <1>9, FaultCounted DEF Carried
    <2>4. QED BY <2>1, <2>2, <2>3
<1>10. QED BY <1>7, <1>8, <1>9 DEF Renew

\* A fence check keeps the invariant: it only drops a guard the store does
\* not confirm.
LEMMA FenceKeeps ==
    ASSUME LeaseInv, NEW w \in Workers, Fence(w)
    PROVE  LeaseInv'
<1> USE DEF LeaseInv
<1>1. 0 \in Generations /\ row.gen \in Nat
    BY BoundsAssumption, RowFields DEF TypeOK, Generations
<1>2. UNCHANGED <<row, due, state, ready, halt>> BY DEF Fence
<1>3. CASE pc' = [pc EXCEPT ![w] = "job"] /\ UNCHANGED <<guard, cache, faults>>
    BY <1>2, <1>3 DEF TypeOK, Places, GuardsGranted, Carried
<1>4. CASE /\ ~Owned(w, guard[w])
           /\ pc' = [pc EXCEPT ![w] = "idle"]
           /\ guard' = [guard EXCEPT ![w] = 0]
           /\ cache' = [cache EXCEPT ![w] = 0]
           /\ UNCHANGED faults
    <2>1. TypeOK' BY <1>1, <1>2, <1>4 DEF TypeOK, Places
    <2>2. GuardsGranted' BY <1>1, <1>2, <1>4 DEF GuardsGranted, TypeOK
    <2>3. Carried' BY <1>2, <1>4 DEF Carried, TypeOK, Owned
    <2>4. QED BY <2>1, <2>2, <2>3
<1>5. CASE /\ Fault
           /\ pc' = [pc EXCEPT ![w] = "idle"]
           /\ guard' = [guard EXCEPT ![w] = 0]
           /\ UNCHANGED cache
    <2>1. TypeOK' BY <1>1, <1>2, <1>5, FaultCounted DEF TypeOK, Places
    <2>2. GuardsGranted' BY <1>1, <1>2, <1>5 DEF GuardsGranted, TypeOK
    <2>3. Carried' BY <1>5, FaultCounted DEF Carried
    <2>4. QED BY <2>1, <2>2, <2>3
<1>6. QED BY <1>3, <1>4, <1>5 DEF Fence

\* The loop's release on the way out keeps the invariant: the generation it
\* carries is the one it releases.
LEMMA LeaveKeeps ==
    ASSUME LeaseInv, NEW w \in Workers, Leave(w)
    PROVE  LeaseInv'
<1> USE DEF LeaseInv
<1>1. guard[w] \in Generations /\ 0 \in Generations
    BY BoundsAssumption DEF TypeOK, Generations
<1>2. /\ Released(w, guard[w]) \in Rows
      /\ Released(w, guard[w]).holder = row.holder
      /\ Released(w, guard[w]).gen = row.gen
      /\ Released(w, guard[w]).left <= row.left
      /\ row.holder = w /\ row.gen = guard[w] => Released(w, guard[w]).left = 0
    BY <1>1, ReleaseEnds
<1>3. row \in Rows /\ row.left \in Nat /\ row.gen \in Nat
    BY RowFields DEF TypeOK, Generations
<1>4. row' \in Rows /\ row'.holder = row.holder /\ row'.gen = row.gen
    BY <1>2, <1>3 DEF Leave
<1>5. /\ pc' = [pc EXCEPT ![w] = "done"]
      /\ guard' = [guard EXCEPT ![w] = 0]
      /\ cache' = IF guard[w] = 0 THEN cache ELSE [cache EXCEPT ![w] = 0]
      /\ UNCHANGED <<due, state, ready, halt>>
    BY DEF Leave
<1>6. faults' \in 0..MaxFaults BY FaultCounted DEF Leave, TypeOK
<1>7. TypeOK' BY <1>1, <1>4, <1>5, <1>6 DEF TypeOK, Places
<1>8. GuardsGranted' BY <1>3, <1>4, <1>5 DEF GuardsGranted, TypeOK
<1>9. Carried'
    <2>1. CASE row' = Released(w, guard[w]) /\ UNCHANGED faults
        <3>1. row'.left \in Nat BY <1>4, RowFields
        <3>2. QED BY <1>2, <1>3, <1>4, <1>5, <2>1, <3>1 DEF Carried, TypeOK
    <2>2. CASE Fault BY <2>2, FaultCounted DEF Carried
    <2>3. QED BY <2>1, <2>2 DEF Leave
<1>10. QED BY <1>7, <1>8, <1>9

\* A heartbeat touches neither the row nor the loop.
LEMMA HeartbeatKeeps ==
    ASSUME LeaseInv, NEW w \in Workers, Heartbeat(w)
    PROVE  LeaseInv'
<1> USE DEF LeaseInv
<1>1. PICK kept \in Generations, st \in WorkerStates : Refreshed(w, kept, st)
    <2>1. 0 \in Generations /\ Confirmed(w) \in Generations
        BY ConfirmedType, BoundsAssumption DEF Generations
    <2>2. state[w] \in WorkerStates /\ SetState(state[w], "LeaseLost") \in WorkerStates
        BY SetStateType DEF TypeOK, WorkerStates
    <2>3. QED BY <2>1, <2>2 DEF Heartbeat
<1>2. UNCHANGED <<row, pc, guard, due, halt>> BY DEF Heartbeat
<1>3. faults' = faults \/ (faults' \in 0..MaxFaults /\ faults' # 0)
    BY FaultCounted DEF Heartbeat
<1>4. TypeOK' BY <1>1, <1>2, <1>3, RefreshedType DEF TypeOK
<1>5. GuardsGranted' BY <1>2 DEF GuardsGranted
<1>6. Carried' BY <1>2, <1>3 DEF Carried
<1>7. QED BY <1>4, <1>5, <1>6

\* The ha-drain phase keeps the invariant: it can only shorten a lease.
LEMMA DrainKeeps ==
    ASSUME LeaseInv, NEW w \in Workers, Drain(w)
    PROVE  LeaseInv'
<1> USE DEF LeaseInv
<1>1. 0 \in Generations /\ Confirmed(w) \in Generations
    BY ConfirmedType, BoundsAssumption DEF Generations
<1>2. SetState(SetState(state[w], "Draining"), "Stopped") \in WorkerStates
    BY SetStateType DEF TypeOK, WorkerStates
<1>3. Refreshed(w, 0, SetState(SetState(state[w], "Draining"), "Stopped"))
    BY DEF Drain
<1>4. /\ halt' = [halt EXCEPT ![w] = "drained"]
      /\ UNCHANGED <<pc, guard, due>>
    BY DEF Drain
<1>5. row \in Rows /\ row.left \in Nat BY RowFields DEF TypeOK
<1>6. /\ row' \in Rows /\ row'.holder = row.holder /\ row'.gen = row.gen
      /\ row'.left <= row.left
    BY <1>1, <1>5, ReleaseEnds DEF Drain
<1>7. row'.left \in Nat BY <1>6, RowFields
<1>8. faults' = faults \/ (faults' \in 0..MaxFaults /\ faults' # 0)
    BY FaultCounted DEF Drain
<1>9. TypeOK' BY <1>1, <1>2, <1>3, <1>4, <1>6, <1>8, RefreshedType DEF TypeOK
<1>10. GuardsGranted' BY <1>4, <1>6 DEF GuardsGranted
<1>11. Carried' BY <1>4, <1>5, <1>6, <1>7, <1>8 DEF Carried
<1>12. QED BY <1>9, <1>10, <1>11

\* A process that goes keeps the invariant, unless it goes with a live lease
\* and without a fault.
LEMMA GoneKeeps ==
    ASSUME LeaseInv, NEW w \in Workers, Gone(w),
           \/ faults' = faults /\ pc[w] = "done"
           \/ faults' \in 0..MaxFaults /\ faults' # 0
    PROVE  LeaseInv'
<1> USE DEF LeaseInv
<1>1. 0 \in Generations /\ 0 \in 0..RenewEvery /\ row.gen \in Nat
    BY BoundsAssumption, TimesAssumption, RowFields DEF TypeOK, Generations
<1>2. TypeOK' BY <1>1 DEF TypeOK, Gone, Places, WorkerStates
<1>3. GuardsGranted' BY <1>1 DEF GuardsGranted, Gone, TypeOK
<1>4. Carried' BY DEF Carried, Gone, TypeOK
<1>5. QED BY <1>2, <1>3, <1>4

\* The invariant is preserved by every step.
LEMMA StepKeeps ==
    ASSUME LeaseInv, [Next]_vars
    PROVE  LeaseInv'
<1> USE DEF LeaseInv
<1>1. ASSUME NEW w \in Workers, Turn(w) PROVE LeaseInv'
    BY <1>1, AcquireKeeps, RenewKeeps, FenceKeeps DEF Turn
<1>2. ASSUME NEW w \in Workers, JobEnds(w) PROVE LeaseInv'
    BY <1>2 DEF JobEnds, TypeOK, Places, GuardsGranted, Carried
<1>3. ASSUME NEW w \in Workers, Leave(w) PROVE LeaseInv'
    BY <1>3, LeaveKeeps
<1>4. ASSUME NEW w \in Workers, Heartbeat(w) PROVE LeaseInv'
    BY <1>4, HeartbeatKeeps
<1>5. ASSUME NEW w \in Workers, Signal(w) PROVE LeaseInv'
    BY <1>5 DEF Signal, TypeOK, GuardsGranted, Carried
<1>6. ASSUME NEW w \in Workers, Drain(w) PROVE LeaseInv'
    BY <1>6, DrainKeeps
<1>7. ASSUME NEW w \in Workers, Exit(w) PROVE LeaseInv'
    BY <1>7, GoneKeeps DEF Exit
<1>8. ASSUME NEW w \in Workers, Crash(w) PROVE LeaseInv'
    BY <1>8, GoneKeeps, FaultCounted DEF Crash
<1>9. ASSUME NEW w \in Workers, Start(w) PROVE LeaseInv'
    <2>1. faults' = faults \/ (faults' \in 0..MaxFaults /\ faults' # 0)
        BY <1>9, FaultCounted DEF Start
    <2>2. /\ pc' = [pc EXCEPT ![w] = "idle"]
          /\ state' = [state EXCEPT ![w] = "Ready"] \/ state' = state
          /\ UNCHANGED <<row, guard, cache, due, ready, halt>>
        BY <1>9 DEF Start
    <2>3. TypeOK' BY <2>1, <2>2 DEF TypeOK, Places, WorkerStates
    <2>4. GuardsGranted' BY <2>2 DEF GuardsGranted
    <2>5. Carried' BY <2>1, <2>2 DEF Carried, TypeOK
    <2>6. QED BY <2>3, <2>4, <2>5
<1>10. ASSUME Tick PROVE LeaseInv'
    <2>1. /\ row' \in Rows /\ row'.holder = row.holder /\ row'.gen = row.gen
          /\ row.left = 0 => row'.left = 0
          /\ due' \in [Workers -> 0..RenewEvery]
        BY <1>10, TickShortens
    <2>2. UNCHANGED <<pc, guard, cache, state, ready, halt, faults>>
        BY <1>10 DEF Tick
    <2>3. row.left \in Nat BY RowFields DEF TypeOK
    <2>4. TypeOK' BY <2>1, <2>2 DEF TypeOK
    <2>5. GuardsGranted' BY <2>1, <2>2 DEF GuardsGranted
    <2>6. Carried' BY <2>1, <2>2, <2>3 DEF Carried
    <2>7. QED BY <2>4, <2>5, <2>6
<1>11. CASE UNCHANGED vars
    BY <1>11 DEF vars, TypeOK, GuardsGranted, Carried
<1>12. QED
    BY <1>1, <1>2, <1>3, <1>4, <1>5, <1>6, <1>7, <1>8, <1>9, <1>10, <1>11
       DEF Next

\* The initial state satisfies the invariant.
LEMMA InitKeeps == Init => LeaseInv
<1> SUFFICES ASSUME Init PROVE LeaseInv OBVIOUS
<1>1. row \in Rows /\ row.gen = 0 /\ row.left = 0 BY DEF Init
<1>2. 0 \in Generations /\ 0 \in 0..RenewEvery /\ 0 \in 0..MaxFaults
    BY BoundsAssumption, TimesAssumption DEF Generations
<1>3. TypeOK BY <1>1, <1>2 DEF Init, TypeOK, Places, WorkerStates
<1>4. GuardsGranted
    <2>1. guard = [w \in Workers |-> 0] BY DEF Init
    <2>2. 0 <= row.gen BY <1>1, RowFields DEF Generations
    <2>3. QED BY <2>1, <2>2 DEF GuardsGranted
<1>5. Carried BY <1>1 DEF Carried
<1>6. QED BY <1>3, <1>4, <1>5 DEF LeaseInv

\* No step lets a guard that fails verification pass it again.
LEMMA StepKeepsStale ==
    ASSUME LeaseInv, [Next]_vars, NEW w \in Workers,
           guard'[w] = guard[w], ~Owned(w, guard[w])
    PROVE  ~Owned(w, guard[w])'
<1> USE DEF LeaseInv
<1>1. row.gen \in Nat /\ row.left \in Nat /\ guard[w] \in Nat
    BY RowFields DEF TypeOK, Generations
<1>2. guard[w] <= row.gen BY DEF GuardsGranted
\* A step grants a newer generation, or keeps holder and generation and
\* does not revive a lapsed lease.
<1>3. \/ row'.gen = row.gen + 1
      \/ /\ row'.holder = row.holder /\ row'.gen = row.gen
         /\ row.left = 0 => row'.left = 0
    <2>1. ASSUME NEW v \in Workers, Acquire(v) PROVE row'.gen = row.gen + 1
        BY <2>1, GrantIsNew DEF Acquire
    <2>2. ASSUME NEW v \in Workers, Renew(v)
          PROVE  /\ row'.holder = row.holder /\ row'.gen = row.gen
                 /\ row.left = 0 => row'.left = 0
        <3>1. guard[v] \in Generations BY DEF TypeOK
        <3>2. QED BY <2>2, <3>1, RenewalKeeps DEF Renew
    <2>3. ASSUME NEW v \in Workers, NEW g \in Generations,
                 row' = Released(v, g) \/ row' = row
          PROVE  /\ row'.holder = row.holder /\ row'.gen = row.gen
                 /\ row.left = 0 => row'.left = 0
        <3>1. /\ Released(v, g) \in Rows
              /\ Released(v, g).holder = row.holder
              /\ Released(v, g).gen = row.gen
              /\ Released(v, g).left <= row.left
            BY ReleaseEnds
        <3>2. Released(v, g).left \in Nat BY <3>1, RowFields
        <3>3. QED BY <1>1, <2>3, <3>1, <3>2
    <2>4. ASSUME NEW v \in Workers, Leave(v) \/ Drain(v)
          PROVE  /\ row'.holder = row.holder /\ row'.gen = row.gen
                 /\ row.left = 0 => row'.left = 0
        <3>1. guard[v] \in Generations /\ Confirmed(v) \in Generations
            BY ConfirmedType DEF TypeOK
        <3>2. QED BY <2>3, <2>4, <3>1 DEF Leave, Drain
    <2>5. ASSUME Tick
          PROVE  /\ row'.holder = row.holder /\ row'.gen = row.gen
                 /\ row.left = 0 => row'.left = 0
        BY <2>5, TickShortens
    <2>6. ASSUME NEW v \in Workers,
                 \/ Fence(v) \/ JobEnds(v) \/ Heartbeat(v) \/ Signal(v)
                 \/ Exit(v) \/ Crash(v) \/ Start(v)
          PROVE  row' = row
        BY <2>6 DEF Fence, JobEnds, Heartbeat, Signal, Exit, Crash, Start, Gone
    <2>7. QED BY <2>1, <2>2, <2>4, <2>5, <2>6 DEF Next, Turn, vars
<1>4. row'.left \in Nat
    <2>1. LeaseInv' BY StepKeeps
    <2>2. row' \in Rows BY <2>1 DEF TypeOK
    <2>3. QED BY <2>2, RowFields
<1>5. QED BY <1>1, <1>2, <1>3, <1>4 DEF Owned

-----------------------------------------------------------------------------
(* Theorems.                                                               *)

\* The invariant holds in every reachable state.
THEOREM AlwaysCarried == Spec => []LeaseInv
<1>1. LeaseInv /\ [Next]_vars => LeaseInv' BY StepKeeps
<1>2. QED BY <1>1, InitKeeps, PTL DEF Spec

\* Rows, guards, deadlines and states of the HA layer keep their types, under
\* every combination of faults.
THEOREM TypeCorrect == Spec => []TypeOK
<1>1. LeaseInv => TypeOK BY DEF LeaseInv
<1>2. QED BY <1>1, AlwaysCarried, PTL

\* While no call fails and no process dies, a worker that has shut down holds
\* no live lease: of LeasedWorker's release and HaRuntime::shutdown's, in
\* either order and with an acquisition between them, one always gets it.
THEOREM ShutdownAlwaysReleases == Spec => []ShutdownReleases
<1>1. LeaseInv => ShutdownReleases BY DEF LeaseInv, Carried, ShutdownReleases
<1>2. QED BY <1>1, AlwaysCarried, PTL

\* A guard that has failed verification never passes it again, under every
\* combination of faults.
THEOREM AlwaysStaleForever == Spec => StaleForever
<1>1. LeaseInv /\ [Next]_vars =>
        [\A w \in Workers :
            guard[w] # 0 /\ guard'[w] = guard[w] /\ ~Owned(w, guard[w])
                => ~Owned(w, guard[w])']_vars
    BY StepKeepsStale
<1>2. QED BY <1>1, AlwaysCarried, PTL DEF Spec, StaleForever

=============================================================================
