------------------------ MODULE RiskAdmissionProofs ------------------------
(***************************************************************************)
(* RiskAdmission for any number of replicas and entries, any limits and    *)
(* leases: type correctness, one decision at a time, the hand-over from    *)
(* reservation to ledger without a gap, that a decision counts every entry *)
(* there is, and the exposure cap.                                         *)
(***************************************************************************)
EXTENDS RiskAdmission, SumTheorems, TLAPS

USE DEF Breaks, Fails, Harmed, Moves, Forgets

\* Requests that are on their way belong to decisions and entries that are
\* over, and, while no decision is slow, the one that decides holds the lock.
LockInv ==
    /\ \A e \in unlocking : stage[e] \notin {"new"} \cup Gated
    /\ \A e \in deleting : stage[e] \in {"held", "over"}
    /\ "slow_decision" \notin harm =>
          \A e \in Entries : stage[e] \in Deciding => lock.by = e /\ lock.left > 0

\* While nothing happened that the design does not cover: a running entry has
\* its reservation, a position its entry in the journal, and no replica knows
\* of an event that the journal lacks.
AccountInv ==
    harm = {} =>
        /\ \A r \in Replicas : parked[r] = {} /\ book[r] \subseteq journal
        /\ \A e \in Entries :
              /\ stage[e] # "orphan"
              /\ stage[e] \in Running => e \in rows /\ left[e] > 0
              /\ stage[e] \in {"booked", "held"} => Buy(e) \in journal
              /\ Sell(e) \in journal => stage[e] = "over"

\* While nothing happened: a decision that has read the reservations knows of
\* every entry that still runs, and one that has its view counts every entry.
ReadInv ==
    harm = {} =>
        \A e, x \in Entries :
            /\ stage[e] \in {"read", "viewed"} /\ stage[x] \in Running => x \in known[HomeOf[e]]
            /\ stage[e] = "viewed" /\ stage[x] \in Exposed => x \in seen[e].open \cup Counted(e)

-----------------------------------------------------------------------------
(* Types.                                                                  *)

USE RiskAdmissionAssumption

LEMMA TypeInit == Init => TypeOK
  BY DEF Init, TypeOK, Stages, Gated, Exposed, Running, Deciding, Unread

\* What a replica may do to its ledger keeps the ledger's types.
LEMMA ConsultsType ==
    ASSUME TypeOK, NEW r \in Replicas, Consults(r) \/ Unreadied(r) \/ Refreshes(r)
    PROVE  /\ journal' \subseteq Events
           /\ book' \in [Replicas -> SUBSET Events] /\ parked' \in [Replicas -> SUBSET Events]
           /\ ready' \in [Replicas -> BOOLEAN]
  <1>1. CASE UNCHANGED ledger
    BY <1>1 DEF TypeOK, ledger
  <1>2. CASE Unreadied(r)
    BY <1>2 DEF TypeOK, Unreadied
  <1>3. CASE Refreshes(r)
    BY <1>3 DEF TypeOK, Refreshes
  <1> QED
    BY <1>1, <1>2, <1>3 DEF Consults

LEMMA SubmitsType ==
    ASSUME TypeOK, NEW r \in Replicas, NEW event \in Events, Submits(r, event)
    PROVE  /\ journal' \subseteq Events
           /\ book' \in [Replicas -> SUBSET Events] /\ parked' \in [Replicas -> SUBSET Events]
           /\ ready' \in [Replicas -> BOOLEAN]
           /\ failures' \in 0..MaxFailures /\ harm' \subseteq Harms
  <1>1. journal' \subseteq Events /\ ready' \in [Replicas -> BOOLEAN]
    BY DEF TypeOK, Submits
  <1>2. book' \in [Replicas -> SUBSET Events]
    BY DEF TypeOK, Submits
  <1>3. parked' \in [Replicas -> SUBSET Events]
    BY DEF TypeOK, Submits
  <1>4. failures' \in 0..MaxFailures
    BY DEF TypeOK, Submits, bounds
  <1>5. harm' \subseteq Harms
    BY DEF TypeOK, Submits, bounds, Harms
  <1> QED
    BY <1>1, <1>2, <1>3, <1>4, <1>5

LEMMA DecidesType ==
    ASSUME TypeOK, NEW e \in Entries, Decides(e)
    PROVE  TypeOK'
  <1>h. HomeOf[e] \in Replicas
    OBVIOUS
  <1>s. USE DEF Stages, Gated, Exposed, Running, Deciding
  <1>1. CASE Enter(e)
    BY <1>1 DEF Enter, TypeOK, shared, ledger, bounds
  <1>2. CASE Acquire(e)
    BY <1>2 DEF Acquire, TypeOK, ledger, bounds
  <1>3. CASE GiveUp(e)
    <2>1. Consults(HomeOf[e]) \/ Unreadied(HomeOf[e])
      BY <1>3 DEF GiveUp
    <2>2. stage' \in [Entries -> Stages]
      BY <1>3 DEF GiveUp, TypeOK
    <2>3. lock' \in [by : Entries \cup {Nobody}, left : 0..Admission]
      BY <1>3 DEF GiveUp, TypeOK
    <2>4. failures' \in 0..MaxFailures /\ harm' \subseteq Harms
      BY <1>3 DEF GiveUp, TypeOK, bounds
    <2> QED
      BY <1>3, <1>h, <2>1, <2>2, <2>3, <2>4, ConsultsType DEF GiveUp, TypeOK
  <1>4. CASE Read(e)
    BY <1>4, <1>h DEF Read, TypeOK, ledger, bounds
  <1>5. CASE ReadFails(e)
    <2>1. Consults(HomeOf[e]) \/ Unreadied(HomeOf[e])
      BY <1>5 DEF ReadFails
    <2> QED
      BY <1>5, <1>h, <2>1, ConsultsType DEF ReadFails, DropsGuard, TypeOK
  <1>6. CASE View(e)
    <2>1. Refreshes(HomeOf[e])
      BY <1>6 DEF View
    <2>2. seen' \in [Entries -> [open : SUBSET Entries, fresh : SUBSET Entries]]
      BY <1>6 DEF View, TypeOK, OpenIn
    <2> QED
      BY <1>6, <1>h, <2>1, <2>2, ConsultsType DEF View, TypeOK, shared, bounds
  <1>7. CASE Refuse(e)
    <2>1. Consults(HomeOf[e]) \/ Unreadied(HomeOf[e])
      BY <1>7 DEF Refuse
    <2>2. failures' \in 0..MaxFailures /\ harm' \subseteq Harms
      BY <1>7 DEF Refuse, TypeOK, bounds
    <2> QED
      BY <1>7, <1>h, <2>1, <2>2, ConsultsType DEF Refuse, DropsGuard, TypeOK
  <1>8. CASE Approve(e)
    BY <1>8, <1>h DEF Approve, Reserves, DropsGuard, Unread, TypeOK, ledger, bounds
  <1>9. CASE Reject(e)
    <2>1. rows' \subseteq Entries /\ left' \in [Entries -> 0..Hold]
      BY <1>9 DEF Reject, TypeOK
    <2>2. failures' \in 0..MaxFailures /\ harm' \subseteq Harms
      BY <1>9 DEF Reject, TypeOK, bounds
    <2> QED
      BY <1>9, <2>1, <2>2 DEF Reject, DropsGuard, Unread, TypeOK, ledger
  <1> QED
    BY <1>1, <1>2, <1>3, <1>4, <1>5, <1>6, <1>7, <1>8, <1>9 DEF Decides

LEMMA TradesType ==
    ASSUME TypeOK, NEW e \in Entries, Trades(e) \/ Unlock(e) \/ Delete(e)
    PROVE  TypeOK'
  <1>h. HomeOf[e] \in Replicas /\ Buy(e) \in Events /\ Sell(e) \in Events
    BY DEF Buy, Sell, Events
  <1>s. USE DEF Stages, Gated, Exposed, Running, Deciding
  <1>1. CASE Abandon(e)
    BY <1>1, <1>h DEF Abandon, Releases, TypeOK, ledger, bounds
  <1>2. CASE Book(e)
    BY <1>2, <1>h, SubmitsType DEF Book, TypeOK, shared
  <1>3. CASE Finish(e)
    BY <1>3, <1>h DEF Finish, Releases, TypeOK, ledger, Harms
  <1>4. CASE Exit(e)
    BY <1>4, <1>h, SubmitsType DEF Exit, TypeOK, shared
  <1>5. CASE Unlock(e)
    <2>1. lock' \in [by : Entries \cup {Nobody}, left : 0..Admission]
      BY <1>5 DEF Unlock, TypeOK
    <2>2. failures' \in 0..MaxFailures /\ harm' \subseteq Harms
      BY <1>5 DEF Unlock, TypeOK, bounds
    <2> QED
      BY <1>5, <2>1, <2>2 DEF Unlock, TypeOK, ledger
  <1>6. CASE Delete(e)
    <2>1. rows' \subseteq Entries
      BY <1>6 DEF Delete, TypeOK
    <2>2. failures' \in 0..MaxFailures /\ harm' \subseteq Harms
      BY <1>6 DEF Delete, TypeOK, bounds
    <2> QED
      BY <1>6, <2>1, <2>2 DEF Delete, TypeOK, ledger
  <1> QED
    BY <1>1, <1>2, <1>3, <1>4, <1>5, <1>6 DEF Trades

LEMMA RestartType ==
    ASSUME TypeOK, NEW r \in Replicas, Restart(r)
    PROVE  TypeOK'
  <1>s. USE DEF Stages, Gated, Exposed, Running, Deciding
  <1>1. stage' \in [Entries -> Stages]
    BY DEF Restart, TypeOK
  <1>2. seen' \in [Entries -> [open : SUBSET Entries, fresh : SUBSET Entries]]
    BY DEF Restart, TypeOK, Unread
  <1>3. failures' \in 0..MaxFailures /\ harm' \subseteq Harms
    BY DEF Restart, TypeOK, Harms
  <1>4. ready' \in [Replicas -> BOOLEAN]
    BY DEF Restart, TypeOK
  <1> QED
    BY <1>1, <1>2, <1>3, <1>4 DEF Restart, TypeOK

LEMMA LessStays ==
    ASSUME NEW k \in Nat, NEW n \in 0..k
    PROVE  Less(n) \in 0..k
  BY DEF Less

LEMMA TickType ==
    ASSUME TypeOK, Tick
    PROVE  TypeOK'
  <1>1. failures' \in 0..MaxFailures
    BY DEF Tick, TypeOK, bounds
  <1>2. harm' \subseteq Harms
    BY DEF Tick, TypeOK, bounds, Late, Harms
  <1>3. lock' \in [by : Entries \cup {Nobody}, left : 0..Admission]
    <2>1. Less(lock.left) \in 0..Admission
      BY LessStays DEF TypeOK
    <2> QED
      BY <2>1 DEF Tick, TypeOK
  <1>4. left' \in [Entries -> 0..Hold]
    <2>1. \A e \in Entries : Less(left[e]) \in 0..Hold
      BY LessStays DEF TypeOK
    <2> QED
      BY <2>1 DEF Tick
  <1> QED
    BY <1>1, <1>2, <1>3, <1>4 DEF Tick, TypeOK, ledger

LEMMA TypeStep == TypeOK /\ [Next]_vars => TypeOK'
  <1> SUFFICES ASSUME TypeOK, [Next]_vars
               PROVE  TypeOK'
    OBVIOUS
  <1>1. CASE Maintain
    BY <1>1 DEF Maintain, TypeOK, shared, bounds
  <1>2. CASE UNCHANGED vars
    BY <1>2 DEF vars, shared, ledger, bounds, TypeOK
  <1> QED
    BY <1>1, <1>2, DecidesType, TradesType, RestartType, TickType DEF Next

\* RiskAdmission is type correct: leases and reservations stay within their
\* lengths, whatever fails (accounting.rs, engine.rs).
THEOREM TypeCorrect == Spec => []TypeOK
  BY TypeInit, TypeStep, PTL DEF Spec

-----------------------------------------------------------------------------
(* One decision at a time.                                                 *)

LEMMA LockInit == Init => LockInv
  BY DEF Init, LockInv, Deciding

LEMMA LockDecides ==
    ASSUME TypeOK, LockInv, NEW e \in Entries, Decides(e)
    PROVE  LockInv'
  <1>s. USE DEF LockInv, TypeOK, Gated, Deciding, DropsGuard
  <1>1. CASE Enter(e)
    BY <1>1 DEF Enter, shared, bounds
  <1>2. CASE Acquire(e)
    BY <1>2 DEF Acquire, bounds
  <1>3. CASE GiveUp(e)
    <2>1. \A x \in unlocking' : stage'[x] \notin {"new"} \cup Gated
      BY <1>3 DEF GiveUp
    <2>2. \A x \in deleting' : stage'[x] \in {"held", "over"}
      BY <1>3 DEF GiveUp
    <2>3. ASSUME "slow_decision" \notin harm', NEW x \in Entries, stage'[x] \in Deciding
          PROVE  lock'.by = x /\ lock'.left > 0
      <3>1. harm' = harm /\ x # e /\ stage[x] \in Deciding
        BY <1>3, <2>3 DEF GiveUp, bounds
      <3>2. lock.by = x /\ lock.left > 0
        BY <3>1, <2>3
      <3> QED
        BY <1>3, <3>2 DEF GiveUp
    <2> QED
      BY <2>1, <2>2, <2>3
  <1>4. CASE Read(e)
    BY <1>4 DEF Read, bounds
  <1>5. CASE ReadFails(e)
    BY <1>5 DEF ReadFails
  <1>6. CASE View(e)
    BY <1>6 DEF View, shared, bounds
  <1>7. CASE Refuse(e)
    BY <1>7 DEF Refuse, bounds
  <1>8. CASE Approve(e)
    BY <1>8 DEF Approve, bounds
  <1>9. CASE Reject(e)
    BY <1>9 DEF Reject, bounds
  <1> QED
    BY <1>1, <1>2, <1>3, <1>4, <1>5, <1>6, <1>7, <1>8, <1>9 DEF Decides

LEMMA LockTrades ==
    ASSUME TypeOK, LockInv, NEW e \in Entries, Trades(e) \/ Unlock(e) \/ Delete(e)
    PROVE  LockInv'
  <1>s. USE DEF LockInv, TypeOK, Gated, Deciding
  <1>1. CASE Abandon(e)
    BY <1>1 DEF Abandon, Releases, bounds
  <1>2. CASE Book(e)
    BY <1>2 DEF Book, Submits, shared, bounds
  <1>3. CASE Finish(e)
    BY <1>3 DEF Finish, Releases
  <1>4. CASE Exit(e)
    BY <1>4 DEF Exit, Submits, shared, bounds
  <1>5. CASE Unlock(e)
    <2>1. e \in unlocking /\ stage[e] \notin Deciding
      BY <1>5 DEF Unlock
    <2>2. \A x \in unlocking' : stage'[x] \notin {"new"} \cup Gated
      BY <1>5 DEF Unlock
    <2>3. \A x \in deleting' : stage'[x] \in {"held", "over"}
      BY <1>5 DEF Unlock
    <2>4. ASSUME "slow_decision" \notin harm', NEW x \in Entries, stage'[x] \in Deciding
          PROVE  lock'.by = x /\ lock'.left > 0
      <3>1. lock.by = x /\ lock.left > 0 /\ x # e
        BY <1>5, <2>1, <2>4 DEF Unlock, bounds
      <3> QED
        BY <1>5, <3>1 DEF Unlock, Unlocks
    <2> QED
      BY <2>2, <2>3, <2>4
  <1>6. CASE Delete(e)
    BY <1>6 DEF Delete, bounds
  <1> QED
    BY <1>1, <1>2, <1>3, <1>4, <1>5, <1>6 DEF Trades

LEMMA LockRestart ==
    ASSUME TypeOK, LockInv, NEW r \in Replicas, Restart(r)
    PROVE  LockInv'
  <1>s. USE DEF LockInv, TypeOK, Gated, Deciding
  <1>1. \A x \in unlocking' : stage'[x] \notin {"new"} \cup Gated
    BY DEF Restart
  <1>2. \A x \in deleting' : stage'[x] \in {"held", "over"}
    BY DEF Restart
  <1>3. \A x \in Entries : stage'[x] \in Deciding => stage[x] \in Deciding
    BY DEF Restart
  <1>4. lock' = lock /\ harm \subseteq harm'
    BY DEF Restart
  <1> QED
    BY <1>1, <1>2, <1>3, <1>4

LEMMA LockTick ==
    ASSUME TypeOK, LockInv, Tick
    PROVE  LockInv'
  <1>s. USE DEF LockInv, TypeOK
  <1>1. ASSUME "slow_decision" \notin harm', NEW x \in Entries, stage'[x] \in Deciding
        PROVE  lock'.by = x /\ lock'.left > 0
    <2>1. stage' = stage /\ harm \subseteq harm'
      BY DEF Tick, bounds
    <2>2. lock.by = x /\ lock.left > 0
      BY <1>1, <2>1
    <2>3. lock.left # 1
      BY <1>1, <2>1 DEF Tick, Late, bounds
    <2>4. lock.left \in Nat
      OBVIOUS
    <2>5. Less(lock.left) > 0
      BY <2>2, <2>3, <2>4 DEF Less
    <2> QED
      BY <2>2, <2>5 DEF Tick
  <1> QED
    BY <1>1 DEF Tick

LEMMA LockStep == TypeOK /\ LockInv /\ [Next]_vars => LockInv'
  <1> SUFFICES ASSUME TypeOK, LockInv, [Next]_vars
               PROVE  LockInv'
    OBVIOUS
  <1>1. CASE Maintain
    BY <1>1 DEF Maintain, LockInv, shared, bounds
  <1>2. CASE UNCHANGED vars
    BY <1>2 DEF vars, shared, bounds, LockInv
  <1> QED
    BY <1>1, <1>2, LockDecides, LockTrades, LockRestart, LockTick DEF Next

\* The admission lock (DbRiskStore::acquire_entry_admission and its guard):
\* while no decision outlives its lease, at most one decision of all replicas
\* is between reading the reservations and writing its own.
THEOREM AlwaysOneDecider == Spec => []OneDecider
  <1>1. TypeOK /\ LockInv => OneDecider
    BY DEF LockInv, OneDecider
  <1> QED
    BY <1>1, TypeInit, TypeStep, LockInit, LockStep, PTL DEF Spec

-----------------------------------------------------------------------------
(* From reservation to ledger.                                             *)

LEMMA AccountInit == Init => AccountInv
  BY DEF Init, AccountInv, Running

\* What happened stays on record.
LEMMA HarmStays == [Next]_vars /\ harm' = {} => harm = {}
  <1> SUFFICES ASSUME [Next]_vars
               PROVE  harm \subseteq harm'
    OBVIOUS
  <1>1. ASSUME NEW e \in Entries, Decides(e)
        PROVE  harm' = harm
    BY <1>1 DEF Decides, Enter, Acquire, GiveUp, Read, ReadFails, View, Refuse, Approve, Reject, bounds
  <1>2. ASSUME NEW e \in Entries, Trades(e) \/ Unlock(e) \/ Delete(e)
        PROVE  harm \subseteq harm'
    BY <1>2 DEF Trades, Abandon, Book, Finish, Exit, Submits, Unlock, Delete, bounds
  <1>3. ASSUME NEW r \in Replicas, Restart(r)
        PROVE  harm \subseteq harm'
    BY <1>3 DEF Restart
  <1>4. CASE Maintain \/ Tick \/ UNCHANGED vars
    BY <1>4 DEF Maintain, Tick, vars, bounds
  <1> QED
    BY <1>1, <1>2, <1>3, <1>4 DEF Next

\* A decision adds nothing to the journal, and to its book nothing that is not
\* in the journal.
LEMMA ConsultsAccount ==
    ASSUME TypeOK, NEW r \in Replicas, Consults(r) \/ Unreadied(r) \/ Refreshes(r),
           \A q \in Replicas : parked[q] = {} /\ book[q] \subseteq journal
    PROVE  /\ journal' = journal
           /\ \A q \in Replicas : parked'[q] = {} /\ book'[q] \subseteq journal'
  <1>1. CASE UNCHANGED ledger
    BY <1>1 DEF ledger
  <1>2. CASE Unreadied(r)
    BY <1>2 DEF Unreadied
  <1>3. CASE Refreshes(r)
    BY <1>3 DEF TypeOK, Refreshes
  <1> QED
    BY <1>1, <1>2, <1>3 DEF Consults

LEMMA AccountDecides ==
    ASSUME TypeOK, AccountInv, NEW e \in Entries, Decides(e), harm = {}
    PROVE  AccountInv'
  <1>h. HomeOf[e] \in Replicas
    OBVIOUS
  <1>s. USE DEF AccountInv, TypeOK, Running
  <1>1. CASE Enter(e)
    BY <1>1 DEF Enter, shared, ledger
  <1>2. CASE Acquire(e)
    BY <1>2 DEF Acquire, ledger
  <1>3. CASE GiveUp(e)
    <2>1. Consults(HomeOf[e]) \/ Unreadied(HomeOf[e])
      BY <1>3 DEF GiveUp
    <2> QED
      BY <1>3, <1>h, <2>1, ConsultsAccount DEF GiveUp
  <1>4. CASE Read(e)
    BY <1>4 DEF Read, ledger
  <1>5. CASE ReadFails(e)
    <2>1. Consults(HomeOf[e]) \/ Unreadied(HomeOf[e])
      BY <1>5 DEF ReadFails
    <2> QED
      BY <1>5, <1>h, <2>1, ConsultsAccount DEF ReadFails
  <1>6. CASE View(e)
    <2>1. Refreshes(HomeOf[e])
      BY <1>6 DEF View
    <2> QED
      BY <1>6, <1>h, <2>1, ConsultsAccount DEF View, shared
  <1>7. CASE Refuse(e)
    <2>1. Consults(HomeOf[e]) \/ Unreadied(HomeOf[e])
      BY <1>7 DEF Refuse
    <2> QED
      BY <1>7, <1>h, <2>1, ConsultsAccount DEF Refuse
  <1>8. CASE Approve(e)
    BY <1>8 DEF Approve, Reserves, ledger
  <1>9. CASE Reject(e)
    <2>1. \A x \in Entries \ {e} : (x \in rows' <=> x \in rows) /\ left'[x] = left[x]
      BY <1>9 DEF Reject
    <2> QED
      BY <1>9, <2>1 DEF Reject, ledger
  <1> QED
    BY <1>1, <1>2, <1>3, <1>4, <1>5, <1>6, <1>7, <1>8, <1>9 DEF Decides

LEMMA AccountTrades ==
    ASSUME TypeOK, LockInv, AccountInv, NEW e \in Entries,
           Trades(e) \/ Unlock(e) \/ Delete(e), harm' = {}, harm = {}
    PROVE  AccountInv'
  <1>h. HomeOf[e] \in Replicas
    OBVIOUS
  <1>e. \A x \in Entries : Buy(e) # Sell(x) /\ (Sell(e) = Sell(x) => e = x)
    BY DEF Buy, Sell
  <1>s. USE DEF AccountInv, TypeOK, Running
  <1>1. CASE Abandon(e)
    BY <1>1 DEF Abandon, Releases, ledger
  <1>2. CASE Book(e)
    <2>1. /\ journal' = journal \cup {Buy(e)} /\ book' = [book EXCEPT ![HomeOf[e]] = @ \cup {Buy(e)}]
          /\ parked' = [parked EXCEPT ![HomeOf[e]] = {}]
      BY <1>2, <1>h DEF Book, Submits
    <2>2. \A r \in Replicas : parked'[r] = {} /\ book'[r] \subseteq journal'
      BY <1>h, <2>1
    <2>3. \A x \in Entries : Sell(x) \in journal' <=> Sell(x) \in journal
      BY <1>e, <2>1
    <2> QED
      BY <1>2, <2>1, <2>2, <2>3 DEF Book, shared
  <1>3. CASE Finish(e)
    BY <1>3 DEF Finish, Releases, ledger
  <1>4. CASE Exit(e)
    <2>1. /\ journal' = journal \cup {Sell(e)} /\ book' = [book EXCEPT ![HomeOf[e]] = @ \cup {Sell(e)}]
          /\ parked' = [parked EXCEPT ![HomeOf[e]] = {}]
      BY <1>4, <1>h DEF Exit, Submits
    <2>2. \A r \in Replicas : parked'[r] = {} /\ book'[r] \subseteq journal'
      BY <1>h, <2>1
    <2>3. \A x \in Entries \ {e} : Sell(x) \in journal' <=> Sell(x) \in journal
      BY <1>e, <2>1
    <2> QED
      BY <1>4, <2>1, <2>2, <2>3 DEF Exit, shared
  <1>5. CASE Unlock(e)
    BY <1>5 DEF Unlock, ledger
  <1>6. CASE Delete(e)
    <2>1. stage[e] \notin Running
      BY <1>6 DEF Delete, LockInv
    <2>2. \A x \in Entries \ {e} : x \in rows' <=> x \in rows
      BY <1>6 DEF Delete
    <2> QED
      BY <1>6, <2>1, <2>2 DEF Delete, ledger
  <1> QED
    BY <1>1, <1>2, <1>3, <1>4, <1>5, <1>6 DEF Trades

LEMMA AccountRestart ==
    ASSUME TypeOK, AccountInv, NEW r \in Replicas, Restart(r), harm' = {}, harm = {}
    PROVE  AccountInv'
  <1>s. USE DEF AccountInv, TypeOK, Running
  <1>1. stage' = [e \in Entries |->
            CASE HomeOf[e] # r -> stage[e]
              [] e \in {} -> "orphan"
              [] stage[e] \in Gated \cup {"approved"} -> "over"
              [] stage[e] = "booked" -> "held"
              [] OTHER -> stage[e]]
    BY DEF Restart
  <1>2. \A e \in Entries :
            \/ stage'[e] = stage[e]
            \/ stage'[e] = "over"
            \/ stage[e] = "booked" /\ stage'[e] = "held"
    BY <1>1
  <1>3. \A q \in Replicas : parked'[q] = {} /\ book'[q] \subseteq journal'
    BY DEF Restart
  <1> QED
    BY <1>2, <1>3 DEF Restart

LEMMA AccountTick ==
    ASSUME TypeOK, AccountInv, Tick, harm' = {}, harm = {}
    PROVE  AccountInv'
  <1>s. USE DEF AccountInv, TypeOK
  <1>1. ASSUME NEW e \in Entries, stage[e] \in Running
        PROVE  left'[e] > 0
    <2>1. left[e] \in Nat /\ left[e] > 0
      BY <1>1
    <2>2. left[e] # 1
      BY <1>1 DEF Tick, Late, bounds
    <2>3. Less(left[e]) > 0
      BY <2>1, <2>2 DEF Less
    <2> QED
      BY <2>3 DEF Tick
  <1> QED
    BY <1>1 DEF Tick, ledger

LEMMA AccountStep == TypeOK /\ LockInv /\ AccountInv /\ [Next]_vars => AccountInv'
  <1> SUFFICES ASSUME TypeOK, LockInv, AccountInv, [Next]_vars, harm' = {}
               PROVE  AccountInv'
    BY DEF AccountInv
  <1>h. harm = {}
    BY HarmStays
  <1>1. CASE Maintain
    BY <1>1, <1>h DEF Maintain, AccountInv
  <1>2. CASE UNCHANGED vars
    BY <1>2 DEF vars, shared, ledger, bounds, AccountInv
  <1> QED
    BY <1>1, <1>2, <1>h, AccountDecides, AccountTrades, AccountRestart, AccountTick DEF Next

\* ReservationLease and GlobalLedger::submit: while nothing happened that the
\* design does not cover, no position, and no entry that may become one, is
\* without a live reservation row and outside the journal.
THEOREM AlwaysAccounted == Spec => []Accounted
  <1>1. TypeOK /\ AccountInv => Accounted
    BY DEF AccountInv, Accounted, Exposed, Running, OpenIn
  <1> QED
    BY <1>1, TypeInit, TypeStep, LockInit, LockStep, AccountInit, AccountStep, PTL DEF Spec

-----------------------------------------------------------------------------
(* What a decision counts.                                                 *)

LEMMA ReadInit == Init => ReadInv
  BY DEF Init, ReadInv

\* No entry becomes one that runs, or that may be a position.
NoneMore ==
    /\ \A x \in Entries : stage'[x] \in Running => stage[x] \in Running
    /\ \A x \in Entries : stage'[x] \in Exposed => stage[x] \in Exposed

\* A step keeps ReadInv when it adds neither an entry nor a reader, leaves
\* alone what readers have seen, and takes nothing that still runs, or that
\* one of them counts, out of their memory.
LEMMA ReadKept ==
    ASSUME ReadInv, harm = {}, NoneMore,
           \A e \in Entries : stage'[e] \in {"read", "viewed"} =>
               stage'[e] = stage[e] /\ seen'[e] = seen[e],
           \A e, x \in Entries :
               /\ stage'[e] \in {"read", "viewed"} /\ x \in known[HomeOf[e]]
               /\ stage'[x] \in Running \/ (stage[e] = "viewed" /\ stage'[x] \in Exposed)
               => x \in known'[HomeOf[e]]
    PROVE  ReadInv'
  <1>1. ASSUME NEW e \in Entries, NEW x \in Entries,
               stage'[e] \in {"read", "viewed"}, stage'[x] \in Running
        PROVE  x \in known'[HomeOf[e]]
    <2>1. stage[e] \in {"read", "viewed"} /\ stage[x] \in Running
      BY <1>1 DEF NoneMore
    <2>2. x \in known[HomeOf[e]]
      BY <2>1 DEF ReadInv
    <2> QED
      BY <1>1, <2>2
  <1>2. ASSUME NEW e \in Entries, NEW x \in Entries,
               stage'[e] = "viewed", stage'[x] \in Exposed
        PROVE  x \in seen'[e].open \cup Counted(e)'
    <2>1. stage[e] = "viewed" /\ seen'[e] = seen[e] /\ stage[x] \in Exposed
      BY <1>2 DEF NoneMore
    <2>2. x \in seen[e].open \cup Counted(e)
      BY <2>1 DEF ReadInv
    <2>3. x \in known[HomeOf[e]] => x \in known'[HomeOf[e]]
      BY <1>2, <2>1
    <2> QED
      BY <2>1, <2>2, <2>3 DEF Counted
  <1> QED
    BY <1>1, <1>2 DEF ReadInv

LEMMA ReadDecides ==
    ASSUME TypeOK, LockInv, AccountInv, ReadInv, NEW e \in Entries, Decides(e), harm = {}
    PROVE  ReadInv'
  <1>h. HomeOf[e] \in Replicas
    OBVIOUS
  <1>l. \A x \in Entries : stage[x] \in Deciding => lock.by = x /\ lock.left > 0
    BY DEF LockInv
  <1>s. USE DEF TypeOK, Running, Exposed
  <1>1. CASE Enter(e)
    BY <1>1, ReadKept DEF Enter, NoneMore
  <1>2. CASE Acquire(e)
    BY <1>2, ReadKept DEF Acquire, NoneMore
  <1>3. CASE GiveUp(e)
    BY <1>3, ReadKept DEF GiveUp, NoneMore
  <1>4. CASE Read(e)
    <2>1. \A x \in Entries : stage[x] \in {"read", "viewed"} => FALSE
      BY <1>4, <1>l DEF Read, Deciding
    <2>2. \A x \in Entries : stage'[x] \in {"read", "viewed"} => x = e /\ stage'[e] = "read"
      BY <1>4, <2>1 DEF Read
    <2>3. \A x \in Entries : stage'[x] \in Running => x \in known'[HomeOf[e]]
      BY <1>4, <1>h DEF Read, AccountInv
    <2> QED
      BY <2>2, <2>3 DEF ReadInv
  <1>5. CASE ReadFails(e)
    BY <1>5, ReadKept DEF ReadFails, NoneMore
  <1>6. CASE View(e)
    <2>1. \A x \in Entries : stage'[x] \in {"read", "viewed"} => x = e
      BY <1>6, <1>l DEF View, Deciding
    <2>2. \A x \in Entries : stage'[x] \in Running => x \in known'[HomeOf[e]]
      BY <1>6 DEF View, ReadInv
    <2>3. ASSUME NEW x \in Entries, stage'[x] \in Exposed
          PROVE  x \in seen'[e].open \cup Counted(e)'
      <3>1. stage[x] = stage'[x] /\ stage[x] # "orphan"
        BY <1>6, <2>3 DEF View, AccountInv
      <3>2. CASE stage[x] \in Running
        <4>1. left[x] > 0 /\ x \in seen'[e].fresh
          BY <1>6, <3>2 DEF View, AccountInv
        <4> QED
          BY <4>1, <3>1, <3>2, <2>2 DEF Counted
      <3>3. CASE stage[x] = "held"
        <4>1. book'[HomeOf[e]] = journal
          BY <1>6, <1>h DEF View, Refreshes, AccountInv
        <4>2. Buy(x) \in journal /\ Sell(x) \notin journal
          BY <3>3 DEF AccountInv
        <4>3. x \in OpenIn(book'[HomeOf[e]])
          BY <4>1, <4>2 DEF OpenIn
        <4> QED
          BY <1>6, <4>3 DEF View
      <3> QED
        BY <2>3, <3>1, <3>2, <3>3
    <2> QED
      BY <2>1, <2>2, <2>3 DEF ReadInv
  <1>7. CASE Refuse(e)
    BY <1>7, ReadKept DEF Refuse, NoneMore
  <1>8. CASE Approve(e)
    <2>1. \A x \in Entries : stage'[x] \in {"read", "viewed"} => FALSE
      BY <1>8, <1>l DEF Approve, Deciding
    <2> QED
      BY <2>1 DEF ReadInv
  <1>9. CASE Reject(e)
    BY <1>9, ReadKept DEF Reject, NoneMore
  <1> QED
    BY <1>1, <1>2, <1>3, <1>4, <1>5, <1>6, <1>7, <1>8, <1>9 DEF Decides

LEMMA ReadTrades ==
    ASSUME TypeOK, ReadInv, NEW e \in Entries,
           Trades(e) \/ Unlock(e) \/ Delete(e), harm' = {}, harm = {}
    PROVE  ReadInv'
  <1>s. USE DEF TypeOK, Running, Exposed
  <1>1. CASE Abandon(e)
    BY <1>1, ReadKept DEF Abandon, Releases, NoneMore
  <1>2. CASE Book(e)
    BY <1>2, ReadKept DEF Book, NoneMore
  <1>3. CASE Finish(e)
    <2>1. \A x \in Entries : stage[x] = "viewed" => HomeOf[x] # HomeOf[e]
      BY <1>3 DEF Finish, Overlaps
    <2>2. stage'[e] = "held" /\ \A x \in Entries \ {e} : stage'[x] = stage[x]
      BY <1>3 DEF Finish
    <2>3. \A q \in Replicas : known'[q] = IF q = HomeOf[e] THEN known[q] \ {e} ELSE known[q]
      BY <1>3 DEF Finish, Releases
    <2>4. NoneMore
      BY <1>3, <2>2 DEF Finish, NoneMore
    <2>5. \A y \in Entries : stage'[y] \in {"read", "viewed"} =>
              stage'[y] = stage[y] /\ seen'[y] = seen[y]
      BY <1>3, <2>2 DEF Finish
    <2>6. ASSUME NEW y \in Entries, NEW x \in Entries,
                 stage'[y] \in {"read", "viewed"}, x \in known[HomeOf[y]],
                 stage'[x] \in Running \/ (stage[y] = "viewed" /\ stage'[x] \in Exposed)
          PROVE  x \in known'[HomeOf[y]]
      <3>1. CASE stage'[x] \in Running
        BY <2>2, <2>3, <2>6, <3>1
      <3>2. CASE stage[y] = "viewed"
        BY <2>1, <2>3, <2>6, <3>2
      <3> QED
        BY <2>6, <3>1, <3>2
    <2> QED
      BY <2>4, <2>5, <2>6, ReadKept
  <1>4. CASE Exit(e)
    BY <1>4, ReadKept DEF Exit, NoneMore
  <1>5. CASE Unlock(e)
    BY <1>5, ReadKept DEF Unlock, NoneMore
  <1>6. CASE Delete(e)
    BY <1>6, ReadKept DEF Delete, NoneMore
  <1> QED
    BY <1>1, <1>2, <1>3, <1>4, <1>5, <1>6 DEF Trades

LEMMA ReadRestart ==
    ASSUME TypeOK, ReadInv, NEW r \in Replicas, Restart(r), harm' = {}, harm = {}
    PROVE  ReadInv'
  <1>1. stage' = [e \in Entries |->
            CASE HomeOf[e] # r -> stage[e]
              [] e \in {} -> "orphan"
              [] stage[e] \in Gated \cup {"approved"} -> "over"
              [] stage[e] = "booked" -> "held"
              [] OTHER -> stage[e]]
    BY DEF Restart
  <1>2. \A e \in Entries :
            \/ stage'[e] = stage[e]
            \/ stage'[e] = "over"
            \/ stage[e] = "booked" /\ stage'[e] = "held"
    BY <1>1
  <1>3. NoneMore
    BY <1>2 DEF NoneMore, Running, Exposed
  <1>4. \A e \in Entries : stage'[e] \in {"read", "viewed"} => HomeOf[e] # r /\ stage'[e] = stage[e]
    BY <1>1 DEF Gated, Deciding
  <1>5. \A e \in Entries : HomeOf[e] # r => seen'[e] = seen[e] /\ known'[HomeOf[e]] = known[HomeOf[e]]
    BY DEF Restart, TypeOK
  <1> QED
    BY <1>3, <1>4, <1>5, ReadKept

LEMMA ReadStep == TypeOK /\ LockInv /\ AccountInv /\ ReadInv /\ [Next]_vars => ReadInv'
  <1> SUFFICES ASSUME TypeOK, LockInv, AccountInv, ReadInv, [Next]_vars, harm' = {}
               PROVE  ReadInv'
    BY DEF ReadInv
  <1>h. harm = {}
    BY HarmStays
  <1>1. CASE Maintain \/ Tick \/ UNCHANGED vars
    BY <1>1, <1>h, ReadKept DEF Maintain, Tick, vars, NoneMore
  <1> QED
    BY <1>1, <1>h, ReadDecides, ReadTrades, ReadRestart DEF Next

\* decide_inner: while nothing happened that the design does not cover, what a
\* decision adds up, the view of its ledger and the reservations in memory,
\* includes every entry of every replica that is, or may become, a position.
THEOREM AlwaysSeesEverything == Spec => []SeesEverything
  <1>1. ReadInv => SeesEverything
    BY DEF ReadInv, SeesEverything
  <1> QED
    BY <1>1, TypeInit, TypeStep, LockInit, LockStep, AccountInit, AccountStep,
       ReadInit, ReadStep, PTL DEF Spec

-----------------------------------------------------------------------------
(* The exposure cap.                                                       *)

\* Sizes of entries add up to a natural number, more for more entries.
LEMMA TotalNat ==
    ASSUME NEW es \in SUBSET Entries
    PROVE  IsFiniteSet(es) /\ Total(es) \in Nat
  <1>1. IsFiniteSet(es) /\ \A e \in es : Size[e] \in Nat
    BY RiskAdmissionAssumption, FS_Subset
  <1> QED
    BY <1>1, SumNat DEF Total

LEMMA TotalMonotone ==
    ASSUME NEW es \in SUBSET Entries, NEW few \in SUBSET es
    PROVE  Total(few) <= Total(es)
  <1>1. IsFiniteSet(es) /\ \A e \in es : Size[e] \in Nat
    BY RiskAdmissionAssumption, FS_Subset
  <1> QED
    BY <1>1, SumMonotone DEF Total

\* The cap holds while no more entries are exposed.
LEMMA CapKept ==
    ASSUME Limit > 0, CapHolds, harm = {}, NoneMore
    PROVE  CapHolds'
  <1> DEFINE before == {e \in Entries : stage[e] \in Exposed}
             after == {e \in Entries : stage'[e] \in Exposed}
  <1>1. after \in SUBSET before /\ before \in SUBSET Entries /\ after \in SUBSET Entries
    BY DEF NoneMore
  <1>2. Total(before) <= Limit
    BY DEF CapHolds
  <1> HIDE DEF before, after
  <1>3. Total(after) <= Limit
    BY <1>1, <1>2, TotalNat, TotalMonotone, RiskAdmissionAssumption
  <1> QED
    BY <1>3 DEF CapHolds, after, Total

\* The accepted entry is added to entries the decision has counted.
LEMMA CapApprove ==
    ASSUME Limit > 0, TypeOK, ReadInv, CapHolds, harm = {}, NEW e \in Entries, Approve(e)
    PROVE  CapHolds'
  <1> DEFINE before == {x \in Entries : stage[x] \in Exposed}
             after == {x \in Entries : stage'[x] \in Exposed}
             open == seen[e].open
             counted == Counted(e)
  <1>1. open \in SUBSET Entries /\ counted \in SUBSET Entries
    BY RiskAdmissionAssumption DEF TypeOK, Counted
  <1>2. before \in SUBSET (open \cup counted) /\ before \in SUBSET Entries
    BY DEF ReadInv, Approve
  <1>3. after = before \cup {e} /\ e \notin before
    BY DEF Approve, TypeOK, Exposed, Running
  <1>4. Total(open) + Total(counted) + Size[e] <= Limit
    BY DEF Approve, Accepts
  <1>5. Size[e] \in Nat
    BY RiskAdmissionAssumption
  <1> HIDE DEF before, after, open, counted
  <1>6. Total(after) = Total(before) + Size[e]
    <2>1. IsFiniteSet(before) /\ \A y \in before \cup {e} : Size[y] \in Int
      BY <1>2, TotalNat, RiskAdmissionAssumption
    <2> QED
      BY <1>3, <2>1, SumAdd DEF Total
  <1>7. Total(open \cup counted) <= Total(open) + Total(counted)
    <2>1. IsFiniteSet(open) /\ IsFiniteSet(counted) /\ \A y \in open \cup counted : Size[y] \in Nat
      BY <1>1, TotalNat, RiskAdmissionAssumption
    <2> QED
      BY <2>1, SumUnion DEF Total
  <1>8. Total(before) <= Total(open \cup counted)
    BY <1>1, <1>2, TotalMonotone
  <1>9. /\ Total(before) \in Nat /\ Total(open) \in Nat /\ Total(counted) \in Nat
        /\ Total(open \cup counted) \in Nat
    BY <1>1, <1>2, TotalNat
  <1>10. Total(after) <= Limit
    BY <1>4, <1>5, <1>6, <1>7, <1>8, <1>9, RiskAdmissionAssumption
  <1> QED
    BY <1>10 DEF CapHolds, after, Total

\* No other step exposes an entry.
LEMMA OnlyApproveExposes ==
    ASSUME TypeOK, [Next]_vars, harm' = {}, \A e \in Entries : ~Approve(e)
    PROVE  NoneMore
  <1>s. USE DEF TypeOK, NoneMore, Running, Exposed
  <1>1. ASSUME NEW e \in Entries, Decides(e)
        PROVE  NoneMore
    <2>1. \E s \in {"waiting", "locked", "read", "viewed", "over"} : stage' = [stage EXCEPT ![e] = s]
      BY <1>1 DEF Decides, Enter, Acquire, GiveUp, Read, ReadFails, View, Refuse, Reject
    <2> QED
      BY <2>1
  <1>2. ASSUME NEW e \in Entries, Trades(e) \/ Unlock(e) \/ Delete(e)
        PROVE  NoneMore
    BY <1>2 DEF Trades, Abandon, Book, Finish, Exit, Unlock, Delete
  <1>3. ASSUME NEW r \in Replicas, Restart(r)
        PROVE  NoneMore
    <2>1. stage' = [e \in Entries |->
              CASE HomeOf[e] # r -> stage[e]
                [] e \in {} -> "orphan"
                [] stage[e] \in Gated \cup {"approved"} -> "over"
                [] stage[e] = "booked" -> "held"
                [] OTHER -> stage[e]]
      BY <1>3 DEF Restart
    <2>2. \A e \in Entries :
              \/ stage'[e] = stage[e]
              \/ stage'[e] = "over"
              \/ stage[e] = "booked" /\ stage'[e] = "held"
      BY <2>1
    <2> QED
      BY <2>2
  <1>4. CASE Maintain \/ Tick \/ UNCHANGED vars
    BY <1>4 DEF Maintain, Tick, vars
  <1> QED
    BY <1>1, <1>2, <1>3, <1>4 DEF Next

LEMMA CapInit == Init => CapHolds
  <1> SUFFICES ASSUME Init PROVE CapHolds
    OBVIOUS
  <1>1. {e \in Entries : stage[e] \in Exposed} = {}
    BY DEF Init, Exposed, Running
  <1>2. Total({}) = 0
    BY SumEmpty DEF Total
  <1> QED
    BY <1>1, <1>2, RiskAdmissionAssumption DEF CapHolds

LEMMA CapStep == TypeOK /\ ReadInv /\ CapHolds /\ [Next]_vars => CapHolds'
  <1> SUFFICES ASSUME Limit > 0, TypeOK, ReadInv, CapHolds, [Next]_vars, harm' = {}
               PROVE  CapHolds'
    BY DEF CapHolds
  <1>h. harm = {}
    BY HarmStays
  <1>1. CASE \E e \in Entries : Approve(e)
    BY <1>h, <1>1, CapApprove
  <1>2. CASE \A e \in Entries : ~Approve(e)
    BY <1>h, <1>2, OnlyApproveExposes, CapKept
  <1> QED
    BY <1>1, <1>2

\* max_portfolio_exposure_ref: for any number of replicas and entries of any
\* size, while nothing happened that the design does not cover, the positions
\* held and the entries accepted anywhere never exceed the cap together.
THEOREM AlwaysCapHolds == Spec => []CapHolds
  BY TypeInit, TypeStep, LockInit, LockStep, AccountInit, AccountStep,
     ReadInit, ReadStep, CapInit, CapStep, PTL DEF Spec

=============================================================================
