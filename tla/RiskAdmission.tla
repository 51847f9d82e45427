--------------------------- MODULE RiskAdmission ---------------------------
(***************************************************************************)
(* Admission of entries under the deployment-wide exposure cap: the global *)
(* risk engine's decision with its reservation, the admission lock and the *)
(* reservation rows that replicas share, and the accounting ledger each    *)
(* replica reads its exposure from.                                        *)
(*                                                                         *)
(* Source: crates/core/src/global_risk/engine.rs (decide_with_reservation, *)
(* decide_inner, ReservationLease), crates/server/src/accounting.rs        *)
(* (DbRiskStore, recover, maintenance_tick), crates/core/src/accounting/   *)
(* ledger.rs (submit, refresh_from_store, flush_pending), and the lifetime *)
(* of a reservation in module-sniper entry.rs.                             *)
(*                                                                         *)
(* Exposure is at cost.  The limits per wallet, venue, strategy and asset  *)
(* are the same sum over fewer entries; Refuse stands for the checks that  *)
(* read no shared state.                                                   *)
(***************************************************************************)
EXTENDS Naturals, FiniteSets, Functions

CONSTANTS
    Replicas,     \* processes that trade
    Leader,       \* the replica that runs accounting maintenance
    Entries,      \* entries that modules ask to make
    HomeOf,       \* HomeOf[e]: the replica whose module asks
    Size,         \* Size[e]: requested exposure
    Limit,        \* max_portfolio_exposure_ref (0: off)
    MaxOpen,      \* max_open_positions (0: off)
    Hold,         \* life of a reservation, in ticks (300 s)
    Admission,    \* lease of the admission lock, in ticks (120 s)
    Nobody,       \* no holder
    MaxFailures   \* bound: store calls that fail, processes that die

ASSUME RiskAdmissionAssumption ==
    /\ Leader \in Replicas /\ HomeOf \in [Entries -> Replicas]
    /\ Size \in [Entries -> Nat \ {0}] /\ Limit \in Nat /\ MaxOpen \in Nat
    /\ Hold \in Nat \ {0} /\ Admission \in Nat \ {0} /\ MaxFailures \in Nat
    /\ Nobody \notin Entries /\ IsFiniteSet(Entries)

VARIABLES
    stage,      \* stage[e]: where the entry stands
    lock,       \* the admission lock row: holder and what is left of its lease
    unlocking,  \* entries whose unlock request is on its way
    rows,       \* entries with a row in the reservation table
    left,       \* left[e]: what is left of e's reservation
    deleting,   \* entries whose delete request is on its way
    known,      \* known[r]: the reservations in r's memory
    seen,       \* seen[e]: what e's decision has read so far
    journal,    \* events in the shared journal
    book,       \* book[r]: events in r's ledger
    parked,     \* parked[r]: those of them the journal has not got
    ready,      \* ready[r]: r holds its accounting for complete
    failures,   \* what is left of the bound
    harm        \* what has happened that the design does not cover

shared == <<lock, unlocking, rows, left, deleting>>
ledger == <<journal, book, parked, ready>>
bounds == <<failures, harm>>
vars   == <<stage, shared, known, seen, ledger, bounds>>

Deciding == {"locked", "read", "viewed"}
Gated    == {"waiting"} \cup Deciding        \* inside the process gate
Running  == {"approved", "booked"}           \* holding a reservation
Exposed  == Running \cup {"held", "orphan"}  \* may be, or is, a position
Stages   == Gated \cup Exposed \cup {"new", "over"}

Buy(e)  == <<"buy", e>>
Sell(e) == <<"sell", e>>
Events  == {"buy", "sell"} \X Entries

Total(es)    == SumFunctionOnSet(Size, es)
OpenIn(evts) == {e \in Entries : Buy(e) \in evts /\ Sell(e) \notin evts}
Unread       == [open |-> {}, fresh |-> {}]

\* A decision outlived the admission lease or an entry its reservation; a
\* reservation was released while a decision of the same process stood between
\* the view and the reservations; an event was booked and not journaled; a
\* process died between sending and booking.
Harms == {"slow_decision", "slow_entry", "release", "journal", "crash"}

Init ==
    /\ stage = [e \in Entries |-> "new"]
    /\ lock = [by |-> Nobody, left |-> 0]
    /\ unlocking = {} /\ rows = {} /\ deleting = {}
    /\ left = [e \in Entries |-> 0]
    /\ known = [r \in Replicas |-> {}]
    /\ seen = [e \in Entries |-> Unread]
    /\ journal = {}
    /\ book = [r \in Replicas |-> {}]
    /\ parked = [r \in Replicas |-> {}]
    /\ ready = [r \in Replicas |-> TRUE]
    /\ failures = MaxFailures /\ harm = {}

Breaks == failures > 0 /\ failures' = failures - 1
Fails  == Breaks /\ UNCHANGED harm
Harmed(kinds) == harm' = harm \cup kinds

Moves(e, s) == stage' = [stage EXCEPT ![e] = s]
Forgets(e)  == seen' = [seen EXCEPT ![e] = Unread]

-----------------------------------------------------------------------------
(* The ledger of a replica.                                                *)

\* Mutant: a decision trusts its own book.
RefreshesNothing(r) == parked[r] = {} /\ UNCHANGED ledger

\* refresh_from_store: the journal is merged into the replica's book.
Refreshes(r) ==
    /\ parked[r] = {}
    /\ book' = [book EXCEPT ![r] = @ \cup journal]
    /\ UNCHANGED <<journal, parked, ready>>

\* With parked events, or when the journal cannot be read, decide_inner marks
\* the portfolio unready; nothing but a restart takes that back.
Unreadied(r) ==
    /\ ready' = [ready EXCEPT ![r] = FALSE]
    /\ UNCHANGED <<journal, book, parked>>

\* What a decision that ends in a rejection may have done to the ledger: it
\* was refused before it got there, it refreshed, or it could not.
Consults(r) ==
    \/ UNCHANGED ledger
    \/ Refreshes(r)
    \/ parked[r] # {} /\ Unreadied(r)

\* GlobalLedger::submit: what is parked goes to the journal first; while the
\* journal does not answer, the event is booked here and parked.
Submits(r, event) ==
    /\ book' = [book EXCEPT ![r] = @ \cup {event}]
    /\ \/ /\ journal' = journal \cup parked[r] \cup {event}
          /\ parked' = [parked EXCEPT ![r] = {}]
          /\ UNCHANGED bounds
       \/ /\ Breaks /\ Harmed({"journal"})
          /\ parked' = [parked EXCEPT ![r] = @ \cup {event}]
          /\ UNCHANGED journal
    /\ UNCHANGED ready

\* maintenance_tick, a job of one leased worker: flush_pending of its own
\* ledger.
Maintain ==
    /\ parked[Leader] # {}
    /\ journal' = journal \cup parked[Leader]
    /\ parked' = [parked EXCEPT ![Leader] = {}]
    /\ UNCHANGED <<stage, shared, known, seen, book, ready, bounds>>

-----------------------------------------------------------------------------
(* decide_with_reservation.                                                *)

\* The guard is dropped: its unlock is spawned and executed some time later.
DropsGuard(e) == unlocking' = unlocking \cup {e}

\* One decision at a time in a process.
Enter(e) ==
    /\ stage[e] = "new"
    /\ \A x \in Entries : HomeOf[x] = HomeOf[e] => stage[x] \notin Gated
    /\ Moves(e, "waiting")
    /\ UNCHANGED <<shared, known, seen, ledger, bounds>>

\* acquire_entry_admission: a row whose lease has run out is taken over.
Acquire(e) ==
    /\ stage[e] = "waiting" /\ lock.left = 0
    /\ lock' = [by |-> e, left |-> Admission]
    /\ Moves(e, "locked")
    /\ UNCHANGED <<unlocking, rows, left, deleting, known, seen, ledger, bounds>>

\* 30 s of waiting, or an error, which may hide that the row was taken; the
\* decision is worked out all the same, and discarded.
GiveUp(e) ==
    /\ stage[e] = "waiting"
    /\ \/ lock.left > 0 /\ Consults(HomeOf[e]) /\ UNCHANGED <<lock, bounds>>
       \/ /\ Fails /\ (Consults(HomeOf[e]) \/ Unreadied(HomeOf[e]))
          /\ \/ UNCHANGED lock
             \/ lock.left = 0 /\ lock' = [by |-> e, left |-> Admission]
    /\ Moves(e, "over")
    /\ UNCHANGED <<unlocking, rows, left, deleting, known, seen>>

\* active_entry_reservations: expired rows are deleted, the others replace
\* what this process knew.
Read(e) ==
    LET live == {x \in rows : left[x] > 0} IN
    /\ stage[e] = "locked"
    /\ rows' = live
    /\ known' = [known EXCEPT ![HomeOf[e]] = live]
    /\ Moves(e, "read")
    /\ UNCHANGED <<lock, unlocking, left, deleting, seen, ledger, bounds>>

ReadFails(e) ==
    /\ stage[e] = "locked" /\ Fails
    /\ Consults(HomeOf[e]) \/ Unreadied(HomeOf[e])
    /\ DropsGuard(e) /\ Moves(e, "over")
    /\ UNCHANGED <<lock, rows, left, deleting, known, seen>>

\* decide_inner up to the portfolio view: the time of the decision, then the
\* journal, then the book.
View(e) ==
    /\ stage[e] = "read" /\ ready[HomeOf[e]]
    /\ Refreshes(HomeOf[e])
    /\ seen' = [seen EXCEPT ![e] =
                  [open |-> OpenIn(book'[HomeOf[e]]), fresh |-> {x \in Entries : left[x] > 0}]]
    /\ Moves(e, "viewed")
    /\ UNCHANGED <<shared, known, bounds>>

\* A switch, a rate, the order's size, the day's loss; or accounting that is
\* not complete.
Refuse(e) ==
    /\ stage[e] = "read"
    /\ \/ Consults(HomeOf[e]) /\ UNCHANGED bounds
       \/ Fails /\ Unreadied(HomeOf[e])
    /\ DropsGuard(e) /\ Moves(e, "over")
    /\ UNCHANGED <<lock, rows, left, deleting, known, seen>>

\* Mutant: the reservations of other processes are not counted.
CountedHere(e) == {x \in known[HomeOf[e]] \cap seen[e].fresh : HomeOf[x] = HomeOf[e]}

\* The reservations added to the view: in memory now, unexpired at the time
\* of the decision.
Counted(e) == known[HomeOf[e]] \cap seen[e].fresh

\* Every entry is a new position; the position count comes from the view alone.
Accepts(e) ==
    /\ MaxOpen > 0 => Cardinality(seen[e].open) < MaxOpen
    /\ Limit > 0 => Total(seen[e].open) + Total(Counted(e)) + Size[e] <= Limit

\* Mutant: the reservation is kept in memory only.
ReservesLocally(e) ==
    /\ known' = [known EXCEPT ![HomeOf[e]] = @ \cup {e}]
    /\ left' = [left EXCEPT ![e] = Hold]
    /\ UNCHANGED rows

\* create_entry_reservation, then reserve_decision.
Reserves(e) ==
    /\ known' = [known EXCEPT ![HomeOf[e]] = @ \cup {e}]
    /\ left' = [left EXCEPT ![e] = Hold]
    /\ rows' = rows \cup {e}

Approve(e) ==
    /\ stage[e] = "viewed" /\ Accepts(e)
    /\ Reserves(e)
    /\ DropsGuard(e) /\ Moves(e, "approved") /\ Forgets(e)
    /\ UNCHANGED <<lock, deleting, ledger, bounds>>

\* Over a limit; or the row could not be written, as far as the process knows.
Reject(e) ==
    /\ stage[e] = "viewed"
    /\ \/ ~Accepts(e) /\ UNCHANGED <<rows, left, bounds>>
       \/ /\ Accepts(e) /\ Fails
          /\ \/ UNCHANGED <<rows, left>>
             \/ rows' = rows \cup {e} /\ left' = [left EXCEPT ![e] = Hold]
    /\ DropsGuard(e) /\ Moves(e, "over") /\ Forgets(e)
    /\ UNCHANGED <<lock, deleting, known, ledger>>

\* Mutant: an unlock does not look at the holder.
UnlocksAny(e) == TRUE

\* Only the holder's own row is released.
Unlocks(e) == lock.by = e

\* The spawned UPDATE; a failure is logged, and the lease expires.
Unlock(e) ==
    /\ e \in unlocking
    /\ unlocking' = unlocking \ {e}
    /\ \/ lock' = (IF Unlocks(e) THEN [by |-> Nobody, left |-> 0] ELSE lock) /\ UNCHANGED bounds
       \/ Fails /\ UNCHANGED lock
    /\ UNCHANGED <<stage, rows, left, deleting, known, seen, ledger>>

-----------------------------------------------------------------------------
(* The entry, and its reservation's life.                                  *)

\* Drop of a ReservationLease: out of memory at once, the row's DELETE is
\* spawned.
Releases(e) ==
    /\ known' = [known EXCEPT ![HomeOf[e]] = @ \ {e}]
    /\ deleting' = deleting \cup {e}

\* The module's own checks refuse, or nothing was filled.
Abandon(e) ==
    /\ stage[e] = "approved"
    /\ Releases(e) /\ Moves(e, "over")
    /\ UNCHANGED <<lock, unlocking, rows, left, seen, ledger, bounds>>

\* record_execution books what was sent.
Book(e) ==
    /\ stage[e] = "approved"
    /\ Submits(HomeOf[e], Buy(e))
    /\ Moves(e, "booked")
    /\ UNCHANGED <<shared, known, seen>>

\* A decision of the same process has its view, and not yet the reservations.
Overlaps(e) == \E x \in Entries : HomeOf[x] = HomeOf[e] /\ stage[x] = "viewed"

\* The entry returns, and with it its reservation; the admission gate does not
\* hold it up.
Finish(e) ==
    /\ stage[e] = "booked"
    /\ Releases(e) /\ Moves(e, "held")
    /\ Harmed({h \in {"release"} : Overlaps(e)})
    /\ UNCHANGED <<lock, unlocking, rows, left, seen, ledger, failures>>

\* The spawned DELETE; a failure is logged, and the reservation expires.
Delete(e) ==
    /\ e \in deleting
    /\ deleting' = deleting \ {e}
    /\ (rows' = rows \ {e} /\ UNCHANGED bounds) \/ (Fails /\ UNCHANGED rows)
    /\ UNCHANGED <<stage, lock, unlocking, left, known, seen, ledger>>

\* The position is sold by the module that holds it.
Exit(e) ==
    /\ stage[e] = "held"
    /\ Submits(HomeOf[e], Sell(e))
    /\ Moves(e, "over")
    /\ UNCHANGED <<shared, known, seen>>

\* A process dies and starts again: its spawned requests are lost, recover
\* rebuilds the ledger from the journal, and positions without history leave
\* it unready.  An entry that was sent and not yet booked is an orphan.
Restart(r) ==
    /\ Breaks
    /\ \E lost \in SUBSET {e \in Entries : stage[e] = "approved" /\ HomeOf[e] = r} :
          /\ Harmed(IF lost = {} THEN {} ELSE {"crash"})
          /\ stage' = [e \in Entries |->
                CASE HomeOf[e] # r -> stage[e]
                  [] e \in lost -> "orphan"
                  [] stage[e] \in Gated \cup {"approved"} -> "over"
                  [] stage[e] = "booked" -> "held"
                  [] OTHER -> stage[e]]
    /\ unlocking' = {e \in unlocking : HomeOf[e] # r}
    /\ deleting' = {e \in deleting : HomeOf[e] # r}
    /\ known' = [known EXCEPT ![r] = {}]
    /\ seen' = [e \in Entries |-> IF HomeOf[e] = r THEN Unread ELSE seen[e]]
    /\ book' = [book EXCEPT ![r] = journal]
    /\ ready' = [ready EXCEPT ![r] = (parked[r] = {})]
    /\ parked' = [parked EXCEPT ![r] = {}]
    /\ UNCHANGED <<lock, rows, left, journal>>

Less(n) == IF n = 0 THEN 0 ELSE n - 1

Late ==
    {h \in {"slow_decision"} : lock.left = 1 /\ \E e \in Entries : stage[e] \in Deciding}
    \cup {h \in {"slow_entry"} : \E e \in Entries : stage[e] \in Running /\ left[e] = 1}

\* Time; that a decision or an entry outlives its lease counts as a failure.
Tick ==
    /\ IF Late = {} THEN UNCHANGED bounds ELSE Breaks /\ Harmed(Late)
    /\ lock' = [by |-> lock.by, left |-> Less(lock.left)]
    /\ left' = [e \in Entries |-> Less(left[e])]
    /\ UNCHANGED <<stage, unlocking, rows, deleting, known, seen, ledger>>

Decides(e) ==
    \/ Enter(e) \/ Acquire(e) \/ GiveUp(e) \/ Read(e) \/ ReadFails(e)
    \/ View(e) \/ Refuse(e) \/ Approve(e) \/ Reject(e)

Trades(e) == Abandon(e) \/ Book(e) \/ Finish(e) \/ Exit(e)

Next ==
    \/ \E e \in Entries : Decides(e) \/ Trades(e) \/ Unlock(e) \/ Delete(e)
    \/ \E r \in Replicas : Restart(r)
    \/ Maintain \/ Tick

Spec == Init /\ [][Next]_vars

-----------------------------------------------------------------------------
(* Properties.                                                             *)

\* Types; leases and reservations run out and stay run out.
TypeOK ==
    /\ stage \in [Entries -> Stages]
    /\ lock \in [by : Entries \cup {Nobody}, left : 0..Admission]
    /\ unlocking \subseteq Entries /\ rows \subseteq Entries /\ deleting \subseteq Entries
    /\ left \in [Entries -> 0..Hold]
    /\ known \in [Replicas -> SUBSET Entries]
    /\ seen \in [Entries -> [open : SUBSET Entries, fresh : SUBSET Entries]]
    /\ journal \subseteq Events
    /\ book \in [Replicas -> SUBSET Events] /\ parked \in [Replicas -> SUBSET Events]
    /\ ready \in [Replicas -> BOOLEAN]
    /\ failures \in 0..MaxFailures /\ harm \subseteq Harms

\* The cluster-wide admission lock: whatever replies are lost, releases fail
\* or arrive late, at most one decision is between reading the reservations
\* and writing its own.
OneDecider ==
    "slow_decision" \notin harm =>
        \A e, x \in Entries : stage[e] \in Deciding /\ stage[x] \in Deciding => e = x

\* The hand-over from reservation to ledger has no gap: what is, or may
\* become, a position has a live reservation row or is in the journal, so the
\* next decision of any replica can see it.
Accounted ==
    harm = {} =>
        \A e \in Entries : stage[e] \in Exposed =>
            e \in OpenIn(journal) \/ (e \in rows /\ left[e] > 0)

\* From its view on, a decision counts every entry that is, or may become, a
\* position anywhere: in the ledger it read, or among the reservations.
SeesEverything ==
    harm = {} =>
        \A e \in Entries : stage[e] = "viewed" =>
            {x \in Entries : stage[x] \in Exposed} \subseteq seen[e].open \cup Counted(e)

\* max_portfolio_exposure_ref: what is held and what accepted entries may
\* still buy never exceed the cap together, over all replicas.
CapHolds ==
    Limit > 0 /\ harm = {} => Total({e \in Entries : stage[e] \in Exposed}) <= Limit

\* max_open_positions, "cap on open aggregated positions across every
\* module".
PositionsCapped ==
    MaxOpen > 0 /\ harm = {} => Cardinality({e \in Entries : stage[e] \in Exposed}) <= MaxOpen

=============================================================================
