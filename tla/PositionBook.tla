---------------------------- MODULE PositionBook ----------------------------
(***************************************************************************)
(* ONE sniper position after its entry was booked: the in-memory books of  *)
(* several replicas, the exit sweeper of each, the event bus and the pump  *)
(* that persists its events, the shared positions row, the book sync that  *)
(* merges it back, reconciliation against the wallet, and restarts.        *)
(*                                                                         *)
(* Source: crates/module-sniper/src/exit.rs (sweeper),                     *)
(* crates/core/src/state.rs and models.rs (book), crates/server/src/       *)
(* persist.rs (pump, restore), main.rs (book sync) and recon.rs            *)
(* (SolanaPositionTruth), crates/core/src/db/repo.rs (PositionRepo).       *)
(*                                                                         *)
(* The executor and the claim store appear by what Executor and Claims     *)
(* show of them: an exit intent a ledger knows is refused, a claim has one *)
(* holder until it lapses.  Quantities are whole units of the token.       *)
(***************************************************************************)
EXTENDS Integers, Sequences, FiniteSets, Functions

CONSTANTS
    Replicas,    \* processes that share the database and the wallet
    Sweepers,    \* those whose configuration runs the sniper
    Opener,      \* the replica that executed the entry
    Rules,       \* exit rules that may fire
    Bought,      \* tokens the entry buys
    Routes,      \* venues an exit may be routed to
    Spare,       \* tokens of the same mint the wallet may hold besides
    MaxRepeats,  \* bound: marks and unfilled exits, which a sweep may repeat
    MaxUpsets,   \* bound: starts after the opener's, lost events, corrections
    MaxWorkers   \* bound: recovery workers on the position at a time

ASSUME PositionBookAssumption ==
    /\ Sweepers \subseteq Replicas /\ Opener \in Sweepers
    /\ Rules \subseteq {"take_profit", "stop_loss", "kill_switch"}
    /\ Bought \in Nat \ {0} /\ Routes # {} /\ IsFiniteSet(Routes)
    /\ {Spare, MaxRepeats, MaxUpsets, MaxWorkers} \subseteq Nat

VARIABLES
    book,    \* book[r]: the position as replica r holds it
    row,     \* the positions row
    bus,     \* bus[r]: events published and not yet persisted
    fills,   \* a sell fill of the position is durable
    sweep,   \* sweep[r]: where the exit sweeper of r is
    sync,    \* sync[r]: where the book sync of r is
    recon,   \* recon[r]: where the recovery worker of r is with the position
    ledger,  \* ledger[r]: exit intents the ledger of r refuses
    journal, \* the same, in the durable rows
    claim,   \* claim[rule]: who holds exit:{position}:{rule}
    entry,   \* what the ledger says of the entry
    knows,   \* replicas whose ledger has the entry's record
    wallet,  \* tokens on chain
    sold,    \* sold[i]: sells of intent i that landed
    now,     \* the clock behind updated_at
    up,      \* replicas that have been started
    missed,  \* a position event was lost and no later one has reached the row
    harm,    \* what has gone wrong so far: see Harms
    left     \* what is left of the first two bounds

vars == <<book, row, bus, fills, sweep, sync, recon, ledger, journal, claim,
          entry, knows, wallet, sold, now, up, missed, harm, left>>

Positions == [status : {"absent", "open", "closed"}, qty : 0..Bought, at : Nat]
Absent    == [status |-> "absent", qty |-> 0, at |-> 0]
Free      == "free"

\* exit_intent_id hashes the position with these: <<held, sold, route>>.
Intents   == (0..Bought) \X (0..Bought) \X Routes

\* A process died; a correction replaced a position that had changed since it
\* was read.
Harms     == {"death", "overwrite"}
AtRest    == [pc |-> "idle", pos |-> Absent]
Sweeps    == [pc : {"idle", "decided", "owned", "selling", "filled", "booked"},
              pos : Positions, rule : Rules \cup {"none"},
              route : Routes \cup {"none"}]
Syncs     == [pc : {"idle", "merge"}, pos : Positions]
Recons    == [pc : {"idle", "read", "zero", "corrected", "closed"}, pos : Positions]
Events    == [kind : {"fill", "position"}, pos : Positions]
Idle      == [pc |-> "idle", pos |-> Absent, rule |-> "none", route |-> "none"]

Open(p)    == p.status = "open"
Same(p, q) == p.status = q.status /\ p.qty = q.qty

\* The quantity a rule sells: a part on take-profit, else everything.
SellQty(rule, p) == IF rule = "take_profit" THEN p.qty \div 2 ELSE p.qty
Amount(s)        == SellQty(s.rule, s.pos)
Intent(s)        == <<s.pos.qty, Amount(s), s.route>>

\* entry_fate: reconciled counts as landed, whatever the verdict was; a
\* ledger without the record says nothing against the position.
Fate(r) == IF r \notin knows THEN "held"
           ELSE IF entry = "pending" THEN "unknown"
           ELSE "held"

-----------------------------------------------------------------------------
(* The book.                                                               *)

\* with_position and upsert_position stamp or carry updated_at.
Stamped(p) == [p EXCEPT !.at = now + 1]
Ticks      == now' = now + 1

\* Mutant: a sale is not clamped to what the position holds.
SoldUnclamped(p, n) == [p EXCEPT !.qty = @ - n, !.at = now + 1]

\* Mutant: a sale leaves the quantity as it was.
SoldUnbooked(p, n) == Stamped(p)

\* apply_sell, clamped to what the position holds.
Sold(p, n) == [p EXCEPT !.qty = IF n < @ THEN @ - n ELSE 0, !.at = now + 1]
Closed(p)  == [p EXCEPT !.status = "closed", !.at = now + 1]
Emptied(p) == [p EXCEPT !.qty = 0]

Publish(r, events) == bus' = [bus EXCEPT ![r] = @ \o events]
Fill     == [kind |-> "fill", pos |-> Absent]
Update(p) == [kind |-> "position", pos |-> p]

Moves(r, s)  == sweep' = [sweep EXCEPT ![r] = s]
Releases(s)  == claim' = [claim EXCEPT ![s.rule] = Free]

\* Permit::finish: an unproven outcome keeps others out for the grace; a
\* claim that lapsed is no longer this replica's to end.
Finishes(r, s, ambiguous) ==
    claim' = IF claim[s.rule] = r
             THEN [claim EXCEPT ![s.rule] = IF ambiguous THEN "grace" ELSE Free]
             ELSE claim

-----------------------------------------------------------------------------
\* The entry has just been booked on the opener, its outcome unproven; one
\* that is confirmed at once is settled before anything else happens.
Init ==
    /\ entry = "pending"
    /\ LET p == [status |-> "open", qty |-> Bought, at |-> 1] IN
          /\ book = [r \in Replicas |-> IF r = Opener THEN p ELSE Absent]
          /\ bus = [r \in Replicas |-> IF r = Opener THEN <<Update(p)>> ELSE << >>]
    /\ row = Absent /\ fills = FALSE
    /\ sweep = [r \in Replicas |-> Idle]
    /\ sync = [r \in Replicas |-> AtRest]
    /\ recon = [r \in Replicas |-> AtRest]
    /\ ledger = [r \in Replicas |-> {}] /\ journal = {}
    /\ claim = [u \in Rules |-> Free]
    /\ knows = {Opener}
    /\ wallet \in 0..Spare
    /\ sold = [i \in Intents |-> 0]
    /\ now = 1
    /\ left = [repeats |-> MaxRepeats, upsets |-> MaxUpsets]
    /\ up = {Opener} /\ missed = FALSE /\ harm = {}

\* sweep_once takes an open position; an unproven entry is held unless the
\* kill switch is on.  A mark stamps the book and refreshes the snapshot.
Sweep(r) ==
    /\ r \in Sweepers /\ sweep[r].pc = "idle" /\ Open(book[r])
    /\ \E rule \in Rules, marks \in BOOLEAN :
          /\ Fate(r) = "unknown" => rule = "kill_switch"
          /\ rule = "kill_switch" => ~marks
          /\ IF marks
             THEN /\ left.repeats > 0
                  /\ left' = [left EXCEPT !.repeats = @ - 1]
                  /\ book' = [book EXCEPT ![r] = Stamped(@)] /\ Ticks
             ELSE UNCHANGED <<left, book, now>>
          /\ Moves(r, [pc |-> "decided", pos |-> book'[r], rule |-> rule,
                        route |-> "none"])
    /\ UNCHANGED <<row, bus, fills, sync, recon, ledger, journal, claim, entry,
                   knows, wallet, sold, up, missed, harm>>

\* Permit::acquire; when another replica owns the exit this round is over.
Acquire(r) ==
    /\ sweep[r].pc = "decided"
    /\ IF claim[sweep[r].rule] = Free
       THEN /\ claim' = [claim EXCEPT ![sweep[r].rule] = r]
            /\ Moves(r, [sweep[r] EXCEPT !.pc = "owned"])
       ELSE Moves(r, Idle) /\ UNCHANGED claim
    /\ UNCHANGED <<book, row, bus, fills, sync, recon, ledger, journal, entry,
                   knows, wallet, sold, now, left, up, missed, harm>>

\* A lease or a hand-off grace ends.
Lapse(rule) ==
    /\ claim[rule] # Free
    /\ claim' = [claim EXCEPT ![rule] = Free]
    /\ UNCHANGED <<book, row, bus, fills, sweep, sync, recon, ledger, journal,
                   entry, knows, wallet, sold, now, left, up, missed, harm>>

\* Nothing to sell, no route or quote, an unreadable chain, a failed fence, or
\* an intent the ledger knows: the permit is finished and the round ends.
Skip(r) ==
    /\ sweep[r].pc = "owned"
    /\ Finishes(r, sweep[r], FALSE)
    /\ Moves(r, Idle)
    /\ UNCHANGED <<book, row, bus, fills, sync, recon, ledger, journal, entry,
                   knows, wallet, sold, now, left, up, missed, harm>>

\* exit_route answers anew in every round; fenced, the intent is begun and the
\* executor owns the outcome.
Begin(r) ==
    /\ sweep[r].pc = "owned" /\ claim[sweep[r].rule] = r /\ Amount(sweep[r]) > 0
    /\ \E route \in Routes :
          LET s == [sweep[r] EXCEPT !.pc = "selling", !.route = route] IN
          /\ Intent(s) \notin ledger[r]
          /\ ledger' = [ledger EXCEPT ![r] = @ \cup {Intent(s)}]
          /\ journal' = journal \cup {Intent(s)}
          /\ Moves(r, s)
    /\ UNCHANGED <<book, row, bus, fills, sync, recon, claim, entry, knows,
                   wallet, sold, now, left, up, missed, harm>>

\* Mutant: a sale whose outcome is unproven is not booked.
ExecuteUnbooked(r) ==
    /\ sweep[r].pc = "selling"
    /\ \E landed, ambiguous \in BOOLEAN :
          /\ landed \/ ambiguous
          /\ landed => wallet >= Amount(sweep[r])
          /\ wallet' = IF landed THEN wallet - Amount(sweep[r]) ELSE wallet
          /\ sold' = IF landed THEN [sold EXCEPT ![Intent(sweep[r])] = @ + 1] ELSE sold
          /\ Finishes(r, sweep[r], ambiguous)
          /\ Moves(r, IF ambiguous THEN Idle ELSE [sweep[r] EXCEPT !.pc = "filled"])
    /\ UNCHANGED <<book, row, bus, fills, sync, recon, ledger, journal, entry,
                   knows, now, left, up, missed, harm>>

\* The sell lands, its answer proven or not; or nobody knows and it is lost.
\* The permit is finished before anything is booked.
Execute(r) ==
    /\ sweep[r].pc = "selling"
    /\ \E landed, ambiguous \in BOOLEAN :
          /\ landed \/ ambiguous
          /\ landed => wallet >= Amount(sweep[r])
          /\ wallet' = IF landed THEN wallet - Amount(sweep[r]) ELSE wallet
          /\ sold' = IF landed THEN [sold EXCEPT ![Intent(sweep[r])] = @ + 1] ELSE sold
          /\ Finishes(r, sweep[r], ambiguous)
    /\ Moves(r, [sweep[r] EXCEPT !.pc = "filled"])
    /\ UNCHANGED <<book, row, bus, fills, sync, recon, ledger, journal, entry,
                   knows, now, left, up, missed, harm>>

\* It provably did not fill: the intent can be re-armed.
Unfilled(r) ==
    /\ sweep[r].pc = "selling" /\ left.repeats > 0
    /\ ledger' = [ledger EXCEPT ![r] = @ \ {Intent(sweep[r])}]
    /\ journal' = journal \ {Intent(sweep[r])}
    /\ Finishes(r, sweep[r], FALSE)
    /\ Moves(r, Idle)
    /\ left' = [left EXCEPT !.repeats = @ - 1]
    /\ UNCHANGED <<book, row, bus, fills, sync, recon, entry, knows, wallet,
                   sold, now, up, missed, harm>>

\* The trade is recorded and the sale applied to the live position.
BookSale(r) ==
    /\ sweep[r].pc = "filled"
    /\ Publish(r, <<Fill>>)
    /\ book' = [book EXCEPT ![r] =
                  IF @.status = "absent" THEN @ ELSE Sold(@, Amount(sweep[r]))]
    /\ Ticks
    /\ Moves(r, [sweep[r] EXCEPT !.pc = "booked"])
    /\ UNCHANGED <<row, fills, sync, recon, ledger, journal, claim, entry, knows,
                   wallet, sold, left, up, missed, harm>>

\* Mutant: the close is not published.
CloseUnpublished(r) ==
    /\ sweep[r].pc = "booked"
    /\ IF Amount(sweep[r]) = sweep[r].pos.qty /\ book[r].status # "absent"
       THEN /\ book' = [book EXCEPT ![r] = Closed(@)] /\ Ticks /\ UNCHANGED bus
       ELSE Publish(r, <<Update(book[r])>>) /\ UNCHANGED <<book, now>>
    /\ Moves(r, Idle)
    /\ UNCHANGED <<row, fills, sync, recon, ledger, journal, claim, entry, knows,
                   wallet, sold, left, up, missed, harm>>

\* Close or trim, by what the SNAPSHOT leaves.
CloseOrTrim(r) ==
    /\ sweep[r].pc = "booked"
    /\ IF book[r].status = "absent" THEN UNCHANGED <<book, bus, now>>
       ELSE IF Amount(sweep[r]) = sweep[r].pos.qty
       THEN /\ book' = [book EXCEPT ![r] = Closed(@)]
            /\ Publish(r, <<Update(book'[r])>>) /\ Ticks
       ELSE Publish(r, <<Update(book[r])>>) /\ UNCHANGED <<book, now>>
    /\ Moves(r, Idle)
    /\ UNCHANGED <<row, fills, sync, recon, ledger, journal, claim, entry, knows,
                   wallet, sold, left, up, missed, harm>>

-----------------------------------------------------------------------------
(* Persistence and book sync.                                              *)

\* The pump handles the next event: PositionRepo::upsert overwrites the row,
\* TradeRepo appends the fill.  A write that fails is only logged, and events
\* the pump lags behind on are skipped: the event is lost.
Persist(r) ==
    /\ bus[r] # << >>
    /\ bus' = [bus EXCEPT ![r] = Tail(@)]
    /\ LET e == Head(bus[r]) IN
       \E lost \in BOOLEAN :
          /\ lost => left.upsets > 0
          /\ left' = IF lost THEN [left EXCEPT !.upsets = @ - 1] ELSE left
          /\ row' = IF e.kind = "position" /\ ~lost THEN e.pos ELSE row
          /\ missed' = IF e.kind = "position" THEN lost ELSE missed
          /\ fills' = (fills \/ (e.kind = "fill" /\ ~lost))
    /\ UNCHANGED <<book, sweep, sync, recon, ledger, journal, claim, entry,
                   knows, wallet, sold, now, up, harm>>

\* Mutant: the shared row need not be newer.
MergesAny(p, mine) == mine.status = "absent" \/ Open(mine)

\* merge_positions: the shared row is unknown here, or newer than a live one.
Merges(p, mine) ==
    mine.status = "absent" \/ (p.at > mine.at /\ Open(mine))

\* list_open (a closed row is not in the answer), then the local copy is read
\* and compared; what happens between the two only makes the local copy newer,
\* unless a correction overwrites it.
SyncRead(r) ==
    /\ r \in up /\ sync[r].pc = "idle" /\ Open(row)
    /\ Merges(row, book[r])
    /\ sync' = [sync EXCEPT ![r] = [pc |-> "merge", pos |-> row]]
    /\ UNCHANGED <<book, row, bus, fills, sweep, recon, ledger, journal, claim,
                   entry, knows, wallet, sold, now, left, up, missed, harm>>

\* The local copy is replaced under another lock; upsert_position publishes it.
SyncApply(r) ==
    /\ sync[r].pc = "merge"
    /\ book' = [book EXCEPT ![r] = sync[r].pos]
    /\ Publish(r, <<Update(sync[r].pos)>>)
    /\ sync' = [sync EXCEPT ![r] = AtRest]
    /\ UNCHANGED <<row, fills, sweep, recon, ledger, journal, claim, entry,
                   knows, wallet, sold, now, left, up, missed, harm>>

-----------------------------------------------------------------------------
(* Reconciliation and restarts.                                            *)

\* SolanaTxTruth settles the entry: reconciled, landed or not.
SettleEntry ==
    /\ entry = "pending"
    /\ \/ entry' = "landed" /\ wallet' = wallet + Bought
       \/ entry' = "never_landed" /\ UNCHANGED wallet
    /\ UNCHANGED <<book, row, bus, fills, sweep, sync, recon, ledger, journal,
                   claim, knows, sold, now, left, up, missed, harm>>

\* SolanaPositionTruth reads the position, from the book or else from the row.
Snapshot(r) ==
    /\ r \in up /\ recon[r].pc = "idle" /\ left.upsets > 0
    /\ Cardinality({q \in Replicas : recon[q].pc # "idle"}) < MaxWorkers
    /\ LET p == IF book[r].status = "absent" THEN row ELSE book[r] IN
          /\ Open(p) /\ p.qty > 0
          /\ recon' = [recon EXCEPT ![r] = [pc |-> "read", pos |-> p]]
    /\ UNCHANGED <<book, row, bus, fills, sweep, sync, ledger, journal, claim,
                   entry, knows, wallet, sold, now, left, up, missed, harm>>

\* The wallet's balance is read: zero is what a correction needs.
ReadWallet(r) ==
    /\ recon[r].pc = "read" /\ wallet = 0
    /\ recon' = [recon EXCEPT ![r].pc = "zero"]
    /\ UNCHANGED <<book, row, bus, fills, sweep, sync, ledger, journal, claim,
                   entry, knows, wallet, sold, now, left, up, missed, harm>>

\* Every other outcome only flags or retries.  (A sniper's buy fill carries no
\* position id, so the fill history never justifies another quantity.)
GiveUp(r) ==
    /\ recon[r].pc \in {"read", "zero"}
    /\ recon' = [recon EXCEPT ![r] = AtRest]
    /\ UNCHANGED <<book, row, bus, fills, sweep, sync, ledger, journal, claim,
                   entry, knows, wallet, sold, now, left, up, missed, harm>>

\* What a correction on replica r that takes was for current does to is.
Overwrites(r, was, is) ==
    harm' = IF r \in Sweepers /\ is.status # "absent" /\ is # was
            THEN harm \cup {"overwrite"} ELSE harm

\* MissingPosition: a sell fill is on record (an unreadable queue counts as no
\* entry in flight, so a pending entry need not hold the verdict back).  The
\* snapshot with nothing left, still open, replaces the position.
Correct(r) ==
    /\ recon[r].pc = "zero" /\ fills /\ left.upsets > 0
    /\ left' = [left EXCEPT !.upsets = @ - 1]
    /\ LET p == Emptied(recon[r].pos) IN
          /\ book' = [book EXCEPT ![r] = p]
          /\ Publish(r, <<Update(p)>>)
          /\ recon' = [recon EXCEPT ![r] = [pc |-> "corrected", pos |-> p]]
    /\ Overwrites(r, recon[r].pos, book[r])
    /\ UNCHANGED <<row, fills, sweep, sync, ledger, journal, claim, entry, knows,
                   wallet, sold, now, up, missed>>

\* Then, under another lock, whatever the book holds is closed ...
CloseCorrected(r) ==
    /\ recon[r].pc = "corrected"
    /\ book' = [book EXCEPT ![r] = Closed(@)] /\ Ticks
    /\ Publish(r, <<Update(book'[r])>>)
    /\ recon' = [recon EXCEPT ![r] = [pc |-> "closed", pos |-> book'[r]]]
    /\ UNCHANGED <<row, fills, sweep, sync, ledger, journal, claim, entry, knows,
                   wallet, sold, left, up, missed, harm>>

\* ... and written to the row past the pump, unless the write fails.
WriteRow(r) ==
    /\ recon[r].pc = "closed"
    /\ recon' = [recon EXCEPT ![r] = AtRest]
    /\ \/ /\ row' = recon[r].pos /\ missed' = FALSE
          /\ Overwrites(r, recon[r].pos, [book[r] EXCEPT !.at = recon[r].pos.at])
       \/ UNCHANGED <<row, missed, harm>>
    /\ UNCHANGED <<book, bus, fills, sweep, sync, ledger, journal, claim, entry,
                   knows, wallet, sold, now, left, up>>

\* Mutant: the exit intents of the durable ledger are not restored.
StartForgetful(r) ==
    /\ left.upsets > 0
    /\ left' = [left EXCEPT !.upsets = @ - 1]
    /\ up' = up \cup {r}
    /\ harm' = harm \cup (IF r \in up THEN {"death"} ELSE {})
    /\ missed' = FALSE
    /\ book' = [book EXCEPT ![r] = IF Open(row) THEN row ELSE Absent]
    /\ bus' = [bus EXCEPT ![r] = << >>]
    /\ Moves(r, Idle)
    /\ sync' = [sync EXCEPT ![r] = AtRest]
    /\ recon' = [recon EXCEPT ![r] = AtRest]
    /\ ledger' = [ledger EXCEPT ![r] = {}]
    /\ knows' = knows \cup {r}
    /\ UNCHANGED <<row, fills, journal, claim, entry, wallet, sold, now>>

\* A process starts, or dies and starts again: it restores the open rows and
\* the durable ledger, and what it had not persisted is gone.
Start(r) ==
    /\ left.upsets > 0
    /\ left' = [left EXCEPT !.upsets = @ - 1]
    /\ up' = up \cup {r}
    /\ harm' = harm \cup (IF r \in up THEN {"death"} ELSE {})
    /\ missed' = FALSE
    /\ book' = [book EXCEPT ![r] = IF Open(row) THEN row ELSE Absent]
    /\ bus' = [bus EXCEPT ![r] = << >>]
    /\ Moves(r, Idle)
    /\ sync' = [sync EXCEPT ![r] = AtRest]
    /\ recon' = [recon EXCEPT ![r] = AtRest]
    /\ ledger' = [ledger EXCEPT ![r] = journal]
    /\ knows' = knows \cup {r}
    /\ UNCHANGED <<row, fills, journal, claim, entry, wallet, sold, now>>

SweeperStep(r) ==
    \/ Sweep(r) \/ Acquire(r) \/ Skip(r) \/ Begin(r) \/ Execute(r) \/ Unfilled(r)
    \/ BookSale(r) \/ CloseOrTrim(r)

Next ==
    \/ \E r \in Replicas :
          \/ SweeperStep(r) \/ Persist(r)
          \/ SyncRead(r) \/ SyncApply(r)
          \/ Snapshot(r) \/ ReadWallet(r) \/ GiveUp(r)
          \/ Correct(r) \/ CloseCorrected(r) \/ WriteRow(r)
          \/ Start(r)
    \/ \E rule \in Rules : Lapse(rule)
    \/ SettleEntry

Spec == Init /\ [][Next]_vars

-----------------------------------------------------------------------------
(* Properties.                                                             *)

\* Types; apply_sell never books more than the position holds.
TypeOK ==
    /\ book \in [Replicas -> Positions] /\ row \in Positions
    /\ bus \in [Replicas -> Seq(Events)] /\ fills \in BOOLEAN
    /\ sweep \in [Replicas -> Sweeps]
    /\ sync \in [Replicas -> Syncs] /\ recon \in [Replicas -> Recons]
    /\ ledger \in [Replicas -> SUBSET Intents] /\ journal \in SUBSET Intents
    /\ claim \in [Rules -> Replicas \cup {Free, "grace"}]
    /\ entry \in {"pending", "landed", "never_landed"}
    /\ knows \in SUBSET Replicas /\ up \in SUBSET Replicas
    /\ missed \in BOOLEAN /\ harm \in SUBSET Harms
    /\ wallet \in Nat /\ now \in Nat
    /\ sold \in [Intents -> Nat]
    /\ left \in [repeats : Nat, upsets : Nat]

\* The exit's intent id is its idempotency key: no intent is sold twice,
\* whatever lapses, fails, is corrected, dies or restarts in between.
IntentOnce == \A i \in Intents : sold[i] <= 1

\* sweep_once, "exactly one replica executes a given exit": unless a process
\* died or a correction overwrote a sale, no decision to sell so much of so
\* much held is sold twice, over whatever routes its rounds were sent.
ExitOnce ==
    harm = {} => \A i, j \in {k \in Intents : sold[k] > 0} :
        i[1] = j[1] /\ i[2] = j[2] => i = j /\ sold[i] = 1

\* Several rules, routes and partial exits never sell more than the entry
\* bought, unless a process died or a correction overwrote a sale.
TotalSold == SumFunctionOnSet([i \in Intents |-> i[2] * sold[i]], Intents)
NoOversell == harm = {} => TotalSold <= Bought

\* merge_positions, "a locally closed position is never resurrected by a
\* stale/lagging DB read": unless a process died or a correction overwrote
\* what it had not read, closed stays closed on a replica that trades, also
\* while a correction reopens and closes the position it read.
NeverResurrected ==
    [][\A r \in Sweepers :
          book[r].status = "closed" /\ harm' = {}
             => book'[r].status = "closed"]_vars

\* While one replica has run, its row keeps up: once the pump has caught up
\* and nothing is being booked, the row says what the book says, if the pump's
\* last position write was not lost and no correction overwrote anything.
RowCatchesUp ==
    up = {Opener} /\ bus[Opener] = << >> /\ sweep[Opener].pc # "booked"
    /\ book[Opener].status # "absent" /\ ~missed /\ "overwrite" \notin harm
       => Same(row, book[Opener])

\* The entry-fate rule, "fail (sweeper closes it without selling)": nothing
\* is sold for an entry that reconciliation proved never landed.
UnlandedNeverSold ==
    [][entry = "never_landed" => sold' = sold]_vars

=============================================================================
