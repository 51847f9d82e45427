------------------------- MODULE PositionBookProofs -------------------------
(***************************************************************************)
(* Proofs about PositionBook, for any quantity bought, any routes, any     *)
(* number of replicas and of process starts: it keeps its types, and the   *)
(* row of the only replica that ran keeps up with its book.  With one      *)
(* trading replica an exit intent is sold at most once, and, unless a      *)
(* process died or a correction overwrote what it had not read, so is an   *)
(* exit decision over whatever routes, a closed position stays closed and  *)
(* the exits never sell more than was bought.                              *)
(***************************************************************************)
EXTENDS PositionBook, SumTheorems, TLAPS

-----------------------------------------------------------------------------
(* Quantities sold.                                                        *)

Quantities(times) == [i \in Intents |-> i[2] * times[i]]

LEMMA QuantityGrows ==
    ASSUME NEW q \in Nat, NEW n \in Nat
    PROVE  q * n \in Nat /\ q * (n + 1) = q * n + q
  BY Z3

\* An intent is a triple: it is determined by its pair of quantities and its
\* route, and there are finitely many of those.
LEMMA IntentsFinite == IsFiniteSet(Intents)
  <1> DEFINE Q == 0..Bought
             P == (Q \X Q) \X Routes
             f == [x \in P |-> <<x[1][1], x[1][2], x[2]>>]
  <1>1. IsFiniteSet(Q) /\ IsFiniteSet(Routes)
    BY PositionBookAssumption, FS_Interval
  <1> HIDE DEF Q
  <1>2. IsFiniteSet(Q \X Q)
    BY <1>1, FS_Product
  <1>3. IsFiniteSet(P)
    BY <1>1, <1>2, FS_Product
  <1>4. Intents = Q \X Q \X Routes
    BY DEF Intents, Q
  <1>5. f \in Surjection(P, Intents)
    <2>1. f \in [P -> Intents]
      BY <1>4
    <2>2. ASSUME NEW i \in Intents PROVE \E x \in P : f[x] = i
      <3>1. i[1] \in Q /\ i[2] \in Q /\ i[3] \in Routes /\ i = <<i[1], i[2], i[3]>>
        BY <1>4
      <3>2. <<<<i[1], i[2]>>, i[3]>> \in P /\ f[<<<<i[1], i[2]>>, i[3]>>] = i
        BY <3>1
      <3> QED BY <3>2
    <2> QED BY <2>1, <2>2 DEF Surjection
  <1> HIDE DEF P, f
  <1> QED BY <1>3, <1>5, FS_Surjection

LEMMA QuantityMoves ==
    ASSUME NEW f \in [Intents -> Int], NEW d \in Intents, NEW n \in Int,
           NEW g, g = [f EXCEPT ![d] = n]
    PROVE  SumFunctionOnSet(g, Intents) = SumFunctionOnSet(f, Intents) + (n - f[d])
  BY IntentsFinite, SumExcept, Zenon

\* One more sale of an intent adds its quantity to the total.
LEMMA SaleAdds ==
    ASSUME NEW before \in [Intents -> Nat], NEW d \in Intents,
           NEW after, after = [before EXCEPT ![d] = before[d] + 1]
    PROVE  /\ SumFunctionOnSet(Quantities(before), Intents) \in Nat
           /\ SumFunctionOnSet(Quantities(after), Intents)
                = SumFunctionOnSet(Quantities(before), Intents) + d[2]
  <1>0. \A e \in Intents : e[2] \in Nat
    BY PositionBookAssumption DEF Intents
  <1>1. \A e \in Intents : e[2] * before[e] \in Nat
    BY <1>0, QuantityGrows
  <1>2. \A e \in Intents : Quantities(before)[e] \in Nat
    BY <1>1 DEF Quantities
  <1>3. Quantities(before) \in [Intents -> Int]
    BY <1>1 DEF Quantities
  <1> DEFINE n == d[2] * before[d] + d[2]
  <1>4. n \in Int
    BY <1>0, <1>1
  <1>a. n - d[2] * before[d] = d[2]
    BY <1>0, <1>1
  <1>5. d[2] * after[d] = n
    BY <1>0, QuantityGrows
  <1>6. Quantities(after) = [Quantities(before) EXCEPT ![d] = n]
    <2>1. \A e \in Intents \ {d} : after[e] = before[e]
      OBVIOUS
    <2> HIDE DEF n
    <2> QED BY <1>5, <2>1 DEF Quantities
  <1>7. Quantities(before)[d] = d[2] * before[d]
    BY DEF Quantities
  <1> HIDE DEF n
  <1>8. SumFunctionOnSet(Quantities(after), Intents)
          = SumFunctionOnSet(Quantities(before), Intents) + (n - Quantities(before)[d])
    <2> DEFINE f == Quantities(before)
               g == Quantities(after)
    <2>1. f \in [Intents -> Int] /\ n \in Int /\ d \in Intents
      BY <1>3, <1>4
    <2>2. g = [f EXCEPT ![d] = n]
      BY <1>6
    <2> HIDE DEF f, g
    <2>3. SumFunctionOnSet(g, Intents) = SumFunctionOnSet(f, Intents) + (n - f[d])
      BY <2>1, <2>2, QuantityMoves
    <2> QED BY <2>3 DEF f, g
  <1>9. SumFunctionOnSet(Quantities(before), Intents) \in Nat
    BY <1>2, IntentsFinite, SumNat
  <1> QED BY <1>a, <1>7, <1>8, <1>9

USE PositionBookAssumption

LEMMA AmountType ==
    ASSUME NEW s \in Sweeps
    PROVE  Amount(s) \in 0..Bought /\ Amount(s) <= s.pos.qty /\ s.pos.qty \in 0..Bought
  <1>1. s.pos.qty \in 0..Bought
    BY DEF Sweeps, Positions
  <1>2. Amount(s) \in 0..Bought /\ Amount(s) <= s.pos.qty
    BY <1>1, SMT DEF SellQty, Amount
  <1> QED BY <1>1, <1>2

\* A sweep that is sent over a route has an intent, and what it holds and
\* sells is not the route's to change.
LEMMA IntentType ==
    ASSUME NEW s \in Sweeps, NEW route \in Routes
    PROVE  LET t == [s EXCEPT !.pc = "selling", !.route = route] IN
           /\ t \in Sweeps /\ t.pc = "selling" /\ t.pos = s.pos /\ t.route \in Routes
           /\ Amount(t) = Amount(s) /\ Intent(t) \in Intents
           /\ Intent(t)[1] = s.pos.qty /\ Intent(t)[2] = Amount(s)
  <1> DEFINE t == [s EXCEPT !.pc = "selling", !.route = route]
  <1>1. t \in Sweeps /\ t.pc = "selling" /\ t.pos = s.pos /\ t.rule = s.rule /\ t.route = route
    BY DEF Sweeps
  <1>2. Amount(t) = Amount(s)
    BY <1>1 DEF Amount, SellQty
  <1> HIDE DEF t
  <1>3. Intent(t) = <<s.pos.qty, Amount(s), route>>
    BY <1>1, <1>2 DEF Intent
  <1>4. Intent(t) \in Intents
    BY <1>3, AmountType DEF Intents
  <1>5. /\ t \in Sweeps /\ t.pc = "selling" /\ t.pos = s.pos /\ t.route \in Routes
        /\ Amount(t) = Amount(s) /\ Intent(t) \in Intents
        /\ Intent(t)[1] = s.pos.qty /\ Intent(t)[2] = Amount(s)
    BY <1>1, <1>2, <1>3, <1>4
  <1> QED BY <1>5 DEF t

LEMMA IntentForm ==
    ASSUME NEW s PROVE Intent(s)[1] = s.pos.qty /\ Intent(s)[2] = Amount(s)
  BY DEF Intent

LEMMA PcFrame ==
    ASSUME NEW s \in Sweeps, NEW pc
    PROVE  LET t == [s EXCEPT !.pc = pc] IN
           /\ t.pc = pc /\ t.pos = s.pos /\ t.route = s.route
           /\ Amount(t) = Amount(s) /\ Intent(t) = Intent(s)
  BY DEF Amount, Intent, SellQty, Sweeps

LEMMA SoldType ==
    ASSUME NEW p \in Positions, NEW n \in 0..Bought, now \in Nat
    PROVE  Sold(p, n) \in Positions
  <1> DEFINE q == IF n < p.qty THEN p.qty - n ELSE 0
             t == now + 1
             Q == 0..Bought
  <1>1. q \in Q /\ t \in Nat
    BY SMT DEF Positions
  <1>2. Sold(p, n) = [p EXCEPT !.qty = q, !.at = t]
    BY DEF Sold
  <1>3. Positions = [status : {"absent", "open", "closed"}, qty : Q, at : Nat]
    BY DEF Positions
  <1> HIDE DEF q, t, Q
  <1>4. Sold(p, n) = [status |-> p.status, qty |-> q, at |-> t]
    BY <1>2, <1>3
  <1> QED BY <1>1, <1>3, <1>4

LEMMA StampType ==
    ASSUME NEW p \in Positions, now \in Nat
    PROVE  Closed(p) \in Positions /\ Stamped(p) \in Positions
  <1> DEFINE t == now + 1
             Q == 0..Bought
  <1>1. t \in Nat
    OBVIOUS
  <1>2. /\ Closed(p) = [p EXCEPT !.status = "closed", !.at = t]
        /\ Stamped(p) = [p EXCEPT !.at = t]
    BY DEF Closed, Stamped
  <1>3. Positions = [status : {"absent", "open", "closed"}, qty : Q, at : Nat]
    BY DEF Positions
  <1> HIDE DEF t, Q
  <1>4. Closed(p) = [status |-> "closed", qty |-> p.qty, at |-> t]
    BY <1>2, <1>3
  <1>5. Stamped(p) = [status |-> p.status, qty |-> p.qty, at |-> t]
    BY <1>2, <1>3
  <1>6. Closed(p) \in Positions
    BY <1>1, <1>3, <1>4
  <1>7. Stamped(p) \in Positions
    BY <1>1, <1>3, <1>5
  <1> QED BY <1>6, <1>7

LEMMA PcType ==
    ASSUME NEW s \in Sweeps, NEW pc \in {"idle", "decided", "owned", "selling", "filled", "booked"}
    PROVE  [s EXCEPT !.pc = pc] \in Sweeps
  BY DEF Sweeps

LEMMA MovesType ==
    ASSUME TypeOK, NEW r \in Replicas, NEW s \in Sweeps, Moves(r, s)
    PROVE  sweep' \in [Replicas -> Sweeps]
  BY DEF TypeOK, Moves

LEMMA EventType ==
    ASSUME NEW p \in Positions PROVE Update(p) \in Events /\ Fill \in Events /\ Absent \in Positions
  BY DEF Update, Fill, Events, Positions, Absent

LEMMA FinishesType ==
    ASSUME TypeOK, NEW r \in Replicas, NEW s, NEW a, Finishes(r, s, a)
    PROVE  claim' \in [Rules -> Replicas \cup {Free, "grace"}]
  BY DEF TypeOK, Finishes

LEMMA BookType ==
    ASSUME TypeOK, NEW r \in Replicas, NEW p \in Positions,
           book' = [book EXCEPT ![r] = p]
    PROVE  book' \in [Replicas -> Positions]
  BY DEF TypeOK

LEMMA PublishType ==
    ASSUME TypeOK, NEW r \in Replicas, NEW es \in Seq(Events), Publish(r, es)
    PROVE  bus' \in [Replicas -> Seq(Events)]
  <1>1. bus[r] \o es \in Seq(Events)
    BY DEF TypeOK
  <1> QED BY <1>1 DEF TypeOK, Publish

LEMMA LeftType ==
    ASSUME TypeOK
    PROVE  /\ left.repeats > 0 => [left EXCEPT !.repeats = @ - 1] \in [repeats : Nat, upsets : Nat]
           /\ left.upsets > 0 => [left EXCEPT !.upsets = @ - 1] \in [repeats : Nat, upsets : Nat]
  <1> DEFINE a == left.repeats - 1
             b == left.upsets - 1
  <1>1. /\ left \in [repeats : Nat, upsets : Nat]
        /\ [left EXCEPT !.repeats = @ - 1] = [left EXCEPT !.repeats = a]
        /\ [left EXCEPT !.upsets = @ - 1] = [left EXCEPT !.upsets = b]
    BY DEF TypeOK
  <1>2. (left.repeats > 0 => a \in Nat) /\ (left.upsets > 0 => b \in Nat)
    BY <1>1
  <1> HIDE DEF a, b
  <1> QED BY <1>1, <1>2

\* What the sweepers do keeps the types.
LEMMA SweeperType ==
    ASSUME TypeOK, NEW r \in Replicas, SweeperStep(r)
    PROVE  TypeOK'
  <1>0. /\ sweep[r] \in Sweeps /\ book[r] \in Positions
        /\ Amount(sweep[r]) \in 0..Bought
        /\ Idle \in Sweeps
    BY AmountType, EventType DEF Idle, Sweeps, Absent, Positions, TypeOK
  <1>1. CASE Sweep(r)
    <2>1. PICK rule \in Rules, marks \in BOOLEAN :
             /\ IF marks
                THEN /\ left.repeats > 0
                     /\ left' = [left EXCEPT !.repeats = @ - 1]
                     /\ book' = [book EXCEPT ![r] = Stamped(@)] /\ Ticks
                ELSE UNCHANGED <<left, book, now>>
             /\ Moves(r, [pc |-> "decided", pos |-> book'[r], rule |-> rule,
                           route |-> "none"])
      BY <1>1 DEF Sweep
    <2>a. now \in Nat /\ Stamped(book[r]) \in Positions
      BY <1>0, StampType DEF TypeOK
    <2>2. book' \in [Replicas -> Positions] /\ now' \in Nat
      <3>1. CASE marks
        <4>1. book' = [book EXCEPT ![r] = Stamped(book[r])] /\ now' = now + 1
          BY <2>1, <3>1 DEF Ticks, TypeOK
        <4>2. book' \in [Replicas -> Positions]
          BY <4>1, <2>a, BookType
        <4> QED BY <4>1, <4>2, <2>a
      <3> QED BY <3>1, <2>1 DEF TypeOK
    <2>3. left' \in [repeats : Nat, upsets : Nat]
      BY <2>1, LeftType DEF TypeOK
    <2>4. sweep' \in [Replicas -> Sweeps]
      <3>1. [pc |-> "decided", pos |-> book'[r], rule |-> rule, route |-> "none"] \in Sweeps
        BY <2>2 DEF Sweeps
      <3> QED BY <2>1, <3>1, MovesType
    <2> QED BY <1>1, <2>2, <2>3, <2>4 DEF Sweep, TypeOK
  <1>2. CASE Acquire(r)
    <2>1. sweep' \in [Replicas -> Sweeps]
      BY <1>2, <1>0, PcType, MovesType DEF Acquire
    <2>2. claim' \in [Rules -> Replicas \cup {Free, "grace"}]
      BY <1>2 DEF Acquire, TypeOK
    <2> QED BY <1>2, <2>1, <2>2 DEF Acquire, TypeOK
  <1>3. CASE Skip(r)
    BY <1>3, <1>0, FinishesType, MovesType DEF Skip, TypeOK
  <1>4. CASE Begin(r)
    <2>1. PICK route \in Routes :
             LET s == [sweep[r] EXCEPT !.pc = "selling", !.route = route] IN
             /\ ledger' = [ledger EXCEPT ![r] = @ \cup {Intent(s)}]
             /\ journal' = journal \cup {Intent(s)}
             /\ Moves(r, s)
      BY <1>4 DEF Begin
    <2> DEFINE s == [sweep[r] EXCEPT !.pc = "selling", !.route = route]
    <2>2. s \in Sweeps /\ Intent(s) \in Intents
      BY <1>0, IntentType
    <2>3. /\ ledger' = [ledger EXCEPT ![r] = @ \cup {Intent(s)}]
          /\ journal' = journal \cup {Intent(s)} /\ Moves(r, s)
      BY <2>1
    <2> HIDE DEF s
    <2>4. sweep' \in [Replicas -> Sweeps]
      BY <2>2, <2>3, MovesType
    <2>5. ledger' \in [Replicas -> SUBSET Intents] /\ journal' \in SUBSET Intents
      BY <2>2, <2>3 DEF TypeOK
    <2> QED BY <1>4, <2>4, <2>5 DEF Begin, TypeOK
  <1>5. CASE Execute(r)
    <2>1. sweep' \in [Replicas -> Sweeps]
      BY <1>5, <1>0, PcType, MovesType DEF Execute
    <2>2. claim' \in [Rules -> Replicas \cup {Free, "grace"}]
      BY <1>5, FinishesType DEF Execute
    <2> DEFINE i == Intent(sweep[r])
               n == Amount(sweep[r])
    <2>a. \/ wallet' = wallet /\ sold' = sold
          \/ wallet >= n /\ wallet' = wallet - n /\ sold' = [sold EXCEPT ![i] = @ + 1]
      BY <1>5 DEF Execute
    <2>b. n \in Nat /\ wallet \in Nat /\ sold \in [Intents -> Nat]
      BY <1>0 DEF TypeOK
    <2> HIDE DEF i, n
    <2>3. wallet' \in Nat
      BY <2>a, <2>b
    <2>4. sold' \in [Intents -> Nat]
      BY <2>a, <2>b
    <2> QED BY <1>5, <2>1, <2>2, <2>3, <2>4 DEF Execute, TypeOK
  <1>6. CASE Unfilled(r)
    <2>1. left' \in [repeats : Nat, upsets : Nat]
      BY <1>6, LeftType DEF Unfilled
    <2>2. sweep' \in [Replicas -> Sweeps]
      BY <1>6, <1>0, MovesType DEF Unfilled
    <2>3. claim' \in [Rules -> Replicas \cup {Free, "grace"}]
      BY <1>6, FinishesType DEF Unfilled
    <2> QED BY <1>6, <1>0, <2>1, <2>2, <2>3 DEF Unfilled, TypeOK
  <1>7. CASE BookSale(r)
    <2>1. sweep' \in [Replicas -> Sweeps]
      BY <1>7, <1>0, PcType, MovesType DEF BookSale
    <2>2. Sold(book[r], Amount(sweep[r])) \in Positions
      BY <1>0, SoldType DEF TypeOK
    <2>3. bus' \in [Replicas -> Seq(Events)]
      <3>1. <<Fill>> \in Seq(Events)
        BY <1>0, EventType
      <3> QED BY <1>7, <3>1, PublishType DEF BookSale
    <2>4. book' = [book EXCEPT ![r] = IF book[r].status = "absent" THEN book[r]
                                      ELSE Sold(book[r], Amount(sweep[r]))]
      BY <1>7 DEF BookSale, TypeOK
    <2>5. book' \in [Replicas -> Positions] /\ now' \in Nat
      <3>1. now' \in Nat
        BY <1>7 DEF BookSale, Ticks, TypeOK
      <3> QED BY <2>2, <2>4, <1>0, <3>1, BookType
    <2> QED BY <1>7, <2>1, <2>3, <2>5 DEF BookSale, TypeOK
  <1>8. CASE CloseOrTrim(r)
    <2>0. sweep' \in [Replicas -> Sweeps]
      BY <1>8, <1>0, MovesType DEF CloseOrTrim
    <2>1. Closed(book[r]) \in Positions
      BY <1>0, StampType DEF TypeOK
    <2>2. Update(book[r]) \in Events /\ Update(Closed(book[r])) \in Events
      BY <1>0, <2>1, EventType
    <2>3. \/ UNCHANGED <<book, bus, now>>
          \/ /\ book' = [book EXCEPT ![r] = Closed(book[r])] /\ now' = now + 1
             /\ bus' = [bus EXCEPT ![r] = @ \o <<Update(Closed(book[r]))>>]
          \/ bus' = [bus EXCEPT ![r] = @ \o <<Update(book[r])>>] /\ UNCHANGED <<book, now>>
      BY <1>8, <1>0 DEF CloseOrTrim, Publish, Ticks, TypeOK
    <2>4. bus' \in [Replicas -> Seq(Events)]
      <3>1. <<Update(Closed(book[r]))>> \in Seq(Events) /\ <<Update(book[r])>> \in Seq(Events)
        BY <2>2
      <3> QED BY <2>3, <3>1, PublishType DEF Publish, TypeOK
    <2>5. book' \in [Replicas -> Positions] /\ now' \in Nat
      <3>1. now \in Nat /\ now + 1 \in Nat
        BY DEF TypeOK
      <3> QED BY <2>1, <2>3, <3>1, BookType DEF TypeOK
    <2> QED BY <1>8, <2>0, <2>4, <2>5 DEF CloseOrTrim, TypeOK
  <1> QED BY <1>1, <1>2, <1>3, <1>4, <1>5, <1>6, <1>7, <1>8 DEF SweeperStep

\* The steps of a recovery worker.
ReconStep(r) ==
    \/ Snapshot(r) \/ ReadWallet(r) \/ GiveUp(r)
    \/ Correct(r) \/ CloseCorrected(r) \/ WriteRow(r)

LEMMA EmptiedType ==
    ASSUME NEW p \in Positions
    PROVE  /\ Emptied(p) \in Positions /\ Emptied(p).status = p.status
           /\ Emptied(p).at = p.at /\ Emptied(p).qty = 0
  <1> DEFINE Q == 0..Bought
  <1>1. 0 \in Q /\ Positions = [status : {"absent", "open", "closed"}, qty : Q, at : Nat]
    BY DEF Positions
  <1> HIDE DEF Q
  <1> QED BY <1>1 DEF Emptied

LEMMA OverwritesType ==
    ASSUME TypeOK, NEW r, NEW p, NEW q, Overwrites(r, p, q) PROVE harm' \in SUBSET Harms
  BY DEF TypeOK, Overwrites, Harms

LEMMA ReconRecord ==
    ASSUME NEW p \in Positions, NEW pc \in {"idle", "read", "zero", "corrected", "closed"}
    PROVE  [pc |-> pc, pos |-> p] \in Recons
  BY DEF Recons

LEMMA ReconType ==
    ASSUME TypeOK, NEW r \in Replicas, ReconStep(r)
    PROVE  TypeOK'
  <1>0. /\ Absent \in Positions /\ AtRest \in Recons /\ now \in Nat /\ row \in Positions
        /\ book[r] \in Positions /\ recon \in [Replicas -> Recons] /\ recon[r].pos \in Positions
    <2>1. Absent \in Positions /\ row \in Positions /\ book[r] \in Positions /\ now \in Nat
      BY DEF Absent, Positions, TypeOK
    <2> QED BY <2>1 DEF AtRest, Recons, TypeOK
  <1>1. CASE Snapshot(r)
    <2>1. recon' \in [Replicas -> Recons]
      BY <1>0, <1>1, ReconRecord DEF Snapshot
    <2> QED BY <1>1, <2>1 DEF Snapshot, TypeOK
  <1>2. CASE ReadWallet(r)
    <2>1. recon' \in [Replicas -> Recons]
      BY <1>0, <1>2 DEF ReadWallet, Recons
    <2> QED BY <1>2, <2>1 DEF ReadWallet, TypeOK
  <1>3. CASE GiveUp(r)
    <2>1. recon' \in [Replicas -> Recons]
      BY <1>0, <1>3 DEF GiveUp
    <2> QED BY <1>3, <2>1 DEF GiveUp, TypeOK
  <1>4. CASE Correct(r)
    <2> DEFINE p == Emptied(recon[r].pos)
    <2>1. p \in Positions
      BY <1>0, EmptiedType
    <2>2. /\ book' = [book EXCEPT ![r] = p] /\ Publish(r, <<Update(p)>>)
          /\ recon' = [recon EXCEPT ![r] = [pc |-> "corrected", pos |-> p]]
      BY <1>4 DEF Correct
    <2> HIDE DEF p
    <2>3. <<Update(p)>> \in Seq(Events)
      BY <2>1, EventType
    <2>4. bus' \in [Replicas -> Seq(Events)] /\ book' \in [Replicas -> Positions]
      BY <2>1, <2>2, <2>3, PublishType, BookType
    <2>5. recon' \in [Replicas -> Recons]
      BY <1>0, <2>1, <2>2, ReconRecord
    <2>6. harm' \in SUBSET Harms
      BY <1>4, OverwritesType DEF Correct
    <2>7. left' \in [repeats : Nat, upsets : Nat]
      BY <1>4, LeftType DEF Correct
    <2> QED BY <1>4, <2>4, <2>5, <2>6, <2>7 DEF Correct, TypeOK
  <1>5. CASE CloseCorrected(r)
    <2> DEFINE p == Closed(book[r])
    <2>1. p \in Positions
      BY <1>0, StampType
    <2>2. /\ book' = [book EXCEPT ![r] = p] /\ book'[r] = p
      BY <1>5 DEF CloseCorrected, TypeOK
    <2>3. /\ Publish(r, <<Update(p)>>)
          /\ recon' = [recon EXCEPT ![r] = [pc |-> "closed", pos |-> p]]
      BY <1>5, <2>2 DEF CloseCorrected
    <2> HIDE DEF p
    <2>4. <<Update(p)>> \in Seq(Events)
      BY <2>1, EventType
    <2>5. bus' \in [Replicas -> Seq(Events)] /\ book' \in [Replicas -> Positions]
      BY <2>1, <2>2, <2>3, <2>4, PublishType, BookType
    <2>6. recon' \in [Replicas -> Recons]
      BY <1>0, <2>1, <2>3, ReconRecord
    <2>7. now' \in Nat
      BY <1>0, <1>5 DEF CloseCorrected, Ticks
    <2> QED BY <1>5, <2>5, <2>6, <2>7 DEF CloseCorrected, TypeOK
  <1>6. CASE WriteRow(r)
    <2>1. recon' \in [Replicas -> Recons]
      BY <1>0, <1>6 DEF WriteRow
    <2>2. row' \in Positions /\ missed' \in BOOLEAN
      BY <1>0, <1>6 DEF WriteRow, TypeOK
    <2>3. harm' \in SUBSET Harms
      BY <1>6, OverwritesType DEF WriteRow, TypeOK
    <2> QED BY <1>6, <2>1, <2>2, <2>3 DEF WriteRow, TypeOK
  <1> QED BY <1>1, <1>2, <1>3, <1>4, <1>5, <1>6 DEF ReconStep

\* What the pump, the book sync, reconciliation and restarts do keeps them.
LEMMA OtherType ==
    ASSUME TypeOK, NEW r \in Replicas,
           \/ Persist(r) \/ SyncRead(r) \/ SyncApply(r) \/ ReconStep(r) \/ Start(r)
    PROVE  TypeOK'
  <1>0. /\ Absent \in Positions /\ AtRest \in Syncs
        /\ AtRest \in Recons /\ Idle \in Sweeps
        /\ now \in Nat /\ row \in Positions
    BY DEF Absent, AtRest, Idle, Positions, Sweeps, Syncs, Recons, TypeOK
  <1>1. CASE Persist(r)
    <2>1. Head(bus[r]) \in Events /\ Tail(bus[r]) \in Seq(Events)
      BY <1>1 DEF Persist, TypeOK
    <2>2. bus' \in [Replicas -> Seq(Events)]
      BY <1>1, <2>1 DEF Persist, TypeOK
    <2>3. row' \in Positions /\ fills' \in BOOLEAN /\ missed' \in BOOLEAN
      BY <1>1, <2>1 DEF Persist, TypeOK, Events
    <2>4. left' \in [repeats : Nat, upsets : Nat]
      BY <1>1, LeftType DEF Persist, TypeOK
    <2> QED BY <1>1, <2>2, <2>3, <2>4 DEF Persist, TypeOK
  <1>2. CASE SyncRead(r)
    <2>1. sync' \in [Replicas -> Syncs]
      BY <1>2 DEF SyncRead, Syncs, TypeOK
    <2> QED BY <1>2, <2>1 DEF SyncRead, TypeOK
  <1>3. CASE SyncApply(r)
    <2>1. sync[r].pos \in Positions
      BY DEF TypeOK, Syncs
    <2>2. book' \in [Replicas -> Positions]
      BY <1>3, <2>1, BookType DEF SyncApply
    <2>3. <<Update(sync[r].pos)>> \in Seq(Events)
      BY <2>1, EventType
    <2>4. bus' \in [Replicas -> Seq(Events)]
      BY <1>3, <2>3, PublishType DEF SyncApply
    <2>5. sync' \in [Replicas -> Syncs]
      BY <1>3, <1>0 DEF SyncApply, TypeOK
    <2> QED BY <1>3, <2>2, <2>4, <2>5 DEF SyncApply, TypeOK
  <1>4. CASE ReconStep(r)
    BY <1>4, ReconType
  <1>5. CASE Start(r)
    <2>1. left' \in [repeats : Nat, upsets : Nat]
      BY <1>5, LeftType DEF Start
    <2>2. book' \in [Replicas -> Positions]
      BY <1>5, <1>0 DEF Start, TypeOK
    <2>3. bus' \in [Replicas -> Seq(Events)]
      BY <1>5 DEF Start, TypeOK
    <2>4. sweep' \in [Replicas -> Sweeps]
      BY <1>5, <1>0, MovesType DEF Start
    <2>5. /\ sync' \in [Replicas -> Syncs]
          /\ recon' \in [Replicas -> Recons]
      BY <1>5, <1>0 DEF Start, TypeOK
    <2>6. ledger' \in [Replicas -> SUBSET Intents]
      BY <1>5 DEF Start, TypeOK
    <2>7. up' \in SUBSET Replicas /\ knows' \in SUBSET Replicas /\ harm' \in SUBSET Harms
          /\ missed' \in BOOLEAN
      BY <1>5 DEF Start, TypeOK, Harms
    <2> QED BY <1>5, <2>1, <2>2, <2>3, <2>4, <2>5, <2>6, <2>7 DEF Start, TypeOK
  <1> QED BY <1>1, <1>2, <1>3, <1>4, <1>5

LEMMA InitType == Init => TypeOK
  <1> SUFFICES ASSUME Init PROVE TypeOK
    OBVIOUS
  <1> DEFINE p == [status |-> "open", qty |-> Bought, at |-> 1]
  <1>1. p \in Positions /\ Absent \in Positions
    BY DEF Positions, Absent
  <1>2. /\ book = [r \in Replicas |-> IF r = Opener THEN p ELSE Absent]
        /\ bus = [r \in Replicas |-> IF r = Opener THEN <<Update(p)>> ELSE << >>]
    BY DEF Init
  <1> HIDE DEF p
  <1>3. Update(p) \in Events
    BY <1>1, EventType
  <1>4. book \in [Replicas -> Positions] /\ bus \in [Replicas -> Seq(Events)]
    BY <1>1, <1>2, <1>3
  <1>5. Idle \in Sweeps
    BY <1>1 DEF Idle, Sweeps
  <1>6. /\ sweep \in [Replicas -> Sweeps]
        /\ sync \in [Replicas -> Syncs]
        /\ recon \in [Replicas -> Recons]
    BY <1>1, <1>5 DEF Init, AtRest, Syncs, Recons
  <1>7. wallet \in Nat
    BY DEF Init
  <1>8. sold \in [Intents -> Nat] /\ now \in Nat
    BY DEF Init
  <1>9. left \in [repeats : Nat, upsets : Nat]
    BY DEF Init
  <1>10. entry \in {"pending", "landed", "never_landed"}
    BY DEF Init
  <1>11. /\ ledger \in [Replicas -> SUBSET Intents] /\ journal \in SUBSET Intents
         /\ claim \in [Rules -> Replicas \cup {Free, "grace"}]
         /\ knows \in SUBSET Replicas /\ up \in SUBSET Replicas
         /\ missed \in BOOLEAN /\ harm \in SUBSET Harms
         /\ row \in Positions /\ fills \in BOOLEAN
    BY <1>1 DEF Init
  <1> QED BY <1>4, <1>6, <1>7, <1>8, <1>9, <1>10, <1>11 DEF TypeOK

LEMMA TypeStep == TypeOK /\ [Next]_vars => TypeOK'
  <1> SUFFICES ASSUME TypeOK, [Next]_vars PROVE TypeOK'
    OBVIOUS
  <1>1. CASE \E r \in Replicas :
              \/ SweeperStep(r) \/ Persist(r) \/ SyncRead(r) \/ SyncApply(r)
              \/ ReconStep(r) \/ Start(r)
    BY <1>1, SweeperType, OtherType
  <1>2. CASE \E rule \in Rules : Lapse(rule)
    BY <1>2 DEF Lapse, TypeOK
  <1>3. CASE SettleEntry
    <2>1. wallet' \in Nat
      BY <1>3 DEF SettleEntry, TypeOK
    <2>2. entry' \in {"pending", "landed", "never_landed"}
      BY <1>3 DEF SettleEntry
    <2> QED BY <1>3, <2>1, <2>2 DEF SettleEntry, TypeOK
  <1>4. CASE UNCHANGED vars
    BY <1>4 DEF vars, TypeOK
  <1> QED BY <1>1, <1>2, <1>3, <1>4 DEF Next, ReconStep

\* PositionBook is type correct: in particular no sale ever takes a position
\* below zero (apply_sell's clamp), under every interleaving and restart.
THEOREM TypeCorrect == Spec => []TypeOK
  BY InitType, TypeStep, PTL DEF Spec

-----------------------------------------------------------------------------
(* One trading replica.                                                    *)

\* What is being sold, and what was, is refused by the ledger of the one
\* replica that trades and by the durable rows a restart reads.
OneSellerInv ==
    /\ \A r \in Replicas \ {Opener} : sweep[r].pc = "idle"
    /\ sweep[Opener].pc = "selling"
          => /\ Intent(sweep[Opener]) \in ledger[Opener] \cap journal
             /\ sold[Intent(sweep[Opener])] = 0
    /\ \A i \in Intents : \/ sold[i] = 0
                          \/ sold[i] = 1 /\ i \in ledger[Opener] \cap journal

LEMMA OneSellerStep ==
    ASSUME Sweepers = {Opener}, TypeOK, OneSellerInv, [Next]_vars
    PROVE  OneSellerInv'
  <1>0. Opener \in Replicas /\ sweep[Opener] \in Sweeps /\ ledger[Opener] \subseteq Intents
    BY DEF TypeOK
  <1>1. ASSUME NEW r \in Replicas, SweeperStep(r) PROVE OneSellerInv'
    <2>0. r = Opener
      <3>1. CASE Sweep(r)
        BY <3>1 DEF Sweep
      <3>2. CASE Acquire(r) \/ Skip(r) \/ Begin(r) \/ Execute(r) \/ Unfilled(r) \/ BookSale(r)
                 \/ CloseOrTrim(r)
        <4>1. sweep[r].pc # "idle"
          BY <3>2 DEF Acquire, Skip, Begin, Execute, Unfilled, BookSale, CloseOrTrim
        <4> QED BY <4>1 DEF OneSellerInv
      <3> QED BY <1>1, <3>1, <3>2 DEF SweeperStep
    <2>a. ASSUME NEW s \in Sweeps, Moves(r, s)
          PROVE  sweep'[Opener] = s /\ \A q \in Replicas \ {Opener} : sweep'[q].pc = "idle"
      BY <2>0, <1>0, <2>a DEF Moves, OneSellerInv, TypeOK
    <2>b. Idle \in Sweeps /\ Idle.pc = "idle"
      BY DEF Idle, Sweeps, Absent, Positions
    <2>1. CASE Sweep(r)
      <3>1. sweep'[Opener].pc = "decided" /\ \A q \in Replicas \ {Opener} : sweep'[q].pc = "idle"
        BY <2>1, <2>0, <1>0 DEF Sweep, Moves, OneSellerInv, TypeOK
      <3> QED BY <2>1, <3>1 DEF Sweep, OneSellerInv
    <2>2. CASE Acquire(r)
      <3>1. sweep'[Opener].pc \in {"owned", "idle"} /\ \A q \in Replicas \ {Opener} : sweep'[q].pc = "idle"
        <4>1. PICK s \in {Idle, [sweep[Opener] EXCEPT !.pc = "owned"]} : Moves(r, s)
          BY <2>2, <2>0 DEF Acquire
        <4>2. s \in Sweeps /\ s.pc \in {"owned", "idle"}
          BY <1>0, <2>b, PcType DEF Sweeps
        <4> QED BY <4>1, <4>2, <2>a
      <3> QED BY <2>2, <3>1 DEF Acquire, OneSellerInv
    <2>3. CASE Skip(r)
      <3>1. sweep'[Opener].pc = "idle" /\ \A q \in Replicas \ {Opener} : sweep'[q].pc = "idle"
        BY <2>3, <2>a, <2>b DEF Skip
      <3> QED BY <2>3, <3>1 DEF Skip, OneSellerInv
    <2>4. CASE Begin(r)
      <3>0. PICK route \in Routes :
               LET s == [sweep[r] EXCEPT !.pc = "selling", !.route = route] IN
               /\ Intent(s) \notin ledger[r]
               /\ ledger' = [ledger EXCEPT ![r] = @ \cup {Intent(s)}]
               /\ journal' = journal \cup {Intent(s)}
               /\ Moves(r, s)
        BY <2>4 DEF Begin
      <3> DEFINE s == [sweep[Opener] EXCEPT !.pc = "selling", !.route = route]
                 i == Intent(s)
      <3>1. s \in Sweeps /\ i \in Intents
        BY <1>0, IntentType
      <3>2. i \notin ledger[Opener] /\ journal' = journal \cup {i} /\ Moves(r, s)
            /\ ledger' = [ledger EXCEPT ![Opener] = @ \cup {i}]
        BY <2>0, <3>0
      <3> HIDE DEF s
      <3>3. sweep'[Opener] = s /\ \A q \in Replicas \ {Opener} : sweep'[q].pc = "idle"
        BY <2>a, <3>1, <3>2
      <3>4. ledger'[Opener] = ledger[Opener] \cup {i} /\ sold' = sold
        BY <1>0, <2>4, <3>2 DEF Begin, TypeOK
      <3>5. Intent(sweep'[Opener]) = i
        BY <3>3
      <3> HIDE DEF i
      <3>6. sold[i] = 0
        BY <3>1, <3>2 DEF OneSellerInv
      <3> QED BY <3>2, <3>3, <3>4, <3>5, <3>6 DEF OneSellerInv
    <2>5. CASE Execute(r)
      <3> DEFINE d == Intent(sweep[Opener])
      <3>1. sweep'[Opener].pc = "filled" /\ \A q \in Replicas \ {Opener} : sweep'[q].pc = "idle"
        <4> DEFINE s == [sweep[Opener] EXCEPT !.pc = "filled"]
        <4>1. Moves(r, s)
          BY <2>5, <2>0 DEF Execute
        <4>2. s \in Sweeps /\ s.pc = "filled"
          BY <1>0, PcType DEF Sweeps
        <4> HIDE DEF s
        <4> QED BY <4>1, <4>2, <2>a
      <3>2. d \in ledger[Opener] \cap journal /\ sold[d] = 0
        BY <2>5, <2>0 DEF Execute, OneSellerInv
      <3>3. sold' = sold \/ sold' = [sold EXCEPT ![d] = @ + 1]
        BY <2>5, <2>0 DEF Execute
      <3>4. ledger' = ledger /\ journal' = journal
        BY <2>5 DEF Execute
      <3> HIDE DEF d
      <3>5. ASSUME NEW e \in Intents
            PROVE  sold'[e] = 0 \/ (sold'[e] = 1 /\ e \in ledger'[Opener] \cap journal')
        <4>1. CASE e = d
          BY <4>1, <3>2, <3>3, <3>4 DEF TypeOK
        <4>2. CASE e # d
          BY <4>2, <3>3, <3>4 DEF TypeOK, OneSellerInv
        <4> QED BY <4>1, <4>2
      <3> QED BY <3>1, <3>5 DEF OneSellerInv
    <2>6. CASE Unfilled(r)
      <3> DEFINE d == Intent(sweep[Opener])
      <3>1. sweep'[Opener].pc = "idle" /\ \A q \in Replicas \ {Opener} : sweep'[q].pc = "idle"
        BY <2>6, <2>a, <2>b DEF Unfilled
      <3>2. sold[d] = 0
        BY <2>6, <2>0 DEF Unfilled, OneSellerInv
      <3>3. ledger'[Opener] = ledger[Opener] \ {d} /\ journal' = journal \ {d} /\ sold' = sold
        BY <2>6, <2>0, <1>0 DEF Unfilled, TypeOK
      <3> HIDE DEF d
      <3>4. ASSUME NEW e \in Intents
            PROVE  sold'[e] = 0 \/ (sold'[e] = 1 /\ e \in ledger'[Opener] \cap journal')
        BY <3>2, <3>3 DEF OneSellerInv
      <3> QED BY <3>1, <3>4 DEF OneSellerInv
    <2>7. CASE BookSale(r)
      <3>1. sweep'[Opener].pc = "booked" /\ \A q \in Replicas \ {Opener} : sweep'[q].pc = "idle"
        <4> DEFINE s == [sweep[Opener] EXCEPT !.pc = "booked"]
        <4>1. Moves(r, s)
          BY <2>7, <2>0 DEF BookSale
        <4>2. s \in Sweeps /\ s.pc = "booked"
          BY <1>0, PcType DEF Sweeps
        <4> HIDE DEF s
        <4> QED BY <4>1, <4>2, <2>a
      <3> QED BY <2>7, <3>1 DEF BookSale, OneSellerInv
    <2>8. CASE CloseOrTrim(r)
      <3>1. sweep'[Opener].pc = "idle" /\ \A q \in Replicas \ {Opener} : sweep'[q].pc = "idle"
        BY <2>8, <2>a, <2>b DEF CloseOrTrim
      <3> QED BY <2>8, <3>1 DEF CloseOrTrim, OneSellerInv
    <2> QED BY <1>1, <2>1, <2>2, <2>3, <2>4, <2>5, <2>6, <2>7, <2>8 DEF SweeperStep
  <1>2. ASSUME NEW r \in Replicas, Start(r) PROVE OneSellerInv'
    <2>1. /\ sweep' = [sweep EXCEPT ![r] = Idle] /\ sold' = sold /\ journal' = journal
          /\ ledger' = [ledger EXCEPT ![r] = journal]
      BY <1>2 DEF Start, Moves
    <2>2. \A q \in Replicas : sweep'[q] = IF q = r THEN Idle ELSE sweep[q]
      BY <2>1 DEF TypeOK
    <2>3. ledger'[Opener] = IF r = Opener THEN journal ELSE ledger[Opener]
      BY <2>1, <1>0 DEF TypeOK
    <2>4. Idle.pc = "idle"
      BY DEF Idle
    <2> QED BY <1>0, <2>1, <2>2, <2>3, <2>4 DEF OneSellerInv
  <1>3. ASSUME UNCHANGED <<sweep, ledger, journal, sold>> PROVE OneSellerInv'
    BY <1>3 DEF OneSellerInv
  <1>4. ASSUME NEW r \in Replicas,
               Persist(r) \/ SyncRead(r) \/ SyncApply(r) \/ ReconStep(r)
        PROVE  UNCHANGED <<sweep, ledger, journal, sold>>
    BY <1>4 DEF Persist, SyncRead, SyncApply, ReconStep, Snapshot, ReadWallet, GiveUp, Correct,
                CloseCorrected, WriteRow
  <1>5. CASE Next
    <2>1. CASE (\E rule \in Rules : Lapse(rule)) \/ SettleEntry
      BY <2>1, <1>3 DEF Lapse, SettleEntry
    <2> QED BY <1>5, <2>1, <1>1, <1>2, <1>3, <1>4 DEF Next, ReconStep
  <1>6. CASE UNCHANGED vars
    BY <1>6, <1>3 DEF vars
  <1> QED BY <1>5, <1>6

\* The exit intent is an idempotency key (exit_intent_id, and the ledger a
\* restart restores): when one replica trades, no intent is sold twice, for any
\* quantity, routes and followers, whatever lapses, dies or is corrected.
THEOREM OneSellerIntentOnce ==
    ASSUME Sweepers = {Opener} PROVE Spec => []IntentOnce
  <1>1. Init => OneSellerInv
    BY DEF Init, OneSellerInv, Idle
  <1>2. TypeOK /\ OneSellerInv /\ [Next]_vars => OneSellerInv'
    BY OneSellerStep
  <1>3. TypeOK /\ OneSellerInv => IntentOnce
    <2> SUFFICES ASSUME OneSellerInv, NEW i \in Intents PROVE sold[i] <= 1
      BY DEF IntentOnce
    <2>1. sold[i] = 0 \/ sold[i] = 1
      BY DEF OneSellerInv
    <2> QED BY <2>1
  <1> QED BY <1>1, <1>2, <1>3, TypeCorrect, PTL DEF Spec

-----------------------------------------------------------------------------
(* A replica's steps stay its own, and only started replicas take any.     *)

ReplicaStep(r) ==
    \/ SweeperStep(r) \/ Persist(r) \/ SyncRead(r) \/ SyncApply(r)
    \/ ReconStep(r) \/ Start(r)

LEMMA LocalStep ==
    ASSUME TypeOK, NEW r \in Replicas, ReplicaStep(r), NEW q \in Replicas \ {r}
    PROVE  /\ book'[q] = book[q] /\ bus'[q] = bus[q] /\ sweep'[q] = sweep[q]
           /\ sync'[q] = sync[q] /\ recon'[q] = recon[q]
  <1>1. CASE Sweep(r)
    BY <1>1 DEF Sweep, Moves, TypeOK
  <1>2. CASE Acquire(r) \/ Skip(r) \/ Begin(r) \/ Execute(r) \/ Unfilled(r)
    BY <1>2 DEF Acquire, Skip, Begin, Execute, Unfilled, Moves, TypeOK
  <1>3. CASE BookSale(r)
    BY <1>3 DEF BookSale, Moves, Publish, TypeOK
  <1>4. CASE CloseOrTrim(r)
    BY <1>4 DEF CloseOrTrim, Moves, Publish, TypeOK
  <1>5. CASE Persist(r) \/ SyncRead(r) \/ SyncApply(r)
    BY <1>5 DEF Persist, SyncRead, SyncApply, Publish, TypeOK
  <1>6. CASE Snapshot(r) \/ ReadWallet(r) \/ GiveUp(r) \/ WriteRow(r)
    BY <1>6 DEF Snapshot, ReadWallet, GiveUp, WriteRow, TypeOK
  <1>7. CASE Correct(r)
    BY <1>7 DEF Correct, Publish, TypeOK
  <1>8. CASE CloseCorrected(r)
    BY <1>8 DEF CloseCorrected, Publish, TypeOK
  <1>9. CASE Start(r)
    BY <1>9 DEF Start, Moves, TypeOK
  <1> QED BY <1>1, <1>2, <1>3, <1>4, <1>5, <1>6, <1>7, <1>8, <1>9
          DEF ReplicaStep, SweeperStep, ReconStep

\* The steps that belong to no replica.
LEMMA SharedStep ==
    ASSUME (\E rule \in Rules : Lapse(rule)) \/ SettleEntry \/ UNCHANGED vars
    PROVE  UNCHANGED <<book, row, bus, fills, sweep, sync, recon, up, missed, harm, now, sold>>
  BY DEF Lapse, SettleEntry, vars

LEMMA NextSplits ==
    ASSUME [Next]_vars
    PROVE  \/ \E r \in Replicas : ReplicaStep(r)
           \/ (\E rule \in Rules : Lapse(rule)) \/ SettleEntry \/ UNCHANGED vars
  BY DEF Next, ReplicaStep, ReconStep

\* A replica that was never started holds nothing and does nothing.
Untouched(r) ==
    /\ book[r] = Absent /\ bus[r] = << >> /\ sweep[r].pc = "idle"
    /\ sync[r].pc = "idle" /\ recon[r].pc = "idle"

UpInv == Opener \in up /\ \A r \in Replicas \ up : Untouched(r)

LEMMA OnlyStartedAct ==
    ASSUME NEW r \in Replicas, Untouched(r), ReplicaStep(r), r \notin up
    PROVE  Start(r)
  <1>0. ~Open(book[r])
    BY DEF Untouched, Absent, Open
  <1>1. ~SweeperStep(r)
    BY <1>0 DEF Untouched, SweeperStep, Sweep, Acquire, Skip, Begin, Execute, Unfilled, BookSale,
                CloseOrTrim
  <1>2. ~Persist(r) /\ ~SyncRead(r) /\ ~SyncApply(r)
    BY DEF Untouched, Persist, SyncRead, SyncApply
  <1>3. ~ReconStep(r)
    BY DEF Untouched, ReconStep, Snapshot, ReadWallet, GiveUp, Correct, CloseCorrected, WriteRow
  <1> QED BY <1>1, <1>2, <1>3 DEF ReplicaStep

\* Only a start changes who is up; the harm done is never undone, and a start
\* of a process that was up adds its death to it.
LEMMA UpChanges ==
    ASSUME NEW r \in Replicas, ReplicaStep(r)
    PROVE  /\ IF Start(r) THEN up' = up \cup {r} ELSE up' = up
           /\ harm \subseteq harm'
           /\ Start(r) /\ r \in up => "death" \in harm'
  <1>1. CASE SweeperStep(r) \/ Persist(r) \/ SyncRead(r) \/ SyncApply(r)
    <2>1. up' = up /\ harm' = harm
      BY <1>1 DEF SweeperStep, Sweep, Acquire, Skip, Begin, Execute, Unfilled, BookSale,
                  CloseOrTrim, Persist, SyncRead, SyncApply
    <2>2. Start(r) => up' = up \cup {r} /\ harm' = harm \cup (IF r \in up THEN {"death"} ELSE {})
      BY DEF Start
    <2> QED BY <2>1, <2>2
  <1>2. CASE ReconStep(r)
    <2>1. up' = up /\ harm \subseteq harm'
      BY <1>2 DEF ReconStep, Snapshot, ReadWallet, GiveUp, Correct, CloseCorrected, WriteRow,
                  Overwrites
    <2>2. Start(r) => up' = up \cup {r} /\ harm' = harm \cup (IF r \in up THEN {"death"} ELSE {})
      BY DEF Start
    <2> QED BY <2>1, <2>2
  <1>3. CASE Start(r)
    BY <1>3 DEF Start
  <1> QED BY <1>1, <1>2, <1>3 DEF ReplicaStep

LEMMA UpStep == TypeOK /\ UpInv /\ [Next]_vars => UpInv'
  <1> SUFFICES ASSUME TypeOK, UpInv, [Next]_vars PROVE UpInv'
    OBVIOUS
  <1>1. ASSUME NEW r \in Replicas, ReplicaStep(r) PROVE UpInv'
    <2>1. up \subseteq up' /\ (r \notin up => r \in up')
      BY <1>1, OnlyStartedAct, UpChanges DEF UpInv
    <2>2. ASSUME NEW q \in Replicas \ up' PROVE Untouched(q)'
      <3>1. q # r /\ q \in Replicas \ up
        BY <2>1
      <3> QED BY <1>1, <3>1, LocalStep DEF UpInv, Untouched
    <2> QED BY <2>1, <2>2 DEF UpInv
  <1>2. CASE (\E rule \in Rules : Lapse(rule)) \/ SettleEntry \/ UNCHANGED vars
    BY <1>2, SharedStep DEF UpInv, Untouched
  <1> QED BY <1>1, <1>2, NextSplits

LEMMA UpInit == Init => UpInv
  BY DEF Init, UpInv, Untouched, Idle, AtRest

-----------------------------------------------------------------------------
(* The row catches up with the book.                                       *)

\* The last word on the way to the row w: of the events b that are not yet
\* persisted, else of w itself, or it was lost (m).
LastSays(b, w, m, p) ==
    \/ \E i \in 1..Len(b) :
          /\ b[i].kind = "position" /\ Same(b[i].pos, p)
          /\ \A j \in 1..Len(b) : j > i => b[j].kind # "position"
    \/ (m \/ Same(w, p)) /\ \A i \in 1..Len(b) : b[i].kind # "position"

\* While one replica has run and no correction overwrote anything: unless a
\* sale is being booked, the last word is what the book says.
RowInv ==
    up = {Opener} /\ "overwrite" \notin harm =>
        \/ book[Opener].status = "absent"
        \/ sweep[Opener].pc = "booked"
        \/ LastSays(bus[Opener], row, missed, book[Opener])

LEMMA AppendSays ==
    ASSUME NEW b \in Seq(Events), NEW w, NEW m, NEW p \in Positions
    PROVE  LastSays(b \o <<Update(p)>>, w, m, p)
  <1> DEFINE c == b \o <<Update(p)>>
             n == Len(b) + 1
  <1>1. Update(p) \in Events
    BY EventType
  <1>2. Len(c) = n /\ c[n] = Update(p) /\ n \in 1..Len(c)
    BY <1>1
  <1> HIDE DEF c
  <1>3. c[n].kind = "position" /\ Same(c[n].pos, p)
    BY <1>2 DEF Update, Same
  <1>4. \A j \in 1..Len(c) : ~(j > n)
    BY <1>2
  <1>5. LastSays(c, w, m, p)
    BY <1>2, <1>3, <1>4 DEF LastSays
  <1> QED BY <1>5 DEF c

LEMMA PersistSays ==
    ASSUME NEW b \in Seq(Events), b # << >>, NEW w, NEW m, NEW p, LastSays(b, w, m, p),
           NEW lost \in BOOLEAN
    PROVE  LastSays(Tail(b), IF Head(b).kind = "position" /\ ~lost THEN Head(b).pos ELSE w,
                    IF Head(b).kind = "position" THEN lost ELSE m, p)
  <1> DEFINE t == Tail(b)
             v == IF Head(b).kind = "position" /\ ~lost THEN Head(b).pos ELSE w
             n == IF Head(b).kind = "position" THEN lost ELSE m
  <1>1. /\ Len(b) \in Nat \ {0} /\ Len(t) = Len(b) - 1 /\ Head(b) = b[1]
        /\ \A i \in 1..Len(t) : t[i] = b[i + 1] /\ i + 1 \in 1..Len(b)
    OBVIOUS
  <1>2. ASSUME NEW i \in 1..Len(b), b[i].kind = "position", Same(b[i].pos, p),
               \A j \in 1..Len(b) : j > i => b[j].kind # "position"
        PROVE  LastSays(t, v, n, p)
    <2>1. CASE i = 1
      <3>1. n = lost /\ (~lost => v = b[1].pos)
        BY <1>1, <1>2, <2>1
      <3>2. \A k \in 1..Len(t) : t[k].kind # "position"
        BY <1>1, <1>2, <2>1
      <3>3. n \/ Same(v, p)
        BY <1>2, <2>1, <3>1
      <3> HIDE DEF t, v, n
      <3> QED BY <3>2, <3>3 DEF LastSays
    <2>2. CASE i > 1
      <3> DEFINE k == i - 1
      <3>1. k \in 1..Len(t) /\ t[k] = b[i]
        BY <1>1, <2>2
      <3>2. \A j \in 1..Len(t) : j > k => t[j].kind # "position"
        BY <1>1, <1>2, <2>2
      <3> HIDE DEF t, v, k, n
      <3> QED BY <1>2, <3>1, <3>2 DEF LastSays
    <2> QED BY <1>1, <2>1, <2>2
  <1>3. ASSUME m \/ Same(w, p), \A i \in 1..Len(b) : b[i].kind # "position"
        PROVE  LastSays(t, v, n, p)
    <2>1. v = w /\ n = m /\ \A k \in 1..Len(t) : t[k].kind # "position"
      BY <1>1, <1>3
    <2> HIDE DEF t, v, n
    <2> QED BY <1>3, <2>1 DEF LastSays
  <1> HIDE DEF t, v, n
  <1>4. LastSays(t, v, n, p)
    BY <1>2, <1>3 DEF LastSays
  <1> QED BY <1>4 DEF t, v, n

\* A row written past the pump says what the book says, or an event still will.
LEMMA WriteSays ==
    ASSUME NEW b, NEW w, NEW m, NEW v, NEW p, LastSays(b, w, m, p), Same(v, p)
    PROVE  LastSays(b, v, FALSE, p)
  BY DEF LastSays

\* LastSays looks at status and quantity only.
LEMMA SaysSame ==
    ASSUME NEW b, NEW w, NEW m, NEW p, NEW q, LastSays(b, w, m, p), Same(p, q)
    PROVE  LastSays(b, w, m, q)
  BY DEF LastSays, Same

LEMMA EmptySays ==
    ASSUME NEW w, NEW m
    PROVE  LastSays(<< >>, w, m, w)
  BY DEF LastSays, Same

\* The steps of the one replica that has run.
LEMMA RowReplicaStep ==
    ASSUME TypeOK, RowInv, up = {Opener}, ReplicaStep(Opener), "overwrite" \notin harm'
    PROVE  RowInv'
  <1> DEFINE says == LastSays(bus[Opener], row, missed, book[Opener])
  <1>0. /\ Opener \in Replicas /\ book[Opener] \in Positions /\ bus[Opener] \in Seq(Events)
        /\ sweep[Opener] \in Sweeps /\ now \in Nat
    BY DEF TypeOK
  <1>h. /\ "overwrite" \notin harm
        /\ book[Opener].status = "absent" \/ sweep[Opener].pc = "booked" \/ says
    BY <1>0, UpChanges DEF RowInv
  <1>1. SUFFICES \/ book'[Opener].status = "absent"
                 \/ sweep'[Opener].pc = "booked"
                 \/ LastSays(bus'[Opener], row', missed', book'[Opener])
    BY DEF RowInv
  <1>2. CASE Sweep(Opener)
    <2>1. says
      BY <1>2, <1>h DEF Sweep, Open
    <2>2. bus' = bus /\ row' = row /\ missed' = missed
      BY <1>2 DEF Sweep
    <2>3. book'[Opener] = book[Opener] \/ book'[Opener] = Stamped(book[Opener])
      BY <1>0, <1>2 DEF Sweep, TypeOK
    <2>4. Same(book[Opener], book'[Opener])
      BY <1>0, <2>3 DEF Same, Stamped, Positions
    <2> QED BY <2>1, <2>2, <2>4, SaysSame
  <1>3. CASE Acquire(Opener) \/ Skip(Opener) \/ Begin(Opener) \/ Execute(Opener) \/ Unfilled(Opener)
    <2>1. /\ sweep[Opener].pc # "booked"
          /\ book' = book /\ bus' = bus /\ row' = row /\ missed' = missed
      BY <1>3 DEF Acquire, Skip, Begin, Execute, Unfilled
    <2> QED BY <2>1, <1>h
  <1>4. CASE BookSale(Opener)
    <2> DEFINE s == [sweep[Opener] EXCEPT !.pc = "booked"]
    <2>1. s.pc = "booked" /\ Moves(Opener, s)
      BY <1>0, <1>4 DEF BookSale, Sweeps
    <2> HIDE DEF s
    <2>2. sweep'[Opener] = s
      BY <1>0, <2>1 DEF Moves, TypeOK
    <2> QED BY <2>1, <2>2
  <1>5. CASE CloseOrTrim(Opener)
    <2>1. CASE book[Opener].status = "absent"
      BY <1>5, <2>1 DEF CloseOrTrim
    <2>2. CASE book[Opener].status # "absent"
      <3>1. bus'[Opener] = bus[Opener] \o <<Update(book'[Opener])>>
        BY <1>0, <1>5, <2>2 DEF CloseOrTrim, Publish, TypeOK
      <3>2. book'[Opener] \in {book[Opener], Closed(book[Opener])}
        BY <1>0, <1>5, <2>2 DEF CloseOrTrim, TypeOK
      <3>3. book'[Opener] \in Positions
        BY <1>0, <3>2, StampType DEF TypeOK
      <3> QED BY <1>0, <3>1, <3>3, AppendSays
    <2> QED BY <2>1, <2>2
  <1>6. CASE Persist(Opener)
    <2>1. PICK lost \in BOOLEAN :
             /\ row' = IF Head(bus[Opener]).kind = "position" /\ ~lost
                       THEN Head(bus[Opener]).pos ELSE row
             /\ missed' = IF Head(bus[Opener]).kind = "position" THEN lost ELSE missed
      BY <1>6 DEF Persist
    <2>2. /\ bus[Opener] # << >> /\ bus'[Opener] = Tail(bus[Opener])
          /\ book' = book /\ sweep' = sweep
      BY <1>0, <1>6 DEF Persist, TypeOK
    <2>3. says => LastSays(bus'[Opener], row', missed', book[Opener])
      BY <1>0, <2>1, <2>2, PersistSays
    <2> QED BY <2>2, <2>3, <1>h
  <1>7. CASE SyncRead(Opener) \/ Snapshot(Opener) \/ ReadWallet(Opener) \/ GiveUp(Opener)
    BY <1>7, <1>h DEF SyncRead, Snapshot, ReadWallet, GiveUp
  <1>8. CASE SyncApply(Opener)
    <2>1. /\ book'[Opener] = sync[Opener].pos /\ sync[Opener].pos \in Positions
          /\ bus'[Opener] = bus[Opener] \o <<Update(sync[Opener].pos)>>
      BY <1>0, <1>8 DEF SyncApply, Publish, TypeOK, Syncs
    <2> QED BY <1>0, <2>1, AppendSays
  <1>9. CASE Correct(Opener)
    <2> DEFINE p == Emptied(recon[Opener].pos)
    <2>1. p \in Positions
      BY <1>0, EmptiedType DEF TypeOK, Recons
    <2>2. book'[Opener] = p /\ bus'[Opener] = bus[Opener] \o <<Update(p)>>
      BY <1>0, <1>9 DEF Correct, Publish, TypeOK
    <2> HIDE DEF p
    <2> QED BY <1>0, <2>1, <2>2, AppendSays
  <1>10. CASE CloseCorrected(Opener)
    <2> DEFINE p == Closed(book[Opener])
    <2>1. p \in Positions
      BY <1>0, StampType
    <2>2. book'[Opener] = p /\ bus'[Opener] = bus[Opener] \o <<Update(book'[Opener])>>
      BY <1>0, <1>10 DEF CloseCorrected, Publish, TypeOK
    <2> HIDE DEF p
    <2> QED BY <1>0, <2>1, <2>2, AppendSays
  <1>11. CASE WriteRow(Opener)
    <2>1. book' = book /\ bus' = bus /\ sweep' = sweep
      BY <1>11 DEF WriteRow
    <2>2. CASE UNCHANGED <<row, missed, harm>>
      BY <2>1, <2>2, <1>h
    <2>3. CASE /\ row' = recon[Opener].pos /\ missed' = FALSE
               /\ Overwrites(Opener, recon[Opener].pos,
                             [book[Opener] EXCEPT !.at = recon[Opener].pos.at])
      <3> DEFINE is == [book[Opener] EXCEPT !.at = recon[Opener].pos.at]
      <3>1. is.status = book[Opener].status /\ is.qty = book[Opener].qty
        BY <1>0 DEF Positions
      <3>2. is.status = "absent" \/ is = recon[Opener].pos
        BY <2>3 DEF Overwrites
      <3> HIDE DEF is
      <3>3. book[Opener].status = "absent" \/ Same(row', book[Opener])
        BY <2>3, <3>1, <3>2 DEF Same
      <3> QED BY <2>1, <2>3, <3>3, <1>h, WriteSays
    <2> QED BY <1>11, <2>2, <2>3 DEF WriteRow
  <1>12. CASE Start(Opener)
    <2>1. /\ book'[Opener] = (IF Open(row) THEN row ELSE Absent)
          /\ bus'[Opener] = << >> /\ row' = row
      BY <1>0, <1>12 DEF Start, TypeOK
    <2>2. CASE Open(row)
      BY <2>1, <2>2, EmptySays
    <2>3. CASE ~Open(row)
      BY <2>1, <2>3 DEF Absent
    <2> QED BY <2>2, <2>3
  <1> QED BY <1>2, <1>3, <1>4, <1>5, <1>6, <1>7, <1>8, <1>9, <1>10, <1>11, <1>12
          DEF ReplicaStep, SweeperStep, ReconStep

LEMMA RowStep == TypeOK /\ UpInv /\ RowInv /\ [Next]_vars => RowInv'
  <1> SUFFICES ASSUME TypeOK, UpInv, RowInv, [Next]_vars, up' = {Opener},
                      "overwrite" \notin harm'
               PROVE  RowInv'
    BY DEF RowInv
  <1>1. ASSUME NEW r \in Replicas, ReplicaStep(r) PROVE RowInv'
    <2>1. up = {Opener} /\ (r \notin up => r \in up')
      BY <1>1, OnlyStartedAct, UpChanges DEF UpInv
    <2>2. r = Opener
      BY <2>1
    <2> QED BY <1>1, <2>1, <2>2, RowReplicaStep
  <1>2. CASE (\E rule \in Rules : Lapse(rule)) \/ SettleEntry \/ UNCHANGED vars
    BY <1>2, SharedStep DEF RowInv
  <1> QED BY <1>1, <1>2, NextSplits

LEMMA RowInit == Init => RowInv
  <1> SUFFICES ASSUME Init PROVE RowInv
    OBVIOUS
  <1> DEFINE p == [status |-> "open", qty |-> Bought, at |-> 1]
  <1>1. /\ Opener \in Replicas /\ book[Opener] = p /\ bus[Opener] = <<Update(p)>>
    BY DEF Init
  <1>2. p \in Positions
    BY DEF Positions
  <1> HIDE DEF p
  <1>3. << >> \in Seq(Events) /\ << >> \o <<Update(p)>> = <<Update(p)>>
    OBVIOUS
  <1>4. LastSays(<< >> \o <<Update(p)>>, row, missed, p)
    BY <1>2, <1>3, AppendSays
  <1> QED BY <1>1, <1>3, <1>4 DEF RowInv

\* persist.rs, the pump: while one replica has run, however often it died, the
\* row agrees with its book in status and quantity once its events are handled
\* and no sale is being booked, provided the last position write was not lost
\* and no correction overwrote anything; for any quantity, rules and routes and
\* any number of sales, marks, merges, corrections and earlier lost writes.
THEOREM AlwaysRowCatchesUp == Spec => []RowCatchesUp
  <1>1. RowInv => RowCatchesUp
    <2> SUFFICES ASSUME RowInv, up = {Opener}, bus[Opener] = << >>, sweep[Opener].pc # "booked",
                        book[Opener].status # "absent", ~missed, "overwrite" \notin harm
                 PROVE  Same(row, book[Opener])
      BY DEF RowCatchesUp
    <2>1. LastSays(<< >>, row, missed, book[Opener])
      BY DEF RowInv
    <2> QED BY <2>1 DEF LastSays
  <1> QED BY <1>1, InitType, TypeStep, UpInit, UpStep, RowInit, RowStep, PTL DEF Spec

-----------------------------------------------------------------------------
(* One trading replica: nothing that is open is newer than its book.       *)

NotNewer(p, t) == Open(p) => p.at <= t

BusNotNewer(b, t) == \A i \in 1..Len(b) : b[i].kind = "position" => NotNewer(b[i].pos, t)

CopiesNotNewer(r, t) ==
    /\ NotNewer(book[r], t) /\ BusNotNewer(bus[r], t)
    /\ NotNewer(sync[r].pos, t) /\ NotNewer(recon[r].pos, t)

\* As long as no process died and no correction overwrote anything, only the
\* trading replica stamps an open position, so its book sync never finds one
\* to merge.
AgeInv ==
    harm = {} =>
        /\ book[Opener].status # "absent" /\ book[Opener].at <= now
        /\ sync[Opener].pc = "idle"
        /\ NotNewer(row, book[Opener].at)
        /\ \A r \in Replicas : CopiesNotNewer(r, book[Opener].at)

\* Steps that leave the trading replica's book alone, and its own that may not.
QuietStep(r) ==
    \/ Persist(r) \/ SyncRead(r) \/ Snapshot(r) \/ ReadWallet(r) \/ GiveUp(r) \/ WriteRow(r)
    \/ r # Opener /\ (SyncApply(r) \/ Correct(r) \/ CloseCorrected(r) \/ Start(r))

TradingStep(r) == r = Opener /\ (SweeperStep(r) \/ Correct(r) \/ CloseCorrected(r))

LEMMA AgeGrows ==
    ASSUME NEW p \in Positions, NEW t \in Nat, NEW u \in Nat, t <= u, NotNewer(p, t)
    PROVE  NotNewer(p, u)
  BY DEF NotNewer, Positions

LEMMA BusGrows ==
    ASSUME NEW b \in Seq(Events), NEW t \in Nat, NEW u \in Nat, t <= u, BusNotNewer(b, t)
    PROVE  BusNotNewer(b, u)
  <1> SUFFICES ASSUME NEW i \in 1..Len(b), b[i].kind = "position" PROVE NotNewer(b[i].pos, u)
    BY DEF BusNotNewer
  <1>0. b[i] \in Events
    OBVIOUS
  <1>1. b[i].pos \in Positions
    BY <1>0 DEF Events
  <1> QED BY <1>1, AgeGrows DEF BusNotNewer

LEMMA BusAppends ==
    ASSUME NEW b \in Seq(Events), NEW t \in Nat, BusNotNewer(b, t), NEW e \in Events,
           e.kind = "position" => NotNewer(e.pos, t)
    PROVE  BusNotNewer(b \o <<e>>, t)
  <1> DEFINE c == b \o <<e>>
  <1>1. Len(c) = Len(b) + 1 /\ Len(b) \in Nat
    OBVIOUS
  <1>2. c[Len(b) + 1] = e /\ \A i \in 1..Len(b) : c[i] = b[i]
    OBVIOUS
  <1>3. \A i \in 1..Len(c) : i \in 1..Len(b) \/ i = Len(b) + 1
    BY <1>1
  <1> HIDE DEF c
  <1>4. BusNotNewer(c, t)
    BY <1>2, <1>3 DEF BusNotNewer
  <1> QED BY <1>4 DEF c

LEMMA BusShortens ==
    ASSUME NEW b \in Seq(Events), b # << >>, NEW t, BusNotNewer(b, t)
    PROVE  /\ BusNotNewer(Tail(b), t)
           /\ Head(b).kind = "position" => NotNewer(Head(b).pos, t)
  <1> DEFINE c == Tail(b)
  <1>1. /\ \A i \in 1..Len(c) : i + 1 \in 1..Len(b) /\ c[i] = b[i + 1]
        /\ Head(b) = b[1] /\ 1 \in 1..Len(b)
    OBVIOUS
  <1> HIDE DEF c
  <1>2. BusNotNewer(c, t)
    BY <1>1 DEF BusNotNewer
  <1>3. Head(b).kind = "position" => NotNewer(Head(b).pos, t)
    BY <1>1 DEF BusNotNewer
  <1> QED BY <1>2, <1>3 DEF c

\* A position that is not open is no newer than anything.
LEMMA ClosedNotNewer ==
    ASSUME NEW p \in Positions, NEW t
    PROVE  /\ NotNewer(Closed(p), t) /\ NotNewer(Absent, t)
           /\ Closed(p).status = "closed" /\ Closed(p).at = now + 1
  BY DEF NotNewer, Closed, Absent, Open, Positions

LEMMA AgeQuiet ==
    ASSUME TypeOK, AgeInv, harm = {}, NEW r \in Replicas, QuietStep(r)
    PROVE  /\ NotNewer(row', book[Opener].at) /\ now <= now' /\ now' \in Nat
           /\ book'[Opener] = book[Opener]
           /\ sync'[Opener].pc = "idle"
           /\ CopiesNotNewer(r, book[Opener].at)'
  <1> DEFINE t == book[Opener].at
  <1>0. /\ Opener \in Replicas /\ book[Opener] \in Positions /\ t \in Nat /\ now \in Nat
        /\ bus[r] \in Seq(Events) /\ book[r] \in Positions /\ row \in Positions
        /\ sync[r].pos \in Positions /\ recon[r].pos \in Positions
    BY DEF TypeOK, Positions, Syncs, Recons
  <1>a. NotNewer(row, t) /\ CopiesNotNewer(r, t) /\ sync[Opener].pc = "idle"
    BY DEF AgeInv
  <1>c. NotNewer(Absent, t)
    BY DEF NotNewer, Absent, Open
  <1>1. CASE Persist(r)
    <2>1. /\ bus[r] # << >> /\ bus'[r] = Tail(bus[r])
          /\ row' = row \/ (Head(bus[r]).kind = "position" /\ row' = Head(bus[r]).pos)
          /\ UNCHANGED <<book, sync, recon, now>>
      BY <1>0, <1>1 DEF Persist, TypeOK
    <2>2. BusNotNewer(Tail(bus[r]), t) /\ NotNewer(row', t)
      BY <1>0, <1>a, <2>1, BusShortens DEF CopiesNotNewer
    <2> HIDE DEF t
    <2>3. CopiesNotNewer(r, t)'
      BY <1>a, <2>1, <2>2 DEF CopiesNotNewer, t
    <2> QED BY <1>0, <1>a, <2>1, <2>2, <2>3 DEF t
  <1>2. CASE SyncRead(r)
    <2>1. r # Opener
      <3>1. SUFFICES ASSUME r = Opener PROVE FALSE
        OBVIOUS
      <3>2. row.at > t /\ Open(row)
        BY <1>2, <3>1 DEF SyncRead, Merges, AgeInv
      <3>3. row.at <= t
        BY <1>a, <3>2 DEF NotNewer
      <3>4. row.at \in Nat
        BY <1>0 DEF Positions
      <3> QED BY <1>0, <3>2, <3>3, <3>4
    <2>2. /\ sync'[r].pos = row /\ sync'[Opener] = sync[Opener]
          /\ UNCHANGED <<book, row, bus, recon, now>>
      BY <1>0, <1>2, <2>1 DEF SyncRead, TypeOK
    <2> QED BY <1>0, <1>a, <2>2 DEF CopiesNotNewer
  <1>3. CASE Snapshot(r) \/ ReadWallet(r) \/ GiveUp(r)
    <2>1. /\ recon'[r].pos \in {row, book[r], recon[r].pos, Absent}
          /\ UNCHANGED <<book, row, bus, sync, now>>
      <3>1. CASE Snapshot(r)
        BY <1>0, <3>1 DEF Snapshot, TypeOK
      <3>2. CASE ReadWallet(r)
        BY <1>0, <3>2 DEF ReadWallet, TypeOK, Recons
      <3>3. CASE GiveUp(r)
        BY <1>0, <3>3 DEF GiveUp, AtRest, TypeOK
      <3> QED BY <1>3, <3>1, <3>2, <3>3
    <2>2. NotNewer(recon'[r].pos, t)
      BY <1>a, <1>c, <2>1 DEF CopiesNotNewer
    <2> QED BY <1>0, <1>a, <2>1, <2>2 DEF CopiesNotNewer
  <1>4. CASE WriteRow(r)
    <2>1. /\ recon'[r] = AtRest /\ row' \in {row, recon[r].pos}
          /\ UNCHANGED <<book, bus, sync, now>>
      BY <1>0, <1>4 DEF WriteRow, TypeOK
    <2>2. NotNewer(row', t) /\ NotNewer(recon'[r].pos, t)
      BY <1>a, <1>c, <2>1 DEF CopiesNotNewer, AtRest
    <2> QED BY <1>0, <1>a, <2>1, <2>2 DEF CopiesNotNewer
  <1>5. CASE r # Opener /\ SyncApply(r)
    <2>1. /\ book'[r] = sync[r].pos /\ bus'[r] = bus[r] \o <<Update(sync[r].pos)>>
          /\ sync'[r] = AtRest /\ sync'[Opener] = sync[Opener]
          /\ book'[Opener] = book[Opener]
          /\ UNCHANGED <<row, recon, now>>
      BY <1>0, <1>5 DEF SyncApply, Publish, TypeOK
    <2>2. NotNewer(sync[r].pos, t)
      BY <1>a DEF CopiesNotNewer
    <2>3. Update(sync[r].pos) \in Events /\ Update(sync[r].pos).pos = sync[r].pos
      BY <1>0, EventType DEF Update
    <2>4. BusNotNewer(bus'[r], t)
      BY <1>0, <1>a, <2>1, <2>2, <2>3, BusAppends DEF CopiesNotNewer
    <2>5. CopiesNotNewer(r, t)'
      BY <1>a, <1>c, <2>1, <2>2, <2>4 DEF CopiesNotNewer, AtRest
    <2> QED BY <1>0, <1>a, <2>1, <2>5
  <1>6. CASE r # Opener /\ (Correct(r) \/ CloseCorrected(r))
    <2> DEFINE p == book'[r]
    <2>1. /\ p \in {Emptied(recon[r].pos), Closed(book[r])}
          /\ bus'[r] = bus[r] \o <<Update(p)>> /\ recon'[r].pos = p
          /\ book'[Opener] = book[Opener] /\ now' \in {now, now + 1}
          /\ UNCHANGED <<row, sync>>
      <3>1. CASE Correct(r)
        BY <1>0, <1>6, <3>1 DEF Correct, Publish, TypeOK
      <3>2. CASE CloseCorrected(r)
        <4>1. /\ book'[r] = Closed(book[r]) /\ book'[Opener] = book[Opener]
              /\ bus'[r] = bus[r] \o <<Update(book'[r])>>
              /\ now' = now + 1 /\ UNCHANGED <<row, sync>>
          BY <1>0, <1>6, <3>2 DEF CloseCorrected, Publish, Ticks, TypeOK
        <4>2. recon'[r] = [pc |-> "closed", pos |-> book'[r]]
          BY <1>0, <3>2 DEF CloseCorrected, TypeOK
        <4> QED BY <4>1, <4>2
      <3> QED BY <1>6, <3>1, <3>2
    <2>2. p \in Positions
      BY <1>0, <2>1, EmptiedType, StampType
    <2>3. NotNewer(p, t)
      <3>1. NotNewer(Emptied(recon[r].pos), t)
        BY <1>0, <1>a, EmptiedType DEF CopiesNotNewer, NotNewer, Open
      <3>2. NotNewer(Closed(book[r]), t)
        BY <1>0, ClosedNotNewer
      <3> QED BY <2>1, <3>1, <3>2
    <2> HIDE DEF p
    <2>4. Update(p) \in Events /\ Update(p).pos = p
      BY <2>2, EventType DEF Update
    <2>5. BusNotNewer(bus'[r], t)
      BY <1>0, <1>a, <2>1, <2>3, <2>4, BusAppends DEF CopiesNotNewer
    <2>6. NotNewer(book'[r], t)
      BY <2>3 DEF p
    <2>7. CopiesNotNewer(r, t)'
      BY <1>a, <2>1, <2>3, <2>5, <2>6 DEF CopiesNotNewer
    <2> QED BY <1>0, <1>a, <2>1, <2>7
  <1>7. CASE r # Opener /\ Start(r)
    <2>1. /\ book'[r] = (IF Open(row) THEN row ELSE Absent) /\ bus'[r] = << >>
          /\ sync'[r] = AtRest /\ recon'[r] = AtRest
          /\ book'[Opener] = book[Opener] /\ sync'[Opener] = sync[Opener]
          /\ UNCHANGED <<row, now>>
      BY <1>0, <1>7 DEF Start, TypeOK
    <2>2. NotNewer(book'[r], t)
      BY <1>a, <1>c, <2>1
    <2>3. CopiesNotNewer(r, t)'
      <3>1. BusNotNewer(<< >>, t)
        BY DEF BusNotNewer
      <3> QED BY <1>c, <2>1, <2>2, <3>1 DEF CopiesNotNewer, AtRest
    <2> QED BY <1>0, <1>a, <2>1, <2>3
  <1> QED BY <1>1, <1>2, <1>3, <1>4, <1>5, <1>6, <1>7 DEF QuietStep

LEMMA CopiesGrow ==
    ASSUME TypeOK, NEW r \in Replicas, NEW t \in Nat, NEW u \in Nat, t <= u, CopiesNotNewer(r, t)
    PROVE  CopiesNotNewer(r, u)
  <1>1. /\ book[r] \in Positions /\ bus[r] \in Seq(Events)
        /\ sync[r].pos \in Positions /\ recon[r].pos \in Positions
    BY DEF TypeOK, Syncs, Recons
  <1>2. NotNewer(book[r], u) /\ BusNotNewer(bus[r], u)
    BY <1>1, AgeGrows, BusGrows DEF CopiesNotNewer
  <1>3. NotNewer(sync[r].pos, u) /\ NotNewer(recon[r].pos, u)
    BY <1>1, AgeGrows DEF CopiesNotNewer
  <1> QED BY <1>2, <1>3 DEF CopiesNotNewer

\* What a stamp makes of a position.
LEMMA StampedForm ==
    ASSUME NEW p \in Positions, NEW n \in 0..Bought, now \in Nat
    PROVE  /\ Stamped(p).status = p.status /\ Stamped(p).at = now + 1 /\ Stamped(p).qty = p.qty
           /\ Sold(p, n).status = p.status /\ Sold(p, n).at = now + 1
           /\ Sold(p, n).qty = (IF n < p.qty THEN p.qty - n ELSE 0)
           /\ Closed(p).status = "closed" /\ Closed(p).at = now + 1 /\ Closed(p).qty = p.qty
  BY DEF Stamped, Sold, Closed, Positions

\* A correction that does no harm replaces the position it read.
LEMMA UntouchedCorrect ==
    ASSUME Correct(Opener), harm' = {}, book[Opener].status # "absent"
    PROVE  book[Opener] = recon[Opener].pos
  BY DEF Correct, Overwrites

\* The steps of the trading replica that stamp its book, or may.
LEMMA AgeSeller ==
    ASSUME TypeOK, AgeInv, harm = {}, harm' = {}, TradingStep(Opener)
    PROVE  /\ book'[Opener].status # "absent" /\ book'[Opener].at \in Nat
           /\ book[Opener].at <= book'[Opener].at /\ book'[Opener].at <= now'
           /\ sync'[Opener].pc = "idle"
           /\ NotNewer(row', book'[Opener].at)
           /\ CopiesNotNewer(Opener, book[Opener].at)'
  <1> DEFINE t == book[Opener].at
             n == Amount(sweep[Opener])
  <1>0. /\ Opener \in Replicas /\ book[Opener] \in Positions /\ t \in Nat /\ now \in Nat
        /\ bus[Opener] \in Seq(Events) /\ row \in Positions /\ n \in 0..Bought
        /\ recon[Opener].pos \in Positions /\ now + 1 \in Nat
    BY AmountType DEF TypeOK, Positions, Recons
  <1>a. /\ NotNewer(row, t) /\ CopiesNotNewer(Opener, t) /\ sync[Opener].pc = "idle"
        /\ book[Opener].status # "absent" /\ t <= now /\ t <= now + 1
    BY <1>0 DEF AgeInv
  <1>b. CopiesNotNewer(Opener, now + 1) /\ NotNewer(row, now + 1)
    BY <1>0, <1>a, CopiesGrow, AgeGrows
  <1>1. CASE Sweep(Opener)
    <2>1. UNCHANGED <<row, bus, sync, recon>>
      BY <1>1 DEF Sweep
    <2>2. CASE UNCHANGED <<book, now>>
      BY <1>0, <1>a, <2>1, <2>2 DEF CopiesNotNewer
    <2>3. CASE book'[Opener] = Stamped(book[Opener]) /\ now' = now + 1
      <3>1. book'[Opener].status = book[Opener].status /\ book'[Opener].at = now + 1
        BY <1>0, <2>3, StampedForm
      <3>2. NotNewer(book'[Opener], now + 1)
        BY <1>0, <3>1 DEF NotNewer
      <3>3. CopiesNotNewer(Opener, book[Opener].at)'
        BY <1>a, <1>b, <2>1, <3>1, <3>2 DEF CopiesNotNewer
      <3> QED BY <1>0, <1>a, <1>b, <2>1, <2>3, <3>1, <3>3
    <2> QED BY <1>0, <1>1, <2>2, <2>3 DEF Sweep, Ticks, TypeOK
  <1>2. CASE Acquire(Opener) \/ Skip(Opener) \/ Begin(Opener) \/ Execute(Opener) \/ Unfilled(Opener)
    <2>1. UNCHANGED <<row, bus, sync, recon, book, now>>
      BY <1>2 DEF Acquire, Skip, Begin, Execute, Unfilled
    <2> QED BY <1>0, <1>a, <2>1 DEF CopiesNotNewer
  <1>3. CASE BookSale(Opener)
    <2>1. /\ book'[Opener] = Sold(book[Opener], n) /\ now' = now + 1
          /\ bus'[Opener] = bus[Opener] \o <<Fill>>
          /\ UNCHANGED <<row, sync, recon>>
      BY <1>0, <1>3, <1>a DEF BookSale, Publish, Ticks, TypeOK
    <2> HIDE DEF n
    <2>2. book'[Opener].status = book[Opener].status /\ book'[Opener].at = now + 1
      BY <1>0, <2>1, StampedForm
    <2>3. Fill \in Events /\ Fill.kind # "position"
      BY <1>0, EventType DEF Fill
    <2>4. BusNotNewer(bus[Opener] \o <<Fill>>, now + 1)
      BY <1>0, <1>b, <2>3, BusAppends DEF CopiesNotNewer
    <2>5. NotNewer(book'[Opener], now + 1)
      BY <1>0, <2>2 DEF NotNewer
    <2>6. CopiesNotNewer(Opener, book[Opener].at)'
      BY <1>a, <1>b, <2>1, <2>2, <2>4, <2>5 DEF CopiesNotNewer
    <2> QED BY <1>0, <1>a, <1>b, <2>1, <2>2, <2>6
  <1>4. CASE CloseOrTrim(Opener)
    <2>1. /\ bus'[Opener] = bus[Opener] \o <<Update(book'[Opener])>>
          /\ UNCHANGED <<row, sync, recon>>
      BY <1>0, <1>4, <1>a DEF CloseOrTrim, Publish, TypeOK
    <2>2. CASE UNCHANGED <<book, now>>
      <3>1. Update(book[Opener]) \in Events /\ Update(book[Opener]).pos = book[Opener]
        BY <1>0, EventType DEF Update
      <3>2. BusNotNewer(bus[Opener] \o <<Update(book[Opener])>>, t)
        BY <1>0, <1>a, <3>1, BusAppends DEF CopiesNotNewer
      <3>3. CopiesNotNewer(Opener, book[Opener].at)'
        BY <1>a, <2>1, <2>2, <3>2 DEF CopiesNotNewer
      <3> QED BY <1>0, <1>a, <2>1, <2>2, <3>3
    <2>3. CASE book'[Opener] = Closed(book[Opener]) /\ now' = now + 1
      <3> DEFINE p == Closed(book[Opener])
      <3>1. p \in Positions /\ p.status = "closed" /\ p.at = now + 1
        BY <1>0, StampType, StampedForm
      <3> HIDE DEF p
      <3>2. NotNewer(p, now + 1)
        BY <3>1 DEF NotNewer, Open
      <3>3. Update(p) \in Events /\ Update(p).pos = p
        BY <3>1, EventType DEF Update
      <3>4. BusNotNewer(bus[Opener] \o <<Update(p)>>, now + 1)
        BY <1>0, <1>b, <3>2, <3>3, BusAppends DEF CopiesNotNewer
      <3>5. book'[Opener] = p
        BY <2>3 DEF p
      <3>6. CopiesNotNewer(Opener, book[Opener].at)'
        BY <1>a, <1>b, <2>1, <3>1, <3>2, <3>4, <3>5 DEF CopiesNotNewer
      <3> QED BY <1>0, <1>a, <1>b, <2>1, <2>3, <3>1, <3>5, <3>6
    <2> QED BY <1>0, <1>4, <1>a, <2>2, <2>3 DEF CloseOrTrim, Ticks, TypeOK
  <1>5. CASE Correct(Opener)
    <2> DEFINE p == Emptied(book[Opener])
    <2>1. book[Opener] = recon[Opener].pos
      BY <1>5, <1>a, UntouchedCorrect
    <2>2. /\ book'[Opener] = p /\ bus'[Opener] = bus[Opener] \o <<Update(p)>>
          /\ recon'[Opener].pos = p /\ UNCHANGED <<row, sync, now>>
      BY <1>0, <1>5, <2>1 DEF Correct, Publish, TypeOK
    <2>3. p \in Positions /\ p.status = book[Opener].status /\ p.at = t
      BY <1>0, EmptiedType
    <2> HIDE DEF p
    <2>4. NotNewer(p, t)
      BY <1>0, <2>3 DEF NotNewer
    <2>5. Update(p) \in Events /\ Update(p).pos = p
      BY <2>3, EventType DEF Update
    <2>6. BusNotNewer(bus'[Opener], t)
      BY <1>0, <1>a, <2>2, <2>4, <2>5, BusAppends DEF CopiesNotNewer
    <2>7. CopiesNotNewer(Opener, book[Opener].at)'
      BY <1>a, <2>2, <2>3, <2>4, <2>6 DEF CopiesNotNewer
    <2> QED BY <1>0, <1>a, <2>2, <2>3, <2>7
  <1>6. CASE CloseCorrected(Opener)
    <2> DEFINE p == Closed(book[Opener])
    <2>1. book'[Opener] = p
      BY <1>0, <1>6 DEF CloseCorrected, TypeOK
    <2>2. /\ bus'[Opener] = bus[Opener] \o <<Update(p)>> /\ recon'[Opener].pos = p
          /\ now' = now + 1 /\ UNCHANGED <<row, sync>>
      BY <1>0, <1>6, <2>1 DEF CloseCorrected, Publish, Ticks, TypeOK
    <2>3. p \in Positions /\ p.status = "closed" /\ p.at = now + 1
      BY <1>0, StampType, StampedForm
    <2> HIDE DEF p
    <2>4. NotNewer(p, now + 1)
      BY <2>3 DEF NotNewer, Open
    <2>5. Update(p) \in Events /\ Update(p).pos = p
      BY <2>3, EventType DEF Update
    <2>6. BusNotNewer(bus'[Opener], now + 1)
      BY <1>0, <1>b, <2>2, <2>4, <2>5, BusAppends DEF CopiesNotNewer
    <2>7. CopiesNotNewer(Opener, book[Opener].at)'
      BY <1>b, <2>1, <2>2, <2>3, <2>4, <2>6 DEF CopiesNotNewer
    <2> QED BY <1>0, <1>a, <1>b, <2>1, <2>2, <2>3, <2>7
  <1> QED BY <1>1, <1>2, <1>3, <1>4, <1>5, <1>6 DEF TradingStep, SweeperStep

LEMMA SellerIsOpener ==
    ASSUME Sweepers = {Opener}, OneSellerInv, NEW r \in Replicas, SweeperStep(r)
    PROVE  r = Opener
  <1>1. CASE Sweep(r)
    BY <1>1 DEF Sweep
  <1>2. CASE ~Sweep(r)
    <2>1. sweep[r].pc # "idle"
      BY <1>2 DEF SweeperStep, Acquire, Skip, Begin, Execute, Unfilled, BookSale, CloseOrTrim
    <2> QED BY <2>1 DEF OneSellerInv
  <1> QED BY <1>1, <1>2

\* While no harm is done, a step is one of the trading replica, or leaves its
\* book alone.
LEMMA AliveSteps ==
    ASSUME Sweepers = {Opener}, UpInv, OneSellerInv, AgeInv, NEW r \in Replicas, ReplicaStep(r),
           harm' = {}
    PROVE  harm = {} /\ (TradingStep(r) \/ QuietStep(r))
  <1>1. harm = {} /\ ~(r = Opener /\ Start(r))
    BY UpChanges DEF UpInv
  <1>2. ~(r = Opener /\ SyncApply(r))
    BY <1>1 DEF SyncApply, AgeInv
  <1>3. SweeperStep(r) => r = Opener
    BY SellerIsOpener
  <1> QED BY <1>1, <1>2, <1>3 DEF ReplicaStep, ReconStep, TradingStep, QuietStep

LEMMA AgeStep ==
    ASSUME Sweepers = {Opener}, TypeOK, UpInv, OneSellerInv, AgeInv, [Next]_vars
    PROVE  AgeInv'
  <1>0. Opener \in Replicas /\ book[Opener].at \in Nat
    BY DEF TypeOK, Positions
  <1>1. ASSUME NEW r \in Replicas, ReplicaStep(r), harm' = {} PROVE AgeInv'
    <2> DEFINE u == book'[Opener].at
    <2>1. harm = {} /\ (TradingStep(r) \/ QuietStep(r))
      BY <1>1, AliveSteps
    <2>2. /\ book'[Opener].status # "absent" /\ u \in Nat
          /\ book[Opener].at <= u /\ u <= now' /\ sync'[Opener].pc = "idle"
          /\ NotNewer(row', u) /\ CopiesNotNewer(r, book[Opener].at)'
      <3>1. CASE TradingStep(r)
        <4>1. r = Opener
          BY <3>1 DEF TradingStep
        <4> QED BY <1>1, <2>1, <3>1, <4>1, AgeSeller
      <3>2. CASE QuietStep(r)
        <4>1. /\ NotNewer(row', book[Opener].at) /\ now <= now' /\ now' \in Nat
              /\ book'[Opener] = book[Opener]
              /\ sync'[Opener].pc = "idle"
              /\ CopiesNotNewer(r, book[Opener].at)'
          BY <2>1, <3>2, AgeQuiet
        <4>2. book[Opener].status # "absent" /\ book[Opener].at <= now /\ now \in Nat
          BY <2>1 DEF AgeInv, TypeOK
        <4>3. u = book[Opener].at
          BY <4>1
        <4> HIDE DEF u
        <4>4. book[Opener].at <= now'
          BY <1>0, <4>1, <4>2
        <4> QED BY <1>0, <4>1, <4>2, <4>3, <4>4
      <3> QED BY <2>1, <3>1, <3>2
    <2>3. ASSUME NEW q \in Replicas \ {r} PROVE CopiesNotNewer(q, book[Opener].at)'
      <3>1. CopiesNotNewer(q, book[Opener].at)
        BY <2>1 DEF AgeInv
      <3>2. CopiesNotNewer(q, u)
        BY <1>0, <2>2, <3>1, CopiesGrow
      <3>3. /\ book'[q] = book[q] /\ bus'[q] = bus[q]
            /\ sync'[q] = sync[q] /\ recon'[q] = recon[q]
        BY <1>1, LocalStep
      <3> QED BY <3>2, <3>3 DEF CopiesNotNewer
    <2> QED BY <2>2, <2>3 DEF AgeInv
  <1>2. CASE (\E rule \in Rules : Lapse(rule)) \/ SettleEntry \/ UNCHANGED vars
    BY <1>2, SharedStep DEF AgeInv, CopiesNotNewer
  <1> QED BY <1>1, <1>2, NextSplits DEF AgeInv

LEMMA AgeInit == Init => AgeInv
  <1> SUFFICES ASSUME Init PROVE AgeInv
    OBVIOUS
  <1> DEFINE p == [status |-> "open", qty |-> Bought, at |-> 1]
  <1>1. /\ Opener \in Replicas /\ now = 1 /\ row = Absent
        /\ \A r \in Replicas : /\ book[r] = (IF r = Opener THEN p ELSE Absent)
                               /\ bus[r] = (IF r = Opener THEN <<Update(p)>> ELSE << >>)
                               /\ sync[r] = AtRest /\ recon[r] = AtRest
    BY DEF Init
  <1>2. p.status = "open" /\ p.at = 1
    OBVIOUS
  <1> HIDE DEF p
  <1>3. NotNewer(p, 1) /\ NotNewer(Absent, 1)
    BY <1>2 DEF NotNewer, Absent, Open
  <1>4. BusNotNewer(<<Update(p)>>, 1) /\ BusNotNewer(<< >>, 1)
    <2>1. Len(<<Update(p)>>) = 1 /\ <<Update(p)>>[1] = Update(p) /\ Update(p).pos = p
      BY DEF Update
    <2>2. \A i \in 1..1 : i = 1
      OBVIOUS
    <2>3. BusNotNewer(<<Update(p)>>, 1)
      BY <1>3, <2>1, <2>2 DEF BusNotNewer
    <2>4. BusNotNewer(<< >>, 1)
      BY DEF BusNotNewer
    <2> QED BY <2>3, <2>4
  <1>5. \A r \in Replicas : CopiesNotNewer(r, 1)
    BY <1>1, <1>3, <1>4 DEF CopiesNotNewer, AtRest
  <1> QED BY <1>1, <1>2, <1>3, <1>5 DEF AgeInv, AtRest

\* merge_positions, "a locally closed position is never resurrected by a
\* stale/lagging DB read": with one trading replica, unless a process died or a
\* correction overwrote what it had not read, for any number of followers that
\* read, merge, correct and publish the row in any order.
THEOREM OneSellerNeverResurrects ==
    ASSUME Sweepers = {Opener} PROVE Spec => NeverResurrected
  <1>1. ASSUME TypeOK, UpInv, OneSellerInv, AgeInv, [Next]_vars, harm' = {},
               book[Opener].status = "closed"
        PROVE  book'[Opener].status = "closed"
    <2>0. Opener \in Replicas /\ book[Opener] \in Positions /\ now \in Nat
          /\ Amount(sweep[Opener]) \in 0..Bought /\ book \in [Replicas -> Positions]
      BY <1>1, AmountType DEF TypeOK
    <2>1. ASSUME NEW r \in Replicas, ReplicaStep(r) PROVE book'[Opener].status = "closed"
      <3>1. harm = {} /\ (TradingStep(r) \/ QuietStep(r))
        BY <1>1, <2>1, AliveSteps
      <3>2. CASE TradingStep(r)
        <4>0. r = Opener
          BY <3>2 DEF TradingStep
        <4>1. ~Sweep(r)
          BY <1>1, <4>0 DEF Sweep, Open
        <4>2. CASE SweeperStep(r)
          <5>1. book'[Opener] \in {book[Opener], Closed(book[Opener]),
                                   Sold(book[Opener], Amount(sweep[Opener]))}
            BY <2>0, <4>0, <4>1, <4>2 DEF SweeperStep, Acquire, Skip, Begin, Execute, Unfilled,
                                          BookSale, CloseOrTrim
          <5> QED BY <1>1, <2>0, <5>1, StampedForm
        <4>3. CASE Correct(r)
          <5>1. book'[Opener] = Emptied(book[Opener])
            BY <1>1, <2>0, <4>0, <4>3, UntouchedCorrect DEF Correct
          <5> QED BY <1>1, <2>0, <5>1, EmptiedType
        <4>4. CASE CloseCorrected(r)
          <5>1. book'[Opener] = Closed(book[Opener])
            BY <2>0, <4>0, <4>4 DEF CloseCorrected
          <5> QED BY <2>0, <5>1, StampedForm
        <4> QED BY <3>2, <4>2, <4>3, <4>4 DEF TradingStep
      <3>3. CASE QuietStep(r)
        BY <1>1, <3>1, <3>3, AgeQuiet
      <3> QED BY <3>1, <3>2, <3>3
    <2>2. CASE (\E rule \in Rules : Lapse(rule)) \/ SettleEntry \/ UNCHANGED vars
      BY <1>1, <2>2, SharedStep
    <2> QED BY <1>1, <2>1, <2>2, NextSplits
  <1>2. TypeOK /\ UpInv /\ OneSellerInv /\ AgeInv /\ [Next]_vars
          => [\A r \in Sweepers : book[r].status = "closed" /\ harm' = {}
                 => book'[r].status = "closed"]_vars
    BY <1>1
  <1>3. TypeOK /\ UpInv /\ OneSellerInv /\ AgeInv /\ [Next]_vars => OneSellerInv' /\ AgeInv'
    BY OneSellerStep, AgeStep
  <1>4. Init => OneSellerInv
    BY DEF Init, OneSellerInv, Idle
  <1> QED BY <1>2, <1>3, <1>4, InitType, TypeStep, UpInit, UpStep, AgeInit, PTL
          DEF Spec, NeverResurrected

-----------------------------------------------------------------------------
(* One trading replica: what it sells is what it holds.                    *)

\* What was sold leaves room for n more, and every sale was decided while more
\* than n was held.
Covers(times, n) ==
    /\ SumFunctionOnSet(Quantities(times), Intents) + n <= Bought
    /\ \A i \in Intents : times[i] > 0 => i[1] > n

\* No two sales were decided on the same quantities.
Distinct(times) ==
    \A i, j \in Intents :
        times[i] > 0 /\ times[j] > 0 /\ i[1] = j[1] /\ i[2] = j[2] => i = j

\* What the book will hold once a sale that may have landed is booked.
RestOf(q, s) == IF s.pc # "filled" THEN q ELSE IF Amount(s) < q THEN q - Amount(s) ELSE 0

\* With q in the book and the sweep s: both the book and the snapshot that is
\* being sold leave out what was sold, so no decision was sold before.
SellOK(q, s, times) ==
    /\ s.pc \in {"decided", "owned", "selling"} => q <= s.pos.qty /\ Covers(times, s.pos.qty)
    /\ Covers(times, RestOf(q, s)) /\ Distinct(times)

SellInv ==
    /\ sweep[Opener].pc = "selling" => Amount(sweep[Opener]) > 0
    /\ harm = {} => SellOK(book[Opener].qty, sweep[Opener], sold)

LEMMA TotalNat ==
    ASSUME NEW times \in [Intents -> Nat]
    PROVE  SumFunctionOnSet(Quantities(times), Intents) \in Nat
  <1>1. \A i \in Intents : i[2] \in Nat
    BY DEF Intents
  <1>2. \A i \in Intents : Quantities(times)[i] \in Nat
    BY <1>1, QuantityGrows DEF Quantities
  <1> QED BY <1>2, IntentsFinite, SumNat

LEMMA CoversLess ==
    ASSUME NEW times \in [Intents -> Nat], NEW n \in Nat, NEW m \in 0..n, Covers(times, n)
    PROVE  Covers(times, m)
  <1>1. SumFunctionOnSet(Quantities(times), Intents) + m <= Bought
    BY TotalNat DEF Covers
  <1>2. ASSUME NEW i \in Intents, times[i] > 0 PROVE i[1] > m
    <2>1. i[1] \in Nat /\ i[1] > n
      BY <1>2 DEF Covers, Intents
    <2> QED BY <2>1
  <1> QED BY <1>1, <1>2 DEF Covers

\* A sale of the intent i, of which i[1] were held, leaves the rest covered.
LEMMA SaleCovers ==
    ASSUME NEW times \in [Intents -> Nat], NEW i \in Intents, Covers(times, i[1]),
           i[2] > 0, i[2] <= i[1], NEW m \in 0..(i[1] - i[2]),
           Distinct(times), NEW after, after = [times EXCEPT ![i] = times[i] + 1]
    PROVE  Covers(after, m) /\ Distinct(after)
  <1>0. i[1] \in Nat /\ i[2] \in Nat /\ m \in Nat /\ m < i[1]
    BY DEF Intents
  <1>1. SumFunctionOnSet(Quantities(after), Intents)
          = SumFunctionOnSet(Quantities(times), Intents) + i[2]
    BY SaleAdds
  <1>2. SumFunctionOnSet(Quantities(after), Intents) + m <= Bought
    BY <1>0, <1>1, TotalNat DEF Covers
  <1>3. \A e \in Intents : e # i /\ after[e] > 0 => times[e] > 0 /\ e[1] > i[1] /\ e[1] \in Nat
    BY DEF Covers, Intents
  <1>4. ASSUME NEW e \in Intents, after[e] > 0 PROVE e[1] > m
    <2>1. CASE e = i
      BY <1>0, <2>1
    <2>2. CASE e # i
      <3>1. e[1] > i[1] /\ e[1] \in Nat
        BY <1>3, <1>4, <2>2
      <3> QED BY <1>0, <3>1
    <2> QED BY <2>1, <2>2
  <1>5. ASSUME NEW e \in Intents, NEW f \in Intents, after[e] > 0, after[f] > 0,
               e[1] = f[1], e[2] = f[2]
        PROVE  e = f
    <2>1. CASE e # i /\ f # i
      BY <1>3, <1>5, <2>1 DEF Distinct
    <2>2. CASE e = i \/ f = i
      BY <1>0, <1>3, <1>5, <2>2
    <2> QED BY <2>1, <2>2
  <1> QED BY <1>2, <1>4, <1>5 DEF Covers, Distinct

LEMMA RestType ==
    ASSUME NEW q \in 0..Bought, NEW s \in Sweeps
    PROVE  RestOf(q, s) \in 0..q /\ RestOf(0, s) = 0
  <1>1. Amount(s) \in Nat
    BY AmountType
  <1> QED BY <1>1 DEF RestOf

\* The steps of the trading replica's sweeper.
LEMMA SellSweeper ==
    ASSUME TypeOK, OneSellerInv, SellInv, harm = {}, book[Opener].status # "absent",
           SweeperStep(Opener)
    PROVE  SellOK(book'[Opener].qty, sweep'[Opener], sold')
  <1> DEFINE o == Opener
             q == book[o].qty
             h == sweep[o].pos.qty
             n == Amount(sweep[o])
             i == Intent(sweep[o])
  <1>0. /\ o \in Replicas /\ book[o] \in Positions /\ sweep[o] \in Sweeps /\ now \in Nat
        /\ q \in 0..Bought /\ h \in 0..Bought /\ n \in 0..Bought /\ n <= h
        /\ sold \in [Intents -> Nat]
    BY AmountType DEF TypeOK, Positions
  <1>s. SellOK(q, sweep[o], sold)
    BY DEF SellInv
  <1>m. ASSUME NEW s, Moves(o, s) PROVE sweep'[o] = s
    BY <1>0, <1>m DEF Moves, TypeOK
  <1>i. Idle.pc = "idle"
    BY DEF Idle
  <1>p. ASSUME NEW pc
        PROVE  /\ [sweep[o] EXCEPT !.pc = pc].pc = pc
               /\ [sweep[o] EXCEPT !.pc = pc].pos = sweep[o].pos
               /\ Amount([sweep[o] EXCEPT !.pc = pc]) = n
    BY <1>0, PcFrame
  <1>1. CASE Sweep(o)
    <2>1. book'[o] = book[o] \/ book'[o] = Stamped(book[o])
      BY <1>0, <1>1 DEF Sweep, TypeOK
    <2>2. book'[o].qty = q
      BY <1>0, <2>1, StampedForm
    <2>3. sweep'[o].pc = "decided" /\ sweep'[o].pos = book'[o]
      BY <1>0, <1>1 DEF Sweep, Moves, TypeOK
    <2>4. sold' = sold /\ sweep[o].pc = "idle"
      BY <1>1 DEF Sweep
    <2>5. Covers(sold, q)
      BY <1>s, <2>4 DEF SellOK, RestOf
    <2> QED BY <1>0, <1>s, <2>2, <2>3, <2>4, <2>5 DEF SellOK, RestOf
  <1>2. CASE Acquire(o) \/ Skip(o) \/ Begin(o) \/ Unfilled(o)
    <2>1. sold' = sold /\ book' = book /\ sweep[o].pc \in {"decided", "owned", "selling"}
      BY <1>2 DEF Acquire, Skip, Begin, Unfilled
    <2>2. \/ sweep'[o].pc = "idle"
          \/ sweep'[o].pc \in {"owned", "selling"} /\ sweep'[o].pos = sweep[o].pos
      <3>1. CASE Acquire(o) \/ Skip(o) \/ Unfilled(o)
        <4>1. sweep'[o] = Idle \/ sweep'[o] = [sweep[o] EXCEPT !.pc = "owned"]
          BY <1>m, <3>1 DEF Acquire, Skip, Unfilled
        <4>2. CASE sweep'[o] = [sweep[o] EXCEPT !.pc = "owned"]
          BY <1>p, <4>2
        <4> QED BY <1>i, <4>1, <4>2
      <3>2. CASE Begin(o)
        <4>1. PICK route \in Routes :
                 Moves(o, [sweep[o] EXCEPT !.pc = "selling", !.route = route])
          BY <3>2 DEF Begin
        <4>2. sweep'[o] = [sweep[o] EXCEPT !.pc = "selling", !.route = route]
          BY <4>1, <1>m
        <4>3. /\ [sweep[o] EXCEPT !.pc = "selling", !.route = route].pc = "selling"
              /\ [sweep[o] EXCEPT !.pc = "selling", !.route = route].pos = sweep[o].pos
          BY <1>0, IntentType
        <4> QED BY <4>2, <4>3
      <3> QED BY <1>2, <3>1, <3>2
    <2>3. RestOf(book'[o].qty, sweep'[o]) = RestOf(q, sweep[o])
      BY <2>1, <2>2 DEF RestOf
    <2> QED BY <1>s, <2>1, <2>2, <2>3 DEF SellOK
  <1>3. CASE Execute(o)
    <2>1. /\ book' = book /\ sweep[o].pc = "selling"
          /\ sweep'[o] = [sweep[o] EXCEPT !.pc = "filled"]
          /\ sold' = sold \/ sold' = [sold EXCEPT ![i] = sold[i] + 1]
      BY <1>3, <1>m DEF Execute
    <2>2. sweep'[o].pc = "filled" /\ Amount(sweep'[o]) = n
      BY <1>p, <2>1
    <2>3. q <= h /\ Covers(sold, h) /\ n > 0
      BY <1>s, <2>1 DEF SellOK, SellInv
    <2>4. i \in Intents /\ i[1] = h /\ i[2] = n
      BY <1>0, <2>1, IntentForm DEF OneSellerInv, TypeOK
    <2> DEFINE rest == RestOf(book'[o].qty, sweep'[o])
    <2>5. rest = IF n < q THEN q - n ELSE 0
      BY <2>1, <2>2 DEF RestOf
    <2> HIDE DEF q, h, n, i, rest
    <2>6. rest \in 0..(h - n) /\ rest \in 0..h /\ h \in Nat
      BY <1>0, <2>3, <2>5
    <2>7. CASE sold' = sold
      <3>1. Covers(sold, rest)
        BY <1>0, <2>3, <2>6, CoversLess
      <3> QED BY <1>s, <2>2, <2>7, <3>1 DEF SellOK, rest
    <2>8. CASE sold' = [sold EXCEPT ![i] = sold[i] + 1]
      <3>1. Distinct(sold)
        BY <1>s DEF SellOK
      <3>2. Covers(sold', rest) /\ Distinct(sold')
        <4>1. /\ Covers(sold, i[1]) /\ i[2] > 0 /\ i[2] <= i[1] /\ rest \in 0..(i[1] - i[2])
              /\ i \in Intents /\ sold \in [Intents -> Nat]
          BY <1>0, <2>3, <2>4, <2>6
        <4> QED BY <2>8, <3>1, <4>1, SaleCovers
      <3> QED BY <2>2, <3>2 DEF SellOK, rest
    <2> QED BY <2>1, <2>7, <2>8
  <1>4. CASE BookSale(o)
    <2>1. /\ book'[o] = Sold(book[o], n) /\ sold' = sold
          /\ sweep[o].pc = "filled" /\ sweep'[o] = [sweep[o] EXCEPT !.pc = "booked"]
      BY <1>0, <1>4, <1>m DEF BookSale, TypeOK
    <2>2. sweep'[o].pc = "booked"
      BY <1>p, <2>1
    <2>3. book'[o].qty = RestOf(q, sweep[o])
      BY <1>0, <2>1, StampedForm DEF RestOf
    <2>4. RestOf(book'[o].qty, sweep'[o]) = RestOf(q, sweep[o])
      BY <2>2, <2>3 DEF RestOf
    <2> QED BY <1>s, <2>1, <2>2, <2>4 DEF SellOK
  <1>5. CASE CloseOrTrim(o)
    <2>1. /\ book'[o] = book[o] \/ book'[o] = Closed(book[o])
          /\ sold' = sold /\ sweep[o].pc = "booked" /\ sweep'[o] = Idle
      BY <1>0, <1>5, <1>m DEF CloseOrTrim, TypeOK
    <2>2. book'[o].qty = q
      BY <1>0, <2>1, StampedForm
    <2>3. RestOf(book'[o].qty, sweep'[o]) = RestOf(q, sweep[o]) /\ sweep'[o].pc = "idle"
      BY <1>i, <2>1, <2>2 DEF RestOf
    <2> QED BY <1>s, <2>1, <2>3 DEF SellOK
  <1> QED BY <1>1, <1>2, <1>3, <1>4, <1>5 DEF SweeperStep

\* A correction that does no harm takes what the book holds away from it.
LEMMA SellCorrection ==
    ASSUME TypeOK, SellInv, harm = {}, Correct(Opener) \/ CloseCorrected(Opener)
    PROVE  SellOK(book'[Opener].qty, sweep'[Opener], sold')
  <1> DEFINE q == book[Opener].qty
             s == sweep[Opener]
  <1>0. /\ Opener \in Replicas /\ book[Opener] \in Positions /\ recon[Opener].pos \in Positions
        /\ s \in Sweeps /\ s.pos.qty \in 0..Bought /\ q \in 0..Bought /\ now \in Nat
        /\ sold \in [Intents -> Nat]
    BY AmountType DEF TypeOK, Positions, Recons
  <1>1. SellOK(q, s, sold)
    BY DEF SellInv
  <1>2. sweep' = sweep /\ sold' = sold
    BY DEF Correct, CloseCorrected
  <1>3. CASE Correct(Opener)
    <2>1. book'[Opener].qty = 0
      BY <1>0, <1>3, EmptiedType DEF Correct, TypeOK
    <2> HIDE DEF q, s
    <2>2. RestOf(q, s) \in 0..q /\ RestOf(0, s) = 0
      BY <1>0, RestType
    <2>3. Covers(sold, 0)
      BY <1>0, <1>1, <2>2, CoversLess DEF SellOK
    <2>4. SellOK(0, s, sold)
      BY <1>0, <1>1, <2>2, <2>3 DEF SellOK
    <2> QED BY <1>2, <2>1, <2>4 DEF s
  <1>4. CASE CloseCorrected(Opener)
    <2>1. book'[Opener] = Closed(book[Opener])
      BY <1>0, <1>4 DEF CloseCorrected, TypeOK
    <2>2. book'[Opener].qty = q
      BY <1>0, <2>1, StampedForm
    <2> QED BY <1>1, <1>2, <2>2
  <1> QED BY <1>3, <1>4

\* Only a beginning makes the sweeper sell, and it sells something.
LEMMA SellAmount ==
    ASSUME Sweepers = {Opener}, TypeOK, OneSellerInv, SellInv, [Next]_vars
    PROVE  sweep'[Opener].pc = "selling" => Amount(sweep'[Opener]) > 0
  <1>0. Opener \in Replicas /\ sweep[Opener] \in Sweeps
    BY DEF TypeOK
  <1>m. ASSUME NEW s, Moves(Opener, s) PROVE sweep'[Opener] = s
    BY <1>0, <1>m DEF Moves, TypeOK
  <1>i. Idle.pc = "idle"
    BY DEF Idle
  <1>p. ASSUME NEW pc PROVE [sweep[Opener] EXCEPT !.pc = pc].pc = pc
    BY <1>0, PcFrame
  <1>1. CASE sweep'[Opener] = sweep[Opener]
    BY <1>1 DEF SellInv
  <1>2. CASE \E r \in Replicas : SweeperStep(r)
    <2>0. SweeperStep(Opener)
      BY <1>2, SellerIsOpener
    <2>1. CASE Sweep(Opener)
      <3>1. PICK s : Moves(Opener, s) /\ s.pc = "decided"
        BY <2>1 DEF Sweep
      <3> QED BY <3>1, <1>m
    <2>2. CASE Acquire(Opener) \/ Skip(Opener) \/ Unfilled(Opener) \/ CloseOrTrim(Opener)
      <3>1. sweep'[Opener] = Idle \/ sweep'[Opener] = [sweep[Opener] EXCEPT !.pc = "owned"]
        BY <2>2, <1>m DEF Acquire, Skip, Unfilled, CloseOrTrim
      <3>2. CASE sweep'[Opener] = [sweep[Opener] EXCEPT !.pc = "owned"]
        BY <1>p, <3>2
      <3> QED BY <1>i, <3>1, <3>2
    <2>3. CASE Begin(Opener)
      <3>1. Amount(sweep[Opener]) > 0
        BY <2>3 DEF Begin
      <3>2. PICK route \in Routes :
               Moves(Opener, [sweep[Opener] EXCEPT !.pc = "selling", !.route = route])
        BY <2>3 DEF Begin
      <3>3. sweep'[Opener] = [sweep[Opener] EXCEPT !.pc = "selling", !.route = route]
        BY <3>2, <1>m
      <3>4. Amount([sweep[Opener] EXCEPT !.pc = "selling", !.route = route])
              = Amount(sweep[Opener])
        BY <1>0, IntentType
      <3>5. Amount(sweep'[Opener]) = Amount(sweep[Opener])
        BY <3>3, <3>4
      <3> QED BY <3>1, <3>5
    <2>4. CASE Execute(Opener)
      BY <1>m, <1>p, <2>4 DEF Execute
    <2>5. CASE BookSale(Opener)
      BY <1>m, <1>p, <2>5 DEF BookSale
    <2> QED BY <2>0, <2>1, <2>2, <2>3, <2>4, <2>5 DEF SweeperStep
  <1>3. CASE \E r \in Replicas : ReplicaStep(r) /\ ~SweeperStep(r)
    <2>1. PICK r \in Replicas : ReplicaStep(r) /\ ~SweeperStep(r)
      BY <1>3
    <2>2. sweep' = sweep \/ sweep' = [sweep EXCEPT ![r] = Idle]
      BY <2>1 DEF ReplicaStep, ReconStep, Persist, SyncRead, SyncApply, Snapshot, ReadWallet,
                  GiveUp, Correct, CloseCorrected, WriteRow, Start, Moves
    <2>3. sweep'[Opener] = sweep[Opener] \/ sweep'[Opener] = Idle
      BY <1>0, <2>2 DEF TypeOK
    <2> QED BY <1>1, <1>i, <2>3
  <1>4. CASE (\E rule \in Rules : Lapse(rule)) \/ SettleEntry \/ UNCHANGED vars
    BY <1>1, <1>4, SharedStep
  <1> QED BY <1>2, <1>3, <1>4, NextSplits

LEMMA SellStep ==
    ASSUME Sweepers = {Opener}, TypeOK, UpInv, OneSellerInv, AgeInv, SellInv, [Next]_vars
    PROVE  SellInv'
  <1>0. Opener \in Replicas
    OBVIOUS
  <1>1. ASSUME harm' = {} PROVE SellOK(book'[Opener].qty, sweep'[Opener], sold')
    <2>1. ASSUME NEW r \in Replicas, ReplicaStep(r)
          PROVE  SellOK(book'[Opener].qty, sweep'[Opener], sold')
      <3>1. harm = {} /\ (TradingStep(r) \/ QuietStep(r))
        BY <1>1, <2>1, AliveSteps
      <3>2. CASE TradingStep(r)
        <4>1. r = Opener /\ (SweeperStep(r) \/ Correct(r) \/ CloseCorrected(r))
          BY <3>2 DEF TradingStep
        <4>2. book[Opener].status # "absent"
          BY <3>1 DEF AgeInv
        <4> QED BY <3>1, <4>1, <4>2, SellSweeper, SellCorrection
      <3>3. CASE QuietStep(r)
        <4>1. book'[Opener] = book[Opener]
          BY <3>1, <3>3, AgeQuiet
        <4>2. sold' = sold
          BY <3>3 DEF QuietStep, Persist, SyncRead, SyncApply, Snapshot, ReadWallet, GiveUp,
                      Correct, CloseCorrected, WriteRow, Start
        <4>3. sweep'[Opener] = sweep[Opener]
          BY <1>0, <3>3 DEF QuietStep, Persist, SyncRead, SyncApply, Snapshot, ReadWallet, GiveUp,
                            Correct, CloseCorrected, WriteRow, Start, Moves, TypeOK
        <4>4. SellOK(book[Opener].qty, sweep[Opener], sold)
          BY <3>1 DEF SellInv
        <4> QED BY <4>1, <4>2, <4>3, <4>4
      <3> QED BY <3>1, <3>2, <3>3
    <2>2. CASE (\E rule \in Rules : Lapse(rule)) \/ SettleEntry \/ UNCHANGED vars
      <3>1. book' = book /\ sweep' = sweep /\ sold' = sold /\ harm = {}
        BY <1>1, <2>2, SharedStep
      <3> QED BY <3>1 DEF SellInv
    <2> QED BY <2>1, <2>2, NextSplits
  <1>2. sweep'[Opener].pc = "selling" => Amount(sweep'[Opener]) > 0
    BY SellAmount
  <1> QED BY <1>1, <1>2 DEF SellInv, Amount

LEMMA SellInit == Init => SellInv
  <1> SUFFICES ASSUME Init PROVE SellInv
    OBVIOUS
  <1>1. book[Opener].qty = Bought /\ sweep[Opener].pc = "idle"
    BY DEF Init, Idle
  <1>2. \A i \in Intents : sold[i] = 0 /\ Quantities(sold)[i] = 0
    <2>1. \A i \in Intents : i[2] \in Nat
      BY DEF Intents
    <2> QED BY <2>1 DEF Init, Quantities
  <1>3. SumFunctionOnSet(Quantities(sold), Intents) = 0
    BY <1>2, IntentsFinite, SumZero
  <1>4. RestOf(book[Opener].qty, sweep[Opener]) = Bought
    BY <1>1 DEF RestOf
  <1> QED BY <1>1, <1>2, <1>3, <1>4 DEF SellInv, SellOK, Covers, Distinct

LEMMA OneSellerSells ==
    ASSUME Sweepers = {Opener} PROVE Spec => [](TypeOK /\ OneSellerInv /\ SellInv)
  <1>1. TypeOK /\ UpInv /\ OneSellerInv /\ AgeInv /\ SellInv /\ [Next]_vars
          => OneSellerInv' /\ AgeInv' /\ SellInv'
    BY OneSellerStep, AgeStep, SellStep
  <1>2. Init => OneSellerInv
    BY DEF Init, OneSellerInv, Idle
  <1> QED BY <1>1, <1>2, InitType, TypeStep, UpInit, UpStep, AgeInit, SellInit, PTL DEF Spec

\* sweep_once, "exactly one replica executes a given exit": with one trading
\* replica no decision to sell so much of so much held is sold twice, although
\* every round may be routed anew and so has an intent of its own, unless a
\* process died or a correction overwrote what it had not read; for any
\* quantity, routes and rules, and whatever lapses, fails or goes unanswered.
THEOREM OneSellerExitsOnce ==
    ASSUME Sweepers = {Opener} PROVE Spec => []ExitOnce
  <1>1. TypeOK /\ OneSellerInv /\ SellInv => ExitOnce
    <2> SUFFICES ASSUME TypeOK, OneSellerInv, SellInv, harm = {},
                        NEW i \in Intents, NEW j \in Intents, sold[i] > 0, sold[j] > 0,
                        i[1] = j[1], i[2] = j[2]
                 PROVE  i = j /\ sold[i] = 1
      BY DEF ExitOnce
    <2>1. i = j
      BY DEF SellInv, SellOK, Distinct
    <2>2. sold[i] = 0 \/ sold[i] = 1
      BY DEF OneSellerInv
    <2> QED BY <2>1, <2>2
  <1> QED BY <1>1, OneSellerSells, PTL

\* Several rules, routes and partial exits of the trading replica never sell
\* more than the entry bought, unless a process died or a correction overwrote
\* what it had not read: for any quantity, routes and number of followers.
THEOREM OneSellerNoOversell ==
    ASSUME Sweepers = {Opener} PROVE Spec => []NoOversell
  <1>1. TypeOK /\ SellInv => NoOversell
    <2> SUFFICES ASSUME TypeOK, SellInv, harm = {} PROVE TotalSold <= Bought
      BY DEF NoOversell
    <2>1. book[Opener].qty \in 0..Bought /\ sweep[Opener] \in Sweeps /\ sold \in [Intents -> Nat]
      BY DEF TypeOK, Positions
    <2>2. RestOf(book[Opener].qty, sweep[Opener]) \in 0..book[Opener].qty
      BY <2>1, RestType
    <2>3. /\ Covers(sold, RestOf(book[Opener].qty, sweep[Opener]))
          /\ TotalSold = SumFunctionOnSet(Quantities(sold), Intents)
      BY DEF SellInv, SellOK, TotalSold, Quantities
    <2> QED BY <2>1, <2>2, <2>3, TotalNat DEF Covers
  <1> QED BY <1>1, OneSellerSells, PTL

=============================================================================
