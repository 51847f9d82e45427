--------------------------- MODULE StakingProofs ----------------------------
(***************************************************************************)
(* For any stakers, keys, parameters and bounds: the staking program stays *)
(* well typed, never mints over the cap, never pays a staker more than the *)
(* principal earned, changes no parameter without its timelock, and its    *)
(* vault covers all principal.                                             *)
(***************************************************************************)
EXTENDS Staking, SumTheorems, TLAPS

-----------------------------------------------------------------------------
(* Sums over the stakers.                                                  *)

\* A new balance in place of an old one changes the sum by the difference.
LEMMA BalanceMoves ==
    ASSUME NEW before \in [Stakers -> Int], NEW s \in Stakers, NEW n \in Int,
           NEW after, after = [before EXCEPT ![s] = n]
    PROVE  /\ SumFunctionOnSet(before, Stakers) \in Int
           /\ SumFunctionOnSet(after, Stakers)
                = SumFunctionOnSet(before, Stakers) + (n - before[s])
<1>1. IsFiniteSet(Stakers) BY StakingAssumption
<1> QED BY <1>1, SumExcept, Zenon

AmountsOf(accounts) == [t \in Stakers |-> accounts[t].amount]

\* So does a new account change the principal.
LEMMA PrincipalMoves ==
    ASSUME NEW before \in [Stakers -> StakeAccount], NEW s \in Stakers, NEW new \in StakeAccount,
           NEW after, after = [before EXCEPT ![s] = new]
    PROVE  /\ SumFunctionOnSet(AmountsOf(before), Stakers) \in Nat
           /\ SumFunctionOnSet(AmountsOf(after), Stakers)
                = SumFunctionOnSet(AmountsOf(before), Stakers) + (new.amount - before[s].amount)
<1>1. IsFiniteSet(Stakers) BY StakingAssumption
<1>2. AmountsOf(before) \in [Stakers -> Int] BY DEF AmountsOf, StakeAccount
<1>3. \A t \in Stakers : AmountsOf(before)[t] \in Nat BY DEF AmountsOf, StakeAccount
<1>4. AmountsOf(after) = [AmountsOf(before) EXCEPT ![s] = new.amount] BY DEF AmountsOf
<1>5. AmountsOf(before)[s] = before[s].amount /\ new.amount \in Int BY DEF AmountsOf, StakeAccount
<1>6. SumFunctionOnSet(AmountsOf(before), Stakers) \in Nat BY <1>1, <1>3, SumNat
<1>7. SumFunctionOnSet(AmountsOf(after), Stakers)
        = SumFunctionOnSet(AmountsOf(before), Stakers) + (new.amount - AmountsOf(before)[s])
  <2> DEFINE f == AmountsOf(before)
             g == AmountsOf(after)
             n == new.amount
  <2>1. f \in [Stakers -> Int] /\ n \in Int /\ g = [f EXCEPT ![s] = n]
    BY <1>2, <1>4, <1>5
  <2> HIDE DEF f, g, n
  <2>2. SumFunctionOnSet(g, Stakers) = SumFunctionOnSet(f, Stakers) + (n - f[s])
    BY <2>1, BalanceMoves, Zenon
  <2> QED BY <2>2 DEF f, g, n
<1> QED BY <1>5, <1>6, <1>7, Zenon

USE StakingAssumption

-----------------------------------------------------------------------------
(* Arithmetic.                                                             *)

\* A quotient rounds down.
LEMMA DivBound ==
    ASSUME NEW n \in Nat, NEW d \in Nat \ {0}
    PROVE  n \div d \in Nat /\ (n \div d) * d <= n
  BY Z3

\* Products of naturals are naturals and grow with each factor.
LEMMA ProductNat ==
    ASSUME NEW a \in Nat, NEW b \in Nat
    PROVE  a * b \in Nat
  BY Z3

LEMMA ProductMonotone ==
    ASSUME NEW a \in Nat, NEW b \in Nat, NEW c \in Nat, b <= c
    PROVE  a * b <= a * c
  BY Z3

LEMMA ProductCancels ==
    ASSUME NEW a \in Nat, NEW b \in Nat, NEW d \in Nat \ {0}, a * d <= b * d
    PROVE  a <= b
  BY Z3

\* A fee under its cap is part of the deposit.
LEMMA FeeFits ==
    ASSUME NEW a \in Nat, NEW f \in Nat, f <= Bps
    PROVE  (a * f) \div Bps \in 0..a
<1>1. Bps \in Nat \ {0} BY DEF StakingAssumption
<1>2. a * f \in Nat BY ProductNat
<1> DEFINE q == (a * f) \div Bps
<1>3. q \in Nat /\ q * Bps <= a * f BY <1>1, <1>2, DivBound
<1>4. a * f <= a * Bps BY <1>1, ProductMonotone
<1>5. q * Bps \in Nat /\ a * Bps \in Nat BY <1>1, <1>3, ProductNat
<1>6. q * Bps <= a * Bps BY <1>2, <1>3, <1>4, <1>5
<1> HIDE DEF q
<1>7. q <= a BY <1>1, <1>3, <1>6, ProductCancels
<1>8. q \in 0..a BY <1>3, <1>7
<1> QED BY <1>8 DEF q

\* Rewards at a rate under its cap are worth their principal and time.
LEMMA RewardBound ==
    ASSUME NEW a \in Nat, NEW r \in Nat, r <= MaxRate, NEW e \in Nat
    PROVE  /\ compute_reward(a, r, e) \in Nat
           /\ compute_reward(a, r, e) * Year <= a * MaxRate * e
<1>0. Year \in Nat \ {0} /\ MaxRate \in Nat BY DEF StakingAssumption
<1>1. a * r \in Nat /\ a * MaxRate \in Nat BY <1>0, ProductNat
<1> DEFINE n == a * r  m == a * MaxRate
<1>2. n \in Nat /\ m \in Nat /\ n <= m BY <1>0, <1>1, ProductMonotone
<1> HIDE DEF n, m
<1>3. n * e \in Nat /\ m * e \in Nat BY <1>2, ProductNat
<1>4. n * e <= m * e
  <2>1. e * n <= e * m BY <1>2, ProductMonotone
  <2> QED BY <2>1, <1>2, Z3
<1>5. (n * e) \div Year \in Nat /\ ((n * e) \div Year) * Year <= n * e
  BY <1>0, <1>3, DivBound
<1>6. ((n * e) \div Year) * Year \in Nat BY <1>0, <1>5, ProductNat
<1>7. ((n * e) \div Year) * Year <= m * e BY <1>3, <1>4, <1>5, <1>6
<1>8. CASE e <= 0
  <2>1. compute_reward(a, r, e) = 0 BY <1>8 DEF compute_reward
  <2>2. 0 * Year = 0 BY <1>0
  <2> QED BY <2>1, <2>2, <1>3 DEF m
<1>9. CASE ~(e <= 0)
  <2>1. compute_reward(a, r, e) = (n * e) \div Year BY <1>9 DEF compute_reward, n
  <2> QED BY <2>1, <1>5, <1>7 DEF m
<1> QED BY <1>8, <1>9

-----------------------------------------------------------------------------
(* Types.                                                                  *)

TypeInv == TypeOK /\ Valid(config)

\* What the provers need of the types.
LEMMA TypeFacts ==
    ASSUME TypeInv
    PROVE  /\ config["fee"] \in Nat /\ config["fee"] <= Bps
           /\ config["rate"] \in Nat /\ config["rate"] <= MaxRate
           /\ now \in Nat /\ vault \in Nat /\ treasury \in Nat /\ supply \in Nat
           /\ posted \in Nat
  BY SMT DEF TypeInv, TypeOK, Valid, WellTyped, Fields, StakingAssumption

\* Accrual from a past moment on.
LEMMA RewardNat ==
    ASSUME TypeInv, NEW sa \in StakeAccount
    PROVE  compute_reward(sa.amount, config["rate"], now - sa.reward_from) \in Nat
<1>1. sa.amount \in Nat /\ sa.reward_from \in Nat BY DEF StakeAccount
<1>2. CASE now - sa.reward_from <= 0 BY <1>2 DEF compute_reward
<1>3. CASE ~(now - sa.reward_from <= 0)
  <2>1. now - sa.reward_from \in Nat BY <1>1, <1>3, TypeFacts
  <2> QED BY <1>1, <2>1, TypeFacts, RewardBound
<1> QED BY <1>2, <1>3

\* Settling moves the accrual of the account over.
LEMMA SettleForm ==
    ASSUME NEW o \in StakeAccount
    PROVE  settle(o) = [open |-> o.open, amount |-> o.amount, staked_at |-> o.staked_at,
                        reward_from |-> now,
                        pending |-> o.pending
                          + compute_reward(o.amount, config["rate"], now - o.reward_from)]
<1> DEFINE r == compute_reward(o.amount, config["rate"], now - o.reward_from)
           p == o.pending + r
<1>1. settle(o) = [o EXCEPT !.pending = p, !.reward_from = now] BY DEF settle
<1> HIDE DEF p
<1>2. settle(o) = [open |-> o.open, amount |-> o.amount, staked_at |-> o.staked_at,
                   reward_from |-> now, pending |-> p]
  BY <1>1 DEF StakeAccount
<1> QED BY <1>2 DEF p

\* A stake settles the account it starts from and adds what the fee leaves.
LEMMA StakeEffect ==
    ASSUME TypeInv, NEW s \in Stakers, NEW amount \in Deposits, Stake(s, amount)
    PROVE  \E net \in 0..amount, since \in Nat :
             LET r == compute_reward(Opened(s).amount, config["rate"], now - Opened(s).reward_from) IN
             /\ r \in Nat
             /\ Opened(s) \in StakeAccount
             /\ wallet' = [wallet EXCEPT ![s] = @ - amount]
             /\ vault' = vault + net
             /\ treasury' = treasury + (amount - net)
             /\ stake' = [stake EXCEPT ![s] =
                   [open |-> TRUE, amount |-> Opened(s).amount + net,
                    staked_at |-> since, reward_from |-> now,
                    pending |-> Opened(s).pending + r]]
<1> DEFINE fee == compute_fee(amount)
           net == amount - fee
           r   == compute_reward(Opened(s).amount, config["rate"], now - Opened(s).reward_from)
           since == IF net > 0 THEN now ELSE Opened(s).staked_at
<1>1. amount \in Nat BY DEF StakingAssumption
<1>2. fee \in 0..amount BY <1>1, TypeFacts, FeeFits DEF compute_fee
<1>3. net \in 0..amount /\ fee = amount - net BY <1>1, <1>2
<1>4. stake \in [Stakers -> StakeAccount] BY DEF TypeInv, TypeOK
<1>5. Opened(s) \in StakeAccount
  BY <1>4, TypeFacts DEF Opened, StakeAccount
<1>6. r \in Nat BY <1>5, RewardNat
<1>7. since \in Nat BY <1>5, TypeFacts DEF StakeAccount
<1>8. settle(Opened(s)).amount = Opened(s).amount
      /\ settle(Opened(s)).staked_at = Opened(s).staked_at
      /\ settle(Opened(s)).reward_from = now
      /\ settle(Opened(s)).pending = Opened(s).pending + r
  BY <1>5, SettleForm
<1>9. stake' = [stake EXCEPT ![s] =
         [open |-> TRUE, amount |-> settle(Opened(s)).amount + net,
          staked_at |-> IF net > 0 THEN now ELSE settle(Opened(s)).staked_at,
          reward_from |-> settle(Opened(s)).reward_from, pending |-> settle(Opened(s)).pending]]
  BY DEF Stake
<1>10. /\ wallet' = [wallet EXCEPT ![s] = @ - amount]
       /\ vault' = vault + net
       /\ treasury' = treasury + (amount - net)
  BY <1>3 DEF Stake
<1>11. stake' = [stake EXCEPT ![s] =
          [open |-> TRUE, amount |-> Opened(s).amount + net,
           staked_at |-> since, reward_from |-> now, pending |-> Opened(s).pending + r]]
  BY <1>8, <1>9, Zenon
<1>12. net \in 0..amount /\ since \in Nat BY <1>3, <1>7
<1> HIDE DEF net, since
<1> QED BY <1>5, <1>6, <1>10, <1>11, <1>12

\* A payout takes principal from the vault and mints part of the rewards.
LEMMA PayOutEffect ==
    ASSUME TypeInv, NEW s \in Stakers, NEW principal \in Nat, PayOut(s, principal)
    PROVE  \E reward \in 0..accrued_rewards(stake[s]) :
             /\ accrued_rewards(stake[s]) \in Nat
             /\ supply <= MaxSupply => supply + reward <= MaxSupply
             /\ principal <= vault /\ vault' = vault - principal
             /\ wallet' = [wallet EXCEPT ![s] = @ + principal + reward]
             /\ supply' = supply + reward
             /\ minted' = [minted EXCEPT ![s] = @ + reward]
<1> DEFINE owed == accrued_rewards(stake[s])
           reward == Mintable(owed)
<1>1. stake[s] \in StakeAccount BY DEF TypeInv, TypeOK
<1>2. owed \in Nat
  <2>1. stake[s].pending \in Nat BY <1>1 DEF StakeAccount
  <2> QED BY <1>1, <2>1, RewardNat DEF accrued_rewards
<1> HIDE DEF owed
<1>3. MaxSupply \in Nat BY DEF StakingAssumption
<1>4. reward \in 0..owed /\ (supply <= MaxSupply => supply + reward <= MaxSupply)
  BY <1>2, <1>3, TypeFacts DEF Mintable, Least
<1>5. /\ principal <= vault /\ vault' = vault - principal
      /\ wallet' = [wallet EXCEPT ![s] = @ + principal + reward]
      /\ supply' = supply + reward
      /\ minted' = [minted EXCEPT ![s] = @ + reward]
  BY DEF PayOut, owed
<1> HIDE DEF reward
<1> QED BY <1>2, <1>4, <1>5 DEF owed

\* TypeOK for the parts an action touches.
Tokens ==
    /\ stake \in [Stakers -> StakeAccount]
    /\ wallet \in [Stakers -> Nat]
    /\ vault \in Nat /\ treasury \in Nat /\ supply \in Nat
    /\ minted \in [Stakers -> Nat]

Governance ==
    /\ config \in [Fields -> Int] /\ WellTyped(config) /\ Valid(config)
    /\ pending \in [active : BOOLEAN, queued_at : Nat, to : [Fields -> Int]]
    /\ WellTyped(pending.to)
    /\ flags \in [paused : BOOLEAN, genesis_done : BOOLEAN]
    /\ admin \in Keys \cup Unowned /\ nominee \in Keys \cup Unowned \cup {Nobody}
    /\ posted \in Nat

Time == now \in 0..MaxTime /\ worth \in [Stakers -> Nat]

LEMMA TypeParts ==
    /\ TypeInv <=> Tokens /\ Governance /\ Time
    /\ TypeInv' <=> Tokens' /\ Governance' /\ Time'
  BY DEF TypeInv, TypeOK, Tokens, Governance, Time

LEMMA StakeTyped ==
    ASSUME TypeInv, NEW s \in Stakers, NEW amount \in Deposits, Stake(s, amount)
    PROVE  Tokens'
<1>1. PICK net \in 0..amount, since \in Nat :
         LET r == compute_reward(Opened(s).amount, config["rate"], now - Opened(s).reward_from) IN
         /\ r \in Nat
         /\ Opened(s) \in StakeAccount
         /\ wallet' = [wallet EXCEPT ![s] = @ - amount]
         /\ vault' = vault + net
         /\ treasury' = treasury + (amount - net)
         /\ stake' = [stake EXCEPT ![s] =
               [open |-> TRUE, amount |-> Opened(s).amount + net,
                staked_at |-> since, reward_from |-> now,
                pending |-> Opened(s).pending + r]]
  BY StakeEffect
<1> DEFINE r == compute_reward(Opened(s).amount, config["rate"], now - Opened(s).reward_from)
           p == Opened(s).pending + r
           a == Opened(s).amount + net
<1>2. amount \in Nat /\ amount <= wallet[s] /\ net \in Nat /\ amount - net \in Nat
  BY DEF Stake, StakingAssumption
<1>3. stake \in [Stakers -> StakeAccount] /\ wallet \in [Stakers -> Nat] /\ minted' = minted
      /\ minted \in [Stakers -> Nat] /\ supply' = supply
  BY DEF TypeInv, TypeOK, Stake
<1>4. p \in Nat /\ a \in Nat BY <1>1, <1>2 DEF StakeAccount
<1>5. wallet' \in [Stakers -> Nat] BY <1>1, <1>2, <1>3
<1>6. vault' \in Nat /\ treasury' \in Nat /\ supply' \in Nat BY <1>1, <1>2, <1>3, TypeFacts
<1>7. stake' = [stake EXCEPT ![s] = [open |-> TRUE, amount |-> a, staked_at |-> since,
                                    reward_from |-> now, pending |-> p]]
  BY <1>1
<1> HIDE DEF p, a
<1>8. stake' \in [Stakers -> StakeAccount] BY <1>3, <1>4, <1>7, TypeFacts DEF StakeAccount
<1> QED BY <1>3, <1>5, <1>6, <1>8 DEF Tokens

\* A payout, and what it leaves on the account.
LEMMA PayOutTyped ==
    ASSUME TypeInv, NEW s \in Stakers, NEW principal \in Nat, PayOut(s, principal),
           NEW new \in StakeAccount, stake' = [stake EXCEPT ![s] = new],
           treasury' = treasury
    PROVE  Tokens'
<1>1. PICK reward \in 0..accrued_rewards(stake[s]) :
         /\ accrued_rewards(stake[s]) \in Nat
         /\ principal <= vault /\ vault' = vault - principal
         /\ wallet' = [wallet EXCEPT ![s] = @ + principal + reward]
         /\ supply' = supply + reward
         /\ minted' = [minted EXCEPT ![s] = @ + reward]
  BY PayOutEffect
<1>2. reward \in Nat BY <1>1
<1>3. /\ stake \in [Stakers -> StakeAccount]
      /\ wallet \in [Stakers -> Nat] /\ minted \in [Stakers -> Nat]
  BY DEF TypeInv, TypeOK
<1>4. wallet' \in [Stakers -> Nat] /\ minted' \in [Stakers -> Nat] BY <1>1, <1>2, <1>3
<1>5. vault' \in Nat /\ treasury' \in Nat /\ supply' \in Nat BY <1>1, <1>2, TypeFacts
<1>6. stake' \in [Stakers -> StakeAccount] BY <1>3
<1> QED BY <1>4, <1>5, <1>6 DEF Tokens

\* What unstake and claim leave on the account.
Emptied(s) == [stake[s] EXCEPT !.amount = 0, !.pending = 0, !.staked_at = 0, !.reward_from = now]
Claimed(s) == [stake[s] EXCEPT !.pending = 0, !.reward_from = now]

LEMMA LeftOver ==
    ASSUME TypeInv, NEW s \in Stakers
    PROVE  /\ Emptied(s) \in StakeAccount
           /\ Emptied(s).amount = 0 /\ Emptied(s).pending = 0 /\ Emptied(s).reward_from = now
           /\ Claimed(s) \in StakeAccount
           /\ Claimed(s).amount = stake[s].amount /\ Claimed(s).pending = 0
           /\ Claimed(s).reward_from = now
           /\ Unstake(s) => stake' = [stake EXCEPT ![s] = Emptied(s)]
           /\ Claim(s) => stake' = [stake EXCEPT ![s] = Claimed(s)]
<1>1. stake \in [Stakers -> StakeAccount] /\ stake[s] \in StakeAccount BY DEF TypeInv, TypeOK
<1>2. /\ Emptied(s) \in StakeAccount
      /\ Emptied(s).amount = 0 /\ Emptied(s).pending = 0 /\ Emptied(s).reward_from = now
  BY <1>1, TypeFacts DEF Emptied, StakeAccount
<1>3. /\ Claimed(s) \in StakeAccount
      /\ Claimed(s).amount = stake[s].amount /\ Claimed(s).pending = 0
      /\ Claimed(s).reward_from = now
  BY <1>1, TypeFacts DEF Claimed, StakeAccount
<1>4. Unstake(s) => stake' = [stake EXCEPT ![s] = Emptied(s)] BY <1>1 DEF Unstake, Emptied
<1>5. Claim(s) => stake' = [stake EXCEPT ![s] = Claimed(s)] BY <1>1 DEF Claim, Claimed
<1> QED BY <1>2, <1>3, <1>4, <1>5

\* A proposal is resolved to well-typed parameters.
LEMMA ResolvedTyped ==
    ASSUME TypeInv, NEW p \in Proposals
    PROVE  Resolved(p) \in [Fields -> Int] /\ WellTyped(Resolved(p))
<1>1. WellTyped(p) /\ WellTyped(config) /\ config \in [Fields -> Int]
  BY DEF TypeInv, TypeOK, StakingAssumption
<1>2. DOMAIN config = Fields BY <1>1
<1>3. \A f \in Fields : Resolved(p)[f] \in IF f \in {"delay", "timelock"} THEN Int ELSE Nat
  <2> TAKE f \in Fields
  <2>1. CASE f \in DOMAIN p BY <1>1, <2>1 DEF Resolved, WellTyped
  <2>2. CASE f \notin DOMAIN p BY <1>1, <1>2, <2>2 DEF Resolved, WellTyped
  <2> QED BY <2>1, <2>2
<1>4. \A f \in Fields : Resolved(p)[f] \in Int BY <1>3
<1>5. Resolved(p) = [f \in Fields |-> Resolved(p)[f]] BY DEF Resolved
<1> QED BY <1>3, <1>4, <1>5 DEF WellTyped

\* Zero parameters, of a pending update that is not active.
LEMMA UnchangingTyped ==
    /\ Unchanging \in [active : BOOLEAN, queued_at : Nat, to : [Fields -> Int]]
    /\ WellTyped(Unchanging.to)
  BY DEF Unchanging, WellTyped

\* The instructions of the admin, and the two that need no admin.
LEMMA GovernanceTyped ==
    ASSUME TypeInv, AdminSigns \/ ApplyUpdate \/ (\E key \in Keys : AcceptAdmin(key))
    PROVE  TypeInv'
<1>0. Tokens /\ Governance /\ Time BY TypeParts
<1>1. ASSUME NEW p \in Proposals, QueueUpdate(p) PROVE TypeInv'
  <2>1. pending' \in [active : BOOLEAN, queued_at : Nat, to : [Fields -> Int]]
        /\ pending'.to = Resolved(p)
    BY <1>1, ResolvedTyped, TypeFacts DEF QueueUpdate
  <2>2. posted' \in Nat BY <1>1, TypeFacts DEF QueueUpdate
  <2>3. Governance' BY <1>0, <1>1, <2>1, <2>2, ResolvedTyped DEF QueueUpdate, Governance
  <2>4. Tokens' /\ Time' BY <1>0, <1>1 DEF QueueUpdate, Tokens, Time, tokens
  <2> QED BY <2>3, <2>4, TypeParts
<1>2. ASSUME CancelUpdate PROVE TypeInv'
  <2>1. Governance' BY <1>0, <1>2, UnchangingTyped DEF CancelUpdate, Governance
  <2>2. Tokens' /\ Time' BY <1>0, <1>2 DEF CancelUpdate, Tokens, Time, tokens
  <2> QED BY <2>1, <2>2, TypeParts
<1>3. ASSUME NEW b \in BOOLEAN, SetPaused(b) PROVE TypeInv'
  <2>1. flags' \in [paused : BOOLEAN, genesis_done : BOOLEAN]
    BY <1>0, <1>3 DEF SetPaused, Governance
  <2>2. Governance' BY <1>0, <1>3, <2>1 DEF SetPaused, Governance
  <2>3. Tokens' /\ Time' BY <1>0, <1>3 DEF SetPaused, Tokens, Time, tokens
  <2> QED BY <2>2, <2>3, TypeParts
<1>4. ASSUME NEW key \in Keys \cup Unowned, TransferAdmin(key) PROVE TypeInv'
  <2>1. Governance' BY <1>0, <1>4 DEF TransferAdmin, Governance
  <2>2. Tokens' /\ Time' BY <1>0, <1>4 DEF TransferAdmin, Tokens, Time, tokens
  <2> QED BY <2>1, <2>2, TypeParts
<1>5. ASSUME NEW s \in Stakers, NEW amount \in Grants, GenesisMint(s, amount) PROVE TypeInv'
  <2>1. amount \in Nat BY DEF StakingAssumption
  <2>2. flags' \in [paused : BOOLEAN, genesis_done : BOOLEAN]
    BY <1>0, <1>5 DEF GenesisMint, Governance
  <2>3. Governance' BY <1>0, <1>5, <2>2 DEF GenesisMint, Governance
  <2>4. Time' BY <1>0, <1>5 DEF GenesisMint, Time
  <2>5. wallet' \in [Stakers -> Nat] /\ supply' \in Nat
    BY <1>0, <1>5, <2>1 DEF GenesisMint, Tokens
  <2>6. Tokens' BY <1>0, <1>5, <2>5 DEF GenesisMint, Tokens
  <2> QED BY <2>3, <2>4, <2>6, TypeParts
<1>6. ASSUME ApplyUpdate PROVE TypeInv'
  <2>1. config' \in [Fields -> Int] /\ WellTyped(config)' /\ Valid(config)'
    BY <1>0, <1>6 DEF ApplyUpdate, Governance, Valid, WellTyped
  <2>2. Governance' BY <1>0, <1>6, <2>1, UnchangingTyped DEF ApplyUpdate, Governance
  <2>3. Tokens' /\ Time' BY <1>0, <1>6 DEF ApplyUpdate, Tokens, Time, tokens
  <2> QED BY <2>2, <2>3, TypeParts
<1>7. ASSUME NEW key \in Keys, AcceptAdmin(key) PROVE TypeInv'
  <2>1. Governance' BY <1>0, <1>7 DEF AcceptAdmin, Governance
  <2>2. Tokens' /\ Time' BY <1>0, <1>7 DEF AcceptAdmin, Tokens, Time, tokens
  <2> QED BY <2>1, <2>2, TypeParts
<1> QED BY <1>1, <1>2, <1>3, <1>4, <1>5, <1>6, <1>7 DEF AdminSigns

\* The instructions of a staker.
LEMMA StakerTyped ==
    ASSUME TypeInv, NEW s \in Stakers,
           (\E amount \in Deposits : Stake(s, amount) \/ Spend(s, amount)) \/ Unstake(s) \/ Claim(s)
    PROVE  TypeInv'
<1>0. Tokens /\ Governance /\ Time BY TypeParts
<1>1. Governance' /\ Time'
  BY <1>0 DEF Stake, Spend, Unstake, Claim, governance, Governance, Time
<1>2. ASSUME NEW amount \in Deposits, Stake(s, amount) PROVE Tokens' BY <1>2, StakeTyped
<1>3. ASSUME NEW amount \in Deposits, Spend(s, amount) PROVE Tokens'
  <2>1. amount \in Nat /\ amount <= wallet[s] BY <1>0, <1>3 DEF Spend, Tokens, StakingAssumption
  <2>2. wallet' \in [Stakers -> Nat] BY <1>0, <1>3, <2>1 DEF Spend, Tokens
  <2>3. supply' \in Nat /\ vault' \in Nat BY <1>0, <1>3, <2>1 DEF Spend, Tokens
  <2> QED BY <1>0, <1>3, <2>2, <2>3 DEF Spend, Tokens
<1>4. ASSUME Unstake(s) PROVE Tokens'
  <2>1. stake[s].amount \in Nat BY <1>0 DEF Tokens, StakeAccount
  <2>2. PayOut(s, stake[s].amount) /\ treasury' = treasury BY <1>4 DEF Unstake
  <2> QED BY <1>4, <2>1, <2>2, LeftOver, PayOutTyped
<1>5. ASSUME Claim(s) PROVE Tokens'
  <2>1. PayOut(s, 0) /\ treasury' = treasury BY <1>5 DEF Claim
  <2> QED BY <1>5, <2>1, LeftOver, PayOutTyped
<1>6. Tokens' BY <1>2, <1>3, <1>4, <1>5
<1> QED BY <1>1, <1>6, TypeParts

LEMMA TickTyped ==
    ASSUME TypeInv, Tick
    PROVE  TypeInv'
<1>0. Tokens /\ Governance /\ Time BY TypeParts
<1>1. Tokens' /\ Governance' BY <1>0 DEF Tick, Tokens, Governance, tokens, governance
<1>2. MaxRate \in Nat /\ MaxTime \in Nat BY DEF StakingAssumption
<1>3. \A s \in Stakers : stake[s].amount * MaxRate \in Nat
  <2> TAKE s \in Stakers
  <2>1. stake[s].amount \in Nat BY <1>0 DEF Tokens, StakeAccount
  <2> QED BY <1>2, <2>1, ProductNat
<1>4. \A s \in Stakers : worth[s] + stake[s].amount * MaxRate \in Nat BY <1>0, <1>3 DEF Time
<1>5. worth' \in [Stakers -> Nat] BY <1>4 DEF Tick
<1>6. now' \in 0..MaxTime BY <1>0, <1>2 DEF Tick, Time
<1> QED BY <1>1, <1>5, <1>6, TypeParts DEF Time

\* Types and caps are inductive.
LEMMA TypeInvariant == Spec => []TypeInv
<1>1. Init => TypeInv
  <2> SUFFICES ASSUME Init PROVE TypeInv OBVIOUS
  <2>1. MaxTime \in Nat BY DEF StakingAssumption
  <2>2. Tokens BY DEF Init, Tokens, Unallocated, StakeAccount
  <2>3. Governance BY UnchangingTyped DEF Init, Governance, StakingAssumption
  <2>4. Time BY <2>1 DEF Init, Time
  <2> QED BY <2>2, <2>3, <2>4, TypeParts
<1>2. TypeInv /\ [Next]_vars => TypeInv'
  <2> SUFFICES ASSUME TypeInv, [Next]_vars PROVE TypeInv' OBVIOUS
  <2>1. CASE Next BY <2>1, StakerTyped, GovernanceTyped, TickTyped DEF Next
  <2>2. CASE UNCHANGED vars
    <3>1. Tokens /\ Governance /\ Time BY TypeParts
    <3>2. Tokens' /\ Governance' /\ Time'
      BY <2>2, <3>1 DEF vars, tokens, governance, Tokens, Governance, Time
    <3> QED BY <3>2, TypeParts
  <2> QED BY <2>1, <2>2
<1> QED BY <1>1, <1>2, PTL DEF Spec

\* Every variable keeps its type whatever instructions arrive in whatever
\* order (process_instruction): no balance is ever negative.
THEOREM TypeCorrect == Spec => []TypeOK
<1>1. TypeInv => TypeOK BY DEF TypeInv
<1> QED BY <1>1, TypeInvariant, PTL

-----------------------------------------------------------------------------
(* Supply, governance and rewards.                                         *)

\* Config.max_supply: genesis and all rewards together stay under the cap,
\* whatever it is, through every mint path.
THEOREM NeverOverTheCap == Spec => []SupplyCapped
<1>1. Init => SupplyCapped
  BY DEF Init, SupplyCapped, StakingAssumption
<1>2. TypeInv /\ SupplyCapped /\ [Next]_vars => SupplyCapped'
  <2> SUFFICES ASSUME TypeInv, SupplyCapped, [Next]_vars PROVE SupplyCapped' OBVIOUS
  <2>1. ASSUME supply' = supply PROVE SupplyCapped' BY <2>1 DEF SupplyCapped
  <2>2. ASSUME NEW s \in Stakers, NEW n \in Nat, PayOut(s, n) PROVE SupplyCapped'
    BY <2>2, PayOutEffect DEF SupplyCapped
  <2>3. ASSUME NEW s \in Stakers, NEW amount \in Deposits, Stake(s, amount) PROVE SupplyCapped'
    BY <2>1, <2>3 DEF Stake
  <2>4. ASSUME NEW s \in Stakers, NEW amount \in Deposits, Spend(s, amount) PROVE SupplyCapped'
    <3>1. supply' = supply \/ supply' = supply - amount BY <2>4 DEF Spend
    <3>2. amount \in Nat /\ MaxSupply \in Nat BY DEF StakingAssumption
    <3> QED BY <3>1, <3>2, TypeFacts DEF SupplyCapped
  <2>5. ASSUME NEW s \in Stakers, Unstake(s) PROVE SupplyCapped'
    <3>1. stake[s].amount \in Nat BY DEF TypeInv, TypeOK, StakeAccount
    <3> QED BY <2>2, <2>5, <3>1 DEF Unstake
  <2>6. ASSUME NEW s \in Stakers, Claim(s) PROVE SupplyCapped' BY <2>2, <2>6 DEF Claim
  <2>7. ASSUME AdminSigns PROVE SupplyCapped'
    BY <2>1, <2>7 DEF AdminSigns, QueueUpdate, CancelUpdate, SetPaused, TransferAdmin,
                      GenesisMint, SupplyCapped, tokens
  <2>8. ASSUME NEW key \in Keys, AcceptAdmin(key) PROVE SupplyCapped'
    BY <2>1, <2>8 DEF AcceptAdmin, tokens
  <2>9. CASE ApplyUpdate BY <2>1, <2>9 DEF ApplyUpdate, tokens
  <2>10. CASE Tick BY <2>1, <2>10 DEF Tick, tokens
  <2>11. CASE UNCHANGED vars BY <2>1, <2>11 DEF vars, tokens
  <2> QED BY <2>3, <2>4, <2>5, <2>6, <2>7, <2>8, <2>9, <2>10, <2>11 DEF Next
<1> QED BY <1>1, <1>2, TypeInvariant, PTL DEF Spec

\* A queued update was published when it says it was queued.
Published == pending.active => posted = pending.queued_at

LEMMA PublishedStep ==
    ASSUME TypeInv, Published, [Next]_vars
    PROVE  Published'
<1>1. ASSUME pending' = pending, posted' = posted PROVE Published' BY <1>1 DEF Published
<1>2. ASSUME UNCHANGED governance PROVE Published' BY <1>1, <1>2 DEF governance
<1>3. ASSUME AdminSigns PROVE Published'
  <2>1. ASSUME NEW p \in Proposals, QueueUpdate(p) PROVE Published'
    BY <2>1 DEF QueueUpdate, Published
  <2>2. ASSUME CancelUpdate PROVE Published' BY <2>2 DEF CancelUpdate, Published, Unchanging
  <2> QED BY <1>1, <1>3, <2>1, <2>2 DEF AdminSigns, SetPaused, TransferAdmin, GenesisMint
<1>4. ASSUME ApplyUpdate PROVE Published' BY <1>4 DEF ApplyUpdate, Published, Unchanging
<1>5. ASSUME NEW key \in Keys, AcceptAdmin(key) PROVE Published' BY <1>1, <1>5 DEF AcceptAdmin
<1> QED BY <1>2, <1>3, <1>4, <1>5 DEF Next, Stake, Spend, Unstake, Claim, Tick, vars

\* process_queue_update and process_apply_update: a parameter changes only to
\* the published, valid value, after the timelock that was live; shortening
\* the timelock waits out the old one.
THEOREM TimelockHolds == Spec => NoSurprise
<1>1. Init => Published BY DEF Init, Published, Unchanging
<1>2. TypeInv /\ Published /\ [Next]_vars => Published' BY PublishedStep
<1>3. TypeInv /\ Published /\ [Next]_vars
        => [config' # config => /\ config' = pending.to /\ Valid(config')
                                /\ now - posted >= config["timelock"]]_vars
  <2> SUFFICES ASSUME TypeInv, Published, Next, config' # config
               PROVE  /\ config' = pending.to /\ Valid(config')
                      /\ now - posted >= config["timelock"]
    BY DEF vars, governance
  <2>1. ApplyUpdate
    BY DEF Next, Stake, Spend, Unstake, Claim, Tick, AdminSigns, QueueUpdate, CancelUpdate,
           SetPaused, TransferAdmin, GenesisMint, AcceptAdmin, governance
  <2>2. config["timelock"] \in Int /\ pending.queued_at \in Nat
    BY DEF TypeInv, TypeOK, Fields
  <2>3. posted = pending.queued_at BY <2>1 DEF ApplyUpdate, Published
  <2>4. now - posted >= config["timelock"]
    BY <2>1, <2>2, <2>3, TypeFacts DEF ApplyUpdate, Eligible
  <2> QED BY <2>1, <2>4 DEF ApplyUpdate
<1> QED BY <1>1, <1>2, <1>3, TypeInvariant, PTL DEF Spec, NoSurprise

\* transfer_admin and accept_admin: the admin is always a key that can sign.
THEOREM AdminStaysReachable == Spec => []AdminCanSign
<1>1. Init => AdminCanSign BY DEF Init, AdminCanSign
<1>2. AdminCanSign /\ [Next]_vars => AdminCanSign'
  BY DEF Next, AdminCanSign, Stake, Spend, Unstake, Claim, Tick, AdminSigns, QueueUpdate,
         CancelUpdate, SetPaused, TransferAdmin, GenesisMint, AcceptAdmin, ApplyUpdate,
         governance, vars
<1> QED BY <1>1, <1>2, PTL DEF Spec

\* What is paid and owed, with what accrues at the highest rate, is worth the
\* principal and the time.
Due(s) == stake[s].amount * MaxRate * (now - stake[s].reward_from)

EarnedBy(s) ==
    /\ stake[s].reward_from <= now
    /\ (minted[s] + stake[s].pending) * Year + Due(s) <= worth[s]

Earned == \A s \in Stakers : EarnedBy(s)

\* At most what accrued is moved over to the paid or the owed.
LEMMA MovesOver ==
    ASSUME NEW m \in Nat, NEW p \in Nat, NEW r \in Nat, NEW d \in Nat, NEW w \in Nat,
           NEW x \in Nat, x <= p + r,
           (m + p) * Year + d <= w, r * Year <= d
    PROVE  (m + x) * Year <= w
<1>0. Year \in Nat BY DEF StakingAssumption
<1>1. (m + p + r) * Year = (m + p) * Year + r * Year BY <1>0, Z3
<1>2. (m + p) * Year \in Nat /\ r * Year \in Nat BY <1>0, ProductNat
<1>3. (m + p + r) * Year <= w BY <1>1, <1>2
<1>4. Year * (m + x) <= Year * (m + p + r) BY <1>0, ProductMonotone
<1>5. Year * (m + x) = (m + x) * Year /\ Year * (m + p + r) = (m + p + r) * Year BY <1>0, Z3
<1>6. (m + x) * Year \in Nat /\ (m + p + r) * Year \in Nat BY <1>0, ProductNat
<1> QED BY <1>3, <1>4, <1>5, <1>6

\* What accrues at the live rate is due at the highest one.
LEMMA AccrualIsDue ==
    ASSUME TypeInv, NEW s \in Stakers, stake[s].reward_from <= now
    PROVE  LET r == compute_reward(stake[s].amount, config["rate"], now - stake[s].reward_from) IN
           r \in Nat /\ r * Year <= Due(s) /\ Due(s) \in Nat
<1>1. stake[s].amount \in Nat /\ stake[s].reward_from \in Nat BY DEF TypeInv, TypeOK, StakeAccount
<1>2. now - stake[s].reward_from \in Nat BY <1>1, TypeFacts
<1>3. MaxRate \in Nat BY DEF StakingAssumption
<1>4. stake[s].amount * MaxRate \in Nat BY <1>1, <1>3, ProductNat
<1>5. Due(s) \in Nat BY <1>2, <1>4, ProductNat DEF Due
<1> QED BY <1>1, <1>2, <1>5, TypeFacts, RewardBound DEF Due

\* An account whose accrual starts now has nothing due.
LEMMA NothingDue ==
    ASSUME NEW a \in Nat, NEW t \in Nat
    PROVE  a * MaxRate * (t - t) = 0
<1>1. MaxRate \in Nat BY DEF StakingAssumption
<1>2. a * MaxRate \in Nat BY <1>1, ProductNat
<1> QED BY <1>2

LEMMA StakeEarned ==
    ASSUME TypeInv, NEW s \in Stakers, NEW amount \in Deposits, Stake(s, amount), EarnedBy(s)
    PROVE  EarnedBy(s)'
<1> DEFINE r == compute_reward(Opened(s).amount, config["rate"], now - Opened(s).reward_from)
           q == compute_reward(stake[s].amount, config["rate"], now - stake[s].reward_from)
<1>1. PICK net \in 0..amount, since \in Nat :
         /\ r \in Nat
         /\ Opened(s) \in StakeAccount
         /\ stake' = [stake EXCEPT ![s] =
               [open |-> TRUE, amount |-> Opened(s).amount + net,
                staked_at |-> since, reward_from |-> now,
                pending |-> Opened(s).pending + r]]
  BY StakeEffect
<1>2. amount \in Nat /\ minted' = minted /\ worth' = worth /\ now' = now
  BY DEF Stake, StakingAssumption
<1>3. /\ stake \in [Stakers -> StakeAccount]
      /\ minted[s] \in Nat /\ worth[s] \in Nat /\ stake[s].pending \in Nat
  BY DEF TypeInv, TypeOK, StakeAccount
<1>4. q \in Nat /\ q * Year <= Due(s) /\ Due(s) \in Nat BY AccrualIsDue DEF EarnedBy
<1>5. Opened(s).pending + r \in Nat /\ Opened(s).pending + r <= stake[s].pending + q
  <2>1. CASE stake[s].open
    <3>1. Opened(s) = stake[s] BY <2>1 DEF Opened
    <3> QED BY <1>3, <1>4, <3>1
  <2>2. CASE ~stake[s].open
    <3>1. Opened(s).pending = 0 /\ Opened(s).reward_from = now BY <2>2 DEF Opened
    <3>2. r = 0 BY <3>1, TypeFacts DEF compute_reward
    <3> HIDE DEF r, q
    <3> QED BY <1>3, <1>4, <3>1, <3>2
  <2> QED BY <2>1, <2>2
<1> DEFINE p == Opened(s).pending + r
           a == Opened(s).amount + net
<1>6. a \in Nat BY <1>1, <1>2 DEF StakeAccount
<1>7. stake'[s].amount = a /\ stake'[s].reward_from = now /\ stake'[s].pending = p
  BY <1>1, <1>3
<1> HIDE DEF p, a, q
<1>8. (minted[s] + stake[s].pending) * Year + Due(s) <= worth[s] BY DEF EarnedBy
<1>9. (minted[s] + p) * Year <= worth[s]
  <2>1. p \in Nat /\ p <= stake[s].pending + q BY <1>5 DEF p
  <2> QED BY <1>3, <1>4, <1>8, <2>1, MovesOver
<1>10. a * MaxRate * (now - now) = 0 BY <1>6, TypeFacts, NothingDue
<1>11. (minted[s] + p) * Year \in Nat
  BY <1>3, <1>5, ProductNat DEF p, StakingAssumption
<1>12. Due(s)' = a * MaxRate * (now - now) BY <1>2, <1>7 DEF Due
<1>13. (minted'[s] + stake'[s].pending) * Year + Due(s)' <= worth'[s]
  BY <1>2, <1>7, <1>9, <1>10, <1>11, <1>12
<1>14. stake'[s].reward_from <= now' BY <1>2, <1>7, TypeFacts
<1> QED BY <1>13, <1>14 DEF EarnedBy

LEMMA PayOutEarned ==
    ASSUME TypeInv, NEW s \in Stakers, NEW n \in Nat, PayOut(s, n), EarnedBy(s),
           NEW new \in StakeAccount, stake' = [stake EXCEPT ![s] = new],
           new.pending = 0, new.reward_from = now, worth' = worth, now' = now
    PROVE  EarnedBy(s)'
<1> DEFINE q == compute_reward(stake[s].amount, config["rate"], now - stake[s].reward_from)
<1>1. PICK x \in 0..accrued_rewards(stake[s]) : minted' = [minted EXCEPT ![s] = @ + x]
  BY PayOutEffect
<1>2. q \in Nat /\ q * Year <= Due(s) /\ Due(s) \in Nat BY AccrualIsDue DEF EarnedBy
<1>3. /\ stake \in [Stakers -> StakeAccount] /\ minted \in [Stakers -> Nat]
      /\ minted[s] \in Nat /\ worth[s] \in Nat /\ stake[s].pending \in Nat
  BY DEF TypeInv, TypeOK, StakeAccount
<1>4. x \in Nat /\ x <= stake[s].pending + q
  <2>1. accrued_rewards(stake[s]) = q + stake[s].pending BY DEF accrued_rewards
  <2> HIDE DEF q
  <2> QED BY <1>1, <1>2, <1>3, <2>1
<1> HIDE DEF q
<1>5. (minted[s] + stake[s].pending) * Year + Due(s) <= worth[s] BY DEF EarnedBy
<1>6. (minted[s] + x) * Year <= worth[s] BY <1>2, <1>3, <1>4, <1>5, MovesOver
<1>7. (minted[s] + x) * Year \in Nat BY <1>3, <1>4, ProductNat DEF StakingAssumption
<1>8. new.amount \in Nat BY DEF StakeAccount
<1>9. new.amount * MaxRate * (now - now) = 0 BY <1>8, TypeFacts, NothingDue
<1>10. stake'[s] = new /\ minted'[s] = minted[s] + x BY <1>1, <1>3
<1>11. Due(s)' = new.amount * MaxRate * (now - now) BY <1>10 DEF Due
<1>12. minted'[s] + stake'[s].pending = minted[s] + x BY <1>3, <1>4, <1>10
<1>13. (minted'[s] + stake'[s].pending) * Year + Due(s)' <= worth'[s]
  BY <1>6, <1>7, <1>9, <1>11, <1>12
<1>14. stake'[s].reward_from <= now' BY <1>10, TypeFacts
<1> QED BY <1>13, <1>14 DEF EarnedBy

LEMMA TickEarned ==
    ASSUME TypeInv, NEW s \in Stakers, Tick, EarnedBy(s)
    PROVE  EarnedBy(s)'
<1> DEFINE a == stake[s].amount
           e == now - stake[s].reward_from
           k == a * MaxRate
           z == (minted[s] + stake[s].pending) * Year
<1>1. /\ a \in Nat /\ stake[s].reward_from \in Nat /\ worth[s] \in Nat
      /\ minted[s] \in Nat /\ stake[s].pending \in Nat
  BY DEF TypeInv, TypeOK, StakeAccount
<1>2. k \in Nat BY <1>1, ProductNat DEF StakingAssumption
<1>3. e \in Nat BY <1>1, TypeFacts DEF EarnedBy
<1>4. z \in Nat BY <1>1, ProductNat DEF StakingAssumption
<1>5. stake' = stake /\ minted' = minted /\ now' = now + 1 /\ worth'[s] = worth[s] + k
  BY DEF Tick, tokens
<1>6. now' - stake'[s].reward_from = e + 1 /\ stake'[s].reward_from <= now'
  <2>1. stake[s].reward_from <= now BY DEF EarnedBy
  <2>2. now' = now + 1 /\ stake'[s].reward_from = stake[s].reward_from BY <1>5
  <2> QED BY <1>1, <2>1, <2>2, TypeFacts
<1>7. Due(s)' = k * (e + 1) BY <1>5, <1>6 DEF Due
<1>8. z + k * e <= worth[s] BY DEF EarnedBy, Due
<1> HIDE DEF k, e, z
<1>9. k * (e + 1) = k * e + k BY <1>2, <1>3, Z3
<1>10. k * e \in Nat BY <1>2, <1>3, ProductNat
<1>11. z + k * (e + 1) <= worth[s] + k BY <1>1, <1>2, <1>4, <1>8, <1>9, <1>10
<1>12. (minted'[s] + stake'[s].pending) * Year = z BY <1>5 DEF z
<1> QED BY <1>5, <1>6, <1>7, <1>11, <1>12 DEF EarnedBy

LEMMA EarnedStep ==
    ASSUME TypeInv, Earned, [Next]_vars
    PROVE  Earned'
<1> SUFFICES ASSUME NEW t \in Stakers PROVE EarnedBy(t)' BY DEF Earned
<1>0. EarnedBy(t) /\ stake \in [Stakers -> StakeAccount] /\ minted \in [Stakers -> Nat]
  BY DEF Earned, TypeInv, TypeOK
<1>1. ASSUME stake'[t] = stake[t], minted'[t] = minted[t], now' = now, worth' = worth
      PROVE  EarnedBy(t)'
  BY <1>0, <1>1 DEF EarnedBy, Due
<1>2. ASSUME NEW s \in Stakers, NEW amount \in Deposits, Stake(s, amount) PROVE EarnedBy(t)'
  <2>1. CASE s = t BY <1>0, <1>2, <2>1, StakeEarned
  <2>2. CASE s # t BY <1>0, <1>1, <1>2, <2>2 DEF Stake
  <2> QED BY <2>1, <2>2
<1>3. ASSUME NEW s \in Stakers, NEW amount \in Deposits, Spend(s, amount) PROVE EarnedBy(t)'
  BY <1>1, <1>3 DEF Spend
<1>4. ASSUME NEW s \in Stakers, Unstake(s) PROVE EarnedBy(t)'
  <2>1. stake[s].amount \in Nat BY <1>0 DEF StakeAccount
  <2>2. PayOut(s, stake[s].amount) /\ worth' = worth /\ now' = now BY <1>4 DEF Unstake
  <2>3. CASE s = t BY <1>0, <1>4, <2>1, <2>2, <2>3, LeftOver, PayOutEarned
  <2>4. CASE s # t BY <1>0, <1>1, <1>4, <2>2, <2>4, LeftOver DEF PayOut
  <2> QED BY <2>3, <2>4
<1>5. ASSUME NEW s \in Stakers, Claim(s) PROVE EarnedBy(t)'
  <2>1. PayOut(s, 0) /\ worth' = worth /\ now' = now BY <1>5 DEF Claim
  <2>2. CASE s = t BY <1>0, <1>5, <2>1, <2>2, LeftOver, PayOutEarned
  <2>3. CASE s # t BY <1>0, <1>1, <1>5, <2>1, <2>3, LeftOver DEF PayOut
  <2> QED BY <2>2, <2>3
<1>6. ASSUME AdminSigns PROVE EarnedBy(t)'
  BY <1>1, <1>6 DEF AdminSigns, QueueUpdate, CancelUpdate, SetPaused, TransferAdmin, GenesisMint,
                    tokens
<1>7. ASSUME NEW key \in Keys, AcceptAdmin(key) PROVE EarnedBy(t)'
  BY <1>1, <1>7 DEF AcceptAdmin, tokens
<1>8. CASE ApplyUpdate BY <1>1, <1>8 DEF ApplyUpdate, tokens
<1>9. CASE Tick BY <1>0, <1>9, TickEarned
<1>10. CASE UNCHANGED vars BY <1>1, <1>10 DEF vars, tokens
<1> QED BY <1>2, <1>3, <1>4, <1>5, <1>6, <1>7, <1>8, <1>9, <1>10 DEF Next

\* StakeAccount::settle and process_unstake: through any top-ups, claims, exits
\* and rate changes no staker is paid or owed more than the highest rate pays
\* on its principal for the time it was staked; nothing is counted twice.
THEOREM NothingPaidTwice == Spec => []RewardsAreEarned
<1>1. Init => Earned
  <2> SUFFICES ASSUME Init, NEW s \in Stakers PROVE EarnedBy(s) BY DEF Earned
  <2>1. Year \in Nat /\ MaxRate \in Nat BY DEF StakingAssumption
  <2>2. (0 + 0) * Year = 0 /\ 0 * MaxRate * (0 - 0) = 0 BY <2>1
  <2> QED BY <2>2 DEF Init, EarnedBy, Due, Unallocated
<1>2. TypeInv /\ Earned /\ [Next]_vars => Earned' BY EarnedStep
<1>3. TypeInv /\ Earned => RewardsAreEarned
  <2> SUFFICES ASSUME TypeInv, Earned, NEW s \in Stakers
               PROVE  (minted[s] + stake[s].pending) * Year <= worth[s]
    BY DEF RewardsAreEarned
  <2>1. EarnedBy(s) BY DEF Earned
  <2>2. Due(s) \in Nat BY <2>1, AccrualIsDue DEF EarnedBy
  <2>3. minted[s] \in Nat /\ stake[s].pending \in Nat /\ worth[s] \in Nat
    BY DEF TypeInv, TypeOK, StakeAccount
  <2>4. (minted[s] + stake[s].pending) * Year \in Nat
    BY <2>3, ProductNat DEF StakingAssumption
  <2> QED BY <2>1, <2>2, <2>3, <2>4 DEF EarnedBy
<1> QED BY <1>1, <1>2, <1>3, TypeInvariant, PTL DEF Spec

-----------------------------------------------------------------------------
(* Solvency.                                                               *)

Held == SumFunctionOnSet(wallet, Stakers)

LEMMA SolventForm ==
    /\ Solvent <=> Principal <= vault /\ supply = vault + treasury + Held
    /\ Solvent' <=> Principal' <= vault' /\ supply' = vault' + treasury' + Held'
    /\ Principal = SumFunctionOnSet(AmountsOf(stake), Stakers)
    /\ Principal' = SumFunctionOnSet(AmountsOf(stake'), Stakers)
    /\ Held' = SumFunctionOnSet(wallet', Stakers)
  BY DEF Solvent, Principal, AmountsOf, Held

LEMMA SumFacts ==
    ASSUME TypeInv
    PROVE  /\ Principal \in Nat /\ Held \in Nat
           /\ stake \in [Stakers -> StakeAccount] /\ wallet \in [Stakers -> Nat]
<1>1. IsFiniteSet(Stakers) BY DEF StakingAssumption
<1>2. stake \in [Stakers -> StakeAccount] /\ wallet \in [Stakers -> Nat] BY DEF TypeInv, TypeOK
<1>3. \A t \in Stakers : AmountsOf(stake)[t] \in Nat BY <1>2 DEF AmountsOf, StakeAccount
<1>4. \A t \in Stakers : wallet[t] \in Nat BY <1>2
<1>5. Principal \in Nat BY <1>1, <1>3, SumNat, SolventForm
<1>6. Held \in Nat BY <1>1, <1>4, SumNat DEF Held
<1> QED BY <1>2, <1>5, <1>6

LEMMA StakeSolvent ==
    ASSUME TypeInv, Solvent, NEW s \in Stakers, NEW amount \in Deposits, Stake(s, amount)
    PROVE  Solvent'
<1>1. PICK net \in 0..amount, since \in Nat :
         LET r == compute_reward(Opened(s).amount, config["rate"], now - Opened(s).reward_from) IN
         /\ r \in Nat
         /\ Opened(s) \in StakeAccount
         /\ wallet' = [wallet EXCEPT ![s] = @ - amount]
         /\ vault' = vault + net
         /\ treasury' = treasury + (amount - net)
         /\ stake' = [stake EXCEPT ![s] =
               [open |-> TRUE, amount |-> Opened(s).amount + net,
                staked_at |-> since, reward_from |-> now,
                pending |-> Opened(s).pending + r]]
  BY StakeEffect
<1> DEFINE r == compute_reward(Opened(s).amount, config["rate"], now - Opened(s).reward_from)
           p == Opened(s).pending + r
           a == Opened(s).amount + net
           new == [open |-> TRUE, amount |-> a, staked_at |-> since, reward_from |-> now, pending |-> p]
<1>2. amount \in Nat /\ net \in Nat /\ net <= amount BY DEF StakingAssumption
<1>3. p \in Nat /\ a \in Nat /\ now \in Nat BY <1>1, <1>2, TypeFacts DEF StakeAccount
<1>4. stake' = [stake EXCEPT ![s] = new] BY <1>1
<1>5. stake[s].amount \in Nat /\ a <= stake[s].amount + net
  BY <1>2, SumFacts DEF Opened, StakeAccount
<1> HIDE DEF p, a
<1>6. new \in StakeAccount /\ new.amount = a BY <1>3 DEF StakeAccount
<1> HIDE DEF new
<1>7. Principal' = Principal + (a - stake[s].amount)
  BY <1>4, <1>6, SumFacts, PrincipalMoves, SolventForm
<1>8. wallet[s] \in Nat /\ wallet \in [Stakers -> Int] BY SumFacts
<1>9. wallet' = [wallet EXCEPT ![s] = wallet[s] - amount] BY <1>1
<1>10. Held' = Held + (wallet[s] - amount - wallet[s])
  <2>1. wallet[s] - amount \in Int BY <1>2, <1>8
  <2> QED BY <1>8, <1>9, <2>1, BalanceMoves, SolventForm, Zenon DEF Held
<1>11. supply' = supply BY DEF Stake
<1>12. vault' = vault + net /\ treasury' = treasury + (amount - net) BY <1>1
<1>13. Principal' <= vault'
  BY <1>2, <1>3, <1>5, <1>7, <1>12, SumFacts, SolventForm, TypeFacts
<1>14. supply' = vault' + treasury' + Held'
  BY <1>2, <1>8, <1>10, <1>11, <1>12, SumFacts, SolventForm, TypeFacts
<1> QED BY <1>13, <1>14, SolventForm

\* A payout takes off the account the principal that it takes from the vault.
LEMMA PayOutSolvent ==
    ASSUME TypeInv, Solvent, NEW s \in Stakers, NEW principal \in Nat, PayOut(s, principal),
           NEW new \in StakeAccount, stake' = [stake EXCEPT ![s] = new], treasury' = treasury,
           new.amount = stake[s].amount - principal
    PROVE  Solvent'
<1>1. PICK reward \in 0..accrued_rewards(stake[s]) :
         /\ accrued_rewards(stake[s]) \in Nat
         /\ principal <= vault /\ vault' = vault - principal
         /\ wallet' = [wallet EXCEPT ![s] = @ + principal + reward]
         /\ supply' = supply + reward
         /\ minted' = [minted EXCEPT ![s] = @ + reward]
  BY PayOutEffect
<1>2. reward \in Nat BY <1>1
<1>3. stake[s].amount \in Nat BY SumFacts DEF StakeAccount
<1>4. Principal' = Principal + (new.amount - stake[s].amount)
  BY SumFacts, PrincipalMoves, SolventForm
<1>5. wallet[s] \in Nat /\ wallet \in [Stakers -> Int] BY SumFacts
<1>6. wallet' = [wallet EXCEPT ![s] = wallet[s] + principal + reward] BY <1>1
<1>7. Held' = Held + ((wallet[s] + principal + reward) - wallet[s])
  <2>1. wallet[s] + principal + reward \in Int BY <1>2, <1>5
  <2> QED BY <1>5, <1>6, <2>1, BalanceMoves, SolventForm, Zenon DEF Held
<1>8. vault' = vault - principal /\ supply' = supply + reward BY <1>1
<1>9. Principal' <= vault'
  BY <1>3, <1>4, <1>8, SumFacts, SolventForm, TypeFacts
<1>10. supply' = vault' + treasury' + Held'
  BY <1>2, <1>5, <1>7, <1>8, SumFacts, SolventForm, TypeFacts
<1> QED BY <1>9, <1>10, SolventForm

LEMMA SpendSolvent ==
    ASSUME TypeInv, Solvent, NEW s \in Stakers, NEW amount \in Deposits, Spend(s, amount)
    PROVE  Solvent'
<1>1. amount \in Nat /\ wallet[s] \in Nat /\ wallet \in [Stakers -> Int] BY SumFacts DEF StakingAssumption
<1>2. Principal' = Principal /\ treasury' = treasury BY SolventForm DEF Spend
<1>3. ASSUME wallet' = [wallet EXCEPT ![s] = @ - amount] PROVE Held' = Held - amount
  <2>1. wallet' = [wallet EXCEPT ![s] = wallet[s] - amount] BY <1>3
  <2>2. wallet[s] - amount \in Int BY <1>1
  <2>3. Held' = Held + (wallet[s] - amount - wallet[s])
    BY <1>1, <2>1, <2>2, BalanceMoves, SolventForm, Zenon DEF Held
  <2> QED BY <1>1, <2>3, SumFacts
<1>4. CASE supply' = supply - amount /\ vault' = vault /\ wallet' = [wallet EXCEPT ![s] = @ - amount]
  BY <1>1, <1>2, <1>3, <1>4, SumFacts, SolventForm, TypeFacts
<1>5. CASE vault' = vault + amount /\ supply' = supply /\ wallet' = [wallet EXCEPT ![s] = @ - amount]
  BY <1>1, <1>2, <1>3, <1>5, SumFacts, SolventForm, TypeFacts
<1>6. ASSUME NEW to \in Stakers \ {s},
             wallet' = [wallet EXCEPT ![s] = @ - amount, ![to] = @ + amount],
             UNCHANGED <<vault, supply>>
      PROVE  Solvent'
  <2> DEFINE half == [wallet EXCEPT ![s] = wallet[s] - amount]
  <2>1. half \in [Stakers -> Int] /\ half[to] = wallet[to] /\ wallet[to] \in Int
        /\ wallet[s] - amount \in Int /\ wallet[to] + amount \in Int
    BY <1>1
  <2>2. wallet' = [half EXCEPT ![to] = wallet[to] + amount] BY <1>1, <1>6
  <2>3. SumFunctionOnSet(half, Stakers) = Held + (wallet[s] - amount - wallet[s])
    BY <1>1, <2>1, BalanceMoves, Zenon DEF Held
  <2> HIDE DEF half
  <2>4. Held' = SumFunctionOnSet(half, Stakers) + ((wallet[to] + amount) - half[to])
    BY <2>1, <2>2, BalanceMoves, SolventForm, Zenon
  <2>5. Held' = Held BY <1>1, <2>1, <2>3, <2>4, SumFacts
  <2> QED BY <1>2, <1>6, <2>5, SolventForm
<1> QED BY <1>4, <1>5, <1>6 DEF Spend

LEMMA GrantSolvent ==
    ASSUME TypeInv, Solvent, NEW s \in Stakers, NEW amount \in Grants, GenesisMint(s, amount)
    PROVE  Solvent'
<1>1. amount \in Nat /\ wallet[s] \in Nat /\ wallet \in [Stakers -> Int] BY SumFacts DEF StakingAssumption
<1>2. Principal' = Principal /\ treasury' = treasury /\ vault' = vault /\ supply' = supply + amount
  BY SolventForm DEF GenesisMint
<1>3. wallet' = [wallet EXCEPT ![s] = wallet[s] + amount] BY DEF GenesisMint
<1>4. Held' = Held + ((wallet[s] + amount) - wallet[s])
  <2>1. wallet[s] + amount \in Int BY <1>1
  <2> QED BY <1>1, <1>3, <2>1, BalanceMoves, SolventForm, Zenon DEF Held
<1> QED BY <1>1, <1>2, <1>4, SumFacts, SolventForm, TypeFacts

LEMMA SolventStep ==
    ASSUME TypeInv, Solvent, [Next]_vars
    PROVE  Solvent'
<1>1. ASSUME UNCHANGED tokens PROVE Solvent' BY <1>1 DEF tokens, Solvent, Principal
<1>2. ASSUME NEW s \in Stakers, Unstake(s) PROVE Solvent'
  <2>1. stake[s].amount \in Nat BY SumFacts DEF StakeAccount
  <2>2. Emptied(s).amount = stake[s].amount - stake[s].amount BY <2>1, LeftOver
  <2>3. PayOut(s, stake[s].amount) /\ treasury' = treasury BY <1>2 DEF Unstake
  <2> QED BY <1>2, <2>1, <2>2, <2>3, LeftOver, PayOutSolvent
<1>3. ASSUME NEW s \in Stakers, Claim(s) PROVE Solvent'
  <2>1. stake[s].amount \in Nat BY SumFacts DEF StakeAccount
  <2>2. Claimed(s).amount = stake[s].amount - 0 BY <2>1, LeftOver
  <2>3. PayOut(s, 0) /\ treasury' = treasury BY <1>3 DEF Claim
  <2> QED BY <1>3, <2>2, <2>3, LeftOver, PayOutSolvent
<1>4. ASSUME AdminSigns PROVE Solvent'
  BY <1>1, <1>4, GrantSolvent DEF AdminSigns, QueueUpdate, CancelUpdate, SetPaused, TransferAdmin
<1>5. ASSUME NEW key \in Keys, AcceptAdmin(key) PROVE Solvent' BY <1>1, <1>5 DEF AcceptAdmin
<1>6. CASE ApplyUpdate BY <1>1, <1>6 DEF ApplyUpdate
<1>7. CASE Tick BY <1>1, <1>7 DEF Tick
<1>8. CASE UNCHANGED vars BY <1>1, <1>8 DEF vars
<1> QED
  BY <1>2, <1>3, <1>4, <1>5, <1>6, <1>7, <1>8, StakeSolvent, SpendSolvent DEF Next

LEMMA SolventInit == Init => Solvent
<1> SUFFICES ASSUME Init PROVE Solvent OBVIOUS
<1>1. IsFiniteSet(Stakers) BY DEF StakingAssumption
<1>2. \A t \in Stakers : AmountsOf(stake)[t] = 0 BY DEF Init, Unallocated, AmountsOf
<1>3. \A t \in Stakers : wallet[t] = 0 BY DEF Init
<1>4. Principal = 0 BY <1>1, <1>2, SumZero, SolventForm
<1>5. Held = 0 BY <1>1, <1>3, SumZero DEF Held
<1>6. vault = 0 /\ treasury = 0 /\ supply = 0 BY DEF Init
<1> QED BY <1>4, <1>5, <1>6, SolventForm

\* process_unstake: for any number of stakers and any parameters the vault
\* covers all principal, and the supply is in the balances, through any
\* sequence of deposits, payouts, transfers, burns and updates.
THEOREM AlwaysSolvent == Spec => []Solvent
<1>1. TypeInv /\ Solvent /\ [Next]_vars => Solvent' BY SolventStep
<1> QED BY <1>1, SolventInit, TypeInvariant, PTL DEF Spec

\* process_unstake, "Withdrawals/claims must NEVER fail": the vault's transfer
\* of any staker's principal is covered, so that check refuses nobody.
THEOREM WithdrawalIsCovered == Spec => [](\A s \in Stakers : stake[s].amount <= vault)
<1>1. ASSUME TypeInv, Solvent, NEW s \in Stakers PROVE stake[s].amount <= vault
  <2> DEFINE none == [stake EXCEPT ![s] = Unallocated]
  <2>1. Unallocated \in StakeAccount /\ Unallocated.amount = 0 BY DEF Unallocated, StakeAccount
  <2>2. none \in [Stakers -> StakeAccount] BY <1>1, <2>1, SumFacts
  <2> HIDE DEF none
  <2>3. SumFunctionOnSet(AmountsOf(none), Stakers) = Principal + (0 - stake[s].amount)
    BY <1>1, <2>1, SumFacts, PrincipalMoves, SolventForm DEF none
  <2>4. SumFunctionOnSet(AmountsOf(none), Stakers) \in Nat
    BY <2>1, <2>2, PrincipalMoves
  <2>5. stake[s].amount \in Nat BY <1>1, SumFacts DEF StakeAccount
  <2> QED BY <1>1, <2>3, <2>4, <2>5, SumFacts, SolventForm, TypeFacts
<1>2. TypeInv /\ Solvent => \A s \in Stakers : stake[s].amount <= vault BY <1>1
<1> QED BY <1>2, AlwaysSolvent, TypeInvariant, PTL

=============================================================================
