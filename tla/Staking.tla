------------------------------ MODULE Staking -------------------------------
(***************************************************************************)
(* The on-chain staking program: the global Config with its timelocked     *)
(* parameters, the stake accounts, and the balances of the SPL mint, vault *)
(* and treasury that its instructions move.                                *)
(*                                                                         *)
(* Source: programs/staking-suite/src/processor.rs and state.rs.  Every    *)
(* instruction is atomic: an error undoes the whole transaction, so a      *)
(* check is a guard wherever it stands in the handler.  The account        *)
(* checks (addresses, owners, signers) are the choice of the actors: a     *)
(* staker acts on its own accounts, the admin is config.admin.             *)
(***************************************************************************)
EXTENDS Integers, FiniteSets, Functions

CONSTANTS
    Stakers,      \* staker keys, each with one token account
    Keys,         \* keys that can sign as admin
    Unowned,      \* keys nobody holds (a typing error in TransferAdmin)
    Nobody,       \* Pubkey::default()
    Settings,     \* the parameters the program may be initialised with
    Proposals,    \* UpdateParams arguments: functions on a subset of Fields
    Deposits,     \* amounts of Stake and of transfers
    Grants,       \* amounts of GenesisMint
    MaxSupply,    \* Config.max_supply
    MaxFee,       \* MAX_FEE_BPS
    MaxRate,      \* MAX_REWARD_RATE_BPS
    MaxTimelock,  \* MAX_TIMELOCK_SECS
    Bps,          \* BPS
    Year,         \* BPS * SECS_PER_YEAR
    MaxTime       \* bound: the clock

Fields == {"fee", "rate", "min", "delay", "timelock"}

\* The delays are i64, the rest unsigned.
WellTyped(p) == \A f \in DOMAIN p : p[f] \in IF f \in {"delay", "timelock"} THEN Int ELSE Nat

\* validate_params and validate_timelock: the delay of unstake has no limit.
Valid(c) == c["fee"] <= MaxFee /\ c["rate"] <= MaxRate /\ c["timelock"] \in 0..MaxTimelock

ASSUME StakingAssumption ==
    /\ IsFiniteSet(Stakers)
    /\ {MaxSupply, Bps, Year} \subseteq Nat \ {0}
    /\ {MaxFee, MaxRate, MaxTimelock, MaxTime} \subseteq Nat
    /\ MaxFee <= Bps
    /\ Deposits \subseteq Nat /\ Grants \subseteq Nat
    /\ Nobody \notin Keys \cup Unowned /\ Keys \cap Unowned = {}
    /\ \A p \in Proposals : DOMAIN p \subseteq Fields /\ WellTyped(p)
    /\ \A c \in Settings : c \in [Fields -> Int] /\ WellTyped(c) /\ Valid(c)

VARIABLES
    config,    \* config[f]: the live parameters
    pending,   \* PendingParams: active, queued_at, to
    flags,     \* paused, genesis_done
    admin,     \* Config.admin
    nominee,   \* Config.pending_admin
    stake,     \* stake[s]: the stake account (open: allocated)
    wallet,    \* wallet[s]: the staker's token account
    vault, treasury, supply,   \* the other balances, and Mint.supply
    now,       \* Clock.unix_timestamp
    posted,    \* history: when the queued update was published
    minted,    \* history: minted[s]: rewards minted to s
    worth      \* history: worth[s]: principal of s times MaxRate, over time

governance == <<config, pending, flags, admin, nominee, posted>>
tokens     == <<stake, wallet, vault, treasury, supply, minted>>
vars       == <<governance, tokens, now, worth>>

-----------------------------------------------------------------------------
(* The arithmetic of state.rs.                                             *)

compute_fee(amount) == (amount * config["fee"]) \div Bps

compute_reward(amount, rate, elapsed) ==
    IF elapsed <= 0 THEN 0 ELSE (amount * rate * elapsed) \div Year

\* Mutant: settling does not restart the clock of the accrual.
settle_twice(sa) ==
    [sa EXCEPT !.pending = @ + compute_reward(sa.amount, config["rate"], now - sa.reward_from)]

\* What has accrued is set aside and accrual starts again, at the live rate.
settle(sa) ==
    [sa EXCEPT !.pending = @ + compute_reward(sa.amount, config["rate"], now - sa.reward_from),
               !.reward_from = now]

accrued_rewards(sa) ==
    compute_reward(sa.amount, config["rate"], now - sa.reward_from) + sa.pending

Least(a, b) == IF a <= b THEN a ELSE b

\* Mutant: rewards are minted in full.
MintableAll(rewards) == rewards

\* Rewards are clamped to what the cap leaves (supply_headroom saturates).
Mintable(rewards) == IF supply <= MaxSupply THEN Least(rewards, MaxSupply - supply) ELSE 0

Unchanging   == [active |-> FALSE, queued_at |-> 0, to |-> [f \in Fields |-> 0]]
Unallocated  == [open |-> FALSE, amount |-> 0, staked_at |-> 0, reward_from |-> 0, pending |-> 0]

\* process_initialize.
Init ==
    /\ config \in Settings
    /\ pending = Unchanging /\ posted = 0
    /\ flags = [paused |-> FALSE, genesis_done |-> FALSE]
    /\ admin \in Keys /\ nominee = Nobody
    /\ stake = [s \in Stakers |-> Unallocated]
    /\ wallet = [s \in Stakers |-> 0]
    /\ vault = 0 /\ treasury = 0 /\ supply = 0 /\ now = 0
    /\ minted = [s \in Stakers |-> 0] /\ worth = [s \in Stakers |-> 0]

-----------------------------------------------------------------------------
(* The stakers.                                                            *)

\* The account a stake starts from: a fresh one if there is none.
Opened(s) ==
    IF stake[s].open THEN stake[s]
    ELSE [open |-> TRUE, amount |-> 0, staked_at |-> now, reward_from |-> now, pending |-> 0]

\* process_stake: the cooldown starts again when the principal grows.
Stake(s, amount) ==
    /\ ~flags.paused
    /\ amount >= config["min"]
    /\ amount <= wallet[s]
    /\ LET fee == compute_fee(amount)
           net == amount - fee IN
       /\ wallet' = [wallet EXCEPT ![s] = @ - amount]
       /\ vault' = vault + net
       /\ treasury' = treasury + fee
       /\ stake' = [stake EXCEPT ![s] =
             LET sa == settle(Opened(s)) IN
             [open |-> TRUE, amount |-> sa.amount + net,
              staked_at |-> IF net > 0 THEN now ELSE sa.staked_at,
              reward_from |-> sa.reward_from, pending |-> sa.pending]]
    /\ UNCHANGED <<governance, supply, minted, now, worth>>

CooledDown(s) == now - stake[s].staked_at >= config["delay"]

\* The rewards of s are minted, next to principal that leaves the vault.
PayOut(s, principal) ==
    LET reward == Mintable(accrued_rewards(stake[s])) IN
    /\ principal <= vault
    /\ vault' = vault - principal
    /\ wallet' = [wallet EXCEPT ![s] = @ + principal + reward]
    /\ supply' = supply + reward
    /\ minted' = [minted EXCEPT ![s] = @ + reward]

\* Mutant: the principal that was paid out stays on the account.
UnstakeTwice(s) ==
    /\ stake[s].open /\ stake[s].amount > 0
    /\ CooledDown(s)
    /\ PayOut(s, stake[s].amount)
    /\ stake' = [stake EXCEPT ![s].pending = 0, ![s].reward_from = now]
    /\ UNCHANGED <<governance, treasury, now, worth>>

\* process_unstake.
Unstake(s) ==
    /\ stake[s].open /\ stake[s].amount > 0
    /\ CooledDown(s)
    /\ PayOut(s, stake[s].amount)
    /\ stake' = [stake EXCEPT ![s].amount = 0, ![s].pending = 0, ![s].staked_at = 0,
                              ![s].reward_from = now]
    /\ UNCHANGED <<governance, treasury, now, worth>>

\* process_unstake with claim_only.  What the cap does not leave is forfeited.
Claim(s) ==
    /\ stake[s].open
    /\ PayOut(s, 0)
    /\ stake' = [stake EXCEPT ![s].pending = 0, ![s].reward_from = now]
    /\ UNCHANGED <<governance, treasury, now, worth>>

\* A holder burns tokens, or sends them to the vault or to another staker,
\* with the SPL program.
Spend(s, amount) ==
    /\ amount \in 1..wallet[s]
    /\ \/ amount <= supply /\ supply' = supply - amount /\ vault' = vault
          /\ wallet' = [wallet EXCEPT ![s] = @ - amount]
       \/ vault' = vault + amount /\ supply' = supply
          /\ wallet' = [wallet EXCEPT ![s] = @ - amount]
       \/ \E to \in Stakers \ {s} :
             wallet' = [wallet EXCEPT ![s] = @ - amount, ![to] = @ + amount]
          /\ UNCHANGED <<vault, supply>>
    /\ UNCHANGED <<governance, stake, treasury, minted, now, worth>>

-----------------------------------------------------------------------------
(* The admin, and anyone.                                                  *)

\* What a proposal leaves open is resolved against the live parameters.
Resolved(p) == [f \in Fields |-> IF f \in DOMAIN p THEN p[f] ELSE config[f]]

\* process_queue_update.
QueueUpdate(p) ==
    /\ ~pending.active
    /\ Valid(Resolved(p))
    /\ pending' = [active |-> TRUE, queued_at |-> now, to |-> Resolved(p)]
    /\ posted' = now
    /\ UNCHANGED <<config, flags, admin, nominee, tokens, now, worth>>

\* Mutant: a shorter timelock applies to its own update.
EligibleSooner == now >= pending.queued_at + pending.to["timelock"]

\* An update waits out the live timelock.
Eligible == now >= pending.queued_at + config["timelock"]

\* process_apply_update, by anyone.
ApplyUpdate ==
    /\ pending.active /\ Eligible /\ Valid(pending.to)
    /\ config' = pending.to
    /\ pending' = Unchanging /\ posted' = 0
    /\ UNCHANGED <<flags, admin, nominee, tokens, now, worth>>

\* process_cancel_update.
CancelUpdate ==
    /\ pending.active
    /\ pending' = Unchanging /\ posted' = 0
    /\ UNCHANGED <<config, flags, admin, nominee, tokens, now, worth>>

\* process_set_paused.
SetPaused(paused) ==
    /\ flags' = [flags EXCEPT !.paused = paused]
    /\ UNCHANGED <<config, pending, admin, nominee, posted, tokens, now, worth>>

\* Mutant: the proposed key becomes admin at once.
TransferAdminAtOnce(key) ==
    /\ admin' = key
    /\ UNCHANGED <<config, pending, flags, nominee, posted, tokens, now, worth>>

\* process_transfer_admin, to any key but the zero key.
TransferAdmin(key) ==
    /\ nominee' = key
    /\ UNCHANGED <<config, pending, flags, admin, posted, tokens, now, worth>>

\* process_accept_admin, signed by key.
AcceptAdmin(key) ==
    /\ nominee # Nobody /\ nominee = key
    /\ admin' = nominee /\ nominee' = Nobody
    /\ UNCHANGED <<config, pending, flags, posted, tokens, now, worth>>

\* process_genesis_mint.
GenesisMint(s, amount) ==
    /\ amount > 0 /\ ~flags.genesis_done
    /\ supply + amount <= MaxSupply
    /\ supply' = supply + amount
    /\ wallet' = [wallet EXCEPT ![s] = @ + amount]
    /\ flags' = [flags EXCEPT !.genesis_done = TRUE]
    /\ UNCHANGED <<config, pending, admin, nominee, posted, stake, vault, treasury, minted, now, worth>>

\* The instructions admin must sign; a key nobody holds signs nothing.
AdminSigns ==
    /\ admin \in Keys
    /\ \/ \E p \in Proposals : QueueUpdate(p)
       \/ CancelUpdate
       \/ \E paused \in BOOLEAN : SetPaused(paused)
       \/ \E key \in Keys \cup Unowned : TransferAdmin(key)
       \/ \E s \in Stakers, amount \in Grants : GenesisMint(s, amount)

\* A second passes: every staked token is worth MaxRate more.
Tick ==
    /\ now < MaxTime
    /\ now' = now + 1
    /\ worth' = [s \in Stakers |-> worth[s] + stake[s].amount * MaxRate]
    /\ UNCHANGED <<governance, tokens>>

Next ==
    \/ \E s \in Stakers : \/ \E amount \in Deposits : Stake(s, amount) \/ Spend(s, amount)
                          \/ Unstake(s) \/ Claim(s)
    \/ AdminSigns
    \/ \E key \in Keys : AcceptAdmin(key)
    \/ ApplyUpdate
    \/ Tick

Spec == Init /\ [][Next]_vars

-----------------------------------------------------------------------------
(* Properties.                                                             *)

StakeAccount == [open : BOOLEAN, amount : Nat, staked_at : Nat, reward_from : Nat, pending : Nat]

\* Types; no balance, stake or accrual is ever driven below zero.
TypeOK ==
    /\ config \in [Fields -> Int] /\ WellTyped(config)
    /\ pending \in [active : BOOLEAN, queued_at : Nat, to : [Fields -> Int]]
    /\ WellTyped(pending.to)
    /\ flags \in [paused : BOOLEAN, genesis_done : BOOLEAN]
    /\ admin \in Keys \cup Unowned /\ nominee \in Keys \cup Unowned \cup {Nobody}
    /\ stake \in [Stakers -> StakeAccount]
    /\ wallet \in [Stakers -> Nat]
    /\ {vault, treasury, supply, posted} \subseteq Nat
    /\ now \in 0..MaxTime
    /\ minted \in [Stakers -> Nat] /\ worth \in [Stakers -> Nat]

Principal == SumFunctionOnSet([s \in Stakers |-> stake[s].amount], Stakers)

\* process_unstake, "Withdrawals/claims must NEVER fail (user funds are never
\* frozen)": whatever the order of deposits, payouts and governance, the vault
\* covers all principal, so that the transfer of the last one out succeeds
\* too; and every token is in one of the balances.
Solvent ==
    /\ Principal <= vault
    /\ supply = vault + treasury + SumFunctionOnSet(wallet, Stakers)

\* Config.max_supply, "no mint path can escape it": genesis and rewards of all
\* stakers together never take the supply over the cap.
SupplyCapped == supply <= MaxSupply

\* StakeAccount::settle credits an accrual once: through any sequence of
\* top-ups, claims, exits and rate changes a staker is paid and owed at most
\* what the highest rate pays on the principal for the time it was staked.  (An
\* upper bound: that nothing accrued is lost is not claimed.)
RewardsAreEarned ==
    \A s \in Stakers : (minted[s] + stake[s].pending) * Year <= worth[s]

\* process_queue_update, "the new values sit in config.pending for the whole
\* timelock window": live parameters change only to valid values that were
\* published, without interruption, for the timelock that was live before.
NoSurprise ==
    [][config' # config => /\ config' = pending.to /\ Valid(config')
                           /\ now - posted >= config["timelock"]]_vars

\* docs/STAKING.md, "control can never be handed to an unowned key".
AdminCanSign == admin \in Keys

\* README.md, "users always get an exit window before any parameter change
\* takes effect": who was staked when an update was queued could have
\* unstaked by the time it is applied.
ExitWindow ==
    [][config' # config =>
         \A s \in Stakers : stake[s].amount > 0 /\ stake[s].staked_at < pending.queued_at
                              => CooledDown(s)]_vars

=============================================================================
