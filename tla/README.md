# BitsFlea marketplace contract: specifications and proofs

The repository holds one EOSIO/BOS smart contract, `bitsfleamain`: a
second-hand marketplace with escrow, returns, disputes decided by elected
reviewers, and a point token (FMP). This directory models the contract in TLA+,
checks the model with TLC on small instances and proves its central invariants
with TLAPS for all instances.

Source files are named without `src/bitsfleamain/src/`.

## 1. The system

| Part | State | Operations |
|---|---|---|
| Users and credit (`platform.cpp`, `include/user.hpp`) | `users`: credit, lock, reviewer flag, counters, points | `reguser`, `setprofile`; `AddCredit`, `SubCredit`, `IsLockUser` called by every other part |
| Catalog (`market.cpp`) | `products`, `proaudits`, point pools | `publish`, `pulloff`, `review` |
| Orders and delivery (`market.cpp`) | `orders` | `placeorder`, `cancelorder`, `cleanorder`, `setpayaddr`, payment by a transfer notification, `shipment`, `deferreceipt`, `conreceipt` |
| Returns (`market.cpp`) | `returns` | `returns`, `reshipment`, `deferreturn`, `reconreceipt` |
| Settlement (`market.cpp`) | `_global.income`, deferred transactions | `EndOrder`, `Settle`, `PayCoin`, `Refund` |
| Disputes (`platform.cpp`, `include/review.hpp`) | `arbitrations` | `applyarbit`, `inarbit`, `updatearbit` |
| Reviewers (`platform.cpp`) | `reviewers` | `appreviewer`, `votereviewer` |
| Token (`token.cpp`) | supply and balances of each token | `create`, `issue`, `claim`, `retire`, `transfer`, `closetoken` |
| Dividends (`platform.cpp`) | `sync_data`, `last_income` | `startsync`, `endsync` |
| Withdrawal (`market.cpp`, `platform.cpp`) | `othersettle`, `otheraddr`, `coins` | a transfer with the memo `w:`, `bindaddr`, `updatecoin`, `closesettle` |
| Life cycle (`bitsfleamain.cpp`) | the `global` row | constructor and destructor, `init`, `reset`, `cleanscope`, `setcfg` |
| Table log (`bitsfleamain.cpp`) | `tablelogs` | `AddTableLog`, `deletelog` |
| Auctions (`market.cpp`) | `proauction` | written by `publish`; `BidAuction` has no caller |

How they interact. The contract has no processes. Everything runs as a
transaction that takes effect as a whole or not at all, so concurrency is the
order in which transactions of buyers, sellers, reviewers and the platform
arrive. Three things are not part of the transaction that causes them:

* *Payouts are deferred transactions.* `Settle`, `Refund` and the gift of
  `conreceipt` send a transaction to be run at least 5 seconds later. It may be
  late, may fail and may expire; `OnError` is empty, so nobody notices.
  Its sender id is a tag and the current second, and the chain aborts a send
  whose id is still pending.
* *Payments arrive as notifications* of three token contracts (`eosio.token`,
  `bosibc.io`, the contract itself). A payment that does not fit an order fails
  and is returned.
* *Tables refer to each other by keys that are reused.* A row id is one more
  than the highest id in the table, so it comes back after an erase; an order
  also has a 128-bit `oid` made of buyer, product and time, and a return is
  found by the `oid` in one file and by the row id in the other.

What is hard. One product's status is written by six handlers on behalf of
five kinds of users; an order can leave most states in three ways; money is
promised when an order is decided and leaves later; counters, pools and the
reviewers table are each kept in two places. What makes each part right:

* catalog: what waits for review comes on sale by a review; rewards are paid once
  and from pools that can pay;
* orders: one product, one buyer; a decided order stays decided;
* settlement: what comes in equals what goes out; each order is paid out once,
  to the right side; the contract can always pay what it owes;
* returns and disputes: while the buyer's money is held there is a case that can
  release it, and every lookup finds the row it means;
* credit and reviewers: the flag, the table and the votes agree; pools pay for
  what they promise;
* token and dividends: supply is what is in circulation and keeps to its maximum,
  the team's share to its pace; what is read as dividends has been set aside;
* withdrawal and life cycle: what is asked for stands until it is closed and goes
  to an address its user has bound, and a reset does not lose it.

## 2. Modules

| Module | Models | Variables |
|---|---|---|
| `Fees` | the split of a payment, the gift of points (pure) | |
| `Credit` | `users`, `reviewers`, the credit rules | `users`, `reviewers` |
| `Catalog` (extends `Credit`) | `publish`, `pulloff`, `review`, pools, supply | `products`, `audits`, `pools`, `minted` |
| `Trade` (extends `Catalog`, `Fees`) | orders, payments, delivery, returns, deferred payouts, time | `now`, `orders`, `proreturns`, `deferred`, `vault`, `income` |
| `Market` (extends `Trade`) | disputes composed with everything above, and the mapping to `Escrow` | `arbs` |
| `Escrow` | what an order promises, abstractly | `now`, `stage`, `deal`, `owed`, `kept` |
| `Reviewers` (extends `Market`) | registration, referrals, application and votes, composed with everything above | `registered`, `referral_total`, `ref_pool`, `ballots` |
| `Keys` | the numbering of rows (pure) | |
| `Token` | `stat` and `accounts`: create, issue, claim, retire, transfer | `stats`, `balances`, `day` |
| `Points` (extends `Token`) | the point column and the dividend | `members`, `point`, `sync_data`, `income`, `last_income`, `last_supply`, `last_time` |
| `Withdrawal` (extends `Token`) | addresses, withdrawals, `closesettle` | `eosid`, `coins`, `otheraddr`, `othersettle` |
| `Lifecycle` (extends `Withdrawal`) | `init`, `reset`, `cleanscope`, `updatecoin` composed with tokens and withdrawals | `is_init`, `pools` |
| `MCCatalog`, `MCTrade`, `MCMarket`, `MCReviewers`, `MCPoints`, `MCLifecycle` | values of the constants for TLC | |
| `Sums` | nothing of the code: lemmas about the library's sum of a function over a finite set | |
| `TradeProofs` (with `Catalog`), `MarketProofs`, `EscrowProofs`, `ReviewersProofs`, `TokenProofs`, `PointsProofs`, `LifecycleProofs` | theorems | |

Two families share the code's tables between them. `Credit` to `Reviewers` is the
market: there the token is only `minted`, what may still be issued, and the
users' credit. `Token` to `Lifecycle` is the ledger: there the market is only
the income it books and the balances that move. The seam is `issue`, whose bound
both have (`CanIssue`, `MintableOf`), and `BookIncome`, which is `earn` in
`Points`.

Names are those of the code. An action is a whole handler: its checks are the
guards, and everything the handler writes, credit, pools, counters and the
product included, happens in one step. `publish` is two actions (a new row, and
the early-returning branch for a delisted one). `review`'s two outcomes and
`updatearbit`'s branches are definitions named for what they decide. A table is a
function over row ids whose value is the row or the record with the status
`NONE`; `IsNextId` is `available_primary_key` with the `id == 0 ? 1 : id`
correction where the handler has it (`verdictReturn` starts from 0, as
`updatearbit` lacks it). `deferred` holds the sent transactions; the chain
delivers one (`ExecutePayout`, `ExecuteGift`) or loses it (`DropDeferred`) once
it is mature. `vault` is the contract's balance on each of the three ledgers.
An `oid` is the triple of its parts, so the row id that `updatearbit` uses as a
key is a triple without buyer and product.

`Escrow` knows neither products nor returns, disputes or keys: an order is
absent, unpaid, funded, settled or refunded; deciding sends one payout, and what
a settlement does not pay out is the platform's. `Promise` in `Market` maps the
status of an order to its stage, price and postage to its deal, the sent
transactions that are not gifts to the payouts owed and `income` to what is
kept. A handler that moves no money maps to a stutter; `conreceipt`, and a
verdict for the seller, to `Settle`; `reconreceipt`, and a verdict that refunds,
to `Refund`; `cancelorder` and `cleanorder` to `Drop`.

In `Reviewers` the users are those `reguser` has added; a step of the market
opens cases between them only, and `DropBallots` lets the votes of a row go with
it. In `Points`, `stale` and `fresh`
are history: the accounts whose last move the point column missed, and whether
a sync began with no point above its balance. In `Lifecycle`, `orphaned` is
history: the balances a reset has left without a supply.

Abstractions:

* Texts, categories, photos, addresses and shipment numbers are left out, and so
  are `posts_total` and the table log, which no handler reads. Addresses on
  other chains are model values.
* A row of `accounts` with nothing on it is the same as none, so `closetoken`
  changes nothing. `issue` and `claim` mint to the issuer and transfer to the
  receiver in one transaction, which is one step here.
* `init` lists the coins of other chains with their fees; EOS, which it lists
  without creating a token, cannot be withdrawn and is left out. Categories are
  left out. `reset` clears products, audits and reviewers too: `Lifecycle` has
  only the users, coins, addresses, withdrawals and tokens. A reset stays within
  `ClearMax` rows of each table, the first ones; which coins come first by symbol
  code is left open.
* `publish` checks the sign of neither price nor postage. Products have amounts
  that are not negative: the platform signs each `publish`.
* Signatures: an action is enabled for the party the handler checks by uid. The
  handlers do not compare the uid with the account that signs; nothing here
  depends on it. A majority of a panel may always sign a verdict; whether the
  platform, whose signature `updatearbit` asks for as well, signs it is the
  subject of the next section.
* Ratios are rationals with one denominator and products are floors. The code
  multiplies doubles and truncates, which may differ by one unit of the coin;
  `SplitConserves` does not depend on it, since every part is computed from the
  truncated ones. `setcfg` (`bitsfleamain.cpp:179`) bounds a ratio from below
  only; `TradeRates` assumes `RatesCapped`, that no share is above 1, in `Trade`
  and what extends it. Without it a fee makes the seller's share negative.
* `Word`, the size of `uint32_t`, is a constant: 2^32 in the code, 2^30 in
  the runs, as TLC's integers have 32 bits, and 8 in `Reviewers`.
* `GiftsOpen` says whether 10000 users have registered. `Mintable` is what
  `issue` may still mint; the platform's own calls of `issue` are not modelled,
  nor is money sent to the contract without a payment memo.
* `OtherOids` are the oids, beside those of orders that exist, that an order case
  may name: `applyarbit` accepts it, and it concerns whatever order gets the oid
  afterwards (`applyarbitEarly`). The other types of case may name an order as
  well, which is never looked at and left out.

An assumption on the platform. `updatearbit` checks neither the status of the
case nor that of the order it finds by the oid of the case. So a verdict sent
again, or one in a case filed before its order, decides the order in any state:
unpaid, completed, under return. The only other thing a verdict needs, beside
its reviewers, is the contract's own signature. `MarketSpec` is the market of a
platform that signs whatever it is sent. `AwaitedSpec` is the market of one that
signs a verdict on an order only while the order waits in `OS_ARBITRATION`
(`IsAwaited`); cases may still be filed early, several about the same order,
and their verdicts sent more than once. The code enforces nothing of the kind,
the run `EarlyVerdict` shows what happens without it, and every result below
says which of the two it is about. `AwaitedReviewersSpec` is the same for
`Reviewers`.

Beside some definitions stands a variant marked *Mutated*: the same handler with
a guard or an update missing. No specification uses it; it is put in the place
of the original to see that the property it concerns notices.

## 3. Runs

| Run | Module | Properties | Shows |
|---|---|---|---|
| `Catalog` | `MCCatalog` | `CatalogTypeOK` `PoolsBacked` `RewardedOnce` | listing and review, with pools that run dry |
| `Trade` | `MCTrade` | `TypeOK` `SaleIsExclusive` `Solvent` `CountersAreExact` `GiftsBacked` `OnlyReviewSells` `OutcomeIsFinal` `PayoutFollowsOutcome` | two buyers, one product, pulloffs, postponements, returns, gifts, lost payouts |
| `Market` | `MCMarket` | `MarketInv` `Solvent` `CountersAreExact` `ReturnHasCase` `OutcomeIsFinal` `PayoutFollowsOutcome` `EscrowIsKept` | `AwaitedSpec`: disputes about an order, one case possibly filed before it, on the contract's own ledger, and that the whole implements `Escrow` |
| `Verdicts` | `MCMarket` | `ReturnHasCase` `FlagHasRow` | `MarketSpec`: order cases, early ones included, and complaints against a seller who is a reviewer, verdicts in any state and again |
| `Reviewers` | `MCReviewers` | `ReviewersTypeOK` `FlagIsVotedFor` `BallotsAreExact` `EveryPoolBacked` `ReferralsAreExact` | three users register, refer, apply and vote; a delisting takes credit, a complaint the office |
| `Points` | `MCPoints` | `PointsTypeOK` `SupplyIsBalances` `SupplyWithinMax` `TeamShareVests` `PointsFollowBalances` `DividendIsCovered` | supply and points while dividends are read |
| `Lifecycle` | `MCLifecycle` | `LifecycleTypeOK` `LedgerIsExact` `WithdrawalsStand` `PaidWhereBound` | deposits and withdrawals of two users around `init`, a changed fee, a closed coin and a reset |

Bounds. The constants `MaxPid`, `MaxAudits`, `MaxOrders`, `MaxReturns`,
`MaxArbs` and `Horizon` bound the tables and the clock of the market, `MaxUid`
and the like those of the other families; each handler that adds a row is
disabled at its bound. One product with two orders is what it takes for two
buyers to meet; a return row more than one lets a completed return stay beside
an open one; time runs far enough for a payment to expire, a receipt to be late
and a payout to mature. Timeouts are a second long. Pools are chosen so that they
pay some rewards and not the last one, prices so that every share of a split is
positive in some runs. `Trade` postpones a receipt and a return once each, and
trades the coin of the chain and, without returns, one that the contract issues
itself, with four decimals more than FMP; `Market` trades the latter and
`Verdicts` one that comes over the bridge. In the market runs an early case names
the first order of its buyer; two cases are what it takes for one to outlive the
other. `Verdicts` sets the
penalty of a verdict to 0, since repeated verdicts would otherwise take the
credit through all of `Word`. `Reviewers` has no orders, since votes and flags
do not depend on them; three users are what it takes for a vote to cross zero
both ways. With three users nobody has more than two voters, so that no vote is
refused as a list is full; `Word` is 8 there, so that credit wraps. `Points` has
two holders and the contract, so that points move between two users, or to one
who has not registered, during a sync, and four points, half of them the
team's, over two days. `Lifecycle` has two users, one of them the gateway, who may
both bind an address for the one coin that can be withdrawn, two addresses and
two withdrawals, with `SettleKeep` 1 for the 500 rows of `closesettle` and
`ClearMax` 1 for those of `clear_table`, so that both limits are met. Buyers
(`Trade`) and addresses (`Lifecycle`) are symmetric. Deadlock is not checked:
when the clock has reached `Horizon` and the tables are full a state may have no
successor.

No liveness is claimed, and no specification has fairness. The contract schedules
nothing itself: each of its handlers waits for somebody to send it. What the
chain does schedule, the deferred payouts, it may drop, and then nobody sends
them again.

Runs that end with a violation, each a disagreement of the code with what it
says of itself:

| Run | Property | What happens |
|---|---|---|
| `DoubleSale` | `OneBuyerPerProduct` | `cancelorder` (`market.cpp:242`) on an order whose return is complete puts the product on sale again although another buyer holds it |
| `PickupRefund` | `RefundIsDeliverable` | with no postage `Refund` sends a transfer of 0 (`market.cpp:645`); the token refuses and the whole refund fails |
| `VerdictReturn` | `ReturnCanBeShipped` | the return a verdict opens is stored under the row id (`platform.cpp:313`); `reshipment` looks under the oid |
| `EarlyVerdict` | `VerdictsOnOpenOrders` | `applyarbit` (`platform.cpp:183`) accepts a case for an oid no order has; the order that gets it is decided by one verdict (`platform.cpp:281`) while it is unpaid |
| `ForeignAddress` | `BoundBeforeWithdrawn` | `OnMyTransfer` (`market.cpp:438`) searches past the rows of the user and has the coin paid to the address of the next one |

`SaleIsExclusive` and `OnlyReviewSells` are what remains true beside `DoubleSale`:
until a return of the product has completed no two orders hold it, and what
waits for a review is put on sale by nothing else; after one, the buyer who
removes his cancelled order puts the product on sale whatever its state.
`ReturnHasCase`, with the types, the pools and the flags of the reviewers, is
what remains true beside `EarlyVerdict`. `PaidWhereBound` is what remains
true beside `ForeignAddress`: who has bound an address for the coin is paid
there. `DividendIsCovered` is claimed for a sync that begins with no point above
its balance: points that move during a sync stay counted with the sender, and
with the receiver as soon as he is written, so the sync after it may claim more
than it has set aside (TLC finds such a state as soon as `fresh` is dropped).

Four more disagreements are in the model, and in no run of their own:
`SubCredit` (`platform.cpp:386`) subtracts in a `uint32_t`, so a penalty above
the credit that is left wraps to almost 2^32 (`SubCredit` in `Credit` wraps as
well, and credit wraps in the run `Reviewers`; `Catalog` starts high enough for
`RewardedOnce` to hold);
`Refund` (`market.cpp:641`) pays EOS and USDT from the contract's own ledger
although they came in over `bosibc.io`, which is why `Solvent` is about coins
that are paid in, settled and refunded on one ledger; `applyarbit`
(`platform.cpp:185`) refuses a paid order that is not shipped; and `inarbit`
(`platform.cpp:240`) lets one reviewer join a case until it has enough.

## 4. Theorems

All are proved for every value of the constants that satisfies the assumptions
of the modules (`RatesAssumption`, `CreditAssumption`, `CatalogAssumption`,
`TradeAssumption`, `TradeRates`, `MarketAssumption`, `ReviewersAssumption`,
`TokenAssumption`, `PointsAssumption`, `WithdrawalAssumption`,
`LifecycleAssumption`). Of these, `TokenAssumption` says that the accounts are
finitely many: an account name is a 64-bit number. `TradeRates` and the products
without negative amounts are assumptions on the platform, as is `AwaitedSpec`,
which the theorems name where they need it.

| Theorem | States |
|---|---|
| `TradeProofs!SplitConserves` | the four shares sum up to the payment, whatever the rates; `RatesCapped` gives that none is negative |
| `TradeProofs!CatalogTypeCorrect` | `CatalogSpec => []CatalogTypeOK` |
| `TradeProofs!PoolsAreBacked` | `CatalogSpec => []PoolsBacked` |
| `TradeProofs!RewardsArePaidOnce` | `CreditCovers` gives `CatalogSpec => []RewardedOnce` |
| `TradeProofs!TradeTypeCorrect` | `TradeSpec => []TypeOK` |
| `TradeProofs!GiftsStayBacked` | `TradeSpec => []GiftsBacked` |
| `EscrowProofs!TradeIsSolvent` | `TradeSpec => []Solvent` |
| `MarketProofs!MarketTypeCorrect` | `MarketSpec => []MarketTypeOK` |
| `MarketProofs!MarketIsConsistent` | `AwaitedSpec => []MarketInv` |
| `MarketProofs!SalesAreExclusive` | `AwaitedSpec => []SaleIsExclusive` |
| `MarketProofs!OutcomesAreFinal` | `AwaitedSpec => OutcomeIsFinal` |
| `MarketProofs!ReturnsAreNotForgotten` | `MarketSpec => []ReturnHasCase` |
| `MarketProofs!CountersCount` | `AwaitedSpec => []CountersAreExact` |
| `MarketProofs!NothingSellsUnreviewed` | `AwaitedSpec => OnlyReviewSells` |
| `MarketProofs!MarketGiftsStayBacked` | `MarketSpec => []GiftsBacked` |
| `EscrowProofs!MarketIsSolvent` | `AwaitedSpec => []Solvent` |
| `EscrowProofs!MarketKeepsEscrow` | `AwaitedSpec => EscrowIsKept` |
| `EscrowProofs!PayoutsFollowOutcomes` | `AwaitedSpec => PayoutFollowsOutcome` |
| `ReviewersProofs!FlagNeedsRow` | `MarketSpec => []FlagHasRow` |
| `ReviewersProofs!ReviewersTypeCorrect` | `ReviewersSpec => []ReviewersTypeOK` |
| `ReviewersProofs!FlagNeedsVotes` | `ReviewersSpec => []FlagIsVotedFor` |
| `ReviewersProofs!BallotsCount` | `ReviewersSpec => []BallotsAreExact` |
| `ReviewersProofs!ReferralsCount` | `ReviewersSpec => []ReferralsAreExact` |
| `ReviewersProofs!EveryPoolStaysBacked` | `ReviewersSpec => []EveryPoolBacked` |
| `ReviewersProofs!WholeIsConsistent` | `AwaitedReviewersSpec => []MarketInv` |
| `ReviewersProofs!WholeIsSolvent` | `AwaitedReviewersSpec => []Solvent` |
| `ReviewersProofs!WholeKeepsEscrow` | `AwaitedReviewersSpec => EscrowIsKept` |
| `PointsProofs!PointsTypeCorrect` | `PointsSpec => []PointsTypeOK` |
| `PointsProofs!SupplyBounded` | `PointsSpec => []SupplyWithinMax` |
| `PointsProofs!TeamVests` | `PointsSpec => []TeamShareVests` |
| `PointsProofs!PointsFollow` | `PointsSpec => []PointsFollowBalances` |
| `PointsProofs!SupplyIsSomebodys` | `PointsSpec => []SupplyIsBalances` |
| `PointsProofs!DividendsAreCovered` | `PointsSpec => []DividendIsCovered` |
| `LifecycleProofs!LifecycleTypeCorrect` | `LifecycleSpec => []LifecycleTypeOK` |
| `LifecycleProofs!SupplyBoundedThroughResets` | `LifecycleSpec => []SupplyWithinMax` |
| `LifecycleProofs!WithdrawalsAreKept` | `LifecycleSpec => WithdrawalsStand` |
| `LifecycleProofs!PaidToOwnAddress` | `LifecycleSpec => PaidWhereBound` |
| `LifecycleProofs!LedgerStaysExact` | `LifecycleSpec => []LedgerIsExact` |

*The type theorems* carry subtraction: a pool, a ledger balance and an income
are natural numbers because each handler compares before it subtracts. `TypeOK`
is inductive together with `ProductsExist` (the product of an order has a row),
which the handlers that write `products[orders[i].pid]` rely on.

*The inductive invariant* `MarketInv`. Exclusivity is not inductive: a product
goes back on sale when its order is cancelled, when its return is received and
when a verdict is given, and each of these steps finds its rows by a key. So the
invariant says, besides the types:

* `OrderKeysOK`: an order's key contains its product and no two orders share a key;
* `ReturnsOK`: an open return belongs to an order in `OS_RETURN`, the only one
  it can be found by and with no other open return; a completed one has a
  buyer's key, never a bare row id. `reconreceipt`, which does not look at
  the state of the order, therefore acts on an order under return only;
* `CancelledIsReturned`: an order is `OS_CANCELLED` only after a completed
  return of its product, so the one way `cancelorder` has to free a product that
  others hold needs such a return, which `SaleIsExclusive` excepts.

It is invariant of `AwaitedSpec`. It says nothing of the cases: that an order
waits in `OS_ARBITRATION` is asked at the verdict, so it does not matter when the
case was filed, or that its verdict is not the first. From it follows that such
a verdict never finds a return under the row id of its order (`DecidedOrder`), so
the branches *refund* and *redeliver* are taken in `MarketSpec` only, which
`Verdicts` explores. Of `MarketSpec` the invariant is false: a verdict sent again
finds the return the first one opened and decides the order again, which leaves
`OS_RETURN` while that return stays open.

The proofs have a lemma for each action, or for each group that changes the same
tables in the same way (`SalesFrame`, `OneOrderSales`, `OneReturnSales`,
`RemoveOrders`).

*What follows from it.* `CountersAreExact` is inductive next to `MarketInv`, by
which an order is never completed or cancelled twice, so that the set of
completed orders grows by one with each count (`CountOne`, with
`FiniteSetTheorems`). `OnlyReviewSells` needs that the product of an order is held
unless a return of it has completed (`OrderHolds`): then no cancellation, cleaning
or receipt finds it waiting for review. `PayoutFollowsOutcome` needs, beside
`MarketInv`, that `CanSend` makes every payout sent a new one.

*Without the assumption.* `ReturnHasCase` is proved of `MarketSpec`, next to
`OrderKeysOK` and the types: two orders never share an oid or a row id, so the
step that ends a return is the one that takes its order out of `OS_RETURN`,
whatever case it comes from, and a verdict that moves an order into a return
opens one. The types, what backs the pools and the flags of the reviewers are
proved of `MarketSpec` as well.

*The refinement.* Each action of `AwaitedSpec` is shown, under `MarketInv`, to be the
step of `Escrow` it maps to, or to leave the mapped variables alone. The
invariant is what makes it true: without it a verdict could find the return of
another order, or decide one twice.

*Reviewers.* `FlagHasRow` is proved for `MarketSpec`, all its verdicts included:
only `DismissReviewer` takes a row and it takes the flag first, `SubCredit` takes
the flag and leaves the row. The stronger `FlagIsVotedFor` needs that the votes
of a row are those `BallotsAreExact` counts and that a new row starts from none;
`ReferralsAreExact` needs that uids are given in order, so that a new user is
nobody's referrer yet. Cardinalities change by one element at a time and use
`FiniteSetTheorems`.

*Token.* `TokenProofs` has a lemma for each action of `Token`, which `Points` and
`Lifecycle` use: the maximum with the team's share held back, the share and its
pace (an inequality between two products, since the code multiplies a truncated
quotient by the days) and the types are inductive together.

*Withdrawals.* `PaidWhereBound` needs that a user has one row for a coin
(`OneAddress`), which `bindaddr` keeps as it searches the user's rows first, and
that the search begins at the user: then no row of a user after him comes before
his own. `WithdrawalsStand` needs that `closesettle` removes only paid rows.

*Sums.* Supply, dividends, gifts and money under way are sums over tables.
`SumFunctionOnSet` of the community modules is a recursive choice over sets;
`Sums` shows that it adds its terms in any order (`SumAdd`, `SumRemove`,
`SumChange`), is told by its terms (`SumSame`), grows with them (`SumAtMost`) and
is a multiple where they are equal (`SumConstant`). There is no induction in
these proofs: among the subsets of a finite set where the claim fails one is
minimal (`MinimalSubset`, from the well-foundedness of the strict subset order),
and one element less gives the contradiction. Each property then needs the one
or two terms a step changes.

*Ledgers.* `SupplyIsBalances` follows action by action of `Token`. In `Lifecycle`
a reset removes the row of a token and not its balances: `LedgerIsExact` is
inductive with the fact that a token without a row has no supply.
`DividendIsCovered` is two facts: at `startsync` no point is above its balance,
so all claims together are at most the supply (`ClaimsAtMost`), and as the
amount set aside is a whole number of units for each point they fit; during a
sync no claim changes, since moves are not recorded and a new member claims
nothing (`ClaimsKept`).

*Points promised.* `GiftsBacked` and `EveryPoolBacked` are proved from a stronger
fact about steps: what is minted, in the pools and in gifts under way never
grows. A review moves points from a pool to the supply, `conreceipt` from the
pool to a gift, a gift that is delivered to the supply, and one that is lost
is gone.

*Solvency.* `Solvent` compares the contract's balance on the ledger of a coin
with three sums: orders in escrow (`Escrowed`), payouts under way (`Due`) and
the income. Each handler moves an amount from one to another, or into or out
of the balance: a payment raises balance and escrow; a decision takes the order
out of the escrow and splits its price and postage exactly into payout and
income (`SplitConserves`); a payout that runs takes the same from balance and
`Due`; one that fails or expires only lowers `Due`. It needs `MarketInv`: a row
that goes is unpaid or refunded, and a decision is made about an order in
escrow, or the amount would leave the escrow twice. The payouts under way have
to be finitely many, which every step keeps.

*Rewards.* `RewardedOnce` is false once a credit wraps (section 3), so its theorem
says for whom it holds: `CreditCovers`, users whose
credit covers a penalty for each of the `MaxPid * MaxAudits` reviews the bounds
allow and stays below `Word` with each reward (in the run `Catalog` 4 reviews of
5 against 500). Penalties and rewards are inductive only together: that the
credit covers the next penalty comes from the number of reviews so far (a sum),
that a reward does not wrap from the number of products already rewarded.

*The whole.* Registrations, applications and votes write neither orders,
products, returns and cases nor money, so `MarketInv`, `Solvent` and the
refinement hold of `AwaitedReviewersSpec` too, where users come and reviewers change
while the market runs.

Every invariant and every action property of the passing runs is stated by a
theorem above, with the assumption it needs: `CreditCovers` for `RewardedOnce`,
`AwaitedSpec` for `MarketInv` and what follows from it. Model-checked only are the
five violations, and that `Market`, `Verdicts` and the other runs reach every action.

## 5. Not modelled, and the plan

In the order in which they are worth adding:

1. `setcfg`: ratios that change between payment and decision. The code bounds
   them below only; a fee above 1 makes the seller's share negative.
2. The rest of `reset`: products, audits and reviewers go, orders, returns and
   cases stay and refer to uids and product ids that are given again.
3. `TableLog`: ids and deletion. Ids start from 1 again when the log is empty, so
   a `deletelog` sent twice removes rows nobody has read; the reader that would
   have to be modelled is not in the repository.
4. `total_users`, which `reguser` counts and an `init` after it sets back to 0,
   and `setprofile` and `setpayaddr`, which store texts.

Left out for good: auctions (`BidAuction` has no caller), the conversions of
`tools/include`, the shell scripts and the generated files, and
`tests/platform_tester.cpp`, which predates the current actions.

## 6. Running

    tlc -workers 2 -config Market.cfg MCMarket
    tlapm MarketProofs.tla

Each configuration names its module in the tables above. The longest run takes
about three minutes, the proofs of each module at most a few.
