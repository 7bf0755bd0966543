# Vehicle marketplace API: specifications, model checking and proofs

TLA+ specifications of the NestJS backend in this repository: what its
services do to PostgreSQL and Redis, step by step, with everything that can
come in between. Paths below are relative to the repository, whose NestJS
sources are under `src/src` of the tree the map in `PROJECT.json` refers to.

## 1. The system

All API instances are stateless: every request works on PostgreSQL (through
Prisma), Redis (cache, counters, pub/sub) and MinIO (files). Jobs with a delay
go through Bull queues in Redis. What can interleave is therefore *requests,
jobs and crons of any instance, at every `await`*.

| Component | State it keeps | Operations that change it | Talks to |
|---|---|---|---|
| wallet (`modules/wallet`) | tables `wallets`, `transactions`, `withdrawals` | getOrCreateWallet, topUp, requestWithdrawal, processWithdrawal | - |
| auctions, bidding (`auctions.service.ts` placeBid) | `auctions.current_price/total_bids`, `bids` and, in the same transaction, wallets and ledger | placeBid | wallets (shared rows), Redis pub/sub |
| auctions, lifecycle (`auctions.service.ts`, `auction.processor.ts`) | `auctions.status/winner_id`, `vehicles.status`, Bull jobs | create, endAuction, cancelAuction, handleStartAuction, handleEndAuction | vehicles, Bull, Redis pub/sub |
| auth (`modules/auth`) | `users`, `otp_codes`, `refresh_tokens`; Redis `otp:*`, `blacklist:*` | register, verifyOtp, login, refreshToken, logout, setPassword, requestPasswordReset, resetPassword, generateOtp | Redis |
| vehicles (`modules/vehicles`) | `vehicles`, `vehicle_images`, MinIO objects, Redis `vehicle:views` | create, update, publish, delete, uploadImages, deleteImage, view counting and its flush, orphan cleanup | storage, Redis |
| chat (`modules/chat`) | `chat_rooms`, `chat_messages`, Redis `unread:*`, `idempotency:chat:*` | sendMessage, markAsRead, gateway rooms | Redis pub/sub |
| idempotency (`common/interceptors`) | Redis `idempotency:global:*` | intercept | every POST/PUT/PATCH handler |
| admin, users (`modules/admin`, `modules/users`) | `users.status/role`, `vehicles.status`, avatars, `audit_logs` | deactivate/activate, approve/reject vehicle, profile, avatar, role | auth, vehicles, storage |
| notifications (`modules/notifications`) | `notifications` | create, markAsRead, markAllAsRead | Redis pub/sub |
| search, health, metrics, logging, config, seed | nothing, or in-process counters | reads, or start-up only | - |

### What is hard about it

* **READ COMMITTED.** Prisma opens `$transaction` at PostgreSQL's default
  level. A value read and then used in a later statement can be stale; only the
  row locks of UPDATE and `SELECT ... FOR UPDATE` order transactions.
* **Sequences of calls without a transaction** (auction creation, token
  rotation, message sending, file and row): a crash or a failure in between
  leaves a part of them done.
* **Check, then act** on Redis or the database from several instances.
* **Jobs** that are delayed, stall, run twice or fail without retry, racing with
  requests on the same rows.

The list, with the line where each hazard bites and the property that
covers it, is `hazards` in `PROJECT.json`.

### What makes each part correct

* **Wallet.** The balance is the sum of the ledger; each movement takes effect in
  one step, with its row and the withdrawal it belongs to; a withdrawal is settled
  once, refunded only by its rejection and in full, and marked as completed only by
  an approval; every request ends; and a top-up repeated with its idempotency key is
  paid once. (That the balance never becomes negative is what the code intends and
  does not achieve.)
* **Bidding.** Bids climb by the increment, the price is the highest bid, exactly the
  bids that no other user's bid followed are paid for, only committed bids are
  announced, and all of it looks as if each bid, with the money it moves, were one
  step. Deposits, withdrawals, bids and balances add up. Every bid ends, though bids
  on two auctions may deadlock and need the database to break the circle.
* **Auction lifecycle.** No bid outside ACTIVE, at most one bid is missed by
  the end, SOLD exactly with a winner, and a due auction is closed unless its end job
  failed. (That a failed job is retried is what `ARCHITECTURE.md` says and the code does
  not do.)
* **One-time codes.** An accepted code is spent in both places, and the cache
  is never behind the table.
* **Sessions.** Refresh tokens are families: each is exchanged once, for a later one of
  the same user, and revoked for good; Redis refuses nothing that the table still allows.
* **Chat.** One room per pair and vehicle, one message per key, counters that
  agree with the rows: each up to the overlaps the code does not guard against.
* **Vehicles.** A row for every file and a file for every row, no image without
  a vehicle, no deletion of a vehicle that was auctioned, an avatar that
  is there: each up to removals that fail half way. (That galleries keep an order when
  uploads overlap is what a comment says and the code does not achieve.)
* **Views.** Every answered view is counted once, in the table or in Redis, up to
  the windows that counting and flushing leave open; counters are flushed.

## 2. The modules

| Module | Models | Extends | Checked by |
|---|---|---|---|
| `Wallet` | `wallet.service.ts` | - | `MCWallet` |
| `AtomicWallet` | abstract: what the wallet promises, one step per movement | - | refined by `Wallet` and `Idempotency` |
| `Idempotency` | `idempotency.interceptor.ts` in front of the wallet's top-up | `Wallet` | `MCIdempotency` |
| `Bidding` | `auctions.service.ts` placeBid over the wallets | `Wallet` | `MCBidding` |
| `EnglishAuction` | abstract: what bidding promises, one step per bid and its money | - | refined by `Bidding` and `AuctionLifecycle` |
| `AuctionLifecycle` | create, jobs, end and cancel, with bids and wallets running | `Bidding` | `MCLifecycle` |
| `Slots` | the requests in flight, which modules that share no state have in common | - | - |
| `Otp` | `otp.service.ts` | `Slots` | `MCAuth` |
| `Sessions` | `auth.service.ts`, and the activation of accounts | `Slots` | `MCAuth` |
| `TokenFamilies` | abstract: what the rotation of refresh tokens promises, without requests or Redis | - | refined by `Sessions` |
| `Chat` | `chat.service.ts` | `Slots` | `MCListingsChat` |
| `Listings` | `vehicles.service.ts`, admin decisions on vehicles, avatars of `users.service.ts` | `Slots` | `MCListingsChat`, `MCListings` |
| `Views` | `vehicles.service.ts` findOne and flushViewCounts, `vehicles-cron.service.ts` | - | `MCViews` |
| `WalletProofs`, `IdempotencyProofs`, `ViewsProofs`, `OtpProofs`, `SessionsProofs`, `ChatProofs`, `ListingsProofs` | theorems and proofs | the module they are named after | TLAPS |
| `AuctionProofs` | theorems and proofs of `Bidding` and of `AuctionLifecycle` | `AuctionLifecycle`, `WalletProofs` | TLAPS |

`Otp` and `Sessions` share no state (a phone in `Otp`, the user who has it in
`Sessions`): `Sessions` has a code accepted or refused
nondeterministically, `Otp` says when it is. `Listings` has auctions only by what
they do to a vehicle's row; `AuctionLifecycle` has vehicles only by their status, which
sellers and admins may set at any time without regard to the auction (`EditVehicle`).
`Idempotency` adds the interceptor to the wallet without changing it: requests with
a key wrap the wallet's own actions of a top-up, all others pass beside them. The
interceptor is registered for every handler (`app.module.ts:128`); the top-up stands
for them, being the one whose repetition costs money. `MCWallet` is the wallet on its
own, for the run that overdraws it; all else is checked behind the interceptor. The
abstract modules know nothing of requests, locks, keys or jobs: each is instantiated in
the module that refines it, with the mapping next to the `INSTANCE`.

### How state and actions correspond to the code

* **Variables are tables and Redis keys**, at the granularity the properties
  need: `balance` is `wallets.balance`, `ledger` the sums of `transactions.amount`
  per user and type, `bids` the rows of `bids`, `otpKey` the key `otp:<phone>`,
  and so on; the comment of each variable names what it stands for. What is
  local to a request (`req`, `bid`, `task`, `call`, `otpCall`, `chatCall`) is a record with a program
  counter per slot for requests in flight. Slots are reused, so the number of
  requests is not bounded, only how many overlap.
* **A step is what happens between two `await`s** that touch shared state.
  Consecutive calls that only this request can observe are one step.
* **Transactions.** Under READ COMMITTED a SELECT is a step that reads committed
  state; an UPDATE (or SELECT ... FOR UPDATE) is enabled when the row's lock is
  free, takes it, and remembers what it computed; the commit step publishes all
  writes and releases the locks. `$transaction([...])` with a fixed list of
  statements, which needs no interleaving of its own, is one step where it cannot
  block in the middle.
* **Not awaited.** The interceptor's `tap` does not wait for the store of the
  answer, so the client has its answer before the key is stored. A request keeps its
  slot until then, and another one with the key that comes in between overlaps it.
* **Failures.** `Rollback`, `RollbackBid`, `GiveUp`, `FlushFails`, `FailTask`, `OtpFail`,
  `ChatFail` and `Fail` are enabled whenever a request is in flight: an exception, a violated constraint, a lost
  connection or a crash. Transactions leave nothing; sequences without a
  transaction leave what they have done. An overflow of `Decimal(12, 2)` is an
  action of its own (`Overflow`, `OverflowBid`).
* **Time.** TTLs are actions that may happen at any moment (`KeyExpires`,
  `AnswerExpires`); auctions have a start and an end time that pass
  (`StartTimePasses`, `EndTimePasses`); only `Sessions` counts seconds, because
  the second a JWT is signed in is part of the token (one clock for all instances,
  which does not go back).
* **Jobs.** A Bull job is queued, running, done or failed. It is not retried
  when it fails (no `attempts` in the code), and it is taken a second time when
  its worker stalled (Bull's `maxStalledCount` of 1). Bull is not in the
  repository: its defaults are the model's assumption.
* **History variables.** `disturbed` (Listings, Idempotency), `chatDisturbed` (Chat) and `lossy` and
  `twice` (Views) remember which keys, rooms, images and vehicles met an overlap or failure the code does not guard
  against, so that the properties can say exactly when they hold. It is read by
  the properties only, as is `edited` (AuctionLifecycle), the vehicles whose status
  others than their auction wrote last. `announced` holds what was published.
* **Slips.** A definition whose comment starts with "Slip" is the definition it
  accompanies with one plausible bug. No specification uses it: it is what
  `mutants` in `PROJECT.json` puts in the place of the original to see that the
  property would notice.

## 3. The runs

| Run | Shows |
|---|---|
| `wallet` | Two users, two overlapping requests, two withdrawals, top-ups with and without a key: `LedgerMatchesBalance`, `WithdrawnMoneyAccounted`, `CompletedByApproval`, `SettledForGood`, `OnlyDisturbedKeysPayTwice`, `StoredMeansPaid`, the refinement `MovementsAreAtomic`, and `CallsEnd`. |
| `bidding` | Bids of two users on two auctions overlapping each other and top-ups: `PriceIsTopBid`, `BidsClimb`, `HoldsAreExact`, `EveryCentIsSomewhere`, the refinement `BidsAreAtomic`, and `BidsEnd`. |
| `lifecycle` | Two handlers (requests or workers) around one auction with a bid in flight: `AtMostOneBidMissed`, `SoldMeansWon`, `BidsOnlyWhileActive`, `OverAuctionsClose`. |
| `auth` | One-time codes, two overlapping requests with two codes: `CachedCodeIsUnused`, `AcceptedIsSpent`. Sessions, two overlapping requests over three seconds: `OneHeir`, `BlacklistedIsRevoked`, and the refinement `RotationKeepsFamilies`. |
| `listings_chat` | Two overlapping requests on a vehicle, its images and its seller's avatar: `FilesMatchRows`, `NoDanglingRow`, `AuctionedIsKept`. Two users writing to each other with a repeated key: `OneRoomPerVehicle`, `OnlyDisturbedKeysRepeat`, `CountersAreExact`. |
| `views` | Two overlapping views of a vehicle, two flushes, the vehicle deleted: `ViewsAreCounted`, `CountersAreFlushed`. |

Each of them also checks the type invariants of its modules. `auth` and
`listings_chat` check two modules each that have no variable in common. Every property
is about one of the two, so their interleavings would show nothing that behaviours in
which one of them moves do not show: the variable `moving` of the MC module is set at the
start and says which.

Four properties that the modules state are theorems and in no run. Of three a stronger one
is checked: `TopBidIsFunded` follows from `HoldsAreExact`, `RefundOnlyByRejection` from
`MovementsAreAtomic`, `RevokedForGood` from `RotationKeepsFamilies`. The fourth,
`GalleryIsOrdered`, says of galleries only what is left when uploads do not overlap; what
the code's comment claims is checked by the run `gallery`, and fails. The bidding run has
no withdrawals, so `EveryCentIsSomewhere` is checked there of deposits and bids on two
auctions; that it holds with withdrawals in between is what the theorem shows.

Six runs show where the code disagrees with what its comments and
`ARCHITECTURE.md` say of it. TLC finds a counterexample in each; `findings` in
`PROJECT.json` quotes the lines.

| Run | Property violated | What the counterexample does |
|---|---|---|
| `overdraft` | `NonNegativeBalance` | Two withdrawals read the same balance, both pass, both decrement. |
| `self_outbid` | `OnlyTopBidIsHeld` | The top bidder bids again; the first amount stays held. |
| `stale_winner` | `WinnerIsHighestBidder` | A bid commits between endAuction's read and its transaction. |
| `restart` | `StartsFromScheduled` | A cancelled auction's start job makes it ACTIVE. |
| `retry` | `FailedJobIsRetried` | The end job of an ACTIVE auction fails at its first run; no `attempts` are configured (`auctions.service.ts:93`), so nothing ever closes the auction. |
| `gallery` | `OrdersDiffer` | Two uploads read the same MAX(order) and insert images of one order. |

`retry` and `gallery` are the other side of two exceptions. `OverAuctionsClose` admits a
failed end job, and `GalleryIsOrdered` overlapping uploads, because that is how far the code
gets; each says nothing of the hazard it excepts. Nor does `FilesMatchRows` of an image whose
own removal or upload failed half way: what it shows is that no upload, removal or failure
touches the file of another image. `CachedCodeIsUnused` and `AcceptedIsSpent` are about
codes that were used; two requests that overlap may both be accepted on one code, which the
model has and the code does not claim to exclude.

Two more statements are written down and not among the runs: the code fails them
in a known way. `NewestRowShowsBalance` (`Bidding`): two bids of one user on two
auctions, and a ledger row records a balance that another hold has overtaken.
`EndedIsNotCancelled` (`AuctionLifecycle`): cancelAuction's check is outside its
transaction, and an auction that ended in between, won or not, becomes CANCELLED. No text
of the repository claims the contrary, so it is a hazard without a run. Nor is more claimed of an approval than `CompletedByApproval`: approving
one withdrawal completes the pending transactions of all withdrawals of its wallet
(`wallet.service.ts:176`), those rejected later included.

### Bounds

| Bound | Value | Why it is enough |
|---|---|---|
| `Requests` | 2 (1 bid and 2 handlers in the lifecycle) | The races are between two requests; slots are reused, so arbitrarily many follow each other. |
| `Users`, `Phones` | 2 in the wallet; a seller and 2 bidders; 1 in auth; 2 in chat | A release needs two bidders; wallets of different users meet only in bids; accounts do not meet at all. |
| `Withdrawals` | 2 | Two can overdraw, and approving one touches the other. |
| `MaxBalance` | 1 (wallet), 2 (overdraft), 3 (bidding) | Stands for 10^10 less a cent; small, so that overflow happens. |
| `Edits` | PUBLISHED | What lets a vehicle be auctioned again, at any time of its auction; to create, any other status is as good as IN_AUCTION. |
| `Auctions` | 2 (1 in the lifecycle and `self_outbid`) | Auctions share only the wallets; two bids on two of them can wait for each other in a circle. |
| `BidAmounts` | 1..2, increment 1 | A bid and one that tops it. What a third one does to the first two is in the proofs of `BidsClimb`, `HoldsAreExact` and `BidsAreAtomic`, which have no bound. |
| runs of a job | 2 | Bull's limit on stalled jobs. |
| `Codes` | 2 | An old code and a newer one. |
| `MaxOtpAttempts`, `MaxOtpRequests` | 2 | Below, at and above each limit; counters stay at the first value above it, which the code does not distinguish from higher ones. |
| `LastSecond` | 2 | Two tokens of one second and of different seconds, and a chain of two exchanges. |
| `paid` | 0..2 | Two stands for more: once is what a key may pay. |
| `MaxViews` | 3 | One view before a flush, one during it and one after; a counter is flushed a second time by mistake while fewer than 3 are counted (`MayCountTwice`). |
| `Flushes` | 2 | Two crons, or one that was cut off and the next. |
| `Rooms`, `Messages`, `Keys` | 2, 2, 1 | A second room or message is what the properties are about. |
| `Images`, `MaxFiles` | 2, 2 (2, 1 in `gallery`) | Two uploads of one, or one of two; what concerns more images is proved for any number. |

Deadlock is checked except in the runs of the lifecycle, of listings and of views and in
`self_outbid`: once an auction is over with all its jobs, or the only vehicle is
deleted, or the bid amounts are used up, there is nothing left to do. Symmetry is used
for requests, users and identifiers, and never in a run with a liveness property.

### Fairness

* `IdempotencyFairSpec`, `BiddingFairSpec`: strong fairness of the steps of a request
  that is in flight. A live Node process resumes a request whose call was
  answered, and PostgreSQL queues the waiters of a row lock, so a lock that is
  free again and again is eventually this request's. Nothing is asked of `Abort`
  and `GiveUp`: the wallet does not rest on timeouts or on deadlock detection.
* `BiddingFairSpec` asks one thing more, weak fairness of `Deadlocked(r) /\
  AbortBid(r)`: PostgreSQL finds a circle of transactions that wait for each other
  and rolls one back. It is needed: two bids on two auctions that outbid each
  other's bidders lock the two wallets in opposite orders, and without it `BidsEnd`
  fails. No other abort is asked for.
* `ViewFairSpec`: the cron comes again every five minutes, and the calls of a flush
  do not fail every time (strong fairness of `ReadCounts`, `AddCount` and
  `DeleteCount`); that a flush fails now and then is allowed.
* `LifecycleFairSpec`: the same for handlers and bids, and a worker eventually
  takes a job that is due. Nothing is asked of stalling and failing; a job that
  failed is an outcome `OverAuctionsClose` admits, and what the run `retry` is about. That
  one rests on no unfairness: no action takes a failed job, however fair the workers.
* The other modules claim no liveness and have no fairness.

## 4. The proofs

TLC shows the above for the small instances; TLAPS proves, for every value of the
constants that satisfies the assumption of the module:

| Theorem | Property |
|---|---|
| *WalletProofs* | |
| `WalletInvariant`, `WalletTypeCorrect` | `WalletInv`, `WalletTypeOK` |
| `LedgerCorrect` | `LedgerMatchesBalance` |
| `WithdrawalsSettledForGood` | `SettledForGood` |
| `RefundsComeFromRejections` | `RefundOnlyByRejection` |
| `ApprovalsComplete` | `CompletedByApproval` |
| `WithdrawalsAccounted` | `WithdrawnMoneyAccounted` |
| `WalletIsAtomic` | `MovementsAreAtomic`, that is `AtomicWallet` |
| *IdempotencyProofs* | |
| `InterceptorImplementsWallet` | `IdempotencySpec => WalletSpec` |
| `LedgerBehindInterceptor` | `LedgerMatchesBalance`, with the interceptor |
| `WithdrawalsBehindInterceptor` | `WithdrawnMoneyAccounted`, `CompletedByApproval`, `SettledForGood`, `RefundOnlyByRejection`, with the interceptor |
| `AtomicBehindInterceptor` | `MovementsAreAtomic`, with the interceptor |
| `IdempotencyInvariant`, `IdempotencyTypeCorrect` | `IdempotencyInv`, `IdempotencyTypeOK` |
| `RetriesPayOnce` | `OnlyDisturbedKeysPayTwice` |
| `OnlyPaidIsStored` | `StoredMeansPaid` |
| *AuctionProofs*, bidding | |
| `BiddingInvariant`, `BiddingTypeCorrect` | `BiddingInv`, `BiddingTypeOK` |
| `BidsKeepTheLedger` | `LedgerMatchesBalance`, with bids |
| `PriceIsAlwaysTopBid` | `PriceIsTopBid` |
| `BidsAlwaysClimb` | `BidsClimb` |
| `TopBidAlwaysFunded` | `TopBidIsFunded` |
| `HoldsAlwaysExact` | `HoldsAreExact` |
| `NoCentIsLost` | `EveryCentIsSomewhere` |
| `BidsKeepWithdrawalsAccounted`, `BidsSettleNoWithdrawal` | `WithdrawnMoneyAccounted`, `SettledForGood`, with bids |
| `OnlyCommittedAnnounced` | `AnnouncedAreCommitted` |
| `BiddingIsAtomic` | `BidsAreAtomic`, that is `EnglishAuction` |
| *AuctionProofs*, lifecycle | |
| `LifecycleInvariant`, `LifecycleTypeCorrect` | `LifecycleInv`, `LifecycleTypeOK` |
| `BooksHoldThroughTheLifecycle` | what is proved of bidding, with the lifecycle around it |
| `NoCentIsLostInTheLifecycle` | `EveryCentIsSomewhere`, `HoldsAreExact`, `WithdrawnMoneyAccounted`, `CompletedByApproval`, with the lifecycle around them |
| `LifecycleIsAtomic` | `BidsAreAtomic`, with the lifecycle around it |
| `SoldIsAlwaysWon` | `SoldMeansWon` |
| `AtMostOneBidIsMissed` | `AtMostOneBidMissed` |
| `BidsAlwaysWhileActive` | `BidsOnlyWhileActive` |
| *OtpProofs* | |
| `OtpInvariant`, `OtpTypeCorrect` | `OtpInv`, `OtpTypeOK` |
| `UsedCodesAreNotCached` | `CachedCodeIsUnused` |
| `AcceptedCodesAreSpent` | `AcceptedIsSpent` |
| *SessionsProofs* | |
| `SessionInvariant`, `SessionTypeCorrect` | `SessionInv`, `SessionTypeOK` |
| `TokensHaveOneHeir` | `OneHeir` |
| `BlacklistIsSound` | `BlacklistedIsRevoked` |
| `RevocationIsFinal` | `RevokedForGood` |
| `TokensAreFamilies` | `RotationKeepsFamilies`, that is `TokenFamilies` |
| *ChatProofs* | |
| `ChatInvariant`, `ChatTypeCorrect` | `ChatInv`, `ChatTypeOK` |
| `AlwaysOneRoom` | `OneRoomPerVehicle` |
| `KeysRepeatOnlyDisturbed` | `OnlyDisturbedKeysRepeat` |
| `CountersStayExact` | `CountersAreExact` |
| *ListingsProofs* | |
| `ListingInvariant`, `ListingTypeCorrect` | `ListingInv`, `ListingTypeOK` |
| `FilesAlwaysMatchRows` | `FilesMatchRows` |
| `RowsNeverDangle` | `NoDanglingRow` |
| `AuctionedIsAlwaysKept` | `AuctionedIsKept` |
| `GalleryIsAlwaysOrdered` | `GalleryIsOrdered` (in no run; see `gallery`) |
| *ViewsProofs* | |
| `ViewInvariant`, `ViewsTypeCorrect` | `ViewInv`, `ViewTypeOK` |
| `ViewsCounted` | `ViewsAreCounted` |

**Assumptions on the constants.** `None` is none of the things it stands in for, the
rows of tables included where a row may be missing; amounts, prices and the increment
are whole numbers of cents, the increment and the wallet's amounts positive (the DTOs
check it); what the wallets hold first fits in a column (`WalletAssumption`,
`BiddingAssumption`, `IdempotencyAssumption`, `ViewAssumption`). `Edits` are statuses of
a vehicle (`LifecycleAssumption`). A code may be tried at least twice before the lockout
(`OtpAssumption`): with a `MAX_OTP_ATTEMPTS` of 1, which is 5 in the code, the first failure
would both set an expiry and lock, a path the model leaves out. Requests are not tokens
(`SessionsAssumption`: `Heirs` holds both). Messages and requests in `Chat`, and images in `Listings`,
are finite sets, because their sizes are compared. Whatever else is a bound in the
runs (users, requests, handlers, codes, seconds, rooms, messages, images, files,
views) is arbitrary in the proofs.

**The wallet's invariant.** That the balance is the sum of the ledger is not
inductive: a commit writes a balance that was computed at an earlier step.
`WalletInv` adds what a request may rely on in between: it still holds the row's
lock and what it computed is the committed balance with its change
(`WalletRowIsMine`); the identifier of a withdrawal to be inserted is nobody
else's (`FreshWithdrawal`); a withdrawal being settled is locked, still PENDING
and of the user and amount the request read (`ClaimIsMine`); a pending one has
an owner. There is one lemma per action, and the two action properties follow
from the invariant and one case per action that touches a withdrawal or a refund.

That only an approval completes a transaction needs `ApprovalInv` besides: a request
that is about to commit an approval has marked transactions of its own wallet only
(`MarksAreMine`), and a pending withdrawal has its pending transaction.

**Sums.** `WithdrawnMoneyAccounted` and `EveryCentIsSomewhere` add up amounts over sets
that grow. The sum of the community modules takes elements off in an order of its own
choosing, and all a step needs is that any element may be taken off first
(`SumTakesAny`): with it a sum over a set with one more element, or with one element
changed, is known (`SumOfMore`, `SumOfSame`, `SumSetAside`). Induction over the set is
not at hand, so that there is a sum and that it does not depend on the order is shown
by a smallest counterexample: of the subsets for which it fails one is smallest
(`SmallestOf`, by well-foundedness of strict inclusion), and with an element less it
does not fail. `AccountsInv` therefore says besides that the withdrawals made so far are
finitely many; the sets of users and of withdrawals may be infinite.

**The atomic wallet.** The balance is mapped to itself, as are the ledger's sums, the
balance of the newest row and the rows of withdrawals, of which only the mark of their
transaction is forgotten. A commit is one movement because what it writes was computed
under the row's lock (`WalletRowIsMine`), so that "as computed" is "as it stands now,
plus the change", and what it settles is PENDING and as it was read (`ClaimIsMine`);
that amounts are those the DTOs admit is `AmountsAreAsked`. Every other step is a
stutter. Behind the interceptor nothing more is to show: it takes the wallet's steps.

**The interceptor.** Every step of `IdempotencySpec` is a step of the wallet or leaves
it alone (`InterceptorImplementsWallet`), so what is proved of `WalletSpec` holds
behind the interceptor. That a key pays once rests on `PaidIsStored`: while nothing
disturbed the key, one request at a time carries it, and once it has paid, its answer
is stored or its request is about to store it; so nobody who finds the key missing
has a payment behind it.

**Views.** Nothing protects a counter between HGETALL and HDEL, so `ViewInv` says what
a flush may rely on as long as its vehicle is not marked: no view came to the counter
since it was read (`NothingCameMeanwhile`), and no other flush has read it and what was
read is still there (`CounterIsMine`). Between UPDATE and HDEL table and counter both
hold what is flushed, which is why the upper bound of `ViewsAreCounted` has a second
disjunct; `DeleteCountStep` shows that the HDEL takes off just what was added.

**Bidding's invariant.** `BiddingInv` is the wallet's invariant, which every
wallet step and every bid preserves, and for each bid in flight: it holds the
auction's row and passed the checks against the price that still stands
(`AuctionRowIsMine`), it holds its own and its predecessor's wallet rows with
what it computed from them (`BidderRowIsMine`, `PreviousRowIsMine`), the
predecessor it found is still the top bid (`PreviousIsTop`). With it the book of
the auction (`BookInv`) is inductive: `CommitBidKeepsBook` is the heart of it.
That the holds are exact is a fact on sets: the bid a commit releases is the one
that was on top (`CommitReleasesTop`), and no other bid changes from unanswered to
answered by it.
Steps that leave a bid's rows alone are handled once, by `RespectsRowsOf`.

**The money of all tables.** `EveryCentIsSomewhere` is an equation between the wallet's
tables and those of the auctions. `MoneyInv` splits it at the ledger: the balance is the
sum of its types (`LedgerMatchesBalance`), withdrawals and refunds amount to the
withdrawals not rejected (`AccountsInv`), holds and releases to what is held on all
auctions with bids (`HoldsAddUp`), and what is held to the unanswered bids
(`HoldsAreExact`). A commit of a bid changes two users' sums and one term of each
(`CommitAddsUp`); all other steps of bids and of the lifecycle leave them alone.

**The English auction.** `top` is mapped to the highest row of `bids`, `offers` to
`total_bids` and `funds` to the balances. Every step of a bid but two changes none of
them and is a stutter; the commit is `Offer` (`CommitIsOffer`, by `AuctionRowIsMine`:
the increment was checked against a price that cannot have moved; `CommitMovesFunds`,
by the two wallet rows: what is written is the committed balance less the bid and plus
the released one) and the publication is `Announce`. The wallet's own movements go on
meanwhile and change one balance each, which is `Move` (`WalletStepIsMove`). The auction
does not ask that a bidder's funds suffice: the check of the balance is overtaken by
other requests of the bidder, and bidding at least promises that what was bid is taken.

**The lifecycle's invariant.** Handlers and bids meet in the auction's row.
`LifecycleInv` is the bids' invariant and says of the handlers: who has the row of an
auction has an ACTIVE one (`LockedIsActive`), for handlers write it only while nobody
has it; one handler at most is between inserting an auction and queueing its jobs, and
nothing ends that auction meanwhile (`CreationIsAlone`, `UnbornIsEmpty`); a queued job
may be taken once more (`JobsAreBounded`). That at most one bid is missed needs to
know what was read: `DecidedOn(a, w)` says that the end time had passed, that the
best bid of the `w` read was the top one then, and that the bids above it by now are none, or the one that was in its
transaction when the winner was read, and then nobody has the row any more. It holds at the
read, survives every later step because no bid gets past the check of the end time, and is
what `EndedIsDecided` keeps once the auction has ended. `SoldMeansWon` is itself
inductive with these. Bids and wallet steps are handled together: `BidEffects` lists
the little a bid may do to an auction.

**One-time codes.** A request of verifyOtp finds its code in one of two places and
then deletes a key, a counter and marks a row, in an order that differs between the two ways.
`Justified` says at each step what is already so: the code is not in the key
(`KeyIsGone`), and on the way by the table its row is used. The key cannot get the code back,
since a code is cached only by the request that made it, whose code nobody has been
told (`UnsentIsUnknown`), and its row is not used while it is cached.

**Sessions.** `OneHeir` counts, besides the tokens issued in exchange for one, the
requests that have revoked it and not issued yet; so it is inductive once `Justified`
says which steps have a token, that a row not made is empty, and that a row was
revoked before anything was put in Redis. The conditional UPDATE (`Revoke`) is the step
that lets one request through. `RevokedForGood` follows from the cases of a step that
writes a token row: the insert is refused for a token that has one.

**Families of tokens.** `pledged` is mapped to the tokens that a request has revoked
and not yet exchanged. By `OneHeir` that request is the only one, so when it issues the
next token, fails or collides with a token of the same second, the pledge is over
(`PledgeEnds`): a step is `Give`, `Forfeit` or, when it takes nothing, a stutter
(`MovingOnForfeits`). That the heir is later needs `FamilyInv`: no token is of a second
still to come, so a token that is there is not later than now, and the one that is signed
now is not there yet; and a request exchanges tokens of its own user only. This rests on
one clock that does not go back: instances whose clocks differ, or a clock that is set
back, could sign an heir that is no later, and the models have neither.

**Chat.** A counter, the messages still to be counted and the unread rows change one at
a time: a message enters the rows and what is to be counted in one step, HINCRBY moves it
into the counter, and a reading empties the rows, then the counter. `ClearingIsClean`
says that between these two nothing came in an undisturbed room; `CountsAreBounded`, that
a message is counted once at most, so that a room that is new has nothing to its name.
`KeysAreAlone` is for chat what `PaidIsStored` is for the wallet: an undisturbed key
has one carrier, and no message unless the carrier made it or its answer is stored.

**Listings.** What an upload has stored belongs to nobody else until a row or a profile
refers to it (`UploadsAreOwn`), and what a deletion removes was marked when it began
(`RemovalsAreKnown`); `FilesMatchRows` is then inductive. For the order of a gallery,
`ReadsAreFresh` says that the order an upload has read is above all orders there are, unless
another upload of the vehicle overlapped; orders stay bounded (`OrdersAreBounded`) because
the highest one grows by one for each image that gets a row. The maximum is that of
the community modules, and `MaxFacts` proves of it what is needed: a set of numbers with
an upper bound has a greatest element, by well-foundedness.

**Only model-checked.** The four liveness properties (`CallsEnd`, `BidsEnd`,
`OverAuctionsClose`, `CountersAreFlushed`), which are out of the prover's reach. All
other properties of the passing runs are theorems.

## 5. What is not modelled, and the plan

Built, in this order because money comes first: `Wallet`, `Bidding` with
`EnglishAuction`, `AuctionLifecycle`, `Otp`, `Sessions`, `Chat`, `Listings`; then
`Idempotency`, `Views`, avatars, bids on several auctions, and edits of a vehicle
while its auction runs; then `AtomicWallet`, `TokenFamilies` and the money in
`EnglishAuction`, which `Wallet`, `Sessions` and `Bidding` are proved to implement,
and the sums that connect balances, withdrawals and bids.

Next, of models: abstract specifications for `Chat` (messages delivered once per key)
and `Listings` (a gallery whose files and rows change together), whose exceptions, the
overlaps the code does not guard against, would have to be part of what they promise;
and the delivery of events by the gateways, if anything comes to depend on it.

Next, of proofs: that the wallet with the lifecycle's bids on it still implements
`AtomicWallet` extended by holds and releases, so that one abstract specification
covers all movements of money.

Left out for good:

* the gateways, which hand an event to the sockets of a room, at most once and with
  nothing that reads it back; the map of sockets per user in the chat's gateway, which
  is written and never read;
* updateProfile and changeRole (one row each; the e-mail is checked before it is
  written, and its unique index decides), notifications, search, the dashboard, health, metrics,
  logging, configuration and seed: reads, best-effort events or single statements;
* contents of messages, descriptions of vehicles, roles, `lastMessageAt`,
  `lastLoginAt`, audit logs: data nothing here depends on;
* amounts with more than two decimals, which the columns round: amounts are
  integers, counted in cents;
* a one-time code drawn twice, lengths of TTLs, and the contents of JWTs beyond
  user and second;
* reconnection of ioredis, Bull's own storage, MinIO and PostgreSQL beyond the
  behaviour above.
