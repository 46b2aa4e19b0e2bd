# Snack back end: TLA+ models, checks and proofs

This directory holds a verification project for the snack-ordering back end: a NestJS server
on Prisma and PostgreSQL with which the employees of a company ask for snacks, administrators
approve the requests or order themselves, and every order is paid from the company's budget of
the month. Paths below are relative to the repository; a file that is named alone is the only one
of its name.

## 1. The system

| part | where | state | operations that change it |
|---|---|---|---|
| order requests | `src/order-requests` | `order_requests`, `order_request_items` | create, approve, reject, delete |
| orders | `src/orders` | `orders`, `order_items` | an administrator's own order |
| budgets | `src/budgets`, `src/shared/helpers/budget.helper.ts` | `budgets`, `budget_ledgers` | deduction, administrator's update |
| shipping fee | `src/shared/helpers/shipping.helper.ts` | none | computed for summaries, requests and orders |
| carts | `src/carts` | `carts`, `cart_items` | add, change, remove, clear |
| wishlists | `src/wishlists` | `wishlists` | toggle, move to cart |
| products | `src/products` | `products`, an S3 bucket | create with upload, update, soft delete |
| companies | `src/companies` | `companies`, `company_addresses` | create, delete |
| signup | `src/auth` | `users`, `carts`, `companies` | found a company, accept an invitation |
| users | `src/users` | `users` | delete, change of role, password, company name |
| invitations | `src/invitations` | `invitations`, the mail server | invite |
| sessions | `src/auth` | `users.refreshToken`, two cookies per browser | login, refresh, logout |
| guards | `src/auth/*.guard.ts`, `src/shared/decorators` | none | read token and role before a handler runs |
| lists | the `find...` and `get...List` handlers | none | paged reads by offset |
| connection pool | `src/shared/prisma` | the database connections | begin, commit, one statement |
| categories, middleware, swagger, shared S3 module, seed, migrations | | | none at run time |

How they interact. Approvals (`order-requests.service.ts:349`) and orders
(`orders.service.ts:142`) call `deductCompanyBudgetByUserId`; order requests (`:231`) and orders
(`:167`) call `clearCartItemsByUserId`; a move from the wishlist (`wishlists.service.ts:54-64`)
calls the cart service. Each of these three uses `this.prisma`, not the caller's transaction, so
its effect is committed on another connection whatever becomes of the caller, and the caller holds
one connection of the pool while it waits for a second. Signup writes the tables of companies,
users, carts and invitations one after the other without a transaction. `deleteUser` and the delete
of a company reach carts and invitations through cascades. Guards read the role in a statement of
their own before the handler that depends on it; access tokens are verified by signature and age
only, so what a login established is looked up anew by each call.

What is hard here: every `await` is a place where other requests run, the database is at READ
COMMITTED and updates go by id alone, effects inside and outside of a transaction are mixed, and
a handler can be stopped anywhere by a time limit, a failing service or the death of the process.
`PROJECT.json` lists these hazards line by line.

What makes each part correct, in one line: no order without its money and no money without its
order; one order per request and resolutions that last; a budget that deductions do not overdraw and a
ledger that explains it; the same amount in the summary, the request, the order and its page; an
account that has a company and can log in, an invitation that makes one account; only an
administrator served as one, and tokens that end with their session; carts and wishlists that
neither lose nor resurrect what a user put into them; an image for every product that shows one
and none for others; pages that show each row once; connections that come back and calls that
end. Section 3 says how much of this the code keeps.

## 2. The modules

| module | what it is |
|---|---|
| `Purchasing` | order requests, orders, budgets and ledger, handler by handler |
| `PurchasingProperties`, `MCPurchasing` | its properties and the refinement `ServesPromise`; its instances |
| `PurchasingOverlaps`, `MCPurchasingOverlaps` | `Purchasing` with a record of which handlers have met at one row; what takes such a meeting to go wrong |
| `Procurement` | abstract: what the purchasing handlers promise, whatever overlaps |
| `Pricing`, `PricingProperties`, `MCPricing` | prices, shipping fee and totals, from the summary to the detail pages |
| `Accounts`, `AccountsProperties`, `MCAccounts` | companies, users and invitations, write by write |
| `AccountsOverlaps` | `Accounts` with a record of who has met at one email or invitation |
| `Membership` | abstract: signup, invitation, acceptance and deletion as single steps |
| `Sessions`, `SessionsProperties`, `MCSessions` | login, refresh, logout, guards, changes of role and profile |
| `Shopping`, `ShoppingProperties`, `MCShopping` | carts, wishlists, products and images |
| `Listings`, `ListingsProperties`, `MCListings` | the five paged lists, read while others change them |
| `ConnectionPool`, `ConnectionPoolProperties`, `MCConnectionPool` | Prisma's connections, nested requests for them, and the time limits |
| `PurchasingProofs`, `PricingProofs`, `AccountsProofs`, `SessionsProofs`, `ShoppingProofs`, `ListingsProofs`, `ConnectionPoolProofs` | the theorems about the module of that name, checked by TLAPS |
| `Sums` | lemmas about `SumFunctionOnSet`, for the proofs about amounts and quantities |

The models divide the system by what its properties relate. `Purchasing` moves money and does not
look into an order; `Pricing` looks into orders and takes the money for granted. `Shopping` has the
rows of a cart; `Purchasing` knows only whether a cart holds something, and `Pricing` only its
items. `Accounts` makes and unmakes accounts; `Sessions` changes those that exist. `ConnectionPool`
keeps of each handler only on which connection its statements run.

Conventions shared by the models of handlers:

* A *call* is one HTTP request. `pc` says where its handler stands (each label is an `await` after
  which others may run), `local` what it holds in local variables, `open` whether its interactive
  transaction still is. An action is everything a handler does up to its next await that matters:
  consecutive reads that nothing tells apart are one step, a batch transaction
  (`budget.helper.ts:51-66`) is one step, and the writes of an interactive transaction, invisible
  until the commit, are one step at the commit.
* A row bears the name of the call that inserted it. Tables with optional rows are functions
  with an `"ABSENT"` row; amounts, names and emails are members of small sets.
* A call refused by its first check changes nothing; its action is disabled.
* An update or delete by id overwrites whatever the row has become and fails when the row is gone
  (`RowGone`, `ItemGone`, `ProductGone`, `AccountGone`). Foreign keys and unique constraints are
  guards of the writes, with an action each for the refusal (`BudgetClash`, `UserRefused`,
  `ItemClash`, ...).
* `Operations` and `Faults` select, per instance, which calls clients make and which faults occur:
  `"timeout"` (a transaction is rolled back under its handler), `"crash"` (all handlers vanish,
  open transactions roll back, committed writes stay), `"failure"` (any statement and the mail may
  fail), `"put"`, `"insert"`, `"unlink"` (that external call or insert fails), `"expire"` (a token
  comes of age).
* An operator whose comment starts with "Slip:" is not part of the model. It is a plausible mistake
  in the definition that follows it; `PROJECT.json` names it as the mutant which the property in
  question must detect.

`Purchasing`. `ApproveRead` → `DeductRead` → `Withdraw` → `ApproveCommit` are the awaits of
`approveOrderRequest` and the helper it calls; `PurchaseRead` → `DeductRead` → `Withdraw` →
`PurchaseInsert` → `ClearCart` → `PurchaseCommit` those of `createOrder`. The total of an order is
drawn from `Totals` at its first read. The clock is the month the helper reads.

`Pricing`. `history` is the sequence of states of the product table; a call notes at which of them
it read its prices (`at`). `CreateOrderRequest`, `CreateOrder` and `GetSummary` draw the lines,
`RequestFee`, `PurchaseFee` and `SummaryFee` ask for the shipping fee, each taking its failure in
its own way (the request fails, the purchase and the summary go on without a fee), `StoreRequest`
and `StoreOrder` commit, `ApproveOrderRequest` copies. `GetOrderDetail` shows the stored prices,
`GetOrderRequestDetail` those of today.

`Accounts`. `SignupRead` → `CreateCompany` → `CreateAddress` → `CreateUser` → `CreateCart` is
`signup`, with the errors `companyCreate` swallows (`CompanyTaken`, `AddressLost`) and the
password check that comes after the company exists; `AcceptRead` → `AccountChecked` → `CreateUser`
→ `MarkAccepted` → `CreateCart` is `invitationSignup`. `InviteRead` → `AccountChecked` →
`CreateInvitation` → `SendMail` is `createInvitation`; company and inviter are ids from the body,
of which nothing is asked until the foreign keys of the insert. A user who is named as the inviter
of an invitation cannot be deleted (`HasInvited`, the foreign key has no `onDelete`, which is
RESTRICT), nor can a company with such a member whose invitation is into another company
(`HeldBack`). `StatementFails` ends a handler at any statement; only `companyCreate` goes on after
an error. `Lapse` passes an invitation's 24 hours.

`Sessions`. `LoginRead` → `IssueTokens` → `StoreToken` is `login` with its transaction
(`TokenLost` when that is rolled back); `RefreshRead` shares the last two steps. `GuardRead` →
`ParamRead` are the two reads of `RoleGuard` and `@GetUser`, `UserRead` → `Serve` the reads of
handlers that check the role themselves, `ResolverRead` the one read of the resolution of a
request. `ProfileRead` → `CheckPassword` → `WritePassword` → `Rename` is `updateData`. `seen` is a
history variable: what was true of a call's user while the call was served. A user starts with the
refresh token of the latest login in the row.

`Shopping`. A cart row carries the id of the call that inserted it, because `addToCart` and
`updateCartItem` write by that id; `ClearCart` is the effect orders have on a cart, at any time. A
product is `LIVE` or `DELETED` (soft delete), and `bucket` holds the images. Quantities are
integers: the form demands at least 1 (`@Min(1)`), but no pipe applies it.

`Listings`. A list is a record of what a handler puts to the database: the rows it is of, the
column and direction it sorts by, whether it counts first. A row is reduced to its sort key; rows
of one key may be answered in any order, in each statement anew. `CountRows` and `ReadPage` are
the two statements of a page. What other requests do to it: `Create` (at any place, also among
older rows, because orders and requests are inserted in transactions and become visible at their
commit, not at their `createdAt`), `DeleteProduct` (the soft delete, or an edit that files the
product elsewhere), `DeleteRequest` (the requester's withdrawal of a pending request),
`DeleteUser` (the members' list loses the user and, through the cascade, the request lists the
user's requests, here one after the other), `File` and `Reprice`. Orders never leave: nothing
deletes them, and foreign keys protect their company.

`ConnectionPool`. `Program` gives for each of six handlers where its statements run: on the
connection of its transaction, on one borrowed from the pool, or likewise with the error caught. A
move whose products are all in the cart returns before its last two statements (`NothingToMove`).
`tx` and `lent` are the two uses of connections; `BeginExpires`, `TxExpires` and `WaitExpires` are
Prisma's `maxWait`, `timeout` and `pool_timeout`, whose defaults the repository leaves as they
are.

## 3. The runs

Nine runs must pass.

| run | question |
|---|---|
| `PurchasingConcurrent` | Whatever the interleaving, with amounts of either sign, timeouts and crashes: does a deduction ever leave a negative balance, is every order paid, is every approval linked to the order it asked for? |
| `PurchasingMonths` | The same with the month changing under a handler and carts being filled: do the handlers implement `Procurement`, and is a cart emptied only after the charge? |
| `PurchasingOverlaps` | Again with every interleaving and fault: what goes wrong with requests and balances only when two handlers meet at one row? |
| `Pricing` | Whatever is repriced, deleted, approved late or without an address: does an order bear the prices of the moment it was asked for, is a quote honoured, do the pages add up? |
| `Accounts` | Whatever the interleaving, whichever statement fails and whenever the server dies: do the many writes of a signup look like the single steps of `Membership`, can whoever was told of a success log in, what makes a second pending invitation or a second account? |
| `Sessions` | With roles, profiles, tokens and accounts changing between a guard and its handler: is only an administrator served as one, does a successful profile change take effect? |
| `ShoppingConcurrent` | Whatever the interleaving and the fault: do toggles count, do moves keep wishes, does nothing come back into an emptied cart, do products and images stay together? |
| `Listings` | While two changes hit a list that is being read: how much of it can a client miss or see twice? |
| `ConnectionPool` | Do all connections come back, when can everybody wait for everybody, and is every call answered nevertheless? |

Three runs must find a violation of what the code's own checks and texts say:

| run | what TLC finds |
|---|---|
| `DoubleApproval` | two approvals of one request both pass the check at `order-requests.service.ts:341-345` and place two orders |
| `ChargedWithoutOrder` | the deduction is committed, the order's transaction is rolled back: a ledger entry "deduction for an order" (`budget.helper.ts:63`) without an order |
| `RefreshStored` | a refresh succeeds with a token that is not the one stored for its user, although `auth.controller.ts:175` and `auth.service.ts:587-588` say it is compared with it and `auth.controller.ts:126` says that a logout invalidates it; the comparison is commented out (`auth.service.ts:590-595`) |

Nothing in the models keeps handlers apart: every property is one of all interleavings. Some
things do go wrong when two handlers are between read and write of one row at the same time, since
the code takes no lock. `PurchasingOverlaps` and `AccountsOverlaps` say exactly which, and that
nothing else makes them go wrong: they add history variables that record who has met whom
(`resolvers` at a request, `spenders` at a balance; `met` at an email or an invitation) and claim
that a second order, an order of a rejected request, a resolution that is undone, a withdrawal a
balance has forgotten, a second pending invitation each involve two calls that have met, and that
a second account out of an invitation involves such two or one that failed half way. The history
variables are written beside each step and guard none, so every execution of `Spec` is one of
`RecordedSpec`. A lock on the request, the budget, the email and the invitation would thus rule
these out, and no retry, rollback, timeout, crash or longer sequence of calls brings them back.

What the runs show beyond a yes:

* A deduction never leaves a balance below zero although it reads, compares and writes in three
  steps, because it writes the balance it has checked, not a difference. It holds for negative
  totals, too. An administrator can set any balance up to `MAX_AMOUNT`, negative ones included
  (`budgets.service.ts:48` checks the upper bound only): `NegativeOnlyByHand` says that a balance
  below zero is one that was sent.
* The price is the lost update: a balance is the initial amount minus a *part* of the ledger
  (`BalanceExplained`). The part contains every withdrawal that met no other. The property is silent
  about a month an administrator has set (`Administered`), since that leaves no entry.
* `Procurement` promises what is left of atomicity: a call acts on what it found of its row at
  some moment while it ran (`findings`, `quotes`), acts once, and orders only what it has paid
  for. A second approval or a lost update is a behaviour of `Procurement`; an approval of a
  request that was never pending while the call ran, a charge beyond what was quoted or an order
  of another amount is not.
* A deadlock of the pool needs as many nested transactions as there are connections
  (`DryOnlyWhenNested`), and it ends by time limits only, with failed calls.
* Offset paging misses no more rows than left meanwhile, plus those that came between count and
  page; it repeats no more than came. The request lists have no count and lose rows: a client that
  stops at the first short page is covered. Rows of equal key are exempt: the orderings have no
  second column, so `findMany` may show one of them twice and another never (`Listings.Page`).

Disagreements without a run. They are visible in the models, and each is a statement about the code
that needs no search to be seen:

* Two overlapping deductions can together spend more than the month's budget
  (`budget.helper.ts:45`, `:51`).
* The forms of carts, requests and orders demand quantities of at least 1, but `main.ts` installs
  no global `ValidationPipe` and only `ProductsController` has one of its own, so no `@Min(1)` is
  applied and totals can be negative. An order of a negative total raises the balance.
* Two overlapping invites of one email leave two pending invitations, although
  `invitations.service.ts:117` refuses an invited email.
* The schema calls the inviter the super administrator who sent the invitation, for the inviting
  company (`prisma/schema/Invitation.prisma:31-34`); `createInvitation` stores whatever company
  and inviter the body names (`invitations.service.ts:161-171`). So one can be invited into a
  company that was left without an address, and `FoundersHaveAddress` speaks of founders only.
* A failure between account and cart (`auth.service.ts:337-340`) leaves an account that cannot log
  in (`:385`) and whose email is taken; `AnsweredCanLogin` therefore speaks of signups that were
  answered with success.
* An invitation set to `EXPIRED` by `deleteUser` (`users.service.ts:121-126`) still makes an
  account, since only `ACCEPTED` is refused (`auth.service.ts:139`).
* An invitation past its 24 hours stays `PENDING` and blocks a new one for its email
  (`invitations.service.ts:109`), while the schema wants it to be possible to invite again
  (`prisma/schema/Invitation.prisma:11`).
* `BudgetsService.update` (`budgets.service.ts:84`) writes no ledger entry; an amount of 0 goes to
  its create branch although the row exists (`BudgetRead`, `BudgetClash`).
* `CompaniesService.create` always answers 404 after it has created the company (`InsertCompany`).
* `addToCart` loses one of two overlapping additions.
* The new token of `POST /auth/refresh` is answered in the body and put into no cookie, so a
  browser whose access cookie has run out stays without one (`StoreToken`).
* The form of an order says its products must be in the cart (`create-order.dto.ts:17`);
  `createOrder` does not look into the cart before it clears it.
* The order list offers `oldest` (`orders.controller.ts:28`), which `getOrderBy` takes for `latest`.
* `createOrderRequest` accepts a deleted product (`order-requests.service.ts:171`), `createOrder`
  does not; the page of a request shows today's prices beside the stored total (`:307`).

Bounds, and why they are enough.

* `Purchasing`, `Accounts`, `Shopping`: three fresh calls (two in `PurchasingMonths`) besides the
  earlier ones that left rows behind. Every hazard listed involves at most two overlapping
  handlers and one call before or after them; three give two rivals on one row and a third that
  disturbs them. `Totals = {-2, 3}` against a budget of 4: a 3 is affordable once, and again after
  a -2, so that totals of either sign meet at one balance. An administrator's amounts are -1, 0
  (the create branch) and 6, which is above the `MaxAmount` of 5; in `PurchasingOverlaps`, which
  keeps the history besides, -1 only. `PurchasingConcurrent` has two companies, `PurchasingMonths`
  two months, which is what one handler can cross once. The two violations need neither and have
  totals 2 and 3. `Accounts` has three emails and two company names, so that two signups collide
  on either alone; bodies of invitations name a founder or its company, or the ids of a call that
  has not come yet, is half way, or has failed (`Ids`). Quantities 2 and -1 besides the 1 of a
  move tell a lost, a doubled, a resurrected and a negative quantity apart.
* `Sessions`: two fresh calls besides two earlier logins, two people of two companies, two
  passwords, three company names. Each hazard is one handler with one other call, a timer or a
  crash between two of its awaits.
* `Pricing`: three calls (a request, its approval, its page), two products of which one change can
  hit either, prices 0 and 3, fees 3 and 5 and a threshold of 6, so that a cart of the instance
  lies below, at and above the threshold; one cart has a product twice, one has a negative
  quantity.
* `Listings`: five rows, two at a time: three pages, the last one short or not; two changes at any
  moment; every assignment of five keys, ties included.
* `ConnectionPool`: two connections and three calls, all 56 mixes of the six handlers. Two calls
  can dry the pool up and a third then waits for its first connection.

Calls that have not yet come are interchangeable (in `Accounts` those that no body names), and so
are rows in `Listings`; that is the symmetry declared. `ConnectionPool` has none, because it
checks liveness; its mixes are listed once each instead. Deadlock is not checked: each call
happens once, so an instance stops when all calls are spent, and a pool that runs dry is not a
deadlock of the model but a state `DryOnlyWhenNested` is about.

Fairness. Only `ConnectionPool` assumes any, for `EveryCallAnswered`. `WF(Serve(c))`: a handler's
code runs on when its await is over, the pool hands out a free connection, and the database
answers. `WF(TimeLimit(c))`: Prisma's timers, which run by default and which nothing in the
repository switches off, fire. Clients (`Arrive`) and failing checks (`Throw`) get none. `Serve`
alone would not do: in a pool run dry it is disabled for everybody. Strong fairness is not
assumed: a waiting call may be overtaken until its limit ends it. All other modules state safety
only: when a handler ends, or a client comes back, is decided outside of the code.

## 4. The proofs

Every invariant, every action property and both refinements that the passing runs check are
theorems, for every number of calls, users, companies, products, browsers, months, rows,
connections and amounts; one property, `EveryCallAnswered`, is not. None of them restricts how
handlers interleave, time out or crash. They assume the named `ASSUME`s of the module they are
about and nothing else:

* the amounts of the seed are natural numbers, as `prisma/seed.ts` writes them; totals, quantities
  and what administrators send are integers of either sign;
* prices and shipping fees are natural numbers (`Pricing.AmountsAssumption`); a cart is a
  sequence of products with integer quantities (`Pricing.CartsAssumption`);
* every user has a company, `None` is no call, a pool has at least one connection, a page at least
  one row;
* the accounts that exist at the start have different emails and company names;
* a list has finitely many rows and is sorted by a natural number, 0 standing for a row not made yet
  (`Listings.SizesAssumption`).

None of the properties is inductive: each depends on what a handler between two awaits remembers
and has already written. Every proof therefore has an invariant that says, label by label, what a
handler standing there holds on to, and shows that its own steps establish it and that the steps
of others cannot take it away. `Place` (which kind of handler stands at which label) and `TypeOK`
are part of most of them. TLC checked each invariant on an instance before it was proved.

| module | inductive invariant | theorems |
|---|---|---|
| `PurchasingProofs` | `IInv`; `MeetingInv`, `LedgerInv` for `RecordedSpec` | `TypeCorrect`, `Invariant`, `NeverOverdrawn`, `EveryOrderPaid`, `LinksAreRight`, `CartsEmptiedAfterCharge`, `Implements`; `MeetingInvariant`, `TwoOrdersNeedMeeting`, `BoughtAndRejectedNeedsMeeting`, `ReopeningNeedsMeeting`, `LedgerAccounts` |
| `PricingProofs` | `PricingInv`, `TypedInv` | `OrdersAtAskedPrices`, `QuotesHonoured`, `DetailsAddUp`, `TypeCorrect` |
| `AccountsProofs` | `AccountsInv`; `MeetingInv` for `RecordedSpec` | `TypeCorrect`, `Invariant`, `EveryFounderHasAddress`, `EveryAnsweredCanLogin`, `InvitationsAreMarked`, `Implements`; `MeetingInvariant`, `TwoInvitationsNeedMeeting`, `TwoAccountsNeedMeeting` |
| `SessionsProofs` | `SessionsInv` | `TypeCorrect`, `NobodyOverreaches`, `ProfilesTakeEffect`, `RefusalsKeepNames` |
| `ShoppingProofs` | `ShoppingInv`, `CartInv` | `TypeCorrect`, `ImagesAreThere`, `NoImageLeft`, `EveryToggleCounts`, `DeletedForever`, `MovesDeliver`, `NothingReturns` |
| `ListingsProofs` | `ListInv` | `TypeCorrect`, `ChangesMiss`, `ChangesRepeat` |
| `ConnectionPoolProofs` | `PoolInv`, `PlaceInv` | `WithinPool`, `NoConnectionLeaks`, `DeadlockNeedsNesting`, `NothingIsRepeated` |

* `IInv`: a handler about to withdraw remembers a balance that covers the amount (`CheckHeld`); it
  writes *that* balance minus the amount, so the result is non-negative however stale it is and
  whatever the sign of the amount. Past the deduction there is a ledger entry of the call, and
  entries are never removed (`ChargeHeld`). The total and the company an approval has read are
  still those of the request, since no handler changes them (`SnapshotHeld`), and a deleted row is
  not inserted again (`RowsDone`). A call enters the ledger and the orders once (`EnteredOnce`,
  `OrderedOnce`).
* `Implements` (of `Purchasing`) needs no more than `IInv`: the mapping is the identity on the
  tables, and shows as `findings` and `quotes` what handlers between read and write hold
  (`Resolving`, `Withdrawing`). Each step maps to the step of `Procurement` of the same meaning, a
  handler that fails or dies to `GiveUp`, the others to a stutter (`StepMaps`).
* `MeetingInv` (of `Purchasing`): a handler that has read its request as pending finds it so, or
  it has met whoever settled it (`StaleByMeeting`): when a handler settles a request, every other
  one that is going to write it is there at that moment and is recorded. A request that has been
  ordered is no longer pending, so nobody reads it as such from then on (`OrderedIsResolved`).
* `LedgerInv`: the balance a handler has checked was explained by a part of the ledger with
  everything that was withdrawn alone (`CheckExplained`), and is so until the handler writes it:
  whoever withdraws meanwhile does it in its presence and drops out of `Unmet`. The handler's own
  entry then completes the part. Administered months stay administered (`SetByStays`).
* `PricingInv`: the lines a call holds are those of the products at the moment it noted (`Drawn`),
  what it computed is what the lines come to (`Due`), a stored row is what its call held (`Filed`)
  and what is copied or shown is what is stored (`Copied`). The history only grows, so all of this
  lasts. No property of addition is needed: two totals agree because they are the same function of
  the same lines. `TypedInv` follows the lines from the cart into request, order and pages.
* `AccountsInv`: for every row the labels its call can have reached (`Founded`, `Enrolled`,
  `Sent`), so that a row is not inserted twice. A signup that still has the id of its company has
  given it its address (`Housed`); an acceptance holds the email and the company of its
  invitation, which exists as long as that company does (`AcceptHeld`); an inviter exists as long
  as the invitation (`InvitationHeld`): the foreign key refuses to delete one (`HasInvited`,
  `HeldBack`). A member is ahead of the mark on the invitation by one step of the member's own
  acceptance (`Marked`). Nothing ties the inviter to the inviting company, and nothing has to. For
  `Implements` the account appears in one step of `Membership`, the mark and the cart are
  stutters.
* `MeetingInv` (of `Accounts`): an invite past its check has met every other one that has made a
  pending invitation of its email since (`InviterMet`); an acceptance under way has met those that
  have made an account out of its invitation, or they have failed (`AcceptorMet`), because one
  that succeeded has marked the invitation for good (`JoinerMarks`).
* `SessionsInv`: from the guard's read on, the history vouches for an administrator (`RoleHeld`);
  how far a profile change has come (`ProfileHeld`).
* `ShoppingInv`: an image in the bucket has a product or a handler that owes it one (`Stored`); a
  move about to delete its wishes has put them into the cart (`Delivered`); the toggles done have
  the parity the wishlist shows, finitely many of them (`Counted`).
* `CartInv`: what a row holds was asked for by the calls that wrote that row, a negative quantity
  counting for nothing. A handler that has read a row (`HasRead`) is about to write at most the
  supply of that row and what it adds itself (`Prepared`), and the supply of a row only grows: a
  call never leaves the set of its writers. A row that was deleted and inserted again bears
  another id, so the update of a handler that had read the old one finds no row.
* `ListInv`: while a client is reading, the rows it has missed (`Missed`: steady rows that lie
  before its next page and were not shown) are no more than those that left, and the rows it can
  still see again (`Again`: shown, and on a page to come) no more than those that came. `Pos`
  counts the rows ahead of one in the order of the list, and a change moves each position by at
  most one: a row that leaves lets the position of at most one steady row slip under the page
  bound (`ChangeMissed`), a row that comes pushes at most one over it (`ChangeAgain`). At the end
  the rows after the last page read are bounded by those that came after the count (`PageShows`,
  `MorePages`); a list without a count ends on a short page, after which there is nothing.
* `PoolInv`: a transaction's connection belongs to a handler between its begin and its end, a
  borrowed one to a handler whose statement is being served (`Holding`); with cardinalities of
  finite sets this bounds the connections, and in a state where everybody waits it leaves nested
  transactions as the only holders.
* `PlaceInv`: which statement a handler has come to. `Work` counts the steps a call can still
  take, at most 22 of them, and `NothingIsRepeated` says that each step takes one or more from one
  call and leaves the others': the half of `EveryCallAnswered` that needs no fairness.

Sums and counts. `SumFunctionOnSet` of the community modules is a recursion over finite sets, and
the induction theorems of the proof library cannot be used, because they take an operator as a
parameter. `Sums` proves by least counterexample what the proofs need: strict inclusion on the
subsets of a finite set is well-founded, which the library states without a parameter, so a set on
which the claim fails has a subset-minimal one, and taking an element out of that contradicts
minimality. From this follow existence and uniqueness of the recursion (`PartialRecurs`,
`RecursUnique`), independence of the order (`SumTakeOut`), and `SumAdd`, `SumSame`, `SumNat`,
`SumMember` and `SumMono`.

Model-checked only: `EveryCallAnswered`, because liveness under fairness and `ENABLED` are out of
the prover's reach, and the three runs that find a violation.

## 5. What is left out

* Categories (two single reads that write nothing), the shared S3 module (commented out), middleware
  (it hands services to the guards), swagger.
* Reads for display other than the lists and detail pages above, validation of formats, wording,
  mail contents, token signatures. A token and its cookie run out together: `maxAge` is taken to
  be the lifetime the configuration gives to the tokens.
* Fractions, amounts that are no number, and a page size below 1, which the product list does not
  refuse (`products.controller.ts:124`). Prices are natural numbers: `ProductsController` is the
  one controller with a `ValidationPipe`, and its form has `@Min(0)`.
* The checks of signup are read at one moment; the unique constraints repeat them at the inserts.
* Why a delete of a user or company is refused by the foreign keys of orders, budgets and
  products: in `Accounts` it is one of the failures a statement may meet (`StatementFails`). What
  a delete cascades into the tables of `Purchasing`; `Listings` has its effect on the lists.
* An answer of the database that is lost after its commit, and an upload that S3 stored but
  reported as failed. Under the first, `ImagesShown` fails: `products.service.ts:235` then deletes
  the image of a product that exists.
* In `ConnectionPool` a handler is its sequence of statements; neighbouring statements of one
  helper are one, and single reads outside of any transaction are represented by `GetCartItems`.
* The seed gives the initial states of the models; migrations and the deployment workflow are
  configuration.

## 6. Plan

Everything the first plan named is modelled: `Purchasing` with `Procurement`, `Accounts` with
`Membership`, `Shopping`, `ConnectionPool`, the totals (`Pricing`) and the sessions (`Sessions`),
and `Listings` besides. What remains worth doing, in this order:

1. An answer that is lost after the commit as a fault of `Shopping`, with the compensation that then
   deletes the image of an existing product.
2. An instance of `Purchasing` in which the pool's limits decide when a transaction is lost, in
   place of the free choice the `"timeout"` fault makes now.

## 7. Running

    tlc -config PurchasingConcurrent.cfg MCPurchasing.tla

and likewise `PurchasingMonths`, `DoubleApproval` and `ChargedWithoutOrder` with `MCPurchasing`;
`PurchasingOverlaps` with `MCPurchasingOverlaps`; `ShoppingConcurrent` with `MCShopping`;
`RefreshStored` with `MCSessions`; `Accounts`, `Pricing`, `Sessions`, `Listings` and
`ConnectionPool` with the `MC` module of that name. The longest take two to three minutes with two
workers.

    tlapm AccountsProofs.tla

and likewise the other proofs modules and `Sums`.
