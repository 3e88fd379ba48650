# A verification project for the session broker

The session broker (`src/repo/crates/session-broker`) keeps browser sessions for
single-page applications: it logs users in at an OpenID provider, holds the
provider's tokens itself, and gives the browser an opaque cookie that it rotates
**without invalidating** the previous one. It is one process: an async HTTP
server, a few background tasks, one writer thread over a SQLite file.

This directory holds TLA+ modules that model its core, TLC configurations that
check them on small instances, and TLAPS proofs of what must hold on every one.

## 1. Inventory

| part | state | operations | what it talks to |
|---|---|---|---|
| session state machine (`session.rs`, `SessionEntry`) | generations, current number and plaintext, idle and absolute end, status, custody health, retired hashes | classify, mint, reap, retire, slide | pure |
| session map (`session.rs`, `SessionMap`) | token index, entries | create, refresh, tombstone, set_custody_status, sweep, rehydrate | handlers, reaper, keepalive; enqueues to the writer; announces to the event stream |
| writer and rows (`store/writer.rs`, `store/repo.rs`) | the command channel, the tables | drain a batch, apply it in one transaction, answer the acks | everybody who persists |
| login (`http/auth.rs`, `oauth.rs`) | login transactions in memory | start, callback: take custody (write-through), create | provider, custody, map |
| custody and keepalive (`custody.rs`, `keepalive.rs`) | deadline heap, per-custody health and backoff | tick, record, restore | provider, writer, map |
| reaper (`main.rs`) | - | sweep the map, reap the rows | map, writer |
| issuer (`issuer/`) | signing keys with their windows, a reload cache | rotate, reload, prune, sign, publish | writer, token endpoints, verifiers |
| identities (`http/admin/identity.rs`, `http/token.rs`, `http/user_token.rs`, `http/internal.rs`) | tenants, principals, secrets, grants, API keys; when each was last used | create, disable, revoke, add a secret, grant, issue a token | writer, issuer |
| audit (`audit.rs`) | queue depth, pending gap | record (Tier B), ride a mutation (Tier A), prune | writer |
| provider registry (`providers.rs`, `http/admin/providers.rs`) | a snapshot of the providers and their clients | create, change, disable, delete, connect, resolve | admin, login, keepalive |
| desktop handoff (`http/desktop.rs`) | which session an attempt's login made, how each attempt ended | note, bind, finish, redeem | login, the desktop app |
| encryption at rest (`store/crypto.rs`) | a keyfile, the ring a process loaded, the sealed columns | load, seal, open, rotate, reseal | writer, commands, the operator |
| rate limiter (`ratelimit.rs`) | buckets | check, sweep | handlers |
| event stream (`http/events.rs`) | a broadcast channel | subscribe, publish | map |
| admin console, configuration, telemetry, React SDK | see `PROJECT.json` | | |

What is hard here, and hardly reached by a test:

* a call on the map is three steps - read the clock, change the entry under its
  lock, then fix the index and enqueue - and other workers and the sweeper run
  between them;
* durability is write-behind: the commands of one call may be split over two
  transactions, those of two calls may swap, and a crash loses the rest;
* a restart rebuilds the map from rows that remember less than it did;
* the login writes through before it creates the session, and the reaper runs
  in between;
* one failing command rolls back everybody's batch;
* a provider that rotates refresh tokens makes every renewal a point of no
  return: the new token exists only in the task until its row is committed;
* the keepalive worker races the expiry of every access token with one sleep,
  one heap and a bounded number of calls;
* a signing key is judged by dates, against copies of the rows that are up to a
  reload old, by threads that read the clock before they write;
* a token request reads its tenant, its grant and its session at different moments
  while administrators change them;
* a login is a dozen awaits, each of which a second callback, an administrator, a
  key rotation or a restart may come between;
* the audit queue is counted by atomics that several recorders and the writer
  touch in no fixed order.

The hazards a property is about are listed, each at its line, in `PROJECT.json`, with
three more that a property comes near and does not cover, and why. Others are real and no
property reaches them:

* `keepalive.rs:181`: a restored entry is due when its row says, without its failures
  (`Boot` has it; that it is due in time is only promised while no restart happens);
* `keepalive.rs:201`: a removed custody leaves its position on the heap (nothing
  calls `remove`);
* `custody.rs:247`: a `Retry-After` that is not carried to the backoff;
* `main.rs:745`: custodies cannot be read at boot: the schedule stays empty until the
  next start (`Keepalive` has the step; nothing is promised about it);
* `clock.rs:47`: the wall clock may step back; every module here takes it as monotone
  (calls that read it early and act late are modelled);
* `http/events.rs:147`: a kill between resolve and subscribe reaches no stream;
* `issuer/mod.rs:364`: a configured maximum lowered while longer tokens are out;
* `http/admin/identity.rs:652`: a refusal explained from a second read;
* `http/internal.rs:147`: a failed lookup of issued keys falls through to the bootstrap key;
* `oauth.rs:232`: a transaction leaves memory only when it is redeemed;
* `http/admin/providers.rs:411`: two administrators at once on one provider;
* `store/writer.rs:747`: a reseal whose batch fails is not retried before the next start;
* `store/crypto.rs:268`: two `rotate-key` processes at once.

## 2. Modules

| module | models | proofs | TLC |
|---|---|---|---|
| `Session` | `SessionEntry` and `Generation`: pure operators | in those of `SessionMap` | through `SessionMap` |
| `SessionMap` | `SessionMap`: workers and the sweeper on shared entries and index | `SessionMapProofs` | `MCSessionsLogin`, `MCSessionsAudit` |
| `SessionStore` | `SessionMap` over the writer, the rows, crash, restart, reaper, login and revocation | `SessionStoreProofs` | `MCStoreAudit`, `MCSessionStore` |
| `Keepalive` | `Scheduler`, `KeepaliveWorker`, `CustodySink`, `OidcUpstream`, `run_keepalive`, the restored schedule | `KeepaliveProofs` | `MCKeepaliveIdentity`, `MCKeepaliveSigning`, `MCKeepalive` |
| `SigningKeys` | the signing keys of the token issuer, their cache, and a verifier | `SigningKeysProofs` | `MCKeepaliveSigning` |
| `Identity` | tenants, principals, secrets, grants, API keys and the three token lanes | `IdentityProofs` | `MCKeepaliveIdentity` |
| `Credential` | abstract: what a credential promises | refined by `Identity` | `MCKeepaliveIdentity` |
| `KeyRing` | the keyfile, the broker's ring, reseal, `rotate-key` and the operator | `KeyRingProofs` | `MCKeepaliveSigning` |
| `Providers` | provider rows, registry, clients, administrators | `LoginProofs` | `MCSessionsLogin` |
| `Handoff` | the desktop attempts' two tables: pure operators | `LoginProofs` | `MCSessionsLogin` |
| `Login` | login and callback over `Providers` and `Handoff` | `LoginProofs` | `MCSessionsLogin` |
| `Audit` | the audit sink, the writer that drains it, retention, the reader | - | `MCStoreAudit`, `MCSessionsAudit` |
| `Optional` | Rust's `Option` | | |

Most `MC` modules host two or three components. They share no variable, so what one does
cannot depend on the others; the variable `part` says which of them moves, and a run
explores each with the others at their start. Every property of the run is about one
of them, so this checks what separate runs would. A component may be explored in two
parts, under different bounds.

**Session.** A vector of the code is a set of records that carry their place
(`pos` in `gens`, `age` in `retired`), so that reaping, capping and trimming are
set expressions. A token and its hash are one number, drawn in minting order:
256 random bits do not repeat and SHA-256 does not collide. Times are whole
seconds, as in `clock.rs`; the clock is monotone.

**SessionMap.** `call[w]` is a refresh that has read the clock; the action
`RefreshCoalesced` or `RefreshRotated` is the section under the entry's lock;
`pending[w]` is what the worker still does after it (`Apply`, `Purge`,
`FinishRefresh`). `create` and `tombstone_session_with_reason` are split the same
way, and the sweeper visits one entry per step. The lookup in the index and the
lock section are one step, because a hash purged between them is also unknown
to `classify`. `held` is what browsers received, `kills` counts announcements;
both only observe. Every login takes a custody of its own, so a custody is named
by its session; `SetCustodyStatus` stands for the keepalive worker's reports.

**SessionStore.** Adds the writer's channel as `queue`, the rows as `db`, and
`WriteBatch`, which applies any prefix of the queue as one transaction: the
drain takes what is there, and what arrives later goes into the next batch. A
statement that breaks a foreign key makes the whole batch fail, and so may a
fault of the store (`StoreFaults`). `Crash` may happen between any two steps;
`Shutdown` is the drained stop of `main`; `Boot` is `rehydrate` with
`rehydrate_session`. `before` remembers the map of the last process so that a
restart can be compared with it.

**Keepalive.** `entries` and `due` are the scheduler's map and heap, `schedule` the
requests the worker has not received, `wake` the end of the select's sleep.
`TakeDue` starts a tick, `Dispatch` spawns the next chunk (`batch` is what is still
to come), and each task in `flight` goes from "reading" its row to "calling" the
provider, "storing" the answer and "done"; `Record` is what `tick` does with a
joined result, in full. Jitter is a choice over every whole second it can produce
(`LeadDelays`, `BackoffDelays`), times are seconds, fractions are percents. The
provider (`grant`) honours one refresh token, rotates it or not, revokes at any
moment, is busy or its answer is lost; `lost` remembers custodies whose valid token
reached no row. Urgency is in the guard of `Tick`: a second passes only when
nothing that takes less is left to do, and a call ends within `MaxCall`, the
timeout of the HTTP client. Abstracted: one session per custody, of which the
status and the health shown are kept; `Logout` stands for every way a session
ends but a dead grant; every access token has the same lifetime; a provider deleted
from the registry ends a refresh as a refusal does; a stored token is always valid
UTF-8; `Commit` takes one command at a time, because a batch may end anywhere; the
reaper runs on a drained queue (`SessionStore` has it in detail).

**SigningKeys.** A key is its rowid and has no state column: whether it is pending,
signing, published or retired follows from its dates, as in the code. `cache` is the
broker's copy of the rows and when it was put there; a reload is two steps
(`ReloadRead`, then `ReloadInstall` or `ReloadFails`), so that an older read may be
installed after a newer one; a rotation reads the clock (`RotateStart`) before its
transaction (`RotateCommit`), in the broker or as the `rotate-signing-key` process
(`Cli`); the prune removes one key per transaction (`PruneRemove`). `boot` is the
bootstrap, `verifier` a copy of the published set as old as its `max-age` allows, `ended`
what immediate rotations ended. `tokens` is until when what each key signed in its turn is
accepted, and `strays` the same of what an older key signed because no newer seed would
open (`KeyCache::signing` falls back to it, dated or not); `Kill` may lose seeds.

**KeyRing.** A key is an id and its bytes; a row is the key it is sealed under.
`Start` loads the file (and makes it, the first time), `Reseal` is the boot reseal with
its report, `Write` seals under the broker's active key, `WriteByCommand` under the
file's (`rotate-signing-key` beside a running broker; its load and its write are one step),
`RotateRead` and `RotateRename` are the two halves of `rotate-key`, and `Forget` is the
operator who deletes keys when the printed rule allows it.

**Identity.** Administrators' requests are single transactions; what is stale in them
is the clock they read (`at`). A token request is served in steps, one for each read:
the user lane reads the session, the live grants, whether any grant ever was, and the
default tenant (`UserRequest`, `ReadLiveGrants`, `ReadAnyGrant`, `ReadDefaultTenant`,
`UserSign`), and administrators act in between. `touched` and `touches` are the
throttled record of the last use on its way to the store (`ApplyTouch`, `LoseTouch`).
`token` is what this step handed out; `history` observes. `Book` is the refinement
mapping: a secret is unissued, valid or ended in the sense of `Credential`, by its
row, its principal's and the clock together.

**Audit.** `record()` is a sequence of atomics, each a step of its own: `Load` compares
the depth with the capacity, `Drop` adds to the pending gap, `SwapRead`, `Swap` and
`Add` take the gap and reserve, `Send` enqueues. The writer drains (`Drain`), gives the
depth back before its transaction (`Release`), and commits or fails (`Commit`, `Fail`).
`Ask` is an administrator's mutation with its Tier A row in the same transaction;
`OpenRecord` and `ReadPage` are the paging reader; `Prune` the retention sweep.

**Providers.** An administrator's request reads the settings (`AskCreate`, `AskUpdate`,
`AskDelete`), looks who answers to the id or reads the registry again for the client it may
keep (`AdminPrepare`), connects (`AdminConnect`), writes the row (`AdminApply`) and changes
the registry (`AdminInstall`), with logins and other administrators in between. An entry
holds its settings and a cell for its client, shared by every request that picked the
entry; `Reusable` keeps the client only where the code does. `people` are the rows that
name a provider by id or by the prefix of a subject. `history.checked` counts them when an
issuer is settled, `history.off` holds the callbacks past the check when a provider is
closed, `history.crossed` the ids that two requests were ever changing at once.

**Login.** `pc[b]` is one request: `AskLogin`, `Connect` and `BeginLogin` start a
transaction; `AskCallback`, `Pick`, `Connect`, `Take`, `Exchange`, `Refetch`, `Fetch`,
`Verify`, `StoreCustody` and `MakeSession` are the callback, one step for each await and
each access to shared state. The browser may bring any answer with any cookie, late
or twice. `AskDesktop` and `Mint` bind a session to a desktop attempt, `Redeem` is the
app. `Restart` forgets what lives in memory and rebuilds the registry from the rows.

## 3. Runs

Passing, with the guests in the further parts:

* `SessionMapRotation` - two workers, one session, five tokens, the sweeper. The
  policy has `Grace <= (Cap - 1) * Coalesce`, as the default one
  (60 <= 3 * 30): otherwise the cap alone evicts a cookie in its grace window.
  `MaxStall = 1` lets a call straddle a second. Guest `Login`, in two parts: "login", two
  requests, one provider beside the configured one, three issuers, one desktop attempt and
  one administrator (there `MaxTxns` leaves one transaction to exchange; some initial rows
  and keys let the last steps of a long login be reached within `MaxInputs`); "admins",
  two administrators on that provider, with roles granted, keys rotated and crashes, and no
  browser.
* `SessionMapCap` - one worker and a cap of two, narrower than the grace window: the
  cap binds, holds, and takes the oldest; a tombstoned session is forgotten. Guest
  `Audit` with its fairness: a full queue always drains.
* `SessionStoreRestart` - in two parts: "race", two workers over the writer and up to two
  stops, where no disk is full and nothing is reaped; "reap", one call at a time beside the
  reaper, with failed transactions and one stop. Lifetimes are short enough for a session
  to be reaped for its absolute end as well as for its tombstone. `RaceFailsNoBatch` is about
  the first part: beside the reaper or on a full disk batches do fail. Guest `Audit`: two
  recorders, capacity one, a failed batch or a crash.
* `KeepaliveSchedule` - two custodies, room for one call at a time, a provider that
  answers within `MaxCall`, revocations: deadlines and the heap. No token expires if
  a worst case fits in the lifetime: the call that issued the token, the longest
  lead, a sleep, and the calls of a tick already running (1 + 6 + 1 + 1 + 1 <= 10
  here; 30 + 198 + 5 + 30 + 30 <= 300 for the defaults and a five-minute token, while
  what is due together fits in one chunk of `max_concurrent`; each further chunk may
  add a call). Guest `Identity`: two tenants, one principal, three secrets, one API
  key, three changes and two requests, and the refinement of `Credential`.
* `KeepaliveFaults` - one custody and everything that can fail, other logins, the
  reaper, a logout and a crash, with three refresh tokens and time for a token to
  expire. Guest `SigningKeys`: one thread of the broker beside the command, three keys,
  four seconds, a restart that may lose the newest seeds. Failed writes ("store") are left
  out of this instance, where they only repeat what a rotation that never started does.
  Guest `KeyRing`: two rows, ids up to four, fourteen inputs: rotations, restarts and
  deletions three deep.

In the parts of `SessionMap`, `SessionStore` and `SigningKeys` the clock waits at its start until
there is a session, a stored custody or a key: seconds that pass over an empty table
change nothing anyone computes with, and would only shift every date.

Violations - each shows a line of the repository that the code does not keep
(the findings in `PROJECT.json` quote them):

* `SessionStoreEmpty` - progress committed without its generation lets the sweeper
  reap every generation of a session;
* `SessionStoreLogin` - the reaper deletes the custody of a login in progress;
* `SessionStoreDeploy` - a clean restart refuses the newest cookie, after a
  coalesced refresh's progress overtook (in the queue) a later rotation's;
* `KeepaliveStarved` - requests that keep arriving restart the sleep, and nothing
  due is refreshed (without `other_login` the same instance has no violation);
* `KeepaliveRevoked` - after a crash between a custody's death and its sessions'
  tombstones they are served again, for good;
* `LoginDisable` - a callback that has passed the check of its provider makes a session after
  the administrator who disabled the provider was answered (`DisableHolds` is what does hold:
  no other callback does);
* `SigningFallback` - the newest seed does not open after a restart, a key that is already
  dated signs in its place, and its last token outlives its publication (`TokensVerify`, in
  `RotationIsSeamless`, is what does hold: no token signed in its turn does).

**Bounds.** Every bound is a constant named `Max...` (and `LoginBy`, `Lag`). One session
suffices because entries share nothing but the index and the writer's queue; two workers
are what a race needs; three to five tokens reach the cap, the retired memory and
a purge; the clock runs past the absolute end. `MaxStall` bounds how many seconds
a call takes; the store's passing run sets it to 0 (a call ends within the second
it began in) and `SessionStoreDeploy` shows what changes at 1. `MaxQueue` makes a
task wait when the channel is longer: the code never waits, but any prefix may be
committed before a crash, so longer queues only lose more of the same. For
`Keepalive`, `MaxTime` reaches a second renewal of the first custody, `LoginBy`
lets two logins be apart by less or more than a sleep, `MaxTok` allows two
rotations, `MaxRestarts` one crash. Two custodies are what a batch of one needs to
make one wait. `MaxInputs` counts what comes from outside (requests, ticks, faults),
never the steps that serve it. Most properties of these runs are also theorems
(below), and there no bound has a value.

**Fairness** (`LiveSpec` of the components, `MCSpec` of `MCSessionsAudit`). The clock runs; a
handler that can go on does, because Tokio polls every ready task and no lock is held
across an await; the sweeper's task loops for ever; the writer is a thread that loops on
its channel, and a recorder, once begun, has no await. New requests are not fair.

Deadlock is not checked: the bounded clock and token supply make every behaviour
end.

## 4. Proofs

Theorems hold for any sets of sessions, workers, custodies, browsers and so on, any policy
and any value of the bounds, under the assumptions named beside each constant and the
hypotheses stated in the theorem. In `PROJECT.json` each theorem that states a property of
a run names it.

**The session map** (`SessionMapProofs`).

* `TypeCorrect`, `CurrentGenerationKept` (`OneCurrentGeneration`), `CoalescingSpacesMints`
  (`MintsAreSpaced`) come from `IInv`: `TypeOK`, `EntriesOK` (every entry has a current
  generation in the sense of `IsCurrent`, its vector is spaced and finite, and its
  tokens were minted) and `PendingOK` (what a worker still has to do names tokens
  that exist). The current generation has to be the last of the vector *and* carry
  the current number at once: `reap_generations` exempts by number and `current()`
  takes the last, and neither half is inductive alone.
* `GenerationsWithinCap` (`LiveGenerationsBounded`), `AbsoluteEndKept` (`AbsoluteEndFixed`)
  and `CapTakesOldestFirst` (`CapTakesTheOldest`) need `Solid`: each vector is `Ordered` (by
  place and by minting alike), within the cap, and `Rationed`: between a generation's
  end and a later one's birth lies a coalescing window for each one in between,
  reaped or not. From it `CapTakesOldestFirst` follows if `Grace > 0 \/ Coalesce > 0`. With
  both 0 it is false: a refresh that read the clock before the previous one ends its
  own cookie, while an older one stays.
* `GenerationsCanBeFound` (`GenerationsIndexed`) and `RefusalsAreFinal` (`RefusalIsFinal`) need
  `Tracked`: where every token ever minted is - in a vector, remembered as retired,
  waiting to be applied or purged, or gone - and what the index says of it.
* `RotationIsNonInvalidating` (`RotationInvalidatesNothing`) holds when `RotationIsGentle`: a
  call stalls for less than the grace window and the idle lifetime, and
  `Grace <= (Cap - 1) * Coalesce`. The defaults satisfy it (grace 60, coalesce 30,
  `max_live_gens` 4, idle seven days; `session.rs:60-64`). `DoomedOK` says what the
  sweeper may remove: a session marked for removal was killed, or had been idle for a
  whole grace window when the sweep began.
* `SessionsKilledOnce` (`KilledOnce`) rests on `KillsOK`: announced, or about to be by exactly
  one worker, as soon as the entry is a tombstone.

**The store** (`SessionStoreProofs`).

* `StoreTypeCorrect` (`StoreTypeOK`): a batch is a recursion over the queue; its type is proved
  by the least counterexample over the length of the part already applied
  (`BatchInduction`), which needs no induction theorem.
* `TombstonesSurviveRestarts` (`TombstoneSurvives`): `DeadInv` adds that a session whose end is
  recorded somewhere - its row, the queue, a worker about to send it - stays ended
  wherever it is (`EndingStays`), that whatever was committed as a tombstone left such a
  trace (`TracesOK`), and that a stopped process has no entry (`DownOK`).
* `ReapingSparesTheLiving` (`ReapSparesTheLiving`), without hypotheses: `DatesInv` adds to
  `DeadInv` that the absolute end of a session is one date wherever it is written - its
  entry, the work of the call that created it, the queued row, the row (`EndsAgree`) -
  and that the reaper counts from a moment that has passed (`ReapsPast`). A batch may
  update, tombstone and reap one row in turn, so the writer's step is proved over
  every row its commands pass through (`WriteBatchDates`): a row that goes is of a session
  whose end was recorded, or whose date is over.
* `NoBatchEverFails` (`NoBatchFails`), if the store is durable, sound and no reaper runs (the
  part "race" of `SessionStoreRestart`, where `RaceFailsNoBatch` says the same; with a reaper it
  is false, `SessionStoreLogin`). `FKInv`
  carries both halves: in the queue and the rows, custody before session and session
  before generation, whatever prefix is cut (`CustodyFirst`, `RowsFirst`, `Integrity`); in
  the map, a login's tokens are known to nobody else before its rows are enqueued
  (`FreshOK`, `CreatorsOK`, `IndexOK`, `ApplyOK`, `OneCall`).

**Keepalive** (`KeepaliveProofs`).

* `KeepaliveTypeCorrect`, `NoConcurrentRefresh` (`OneRefreshAtATime`), panics and crashes
  included; `NoCustodyForgotten` (`StaysScheduled`) if no refresh panics - with a panic it is
  false (section 5). From `HandInv`: the types, `OneRefreshAtATime`, `Issued` (a row, or
  a task past its read, means the provider has a grant) and `DownIsEmpty` (a stopped
  process has nothing in hand). Marking alone is not inductive: a result is recorded
  in the entry it finds, and `Boot` rebuilds every entry.
* `GrantNeverBurnt` (`GrantKept`) needs `HoldsNewest`: a task that stores holds the token the
  provider will honour, so that what it writes is the newest.
* `DeadGrantsStayDead` (`DeadStaysDead`) and `DegradedIsExpired` (`DegradedMeansExpired`) come from
  `Ledger`: what a queued command, a task's answer and an entry say of the row is in
  the order in which it became true.
* `TokensKeptWarm` (`KeptWarm`) and `RevocationReaches` (`RevocationPropagates`) are bounds in
  real time. Hypotheses: `Reliable` (no fault, no crash); `InTime`, that a token's lifetime
  covers one call, the longest lead, one sleep, and two ticks in which everybody is
  renewed, `MaxConcurrent` at a time; and `Undisturbed`, that no request arriving while a
  custody is due postpones the sleep - without it both are false (`KeepaliveStarved`).
  With the defaults (`keepalive.rs:48-52`, a 30 s timeout) `InTime` allows some 150
  custodies with tokens of an hour, eight with tokens of five minutes. `Punctual` is the
  worker's own deadline: a tick ends within the rounds its batch still needs
  (`TickEnds`). `Times` gives every custody a deadline it meets: in hand, before its token
  ends; waiting, `next_refresh` leaves room for a sleep and two ticks, one already running
  may end with room for a sleep and one more, and a sleep with a custody due for one
  more. `Ends` says that only the provider ends a grant and that no token is
  fetched after it did.

**Encryption at rest** (`KeyRingProofs`): `KeyRingTypeCorrect`, `RowsStayReadable`
(`NoRowStranded`), `ResealIsComplete`, `ActiveOnlyAdvances`. The invariant says that a
rotation only adds (`RotationAdds`), that the key a running broker seals with
stays in the file (`RingBelongs`), that what it cannot open was sealed after it started
(`UnreadIsNewer`), and what a report of a reseal still means later (`ReportHolds`).

**Identities** (`IdentityProofs`).

* `SecretsImplementCredentials` (`SecretsAreCredentials`): every step of `IdentityNext` maps to a
  step of `Credential` or leaves it unchanged.
* `TokensHandedOutAreDue` (`TokensAreDue`): `ServedOK` says, for each stage of a request, at
  which moment of it the tenant, the secret and the grant were good; a later
  revocation does not undo a token already due.
* `CredentialsStayAsShown` (`CredentialsAsShown`), under `TouchesAreQuick`, `Lag < TouchInterval`: a
  use reaches the store in less than the throttle interval (60 s, `issuer/mod.rs:53`,
  `http/internal.rs:78`). A slower writer could store an older use over a newer one.

**Signing keys** (`SigningKeysProofs`).

* `KeysAreKept` is the inductive invariant `KeysInv`: what dates a row can have (every
  retirement date is owed to a later row), and, for every copy of the rows - in the
  cache, in a reload under way, at the verifier - that it is a copy of rows that
  were (`Copied`), whole (`Whole`) and behind by no more than its age (`Covers`, `KnowsEnded`).
* `RotationLeavesNoGap`: types, `NoSigningGap` and `ShownKeySigns`, without any assumption on
  the leads.
* `EmergencyRotationTakesEffect` (`EmergencyTakesEffect`), likewise.
* `RotationDisturbsNobody` (`RotationIsSeamless`), without hypotheses on leads or races. The
  property itself names what it does not cover (`Disturbed`): keys that an immediate rotation
  came after, or one whose lead is shorter than a cache may be stale and two steps slow
  (the admin endpoint allows any lead), or one that took effect in the same second and lost
  the tie to them (section 5); and tokens signed in place of a newer key
  (`SigningFallback`). `LeadsInv` says that a copy of the rows that may still be signed from
  knows of every other rotation in time (`CopiesSign`), so that what is signed in turn ends
  before its key's retirement (`Presented`).

**Login** (`LoginProofs`).

* `LoginsAreTyped`: types, and that every entry, client and transaction pointed at exists.
* `SessionsComeFromLogins` (`LoginsAreEarned`) and `ClosedProvidersStayClosed` (`DisableHolds`), for any
  number of browsers, administrators and restarts. `SessionsInv`: a transaction that a
  request holds is in no other request and has left memory (`Once`); a request past
  `Verify` holds an answer given for its own transaction (`Checked`, `Earned`); an attempt is
  bound only to its login's session (`Bound`); a callback is past the door of its
  provider only if it was open (`Doors`).
* `AdministratorsAreServed` (`ProvidersServed`) and `IssuersKeepTheirPeople`
  (`EarlierPeopleKeepIssuer`), for any number of administrators. Both say nothing of an id that two
  requests were ever changing at once (`history.crossed`): the endpoints do not prevent it,
  and of such ids they are false (section 5). `RowsServed` says what the registry may lag
  behind and by whose hand, and that a request alone on its id still knows what it read,
  though `update_inner` reads the registry twice; `PeopleKept` that nobody of another issuer
  came to an id before the check of the request that last settled it. `ClientsInv` adds that
  one fetch runs at a time and keys never go back, for any number of logins that meet a
  rotated key (the run has one exchange in flight).

**Only model-checked.** `TombstonedIsForgotten` and `StallEnds` are liveness under fairness,
out of the prover's reach. `WriteBehindConverges` and `RestartKeepsCookies` need that a call
ends within the second it began in (`MaxStall = 0`), which the code does not guarantee: with
a slow call `SessionStoreDeploy` shows the second to be false, so neither is stated as a
theorem; the run shows what the rows, the queue and the restart add to calls that are quick.
`SinkKeepsCount` and `RecordTellsAll` relate counters to sums over sequences, defined by
folds: what a fold computes for every sequence takes induction over data.

## 5. Seen while modelling

Comments that the code does not keep and that one look at the named lines settles;
no run is spent on them.

* `session.rs:750`: a coalesced refresh can hand out a cookie before `apply` indexes
  it, although every entry of `gens` is said to be indexed.
* `session.rs:757`: a cookie whose `InsertGeneration` is still queued is unknown
  after a crash, although losing it is said to log nobody out.
* `session.rs:443`, `repo.rs:2097`: a generation the cap evicted is active again after
  a restart, beside its successors (INV-6).
* `keepalive.rs:194`: `insert_restored` says the stored `fail_count` comes back; it is 0.
* `custody.rs:270`: `next_refresh` is stored as the token's expiry and said to be
  overwritten on `record`, which writes nothing; after a restart the renewal is due
  when the token expires.
* `custody.rs:248`: no `Retry-After` reaches the backoff.
* `session.rs:654`: under `degrade` the session of a dead custody is shown healthy
  after a restart, and no result of the worker will correct it.
* `keepalive.rs:431-437`: a refresh that panics is logged and never recorded: its entry stays
  marked `refreshing` and is in no heap, although the comment says it "simply stays
  scheduled and is retried". (`StaysScheduled` is violated in two steps by `Panic`; the
  panic is a fault of `KeepaliveFaults`, where the other properties hold through it.)
* `http/admin/providers.rs:442`: a login that stores its custody between the check "nobody
  under this id" and the write leaves a person of the old issuer under an id that
  names the new one; ADR-0018:76 says "An issuer is fixed once people exist under it".
  `EarlierPeopleKeepIssuer` counts only people recorded before the check.
* ADR-0018:47-48: an update begun before a disable, and slower, writes `enabled` back.
* Two administrators on one provider: they may apply in one order and install in the other;
  the registry then differs from the rows until a restart, and a grant recorded in between
  escapes `EarlierPeopleKeepIssuer`. Likewise `update_inner` takes the settings and the
  connected client from two reads of the registry (`http/admin/providers.rs:404` and `:466`):
  an install of the other administrator in between pairs old settings with a newer client.
  `history.crossed` marks these ids.
* `oauth.rs:232`: a login transaction is said to be bounded by its TTL; in memory it
  stays until somebody brings its cookie.
* `http/desktop.rs:136`: "One use", yet two page loads of one attempt around a redeem can
  hand out two outcomes.
* `oauth.rs:338`: the floor between two fetches of a key set is measured from the clock
  the callback read on arrival.
* The callback's comparison of `state` protects nothing that nonce and PKCE do not:
  without it no property of `Login` fails.
* `issuer/keys.rs`: two racing rotations may give two keys the same `activate_at` with
  their `created_at` inverted; the superseded one then wins the tie and signs until its
  `retire_at`, and a token of it may outlive its publication (`Disturbs`).
* `store/crypto.rs`, `main.rs:555`: `rotate-signing-key` loads its ring when it starts and seals
  when the write is its turn. If an operator rotates the keyfile, restarts the broker, sees
  nothing to reseal and deletes the old key while such a process is running, its row is
  sealed under a key that is gone; `WriteByCommand` takes the command to be over before.
* `issuer/mod.rs:313`: the use is noted in memory before its write is sent, so a lost batch
  leaves it unrecorded until the interval is over; `CredentialsAsShown` leaves such uses out,
  and nothing promises more.
* After an immediate rotation the console notes that every older key is no longer
  published; a reload that read the rows before may undo it, for at most a
  reload interval.
* `http/admin/identity.rs`: a key whose seed cannot be opened is shown as "signing".
* `http/admin/identity.rs:652`: after a refused insert the tenant is read again to say why;
  a tenant enabled in between turns the reason into `principal_exists`, for a
  name that does not exist.
* `main.rs:531` says a running broker picks up the rotated signing key "within a minute; no
  restart is needed."; after a `rotate-key` it cannot open it until it restarts.
* `store/writer.rs:747`: a reseal is logged before its batch commits, which may still
  fail, and one with nothing to do is not logged at all, so that silence may be either.
* `store/crypto.rs:268`: two `rotate-key` runs may
  reuse an id with other bytes, and the reseal compares ids only.
* `store/writer.rs:518`: the Tier B rows of a failed batch are lost without a gap row;
  with two recorders a gap row need not precede the next row.
* `session.revoked` and `logging.level_changed` are catalogued as Tier A and enqueued as
  Tier B.
* A stalled refresh may slide `idle_exp` back, to what an older clock reading gives.

## 6. Not modelled yet, and the plan

1. `Audit`: the parts of `SinkKeepsCount` that need no sum (`QueueBounded`), stated over the
   count of the channel.
2. The rate limiter, the event stream and the SDK's refresh leader.
3. An abstract browser session (logged in, idle, ended) that `SessionMap` implements.

Left out for good: parsing, formatting, cookies' attributes, headers, metrics,
the ciphers and signatures, the provider's side of OpenID Connect, the console.
