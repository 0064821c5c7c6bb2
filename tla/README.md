# KeyPage in TLA+

KeyPage is a self-hosted vault for API keys: a Fastify server with one SQLite
database, a browser application that holds the encryption key and does all the
cryptography, and shell scripts that install and update the container. This
directory holds a formal model of it, the TLC configurations that check the
model on small instances, and TLAPS proofs of the properties that matter most
for every instance.

## Inventory

| Component | State | Operations | What makes it correct |
|---|---|---|---|
| Vault database (`apps/api/src/auth/vault-repo.ts`, `keys/key-entry-repo.ts`) | `vault_auth` row with key digest and `key_version`, entries and their order, recovery codes, tickets | one SQLite transaction per request: initialise, claim, cancel, reset, change password, regenerate codes, create/import/update/delete/reorder entries | stamps are current; a rotation replaces everything or nothing; a ticket never survives its batch |
| Vault and entry routes (`routes/vault.ts`, `routes/key-entries.ts`, `keys/key-write-proof.ts`) | none of their own | check session, proof, throttle; run a transaction; set or clear the cookie | what a check established still holds when the transaction runs |
| Sessions (`auth/sessions.ts`, `plugins/require-session.ts`) | rows with idle and absolute timeouts | create, resolve, touch, revoke | no session outlives a rotation or coexists with an open ticket; refused once is refused for good |
| Throttle and challenges (`auth/throttle.ts`, `auth/login-challenges.ts`) | a count, a window start and a lock per scope; open nonces of two purposes | assertNotLocked, recordFailure, resetThrottle; issue, consume | guesses are bounded per window; a lockout is served; the quota is kept |
| Setup gate and start-up (`auth/setup-token.ts`, `main.ts`, `data-dir.ts`, `db/migrations.ts`) | token in memory and in a file, `instance.json`, `user_version` | start, verify, consume, restart | a listening server is ready; one claim, within the token's lifetime, across kills |
| Browser session (`vault/VaultProvider.tsx`, `session-keys.ts`, `recovery-session.ts`, `routes/guards.ts`) | the key and its version, the proof key, the held claim with its epoch, UI phase, wizard and route | setup, unlock, lock, claim, complete or cancel recovery, change, regenerate | the version never drifts from the key; no dead end; fresh codes are not lost |
| Re-keying (`vault/master-password.ts`, `client-rekey.ts`) | captured inputs between awaits | change, recovery reset, regenerate | nothing is lost or stranded |
| Entry operations (`vault/keyEntryOperations.ts`, `key-version-pin.ts`, `lib/api.ts`) | captured key, version, ciphertext | create, update, delete, import | a write under an old key is refused |
| Idle lock (`vault/useIdleLock.ts`) | activity and touch times | heartbeat, warning, lock | fires, and tells the other tabs |
| Entry list (`vault/useKeyEntries.ts`, `KeyEntrySortable.tsx`, `key-entry-order.ts`) | optimistic list, a drag | load, reorder, insert, drop | agrees with the server's order; a drop does what it previews |
| Secrets on screen, clipboard, edit form (`useKeyEntrySecret.ts`, `lib/clipboard.ts`, `KeyEntryModal.tsx`) | plaintext and timers | reveal, hide, copy, clear, prefill, save | gone after the timeout and after a lock; an edit writes back nothing old |
| Scripts (`scripts/update.sh`, `backup.sh`, `rollback.sh`) | directories, container, override file, lock | cut over, restore, archive, roll back | no accepted write is lost; an old image never opens newer data |

Tabs and server talk over HTTP; the tabs of one browser share the session
cookie and a `BroadcastChannel` for locks; everything else a tab knows is its
own. The hard behaviour is in the gaps: `requireSession` is an asynchronous
hook that runs before the handler; every browser operation captures its inputs,
awaits, and applies an answer to a tab that has moved on; a recovery claim hands
out a snapshot that is used up to a ticket lifetime later; tickets and sessions
expire meanwhile; requests and answers get lost; pages reload; processes and
scripts are killed between two writes. The hazards in `PROJECT.json` name the
lines.

## Modules

* **`VaultStore`** - the database and every transaction on it. `StoreNext`
  trusts no client: keys, versions, ciphertexts and sessions of a request come
  from the whole of their types, so what holds here holds whatever is sent.
* **`KeyPage`** - EXTENDS `VaultStore` with the browsers: per tab the key with
  its version and the held claim, per browser the cookie, and a set of *calls*.
  A call is one asynchronous operation from the capture of its inputs to the
  application of its answer; its phase says where it is, and between two phases
  anything else may happen. The server's handlers are actions that look at a
  call, run a transaction of `VaultStore`, and write the answer into the call.
* **`KeyBox`** - the abstract promise: contents, an epoch of passwords, and the
  recovery codes that still open the box. `KeyPage` implements it
  (`KeepsThePromise`, by `INSTANCE KeyBox WITH ...`), reading the stored entries
  through the key that the Master Password gives.
* **`TabLock`** - the phase and the timers of one browser's tabs: `state.phase`
  against the key and the shared cookie, and the idle lock with its heartbeat.
  It looks at the same tabs as `KeyPage` from another side: what an operation
  does to the vault is left out, and time, activity, lost requests and the
  restart of the hook's effect are in.
* **`Wizard`** - the screens of one tab: route, phase, wizard and the claim that
  the recovery session holds, every operation of the provider with its second
  request for the status, the guards of all routes, back navigation and reloads.
* **`KeyList`** - the order of the entries: `sort_order` on the server, the
  dashboard's optimistic copy, drags, arrow keys, filters and modals.
* **`Secrets`** - plaintext in one tab: overlapping reveals, copies, prefills
  and saves, with the timers that end them.
* **`Throttle`** - the failure counters and the challenges, with relative time.
* **`ServerLife`** - the API's process: its start-up step by step, kills, failing
  writes, and what the running server decides by the clock (setup token, session
  timeouts, a changing idle timeout).
* **`Updater`**, **`Deployment`** - `update.sh` command by command, with failing
  commands, signals and kills; `Deployment` EXTENDS it with `backup.sh` and
  `rollback.sh` between updates.
* **`MCVaultStore`**, **`MCKeyPage`**, **`MCTabLock`** - symmetry and the browser
  layout for TLC; the other modules need none.
* **`KeyPageProofs`** (also for `VaultStore` and `KeyBox`), **`TabLockProofs`**,
  **`WizardProofs`**, **`KeyListProofs`**, **`SecretsProofs`**, **`ThrottleProofs`**,
  **`ServerLifeProofs`**, **`DeploymentProofs`** - theorems.

Operators marked *Fault* are variants that a plausible bug would give; no
specification uses them, and `PROJECT.json` names the definition each replaces.

The modules cut the system along what its parts share. `KeyPage` composes the
store with tabs, calls, cookies and broadcasts, for there the interleavings of
several tabs decide about data. The others look at one tab or one machine with a
detail that would drown there: where a module needs the rest, it takes what the
rest may do as a choice (in `Wizard` and `TabLock` any answer may come or be
lost, in `KeyList` another tab may write, in `ServerLife` a request may use any
session), which is a superset of what the other module allows.

### Reading the code in the model: vault and tabs

| Code | Model |
|---|---|
| `vault_auth.auth_stored_key`, `recovery_stored_key` | `vault.key`: both digests derive from one master key and change together |
| `key_version` | `vault.version` |
| an entry's ciphertext | a record: the key that opens it, the declared version, the IV, the plaintext |
| fresh salt, fresh IV | the next number, taken when the server accepts the request: nothing else compares them |
| recovery codes | one batch of `Code`s; a replacement unspends all of them under a new key |
| ticket rows that are consumed, expired or cascade-deleted | `"dead"`: every query answers alike |
| session past a timeout but not revoked | `"stale"`: `resolveSession` rejects and revokes it, `isSessionActive` accepts it |
| `requireSession`, then the handler | `Authorize`/`TurnAway`, then `Handle...` in a later step |
| `POST /setup` around its `await` | `InitializeVault`, then `FinishSetup` or `FailSetup` |
| `encryptionKey` with `encryptionKeyVersion` | `keys[t]` |
| `recoverySession`: held claim and epoch | `KeyPage`: `held[t]`, and `current` on a reset in flight; `Wizard`: `held`, and `stale` on a call |
| session cookie | `jar[b]`, read when a request leaves and written when its answer arrives |
| `broadcastLock` | `notified`: the sibling tabs with a message to receive, in any order |
| `guardWrite` on `key_version_mismatch` | the `"mismatch"` phase and `LockLocal` |
| a page reload | `Reload`: memory gone; requests at the server stay, their answers are applied by nobody |
| a lost request or answer, failed browser work | `LoseCall` |
| `state.phase`, `wizard.kind === "codes"`, `lastActivityRef`, `lockingRef` | `TabLock`: `phase[t]`, `codes[t]`, `idle[t]` (an age), `locking[t]` |
| a screen that calls `useIdleLock` is shown | `Mounted(t)` |
| new state or wizard, hence new `actions`, `triggerLock` and effect | `Restart(t)`, and `Cancel` for the heartbeat in flight |
| `resolveGuard`, `Navigate` of `Guarded` | `Wizard`: `ResolveGuard`, one operator per guard; `Redirect` is a step, so other things happen between two redirects |
| an operation's `finally { await refreshStatus() }` | `AsksAgain`: its slot is taken over by a `"status"` call |
| `issuingRecoveryCodes` | `issuing`, cleared by the status call with `mint` |
| the `busy` of a settings card (`useRekeyBusy`), gone when the screen unmounts | `cards`, kept by `KeepCards` in every step |
| which of the issued codes the vault has now | `newest`, a history variable: the answer of a slot, the screen, or elsewhere |

Left out because nothing checked depends on it: labels, tags, last-used
times and the activity log; refusals' status codes and texts; throttle and
challenge rows in `VaultStore` and `KeyPage`; an update without a new key value
(it stutters). A write captures its proof key before it fetches a challenge and
sends after; a key that changes between the two is zeroised in place, so the
proof fails, which is the same to the store as losing the call. The empty-vault
probe of `changeMasterPassword` (`client-rekey.ts`, `beforeEmpty`) logs in with
the old key only after a rotation made it wrong, so it is refused.
The codes of a first setup leave the browser that made them only with the answer
to `POST /setup`, so `StartClaim` comes before it only in a tab that could log in
during the wait (`UnlockDuringSetup`); the server, in `VaultStore`, takes a claim as
soon as the vault's row exists. In `TabLock` the vault is set
up, a reload aborts what the tab had in flight, and a write refused for its
key version (`lockLocal`) is left to `KeyPage`. `HasKey` is a superset of the
UI's *unlocked* phase, so every operation the UI offers is there. In `Wizard`
the progress label of a reset may come back at any time until the request is
served, `Elsewhere` stands for the other tabs and browsers, and a vault from
before write proofs (`proofReady` false) does not occur.

### Reading the code in the model: list and secrets

| Code | Model |
|---|---|
| `sort_order`, `ORDER BY sort_order, id` | `rank`, `Listed` |
| `reorderKeyEntries`' check that the ids are the stored ones | `IsPermutation` |
| `useKeyEntries`: `status`, `entries`, `reorderBusy` | `screen`, `list`, `busy` |
| an answer that arrives after unmount or a cleared key | a call with `live = FALSE` |
| the closures of `startDrag` | `drag.all`, `drag.visible`: the list as it was when the drag began |
| what set list and server apart | `drift`: a history variable with the causes below |
| `revealedId`, `revealedValue`, `autoHideTimerRef`, `busyId` | `shown`, `autoHide`, `busy`; the timers that were set are `hides` |
| `copyTextWithAutoClear` and its `setTimeout` | `clears`: a timer per copy; `ReadClipboard`, then `BlankClipboard` |
| a clipboard write refused while the page has no focus | `clip.stuck` |
| a reload or close of the page, with its timers | `Leave`, and `clip.left` for a secret that stays behind |
| `KeyEntryModal`: prefill, `originalKeyValue`, `keyValueTouched` | `modal.prefill`, `.original`, `.touched` |

`KeyList` lists five causes of drift, and `InStep` says that there is no other:
another tab wrote (*elsewhere*), a served write's answer was lost (*lost*), a write
outlived the screen it came from (*late*), two writes overlapped (*overlap*), or an
order was computed from a list that had changed (*stale*). The dashboard does not
reload by itself after any of them; a reload is all it takes.

`Secrets` lets a timer fire late only in the sense that everything due fires
before the clock moves on, so its bounds are those of a tab whose timers run;
a hidden tab's may come later. A refused clipboard write leaves the secret, as
README.md:107 of the repository says, and `CopiedBounded` leaves it out by name
(`stuck`). So does a page that is reloaded or closed before its timer fires
(`left`): see below.

### Reading the code in the model: server and host

| Code | Model |
|---|---|
| `fs.writeFile` | two steps: truncated (`"torn"`), then written |
| a SQLite transaction | one step, and it survives a kill; an operating-system crash that loses a committed one is not modelled |
| `createDataDir`, `runMigrations`, `runHousekeeping`, `openSetupGate`, `listen` | `phase`, one value per place where a kill makes a difference |
| mtime of the token file | `tokenFile.at`; the clock never goes back |
| `restart: unless-stopped` | `Launch` whenever `phase = "down"`, with a new environment |
| `requireSession` before the handlers of `/session/touch` and `/settings` | `Authenticated`, then `Touch` or `PatchSettings` |
| rows of `auth_throttle`, `login_challenges` | ages and rests of time; see the head of `Throttle` |
| `update.sh`: the place in the script and its shell variables | `run[u]`: `at`, `rollbackReady`, `oldStopStarted`, `cutoverStarted`, `containerStarted` ... |
| `data`, `.keypage/snapshots`, `.keypage/failed-*` | `live`, `kept`: a directory is its schema, its last write and whether it is a whole copy |
| `docker-compose.override.yml`, `docker compose up`, `stop` | `override`, `Start` (or `StartFails`), `Stop` |
| the bind mount of a container under which `data` was moved away | `container.moved`: it works on that directory until it is made or started anew |
| `compose ps`, `docker inspect` with `2>/dev/null \|\| true` | the branches of `Cutover` and `BackupStop` in which a running container is taken for none |
| `KEYPAGE_REF`, `KEYPAGE_IMAGE`, the newest release | any image as `candidate`; one older than the installed only with `Downgrades` |
| the conditions of docs/rollback.md that `rollback.sh` cannot check | `ByTheRunbook`, the operator's word |
| `set -e`, `fail`, `on_signal`, the trap on `EXIT` | `Fail`, `Interrupt`, `HandlerUnlock`, `Exit`; `Kill` runs no trap |
| `backup.sh`, `rollback.sh` | `backup`, `rollback` with the commands that may fail |

`Overlap` is an assumption with a name. With `Overlap = FALSE` the operator runs
one script at a time in the two gaps where the update lock does not help:
`mkdir -p data` and the choice of the release come before the lock
(`update.sh:338`, `:344`), and a signal removes the lock twice (`:423`); and
backups and rollbacks, which take no lock, do not run beside an update. A second
update may start at any other time. With `Overlap = TRUE` TLC finds
`OneUpdateAtATime`, `OldNeverOpensNew`, `DataKept` and `ServiceComesBack`
violated: the code relies on the operator there.

`Downgrades` is another. `update.sh` compares no ages: it installs the release or
image it is told, and the newest release even over a newer image of `main`. With
`Downgrades = FALSE` nobody names an image older than the one that is installed;
with `TRUE` somebody may. Rollbacks keep to the runbook: the
archive is whole and no newer than the target, and the candidate, which the script
only compares with the checkout's HEAD, is no older than the image selected. HEAD
and that image differ after an update that was undone, so `RollbackStage` takes the
two apart.

## Runs

| Run | Question | Bounds | Distinct states |
|---|---|---|---|
| `vault_store` | can any sequence of requests break stamps, tickets, codes or sessions? | 1 entry, 2 codes, 3 sessions, 2 tickets, 3 versions, 2 IVs; every transaction, also during `POST /setup` | 84 k |
| `rotation` | is an entry or an edit lost or stranded when writes race changes and renewals? | 2 tabs with one cookie, 2 calls in flight, 2 sessions, 2 versions, 3 IVs, 2 values; setup, unlock, create, update, change, renewal, polls, locks | 1.6 M |
| `recovery` | are claims current, pins true, and is `KeyBox` implemented, when claims and resets race writes? | 2 tabs, 2 codes, 2 tickets, 2 sessions, 2 versions, 2 IVs; setup, unlock, create, claim, reset | 1.2 M |
| `setup_race` | the comment of `session-keys.ts` against a login during `POST /setup`: **violated** | 2 tabs, 3 sessions, 2 versions | 6 k |
| `tab_screens` | do screen, key and `lockingRef` stay together, also when a sibling locks? | 2 tabs, every operation, 3 of them, 2 logins | 2.4 M |
| `tab_timers` | does an untouched tab lock, and a busy one without a session? | 1 tab, 2 operations, timeout 2 | 163 k |
| `wizard` | redirect loops, dead ends, lost codes, a tab that stays at work? | 2 operations at a time of all ten, any answers, reloads, other tabs | 808 k |
| `key_list` | when does the list agree with the server? | 3 entries, 2 writes of its own, 1 elsewhere, 2 mounts, 2 filters | 733 k |
| `secrets` | how long does plaintext stay, and can an edit bring an old value back? | 2 entries, 4 user actions, 2 tasks at a time, 2 ticks, clearing after 1 | 2.0 M |
| `throttle` | failures per window, lockouts, challenge quota | 4 attempts, window 3, lockout 2, lifetime 1, quota 2 | 1.1 M |
| `server_life` | sessions, token and start-up across kills | 2 migrations, timeouts 1 and 2, 2 sessions, 4 ticks, 2 kills, 1 failing write | 2.2 M |
| `deployment` | is data lost, an old image started on newer data, the service left stopped? | 2 runs of the updater, 2 images, 1 write, 1 probe, 1 signal each, backups and rollbacks without limit | 1.6 M |

### Bounds

Constants named `Max...` bound what grows in the code, and so do the sets of
sessions, tickets and codes, whose elements are used once; an action that would
pass a bound is disabled. Hence `CHECK_DEADLOCK FALSE`: a state with nothing left
to use is an artefact. `Throttle` needs no bound of that kind (its time is
relative) and is checked for deadlock; `Deployment` really rests when all is done.
`Operations` selects what the users of an instance do.

Two tabs are the least with which a write can race a rotation, and a race of
this code needs two calls: the one that captured something and the one that
changes it. Two versions give one rotation after setup, enough for old and new
material to mix; `vault_store` has two rotations. Three IVs give a create, an
update and a rotation on one entry. Deletions are taken by TLC only in
`vault_store`: in `rotation` they double the instance, and the theorems about
`KeyPage` have them. `MaxSame = 1` gives a tab one call of each kind (the dialogs
are modal); the theorems about `TabLock` have no such limit. A timeout of 2 lets
activity fall between two steps of the clock; 1 is enough for safety. What a
sibling does to the liveness of a tab is only to lock it sooner, so `tab_timers`
has one tab. In `Wizard` two slots are two overlapping operations, and its own
second request takes over an operation's slot. Three entries are what it takes
for a filter to hide one between two others. In `Secrets` two reveals (or copies)
of two entries can cross, and two ticks outlast a timer of one. `Throttle` has the
smallest limits with which the burst bound is reached between two windows.
`ServerLife` has two kills, one in the start that follows the other, and four
ticks, twice the token's lifetime. In `Deployment` every run gets one signal
(again in a restore), and the runs may follow each other without limit.

### Fairness

`KeyPage`, `VaultStore`, `KeyList`, `Secrets`, `Throttle` and `Deployment` state
none: no answer to a request is promised, and users need not do anything.

* `TabLock.FairSpec`: the browser runs its intervals (`Elapse`, `Tick`,
  `Heartbeat`) and delivers lock broadcasts, a fetch that a lock waits for ends in
  an answer or an error, and, for `SessionlessTabsLock`, the network does not lose
  every heartbeat (the two strong conditions). Logins and changes may hang for
  ever. `MaxOps` bounds what users start, so the liveness properties speak of the
  time after the last operation, with whatever it left behind; pointer and
  keyboard are not bounded.
* `Wizard`: requests end, with an answer or without (`Serve` and `Deliver` of a
  slot), and React renders (`Redirect`). A request that hangs leaves the form
  disabled, in the model as in the code.
* `ServerLife`: `restart: unless-stopped` starts the container again, and a start
  goes on by itself. Kills are finitely many, as is the model's time.

### What the runs show of the code

`setup_race`: the comment in `session-keys.ts` says the version "cannot drift from
the key itself". `POST /setup` reads the version after an `await`; with a login and
a password change handled inside that gap the answer pairs version 2 with the key
of version 1. `UnlockDuringSetup` allows it in this run alone; the other runs, and
the theorems about `KeyPage`, leave it out by name.

Six more places disagree with what the repository says of itself. Each is in the
model as the code has it, each statement is a definition of its module, and TLC
refutes it when the configuration of the passing run is given it as its only
property:

* docs/rollback.md:12 says never to run an older binary on data that a newer schema
  has opened. `update.sh` does so when `KEYPAGE_REF` or `KEYPAGE_IMAGE` names an older
  release, and the server takes a newer `user_version` without a word
  (`update.sh:444`, `migrations.ts:207-228`). `OldNeverOpensNew` with `Downgrades`.
* README.md:153-155 says that the updater takes a snapshot of the stopped data
  and can restore it. It asks for the old container with `2>/dev/null || true`
  (`update.sh:469-473`): when `compose ps` or `docker inspect` fails, it replaces a
  running container without stop and snapshot. `SnapshotBeforeUp`.
* `backup.sh:2` promises a consistent backup. It asks in the same way (45-46), and
  then archives a database in use and reports success. `ArchiveWhole`.
* `rollback.sh:168` reports a healthy target. In `start_revision`, called as a condition,
  `set -e` is off: if the override cannot be written (98), the image selected
  before is started on the restored data and found healthy. `HealthyTarget`.
* README.md:213 says that copied secrets are cleared after some seconds. The timer
  (`clipboard.ts:89`) is the page's: a reload or close before it fires leaves the
  secret in the clipboard, also one whose write was still under way. `CopiesCleared`.
* CONTEXT.md:68 says that parked codes stay until they are acknowledged. A card of
  the settings forgets that it is busy when the user leaves the screen
  (`useRekeyBusy.ts:23`), so a second renewal can start beside the first; if the
  first is served first and answered last, `parkRecoveryCodes` (`VaultProvider.tsx:157`)
  puts its void codes over the valid ones. These remain in the file that every mint
  downloads. `CodesUntilAcknowledged`.

`DataKept` holds through all of these, and so does `OldNeverOpensNew` without
`Downgrades`: the failing look-ups, stops and selections are branches of `deployment`.

The passing runs have exceptions in their properties, each with a name and each
something the code does:

* A Master Password change whose request has left installs its new key when the
  answer arrives, also in a tab that was locked meanwhile (`master-password.ts:198`;
  the recovery path checks for this). `KeyPage` keeps `LockOutlastsChange`, which
  TLC refutes with the operations setup, change and lock; the repository's README
  (line 106) says that a lock clears the key.
* README.md:216 calls the failure window sliding; `throttle.ts:98` has a fixed
  one, so up to `2 * MaxAttempts - 3` failures fit into its length (`BurstBounded`),
  and with a limit of 1 the first failure of a window is not compared with it.
* The screens for codes, setup and recovery have no idle lock: `UnlockedTabsLock`
  in `TabLock` fails, `IdleTabsLock` is what holds.
* The late answer to a claim, to a cancellation, or to an older operation that
  issued codes replaces the codes screen, if fresh codes were parked meanwhile
  (`ClaimAnswered`, `CancelAnswered`, `Overtaken` in `CodesStay`). By a lock, back
  navigation or remount, of which CONTEXT.md:68 speaks, none is lost. A request that
  replaces the codes at the server, from here or from another browser, leaves
  those on the screen, void by then (`ReplacedAtServer`). Two overlapping renewals
  share `issuingRecoveryCodes`: the first to end clears it.
* A session that `POST /setup` makes after its wait may be active beside an open
  ticket, when a code was claimed during the wait (`late` in
  `OpenTicketFreezesSessions`): unlike a login, it closes no tickets. Its writes are
  refused by the routes' own check for a ticket, except `/use`, which has none.
* A secret that was copied by a page since left (`clip.left` in `CopiedBounded`).
* The browser that loses the race for the first setup keeps its wizard until it
  reloads, which `NoDeadEnd` accepts.
* The list and the server's order part in five ways (`drift` in `KeyList`).
* A kill between the truncation and the write of the first `instance.json` makes
  every later start fail until the file is removed; `ServerReturns` excludes it.
* A command of `update.sh` that fails under `set -e`, and `fail` during a
  restore, may leave the container stopped; such a run is `hurt`, and
  `ServiceComesBack` speaks of the others. That is as much as the repository's
  README promises, which names failed start-up and health.
* `Overlap` and `Downgrades`, above; and the copy that a backup makes after a failed
  look-up: `CopiesMatch` speaks of what a restore or a rollback by the runbook uses.

Four hazards in `PROJECT.json` have no property, and their notes say why: the
password change that outlives a lock, the screens without an idle lock, scripts
beside each other (`Overlap`), and a failing command under `set -e`. Three more
are known and not stated: a late answer to `/lock`, or a 401, clears a newer
cookie; a lost answer to a rotation loses the new codes; an export may hold more
entries than an import takes.

## Proofs

TLC checks an instance; the theorems hold for every number of tabs, sessions,
runs or images and every limit. Each module of proofs takes its assumptions from
the named `ASSUME`s of the module it is about (positive bounds, a browser for each
tab, a `Null` that is none of the values), which TLC evaluates in the runs.

`KeyPageProofs`, first part: `VaultStore`. `StampsCurrent` and the ticket
properties are inductive only together: that no ticket outlives its batch rests on
every rotation closing tickets and sessions alike (`OpenTicketFreezesSessions`), that
no code opens two tickets on the codes being marked, and that a first setup finds
no old rows on `SetupPhases`. `StoreInv` is their conjunction with the type
invariant; each transaction has a lemma, `StepLemma` combines them, and the
theorems follow: `TypeCorrect`, `StampsStayCurrent`, `OpenTicketsFreeze`,
`TicketsArePaidFor`, and the action properties `SnapshotStaysFrozen` and
`RotationsEvict`.

Second part: `KeyPage`. Neither `VaultDecryptable` nor `PinMatchesKey` is inductive: a
ciphertext is right when it is stored because the call that carries it was, since
it was captured. `KeyInv` follows the key through every place it passes:
keys and versions are numbered alike (`Pinned`) in the tabs, in calls and in the
vault, and a claim, in an answer, in a tab or in a reset, describes the vault as
long as its ticket is open (`ClaimOK`). The argument is

1. every step of `KeyPage` is a step of `VaultStore` or a stutter
   (`StoreStepLemma`), so `StoreInv` comes along (`RunsOnTheStore`);
2. what the store does leaves pins and claims true (`ProgressLemma`: versions
   grow, tickets are never reopened, a ticket that stays open has frozen the
   entries), so only what an action *adds* needs to be looked at (`Assemble`);
3. one lemma per action, or per group that does alike, for what it adds.

The results are `KeysStayPinned`, `VaultStaysDecryptable`, `PinsMatchKeys`,
`HeldClaimsStayCurrent` and `TypesKept`. `RotationsKeepValues` needs one invariant
more, `IvInv`: no ciphertext or snapshot has an IV that was not drawn, and a stored
ciphertext with the IV it has in a snapshot has the plaintext it has there. It
survives because what is stored carries a fresh IV and snapshots are copies; a
rotation then writes back what it read, since the server compares the IVs. The
theorems assume `~UnlockDuringSetup`, which `setup_race` shows to be necessary.

`ImplementsKeyBox`, at the end of the module: each step of `KeyPage` maps to a step of
`KeyBox` or to a stutter. The initial states map by definition; for a rotation the
mapped contents stay because `RotationStep` says that values do, a write changes
one entry, and a code is spent by a claim and by nothing else.

`TabLockProofs`. `LockingMeansGone` and `ScreenFollowsKey` are inductive once
they are said of each tab (`Settled`): a tab that a step leaves alone keeps its
logins and statuses (`SettledStays`), `setState` starts the effect over and must
fit the key (`StateSettles`), and whatever takes a key away asks for a status
(`LockSettles`).

`WizardProofs`. That redirects come to rest follows from the types alone
(`RoutesSettle` quantifies over all states of a tab); that the form for a new
password has a claim is inductive with the types, once it is said what a step may
do to a claim (`ClaimKept`) and to a reset that has taken it (`ResetsKept`).
`CodesAreKept` is an action property that follows from each action's own conditions
and the names of the slots (`SlotAssumption`), without an invariant: whatever hides
the codes is one of the answers it names, and whatever issues new ones is a `Serve`
or another browser.

`ServerLifeProofs`. `ServerInv` says of the sessions that those refused are revoked
or deleted (never written again, whatever the timeouts), of the database that the
migrations that ran are those below `user_version`, of the token file that what it
says is what the history says of that token, and of the gate what it knows in each
phase of the start. Kills reset the process and nothing else, so what a listening
server knows is derived from the files alone.

`DeploymentProofs`. The five promises of the scripts follow from one invariant,
`DeploymentInv`. `HostInv`: data, live or mounted, is whole, and without `Downgrades`
never newer than the image that runs on it, or, when none runs, than the newer of the
selected image and the container's (`HostAges`). `BackupInv` says what a backup may
start again, `RollbackInv` what a rollback has staged. `OneWorks`: one run is between
its lock and its end. Given that, the others know nothing of the installation
(`FreshRun`), so each command has to keep only its own run's part: `CutoverRun` (what is
stopped, and whether it can be gone back to), `RestoreRun` (the snapshot is whole, no
newer than the old image, and in place when that image starts) and `ServiceRun` (an
undisturbed run is on its way to a container that runs); what of this is about ages is
under `~Downgrades` (`AgesRun`). `WorkStep` puts a command's contributions together;
each command has a lemma. The theorems assume `~Overlap`, and `NewDataIsSafe` and
`RestoresMatch` also `~Downgrades`; without these TLC refutes them. That no write is
lost, one update works at a time and the service comes back holds for downgrades too,
and with every failing look-up, stop and selection.

`SecretsProofs`. A value on the screen has a timer that is due in time, though
`autoHide` may point to another one (`HidesInv`); a secret in the clipboard has a timer
that will compare it, unless its page was left (`ClipInv`); a form without a key stroke
holds what was decrypted or nothing, and what is sent is judged when it is captured
(`FormInv`). That timers always find a free number is a count: every click brings at
most one task and every task sets at most one timer (`CountInv`). `NoneAssumption`, that
the reference to no modal is not a modal, is all that is assumed besides the bounds.

`ThrottleProofs`. `LockoutsAreServed` follows from the type of the rows.
`BurstsAreBounded` needs to know which failures a row counts: `Counted` says that
they are the last ones of the log, that the window opened with the first of them,
and that those before it are at most `MaxAttempts - 2`. When a window ends, its
first failure has left the log, which makes what remains few enough for the next.
The quota of challenges rests on their order: rows expire as they were created, so
what a purge leaves is a suffix (`Newest`, `Split`).

`KeyListProofs`. The first third is about the operators, for any sequence: what a
filter keeps and in which order (`FilterFacts`, `FilterInOrder`), that
`applyVisibleReorder` permutes the visible entries and leaves the others in place
(`Reordered`),
that `Listed` is the one sequence of the stored entries in the order of their ranks
(`ListedFacts`, `ListedIs`). `Filter`, `Listed` and `NextSortOrder` count or take a
least element instead of recursing, so that no fact about them needs an induction.

`ListInv` is inductive: no two entries have one rank; every list and captured order is
injective; a tab that waits for its list has no other call, and modals one at a time
(`Alone`), so that no entry is created twice; and what a drag sees is a filter of the
list it was begun on, which is all that `DropAsPreviewed` needs. `InStep` speaks of a
quiet moment, so `StepInv` says what holds before it. `SetInv`: as long as nothing was
written elsewhere, lost or late, the server has the entries of the list, with those
whose creation was served and is not yet shown, without those whose deletion was.
`OrderInv`: while nothing drifted there is at most one write, and the server's order is
the list's before it is served and what the answer will make of the list afterwards
(`Shows`); for a reorder, shown at once, it is the order kept for the rollback until it
is served. Both assume that the drift in question has not happened, and each action
either adds a cause or keeps the relation.

Model-checked only: liveness (`IdleTabsLock`, `SessionlessTabsLock`, `WorkingEnds`,
`ServerReturns`). Liveness under fairness and `ENABLED` are out of the prover's reach,
and so is induction with a theorem that takes an operator; what needed an induction
here was said of a set of naturals that has a least element (`Least`).

## Not modelled

* The cryptographic primitives: a key opens what was encrypted under it and
  nothing else, a proof verifies exactly under its key.
* The format, encryption and parsing of backup files, and the loop that imports
  entries into the composition (`VaultStore` has the server's side of an import).
* Validation of fields, shared types, other environment variables, what each
  migration does to its tables: sequential, total functions that tests reach.
* Rendering, focus, menus, drag geometry beyond the drop position.
* `install.sh`: it creates what `update.sh` finds and runs once.
* `KEYPAGE_BUILD_LOCAL=1`: the developer's way builds and starts the checkout in
  place (`update.sh:429-432`, `rollback.sh:91-96`), with no snapshot, no candidate
  image to compare and no restore; none of the promises above is made for it.
* Single migrations and the torn `instance.json`: `Migrate` is one transaction with its
  version, and a kill between truncation and write of `instance.json` is excluded
  by name.
* An operating-system crash that loses a committed transaction or an unsynced
  file, and a clock that goes back.
* A vault from before write proofs (`proofReady` false).

## Plan

1. *(done)* `VaultStore`, `KeyPage`, `KeyBox` and the refinement between them.
2. *(done)* `TabLock`, `Wizard`: the tab from its screens' side.
3. *(done)* `Throttle` with challenges; `ServerLife`: gate, sessions, start-up.
4. *(done)* `KeyList`, `Secrets`, `Updater`, `Deployment`.
5. *(done)* theorems about all of these.
6. The import loop and its pin in `KeyPage`.
7. The migration of a vault without proof keys, beside its first login.
