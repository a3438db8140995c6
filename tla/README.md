# robonet-cli in TLA+

This directory specifies and verifies the state-carrying parts of `robonet-cli`: the in-tree
*operator* (a local ASMTP server over SQLite and WebSockets, `src/src/operator`) and the
*client*: its listener (`commands/listen.ts`, `asmtp/watermark.ts`,
`asmtp/reconnecting-listener.ts`), the renewal of bearers by several processes
(`asmtp/auth-resolver.ts`, `credentials/refresh-lock.ts`), the logins (`auth/`,
`asmtp/agent-login.ts`), the credential store (`credentials/`), the supervision of the local
operator (`network/`, `commands/network.ts`, `commands/admin.ts`), and what a command runs as
(`config.ts`, `asmtp/identity.ts`). TLC checks small instances, liveness included; TLAPS
proves every safety invariant and action property that TLC checks, and the refinement of the
abstract mailbox service, for every value of the constants.

## 1. The system

| part | state | operations | talks to |
|---|---|---|---|
| operator: storage (`operator/storage`) | SQLite tables agents, allowlist, blocks, envelopes, mailbox entries, files; foreign keys with CASCADE and SET NULL | inserts, updates, claims, removals, keyset pages | every operator service |
| operator: policy (`operator/domain/policy.ts`) | none | `isReachable`, `canInitiate` | read by `accept` |
| operator: envelopes (`operator/domain/envelopes.ts`) | through storage | `accept`, `fetchOne`, `fetchMany` | storage, files, transport |
| operator: mailbox (`operator/domain/mailbox.ts`) | through storage | `list`, `markRead` | storage |
| operator: files (`operator/domain/files.ts`) | rows and bytes on disk | `upload`, claim by an envelope, `serveById` | storage, disk |
| operator: self-service and admin routes | through storage | allowlist, blocks, profile; create, rotate, patch, remove | storage |
| operator: transport (`operator/domain/transport.ts`, `routes/connect.ts`) | open WebSockets per handle | register, send, unregister | `accept` |
| client: listen (`commands/listen.ts`) | watermark in memory and on disk, dedup gate, walks under way | print frames, catch up over REST, save | operator's push and `GET /mailbox` |
| client: reconnecting listener | attempt counter, reconnect and stability timers, the active socket | connect, back off, give up, close | listen |
| client: token resolution (`asmtp/auth-resolver.ts`, `credentials/refresh-lock.ts`) | rows of the credential store, a lock directory | refresh, rotate, wipe | authorization server, other CLI processes |
| client: credential store (`credentials/`) | a schema version, encrypted rows, a key file, legacy files | open, migrate, import, put, get, delete, purge | every command |
| client: logins (`asmtp/agent-login.ts`, `auth/`) | a loopback server, a state, a PKCE verifier, a registered client | authorize, exchange, register, store, log out | browser, authorization server |
| client: network supervisor (`network/`, `commands/network.ts`) | state file, a detached operator process, a port | start, adopt, stop, status, reset | operator, store |
| client: admin commands (`commands/admin.ts`) | an agent's bearer in the store | create, rotate, remove | operator, store |
| client: workspace (`config.ts`, `asmtp/identity.ts`, `commands/identity.ts`) | a `.robotnet/config.json` per directory | resolve profile, network and agent; `identity set`, `identity clear` | every command |
| client: REST clients, output, other commands | none | request, print | the above |

What makes the behaviour hard:

* **Await points of the operator.** Node runs one handler at a time, but every route with a
  body authenticates its caller *before* `await parseJsonBody` and acts *after* it. In
  between the caller can be removed, rotated, blocked or distrusted.
* **Transactions and their absence.** `accept` writes the envelope, all entries and all file
  claims in one transaction; an upload writes bytes and row in two separate steps; pushes
  happen after the commit.
* **Cascades.** Removing one agent touches five tables, one by SET NULL.
* **Retries.** A client-minted envelope id makes a send repeatable; the retry runs through
  every check again.
* **Two paths to the client.** The same envelope can arrive by push, by one of several
  overlapping catch-up walks, and again after a reconnect; one watermark serves them all.
* **Unawaited saves.** Every printed frame starts a save of the watermark that nobody waits
  for, and all saves of a process use one temporary file.
* **Callbacks after `close()`.** Timers, a resolution and socket events of a listener all
  report later than the state they were started in.
* **Several CLI processes** share one credential store, one profile directory, one state file
  and one set of workspace files. Of all their accesses only the renewal of an agent's token
  is under a lock.
* **A detached child.** The supervisor knows its operator by a pid in a file and a port that
  answers, either of which may belong to another process by now.
* **A browser.** It may answer a page of another login, twice, late, or never.

The list of hazards, each at its line and with the properties that watch it, is in
`PROJECT.json`.

## 2. Modules

| module | models | proofs |
|---|---|---|
| `Policy` | trust as pure functions of the tables | |
| `Operator` | the operator: tables, requests in flight, connections, disk | `OperatorProofs` |
| `MailboxService` | what the operator promises about mail (abstract) | `OperatorProofs`, last part |
| `Watermark` | cursor and dedup map, the ascending page | |
| `Listen` | one listening identity: operator's mailbox, connection, process, disk | `ListenProofs` |
| `ReconnectingListener` | the callbacks that keep a connection up | `ReconnectingListenerProofs` |
| `TokenRefresh` | CLI processes renewing bearers over one store, the lock directory, single-use tokens | `TokenRefreshProofs` |
| `Login` | login processes, the browser, the loopback ports, the authorization servers | `LoginProofs` |
| `CredentialStore` | processes opening and using one store of any age | `CredentialStoreProofs` |
| `NetworkLifecycle` | supervision and admin commands over one state file, port, database and store | `NetworkLifecycleProofs` |
| `Workspace` | commands and editors over the workspace files | `WorkspaceProofs` |
| `MC...` | one module of constants and symmetries for TLC per specification | |

The modules meet where one part uses another's promise. `Operator` extends `Policy`, `Listen`
extends `Watermark`, and `Operator` instantiates `MailboxService`. `Listen` takes the
connection as it comes and `ReconnectingListener` makes it; its fairness of `resolve()` is
what `TokenRefresh!ResolvesEnd` shows. `Login` writes the rows `TokenRefresh` renews, and
`CredentialStore` keeps. `NetworkLifecycle` runs the process whose inside is `Operator`.
`Workspace` says for which profile, network and agent all of it happens.

### Operator

State is the six tables as functions and sets (`agents`, `allowlist`, `blocks`,
`envelopes`, `mailbox`, `files`), the bytes on disk (`blobs`), a counter of minted bearers
that doubles as a coarse clock (`minted`), the requests whose body is awaited (`pending`),
the open connections with what was sent on them (`conns`) and the last answer (`reply`).

* A route with a body is two actions. `Arrive` is everything up to the await: the bearer is
  resolved to a handle, and only the handle is remembered. `Send…`, `MarkRead`, `Allow`,
  `Block`, `UpdateProfile`, `Upload`, `AdminPatch` are everything after it, against whatever
  the tables are by then. `Abandon` is a body that never arrives or does not validate.
* `Send` is `EnvelopeService.accept` split by outcome, in the order of its checks:
  `SendRefused` (a recipient unknown, unreachable or blocking: 404), `SendConflict` (id
  collision or retry mismatch: 409), `SendReplayed` (the retry: 202, nothing written,
  nothing pushed), `SendBadFile` (a file cannot be claimed: 400, rolled back),
  `SendAccepted` (envelope, entries, claims, frames).
* A route without a body is one action: `FetchMany` (fetching marks read), `Disallow`,
  `Unblock`, `AdminCreate`, `AdminRemove`, `AdminRotate`, `Connect`.
* `AdminRemove` spells out what the foreign keys of `schema.ts` do.
* `UploadCrash` is a process death between bytes and row, `Restart` any other; both lose
  the requests in flight and the connections. A loop of single statements without a
  transaction that is cut short is the action for a smaller input set followed by `Restart`.

### Listen and Watermark

`Watermark` has the pure functions: `hasSeen`, `advanceWatermark` with its retention, the
page a cursor asks for, and whether a page promises another. `Listen` has the client's one
thread and what runs beside it. `Deliver`/`SendFact` are the operator storing and pushing;
`Dial`, `Open`, `Lose` the connection (the operator registers it before the client hears of
it, so a frame may precede `Open`); `ReceiveFrame` the gate, the watermark, the print and
the start of a save; `Ask`, `Answer`, `Header`, `EndPage`, `FailWalk` a catch-up walk, whose
cursor is read from the *shared* watermark when the request goes out; `SaveOpen`,
`SaveWrite`, `SaveRename`, `SaveLost` one save, where a file handle follows its file through
a rename made by another save; `Kill` and `Start` the process. Headers of one page are
handled without another client step in between (`Idle`), yet a kill may come anywhere.
`Ids` are naturals because the keyset order compares them.

### ReconnectingListener

State is the attempt counter, how many timers and resolutions are under way, each socket,
the one `close()` would reach, the stability timer, and what `onTerminalFailure` was told;
`failures` counts beside the code what its counter is meant to count. One action per
callback: `TimerFires` and `Resolved` (an attempt begins, a socket is dialed),
`ResolveRefused` (a permanent error ends the listener), `ResolveFails`, `Opened`,
`StableFires` (the counter goes back), `SocketCloses`, and `Close` at any time. Each callback
looks at `closed` where the code does. The raise of the counter stands twice, as in the code,
before its comparison with the cap.

### TokenRefresh

One agent's row and the account's session in the store, the server's live refresh tokens,
the lock directory, and for each process where it is in `resolveAgentToken` or
`resolveUserToken`. A token is the login it descends from and how often it was rotated.

* `withCredentialRefreshLock` step by step: `Mkdir` (which tests and sets), `Stat` (stale,
  gone, or fresh with the deadline), `Clear` (`rm` of whatever is there by now), `Tag` (the
  owner file, which fails when the directory has been taken away), `Unlock` (the finally).
* `Reread`, `Mint`/`PutMinted` (client credentials), `Put` (the rotated token), `Check` and
  `Delete` (a rejection: compare, then delete) are `renewAgentPkceWithLock`; the account's
  `UserResolve`, `UserPut`, `UserDelete` are the same without lock and comparison.
* `Serve` rotates a live token and rejects any other, and with `Revokes` kills the family of
  the token that came back; `FailRequest` and `LoseAnswer` are failures before and after.
* `Login`, `AccountLogin`, `RemoveAgent` and `Drop` (two steps of `account agent remove`;
  `Drop` alone is `logout`), `AccountLogout` take no lock, as in the code.
* `Die` leaves the lock behind, `Age` lets it go stale, `Nap` is a holder that sleeps through
  the staleness limit. A holder that runs cannot exceed it: discovery and exchange time out
  after 40 s, the limit is 120 s. What may go wrong in an instance is the constant `Mishaps`.

### Login

A login is a process; four kinds (`Ways`): client credentials, a named agent, the picker, the
account. `Start`, `Discover`, then either `ClientGrant` and `Mint`, or `Reserve` (a port),
`Register` (a client for it), `OpenPage`, `Await` (the timer and the callback are armed only
here), a callback, `Exchange`, `Accepted` (the checks of what the server says the token is
for), `PersistAgent` or `PersistSession`. The user is `Consent` and `Deny`, on any page ever
opened, and `Load`, which loads an answer, again perhaps: one of another login, or an error,
fails the login that listens on its port. `Stray` is a request for another path; `TimeOut` the timer.
`Logout` and `AccountLogout` come at any time. `Wirings` says which server a network's
endpoints really reach, so that a profile whose endpoints are another network's is a case.
The authorization servers are external: codes are single-use and bound to client, redirect
and verifier; a `modern` server names its network and the token's agent.

### CredentialStore

State is the key file, the schema version, the row and the legacy file of three slots, and
for each process its place and what it has in memory (the key, the version it has seen).
`Open`, `ReadKey`, `MakeKey`, `PlaceKey` are the key file's read, temporary file and rename;
`ReadVersion`, `Migrate`, `Migrated` the migrations, one transaction each, from the version
that was *read*; `Look`, `ReadLegacy`, `Import`, `Unlink` the import, slot by slot; `Put`,
`Delete`, `GetUnreadable`, `Select`, `Drop`, `Close` the use of the open store, where the
purge selects rows and deletes them by name in a second step. `Die` ends a process anywhere.
`due` records what each slot ought to give.

### NetworkLifecycle

State is `network.json` and its temporary file, what runs under each pid, the database each
operator has open and the one at the path, the agent registered in each, and the two rows of
the store. A command is followed from access to access:

* `Begin`; `ReadUnreadable`, `ReadNothing`, `ReadStale`, `Clean`, `ReadAlive` read the state
  file and the pid in it; `Look` asks the port whether the process found alive serves.
* start: `Probe` and `Release` (binding the port for a moment), `Spawn`, `Healthy` or
  `NotHealthy` (the poll's deadline), `WriteTmp`, `Rename`, `PutToken`.
* stop and reset: `Exited`, `Kill` after the deadline, `Unlink`; reset then `DropDb`,
  `DropAdmin`, `DropAgents`.
* admin: `Ask`, `AskRefused`, `AskLost` are the request, `Keep` and `Forget` the later write
  to the store.
* the operator: `OpenDb` (which creates the file when it is missing), `Bind` (which fails on
  a taken port), `Exit`, `Crash`. The world: `Reuse` (a dead pid is given to another
  program), `OtherEnds`, `Die` (of a CLI process).

What went wrong is remembered by name in `mishaps`, so that each property states what it
stands without. "starts", "resets" and "crossing" are overlaps of two starts, of a start and
a reset, of an admin command and anything; "overtaken" an `rm` of a newer state file; "late"
a child that had come up when, at the poll's deadline, it was told to go.

### Workspace

State is each directory's `.robotnet/config.json` (profile, network and agent, absent, or
torn) and the command of each process. A command looks at the files up to three times:
`ResolveProfile`, `ResolveNetwork` (the same path again), `ResolveAgent` (another walk, to
the root instead of the home directory). `identity set` and `clear` are `ReadOwn`, then
`Truncate` and `Fill`, or `Unlink`. `Edit` is a person with an editor, `Die` a killed
command. `told` is what the last set or clear reported of a directory.

### MailboxService

Members, stored envelopes, boxes and the last answer to a send. `Operator` implements it
under `Mail` (`ImplementsMailboxService`): mail appears in all boxes or none, a 202 is a
receipt for what is stored, an error is a step that changes nothing, and mail leaves only
with its sender or the owner of the box.

## 3. Runs

| run | question | distinct states |
|---|---|---|
| `operator_delivery` | fan-out, durability, read marks, pushes under retries, id reuse, removals and restarts | 423 483 |
| `operator_trust` | trust, references and bearers while two requests are in flight and policies, grants, blocks, rotations and edits change | 877 585 |
| `operator_files` | does the operator implement `MailboxService`; uploads, claims, crashes, downloads, removal of the uploader, refused files | 221 054 |
| `listen_once` | printed once, never lost to the dedup map, cursor monotone, under drops, kills and two walks | 459 041 |
| `listen_live` | pushed frames are printed, walks end | 46 022 |
| `refresh_callers` | renewals exclude each other, present live tokens, leave a live one; whoever asks gets an answer | 223 507 |
| `reconnect_outages` | one connection, the cap counts the current outage, a listener keeps trying | 211 |
| `login_browser` | what is stored was consented to for its key; every login ends and frees its port | 418 856 |
| `store_open` | no secret is lost, no half-migrated store is used, a purge leaves a clean one | 691 063 |
| `network_commands` | what runs is recorded and usable, reset spares what runs, commands end | 133 107 |
| `workspace_identity` | what `identity set` reported holds, a set flips no pin, agent and network are of one workspace | 1 101 296 |
| `listen_skip` (violation) | a push that overtakes the catch-up walk hides an older envelope from it | |

**Bounds and why they are enough.**

* *Operator.* Two handles are sender and recipient, each other's allowlist entries, and
  note-to-self; the messages of each instance are chosen so that every case differs: one id
  used twice with another recipient list, a recipient who is both `to` and `cc`, one file,
  two files, a file used by two messages, a file named twice, a monitor. Three minted bearers
  give a registration, its removal and a registration anew, or a rotation. Two requests in
  flight (trust) give every overlap of one stale handler with another.
* *Listen.* Two envelopes and one tick of the clock give same-time rows ordered by id and
  rows ordered by time; pages of one row make every page full, so every walk has to ask
  again; a dedup gate of one entry is full at once; two faults give a drop and a kill, or two
  kills. `listen_live` adds a monitor fact and no faults. `Retention` equals the whole clock:
  no answer is older than what the watermark remembers (30 s, `watermark.ts:174`). A slower
  answer could print an envelope twice; the code has no request timeout that excludes it,
  and the runs do not examine it.
* *TokenRefresh.* Two agent callers, one of whom waits for the other's lock, beside an
  account caller; two logins and one expiry let a renewal straddle a login; two calls; every
  mishap (lost answers, removal, death, sleep), and a server that revokes families. What
  needs a third agent caller is under 5.
* *ReconnectingListener.* No cap and caps of one, two, three and five; two sockets are the one
  that closes and its successor; counters stop at six, above every cap.
* *Login.* Two logins of every kind, over one port that goes from one to the other; two
  networks, two handles; each network's endpoints its own, or both those of the second;
  servers that declare themselves, all, some or none.
* *CredentialStore.* Two processes, or one process twice; two openings, one secret stored;
  stores of versions 0 (nothing there) to 5 (a newer CLI's), with each set of rows, with and
  without the key and the legacy files.
* *NetworkLifecycle.* Two CLI processes, three commands, two operators ever spawned; one kind
  of fault per behaviour beside the overlaps. A third command lets one find what two have
  left behind.
* *Workspace.* A project in the home directory in a directory above it, two commands, one
  edit, three profiles of which one is not set up, a network that one profile knows and
  another does not. Processes and handles are symmetric: no constant distinguishes them, and
  the drafts are closed under swapping the handles.

**Deadlock.** The operator's, the renewal's and the reconnecting listener's instances check
for it. The others may stop: `MCListen` with nothing left to deliver, `MCLogin` after each
login's one run, `MCNetworkLifecycle`, `MCCredentialStore` and `MCWorkspace` when the
commands are used up. That nobody stops half-way is `WalksEnd`, `LoginsEnd` and
`CommandsEnd`; commands of `CredentialStore` and `Workspace` never wait for anything.

**Fairness.** What is assumed is what Node's event loop and a live system give: a ready
callback runs, a file operation completes, a request is answered or times out.

* `Listen`: weak fairness of completing a handshake, of handling a frame that has arrived, of
  each walk's and each save's next step. Nothing of senders, of reconnecting or of starting
  the process again.
* `TokenRefresh`: weak fairness of a process's next step and of its deadline. Nothing of
  locks growing stale. The calls are bounded (`MaxAsks`), and must be: whoever finds a stale
  lock tries again without looking at the deadline (`refresh-lock.ts:51-53`), so a waiter can
  be overtaken by others without end.
* `ReconnectingListener`: weak fairness of the timer and of `resolve()` returning, and strong
  fairness of its succeeding: what is asked again and again answers at last. Nothing of a
  dial: the code sets no handshake timeout, so one may hang.
* `Login`: weak fairness of a login's next step, its timers and requests included. Nothing of
  the user.
* `NetworkLifecycle`: weak fairness of each command's next step. Nothing of operators, which
  may hang at any point; the deadlines of the code are what makes commands end.

**Mutants.** Next to a definition stands, commented as such, the form it would take with a
plausible bug; `PROJECT.json` names for every property the mutant that breaks it.

## 4. Proofs

Assumed are only the named assumptions on the constants. For the operator these are
`GlobAssumption` and `OperatorAssumption`: the constants have their types, the messages
submitted are messages, and the null file link is no envelope id. Sets of handles, ids,
files, requests and connections may be of any size, infinite included.

Of `OperatorProofs`, in the order of its parts:

1. **Type correctness** (`TypeCorrect`): one lemma for each table operation,
   then one per group of actions.
2. **Effects** (`EveryStepHasAnEffect`). Whatever handler runs, its step
   delivers one envelope, removes one agent, registers one, edits agents in place, marks
   entries read, edits trust, adds a file, or keeps all tables. `Delivery` and `Removal`
   list once what the two effects that move mail do.
3. **Invariants**: `ReferencesHold`; `BytesHold`; `BindingHolds`, which
   needs that a file row is never older than its bytes, so that an upload never overwrites
   a row; `FanOutHolds`, which is not inductive alone: its excuse for a missing entry is a
   registration later than the envelope, so `DatesPast` says that no date runs ahead of the
   clock; `EntriesHold`; `DownloadsHold`, which follows from the others without a step of
   its own.
4. **Action properties**: `DeliveryLasts`, `ReadLasts`, `BindingLasts`
   (through `FilesLeave`: the files of the envelopes that go are the leaver's own, so SET
   NULL has nothing to do), `TrustHolds`, `RetirementLasts`, `PushesHold`.
5. **Refinement** (`MailIsImplemented`): the initial states map to the
   initial state, and each step to a step of `MailboxService` or a stutter.

Of the client:

6. **Renewal** (`TokenRefreshProofs`), from `TokenRefreshAssumption` (agent and account
   callers are different processes, the bounds are numbers). `TypeCorrect`, together with
   `ShapeInv`: who may be where, and holding what. `RenewalsAreSerialized` from `LockOK`:
   while no holder died or slept, the directory exists exactly while its maker is inside,
   and is not stale, so that nobody is ever about to remove it. `NoSpentTokenIsPresented`
   and `TheRowStaysLive` from two more conjuncts of `IInv`: `FamilyInv`, that agent and
   account never hold tokens of one family (so no account refresh revokes the agent's), and
   `TokensOK`, that the live token is with the caller it was granted to, or else in the row.

7. **Reconnecting** (`ReconnectingListenerProofs`), from `ListenerAssumption`.
   `OneConnectionHolds` and `CapHolds` from `IInv`: `StableInv` (the stability timer is set
   only while a connection is open), `ActiveInv` (only `close()` leaves a socket on its way
   down, and it forgets the socket), and `CountInv`: the code's counter is the number of
   failures since a stable connection.
8. **Store** (`CredentialStoreProofs`), from `StoreAssumption`. `StoresAreMigrated` is not
   inductive, since openers set the version *back*: `HandsInv` says what a process holds
   where it stands, and `NamesInv` what each version number warrants of the rows' names, and
   what a process in the middle of the migrations may rely on: the names of the last version
   it has seen, and its tables, of which none is ever dropped. `SecretsHold` and
   `PurgesClean` rest on `SInv`, inductive together with it: `KeyInv`, that there is one key,
   which everybody past the key file holds; `CleanInv`, that a purge has left the slots it
   has passed clean; and `SecretInv`, that a legacy file about to be removed has its secret
   in a row. The four named mishaps are the only premise.
9. **Workspaces** (`WorkspaceProofs`), from `WorkspaceAssumption`: a directory's path ends
   with the path of each directory above it. First, lemmas on the two walks: what the first
   file on a walk is (`FirstFileFacts`, from the least element of a set of positions), that
   the walk up to the home directory from above is a suffix of the one from below
   (`UpToHomeSuffix`), so that two directories with the same file agree (`SameFile`), and
   that writing a file that pins the network its directory already resolved to changes the
   network of no directory (`PinKept`). Then `IInv`: `CommandsOK` (what a command has chosen
   so far is among what it may choose), `AloneInv` (a lone `set` carries the network its
   directory still resolves to, and is about to write the file it read), `ToldInv` (a
   directory whose set was reported has a file that says so). From it `SetsHold`, `PinsHold`
   and `WorkspacesAreOne`.

10. **Listening** (`ListenProofs`), from `ListenAssumption` and, for times,
    `RetentionAssumption`. First, lemmas on the operators of `Watermark`: what
    `advanceWatermark` does to the cursor and what it forgets, that a page holds rows of the
    mailbox after the cursor, that loading and saving keep a mark. Then `IInv`: `TypeOK`;
    `BoxInv`, that ids are the keys of the mailbox and whatever is on its way is a row of it
    as it was sent; `MarksInv`, that every mark that is kept - in memory, in a save under
    way, in the file or its temporary copy - claims only what was printed; `GateInv`, the
    same for the gate. It gives `TypeCorrect`, `ClaimsWerePrinted`, `DropsAreDuplicates`
    and `CursorMovesForward`.

    `PrintedOnce` is not true of every behaviour of every instance: the watermark forgets
    ids after its retention (24 hours), and an answer older than that is printed again. So
    `PrintsOnce` proves it for behaviours in which nothing on its way is so old (`Recent`),
    whatever the sizes of gate and map; `OnceInv` says that a printed id is remembered or
    past the retention, and that a fact is sent once. `PrintsOnceAtFirst` needs no premise on
    the behaviour, only that it is no longer than one retention (`MaxTime <= Retention`),
    which is also how `listen_once` is bounded.
11. **Logins** (`LoginProofs`), from `LoginAssumption`. `ConsentIsKept`: what is stored is
    decided while the login still has its token in memory, so `Granted` says of the token
    what `RowsMatchConsent` says of the row, and `Asked` that a login stays one of its kind.
12. **Supervision** (`NetworkLifecycleProofs`), from `LifecycleAssumption`: any number of
    commands, spawns, calls and faults. One lemma per kind of step says what it does
    (`QuietFacts` to `OpenFacts`); `IInv` then has two layers.

    What holds whatever happens is `Shape`: the types; `Roles`, the points a command goes
    through and what it refers to at each (who waits for an exit has signalled that process,
    who removes the file knows its process is gone); `Born`, that files name only what was
    spawned; `Counted`, that a bearer is minted only by a command that asked; `Meetings`,
    that commands overlap only after the overlap was recorded as a mishap; `Databases`, what
    an operator that runs has open.

    What holds until one of the mishaps of a property has happened follows operator, token
    and bearer from step to step: `Tracked` (a live operator is in the state file, or its
    start is about to write it; a start gets to spawn only when none lives), `Tokens` (its
    token is stored, or about to be; while a reset drops, none lives; the database it has
    open is the one at the path), `Bearing` (the bearer fits the database, or a command is
    about to make it fit, and what such a command carries does). `ServersAreRecorded`,
    `TokensOpenTheirServer` and `BearersFit` are these with no command under way, and
    `ResetsSpareTheRunning` is one step from `Tokens`.

TLC finds each inductive invariant to hold on the instance of its run (`OnceInv` on that of
`listen_once`; in `FamilyInv` the families are bounded for it).

Only model-checked: liveness (`PushedGetsPrinted`, `WalksEnd`, `ResolvesEnd`, `CommandsEnd`,
`KeepsTrying`, `LoginsEnd`), which is out of the provers' reach; and the violation.

## 5. Where code and comments differ

One difference is a run, `listen_skip`. Catch-up reads its cursor from the watermark that
live frames move, so an envelope that was delivered while the listener was away is never
asked for once a later one is pushed first.

Others stand in the modules as definitions under "What the ... say and the code does not do".
TLC refutes each in the instance given; no configuration lists them.

| statement | instance | what the code does |
|---|---|---|
| `Listen!DiskNeverTorn`: "rename so a crash mid-write doesn't leave a half-written watermark" (`watermark.ts:120`) | that of `listen_skip` | the temporary file is named after the process only (`watermark.ts:135`) and the saves of frames are not awaited (`listen.ts:125`): one save renames what another has just truncated. The next start reads an empty watermark. |
| `TokenRefresh!SerializedAlways`: "Serialize refresh-token rotation across CLI processes sharing a profile." (`refresh-lock.ts:20`) | three agent callers, `Mishaps = {"death"}`, one login, one expiry, three calls | two waiters judge one lock stale; the second removes the first one's new lock (`refresh-lock.ts:115`) |
| `TokenRefresh!RejectedMeansDead`: "session is dead — wipe it" (`auth-resolver.ts:317`) | two account callers, no mishaps, `Revokes = FALSE`, one login, one expiry, two calls | the account's session is refreshed without the lock, and the loser of a race wipes the row the winner has just renewed (`auth-resolver.ts:319`) |
| `NetworkLifecycle!ResetClearsTheFile`: "Run `robotnet network reset` to clear it." (`network/errors.ts:50`) | that of `network_commands` | reset itself ends at a state file it cannot read (`network/state.ts:52-66`, `commands/network.ts:191-200`) |
| `NetworkLifecycle!StartLeavesTheToken`: no admin token? "Start the operator with `robotnet network start`" (`asmtp/credentials.ts:41-44`) | that of `network_commands` | a start that finds the operator running stores no token |
| `CredentialStore!PurgeSparesTheReadable`: only rows that "can no longer be decrypted" are wiped (`auth-resolver.ts:349`) | that of `store_open` | the purge selects, then deletes by primary key, outside a transaction (`store.ts:463`): a row stored in between goes too |
| `Login!AgentTokensReachTheSocket`: agent tokens must cover the WebSocket audience (`pkce.ts:68`, `discovery.ts:26`) | that of `login_browser` | a client-credentials token is requested without it (`agent-login.ts:46`) |

Smaller ones, visible in the models or met while reading:

* `SendReplayed` answers with the clock of the retry, although `envelopes.ts:172` says the
  original answer is returned; `MarkRead` reports ids that were read already, although
  `mailbox.ts:100` says they are skipped.
* A renewal under way puts back the row that `account agent remove` drops "so a stale
  credential doesn't survive removal" (`commands/account.ts:344`). A rejected renewal compares
  its row and deletes it in two statements (`auth-resolver.ts:191`).
* A cap of n allows n - 1 reconnections, though the listener reports to have given up after n
  (`listen.ts:186`).
* The schema version goes back from 4 to 3 when two openers migrate together, though
  `schema.ts:8` calls migrations forward-only; `ReadyMeansMigrated` holds all the same. The
  import looks, then puts, so it can write over a row stored in between, which
  `migration.ts:13` says it skips.
* Reset leaves the directory of uploaded files, which by `operator/config.ts:21-24` goes
  together with the database.
* A callback that arrives before `awaitCode` is armed is dropped; the login then waits until
  its timer ends it. The account's session is one row for a profile, presented to whichever
  network is asked for (`auth-resolver.ts:270`). Servers that declare nothing are trusted.
* `identity set` in a subdirectory shadows the profile pin of the file above it; `clear`
  leaves the network pin. A command killed between truncating and writing leaves a file that
  every command refuses, `set` and `clear` included. A file that is JSON but no object is
  empty for `config.ts` and an error for `identity.ts`.
* A connection outlives the credential it was opened with (`connect.ts:60`), and a download
  URL in a stored body outlives the port it names (`files.ts:99`). In both cases nothing in
  the code says otherwise.

## 6. Not modelled, and what is left

* *Operator's search*: read-only queries; ranking and matching are text.
* *Mailbox listing other than ascending inbound*: descending, sent and both-direction pages
  and the unread filter are single read-only queries over the same rows.
* *REST clients, output, one-shot commands*: a request and an answer with no state between;
  what the answers mean is on the operator's side. `identity show`, `config show`, `network
  logs`, `admin list` only read.
* *Configuration data*: endpoints, the merging of network definitions, validation. `Workspace`
  has how profile, network and agent are chosen, not what a network's definition says.
* *Time*: back-off, delays and limits in milliseconds; a timer fires some time after it is
  set. Half-open connections and keep-alive pings only close connections, which may happen
  at any time anyway.
* *The cipher, formats and sizes.* A ciphertext is a secret and a key; a file that is not
  JSON is one value.
* *SQLITE_BUSY, full disks and other I/O errors*, except where the code handles them.

Left to do: abstract specifications of the client's parts, shown to be implemented as
`MailboxService` is - a reader that is told each envelope once for `Listen`, a lock and a
single live token for `TokenRefresh` - so that they can be composed with the operator's.
