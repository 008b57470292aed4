# Verification of SolArch

SolArch sells encrypted archives: a creator uploads files, the API turns them
into one encrypted `.slr` container, a buyer pays for it in USDC on Solana, and
the desktop Viewer activates one device and opens the archive with a licence it
refreshes. This directory holds TLA+ models of the parts whose correctness
depends on the order of events, TLC configurations that check them on small
instances, and TLAPS proofs of the properties that matter most.

Paths below are relative to the repository (`src/` in PROJECT.json).

## 1. Inventory

| Part | State it keeps | Operations | Talks to | Module |
|---|---|---|---|---|
| Payments (`apps/api/src/modules/payments`) | rows `payment_intents`, `payment_transaction_issuances`, `payments`, `entitlements` | createPaymentIntent, buildTransaction, verifyPayment | Solana RPC, Postgres row locks; polled by the Viewer | `Payments`, `Purchase` |
| Licensing (`modules/licensing`) | `activations`, `licenses`, grants with request nonces, refresh-token HMAC | activateDevice, refreshLicense | ACK custody, Postgres row locks; called by the Viewer | `Licensing` |
| Uploads (`modules/uploads/uploads.service.ts`) | `uploads`, `archives.technical_status` and fingerprint, `archive_public_files` | init, data, complete, cancel | builder, custody; called by the web upload hook | `Uploads` |
| Archive builder (`archive-builder.adapter.ts`, `crates/solarch-cli`) | `<archive>.slr`, `.slr.pending`, metadata file, three child processes | build, child `solarch create` over pipes, two verifiers | file system, signing key | `Builder` |
| ACK custody (`ack-custody.service.ts`) | `custody/<archive>.ack.enc` | seal, unseal | file system | in `Uploads` |
| Archives (`modules/archives`) | `archives`, `archive_listings`, cover files, ATA cache | create, update, publish, unpublish, block, replace cover | Solana RPC, file system | `Catalog` |
| Marketplace and analytics | `marketplace_events` | list, detail, record view, download, metrics | Postgres | `Catalog`, `Listing` |
| Wallet authentication (`modules/auth`) | challenges and revoked tokens in memory, `users`, `wallets` | challenge, verify, logout | Postgres | `Catalog` |
| Viewer payment and licence service (`apps/viewer/src-tauri/src/payment_service.rs`) | active intent file, intent secret, refresh token, licence file, runtime cache | check metadata, prepare, verify, activate, refresh, current payment | API over HTTPS, OS credential store | `Viewer` |
| Viewer session (`archive_service.rs`, `session.rs`, `lib.rs`, `launch.rs`) | opened archive, protected session with deadline, timers | open, unlock, expire, close, second instance | licence core, UI events | `Session`, `Viewer` |
| Viewer renderers (`renderer.rs`, `features/viewers`) | one pending and one open renderer | begin, open, read, window, cancel, close | session, UI effects | `Renderers` |
| Viewer clock guard (`rollback.rs`, `clock.rs`) | high-water mark in the credential store | observe, reset after refresh | session, licence validation | `Session` |
| Container core (`crates/solarch-core`) | none (pure), files of a build | discover, pack, sign, verify, open, read range | builder and Viewer | `Container`, `Reader` |
| Viewer UI (`apps/viewer/src`) | view state | screens, viewers | Tauri commands and events | parts of `Session`, `Renderers` |
| Archive page of the web application (`apps/web`: upload hook and transport, queries, publish panel) | upload queue, query cache | add, cancel, retry, poll, publish, unpublish, leave, reload | API | `ArchivePage`, `Packing`, `Queries` |
| Session, dashboard and creation form of the web application | token in memory and localStorage, session and list queries, form | login, guard, list, create, sign out | wallet, API, other tabs | `Cabinet`, `Money` |
| Catalogue and pages of archives of the web application | address, search field with its timer, query cache | search, sort, page, open, warm a link, go back, download | API | `Storefront` |
| Other pages of the web application | query cache | analytics | API | - |
| Configuration, health, scripts, docs | none | - | - | - |

What is hard here:

* **Concurrent requests over shared rows.** Every API handler awaits the
  database, the RPC node or a child process between its read and its write.
  Some critical sections hold a row lock, some use a conditional update, and some
  write unconditionally.
* **A chain that takes things back.** A signature can be unknown, landed,
  failed, dropped by a reorganisation and landed again; only finalized results
  and closed blockhash windows are irrevocable.
* **Lost answers and retries.** The Viewer retries activations and refreshes;
  the web client retries an upload whose first request may still run; a switch of
  the cover can be committed and reported as failed. A page of the web client can
  be left or reloaded while its uploads go on, and reads the archive in between.
* **Crashes between steps that are not one transaction**: files, custody and
  rows of an upload; credential store, licence file and clock of the Viewer.
* **Processes that wait for each other**: the API and the child that builds an
  archive, over pipes, while either may hang or die.
* **Late answers over a bridge**: the interface replaces a viewer, an archive or
  a session while calls of the old one are still on their way.
* **Deadlines**: intent TTL, blockhash window, recovery window, licence window,
  under a clock the user may set.

What makes each part correct is the list of its properties in section 3.
PROJECT.json lists the hazards at their lines, those without a property included.

## 2. Modules

| Module | Role |
|---|---|
| `Payments`, `MCPayments` | one intent: its requests, issuances, payment, and the Solana transactions |
| `PaymentsProofs` | inductive invariant and theorems, and the refinement of `Purchase` |
| `Purchase` | abstract: what a purchase promises the buyer; implemented by `Payments` |
| `Licensing`, `MCLicensing` | one paid entitlement: activations, refreshes, locks, nonces, tokens |
| `LicensingProofs` | inductive invariant and theorems |
| `Uploads`, `MCUploads` | one archive: upload sessions, builder files, custody, archive row, publication |
| `Catalog`, `MCCatalog` | wallet login, and one archive in the marketplace: its statuses, cover and visitors |
| `Viewer`, `MCViewer` | the Viewer's payment and licence service with what it stores, and the backend's answers |
| `Session`, `MCSession` | the unlocked session in time: deadline timers, the clock guard, the screen |
| `Renderers`, `MCRenderers` | the protected viewers of the interface over the one renderer of a session |
| `ArchivePage`, `MCArchivePage` | the page of one archive in the web client: upload queue, queries, publication |
| `Cabinet`, `MCCabinet` | the creator's session in one tab of the web client: login, list, creation form, sign-out |
| `Storefront`, `MCStorefront` | extends `Listing`: a visitor's tab in the public part of the web client |
| `Listing` | which archives the catalogue lists, in which order and on which page, as functions |
| `Money` | the price of an archive from the form to the row, as functions |
| `Packing` | what a selection of files becomes on its way into a ZIP, as functions |
| `Queries` | one query of the web client's cache, as operators on a record |
| `Container` | what is packed, signed, verified and read, as functions |
| `Builder` | extends `Container`: the build with its processes and files |
| `Reader`, `MCReader` | extends `Builder`: the returned archive as the Viewer opens and reads it |
| `CatalogProofs`, `ViewerProofs`, `SessionProofs`, `RenderersProofs`, `ReaderProofs` | theorems of each, from the inductive invariant at the end of its module |
| `WebProofs` | theorems of `Uploads`, `ArchivePage`, `Cabinet` and `Storefront` in the same way; extends all four, which have names of their own for what is theirs (`UploadSpec`, `PageSpec`, `VisitorSpec`; `Cabinet` has `Spec`) |

Operators named "Variant" in their comment are plausible mistakes in the code
(a dropped lock, a missing condition). They are not part of any specification;
PROJECT.json says which property each of them breaks when it replaces the
definition that follows it, which shows that the property depends on that code.

### Payments

State. `status`, `confirmedBuyerWallet` and `payments` (payment, entitlement and
event, always inserted together) are the rows of the intent; `issuance` the
issuance rows; `chain`, `height`, `finalHeight` the chain; `ttlPassed` and
`onSale` what the handlers ask of the clock and the archive row; `build` and
`verify` the requests in progress; `told` the last answers; `lockedBy` the
`SELECT ... FOR UPDATE` of buildTransaction.

Steps. A handler is cut at every await that lets another request in.
`buildTransaction` is BuildLock, BuildRefuse, BuildFindActive, BuildChainStatus,
BuildChainHeight, BuildIssue: its database writes become visible in the last of
them, because they are one transaction. `verifyPayment` is VerifyStart (which
reads the intent), VerifyFindIssuance, VerifyKnownPayment, VerifyChainStatus,
VerifyChainHeight, then one of VerifyMarkExpired, VerifyMarkAwaiting,
VerifyTransactionFailed with VerifyMarkFailed, VerifyCommit. Every update of the
intent row waits for the row lock (`MarkIntent`), as in Postgres, and the CHECK
constraint on the confirmed wallet is part of it. ProduceBlock, FinalizeBlock,
Land and Reorg are the chain.

Simplifications. One intent, since every query is filtered by the intent. The
answers of a refusal and of a re-sent transaction differ in nothing that is
stored. The transaction checklist, the legacy signature backfill and the RPC
answer that contradicts itself about a finalized transaction (lines 877-883) are
not modelled. buildTransaction's expiry of a stale intent is rolled back by the
exception that follows it and therefore does nothing. The finalized height and the update it
leads to are one step, since a closed window never opens again.

Abstraction. `Purchase` knows only what became of each transaction the buyer was
offered (open, charged, void) and for which one the purchase was granted.
`Payments!Promise` maps the issuances and the chain to it: an issuance is open
while its transaction can still become irrevocable (`Payable`), charged when it
is finalized without an error, void otherwise. BuildIssue is Propose, VerifyCommit
is Grant, blocks and reorganisations settle; every other step is invisible.
Requests, locks, statuses and the TTL are gone from the abstract view, so what
remains is the promise: one chargeable transaction at a time, one grant, and
nothing chargeable left when it is given or after it. That each charge leads to a
grant is not part of it, because the code does not keep it (ReplacedNeverPaid in
section 5).

### Licensing

State. `activations`, `devicesActivated`, `activatedAt` and `license` are the
rows, `usedNonces` the unique nonces of the grants, `granted` the answers given,
`eligible` the authority over archive and entitlement, `now` the clock,
`entitlementLock` and `licenseLock` the row locks, `request` the requests.

Steps. Send, ActivateLock (lock, authority, nonce, recovery window) then
ActivateCommit (after custody was opened and W wrapped); RefreshFind (look-up
by token before the transaction), RefreshLock (lock and second look), RefreshCommit;
Abort (transaction timeout, custody failure); EligibilityChanges; Tick.

Simplifications. Device and archive bindings are immutable and checked against
the request, so a request with the wrong ones is refused and left out;
`expiresAt` of an entitlement is never set by the code; the unique indexes on
nonces and activations are a second line that the model never reaches. The first
activation's `activated_at` is the time of the INSERT, between the request's
read of the time and its commit.

### Uploads

State. `technicalStatus`, `marketplaceStatus`, `fingerprint` (with the storage
key and the key reference, written together) are the archive row, `publicFiles`
the file list, `slr`, `pending`, `custody` the files, by the upload whose build
made them; `step` where each session is; `filesSeen` and `publishing` what a
cancel and a publish request read.

Steps. InitUpload, SetUploadedFile, Claim, InspectRefuses/InspectAccepts,
CreatePending and LinkOutput (the child process), VerifyOutput, BuildFails with
the clean-up of `build()` and of the close handler, Seal, DeleteFiles,
CreateFiles, WriteRow (with the immutability trigger), FinishUpload; CancelRead,
CancelCount, CancelWrite; PublishRead, PublishWrite, PublishFails, Unlist;
RequestFails, Crash.

Sessions overlap freely, up to the bound `MaxSessions`. The API allows it (init asks
only whether the archive is finalized), and the web client does it: from two tabs, or
after an error of `complete` (`use-archive-upload.ts` keeps the files for another try),
for instance when a proxy gave up on a build that the API still works on. What holds
only without overlap says so in its statement (`OneBuildAtATime`,
`OneSessionAtATime`).

Simplifications. A read followed by a conditional update is one step where the
condition repeats the read. `payments` in isArchiveFinalized is implied by the
status: intents are only made for published archives. The upload row's status is
part of `step`. The metadata file shared by two builds can make either fail, as
BuildFails allows at any time. The ZIP inspection is accepted or refused.

### Catalog

State. `challenges` and `revoked` are the maps of AuthService, `users`,
`walletUser` the rows, `tokens` the access tokens (a token is its user, wallet
and second of issue); `technical`, `market` the statuses; `cover`, `covers`,
`files` the cover key of the listing, the keys drawn so far and the cover
directory; `events` the marketplace events; `req` the requests in progress.
`made`, `granted` and `doubtful` are history.

Steps. A request that awaits something between its read and its write occupies a
slot: a login between the look-up of the wallet and the insert
(VerifyChallenge, then KnownWallet or NewWallet with the unique index); publish
between the read of the archive and the update (Publish, PublishWrite), with the
chain in between; a replacement of the cover (ReplaceCover, StoreCover,
SwitchCover or SwitchCoverFails, RemoveCover); a page view (ViewArchive,
RecordView). CreateChallenge, Logout, Unpublish, BlockArchive and Download are
one step. RequestFails, SwitchCoverFails (whose update may have been committed),
a failing unlink in RemoveCover and Restart, which forgets challenges and
revocations, are the faults.

Simplifications. The temporary file of an upload is never visible under a key.
A failed signature or a wrong wallet changes nothing. The decoding of an image is
accepted or refused. Tokens do not expire within the bounds.

### Viewer

State. `session` and the runtime (`metadata`, `active`) are in memory; `stored`,
`secrets`, `token`, `licences` are the intent record, client secret, refresh
token and licence of each archive on disk and in the credential store; `intent`
is the backend's view of each intent; `op`, `opening`, `finishing` are the
command under the operation lock, the opening under the open gate, and the
commands that released the lock and still make their snapshot; `late` are
activations the client gave up on that may still be committed.

Steps. Each command (check metadata, current payment, prepare, verify, activate,
refresh) is cut at its call of the backend and after every durable write, so that
a crash falls between any two: StoreToken, StoreLicence, Install,
ActivateCleanup, CleanupAfterUnlock. OpenStart, OpenVerify, OpenRestore are an
opening, also of a second instance, beside them; Close and Expire need neither
lock. The backend answers with what its own state allows, with an error, or not
at all (`Mishaps`); an unanswered activation commits at once, later or never.
LoseSecret is the credential store that loses an entry, which DiscardOrphan and
CheckAnswer clean up after.

Simplifications. Time is abstracted: a session may expire whenever it is open
(`Session` has the clock). Amounts and fields the client validates are refused
answers. At most one command of each kind waits for the operation lock.

### Session

State. `clock` is true time and the offset of the wall clock; `durable` the
secure store (issue time of the licence, high-water mark); `guard` the loaded
rollback guard; `session` with a serial and deadline; `timers` the tasks of
arm_protected_deadline; `flow` an opening and a refresh in progress; `screen`
and `inbox` the interface's state and the answers and events on their way to it;
`peak` the greatest wall time validated since the last online reset.
`ResetUnderWay` are the states between the two halves of a reset
(reset_after_online_refresh writes the mark before it takes the lock under which
observe_local reads and writes it).

Steps. OpenBegin, OpenVerified, RestoreObserved, RestoreUnwritten (the mark cannot be
written), RestoreRefused; AskRefresh,
RefreshGranted, RefreshDenied, RefreshUnavailable, SaveLicence, PersistReset,
ResetGuard, Install, Finish; TimerWakes; RendererCommand (which locks an overdue
session); StatusCheck, Receive and the user's ChooseArchive, RetryNetwork,
RetryMetadata, CloseArchive; Tick, SetClock, Crash.

### Renderers

State. `registry` is the renderer registry of the session, with its request
counter, the pending request and the open renderer; `viewers` the runs of the
viewers' effects, each with the phase its promises have reached; `releases` the
cancel and close calls on their way.

Steps. Select and CloseViewer mount and unmount a viewer (with its cleanup);
BeginRun and BeginAnswer, OpenRead, OpenFails and OpenComplete (the two critical
sections of an opening), the answers of the four kinds, ReadRun, PdfLoaded,
ImageLoaded, TurnPage, PageTooLarge, TurnWindow, WindowRun (the command reads a window)
and WindowAnswer (what it read arrives); ReleaseRun; Lock
and Unlock, after which another archive's files have the same ids and the
requests count from one again.

### ArchivePage, Packing, Queries

State. `item` are the rows of the upload queue (itemsRef, abortsRef): status, the
visit of the page they belong to (`owner`), where their upload is (`at`), whether it
was aborted and what its request was answered; `refreshing` is what the queue of a
visit awaits between two uploads; `detail` and `files` the queries of the archive and
of its files; `listing` the publish or unpublish request under way; `open` and
`visit` the screen; `tech`, `market`, `content` the archive at the API, `listed`
whether its list of files has any; `orphans` the builds, and `adrift` the cancels and
publications, whose request nobody awaits any more.

Steps. Add, Retry and Cancel are the creator's; Packed, InitAnswered, DataAnswered,
CompleteAnswered and UndoAnswered are the awaits of one upload, after which Ends asks
for the archive again and RefreshGoesOn lets the queue go on (Pumped) or empties it
(Swept). ServeInit, ServeData, ServeComplete, ListFiles, BuildSucceeds are the API; so
is cancel, which reads the archive (ReadForCancel), counts its files (CountFiles) and
writes `draft` or `ready` without a condition (WriteCanceled), each with other requests
in between, and goes on when its request is lost. PackFails, CallLost, RefuseZip,
BuildBreaks, FetchLost, ListingLost the setbacks. FetchDetail, Poll and FetchAgain are
the queries, Open, Leave and ReloadPage the visits, PressListing, FindListing,
RefuseListing, WriteListing and ListingAnswered the publication, which also writes later
than it reads. A reading of the archive is served and arrives in two steps, so that it
can be old when it arrives.

`Packing` translates checkUploadFile, splitUploadFiles and uniqueNames; a name is a
stem, its appended numbers, an extension and a case, which is what collisions depend
on. `Queries` is TanStack Query as the page relies on it: a fetch is shared,
invalidation replaces one under way unless it is the first, setQueryData does not
stop it, data is kept on an error.

Simplifications. One tab. The API is reduced to what the page sees of it; `Uploads`
has it in full. The progress of a transfer, the texts of refusals and the price
editor are left out; who else reads the list of files is nobody, so it is served and
arrives in one step. A query is fetched twice before it fails, which is FetchLost
once. Creating the ZIP is not cut into its files.

### Cabinet, Money

State. `owner` and `dead` are the tokens the API has issued and no longer takes,
`archives` its rows; `stored` the token in localStorage (`storage`: is there one),
`memoryToken` the copy in memory; `place` the page, `goal` the page a tab that loads
is on its way to, `back` where a login leads; `session` and `list` the queries of the
session and of the archives, each with the token its request was sent with;
`message`, `attempt` the login under way; `form`, `presses` the creation form and the
requests its button sent; `signOut` the logout under way. `signedOut` is history.

Steps. Navigate, Reload, Choose, Back, Sign, ReadList, Press and PressSignOut are the
creator's; GetSession, ServeMe, MeAnswered, Verified, VerifyFails, ServeList,
ListAnswered, ServeCreate, CreateAnswered, Created, SignedOut are requests at the API
and their answers; MeLost, ListLost, CreateLost, Expire the troubles; OtherTabLogsIn
and OtherTabClears what another tab does to localStorage. A 401 clears the token,
whichever is there by then (`failure`); on a query it also ends the session and
runs the guards again (ListAnswered), except on the query of the session itself.

`Money` counts in millionths: parseUsdc, formatUsdc, previewEconomics,
validatePriceInput and normalizePrice of the client. The API reads the price as a
double and writes it with two decimals: `parseFloat` is the nearest number whose
neighbours stand as close as the precision allows, ties to the even one; `toFixed` the
hundredth nearest to that number, or exponent notation from 10^21. The width of a
double is a constant (`Precision`, `Finest`, `Spacings`, `FixedLimit`, with the code's
values in their comments), so that the run meets on small numbers what the code meets
on large ones.

Simplifications. Connecting a wallet, its challenge and its signature are not cut
(`Catalog` has the API's side of them); one signature is under way at a time. The
logout is served and answered in one step. Of the form, only the price is modelled:
a refusal of anything else is a free choice of ServeCreate. What the API gets is what
this form sends; PriceDto itself takes any text that is not empty. Errors shown on a page
change nothing, and a page that is left asks for nothing more. Restarts of the API
are in `Catalog`.

### Storefront, Listing

State. `rows` are the archives with what was bought and downloaded of each, by age;
`views` and `recent` the views counted for this visitor, and those of the last
quarter of an hour. `location` is the address, `rendered` the address of the page on
the screen, which follows when the router is done. `draft`, `known` and `timers` are
the search field; `results` and `held` the query of the list and what is shown until it
is answered; `card`, `cardOf`, `retried`, `cards` and `warm` what was asked about
archives. `last`, `asked` and `woken` are history.

Steps. Type, Submit, PressSort, PressPage, PressArchive, GoBack, PointAt (a link is
pointed at, which preloads), RetryList, RetryCard and Download are the visitor's;
Pause is the timer of the search field, Land the router; ServeCard, ResultsAnswered and
CardAnswered are requests and answers; Change, QuarterOfAnHour, ResultsLost, CardLost
and Reconnect come from outside.

`Listing` translates listArchives: the search, the order by what was bought or
downloaded within a window, made in memory from the newest, or by price, made by the
database, and the page that is cut from it.

Simplifications. One visitor; `Catalog` has overlapping page loads, by any number of
them. A query is asked, served and answered in one step where nothing depends on
what comes between; of a card, counting and answering are two. A search is in the
address exactly as the trimmed text of the field. Of the lists that left the screen
the cache remembers the last one, or none.

### Container, Builder, Reader

`Container` describes a container by what it was made of (content key, header,
directory it was planned from, directory its chunks were streamed from, section
damaged since), from which `Bytes` lays it out. A hash is the hashed value and a
sealed section opens under its key, header and place only. Discover, Manifest,
Records, VerifyFinalized, DataMatches, SourceMatches, ReadFileRange and
ReadCompleteFile are translated check by check, with the chunk and tag
arithmetic.

`Builder` has the promise of `build()` (`parent`), its stdout handler, the
building child, the verifying child and the disk. A file is known by the attempt
that created it (its inode), a path holds a file or none, and all attempts use
the same paths. A child may stop for good anywhere; the deadlines of the API and
the kill they send are what ends an attempt. ChildErrs, ChildDies, ApiCrash
(whose children run on), Damage and Edit (of the staging directory) are the
faults.

`Reader` adds, once an attempt has returned, the downloaded copy, the identity
the verified archive remembers and the content the reader opened; the user may
put another archive of the same authority at the path and back (Swap), and the
storage may damage the copy.

## 3. What the runs check

| Run | Shows | Bounds |
|---|---|---|
| `payments` | NoConcurrentlyPayable, PaymentIsFinal, ConfirmedIffPaid | 2 issuances, 1 wallet, 1 builder, 2 verifiers, window 1, 4 blocks (2.1M states) |
| `payments_fair` | KeepsPromise (refinement of `Purchase`), IntentCloses | 2 issuances, 2 concurrent builders, 1 verifier, window 0, 3 blocks, fairness (0.23M states) |
| `licensing` | OneDevice, NonceSingleUse, RecoveryIsBounded, RotatedTokenIsDead, RequestsEnd | 2 requests, 2 nonces, 2 tokens, recovery 1, 3 instants, fairness |
| `uploads` | FinalizedIsClosed, FinalizedIsWhole, RetrySucceeds | 3 sessions, 2 at once, 2 faults, fairness (0.15M states) |
| `builder` | NothingLeftBehind, AnswersAreTheSource, SignsOnlyWhatReadsBack, EveryBuildEnds | 2 attempts, 3 directories (one refused), chunks of 2 bytes, reads of 4, 2 faults, fairness (0.43M states) |
| `catalog` | LoginsAreAccounted, CoverIsWhole, ViewsAreDeduplicated | 2 wallets, 2 slots, 5 requests, 5 instants, challenge 2, view window 3, 1 fault (2.9M states) |
| `viewer` | RuntimeIsOneArchive, PaidIsResumable, UnlockedWasPaid, LicenceIsRenewable | 2 archives, 2 intents, 1 fault (3.1M states) |
| `session` | RollbackIsBounded, OverdueSessionEnds | licence window 3, tolerance 1, 3 openings, 2 clock changes by -2, -1 or 2, 4 instants, 1 crash or mark that cannot be written, fairness (1.2M states) |
| `renderers` | ViewerShowsWhatItAsked, ReplacedViewerIsReleased | 2 archives, 3 files that differ in kind, 2 viewer runs, 2 sessions, 3 rows in windows of 2, fairness (0.32M states) |
| `archive_page` | RowsAreTrue, NothingLeftHanging, VanishedIsShown, NoFileIsOverwritten, PageSettles | 3 selections (one refused, one a ZIP, one of colliding names), 2 visits, 1 retry, cancel or publication, 1 trouble, fairness (0.61M states) |
| `cabinet` | SignOutForgets, AsPressed | 1 account, 2 tokens, 1 press, 7 things to type, doubles of 8 bits, 1 trouble (2.1M states) |
| `storefront` | PagesPartition, ViewsAreVisits, OnlyWhatIsTyped, SearchSettles | 2 archives on pages of one, 3 texts (2 searches), 1 sort, 2 links, 2 events, fairness (0.16M states) |

**Why the bounds suffice.** Two issuances are one replacement, which every payment
property is about; the `MaxHeight` bound leaves room for an issuance whose window
closes, a second one and the finalization of both. Two requests of a kind are all that
any two-party race needs, and a request starts over when it is done, so sequences are
not bounded by their number. Two tokens are reused once they are no longer known to
anyone; the clock needs one instant inside the recovery window and one outside. Uploads
are reused when no trace of them is left, so that the number of sessions is bounded by
the traces that can exist, not by the sessions. `MaxFaults` bounds the interrupted
attempts: with two, each of the leftovers (pending file, final file, file list, status)
can coincide with another, and two sessions at once with a third to follow are a late
cancel or a second build, and what comes of it. Two attempts at a build are what a
leftover child needs; a directory of the `builder` run has files shorter and longer than
a chunk, an empty one, and names that order, so that every boundary of a range falls
inside, at and beyond a chunk. In `catalog`, two slots are the two sides of a race and
five requests let a third party follow; the view window passes within the time. In
`viewer`, two archives are what confuses one with another, and each has room for its own
intent or one for both; commands repeat without bound. In `session`, three openings are
one session, its renewal and a restart; the clock can be set back by more than the
tolerance at once or in two steps below it. Two runs of a viewer's effect are a viewer
and the one that replaces it. In `archive_page`, two selections that upload are one and
its successor in the queue, or one in the queue of either visit; one abort or retry and
one loss or fault can fall at any step of either; the selections have every answer
checkUploadFile and splitUploadFiles can give, and a name that collides by itself, by
its case and with a number. In `cabinet`, the second token is a login after or beside a
sign-out, in this tab or another; navigation, readings and sign-outs repeat without
bound. The prices typed are one below, one above and one far above where a double of 8
bits holds the cents, and those the form turns down. SignOutForgets tells tokens apart,
not accounts: with one account the second login is as much a stranger to the first as
another's. In `storefront`, `MaxEvents` counts keystrokes, openings of archives, lost
answers, changes of the catalogue and reconnections together, so that any two of them
meet in any order; navigation between lists, Enter, warming a link and answers repeat
without bound. The search finds one archive of two, so that a list has one page or two.

Larger instances: `storefront` with three archives on pages of two was checked to the
end (0.36M states). For a few minutes each, without a violation but not to the end,
`viewer` was explored with three intents (11M states), `session` with 6 instants and 3
clock changes (15M), `cabinet` with two accounts (9M), and for their inductive invariants
`Renderers` with three viewer runs and three sessions (13M) and `Builder` and `Reader`
with three attempts and three faults (10M). The theorems of section 4 hold for every size.

**Fairness.** `Payments!FairSpec` assumes what the deployment provides: the Viewer polls
without a signature; an RPC outage ends (`<>[][~VerifyAbort]_vars` and its like) and a
transaction ends by its 30 s timeout (weak fairness of the request steps); blocks are
produced and finalized; time passes. It assumes nothing of buyers, who may never sign.
`Licensing!FairSpec` assumes strong fairness of each request's progress: row locks are
granted in the order they were asked for, so a request that can get the lock again and
again gets it; transaction timeouts are not assumed, so RequestsEnd says the lock order
itself cannot deadlock. `Uploads!RetriedSpec` assumes that a request on which nothing
fails goes on, and that the creator tries again; the faults are bounded, since nothing
gets through a system that always fails. `Builder!BuilderFairness` assumes that the
API's own timers fire, that a process sent SIGKILL ends and that the API handles the
end; it assumes of no child that it goes on. `Session!FairSpec` assumes that time
passes, that the asynchronous runtime wakes its tasks and goes on with a command, and
that the bridge delivers; it assumes nothing of the interface. `Renderers!FairSpec`
assumes that commands run and their answers arrive, since each holds the lock for one
bounded read. `ArchivePage!PageLiveSpec` assumes that the browser delivers what an
upload and a query await, that the API answers and ends its builds, and that the timer
of the polling fires; it assumes nothing of the creator, and bounds the setbacks, since
nothing settles in a network that always fails. `Storefront!LiveSpec` assumes that
timers fire, that the router arrives and that a list is answered. `Catalog`, `Viewer`
and `Cabinet` have safety properties only. Deadlock is not checked in `catalog`,
`session`, `renderers`, `builder`, `archive_page`, `cabinet` and `storefront`, whose
bounds let everything come to rest.

## 4. What is proved

Every safety property that a run checks is a theorem, and so are type correctness and
FingerprintIsFinal, which no run needs to repeat where a theorem has them: for every
number of issuances, wallets, requests, nonces, tokens, archives, intents, viewers,
visits, selections, presses, attempts, faults and instants, with only the assumptions
named in the modules (the null values are not members of the sets; windows and bounds
are naturals; the prices that can be typed have digits; trimming nothing gives nothing;
selections are sequences of files; the archives of the catalogue are finitely many, a
search finds some of them, and the catalogues to begin with have counts; a directory of
the container is a finite set of files with one file to a path, and damaged bytes are
neither a key id, nor the chunk count at the head of the data, nor a header), which TLC
evaluates in the runs. Each module of proofs has one inductive invariant for each module
it is about (IInv, UploadIInv, PageIInv, VisitorIInv; TLC finds each of them to hold on
the instance of its run as well), and derives:

* `PaymentsProofs`: `Invariance` (Spec => []IInv), from which `TypeCorrect`,
  `NeverConcurrentlyPayable`, `IssuancesCloseForGood` (one active issuance; one
  closed as failed never pays), `PaidIsFinal`, `ConfirmedMeansPaid` and
  `ConfirmedStays`.
  `PaymentsKeepPromise`, Spec => KeepsPromise, is the refinement of `Purchase`.
* `LicensingProofs`: `Invariance`, from which `TypeCorrect`, `SingleDevice`,
  `SingleUseNonces`, `BoundedRecovery` and `DeadTokens` (RotatedTokenIsDead).
* `WebProofs`, of `Uploads`: `UploadTypes` and `FingerprintWrittenOnce` for any client;
  `WholeWhenFinalized` (FinalizedIsWhole, whose statement has the condition that one
  build runs at a time: with two the code breaks it, see section 5) and
  `ClosedWhenFinalized` (FinalizedIsClosed), for any sessions over each other. Of
  `ArchivePage`: `RowsTellTheTruth` (RowsAreTrue), `BegunIsEnded` (NothingLeftHanging),
  `WhatVanishedIsShown` (VanishedIsShown), `NoFileIsLost` (NoFileIsOverwritten). Of
  `Cabinet`: `CabinetTypes`, `SigningOutForgets` (SignOutForgets), `ArchivesAsPressed`
  (AsPressed). Of `Storefront`: `EveryViewIsAVisit` (ViewsAreVisits),
  `SearchIsForTheText` (OnlyWhatIsTyped), `PagesAreTheCatalogue` (PagesPartition).
* `CatalogProofs`: `TypeCorrect`, `AllLoginsAccounted`, `CoverServed`
  (CoverIsWhole), `ViewsDeduplicated`.
* `ViewerProofs`: `TypeCorrect`, `OneArchiveAtATime` (RuntimeIsOneArchive),
  `PaidResumes` (PaidIsResumable), `UnlockedPaid`, `LicencesRenew`
  (LicenceIsRenewable).
* `SessionProofs`: `TypeCorrect`, `BoundedRollback` (RollbackIsBounded).
* `RenderersProofs`: `TypeCorrect`, `ShowsOwnFile` (ViewerShowsWhatItAsked),
  `ReleasesNoOther` (NoForeignRelease).
* `ReaderProofs`, of `Builder` and `Reader`: `TypeCorrect`, `LeavesNothing`
  (NothingLeftBehind), `ReturnedArchiveStays` (ReturnedStays), `SignsVerified` and
  `OpensSigned` (SignsWhatItVerified and OpensWhatWasSigned), `SignsReadable`
  (SignsOnlyWhatReadsBack) and `AnswersTheSource` (AnswersAreTheSource).

The argument for payments. The properties are not inductive: they hold because
what a request remembers of the chain cannot be taken back. `VerifyInv` and
`BuildInv` say so for each program counter (a verdict "failed" means a finalized
error, "expired" a closed window, the commit step a finalized success);
`ChainInv` says that transactions land only inside their window; `LockInv` ties
the row lock to the builder's program counter, so that the issuance found under
the lock is the only active one (`BuildInv`) when the next is inserted;
`IssuanceInv` gives each closed issuance its irrevocable reason. Two issued
transactions can then be payable at once only if both are active, which
`OneActiveIssuance` excludes.

The argument for the refinement. `PayableIsActive`: what the chain can still
charge is active, since a closed issuance is final or out of its window. So at
most one offer is open, and a step of the chain settles that one or none
(`ChainSettles`); at BuildIssue the one active issuance, if any, carries an
irrevocable verdict, so nothing is open and nothing is granted (`BuildProposes`);
at VerifyCommit the only active issuance is the finalized one (`CommitGrants`);
retiring a row changes no outcome (`VerifyKeeps`).

The argument for licensing. `LockInv` makes the activation (or refresh) at its
custody step the only one; `ReadInv` says that what it read under the lock (no
activation yet, the nonce unused, the presented token current) still holds when
it commits; `GrantInv` that every grant left its nonce behind. RotatedTokenIsDead
follows for each step from ReadInv.

The argument for uploads. `BuildsAreFirst`: a build that has not written the row runs
in an archive without one. `MadeSoFar` says what each step of a build has made: from
the link on, the file is of this session, from the seal on the key too, and after the
file list the list. Both hold as long as one build runs at a time, whatever other
sessions and late cancels do beside it, because these touch the status only. The row is
written last, so the archive is whole when it is finalized; afterwards every claim is
refused. The theorem assumes no more than its statement says: the temporal step goes
from `[]OneBuildAtATime` to `[]Whole`. ClosedWhenFinalized and the fingerprint need none
of it: what init, complete and the trigger ask of the row suffices.

The argument for the page of an archive. What a step of one upload changes, it changes
beside a queue, other uploads and builds nobody awaits any more, so the invariant is
about each row and the API at once. `Working`: an upload that is anywhere has the status
uploading, and a visit it belongs to. `BuiltIsDone` joins the rows and the API's
`content` in both directions: a row that is done, or whose answer says so, is what was
built; and what was built has such a row or went with a reload, as long as no answer was
lost (`losses = 0`). With the first half alone a canceled row could be the one that was
built. `BuiltForGood`: an archive that is built never goes back to uploading, and what a
publication answers shows it as it was built or, where a late cancel had taken it for
ready, not yet built. A cancel that nobody awaits any more may write at any time after,
which is why the rows are joined to `content` and not to the status (`CancelInOrder`).
`BegunIsHeld`: an archive that is uploading has a row whose next call, or call on its
way, ends that. `ShownOrRead`: a page with a row that is done shows the archive as it
was built, or an error, or has a fetch under way that will find it so; it survives
because every end of an upload replaces the fetch under way, which may have been served
before the build. A queue only moves rows (`Kept`), and every action that does no more
is disposed of by one lemma (`RowsInOrder`).

The argument for the files of a ZIP. The functions of `Packing` are recursive, and the
library's induction theorems cannot be used; instead of an induction, a least
counterexample among the naturals (`LeastNumber`) is shown not to exist, first for the
recursive function itself (an initial part of it that is defined extends by one) and
then for what it computes. The number a name gets is the least free one, and among i
numbers one is free because i - 1 names were given before it (`SomeIsFree`, the pigeon
hole principle). So the names differ without regard to case, and unpacking is a
bijection.

The argument for the creator's tab. `Forgotten`: no token that was signed out is stored,
in memory or carried by the list's request, and neither the data of the list nor an
answer on its way was read with one. The second half is what makes the property
inductive: an answer in flight at the sign-out would bring the list back, and it does
not because the sign-out removes the query and with it its fetch. `TokenTypes` says that
the token of a login is new, so that nobody has signed it out. For the prices,
`PriceKept`: an amount that passes the form and whose cents a double holds goes through
the formatting of the form and the row unchanged. `PriceSurvives` has whole cents, by
arithmetic on the units; by `DoubleIsNear` the double is less than half a hundredth away
from the amount, since its neighbours are at most 1/128 apart, so that the hundredth
nearest to the double is the amount (`CentsAreHeld`). `Settles`: the press of an archive
is no longer asked, so that no second archive comes of it.

The argument for the visitor's tab. `Covered` counts: the views of an archive are at
most what was asked for it, and fewer while a view may still be counted (`Pending`);
so a fetch that is repeated, lost or warmed takes what its visit has put in, once.
`CardOfAddress` says that the page of an archive holds the card of its address.
OnlyWhatIsTyped is inductive by itself. The pages: a popularity sort, with the newest
first among equals, is a strict total order (`PopularIsTotal`). In a finite set each
archive has then a rank, the number of those before it; sorting by rank is a sequence
in order (`InOrder`), and the only one, as a place in any such sequence is a rank
(`OneOrder`). The pages cut it at multiples of PerPage, so every place is on one page
(`OnSomePage`), and an earlier page or place is an earlier place of the whole list.

The argument for the catalog. A login holds either the user its wallet has or
found none (`FoundInv`), and the unique index makes the second insert fail.
`KeysInv`: a key is drawn once, and is the cover at most once; so a request that
replaces a cover finds a key that no other request will remove. That a fault leaves
at most one file for each request it met, and that a session's views within a
window are at most as many as requests overlap, are counting arguments
(`OrphansInv`, `ViewsInv`): each step is shown to add no more to the set than it
takes from the slots.

The argument for the Viewer. The runtime is emptied beside the operation lock, so
nothing it holds can be relied on by a command; what a command carries is on disk
instead (`WorkInv`), and a prepared archive has no other open intent
(`PrepareInv`). `KeptInv`: nobody clears the secret and the record of an intent
that can still be paid or was paid. `LicencesInv` ties licences to activated
intents, and sessions to licences. The exceptions (`misdirected`, `spoiled`) are
recorded when the code makes them; they are the findings of section 5.

The argument for the session. `SerialInv` counts: every opening and every refresh
installs at most one session, so serials stay below the openings. `MarkInv`: the durable
mark and, outside of a reset, the loaded guard are at or above the greatest time
validated (`peak`); whoever passes the guard is then within the tolerance of it. A mark
that could not be written refuses the restoration, so nothing was validated with it.

The argument for the renderers. `NumbersInv`: no request number is given twice, in one
session or in two. `RegistryInv`: the registry has one request, the last it has counted.
So a viewer whose number it holds is the only one (`RequestsInv` gives it its file and
archive), and a call on its way names only viewers that were replaced or have failed
(`ReleasesInv`), which is why it takes nothing from a successor. A question that was
answered holds rows of the viewer's own file, however late it arrives (`WindowRunStep`).

The argument for the builder. Attempts follow one another (`SerialInv`), but
children of an attempt that a crash cut off run on. `FilesInv` gives every file the
key of its creator, `DigestInv` and `VerifierInv` say that the verifier passes only
the build's own file, and that what passed is still what was digested unless
storage has damaged it, in which case it no longer equals the digest; `SignedInv`
carries this to the signature. `PathsInv` and `OutputInv` are the clean-up: what is
at the shared paths belongs to the attempt under way or is the returned archive.
`SignsVerified` says the API signs only what its verifier checked, `OpensSigned`
that the Viewer opens only what was signed, and `HeldInv` that its handle is of the
own copy, which differs from what was signed by damage only.

The argument for what is read. What is left is about the functions of `Container`
alone. A container that opens tells of its index and manifest that they are those of
the planned directory, and of its data that they end where the index ends
(`ReadableIsConsistent`), so that damage to the end of the data is damage to a chunk of
some file, and the verifier meets it (`DataIsWhole`): what passed is whole
(`VerifiedIsWhole`). Its decrypted chunks, joined, are the file that was hashed; by
their lengths they are then its pieces (`PartsOfJoined`, `PlainsOfFile`), and the slices
a range takes of them join to the range (`SlicesJoin`), the windows of a whole file to
the file (`WindowsJoin`). Once the archive is open storage may damage it, but a chunk
that still decrypts is as it was (`SoundIsAsItWas`): a read is right or refused
(`RangeRead`, `CompleteRead`). The inductions over chunks and files in this, and those
over the pages of a catalogue and the folders of a selection in `WebProofs`, are made
without an induction theorem: an index where the claim fails would have a least one
(`LeastNumber`, from the library's `WFMin`).

Not proved, only model-checked:

* The liveness properties (IntentCloses, RequestsEnd, RetrySucceeds, EveryBuildEnds,
  OverdueSessionEnds, ReplacedViewerIsReleased, PageSettles, SearchSettles), out of the
  prover's reach.

## 5. Where the code and its documentation disagree

The following have their property in the module, stated next to the others, and
a counterexample TLC finds. Where a `.cfg` is named, `tlc -config X.cfg MCY`
shows it; otherwise add the name as an INVARIANT to the module's first `.cfg`.

| Property | What happens |
|---|---|
| `Payments!ReplacedNeverPaid` (MCPaymentsReplacedNeverPaid.cfg) | The signature status is read before the finalized height (payments.service.ts:149). A transaction that lands in between, and whose window then closes, is taken for one that never landed: the buyer has paid, and is offered another transaction (docs/API.md:583). |
| `Payments!TerminalIsFinal` (MCPaymentsTerminalIsFinal.cfg) | A slow verifyPayment writes `awaiting_finality`, or commits a payment, over an intent that another one closed (docs/API.md:705). |
| `Payments!ClosedOnlyWhenSettled` | verifyPayment marks an intent expired while a concurrent buildTransaction issues (docs/API.md:708). |
| `Payments!ResubmitIsIdempotent` | A request that read the intent just before another one confirmed it answers 503 (docs/API.md:716). |
| `Licensing!LicenseRowIsLatest` (MCLicensingRowIsLatest.cfg) | An activation retry locks the entitlement row, a refresh the licence row; the one that read the clock first can write the licence row last, and moves its window back (docs/API.md:841: "serialized under the same intent/license row lock"). |
| `Uploads!CancelKeepsFinalized` (MCUploadsStaleCancel.cfg) | cancel writes a status it decided on before the archive was finalized by another session (comment at uploads.service.ts:489). |
| `Uploads!Whole`, two builds at once (MCUploadsTwoBuilds.cfg) | A second build of the same archive fails on the first one's output file and its clean-up deletes it: the archive is ready, and its bytes are gone (docs/INTEGRATION.md:114). |
| `Uploads!ReadyIsFinalized` | After a failure between the file list and the archive row, the next cancel writes `ready` for an archive without content (docs/INTEGRATION.md:114). |
| `Catalog!BlockStopsSale` (MCCatalogBlock.cfg) | publish does not look at the market status: a block that falls into its wait for the chain is overwritten (docs/API.md:733). |
| `Viewer!SecretKeptUntilActivated` (MCViewerSecret.cfg) | activate_payment asks for the current archive only after activate() has released the operation lock (lib.rs:306). If a second instance has opened another archive by then, the clean-up of the first deletes the client secret of the other, paid archive before it was activated (docs/API.md:475: kept "only until successful initial activation"). |
| `Viewer!PreparedOnce` (with three intents) | The clean-up of a completed intent is put off until after the unlock and then clears `runtime.active`, whatever intent it is (payment_service.rs:544-580). If another archive's quote is active by then, the runtime forgets it, and the next prepare makes a second intent and overwrites the record of the first (the test at payment_service.rs:1064, lines 1095-1096, has a second prepare return the first). |
| `Session!MarkOnlyGrows` (MCSessionMark.cfg) | reset_after_online_refresh writes the mark before it takes the guard's lock (rollback.rs:20-35); an observation in between still has the old guard in memory and writes that guard's mark over the new one: the stored mark falls outside of a reset (docs/API.md:924-925). |
| `Session!ScreenFollowsSession` (MCSessionScreen.cfg) | A renderer command just past the deadline locks the session without an event; the timer then finds a locked session and ends silently, and the status check finds nothing overdue: the screen goes on showing the archive as unlocked (docs/API.md:918-922). |
| `ArchivePage!OneUploadAtATime` | The queue belongs to a visit of the page. Who leaves the page and comes back gets an empty queue, while the old one goes on; the page offers another upload as long as the archive is not processed, and the two overlap (comment at use-archive-upload.ts:15-17). |
| `Cabinet!GuestsStayOut` | The guard asks for the session when a page is entered. When the session query itself finds the token refused, it turns into a guest's without an error, so nothing runs the guards again: the dashboard stays open (comment at routes/dashboard.tsx:6). |
| `Cabinet!OwnArchivesOnly` | Only a sign-out removes the queries of the archives (sign-out-button.tsx:46). When the session has ended otherwise, or another tab has logged in as somebody else, the list of the former account is shown under the new one until it is read again. |
| `Cabinet!ShownIsStored` | The form has no upper limit, and the API writes the row from a double: the price 99999999999999999.99 is stored as 100000000000000000.00, and from 10^21 on in exponent notation (archives.service.ts:171; comment at money.ts:20-23, in Russian: exactly the number the author saw has to go out). Below 2^46 USDC (7*10^13) the cents are held, which AsPressed says. |
| `Storefront!TypingSurvives` | The field is overwritten whenever the search of the page differs from the last one it saw, also when that search was its own: what is typed between the pause and the arrival of the router is lost (comment at search-field.tsx:27: "not by us"). |
| `Storefront!FieldReflectsAddress` | A link back to the search the page still has, pressed before the router arrives at the one that was typed, leaves the typed text in the field, and no timer waits for it (comment at search-field.tsx:15). |
| `Storefront!ClickIsFollowed` | The timer also fires while the page of an archive is on its way: the search replaces it, and the click leads nowhere. |
| `Storefront!ViewsAreOpenings` | A stale page of an archive is fetched again when the network comes back, and counts once more a quarter of an hour later (comment at archives.$slug.tsx:40-42: views are counted "when the page was really opened"). |
| `Storefront!CheapestFirst` (with a PerPage of 2) | The price is a text in the database (schema.prisma:96), so that 12.00 stands before 5.00 (docs/API.md: `price_asc`). |
| `Storefront!EmptyIsEmpty` | A page beyond the last one says that the catalogue is empty, and shows no pages to go back to. |

Further behaviour of the code that the models show and that a reader may not
expect:

* A builder error leaves the archive in `processing`, where docs/API.md:283 has
  `failed`. unpublish of a draft makes it immutable before it has content.
* If the answer of the cover switch is lost after its commit, the clean-up
  removes the file the listing now names (`doubtful` in CoverIsWhole), where
  docs/API.md:221 keeps the previous cover. Two logins within one second give the
  same token, so that one logout ends both; a restart forgets revocations.
* A repeated activation whose answer is lost rotates the refresh token: the
  stored one is dead, and the clean-up of a later unlock may delete the secret
  that could have fetched another (`spoiled` in LicenceIsRenewable). A refused
  refresh of a blocked archive deletes its token for good. The relock after a
  refused refresh (archive_service.rs:584) does not ask which archive is open.
* The rollback guard is consulted only when a stored licence is restored; each
  opening may run up to the tolerance behind the mark. A wall clock one second
  behind the backend's makes a fresh grant appear not yet valid (license.rs:289).
* The late `begin` of a viewer that was replaced displaces the pending request of
  its successor, which then shows an error.
* cancel decides late. One that read an archive before another session finalized it
  takes the status back to `draft`, and the page of the author shows a draft. One that
  counts the files a build has listed and not yet linked to the row makes the archive
  `ready` without content, and a publication that finds it so lists it.
* The API rounds the creator's and the platform's share of a price each by itself
  (archives.service.ts:53-59): of 0.10 they are 0.10 and 0.01, more than the price
  (comment at money.ts:95-96). This was read from the code and is not modelled.
* After a build has failed the archive stays in `processing`: the page of the web
  client offers no upload zone then (dashboard.$archiveId.tsx:113, 170), and once it
  is reloaded, no row to retry either. What publish answered is put into the query's
  data by hand (publish-panel.tsx:70-76); a reading under way, asked for before, may
  arrive after it and show the archive as it was.
* A 401 that arrives late clears the token of a login that came after its request
  (http.ts:69). An answer of `/me` that was on its way at a sign-out puts the session
  back into the cache, until the next request without a token.
* The creation form offers to allow export and to drop the watermark
  (dashboard.new.tsx:289-303); the API refuses either choice
  (archives.service.ts:132-143).
* A pending file left by a crash of the API makes exactly one later build fail.
  The stdout handler signs even after its attempt was stopped; nobody uses that
  signature.

## 6. Not modelled

* Archive `update` and the payout account cache: update is a read-modify-write of
  texts by one creator, the cache only colours what the creator is shown; the sums
  of analytics, and the shares the API computes of a price, are plain arithmetic.
* Header fields, size limits and Unicode normalisation of the container; the
  `inspect` command and the parsing of options; canonical JSON, key schedule and
  HPKE, which are pure and covered by test vectors.
* The duplex frames byte by byte: a frame arrives whole or the child has failed.
* Expiry of access tokens; the launch arguments and windows of the Viewer; its
  polling intervals (a command may come at any time).
* The web client's analytics.
* Presentation, dictionaries, configuration, scripts: no state that can go wrong
  over time. They are most of the repository's lines outside the modelled parts.

## 7. Plan

1. Done: `Payments` with `Purchase`, `Licensing`, `Uploads`, `Catalog`, `Viewer`,
   `Session`, `Renderers`, `Container` with `Builder` and `Reader`, each with the
   proofs of section 4.
2. Done: the web application, with the page of an archive (`ArchivePage`), the
   creator's session (`Cabinet`) and the public pages (`Storefront`), and their proofs.
3. Next: abstract specifications of a licence and of an archive's publication, and
   their refinement by `Viewer` and `Uploads`; analytics in the dashboard.
