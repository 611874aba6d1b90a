# Cloudreve in TLA+

This directory holds TLA+ models of the Cloudreve server and of its web client in this
repository, the TLC configurations that check them on small instances, and proofs for
TLAPS of what matters most for every instance. Every definition is written from the Go
source (server) or from the JavaScript and TypeScript source under `src/assets/src` (web
client); `PROJECT.json` maps each one to its lines.

To check a model: `tlc -config UploadSerial.cfg MCChunkedUpload.tla` (or
`DownloadRestart.cfg` with `MCRemoteDownload.tla`, `WebClient.cfg` with
`MCWebClient.tla`, and so on). To check the proofs of a module: `tlapm` with one of the
modules whose name ends in `Proofs`.

## 1. The system

### 1.1 The server

Cloudreve keeps a tree of folders and files in a database and the contents of the files
in a store chosen by a policy: the local disk, a slave node, or an object store. HTTP
handlers run in one goroutine per request; a few long-lived goroutines run beside them
(cron jobs, task workers, download monitors, ping loops of slave nodes).

| component | state | operations | what is hard |
|---|---|---|---|
| chunked upload (`service/explorer/upload.go`, `pkg/filesystem/upload.go`, `hooks.go`, `driver/local`) | files table, users.storage, physical file, session in the cache | create session, upload chunk i, cancel, delete | checks and effects are separate steps; retries; a client that hangs up; failed transactions |
| file and quota bookkeeping (`models/file.go`, `models/user.go`) | size of each row, storage of each user | Create, UpdateSize, PopChunkToFile, DeleteFiles, ChangeStorage | optimistic comparison with a size read earlier; no global lock |
| deletion (`pkg/filesystem/manage.go`, `file.go`) | the same | Delete, deleteGroupedFile | physical removal first, one transaction for all the rows afterwards |
| collector (`pkg/crontab/collect.go`) | a list of placeholders and one of candidates | uploadSessionCollect | works on a stale list, beside uploads |
| cache (`pkg/cache`) | map with expiry, in memory or in Redis | Set, Get, Delete, GarbageCollect, Persist, Restore | lost or kept over a restart |
| upload callback, remote driver (`service/callback`, `middleware/auth.go`, `driver/remote`) | session in the cache, row | callback of a slave or an object store | the session is removed before the callback is processed |
| file update and WebDAV PUT (`service/explorer/file.go`, `pkg/webdav`) | row, blob, source name | PutContent, PUT | overwriting in place, soft links |
| remote download (`pkg/aria2`) | download row, state of the aria2 server, notification channel | create, monitor loop, cancel, transfer, recycle | polling beside notifications; restart in the middle of a transfer |
| task queue (`pkg/task`) | worker slots, task rows | Submit, Do, Resume | jobs that submit jobs; restart |
| cluster (`pkg/cluster`, `pkg/mq`, `pkg/balancer`) | active and inactive nodes, ping loops, subscriptions | Add, Delete, status change, heart beat, publish | callbacks outside the lock; channels replaced while in use; dropped messages |
| transfer in chunks (`pkg/filesystem/chunk`) | position, temporary file, retries left | Process | re-reading what has been consumed |
| drivers of object stores, thumbnails, shares, users, routing | | | not modelled: vendor calls, single statements, wiring |

A file that is being uploaded is a **placeholder**: a row whose `upload_session_id` is
set, identified with an entry of the session cache. It becomes a **finished** file when
the hook of its last chunk sets that column to NULL. The parts interact through four
pieces of shared state (the files table, the storage column of the user, the physical
file and the cache), and there is no lock across them: a chunk request, the goroutine
that watches its client, a delete request and the collector meet in every order. Hence
the core of the project is that protocol.

### 1.2 The web client

A single-page application: React components, one redux store, and requests that are
answered at any time later. JavaScript handles one event to its end, so an action of
these models is one event: a click, an answer, a timer. What can happen between a
request and its answer is everything else: another click, another answer, another page.

| component (below `assets/src`) | state | operations | what is hard |
|---|---|---|---|
| pool of the uploader (`component/Uploader/core/utils/pool.ts`) | queue, list of uploads being processed, limit | enqueue, run, release, check, change of the limit | run and check call each other while a slice of the queue is worked off |
| tasks and cards (`core/uploader/*.ts`, `core/index.ts`, `utils/helper.ts`, `FileList.js`, `UploadTask.js`) | the task of each card, the resume contexts in localStorage | add, retry, cancel, clean up, reload; sessions, chunks and completion for eight types of policy | retries beside delayed deletions, requests lost on either way, cancellation of what is queued or under way, resuming |
| guides (`component/Admin/Policy/Guid`, `EditPro.js`, `Admin/Node`) | the policy or node being made, the page on show, the request under way | edit, go on, go back, check, save | buttons enabled again too early, answers that come late, fields derived from fields |
| lists (`component/Admin/*`, `Share/MyShare.js`, `SearchResult.js`, `Setting/Tasks.js`) | query, rows, selection | page, sort, filter, refresh, select, act on a row or on the selection | answers in any order, answers that work on the list of the click |
| file manager (`component/FileManager`, `redux/explorer`) | path, list, selection, pages, the dialog that is open | navigate, search, refresh, select, ten dialogs, drag | a list does not say whose it is; one flag for all dialogs; delayed refresh |
| forms of the administrator (`component/Admin/Setting`, `Group/GroupForm.js`, `User/UserForm.js`) | the options shown, those on the server and those in use | load, edit, save, apply, test | a save writes the whole page; two administrators; loads that fail |
| settings of a user (`component/Setting/UserSetting.js`, `Authn.js`, `WebDAV.js`) | what the page shows, what the server has | switches, dialogs, authenticators, WebDAV accounts | nothing waits for an answer, and answers flip or extend what the page shows by then |
| viewers, players, login, shares of others, dashboard, frame | | | not modelled: one request and its presentation |

The parts share little: the pool is driven by the tasks (`WebUploader` extends
`UploadPool` and each step of its pool is the pool's own action), the uploader talks to
the chunk protocol of the server as it shows from outside, and the pages talk to the
server only.

### 1.3 What makes the parts correct

* chunked upload: a finished file has the declared size and bytes; every row's file can
  be reached; a placeholder does not stay for ever.
* bookkeeping: a user is charged for the rows he owns, and stays near the quota.
* collector: takes placeholders only, and only abandoned ones.
* download, task queue: every download reaches a final status, and its result is
  transferred once. No job is lost, at most MaxWorkers run.
* cluster: the lists of the pool hold the nodes that exist and have that status; one
  ping loop for each node.
* update: the content and the size of a row change together or not at all.
* uploads of the web client: a card that says finished is right, a card that is gone is
  quiet, no card waits for ever; at most `limit` uploads run.
* guides, forms, settings: what is saved is what was shown, complete, and nothing nobody
  changed.
* lists and the file manager: what is shown is what was asked for, as the server has it;
  what is selected is shown; buttons come back.

The hazards this list comes from are in `PROJECT.json`, each at its line.

## 2. Modules

| module | role |
|---|---|
| `ChunkedUpload` | the upload protocol of a local policy, with deletion, collector, cache and restart |
| `MCChunkedUpload` | sizes and names for TLC |
| `ChunkedUploadProofs` | theorems about `ChunkedUpload` |
| `TaskPool` | the task queue: rows, goroutines, worker tokens, resumption |
| `RemoteDownload` | extends `TaskPool`: downloads of the master's aria2, their monitors, the transfer and recycle jobs, restart |
| `MCRemoteDownload` | names for TLC |
| `RemoteDownloadProofs` | theorems about both |
| `UploadPool` | the pool of the web uploader |
| `UploadContract` | abstract: what the list of uploads promises its user |
| `WebUploader` | extends `UploadPool`: tasks, cards, resume contexts; implements `UploadContract` |
| `PolicyGuide` | the nine guides for policies and nodes, and the table of all settings |
| `ListPages` | the eleven lists |
| `FileBrowser` | the file manager |
| `OptionForms` | the forms that are saved as a whole |
| `UserSettings` | the settings saved one by one |
| `MCWebClient` | the parts of the web client side by side, one in use |
| `UploadPoolProofs`, `WebUploaderProofs`, `ListPagesProofs`, `FileBrowserProofs`, `UserSettingsProofs` | theorems about them |
| `AdminFormsProofs` | theorems about `OptionForms` and `PolicyGuide` |

### ChunkedUpload

State:

| variable | code |
|---|---|
| `row` | the files table; a row has `Size`, and `pending` says `UploadSessionID != nil` |
| `storage` | `users.storage` of the one user modelled |
| `blob` | the physical file under the save path, as the sequence of its bytes; byte k of the client's file is written k |
| `cached` | sessions under `callback_<id>` that have not expired |
| `req` | per request goroutine: the next step, the session, the chunk index, and `size`, the `Size` field of the `model.File` the request holds |
| `del` | per delete request and for the cron job: the next step, what is left of its loop, the files it deletes and the sizes listed for them |
| `hangups` | `CancelUpload` goroutines that have found the request's context done and not yet run their hook |
| `issued`, `asked` | history: session keys issued, files the user asked to delete |
| `budget` | faults that may still happen |

A step is one cache call, one database statement or transaction, or one use of the file
system. A chunk request goes through `BeginChunk` (session, user and capacity) -
`LookupPlaceholder` (row, order of the chunks) - `CheckNotExists` (chunk 0 only) -
`OpenBlob` (open, compare, cut) - `WriteChunk` - `ChargeChunk` - and, for the last
chunk, `PromotePlaceholder` - `UnregisterSession`. `WritePartOfChunk`,
`ChargeChunkFails` and `PromotePlaceholderFails` leave that path: the first ends the
request, as no hook is registered for `AfterUploadFailed`, the others continue with
`TruncateChunk` - `RefundChunk`. Creation is `BeginCreate` - `InsertPlaceholder` -
`RegisterSession`. Deletion, for the user or the collector, is `ListFiles` -
`CancelSessions` - `UnlinkBlob` for each file - `EraseRows`; the collector first goes
through `ListPlaceholders`, `SiftPlaceholder` and `CollectExpired`.

Four points where the code needs care:

* The middleware loads the user before the handler runs, so the capacity hook, which
  runs after the lookup in the code, gives the answer of the moment the request began.
  That is why `HasCapacity` is a guard of `BeginChunk`.
* `UpdateSize` updates the row `WHERE size = <the request's size>` and charges the user
  whether or not a row matched.
* gorm assigns the new size to the request's copy while it updates the row, and the code
  assigns it again before the commit. After a failed transaction the request therefore
  holds the old or the new size (`ChargeChunkFails` allows both).
* A request may hold a file that a deletion has unlinked. Its writes are lost
  (`writeGone`).

Abstracted: one user; one local policy; names only as equal or different; every save
path different (the default rule contains a random string); hashes, metadata, thumbnails
and directory creation left out; a request body is cut short at any byte. The `force`
and `unlink` options of Delete, soft links and folders are not modelled. A request that
is refused before it has changed anything is not a step.

### TaskPool and RemoteDownload

State:

| variable | code |
|---|---|
| `task` | the tasks table: type, status, and the download the task works for (in the code, its properties name the files or the GID) |
| `job` | the goroutine that `Submit` starts for a task: waiting for a worker, before, in or after `job.Do`; files done; whether an error is set |
| `idle` | tokens in the channel `idleWorker` |
| `row` | the downloads table: status, `TaskID`, GID (first or followed), and for which GID a total size has been saved |
| `mon` | the goroutine that adds and then monitors a download: its next step, and its copy of the record, which `Save` writes back whole |
| `aria` | the download in the aria2 server: current GID and state |
| `temp`, `removing` | temporary folders that exist; goroutines of `DeleteTempFile` that sleep |
| `stored` | files of a download that have arrived in the user's folder |
| `ready` | whether `cluster.Init` and `aria2.Init` have run since the start |
| `budget` | faults and requests that may still happen |

Adding is `AddDownload` - `InsertDownload`. The monitor is a loop: `Poll` (the status
call) leads to `FollowDownload`, or to `UpdateTaskInfo` (save, then validate when the
size is new) and from there, by the status, back to `Poll`, to `SetErrorStatus` or
`SetCanceled` with `RemoveTempFolder`, or to `Complete`. `Complete` is `RecordTransfer`
- `SubmitTransfer` - `LinkTransfer` the first time, `AwaitTransfer` later, and
`RecordRecycle` - `SubmitRecycle` at the end. A job is `ObtainWorker` - `BeginJob` -
(`TransferFile` for each file and `EndTransfer`, or `RecycleFiles`) - `EndJob` -
`FreeWorker`. `Restart` stops every goroutine and runs `task.Init` with `Resume`;
`InitMonitors` is what `bootstrap/init.go` runs afterwards, so resumed jobs may run
before the node pool exists.

Four points where the code needs care:

* `Save` writes the monitor's whole copy. When the user has deleted the record, gorm's
  update matches nothing and its insertion collides with the primary key of the row that
  is only marked deleted: `Save` fails and the record does not come back.
* `RemoveTempFolder` uses the folder aria2 has reported; before the first
  `UpdateTaskInfo` it is empty and nothing is removed.
* A file that has arrived already makes a second transfer of it fail (the name exists),
  and a failed file does not stop the job.
* Notifications of aria2 only wake the monitor, as its timer does, so a poll may happen
  at any time and a lost notification is not a case of its own.

Abstracted: the node is the master, which always exists; a validation that fails is a
choice (quota, extension and size rules are not modelled); the request that deletes or
cancels reads and acts in one step; a failing update of an existing row is not modelled,
a failing insertion is. Left out: pausing and file selection, the status "unknown",
transfers through a slave (`NodeID > 1`), deletion of task rows by an administrator, and
resumption for users who are no longer active. `Download` is finite and each is added
once.

### The web client: conventions

An action is one event of the page: a click, an answer, the failure of a request, a
timer. Requests that are under way are a set; most modules give each two steps, one for
the server (`Serve`, `FetchServed`, `CallServed`, ...) and one for the answer, so that
requests are served in one order and answered in another. A failed request is refused,
lost on its way there, or lost on its way back.

The client does not exclude everything its users would not like, and each module has one
variable that records what the program let happen (`raised`, `rushed`, `odd`, `stray`,
`slips`, `rifts`, `gaps`). No guard reads it. A property names the marks under which it
does not hold, and so says of every other history that it does; the marks are listed
below with what the code does.

Similar pages are one module and a table: what the eight uploaders, nine guides, eleven
lists, ten dialogs and nine forms make of the common machinery is a record of each
(`S3Uploader`, `OSSGuide`, `UserList`, `CopyDialog`, `MailPage`), read from its own
source file.

### UploadPool

`queue`, `processing` and `limit` are the fields of the class `Pool`, `running` is the
promises of `uploader.run()` that are not settled. `check()` hands a slice of the queue
to `forEach`; an item that is rejected in it (`Reject`) releases its place and calls
`check()` again within the loop. `frames` is that call stack, and `CheckReturns` pops
it. No other event is handled before it is empty.

`raised`: the limit has been raised over items that wait. `changeConcurrentLimit` does
not look at the queue, so slices of more than one item come up later. A rejected
duplicate in one makes an inner slice start what the outer one still holds; when its
turn comes there, it is taken for a duplicate of itself: it is rejected, its place is
given away, and it uploads on uncounted.

### WebUploader, UploadContract

`up` is the task object of each card: its status, the request it awaits (`at`, `n`), its
session, the chunks its memory calls loaded (`sent`), whether its cancel token is
untouched (`live`), deletions of its session behind their delay of 500 ms (`dels`).
`ctx` is localStorage, `sess` the upload sessions of the server. The pool is that of
`UploadPool`, whose actions are conjuncts of the ones here.

| code | action |
|---|---|
| `addFiles`, `start()` (validation, then the pool) | `AddTask`, `Retry` |
| `run()`: resume, or create a session | `BeginTask`, `RejectTask` |
| answer to the creation; `upload()` and its loop over chunks | `Created`, `Progress`, `ChunkUploaded` |
| `afterUpload()` of each policy; end | `CallDone`, `Complete` |
| `setError`, by kind of error | `Refused`, `Lost` |
| `cancel()`, and what the cancelled token makes of a request | `Cancel`, `Abort` |
| `cancelUploadSession` after its delay | `DeleteSession` |
| `cleanupSessions`, `cleanFinished`, reload of the page | `CleanupSessions`, `CleanFinished`, `Reload` |

A policy is a record of flags: sent in chunks or at once, resumable, how many requests
complete an upload, whether their errors are swallowed (COS); and of its storage:
whether chunks must come in order, whether it completes an upload with parts missing
(OSS, whose client sends `x-oss-complete-all`). The server accepts or refuses what it is
asked by these flags; the server's own protocol is the subject of `ChunkedUpload`.

What the code lets happen, and the model with it:

* The delayed deletion reads `task.session` when it fires. A retry within the delay has
  its new session deleted; `rushed` marks a task retried with a deletion pending.
* `cancel()` leaves the item in the queue of the pool; it is started later and stops at
  its first request. During the creation of a session it leaks that session on the
  server.
* A reload loses the deletions behind their delay; the sessions expire.
* The answer to the last request of S3 is lost, and the retry is refused for good.
* COS swallows the errors of its callback: a card that says finished has sent its file,
  and the server may not know. `FinishedUploaded` says so.
* Two cards of one file share the context by its key: the late deletion of a cancelled
  card may delete the session the other one has resumed, which then fails and can be
  retried.
* `cleanFinished` takes failed cards away too, with their deletions pending.
* `cleanupResumeCtx` removes entries while it counts through them, so some survive.

`UploadContract` is what a user is promised: cards go from waiting over busy to done or
failed, a failed one may be retried, a card says done only of a file the storage holds
whole. `Phase` maps the state of a task to what its card shows.

Abstracted: contents, sizes, hashes and progress within a chunk; one destination; a
session key as a number; expiry the same for both sides. `ChangeLimit` is part of the
pool's instance only, and sizes of chunks do not change during an upload.

### PolicyGuide

`guide`, `step` and `form`/`on` are the page's state: fields are empty, given or typed,
`on` holds the radio buttons that are pressed. `known` is `policyID`, `stored` the
policy in the database, `pending` the requests under way, `hands` what the user has
changed. A form of a guide is a record: what it requires (`must`, `when`), what its
switches fill or empty (`flip`), what submitting does (`then`), how far "back" goes.
Each guide adds what a new policy starts with, what it derives from an edited one
(`reads`) and what its save clears (`drops`).

`Body` is what `submitPolicy` makes of the form before it sends it: addresses whose
switch is off are cleared; OneDrive's address for the login becomes one of two constants
that follow from its server (`derived`), whatever the policy had; a rate between 0 and 1
is cut to 0 by `parseInt` (the text `slight`). `StorePolicy` is what the server makes of
that: `AddPolicyService.Add` takes a leading slash off the rule for directories, except
for policies of the server's own disk or of a slave, so that a rule that is nothing but
a slash (`slight` again) is stored as empty.

`odd`: `edited`, typed with a request under way; `strayed`, "back" of OneDrive's upload
settings, which leads on to the authorisation with no policy saved; `wiped`, the late
answer about the site's address put the policy of the first render back over what was
typed; `trimmed`, the server took the slash of a rule and stored none.

Known: `setLoading(false)` runs when the save is sent rather than when it is answered,
so a second press saves twice (a new policy is then created twice, of which the model
keeps the later one); the guides for local, remote, S3, OSS and COS start with the CDN
switched off and clear the address of an edited policy; the address of aria2 is not
validated by "next"; `EditPro` may save an empty rule for directories; and a custom
login address of a OneDrive policy, which only `EditPro` can set, is lost when its guide
saves. All are in the model; where one breaks a property, the property excepts it by
name.

Abstracted: a stored rule that still begins with a slash loses one more at each save,
and other fractional numbers lose what is behind the point (texts other than those two
keep what matters here); which of OneDrive's two clouds is chosen.

### ListPages

`query` is what the controls show (page, size, order, filter), `rows`/`total`/`selected`
what the list shows, `waits` the `loading` of its buttons. A request carries the query
and the rows of its click (`q`, `had`), since the closures of the code do. `OpenList`,
`Turn`, `Resize`, `Reorder`, `Refilter`, `Refresh` load; `Act` is a button of a row or
of the selection; `ActAnswered` loads the list again with the query of the click;
`PatchAnswered` puts the list of the click back with a row changed (`block` of a user,
permission and preview of a share); `RemoveAnswered` is `removeShare`. The server
carries an action out and then answers it, but for the deletion of files by an
administrator (`defers`): these it answers at once, and a goroutine deletes them user by
user, or fails to (`doomed`, `DeleteDoomed`).

`stray`: `overtaken`, a list came after a later one; `moved`, the query changed with an
action under way, or a share was removed beside another call; `putback`, the list of the
click replaced a later one; `first`, the last share of a page was removed and page 1
shown, with the control left where it was; `late`, files were deleted after the server
had made up the last list; `failed`. The filter does not reset the page, and the last
row of the last page leaves an empty one: both hold in the model, and neither
contradicts "what the controls say".

### FileBrowser

`path`, `shown`, `picked`, `spinning`, `failing`, `paging`, `dialog`, `modalsLoading`
and `parent` (`currentID`) are fields of the store or the navigator; `asking` is
`modals.option`, the question for the encoding of an archive; `place` is the folder of
each object on the server; `fetches` are lists and `works` changes under way, `timers`
the refreshes 500 ms after a deletion, `chores` the tasks that compress, decompress or
download, and `brought` what these have stored. `Navigate`, `SearchFiles`,
`RefreshFiles`, `RefreshByMenu` and `RefreshTimer` ask for a list; `FetchAnswered` takes
whatever list comes. `SubmitDialog`, `WorkServed` and `WorkAnswered`/`WorkFailed` are
the life of a change, `DragMove` a move by mouse.

* A decompression may ask for an encoding after it has set `modalsLoading` and before it
  sends anything: `SubmitDialog` then puts it into `asking`, and `ChooseEncoding` or
  `RefuseEncoding` follows. Whatever closes all dialogs meanwhile takes the question
  away (`CloseDialog`, the answer to another request).
* A task is created by the request (`WorkServed`), stores objects later (`ChoreStores`)
  and ends (`ChoreEnds`). No list is loaded for it, and `FolderShown` says that this is
  all the list can lack.
* The menu of the present folder shares and compresses that folder (`OpenFolderDialog`):
  it selects the folder of the list shown, which is in no list, and nothing clears the
  selection when the dialog closes. Folders are therefore among what can be selected,
  and can be deleted, moved and renamed by a dialog that is opened afterwards. Such a
  folder is no longer at its path and cannot be listed (`Reached`); the model does not
  let another one take its path.

`slips`: `overtaken` and `failed` as above; `early`, selecting with a list under way
(keys work while the list is hidden; going to the folder one is in stops its spinner);
`kept`, the refresh in the folder's menu keeps the selection; `crashed`, the delayed
refresh cleared the selection under an open dialog, whose submission sets
`modalsLoading` and then fails reading the first selected object; `dropped`, all dialogs
were closed over the question for an encoding, whose promise is then never settled.
After either of the last two the buttons of all dialogs stay disabled.

Abstracted: the folders of the instance are not within one another, and the root is not
among them; a task stores its objects into one folder; leaving the file manager for
another page, which clears its state.

### OptionForms

`options` is what the form shows, `held` the options on the server, `applied` those it
has been told to use; `visit` counts openings of the page, since requests of an earlier
visit go on; `dirty` and `mine` say what was typed since the last save, and at all;
`OtherAdmin` is another administrator. A save writes all options of the page
(`SubmitOptions`).

`rifts`: `blind`, saved before or without a load (CAPTCHA, access and theme pages have
no empty required option, so the defaults of the program are saved over the stored
options); `stale`, another administrator saved after the load and is undone;
`overtaken`, the server got to a save after the load of a later visit; `failed`. A late
answer of a group's or user's save calls `history.push` and leaves the form of a later
visit.

Of the form of a group two details are left out: it reads and writes only the first
entry of `PolicyList` (`EditGroup.js:64`, `GroupForm.js:186`), and the program never
stores more than one; and with options of aria2 that are not JSON, `submit` returns
after a message and changes nothing (`GroupForm.js:188`), as if it had not been pressed.

### UserSettings

`screen` is `state.settings`, `account` the same on the server; `dav`, `davRights`,
`davHeld`, `davSaved` likewise for WebDAV. `busy` is `loading`, one string for all
dialogs; `flights` are requests under way, each with the accounts listed when it was
sent (`seen`). Registration of an authenticator is `AddKey` - `KeyBegun` - `KeyAdded`
with a challenge in the session. Two-factor authentication has a secret in the dialog
(`secretShown`, the one that came last), one in the session (`secretMade`) and the one
in use (`account.twoFactor`, 0 when it is off). The page knows the last only as on or
off, since that is all the server sends (`SettingsOf`), and an answer that succeeds
flips what it shows. The user types a code of the secret shown or of the one in use
(`Entered`), and the server takes the code of the one it has (`RightCode`).

The server handles a request about the settings in two steps. `LoadUser` is the
middleware: the user as the database has him, and the session (`had`). `ServeFlight` is
the handler, which works on what was loaded and saves the whole column: all options at
once (`SaveOptions`: home page, PDF, theme), the whole list of authenticators
(`SaveAuthn`), or the secret; or the whole session (`SaveSession`: the secret and the
registration begun). Anything may happen between the two. `RemoveAuthn`, `SetSession`
and the statements about WebDAV accounts do not report an error: `ServeUnsaved` answers
as if all were well. WebDAV accounts are rows of their own, which single statements
change.

`gaps`: `twice`, a switch pressed again before its answer; `early`, a change before the
page has loaded; `overlapped`, an answer worked into a list that another change had
replaced; `failed`; `unsaved`, the answer to a change that was not saved; `options`,
`authn` and `two_factor`, a column was saved over one that had changed since it was
loaded (`Overwritten`): the change in between is lost, and the page shows it all the
same. That takes two requests of one column that cross; crossing requests of different
columns lose nothing, and after a crossing of the session a code or a registration is
refused. The server's `PdfSettingsService.Update` switches on only, hence the one-sided
last conjunct of `SettingsShown`; a success closes whatever dialog is open.

Abstracted: the session and the user are loaded in one step; a theme has no value, but
saves the options like the others; a list of WebDAV accounts that the server cannot read
(it then sends an empty one) is not modelled.

### MCWebClient

The parts share no state but the pool within the uploader, so `page` chooses one that is
in use and the others stay in an initial state: every behaviour of each part, without
the product of all.

## 3. Runs

| run | instance | checked | result |
|---|---|---|---|
| `UploadSerial` | 2 sessions (3 and 2 bytes, chunks of 2), 2 requests, 1 deleter, collector, quota 4, one cut body or stubborn file, one restart, `Overlap = FALSE` | `TypeOK`, `Ledger`, `FinishedIntact`, `BlobHasRow` | holds |
| `UploadOverlap` | 2 sessions of one name, 2 requests, collector, quota 3, one failed transaction, symmetry over requests, `Overlap = TRUE` | `OvershootBounded` | holds |
| `UploadLive` | 1 session of 2 bytes, 1 request, 1 deleter, collector, two failed transactions, one hang-up, one restart, fair | `PlaceholderResolved` | holds |
| `UploadOverQuota` | 2 sessions, 2 requests, quota 3, no faults | `WithinQuota` | violated |
| `UploadUnbalanced` | 1 session, 2 requests, no faults | `BalancedCharge` | violated |
| `UploadCollected` | 1 session, 1 request, collector | `FinishedKept` | violated |
| `UploadCanceled` | 1 session, 1 request, one hang-up | `CancelSparesFinished` | violated |
| `DownloadRestart` | 1 magnet download of 2 files, 1 worker, 3 tasks, 2 failed polls with `MaxRetry` 1, one each of: aria2 error, failed insertion, failed file, cancellation or deletion, restart; fair | `TypeOK`, `WorkersConserved`, `JobsHeld`, `TransferComplete`, `FinalStays`, `DownloadEnds`, `JobsEnd` | holds |
| `DownloadSteady` | 2 downloads, one of them a magnet, 1 worker, 4 tasks, one failed file; fair | `TransferKeepsSource`, `FolderRecycled` | holds |
| `DownloadLost` | 1 download, one restart; fair | `CompleteTransferred` | violated |
| `DownloadUnderfoot` | 1 download, one cancellation | `TransferKeepsSource` | violated |
| `WebClient` | one page of the web client in use: pool of 6 items with 2 twins and limits 1 and 2; two cards of one file, or one of each of five policies; every guide, list, form and page (see below) | 25 properties, listed below | holds |

`Overlap = FALSE` lets an agent start on a session only when no other agent works on it.
It is what the web uploader does for its own requests (`Uploader/core/uploader/chunk.ts`
awaits each chunk), and different sessions still interleave freely. Under it, with a
body cut short at any point and a restart at any point, the ledger is exact and files
are intact. `Overlap = TRUE` drops it. What survives then is the bound on the overshoot
and the liveness property; what does not survive is shown by the four violations, each
described under `findings`.

Why the bounds are enough. Sizes 3 and 2 with chunks of 2 give a file with a full and a
short last chunk, a file of exactly one chunk, and the empty chunk after it (index 1 of
a file of 2 bytes is accepted by the code and is a last chunk). Two sessions and two
requests give every race of a pair; the proofs drop this bound for the properties they
cover. One fault of each kind is enough for an attempt that leaves something behind and
one that repairs it. Quotas 3 and 4 lie between one file and two. For downloads, one
worker with several tasks makes jobs wait. One download needs at most one transfer and
one recycle task, and a restart can add one transfer, so 3 tasks lose nothing; the
steady run needs 4. One restart is possible at every step, so a second transfer beside a
resumed one occurs. `DownloadSteady` assumes no restart, cancellation, aria2 error, lost
call or failed insertion, since each of them refutes one of its properties: a restart
loses the goroutine that removes a folder, a download that is not recorded is never
recycled, and the others remove the folder under a transfer as `DownloadUnderfoot` shows
for the cancellation. `CHECK_DEADLOCK FALSE`: the sessions and faults of an instance are
bounded, and a server with nothing to do may stop.

Fairness (`FairSpec`): weak fairness of each request's and each deletion's own steps
(the Go scheduler runs goroutines that can run), of the collector (cron fires every 90
minutes) and of expiry (entries have a TTL). No fairness is assumed of clients,
hang-ups, faults or the truncation by `CancelUpload`. The collector waits only for
`Idle`, so `WF` suffices. For downloads: weak fairness of each monitor, each job and
each sleeping removal (goroutines that can run), of `InitMonitors` (a server that starts
gets through its initialisation), and of aria2's progress (`AriaFollow`, `AriaFinish`; a
download that aria2 never finishes is never ended by the code either, which has no
timeout). A job that waits for a token competes with finitely many others, so weak
fairness is enough. No fairness of users, restarts, failing calls or aria2 errors.

`WebClient` checks, each in the part of the client it is about:

| property | what it says |
|---|---|
| `PlacesCounted`, `StartsWithinLimit`, `NoTwins` | the list of the pool is what runs, at most `limit` run, never two of one file; unless the limit was raised over a queue |
| `QueueServed` | nothing waits without an upload whose end will look at the queue; whatever the limit does |
| `FinishedUploaded` | a finished card has all parts in its session, completed on the server (COS: sent) |
| `CtxTruthful` | what a resume context claims the server has received |
| `RemovedIsQuiet`, `NoSelfDelete` | a card that is gone sends nothing more, and no task uploads into a session it has deleted; unless restarted with a deletion pending |
| `CardsServed` | a waiting or busy card has somebody who will move it on |
| `KeepsContract` | refinement: the cards implement `UploadContract` |
| `SavedComplete`, `SavedShown`, `EditKeeps` | a guide saves what all its forms require, goes on only from what it shows, and keeps what nobody touched |
| `SelectedListed`, `ListCurrent` | what is selected is listed; a list at rest is what its controls ask for |
| `FolderShown`, `PickedShown`, `PageExists` | the same for the file manager, and its page exists |
| `DialogsFreed` | disabled dialogs have a request under way that enables them |
| `OptionsKept`, `OptionsShown`, `OptionsApplied` | a save leaves alone what was not changed; a saved form shows what is held; what is saved is used |
| `SettingsShown`, `AccountsShown` | a page at rest shows what the server has |
| `ButtonsFreed` | a disabled button has a request under way that enables it |

Bounds of `WebClient`. The pool: six items, two of them twins, make a slice with a
rejected item and others behind it, under limits 1 and 2. Uploads: two chunks give a
first and a last one; two sessions an old and a new one; three faults give a lost
answer, its retry, and an expiry or a reload on top, at every point. There is one card
each of OSS, S3, COS and local; of the other policies, remote has the flags of local,
OneDrive differs from local and Qiniu from OSS in one flag, and Upyun is COS without a
request to complete it (the proofs cover all eight). The card of a fifth file fails its
validation. Two cards of one file begin after one session and one fault
(`UploaderInitFor`), since two whole lives of both would multiply. Guides: every guide,
new and edited, with three requests (two saves and a check cross) and one field typed
anew at any step. Lists: three rows on pages of one or two make several pages and a
filter that halves them; the first list and two more calls may all cross, and what
follows an answer is not counted. File manager: two folders, one object in each and one
yet to be created, the first list and two more requests; beside all three, no task, no
question for an encoding and no slip, and of dialogs those of deletion and move only; at
most one slip at a time before (`FilesNext`). Forms: the first load and two more
requests, one change of the user's and one of another administrator's, without the
latter on top of all three requests (`OptionsNext`). Settings: two changes, one account
or authenticator to add, at most one mark in `gaps` (`SettingsPageNext`): a second one
lifts more of what is claimed, and nothing else. The theorems below drop all of these
bounds for the properties they state.

No fairness in `WebClient`, hence no liveness: whether a request is answered is up to
the network, and a user need not click. What the code is answerable for is said by
`CardsServed`, `QueueServed`, `DialogsFreed` and `ButtonsFreed`: whoever waits has an
event to wait for. `CHECK_DEADLOCK FALSE`: clicks are bounded.

## 4. Proofs

All invariants and action properties of the passing runs are proved, and so are three
properties that violation runs refute, under the hypotheses that those runs drop. A
theorem holds for every value of the constants that satisfies the named assumptions of
its module; where it needs more, its ASSUME says so and so does this list.

`ChunkedUploadProofs`:

* `TypeCorrect`: `Spec => []TypeOK`, which contains that no row exceeds the declared
  size. It is inductive only with `ReqOK`, which ties each stage of a request to its
  session, chunk index and size, and `WriterHasBlob`: a request about to write holds a
  file that exists.
* `OvershootSafe`: `Spec => []OvershootBounded`. The invariant that is inductive speaks
  of the requests in flight: each can still charge at most what is due to it, and
  `storage` plus all that is due stays within the limit that held when the last request
  passed the capacity check. The lemmas are arranged as: what a chunk can add
  (`ChunkArithmetic`), what a deletion gives back (`EraseFrees`), steps that charge
  nothing (`CalmStep`), and one lemma for each action that moves the charge.
* `BlobHasRowSafe` (for `~Overlap`): no file without its row. The invariant is `Serial`:
  at most one agent works on a session (`Alone`), so the row is as the request or the
  deletion has read it (`RequestKnows`, `DeleterKnows`), and whatever mentions a session
  comes after its key was issued (`KnownIssued`).
* `LedgerSafe` (for `~Overlap`, `MaxTxFails = 0`, finitely many sessions): the user is
  charged for his rows, exactly. `NoRollback` says that no request is about to truncate
  or to refund, which only a transaction that failed leads to. The charge of all rows is
  a fold over the set of sessions; that it changes by what one row changes is proved
  from the equation of the fold, by a least counterexample among the subsets (`Unfold`
  to `Updated`).
* `FinishedIntactSafe` (for `~Overlap`, `MaxCancels = 0`): a finished file holds the
  bytes of the client's, whatever fails or restarts. `Intact` says how many bytes the
  file of each session holds at each stage of its request (`Prefix`, `Written`,
  `Whole`), and `AllAsked` that a deletion holds only what somebody asked to delete, the
  cron job only placeholders.
* From the same invariants, three action properties: `Balanced` (a charge equals the
  growth of the row; as `LedgerSafe`), `FinishedKeptSafe` (a finished row disappears
  only by request; for `~Overlap`), `CancelSparesFinishedSafe` (nothing cuts a finished
  file; for `~Overlap`, `MaxCancels = 0`). `UploadUnbalanced` and `UploadCollected`
  refute the first two with `Overlap = TRUE` and no fault, `UploadCanceled` the last
  with a hang-up: the hypotheses are needed.

`RemoteDownloadProofs` proves, for every number of downloads, workers, tasks, files and
faults that satisfies the assumptions of `TaskPool` and `RemoteDownload`:

* `TypeCorrect`: `Spec => []TypeOK`. That no more than `MaxWorkers` tokens are idle
  follows only with the next property (`RoomForWorker`).
* `WorkersSafe`: `Spec => []WorkersConserved`, by the cardinality of the set of jobs
  that hold a worker: a step of a job adds the job to the set, takes it out, or leaves
  the set alone.
* `NoJobForgotten`: `Spec => []JobsHeld`.

The three are proved together, since the invariant is inductive only as a whole
(`PoolInv`): a goroutine works on a task that has a row (`JobHasTask`), a job that gives
its worker back has a final status (`FreedIsEnded`), a monitor about to submit holds a
fresh task that no other monitor holds (`SubmitsFresh`: otherwise `Submit` could
overwrite a job that holds a worker), aria2 knows every download (`AriaKnows`), and
nobody monitors while the server starts (`Quiet`: otherwise `InitMonitors` could forget
a submission). Steps are grouped by what they mean for the queue: `CalmStep` (nothing),
`RecordStep`, `SubmitStep`, `JobInvStep`, `RestartStep`. Three more rest on `PoolInv`:

* `TransferCompleteSafe`: a transfer that says complete has brought every file.
  `Brought` counts the files of a transfer that has had no error, `Live` says that a job
  works on an unfinished task only, so a complete transfer is never begun again.
* `FinalStaysSafe`: a download that has ended stays so. By `Decided`, a final status
  that a monitor holds is aria2's last word about the GID it follows, and a record with
  a final status has a monitor that has one too or that saves nothing any more.
* `TransferKeepsSourceSafe` (for `MaxAriaFails = 0`, `MaxDeletes = 0`, `MaxRestarts =
  0`, `MaxPollFails <= MaxRetry`): the temporary folder is not removed under a transfer.
  `Steady` says that a monitor sees its download through (`SeesThrough`) and that the
  download has one transfer, which the monitor knows and whose end it waits for before
  anything removes the folder (`OneTransfer`). Files that cannot be stored and rows that
  cannot be inserted are allowed; `DownloadUnderfoot` shows that a cancellation is not.

The web client, for any number of items, files, chunks, sessions, rows, objects,
requests and changes:

* `UploadPoolProofs`: `PoolTypes`, `Counted`, `Twinless`, `WithinLimit` from
  `PlacesInv`. While the limit has not been raised over items that wait, an item waits
  only when every place is taken (`Full`), so a slice has one item at most, and the
  apparent recursion of `check()` is a loop over the queue (`Loop`). `Woken` needs no
  such condition: as long as nothing runs and something waits, the outermost call of
  `check()` has its first item before it (`Awake`).
* `WebUploaderProofs`: `Uploaded`, `Truthful`, `Quiet`, `Undeleted`, `Unstuck` and the
  refinement `Kept` (`UploaderSpec => KeepsContract`), for every policy. The invariant
  `UploaderInv` joins the pool's (twins never run side by side, hence a context is
  written by one task at a time) with `SessOK` (the server), `CtxOK` (contexts are
  truthful), `TaskOK` (what a task believes of its session is true), `CardOK` (card,
  task and place in the pool agree) and `GoneOK` (a session that has been or will be
  deleted is one nobody can go on with, or its task is cancelled or was restarted). None
  of the parts is inductive alone: a context is true because the task that writes it is,
  a task because its context was when it resumed. Each action has a lemma for its effect
  (`...Effect`) and one that it keeps the invariant (`...Keeps`). For the refinement,
  each step changes one card, or many by a clean-up or a reload, in a way the contract
  allows (`Phases`), and takes nothing from what is stored (`Stored`).
* `ListPagesProofs`: `Selected`; `Current` from `ListInv`: with no stray event, the
  latest list asked for is the one of the controls and on its way, or it is shown, or a
  change is under way whose answer will ask for it; a deletion that the server still has
  before it (`doomed`) finds a list that is made up later, or leaves its mark.
* `FileBrowserProofs`: `Picked` from `Apart` (nothing is selected while a list is under
  way, and otherwise what the list shows or its folder); `Freed`, `Paged`; `Listed` from
  the same argument as `Current` with the delayed refreshes (`Due`), where what a task
  stores may be missing from the list.
* `AdminFormsProofs`, about `OptionForms`: `Kept` from `KeptInv` (the server, the form
  and every save on its way are faithful to the first values where nobody changed them),
  `Applied` from `AppliedInv` (a request that makes the server use what it holds is
  coming), `Shown` from `VisitInv` (a visit loads once and saves one at a time) and
  `ShownInv`.
* `AdminFormsProofs`, about `PolicyGuide`, for any number of edits and requests, with
  what the tables of all the guides have in common as one predicate (`GuideSound`),
  which each guide has a lemma for: `EditKeepsSafe` from `Keeping` (what nobody touched
  is as stored in the form, in every request and in the database; what submitting clears
  is what the form derives again), `SavedShownSafe` from `AsShown` (a save under way,
  and what is stored on the pages behind it, are the form), `SavedCompleteSafe` from
  `Complete` (the pages passed, or that a request leads past, are filled in), `Ahead` (a
  node is saved by one request at a time, which leads onward) and `PathTested` (a local
  policy leaves its first page with a tested path only).
* `UserSettingsProofs`: `Freed`; `SettingsSafe` from `SettingsInv`: page and server
  differ by what has come to the server and not yet back, option by option (`HomeInv`,
  `KeyInv`, `PdfInv`), two-factor authentication by an odd number of accepted codes on
  their way back (`TwoFactorInv`); `AccountsSafe` from `AccountsInv`, the same of the
  accounts and their rights (`HeldInv`, `RightsKept`, `RightsInv`). What a request has
  loaded matters only when its column is saved, and then it is either what the column
  still holds or a mark says that it is not (`ServedSettings`, `SavesAccount`).

What a proof taught about a model: `SettingsShown` was not inductive while the page of
`UserSettings` held the secret in use. Two secrets and more changes than the run has
made page and server differ, in a state the program does not have, since its page never
learns the secret. The page now holds a switch, as in the code.

Only model-checked: the liveness properties `PlaceholderResolved`, `DownloadEnds`,
`JobsEnd` and `FolderRecycled` (temporal reasoning from fairness needs ENABLED, which is
out of the prover's reach). `WithinQuota` and `CompleteTransferred` are what comments
and names promise and the code does not keep; their runs refute them.

## 5. Not modelled

Of the web client: viewers, editors and players, login and registration, the views of a
share, the dashboard, the frame of the page: one request and its presentation, no state
that two events work on. `component/Setting/UserSetting copy.js` is a copy that nothing
imports. Within the modelled pages: what a card displays besides its state, downloads of
whole folders (which share one `AbortController`), the dialog of torrents and the state
of the context menu, the test of a thumbnail generator, the dialogs that compose a theme
or list magic variables, the mount table of WebDAV.

Of the server, with the hazards that no property covers:

* Node pool, ping loops and the message queue (`pkg/cluster`, `pkg/mq`). Hazards: a nil
  node in a list (`pool.go:85`), the channel of a ping loop (`slave.go:62`), the job
  table written under a read lock (`controller.go:164`), the removal of a folder that a
  restart loses (`master.go:263`).
* Upload callback and remote driver (`service/callback`, `middleware/auth.go`,
  `driver/remote`). Hazards: the callback session is removed before the callback is
  processed (`auth.go:165`); the capacity is checked when the file is already stored
  (`callback/upload.go:139`).
* Overwriting (PutContent, WebDAV PUT), soft links, move, copy, rename, archives.
  Hazards: two rows of one source deleted in one call (`models/file.go:234`); the batch
  rolled back for one changed row (`models/file.go:268`).
* In the upload of `ChunkedUpload`: a delete between the lookup of the row and the
  creation of the file (`driver/local/handler.go:126`) leaves a file without a row. It
  happens in the model with `Overlap = TRUE`, where no property speaks of it;
  `BlobHasRow` is checked and proved without overlap.
* The race of `GarbageCollect` with `Set` in the cache (`pkg/cache/memo.go:62`): a
  session lost that way looks like an expired one, which is modelled.
* Chunks sent again from a temporary file (`pkg/filesystem/chunk`): one goroutine, no
  shared state.
* Drivers of object stores, WebDAV's vendored server (whose locks grant everything),
  thumbnails, users, groups, shares, OAuth, routing, configuration: calls of libraries,
  single statements, wiring.

## 6. What is left

1. `NodePool`: lists and statuses agree, a deleted node is in no list, one loop for each
   node, no send that nobody receives.
2. `RemoteUpload`: upload through a slave, its callback and the collector, composed with
   the bookkeeping of `ChunkedUpload`; the server under `WebUploader` is then that
   module instead of the flags of a policy.
3. `FileUpdate`: overwriting, soft links, deletion of linked rows.
4. An abstract specification of an upload without overlap (a session is issued, grows
   and is finished or disappears) that `ChunkedUpload` implements, from `Serial` and
   `Intact`; and of a download, from `PoolInv` and `Decided`.
5. `RemoteDownload`: downloads of slave nodes, whose transfers end by a message that may
   be lost.
