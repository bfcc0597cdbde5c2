# TLA+ models of GoS3

GoS3 is a single-binary S3 server: HTTP handlers over a storage backend that keeps
object bytes in plain files and everything else in one embedded bbolt database. This
directory models the parts of it where interleavings, crashes and long sequences of
requests matter, model-checks them with TLC and proves what holds for every instance
with TLAPS.

    tlc -workers 2 -config VersionIndex.cfg MCVersionIndex.tla
    tlapm VersionIndex_proofs.tla      # and the other modules named ..._proofs

`PROJECT.json` lists every run with its module and config, the source lines behind each
definition, the hazards, the disagreements found and the theorems.

## 1. The system

| component | state | operations | talks to |
|---|---|---|---|
| metadata index, `internal/storage/metadata/bbolt.go` | `buckets`, `objects:b` (key to current record), `versions:b` (key and version id to record) | one bbolt transaction per method; write transactions are serialised | called by backend and handlers |
| local backend, `internal/storage/local/local.go` | files `key@versionId` | PUT, GET, COPY, DELETE, bucket deletion: several transactions and file operations each, no lock | metadata index, file system |
| multipart uploads, `local.go`, `bbolt.go` | rows of `uploads`, tables `parts:id`, files `multipart/id/parts/n` and `n.tmp` | create, upload part, complete, abort, startup cleanup | metadata, files; the completed object goes through the backend |
| handlers, `internal/handler/*.go` | none of their own | choose the version id, check the policy, call the backend, enqueue replication, fire webhooks | backend, metadata |
| console handlers, `admin.go`, `admin_buckets.go` | none | bucket and object operations that partly bypass the backend | metadata, backend |
| lifecycle worker, `internal/server/lifecycle.go` | a timer | lists versions and uploads, deletes what has expired | backend |
| replication, `internal/replication/service.go` | a bounded queue | enqueue (dropping when full), workers with retries | backend, remote server |
| policy engine, signatures, sessions, service accounts, `internal/auth` | users, sessions, keys in bbolt; the token key in memory | find out who asks, allow or deny | every handler |
| bucket configurations, `bbolt.go`, `bucket.go`, `admin_buckets.go` | one row per bucket and kind: policy, CORS, website, webhooks, lifecycle; one per custom domain | put, get, delete | read by middleware, handlers, worker |
| webhooks, `webhook.go` | goroutines under way | read the configuration after a write and call | remote servers |
| middleware, `internal/middleware` | token buckets per address, user, bucket | rate limit, custom domains, CORS, authentication | in front of the handlers |
| listings, `bbolt.go` | none | pages of objects, versions, parts, uploads | handlers, lifecycle |
| chunked bodies, `chunk.go` | reader position | decode `aws-chunked` uploads | PUT, UploadPart |

What makes it hard:

- **Concurrency.** Every request runs in its own goroutine. Nothing orders two requests
  for one key except the single transactions they are made of. A PUT is a rename and then
  a transaction; a DELETE is a transaction and then an unlink; a GET is a transaction and
  then an open; a lock check and the removal it guards are two transactions.
- **Two stores.** Records are in bbolt and bytes in files, and no step changes both.
- **One file for two ids.** A record with the empty version id (never versioned) and one
  with the id `null` (versioning suspended) share the file `key@null`. And names are cleaned after
  key and version id are joined (`safePath`, `local.go:66`): `a//b` and `a/./b` share the files of `a/b`,
  `../../c/objects/k` those of a key in bucket c, and DELETE takes a version id of any text, so that
  `x/../a@U` leads to the file of version U of a.
- **Crashes.** The process may die between any two steps; startup only empties the
  temporary directory.
- **Shared names.** All attempts at a part of an upload write one temporary file.
- **Many small reads.** Who asks, what policies say, which website or CORS rules apply: each is
  a read transaction of its own, and the tables change between them.
- **Pages.** Listings are transactions joined by markers only; the lifecycle worker and the
  archive download act on a page after the transaction that read it.

What makes each component correct: the index keeps its two tables in step and never brings
versions of a deleted bucket back; the backend reads back what was written, for every
version and at every moment, and never removes a held version; an upload is completed from
whole parts, is never lost and leaves nothing behind; listings show what stays, and end;
the lifecycle worker deletes what has expired and nothing fresh; replication converges when nothing
fails; nobody passes on a withdrawn credential and every decision rests on policies that stood; no
limiter grants more than its burst and pace; a visitor's answer rests on what was configured, and
webhooks that are due are called.

## 2. Modules

| module | models | how |
|---|---|---|
| `VersionedStore` | what callers expect of a versioned store | abstract: live buckets, ids stored per key, current id |
| `VersionIndex` | `bbolt.go`: buckets, objects, versions | one action per transaction |
| `VersionIndex_proofs` | theorems about it | TLAPS |
| `ObjectBackend` | handlers and `local.go` over the index | extends `VersionIndex`, whose actions are the transactions; one action per transaction or file operation |
| `ObjectBackend_proofs` | types; the handlers implement `VersionIndex`; versions with ids of their own keep their files; what one request at a time keeps | TLAPS |
| `Multipart` | uploads and parts | one action per transaction or file operation, inodes with two blocks |
| `Multipart_proofs` | all its properties | TLAPS |
| `Replication` | the handlers' events, the queue, the workers and the targets | one action per step of a handler or worker |
| `Replication_proofs` | types; what it takes to lose an event; convergence | TLAPS |
| `Pages` | the four paginated reads of `bbolt.go` | operators: a page as a function of the table |
| `Listing` | those who walk through pages: client library, console, archive download | extends `Pages`; one action per page or object |
| `Listing_proofs` | all its properties but `ListingEnds` | TLAPS |
| `Lifecycle` | the lifecycle worker over the index, next to clients | extends `VersionIndex`, uses `Pages`; one action per transaction |
| `Lifecycle_proofs` | types; what the worker leaves alone | TLAPS |
| `Policies` | policy documents and their evaluation | operators |
| `Access` | users, service accounts, sessions, IAM and bucket policies; login, signatures, tokens, decisions | extends `Policies`; one action per transaction |
| `Access_proofs` | all its properties | TLAPS |
| `RateLimit` | the limiters of `ratelimit.go` and their cleanup | one action per limiter asked |
| `BucketConfig` | custom domains, CORS, websites, webhooks | uses the patterns of `Policies`; one action per row or object read |
| `Middleware_proofs` | `RateLimit`: types, the bound on what a limiter grants; `BucketConfig`: the answers to visits | TLAPS |
| `MC...` | constants, operation sets and symmetries for TLC | |

### VersionIndex

`buckets[b]` is the versioning status of bucket b, or None; `objects[b][k]` the record in
`objects:b`; `versions[b][k]` the records in `versions:b` under key k. A record has the
version id, the latest mark, the time stamp and a payload that no method reads.
`clock` counts object writes and stands for the wall clock. Callers read the clock before
their transaction, so in `Spec` a stamp is any time up to now; in `SerialSpec` requests come
one at a time and the stamp is the time of the transaction.

`DeleteVersion` chooses any of the newest versions: the code takes the first in key order
among equal stamps, and the ids are random.

### ObjectBackend

`req[p]` is the request in slot p: the step it is at and its local variables. Each handler is
a sequence of actions: `BeginPut`, `CheckBucket`, `RenameFile`, `CommitPut`, for example. Any
other request may run between two of them. `files[f]` is the content of file f. `PathOf` says which file
a bucket, key and version id lead to once the name is cleaned, `Tree` which files a bucket's directory holds; both are constants,
constrained only by what cleaning cannot do: merge two version ids without a slash. `MadeUp` are version ids that clients
make up; a DELETE with one finds no record and no lock and removes the file it leads to. `Alone` says that no other
name leads to a file.
The n-th request uploads content n, which also stands for its ETag and size. `hold` in a record
stands for a legal hold or a retention date that has not passed. `Crash` drops what is in flight.

Left out, because no property depends on it: authorisation (a refused request leaves
no trace), conditional headers and ranges of GET, metadata headers, quotas, the events sent
to replication and webhooks after the work is done. `RemoveDir`, which removes a directory tree,
is one step.

`Ops` is the set of operations the clients of an instance use. It is needed because some
properties hold only without some operations: that is how the model says which combination
is at fault (section 4). `lock` stands for writes that ask for a hold.

### Multipart

Part files and their temporary files are names for inodes, so that two attempts writing
through one name, or a rename under an open file, do what the file system does. A body has
two blocks: enough to be half written, or written by two attempts. The last steps of a completion
are one step here; their own interleavings are in ObjectBackend (`BeginComplete`, `PlaceFile`,
`CommitPut`). `Retries` says whether a client may send a part again while an earlier attempt
at it is still running. Any transaction may fail: that of a part removes the part's file, which may be one that an
earlier attempt has recorded (`RecordPartFails`), and that which drops a completed upload is ignored, so that an upload stays whose
parts are gone (`DropFails`). The history variables `unkept` and `emptied` say which parts and uploads the code has
lost this way, or by a restart.

### Replication

`source[k]` is what a GET of k finds; `req[p]` the keys that the request in slot p has yet to delete
and the events it has yet to enqueue; `worker[w]` the event a worker has, the target and the try it is
at, and the object it read for it. A handler first commits its change and later enqueues the
event: other requests and the workers run in between. An attempt at a put has two steps, reading the
source and the call, since the source may change between them; the `Content-Length` is that of the
event, so a body that has grown is cut (`CallMisfits`). MakeBucket comes before each attempt; its
failure is that of the attempt (`CallFails`). A call the client has given up may be carried out later
(`LandLate`). Targets are external: a put stores, a delete removes.

An event gives the `Content-Length` of the request, which for a body in `aws-chunked` encoding is more than the
bytes stored (`object.go:129`, `local.go:260`). All tries to send such an object fail, so the event is lost with no fault of
anyone; `PutObject` counts the change as one that was not told. `plan.md:347` says that SDKs send this encoding by
default.

Changes that announce nothing (copies, form uploads, completed multipart uploads, expiration, the
console) are `SilentChange`; the removal of one version announces a deletion (`DeleteNext`). Five
history variables say why a target may differ from the source, and let the properties say that there
is no other reason: `untold`, `raced`, `lost`, `calm`, `failures`.

Left out: content type and user metadata. The latter arrive under another name: the handler keeps
them with their prefix (`object.go:71`) and the client puts it in front once more
(`client/object.go:42`).

### Pages and Listing

`Pages` has the four paginated reads of `bbolt.go` as functions from a table to a page. Keys and common
prefixes are numbers in their byte order; `Folder[n]` is the common prefix n falls under. A page is a
set of rows and the markers of the next.

`Listing` is a caller who follows the markers while others write and delete: the client library's two
loops, the console, whoever walks through versions or parts, and the archive download, which gets the
objects of a page one by one. `job` says what is listed. A write has an id of its own, none, or the `null` of a
suspended bucket, which replaces the version of that id. `stayed` is a history variable: what has been
there from the first page until now. `passed` are the keys whose marker version was removed between two
pages, which loses the rest of their versions (`bbolt.go:469`); `renewed` those whose marker version, `null`, was written anew,
so that the next page goes on from a newer time and lists again.

### Lifecycle

Extends `VersionIndex`, so that clients' writes and deletions and the worker's are its transactions.
`worker` is the goroutine's place in its nested loops: buckets, rules, pages of versions, rows of a page,
pages of uploads. The cutoff is set before the first page. A deletion of the worker is the backend's, as one step
with its lock check; files are not kept. `Locks` and `Switches` say which buckets and which changes of
versioning an instance has.

### Access and Policies

`Policies` is the evaluation of one document: patterns, principals, statements. A name is a sequence of
pieces, cut where a pattern may end.

`Access` has the tables of users, service accounts, sessions, IAM policies, and one bucket's owner and
policy. `at[p]` is the next transaction of request p: the account of the key, its parent user, the session
of a token, the bucket's owner, one policy after the other, the operation. `call[p]` is what the client sent, `who[p]`
whom the middleware took it for. `held` says who was given a key or token; a client uses no other. `RecordKeys` are the access keys that
user records may hold, the empty one included. A key that no account has passes as a user whose record
has it, with that record's secret and without a look at `Disabled` (`sigv4.go:156`, `bbolt.go:703`); a request with the empty key is sent
by anybody, in the hope to pass as some user.
Whether a signature fits and is young enough is a choice (`Verified`). `since[p]` is history: the
facts that held at some instant, and at every instant, since p arrived. Properties compare what a request got
with these facts, since no two of its reads are of one instant.

### RateLimit

Tokens are counted in shares, of which a request takes `Cost` and a tick brings `Rate`; the arithmetic of
`golang.org/x/time/rate` is that of whole shares. Each limiter asked is one critical section. A limiter
and an instant are picked at any time (`OpenWindow`), and `counted` are the grants since. `Pace` is what a
client can keep up: the rate, or a burst every `Idle` for those who keep quiet until the cleanup forgets
them, which makes the next limiter a full one. Nothing in the configuration keeps a burst from being more
than `Idle` brings.

### BucketConfig

Rows of websites, CORS rules, webhooks and custom domains, any of which the server may start on. A
visit (`visit[v]`) is a GET that passes `CustomDomain`, `CORS` and the router and ends in `ListObjects` or
`GetObject`, one row or object read at a time. A write goes on to its webhooks (`notice[w]`), each event of
which reads the configuration and leaves the calls to a goroutine (`sending[e]`). `seen` and `owed` are history.
What policies say of a visit is in Access.

Operators whose comment begins with "Slip" are no part of a specification. Each is a definition with a
plausible mistake in it; `PROJECT.json` pairs it with the property that notices.


## 3. What TLC checks

| run | instance | shows |
|---|---|---|
| version_index | 1 bucket, 2 keys, 2 uuids, 3 writes | the two tables stay consistent (`HeadIsStored`, `NoHiddenVersions`, `GoneBucketsHoldNothing`) and implement `VersionedStore`, with stamps in any order |
| backend_versions | 2 request slots, 3 requests, 1 key, 2 uuids and a made-up id that leads to the file of one, crashes and failing writes, every operation but COPY and the backend's bucket deletion | each version with its own id has its file unless another name leads there, each GET of it sends what its record describes, and every transaction is a step of `VersionIndex` |
| backend_suspend | 1 slot, 2 keys, 2 uuids and a made-up id that leads to a `null` file, 5 requests; no COPY, form upload, `versionId=null` deletion or console status | HEAD, GET and files agree in every versioning status where no other name leads to the file; held versions stay, a `null` one until a later write under its id; the head is the newest version and moves only for a cause |
| backend_copy | 1 slot, 2 buckets, 2 keys of which one leads to the other's files in the first bucket, 4 requests; PUT, GET, COPY, deletions of keys, versions and buckets, versioning enabled | GET sends what its record describes, copies between buckets included, unless another name leads to the file |
| multipart | 1 upload, 2 parts, 3 attempts, 2 slots, restarts, broken transfers, failing transactions | recorded parts can be completed, objects are made of whole parts, nothing is lost, nothing is left behind |
| replication | 1 key, 2 slots, 2 workers, 2 targets, a queue of 1, 2 changes, any number of failed calls, 1 late call, restarts | what is quiet has converged; only a fault or a full queue loses the last event; the work ends |
| listing | 5 names in one folder, pages of 3, 2 versions of a key, one of them without id or `null`, 2 changes during the walk | what stays is listed, once unless a marker says otherwise, and the walk ends |
| lifecycle | 1 bucket, 1 key, 2 uuids, 3 days, pages of 1, 1 rule, 1 upload | no fresh version and no fresh head goes; the worker gets through; what is due goes |
| access | 2 slots, root and a user whose record has no key, 2 keys and the empty one, 1 session, 1 policy, 2 changes of which expiry and restart are two | who passes had the standing, decisions rest on policies that stood, tables change at the hands of those who may |
| limiter | 1 slot, one address, user and bucket, 3 ticks, `Idle` of 1 | a limiter's grants keep to burst and pace in every window |
| bucket_config | 1 visitor, 1 writer, 2 keys, 2 changes, 2 events, any tables to start on | answers rest on what stood; webhooks due are called |
| site_root | 1 visitor, no changes | the root of a custom domain does not serve its index page (section 4) |

Bounds. Buckets and keys interact only through COPY and through the emptiness test of a bucket
deletion, and through names that lead to the same file, so two of either are enough; one such name in an instance meets
every step that touches a file. Two uuids and the two ids without a uuid give three
versions of a key, the least for which removing the head leaves a choice. Two slots
show every two-request race; a race of the code needs two requests and one object that is
already there, hence three requests. Uploads do not interact at all: one is enough.
Requests and object writes are bounded by `MaxClock`, attempts at parts by `MaxAttempts`, in
guards.

In replication, events of different keys meet only in the queue, which one key fills too. Two changes
on a key are the least that can overtake each other, and with a queue of one they fill it. Failed
calls are not bounded, only counted up to the number of tries.

In listing, five names make two pages and one row more, with a boundary inside, before and after the
folder; two changes can remove a marker and put something in its place. In lifecycle, pages of one make every
boundary occur; three days let an object be old, be overwritten and be old again. In access, a race needs one request
and one change under it; two changes let the second undo the first. Logins, logouts and reads are not
counted. In limiter, requests meet only in the limiters, each of which is one critical section, so one slot has every
order of their grants, and a second would add only requests under way. In bucket_config, the tables may be anything at the start, so
that a change or two during a visit are all that is missing; two events are a bulk deletion.

Deadlock is not checked in the backend, multipart, listing and access runs: once requests, changes or
pages are used up, clients stop.

Fairness. In Replication, a handler that has committed goes on to enqueue, a
worker takes an event while there is one (a receive from a channel), and a worker at work takes a
step: reading ends, a call has a limit of 30 seconds (`client/client.go:53`), a wait has a timer.
Nothing is assumed of the outcome of calls: `Settles` holds with targets that never answer. In Listing, the
caller asks for its next page or object: a loop in one goroutine. In Lifecycle, the worker goes on: one
goroutine, which waits for its ticker only; clients need not do anything. `WorkerReturns` and `ExpiredGo` are
stated under `Unobstructed`: the uploads that the worker leaves alone do not fill a page from some
time on, without which the loop over uploads never ends (section 4). In BucketConfig, a handler goes on to its webhooks and their
goroutine to the next call, as each has a time limit. The other handlers
modelled are finite sequences of steps that wait for nothing, and no liveness is stated of them.

## 4. Where the code departs from its documents

The run **site_root** checks a statement of `docs/USER_GUIDE.md` and finds it violated
(`RootServesIndex`): the root of a custom domain is rewritten to a path that ends in a slash, and
`getObjectKey` appends that slash to the index page's name.

Other properties fail on instances that are not among the runs. To see one, take the run's config with
these constants and only that property:

| config | change | property | what happens |
|---|---|---|---|
| BackendVersions | `Ops = {"put"}` | `HeadOpens` | two PUTs of one key without versioning: file of one, record of the other |
| BackendVersions | `Ops = {"put", "get"}` | `ReadsMatch` | a PUT replaces the file between the two steps of a GET |
| BackendVersions | `Ops = {"put", "delete", "lock"}` | `HeldStays` | a hold is committed between the lock check of a DELETE and its removal |
| BackendVersions | `Ops = {"put", "delete", "enable", "deleteBucket"}` | `VersionIntact` | a bucket is deleted and created again next to a PUT: the late `RemoveAll` takes the new file |
| BackendSuspend | `Ops = {"put", "get", "deleteNull", "suspend"}` | `HeadOpens` | `DELETE ?versionId=null` of an object that was written without versioning removes the file and keeps the record |
| BackendSuspend | `Ops = {"put", "delete", "enable", "disable", "lock"}` | `HeldStays` | after the console has turned versioning off, a plain DELETE checks the lock of the current record and removes every version |
| BackendCopy | `Ops = {"put", "copy", "delete", "enable", "lock"}` | `HeldStays` | a copy carries its version id along: a held version copied onto its own key is replaced under its id, and a bucket without versioning can have several versions |
| Multipart | `Retries = TRUE` | `CompletedWhole` | a retried part truncates the file of the attempt that is still running |
| Replication | | `DeletesFollow` | two workers take a PUT and the DELETE after it; the DELETE arrives first |
| Lifecycle | `Switches <- Enabling`, `Locks = {FALSE}` | `FreshStays` | a version without id in a bucket whose versioning was switched on later gets a delete marker at every run (`lifecycle.go:88`), also over a newer object |

The same causes break other properties, which is why the passing runs leave operations out:
VersionIntact fails as well when a version is copied onto its own key while it is being deleted; ReadsMatch fails
after a form upload into a suspended bucket, which shares the file of the `null` version.

Some disagreements are written into the properties, as exceptions that each say where the code does not keep
what a reader would expect:

- **Names that lead to one file.** A PUT of `a//b` replaces the bytes of `a/b`, and a DELETE of it, or of any key with
  a made-up version id such as `x/../a/b@U`, removes the file and leaves the record. No lock is looked at, as none is recorded
  under the name used. Without the condition `Alone`, TLC finds `VersionIntact` violated in backend_versions, `HeadOpens` in
  backend_suspend and `ReadsMatch` in backend_copy. What is left in general is `VersionReadsMatch`: a version with its own id is never read
  with other bytes, though it may be gone.
- **Held versions without an id of their own.** A PUT, a form upload and the marker that DELETE writes into a suspended bucket
  (`local.go:359`) replace the version without id, or `null`, whatever hold or retention it has. `plan.md:657` has as
  done "Từ chối DELETE nếu còn trong retention period" (refuse DELETE during the retention period). `HeldStays` asks of such a version only that
  nothing but a later write under its id replaces it.
- **Parts.** A recorded part is lost when a further attempt at it cannot be recorded, because the file is removed
  on any error (`local.go:564`); parts of a live upload are, when a completion cannot drop it (`local.go:664`), or at a restart.
- **Announced lengths.** An object uploaded in `aws-chunked` encoding is never replicated, as said under Replication.
- **Empty access key.** A signed request with an empty key in its credential passes as the first user whose record has no
  key, if it is signed with that record's secret, which is empty too. A key in a record, empty or not, passes also when its
  user is disabled, where `docs/PLAN-security-audit.md:119` expects "Reject". The arms of `Stood` for keys in records say so.
- **Version `null` in listings.** Written anew between two pages while it is the marker, it makes the next page list again
  what was listed.

What the models keep as the code has it, and a reader of the properties should know:

- **Pages.** A page of one row with a delimiter begins the next at the same common prefix: the walk does not end. A
  common prefix, or a version without id, that ends a page is listed again on the next. `start-after` is
  accepted and not used; a marker before the prefix gives an empty page. `ListMultipartUploads` ignores markers,
  filters by no prefix and passes over keys with a colon. An archive ends without an error at an object
  that is gone by then.
- **Lifecycle.** The loop over uploads never ends while a page full of uploads stays. A key overwritten
  between listing and deletion is safe as long as its version had an id.
- **Access.** Service accounts and sessions outlive a deleted user and belong to the next one of that name.
  A bucket's policy outlives the bucket. The owner of a bucket passes before any deny is read. A login by key and secret skips the check of `Disabled`. Documents attached to users need
  a principal, or they match nobody. Users made in the console have no password hash.
- **RateLimit.** Tokens taken from an outer limiter stay spent when an inner one refuses.
- **BucketConfig.** Rows outlive their bucket. Forms, the console and the lifecycle worker raise no
  event; deleting what is not there raises one.

## 5. What is proved

`VersionIndex_proofs` proves, for any sets of buckets, keys, uuids and payloads and any bound
on the clock:

- `IndexInvariant`: `Spec => []IndexInv`. The invariant joins `TypeOK`, `HeadIsStored`,
  `NoHiddenVersions`, `GoneBucketsHoldNothing` and `HeadsAreCopyable` (every head is marked latest
  or has no id). None but the first is inductive alone: a write replaces the head's own record in
  `versions:` and must then replace the head too, which needs `HeadsAreCopyable`; a
  bucket deletion looks at heads only, so that no versions remain needs `NoHiddenVersions`.
- `TypeCorrect`, `HeadAlwaysStored`, `NoVersionsHidden`, `NoGhostVersions`: its parts, as invariants of
  `Spec`.
- `SerialHeadIsNewest`, `SerialHeadMoves`: the invariant and the action property of `SerialSpec`,
  from `IndexInv` and the bound of stamps by the clock.
- `IndexImplementsStore`: `Spec` implements `VersionedStore`; each transaction maps to a step of
  the store or to a stutter.

`ObjectBackend_proofs` proves, for any number of requests at a time, whichever operations
the clients use, with crashes and failing writes:

- `BackendTypeCorrect`: `BackendSpec => []BackendTypeOK`.
- `BackendImplementsIndex`: `BackendSpec => ImplementsIndex`. `ImplementsIndex` is the `Spec` of
  `VersionIndex`: every step of a handler is one of its transactions or leaves the tables alone.
  What has to be shown is that handlers pass only records that become heads, with stamps of the
  past. The invariant `BackendInv` therefore joins `IndexInv`, the types and `WritersBecomeHeads`.
  `IndexInv` is needed because a copy writes the record of a head, which
  `HeadsAreCopyable` says becomes a head again. Each action is shown to be a step of the index
  first; that the step keeps `IndexInv` is then the lemma `StepPreserves` of `VersionIndex_proofs`.
- `BackendHeadAlwaysStored`: what is proved of `Spec` holds of the handlers.

And for clients that use neither COPY nor the backend's bucket deletion (`NoSharing`; section 4 says why):

- `VersionFilesIntact`: `BackendSpec => []VersionIntact`. The invariant `FilesInv` says who may
  touch the file of a version. Until its record is committed, an id is known to its writer only
  (`SoleWriter`); a writer about to commit has the file in place (`FilePlaced`); a remover about to
  unlink has taken the record away, and it stays away (`RecordRemoved`), because nobody writes an
  id twice; an id in use has been issued or made up (`UsedAreKnown`), so a new one is in use nowhere, and a made-up
  one is in no record (`MadeUpIsNone`). `Placed` is what all of it is said with: the file holds the recorded content or, if
  another name leads to it, nothing. `PathAssumption` is where cleaning of names comes in: it never makes a writer of
  one version write the file of another.
- `VersionReadsWhole`: `BackendSpec => []VersionReadsMatch`, for every version and whatever names there are, with `FileAwaited`:
  between the two steps of a GET the file can disappear but not change.

`SoleWriter` rests on the guard of `BeginDeleteVersion`: a client can name an issued version id only
after an answer or a listing has shown it, since ids are random.

The actions fall into three shapes, each with a lemma of its own: a step that concerns one request
only (`RequestStep`), one that changes a file (`FileStep`), one that changes the records of a key
(`VersionStep`).

And for one request at a time (`OneAtATime`: a single slot), with any number of buckets, keys and ids:

- `BackendIsSerial`: `BackendSpec => SerialSpec`, for all operations, with crashes and failing writes. The clock
  does not move between the start of a write and its transaction (`StampIsNow`), so the stamp that `BackendImplementsIndex` can
  only place in the past is the present. `BackendHeadIsNewest` and `BackendHeadMoves` follow. With two requests, the one that reads its
  time first may commit last, and neither holds.
- `SerialHeldStays`: `BackendSpec => HeldStays`, for all operations but COPY and turning versioning off (`StatusHolds`;
  section 4 shows both to be needed), with crashes and failing writes. A held version with an id of its own stays as it is, which
  takes that nobody writes under an id that is recorded (`IdsIssued`: a recorded id has been issued, and a new one has not); one without
  is replaced by later writes only (`Keeps`). DELETE of a whole key looks at the lock of the head only. It removes
  no more than the head, because it happens in buckets without versioning only, where a key has one version that
  is marked by no id (`PlainUntilVersioned`), and a version id has one record (`OneRecordEach`). `LockAware` carries what the lock
  check read to the transaction after it.
- `SerialReadsMatch` and `SerialHeadOpens`: `ReadsMatch` and `HeadOpens`, of all versions whose file no other name leads to. The assumption `OneNullAtATime`
  excludes what breaks them: a crash between rename and commit, which leaves the old record with the new file, or a failing commit, which
  removes the file that it had replaced; and, as section 4 says, `DELETE ?versionId=null` and suspension next to what makes versions without an id in
  other ways (forms, COPY, versioning turned off). `OpenInv` says that each record agrees with its file
  (`RecordsMatch`), save where the write under way has renamed its file and not yet committed (`Rewrites`), and save a version without id
  that a version `null` has taken the file of (`Superseded`). Such a version is older (`NullIsNewer`), so it is never the head, which is the newest
  (`HeadIsNewest`): what GET finds is not superseded. A write without id happens only where no version `null` is
  (`PlainUntilVersioned` again), and `Sound` says what each step of a request may count on.

`Multipart_proofs` proves, for any uploads, parts, attempts and number of requests at a time, with
restarts and broken transfers:

- `MultipartTypeCorrect`: `Spec => []TypeOK`.
- `MultipartLosesNothing`: `Spec => []NothingLost`, from `DropCommitted`: a completion that is about to
  drop its upload has committed the object.
- `MultipartLeavesNothing`: `Spec => []NoOrphanParts`. A part file or temporary file of an upload that
  is gone belongs to a request that has yet to remove it: `FilesOwned` for parts, `TmpSent` for
  temporary files.
- `MultipartCompletesWhole` and `MultipartPartsReadable`: `CompletedWhole` and `PartsReadable`, with the assumption
  `~Retries`. Then a part has one sender at a time (`OneSender`), the inode behind the temporary
  name is that sender's own (`OwnInode`, `TmpOwned`), what it has written is its own body (`Written`), so
  the files that records name are whole (`FilesWhole`) and so is what a completion has copied (`CopiesWhole`).
  A part that could not be recorded is `Kept` no longer until it is sent again, and an upload that was emptied is left out. Section 4
  shows the assumption to be needed for `CompletedWhole`.

`Replication_proofs` proves, for any number of keys, requests, workers and targets:

- `ReplicationTypeCorrect`: `Spec => []TypeOK`.
- `ReplicationLosesForCause`: `Spec => []NothingLostInPeace`. The property says nothing of workers, so
  the invariant `PeaceInv` does. An event is current when no later event of its key exists and nothing is
  untold. `SourceStands`: the source holds exactly what a current put describes, its length included (a put of another
  length is untold), so reading it succeeds and the body fits. `BodyCurrent`: a worker about to send a current put has read that object.
  `FailedForCause`: hence every failed try at a current event is a failed call, and giving
  up takes three of them. `FlyingNumbered` and `TodoNumbered` keep the numbers of events
  apart: a change that is committed makes every event before it outdated.
  A step either makes no change at the source and only moves or drops events (`Shrinks`), or outdates
  the events of one key (`Outdates`); each shape has its lemmas.
- `ReplicationConverges`: `Spec => []QuietConverged`. The property speaks of rest only; `ConvergingInv` says at every
  moment what a target still lacks. The events of a key that has not raced stand in line: at a worker,
  in the queue or with the request that is about to hand one over, older before newer, and one at a time among workers
  (`AllInLine`). The newest of a key is that of its last change (`LateKeys`), unless it was not told or was lost.
  So each target has the object or an event that carries it is on its way (`AllArrive`): at a worker that has this target yet
  to do, or behind it in the line. `DeletesStand` is needed next to `SourceStands` of `PeaceInv`: while a current delete is on
  its way, the source holds nothing. At rest no event is on its way.

`Listing_proofs` proves, for any keys, folders, tables, page sizes, numbers of versions and parts, and any bound on
the changes between pages:

- `ListingTypeCorrect`, `StayersAreListed`, `NothingListedTwice`: `TypeOK`, `StayersListed` and `NoRepeats`. None is
  inductive, as each says nothing of what lies ahead. `ListingInv` says where the walk stands. What stays has been
  listed, is on the page that the archive works on, or is ahead of the markers (`StayersKept`); what was listed is
  behind them (`ListedBehind`). For versions, ahead and behind go by the time of the marker's version, and that
  version is not written again, since ids are random (`TableOK`), unless it is `null`: then its key is `renewed`, and nothing is
  said of what the next page shows of it. What a page shows and what it leaves is a lemma for
  each of the reads (`ObjectsPage`, `VersionsPage`, `PartsPage`), on one about the first rows of any finite table
  (`PageFacts`): they are all there is, or all up to a last row, whose key and id are the markers.

`Lifecycle_proofs` proves, for any buckets, keys, uuids, uploads, page sizes and configurations:

- `LifecycleTypeCorrect`: `LifecycleSpec => []LifecycleTypeOK`.
- `FreshVersionsStay`: `LifecycleSpec => FreshStays`, with the assumption `AlwaysVersioned` (buckets are created with
  versioning on, which is then only suspended and resumed); section 4 shows the assumption to be needed. The
  steps of clients and worker are those of `SerialSpec` of `VersionIndex`, next to a clock that goes on, so its
  invariants hold. `RowsStand` is the heart: a version with an id of its own that the worker has on its list is
  still the one it listed, because an id is given out once (`IssuedOK`) and belongs to one version
  (`IdsDiffer`); its time was before the cutoff, and the clock only takes the cutoff further away. Since every version
  has an id (`AllHaveIds`), the worker deletes by id; a current object that is younger is in what is left and
  is the newest of it (`HeadIsNewest`, `StampsDiffer`), hence stays current.

`Middleware_proofs` proves of RateLimit, for any number of clients and requests and any rates and bursts:

- `LimiterTypeCorrect`: `LimiterSpec => []LimiterTypeOK`.
- `GrantsBounded`: `LimiterSpec => []WindowBounded`. The invariant `WithinPace` says more than the property:
  the grants since the instant, and what the limiter could still grant now, together keep to the burst and the
  pace. It is what a grant leaves alone and a tick adds to. The cleanup is the step that could break it, as it makes a
  limiter full again; `SinceMet` says how long its client has been quiet, which by `PaceAssumption` pays
  for the burst.

and of BucketConfig, for any buckets, domains, keys and configurations and any number of visitors and writers:

- `AnswersAreJustified`: `Spec => []AnswersJustified`. The property speaks of visits that are done; the invariant
  `VisitsFindOut` says of each step before what the visit has found out (`FoundOut`): which bucket it is sent to, what the rules
  of that bucket allowed, that the key was looked for in vain, that there was no index page either. All of it is said
  by `seen`, what has held at some instant since the visit began, to which every step adds what holds now
  (`Facts`). So no step of anybody else can take it away (`UnderwayGrows`), and a step of the visit itself adds the one
  row or object it reads, which is a fact when it is read (`Sees`; a lemma for each step, `GetIndexProceeds` for
  example). That the index page was missed before the error page is looked for is in the invariant for the row
  that was read at `site`: a website that is configured anew in between changes nothing.

`Access_proofs` proves, for any users, keys, sessions, policies and documents and any number of requests at a time,
the four properties of Access: `AccessTypeCorrect`, `NobodyPassesOnWithdrawnCredentials`
(`CredentialsStood`), `TablesChangeWithAuthority` (`AuthorityHeld`) and `DecisionsAreJustified`
(`DecisionsJustified`). Every step of a request has one of few shapes: it arrives (`Comes`), reads its
credential (`Identifies`, of the user that the request asks to be), weighs a policy (`Judges`) or changes a table (`Operates`). The first two bullets below are the invariant
`AccessInv`; on it rest, one after the other, the invariants of the others:

- the types, and `Stage`: what the step a request is at says of its local variables;
- `GivenOnce`: an id is handed out once, and the account of a key belongs to the user it was given to.
  Between the check of ownership and the deletion of an account, the account can therefore not change hands;
- `Witnessed`: what the tables say now is in the request's record of what they have said since it came. A read adds
  nothing that is not there, so what a request has read was true in between (`Shown`), which is
  `CredentialsStood`; a request about to change a table has its authority from such reads
  (`Authorized`), which is `AuthorityHeld`;
- `Weighs`: what the policies read so far said of the request, and which are yet to be read, from which
  `DecisionsJustified` follows when none is left.

Assumptions: `ClockAssumption` (the bound is a natural number), `UuidAssumption` (no uuid is the
empty string or `null`), `NoneAssumption` (the marker for "no record" is not a record, id or
status), `BodyAssumption` (the payload of a record is a content, the marker flag and the hold
flag, and "no file" is not a content), `PathAssumption` (made-up ids are none that the server makes, and files of different
versions differ unless an id is made up, as a cleaned name ends in the version id); for Multipart, `AttemptsAssumption` and its `NoneAssumption`; for Replication,
`TargetsAssumption`, `QueueAssumption`,
`SizesAssumption`, `BoundsAssumption` (natural numbers, at least one target and one place in the
queue) and its `NoneAssumption`; for Listing, `FolderAssumption` (byte order: a common prefix sorts before what is below it, which
sorts together), `PageAssumption` and `TablesAssumption` (`null` is neither the empty id nor a random one, a table at the start is finite, and no two
records of a key have the same id or time); for RateLimit, `SetsAssumption` (the three maps are apart),
`NumbersAssumption` and `PaceAssumption`; for BucketConfig, `PathsAssumption` (a path is a sequence of pieces); for Access, `NamesAssumption` (no user is called `anonymous`, which the
code does not refuse, nor the empty name; no account has the empty key; policy names differ from the marks of the bucket's policy),
`RecordKeysAssumption` (which keys, the empty one included, records may hold), `InputsAssumption` and
`DatabasesAssumption` (types of what requests carry and of the tables found at start; the account of the configured key, if
any, is root's), `RootAssumption`, `AbsentAssumption` and `BoundAssumption`; for Lifecycle, `PayloadAssumption` and
`RequestsAssumption` (what clients send is well typed).

Every invariant and action property that a run finds to hold is proved, under the assumptions
above and, for ObjectBackend, those named with each theorem. Only model-checked: liveness
(`Settles`, `ListingEnds`, `WorkerReturns`, `ExpiredGo`, `HooksCalled`), which is out of the prover's reach.

## 6. Plan

Done so far, in the order it was planned: the index and the backend, multipart uploads, replication, listings,
the lifecycle worker, access, the limiters, configurations. Next:

1. The console's rename in ObjectBackend, as a copy and a deletion of one request.
2. The chunked reader and ranges as operators over a stream of pieces.

## 7. Not modelled

- **Chunked request bodies** (`chunk.go`): a reader of one request's bytes, without shared state.
- **Cryptography and formats**: signature text, password hashing, token encoding; whether one fits is a choice.
- **Ranges and conditional headers** of GET and PUT: which bytes of a file are sent, after the steps
  modelled.
- **Renaming in the console** (`admin.go:384`): its copy and its deletion are operations of ObjectBackend, their
  sequence is not.
- **Quotas, metrics, statistics and the audit log**: counters and rows that no decision modelled reads.
- **Server start and shutdown, backup and verify**: what start does to uploads, users, keys and tokens is in
  Multipart and Access; backup is one read transaction, verify a command on a server at rest.
- **The client library** beyond its listing loops and its replication calls, **the command line** and
  **the console page**: clients, whose requests the models let come in any order.
- **Webhook delivery** beyond the order of calls: each is tried once and its failure is logged.
- **OPTIONS, virtual hosts of the base domain, POST and PUT on websites**: these read no more rows than
  the visits modelled.
