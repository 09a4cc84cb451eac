# A TLA+ verification of procon-proj

`procon-proj` is an iOS application for reading practice in English. A user photographs
or picks a text, has it recognised, and saves picture and text as a *document*, on the
device or shared on line; documents are listed and lead to a scene of questions.
`python/` holds an unrelated training script of a text classifier. This directory models
the application's own logic in TLA+, and the part of the vendored Firestore client that
its on-line half rests on; it checks them with TLC on small instances and proves their
safety properties with TLAPS.

Paths below are relative to `procon-proj/procon-proj/`; those of the Firestore client to
`procon-proj/Pods/FirebaseFirestore/Firestore/core/src/`.

## 1. Inventory

| Component | State | Operations | Talks to |
|---|---|---|---|
| Local document storage, `AppUtils/DocumentDataOperator.swift` | the `UserDefaults` domain (list of identifiers under `DATA_UID_KEY`, one archive per identifier), picture files | `addUid`, `getUidArray`, `saveImage`, `saveDocumentInfo`, `saveDocumentData`, `loadDocumentInfo`, `loadImageFromPath`; `removeUid`, `removeImage`, `removeDocumentInfo` have no caller | called by the save sheet and the local list |
| Local list, `Scene/DocumentListVC.swift` | none of its own; the table view caches row count and cells | data source and delegate callbacks, pull to refresh, confirmation alert | storage; question scene |
| Online list, `Scene/DocumentOnlineListVC.swift` | `userInfos`, `dataArray`; cached rows and cells; two blocks on a serial queue | `updateList`, two query callbacks, `notify`, table callbacks, alert | Firestore collections `userInfos` and `documents`; question scene |
| Accounts, `Scene/AuthenticationVC.swift` | Firebase's current user; an entry per account in `userInfos` | `singUp` (three nested callbacks), `signIn`, `signOut` | Firebase Auth, Firestore |
| Save sheet, `Scene/DocumentSaveSceneVC.swift` | fields, two switches, keyboard observers | `saveButtonTapped`, the alert's ok, `saveData2Local`, `saveData2Online`, `moveAuthScene`, keyboard and appearance callbacks | storage, Firestore, Accounts |
| Document making, `Scene/DocumentMakeSceneVC.swift` | picture, recognised text | pick, extract, recognition callback, open the save sheet | ML Kit, `OpenCVUtils`, save sheet |
| Question scene, tabs, `Scene/QuestionSceneVC.swift`, `Scene/TabController.swift` | stack of presented scenes, hidden answers | `backScene`, `switchAnswerLabel` | presents a *new* `TabController` |
| Binarisation, `AppUtils/image_process.swift` | none | `image2Binary`, `createBinarizedImage` | no caller today |
| Training, `../../python/bert.py` | network, sums of loss and hits | `train_model` | PyTorch |
| Firestore client, write path, `core/sync_engine.cc`, `local/local_store.cc`, `local/leveldb_mutation_queue.cc`, `remote/remote_store.cc`, `remote/write_stream.cc`, `remote/stream.cc` | a queue of mutation batches per account in LevelDB, `next_batch_id_`, callbacks, the write pipeline, a stream with handshake and idle timer | `WriteMutations`, the stream's open, handshake, result, error and close, `HandleCredentialChange`, the start of the client | called by the save sheet and by Accounts (`setData`); the server |
| Firestore client, queries, `api/query_core.cc`, `core/event_manager.cc`, `core/query_listener.cc`, `remote/online_state_tracker.cc`, `remote/remote_store.cc` | listeners per query, views in sync, the watch stream, the online state with its timer and its count of failures | `GetDocuments`, adding and removing a listener, snapshots and target errors, the stream's open and close, three timers | called by the online list (`getDocuments`); the server |
| Firebase credentials, `auth/firebase_credentials_provider_apple.mm`, `../../Pods/FirebaseAuth/FirebaseAuth/Sources/Auth/FIRAuth.m` | FIRAuth's current user, the provider's user and token counter, a close count per stream | sign-in and sign-out, `GetToken` and its answer, the notification, the change listener | FIRAuth's queue, the main queue, the worker queue of the client |
| The rest | none that matters | templates, samples, image gestures, the other Pods and `opencv2.framework` | |

What is hard, and what makes each part correct:

- **Storage.** A save is three calls. The process can end between any two;
  `UserDefaults` reaches the disk later than the program's reads show, pictures at once;
  a picture may fail to be written; the list is rebuilt through an unordered `Set`.
  Correct means: a saved document appears whole, is never altered or lost once durable,
  is listed once, and no identifier is listed without its archive unless a termination
  cut its save.
- **Local list.** Table view and list of identifiers are two copies that part at a save.
  Correct means: no row out of range, a tap opens the document it shows, a fresh table
  shows everything.
- **Online list.** A refresh runs beside the user, on two threads, with two queries at
  two times against collections that others write, with failures and off-line answers.
  Correct means: a refresh ends and shows what there was; the table can be used
  meanwhile; an owner is known for each document.
- **Accounts and save sheet.** Weak references drop callbacks, checks are far from what
  they guard, the current user may be another one by then.
- **Document making.** Recognitions answer in any order, and picture and text are saved
  together.
- **Firestore's writes.** A request carries no id, so an answer is matched to its batch
  by position alone, across refills, refusals, reconnections and changes of account;
  batch ids come back after a reload; a batch is removed and its callback run in two
  steps that a termination can part; a failed send can overtake an answer. Correct
  means: a write stays until the server has decided it, the server gets an account's
  writes in order, each callback runs once and for its own write.
- **Firestore's queries.** A query is answered by the server, or from the cache when the
  client believes itself off line, which a timer and a counter decide beside a stream
  that comes and goes for all queries together. Correct means: every call is answered,
  once, and no assertion of the tracker fails.
- **Credentials.** A token is asked for on one queue, fetched on a second, checked on a
  third and used on the first, while the account changes. Correct means: nothing of one
  account is sent in the name of another.

`PROJECT.json` lists the hazards at their lines with the properties that address them;
those without one carry a note saying why.

## 2. Modules

| Module | What it is |
|---|---|
| `DocumentLibrary` | abstract: a library to which a document is added in one step, made durable now and then, and which falls back to its durable part |
| `DocumentStore` | storage and `saveData2Local`, with terminations and the delay of `UserDefaults`; implements `DocumentLibrary` |
| `DocumentList` | `DocumentListVC` composed with `DocumentStore` |
| `SharedCollections` | abstract: the two Firestore collections, as one installation may see the others change them |
| `OnlineList` | `DocumentOnlineListVC` and the collections it reads, whose environment is `SharedCollections` |
| `Accounts` | `AuthenticationVC` and the on-line half of the save sheet, on every installation; implements `SharedCollections` |
| `DurableWrites` | abstract: what `setData` promises, whatever becomes of network, account and process |
| `WritePipeline` | the write path of the Firestore client and the server at its other end; implements `DurableWrites` |
| `StreamCredentials` | the token a stream is opened with, over three queues |
| `GetDocuments` | `getDocuments` as the online list calls it, over three threads |
| `MCOnlineList`, `MCAccounts`, `MCGetDocuments` | small instances (their constant functions `Owner`, `At`, `QueryOf`, `Follows`; symmetry) |
| `...Proofs` | theorems and proofs about the module they are named after |

### DocumentStore

| Model | Code |
|---|---|
| `userDefaults` | what `UserDefaults.standard` answers: `uidArray` (no value and `[]` are one, as `getUidArray` reads them), `docInfo[u]` the archive under `u` |
| `persisted` | the same domain on disk |
| `files` | picture per identifier |
| `save` | where `saveData2Local` is: `saveImage` or `saveDocumentInfo` comes next |
| `issued`, `cut` | history, no code reads them: identifiers that `NSUUID` gave, and those whose archive was not on disk at a termination |
| `SaveData2Local` | `saveData2Local` to the end of `addUid`; `AddUid` is `Array(Set(...))`, any order |
| `SaveImage`, `SaveImageFails` | `saveImage`; either way `saveDocumentData` goes on |
| `SaveDocumentInfo` | archive under the identifier, end of the handler |
| `Flush` | `UserDefaults` writes the whole domain, at a time of its own |
| `Restart` | the process ends and is launched again |

A save runs on the main thread without a break, so no other handler acts while `save #
NoSave`; only `Flush` and `Restart` do. The force unwrap of `jpegData` and the
`fatalError` of archiving end the process and are `Restart`. A save sheet always shows a
picture (`noimage` stands in), so the branch for a nil picture is not reached today; the
module keeps it, and the parameter `Shown` decides. Identifiers are never reused, which
is what a UUID is for.

### DocumentList

`rows` and `cells` are what the table view caches, `alert` the confirmation (the
document the cell showed, and the one read at the tap), `trap` the assertion that
stopped the program. `stale` is history: a save began since the rows were counted.
Callbacks need the main thread (`save = NoSave`) and no alert in front. `Ok` leads to
the question scene, whose way back presents a new `TabController` and so a new table
(`NewTable`). `Relaunch` is `Restart` plus a new table.

### OnlineList

One instance of the list. `phase` says what the serial queue waits for: the accounts,
the documents, `notify`, or `stuck` for a block that spins for ever (its callback got an
error, or it never sees the flag, a plain variable two threads share). `UsersRead` and
`DocumentsRead` are the two callbacks with an answer, `QueryFails` either with an error.
An answer is the server's state or, off line, one that lies between the last answer to
that query and the server's state, as this installation's own writes are in its cache.
The pull (`UpdateList`) empties both collections at once and leaves `rows` and `cells`;
`Notify` reloads. A `UIRefreshControl` that is refreshing fires no second time, hence
`phase = "idle"`. `atPull` is history: what was on the server at the pull, or in the
cache for a query answered off line, less the entries that became unreadable while the
first query was out. The environment is `SharedCollections`: `SignIn` creates an
account, or writes its entry with a name (readable) or without one (the list passes over
it); `Upload` asks only for an account that exists. That other installations do no more
is what `Accounts` is shown to implement.

### Accounts

| Model | Code |
|---|---|
| `created`, `named`, `mailed`, `verified` | Firebase's accounts: those that exist, have a `displayName`, were sent the message, followed its link |
| `registered`, `uploaded` | the collections `userInfos` (readable entries) and `documents` |
| `At` | the installation a chain runs on; `current`, `screen` and `asked` are each installation's own |
| `current` | `Auth.auth().currentUser`: an object that remembers name and verification as they were when it was made; `from` tells the object a sign-up holds from one that a later sign-in made |
| `calls` | the request of each chain under way; a chain is one tap on sign up or sign in |
| `stage` | *sent* (Firebase has yet to handle it), *answered* (handled, the current user not changed yet), *returned* (the callback is queued for the main thread) |
| `sheet` | whether `[weak self]` still finds the sheet |
| `SingUp`, `SignIn`, `SignOut` | the buttons |
| `Serve`, `Return` | Firebase handles a request, then makes its user the current one; a request or its answer may be lost |
| `ChainGoesOn`, `ChainCompletes`, `ChainBreaks` | a callback runs: next request, `saveLoginUserInfo2Database`, or nothing |
| `MoveAuthScene`, `Dismiss` | the sheet is presented, swiped away |
| `SaveButtonTapped`, `Cancel`, `SaveData2Online` | the checks and the alert, its two buttons |
| `Relaunch` | the process ends and starts; Firebase keeps the current user |
| `asked`, `switched`, `missed` | history: the account the alert was shown for; documents shared from another one; accounts of which a sign-in was cut off from writing its entry, or wrote one without a name |

Taken as given: a Firestore write takes effect when it is made (off line it waits in the
cache of the installation); a first upload counts as one document, the same text saved
twice being two; the alerts over the sign-in sheet do not hold anything up, since
callbacks run under them. The experimental scene `zikkenVC` presents the same sheet and
adds nothing. There are as many installations as `Installation` has elements, and any
account may be used from any of them, from two at a time as well. The refinement says
that all of them together change the collections only in the steps of
`SharedCollections`, one at a time, which is what `OnlineList` takes its environment to
do. A write that one installation holds back off line while another one writes the entry
of the same account is not told apart from one made later; to the online list it is a
`SignIn` or an `Upload` all the same, and those may come at any time.

The assertions are those of a debug build, as the code is written: a release build has
none, and reads past the end of the array, which stops it as well.

### WritePipeline

| Model | Code |
|---|---|
| `queue`, `nextBatchId` | the mutation queues in LevelDB and `next_batch_id_` of the one in use; all that outlives the process |
| `user`, `callbacks` | `SyncEngine`'s `current_user_` and `mutation_callbacks_`, kept by user and batch id |
| `pipeline` | `write_pipeline_`, at most `kMaxPendingWrites` batches |
| `stream`, `handshake`, `idle` | the write stream's `state_`, how far the handshake is, whether the idle timer is scheduled |
| `requests`, `responses`, `overtaken` | what is under way on the stream, in either direction; whether a failed send got before the answers still to be read |
| `applied`, `refused`, `told` | what the server did; history: what each completion handler was called with |
| `WriteMutations` | `SyncEngine::WriteMutations` down to `StartWriteStream` or `WriteMutations` of the stream |
| `Open`, `HandshakeComplete` | `OnWriteStreamOpen`, `OnWriteStreamHandshakeComplete` |
| `MutationResult` | `OnWriteStreamMutationResult`: callback, removal, refill, mark idle |
| `WriteError`, `StreamError` | `OnWriteStreamClose` with a permanent error after the handshake, or with any other one |
| `BackoffElapsed`, `IdleStop` | the two timers |
| `CredentialChange` | `HandleCredentialChange`, another account or the same |
| `Restart`, `RestartAfterCallback`, `RestartBeforeCallback` | the process ends between tasks or inside one, and `Initialize` of the next |
| `ServerHandshake`, `Apply`, `Refuse` | the server, in the order of the stream |

The client runs on one serial worker queue, so each task of it is one action with every
call it makes. `UpTo` is where LevelDB's iterator seeks to; `LoadNextBatchId` is one
more than any id still queued, so an id that was removed can come back. When the server
has ended the stream, a request still to be sent fails, and that failure can get onto
the worker queue before answers that are still to be read; `overtaken` is that case,
and all of them are then dropped. It is why a write the server applied can be reported as
failed: the next one's refusal is taken for it. `DurableWrites` therefore promises no
error only of an applied write, not an error only of a refused one. `Accounts` lets a
write take effect when it is made; this module is what stands behind that: the write is
queued, survives, and is decided in order.

### StreamCredentials

`authQueue` and `fetching` are calls of `getTokenForcingRefresh` before and after the
block in which FIRAuth takes its user; `mainQueue` carries notices and answers,
`workerQueue` changes of user and tokens. `Notified` and `CallListener` are the two
halves of the observer, which holds the lock between them; `GetToken` reads the counter
from the worker queue without the lock, which is why they are two steps.
`GetTokenCallback` compares the counter and asks again, `CredentialsArrive` compares the
close count and drops the answer. `HandleCredentialChange`, `StartStream`,
`BackoffElapsed` and `StreamCloses` are what the stream does meanwhile; whether the
client needs the stream is left open. `WritePipeline` and `GetDocuments` take for
granted what this module shows: a stream that opens was started for the current user.

### GetDocuments

| Model | Code |
|---|---|
| `asked`, `resolved`, `muted`, `told` | calls made; `ListenerRegistration` handed to `ListenOnce`; `AsyncEventListener` muted; history: what each callback was called with |
| `listeners`, `raised`, `synced` | `queries_` of `EventManager`, `raised_initial_event_`, views in sync with the server |
| `stream`, `idle` | the watch stream and its idle timer |
| `onlineState`, `failing`, `timer` | `OnlineStateTracker`; `failing` is a count of failures of which one is the maximum |
| `workerQueue`, `mainQueue` | listeners to add and to remove; events for the callbacks |
| `GetDocuments`, `Resolve` | the calling thread: `AddSnapshotListener`, then the registration |
| `AddQueryListener`, `RemoveQueryListener` | down to `RemoteStore::Listen` and `StopListening` |
| `OnWatchStreamOpen`, `OnWatchStreamClose`, `Message`, `Synced`, `ProcessTargetError` | the watch stream's callbacks |
| `OnlineStateTimeout`, `BackoffElapsed`, `IdleStop` | the three timers |
| `LocalWrite`, `HandleCredentialChange` | what else changes a view or the stream |
| `RunBlock` | the main queue: a muted listener drops the event, `ListenOnce` waits for its registration, removes itself, calls back |

What the server sends is taken at the level of a query's first consistent snapshot
(`Synced`), a target's error, or a message that completes nothing. `OnlineList` takes
for granted that each query is called back, once, by the server or from the cache;
`Answered` and `CalledBackOnce` are the reasons.

## 3. Runs

| Run | Instance | Shows |
|---|---|---|
| `local_store` | 3 identifiers, 2 texts, 1 picture or none | the eight properties of the store, refinement and liveness included |
| `document_list` | 3 identifiers, 1 text, 1 picture | the five invariants of the list |
| `list_assert` | as above | violation: the assertion that a listed archive loads |
| `online_list` | 2 accounts, 3 documents, two of them of one account | four invariants, and that a refresh ends |
| `online_list_assert` | as above | violation: the assertion that a row is in `dataArray` |
| `accounts` | 1 installation, 2 accounts, 1 document of one of them, 2 chains | three invariants, the refinement, and one action property |
| `accounts_verified` | as above | violation: only verified accounts share |
| `accounts_entry` | as above, but 2 installations with a chain each | violation: every owner has an entry |
| `write_pipeline` | 2 users, 4 writes, a pipeline of 3, 2 disturbances | five invariants, the refinement, that every step brings the end of a queued write nearer, and that writes are settled |
| `stream_credentials` | an account and nobody, 2 changes, 1 failure | three invariants, and that client and stream catch up |
| `get_documents` | 2 queries, 3 calls (one list reads both in turn, another the first), 1 disturbance | four invariants, and that every call is answered |
| `get_documents_timeout` | as above, an attempt to connect may hang | violation: the state *Unknown* ends |

Properties of `local_store`: `ImplementsLibrary` (a save is one step to a reader, cut or
not), `DurableDocumentsKept`, `NoDocumentTwice`, `ArchivedIsListed`, `TornOnlyWhenCut`
(a listed identifier lacks its archive only while it is saved or after a cut; a failed
picture is no cause), `TornForever`, `SaveIsKept`. Of `document_list`:
`IndexAssertHolds`, `TapOpensShown`, `FreshListShowsAll`, `NilOnlyWhenCut`, `CrashLoop`
(with a cut save on disk, a fresh table is never shown to its end). Of `online_list`:
`IndexTrapOnlyInRefresh`, `SettledTapOpensShown`, `RefreshShowsAll`,
`OwnerTrapExplained`, `RefreshEnds`. Of `accounts`: `ImplementsShared`;
`VerifiedIsNamed` (whoever passes for verified can only write a readable entry);
`SharedIsVerified` and `OwnerHasEntry` (what is shared belongs to a verified account
with an entry, up to the two exceptions the violations show: a user changed under the
alert, a sign-in that missed writing its entry); `CutOffForever` (an account whose
sign-up was cut before its message can never be verified: the address cannot be signed
up again and nothing else sends a message). Of `write_pipeline`: `PipelineIsQueuePrefix`
(the pipeline is the beginning of the current queue, as much as fits),
`ResultsMatchPipeline` (answers and requests under way are the pipeline, place by place,
so the answer without a batch that the code asserts against does not happen),
`IdleOnlyWhenUnneeded`, `CallbacksFollowTheirWrites` (no two batches share an id, though
ids come back), `AppliedInOrder`, `ImplementsDurableWrites`, `EveryWriteAdvances` (while
the current user has a write queued something is under way, and a step that is neither a
new write nor a disturbance removes a batch or is one of at most `StepsAhead` before
that), `EventuallySettled`. Of `stream_credentials`: `OpenAsCurrentUser`,
`ResumeIsExpected` (the assertion in `ResumeStartWithCredentials`), `NothingForgotten`
(the user the client has not caught up with, and the token of a stream that is starting,
are on their way in one of the queues), `CatchesUp`. Of `get_documents`: `AssertsHold`
(those of `OnlineStateTracker`, and that the client itself never stops a watch stream it
needs), `NobodyWaitsInVain`,
`CalledBackOnce`, `NotForgotten` (a call without an answer is still to be added, waits
as a listener, or has an event that will not be dropped), `Answered`.

A type invariant is checked of `local_store` only; the other modules' are proved (§5).

**Bounds.** No state constraint is used. In the modules of the application `Uid`,
`Info`, `Image`, `User` and `Doc` are finite, identifiers are used once, collections
only grow, so the state spaces are finite of themselves. The three of the Firestore
client have bounds in their guards, each a constant named `Max...` and counted by a
variable of its own. Three identifiers give one document that is durable, one that is in
memory only, and one being saved or cut, in all six orders of the list. Three documents
of two accounts give lists that grow, lists that are reordered, and an owner with
several documents or with none. Two accounts and two chains give two sign-ups, two
sign-ins or one of each in every interleaving, to one address or two; one document is
enough, since no property relates two. Two installations with a chain each have ten times
the states of one with two chains, which is why only the violation has them; nothing in
the collections or Firebase's accounts tells where a request comes from, and the theorems
hold for any number of installations. The chains are interchangeable (`SYMMETRY`; the
run checks no liveness; they are not where each has its own installation), the accounts are not, one of them owns the document. In
`write_pipeline`, four writes to a pipeline of three (ten in the code) give one that is
full with a write behind it, and two disturbances a change of account and back, a change
and a restart in the middle of a task, or two lost connections. With a pipeline of three
a failed send drops one unread answer; two at once need four places and five writes,
too many states beside two disturbances, and the theorems hold for any size of the
pipeline. In `stream_credentials`,
two changes give a sign-out and a sign-in while a token is on its way, and one failure a
stream that backs off or a token refused. In `get_documents`, one count of failures is
the maximum of the code (`kMaxWatchStreamFailures`); a snapshot or a local write raises
events only while the main queue is empty (`MaxBlocks`), which leaves the cases of a
second event for a call: one between callback and removal, and one before the callback,
which the fall to off line adds whatever is in that queue.

**Deadlock** is checked for the local runs (`Flush` and `Relaunch` are always possible).
It is off for the online list: a program stopped by an assertion, with every account
signed in and every document uploaded, is at its end. It is checked for `accounts`. It
is off for the client: one with no write, no query and no change of account to come
rests.

**Fairness.** `local_store`: a handler that has begun goes on (`WF(SaveStep)`, the main
thread runs it) and `UserDefaults` writes some time (`WF(Flush)`, what the class
documents). No save need begin, nothing need be restarted. `online_list`: Firestore
calls each query back, with a result or an error, and the main queue runs `notify`.
Nothing says that a query succeeds, or that the spinning block sees its flag, so
`RefreshEnds` ends in `idle`, in a stop, or in `stuck`. `write_pipeline`: what is under
way goes on (the worker queue runs its tasks, a backoff ends, the server answers); since
disturbances are bounded, they come to an end, and `EventuallySettled` asks for no more
than a user who stays. `stream_credentials`: queues run, a token is answered with or
without success. `get_documents` (`FairSpec`): threads, queues and timers run; a stream
that starts gets its token or an error; an attempt that was sent a request ends, by
gRPC's keepalive if need be; and a server that is heard again and again answers queries
at last (the one strong fairness, without which a stream may break after each first
message for ever). The violation drops the last three (`TimedSpec`): the comment it
quotes is about the case in which an attempt hangs, and the timer is what should end it.

**Mutants.** Operators named `Slip...` are wrong versions of the definition they precede
(an `addUid` that forgets the old list, a failed picture that ends the save, a reload
that keeps its cells, ...); each property fails under one of them.

## 4. What the violations say

1. *A cut save stops every later launch* (`ListedInfoLoads`,
   `Scene/DocumentListVC.swift:41`). `saveData2Local` lists the identifier first and
   archives the document last, after compressing and writing the picture. If the process
   ends in between and the list is on disk, `cellForRowAt` meets an identifier without
   an archive. Nothing removes it, so the list stops each time it gets there
   (`CrashLoop`, `TornForever`). Archiving before listing would leave an unlisted
   archive at worst.
2. *Scrolling or tapping during a refresh stops the program* (`RowInDataArray`,
   `Scene/DocumentOnlineListVC.swift:129`). `updateList` empties `dataArray` and the
   table keeps its rows. After a failed query the list stays so.
3. *An account that was not verified can share* (`OnlyVerifiedShare`,
   `Scene/DocumentSaveSceneVC.swift:245`), against the text at
   `Scene/AuthenticationVC.swift:159`. Verification is checked before the alert, and its
   ok asks only for some current user. A sign-up or sign-in that was under way when its
   sheet was dismissed changes the current user in between.
4. *A shared document may have an owner without entry* (`OwnersRegistered`,
   `Scene/DocumentOnlineListVC.swift:86`), at which the force unwrap stops every online
   list that reads it (`OwnerTrapExplained`). The entry is written by a callback that
   does nothing once the sheet is dismissed, while the sign-in itself counts. Writing
   the entry when sharing would mend it.
5. *A query can wait for ever in the state Unknown* (`UnknownEnds`,
   `remote/remote_store.cc:167`), against the comment at
   `remote/online_state_tracker.cc:45`. The timer is started with the stream only.
   `StopListening` with no query left and a stream not yet open reverts to *Unknown* and
   clears the timer, but leaves the stream; the next query finds it started and starts
   no timer. The online list does this: its query of the accounts, answered from the
   cache, is followed at once by that of the documents. With an attempt that hangs
   nothing answers the second one until the attempt fails.

## 5. Proofs

All theorems hold for every value of the constants; the assumptions are
`StoreAssumption` and `SaveAssumption` (the nil values are none of the real ones)
`OwnerAssumption` and `DocAssumption` (every document has an owner; documents are
finitely many), `AtAssumption` (a chain runs on some
installation), `SentinelAssumption` (`NoUser`, `NoCall` are no real values); for the
client `UserAssumption` (the user without an account is one of the users),
`NoTokenAssumption`, `PipelineAssumption` (the pipeline holds at least one batch),
`CallAssumption` (calls are finitely many, which only the order of a set of events
needs), `QueryAssumption` and `FollowsAssumption` (types), and `BoundAssumption` (the
bounds are natural numbers, any). TLC evaluates them in the passing runs.

- **Store.** Type correctness (`StoreType`) rests on a lemma that `AddUid` gives a
  sequence of identifiers with exactly the old ones and the new one, each once.
  `StoreInv` is inductive (`StoreInvariant`): `ArchivedIsListed` alone is not, since
  `Restart` brings back the disk and `SaveDocumentInfo` needs its identifier listed;
  hence `DiskIsBehind` (the disk never contradicts memory), `SaveUnderWay` (the
  identifier being saved is listed, unarchived, not cut), `OnlyIssued` and
  `IssuedAccounted` (an issued identifier is archived, being saved, or cut). From it
  follow `StoreNoDocumentTwice`, `StoreArchivedIsListed`, `StoreTornOnlyWhenCut`, the
  action property `StoreTornForever`, and the refinement `StoreImplementsLibrary`:
  `SaveDocumentInfo` maps to `Save`, `Flush` to `Persist`, `Restart` to `Lose`, the rest
  to stutters. `StoreDurableDocumentsKept` is obtained through it from `DurableStays`,
  proved of the abstract library.
- **Local list.** Every step of `DocumentList` is a step or a stutter of the store, so
  the store's invariants carry over. `ListInv` adds that rows never exceed the
  identifiers (the list does not shrink: no identifier is listed twice, so rebuilding it
  loses none), that cells show archived documents, and that an unstale table agrees with
  the list (`InStep`). From it: all five properties. The refinement and what it says of
  the disk carry over as well (`ListImplementsLibrary`, `ListKeepsDisk`): the table, its
  taps and its alert are steps the library does not see.
- **Online list.** `OnlineInv` adds `AnswersBounded` (answers never hold more than the
  server, the accounts read include those due, a refresh appends to an empty array) and
  `Settled` (idle means the table agrees with `dataArray`).
- **Accounts.** `AccountsInv` holds the two properties about shared documents and what
  they need: `StepsInOrder` (verified, mailed, named, created are nested, since each
  request of a sign-up follows the success of the one before), `CallSound` (a request is
  of an account that is far enough for it, its answer is true, its sheet is in front,
  and a sign-in without a sheet was noted as missed), `CurrentSound`, `CurrentHasEntry`
  (a verified current user has an entry, missed it, or a callback that can still run
  will write it: the part that makes the invariant inductive) and `AskedMayShare` (when
  the alert appears no callback is pending any more, so the account it was shown for has
  its entry or missed it). `AccountsCutOffForever` needs type correctness only.
  `AccountsImplementsShared` maps a handled `createUser` and a chain that completes to
  `SignIn`, `SaveData2Online` to `Upload`, the rest to stutters; it needs the invariant,
  since the current user must exist. The theorems hold for any number of accounts,
  documents, chains and installations. Pending callbacks and the sheet are those of the
  installation; what a callback elsewhere may do to an account that this one relies on is
  no more than to write its entry, or to miss it, and `missed` only grows.
- **Write path.** `PipelineInv` has four parts, each proved to be kept by every action.
  `QueueInv`: the ids of a queue ascend, no two batches of any users share an id or a
  write, all ids are below `nextBatchId` (lemma `LoadedIsAbove`: also after it is loaded
  again). `PipeInv`: the pipeline is a full prefix of the current queue, place by place;
  it rests on `UpToPlace` (where the iterator seeks to in an ascending queue) and
  `Filled` (a refill of a prefix is a full prefix). `StreamInv`: answers followed by
  requests match the pipeline place by place, at most the last answer is a refusal, and
  the idle timer runs on an empty pipeline only; hence `HeadRemoved`: the batch removed
  is the head of the queue. `RecordInv`: the server is in order, and a callback is of a
  queued write that was told nothing. The refinement (`WritePipelineDurable`) maps
  `WriteMutations` to `Make`, `Apply` and `Refuse` to `Decide`, `MutationResult`,
  `WriteError` and the two restarts inside a task to `Settle`, the rest to stutters. It
  needs that the head of the pipeline was decided, which the invariant gives, and for
  `WriteError` that an error is allowed for an applied write. What the app may rely on is
  obtained through it, from steps of the abstract specification alone:
  `WritePipelineOutcomes` (a write is done with, or its handler run, only when the server
  decided it, and no error is said only of an applied one) and
  `WritePipelineNothingLost` (no handler's word is taken back, no pending write
  disappears). `WritePipelineAdvances` is the part of liveness that is safety. It needs
  one more invariant, `OpenInv` (an open stream has asked for its handshake, and a failure
  is ahead of an answer only where the server has ended the stream). With it `NeverStuck`:
  a queued write of the current user has the pipeline not empty, a pipeline that is not
  empty has a stream under way, and once the handshake is over its head is among the
  answers or the requests.
  `StepsAdvance` then goes through the actions with the measure `StepsAhead`.
- **Credentials.** `CredentialsInv` follows two chains. That of the user: the last
  notice on the main queue is of FIRAuth's user, the last change on the worker queue of
  the provider's (`ProviderFollows`, `ClientFollows`). That of the token: one with the
  provider's counter is of its user unless a notice is before it (`TokensOfProvider`),
  one with the stream's close count is of `SyncEngine`'s unless a change is before it
  (`TokensOfClient`), and an attempt to start has its token at one place only
  (`OneToken`), which is `ResumeIsExpected`. `CredentialsNothingForgotten` is the
  other half: it has it at one place at least (`AwaitedInv`), whichever of the queues
  moves, whether the token is handed on or dropped for a newer counter and asked for
  again; and a user the client has not caught up with is announced by the two chains of
  `CredentialsInv`.
- **Queries.** `GetDocumentsInv` joins four invariants, each inductive given the types:
  the types, `StreamInv` (the assertions, and a stream for whatever is listened to),
  `WaitingInv` (`NobodyWaitsInVain`) and `OnceInv`. `CalledBackOnce` needs the last: a
  call is added once (`AddedOnce`), its error is the last event it raises
  (`ErrorIsLast`), and one that was called back is muted or has no event left
  (`AnsweredIsOver`). `GetDocumentsNotForgotten` says where a call is that has no answer.
  Its invariant `KeptInv` adds that only calls that were made have raised an event, none
  of them before its listener was added, and that only answered calls are muted or taken
  away; lemma `EventForEach` (an event for each listener that hears, in whatever order)
  is what every broadcast and snapshot needs.

Only model-checked: `SaveIsKept`, `RefreshEnds`, `EventuallySettled`, `CatchesUp` and
`Answered`: liveness under fairness, and with it `ENABLED` and well-founded measures, is
out of the prover's reach. For three of them the part that is safety
is proved, and only the step that fairness takes is left to TLC: `EventuallySettled`
follows from `EveryWriteAdvances`, since the disturbances and writes end, the step that
is under way is taken, and `StepsAhead` is a natural number; `CatchesUp` from
`NothingForgotten`, since queues go on; `Answered` from `NotForgotten` and
`NobodyWaitsInVain`, since an event that will not be dropped is handed over and a
listener that waits does so with a stream under way. The violations are TLC's traces.

## 6. Not modelled

- *In the application.* Templates, samples, layout, gestures and logging have no state
  to go wrong. The recogniser and OpenCV are single calls. **Document making** has one
  picture and one text field: which text belongs to which picture is recorded nowhere,
  so there is no rule a late recognition could be held to. The **save sheet's** keyboard
  observers and appearance callbacks depend on orders of UIKit's notifications that the
  code does not state; the alert after an upload appears when `told` is set in
  `WritePipeline`. The **stack of scenes** only grows, and nothing depends on the scenes
  below. **Binarisation** has no caller. **Training** is a sequential script. The
  removing operations of `DocumentDataOperator` have no caller either; when one appears,
  `TornForever` and `IndexAssertHolds` must be looked at again.
- *In the write path.* Transactions, `Aborted` and an expired stream token (treated like
  other errors of the stream, with a token reset the pipeline does not see), a stream
  the server ends without an error, requests the server still handles after the client
  has closed the stream, and the local documents that views show before the server has
  answered.
- *In queries.* What is below a consistent snapshot: `WatchChangeAggregator`, existence
  filters, limbo resolution, the query engine and garbage collection. Nor, as in the
  write path, a server that ends the watch stream without an error: it would meet the
  assertion at `remote/remote_store.cc:216` while queries listen, so `AssertsHold` says of
  that assertion only that the client's own stops keep it. The server's answer to a
  request to stop listening to a target it has rejected is not known from this code, so
  `remote/remote_event.cc:155` is a hazard without a property.
- *In credentials.* How FIRAuth refreshes a token and keeps its user in the keychain.
- *Elsewhere.* gRPC, BoringSSL, leveldb, Protobuf, abseil, ML Kit, Vision, Tesseract and
  `opencv2.framework`: third-party code, reached only through the parts above or for one
  call. They are most of the lines of the repository, which is why the modelled share of
  them is small.
