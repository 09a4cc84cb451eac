-------------------------- MODULE StreamCredentials --------------------------
(***************************************************************************)
(* How a stream of the Firestore client comes by the token it is opened    *)
(* with, while the account changes.  Four parties take part, each with a   *)
(* queue of its own:                                                       *)
(*   - FIRAuth changes the current user and hands out tokens on its global *)
(*     work queue;                                                         *)
(*   - the main queue carries FIRAuth's notifications and answers;         *)
(*   - FirebaseCredentialsProvider runs on the main queue, with a lock,    *)
(*     but GetToken starts on the worker queue and without the lock;       *)
(*   - the worker queue carries the changes of the user and the tokens to  *)
(*     SyncEngine and to the stream.                                       *)
(* The streams behave alike here, so there is one.                         *)
(***************************************************************************)
EXTENDS Integers, Sequences, SequencesExt

CONSTANTS
    User,               \* accounts, and the user without one
    Unauthenticated,    \* the user without an account
    NoToken,            \* an error in place of a token
    MaxChanges,         \* bound: sign-ins, sign-outs and new tokens
    MaxFailures         \* bound: tokens refused, and streams that fail or idle

ASSUME UserAssumption == Unauthenticated \in User
ASSUME NoTokenAssumption == NoToken \notin User
ASSUME BoundAssumption == MaxChanges \in Nat /\ MaxFailures \in Nat

VARIABLES
    authUser,       \* FIRAuth._currentUser
    changes,        \* how often FIRAuth posted a change
    failures,       \* how often a token was refused or a stream ended
    authQueue,      \* calls of getTokenForcingRefresh: on FIRAuth's queue
    fetching,       \* calls for which FIRAuth has taken the user, not answered
    mainQueue,      \* blocks on the main queue
    currentUser,    \* current_user of the provider
    tokenCounter,   \* token_counter of the provider
    listening,      \* the provider has still to call its change listener
    workerQueue,    \* tasks on the worker queue
    syncUser,       \* current_user_ of SyncEngine
    stream,         \* state_ of the stream
    closeCount,     \* close_count_ of the stream
    openedAs        \* whose token the open stream was created with

auth == <<authUser, changes, fetching>>
provider == <<currentUser, tokenCounter, listening>>
client == <<syncUser, stream, closeCount, openedAs>>
vars == <<auth, provider, client, failures, authQueue, mainQueue, workerQueue>>

(* What a call of GetToken remembers: the counter, and the close count of  *)
(* the stream that made it.                                                *)
Calls == [counter : Nat, close : Nat]
Fetches == [owner : User, counter : Nat, close : Nat]
Notice(u) == [kind |-> "notice", user |-> u]
Answer(call, owner) ==
    [kind |-> "token", owner |-> owner, counter |-> call.counter, close |-> call.close]
Credential(u) == [kind |-> "credential", user |-> u]
Resume(owner, close) == [kind |-> "resume", owner |-> owner, close |-> close]

MainBlocks ==
    [kind : {"notice"}, user : User] \cup
    [kind : {"token"}, owner : User \cup {NoToken}, counter : Nat, close : Nat]
WorkerTasks ==
    [kind : {"credential"}, user : User] \cup
    [kind : {"resume"}, owner : User \cup {NoToken}, close : Nat]

TypeOK ==
    /\ authUser \in User
    /\ changes \in 0..MaxChanges
    /\ failures \in 0..MaxFailures
    /\ authQueue \in Seq(Calls)
    /\ fetching \subseteq Fetches
    /\ mainQueue \in Seq(MainBlocks)
    /\ currentUser \in User
    /\ tokenCounter \in Nat
    /\ listening \in BOOLEAN
    /\ workerQueue \in Seq(WorkerTasks)
    /\ syncUser \in User
    /\ stream \in {"Initial", "Starting", "Open", "Error", "Backoff"}
    /\ closeCount \in Nat
    /\ openedAs \in User

(* The client is created while FIRAuth may have a notification of the same *)
(* user on its way.                                                        *)
Init ==
    /\ authUser \in User
    /\ changes = 0 /\ failures = 0
    /\ authQueue = <<>> /\ fetching = {}
    /\ mainQueue \in {<<>>, <<Notice(authUser)>>}
    /\ currentUser = authUser
    /\ tokenCounter = 0
    /\ listening = FALSE
    /\ workerQueue = <<>>
    /\ syncUser = authUser
    /\ stream = "Initial"
    /\ closeCount = 0
    /\ openedAs = Unauthenticated

-----------------------------------------------------------------------------
(* FIRAuth. *)

(* Operators named Slip... are wrong versions of the definition each of    *)
(* them precedes; a property is worth checking if it notices one.          *)

(* possiblyPostAuthStateChangeNotification, when the token has changed.    *)
SlipPosted(u, blocks) ==
    changes < MaxChanges /\ changes' = changes + 1 /\ authUser' = u /\ mainQueue' = mainQueue \o blocks
Posted(u, blocks) ==
    /\ changes < MaxChanges
    /\ changes' = changes + 1
    /\ authUser' = u
    /\ mainQueue' = mainQueue \o <<Notice(u)>> \o blocks

(* updateCurrentUser:byForce:savingToDisk:, at a sign-in, also to the same *)
(* account again, or at a sign-out.                                        *)
UpdateCurrentUser(u) ==
    /\ u = Unauthenticated => authUser # Unauthenticated
    /\ Posted(u, <<>>)
    /\ UNCHANGED <<failures, authQueue, fetching, provider, client, workerQueue>>

(* The block of getTokenForcingRefresh: the token will be the one of the   *)
(* user of this moment.                                                    *)
TakeUser ==
    LET call == Head(authQueue) IN
    /\ authQueue # <<>>
    /\ authQueue' = Tail(authQueue)
    /\ fetching' = fetching \cup
           {[owner |-> authUser, counter |-> call.counter, close |-> call.close]}
    /\ UNCHANGED <<failures, authUser, changes, mainQueue, provider, client, workerQueue>>

(* The token is there.  If it is a new one and its user is still the       *)
(* current one, the change is posted before the answer.                    *)
Fetched(f) ==
    /\ fetching' = fetching \ {f}
    /\ \/ /\ mainQueue' = Append(mainQueue, Answer(f, f.owner))
          /\ UNCHANGED <<authUser, changes>>
       \/ /\ f.owner = authUser /\ authUser # Unauthenticated
          /\ Posted(authUser, <<Answer(f, f.owner)>>)
    /\ UNCHANGED <<failures, authQueue, provider, client, workerQueue>>

Failed ==
    /\ failures < MaxFailures
    /\ failures' = failures + 1

(* There is no token; one that is invalid signs its user out first.        *)
FetchFailed(f) ==
    /\ Failed
    /\ f.owner # Unauthenticated
    /\ fetching' = fetching \ {f}
    /\ \/ /\ mainQueue' = Append(mainQueue, Answer(f, NoToken))
          /\ UNCHANGED <<authUser, changes>>
       \/ /\ f.owner = authUser
          /\ Posted(Unauthenticated, <<Answer(f, NoToken)>>)
    /\ UNCHANGED <<authQueue, provider, client, workerQueue>>

-----------------------------------------------------------------------------
(* FirebaseCredentialsProvider, on the main queue. *)

(* The observer of the notification, in two steps: it holds the lock all   *)
(* the while, but GetToken reads the counter without it.                   *)
Notified ==
    /\ mainQueue # <<>> /\ Head(mainQueue).kind = "notice" /\ ~listening
    /\ currentUser' = Head(mainQueue).user
    /\ tokenCounter' = tokenCounter + 1
    /\ listening' = TRUE
    /\ mainQueue' = Tail(mainQueue)
    /\ UNCHANGED <<failures, auth, authQueue, client, workerQueue>>

CallListener ==
    /\ listening
    /\ listening' = FALSE
    /\ workerQueue' = Append(workerQueue, Credential(currentUser))
    /\ UNCHANGED <<failures, auth, authQueue, mainQueue, currentUser, tokenCounter, client>>

(* The account has changed since GetToken was called.                      *)
Outdated(answer) == answer.counter # tokenCounter

(* The callback of GetToken: after a change it asks again; otherwise the   *)
(* token goes to the worker queue.                                         *)
SlipGetTokenCallback ==
    LET answer == Head(mainQueue) IN
    /\ mainQueue # <<>> /\ answer.kind = "token" /\ ~listening
    /\ mainQueue' = Tail(mainQueue)
    /\ IF Outdated(answer)
         THEN UNCHANGED workerQueue
         ELSE workerQueue' = Append(workerQueue, Resume(answer.owner, answer.close))
    /\ UNCHANGED <<failures, auth, authQueue, provider, client>>
GetTokenCallback ==
    LET answer == Head(mainQueue) IN
    /\ mainQueue # <<>> /\ answer.kind = "token" /\ ~listening
    /\ mainQueue' = Tail(mainQueue)
    /\ IF Outdated(answer)
         THEN /\ authQueue' = Append(authQueue, [counter |-> tokenCounter, close |-> answer.close])
              /\ UNCHANGED workerQueue
         ELSE /\ workerQueue' = Append(workerQueue, Resume(answer.owner, answer.close))
              /\ UNCHANGED authQueue
    /\ UNCHANGED <<failures, auth, provider, client>>

-----------------------------------------------------------------------------
(* The stream, on the worker queue. *)

SlipIsStarted == stream \in {"Starting", "Backoff"}
IsStarted == stream \in {"Starting", "Backoff", "Open"}

(* Start: it backs off after an error, or asks for a token.                *)
Start(state, close) ==
    IF state = "Error"
      THEN stream' = "Backoff" /\ UNCHANGED authQueue
      ELSE /\ stream' = "Starting"
           /\ authQueue' = Append(authQueue, [counter |-> tokenCounter, close |-> close])

(* The stream is closed; it is started again if the client needs it.       *)
SlipCloseAndMaybeStart(state) ==
    /\ UNCHANGED closeCount
    /\ \/ stream' = state /\ UNCHANGED authQueue
       \/ Start(state, closeCount)
CloseAndMaybeStart(state) ==
    /\ closeCount' = closeCount + 1
    /\ \/ stream' = state /\ UNCHANGED authQueue
       \/ Start(state, closeCount')

(* The client needs the stream. *)
StartStream ==
    /\ ~IsStarted
    /\ Start(stream, closeCount)
    /\ UNCHANGED <<failures, auth, provider, mainQueue, workerQueue, syncUser, closeCount, openedAs>>

BackoffElapsed ==
    /\ stream = "Backoff"
    /\ Start("Initial", closeCount)
    /\ UNCHANGED <<failures, auth, provider, mainQueue, workerQueue, syncUser, closeCount, openedAs>>

(* HandleCredentialChange: the stream is stopped, and started if needed.   *)
HandleCredentialChange ==
    /\ workerQueue # <<>> /\ Head(workerQueue).kind = "credential"
    /\ workerQueue' = Tail(workerQueue)
    /\ syncUser' = Head(workerQueue).user
    /\ IF IsStarted
         THEN CloseAndMaybeStart("Initial")
         ELSE /\ UNCHANGED closeCount
              /\ \/ UNCHANGED <<stream, authQueue>>
                 \/ Start(stream, closeCount)
    /\ UNCHANGED <<failures, auth, provider, mainQueue, openedAs>>

(* The task of RequestCredentials, with ResumeStartWithCredentials for the *)
(* stream that asked: it is opened with the token, or closed without one.  *)
CredentialsArrive ==
    LET task == Head(workerQueue) IN
    /\ workerQueue # <<>> /\ task.kind = "resume"
    /\ workerQueue' = Tail(workerQueue)
    /\ CASE task.close # closeCount ->
              UNCHANGED <<stream, closeCount, openedAs, authQueue>>
         [] task.close = closeCount /\ task.owner = NoToken ->
              CloseAndMaybeStart("Error") /\ UNCHANGED openedAs
         [] OTHER ->
              /\ stream' = "Open"
              /\ openedAs' = task.owner
              /\ UNCHANGED <<closeCount, authQueue>>
    /\ UNCHANGED <<failures, auth, provider, mainQueue, syncUser>>

(* The stream fails while it is open, or is stopped because it is idle.    *)
StreamCloses ==
    /\ Failed
    /\ stream = "Open"
    /\ CloseAndMaybeStart("Error") \/ CloseAndMaybeStart("Initial")
    /\ UNCHANGED <<auth, provider, mainQueue, workerQueue, syncUser, openedAs>>

-----------------------------------------------------------------------------
Deliver ==
    \/ TakeUser
    \/ \E f \in fetching : Fetched(f) \/ FetchFailed(f)
    \/ Notified \/ CallListener \/ GetTokenCallback
    \/ HandleCredentialChange \/ CredentialsArrive

Next ==
    \/ \E u \in User : UpdateCurrentUser(u)
    \/ Deliver
    \/ StartStream \/ BackoffElapsed \/ StreamCloses

(* Queues go on, and a request for a token is answered. *)
Spec == Init /\ [][Next]_vars /\ WF_vars(Deliver)

-----------------------------------------------------------------------------
(* Properties. *)

(* An open stream was created with the token of the user whose writes and  *)
(* queries the client sends on it: no interleaving of a sign-in, a token   *)
(* on its way and a restart of the stream sends the documents of one       *)
(* account in the name of another.                                         *)
OpenAsCurrentUser == stream = "Open" => openedAs = syncUser

(* ResumeStartWithCredentials asserts that the stream is still starting    *)
(* (stream.cc:130); the close count makes sure of it, because no attempt   *)
(* to start ever has two tokens on their way.                              *)
ResumeIsExpected ==
    \A i \in DOMAIN workerQueue :
        workerQueue[i].kind = "resume" /\ workerQueue[i].close = closeCount =>
            stream = "Starting"

IsNotice(i) == i \in DOMAIN mainQueue /\ mainQueue[i].kind = "notice"
IsToken(i) == i \in DOMAIN mainQueue /\ mainQueue[i].kind = "token"
IsCredential(i) == i \in DOMAIN workerQueue /\ workerQueue[i].kind = "credential"
IsResume(i) == i \in DOMAIN workerQueue /\ workerQueue[i].kind = "resume"

(* The places the token of the present attempt can be at on its way.       *)
Asked(i) == i \in DOMAIN authQueue /\ authQueue[i].close = closeCount
Taken(f) == f \in fetching /\ f.close = closeCount
Answered(i) == IsToken(i) /\ mainQueue[i].close = closeCount
Due(i) == IsResume(i) /\ workerQueue[i].close = closeCount

(* What the client waits for is on its way at every moment: the user it    *)
(* has not caught up with, as a notice or a change, and the token of a     *)
(* stream that is starting, through every answer that is dropped and asked *)
(* for again.  With queues that go on that is what CatchesUp needs.        *)
NothingForgotten ==
    /\ syncUser # authUser =>
           \/ \E i \in DOMAIN mainQueue : IsNotice(i)
           \/ listening
           \/ \E i \in DOMAIN workerQueue : IsCredential(i)
    /\ stream = "Starting" =>
           \/ \E i \in DOMAIN authQueue : Asked(i)
           \/ \E f \in fetching : Taken(f)
           \/ \E i \in DOMAIN mainQueue : Answered(i)
           \/ \E i \in DOMAIN workerQueue : Due(i)

(* The client catches up with the account, and a stream that asks for a    *)
(* token is not forgotten, though answers to earlier calls are dropped.    *)
CatchesUp ==
    /\ <>[](syncUser = authUser)
    /\ stream = "Starting" ~> stream # "Starting"
=============================================================================
