---------------------------- MODULE WritePipeline ----------------------------
(***************************************************************************)
(* The write path of the Firestore client the app saves documents and      *)
(* users with: SyncEngine, LocalStore with its queue of mutation batches   *)
(* in LevelDB, RemoteStore with the write pipeline, and the write stream,  *)
(* with the server at the other end of it.                                 *)
(*                                                                         *)
(* All of it runs on one serial worker queue, so each task of that queue   *)
(* is one action, with every call it makes.  The queues persist; the       *)
(* pipeline, the callbacks and the stream do not.  A request carries the   *)
(* mutations and no batch id, so an answer is matched to the head of the   *)
(* pipeline by its position alone.                                         *)
(***************************************************************************)
EXTENDS Integers, Sequences, SequencesExt

CONSTANTS
    User,               \* accounts, and the user without one
    Unauthenticated,    \* the user without an account
    MaxWrites,          \* bound: calls of setData, numbered as they are made
    kMaxPendingWrites,  \* how long the pipeline may be
    MaxDisturbances     \* bound: failures, credential changes and restarts

ASSUME UserAssumption == Unauthenticated \in User
ASSUME PipelineAssumption == kMaxPendingWrites \in Nat \ {0}
ASSUME BoundAssumption == MaxWrites \in Nat /\ MaxDisturbances \in Nat

VARIABLES
    queue,          \* the mutation queue of each user, in the order of its ids
    nextBatchId,    \* next_batch_id_ of the mutation queue in use
    user,           \* current_user_ of SyncEngine
    callbacks,      \* mutation_callbacks_
    pipeline,       \* write_pipeline_
    stream,         \* state_ of the write stream
    handshake,      \* how far the handshake is; handshake_complete_ at the end
    idle,           \* idleness_timer_ is scheduled
    requests,       \* mutations sent on this stream and not looked at
    responses,      \* what the server said on this stream and was not read
    overtaken,      \* a failed write is ahead of the next answer
    made,           \* how many writes the app has made
    applied,        \* writes the server applied
    refused,        \* writes the server refused with a permanent error
    told,           \* history: what each completion handler was called with
    disturbances    \* how many there have been

local == <<queue, nextBatchId, user, callbacks, made>>
channel == <<stream, handshake, idle, requests, responses, overtaken>>
server == <<applied, refused>>
vars == <<local, pipeline, channel, server, told, disturbances>>

Write == 1..MaxWrites
Batches == [id : Nat, write : Write]
Callbacks == [user : User, id : Nat, write : Write]
Responses == [kind : {"applied", "refused"}, write : Write]

TypeOK ==
    /\ queue \in [User -> Seq(Batches)]
    /\ nextBatchId \in Nat
    /\ user \in User
    /\ callbacks \subseteq Callbacks
    /\ pipeline \in Seq(Batches)
    /\ stream \in {"Initial", "Starting", "Open", "Error", "Backoff"}
    /\ handshake \in {"none", "asked", "answered", "complete"}
    /\ idle \in BOOLEAN
    /\ requests \in Seq(Write)
    /\ responses \in Seq(Responses)
    /\ overtaken \in BOOLEAN
    /\ made \in 0..MaxWrites
    /\ applied \subseteq Write /\ refused \subseteq Write
    /\ told \in [Write -> {"nothing", "ok", "failed"}]
    /\ disturbances \in 0..MaxDisturbances

-----------------------------------------------------------------------------
(* The queues in LevelDB. *)

IdsOf(q) == {q[i].id : i \in DOMAIN q}

(* Operators named Slip... are wrong versions of the definition each of    *)
(* them precedes; a property is worth checking if it notices one.          *)

(* LoadNextBatchIdFromDb: one more than any id still in a queue, of any    *)
(* user.  The id of a batch that was removed can come back.                *)
SlipLoadNextBatchId(qs) == 1 + Len(qs[user])
LoadNextBatchId(qs) ==
    LET ids == {0} \cup UNION {IdsOf(qs[u]) : u \in User}
    IN  1 + CHOOSE max \in ids : \A id \in ids : id <= max

(* Where NextMutationBatchAfterBatchId seeks to: the last place of the     *)
(* queue before the batches that follow the id.                            *)
SlipUpTo(q, id) ==
    CHOOSE n \in 0..Len(q) :
        /\ \A i \in 1..n : q[i].id <= id + 1
        /\ \A i \in n+1..Len(q) : q[i].id > id + 1
UpTo(q, id) ==
    CHOOSE n \in 0..Len(q) :
        /\ \A i \in 1..n : q[i].id <= id
        /\ \A i \in n+1..Len(q) : q[i].id > id

(* RemoveMutationBatch: the batch must be there. *)
SlipRemoveMutationBatch(q, id) == q
RemoveMutationBatch(q, id) ==
    RemoveAt(q, CHOOSE i \in DOMAIN q : q[i].id = id)

(* The pipeline and the write stream. *)

kBatchIdUnknown == -1

(* The loop of FillWritePipeline: batches that follow the last one in the  *)
(* pipeline, as long as there is room.                                     *)
FillWritePipeline(p, q) ==
    LET last == IF p = <<>> THEN kBatchIdUnknown ELSE Last(p).id
        from == UpTo(q, last)
        room == kMaxPendingWrites - Len(p)
    IN  p \o SubSeq(q, from + 1, IF from + room < Len(q) THEN from + room ELSE Len(q))

IsStarted == stream \in {"Starting", "Backoff", "Open"}
Writing == stream = "Open" /\ handshake = "complete"

(* ShouldStartWriteStream, StartWriteStream and Start: after an error the  *)
(* stream backs off first.                                                 *)
SlipStartIfNeeded(state, p) == IF state = "Initial" /\ p # <<>> THEN "Starting" ELSE state
StartIfNeeded(state, p) ==
    CASE state = "Initial" /\ p # <<>> -> "Starting"
      [] state = "Error" /\ p # <<>> -> "Backoff"
      [] OTHER -> state

WritesOf(p) == [i \in DOMAIN p |-> p[i].write]

(* AddToWritePipeline sends what it adds to p on a stream that is ready,   *)
(* and a write cancels the idle timer.                                     *)
SlipSendAdded(p) ==
    IF Writing THEN requests' = requests \o WritesOf(pipeline') ELSE UNCHANGED requests
SendAdded(p) ==
    IF Writing
      THEN requests' = requests \o WritesOf(SubSeq(pipeline', Len(p) + 1, Len(pipeline')))
      ELSE UNCHANGED requests

(* Close: the stream is given up with everything on it. *)
SlipClose ==
    /\ handshake' = "none"
    /\ requests' = <<>> /\ responses' = <<>> /\ overtaken' = FALSE
    /\ UNCHANGED idle
Close ==
    /\ handshake' = "none"
    /\ idle' = FALSE
    /\ requests' = <<>>
    /\ responses' = <<>>
    /\ overtaken' = FALSE

(* NotifyUser: callbacks are kept by user and batch id. *)
Called(id) == {c \in callbacks : c.user = user /\ c.id = id}
NotifyUser(id, result) ==
    /\ told' = [w \in Write |-> IF \E c \in Called(id) : c.write = w THEN result ELSE told[w]]
    /\ callbacks' = callbacks \ Called(id)

Disturbed ==
    /\ disturbances < MaxDisturbances
    /\ disturbances' = disturbances + 1

Init ==
    /\ queue = [u \in User |-> <<>>]
    /\ nextBatchId = 1
    /\ user = Unauthenticated
    /\ callbacks = {}
    /\ pipeline = <<>>
    /\ stream = "Initial" /\ handshake = "none" /\ idle = FALSE
    /\ requests = <<>> /\ responses = <<>> /\ overtaken = FALSE
    /\ made = 0
    /\ applied = {} /\ refused = {}
    /\ told = [w \in Write |-> "nothing"]
    /\ disturbances = 0

-----------------------------------------------------------------------------
(* Tasks of the worker queue. *)

(* WriteMutations: to the queue first, then to the pipeline. *)
WriteMutations ==
    LET w == made + 1
        batch == [id |-> nextBatchId, write |-> w]
        callback == [user |-> user, id |-> nextBatchId, write |-> w]
    IN
    /\ made < MaxWrites
    /\ made' = w
    /\ queue' = [queue EXCEPT ![user] = Append(@, batch)]
    /\ nextBatchId' = nextBatchId + 1
    /\ callbacks' = IF Called(nextBatchId) = {} THEN callbacks \cup {callback} ELSE callbacks
    /\ pipeline' = FillWritePipeline(pipeline, queue'[user])
    /\ SendAdded(pipeline)
    /\ idle' = (idle /\ requests' = requests)
    /\ stream' = StartIfNeeded(stream, pipeline')
    /\ UNCHANGED <<user, handshake, responses, overtaken, server, told, disturbances>>

(* ResumeStartWithCredentials with a token: the stream opens at once, and  *)
(* OnWriteStreamOpen asks for the handshake.                               *)
Open ==
    /\ stream = "Starting"
    /\ stream' = "Open"
    /\ handshake' = "asked"
    /\ UNCHANGED <<local, pipeline, idle, requests, responses, overtaken, server, told,
                   disturbances>>

(* OnWriteStreamHandshakeComplete: the whole pipeline is sent. *)
HandshakeComplete ==
    /\ stream = "Open" /\ handshake = "answered"
    /\ handshake' = "complete"
    /\ requests' = WritesOf(pipeline)
    /\ idle' = (idle /\ pipeline = <<>>)
    /\ UNCHANGED <<local, pipeline, stream, responses, overtaken, server, told, disturbances>>

(* The server has ended the stream because of a write it refused. *)
Ended(answers) == answers # <<>> /\ Last(answers).kind = "refused"

(* OnWriteStreamMutationResult: the head of the pipeline succeeded.  The   *)
(* callback runs before the batch leaves the queue; then the pipeline is   *)
(* filled, and with nothing left the stream is marked idle.  If the server *)
(* has ended the stream, a request still to be sent fails, and its failure *)
(* can get onto the worker queue before the answers still to be read.      *)
MutationResult ==
    LET batch == Head(pipeline) IN
    /\ Writing
    /\ responses # <<>> /\ Head(responses).kind = "applied" /\ ~overtaken
    /\ responses' = Tail(responses)
    /\ NotifyUser(batch.id, "ok")
    /\ queue' = [queue EXCEPT ![user] = RemoveMutationBatch(@, batch.id)]
    /\ pipeline' = FillWritePipeline(Tail(pipeline), queue'[user])
    /\ SendAdded(Tail(pipeline))
    /\ idle' = (pipeline' = <<>> \/ (idle /\ requests' = requests))
    /\ overtaken' \in {FALSE, Ended(responses') /\ Len(responses') >= 2 /\ requests' # <<>>}
    /\ UNCHANGED <<nextBatchId, user, made, stream, handshake, server, disturbances>>

(* The stream reports its end when all answers are read, or when a failed  *)
(* write comes first: OnOperationFailed then makes a read that has         *)
(* completed already a no-op, and no other is started.                     *)
EndedByWrite == Writing /\ Ended(responses) /\ (Len(responses) = 1 \/ overtaken)

(* OnWriteStreamClose with a permanent error: the head of the pipeline is  *)
(* held responsible.  There is no backoff.                                 *)
WriteError ==
    LET batch == Head(pipeline) IN
    /\ EndedByWrite
    /\ Close
    /\ queue' = [queue EXCEPT ![user] = RemoveMutationBatch(@, batch.id)]
    /\ NotifyUser(batch.id, "failed")
    /\ pipeline' = FillWritePipeline(Tail(pipeline), queue'[user])
    /\ stream' = StartIfNeeded("Initial", pipeline')
    /\ UNCHANGED <<nextBatchId, user, made, server, disturbances>>

(* No token, a failed handshake, a lost connection, a change of network:   *)
(* the stream closes with an error that says nothing of a write.           *)
StreamError ==
    /\ Disturbed
    /\ stream \in {"Starting", "Open"}
    /\ Close
    /\ stream' = StartIfNeeded("Error", pipeline)
    /\ UNCHANGED <<local, pipeline, server, told>>

(* The delay of BackoffAndTryRestarting is over. *)
BackoffElapsed ==
    /\ stream = "Backoff"
    /\ stream' = "Starting"
    /\ UNCHANGED <<local, pipeline, handshake, idle, requests, responses, overtaken, server, told,
                   disturbances>>

(* The idle timer: Stop.  OnWriteStreamClose asserts that the stream is    *)
(* not needed.                                                             *)
IdleStop ==
    /\ idle
    /\ Close
    /\ stream' = "Initial"
    /\ UNCHANGED <<local, pipeline, server, told, disturbances>>

(* HandleCredentialChange, also for a new token of the same account: the   *)
(* queue is swapped for another account's, the stream is stopped, and the  *)
(* pipeline is filled anew.  The callbacks of the account are kept.        *)
CredentialChange(u) ==
    /\ Disturbed
    /\ user' = u
    /\ nextBatchId' = IF u # user THEN LoadNextBatchId(queue) ELSE nextBatchId
    /\ Close
    /\ pipeline' = FillWritePipeline(<<>>, queue[u])
    /\ stream' = StartIfNeeded(IF IsStarted THEN "Initial" ELSE stream, pipeline')
    /\ UNCHANGED <<queue, callbacks, made, server, told>>

(* Initialize, in a new process: what is not in LevelDB is gone. *)
Initialize(u) ==
    /\ Disturbed
    /\ user' = u
    /\ nextBatchId' = LoadNextBatchId(queue')
    /\ callbacks' = {}
    /\ Close
    /\ pipeline' = FillWritePipeline(<<>>, queue'[u])
    /\ stream' = StartIfNeeded("Initial", pipeline')
    /\ UNCHANGED <<made, server>>

(* The process may end between two tasks, in HandleSuccessfulWrite after   *)
(* the callback and before the batch is removed, or in HandleRejectedWrite *)
(* after the batch is removed and before the callback.                     *)
Restart(u) ==
    /\ UNCHANGED <<queue, told>>
    /\ Initialize(u)

RestartAfterCallback(u) ==
    /\ Writing
    /\ responses # <<>> /\ Head(responses).kind = "applied" /\ ~overtaken
    /\ UNCHANGED queue
    /\ told' = [w \in Write |->
                  IF \E c \in Called(Head(pipeline).id) : c.write = w THEN "ok" ELSE told[w]]
    /\ Initialize(u)

RestartBeforeCallback(u) ==
    /\ EndedByWrite
    /\ queue' = [queue EXCEPT ![user] = RemoveMutationBatch(@, Head(pipeline).id)]
    /\ Initialize(u)
    /\ UNCHANGED told

-----------------------------------------------------------------------------
(* The server takes the requests of a stream in order, and nothing after a *)
(* write it refused.                                                       *)

ServerHandshake ==
    /\ handshake = "asked"
    /\ handshake' = "answered"
    /\ UNCHANGED <<local, pipeline, stream, idle, requests, responses, overtaken, server,
                   told, disturbances>>

Answer(kind) ==
    /\ requests # <<>>
    /\ ~Ended(responses)
    /\ requests' = Tail(requests)
    /\ responses' = Append(responses, [kind |-> kind, write |-> Head(requests)])
    /\ UNCHANGED <<local, pipeline, stream, handshake, idle, overtaken, told, disturbances>>

Apply ==
    /\ Answer("applied")
    /\ applied' = applied \cup {Head(requests)}
    /\ UNCHANGED refused

Refuse ==
    /\ Answer("refused")
    /\ refused' = refused \cup {Head(requests)}
    /\ UNCHANGED applied

-----------------------------------------------------------------------------
Restarts == \E u \in User : Restart(u) \/ RestartAfterCallback(u) \/ RestartBeforeCallback(u)

Progress ==
    \/ Open \/ HandshakeComplete \/ MutationResult \/ WriteError
    \/ BackoffElapsed \/ ServerHandshake \/ Apply \/ Refuse

Next ==
    \/ WriteMutations
    \/ Progress
    \/ IdleStop
    \/ StreamError
    \/ \E u \in User : CredentialChange(u)
    \/ Restarts

(* Everything that is under way goes on: the worker queue runs its tasks,  *)
(* a delay ends, the server answers.  Nothing is assumed of the app, of    *)
(* the network, of the account or of the idle timer.                       *)
Spec == Init /\ [][Next]_vars /\ WF_vars(Progress)

-----------------------------------------------------------------------------
(* Properties. *)

(* The pipeline is the beginning of the queue of the current user, as much *)
(* of it as it may hold: every refill goes on where the pipeline ends,     *)
(* across answers, refusals, reconnections and changes of account.         *)
PipelineIsQueuePrefix ==
    LET n == Len(pipeline) IN
    /\ n <= Len(queue[user])
    /\ pipeline = SubSeq(queue[user], 1, n)
    /\ n = kMaxPendingWrites \/ n = Len(queue[user])

(* Once the handshake is complete, what the server said followed by what   *)
(* it has still to look at is exactly the pipeline, write by write: the    *)
(* assertion "Got result for empty write pipeline" (remote_store.cc:418)   *)
(* cannot fail, and an answer is for the batch it is taken for.            *)
ResultsMatchPipeline ==
    IF Writing
      THEN WritesOf(pipeline) = WritesOf(responses) \o requests
      ELSE requests = <<>> /\ responses = <<>>

(* The idle timer runs only on a stream nobody needs, so the assertion     *)
(* "Write stream was stopped gracefully while still needed"                *)
(* (remote_store.cc:437) cannot fail when it fires; and a pipeline with    *)
(* something in it always has a stream that is being started or is open.   *)
IdleOnlyWhenUnneeded ==
    /\ idle => Writing /\ pipeline = <<>>
    /\ pipeline # <<>> => IsStarted

(* Although ids come back when a queue is loaded again, no two batches of  *)
(* any users share one, and a callback is kept under the id of the batch   *)
(* of its own write, still queued for the user who made it.                *)
CallbacksFollowTheirWrites ==
    /\ \A u, v \in User : \A i \in DOMAIN queue[u], j \in DOMAIN queue[v] :
           queue[u][i].id = queue[v][j].id => u = v /\ i = j
    /\ \A c \in callbacks :
           /\ told[c.write] = "nothing"
           /\ \E i \in DOMAIN queue[c.user] : queue[c.user][i] = [id |-> c.id, write |-> c.write]

(* The server never gets a user's writes out of order: one that is applied *)
(* while it is still queued has only applied ones queued before it.        *)
AppliedInOrder ==
    \A u \in User : \A i, j \in DOMAIN queue[u] :
        i < j /\ queue[u][j].write \in applied => queue[u][i].write \in applied

(* The app's view of a write is the one DurableWrites promises.            *)
Queued == {w \in Write : \E u \in User : \E i \in DOMAIN queue[u] : queue[u][i].write = w}

Durable == INSTANCE DurableWrites WITH pending <- Queued, settled <- (1..made) \ Queued

ImplementsDurableWrites == Durable!Spec

(* What there is to do while the current user has a batch queued: one of   *)
(* the steps of Progress can be taken.                                     *)
SomethingUnderWay ==
    \/ stream \in {"Backoff", "Starting"}
    \/ stream = "Open" /\ handshake \in {"asked", "answered"}
    \/ Writing /\ requests # <<>> /\ ~Ended(responses)
    \/ Writing /\ responses # <<>> /\ Head(responses).kind = "applied" /\ ~overtaken
    \/ EndedByWrite

(* How many steps it can take at most until a batch leaves the queue.      *)
StepsAhead ==
    CASE stream = "Backoff" -> kMaxPendingWrites + 4
      [] stream = "Starting" -> kMaxPendingWrites + 3
      [] handshake = "asked" -> kMaxPendingWrites + 2
      [] handshake = "answered" -> kMaxPendingWrites + 1
      [] OTHER -> Len(requests)

(* The queue of the current user is never left waiting for nothing, and    *)
(* unless the app writes or something fails, whatever happens brings the   *)
(* end nearer: a batch leaves the queue, or fewer steps are ahead of that. *)
(* With fairness that is all EventuallySettled needs.                      *)
EveryWriteAdvances ==
    /\ [](queue[user] # <<>> => SomethingUnderWay)
    /\ [][queue[user] # <<>> /\ UNCHANGED <<made, disturbances>> =>
             \/ Len(queue'[user]) < Len(queue[user])
             \/ queue' = queue /\ StepsAhead' < StepsAhead]_vars

(* A write that is queued is decided and leaves the queue, if its user     *)
(* stays or comes back and disturbances come to an end.                    *)
EventuallySettled ==
    \A u \in User, w \in Write :
        (\E i \in DOMAIN queue[u] : queue[u][i].write = w)
            ~> (user # u \/ ~\E i \in DOMAIN queue[u] : queue[u][i].write = w)
=============================================================================
