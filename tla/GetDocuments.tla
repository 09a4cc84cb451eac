----------------------------- MODULE GetDocuments -----------------------------
(***************************************************************************)
(* getDocuments of the Firestore client, as the online list calls it: a    *)
(* listener that takes itself away at its first snapshot.  A call goes     *)
(* through three threads:                                                  *)
(*   - the thread that calls (a serial queue of the list);                 *)
(*   - the worker queue, with EventManager, SyncEngine, RemoteStore, the   *)
(*     watch stream and OnlineStateTracker, which decides whether a query  *)
(*     is answered from the cache;                                         *)
(*   - the main queue, which runs the callback.                            *)
(* What the server answers is a query's first consistent snapshot; the     *)
(* answers to a listen that was given up are dropped before this level     *)
(* (WatchChangeAggregator).                                                *)
(***************************************************************************)
EXTENDS Integers, Sequences, FiniteSets, SequencesExt

CONSTANTS
    Query,          \* the collections that are read
    Call,           \* calls of getDocuments
    QueryOf,        \* what each of them reads
    Follows,        \* the calls it waits for: a list reads one after the other
    MaxBlocks,      \* bound: blocks on the main queue when a view changes again
    MaxDisturbances \* bound: credential changes and local writes

ASSUME CallAssumption == IsFiniteSet(Call)
ASSUME QueryAssumption == QueryOf \in [Call -> Query]
ASSUME FollowsAssumption == Follows \in [Call -> SUBSET Call]
ASSUME BoundAssumption == MaxBlocks \in Nat /\ MaxDisturbances \in Nat

VARIABLES
    asked,          \* calls that have been made
    resolved,       \* calls whose registration has been handed to ListenOnce
    workerQueue,    \* listeners to add and to remove
    listeners,      \* queries_ of EventManager: the listeners of each query
    raised,         \* calls whose listener has raised its first event
    synced,         \* queries whose view is in sync with the server
    stream,         \* state_ of the watch stream
    idle,           \* its idleness_timer_ is scheduled
    onlineState,    \* state_ of OnlineStateTracker
    failing,        \* watch_stream_failures_ is not 0, which is its maximum
    timer,          \* online_state_timer_ is scheduled
    mainQueue,      \* events on their way to the callbacks
    muted,          \* calls whose AsyncEventListener is muted
    told,           \* history: what each callback was called with
    disturbances    \* how many there have been

queries == <<listeners, raised, synced>>
tracker == <<onlineState, failing, timer>>
app == <<asked, resolved, muted, told>>
vars == <<app, workerQueue, queries, stream, idle, tracker, mainQueue, disturbances>>

Results == {"server", "cache", "error"}
Tasks == [kind : {"add", "remove"}, call : Call]
Events == [call : Call, result : Results]

TypeOK ==
    /\ asked \subseteq Call /\ resolved \subseteq asked
    /\ workerQueue \in Seq(Tasks)
    /\ listeners \in [Query -> SUBSET Call]
    /\ raised \subseteq Call
    /\ synced \subseteq Query
    /\ stream \in {"Initial", "Starting", "Open", "Error", "Backoff"}
    /\ idle \in BOOLEAN
    /\ onlineState \in {"Unknown", "Online", "Offline"}
    /\ failing \in BOOLEAN /\ timer \in BOOLEAN
    /\ mainQueue \in Seq(Events)
    /\ muted \subseteq Call
    /\ told \in [Call -> Seq(Results)]
    /\ disturbances \in 0..MaxDisturbances

Init ==
    /\ asked = {} /\ resolved = {} /\ muted = {}
    /\ workerQueue = <<>> /\ mainQueue = <<>>
    /\ listeners = [q \in Query |-> {}]
    /\ raised = {} /\ synced = {}
    /\ stream = "Initial" /\ idle = FALSE
    /\ onlineState = "Unknown" /\ failing = FALSE /\ timer = FALSE
    /\ told = [c \in Call |-> <<>>]
    /\ disturbances = 0

-----------------------------------------------------------------------------
(* Operators named Slip... are wrong versions of the definition each of    *)
(* them precedes; a property is worth checking if it notices one.          *)

(* Events. *)

(* listen_targets_: EventManager, SyncEngine and RemoteStore know the same *)
(* queries between two tasks.                                              *)
TargetsOf(ls) == {q \in Query : ls[q] # {}}
Targets == TargetsOf(listeners)
Listening == UNION {listeners[q] : q \in Query}

(* AsyncEventListener.OnEvent for some calls. *)
SlipEventsFor(calls, result) ==
    IF calls = {} THEN <<>> ELSE <<[call |-> CHOOSE c \in calls : TRUE, result |-> result]>>
EventsFor(calls, result) ==
    LET order == SetToSeq(calls)
    IN  [i \in DOMAIN order |-> [call |-> order[i], result |-> result]]

Raise(events) == mainQueue' = mainQueue \o events

-----------------------------------------------------------------------------
(* OnlineStateTracker, and what hears of a new state. *)

(* To Offline: a view in sync goes out of sync, which its listeners hear   *)
(* of, and every other listener raises what the cache has.  With no other  *)
(* state is an event due.                                                  *)
SetAndBroadcast(state) ==
    /\ onlineState' = state
    /\ IF state = "Offline" /\ onlineState # "Offline"
         THEN LET hearing == {c \in Listening : c \notin raised \/ QueryOf[c] \in synced}
              IN  /\ Raise(EventsFor(hearing, "cache"))
                  /\ raised' = raised \cup Listening
                  /\ synced' = {}
         ELSE UNCHANGED <<mainQueue, raised, synced>>

SlipUpdateState(state) == UNCHANGED timer /\ failing' = FALSE /\ onlineState' = state
UpdateState(state) == timer' = FALSE /\ failing' = FALSE /\ onlineState' = state

(* HandleWatchStreamStart: the first attempt starts the timer.             *)
HandleWatchStreamStart ==
    /\ IF failing THEN UNCHANGED <<timer, onlineState>>
                  ELSE timer' = TRUE /\ onlineState' = "Unknown"
    /\ UNCHANGED failing

(* HandleWatchStreamFailure, and HandleWatchStreamStart for the next       *)
(* attempt: the first failure after a message starts the timer, another    *)
(* one ends it.                                                            *)
SlipHandleWatchStreamFailure ==
    /\ failing' = (onlineState # "Online")
    /\ timer' = (onlineState = "Online")
    /\ SetAndBroadcast("Unknown")
HandleWatchStreamFailure ==
    /\ failing' = (failing \/ onlineState # "Online")
    /\ timer' = (onlineState = "Online")
    /\ SetAndBroadcast(IF onlineState = "Online" THEN "Unknown" ELSE "Offline")

IsStarted == stream \in {"Starting", "Backoff", "Open"}

Started(state) == IF state = "Error" THEN "Backoff" ELSE "Starting"

-----------------------------------------------------------------------------
(* The thread of the caller. *)

(* AddSnapshotListener: the listener is put on the worker queue.  A list   *)
(* makes its second call when the first has been answered with no error.   *)
GetDocuments(c) ==
    /\ c \notin asked
    /\ \A f \in Follows[c] : told[f] # <<>> /\ Head(told[f]) # "error"
    /\ asked' = asked \cup {c}
    /\ workerQueue' = Append(workerQueue, [kind |-> "add", call |-> c])
    /\ UNCHANGED <<resolved, muted, told, queries, stream, idle, tracker, mainQueue, disturbances>>

Resolve(c) ==
    /\ c \in asked \ resolved
    /\ resolved' = resolved \cup {c}
    /\ UNCHANGED <<asked, muted, told, workerQueue, queries, stream, idle, tracker, mainQueue,
                   disturbances>>

-----------------------------------------------------------------------------
(* The worker queue. *)

(* What a new listener is told at once.                                    *)
SlipDue(c) ==
    IF QueryOf[c] \in synced THEN <<[call |-> c, result |-> "server"]>> ELSE <<>>
Due(c) ==
    CASE QueryOf[c] \in synced -> <<[call |-> c, result |-> "server"]>>
      [] QueryOf[c] \notin synced /\ onlineState = "Offline" ->
             <<[call |-> c, result |-> "cache"]>>
      [] OTHER -> <<>>

(* AddQueryListener.  The listener raises its event at once if the query   *)
(* has a view in sync, or if the client is off line.  The first listener   *)
(* of a query starts the stream or sends the watch request on it.          *)
AddQueryListener ==
    LET c == Head(workerQueue).call
        q == QueryOf[c]
    IN
    /\ workerQueue # <<>> /\ Head(workerQueue).kind = "add"
    /\ workerQueue' = Tail(workerQueue)
    /\ listeners' = [listeners EXCEPT ![q] = @ \cup {c}]
    /\ Raise(Due(c))
    /\ raised' = IF Due(c) = <<>> THEN raised ELSE raised \cup {c}
    /\ IF q \in Targets
         THEN UNCHANGED <<stream, idle, tracker>>
         ELSE IF IsStarted
           THEN /\ idle' = FALSE
                /\ UNCHANGED <<stream, tracker>>
           ELSE /\ stream' = Started(stream)
                /\ HandleWatchStreamStart
                /\ UNCHANGED idle
    /\ UNCHANGED <<app, synced, disturbances>>

(* RemoveQueryListener.  After an error the query is gone already, or has  *)
(* other listeners.  With the last query the open stream is marked idle;   *)
(* one that is not open leaves the client in the state Unknown.            *)
RemoveQueryListener ==
    LET c == Head(workerQueue).call
        q == QueryOf[c]
        last == listeners[q] = {c}
    IN
    /\ workerQueue # <<>> /\ Head(workerQueue).kind = "remove"
    /\ workerQueue' = Tail(workerQueue)
    /\ listeners' = [listeners EXCEPT ![q] = @ \ {c}]
    /\ synced' = IF last THEN synced \ {q} ELSE synced
    /\ idle' = IF last /\ stream = "Open" THEN TargetsOf(listeners') = {} ELSE idle
    /\ IF last /\ stream # "Open" /\ TargetsOf(listeners') = {}
         THEN UpdateState("Unknown")
         ELSE UNCHANGED tracker
    /\ UNCHANGED <<app, raised, stream, mainQueue, disturbances>>

(* The stream has its token and opens; the watch requests are sent.        *)
OnWatchStreamOpen ==
    /\ stream = "Starting"
    /\ stream' = "Open"
    /\ UNCHANGED <<app, workerQueue, queries, idle, tracker, mainQueue, disturbances>>

(* OnWatchStreamClose with an error: for want of a token, by the server,   *)
(* the network or the keepalive timeout.  A stream still needed is started *)
(* again, which backs off.  That the server ends the stream with OK is not *)
(* modelled.                                                               *)
OnWatchStreamClose ==
    /\ stream \in {"Starting", "Open"}
    /\ idle' = FALSE
    /\ IF Targets = {}
         THEN /\ stream' = "Error"
              /\ UpdateState("Unknown")
              /\ UNCHANGED <<mainQueue, raised, synced>>
         ELSE /\ stream' = Started("Error")
              /\ HandleWatchStreamFailure
    /\ UNCHANGED <<app, workerQueue, listeners, disturbances>>

BackoffElapsed ==
    /\ stream = "Backoff"
    /\ stream' = "Starting"
    /\ UNCHANGED <<app, workerQueue, queries, idle, tracker, mainQueue, disturbances>>

(* The idle timer stops the stream. *)
IdleStop ==
    /\ idle
    /\ idle' = FALSE
    /\ stream' = "Initial"
    /\ UpdateState("Unknown")
    /\ UNCHANGED <<app, workerQueue, queries, mainQueue, disturbances>>

(* kOnlineStateTimeout is over. *)
OnlineStateTimeout ==
    /\ timer
    /\ timer' = FALSE
    /\ SetAndBroadcast("Offline")
    /\ UNCHANGED <<app, workerQueue, listeners, stream, idle, failing, disturbances>>

(* OnWatchStreamChange, for a message that completes no snapshot.          *)
Message ==
    /\ stream = "Open"
    /\ UpdateState("Online")
    /\ UNCHANGED <<app, workerQueue, queries, stream, idle, mainQueue, disturbances>>

(* OnWatchStreamChange: a snapshot in which the query is current.          *)
Synced(q) ==
    /\ stream = "Open"
    /\ q \in Targets \ synced
    /\ Len(mainQueue) < MaxBlocks
    /\ UpdateState("Online")
    /\ synced' = synced \cup {q}
    /\ Raise(EventsFor(listeners[q], "server"))
    /\ raised' = raised \cup listeners[q]
    /\ UNCHANGED <<app, workerQueue, listeners, stream, idle, disturbances>>

(* ProcessTargetError: the listeners hear of the error and are dropped.    *)
ProcessTargetError(q) ==
    /\ stream = "Open"
    /\ q \in Targets
    /\ UpdateState("Online")
    /\ Raise(EventsFor(listeners[q], "error"))
    /\ listeners' = [listeners EXCEPT ![q] = {}]
    /\ synced' = synced \ {q}
    /\ UNCHANGED <<app, workerQueue, raised, stream, idle, disturbances>>

Disturbed ==
    /\ disturbances < MaxDisturbances
    /\ disturbances' = disturbances + 1

(* EmitNewSnapshots after a local write: listeners that have raised their  *)
(* first event raise another one; a write none of them hears is left out.  *)
LocalWrite(q) ==
    /\ Disturbed
    /\ listeners[q] \cap raised # {}
    /\ Len(mainQueue) < MaxBlocks
    /\ Raise(EventsFor(listeners[q] \cap raised, IF q \in synced THEN "server" ELSE "cache"))
    /\ UNCHANGED <<app, workerQueue, queries, stream, idle, tracker>>

(* HandleCredentialChange: the stream is stopped, and started if needed.   *)
HandleCredentialChange ==
    /\ Disturbed
    /\ idle' = FALSE
    /\ failing' = FALSE
    /\ onlineState' = "Unknown"
    /\ timer' = (Targets # {})
    /\ stream' = IF Targets = {} THEN (IF IsStarted THEN "Initial" ELSE stream)
                 ELSE Started(IF IsStarted THEN "Initial" ELSE stream)
    /\ UNCHANGED <<app, workerQueue, queries, mainQueue>>

-----------------------------------------------------------------------------
(* The main queue. *)

SlipMute(c) == UNCHANGED muted
Mute(c) == muted' = muted \cup {c}

(* A muted listener drops the event.  ListenOnce hands an error on; at a   *)
(* snapshot it waits for its registration, removes it, which mutes the     *)
(* listener, and calls back.                                               *)
RunBlock ==
    LET c == Head(mainQueue).call
        result == Head(mainQueue).result
    IN
    /\ mainQueue # <<>>
    /\ mainQueue' = Tail(mainQueue)
    /\ IF c \in muted
         THEN UNCHANGED <<muted, told, workerQueue>>
         ELSE /\ told' = [told EXCEPT ![c] = Append(@, result)]
              /\ IF result = "error"
                   THEN UNCHANGED <<muted, workerQueue>>
                   ELSE /\ c \in resolved
                        /\ Mute(c)
                        /\ workerQueue' = Append(workerQueue, [kind |-> "remove", call |-> c])
    /\ UNCHANGED <<asked, resolved, queries, stream, idle, tracker, disturbances>>

-----------------------------------------------------------------------------
Next ==
    \/ \E c \in Call : GetDocuments(c) \/ Resolve(c)
    \/ AddQueryListener \/ RemoveQueryListener
    \/ OnWatchStreamOpen \/ OnWatchStreamClose \/ BackoffElapsed
    \/ IdleStop \/ OnlineStateTimeout
    \/ Message
    \/ \E q \in Query : Synced(q) \/ ProcessTargetError(q) \/ LocalWrite(q)
    \/ HandleCredentialChange
    \/ RunBlock

Spec == Init /\ [][Next]_vars

(* Threads, queues and timers go on; an attempt to connect may hang.       *)
TimedSpec ==
    /\ Spec
    /\ WF_vars(\E c \in Call : Resolve(c))
    /\ WF_vars(AddQueryListener \/ RemoveQueryListener)
    /\ WF_vars(RunBlock)
    /\ WF_vars(OnlineStateTimeout) /\ WF_vars(BackoffElapsed)

(* A stream that starts gets its token or an error; one that was sent a    *)
(* request gets an answer or fails, by gRPC's keepalive if need be; and a  *)
(* server that is heard again and again answers queries at last.           *)
TokenComes == stream = "Starting" /\ (OnWatchStreamOpen \/ OnWatchStreamClose)
AttemptEnds ==
    /\ Targets \ synced # {}
    /\ stream = "Open"
    /\ OnWatchStreamClose \/ \E q \in Query : Synced(q) \/ ProcessTargetError(q)
HeardServerAnswers == onlineState = "Online" /\ \E q \in Query : Synced(q)

FairSpec ==
    /\ TimedSpec
    /\ WF_vars(TokenComes) /\ WF_vars(AttemptEnds)
    /\ SF_vars(HeardServerAnswers)

-----------------------------------------------------------------------------
(* Properties. *)

(* The assertions of OnlineStateTracker: when its timer fires the state is *)
(* Unknown (online_state_tracker.cc:66); a stream that fails on line has   *)
(* no failure and no timer on record (84, 86); and none is on record when  *)
(* a stream is started for the first time (59).  The idle timer never      *)
(* fires on a watch stream that is needed: the client's own stops keep the *)
(* assertion at remote_store.cc:216.                                       *)
AssertsHold ==
    /\ timer => onlineState = "Unknown"
    /\ onlineState = "Online" => ~failing /\ ~timer
    /\ ~IsStarted => ~timer
    /\ idle => Targets = {}

(* No listener misses its event: one that waits does so with a view out of *)
(* sync, in a client that may be on line, and with a stream under way.     *)
NobodyWaitsInVain ==
    \A q \in Query : \A c \in listeners[q] \ raised :
        q \notin synced /\ onlineState # "Offline" /\ IsStarted

(* The callback runs once, whatever snapshots and errors are raised before *)
(* the listener is taken away.                                             *)
CalledBackOnce == \A c \in Call : Len(told[c]) <= 1

(* A call that has no answer is not lost on its way over the three         *)
(* threads: its listener is still to be added, or waits for its first      *)
(* event, or an event for it is on the main queue and will not be dropped. *)
(* With NobodyWaitsInVain and fairness that is what Answered needs.        *)
NotForgotten ==
    \A c \in asked : told[c] = <<>> =>
        \/ \E i \in DOMAIN workerQueue : workerQueue[i] = [kind |-> "add", call |-> c]
        \/ c \in listeners[QueryOf[c]] \ raised
        \/ c \notin muted /\ \E i \in DOMAIN mainQueue : mainQueue[i].call = c

(* Every call is answered: by the server, or from the cache.               *)
Answered == \A c \in Call : c \in asked ~> told[c] # <<>>

(* What a comment says of the timer (online_state_tracker.cc:45): "we have *)
(* a timeout for OnlineState to reach Online or Offline. If the timeout is *)
(* reached, we transition to Offline rather than waiting indefinitely."    *)
UnknownEnds ==
    onlineState = "Unknown" /\ Targets # {} ~> onlineState # "Unknown" \/ Targets = {}
===============================================================================
