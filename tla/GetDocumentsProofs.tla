-------------------------- MODULE GetDocumentsProofs --------------------------
(***************************************************************************)
(* Reading a collection, for any calls, queries and numbers of failures:   *)
(* the assertions of the online state, that no listener misses its event,  *)
(* and that no callback runs twice.                                        *)
(***************************************************************************)
EXTENDS GetDocuments, FunctionTheorems, FiniteSetTheorems, SequenceTheorems, TLAPS

(* The stream is under way when somebody listens, and open when it idles.  *)
StreamForTargets ==
    /\ idle => stream = "Open"
    /\ Targets # {} => IsStarted

StreamInv == AssertsHold /\ StreamForTargets

IsAdd(i) == i \in DOMAIN workerQueue /\ workerQueue[i].kind = "add"
Pending(c) == \E i \in DOMAIN mainQueue : mainQueue[i].call = c

ListenersOfQuery ==
    \A q \in Query : \A c \in listeners[q] : q = QueryOf[c] /\ c \in asked

OnlyAsked ==
    \A c \in Call : Pending(c) \/ told[c] # <<>> => c \in asked

(* A listener is added once, before anything else happens to its call.     *)
AddedOnce ==
    \A i \in DOMAIN workerQueue : IsAdd(i) =>
        /\ workerQueue[i].call \in asked
        /\ workerQueue[i].call \notin Listening
        /\ ~Pending(workerQueue[i].call)
        /\ told[workerQueue[i].call] = <<>>
        /\ \A j \in DOMAIN workerQueue :
               IsAdd(j) /\ workerQueue[j].call = workerQueue[i].call => i = j

(* An error is the last that is raised for a call.                         *)
ErrorIsLast ==
    \A i \in DOMAIN mainQueue : mainQueue[i].result = "error" =>
        /\ mainQueue[i].call \notin Listening
        /\ \A j \in DOMAIN mainQueue : mainQueue[j].call = mainQueue[i].call => j <= i

(* A call that was answered hears no more.                                 *)
AnsweredIsOver ==
    \A c \in Call : told[c] # <<>> =>
        /\ Len(told[c]) = 1
        /\ c \in muted \/ (c \notin Listening /\ ~Pending(c))

OnceInv ==
    /\ ListenersOfQuery /\ OnlyAsked
    /\ AddedOnce /\ ErrorIsLast /\ AnsweredIsOver

-----------------------------------------------------------------------------
(* Sequences. *)

LEMMA Appended ==
    ASSUME NEW S, NEW s \in Seq(S), NEW e \in S
    PROVE  /\ Append(s, e) \in Seq(S)
           /\ Len(s) \in Nat /\ DOMAIN s = 1..Len(s)
           /\ DOMAIN Append(s, e) = 1..Len(s) + 1
           /\ \A i \in 1..Len(s) : Append(s, e)[i] = s[i]
           /\ Append(s, e)[Len(s) + 1] = e
BY AppendProperties, LenProperties

LEMMA Popped ==
    ASSUME NEW S, NEW s \in Seq(S), s # <<>>
    PROVE  /\ Tail(s) \in Seq(S)
           /\ Len(s) \in Nat /\ Len(s) > 0
           /\ DOMAIN Tail(s) = 1..Len(s) - 1
           /\ DOMAIN s = 1..Len(s)
           /\ \A i \in 1..Len(s) - 1 : Tail(s)[i] = s[i + 1]
           /\ Head(s) = s[1] /\ Head(s) \in S
BY HeadTailProperties, LenProperties

(* EventsFor gives one event to each of some calls.                        *)
LEMMA EventsForCalls ==
    ASSUME NEW calls \in SUBSET Call, NEW result \in Results
    PROVE  /\ EventsFor(calls, result) \in Seq(Events)
           /\ \A i \in DOMAIN EventsFor(calls, result) :
                  /\ EventsFor(calls, result)[i].call \in calls
                  /\ EventsFor(calls, result)[i].result = result
           /\ \A i, j \in DOMAIN EventsFor(calls, result) :
                  EventsFor(calls, result)[i].call = EventsFor(calls, result)[j].call => i = j
<1> DEFINE n == Cardinality(calls)
           order == SetToSeq(calls)
           events == [i \in DOMAIN order |-> [call |-> order[i], result |-> result]]
<1>1. n \in Nat /\ ExistsBijection(1..n, calls)
  BY CallAssumption, FS_Subset, FS_CardinalityType
<1>2. \E f \in [1..n -> calls] : IsInjective(f)
  BY <1>1 DEF ExistsBijection, Bijection, Injection
<1>3. order \in [1..n -> calls] /\ IsInjective(order)
  BY <1>2 DEF SetToSeq
<1> HIDE DEF order
<1>4. events \in [1..n -> Events] /\ DOMAIN events = 1..n
  BY <1>3 DEF Events
<1>5. events \in Seq(Events)
  BY <1>1, <1>4, SeqDef
<1>6. \A i, j \in 1..n : order[i] = order[j] => i = j
  BY <1>3 DEF IsInjective
<1>7. \A i \in 1..n : order[i] \in calls /\ events[i].call = order[i] /\ events[i].result = result
  BY <1>3
<1>8. EventsFor(calls, result) = events
  BY DEF EventsFor, order
<1> HIDE DEF events
<1> QED
  BY <1>4, <1>5, <1>6, <1>7, <1>8

LEMMA RaisedEvents ==
    ASSUME mainQueue \in Seq(Events), NEW calls \in SUBSET Call, NEW result \in Results,
           Raise(EventsFor(calls, result))
    PROVE  /\ mainQueue' \in Seq(Events)
           /\ Len(mainQueue) \in Nat /\ DOMAIN mainQueue = 1..Len(mainQueue)
           /\ DOMAIN mainQueue' \subseteq Nat
           /\ \A i \in 1..Len(mainQueue) : i \in DOMAIN mainQueue' /\ mainQueue'[i] = mainQueue[i]
           /\ \A i \in DOMAIN mainQueue' : i > Len(mainQueue) =>
                  mainQueue'[i].call \in calls /\ mainQueue'[i].result = result
           /\ \A i, j \in DOMAIN mainQueue' :
                  i > Len(mainQueue) /\ j > Len(mainQueue) /\ mainQueue'[i].call = mainQueue'[j].call
                      => i = j
<1> DEFINE events == EventsFor(calls, result)
           n == Len(mainQueue)
           k == Len(events)
<1>1. /\ events \in Seq(Events)
      /\ \A i \in DOMAIN events : events[i].call \in calls /\ events[i].result = result
      /\ \A i, j \in DOMAIN events : events[i].call = events[j].call => i = j
  BY EventsForCalls
<1> HIDE DEF events
<1>2. mainQueue' = mainQueue \o events
  BY DEF Raise, events
<1>3. n \in Nat /\ k \in Nat /\ DOMAIN mainQueue = 1..n /\ DOMAIN events = 1..k
  BY <1>1, LenProperties
<1>4. /\ mainQueue' \in Seq(Events) /\ Len(mainQueue') = n + k
      /\ \A i \in 1..n+k : mainQueue'[i] = IF i <= n THEN mainQueue[i] ELSE events[i - n]
  BY <1>1, <1>2, <1>3, ConcatProperties
<1>5. DOMAIN mainQueue' = 1..n+k
  BY <1>4, LenProperties
<1>6. \A i \in 1..n+k : i > n => i - n \in 1..k /\ mainQueue'[i] = events[i - n]
  BY <1>3, <1>4
<1>7. ASSUME NEW i \in 1..n+k, NEW j \in 1..n+k, i > n, j > n, mainQueue'[i].call = mainQueue'[j].call
      PROVE  i = j
  <2>1. i - n = j - n
    BY <1>1, <1>3, <1>6, <1>7
  <2> QED
    BY <1>3, <2>1
<1> QED
  BY <1>1, <1>3, <1>4, <1>5, <1>6, <1>7

LEMMA DueEvents ==
    ASSUME TypeOK, NEW c \in Call
    PROVE  \/ Due(c) = <<>>
           \/ \E result \in {"server", "cache"} : Due(c) = <<[call |-> c, result |-> result]>>
BY DEF Due

LEMMA RaisedDue ==
    ASSUME TypeOK, NEW c \in Call, Raise(Due(c))
    PROVE  \/ mainQueue' = mainQueue
           \/ \E e \in Events : e.call = c /\ e.result # "error" /\ mainQueue' = Append(mainQueue, e)
<1>1. mainQueue \in Seq(Events)
  BY DEF TypeOK
<1>2. CASE Due(c) = <<>>
  BY <1>1, <1>2, ConcatEmptySeq DEF Raise
<1>3. ASSUME NEW result \in {"server", "cache"}, Due(c) = <<[call |-> c, result |-> result]>>
      PROVE  \E e \in Events : e.call = c /\ e.result # "error" /\ mainQueue' = Append(mainQueue, e)
  <2> DEFINE e == [call |-> c, result |-> result]
  <2>1. e \in Events /\ e.call = c /\ e.result # "error"
    BY DEF Events, Results
  <2> HIDE DEF e
  <2>2. mainQueue' = Append(mainQueue, e)
    BY <1>1, <1>3, <2>1, AppendIsConcat DEF Raise, e
  <2> QED
    BY <2>1, <2>2
<1> QED
  BY <1>2, <1>3, DueEvents

LEMMA ListeningCalls == TypeOK => Listening \subseteq Call /\ \A q \in Query : listeners[q] \subseteq Listening
BY DEF TypeOK, Listening

-----------------------------------------------------------------------------
(* Type correctness. *)

LEMMA InitType == Init => TypeOK
<1> SUFFICES ASSUME Init PROVE TypeOK
  OBVIOUS
<1>1. /\ <<>> \in Seq(Tasks) /\ <<>> \in Seq(Events)
      /\ [c \in Call |-> <<>>] \in [Call -> Seq(Results)]
  BY EmptySeq
<1>2. 0 \in 0..MaxDisturbances
  BY BoundAssumption
<1>3. asked = {} /\ resolved \subseteq asked /\ muted \subseteq Call /\ raised \subseteq Call
      /\ synced \subseteq Query /\ listeners \in [Query -> SUBSET Call]
  BY DEF Init
<1> QED
  BY <1>1, <1>2, <1>3 DEF Init, TypeOK

LEMMA BroadcastType ==
    ASSUME TypeOK, NEW state \in {"Unknown", "Online", "Offline"}, SetAndBroadcast(state)
    PROVE  /\ onlineState' = state
           /\ mainQueue' \in Seq(Events) /\ raised' \subseteq Call /\ synced' \subseteq Query
<1>1. CASE state = "Offline" /\ onlineState # "Offline"
  <2> DEFINE hearing == {c \in Listening : c \notin raised \/ QueryOf[c] \in synced}
  <2>1. hearing \subseteq Call /\ Listening \subseteq Call /\ "cache" \in Results
    BY ListeningCalls DEF Results
  <2>2. Raise(EventsFor(hearing, "cache")) /\ raised' = raised \cup Listening /\ synced' = {}
    BY <1>1 DEF SetAndBroadcast
  <2> QED
    BY <2>1, <2>2, RaisedEvents DEF TypeOK, SetAndBroadcast
<1>2. CASE ~(state = "Offline" /\ onlineState # "Offline")
  BY <1>2 DEF SetAndBroadcast, TypeOK
<1> QED
  BY <1>1, <1>2

LEMMA TargetsListen == TypeOK => \A q \in Targets : q \in Query /\ listeners[q] # {}
BY DEF Targets, TargetsOf

LEMMA StepType == TypeOK /\ [Next]_vars => TypeOK'
<1> SUFFICES ASSUME TypeOK, [Next]_vars PROVE TypeOK'
  OBVIOUS
<1>1. ASSUME NEW c \in Call, GetDocuments(c) PROVE TypeOK'
  <2>1. [kind |-> "add", call |-> c] \in Tasks
    BY DEF Tasks
  <2>2. workerQueue' \in Seq(Tasks)
    BY <1>1, <2>1, AppendProperties DEF GetDocuments, TypeOK
  <2> QED
    BY <1>1, <2>2 DEF GetDocuments, TypeOK, queries, tracker
<1>2. ASSUME NEW c \in Call, Resolve(c) PROVE TypeOK'
  BY <1>2 DEF Resolve, TypeOK, queries, tracker
<1>3. CASE AddQueryListener
  <2> DEFINE c == Head(workerQueue).call
  <2>1. Head(workerQueue) \in Tasks /\ workerQueue' \in Seq(Tasks)
    BY <1>3, Popped DEF AddQueryListener, TypeOK
  <2>2. c \in Call /\ QueryOf[c] \in Query
    BY <2>1, QueryAssumption DEF Tasks
  <2>3. mainQueue' \in Seq(Events)
    <3>1. Raise(Due(c))
      BY <1>3 DEF AddQueryListener
    <3> QED
      <4>1. CASE mainQueue' = mainQueue
        BY <4>1 DEF TypeOK
      <4>2. ASSUME NEW e \in Events, mainQueue' = Append(mainQueue, e)
            PROVE  mainQueue' \in Seq(Events)
        BY <4>2, AppendProperties DEF TypeOK
      <4> QED
        BY <2>2, <3>1, <4>1, <4>2, RaisedDue
  <2>4. listeners' \in [Query -> SUBSET Call] /\ raised' \subseteq Call
    BY <1>3, <2>2 DEF AddQueryListener, TypeOK
  <2>5. /\ stream' \in {"Initial", "Starting", "Open", "Error", "Backoff"}
        /\ idle' \in BOOLEAN /\ failing' \in BOOLEAN /\ timer' \in BOOLEAN
        /\ onlineState' \in {"Unknown", "Online", "Offline"}
    BY <1>3 DEF AddQueryListener, TypeOK, tracker, HandleWatchStreamStart, Started
  <2> QED
    BY <1>3, <2>1, <2>3, <2>4, <2>5 DEF AddQueryListener, TypeOK, app
<1>4. CASE RemoveQueryListener
  <2>1. workerQueue' \in Seq(Tasks)
    BY <1>4, Popped DEF RemoveQueryListener, TypeOK
  <2>2. listeners' \in [Query -> SUBSET Call] /\ synced' \subseteq Query
    BY <1>4 DEF RemoveQueryListener, TypeOK
  <2>3. /\ idle' \in BOOLEAN /\ failing' \in BOOLEAN /\ timer' \in BOOLEAN
        /\ onlineState' \in {"Unknown", "Online", "Offline"}
    BY <1>4 DEF RemoveQueryListener, TypeOK, tracker, UpdateState
  <2> QED
    BY <1>4, <2>1, <2>2, <2>3 DEF RemoveQueryListener, TypeOK, app
<1>5. CASE OnWatchStreamOpen
  BY <1>5 DEF OnWatchStreamOpen, TypeOK, app, queries, tracker
<1>6. CASE OnWatchStreamClose
  <2>1. CASE Targets = {}
    BY <1>6, <2>1 DEF OnWatchStreamClose, UpdateState, TypeOK, app
  <2>2. CASE Targets # {}
    <3>1. HandleWatchStreamFailure /\ stream' = "Backoff" /\ idle' = FALSE
      BY <1>6, <2>2 DEF OnWatchStreamClose, Started
    <3>2. /\ onlineState' \in {"Unknown", "Online", "Offline"}
          /\ mainQueue' \in Seq(Events) /\ raised' \subseteq Call /\ synced' \subseteq Query
      BY <3>1, BroadcastType DEF HandleWatchStreamFailure
    <3> QED
      BY <1>6, <3>1, <3>2 DEF OnWatchStreamClose, HandleWatchStreamFailure, TypeOK, app
  <2> QED
    BY <2>1, <2>2
<1>7. CASE BackoffElapsed
  BY <1>7 DEF BackoffElapsed, TypeOK, app, queries, tracker
<1>8. CASE IdleStop
  BY <1>8 DEF IdleStop, UpdateState, TypeOK, app, queries
<1>9. CASE OnlineStateTimeout
  BY <1>9, BroadcastType DEF OnlineStateTimeout, TypeOK, app
<1>10. CASE Message
  BY <1>10 DEF Message, UpdateState, TypeOK, app, queries
<1>11. ASSUME NEW q \in Query, Synced(q) PROVE TypeOK'
  <2>1. listeners[q] \subseteq Call /\ "server" \in Results
    BY DEF TypeOK, Results
  <2>2. mainQueue' \in Seq(Events)
    BY <1>11, <2>1, RaisedEvents DEF Synced, TypeOK
  <2> QED
    BY <1>11, <2>1, <2>2 DEF Synced, UpdateState, TypeOK, app
<1>12. ASSUME NEW q \in Query, ProcessTargetError(q) PROVE TypeOK'
  <2>1. listeners[q] \subseteq Call /\ "error" \in Results
    BY DEF TypeOK, Results
  <2>2. mainQueue' \in Seq(Events)
    BY <1>12, <2>1, RaisedEvents DEF ProcessTargetError, TypeOK
  <2> QED
    BY <1>12, <2>2 DEF ProcessTargetError, UpdateState, TypeOK, app
<1>13. ASSUME NEW q \in Query, LocalWrite(q) PROVE TypeOK'
  <2> DEFINE result == IF q \in synced THEN "server" ELSE "cache"
  <2>1. listeners[q] \cap raised \subseteq Call /\ result \in Results
    BY DEF TypeOK, Results
  <2> HIDE DEF result
  <2>2. Raise(EventsFor(listeners[q] \cap raised, result))
    BY <1>13 DEF LocalWrite, result
  <2>3. mainQueue' \in Seq(Events)
    BY <2>1, <2>2, RaisedEvents DEF TypeOK
  <2> QED
    BY <1>13, <2>3, BoundAssumption DEF LocalWrite, Disturbed, TypeOK, app, queries, tracker
<1>14. CASE HandleCredentialChange
  <2>1. stream' \in {"Initial", "Starting", "Open", "Error", "Backoff"}
    BY <1>14 DEF HandleCredentialChange, Started, TypeOK
  <2>2. timer' \in BOOLEAN
    BY <1>14 DEF HandleCredentialChange
  <2>3. disturbances' \in 0..MaxDisturbances
    BY <1>14, BoundAssumption DEF HandleCredentialChange, Disturbed, TypeOK
  <2> QED
    BY <1>14, <2>1, <2>2, <2>3 DEF HandleCredentialChange, TypeOK, app, queries
<1>15. CASE RunBlock
  <2> DEFINE c == Head(mainQueue).call
             result == Head(mainQueue).result
  <2>1. Head(mainQueue) \in Events /\ mainQueue' \in Seq(Events)
    BY <1>15, Popped DEF RunBlock, TypeOK
  <2>2. c \in Call /\ result \in Results
    BY <2>1 DEF Events
  <2>3. told' \in [Call -> Seq(Results)]
    <3>1. Append(told[c], result) \in Seq(Results)
      BY <2>2, AppendProperties DEF TypeOK
    <3> QED
      BY <1>15, <2>2, <3>1 DEF RunBlock, TypeOK
  <2>4. workerQueue' \in Seq(Tasks) /\ muted' \subseteq Call
    <3>1. [kind |-> "remove", call |-> c] \in Tasks
      BY <2>2 DEF Tasks
    <3>2. CASE UNCHANGED <<muted, workerQueue>>
      BY <3>2 DEF TypeOK
    <3>3. CASE ~UNCHANGED <<muted, workerQueue>>
      <4>1. /\ workerQueue' = Append(workerQueue, [kind |-> "remove", call |-> c])
            /\ muted' = muted \cup {c}
        BY <1>15, <3>3 DEF RunBlock, Mute
      <4> QED
        BY <2>2, <3>1, <4>1, AppendProperties DEF TypeOK
    <3> QED
      BY <3>2, <3>3
  <2> QED
    BY <1>15, <2>1, <2>3, <2>4 DEF RunBlock, TypeOK, queries, tracker
<1>16. CASE UNCHANGED vars
  BY <1>16 DEF TypeOK, vars, app, queries, tracker
<1> QED
  BY <1>1, <1>2, <1>3, <1>4, <1>5, <1>6, <1>7, <1>8, <1>9, <1>10, <1>11, <1>12, <1>13, <1>14,
     <1>15, <1>16 DEF Next

-----------------------------------------------------------------------------
(* The online state and the stream. *)

LEMMA TargetsMonotone ==
    ASSUME TypeOK, TypeOK', \A q \in Query : listeners[q]' \subseteq listeners[q]
    PROVE  Targets' \subseteq Targets
BY DEF Targets, TargetsOf

LEMMA StepStream == TypeOK /\ TypeOK' /\ StreamInv /\ [Next]_vars => StreamInv'
<1> SUFFICES ASSUME TypeOK, TypeOK', StreamInv, [Next]_vars PROVE StreamInv'
  OBVIOUS
<1> USE DEF StreamInv, AssertsHold, StreamForTargets
<1>1. CASE UNCHANGED <<listeners, stream, idle, tracker>>
  BY <1>1 DEF tracker, Targets, TargetsOf, IsStarted
<1>2. CASE AddQueryListener
  <2> DEFINE c == Head(workerQueue).call
             q == QueryOf[c]
  <2>1. Head(workerQueue) \in Tasks
    BY <1>2, Popped DEF AddQueryListener, TypeOK
  <2>2. c \in Call /\ q \in Query
    BY <2>1, QueryAssumption DEF Tasks
  <2>3. listeners' = [listeners EXCEPT ![q] = @ \cup {c}]
    BY <1>2 DEF AddQueryListener
  <2>4. Targets' = Targets \cup {q}
    <3>1. \A p \in Query : listeners'[p] = IF p = q THEN listeners[p] \cup {c} ELSE listeners[p]
      BY <2>2, <2>3 DEF TypeOK
    <3>2. \A p \in Query : listeners'[p] # {} <=> (p = q \/ listeners[p] # {})
      BY <3>1
    <3> QED
      BY <2>2, <3>2 DEF Targets, TargetsOf
  <2>5. CASE q \in Targets
    <3>1. UNCHANGED <<stream, idle, tracker>>
      BY <1>2, <2>5 DEF AddQueryListener
    <3> QED
      BY <2>4, <2>5, <3>1 DEF tracker, IsStarted
  <2>6. CASE q \notin Targets /\ IsStarted
    <3>1. UNCHANGED <<stream, tracker>> /\ idle' = FALSE
      BY <1>2, <2>6 DEF AddQueryListener
    <3> QED
      BY <2>6, <3>1 DEF tracker, IsStarted
  <2>7. CASE q \notin Targets /\ ~IsStarted
    <3>1. stream' = Started(stream) /\ HandleWatchStreamStart /\ UNCHANGED idle
      BY <1>2, <2>7 DEF AddQueryListener
    <3>2. stream' \in {"Backoff", "Starting"} /\ stream # "Open"
      BY <2>7, <3>1 DEF Started, IsStarted
    <3> QED
      BY <2>7, <3>1, <3>2 DEF HandleWatchStreamStart, IsStarted, TypeOK
  <2> QED
    BY <2>5, <2>6, <2>7
<1>3. CASE RemoveQueryListener
  <2> DEFINE c == Head(workerQueue).call
             last == listeners[QueryOf[c]] = {c}
  <2>1. listeners' = [listeners EXCEPT ![QueryOf[c]] = @ \ {c}]
    BY <1>3 DEF RemoveQueryListener
  <2>2. Targets' \subseteq Targets
    BY <2>1, TargetsMonotone DEF TypeOK
  <2>3. Targets' = TargetsOf(listeners')
    BY DEF Targets, TargetsOf
  <2>4. CASE last
    BY <1>3, <2>2, <2>3, <2>4 DEF RemoveQueryListener, UpdateState, tracker, IsStarted
  <2>5. CASE ~last
    BY <1>3, <2>2, <2>5 DEF RemoveQueryListener, tracker, IsStarted
  <2> QED
    BY <2>4, <2>5
<1>4. CASE OnWatchStreamOpen
  BY <1>4 DEF OnWatchStreamOpen, queries, tracker, Targets, TargetsOf, IsStarted
<1>5. CASE OnWatchStreamClose
  <2>1. Targets' = Targets /\ idle' = FALSE
    BY <1>5 DEF OnWatchStreamClose, Targets, TargetsOf
  <2>2. CASE Targets = {}
    BY <1>5, <2>1, <2>2 DEF OnWatchStreamClose, UpdateState, IsStarted
  <2>3. CASE Targets # {}
    <3>1. stream' = "Backoff" /\ HandleWatchStreamFailure
      BY <1>5, <2>3 DEF OnWatchStreamClose, Started
    <3>2. /\ timer' = (onlineState = "Online")
          /\ onlineState' = IF onlineState = "Online" THEN "Unknown" ELSE "Offline"
      BY <3>1 DEF HandleWatchStreamFailure, SetAndBroadcast
    <3> QED
      BY <2>1, <3>1, <3>2 DEF IsStarted
  <2> QED
    BY <2>2, <2>3
<1>6. CASE BackoffElapsed
  BY <1>6 DEF BackoffElapsed, queries, tracker, Targets, TargetsOf, IsStarted
<1>7. CASE IdleStop
  BY <1>7 DEF IdleStop, UpdateState, queries, Targets, TargetsOf, IsStarted
<1>8. CASE OnlineStateTimeout
  <2>1. onlineState' = "Offline" /\ timer' = FALSE /\ UNCHANGED <<listeners, stream, idle, failing>>
    BY <1>8 DEF OnlineStateTimeout, SetAndBroadcast
  <2> QED
    BY <2>1 DEF Targets, TargetsOf, IsStarted
<1>9. CASE Message
  BY <1>9 DEF Message, UpdateState, queries, Targets, TargetsOf, IsStarted
<1>10. ASSUME NEW q \in Query, Synced(q) PROVE StreamInv'
  BY <1>10 DEF Synced, UpdateState, Targets, TargetsOf, IsStarted
<1>11. ASSUME NEW q \in Query, ProcessTargetError(q) PROVE StreamInv'
  <2>1. listeners' = [listeners EXCEPT ![q] = {}]
    BY <1>11 DEF ProcessTargetError
  <2>2. Targets' \subseteq Targets
    BY <2>1, TargetsMonotone DEF TypeOK
  <2> QED
    BY <1>11, <2>2 DEF ProcessTargetError, UpdateState, IsStarted
<1>12. CASE HandleCredentialChange
  <2>1. Targets' = Targets /\ idle' = FALSE /\ failing' = FALSE /\ onlineState' = "Unknown"
        /\ timer' = (Targets # {})
    BY <1>12 DEF HandleCredentialChange, queries, Targets, TargetsOf
  <2>2. Targets # {} => stream' \in {"Backoff", "Starting"}
    BY <1>12 DEF HandleCredentialChange, Started
  <2> QED
    BY <2>1, <2>2 DEF IsStarted
<1>13. ASSUME NEW c \in Call, GetDocuments(c) \/ Resolve(c) PROVE StreamInv'
  BY <1>1, <1>13 DEF GetDocuments, Resolve, queries
<1>14. ASSUME NEW q \in Query, LocalWrite(q) PROVE StreamInv'
  BY <1>1, <1>14 DEF LocalWrite, queries
<1>15. CASE RunBlock
  BY <1>1, <1>15 DEF RunBlock, queries
<1>16. CASE UNCHANGED vars
  BY <1>1, <1>16 DEF vars, queries
<1> QED
  BY <1>2, <1>3, <1>4, <1>5, <1>6, <1>7, <1>8, <1>9, <1>10, <1>11, <1>12, <1>13, <1>14, <1>15, <1>16
  DEF Next

-----------------------------------------------------------------------------
(* Nobody waits in vain. *)

(* All but that the stream is under way, which StreamForTargets says.      *)
WaitingInv ==
    \A q \in Query : \A c \in listeners[q] \ raised : q \notin synced /\ onlineState # "Offline"

LEMMA WaitingSuffices ==
    ASSUME TypeOK, StreamInv, WaitingInv
    PROVE  NobodyWaitsInVain
BY DEF WaitingInv, StreamInv, StreamForTargets, NobodyWaitsInVain, Targets, TargetsOf

(* Those who wait wait on, while no view gets in sync and the state does   *)
(* not become Offline.                                                     *)
LEMMA WaitingGoesOn ==
    ASSUME TypeOK, WaitingInv, \A q \in Query : listeners'[q] \subseteq listeners[q],
           raised \subseteq raised', synced' \subseteq synced,
           onlineState' \in {onlineState, "Unknown", "Online"}
    PROVE  WaitingInv'
BY DEF WaitingInv

LEMMA BroadcastWaiting ==
    ASSUME TypeOK, WaitingInv, UNCHANGED listeners, NEW state \in {"Unknown", "Offline"},
           SetAndBroadcast(state)
    PROVE  WaitingInv'
<1>1. CASE state = "Offline" /\ onlineState # "Offline"
  <2>1. raised' = raised \cup Listening
    BY <1>1 DEF SetAndBroadcast
  <2>2. \A q \in Query : listeners'[q] \subseteq raised'
    BY <2>1, ListeningCalls
  <2> QED
    BY <2>2 DEF WaitingInv
<1>2. CASE ~(state = "Offline" /\ onlineState # "Offline")
  <2>1. UNCHANGED <<raised, synced>> /\ onlineState' = state
    BY <1>2 DEF SetAndBroadcast
  <2> QED
    BY <1>2, <2>1, WaitingGoesOn DEF WaitingInv
<1> QED
  BY <1>1, <1>2

LEMMA StepWaiting == TypeOK /\ WaitingInv /\ [Next]_vars => WaitingInv'
<1> SUFFICES ASSUME TypeOK, WaitingInv, [Next]_vars PROVE WaitingInv'
  OBVIOUS
<1>1. CASE UNCHANGED <<queries, tracker>>
  BY <1>1 DEF WaitingInv, queries, tracker
<1>2. CASE UNCHANGED <<listeners, raised, synced>> /\ onlineState' \in {"Unknown", "Online"}
  BY <1>2, WaitingGoesOn
<1>3. CASE AddQueryListener
  <2> DEFINE c == Head(workerQueue).call
             q == QueryOf[c]
  <2>1. Head(workerQueue) \in Tasks
    BY <1>3, Popped DEF AddQueryListener, TypeOK
  <2>2. c \in Call /\ q \in Query
    BY <2>1, QueryAssumption DEF Tasks
  <2>3. /\ listeners' = [listeners EXCEPT ![q] = @ \cup {c}]
        /\ raised' = IF Due(c) = <<>> THEN raised ELSE raised \cup {c}
        /\ UNCHANGED synced
    BY <1>3 DEF AddQueryListener
  <2>4. onlineState' \in {onlineState, "Unknown"}
    BY <1>3 DEF AddQueryListener, HandleWatchStreamStart, tracker
  <2>5. Due(c) = <<>> => q \notin synced /\ onlineState # "Offline"
    BY DEF Due
  <2>6. \A p \in Query : \A d \in listeners'[p] \ raised' :
           (d \in listeners[p] \ raised) \/ (p = q /\ Due(c) = <<>>)
    <3>1. \A p \in Query : listeners'[p] = IF p = q THEN listeners[p] \cup {c} ELSE listeners[p]
      BY <2>2, <2>3 DEF TypeOK
    <3>2. raised \subseteq raised' /\ (Due(c) # <<>> => c \in raised')
      BY <2>3
    <3> QED
      BY <3>1, <3>2
  <2> QED
    BY <2>3, <2>4, <2>5, <2>6 DEF WaitingInv
<1>4. CASE RemoveQueryListener
  <2> DEFINE c == Head(workerQueue).call
  <2>1. /\ listeners' = [listeners EXCEPT ![QueryOf[c]] = @ \ {c}]
        /\ synced' \subseteq synced /\ UNCHANGED raised
    BY <1>4 DEF RemoveQueryListener
  <2>2. onlineState' \in {onlineState, "Unknown"}
    BY <1>4 DEF RemoveQueryListener, UpdateState, tracker
  <2>3. \A p \in Query : listeners'[p] \subseteq listeners[p]
    BY <2>1 DEF TypeOK
  <2> QED
    BY <2>1, <2>2, <2>3, WaitingGoesOn
<1>5. CASE OnWatchStreamClose
  <2>1. CASE Targets = {}
    BY <1>2, <1>5, <2>1 DEF OnWatchStreamClose, UpdateState
  <2>2. CASE Targets # {}
    <3>1. HandleWatchStreamFailure /\ UNCHANGED listeners
      BY <1>5, <2>2 DEF OnWatchStreamClose
    <3> QED
      BY <3>1, BroadcastWaiting DEF HandleWatchStreamFailure
  <2> QED
    BY <2>1, <2>2
<1>6. CASE OnlineStateTimeout
  BY <1>6, BroadcastWaiting DEF OnlineStateTimeout
<1>7. ASSUME NEW q \in Query, Synced(q) PROVE WaitingInv'
  <2>1. /\ UNCHANGED listeners /\ raised' = raised \cup listeners[q]
        /\ synced' = synced \cup {q} /\ onlineState' = "Online"
    BY <1>7 DEF Synced, UpdateState
  <2> QED
    BY <2>1 DEF WaitingInv
<1>8. ASSUME NEW q \in Query, ProcessTargetError(q) PROVE WaitingInv'
  <2>1. /\ listeners' = [listeners EXCEPT ![q] = {}] /\ UNCHANGED raised
        /\ synced' \subseteq synced /\ onlineState' = "Online"
    BY <1>8 DEF ProcessTargetError, UpdateState
  <2>2. \A p \in Query : listeners'[p] \subseteq listeners[p]
    BY <2>1 DEF TypeOK
  <2> QED
    BY <2>1, <2>2, WaitingGoesOn
<1>9. CASE IdleStop \/ Message \/ HandleCredentialChange
  BY <1>2, <1>9 DEF IdleStop, Message, HandleCredentialChange, UpdateState, queries
<1>10. ASSUME NEW c \in Call, GetDocuments(c) \/ Resolve(c) PROVE WaitingInv'
  BY <1>1, <1>10 DEF GetDocuments, Resolve
<1>11. CASE OnWatchStreamOpen \/ BackoffElapsed \/ RunBlock
  BY <1>1, <1>11 DEF OnWatchStreamOpen, BackoffElapsed, RunBlock
<1>12. ASSUME NEW q \in Query, LocalWrite(q) PROVE WaitingInv'
  BY <1>1, <1>12 DEF LocalWrite
<1>13. CASE UNCHANGED vars
  BY <1>1, <1>13 DEF vars
<1> QED
  BY <1>3, <1>4, <1>5, <1>6, <1>7, <1>8, <1>9, <1>10, <1>11, <1>12, <1>13 DEF Next

-----------------------------------------------------------------------------
(* A callback runs once. *)

LEMMA TaskCalls ==
    TypeOK => /\ Len(workerQueue) \in Nat /\ DOMAIN workerQueue = 1..Len(workerQueue)
              /\ \A i \in DOMAIN workerQueue : workerQueue[i].call \in Call
<1> SUFFICES ASSUME TypeOK PROVE /\ Len(workerQueue) \in Nat /\ DOMAIN workerQueue = 1..Len(workerQueue)
                                 /\ \A i \in DOMAIN workerQueue : workerQueue[i].call \in Call
  OBVIOUS
<1>1. workerQueue \in Seq(Tasks)
  BY DEF TypeOK
<1>2. \A i \in DOMAIN workerQueue : workerQueue[i] \in Tasks
  BY <1>1, LenProperties
<1> QED
  BY <1>1, <1>2, LenProperties DEF Tasks

(* What only touches the stream, the views or the registrations.           *)
LEMMA OnceUntouched ==
    ASSUME OnceInv, UNCHANGED <<asked, workerQueue, listeners, mainQueue, muted, told>>
    PROVE  OnceInv'
BY DEF OnceInv, ListenersOfQuery, OnlyAsked, AddedOnce, ErrorIsLast, AnsweredIsOver, IsAdd, Pending,
   Listening

(* Events for those who listen, none of them an error. *)
LEMMA RaiseOnce ==
    ASSUME TypeOK, OnceInv, UNCHANGED <<asked, workerQueue, listeners, muted, told>>,
           NEW calls \in SUBSET Listening, NEW result \in {"server", "cache"},
           Raise(EventsFor(calls, result))
    PROVE  OnceInv'
<1> DEFINE n == Len(mainQueue)
<1> USE DEF OnceInv
<1>1. calls \subseteq Call /\ result \in Results /\ mainQueue \in Seq(Events)
  BY ListeningCalls DEF Results, TypeOK
<1>2. /\ n \in Nat /\ DOMAIN mainQueue = 1..n /\ DOMAIN mainQueue' \subseteq Nat
      /\ \A i \in 1..n : i \in DOMAIN mainQueue' /\ mainQueue'[i] = mainQueue[i]
      /\ \A i \in DOMAIN mainQueue' : i > n =>
             mainQueue'[i].call \in calls /\ mainQueue'[i].result = result
  BY <1>1, RaisedEvents
<1>3. Listening' = Listening
  BY DEF Listening
<1>4. \A i \in DOMAIN mainQueue' : i \in 1..n \/ i > n
  BY <1>2
<1>5. \A c \in Call : Pending(c)' => Pending(c) \/ c \in calls
  BY <1>2, <1>4 DEF Pending
<1>6. \A c \in Listening : c \in asked
  BY DEF ListenersOfQuery, Listening
<1>7. ListenersOfQuery' /\ OnlyAsked'
  BY <1>5, <1>6 DEF ListenersOfQuery, OnlyAsked
<1>8. AddedOnce'
  BY <1>3, <1>5, TaskCalls DEF AddedOnce, IsAdd
<1>9. ErrorIsLast'
  <2>1. \A i \in DOMAIN mainQueue' : mainQueue'[i].result = "error" =>
           i \in DOMAIN mainQueue /\ mainQueue'[i] = mainQueue[i]
    BY <1>2, <1>4
  <2>2. \A i \in DOMAIN mainQueue' : i \in 1..n \/ mainQueue'[i].call \in Listening
    BY <1>2, <1>4
  <2> QED
    BY <1>2, <1>3, <2>1, <2>2 DEF ErrorIsLast
<1>10. AnsweredIsOver'
  BY <1>3, <1>5 DEF AnsweredIsOver
<1> QED
  BY <1>7, <1>8, <1>9, <1>10

LEMMA BroadcastOnce ==
    ASSUME TypeOK, OnceInv, UNCHANGED <<asked, workerQueue, listeners, muted, told>>,
           NEW state \in {"Unknown", "Offline"}, SetAndBroadcast(state)
    PROVE  OnceInv'
<1>1. CASE state = "Offline" /\ onlineState # "Offline"
  <2> DEFINE hearing == {c \in Listening : c \notin raised \/ QueryOf[c] \in synced}
  <2>1. Raise(EventsFor(hearing, "cache"))
    BY <1>1 DEF SetAndBroadcast
  <2>2. hearing \in SUBSET Listening
    OBVIOUS
  <2> HIDE DEF hearing
  <2> QED
    BY <2>1, <2>2, RaiseOnce
<1>2. CASE ~(state = "Offline" /\ onlineState # "Offline")
  <2>1. UNCHANGED mainQueue
    BY <1>2 DEF SetAndBroadcast
  <2> QED
    BY <2>1, OnceUntouched
<1> QED
  BY <1>1, <1>2

LEMMA CallOnce ==
    ASSUME TypeOK, OnceInv, NEW c \in Call, GetDocuments(c)
    PROVE  OnceInv'
<1> DEFINE n == Len(workerQueue)
<1> USE DEF OnceInv
<1>1. /\ c \notin asked /\ asked' = asked \cup {c}
      /\ workerQueue' = Append(workerQueue, [kind |-> "add", call |-> c])
      /\ UNCHANGED <<listeners, mainQueue, muted, told>>
  BY DEF GetDocuments, queries
<1>2. ~Pending(c) /\ told[c] = <<>> /\ c \notin Listening
  BY <1>1 DEF OnlyAsked, ListenersOfQuery, Listening
<1>3. Listening' = Listening /\ \A d \in Call : Pending(d)' <=> Pending(d)
  BY <1>1 DEF Listening, Pending
<1>4. /\ n \in Nat /\ DOMAIN workerQueue = 1..n /\ DOMAIN workerQueue' = 1..n+1
      /\ \A i \in 1..n : workerQueue'[i] = workerQueue[i]
      /\ workerQueue'[n+1] = [kind |-> "add", call |-> c]
  <2>1. [kind |-> "add", call |-> c] \in Tasks /\ workerQueue \in Seq(Tasks)
    BY DEF Tasks, TypeOK
  <2> QED
    BY <1>1, <2>1, Appended
<1>5. \A i \in DOMAIN workerQueue' : i \in 1..n \/ i = n + 1
  BY <1>4
<1>6. \A i \in 1..n : IsAdd(i)' => IsAdd(i) /\ workerQueue[i].call \in asked \ {c}
  BY <1>1, <1>4 DEF IsAdd, AddedOnce
<1>7. \A i \in DOMAIN workerQueue' : IsAdd(i)' =>
          /\ workerQueue'[i].call \in asked' /\ workerQueue'[i].call \notin Listening
          /\ ~Pending(workerQueue'[i].call) /\ told[workerQueue'[i].call] = <<>>
  BY <1>1, <1>2, <1>4, <1>5, <1>6 DEF AddedOnce
<1>8. \A i, j \in DOMAIN workerQueue' :
          IsAdd(i)' /\ IsAdd(j)' /\ workerQueue'[j].call = workerQueue'[i].call => i = j
  BY <1>4, <1>5, <1>6 DEF AddedOnce
<1>9. \A i \in DOMAIN workerQueue' : workerQueue'[i].call \in Call
  BY <1>4, <1>5, TaskCalls
<1>10. AddedOnce'
  BY <1>1, <1>3, <1>7, <1>8, <1>9 DEF AddedOnce
<1>11. ListenersOfQuery' /\ OnlyAsked' /\ ErrorIsLast' /\ AnsweredIsOver'
  BY <1>1, <1>3 DEF ListenersOfQuery, OnlyAsked, ErrorIsLast, AnsweredIsOver
<1> QED
  BY <1>10, <1>11

(* The first task is done: of the others none adds the same call.          *)
LEMMA TaskDone ==
    ASSUME TypeOK, AddedOnce, workerQueue # <<>>, workerQueue' = Tail(workerQueue)
    PROVE  /\ \A i \in DOMAIN workerQueue' : IsAdd(i)' =>
                  /\ workerQueue'[i].call \in Call
                  /\ workerQueue'[i].call \in asked /\ workerQueue'[i].call \notin Listening
                  /\ ~Pending(workerQueue'[i].call) /\ told[workerQueue'[i].call] = <<>>
                  /\ Head(workerQueue).kind = "add" => workerQueue'[i].call # Head(workerQueue).call
           /\ \A i, j \in DOMAIN workerQueue' :
                  IsAdd(i)' /\ IsAdd(j)' /\ workerQueue'[j].call = workerQueue'[i].call => i = j
<1> DEFINE n == Len(workerQueue)
<1>1. /\ n \in Nat /\ n > 0 /\ DOMAIN workerQueue = 1..n /\ DOMAIN workerQueue' = 1..n-1
      /\ \A i \in 1..n-1 : workerQueue'[i] = workerQueue[i+1]
      /\ Head(workerQueue) = workerQueue[1]
  BY Popped DEF TypeOK
<1>2. \A i \in 1..n-1 : i + 1 \in 1..n /\ i + 1 # 1 /\ (IsAdd(i)' => IsAdd(i+1))
  BY <1>1 DEF IsAdd
<1>3. 1 \in DOMAIN workerQueue /\ (Head(workerQueue).kind = "add" => IsAdd(1))
  BY <1>1 DEF IsAdd
<1>4. ASSUME NEW i \in 1..n-1, IsAdd(i)', NEW j \in 1..n-1, IsAdd(j)',
             workerQueue'[j].call = workerQueue'[i].call
      PROVE  i = j
  <2>1. i + 1 = j + 1
    BY <1>1, <1>2, <1>4 DEF AddedOnce
  <2> QED
    BY <1>1, <2>1
<1>5. ASSUME NEW i \in 1..n-1, IsAdd(i)'
      PROVE  /\ workerQueue'[i].call \in Call
             /\ workerQueue'[i].call \in asked /\ workerQueue'[i].call \notin Listening
             /\ ~Pending(workerQueue'[i].call) /\ told[workerQueue'[i].call] = <<>>
             /\ Head(workerQueue).kind = "add" => workerQueue'[i].call # Head(workerQueue).call
  <2>1. i + 1 \in DOMAIN workerQueue /\ IsAdd(i+1) /\ workerQueue'[i] = workerQueue[i+1] /\ i + 1 # 1
    BY <1>1, <1>2, <1>5
  <2> QED
    BY <1>1, <1>3, <2>1, TaskCalls DEF AddedOnce
<1> QED
  BY <1>1, <1>4, <1>5

LEMMA AddOnce ==
    ASSUME TypeOK, OnceInv, AddQueryListener
    PROVE  OnceInv'
<1> DEFINE c == Head(workerQueue).call
           q == QueryOf[c]
           n == Len(mainQueue)
<1> USE DEF OnceInv
<1>1. /\ workerQueue # <<>> /\ Head(workerQueue).kind = "add" /\ workerQueue' = Tail(workerQueue)
      /\ listeners' = [listeners EXCEPT ![q] = @ \cup {c}]
      /\ Raise(Due(c))
      /\ UNCHANGED <<asked, muted, told>>
  BY DEF AddQueryListener, app
<1>2. Head(workerQueue) \in Tasks /\ Head(workerQueue) = workerQueue[1] /\ 1 \in DOMAIN workerQueue
  BY <1>1, Popped DEF TypeOK
<1>3. c \in Call /\ q \in Query
  BY <1>2, QueryAssumption DEF Tasks
<1>4. c \in asked /\ c \notin Listening /\ ~Pending(c) /\ told[c] = <<>>
  BY <1>1, <1>2 DEF AddedOnce, IsAdd
<1>5. \A p \in Query : listeners'[p] = IF p = q THEN listeners[p] \cup {c} ELSE listeners[p]
  BY <1>1, <1>3 DEF TypeOK
<1>6. Listening' = Listening \cup {c}
  <2>1. c \in listeners'[q] /\ \A p \in Query : listeners[p] \subseteq listeners'[p]
    BY <1>3, <1>5
  <2>2. \A d : d \in Listening' <=> \E p \in Query : d \in listeners'[p]
    BY DEF Listening
  <2>3. \A d : d \in Listening <=> \E p \in Query : d \in listeners[p]
    BY DEF Listening
  <2> QED
    BY <1>3, <1>5, <2>1, <2>2, <2>3
<1>7. /\ n \in Nat /\ DOMAIN mainQueue = 1..n /\ DOMAIN mainQueue' \subseteq 1..n+1
      /\ \A i \in 1..n : i \in DOMAIN mainQueue' /\ mainQueue'[i] = mainQueue[i]
      /\ n + 1 \in DOMAIN mainQueue' =>
             mainQueue'[n+1].call = c /\ mainQueue'[n+1].result # "error"
  <2>1. mainQueue \in Seq(Events)
    BY DEF TypeOK
  <2>2. n \in Nat /\ DOMAIN mainQueue = 1..n
    BY <2>1, LenProperties
  <2>3. CASE mainQueue' = mainQueue
    BY <2>2, <2>3
  <2>4. ASSUME NEW e \in Events, e.call = c, e.result # "error", mainQueue' = Append(mainQueue, e)
        PROVE  <1>7!1
    BY <2>1, <2>4, Appended
  <2> QED
    BY <1>1, <1>3, <2>3, <2>4, RaisedDue
<1>8. \A i \in DOMAIN mainQueue' : i \in 1..n \/ i = n + 1
  BY <1>7
<1>9. \A d \in Call : Pending(d)' => Pending(d) \/ d = c
  BY <1>7, <1>8 DEF Pending
<1>10. ListenersOfQuery' /\ OnlyAsked'
  BY <1>1, <1>4, <1>5, <1>9 DEF ListenersOfQuery, OnlyAsked
<1>11. AddedOnce'
  BY <1>1, <1>6, <1>9, TaskDone DEF AddedOnce
<1>12. ErrorIsLast'
  <2>1. \A i \in DOMAIN mainQueue' : mainQueue'[i].result = "error" =>
           i \in 1..n /\ mainQueue'[i] = mainQueue[i] /\ mainQueue[i].call # c
    BY <1>4, <1>7, <1>8 DEF Pending
  <2> QED
    BY <1>6, <1>7, <1>8, <2>1 DEF ErrorIsLast
<1>13. AnsweredIsOver'
  BY <1>1, <1>4, <1>6, <1>9 DEF AnsweredIsOver
<1> QED
  BY <1>10, <1>11, <1>12, <1>13

LEMMA RemoveOnce ==
    ASSUME TypeOK, OnceInv, RemoveQueryListener
    PROVE  OnceInv'
<1> DEFINE c == Head(workerQueue).call
<1> USE DEF OnceInv
<1>1. /\ workerQueue # <<>> /\ workerQueue' = Tail(workerQueue)
      /\ listeners' = [listeners EXCEPT ![QueryOf[c]] = @ \ {c}]
      /\ UNCHANGED <<asked, muted, told, mainQueue>>
  BY DEF RemoveQueryListener, app
<1>2. \A p \in Query : listeners'[p] \subseteq listeners[p]
  BY <1>1 DEF TypeOK
<1>3. Listening' \subseteq Listening /\ \A d \in Call : Pending(d)' <=> Pending(d)
  BY <1>1, <1>2 DEF Listening, Pending
<1>4. ListenersOfQuery' /\ OnlyAsked' /\ ErrorIsLast' /\ AnsweredIsOver'
  BY <1>1, <1>2, <1>3 DEF ListenersOfQuery, OnlyAsked, ErrorIsLast, AnsweredIsOver
<1>5. AddedOnce'
  BY <1>1, <1>3, TaskDone DEF AddedOnce
<1> QED
  BY <1>4, <1>5

LEMMA ErrorOnce ==
    ASSUME TypeOK, OnceInv, NEW q \in Query, ProcessTargetError(q)
    PROVE  OnceInv'
<1> DEFINE n == Len(mainQueue)
<1> USE DEF OnceInv
<1>1. /\ listeners' = [listeners EXCEPT ![q] = {}]
      /\ Raise(EventsFor(listeners[q], "error"))
      /\ UNCHANGED <<asked, muted, told, workerQueue>>
  BY DEF ProcessTargetError, app
<1>2. /\ n \in Nat /\ DOMAIN mainQueue = 1..n /\ DOMAIN mainQueue' \subseteq Nat
      /\ \A i \in 1..n : i \in DOMAIN mainQueue' /\ mainQueue'[i] = mainQueue[i]
      /\ \A i \in DOMAIN mainQueue' : i > n => mainQueue'[i].call \in listeners[q]
      /\ \A i, j \in DOMAIN mainQueue' :
             i > n /\ j > n /\ mainQueue'[i].call = mainQueue'[j].call => i = j
  <2>1. listeners[q] \in SUBSET Call /\ "error" \in Results /\ mainQueue \in Seq(Events)
    BY DEF TypeOK, Results
  <2> QED
    BY <1>1, <2>1, RaisedEvents
<1>3. \A p \in Query : listeners'[p] = IF p = q THEN {} ELSE listeners[p]
  BY <1>1 DEF TypeOK
<1>4. Listening' \subseteq Listening \ listeners[q] /\ listeners[q] \subseteq Listening
  BY <1>3 DEF Listening, ListenersOfQuery
<1>5. \A i \in DOMAIN mainQueue' : i \in 1..n \/ i > n
  BY <1>2
<1>6. \A c \in Call : Pending(c)' => Pending(c) \/ c \in listeners[q]
  BY <1>2, <1>5 DEF Pending
<1>7. ListenersOfQuery' /\ OnlyAsked'
  BY <1>1, <1>3, <1>6 DEF ListenersOfQuery, OnlyAsked
<1>8. AddedOnce'
  BY <1>1, <1>4, <1>6, TaskCalls DEF AddedOnce, IsAdd
<1>9. ErrorIsLast'
  <2>1. ASSUME NEW i \in 1..n, mainQueue'[i].result = "error"
        PROVE  /\ mainQueue'[i].call \notin Listening'
               /\ \A j \in DOMAIN mainQueue' : mainQueue'[j].call = mainQueue'[i].call => j <= i
    <3>1. mainQueue[i].call \notin Listening /\ mainQueue'[i] = mainQueue[i]
      BY <1>2, <2>1 DEF ErrorIsLast
    <3> QED
      BY <1>2, <1>4, <1>5, <2>1, <3>1 DEF ErrorIsLast
  <2>2. ASSUME NEW i \in DOMAIN mainQueue', i > n
        PROVE  /\ mainQueue'[i].call \notin Listening'
               /\ \A j \in DOMAIN mainQueue' : mainQueue'[j].call = mainQueue'[i].call => j <= i
    BY <1>2, <1>4, <1>5, <2>2
  <2> QED
    BY <1>5, <2>1, <2>2 DEF ErrorIsLast
<1>10. AnsweredIsOver'
  BY <1>1, <1>4, <1>6 DEF AnsweredIsOver
<1> QED
  BY <1>7, <1>8, <1>9, <1>10

LEMMA BlockOnce ==
    ASSUME TypeOK, OnceInv, RunBlock
    PROVE  OnceInv'
<1> DEFINE c == Head(mainQueue).call
           result == Head(mainQueue).result
           n == Len(mainQueue)
<1> USE DEF OnceInv
<1>1. mainQueue # <<>> /\ mainQueue' = Tail(mainQueue) /\ UNCHANGED <<asked, listeners>>
  BY DEF RunBlock, queries
<1>2. /\ n \in Nat /\ n > 0 /\ DOMAIN mainQueue = 1..n /\ DOMAIN mainQueue' = 1..n-1
      /\ \A i \in 1..n-1 : mainQueue'[i] = mainQueue[i+1]
      /\ Head(mainQueue) = mainQueue[1] /\ Head(mainQueue) \in Events
  BY <1>1, Popped DEF TypeOK
<1>3. c \in Call /\ result \in Results
  BY <1>2 DEF Events
<1>4. \A i \in 1..n-1 : i + 1 \in 1..n /\ i + 1 > 1
  BY <1>2
<1>5. Pending(c) /\ \A d \in Call : Pending(d)' => Pending(d)
  <2>1. 1 \in DOMAIN mainQueue
    BY <1>2
  <2> QED
    BY <1>2, <1>4, <2>1 DEF Pending
<1>6. Listening' = Listening
  BY <1>1 DEF Listening
<1>7. ListenersOfQuery'
  BY <1>1 DEF ListenersOfQuery
<1>8. ErrorIsLast'
  <2>1. ASSUME NEW i \in 1..n-1, mainQueue'[i].result = "error",
               NEW j \in 1..n-1, mainQueue'[j].call = mainQueue'[i].call
        PROVE  mainQueue'[i].call \notin Listening /\ j <= i
    <3>1. j + 1 <= i + 1 /\ mainQueue[i+1].call \notin Listening
      BY <1>2, <1>4, <2>1 DEF ErrorIsLast
    <3> QED
      BY <1>2, <2>1, <3>1
  <2> QED
    BY <1>2, <1>6, <2>1 DEF ErrorIsLast
<1>9. CASE c \in muted
  <2>1. UNCHANGED <<muted, told, workerQueue>>
    BY <1>9 DEF RunBlock
  <2> QED
    BY <1>1, <1>5, <1>6, <1>7, <1>8, <2>1, TaskCalls
    DEF OnlyAsked, AddedOnce, AnsweredIsOver, IsAdd
<1>10. CASE c \notin muted
  <2>1. told' = [told EXCEPT ![c] = Append(@, result)]
    BY <1>10 DEF RunBlock
  <2>2. told[c] = <<>> /\ c \in asked
    BY <1>3, <1>5, <1>10 DEF AnsweredIsOver, OnlyAsked
  <2>3. \A d \in Call : told'[d] = IF d = c THEN <<result>> ELSE told[d]
    <3>1. Append(<<>>, result) = <<result>>
      OBVIOUS
    <3> QED
      BY <1>3, <2>1, <2>2, <3>1 DEF TypeOK
  <2>4. OnlyAsked'
    BY <1>1, <1>5, <2>2, <2>3 DEF OnlyAsked
  <2>5. \A i \in DOMAIN workerQueue : IsAdd(i) => workerQueue[i].call # c
    BY <1>5 DEF AddedOnce
  <2>6. CASE result = "error"
    <3>1. UNCHANGED <<muted, workerQueue>>
      BY <1>10, <2>6 DEF RunBlock
    <3>2. c \notin Listening /\ \A d \in Call : d = c => ~Pending(d)'
      <4>1. 1 \in DOMAIN mainQueue /\ mainQueue[1].result = "error"
        BY <1>2, <2>6
      <4>2. c \notin Listening /\ \A j \in 1..n : mainQueue[j].call = c => j <= 1
        BY <1>2, <4>1 DEF ErrorIsLast
      <4>3. \A j \in 1..n-1 : mainQueue'[j].call # c
        BY <1>2, <1>4, <4>2
      <4> QED
        BY <1>2, <4>2, <4>3 DEF Pending
    <3>3. AddedOnce'
      BY <1>1, <1>5, <1>6, <2>3, <2>5, <3>1, TaskCalls DEF AddedOnce, IsAdd
    <3>4. AnsweredIsOver'
      <4>1. Len(<<result>>) = 1
        OBVIOUS
      <4> QED
        BY <1>5, <1>6, <2>3, <3>1, <3>2, <4>1 DEF AnsweredIsOver
    <3> QED
      BY <1>7, <1>8, <2>4, <3>3, <3>4
  <2>7. CASE result # "error"
    <3> DEFINE m == Len(workerQueue)
    <3>1. /\ muted' = muted \cup {c}
          /\ workerQueue' = Append(workerQueue, [kind |-> "remove", call |-> c])
      BY <1>10, <2>7 DEF RunBlock, Mute
    <3>2. /\ m \in Nat /\ DOMAIN workerQueue = 1..m /\ DOMAIN workerQueue' = 1..m+1
          /\ \A i \in 1..m : workerQueue'[i] = workerQueue[i]
          /\ workerQueue'[m+1] = [kind |-> "remove", call |-> c]
      <4>1. [kind |-> "remove", call |-> c] \in Tasks /\ workerQueue \in Seq(Tasks)
        BY <1>3 DEF Tasks, TypeOK
      <4> QED
        BY <3>1, <4>1, Appended
    <3>3. \A i \in DOMAIN workerQueue' : IsAdd(i)' =>
             i \in DOMAIN workerQueue /\ IsAdd(i) /\ workerQueue'[i] = workerQueue[i]
      <4>1. workerQueue'[m+1].kind # "add"
        BY <3>2
      <4>2. \A i \in DOMAIN workerQueue' : i \in 1..m \/ i = m + 1
        BY <3>2
      <4> QED
        BY <3>2, <4>1, <4>2 DEF IsAdd
    <3>4. AddedOnce'
      BY <1>1, <1>5, <1>6, <2>3, <2>5, <3>3, TaskCalls DEF AddedOnce
    <3>5. AnsweredIsOver'
      <4>1. Len(<<result>>) = 1
        OBVIOUS
      <4> QED
        BY <1>5, <1>6, <2>3, <3>1, <4>1 DEF AnsweredIsOver
    <3> QED
      BY <1>7, <1>8, <2>4, <3>4, <3>5
  <2> QED
    BY <2>6, <2>7
<1> QED
  BY <1>9, <1>10

LEMMA StepOnce == TypeOK /\ OnceInv /\ [Next]_vars => OnceInv'
<1> SUFFICES ASSUME TypeOK, OnceInv, [Next]_vars PROVE OnceInv'
  OBVIOUS
<1>1. ASSUME NEW c \in Call, GetDocuments(c) \/ Resolve(c) PROVE OnceInv'
  BY <1>1, CallOnce, OnceUntouched DEF Resolve, queries
<1>2. CASE OnWatchStreamClose
  <2>1. UNCHANGED <<asked, workerQueue, listeners, muted, told>>
    BY <1>2 DEF OnWatchStreamClose, app
  <2>2. CASE Targets = {}
    BY <1>2, <2>1, <2>2, OnceUntouched DEF OnWatchStreamClose
  <2>3. CASE Targets # {}
    <3>1. HandleWatchStreamFailure
      BY <1>2, <2>3 DEF OnWatchStreamClose
    <3> QED
      BY <2>1, <3>1, BroadcastOnce DEF HandleWatchStreamFailure
  <2> QED
    BY <2>2, <2>3
<1>3. CASE OnlineStateTimeout
  BY <1>3, BroadcastOnce DEF OnlineStateTimeout, app
<1>4. ASSUME NEW q \in Query, Synced(q) PROVE OnceInv'
  <2>1. listeners[q] \in SUBSET Listening
    BY DEF Listening
  <2> QED
    BY <1>4, <2>1, RaiseOnce DEF Synced, app
<1>5. ASSUME NEW q \in Query, LocalWrite(q) PROVE OnceInv'
  <2> DEFINE result == IF q \in synced THEN "server" ELSE "cache"
  <2>1. listeners[q] \cap raised \in SUBSET Listening /\ result \in {"server", "cache"}
    BY DEF Listening
  <2>2. Raise(EventsFor(listeners[q] \cap raised, result))
    BY <1>5 DEF LocalWrite
  <2> HIDE DEF result
  <2> QED
    BY <1>5, <2>1, <2>2, RaiseOnce DEF LocalWrite, app, queries
<1>6. CASE OnWatchStreamOpen \/ BackoffElapsed \/ IdleStop \/ Message \/ HandleCredentialChange
  BY <1>6, OnceUntouched
  DEF OnWatchStreamOpen, BackoffElapsed, IdleStop, Message, HandleCredentialChange, app, queries
<1>7. CASE UNCHANGED vars
  BY <1>7, OnceUntouched DEF vars, app, queries
<1> QED
  BY <1>1, <1>2, <1>3, <1>4, <1>5, <1>6, <1>7, AddOnce, RemoveOnce, ErrorOnce, BlockOnce DEF Next

-----------------------------------------------------------------------------
(* No call is forgotten. *)

(* SetToSeq leaves none of the calls out. *)
LEMMA EventForEach ==
    ASSUME NEW calls \in SUBSET Call, NEW result, NEW c \in calls
    PROVE  \E i \in DOMAIN EventsFor(calls, result) : EventsFor(calls, result)[i].call = c
<1> DEFINE n == Cardinality(calls)
           order == SetToSeq(calls)
<1>1. IsFiniteSet(calls) /\ n \in Nat /\ ExistsBijection(1..n, calls)
  BY CallAssumption, FS_Subset, FS_CardinalityType
<1>2. \E f \in [1..n -> calls] : IsInjective(f)
  BY <1>1 DEF ExistsBijection, Bijection, Injection
<1>3. order \in [1..n -> calls] /\ IsInjective(order)
  BY <1>2 DEF SetToSeq
<1> HIDE DEF order
<1>4. order \in Injection(1..n, calls)
  BY <1>3 DEF Injection
<1>5. Cardinality(1..n) = n
  BY <1>1, FS_Interval
<1> HIDE DEF n
<1>6. order \in Surjection(1..n, calls)
  BY <1>1, <1>4, <1>5, FS_Injection DEF n
<1>7. PICK i \in 1..n : order[i] = c
  BY <1>6 DEF Surjection
<1>8. EventsFor(calls, result) = [j \in DOMAIN order |-> [call |-> order[j], result |-> result]]
  BY DEF EventsFor, order
<1> QED
  BY <1>3, <1>7, <1>8

LEMMA RaisedForEach ==
    ASSUME mainQueue \in Seq(Events), NEW calls \in SUBSET Call, NEW result \in Results,
           Raise(EventsFor(calls, result))
    PROVE  /\ \A c : Pending(c) => Pending(c)'
           /\ \A c \in calls : Pending(c)'
<1> DEFINE events == EventsFor(calls, result)
           n == Len(mainQueue)
           k == Len(events)
<1>1. events \in Seq(Events) /\ \A c \in calls : \E i \in DOMAIN events : events[i].call = c
  BY EventsForCalls, EventForEach
<1> HIDE DEF events
<1>2. mainQueue' = mainQueue \o events
  BY DEF Raise, events
<1>3. n \in Nat /\ k \in Nat /\ DOMAIN mainQueue = 1..n /\ DOMAIN events = 1..k
  BY <1>1, LenProperties
<1>4. /\ mainQueue' \in Seq(Events) /\ Len(mainQueue') = n + k
      /\ \A i \in 1..n+k : mainQueue'[i] = IF i <= n THEN mainQueue[i] ELSE events[i - n]
  BY <1>1, <1>2, <1>3, ConcatProperties
<1>5. DOMAIN mainQueue' = 1..n+k
  BY <1>4, LenProperties
<1>6. \A i \in 1..n : i \in 1..n+k /\ mainQueue'[i] = mainQueue[i]
  BY <1>3, <1>4
<1>7. \A i \in 1..k : n + i \in 1..n+k /\ mainQueue'[n + i] = events[i]
  <2> SUFFICES ASSUME NEW i \in 1..k PROVE n + i \in 1..n+k /\ mainQueue'[n + i] = events[i]
    OBVIOUS
  <2>1. n + i \in 1..n+k /\ ~(n + i <= n) /\ n + i - n = i
    BY <1>3
  <2> QED
    BY <1>4, <2>1
<1>8. ASSUME NEW c, Pending(c)
      PROVE  Pending(c)'
  <2>1. PICK i \in 1..n : mainQueue[i].call = c
    BY <1>3, <1>8 DEF Pending
  <2>2. i \in DOMAIN mainQueue' /\ mainQueue'[i].call = c
    BY <1>5, <1>6, <2>1
  <2> QED
    BY <2>2 DEF Pending
<1>9. ASSUME NEW c \in calls
      PROVE  Pending(c)'
  <2>1. PICK i \in 1..k : events[i].call = c
    BY <1>1, <1>3
  <2>2. n + i \in DOMAIN mainQueue' /\ mainQueue'[n + i].call = c
    BY <1>5, <1>7, <2>1
  <2> QED
    BY <2>2 DEF Pending
<1> QED
  BY <1>8, <1>9

(* Where a call is that has no answer yet; only calls that were made have  *)
(* raised an event, and not before their listener was added; and only a    *)
(* call that was answered is muted, and taken away.                        *)
Added(c) == \E i \in DOMAIN workerQueue : workerQueue[i] = [kind |-> "add", call |-> c]
Waiting(c) == c \in listeners[QueryOf[c]] \ raised

KeptInv ==
    /\ \A c \in asked : told[c] = <<>> => Added(c) \/ Waiting(c) \/ Pending(c)
    /\ raised \subseteq asked
    /\ \A i \in DOMAIN workerQueue :
           IF IsAdd(i) THEN workerQueue[i].call \notin raised
                       ELSE told[workerQueue[i].call] # <<>>
    /\ \A c \in muted : told[c] # <<>>

LEMMA KeptSuffices ==
    ASSUME KeptInv
    PROVE  NotForgotten
BY DEF KeptInv, NotForgotten, Added, Waiting, Pending

(* The stream, the views and those who listen: who stops to wait has an    *)
(* event.                                                                  *)
LEMMA EventsKeep ==
    ASSUME TypeOK, OnceInv, KeptInv, UNCHANGED <<asked, workerQueue, muted, told>>,
           \A c \in Call : Pending(c) => Pending(c)',
           \A c \in Call : Waiting(c) => Waiting(c)' \/ Pending(c)',
           raised' \subseteq raised \cup Listening
    PROVE  KeptInv'
<1>1. asked \subseteq Call /\ Listening \subseteq asked
  BY DEF TypeOK, OnceInv, ListenersOfQuery, Listening
<1>2. \A i \in DOMAIN workerQueue : IsAdd(i) => workerQueue[i].call \notin Listening
  BY DEF OnceInv, AddedOnce
<1>3. \A c : Added(c)' <=> Added(c)
  BY DEF Added
<1> QED
  BY <1>1, <1>2, <1>3 DEF KeptInv, IsAdd

LEMMA BroadcastKeeps ==
    ASSUME TypeOK, OnceInv, KeptInv, UNCHANGED <<asked, workerQueue, listeners, muted, told>>,
           NEW state \in {"Unknown", "Offline"}, SetAndBroadcast(state)
    PROVE  KeptInv'
<1>1. CASE state = "Offline" /\ onlineState # "Offline"
  <2> DEFINE hearing == {c \in Listening : c \notin raised \/ QueryOf[c] \in synced}
  <2>1. Raise(EventsFor(hearing, "cache")) /\ raised' = raised \cup Listening
    BY <1>1 DEF SetAndBroadcast
  <2>2. hearing \in SUBSET Call /\ "cache" \in Results /\ mainQueue \in Seq(Events)
    BY ListeningCalls DEF Results, TypeOK
  <2>3. \A c \in Call : Waiting(c) => c \in hearing
    BY QueryAssumption DEF Waiting, Listening
  <2> HIDE DEF hearing
  <2>4. /\ \A c : Pending(c) => Pending(c)'
        /\ \A c \in hearing : Pending(c)'
    BY <2>1, <2>2, RaisedForEach
  <2> QED
    BY <2>1, <2>3, <2>4, EventsKeep
<1>2. CASE ~(state = "Offline" /\ onlineState # "Offline")
  <2>1. UNCHANGED <<mainQueue, raised>>
    BY <1>2 DEF SetAndBroadcast
  <2> QED
    BY <2>1, EventsKeep DEF Waiting, Pending
<1> QED
  BY <1>1, <1>2

LEMMA CallKeeps ==
    ASSUME TypeOK, OnceInv, KeptInv, NEW c \in Call, GetDocuments(c)
    PROVE  KeptInv'
<1> DEFINE n == Len(workerQueue)
           task == [kind |-> "add", call |-> c]
<1>1. /\ c \notin asked /\ asked' = asked \cup {c} /\ workerQueue' = Append(workerQueue, task)
      /\ UNCHANGED <<listeners, raised, mainQueue, muted, told>>
  BY DEF GetDocuments, queries
<1>2. task \in Tasks /\ workerQueue \in Seq(Tasks) /\ task.call = c /\ task.kind = "add"
  BY DEF Tasks, TypeOK
<1>3. /\ n \in Nat /\ DOMAIN workerQueue = 1..n /\ DOMAIN workerQueue' = 1..n+1
      /\ \A i \in 1..n : workerQueue'[i] = workerQueue[i]
      /\ workerQueue'[n+1] = task
  BY <1>1, <1>2, Appended
<1>4. n + 1 \in 1..n+1 /\ \A i \in 1..n : i \in 1..n+1
  BY <1>3
<1>5. Added(c)' /\ \A d : Added(d) => Added(d)'
  BY <1>3, <1>4 DEF Added
<1>6. \A d : (Waiting(d)' <=> Waiting(d)) /\ (Pending(d)' <=> Pending(d))
  BY <1>1 DEF Waiting, Pending
<1>7. \A i \in DOMAIN workerQueue' : i \in DOMAIN workerQueue \/ i = n + 1
  BY <1>3
<1>8. c \notin raised
  BY <1>1 DEF KeptInv
<1> HIDE DEF task
<1> QED
  BY <1>1, <1>2, <1>3, <1>5, <1>6, <1>7, <1>8 DEF KeptInv, IsAdd

(* The first task of the worker queue is done: what follows stays in line. *)
LEMMA TaskLeaves ==
    ASSUME TypeOK, workerQueue # <<>>, workerQueue' = Tail(workerQueue)
    PROVE  /\ 1 \in DOMAIN workerQueue /\ Head(workerQueue) = workerQueue[1]
           /\ \A c : Added(c) => Added(c)' \/ Head(workerQueue) = [kind |-> "add", call |-> c]
           /\ \A i \in DOMAIN workerQueue' :
                  /\ i + 1 \in DOMAIN workerQueue /\ i + 1 # 1
                  /\ workerQueue'[i] = workerQueue[i + 1]
<1> DEFINE n == Len(workerQueue)
<1>1. /\ n \in Nat /\ n > 0 /\ DOMAIN workerQueue = 1..n /\ DOMAIN workerQueue' = 1..n-1
      /\ \A i \in 1..n-1 : workerQueue'[i] = workerQueue[i + 1]
      /\ Head(workerQueue) = workerQueue[1]
  BY Popped DEF TypeOK
<1>2. \A i \in 1..n : i # 1 => i - 1 \in 1..n-1 /\ workerQueue'[i - 1] = workerQueue[i]
  <2> SUFFICES ASSUME NEW i \in 1..n, i # 1
               PROVE  i - 1 \in 1..n-1 /\ workerQueue'[i - 1] = workerQueue[i]
    OBVIOUS
  <2>1. i - 1 \in 1..n-1 /\ i - 1 + 1 = i
    BY <1>1
  <2> QED
    BY <1>1, <2>1
<1>3. \A c : Added(c) => Added(c)' \/ Head(workerQueue) = [kind |-> "add", call |-> c]
  <2> SUFFICES ASSUME NEW c, Added(c), Head(workerQueue) # [kind |-> "add", call |-> c]
               PROVE  Added(c)'
    OBVIOUS
  <2> DEFINE task == [kind |-> "add", call |-> c]
  <2>1. PICK i \in 1..n : workerQueue[i] = task
    BY <1>1 DEF Added
  <2>2. i # 1
    BY <1>1, <2>1
  <2>3. i - 1 \in DOMAIN workerQueue' /\ workerQueue'[i - 1] = task
    BY <1>1, <1>2, <2>1, <2>2
  <2> HIDE DEF n
  <2> QED
    BY <2>3 DEF Added
<1> QED
  BY <1>1, <1>3

LEMMA AddKeeps ==
    ASSUME TypeOK, OnceInv, KeptInv, AddQueryListener
    PROVE  KeptInv'
<1> PICK c \in Call : c = Head(workerQueue).call
  <2>1. Head(workerQueue) \in Tasks
    BY DEF AddQueryListener, TypeOK
  <2> QED
    BY <2>1 DEF Tasks
<1> DEFINE q == QueryOf[c]
<1>1. /\ workerQueue # <<>> /\ Head(workerQueue).kind = "add" /\ workerQueue' = Tail(workerQueue)
      /\ listeners' = [listeners EXCEPT ![q] = @ \cup {c}]
      /\ Raise(Due(c))
      /\ raised' = IF Due(c) = <<>> THEN raised ELSE raised \cup {c}
      /\ UNCHANGED <<asked, muted, told>>
  BY DEF AddQueryListener, app
<1>2. /\ 1 \in DOMAIN workerQueue /\ Head(workerQueue) = workerQueue[1]
      /\ \A d : Added(d) => Added(d)' \/ Head(workerQueue) = [kind |-> "add", call |-> d]
      /\ \A i \in DOMAIN workerQueue' :
             /\ i + 1 \in DOMAIN workerQueue /\ i + 1 # 1
             /\ workerQueue'[i] = workerQueue[i + 1]
  BY <1>1, TaskLeaves
<1>3. c \in Call /\ q \in Query /\ IsAdd(1)
  BY <1>1, <1>2, TaskCalls, QueryAssumption DEF IsAdd
<1>4. c \in asked /\ c \notin raised
      /\ \A j \in DOMAIN workerQueue : IsAdd(j) /\ j # 1 => workerQueue[j].call # c
  BY <1>2, <1>3 DEF KeptInv, OnceInv, AddedOnce
<1>5. \A d \in Call : Added(d) => Added(d)' \/ d = c
  BY <1>2
<1>6. /\ \A d : Pending(d) => Pending(d)'
      /\ Due(c) # <<>> => Pending(c)'
  <2>1. mainQueue \in Seq(Events)
    BY DEF TypeOK
  <2>2. CASE Due(c) = <<>>
    BY <1>1, <2>1, <2>2, ConcatEmptySeq DEF Raise, Pending
  <2>3. ASSUME NEW result \in {"server", "cache"}, Due(c) = <<[call |-> c, result |-> result]>>
        PROVE  Pending(c)' /\ \A d : Pending(d) => Pending(d)'
    <3> DEFINE e == [call |-> c, result |-> result]
               n == Len(mainQueue)
    <3>1. e \in Events /\ e.call = c
      BY <1>3 DEF Events, Results
    <3> HIDE DEF e
    <3>2. mainQueue' = Append(mainQueue, e)
      BY <1>1, <2>1, <2>3, <3>1, AppendIsConcat DEF Raise, e
    <3>3. /\ n \in Nat /\ DOMAIN mainQueue = 1..n /\ DOMAIN mainQueue' = 1..n+1
          /\ \A i \in 1..n : mainQueue'[i] = mainQueue[i]
          /\ mainQueue'[n+1] = e
      BY <2>1, <3>1, <3>2, Appended
    <3>4. n + 1 \in 1..n+1 /\ \A i \in 1..n : i \in 1..n+1
      BY <3>3
    <3> HIDE DEF n
    <3>5. Pending(c)'
      <4>1. n + 1 \in DOMAIN mainQueue' /\ mainQueue'[n + 1].call = c
        BY <3>1, <3>3, <3>4
      <4> QED
        BY <4>1 DEF Pending
    <3>6. \A d : Pending(d) => Pending(d)'
      BY <1>1, <3>3, <3>4 DEF Pending
    <3> QED
      BY <3>5, <3>6
  <2> QED
    BY <1>3, <2>2, <2>3, DueEvents
<1>7. \A d \in Call : Waiting(d) => Waiting(d)' \/ d = c
  BY <1>1, <1>3, QueryAssumption DEF Waiting, TypeOK
<1>8. Due(c) = <<>> => Waiting(c)'
  <2>1. listeners'[q] = listeners[q] \cup {c}
    BY <1>1, <1>3 DEF TypeOK
  <2> QED
    BY <1>1, <1>4, <2>1 DEF Waiting
<1>9. raised' \subseteq raised \cup {c} /\ asked \subseteq Call
  BY <1>1 DEF TypeOK
<1>10. \A d \in asked : told[d] = <<>> => Added(d)' \/ Waiting(d)' \/ Pending(d)'
  <2> SUFFICES ASSUME NEW d \in asked, told[d] = <<>>
               PROVE  Added(d)' \/ Waiting(d)' \/ Pending(d)'
    OBVIOUS
  <2>1. CASE d = c
    BY <1>6, <1>8, <2>1
  <2>2. CASE d # c
    <3>1. d \in Call /\ (Added(d) \/ Waiting(d) \/ Pending(d))
      BY <1>9 DEF KeptInv
    <3> QED
      BY <1>5, <1>6, <1>7, <2>2, <3>1
  <2> QED
    BY <2>1, <2>2
<1>11. ASSUME NEW i \in DOMAIN workerQueue'
       PROVE  IF IsAdd(i)' THEN workerQueue'[i].call \notin raised'
                           ELSE told'[workerQueue'[i].call] # <<>>
  <2> DEFINE j == i + 1
  <2>1. j \in DOMAIN workerQueue /\ j # 1 /\ workerQueue'[i] = workerQueue[j]
    BY <1>2
  <2> HIDE DEF j
  <2>2. IsAdd(i)' <=> IsAdd(j)
    BY <2>1 DEF IsAdd
  <2> QED
    BY <1>1, <1>4, <1>9, <2>1, <2>2 DEF KeptInv
<1> QED
  BY <1>1, <1>4, <1>9, <1>10, <1>11 DEF KeptInv

LEMMA RemoveKeeps ==
    ASSUME TypeOK, OnceInv, KeptInv, RemoveQueryListener
    PROVE  KeptInv'
<1> DEFINE c == Head(workerQueue).call
<1>1. /\ workerQueue # <<>> /\ Head(workerQueue).kind = "remove"
      /\ workerQueue' = Tail(workerQueue)
      /\ listeners' = [listeners EXCEPT ![QueryOf[c]] = @ \ {c}]
      /\ UNCHANGED <<asked, raised, mainQueue, muted, told>>
  BY DEF RemoveQueryListener, app
<1>2. /\ 1 \in DOMAIN workerQueue /\ Head(workerQueue) = workerQueue[1]
      /\ \A d : Added(d) => Added(d)' \/ Head(workerQueue) = [kind |-> "add", call |-> d]
      /\ \A i \in DOMAIN workerQueue' :
             /\ i + 1 \in DOMAIN workerQueue /\ i + 1 # 1
             /\ workerQueue'[i] = workerQueue[i + 1]
  BY <1>1, TaskLeaves
<1>3. c \in Call /\ told[c] # <<>>
  BY <1>1, <1>2, TaskCalls DEF KeptInv, IsAdd
<1>4. \A d : (Added(d) => Added(d)') /\ (Pending(d)' <=> Pending(d))
  BY <1>1, <1>2 DEF Pending
<1>5. \A d \in Call : Waiting(d) => Waiting(d)' \/ d = c
  BY <1>1, QueryAssumption DEF Waiting, TypeOK
<1>6. ASSUME NEW i \in DOMAIN workerQueue'
      PROVE  IF IsAdd(i)' THEN workerQueue'[i].call \notin raised'
                          ELSE told'[workerQueue'[i].call] # <<>>
  <2> DEFINE j == i + 1
  <2>1. j \in DOMAIN workerQueue /\ workerQueue'[i] = workerQueue[j]
    BY <1>2
  <2> HIDE DEF j
  <2> QED
    BY <1>1, <2>1 DEF KeptInv, IsAdd
<1>7. asked \subseteq Call
  BY DEF TypeOK
<1>8. \A d \in asked : told[d] = <<>> => Added(d)' \/ Waiting(d)' \/ Pending(d)'
  BY <1>3, <1>4, <1>5, <1>7 DEF KeptInv
<1> QED
  BY <1>1, <1>6, <1>8 DEF KeptInv

(* A block of the main queue: its event is gone, and its call was answered *)
(* before or is now.                                                       *)
LEMMA BlockKeeps ==
    ASSUME TypeOK, KeptInv, RunBlock
    PROVE  KeptInv'
<1> DEFINE c == Head(mainQueue).call
           result == Head(mainQueue).result
           task == [kind |-> "remove", call |-> c]
           n == Len(mainQueue)
           m == Len(workerQueue)
<1>1. /\ mainQueue # <<>> /\ mainQueue' = Tail(mainQueue)
      /\ UNCHANGED <<asked, listeners, raised>>
      /\ IF c \in muted
           THEN UNCHANGED <<muted, told, workerQueue>>
           ELSE /\ told' = [told EXCEPT ![c] = Append(@, result)]
                /\ \/ UNCHANGED <<muted, workerQueue>>
                   \/ muted' = muted \cup {c} /\ workerQueue' = Append(workerQueue, task)
  BY DEF RunBlock, queries, Mute
<1>2. /\ n \in Nat /\ n > 0 /\ DOMAIN mainQueue = 1..n /\ DOMAIN mainQueue' = 1..n-1
      /\ \A i \in 1..n-1 : mainQueue'[i] = mainQueue[i + 1]
      /\ Head(mainQueue) = mainQueue[1] /\ Head(mainQueue) \in Events
  BY <1>1, Popped DEF TypeOK
<1>3. c \in Call /\ result \in Results /\ told \in [Call -> Seq(Results)]
  BY <1>2 DEF Events, TypeOK
<1>4. task \in Tasks /\ task.kind = "remove" /\ task.call = c /\ workerQueue \in Seq(Tasks)
  BY <1>3 DEF Tasks, TypeOK
<1> HIDE DEF task
<1>5. told'[c] # <<>> /\ \A d \in Call : told[d] # <<>> => told'[d] # <<>>
  <2>1. Append(told[c], result) # <<>>
    BY <1>3, AppendProperties
  <2>2. CASE c \in muted
    BY <1>1, <2>2 DEF KeptInv
  <2>3. CASE c \notin muted
    BY <1>1, <1>3, <2>1, <2>3
  <2> QED
    BY <2>2, <2>3
<1>6. \A d \in Call : told'[d] = <<>> => d # c /\ told[d] = <<>>
  BY <1>5
<1>7. \A d : Pending(d) => Pending(d)' \/ d = c
  <2>1. \A i \in 1..n : i # 1 => i - 1 \in 1..n-1 /\ mainQueue'[i - 1] = mainQueue[i]
    <3> SUFFICES ASSUME NEW i \in 1..n, i # 1
                 PROVE  i - 1 \in 1..n-1 /\ mainQueue'[i - 1] = mainQueue[i]
      OBVIOUS
    <3>1. i - 1 \in 1..n-1 /\ i - 1 + 1 = i
      BY <1>2
    <3> QED
      BY <1>2, <3>1
  <2> QED
    BY <1>2, <2>1 DEF Pending
<1>8. \A d : Waiting(d)' <=> Waiting(d)
  BY <1>1 DEF Waiting
<1>9. /\ m \in Nat /\ DOMAIN workerQueue = 1..m
      /\ \A i \in DOMAIN workerQueue : i \in DOMAIN workerQueue' /\ workerQueue'[i] = workerQueue[i]
      /\ \A i \in DOMAIN workerQueue' : i \in DOMAIN workerQueue \/ workerQueue'[i] = task
  <2>1. CASE UNCHANGED workerQueue
    BY <2>1, TaskCalls
  <2>2. CASE workerQueue' = Append(workerQueue, task)
    <3>1. /\ m \in Nat /\ DOMAIN workerQueue = 1..m /\ DOMAIN workerQueue' = 1..m+1
          /\ \A i \in 1..m : workerQueue'[i] = workerQueue[i]
          /\ workerQueue'[m+1] = task
      BY <1>4, <2>2, Appended
    <3>2. \A i \in 1..m+1 : i \in 1..m \/ i = m + 1
      BY <3>1
    <3>3. \A i \in 1..m : i \in 1..m+1
      BY <3>1
    <3> QED
      BY <3>1, <3>2, <3>3
  <2> QED
    BY <1>1, <2>1, <2>2
<1>10. \A d : Added(d) => Added(d)'
  BY <1>9 DEF Added
<1>11. asked \subseteq Call /\ muted \subseteq Call
  BY DEF TypeOK
<1> HIDE DEF c
<1>12. \A d \in asked' : told'[d] = <<>> => Added(d)' \/ Waiting(d)' \/ Pending(d)'
  BY <1>1, <1>6, <1>7, <1>8, <1>10, <1>11 DEF KeptInv
<1>13. \A d \in muted' : told'[d] # <<>>
  BY <1>1, <1>5, <1>11 DEF KeptInv
<1>14. ASSUME NEW i \in DOMAIN workerQueue'
       PROVE  IF IsAdd(i)' THEN workerQueue'[i].call \notin raised'
                           ELSE told'[workerQueue'[i].call] # <<>>
  <2>1. CASE i \in DOMAIN workerQueue
    <3>1. workerQueue'[i] = workerQueue[i] /\ workerQueue[i].call \in Call
      BY <1>9, <2>1, TaskCalls
    <3> QED
      BY <1>1, <1>5, <2>1, <3>1 DEF KeptInv, IsAdd
  <2>2. CASE workerQueue'[i] = task
    BY <1>4, <1>5, <2>2 DEF IsAdd
  <2> QED
    BY <1>9, <2>1, <2>2
<1> QED
  BY <1>1, <1>12, <1>13, <1>14 DEF KeptInv

LEMMA StepKept == TypeOK /\ OnceInv /\ KeptInv /\ [Next]_vars => KeptInv'
<1> SUFFICES ASSUME TypeOK, OnceInv, KeptInv, [Next]_vars PROVE KeptInv'
  OBVIOUS
<1>1. CASE UNCHANGED <<asked, workerQueue, listeners, raised, mainQueue, muted, told>>
  BY <1>1, EventsKeep DEF Waiting, Pending
<1>2. ASSUME NEW c \in Call, GetDocuments(c) \/ Resolve(c) PROVE KeptInv'
  BY <1>1, <1>2, CallKeeps DEF Resolve, queries
<1>3. CASE OnWatchStreamClose
  <2>1. UNCHANGED <<asked, workerQueue, listeners, muted, told>>
    BY <1>3 DEF OnWatchStreamClose, app
  <2>2. CASE Targets = {}
    BY <1>1, <1>3, <2>1, <2>2 DEF OnWatchStreamClose
  <2>3. CASE Targets # {}
    <3>1. HandleWatchStreamFailure
      BY <1>3, <2>3 DEF OnWatchStreamClose
    <3> QED
      BY <2>1, <3>1, BroadcastKeeps DEF HandleWatchStreamFailure
  <2> QED
    BY <2>2, <2>3
<1>4. CASE OnlineStateTimeout
  BY <1>4, BroadcastKeeps DEF OnlineStateTimeout, app
<1>5. ASSUME NEW q \in Query, Synced(q) PROVE KeptInv'
  <2>1. /\ Raise(EventsFor(listeners[q], "server")) /\ raised' = raised \cup listeners[q]
        /\ UNCHANGED <<asked, workerQueue, listeners, muted, told>>
    BY <1>5 DEF Synced, app
  <2>2. listeners[q] \in SUBSET Call /\ "server" \in Results /\ mainQueue \in Seq(Events)
    BY DEF TypeOK, Results
  <2>3. /\ \A c : Pending(c) => Pending(c)'
        /\ \A c \in listeners[q] : Pending(c)'
    BY <2>1, <2>2, RaisedForEach
  <2>4. raised' \subseteq raised \cup Listening
    BY <2>1 DEF Listening
  <2>5. \A c \in Call : Waiting(c) => Waiting(c)' \/ Pending(c)'
    BY <2>1, <2>3 DEF Waiting
  <2> QED
    BY <2>1, <2>3, <2>4, <2>5, EventsKeep
<1>6. ASSUME NEW q \in Query, ProcessTargetError(q) PROVE KeptInv'
  <2>1. /\ Raise(EventsFor(listeners[q], "error")) /\ listeners' = [listeners EXCEPT ![q] = {}]
        /\ UNCHANGED <<asked, workerQueue, raised, muted, told>>
    BY <1>6 DEF ProcessTargetError, app
  <2>2. listeners[q] \in SUBSET Call /\ "error" \in Results /\ mainQueue \in Seq(Events)
    BY DEF TypeOK, Results
  <2>3. /\ \A c : Pending(c) => Pending(c)'
        /\ \A c \in listeners[q] : Pending(c)'
    BY <2>1, <2>2, RaisedForEach
  <2>4. \A c \in Call : Waiting(c) => Waiting(c)' \/ Pending(c)'
    BY <2>1, <2>3, QueryAssumption DEF Waiting, TypeOK
  <2> QED
    BY <2>1, <2>3, <2>4, EventsKeep
<1>7. ASSUME NEW q \in Query, LocalWrite(q) PROVE KeptInv'
  <2> DEFINE result == IF q \in synced THEN "server" ELSE "cache"
             calls == listeners[q] \cap raised
  <2>1. calls \in SUBSET Call /\ result \in Results /\ mainQueue \in Seq(Events)
    BY DEF TypeOK, Results
  <2>2. Raise(EventsFor(calls, result)) /\ UNCHANGED <<app, workerQueue, queries>>
    BY <1>7 DEF LocalWrite
  <2> HIDE DEF result, calls
  <2>3. \A c : Pending(c) => Pending(c)'
    BY <2>1, <2>2, RaisedForEach
  <2> QED
    BY <2>2, <2>3, EventsKeep DEF app, queries, Waiting
<1>8. CASE OnWatchStreamOpen \/ BackoffElapsed \/ IdleStop \/ Message \/ HandleCredentialChange
  BY <1>1, <1>8
  DEF OnWatchStreamOpen, BackoffElapsed, IdleStop, Message, HandleCredentialChange, app, queries
<1>9. CASE UNCHANGED vars
  BY <1>1, <1>9 DEF vars, app, queries
<1> QED
  BY <1>2, <1>3, <1>4, <1>5, <1>6, <1>7, <1>8, <1>9, AddKeeps, RemoveKeeps, BlockKeeps DEF Next

-----------------------------------------------------------------------------
(* The invariant of every behaviour. *)

LEMMA InitInv == Init => StreamInv /\ WaitingInv /\ OnceInv
<1> SUFFICES ASSUME Init PROVE StreamInv /\ WaitingInv /\ OnceInv
  OBVIOUS
<1>1. \A q \in Query : listeners[q] = {}
  BY DEF Init
<1>2. Targets = {} /\ Listening = {}
  BY <1>1 DEF Targets, TargetsOf, Listening
<1>3. StreamInv /\ WaitingInv
  BY <1>1, <1>2 DEF Init, StreamInv, AssertsHold, StreamForTargets, IsStarted, WaitingInv
<1>4. DOMAIN workerQueue = {} /\ DOMAIN mainQueue = {}
  BY DEF Init
<1>5. \A c \in Call : told[c] = <<>>
  BY DEF Init
<1>6. OnceInv
  BY <1>1, <1>4, <1>5
  DEF OnceInv, ListenersOfQuery, OnlyAsked, AddedOnce, ErrorIsLast, AnsweredIsOver, IsAdd, Pending
<1> QED
  BY <1>3, <1>6

GetDocumentsInv == TypeOK /\ StreamInv /\ WaitingInv /\ OnceInv

(* The invariant the three properties below follow from: types, the online *)
(* state and the stream, who waits, and the order of what a call goes      *)
(* through.                                                                *)
THEOREM GetDocumentsInvariant == Spec => []GetDocumentsInv
<1>1. Init => GetDocumentsInv
  BY InitType, InitInv DEF GetDocumentsInv
<1>2. GetDocumentsInv /\ [Next]_vars => GetDocumentsInv'
  BY StepType, StepStream, StepWaiting, StepOnce DEF GetDocumentsInv
<1> QED
  BY <1>1, <1>2, PTL DEF Spec

(* The assertions of OnlineStateTracker never fail, and the client never   *)
(* stops a watch stream it needs.                                          *)
THEOREM GetDocumentsAsserts == Spec => []AssertsHold
<1>1. GetDocumentsInv => AssertsHold
  BY DEF GetDocumentsInv, StreamInv
<1> QED
  BY <1>1, GetDocumentsInvariant, PTL

(* A listener without its first event can still get it: its query is out   *)
(* of sync, the client is not off line, and the stream is under way.       *)
THEOREM GetDocumentsNobodyWaits == Spec => []NobodyWaitsInVain
<1>1. GetDocumentsInv => NobodyWaitsInVain
  BY WaitingSuffices DEF GetDocumentsInv
<1> QED
  BY <1>1, GetDocumentsInvariant, PTL

(* No callback runs twice, however many snapshots and errors are raised    *)
(* before the listener is gone.                                            *)
THEOREM GetDocumentsCalledBackOnce == Spec => []CalledBackOnce
<1>1. GetDocumentsInv => CalledBackOnce
  <2> SUFFICES ASSUME GetDocumentsInv, NEW c \in Call PROVE Len(told[c]) <= 1
    BY DEF CalledBackOnce
  <2>1. CASE told[c] = <<>>
    <3>1. Len(<<>>) = 0
      OBVIOUS
    <3> QED
      BY <2>1, <3>1
  <2>2. CASE told[c] # <<>>
    <3>1. Len(told[c]) = 1
      BY <2>2 DEF GetDocumentsInv, OnceInv, AnsweredIsOver
    <3> QED
      BY <3>1
  <2> QED
    BY <2>1, <2>2
<1> QED
  BY <1>1, GetDocumentsInvariant, PTL

(* A call without an answer is in one of the queues or waits as a listener *)
(* that NobodyWaitsInVain speaks of: it is never lost in between.          *)
THEOREM GetDocumentsNotForgotten == Spec => []NotForgotten
<1>1. Init => KeptInv
  BY DEF Init, KeptInv
<1>2. GetDocumentsInv /\ KeptInv /\ [Next]_vars => KeptInv'
  BY StepKept DEF GetDocumentsInv
<1>3. KeptInv => NotForgotten
  BY KeptSuffices
<1>4. Spec => []KeptInv
  BY <1>1, <1>2, GetDocumentsInvariant, PTL DEF Spec
<1> QED
  BY <1>3, <1>4, PTL
=============================================================================
