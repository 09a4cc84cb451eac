----------------------- MODULE StreamCredentialsProofs -----------------------
(***************************************************************************)
(* The token of an open stream, for every set of accounts and any number   *)
(* of changes and failures.  Two chains are followed: that of the current  *)
(* user, from FIRAuth over the provider to SyncEngine, and that of a       *)
(* token, from the stream over FIRAuth and the provider back to it.        *)
(***************************************************************************)
EXTENDS StreamCredentials, SequenceTheorems, TLAPS

(* The last notice is of FIRAuth's user; without one the provider has him. *)
ProviderFollows ==
    /\ (\A i \in DOMAIN mainQueue : ~IsNotice(i)) => currentUser = authUser
    /\ \A i \in DOMAIN mainQueue :
           IsNotice(i) /\ (\A j \in i+1..Len(mainQueue) : ~IsNotice(j)) =>
               mainQueue[i].user = authUser

(* The last change on the worker queue is of the provider's user; without  *)
(* one SyncEngine has him.                                                 *)
ClientFollows ==
    ~listening =>
        /\ (\A i \in DOMAIN workerQueue : ~IsCredential(i)) => syncUser = currentUser
        /\ \A i \in DOMAIN workerQueue :
               IsCredential(i) /\ (\A j \in i+1..Len(workerQueue) : ~IsCredential(j)) =>
                   workerQueue[i].user = currentUser

(* No call is ahead of the counters. *)
CountersPassed ==
    /\ \A i \in DOMAIN authQueue : authQueue[i].counter <= tokenCounter
    /\ \A f \in fetching : f.counter <= tokenCounter
    /\ \A i \in DOMAIN mainQueue : IsToken(i) => mainQueue[i].counter <= tokenCounter

ClosesPassed ==
    /\ \A i \in DOMAIN authQueue : authQueue[i].close <= closeCount
    /\ \A f \in fetching : f.close <= closeCount
    /\ \A i \in DOMAIN mainQueue : IsToken(i) => mainQueue[i].close <= closeCount
    /\ \A i \in DOMAIN workerQueue : IsResume(i) => workerQueue[i].close <= closeCount

(* A token with the provider's counter is of its user, unless a notice     *)
(* comes before it and changes the counter.                                *)
TokensOfProvider ==
    /\ \A f \in fetching :
           f.counter = tokenCounter /\ (\A i \in DOMAIN mainQueue : ~IsNotice(i)) =>
               f.owner = currentUser
    /\ \A i \in DOMAIN mainQueue :
           IsToken(i) /\ mainQueue[i].counter = tokenCounter /\ (\A j \in 1..i-1 : ~IsNotice(j)) =>
               mainQueue[i].owner \in {currentUser, NoToken}

(* A token of this attempt is of SyncEngine's user, unless a change comes  *)
(* before it and ends the attempt; so is the one the stream is open with.  *)
TokensOfClient ==
    /\ \A i \in DOMAIN workerQueue :
           IsResume(i) /\ workerQueue[i].close = closeCount /\ (\A j \in 1..i-1 : ~IsCredential(j)) =>
               workerQueue[i].owner \in {syncUser, NoToken}
    /\ OpenAsCurrentUser

(* The token of this attempt is on its way at one place only, and only     *)
(* while the stream is starting.                                           *)
OneToken ==
    /\ \A i, j \in DOMAIN authQueue : Asked(i) /\ Asked(j) => i = j
    /\ \A f, g \in fetching : Taken(f) /\ Taken(g) => f = g
    /\ \A i, j \in DOMAIN mainQueue : Answered(i) /\ Answered(j) => i = j
    /\ \A i, j \in DOMAIN workerQueue : Due(i) /\ Due(j) => i = j
    /\ \A i \in DOMAIN authQueue : Asked(i) =>
          /\ stream = "Starting"
          /\ \A f \in fetching : ~Taken(f)
          /\ \A j \in DOMAIN mainQueue : ~Answered(j)
          /\ \A j \in DOMAIN workerQueue : ~Due(j)
    /\ \A f \in fetching : Taken(f) =>
          /\ stream = "Starting"
          /\ \A j \in DOMAIN mainQueue : ~Answered(j)
          /\ \A j \in DOMAIN workerQueue : ~Due(j)
    /\ \A i \in DOMAIN mainQueue : Answered(i) =>
          /\ stream = "Starting"
          /\ \A j \in DOMAIN workerQueue : ~Due(j)
    /\ \A i \in DOMAIN workerQueue : Due(i) => stream = "Starting"

CredentialsInv ==
    /\ TypeOK
    /\ ProviderFollows /\ ClientFollows
    /\ CountersPassed /\ ClosesPassed
    /\ TokensOfProvider /\ TokensOfClient
    /\ OneToken

-----------------------------------------------------------------------------
(* What is behind a queue, after a task is put on it or taken off it.      *)
LEMMA Appended ==
    ASSUME NEW S, NEW s \in Seq(S), NEW e \in S
    PROVE  /\ Append(s, e) \in Seq(S)
           /\ Len(Append(s, e)) = Len(s) + 1
           /\ DOMAIN Append(s, e) = 1..Len(s) + 1
           /\ \A i \in 1..Len(s) : Append(s, e)[i] = s[i]
           /\ Append(s, e)[Len(s) + 1] = e
BY AppendProperties

LEMMA Popped ==
    ASSUME NEW S, NEW s \in Seq(S), s # <<>>
    PROVE  /\ Tail(s) \in Seq(S)
           /\ Len(s) \in Nat /\ Len(s) > 0
           /\ Len(Tail(s)) = Len(s) - 1
           /\ DOMAIN Tail(s) = 1..Len(s) - 1
           /\ DOMAIN s = 1..Len(s)
           /\ \A i \in 1..Len(s) - 1 : Tail(s)[i] = s[i + 1]
           /\ Head(s) = s[1] /\ Head(s) \in S
BY HeadTailProperties, LenProperties

LEMMA Lengths ==
    ASSUME NEW S, NEW s \in Seq(S)
    PROVE  Len(s) \in Nat /\ DOMAIN s = 1..Len(s) /\ \A i \in 1..Len(s) : s[i] \in S
BY LenProperties

(* What is put on the queues has the type of what they hold.               *)
LEMMA TaskTypes ==
    /\ \A u \in User : Notice(u) \in MainBlocks /\ Credential(u) \in WorkerTasks
    /\ \A call \in Calls \cup Fetches, owner \in User \cup {NoToken} :
           Answer(call, owner) \in MainBlocks
    /\ \A close \in Nat, owner \in User \cup {NoToken} : Resume(owner, close) \in WorkerTasks
BY DEF Notice, Credential, Answer, Resume, MainBlocks, WorkerTasks, Calls, Fetches

LEMMA PostedAlone ==
    ASSUME TypeOK, NEW u \in User, Posted(u, <<>>)
    PROVE  mainQueue' = Append(mainQueue, Notice(u))
<1>1. mainQueue \in Seq(MainBlocks) /\ Notice(u) \in MainBlocks
  BY TaskTypes DEF TypeOK
<1>2. mainQueue' = Append(mainQueue, Notice(u)) \o <<>>
  BY <1>1, AppendIsConcat DEF Posted
<1> QED
  BY <1>1, <1>2, AppendProperties, ConcatEmptySeq

LEMMA PostedBefore ==
    ASSUME TypeOK, NEW u \in User, NEW a \in MainBlocks, Posted(u, <<a>>)
    PROVE  mainQueue' = Append(Append(mainQueue, Notice(u)), a)
<1>1. mainQueue \in Seq(MainBlocks) /\ Notice(u) \in MainBlocks
  BY TaskTypes DEF TypeOK
<1>2. mainQueue' = Append(mainQueue, Notice(u)) \o <<a>>
  BY <1>1, AppendIsConcat DEF Posted
<1> QED
  BY <1>1, <1>2, AppendProperties, AppendIsConcat

-----------------------------------------------------------------------------
LEMMA InitType == Init => TypeOK
<1> SUFFICES ASSUME Init PROVE TypeOK
  OBVIOUS
<1>1. <<>> \in Seq(MainBlocks) /\ <<Notice(authUser)>> \in Seq(MainBlocks)
  BY TaskTypes DEF Init
<1>2. mainQueue \in Seq(MainBlocks)
  BY <1>1 DEF Init
<1>3. <<>> \in Seq(Calls) /\ <<>> \in Seq(WorkerTasks)
  BY EmptySeq
<1>4. 0 \in 0..MaxChanges /\ 0 \in 0..MaxFailures
  BY BoundAssumption
<1> QED
  BY <1>2, <1>3, <1>4, UserAssumption DEF Init, TypeOK

LEMMA StartType ==
    ASSUME TypeOK, NEW state \in {"Initial", "Error"}, NEW close \in Nat, Start(state, close)
    PROVE  /\ authQueue' \in Seq(Calls)
           /\ stream' \in {"Starting", "Backoff"}
<1>1. [counter |-> tokenCounter, close |-> close] \in Calls
  BY DEF TypeOK, Calls
<1>2. CASE state = "Error"
  BY <1>2 DEF Start, TypeOK
<1>3. CASE state # "Error"
  <2>1. stream' = "Starting"
        /\ authQueue' = Append(authQueue, [counter |-> tokenCounter, close |-> close])
    BY <1>3 DEF Start
  <2> QED
    BY <1>1, <2>1, AppendProperties DEF TypeOK
<1> QED
  BY <1>2, <1>3

LEMMA CloseType ==
    ASSUME TypeOK, NEW state \in {"Initial", "Error"}, CloseAndMaybeStart(state)
    PROVE  /\ authQueue' \in Seq(Calls)
           /\ stream' \in {"Initial", "Error", "Starting", "Backoff"}
           /\ closeCount' \in Nat
<1>1. closeCount' \in Nat
  BY DEF CloseAndMaybeStart, TypeOK
<1> QED
  BY <1>1, StartType DEF CloseAndMaybeStart, TypeOK

LEMMA StepType == TypeOK /\ [Next]_vars => TypeOK'
<1> SUFFICES ASSUME TypeOK, [Next]_vars PROVE TypeOK'
  OBVIOUS
<1> USE BoundAssumption
<1>1. ASSUME NEW u \in User, UpdateCurrentUser(u) PROVE TypeOK'
  BY <1>1, PostedAlone, TaskTypes, AppendProperties
  DEF UpdateCurrentUser, Posted, TypeOK, provider, client
<1>2. CASE TakeUser
  <2>1. Head(authQueue) \in Calls /\ authQueue' \in Seq(Calls)
    BY <1>2, Popped DEF TakeUser, TypeOK
  <2>2. fetching' \subseteq Fetches
    BY <1>2, <2>1 DEF TakeUser, TypeOK, Calls, Fetches
  <2> QED
    BY <1>2, <2>1, <2>2 DEF TakeUser, TypeOK, provider, client
<1>3. ASSUME NEW f \in fetching, Fetched(f) PROVE TypeOK'
  <2>1. f \in Fetches /\ f.owner \in User
    BY DEF TypeOK, Fetches
  <2>2. Answer(f, f.owner) \in MainBlocks
    BY <2>1, TaskTypes
  <2>3. mainQueue' \in Seq(MainBlocks) /\ authUser' \in User /\ changes' \in 0..MaxChanges
    <3>1. CASE mainQueue' = Append(mainQueue, Answer(f, f.owner)) /\ UNCHANGED <<authUser, changes>>
      BY <3>1, <2>2, AppendProperties DEF TypeOK
    <3>2. CASE Posted(authUser, <<Answer(f, f.owner)>>)
      BY <3>2, <2>2, PostedBefore, TaskTypes, AppendProperties DEF TypeOK, Posted
    <3> QED
      BY <1>3, <3>1, <3>2 DEF Fetched
  <2> QED
    BY <1>3, <2>3 DEF Fetched, TypeOK, provider, client
<1>4. ASSUME NEW f \in fetching, FetchFailed(f) PROVE TypeOK'
  <2>1. f \in Fetches
    BY DEF TypeOK
  <2>2. Answer(f, NoToken) \in MainBlocks
    BY <2>1, TaskTypes
  <2>3. mainQueue' \in Seq(MainBlocks) /\ authUser' \in User /\ changes' \in 0..MaxChanges
    <3>1. CASE mainQueue' = Append(mainQueue, Answer(f, NoToken)) /\ UNCHANGED <<authUser, changes>>
      BY <3>1, <2>2, AppendProperties DEF TypeOK
    <3>2. CASE Posted(Unauthenticated, <<Answer(f, NoToken)>>)
      BY <3>2, <2>2, PostedBefore, TaskTypes, AppendProperties, UserAssumption DEF TypeOK, Posted
    <3> QED
      BY <1>4, <3>1, <3>2 DEF FetchFailed
  <2> QED
    BY <1>4, <2>3 DEF FetchFailed, Failed, TypeOK, provider, client
<1>5. CASE Notified
  <2>1. Head(mainQueue) \in MainBlocks /\ mainQueue' \in Seq(MainBlocks)
    BY <1>5, Popped DEF Notified, TypeOK
  <2>2. Head(mainQueue).user \in User
    BY <1>5, <2>1 DEF Notified, MainBlocks
  <2> QED
    BY <1>5, <2>1, <2>2 DEF Notified, TypeOK, auth, client
<1>6. CASE CallListener
  BY <1>6, TaskTypes, AppendProperties DEF CallListener, TypeOK, auth, client
<1>7. CASE GetTokenCallback
  <2>1. Head(mainQueue) \in MainBlocks /\ mainQueue' \in Seq(MainBlocks)
    BY <1>7, Popped DEF GetTokenCallback, TypeOK
  <2>2. Head(mainQueue).owner \in User \cup {NoToken} /\ Head(mainQueue).close \in Nat
    BY <1>7, <2>1 DEF GetTokenCallback, MainBlocks
  <2>3. [counter |-> tokenCounter, close |-> Head(mainQueue).close] \in Calls
    BY <2>2 DEF TypeOK, Calls
  <2>4. authQueue' \in Seq(Calls) /\ workerQueue' \in Seq(WorkerTasks)
    <3>1. CASE Outdated(Head(mainQueue))
      <4>1. authQueue' = Append(authQueue, [counter |-> tokenCounter, close |-> Head(mainQueue).close])
            /\ workerQueue' = workerQueue
        BY <1>7, <3>1 DEF GetTokenCallback
      <4> QED
        BY <2>3, <4>1, AppendProperties DEF TypeOK
    <3>2. CASE ~Outdated(Head(mainQueue))
      <4>1. Resume(Head(mainQueue).owner, Head(mainQueue).close) \in WorkerTasks
        BY <2>2, TaskTypes
      <4>2. workerQueue' = Append(workerQueue, Resume(Head(mainQueue).owner, Head(mainQueue).close))
            /\ authQueue' = authQueue
        BY <1>7, <3>2 DEF GetTokenCallback
      <4> QED
        BY <4>1, <4>2, AppendProperties DEF TypeOK
    <3> QED
      BY <3>1, <3>2
  <2> QED
    BY <1>7, <2>1, <2>4 DEF GetTokenCallback, TypeOK, auth, provider, client
<1>8. CASE StartStream
  <2>1. stream \in {"Initial", "Error"}
    BY <1>8 DEF StartStream, IsStarted, TypeOK
  <2> QED
    BY <1>8, <2>1, StartType DEF StartStream, TypeOK, auth, provider
<1>9. CASE BackoffElapsed
  BY <1>9, StartType DEF BackoffElapsed, TypeOK, auth, provider
<1>10. CASE HandleCredentialChange
  <2>1. Head(workerQueue) \in WorkerTasks /\ workerQueue' \in Seq(WorkerTasks)
    BY <1>10, Popped DEF HandleCredentialChange, TypeOK
  <2>2. Head(workerQueue).user \in User
    BY <1>10, <2>1 DEF HandleCredentialChange, WorkerTasks
  <2>3. authQueue' \in Seq(Calls) /\ closeCount' \in Nat
        /\ stream' \in {"Initial", "Error", "Starting", "Backoff"}
    <3>1. CASE IsStarted
      BY <1>10, <3>1, CloseType DEF HandleCredentialChange
    <3>2. CASE ~IsStarted
      <4>1. stream \in {"Initial", "Error"}
        BY <3>2 DEF IsStarted, TypeOK
      <4> QED
        BY <1>10, <3>2, <4>1, StartType DEF HandleCredentialChange, TypeOK
    <3> QED
      BY <3>1, <3>2
  <2> QED
    BY <1>10, <2>1, <2>2, <2>3 DEF HandleCredentialChange, TypeOK, auth, provider
<1>11. CASE CredentialsArrive
  <2>1. Head(workerQueue) \in WorkerTasks /\ workerQueue' \in Seq(WorkerTasks)
    BY <1>11, Popped DEF CredentialsArrive, TypeOK
  <2>2. Head(workerQueue).owner \in User \cup {NoToken} /\ Head(workerQueue).close \in Nat
    BY <1>11, <2>1 DEF CredentialsArrive, WorkerTasks
  <2>3. /\ authQueue' \in Seq(Calls) /\ closeCount' \in Nat /\ openedAs' \in User
        /\ stream' \in {"Initial", "Starting", "Open", "Error", "Backoff"}
    <3>1. CASE Head(workerQueue).close # closeCount
      BY <1>11, <3>1 DEF CredentialsArrive, TypeOK
    <3>2. CASE Head(workerQueue).close = closeCount /\ Head(workerQueue).owner = NoToken
      BY <1>11, <3>2, CloseType DEF CredentialsArrive, TypeOK
    <3>3. CASE Head(workerQueue).close = closeCount /\ Head(workerQueue).owner # NoToken
      BY <1>11, <3>3, <2>2 DEF CredentialsArrive, TypeOK
    <3> QED
      BY <3>1, <3>2, <3>3
  <2> QED
    BY <1>11, <2>1, <2>3 DEF CredentialsArrive, TypeOK, auth, provider
<1>12. CASE StreamCloses
  BY <1>12, CloseType DEF StreamCloses, Failed, TypeOK, auth, provider
<1>13. CASE UNCHANGED vars
  BY <1>13 DEF TypeOK, vars, auth, provider, client
<1> QED
  BY <1>1, <1>2, <1>3, <1>4, <1>5, <1>6, <1>7, <1>8, <1>9, <1>10, <1>11, <1>12, <1>13
  DEF Next, Deliver

-----------------------------------------------------------------------------
LEMMA InitInv == Init => CredentialsInv
<1> SUFFICES ASSUME Init PROVE CredentialsInv
  OBVIOUS
<1>1. TypeOK
  BY InitType
<1>2. mainQueue = <<>> \/ mainQueue = <<[kind |-> "notice", user |-> authUser]>>
  BY DEF Init, Notice
<1>3. /\ \A i \in DOMAIN mainQueue : mainQueue[i] = [kind |-> "notice", user |-> authUser]
      /\ authQueue = <<>> /\ workerQueue = <<>> /\ fetching = {} /\ currentUser = authUser
      /\ syncUser = currentUser /\ stream = "Initial"
  BY <1>2 DEF Init
<1> QED
  BY <1>1, <1>3 DEF CredentialsInv, ProviderFollows, ClientFollows, CountersPassed, ClosesPassed,
     TokensOfProvider, TokensOfClient, OneToken, OpenAsCurrentUser, IsNotice, IsToken,
     IsCredential, IsResume, Asked, Taken, Answered, Due

(* The account changes, and nobody has heard of it yet.                    *)
LEMMA PostedStep ==
    ASSUME CredentialsInv, TypeOK', NEW u \in User, UpdateCurrentUser(u)
    PROVE  CredentialsInv'
<1> DEFINE n == Len(mainQueue)
<1> USE DEF CredentialsInv
<1>1. mainQueue \in Seq(MainBlocks) /\ Notice(u) \in MainBlocks
  BY TaskTypes DEF TypeOK
<1>2. mainQueue' = Append(mainQueue, Notice(u))
  BY PostedAlone DEF UpdateCurrentUser
<1>3. /\ n \in Nat /\ DOMAIN mainQueue = 1..n /\ DOMAIN mainQueue' = 1..n+1 /\ Len(mainQueue') = n + 1
      /\ \A i \in 1..n : mainQueue'[i] = mainQueue[i]
      /\ mainQueue'[n + 1].kind = "notice" /\ mainQueue'[n + 1].user = u
  BY <1>1, <1>2, Appended, Lengths DEF Notice
<1>4. authUser' = u /\ UNCHANGED <<authQueue, fetching, provider, client, workerQueue>>
  BY DEF UpdateCurrentUser, Posted
<1>5. ProviderFollows'
  BY <1>3, <1>4 DEF ProviderFollows, IsNotice
<1>6. ClientFollows'
  BY <1>4 DEF ClientFollows, IsCredential, provider, client
<1>7. CountersPassed' /\ ClosesPassed'
  BY <1>3, <1>4 DEF CountersPassed, ClosesPassed, IsToken, IsResume, provider, client
<1>8. TokensOfProvider'
  BY <1>3, <1>4 DEF TokensOfProvider, IsToken, IsNotice, provider
<1>9. TokensOfClient'
  BY <1>4 DEF TokensOfClient, OpenAsCurrentUser, IsResume, IsCredential, client
<1>10. OneToken'
  BY <1>3, <1>4 DEF OneToken, Asked, Taken, Answered, Due, IsToken, IsResume, client
<1> QED
  BY <1>5, <1>6, <1>7, <1>8, <1>9, <1>10

LEMMA TakeUserStep ==
    ASSUME CredentialsInv, TypeOK', TakeUser
    PROVE  CredentialsInv'
<1> DEFINE n == Len(authQueue)
           f == [owner |-> authUser, counter |-> Head(authQueue).counter,
                 close |-> Head(authQueue).close]
<1> USE DEF CredentialsInv
<1>1. /\ n \in Nat /\ n > 0 /\ DOMAIN authQueue = 1..n /\ DOMAIN authQueue' = 1..n-1
      /\ \A i \in 1..n-1 : authQueue'[i] = authQueue[i + 1]
      /\ Head(authQueue) = authQueue[1]
  BY Popped DEF TakeUser, TypeOK
<1>2. /\ fetching' = fetching \cup {f}
      /\ f.owner = authUser /\ f.counter = authQueue[1].counter /\ f.close = authQueue[1].close
  BY <1>1 DEF TakeUser
<1> HIDE DEF f
<1>3. UNCHANGED <<authUser, mainQueue, provider, client, workerQueue>>
  BY DEF TakeUser
<1>5. ProviderFollows' /\ ClientFollows'
  BY <1>3 DEF ProviderFollows, ClientFollows, IsNotice, IsCredential, provider, client
<1>7. CountersPassed' /\ ClosesPassed'
  BY <1>1, <1>2, <1>3 DEF CountersPassed, ClosesPassed, IsToken, IsResume, provider, client
<1>8. TokensOfProvider'
  BY <1>2, <1>3 DEF TokensOfProvider, ProviderFollows, IsToken, IsNotice, provider
<1>9. TokensOfClient'
  BY <1>3 DEF TokensOfClient, OpenAsCurrentUser, IsResume, IsCredential, client
<1>10. OneToken'
  <2>1. /\ UNCHANGED <<stream, closeCount>>
        /\ \A i : Answered(i)' <=> Answered(i)
        /\ \A i : Due(i)' <=> Due(i)
    BY <1>3 DEF Answered, Due, IsToken, IsResume, client
  <2>2. \A i \in 1..n-1 : Asked(i)' <=> Asked(i + 1)
    BY <1>1, <2>1 DEF Asked
  <2>3. \A g \in fetching' : Taken(g)' => (g \in fetching /\ Taken(g)) \/ (g = f /\ Asked(1))
    BY <1>1, <1>2, <2>1 DEF Asked, Taken
  <2>4. \A i, j \in 1..n-1 : Asked(i)' /\ Asked(j)' => i = j
    <3>1. ASSUME NEW i \in 1..n-1, NEW j \in 1..n-1, Asked(i)', Asked(j)' PROVE i = j
      <4>1. i + 1 = j + 1
        BY <1>1, <2>2, <3>1 DEF OneToken
      <4> QED
        BY <4>1
    <3> QED
      BY <3>1
  <2>5. ~(Asked(1) /\ \E i \in 1..n-1 : Asked(i)')
    <3>1. ASSUME NEW i \in 1..n-1, Asked(1), Asked(i)' PROVE FALSE
      <4>1. i + 1 = 1
        BY <1>1, <2>2, <3>1 DEF OneToken
      <4> QED
        BY <4>1
    <3> QED
      BY <3>1
  <2>6. \A i \in 1..n-1 : Asked(i)' =>
          /\ stream = "Starting"
          /\ \A g \in fetching' : ~Taken(g)'
          /\ \A j \in DOMAIN mainQueue : ~Answered(j)
          /\ \A j \in DOMAIN workerQueue : ~Due(j)
    BY <1>1, <2>2, <2>3, <2>5 DEF OneToken
  <2>7. \A g \in fetching' : Taken(g)' =>
          /\ stream = "Starting"
          /\ \A h \in fetching' : Taken(h)' => g = h
          /\ \A j \in DOMAIN mainQueue : ~Answered(j)
          /\ \A j \in DOMAIN workerQueue : ~Due(j)
    BY <1>1, <2>3 DEF OneToken
  <2>8. UNCHANGED <<mainQueue, workerQueue>>
    BY <1>3
  <2> QED
    BY <1>1, <2>1, <2>4, <2>6, <2>7, <2>8 DEF OneToken
<1> QED
  BY <1>5, <1>7, <1>8, <1>9, <1>10

(* An answer is posted, behind a notice (k = 1) or alone.                  *)
LEMMA AnswerStep ==
    ASSUME CredentialsInv, TypeOK', NEW f \in fetching, NEW owner \in {f.owner, NoToken},
           NEW k \in {0, 1}, k = 0 => authUser' = authUser,
           fetching' = fetching \ {f},
           UNCHANGED <<authQueue, provider, client, workerQueue>>,
           Len(mainQueue') = Len(mainQueue) + 1 + k,
           \A i \in 1..Len(mainQueue) : mainQueue'[i] = mainQueue[i],
           k = 1 => mainQueue'[Len(mainQueue) + 1] = Notice(authUser'),
           mainQueue'[Len(mainQueue) + 1 + k] = Answer(f, owner)
    PROVE  CredentialsInv'
<1> DEFINE n == Len(mainQueue)
           m == Len(mainQueue) + 1 + k
<1> USE DEF CredentialsInv
<1>1. /\ n \in Nat /\ DOMAIN mainQueue = 1..n /\ DOMAIN mainQueue' = 1..m
      /\ Len(mainQueue') = m
      /\ \/ m = n + 1 /\ k = 0
         \/ m = n + 2 /\ k = 1
  <2>1. mainQueue \in Seq(MainBlocks) /\ mainQueue' \in Seq(MainBlocks)
    BY DEF TypeOK
  <2>2. n \in Nat /\ DOMAIN mainQueue = 1..n /\ DOMAIN mainQueue' = 1..Len(mainQueue')
    BY <2>1, Lengths
  <2> QED
    BY <2>2
<1>2. /\ mainQueue'[m].kind = "token" /\ mainQueue'[m].owner = owner
      /\ mainQueue'[m].counter = f.counter /\ mainQueue'[m].close = f.close
      /\ k = 1 => mainQueue'[n + 1].kind = "notice" /\ mainQueue'[n + 1].user = authUser'
  BY DEF Notice, Answer
<1>3. ProviderFollows'
  <2>1. CASE k = 0
    <3>1. \A i \in 1..m : IsNotice(i)' <=> i \in 1..n /\ IsNotice(i)
      BY <2>1, <1>1, <1>2 DEF IsNotice
    <3> QED
      BY <2>1, <1>1, <3>1 DEF ProviderFollows, IsNotice, provider
  <2>2. CASE k = 1
    <3>1. m = n + 2 /\ n + 1 \in DOMAIN mainQueue'
      BY <2>2, <1>1
    <3>2. \A i \in 1..m : (i = n + 1 => IsNotice(i)') /\ (i = n + 2 => ~IsNotice(i)')
      BY <2>2, <3>1, <1>2 DEF IsNotice
    <3> QED
      BY <2>2, <1>1, <1>2, <3>1, <3>2 DEF ProviderFollows
  <2> QED
    BY <2>1, <2>2
<1>4. ClientFollows'
  BY DEF ClientFollows, IsCredential, provider, client
<1>5. CountersPassed' /\ ClosesPassed'
  <2>1. \A i \in 1..m : IsToken(i)' =>
           (i \in 1..n /\ IsToken(i) /\ mainQueue'[i] = mainQueue[i]) \/ i = m
    BY <1>1, <1>2 DEF IsToken
  <2> QED
    BY <1>1, <1>2, <2>1 DEF CountersPassed, ClosesPassed, IsResume, provider, client
<1>6. TokensOfProvider'
  <2>1. \A g \in fetching' :
           g.counter = tokenCounter /\ (\A i \in DOMAIN mainQueue' : ~IsNotice(i)') =>
               g.owner = currentUser
    BY <1>1 DEF TokensOfProvider, IsNotice
  <2>2. ASSUME NEW i \in 1..n, IsToken(i)', mainQueue'[i].counter = tokenCounter,
               \A j \in 1..i-1 : ~IsNotice(j)'
        PROVE  mainQueue'[i].owner \in {currentUser, NoToken}
    BY <1>1, <2>2 DEF TokensOfProvider, IsNotice, IsToken
  <2>3. ASSUME k = 1 PROVE ~\A j \in 1..m-1 : ~IsNotice(j)'
    BY <1>1, <1>2, <2>3 DEF IsNotice
  <2>4. ASSUME k = 0, f.counter = tokenCounter, \A j \in 1..m-1 : ~IsNotice(j)'
        PROVE  owner \in {currentUser, NoToken}
    BY <1>1, <2>4 DEF TokensOfProvider, IsNotice
  <2>5. ASSUME NEW i \in 1..m, IsToken(i)' PROVE i \in 1..n \/ i = m
    BY <1>1, <1>2, <2>5 DEF IsToken
  <2>6. UNCHANGED <<tokenCounter, currentUser>>
    BY DEF provider
  <2> QED
    BY <1>1, <1>2, <2>1, <2>2, <2>3, <2>4, <2>5, <2>6 DEF TokensOfProvider
<1>7. TokensOfClient'
  BY DEF TokensOfClient, OpenAsCurrentUser, IsResume, IsCredential, client
<1>8. OneToken'
  <2>1. /\ UNCHANGED <<stream, closeCount>>
        /\ \A i : Asked(i)' <=> Asked(i)
        /\ \A i : Due(i)' <=> Due(i)
        /\ \A g : Taken(g)' <=> Taken(g) /\ g # f
    BY DEF Asked, Due, Taken, IsResume, client
  <2>2. \A i \in 1..m : Answered(i)' <=> ((i \in 1..n /\ Answered(i)) \/ (i = m /\ Taken(f)))
    <3>1. ASSUME NEW i \in 1..n PROVE Answered(i)' <=> Answered(i)
      BY <1>1, <2>1 DEF Answered, IsToken
    <3>2. ASSUME NEW i \in 1..m, i = m PROVE Answered(i)' <=> Taken(f)
      BY <1>1, <1>2, <2>1, <3>2 DEF Answered, IsToken, Taken
    <3>3. \A i \in 1..m : IsToken(i)' => i \in 1..n \/ i = m
      BY <1>1, <1>2 DEF IsToken
    <3> QED
      BY <1>1, <3>1, <3>2, <3>3 DEF Answered
  <2> QED
    BY <1>1, <2>1, <2>2 DEF OneToken
<1> QED
  BY <1>3, <1>4, <1>5, <1>6, <1>7, <1>8

LEMMA FetchedStep ==
    ASSUME CredentialsInv, TypeOK', NEW f \in fetching, NEW owner \in {f.owner, NoToken},
           fetching' = fetching \ {f},
           UNCHANGED <<authQueue, provider, client, workerQueue>>,
           \/ mainQueue' = Append(mainQueue, Answer(f, owner)) /\ UNCHANGED authUser
           \/ \E u \in User : Posted(u, <<Answer(f, owner)>>)
    PROVE  CredentialsInv'
<1> DEFINE n == Len(mainQueue)
<1>1. mainQueue \in Seq(MainBlocks) /\ n \in Nat /\ TypeOK
  BY Lengths DEF CredentialsInv, TypeOK
<1>2. Answer(f, owner) \in MainBlocks
  <2>1. f \in Fetches /\ owner \in User \cup {NoToken}
    BY <1>1 DEF TypeOK, Fetches
  <2> QED
    BY <2>1, TaskTypes
<1>3. CASE mainQueue' = Append(mainQueue, Answer(f, owner)) /\ UNCHANGED authUser
  <2>1. /\ Len(mainQueue') = n + 1
        /\ \A i \in 1..n : mainQueue'[i] = mainQueue[i]
        /\ mainQueue'[n + 1] = Answer(f, owner)
    BY <1>1, <1>2, <1>3, Appended
  <2>2. 0 \in {0, 1} /\ n + 1 = n + 1 + 0
    BY <1>1
  <2> QED
    BY <1>3, <2>1, <2>2, AnswerStep
<1>4. ASSUME NEW u \in User, Posted(u, <<Answer(f, owner)>>)
      PROVE  CredentialsInv'
  <2> DEFINE noticed == Append(mainQueue, Notice(u))
  <2>1. /\ noticed \in Seq(MainBlocks) /\ Len(noticed) = n + 1
        /\ \A i \in 1..n : noticed[i] = mainQueue[i]
        /\ noticed[n + 1] = Notice(u)
    BY <1>1, TaskTypes, Appended
  <2>2. mainQueue' = Append(noticed, Answer(f, owner)) /\ authUser' = u
    BY <1>1, <1>2, <1>4, PostedBefore DEF Posted
  <2> HIDE DEF noticed
  <2>3. /\ Len(mainQueue') = n + 2
        /\ \A i \in 1..n+1 : mainQueue'[i] = noticed[i]
        /\ mainQueue'[n + 2] = Answer(f, owner)
    <3>1. n + 1 + 1 = n + 2
      BY <1>1
    <3> QED
      BY <1>2, <2>1, <2>2, <3>1, Appended
  <2>4. /\ Len(mainQueue') = n + 1 + 1
        /\ \A i \in 1..n : mainQueue'[i] = mainQueue[i]
        /\ mainQueue'[n + 1] = Notice(authUser')
        /\ mainQueue'[n + 1 + 1] = Answer(f, owner)
    BY <1>1, <2>1, <2>2, <2>3
  <2> QED
    BY <2>4, AnswerStep
<1> QED
  BY <1>3, <1>4

LEMMA NotifiedStep ==
    ASSUME CredentialsInv, TypeOK', Notified
    PROVE  CredentialsInv'
<1> DEFINE n == Len(mainQueue)
<1> USE DEF CredentialsInv
<1>1. /\ n \in Nat /\ n > 0 /\ DOMAIN mainQueue = 1..n /\ DOMAIN mainQueue' = 1..n-1
      /\ Len(mainQueue') = n - 1
      /\ \A i \in 1..n-1 : mainQueue'[i] = mainQueue[i + 1]
      /\ Head(mainQueue) = mainQueue[1]
  BY Popped DEF Notified, TypeOK
<1>2. /\ IsNotice(1) /\ currentUser' = mainQueue[1].user
      /\ tokenCounter' = tokenCounter + 1 /\ tokenCounter \in Nat
      /\ listening' = TRUE
      /\ UNCHANGED <<authUser, fetching, authQueue, client, workerQueue>>
  BY <1>1 DEF Notified, IsNotice, TypeOK, auth
<1>3. \A i \in 1..n-1 : /\ IsNotice(i)' <=> IsNotice(i + 1)
                        /\ IsToken(i)' <=> IsToken(i + 1)
                        /\ i + 1 \in 1..n
  BY <1>1 DEF IsNotice, IsToken
<1>4. ProviderFollows'
  <2>1. ASSUME \A i \in 1..n-1 : ~IsNotice(i)' PROVE currentUser' = authUser
    <3>1. ASSUME NEW j \in 1+1..n, IsNotice(j) PROVE FALSE
      <4>1. PICK k \in 1..n-1 : j = k + 1
        BY <1>1
      <4> QED
        BY <1>3, <2>1, <3>1, <4>1
    <3>2. \A j \in 1+1..n : ~IsNotice(j)
      BY <3>1
    <3> QED
      BY <1>1, <1>2, <3>2 DEF ProviderFollows
  <2>2. ASSUME NEW i \in 1..n-1, IsNotice(i)', \A j \in i+1..n-1 : ~IsNotice(j)'
        PROVE  mainQueue'[i].user = authUser
    <3>1. ASSUME NEW j \in (i+1)+1..n, IsNotice(j) PROVE FALSE
      <4>1. PICK k \in i+1..n-1 : j = k + 1 /\ k \in 1..n-1
        BY <1>1
      <4> QED
        BY <1>3, <2>2, <3>1, <4>1
    <3>2. \A j \in (i+1)+1..n : ~IsNotice(j)
      BY <3>1
    <3>3. i + 1 \in DOMAIN mainQueue /\ IsNotice(i + 1)
      BY <1>1, <1>3, <2>2
    <3>4. mainQueue[i + 1].user = authUser
      BY <1>1, <3>2, <3>3 DEF ProviderFollows
    <3> QED
      BY <1>1, <3>4
  <2> QED
    BY <1>1, <1>2, <2>1, <2>2 DEF ProviderFollows
<1>5. ClientFollows'
  BY <1>2 DEF ClientFollows
<1>6. CountersPassed' /\ ClosesPassed'
  <2>1. \A i \in 1..n-1 : IsToken(i)' =>
           mainQueue'[i].counter <= tokenCounter /\ mainQueue'[i].close <= closeCount
    BY <1>1, <1>3 DEF CountersPassed, ClosesPassed
  <2>2. /\ \A i \in DOMAIN authQueue : authQueue[i].counter \in Nat
        /\ \A f \in fetching : f.counter \in Nat
        /\ \A i \in DOMAIN mainQueue' : IsToken(i)' => mainQueue'[i].counter \in Nat
    <3>1. authQueue \in Seq(Calls) /\ mainQueue' \in Seq(MainBlocks)
      BY DEF TypeOK
    <3>2. \A i \in DOMAIN authQueue : authQueue[i] \in Calls
      BY <3>1, Lengths
    <3>3. \A i \in DOMAIN mainQueue' : mainQueue'[i] \in MainBlocks
      BY <3>1, Lengths
    <3> QED
      BY <3>2, <3>3 DEF TypeOK, Calls, Fetches, MainBlocks, IsToken
  <2>3. \A k \in Nat : k <= tokenCounter => k <= tokenCounter'
    BY <1>2
  <2> QED
    BY <1>1, <1>2, <2>1, <2>2, <2>3 DEF CountersPassed, ClosesPassed, IsResume, client
<1>7. TokensOfProvider'
  <2>1. \A f \in fetching : f.counter # tokenCounter'
    BY <1>2 DEF CountersPassed, TypeOK, Fetches
  <2>2. \A i \in 1..n-1 : IsToken(i)' => mainQueue'[i].counter # tokenCounter'
    BY <1>1, <1>2, <1>3 DEF CountersPassed
  <2> QED
    BY <1>1, <1>2, <2>1, <2>2 DEF TokensOfProvider
<1>8. TokensOfClient'
  BY <1>2 DEF TokensOfClient, OpenAsCurrentUser, IsResume, IsCredential, client
<1>9. OneToken'
  <2>1. /\ UNCHANGED <<stream, closeCount>>
        /\ \A i : Asked(i)' <=> Asked(i)
        /\ \A i : Due(i)' <=> Due(i)
        /\ \A f : Taken(f)' <=> Taken(f)
    BY <1>2 DEF Asked, Due, Taken, IsResume, client
  <2>2. \A i \in 1..n-1 : Answered(i)' <=> Answered(i + 1)
    BY <1>1, <1>3, <2>1 DEF Answered
  <2>3. \A i, j \in 1..n-1 : Answered(i)' /\ Answered(j)' => i = j
    <3>1. ASSUME NEW i \in 1..n-1, NEW j \in 1..n-1, Answered(i)', Answered(j)' PROVE i = j
      <4>1. i + 1 = j + 1
        BY <1>1, <1>3, <2>2, <3>1 DEF OneToken
      <4> QED
        BY <4>1
    <3> QED
      BY <3>1
  <2> QED
    BY <1>1, <1>2, <1>3, <2>1, <2>2, <2>3 DEF OneToken
<1> QED
  BY <1>4, <1>5, <1>6, <1>7, <1>8, <1>9

LEMMA ListenerStep ==
    ASSUME CredentialsInv, TypeOK', CallListener
    PROVE  CredentialsInv'
<1> DEFINE n == Len(workerQueue)
<1> USE DEF CredentialsInv
<1>1. workerQueue' = Append(workerQueue, Credential(currentUser)) /\ listening' = FALSE
      /\ UNCHANGED <<authUser, fetching, authQueue, mainQueue, currentUser, tokenCounter, client>>
  BY DEF CallListener, auth
<1>2. Credential(currentUser) \in WorkerTasks
  BY TaskTypes DEF TypeOK
<1>3. /\ n \in Nat /\ DOMAIN workerQueue = 1..n /\ DOMAIN workerQueue' = 1..n+1
      /\ Len(workerQueue') = n + 1
      /\ \A i \in 1..n : workerQueue'[i] = workerQueue[i]
      /\ workerQueue'[n + 1].kind = "credential" /\ workerQueue'[n + 1].user = currentUser
  BY <1>1, <1>2, Appended, Lengths DEF TypeOK, Credential
<1>4. ProviderFollows' /\ CountersPassed' /\ TokensOfProvider'
  BY <1>1 DEF ProviderFollows, CountersPassed, TokensOfProvider, IsNotice, IsToken
<1>5. ClientFollows'
  BY <1>1, <1>3 DEF ClientFollows, IsCredential
<1>6. ClosesPassed' /\ TokensOfClient'
  BY <1>1, <1>3 DEF ClosesPassed, TokensOfClient, OpenAsCurrentUser, IsToken, IsResume,
     IsCredential, client
<1>7. OneToken'
  <2>1. /\ UNCHANGED <<stream, closeCount>>
        /\ \A i : Asked(i)' <=> Asked(i)
        /\ \A i : Answered(i)' <=> Answered(i)
        /\ \A f : Taken(f)' <=> Taken(f)
    BY <1>1 DEF Asked, Answered, Taken, IsToken, client
  <2>2. \A i \in 1..n+1 : Due(i)' <=> i \in 1..n /\ Due(i)
    BY <1>3, <2>1 DEF Due, IsResume
  <2> QED
    BY <1>1, <1>3, <2>1, <2>2 DEF OneToken
<1> QED
  BY <1>4, <1>5, <1>6, <1>7

LEMMA CallbackStep ==
    ASSUME CredentialsInv, TypeOK', GetTokenCallback
    PROVE  CredentialsInv'
<1> DEFINE n == Len(mainQueue)
           answer == Head(mainQueue)
<1> USE DEF CredentialsInv
<1>1. /\ n \in Nat /\ n > 0 /\ DOMAIN mainQueue = 1..n /\ DOMAIN mainQueue' = 1..n-1
      /\ Len(mainQueue') = n - 1
      /\ \A i \in 1..n-1 : mainQueue'[i] = mainQueue[i + 1]
      /\ answer = mainQueue[1] /\ answer \in MainBlocks
  BY Popped DEF GetTokenCallback, TypeOK
<1>2. /\ answer.kind = "token" /\ ~listening /\ IsToken(1) /\ ~IsNotice(1)
      /\ UNCHANGED <<auth, provider, client>>
  BY <1>1 DEF GetTokenCallback, IsToken, IsNotice
<1>3. \A i \in 1..n-1 : /\ IsNotice(i)' <=> IsNotice(i + 1)
                        /\ IsToken(i)' <=> IsToken(i + 1)
                        /\ i + 1 \in 1..n
  BY <1>1 DEF IsNotice, IsToken
<1>4. /\ answer.counter \in Nat /\ answer.close \in Nat /\ answer.owner \in User \cup {NoToken}
      /\ tokenCounter \in Nat /\ closeCount \in Nat
  BY <1>1, <1>2 DEF MainBlocks, TypeOK
<1>5. ProviderFollows'
  <2>1. ASSUME \A i \in 1..n-1 : ~IsNotice(i)' PROVE currentUser = authUser
    <3>1. ASSUME NEW j \in 1..n, IsNotice(j) PROVE FALSE
      <4>1. CASE j = 1
        BY <1>2, <3>1, <4>1
      <4>2. CASE j # 1
        <5>1. PICK k \in 1..n-1 : j = k + 1
          BY <1>1, <4>2
        <5> QED
          BY <1>3, <2>1, <3>1, <5>1
      <4> QED
        BY <4>1, <4>2
    <3>2. \A j \in 1..n : ~IsNotice(j)
      BY <3>1
    <3> QED
      BY <1>1, <3>2 DEF ProviderFollows
  <2>2. ASSUME NEW i \in 1..n-1, IsNotice(i)', \A j \in i+1..n-1 : ~IsNotice(j)'
        PROVE  mainQueue'[i].user = authUser
    <3>1. ASSUME NEW j \in (i+1)+1..n, IsNotice(j) PROVE FALSE
      <4>1. PICK k \in i+1..n-1 : j = k + 1 /\ k \in 1..n-1
        BY <1>1
      <4> QED
        BY <1>3, <2>2, <3>1, <4>1
    <3>2. \A j \in (i+1)+1..n : ~IsNotice(j)
      BY <3>1
    <3>3. i + 1 \in DOMAIN mainQueue /\ IsNotice(i + 1)
      BY <1>1, <1>3, <2>2
    <3>4. mainQueue[i + 1].user = authUser
      BY <1>1, <3>2, <3>3 DEF ProviderFollows
    <3> QED
      BY <1>1, <3>4
  <2> QED
    BY <1>1, <1>2, <2>1, <2>2 DEF ProviderFollows, auth, provider
<1>6. \A i \in 1..n-1 : IsToken(i)' =>
         mainQueue'[i].counter <= tokenCounter /\ mainQueue'[i].close <= closeCount
  BY <1>1, <1>3 DEF CountersPassed, ClosesPassed
<1>7. TokensOfProvider'
  <2>1. \A f \in fetching :
           f.counter = tokenCounter /\ (\A i \in 1..n-1 : ~IsNotice(i)') => f.owner = currentUser
    <3>1. ASSUME \A i \in 1..n-1 : ~IsNotice(i)' PROVE \A j \in 1..n : ~IsNotice(j)
      <4>1. ASSUME NEW j \in 1..n, IsNotice(j), j # 1 PROVE FALSE
        <5>1. PICK k \in 1..n-1 : j = k + 1
          BY <1>1, <4>1
        <5> QED
          BY <1>3, <3>1, <4>1, <5>1
      <4> QED
        BY <1>2, <4>1
    <3> QED
      BY <1>1, <3>1 DEF TokensOfProvider
  <2>2. ASSUME NEW i \in 1..n-1, IsToken(i)', mainQueue'[i].counter = tokenCounter,
               \A j \in 1..i-1 : ~IsNotice(j)'
        PROVE  mainQueue'[i].owner \in {currentUser, NoToken}
    <3>1. ASSUME NEW j \in 1..(i+1)-1, IsNotice(j) PROVE FALSE
      <4>1. j # 1
        BY <1>2, <3>1
      <4>2. PICK k \in 1..i-1 : j = k + 1 /\ k \in 1..n-1
        BY <1>1, <4>1
      <4> QED
        BY <1>3, <2>2, <3>1, <4>2
    <3>2. \A j \in 1..(i+1)-1 : ~IsNotice(j)
      BY <3>1
    <3> QED
      BY <1>1, <1>3, <2>2, <3>2 DEF TokensOfProvider
  <2> QED
    BY <1>1, <1>2, <2>1, <2>2 DEF TokensOfProvider, auth, provider
<1>8. /\ UNCHANGED <<stream, closeCount>>
      /\ \A f : Taken(f)' <=> Taken(f)
      /\ \A i \in 1..n-1 : Answered(i)' <=> Answered(i + 1)
  BY <1>1, <1>2, <1>3 DEF Answered, Taken, client, auth
<1>9. \A i, j \in 1..n-1 : Answered(i)' /\ Answered(j)' => i = j
  <2>1. ASSUME NEW i \in 1..n-1, NEW j \in 1..n-1, Answered(i)', Answered(j)' PROVE i = j
    <3>1. i + 1 = j + 1
      BY <1>1, <1>3, <1>8, <2>1 DEF OneToken
    <3> QED
      BY <3>1
  <2> QED
    BY <2>1
<1>10. Answered(1) => \A i \in 1..n-1 : ~Answered(i)'
  <2>1. ASSUME NEW i \in 1..n-1, Answered(1), Answered(i)' PROVE FALSE
    <3>1. i + 1 = 1
      BY <1>1, <1>3, <1>8, <2>1 DEF OneToken
    <3> QED
      BY <3>1
  <2> QED
    BY <2>1
<1>11. Answered(1) => /\ stream = "Starting"
                      /\ \A i \in DOMAIN authQueue : ~Asked(i)
                      /\ \A f \in fetching : ~Taken(f)
                      /\ \A i \in DOMAIN workerQueue : ~Due(i)
  BY <1>1 DEF OneToken
<1>12. \A i \in 1..n-1 : Answered(i)' => /\ stream = "Starting"
                                         /\ \A j \in DOMAIN authQueue : ~Asked(j)
                                         /\ \A f \in fetching : ~Taken(f)
                                         /\ \A j \in DOMAIN workerQueue : ~Due(j)
  BY <1>1, <1>3, <1>8 DEF OneToken
<1>13. ASSUME Outdated(answer)
       PROVE  ClientFollows' /\ CountersPassed' /\ ClosesPassed' /\ TokensOfClient' /\ OneToken'
  <2> DEFINE m == Len(authQueue)
             call == [counter |-> tokenCounter, close |-> answer.close]
  <2>1. authQueue' = Append(authQueue, call) /\ UNCHANGED workerQueue
    BY <1>13 DEF GetTokenCallback
  <2>2. call \in Calls /\ call.counter = tokenCounter /\ call.close = answer.close
    BY <1>4 DEF Calls
  <2> HIDE DEF call
  <2>3. /\ m \in Nat /\ DOMAIN authQueue = 1..m /\ DOMAIN authQueue' = 1..m+1
        /\ \A i \in 1..m : authQueue'[i] = authQueue[i]
        /\ authQueue'[m + 1] = call
    BY <2>1, <2>2, Appended, Lengths DEF TypeOK
  <2>4. ClientFollows' /\ TokensOfClient'
    BY <1>2, <2>1 DEF ClientFollows, TokensOfClient, OpenAsCurrentUser, IsResume, IsCredential,
       client, provider
  <2>5. CountersPassed' /\ ClosesPassed'
    <3>1. answer.close <= closeCount
      BY <1>1, <1>2 DEF ClosesPassed
    <3> QED
      BY <1>1, <1>2, <1>4, <1>6, <2>1, <2>2, <2>3, <3>1
      DEF CountersPassed, ClosesPassed, IsResume, auth, provider, client
  <2>6. OneToken'
    <3>1. \A i : Due(i)' <=> Due(i)
      BY <1>2, <2>1 DEF Due, IsResume, client
    <3>2. \A i \in 1..m+1 : Asked(i)' <=> ((i \in 1..m /\ Asked(i)) \/ (i = m + 1 /\ Answered(1)))
      BY <1>1, <1>2, <1>8, <2>2, <2>3 DEF Asked, Answered
    <3>3. \A i, j \in 1..m+1 : Asked(i)' /\ Asked(j)' => i = j
      BY <1>11, <2>3, <3>2 DEF OneToken
    <3>4. \A i \in 1..m+1 : Asked(i)' => /\ stream = "Starting"
                                         /\ \A f \in fetching : ~Taken(f)
                                         /\ \A j \in 1..n-1 : ~Answered(j)'
                                         /\ \A j \in DOMAIN workerQueue : ~Due(j)
      BY <1>10, <1>11, <1>12, <2>3, <3>2 DEF OneToken
    <3>5. UNCHANGED fetching
      BY <1>2 DEF auth
    <3> QED
      BY <1>1, <1>8, <1>9, <1>12, <2>1, <2>3, <3>1, <3>3, <3>4, <3>5 DEF OneToken
  <2> QED
    BY <2>4, <2>5, <2>6
<1>14. ASSUME ~Outdated(answer)
       PROVE  ClientFollows' /\ CountersPassed' /\ ClosesPassed' /\ TokensOfClient' /\ OneToken'
  <2> DEFINE m == Len(workerQueue)
             task == Resume(answer.owner, answer.close)
  <2>1. workerQueue' = Append(workerQueue, task) /\ UNCHANGED authQueue
    BY <1>14 DEF GetTokenCallback
  <2>2. /\ task \in WorkerTasks /\ task.kind = "resume"
        /\ task.owner = answer.owner /\ task.close = answer.close
    BY <1>4, TaskTypes DEF Resume
  <2> HIDE DEF task
  <2>3. /\ m \in Nat /\ DOMAIN workerQueue = 1..m /\ DOMAIN workerQueue' = 1..m+1
        /\ Len(workerQueue') = m + 1
        /\ \A i \in 1..m : workerQueue'[i] = workerQueue[i]
        /\ workerQueue'[m + 1] = task
    BY <2>1, <2>2, Appended, Lengths DEF TypeOK
  <2>4. \A i \in 1..m+1 : /\ IsCredential(i)' <=> i \in 1..m /\ IsCredential(i)
                          /\ IsResume(i)' <=> ((i \in 1..m /\ IsResume(i)) \/ i = m + 1)
    BY <2>2, <2>3 DEF IsCredential, IsResume
  <2>5. ClientFollows'
    BY <1>2, <2>3, <2>4 DEF ClientFollows, client, provider
  <2>6. CountersPassed'
    BY <1>1, <1>2, <1>6, <2>1 DEF CountersPassed, auth, provider
  <2>7. ClosesPassed'
    <3>1. answer.close <= closeCount
      BY <1>1, <1>2 DEF ClosesPassed
    <3> QED
      BY <1>1, <1>2, <1>6, <2>1, <2>2, <2>3, <2>4, <3>1 DEF ClosesPassed, auth, client
  <2>8. TokensOfClient'
    <3>1. answer.owner \in {currentUser, NoToken}
      BY <1>1, <1>2, <1>14 DEF TokensOfProvider, Outdated
    <3>2. (\A j \in 1..m : ~IsCredential(j)) => syncUser = currentUser
      BY <1>2, <2>3 DEF ClientFollows
    <3>3. ASSUME NEW i \in 1..m, IsResume(i)', workerQueue'[i].close = closeCount,
                 \A j \in 1..i-1 : ~IsCredential(j)'
          PROVE  workerQueue'[i].owner \in {syncUser, NoToken}
      BY <2>3, <2>4, <3>3 DEF TokensOfClient
    <3>4. ASSUME \A j \in 1..(m+1)-1 : ~IsCredential(j)'
          PROVE  workerQueue'[m + 1].owner \in {syncUser, NoToken}
      BY <2>2, <2>3, <2>4, <3>1, <3>2, <3>4
    <3> QED
      BY <1>2, <1>8, <2>3, <3>3, <3>4 DEF TokensOfClient, OpenAsCurrentUser, client
  <2>9. OneToken'
    <3>1. \A i : Asked(i)' <=> Asked(i)
      BY <1>8, <2>1 DEF Asked
    <3>2. \A i \in 1..m+1 : Due(i)' <=> ((i \in 1..m /\ Due(i)) \/ (i = m + 1 /\ Answered(1)))
      BY <1>1, <1>2, <1>8, <2>2, <2>3, <2>4 DEF Due, Answered
    <3>3. \A i, j \in 1..m+1 : Due(i)' /\ Due(j)' => i = j
      BY <1>11, <2>3, <3>2 DEF OneToken
    <3>4. \A i \in 1..m+1 : Due(i)' => /\ stream = "Starting"
                                       /\ \A f \in fetching : ~Taken(f)
                                       /\ \A j \in DOMAIN authQueue : ~Asked(j)
                                       /\ \A j \in 1..n-1 : ~Answered(j)'
      BY <1>10, <1>11, <1>12, <2>3, <3>2 DEF OneToken
    <3>5. UNCHANGED fetching
      BY <1>2 DEF auth
    <3> QED
      BY <1>1, <1>8, <1>9, <1>12, <2>1, <2>3, <3>1, <3>3, <3>4, <3>5 DEF OneToken
  <2> QED
    BY <2>5, <2>6, <2>7, <2>8, <2>9
<1> QED
  BY <1>5, <1>7, <1>13, <1>14

(* An attempt to start ends or begins: with it, no token of an attempt     *)
(* before is awaited any more.                                             *)
LEMMA AttemptStep ==
    ASSUME CredentialsInv, TypeOK', UNCHANGED <<fetching, mainQueue, tokenCounter>>,
           closeCount' = closeCount + 1 \/ (closeCount' = closeCount /\ stream # "Starting"),
           \/ UNCHANGED authQueue
           \/ /\ stream' = "Starting"
              /\ authQueue' = Append(authQueue, [counter |-> tokenCounter, close |-> closeCount']),
           UNCHANGED workerQueue \/ (workerQueue # <<>> /\ workerQueue' = Tail(workerQueue))
    PROVE  /\ CountersPassed' /\ ClosesPassed' /\ OneToken'
           /\ \A i \in DOMAIN workerQueue' : ~Due(i)'
<1> DEFINE n == Len(authQueue)
           m == Len(workerQueue)
           call == [counter |-> tokenCounter, close |-> closeCount']
<1> USE DEF CredentialsInv
<1>1. /\ tokenCounter \in Nat /\ closeCount \in Nat /\ closeCount' \in Nat
      /\ n \in Nat /\ DOMAIN authQueue = 1..n /\ m \in Nat /\ DOMAIN workerQueue = 1..m
      /\ \A i \in 1..n : authQueue[i] \in Calls
      /\ \A i \in 1..m : workerQueue[i] \in WorkerTasks
      /\ \A i \in DOMAIN mainQueue : mainQueue[i] \in MainBlocks
  BY Lengths DEF TypeOK
<1>2. /\ \A i \in 1..n : authQueue[i].close \in Nat
      /\ \A f \in fetching : f.close \in Nat
      /\ \A i \in DOMAIN mainQueue : IsToken(i) => mainQueue[i].close \in Nat
      /\ \A i \in 1..m : IsResume(i) => workerQueue[i].close \in Nat
  BY <1>1 DEF Calls, Fetches, MainBlocks, WorkerTasks, IsToken, IsResume, TypeOK
<1>3. /\ \A i \in 1..n : authQueue[i].close < closeCount'
      /\ \A f \in fetching : f.close < closeCount'
      /\ \A i \in DOMAIN mainQueue : IsToken(i) => mainQueue[i].close < closeCount'
      /\ \A i \in 1..m : IsResume(i) => workerQueue[i].close < closeCount'
  <2>1. CASE closeCount' = closeCount + 1
    BY <1>1, <1>2, <2>1 DEF ClosesPassed
  <2>2. CASE closeCount' = closeCount /\ stream # "Starting"
    <3>1. /\ \A i \in 1..n : authQueue[i].close # closeCount
          /\ \A f \in fetching : f.close # closeCount
          /\ \A i \in DOMAIN mainQueue : IsToken(i) => mainQueue[i].close # closeCount
          /\ \A i \in 1..m : IsResume(i) => workerQueue[i].close # closeCount
      BY <1>1, <2>2 DEF OneToken, Asked, Taken, Answered, Due
    <3> QED
      <4>1. \A k \in Nat : k <= closeCount /\ k # closeCount => k < closeCount'
        BY <1>1, <2>2
      <4>2. /\ \A i \in 1..n : authQueue[i].close < closeCount'
            /\ \A f \in fetching : f.close < closeCount'
        BY <1>1, <1>2, <3>1, <4>1 DEF ClosesPassed
      <4>3. \A i \in DOMAIN mainQueue : IsToken(i) => mainQueue[i].close < closeCount'
        BY <1>1, <1>2, <3>1, <4>1 DEF ClosesPassed
      <4>4. \A i \in 1..m : IsResume(i) => workerQueue[i].close < closeCount'
        BY <1>1, <1>2, <3>1, <4>1 DEF ClosesPassed
      <4> QED
        BY <4>2, <4>3, <4>4
  <2> QED
    BY <2>1, <2>2
<1>4. \A i \in DOMAIN workerQueue' :
         /\ IsResume(i)' => workerQueue'[i].close \in Nat /\ workerQueue'[i].close < closeCount'
         /\ ~Due(i)'
  <2>1. CASE UNCHANGED workerQueue
    BY <1>1, <1>2, <1>3, <2>1 DEF Due, IsResume
  <2>2. CASE workerQueue # <<>> /\ workerQueue' = Tail(workerQueue)
    <3>1. DOMAIN workerQueue' = 1..m-1 /\ \A i \in 1..m-1 : workerQueue'[i] = workerQueue[i + 1]
      BY <2>2, Popped DEF TypeOK
    <3> QED
      BY <1>1, <1>2, <1>3, <3>1 DEF Due, IsResume
  <2> QED
    BY <2>1, <2>2
<1>5. /\ \A f \in fetching' : ~Taken(f)'
      /\ \A i \in DOMAIN mainQueue' : ~Answered(i)'
      /\ \A i \in DOMAIN mainQueue' : IsToken(i)' => mainQueue'[i].close < closeCount'
  BY <1>1, <1>2, <1>3 DEF Taken, Answered, IsToken
<1>6. CASE UNCHANGED authQueue
  <2>1. \A i \in DOMAIN authQueue' : ~Asked(i)'
    BY <1>1, <1>2, <1>3, <1>6 DEF Asked
  <2>2. OneToken'
    BY <1>4, <1>5, <2>1 DEF OneToken
  <2>3. CountersPassed'
    BY <1>6 DEF CountersPassed, IsToken
  <2>4. ClosesPassed'
    BY <1>1, <1>2, <1>3, <1>4, <1>5, <1>6 DEF ClosesPassed, IsToken
  <2> QED
    BY <1>4, <2>2, <2>3, <2>4
<1>7. CASE stream' = "Starting" /\ authQueue' = Append(authQueue, call)
  <2>1. call \in Calls /\ call.counter = tokenCounter /\ call.close = closeCount'
    BY <1>1 DEF Calls
  <2> HIDE DEF call
  <2>2. /\ DOMAIN authQueue' = 1..n+1
        /\ \A i \in 1..n : authQueue'[i] = authQueue[i]
        /\ authQueue'[n + 1] = call
    BY <1>7, <2>1, Appended DEF TypeOK
  <2>3. \A i \in DOMAIN authQueue' : Asked(i)' <=> i = n + 1
    BY <1>1, <1>2, <1>3, <2>1, <2>2 DEF Asked
  <2>4. OneToken'
    BY <1>4, <1>5, <1>7, <2>3 DEF OneToken
  <2>5. CountersPassed'
    BY <1>1, <2>1, <2>2 DEF CountersPassed, IsToken
  <2>6. ClosesPassed'
    <3>1. \A i \in 1..n+1 : authQueue'[i].close <= closeCount'
      BY <1>1, <1>2, <1>3, <2>1, <2>2
    <3> QED
      BY <1>1, <1>2, <1>3, <1>4, <1>5, <2>2, <3>1 DEF ClosesPassed, IsToken
  <2> QED
    BY <1>4, <2>4, <2>5, <2>6
<1> QED
  BY <1>6, <1>7

LEMMA StartEffect ==
    ASSUME NEW state \in {"Initial", "Error"}, NEW close, Start(state, close)
    PROVE  /\ stream' \in {"Starting", "Backoff"}
           /\ \/ UNCHANGED authQueue
              \/ /\ stream' = "Starting"
                 /\ authQueue' = Append(authQueue, [counter |-> tokenCounter, close |-> close])
BY DEF Start

LEMMA CloseEffect ==
    ASSUME NEW state \in {"Initial", "Error"}, CloseAndMaybeStart(state)
    PROVE  /\ closeCount' = closeCount + 1 /\ stream' # "Open"
           /\ \/ UNCHANGED authQueue
              \/ /\ stream' = "Starting"
                 /\ authQueue' = Append(authQueue, [counter |-> tokenCounter, close |-> closeCount'])
<1>1. closeCount' = closeCount + 1
  BY DEF CloseAndMaybeStart
<1>2. CASE stream' = state /\ UNCHANGED authQueue
  BY <1>1, <1>2
<1>3. CASE Start(state, closeCount')
  BY <1>1, <1>3, StartEffect
<1> QED
  BY <1>2, <1>3 DEF CloseAndMaybeStart

(* The stream starts or ends, and no task of the worker queue is run.      *)
LEMMA StreamStep ==
    ASSUME CredentialsInv, TypeOK',
           UNCHANGED <<auth, provider, mainQueue, workerQueue, syncUser>>,
           stream' # "Open",
           closeCount' = closeCount + 1 \/ (closeCount' = closeCount /\ stream # "Starting"),
           \/ UNCHANGED authQueue
           \/ /\ stream' = "Starting"
              /\ authQueue' = Append(authQueue, [counter |-> tokenCounter, close |-> closeCount'])
    PROVE  CredentialsInv'
<1>1. UNCHANGED <<fetching, mainQueue, tokenCounter>>
  BY DEF auth, provider
<1>2. CountersPassed' /\ ClosesPassed' /\ OneToken' /\ \A i \in DOMAIN workerQueue' : ~Due(i)'
  BY <1>1, AttemptStep
<1>3. ProviderFollows' /\ ClientFollows' /\ TokensOfProvider'
  BY DEF CredentialsInv, ProviderFollows, ClientFollows, TokensOfProvider, IsNotice, IsToken,
     IsCredential, auth, provider
<1>4. TokensOfClient'
  BY <1>2 DEF TokensOfClient, OpenAsCurrentUser, Due
<1> QED
  BY <1>2, <1>3, <1>4 DEF CredentialsInv

(* A task is taken off the worker queue.                                   *)
LEMMA TaskRun ==
    ASSUME TypeOK, workerQueue # <<>>, workerQueue' = Tail(workerQueue)
    PROVE  /\ Len(workerQueue) \in Nat /\ Len(workerQueue) > 0
           /\ DOMAIN workerQueue = 1..Len(workerQueue)
           /\ DOMAIN workerQueue' = 1..Len(workerQueue)-1
           /\ Len(workerQueue') = Len(workerQueue) - 1
           /\ Head(workerQueue) = workerQueue[1] /\ Head(workerQueue) \in WorkerTasks
           /\ \A i \in 1..Len(workerQueue)-1 :
                  /\ workerQueue'[i] = workerQueue[i + 1] /\ i + 1 \in 1..Len(workerQueue)
                  /\ (IsCredential(i)' <=> IsCredential(i + 1))
                  /\ (IsResume(i)' <=> IsResume(i + 1))
<1> DEFINE m == Len(workerQueue)
<1>1. /\ m \in Nat /\ m > 0 /\ DOMAIN workerQueue = 1..m /\ DOMAIN workerQueue' = 1..m-1
      /\ Len(workerQueue') = m - 1
      /\ Head(workerQueue) = workerQueue[1] /\ Head(workerQueue) \in WorkerTasks
      /\ \A i \in 1..m-1 : workerQueue'[i] = workerQueue[i + 1]
  BY Popped DEF TypeOK
<1>2. ASSUME NEW i \in 1..m-1
      PROVE  /\ i + 1 \in 1..m
             /\ (IsCredential(i)' <=> IsCredential(i + 1))
             /\ (IsResume(i)' <=> IsResume(i + 1))
  BY <1>1 DEF IsCredential, IsResume
<1> QED
  BY <1>1, <1>2

LEMMA CredentialStep ==
    ASSUME CredentialsInv, TypeOK', HandleCredentialChange
    PROVE  CredentialsInv'
<1> DEFINE m == Len(workerQueue)
<1> USE DEF CredentialsInv
<1>1. /\ workerQueue # <<>> /\ workerQueue' = Tail(workerQueue)
      /\ Head(workerQueue).kind = "credential" /\ syncUser' = Head(workerQueue).user
      /\ UNCHANGED <<authUser, fetching, mainQueue, currentUser, tokenCounter, listening>>
  BY DEF HandleCredentialChange, auth, provider
<1>2. /\ m \in Nat /\ m > 0 /\ DOMAIN workerQueue = 1..m /\ DOMAIN workerQueue' = 1..m-1
      /\ Len(workerQueue') = m - 1 /\ Head(workerQueue) = workerQueue[1]
      /\ \A i \in 1..m-1 : /\ workerQueue'[i] = workerQueue[i + 1] /\ i + 1 \in 1..m
                            /\ (IsCredential(i)' <=> IsCredential(i + 1))
  BY <1>1, TaskRun
<1>3. /\ stream' # "Open"
      /\ closeCount' = closeCount + 1 \/ (closeCount' = closeCount /\ stream # "Starting")
      /\ \/ UNCHANGED authQueue
         \/ /\ stream' = "Starting"
            /\ authQueue' = Append(authQueue, [counter |-> tokenCounter, close |-> closeCount'])
  <2>1. CASE IsStarted
    BY <2>1, CloseEffect DEF HandleCredentialChange
  <2>2. CASE ~IsStarted
    <3>1. stream \in {"Initial", "Error"} /\ closeCount' = closeCount
      BY <2>2 DEF IsStarted, TypeOK, HandleCredentialChange
    <3> QED
      BY <2>2, <3>1, StartEffect DEF HandleCredentialChange
  <2> QED
    BY <2>1, <2>2
<1>4. CountersPassed' /\ ClosesPassed' /\ OneToken' /\ \A i \in DOMAIN workerQueue' : ~Due(i)'
  BY <1>1, <1>3, AttemptStep
<1>5. ProviderFollows' /\ TokensOfProvider'
  BY <1>1 DEF ProviderFollows, TokensOfProvider, IsNotice, IsToken
<1>6. TokensOfClient'
  BY <1>3, <1>4 DEF TokensOfClient, OpenAsCurrentUser, Due
<1>7. ClientFollows'
  <2> SUFFICES ASSUME ~listening PROVE ClientFollows'
    BY <1>1 DEF ClientFollows
  <2>1. ASSUME \A i \in 1..m-1 : ~IsCredential(i)' PROVE syncUser' = currentUser
    <3>1. ASSUME NEW j \in 1+1..m, IsCredential(j) PROVE FALSE
      <4>1. PICK k \in 1..m-1 : j = k + 1
        BY <1>2
      <4> QED
        BY <1>2, <2>1, <3>1, <4>1
    <3>2. \A j \in 1+1..m : ~IsCredential(j)
      BY <3>1
    <3>3. 1 \in DOMAIN workerQueue /\ IsCredential(1)
      BY <1>1, <1>2 DEF IsCredential
    <3> QED
      BY <1>1, <1>2, <3>2, <3>3 DEF ClientFollows
  <2>2. ASSUME NEW i \in 1..m-1, IsCredential(i)', \A j \in i+1..m-1 : ~IsCredential(j)'
        PROVE  workerQueue'[i].user = currentUser
    <3>1. ASSUME NEW j \in (i+1)+1..m, IsCredential(j) PROVE FALSE
      <4>1. PICK k \in i+1..m-1 : j = k + 1 /\ k \in 1..m-1
        BY <1>2
      <4> QED
        BY <1>2, <2>2, <3>1, <4>1
    <3>2. \A j \in (i+1)+1..m : ~IsCredential(j)
      BY <3>1
    <3>3. i + 1 \in DOMAIN workerQueue /\ IsCredential(i + 1)
      BY <1>2, <2>2
    <3>4. workerQueue[i + 1].user = currentUser
      BY <1>2, <3>2, <3>3 DEF ClientFollows
    <3> QED
      BY <1>2, <3>4
  <2> QED
    BY <1>1, <1>2, <2>1, <2>2 DEF ClientFollows
<1> QED
  BY <1>4, <1>5, <1>6, <1>7

LEMMA ResumeStep ==
    ASSUME CredentialsInv, TypeOK', CredentialsArrive
    PROVE  CredentialsInv'
<1> DEFINE m == Len(workerQueue)
           task == Head(workerQueue)
<1> USE DEF CredentialsInv
<1>1. /\ workerQueue # <<>> /\ workerQueue' = Tail(workerQueue) /\ task.kind = "resume"
      /\ UNCHANGED <<authUser, fetching, mainQueue, currentUser, tokenCounter, listening, syncUser>>
  BY DEF CredentialsArrive, auth, provider
<1>2. /\ m \in Nat /\ m > 0 /\ DOMAIN workerQueue = 1..m /\ DOMAIN workerQueue' = 1..m-1
      /\ Len(workerQueue') = m - 1 /\ task = workerQueue[1] /\ task \in WorkerTasks
      /\ \A i \in 1..m-1 : /\ workerQueue'[i] = workerQueue[i + 1] /\ i + 1 \in 1..m
                            /\ (IsCredential(i)' <=> IsCredential(i + 1))
                            /\ (IsResume(i)' <=> IsResume(i + 1))
  BY <1>1, TaskRun
<1>3. IsResume(1) /\ ~IsCredential(1)
  BY <1>1, <1>2 DEF IsResume, IsCredential
<1>4. ProviderFollows' /\ TokensOfProvider'
  BY <1>1 DEF ProviderFollows, TokensOfProvider, IsNotice, IsToken
<1>5. ClientFollows'
  <2> SUFFICES ASSUME ~listening PROVE ClientFollows'
    BY <1>1 DEF ClientFollows
  <2>1. ASSUME \A i \in 1..m-1 : ~IsCredential(i)' PROVE syncUser' = currentUser
    <3>1. ASSUME NEW j \in 1..m, IsCredential(j) PROVE FALSE
      <4>1. j # 1
        BY <1>3, <3>1
      <4>2. m \in Nat
        BY <1>2
      <4>3. PICK k \in 1..m-1 : j = k + 1
        BY <4>1, <4>2
      <4> QED
        BY <1>2, <2>1, <3>1, <4>3
    <3>2. \A j \in 1..m : ~IsCredential(j)
      BY <3>1
    <3> QED
      BY <1>1, <1>2, <3>2 DEF ClientFollows
  <2>2. ASSUME NEW i \in 1..m-1, IsCredential(i)', \A j \in i+1..m-1 : ~IsCredential(j)'
        PROVE  workerQueue'[i].user = currentUser
    <3>1. ASSUME NEW j \in (i+1)+1..m, IsCredential(j) PROVE FALSE
      <4>1. PICK k \in i+1..m-1 : j = k + 1 /\ k \in 1..m-1
        BY <1>2
      <4> QED
        BY <1>2, <2>2, <3>1, <4>1
    <3>2. \A j \in (i+1)+1..m : ~IsCredential(j)
      BY <3>1
    <3>3. i + 1 \in DOMAIN workerQueue /\ IsCredential(i + 1)
      BY <1>2, <2>2
    <3>4. workerQueue[i + 1].user = currentUser
      BY <1>2, <3>2, <3>3 DEF ClientFollows
    <3> QED
      BY <1>2, <3>4
  <2> QED
    BY <1>1, <1>2, <2>1, <2>2 DEF ClientFollows
<1>6. CASE task.close = closeCount /\ task.owner = NoToken
  <2>1. CloseAndMaybeStart("Error")
    BY <1>6 DEF CredentialsArrive
  <2>2. /\ closeCount' = closeCount + 1 /\ stream' # "Open"
        /\ \/ UNCHANGED authQueue
           \/ /\ stream' = "Starting"
              /\ authQueue' = Append(authQueue, [counter |-> tokenCounter, close |-> closeCount'])
    BY <2>1, CloseEffect
  <2>3. CountersPassed' /\ ClosesPassed' /\ OneToken' /\ \A i \in DOMAIN workerQueue' : ~Due(i)'
    BY <1>1, <2>2, AttemptStep
  <2>4. TokensOfClient'
    BY <2>2, <2>3 DEF TokensOfClient, OpenAsCurrentUser, Due
  <2> QED
    BY <1>4, <1>5, <2>3, <2>4
<1>7. CASE ~(task.close = closeCount /\ task.owner = NoToken)
  <2>1. /\ UNCHANGED <<closeCount, authQueue>>
        /\ \/ task.close # closeCount /\ UNCHANGED <<stream, openedAs>>
           \/ /\ task.close = closeCount /\ task.owner # NoToken
              /\ stream' = "Open" /\ openedAs' = task.owner
    BY <1>7 DEF CredentialsArrive
  <2>2. CountersPassed' /\ ClosesPassed'
    BY <1>1, <1>2, <2>1 DEF CountersPassed, ClosesPassed, IsToken
  <2>3. /\ \A i : Asked(i)' <=> Asked(i)
        /\ \A f : Taken(f)' <=> Taken(f)
        /\ \A i : Answered(i)' <=> Answered(i)
        /\ \A i \in 1..m-1 : Due(i)' <=> Due(i + 1)
    BY <1>1, <1>2, <2>1 DEF Asked, Taken, Answered, Due, IsToken
  <2>4. \A i, j \in 1..m-1 : Due(i)' /\ Due(j)' => i = j
    <3>1. ASSUME NEW i \in 1..m-1, NEW j \in 1..m-1, Due(i)', Due(j)' PROVE i = j
      <4>1. i + 1 = j + 1
        BY <1>2, <2>3, <3>1 DEF OneToken
      <4> QED
        BY <4>1
    <3> QED
      BY <3>1
  <2>5. OneToken'
    <3>1. CASE UNCHANGED stream
      BY <1>1, <1>2, <2>1, <2>3, <2>4, <3>1 DEF OneToken
    <3>2. CASE task.close = closeCount
      <4>1. 1 \in DOMAIN workerQueue /\ Due(1)
        BY <1>2, <1>3, <3>2 DEF Due
      <4>2. /\ \A i \in DOMAIN authQueue : ~Asked(i)
            /\ \A f \in fetching : ~Taken(f)
            /\ \A i \in DOMAIN mainQueue : ~Answered(i)
        BY <4>1 DEF OneToken
      <4>3. \A i \in 1..m-1 : ~Due(i)'
        <5>1. ASSUME NEW i \in 1..m-1, Due(i)' PROVE FALSE
          <6>1. i + 1 = 1
            BY <1>2, <2>3, <4>1, <5>1 DEF OneToken
          <6> QED
            BY <6>1
        <5> QED
          BY <5>1
      <4> QED
        BY <1>1, <1>2, <2>1, <2>3, <4>2, <4>3 DEF OneToken
    <3> QED
      BY <2>1, <3>1, <3>2
  <2>6. TokensOfClient'
    <3>1. ASSUME NEW i \in 1..m-1, IsResume(i)', workerQueue'[i].close = closeCount,
                 \A j \in 1..i-1 : ~IsCredential(j)'
          PROVE  workerQueue'[i].owner \in {syncUser, NoToken}
      <4>1. ASSUME NEW j \in 1..(i+1)-1, IsCredential(j) PROVE FALSE
        <5>1. j # 1
          BY <1>3, <4>1
        <5>2. PICK k \in 1..i-1 : j = k + 1 /\ k \in 1..m-1
          BY <1>2, <5>1
        <5> QED
          BY <1>2, <3>1, <4>1, <5>2
      <4>2. \A j \in 1..(i+1)-1 : ~IsCredential(j)
        BY <4>1
      <4> QED
        BY <1>2, <3>1, <4>2 DEF TokensOfClient
    <3>2. OpenAsCurrentUser'
      <4>1. CASE task.close # closeCount
        BY <1>1, <2>1, <4>1 DEF TokensOfClient, OpenAsCurrentUser
      <4>2. CASE task.close = closeCount
        <5>1. task.owner \in {syncUser, NoToken}
          BY <1>2, <1>3, <4>2 DEF TokensOfClient
        <5> QED
          BY <1>1, <2>1, <4>2, <5>1 DEF OpenAsCurrentUser
      <4> QED
        BY <4>1, <4>2
    <3> QED
      BY <1>1, <1>2, <2>1, <3>1, <3>2 DEF TokensOfClient
  <2> QED
    BY <1>4, <1>5, <2>2, <2>5, <2>6
<1> QED
  BY <1>6, <1>7

-----------------------------------------------------------------------------
LEMMA StepInv == CredentialsInv /\ [Next]_vars => CredentialsInv'
<1> SUFFICES ASSUME CredentialsInv, [Next]_vars PROVE CredentialsInv'
  OBVIOUS
<1>1. TypeOK /\ TypeOK'
  BY StepType DEF CredentialsInv
<1>2. ASSUME NEW u \in User, UpdateCurrentUser(u) PROVE CredentialsInv'
  BY <1>1, <1>2, PostedStep
<1>3. CASE TakeUser
  BY <1>1, <1>3, TakeUserStep
<1>4. ASSUME NEW f \in fetching, Fetched(f) PROVE CredentialsInv'
  <2>1. /\ fetching' = fetching \ {f}
        /\ UNCHANGED <<authQueue, provider, client, workerQueue>>
        /\ \/ mainQueue' = Append(mainQueue, Answer(f, f.owner)) /\ UNCHANGED authUser
           \/ \E u \in User : Posted(u, <<Answer(f, f.owner)>>)
    BY <1>1, <1>4 DEF Fetched, TypeOK
  <2> QED
    BY <1>1, <2>1, FetchedStep
<1>5. ASSUME NEW f \in fetching, FetchFailed(f) PROVE CredentialsInv'
  <2>1. /\ fetching' = fetching \ {f}
        /\ UNCHANGED <<authQueue, provider, client, workerQueue>>
        /\ \/ mainQueue' = Append(mainQueue, Answer(f, NoToken)) /\ UNCHANGED authUser
           \/ \E u \in User : Posted(u, <<Answer(f, NoToken)>>)
    BY <1>5, UserAssumption DEF FetchFailed
  <2> QED
    BY <1>1, <2>1, FetchedStep
<1>6. CASE Notified
  BY <1>1, <1>6, NotifiedStep
<1>7. CASE CallListener
  BY <1>1, <1>7, ListenerStep
<1>8. CASE GetTokenCallback
  BY <1>1, <1>8, CallbackStep
<1>9. CASE HandleCredentialChange
  BY <1>1, <1>9, CredentialStep
<1>10. CASE CredentialsArrive
  BY <1>1, <1>10, ResumeStep
<1>11. CASE StartStream
  <2>1. stream \in {"Initial", "Error"} /\ closeCount' = closeCount
    BY <1>1, <1>11 DEF StartStream, IsStarted, TypeOK
  <2>2. /\ stream' \in {"Starting", "Backoff"}
        /\ \/ UNCHANGED authQueue
           \/ /\ stream' = "Starting"
              /\ authQueue' = Append(authQueue, [counter |-> tokenCounter, close |-> closeCount'])
    BY <1>11, <2>1, StartEffect DEF StartStream
  <2>3. UNCHANGED <<auth, provider, mainQueue, workerQueue, syncUser>>
    BY <1>11 DEF StartStream
  <2> QED
    BY <1>1, <2>1, <2>2, <2>3, StreamStep
<1>12. CASE BackoffElapsed
  <2>1. stream = "Backoff" /\ closeCount' = closeCount
    BY <1>12 DEF BackoffElapsed
  <2>2. /\ stream' \in {"Starting", "Backoff"}
        /\ \/ UNCHANGED authQueue
           \/ /\ stream' = "Starting"
              /\ authQueue' = Append(authQueue, [counter |-> tokenCounter, close |-> closeCount'])
    BY <1>12, <2>1, StartEffect DEF BackoffElapsed
  <2>3. UNCHANGED <<auth, provider, mainQueue, workerQueue, syncUser>>
    BY <1>12 DEF BackoffElapsed
  <2> QED
    BY <1>1, <2>1, <2>2, <2>3, StreamStep
<1>13. CASE StreamCloses
  <2>1. UNCHANGED <<auth, provider, mainQueue, workerQueue, syncUser>>
    BY <1>13 DEF StreamCloses
  <2>2. \E state \in {"Initial", "Error"} : CloseAndMaybeStart(state)
    BY <1>13 DEF StreamCloses
  <2>3. /\ closeCount' = closeCount + 1 /\ stream' # "Open"
        /\ \/ UNCHANGED authQueue
           \/ /\ stream' = "Starting"
              /\ authQueue' = Append(authQueue, [counter |-> tokenCounter, close |-> closeCount'])
    BY <2>2, CloseEffect
  <2> QED
    BY <1>1, <2>1, <2>3, StreamStep
<1>14. CASE UNCHANGED vars
  BY <1>14 DEF CredentialsInv, ProviderFollows, ClientFollows, CountersPassed, ClosesPassed,
     TokensOfProvider, TokensOfClient, OneToken, OpenAsCurrentUser, IsNotice, IsToken,
     IsCredential, IsResume, Asked, Taken, Answered, Due, TypeOK, vars, auth, provider, client
<1> QED
  BY <1>2, <1>3, <1>4, <1>5, <1>6, <1>7, <1>8, <1>9, <1>10, <1>11, <1>12, <1>13, <1>14
  DEF Next, Deliver

-----------------------------------------------------------------------------
(* The token that is waited for.  A way is told by what the queues hold,   *)
(* wherever they hold it.                                                  *)

Holds(s, x) == \E i \in DOMAIN s : s[i] = x

TokenOnItsWay ==
    \/ \E call : Holds(authQueue, call) /\ call.close = closeCount
    \/ \E f \in fetching : f.close = closeCount
    \/ \E block : Holds(mainQueue, block) /\ block.kind = "token" /\ block.close = closeCount
    \/ \E task : Holds(workerQueue, task) /\ task.kind = "resume" /\ task.close = closeCount

LEMMA HoldsAppended ==
    ASSUME NEW S, NEW s \in Seq(S), NEW e \in S
    PROVE  /\ Holds(Append(s, e), e)
           /\ \A x : Holds(s, x) => Holds(Append(s, e), x)
<1>1. /\ Len(s) \in Nat /\ DOMAIN s = 1..Len(s)
      /\ DOMAIN Append(s, e) = 1..Len(s) + 1
      /\ \A i \in 1..Len(s) : Append(s, e)[i] = s[i]
      /\ Append(s, e)[Len(s) + 1] = e
  BY Appended, Lengths
<1>2. Len(s) + 1 \in DOMAIN Append(s, e) /\ \A i \in DOMAIN s : i \in DOMAIN Append(s, e)
  BY <1>1
<1> QED
  BY <1>1, <1>2 DEF Holds

LEMMA HoldsPopped ==
    ASSUME NEW S, NEW s \in Seq(S), s # <<>>
    PROVE  \A x : Holds(s, x) => x = Head(s) \/ Holds(Tail(s), x)
<1>1. /\ Len(s) \in Nat /\ DOMAIN s = 1..Len(s) /\ DOMAIN Tail(s) = 1..Len(s) - 1
      /\ \A i \in 1..Len(s) - 1 : Tail(s)[i] = s[i + 1]
      /\ Head(s) = s[1]
  BY Popped
<1>2. ASSUME NEW i \in 1..Len(s), i # 1
      PROVE  i - 1 \in DOMAIN Tail(s) /\ Tail(s)[i - 1] = s[i]
  <2>1. i - 1 \in 1..Len(s) - 1 /\ i - 1 + 1 = i
    BY <1>1, <1>2
  <2> QED
    BY <1>1, <2>1
<1> QED
  BY <1>1, <1>2 DEF Holds

(* A stream that starts asks for a token.                                  *)
LEMMA WayBegun ==
    ASSUME TypeOK, closeCount' \in Nat,
           authQueue' = Append(authQueue, [counter |-> tokenCounter, close |-> closeCount'])
    PROVE  TokenOnItsWay'
<1> DEFINE call == [counter |-> tokenCounter, close |-> closeCount']
<1>1. call \in Calls /\ authQueue \in Seq(Calls) /\ call.close = closeCount'
  BY DEF TypeOK, Calls
<1> HIDE DEF call
<1>2. Holds(authQueue', call)
  BY <1>1, HoldsAppended DEF call
<1> QED
  BY <1>1, <1>2 DEF TokenOnItsWay

LEMMA StartBegins ==
    ASSUME TypeOK, NEW state \in {"Initial", "Error"}, closeCount' \in Nat,
           Start(state, closeCount'), stream' = "Starting"
    PROVE  TokenOnItsWay'
<1>1. authQueue' = Append(authQueue, [counter |-> tokenCounter, close |-> closeCount'])
  BY DEF Start
<1> QED
  BY <1>1, WayBegun

LEMMA CloseBegins ==
    ASSUME TypeOK, NEW state \in {"Initial", "Error"}, CloseAndMaybeStart(state),
           stream' = "Starting"
    PROVE  TokenOnItsWay'
<1>1. closeCount' \in Nat /\ Start(state, closeCount')
  BY DEF CloseAndMaybeStart, TypeOK
<1> QED
  BY <1>1, StartBegins

(* An answer of FIRAuth comes behind what is there already.                *)
LEMMA AnswerPosted ==
    ASSUME TypeOK, NEW u \in User, NEW a \in MainBlocks,
           Posted(u, <<a>>) \/ mainQueue' = Append(mainQueue, a)
    PROVE  /\ \A block : Holds(mainQueue, block) => Holds(mainQueue', block)
           /\ Holds(mainQueue', a)
<1>1. mainQueue \in Seq(MainBlocks) /\ Notice(u) \in MainBlocks
  BY TaskTypes DEF TypeOK
<1> DEFINE noticed == Append(mainQueue, Notice(u))
<1>2. noticed \in Seq(MainBlocks) /\ \A block : Holds(mainQueue, block) => Holds(noticed, block)
  BY <1>1, HoldsAppended, AppendProperties
<1>3. CASE Posted(u, <<a>>)
  <2>1. mainQueue' = Append(noticed, a)
    BY <1>3, PostedBefore
  <2> HIDE DEF noticed
  <2> QED
    BY <1>2, <2>1, HoldsAppended
<1>4. CASE mainQueue' = Append(mainQueue, a)
  BY <1>1, <1>4, HoldsAppended
<1> QED
  BY <1>3, <1>4

(* FIRAuth answers a call: the token goes from it to the main queue.       *)
LEMMA FetchedWay ==
    ASSUME TypeOK, TokenOnItsWay, NEW f \in fetching, NEW owner \in User \cup {NoToken},
           fetching' = fetching \ {f}, UNCHANGED <<authQueue, closeCount, workerQueue>>,
           \/ mainQueue' = Append(mainQueue, Answer(f, owner))
           \/ \E u \in User : Posted(u, <<Answer(f, owner)>>)
    PROVE  TokenOnItsWay'
<1> DEFINE a == Answer(f, owner)
<1>1. f \in Fetches /\ a \in MainBlocks
  BY TaskTypes DEF TypeOK
<1>2. a.kind = "token" /\ a.close = f.close
  BY DEF Answer
<1> HIDE DEF a
<1>3. PICK u \in User : Posted(u, <<a>>) \/ mainQueue' = Append(mainQueue, a)
  BY UserAssumption DEF a
<1>4. Holds(mainQueue', a) /\ \A block : Holds(mainQueue, block) => Holds(mainQueue', block)
  BY <1>1, <1>3, AnswerPosted
<1>5. CASE f.close = closeCount
  BY <1>2, <1>4, <1>5 DEF TokenOnItsWay
<1>6. CASE f.close # closeCount
  BY <1>4, <1>6 DEF TokenOnItsWay
<1> QED
  BY <1>5, <1>6

AwaitedInv == stream = "Starting" => TokenOnItsWay

LEMMA StepAwaited ==
    ASSUME CredentialsInv, AwaitedInv, [Next]_vars
    PROVE  AwaitedInv'
<1> SUFFICES ASSUME stream' = "Starting" PROVE TokenOnItsWay'
  BY DEF AwaitedInv
<1>1. TypeOK
  BY DEF CredentialsInv
<1>2. /\ authQueue \in Seq(Calls) /\ mainQueue \in Seq(MainBlocks)
      /\ workerQueue \in Seq(WorkerTasks) /\ closeCount \in Nat
  BY <1>1 DEF TypeOK
<1>3. ASSUME NEW u \in User, UpdateCurrentUser(u) PROVE TokenOnItsWay'
  <2>1. UNCHANGED <<authQueue, fetching, stream, closeCount, workerQueue>> /\ Posted(u, <<>>)
    BY <1>3 DEF UpdateCurrentUser, client
  <2>2. \A block : Holds(mainQueue, block) => Holds(mainQueue', block)
    <3>1. mainQueue' = Append(mainQueue, Notice(u)) /\ Notice(u) \in MainBlocks
      BY <1>1, <2>1, PostedAlone, TaskTypes
    <3> QED
      BY <1>2, <3>1, HoldsAppended
  <2>3. TokenOnItsWay
    BY <2>1 DEF AwaitedInv
  <2> QED
    BY <2>1, <2>2, <2>3 DEF TokenOnItsWay
<1>4. CASE TakeUser
  <2> DEFINE call == Head(authQueue)
             f == [owner |-> authUser, counter |-> call.counter, close |-> call.close]
  <2>1. /\ authQueue # <<>> /\ authQueue' = Tail(authQueue)
        /\ fetching' = fetching \cup {f} /\ f.close = call.close
        /\ UNCHANGED <<mainQueue, stream, closeCount, workerQueue>>
    BY <1>4 DEF TakeUser, client
  <2> HIDE DEF f
  <2>2. \A x : Holds(authQueue, x) => x = call \/ Holds(authQueue', x)
    BY <1>2, <2>1, HoldsPopped
  <2>3. TokenOnItsWay
    BY <2>1 DEF AwaitedInv
  <2> QED
    BY <2>1, <2>2, <2>3 DEF TokenOnItsWay
<1>5. ASSUME NEW f \in fetching, Fetched(f) \/ FetchFailed(f) PROVE TokenOnItsWay'
  <2>1. f.owner \in User
    BY <1>1 DEF TypeOK, Fetches
  <2>2. /\ fetching' = fetching \ {f} /\ UNCHANGED <<authQueue, stream, closeCount, workerQueue>>
        /\ \E owner \in User \cup {NoToken} :
               \/ mainQueue' = Append(mainQueue, Answer(f, owner))
               \/ \E u \in User : Posted(u, <<Answer(f, owner)>>)
    BY <1>1, <1>5, <2>1, UserAssumption DEF Fetched, FetchFailed, TypeOK, client
  <2>3. TokenOnItsWay
    BY <2>2 DEF AwaitedInv
  <2> QED
    BY <1>1, <2>2, <2>3, FetchedWay
<1>6. CASE Notified
  <2>1. /\ mainQueue # <<>> /\ Head(mainQueue).kind = "notice" /\ mainQueue' = Tail(mainQueue)
        /\ UNCHANGED <<authQueue, fetching, stream, closeCount, workerQueue>>
    BY <1>6 DEF Notified, auth, client
  <2>2. \A x : Holds(mainQueue, x) => x = Head(mainQueue) \/ Holds(mainQueue', x)
    BY <1>2, <2>1, HoldsPopped
  <2>3. TokenOnItsWay
    BY <2>1 DEF AwaitedInv
  <2> QED
    BY <2>1, <2>2, <2>3 DEF TokenOnItsWay
<1>7. CASE CallListener
  <2>1. /\ workerQueue' = Append(workerQueue, Credential(currentUser))
        /\ UNCHANGED <<authQueue, fetching, stream, closeCount, mainQueue>>
        /\ Credential(currentUser) \in WorkerTasks
    BY <1>1, <1>7, TaskTypes DEF CallListener, auth, client, TypeOK
  <2>2. \A x : Holds(workerQueue, x) => Holds(workerQueue', x)
    BY <1>2, <2>1, HoldsAppended
  <2>3. TokenOnItsWay
    BY <2>1 DEF AwaitedInv
  <2> QED
    BY <2>1, <2>2, <2>3 DEF TokenOnItsWay
<1>8. CASE GetTokenCallback
  <2> DEFINE answer == Head(mainQueue)
  <2>1. /\ mainQueue # <<>> /\ answer.kind = "token" /\ mainQueue' = Tail(mainQueue)
        /\ UNCHANGED <<fetching, stream, closeCount>>
    BY <1>8 DEF GetTokenCallback, auth, client
  <2>2. \A x : Holds(mainQueue, x) => x = answer \/ Holds(mainQueue', x)
    BY <1>2, <2>1, HoldsPopped
  <2>3. answer.owner \in User \cup {NoToken} /\ answer.close \in Nat
    <3>1. answer \in MainBlocks
      BY <1>2, <2>1, Popped
    <3> QED
      BY <2>1, <3>1 DEF MainBlocks
  <2>4. TokenOnItsWay
    BY <2>1 DEF AwaitedInv
  <2> HIDE DEF answer
  <2>5. CASE Outdated(answer)
    <3> DEFINE call == [counter |-> tokenCounter, close |-> answer.close]
    <3>1. authQueue' = Append(authQueue, call) /\ UNCHANGED workerQueue
      BY <1>8, <2>5 DEF GetTokenCallback, answer
    <3>2. call \in Calls /\ call.close = answer.close
      BY <1>1, <2>3 DEF TypeOK, Calls
    <3> HIDE DEF call
    <3>3. Holds(authQueue', call) /\ \A x : Holds(authQueue, x) => Holds(authQueue', x)
      BY <1>2, <3>1, <3>2, HoldsAppended
    <3> QED
      BY <2>1, <2>2, <2>4, <3>1, <3>2, <3>3 DEF TokenOnItsWay
  <2>6. CASE ~Outdated(answer)
    <3> DEFINE task == Resume(answer.owner, answer.close)
    <3>1. workerQueue' = Append(workerQueue, task) /\ UNCHANGED authQueue
      BY <1>8, <2>6 DEF GetTokenCallback, answer
    <3>2. task \in WorkerTasks /\ task.kind = "resume" /\ task.close = answer.close
      BY <2>3, TaskTypes DEF Resume
    <3> HIDE DEF task
    <3>3. Holds(workerQueue', task) /\ \A x : Holds(workerQueue, x) => Holds(workerQueue', x)
      BY <1>2, <3>1, <3>2, HoldsAppended
    <3> QED
      BY <2>1, <2>2, <2>4, <3>1, <3>2, <3>3 DEF TokenOnItsWay
  <2> QED
    BY <2>5, <2>6
<1>9. CASE HandleCredentialChange
  <2>1. /\ workerQueue # <<>> /\ Head(workerQueue).kind = "credential"
        /\ workerQueue' = Tail(workerQueue) /\ UNCHANGED <<fetching, mainQueue>>
    BY <1>9 DEF HandleCredentialChange, auth
  <2>2. CASE IsStarted
    BY <1>1, <1>9, <2>2, CloseBegins DEF HandleCredentialChange
  <2>3. CASE ~IsStarted
    <3>1. stream \in {"Initial", "Error"} /\ Start(stream, closeCount) /\ UNCHANGED closeCount
      BY <1>1, <1>9, <2>3 DEF HandleCredentialChange, IsStarted, TypeOK
    <3> QED
      BY <1>1, <1>2, <3>1, StartBegins
  <2> QED
    BY <2>2, <2>3
<1>10. CASE CredentialsArrive
  <2> DEFINE task == Head(workerQueue)
  <2>1. /\ workerQueue # <<>> /\ task.kind = "resume" /\ workerQueue' = Tail(workerQueue)
        /\ UNCHANGED <<fetching, mainQueue>>
    BY <1>10 DEF CredentialsArrive, auth
  <2>2. \A x : Holds(workerQueue, x) => x = task \/ Holds(workerQueue', x)
    BY <1>2, <2>1, HoldsPopped
  <2>3. CASE task.close # closeCount
    <3>1. UNCHANGED <<stream, closeCount, authQueue>>
      BY <1>10, <2>3 DEF CredentialsArrive
    <3>2. TokenOnItsWay
      BY <3>1 DEF AwaitedInv
    <3> HIDE DEF task
    <3> QED
      BY <2>1, <2>2, <2>3, <3>1, <3>2 DEF TokenOnItsWay
  <2>4. CASE task.close = closeCount /\ task.owner = NoToken
    <3>1. CloseAndMaybeStart("Error")
      BY <1>10, <2>4 DEF CredentialsArrive
    <3> QED
      BY <1>1, <3>1, CloseBegins
  <2>5. CASE task.close = closeCount /\ task.owner # NoToken
    <3>1. stream' = "Open"
      BY <1>10, <2>5 DEF CredentialsArrive
    <3> QED
      BY <3>1
  <2> QED
    BY <2>3, <2>4, <2>5
<1>11. CASE StartStream
  <2>1. stream \in {"Initial", "Error"} /\ Start(stream, closeCount) /\ UNCHANGED closeCount
    BY <1>1, <1>11 DEF StartStream, IsStarted, TypeOK
  <2> QED
    BY <1>1, <1>2, <2>1, StartBegins
<1>12. CASE BackoffElapsed
  <2>1. Start("Initial", closeCount) /\ UNCHANGED closeCount
    BY <1>12 DEF BackoffElapsed
  <2> QED
    BY <1>1, <1>2, <2>1, StartBegins
<1>13. CASE StreamCloses
  BY <1>1, <1>13, CloseBegins DEF StreamCloses
<1>14. CASE UNCHANGED vars
  <2>1. UNCHANGED <<authQueue, fetching, mainQueue, workerQueue, stream, closeCount>>
    BY <1>14 DEF vars, auth, client
  <2> QED
    BY <2>1 DEF AwaitedInv, TokenOnItsWay
<1> QED
  BY <1>3, <1>4, <1>5, <1>6, <1>7, <1>8, <1>9, <1>10, <1>11, <1>12, <1>13, <1>14 DEF Next, Deliver

-----------------------------------------------------------------------------
(* The inductive invariant holds, whatever the changes of the account and  *)
(* the order in which the queues are served.                               *)
THEOREM CredentialsInvariant == Spec => []CredentialsInv
<1>1. Init => CredentialsInv
  BY InitInv
<1>2. CredentialsInv /\ [Next]_vars => CredentialsInv'
  BY StepInv
<1> QED
  BY <1>1, <1>2, PTL DEF Spec

(* Every queue holds what it is made for.                                  *)
THEOREM CredentialsType == Spec => []TypeOK
<1>1. CredentialsInv => TypeOK
  BY DEF CredentialsInv
<1> QED
  BY <1>1, CredentialsInvariant, PTL

(* A stream is open only with the token of the user whose writes and       *)
(* queries go over it.                                                     *)
THEOREM CredentialsOpenAsCurrentUser == Spec => []OpenAsCurrentUser
<1>1. CredentialsInv => OpenAsCurrentUser
  BY DEF CredentialsInv, TokensOfClient
<1> QED
  BY <1>1, CredentialsInvariant, PTL

(* The assertion of ResumeStartWithCredentials holds: a token the close    *)
(* count lets through meets a stream that is starting.                     *)
THEOREM CredentialsResumeIsExpected == Spec => []ResumeIsExpected
<1>1. CredentialsInv => ResumeIsExpected
  BY DEF CredentialsInv, OneToken, ResumeIsExpected, Due, IsResume
<1> QED
  BY <1>1, CredentialsInvariant, PTL

(* The user SyncEngine has not caught up with and the token a starting     *)
(* stream waits for are always on their way to it.                         *)
THEOREM CredentialsNothingForgotten == Spec => []NothingForgotten
<1>1. Init => AwaitedInv
  BY DEF Init, AwaitedInv
<1>2. CredentialsInv /\ AwaitedInv /\ [Next]_vars => AwaitedInv'
  BY StepAwaited
<1>3. Spec => []AwaitedInv
  BY <1>1, <1>2, CredentialsInvariant, PTL DEF Spec
<1>4. CredentialsInv /\ AwaitedInv => NothingForgotten
  <2> SUFFICES ASSUME CredentialsInv, AwaitedInv PROVE NothingForgotten
    OBVIOUS
  <2>1. ASSUME \A i \in DOMAIN mainQueue : ~IsNotice(i), ~listening,
               \A i \in DOMAIN workerQueue : ~IsCredential(i)
        PROVE  syncUser = authUser
    BY <2>1 DEF CredentialsInv, ProviderFollows, ClientFollows
  <2>2. ASSUME TokenOnItsWay
        PROVE  \/ \E i \in DOMAIN authQueue : Asked(i)
               \/ \E f \in fetching : Taken(f)
               \/ \E i \in DOMAIN mainQueue : Answered(i)
               \/ \E i \in DOMAIN workerQueue : Due(i)
    BY <2>2 DEF TokenOnItsWay, Holds, Asked, Taken, Answered, Due, IsToken, IsResume
  <2> QED
    BY <2>1, <2>2 DEF NothingForgotten, AwaitedInv
<1> QED
  BY <1>3, <1>4, CredentialsInvariant, PTL
=============================================================================
