-------------------------- MODULE WritePipelineProofs --------------------------
(***************************************************************************)
(* The write path, for any number of users, writes, failures and restarts, *)
(* and any length of the pipeline: the safety properties of WritePipeline, *)
(* and that it implements DurableWrites.                                   *)
(***************************************************************************)
EXTENDS WritePipeline, SequenceTheorems, WellFoundedInduction, TLAPS

(* Batches are in the order of their ids, which are below the next one,    *)
(* and no two batches share an id or a write.                              *)
QueuesInOrder ==
    /\ \A u \in User : \A i \in DOMAIN queue[u] :
           /\ 0 < queue[u][i].id /\ queue[u][i].id < nextBatchId
           /\ queue[u][i].write <= made
           /\ \A j \in DOMAIN queue[u] : i < j => queue[u][i].id < queue[u][j].id
    /\ \A u, v \in User : \A i \in DOMAIN queue[u], j \in DOMAIN queue[v] :
           queue[u][i].id = queue[v][j].id \/ queue[u][i].write = queue[v][j].write
               => u = v /\ i = j

(* The pipeline, place by place. *)
PrefixOf(p, q) ==
    /\ Len(p) <= kMaxPendingWrites /\ Len(p) <= Len(q)
    /\ \A i \in 1..Len(p) : p[i] = q[i]

FullPrefixOf(p, q) ==
    /\ PrefixOf(p, q)
    /\ Len(p) = kMaxPendingWrites \/ Len(p) = Len(q)

(* The stream, place by place, and how far its handshake is.               *)
StreamMatches ==
    /\ Len(responses) + Len(requests) = Len(pipeline)
    /\ \A i \in 1..Len(responses) : responses[i].write = pipeline[i].write
    /\ \A i \in 1..Len(requests) : requests[i] = pipeline[Len(responses) + i].write

ChannelInv ==
    /\ handshake # "none" => stream = "Open"
    /\ IF Writing THEN StreamMatches ELSE requests = <<>> /\ responses = <<>>
    /\ \A i \in 1..Len(responses) :
           IF responses[i].kind = "applied"
             THEN responses[i].write \in applied
             ELSE i = Len(responses) /\ responses[i].write \in refused

(* The server, in the order of the queues; nothing happens to a write that *)
(* was not made yet.                                                       *)
ServerInv ==
    /\ AppliedInOrder
    /\ applied \subseteq 1..made
    /\ \A w \in Write : w > made => told[w] = "nothing"

CallbackInv ==
    \A c \in callbacks :
        /\ told[c.write] = "nothing"
        /\ \E i \in DOMAIN queue[c.user] : queue[c.user][i] = [id |-> c.id, write |-> c.write]

(* Fill, Tail and Append of a queue leave its ids ascending.               *)
Ascending(q) ==
    \A i, j \in DOMAIN q : i < j => q[i].id < q[j].id

Positive(q) == \A i \in DOMAIN q : 0 < q[i].id

-----------------------------------------------------------------------------
(* Sequences. *)

LEMMA SeqBasics ==
    ASSUME NEW S, NEW s \in Seq(S)
    PROVE  /\ Len(s) \in Nat /\ DOMAIN s = 1..Len(s)
           /\ \A i \in 1..Len(s) : s[i] \in S
           /\ s = <<>> <=> Len(s) = 0
BY LenProperties, EmptySeq

LEMMA Appended ==
    ASSUME NEW S, NEW s \in Seq(S), NEW e \in S
    PROVE  /\ Append(s, e) \in Seq(S)
           /\ Len(s) \in Nat
           /\ Len(Append(s, e)) = Len(s) + 1
           /\ \A i \in 1..Len(s) : Append(s, e)[i] = s[i]
           /\ Append(s, e)[Len(s) + 1] = e
BY AppendProperties, LenProperties

LEMMA Popped ==
    ASSUME NEW S, NEW s \in Seq(S), s # <<>>
    PROVE  /\ Tail(s) \in Seq(S)
           /\ Len(s) \in Nat /\ Len(s) > 0
           /\ Len(Tail(s)) = Len(s) - 1
           /\ \A i \in 1..Len(s) - 1 : Tail(s)[i] = s[i + 1]
           /\ Head(s) = s[1] /\ Head(s) \in S
BY HeadTailProperties, LenProperties

LEMMA Sliced ==
    ASSUME NEW S, NEW s \in Seq(S), NEW m \in Nat, NEW n \in Nat, m <= n, n <= Len(s)
    PROVE  /\ SubSeq(s, m + 1, n) \in Seq(S)
           /\ Len(SubSeq(s, m + 1, n)) = n - m
           /\ \A i \in 1..n - m : SubSeq(s, m + 1, n)[i] = s[m + i]
<1>1. \A i \in m+1..n : s[i] \in S
  BY SeqBasics
<1>2. /\ SubSeq(s, m + 1, n) \in Seq(S)
      /\ Len(SubSeq(s, m + 1, n)) = IF m + 1 <= n THEN n - (m + 1) + 1 ELSE 0
      /\ \A i \in 1..n - (m + 1) + 1 : SubSeq(s, m + 1, n)[i] = s[m + 1 + i - 1]
  BY <1>1, SubSeqProperties
<1>3. \A i \in Int : n - (m + 1) + 1 = n - m /\ m + 1 + i - 1 = m + i
  OBVIOUS
<1> QED
  BY <1>2, <1>3

LEMMA Joined ==
    ASSUME NEW S, NEW s \in Seq(S), NEW t \in Seq(S)
    PROVE  /\ s \o t \in Seq(S)
           /\ Len(s) \in Nat /\ Len(t) \in Nat /\ Len(s \o t) = Len(s) + Len(t)
           /\ \A i \in 1..Len(s) : (s \o t)[i] = s[i]
           /\ \A i \in 1..Len(t) : (s \o t)[Len(s) + i] = t[i]
<1>1. Len(s) \in Nat /\ Len(t) \in Nat
  BY LenProperties
<1>2. /\ s \o t \in Seq(S) /\ Len(s \o t) = Len(s) + Len(t)
      /\ \A i \in 1..Len(s) + Len(t) : (s \o t)[i] = IF i <= Len(s) THEN s[i] ELSE t[i - Len(s)]
  BY ConcatProperties
<1>3. ASSUME NEW i \in 1..Len(t) PROVE (s \o t)[Len(s) + i] = t[i]
  <2>1. Len(s) + i \in 1..Len(s) + Len(t) /\ ~(Len(s) + i <= Len(s)) /\ Len(s) + i - Len(s) = i
    BY <1>1
  <2> QED
    BY <1>2, <2>1
<1>4. \A i \in 1..Len(s) : i \in 1..Len(s) + Len(t) /\ i <= Len(s)
  BY <1>1
<1> QED
  BY <1>1, <1>2, <1>3, <1>4

(* A bounded set of numbers has a greatest one. *)
LEMMA Greatest ==
    ASSUME NEW N \in Nat, NEW ids \in SUBSET (0..N), ids # {}
    PROVE  \E max \in ids : \A id \in ids : id <= max
<1> DEFINE T == {N - id : id \in ids}
           R == OpToRel(<, Nat)
<1>1. T \subseteq Nat /\ T # {}
  OBVIOUS
<1>2. IsWellFoundedOn(R, Nat)
  BY NatLessThanWellFounded
<1>3. \E x \in T : \A y \in T : <<y, x>> \notin R
  <2> HIDE DEF T, R
  <2> QED
    BY <1>1, <1>2, WFMin
<1>4. \A x, y \in Nat : y < x => <<y, x>> \in R
  BY DEF OpToRel
<1>5. \E x \in T : \A y \in T : ~(y < x)
  BY <1>1, <1>3, <1>4
<1>6. PICK max \in ids : \A id \in ids : ~(N - id < N - max)
  BY <1>5
<1>7. \A id \in ids : id <= max
  BY <1>6
<1> QED
  BY <1>7

-----------------------------------------------------------------------------
(* The operators of the model. *)

LEMMA BatchFields ==
    \A b \in Batches : b.id \in Nat /\ b.write \in Write
BY DEF Batches

(* LoadNextBatchId gives an id above all that are queued. *)
LEMMA LoadedIsAbove ==
    ASSUME NEW qs \in [User -> Seq(Batches)], NEW N \in Nat,
           \A u \in User : \A i \in DOMAIN qs[u] : qs[u][i].id < N
    PROVE  /\ LoadNextBatchId(qs) \in Nat /\ LoadNextBatchId(qs) > 0
           /\ \A u \in User : \A i \in DOMAIN qs[u] : qs[u][i].id < LoadNextBatchId(qs)
<1> DEFINE ids == {0} \cup UNION {IdsOf(qs[u]) : u \in User}
           max == CHOOSE max \in ids : \A id \in ids : id <= max
<1>1. \A u \in User : \A i \in DOMAIN qs[u] : qs[u][i].id \in Nat /\ qs[u][i].id \in ids
  <2> SUFFICES ASSUME NEW u \in User, NEW i \in DOMAIN qs[u]
               PROVE  qs[u][i].id \in Nat /\ qs[u][i].id \in ids
    OBVIOUS
  <2>1. qs[u] \in Seq(Batches)
    OBVIOUS
  <2>2. qs[u][i] \in Batches
    BY <2>1, SeqBasics
  <2> QED
    BY <2>2, BatchFields DEF IdsOf
<1>2. \A id \in ids : id \in 0..N
  <2> SUFFICES ASSUME NEW id \in ids, id # 0 PROVE id \in 0..N
    OBVIOUS
  <2>1. PICK u \in User : id \in IdsOf(qs[u])
    OBVIOUS
  <2>2. PICK i \in DOMAIN qs[u] : id = qs[u][i].id
    BY <2>1 DEF IdsOf
  <2> QED
    BY <1>1, <2>2
<1>3. ids # {} /\ 0 \in ids
  OBVIOUS
<1>4. LoadNextBatchId(qs) = 1 + max
  BY DEF LoadNextBatchId
<1> HIDE DEF ids
<1>5. \E m \in ids : \A id \in ids : id <= m
  <2>1. ids \in SUBSET (0..N)
    BY <1>2
  <2> QED
    BY <1>3, <2>1, Greatest
<1>6. max \in ids /\ \A id \in ids : id <= max
  BY <1>5
<1> HIDE DEF max
<1>7. max \in Nat
  BY <1>2, <1>6
<1> QED
  BY <1>1, <1>4, <1>6, <1>7

(* UpTo finds the place of an id, whatever follows it.                     *)
LEMMA UpToPlace ==
    ASSUME NEW q \in Seq(Batches), Ascending(q), Positive(q), NEW n \in 0..Len(q), NEW id \in Int,
           IF n = 0 THEN id = kBatchIdUnknown ELSE id = q[n].id
    PROVE  UpTo(q, id) = n
<1> DEFINE Place(m) == /\ \A i \in 1..m : q[i].id <= id
                       /\ \A i \in m+1..Len(q) : q[i].id > id
<1>1. Len(q) \in Nat /\ DOMAIN q = 1..Len(q) /\ \A i \in 1..Len(q) : q[i].id \in Nat
  BY SeqBasics, BatchFields
<1>2. Place(n)
  <2>1. CASE n = 0
    <3>1. id = -1
      BY <2>1 DEF kBatchIdUnknown
    <3> QED
      BY <1>1, <2>1, <3>1
  <2>2. CASE n # 0
    <3>1. n \in 1..Len(q) /\ id = q[n].id
      BY <1>1, <2>2
    <3>2. \A i \in 1..n : i \in 1..Len(q) /\ (i = n \/ i < n)
      BY <1>1, <3>1
    <3>3. \A i \in n+1..Len(q) : i \in 1..Len(q) /\ n < i
      BY <1>1, <3>1
    <3>4. \A i \in 1..n : q[i].id <= id
      BY <1>1, <3>1, <3>2 DEF Ascending
    <3>5. \A i \in n+1..Len(q) : q[i].id > id
      BY <1>1, <3>1, <3>3 DEF Ascending
    <3> QED
      BY <3>4, <3>5
  <2> QED
    BY <2>1, <2>2
<1>3. ASSUME NEW m \in 0..Len(q), Place(m) PROVE m = n
  <2>1. ~(m < n)
    <3> SUFFICES ASSUME m < n PROVE FALSE
      OBVIOUS
    <3>1. n \in m+1..Len(q) /\ id = q[n].id
      BY <1>1
    <3> QED
      BY <1>1, <1>3, <3>1
  <2>2. ~(n < m)
    <3> SUFFICES ASSUME n < m PROVE FALSE
      OBVIOUS
    <3>1. m \in 1..m /\ m \in n+1..Len(q)
      BY <1>1
    <3> QED
      BY <1>1, <1>2, <1>3, <3>1
  <2> QED
    BY <2>1, <2>2
<1>4. UpTo(q, id) = CHOOSE m \in 0..Len(q) : Place(m)
  BY DEF UpTo
<1> HIDE DEF Place
<1> QED
  BY <1>2, <1>3, <1>4

(* FillWritePipeline makes of a prefix of the queue the longest one there  *)
(* is room for.                                                            *)
LEMMA Filled ==
    ASSUME NEW q \in Seq(Batches), Ascending(q), Positive(q), NEW p \in Seq(Batches), PrefixOf(p, q)
    PROVE  /\ FillWritePipeline(p, q) \in Seq(Batches)
           /\ FullPrefixOf(FillWritePipeline(p, q), q)
           /\ Len(p) <= Len(FillWritePipeline(p, q))
<1> DEFINE n == Len(p)
           last == IF p = <<>> THEN kBatchIdUnknown ELSE Last(p).id
           room == kMaxPendingWrites - n
           end == IF n + room < Len(q) THEN n + room ELSE Len(q)
           added == SubSeq(q, n + 1, end)
           filled == p \o added
<1>1. /\ Len(q) \in Nat /\ n \in Nat /\ kMaxPendingWrites \in Nat
      /\ n <= Len(q) /\ n <= kMaxPendingWrites
      /\ \A i \in 1..Len(q) : q[i].id \in Nat
  BY SeqBasics, BatchFields, PipelineAssumption DEF PrefixOf
<1>2. UpTo(q, last) = n
  <2>1. IF n = 0 THEN last = kBatchIdUnknown ELSE last = q[n].id
    BY <1>1, SeqBasics DEF Last, PrefixOf
  <2>2. last \in Int /\ n \in 0..Len(q)
    BY <1>1, <2>1 DEF kBatchIdUnknown
  <2> HIDE DEF last, n
  <2> QED
    BY <2>1, <2>2, UpToPlace
<1>3. FillWritePipeline(p, q) = filled
  BY <1>2 DEF FillWritePipeline
<1>4. end \in Nat /\ n <= end /\ end <= Len(q) /\ end <= kMaxPendingWrites
      /\ (end = kMaxPendingWrites \/ end = Len(q))
  BY <1>1
<1> HIDE DEF end
<1>5. added \in Seq(Batches) /\ Len(added) = end - n /\ \A i \in 1..end - n : added[i] = q[n + i]
  BY <1>1, <1>4, Sliced
<1> HIDE DEF added
<1>6. /\ filled \in Seq(Batches) /\ Len(filled) = n + (end - n)
      /\ \A i \in 1..n : filled[i] = p[i]
      /\ \A i \in 1..end - n : filled[n + i] = added[i]
  BY <1>5, Joined
<1> HIDE DEF filled
<1>7. ASSUME NEW i \in 1..end PROVE filled[i] = q[i]
  <2>1. CASE i <= n
    BY <1>1, <1>6, <2>1 DEF PrefixOf
  <2>2. CASE i > n
    <3>1. i - n \in 1..end - n /\ n + (i - n) = i
      BY <1>1, <1>4, <2>2
    <3> QED
      BY <1>5, <1>6, <3>1
  <2> QED
    BY <1>1, <2>1, <2>2
<1>8. Len(filled) = end
  BY <1>1, <1>4, <1>6
<1> QED
  BY <1>3, <1>4, <1>6, <1>7, <1>8 DEF FullPrefixOf, PrefixOf

(* RemoveMutationBatch of the first batch leaves the rest. *)
LEMMA HeadRemoved ==
    ASSUME NEW q \in Seq(Batches), q # <<>>, Ascending(q)
    PROVE  RemoveMutationBatch(q, q[1].id) = Tail(q)
<1> DEFINE i == CHOOSE j \in DOMAIN q : q[j].id = q[1].id
<1>1. Len(q) \in Nat /\ Len(q) > 0 /\ DOMAIN q = 1..Len(q) /\ \A j \in 1..Len(q) : q[j].id \in Nat
  BY SeqBasics, Popped, BatchFields
<1>2. 1 \in DOMAIN q
  BY <1>1
<1>3. \A j \in DOMAIN q : q[j].id = q[1].id => j = 1
  BY <1>1, <1>2 DEF Ascending
<1>4. i = 1
  BY <1>2, <1>3
<1> HIDE DEF i
<1>5. RemoveMutationBatch(q, q[1].id) = SubSeq(q, 1, 1 - 1) \o SubSeq(q, 1 + 1, Len(q))
  BY <1>4 DEF RemoveMutationBatch, RemoveAt, i
<1>6. SubSeq(q, 1, 1 - 1) = <<>>
  BY SubSeqEmpty
<1>7. SubSeq(q, 1 + 1, Len(q)) = Tail(q)
  BY TailIsSubSeq
<1>8. Tail(q) \in Seq(Batches)
  BY Popped
<1> QED
  BY <1>5, <1>6, <1>7, <1>8, ConcatEmptySeq

LEMMA WritesOfBatches ==
    ASSUME NEW p \in Seq(Batches)
    PROVE  /\ WritesOf(p) \in Seq(Write)
           /\ Len(WritesOf(p)) = Len(p)
           /\ \A i \in 1..Len(p) : WritesOf(p)[i] = p[i].write
<1>1. Len(p) \in Nat /\ DOMAIN p = 1..Len(p) /\ \A i \in 1..Len(p) : p[i].write \in Write
  BY SeqBasics, BatchFields
<1>2. WritesOf(p) \in [1..Len(p) -> Write]
  BY <1>1 DEF WritesOf
<1>3. WritesOf(p) \in Seq(Write)
  BY <1>1, <1>2, SeqDef
<1>4. Len(WritesOf(p)) = Len(p)
  BY <1>1, <1>2, <1>3, LenProperties
<1> QED
  BY <1>1, <1>3, <1>4 DEF WritesOf

LEMMA WritesOfResponses ==
    ASSUME NEW p \in Seq(Responses)
    PROVE  /\ WritesOf(p) \in Seq(Write)
           /\ Len(WritesOf(p)) = Len(p)
           /\ \A i \in 1..Len(p) : WritesOf(p)[i] = p[i].write
<1>1. Len(p) \in Nat /\ DOMAIN p = 1..Len(p) /\ \A i \in 1..Len(p) : p[i].write \in Write
  <2>1. \A i \in 1..Len(p) : p[i] \in Responses
    BY SeqBasics
  <2> QED
    BY <2>1, SeqBasics DEF Responses
<1>2. WritesOf(p) \in [1..Len(p) -> Write]
  BY <1>1 DEF WritesOf
<1>3. WritesOf(p) \in Seq(Write)
  BY <1>1, <1>2, SeqDef
<1>4. Len(WritesOf(p)) = Len(p)
  BY <1>1, <1>2, <1>3, LenProperties
<1> QED
  BY <1>1, <1>3, <1>4 DEF WritesOf

-----------------------------------------------------------------------------
(* The queues. *)

QueueInv ==
    /\ queue \in [User -> Seq(Batches)]
    /\ nextBatchId \in Nat /\ nextBatchId > 0
    /\ made \in 0..MaxWrites
    /\ user \in User
    /\ QueuesInOrder

LEMMA QueueFacts ==
    ASSUME QueueInv, NEW u \in User
    PROVE  /\ queue[u] \in Seq(Batches) /\ Ascending(queue[u]) /\ Positive(queue[u])
           /\ Len(queue[u]) \in Nat /\ DOMAIN queue[u] = 1..Len(queue[u])
           /\ \A i \in DOMAIN queue[u] : queue[u][i] \in Batches
           /\ \A i \in DOMAIN queue[u] : queue[u][i].id \in Nat /\ queue[u][i].write \in Write
<1>1. queue[u] \in Seq(Batches)
  BY DEF QueueInv
<1>2. Ascending(queue[u]) /\ Positive(queue[u])
  BY DEF QueueInv, QueuesInOrder, Ascending, Positive
<1> QED
  BY <1>1, <1>2, SeqBasics, BatchFields

LEMMA QueueKept ==
    ASSUME QueueInv, UNCHANGED <<queue, made>>, user' \in User,
           nextBatchId' = nextBatchId \/ nextBatchId' = LoadNextBatchId(queue)
    PROVE  QueueInv'
<1>1. \A u \in User : \A i \in DOMAIN queue[u] : queue[u][i].id < nextBatchId
  BY DEF QueueInv, QueuesInOrder
<1>2. /\ nextBatchId' \in Nat /\ nextBatchId' > 0
      /\ \A u \in User : \A i \in DOMAIN queue[u] : queue[u][i].id < nextBatchId'
  <2>1. queue \in [User -> Seq(Batches)] /\ nextBatchId \in Nat /\ nextBatchId > 0
    BY DEF QueueInv
  <2> QED
    BY <1>1, <2>1, LoadedIsAbove
<1> QED
  BY <1>2 DEF QueueInv, QueuesInOrder

(* A write goes to the end of the queue. *)
LEMMA QueueAppended ==
    ASSUME QueueInv, WriteMutations
    PROVE  /\ QueueInv'
           /\ \A u \in User : u # user => queue'[u] = queue[u]
           /\ queue'[user] = Append(queue[user], [id |-> nextBatchId, write |-> made + 1])
           /\ [id |-> nextBatchId, write |-> made + 1] \in Batches
<1> DEFINE batch == [id |-> nextBatchId, write |-> made + 1]
           q == queue[user]
           n == Len(q)
<1>1. /\ made < MaxWrites /\ made' = made + 1 /\ nextBatchId' = nextBatchId + 1
      /\ queue' = [queue EXCEPT ![user] = Append(@, batch)] /\ user' = user
  BY DEF WriteMutations
<1>2. user \in User /\ made \in 0..MaxWrites /\ nextBatchId \in Nat /\ nextBatchId > 0
      /\ queue \in [User -> Seq(Batches)]
  BY DEF QueueInv
<1>3. batch \in Batches
  BY <1>1, <1>2, BoundAssumption DEF Batches, Write
<1>4. q \in Seq(Batches)
  BY <1>2
<1>5. /\ Append(q, batch) \in Seq(Batches)
      /\ n \in Nat /\ Len(Append(q, batch)) = n + 1
      /\ \A i \in 1..n : Append(q, batch)[i] = q[i]
      /\ Append(q, batch)[n + 1] = batch
  <2> HIDE DEF batch
  <2> QED
    BY <1>3, <1>4, Appended
<1>6. \A u \in User : queue'[u] = IF u = user THEN Append(q, batch) ELSE queue[u]
  BY <1>1, <1>2
<1>7. queue' \in [User -> Seq(Batches)]
  <2> HIDE DEF batch
  <2> QED
    BY <1>1, <1>2, <1>5
<1>8. /\ DOMAIN q = 1..n /\ DOMAIN Append(q, batch) = 1..n+1
  BY <1>4, <1>5, LenProperties
<1> HIDE DEF q, n
<1>9. ASSUME NEW u \in User, NEW i \in DOMAIN queue'[u]
      PROVE  \/ u = user /\ i = n + 1 /\ queue'[u][i] = batch
             \/ i \in DOMAIN queue[u] /\ queue'[u][i] = queue[u][i] /\ (u = user => i \in 1..n)
  <2>1. CASE u = user
    <3>1. i \in 1..n \/ i = n + 1
      <4>1. i \in 1..n+1
        BY <1>6, <1>8, <2>1
      <4> QED
        BY <1>5, <4>1
    <3> QED
      BY <1>5, <1>6, <1>8, <2>1, <3>1 DEF q
  <2>2. CASE u # user
    BY <1>6, <2>2
  <2> QED
    BY <2>1, <2>2
<1>10. \A u \in User : \A i \in DOMAIN queue[u] :
          /\ queue[u][i].id \in Nat /\ 0 < queue[u][i].id /\ queue[u][i].id < nextBatchId
          /\ queue[u][i].write \in Nat /\ queue[u][i].write <= made
  BY QueueFacts, BoundAssumption DEF QueueInv, QueuesInOrder, Write
<1>11. batch.id = nextBatchId /\ batch.write = made + 1
  OBVIOUS
<1> HIDE DEF batch
<1>12. ASSUME NEW u \in User, NEW i \in DOMAIN queue'[u]
       PROVE  /\ 0 < queue'[u][i].id /\ queue'[u][i].id < nextBatchId'
              /\ queue'[u][i].write <= made'
              /\ \A j \in DOMAIN queue'[u] : i < j => queue'[u][i].id < queue'[u][j].id
  <2>1. 0 < queue'[u][i].id /\ queue'[u][i].id < nextBatchId' /\ queue'[u][i].write <= made'
    BY <1>1, <1>2, <1>9, <1>10, <1>11
  <2>2. ASSUME NEW j \in DOMAIN queue'[u], i < j PROVE queue'[u][i].id < queue'[u][j].id
    <3>1. CASE u = user /\ j = n + 1 /\ queue'[u][j] = batch
      <4>1. i # n + 1
        BY <1>5, <1>6, <1>8, <2>2, <3>1
      <4> QED
        BY <1>9, <1>10, <1>11, <3>1, <4>1
    <3>2. CASE j \in DOMAIN queue[u] /\ queue'[u][j] = queue[u][j] /\ (u = user => j \in 1..n)
      <4>1. ~(u = user /\ i = n + 1)
        BY <1>5, <2>2, <3>2
      <4>2. i \in DOMAIN queue[u] /\ queue'[u][i] = queue[u][i]
        BY <1>9, <4>1
      <4> QED
        BY <2>2, <3>2, <4>2 DEF QueueInv, QueuesInOrder
    <3> QED
      BY <1>9, <3>1, <3>2
  <2> QED
    BY <2>1, <2>2
<1>13. ASSUME NEW u \in User, NEW v \in User, NEW i \in DOMAIN queue'[u], NEW j \in DOMAIN queue'[v],
              queue'[u][i].id = queue'[v][j].id \/ queue'[u][i].write = queue'[v][j].write
       PROVE  u = v /\ i = j
  <2>1. CASE queue'[u][i] = batch /\ u = user /\ i = n + 1
    <3>1. ~(j \in DOMAIN queue[v] /\ queue'[v][j] = queue[v][j])
      BY <1>2, <1>10, <1>11, <1>13, <2>1
    <3> QED
      BY <1>9, <2>1, <3>1
  <2>2. CASE i \in DOMAIN queue[u] /\ queue'[u][i] = queue[u][i]
    <3>1. queue'[v][j] # batch
      BY <1>2, <1>10, <1>11, <1>13, <2>2
    <3>2. j \in DOMAIN queue[v] /\ queue'[v][j] = queue[v][j]
      BY <1>9, <3>1
    <3> QED
      BY <1>13, <2>2, <3>2 DEF QueueInv, QueuesInOrder
  <2> QED
    BY <1>9, <2>1, <2>2
<1>14. QueuesInOrder'
  BY <1>12, <1>13 DEF QueuesInOrder
<1>15. QueueInv'
  BY <1>1, <1>2, <1>7, <1>14, BoundAssumption DEF QueueInv
<1> QED
  BY <1>2, <1>3, <1>6, <1>15 DEF batch, q

(* Where a batch was before the first one of the user left the queue.      *)
Before(u, i) == IF u = user THEN i + 1 ELSE i

LEMMA QueuePopped ==
    ASSUME QueueInv, queue[user] # <<>>, UNCHANGED made, user' \in User,
           queue' = [queue EXCEPT ![user] = Tail(@)],
           nextBatchId' = nextBatchId \/ nextBatchId' = LoadNextBatchId(queue')
    PROVE  /\ QueueInv'
           /\ queue'[user] = Tail(queue[user])
           /\ \A u \in User : \A i \in DOMAIN queue'[u] :
                  Before(u, i) \in DOMAIN queue[u] /\ queue'[u][i] = queue[u][Before(u, i)]
           /\ \A u \in User : \A k \in DOMAIN queue[u] :
                  \/ u = user /\ k = 1
                  \/ \E i \in DOMAIN queue'[u] : Before(u, i) = k
           /\ \A u \in User : \A i \in DOMAIN queue'[u] : ~(u = user /\ Before(u, i) = 1)
<1> DEFINE q == queue[user]
           n == Len(q)
<1>1. user \in User /\ made \in 0..MaxWrites /\ nextBatchId \in Nat /\ nextBatchId > 0
      /\ queue \in [User -> Seq(Batches)]
  BY DEF QueueInv
<1>2. q \in Seq(Batches)
  BY <1>1
<1>3. /\ Tail(q) \in Seq(Batches)
      /\ n \in Nat /\ n > 0 /\ Len(Tail(q)) = n - 1
      /\ \A i \in 1..n - 1 : Tail(q)[i] = q[i + 1]
  BY <1>2, Popped
<1>4. DOMAIN q = 1..n /\ DOMAIN Tail(q) = 1..n-1
  BY <1>2, <1>3, LenProperties
<1>5. \A u \in User : queue'[u] = IF u = user THEN Tail(q) ELSE queue[u]
  BY <1>1
<1>6. queue' \in [User -> Seq(Batches)]
  BY <1>1, <1>3
<1> HIDE DEF q, n
<1>7. ASSUME NEW u \in User, NEW i \in DOMAIN queue'[u]
      PROVE  /\ Before(u, i) \in DOMAIN queue[u] /\ queue'[u][i] = queue[u][Before(u, i)]
             /\ ~(u = user /\ Before(u, i) = 1)
             /\ i \in Nat
  <2>1. CASE u = user
    <3>1. i \in 1..n-1
      BY <1>4, <1>5, <2>1
    <3>2. i + 1 \in 1..n /\ i + 1 # 1 /\ i \in Nat
      BY <1>3, <3>1
    <3>3. queue'[u][i] = q[i + 1] /\ queue[u] = q
      BY <1>3, <1>5, <2>1, <3>1 DEF q
    <3> QED
      BY <1>4, <2>1, <3>2, <3>3 DEF Before
  <2>2. CASE u # user
    <3>1. queue[u] \in Seq(Batches)
      BY <1>1
    <3>2. i \in DOMAIN queue[u]
      BY <1>5, <2>2
    <3>3. i \in Nat
      BY <3>1, <3>2, SeqBasics
    <3> QED
      BY <1>5, <2>2, <3>2, <3>3 DEF Before
  <2> QED
    BY <2>1, <2>2
<1>8. ASSUME NEW u \in User, NEW k \in DOMAIN queue[u]
      PROVE  (u = user /\ k = 1) \/ \E i \in DOMAIN queue'[u] : Before(u, i) = k
  <2>1. CASE u = user /\ k # 1
    <3>1. k \in 1..n
      BY <1>4, <2>1 DEF q
    <3>2. k - 1 \in 1..n-1 /\ k - 1 + 1 = k
      BY <1>3, <2>1, <3>1
    <3>3. k - 1 \in DOMAIN queue'[u] /\ Before(u, k - 1) = k
      BY <1>4, <1>5, <2>1, <3>2 DEF Before
    <3> QED
      BY <3>3
  <2>2. CASE u # user
    BY <1>5, <2>2 DEF Before
  <2> QED
    BY <2>1, <2>2
<1>9. \A u \in User : \A i, j \in DOMAIN queue'[u] :
          /\ i < j => Before(u, i) < Before(u, j)
          /\ Before(u, i) = Before(u, j) => i = j
  BY <1>7 DEF Before
<1>10. /\ \A u \in User : \A i \in DOMAIN queue'[u] :
              /\ 0 < queue'[u][i].id /\ queue'[u][i].id < nextBatchId
              /\ queue'[u][i].write <= made
              /\ \A j \in DOMAIN queue'[u] : i < j => queue'[u][i].id < queue'[u][j].id
  <2> SUFFICES ASSUME NEW u \in User, NEW i \in DOMAIN queue'[u]
               PROVE  /\ 0 < queue'[u][i].id /\ queue'[u][i].id < nextBatchId
                      /\ queue'[u][i].write <= made
                      /\ \A j \in DOMAIN queue'[u] : i < j => queue'[u][i].id < queue'[u][j].id
    OBVIOUS
  <2>1. 0 < queue'[u][i].id /\ queue'[u][i].id < nextBatchId /\ queue'[u][i].write <= made
    BY <1>7 DEF QueueInv, QueuesInOrder
  <2>2. ASSUME NEW j \in DOMAIN queue'[u], i < j PROVE queue'[u][i].id < queue'[u][j].id
    <3> DEFINE k == Before(u, i)
               m == Before(u, j)
    <3>1. k \in DOMAIN queue[u] /\ m \in DOMAIN queue[u] /\ k < m
          /\ queue'[u][i] = queue[u][k] /\ queue'[u][j] = queue[u][m]
      BY <1>7, <1>9, <2>2
    <3> HIDE DEF k, m
    <3> QED
      BY <3>1 DEF QueueInv, QueuesInOrder
  <2> QED
    BY <2>1, <2>2
<1>11. ASSUME NEW u \in User, NEW v \in User, NEW i \in DOMAIN queue'[u], NEW j \in DOMAIN queue'[v],
              queue'[u][i].id = queue'[v][j].id \/ queue'[u][i].write = queue'[v][j].write
       PROVE  u = v /\ i = j
  <2> DEFINE k == Before(u, i)
             m == Before(v, j)
  <2>1. k \in DOMAIN queue[u] /\ m \in DOMAIN queue[v]
        /\ queue'[u][i] = queue[u][k] /\ queue'[v][j] = queue[v][m]
    BY <1>7
  <2> HIDE DEF k, m
  <2>2. u = v /\ k = m
    BY <1>11, <2>1 DEF QueueInv, QueuesInOrder
  <2> QED
    BY <1>9, <2>2 DEF k, m
<1>12. /\ nextBatchId' \in Nat /\ nextBatchId' > 0
       /\ \A u \in User : \A i \in DOMAIN queue'[u] : queue'[u][i].id < nextBatchId'
  <2>1. CASE nextBatchId' = nextBatchId
    BY <1>1, <1>10, <2>1
  <2>2. CASE nextBatchId' = LoadNextBatchId(queue')
    <3> DEFINE qs == queue'
    <3>1. qs \in [User -> Seq(Batches)]
          /\ \A u \in User : \A i \in DOMAIN qs[u] : qs[u][i].id < nextBatchId
      BY <1>6, <1>10
    <3> HIDE DEF qs
    <3>2. /\ LoadNextBatchId(qs) \in Nat /\ LoadNextBatchId(qs) > 0
          /\ \A u \in User : \A i \in DOMAIN qs[u] : qs[u][i].id < LoadNextBatchId(qs)
      BY <1>1, <3>1, LoadedIsAbove
    <3> QED
      BY <2>2, <3>2 DEF qs
  <2> QED
    BY <2>1, <2>2
<1>13. QueuesInOrder'
  BY <1>10, <1>11, <1>12 DEF QueuesInOrder
<1>14. QueueInv'
  BY <1>1, <1>6, <1>12, <1>13 DEF QueueInv
<1> QED
  BY <1>1, <1>5, <1>7, <1>8, <1>14 DEF q

-----------------------------------------------------------------------------
(* The pipeline. *)

PipeInv ==
    /\ pipeline \in Seq(Batches)
    /\ FullPrefixOf(pipeline, queue[user])

LEMMA FilledAnew ==
    ASSUME NEW q \in Seq(Batches), Ascending(q), Positive(q)
    PROVE  /\ FillWritePipeline(<<>>, q) \in Seq(Batches)
           /\ FullPrefixOf(FillWritePipeline(<<>>, q), q)
<1>1. <<>> \in Seq(Batches) /\ Len(<<>>) = 0 /\ Len(q) \in Nat
  BY EmptySeq, LenProperties
<1>2. PrefixOf(<<>>, q)
  BY <1>1, PipelineAssumption DEF PrefixOf
<1> QED
  BY <1>1, <1>2, Filled

(* A pipeline filled anew, for the queue as it is after the step.          *)
LEMMA PipeAnew ==
    ASSUME QueueInv', pipeline' = FillWritePipeline(<<>>, queue'[user'])
    PROVE  PipeInv'
<1> DEFINE q == queue'[user']
<1>1. q \in Seq(Batches) /\ Ascending(q) /\ Positive(q)
  BY DEF QueueInv, QueuesInOrder, Ascending, Positive
<1> HIDE DEF q
<1>2. /\ FillWritePipeline(<<>>, q) \in Seq(Batches)
      /\ FullPrefixOf(FillWritePipeline(<<>>, q), q)
  BY <1>1, FilledAnew
<1> QED
  BY <1>2 DEF PipeInv, q, FullPrefixOf, PrefixOf

LEMMA PipeAppended ==
    ASSUME QueueInv, PipeInv, WriteMutations
    PROVE  /\ PipeInv'
           /\ Len(pipeline) \in Nat /\ Len(pipeline') \in Nat
           /\ Len(pipeline) <= Len(pipeline') /\ Len(pipeline') > 0
           /\ \A i \in 1..Len(pipeline) : pipeline'[i] = pipeline[i]
<1> DEFINE q == queue[user]
           qq == queue'[user']
           n == Len(pipeline)
<1>1. /\ QueueInv' /\ user' = user
      /\ qq = Append(q, [id |-> nextBatchId, write |-> made + 1])
      /\ [id |-> nextBatchId, write |-> made + 1] \in Batches
  BY QueueAppended DEF WriteMutations
<1>2. pipeline' = FillWritePipeline(pipeline, qq)
  BY <1>1 DEF WriteMutations
<1>3. qq \in Seq(Batches) /\ Ascending(qq) /\ Positive(qq)
  BY <1>1 DEF QueueInv, QueuesInOrder, Ascending, Positive
<1>4. q \in Seq(Batches)
  BY DEF QueueInv
<1>5. /\ n \in Nat /\ n <= kMaxPendingWrites /\ n <= Len(q) /\ Len(q) \in Nat
      /\ \A i \in 1..n : pipeline[i] = q[i]
      /\ pipeline \in Seq(Batches)
  BY <1>4, SeqBasics DEF PipeInv, FullPrefixOf, PrefixOf
<1> HIDE DEF q, qq
<1>6. Len(qq) = Len(q) + 1 /\ \A i \in 1..Len(q) : qq[i] = q[i]
  BY <1>1, <1>4, Appended
<1>7. PrefixOf(pipeline, qq)
  BY <1>5, <1>6 DEF PrefixOf
<1>8. pipeline' \in Seq(Batches) /\ FullPrefixOf(pipeline', qq) /\ n <= Len(pipeline')
  BY <1>2, <1>3, <1>5, <1>7, Filled
<1>9. PipeInv'
  BY <1>8 DEF PipeInv, qq, FullPrefixOf, PrefixOf
<1>10. Len(pipeline') \in Nat /\ Len(pipeline') > 0
  BY <1>5, <1>6, <1>8, SeqBasics, PipelineAssumption DEF FullPrefixOf
<1>11. \A i \in 1..n : pipeline'[i] = pipeline[i]
  BY <1>5, <1>6, <1>8, <1>10 DEF FullPrefixOf, PrefixOf
<1> QED
  BY <1>5, <1>8, <1>9, <1>10, <1>11

(* The head of the pipeline is the head of the queue. *)
LEMMA HeadOfQueue ==
    ASSUME QueueInv, PipeInv, pipeline # <<>>
    PROVE  /\ queue[user] # <<>> /\ 1 \in DOMAIN queue[user]
           /\ Head(pipeline) = queue[user][1] /\ pipeline[1] = queue[user][1]
           /\ RemoveMutationBatch(queue[user], Head(pipeline).id) = Tail(queue[user])
           /\ [queue EXCEPT ![user] = RemoveMutationBatch(@, Head(pipeline).id)]
                = [queue EXCEPT ![user] = Tail(@)]
<1>1. queue[user] \in Seq(Batches) /\ Ascending(queue[user]) /\ user \in User
      /\ queue \in [User -> Seq(Batches)]
  BY QueueFacts DEF QueueInv
<1>2. Len(pipeline) \in Nat /\ Len(pipeline) > 0 /\ Head(pipeline) = pipeline[1]
  BY Popped DEF PipeInv
<1>3. Len(queue[user]) \in Nat /\ Len(queue[user]) > 0 /\ pipeline[1] = queue[user][1]
  BY <1>1, <1>2, SeqBasics DEF PipeInv, FullPrefixOf, PrefixOf
<1>4. queue[user] # <<>> /\ 1 \in DOMAIN queue[user]
  BY <1>1, <1>3, SeqBasics
<1>5. RemoveMutationBatch(queue[user], Head(pipeline).id) = Tail(queue[user])
  BY <1>1, <1>2, <1>3, <1>4, HeadRemoved
<1> QED
  BY <1>2, <1>3, <1>4, <1>5

LEMMA PipePopped ==
    ASSUME QueueInv, PipeInv, pipeline # <<>>
    PROVE  LET p == FillWritePipeline(Tail(pipeline), Tail(queue[user])) IN
           /\ p \in Seq(Batches) /\ FullPrefixOf(p, Tail(queue[user]))
           /\ Tail(pipeline) \in Seq(Batches)
           /\ Len(pipeline) \in Nat /\ Len(Tail(pipeline)) = Len(pipeline) - 1
           /\ Len(p) \in Nat /\ Len(Tail(pipeline)) <= Len(p)
           /\ \A i \in 1..Len(pipeline) - 1 : p[i] = pipeline[i + 1]
<1> DEFINE q == queue[user]
           n == Len(pipeline)
           rest == Tail(pipeline)
           left == Tail(q)
           p == FillWritePipeline(rest, left)
<1>1. q # <<>> /\ q \in Seq(Batches) /\ Ascending(q) /\ Positive(q)
  BY HeadOfQueue, QueueFacts DEF QueueInv
<1>2. /\ left \in Seq(Batches) /\ Len(q) \in Nat /\ Len(q) > 0 /\ Len(left) = Len(q) - 1
      /\ \A i \in 1..Len(q) - 1 : left[i] = q[i + 1]
      /\ DOMAIN q = 1..Len(q)
  BY <1>1, Popped, SeqBasics
<1>3. /\ rest \in Seq(Batches) /\ n \in Nat /\ n > 0 /\ Len(rest) = n - 1
      /\ \A i \in 1..n - 1 : rest[i] = pipeline[i + 1]
  BY Popped DEF PipeInv
<1>4. n <= kMaxPendingWrites /\ n <= Len(q) /\ \A i \in 1..n : pipeline[i] = q[i]
  BY DEF PipeInv, FullPrefixOf, PrefixOf
<1> HIDE DEF q, rest, left, n
<1>5. DOMAIN left = 1..Len(q) - 1
  BY <1>2, LenProperties
<1>6. Ascending(left) /\ Positive(left)
  <2>1. \A i \in 1..Len(q) - 1 : i + 1 \in DOMAIN q /\ left[i] = q[i + 1]
    BY <1>2
  <2>2. \A i, j \in 1..Len(q) - 1 : i < j => i + 1 < j + 1
    BY <1>2
  <2> QED
    BY <1>1, <1>5, <2>1, <2>2 DEF Ascending, Positive
<1>7. \A i \in 1..n - 1 : i + 1 \in 1..n /\ i \in 1..Len(q) - 1 /\ rest[i] = left[i]
  BY <1>2, <1>3, <1>4
<1>8. PrefixOf(rest, left)
  BY <1>2, <1>3, <1>4, <1>7, PipelineAssumption DEF PrefixOf
<1>9. p \in Seq(Batches) /\ FullPrefixOf(p, left) /\ Len(rest) <= Len(p)
  BY <1>2, <1>3, <1>6, <1>8, Filled
<1>10. Len(p) \in Nat
  BY <1>9, SeqBasics
<1>11. \A i \in 1..n - 1 : i \in 1..Len(p) /\ p[i] = pipeline[i + 1]
  BY <1>3, <1>7, <1>9, <1>10 DEF FullPrefixOf, PrefixOf
<1> QED
  BY <1>3, <1>9, <1>10, <1>11 DEF q, rest, left, n

(* What AddToWritePipeline sends. *)
LEMMA SentAdded ==
    ASSUME NEW p \in Seq(Batches), pipeline' \in Seq(Batches), Len(p) <= Len(pipeline'),
           requests \in Seq(Write), Writing, SendAdded(p)
    PROVE  /\ requests' \in Seq(Write)
           /\ Len(requests) \in Nat /\ Len(p) \in Nat /\ Len(pipeline') \in Nat
           /\ Len(requests') = Len(requests) + (Len(pipeline') - Len(p))
           /\ \A i \in 1..Len(requests) : requests'[i] = requests[i]
           /\ \A i \in 1..Len(pipeline') - Len(p) :
                  requests'[Len(requests) + i] = pipeline'[Len(p) + i].write
<1> DEFINE pp == pipeline'
           added == SubSeq(pp, Len(p) + 1, Len(pp))
<1>1. requests' = requests \o WritesOf(added)
  BY DEF SendAdded, WritesOf
<1>2. Len(p) \in Nat /\ Len(pp) \in Nat /\ pp \in Seq(Batches) /\ Len(p) <= Len(pp)
  BY LenProperties
<1> HIDE DEF pp
<1>3. /\ added \in Seq(Batches) /\ Len(added) = Len(pp) - Len(p)
      /\ \A i \in 1..Len(pp) - Len(p) : added[i] = pp[Len(p) + i]
  BY <1>2, Sliced
<1> HIDE DEF added
<1>4. /\ WritesOf(added) \in Seq(Write) /\ Len(WritesOf(added)) = Len(added)
      /\ \A i \in 1..Len(added) : WritesOf(added)[i] = added[i].write
  BY <1>3, WritesOfBatches
<1> DEFINE t == WritesOf(added)
<1>5. requests' = requests \o t /\ t \in Seq(Write) /\ Len(t) = Len(pp) - Len(p)
      /\ \A i \in 1..Len(pp) - Len(p) : t[i] = pp[Len(p) + i].write
  BY <1>1, <1>2, <1>3, <1>4
<1> HIDE DEF t
<1>6. requests \in Seq(Write) /\ t \in Seq(Write)
  BY <1>5
<1>7. /\ requests \o t \in Seq(Write)
      /\ Len(requests) \in Nat /\ Len(requests \o t) = Len(requests) + Len(t)
      /\ \A i \in 1..Len(requests) : (requests \o t)[i] = requests[i]
      /\ \A i \in 1..Len(t) : (requests \o t)[Len(requests) + i] = t[i]
  BY <1>6, Joined
<1> QED
  BY <1>2, <1>5, <1>7 DEF pp

-----------------------------------------------------------------------------
(* The stream. *)

StreamType ==
    /\ stream \in {"Initial", "Starting", "Open", "Error", "Backoff"}
    /\ handshake \in {"none", "asked", "answered", "complete"}
    /\ idle \in BOOLEAN /\ overtaken \in BOOLEAN
    /\ requests \in Seq(Write) /\ responses \in Seq(Responses)

StreamInv == StreamType /\ ChannelInv /\ IdleOnlyWhenUnneeded

LEMMA StartedIfNeeded ==
    ASSUME NEW state \in {"Initial", "Starting", "Open", "Error", "Backoff"}, NEW p
    PROVE  /\ StartIfNeeded(state, p) \in {"Initial", "Starting", "Open", "Error", "Backoff"}
           /\ p # <<>> => StartIfNeeded(state, p) \in {"Starting", "Backoff", "Open"}
           /\ state = "Open" => StartIfNeeded(state, p) = "Open"
           /\ state # "Open" => StartIfNeeded(state, p) # "Open"
BY DEF StartIfNeeded

(* A stream that is closed, and started again if it is needed.             *)
LEMMA StreamClosed ==
    ASSUME Close, NEW state \in {"Initial", "Error"},
           stream' = StartIfNeeded(state, pipeline')
    PROVE  StreamInv'
<1>1. /\ handshake' = "none" /\ idle' = FALSE /\ overtaken' = FALSE
      /\ requests' = <<>> /\ responses' = <<>>
  BY DEF Close
<1>2. requests' \in Seq(Write) /\ responses' \in Seq(Responses) /\ Len(responses') = 0
  BY <1>1, EmptySeq
<1> DEFINE p == pipeline'
<1>3. /\ stream' \in {"Initial", "Starting", "Open", "Error", "Backoff"}
      /\ p # <<>> => stream' \in {"Starting", "Backoff", "Open"}
  <2> HIDE DEF p
  <2>1. stream' = StartIfNeeded(state, p)
    BY DEF p
  <2> QED
    BY <2>1, StartedIfNeeded
<1>4. StreamType'
  BY <1>1, <1>2, <1>3 DEF StreamType
<1>5. ChannelInv'
  BY <1>1, <1>2 DEF ChannelInv, Writing
<1>6. IdleOnlyWhenUnneeded'
  BY <1>1, <1>3 DEF IdleOnlyWhenUnneeded, IsStarted
<1> QED
  BY <1>4, <1>5, <1>6 DEF StreamInv

(* What is not complete has nothing on it. *)
LEMMA StreamLengths ==
    ASSUME StreamInv, PipeInv
    PROVE  /\ Len(pipeline) \in Nat /\ Len(requests) \in Nat /\ Len(responses) \in Nat
           /\ Len(<<>>) = 0
           /\ pipeline = <<>> <=> Len(pipeline) = 0
           /\ requests = <<>> <=> Len(requests) = 0
           /\ responses = <<>> <=> Len(responses) = 0
BY SeqBasics DEF StreamInv, StreamType, PipeInv

LEMMA WriteStream ==
    ASSUME QueueInv, PipeInv, StreamInv, WriteMutations
    PROVE  StreamInv'
<1> DEFINE n == Len(pipeline)
           m == Len(requests)
           k == Len(responses)
           nn == Len(pipeline')
           mm == Len(requests')
<1>1. /\ pipeline' \in Seq(Batches)
      /\ n \in Nat /\ Len(pipeline') \in Nat /\ n <= Len(pipeline') /\ Len(pipeline') > 0
      /\ \A i \in 1..n : pipeline'[i] = pipeline[i]
  BY PipeAppended DEF PipeInv
<1>2. /\ UNCHANGED <<handshake, responses, overtaken, applied, refused>>
      /\ idle' = (idle /\ requests' = requests)
      /\ SendAdded(pipeline)
      /\ stream' = StartIfNeeded(stream, pipeline')
  BY DEF WriteMutations, server
<1>3. pipeline \in Seq(Batches) /\ requests \in Seq(Write) /\ m \in Nat /\ k \in Nat
      /\ responses \in Seq(Responses)
  BY StreamLengths DEF PipeInv, StreamInv, StreamType
<1>4. pipeline' # <<>>
  BY <1>1, SeqBasics
<1>5. /\ stream \in {"Initial", "Starting", "Open", "Error", "Backoff"}
      /\ stream' \in {"Starting", "Backoff", "Open"}
      /\ stream = "Open" <=> stream' = "Open"
  <2> DEFINE p == pipeline'
  <2>1. p # <<>> /\ stream' = StartIfNeeded(stream, p)
    BY <1>2, <1>4
  <2>2. stream \in {"Initial", "Starting", "Open", "Error", "Backoff"}
    BY DEF StreamInv, StreamType
  <2> HIDE DEF p
  <2> QED
    BY <2>1, <2>2, StartedIfNeeded
<1>6. Writing' <=> Writing
  BY <1>2, <1>5 DEF Writing
<1>7. CASE Writing
  <2>1. /\ requests' \in Seq(Write) /\ mm = m + (nn - n)
        /\ \A i \in 1..m : requests'[i] = requests[i]
        /\ \A i \in 1..nn - n : requests'[m + i] = pipeline'[n + i].write
    BY <1>1, <1>2, <1>3, <1>7, SentAdded
  <2>2. /\ k + m = n
        /\ \A i \in 1..k : responses[i].write = pipeline[i].write
        /\ \A i \in 1..m : requests[i] = pipeline[k + i].write
    BY <1>7 DEF StreamInv, ChannelInv, StreamMatches
  <2>3. n \in Nat /\ m \in Nat /\ k \in Nat /\ nn \in Nat /\ n <= nn
        /\ \A i \in 1..n : pipeline'[i] = pipeline[i]
    BY <1>1, <1>3
  <2>4. Len(responses') = k
    BY <1>2
  <2>5. StreamMatches'
    <3> HIDE DEF n, m, k, nn, mm
    <3>1. k + mm = nn
      BY <2>1, <2>2, <2>3
    <3>2. ASSUME NEW i \in 1..mm PROVE requests'[i] = pipeline'[k + i].write
      <4>1. CASE i <= m
        <5>1. i \in 1..m /\ k + i \in 1..n
          BY <2>1, <2>2, <2>3, <4>1
        <5> QED
          BY <2>1, <2>2, <2>3, <5>1
      <4>2. CASE i > m
        <5>1. i - m \in 1..nn - n /\ m + (i - m) = i /\ n + (i - m) = k + i
          BY <2>1, <2>2, <2>3, <4>2
        <5> QED
          BY <2>1, <5>1
      <4> QED
        BY <2>1, <2>3, <4>1, <4>2
    <3>3. \A i \in 1..k : i \in 1..n /\ responses[i].write = pipeline'[i].write
      BY <2>2, <2>3
    <3> QED
      BY <1>2, <2>4, <3>1, <3>2, <3>3 DEF StreamMatches, mm, nn
  <2>6. ChannelInv'
    BY <1>2, <1>5, <1>6, <1>7, <2>5 DEF StreamInv, ChannelInv
  <2>7. idle' = FALSE
    <3>1. idle => n = 0
      BY StreamLengths DEF StreamInv, IdleOnlyWhenUnneeded
    <3>2. nn > 0
      BY <1>1
    <3>3. idle => mm # m
      <4> HIDE DEF n, m, nn, mm
      <4> QED
        BY <2>1, <2>3, <3>1, <3>2
    <3> QED
      BY <1>2, <3>3
  <2> QED
    BY <1>2, <1>5, <2>1, <2>6, <2>7
    DEF StreamInv, StreamType, IdleOnlyWhenUnneeded, IsStarted
<1>8. CASE ~Writing
  <2>1. requests' = requests /\ requests = <<>> /\ responses = <<>> /\ ~idle
    BY <1>2, <1>8 DEF SendAdded, StreamInv, ChannelInv, IdleOnlyWhenUnneeded
  <2>2. ChannelInv'
    BY <1>2, <1>5, <1>6, <1>8, <2>1 DEF StreamInv, ChannelInv
  <2> QED
    BY <1>2, <1>5, <2>1, <2>2 DEF StreamInv, StreamType, IdleOnlyWhenUnneeded, IsStarted
<1> QED
  BY <1>7, <1>8

LEMMA HandshakeStream ==
    ASSUME PipeInv, StreamInv, HandshakeComplete
    PROVE  StreamInv'
<1>1. /\ stream = "Open" /\ handshake' = "complete" /\ requests' = WritesOf(pipeline)
      /\ idle' = (idle /\ pipeline = <<>>)
      /\ UNCHANGED <<pipeline, stream, responses, overtaken, applied, refused>>
  BY DEF HandshakeComplete, server
<1>2. responses = <<>> /\ ~idle
  BY DEF HandshakeComplete, StreamInv, ChannelInv, IdleOnlyWhenUnneeded, Writing
<1>3. /\ requests' \in Seq(Write) /\ Len(requests') = Len(pipeline)
      /\ \A i \in 1..Len(pipeline) : requests'[i] = pipeline[i].write
  BY <1>1, WritesOfBatches DEF PipeInv
<1>4. Len(responses) = 0 /\ Len(responses') = 0 /\ Len(pipeline) \in Nat
  BY <1>1, <1>2, StreamLengths
<1>5. StreamMatches'
  <2>1. \A i \in 1..Len(requests') : 0 + i = i
    OBVIOUS
  <2> QED
    BY <1>1, <1>3, <1>4, <2>1 DEF StreamMatches
<1>6. ChannelInv'
  BY <1>1, <1>4, <1>5 DEF ChannelInv, Writing
<1> QED
  BY <1>1, <1>2, <1>3, <1>6
  DEF StreamInv, StreamType, IdleOnlyWhenUnneeded, IsStarted

(* The next answer is for the head of the pipeline. *)
LEMMA AnswerForHead ==
    ASSUME PipeInv, StreamInv, Writing, responses # <<>>
    PROVE  /\ pipeline # <<>> /\ Head(responses) = responses[1]
           /\ responses[1].write = Head(pipeline).write
           /\ responses[1].kind = "applied" => Head(pipeline).write \in applied
           /\ responses[1].kind # "applied" => Head(pipeline).write \in refused
<1> DEFINE n == Len(pipeline)
           m == Len(requests)
           k == Len(responses)
<1>1. n \in Nat /\ m \in Nat /\ k \in Nat /\ k # 0 /\ (pipeline = <<>> => n = 0)
  BY StreamLengths
<1>2. k + m = n /\ \A i \in 1..k : responses[i].write = pipeline[i].write
  BY DEF StreamInv, ChannelInv, StreamMatches
<1>3. \A i \in 1..k : IF responses[i].kind = "applied" THEN responses[i].write \in applied
                      ELSE responses[i].write \in refused
  BY DEF StreamInv, ChannelInv
<1>4. responses \in Seq(Responses) /\ pipeline \in Seq(Batches)
  BY DEF StreamInv, StreamType, PipeInv
<1> HIDE DEF n, m, k
<1>5. 1 \in 1..k /\ pipeline # <<>>
  BY <1>1, <1>2
<1>6. Head(responses) = responses[1] /\ Head(pipeline) = pipeline[1]
  BY <1>4, <1>5, Popped
<1> QED
  BY <1>2, <1>3, <1>5, <1>6

LEMMA ResultQueue ==
    ASSUME QueueInv, PipeInv, StreamInv, MutationResult
    PROVE  /\ pipeline # <<>> /\ queue[user] # <<>>
           /\ queue' = [queue EXCEPT ![user] = Tail(@)]
           /\ queue'[user] = Tail(queue[user])
           /\ UNCHANGED <<nextBatchId, user, made>>
<1>1. pipeline # <<>>
  BY AnswerForHead DEF MutationResult
<1>2. queue' = [queue EXCEPT ![user] = Tail(@)]
  BY <1>1, HeadOfQueue DEF MutationResult
<1> QED
  BY <1>1, <1>2, HeadOfQueue DEF MutationResult, QueueInv

LEMMA ResultStream ==
    ASSUME QueueInv, PipeInv, StreamInv, MutationResult
    PROVE  StreamInv' /\ PipeInv'
<1> DEFINE rest == Tail(pipeline)
           n == Len(pipeline)
           m == Len(requests)
           k == Len(responses)
           r == Len(rest)
           nn == Len(pipeline')
           mm == Len(requests')
           kk == Len(responses')
<1>1. /\ Writing /\ responses # <<>> /\ responses' = Tail(responses)
      /\ pipeline' = FillWritePipeline(rest, queue'[user])
      /\ SendAdded(rest)
      /\ idle' = (pipeline' = <<>> \/ (idle /\ requests' = requests))
      /\ overtaken' \in BOOLEAN
      /\ UNCHANGED <<user, stream, handshake, applied, refused>>
  BY DEF MutationResult, server, Ended
<1>2. pipeline # <<>> /\ queue'[user] = Tail(queue[user])
  BY ResultQueue
<1>3. /\ pipeline' \in Seq(Batches) /\ FullPrefixOf(pipeline', Tail(queue[user]))
      /\ rest \in Seq(Batches) /\ n \in Nat /\ r = n - 1
      /\ nn \in Nat /\ r <= nn
      /\ \A i \in 1..n - 1 : pipeline'[i] = pipeline[i + 1]
  BY <1>1, <1>2, PipePopped
<1>4. PipeInv'
  BY <1>1, <1>2, <1>3 DEF PipeInv, FullPrefixOf, PrefixOf
<1>5. requests \in Seq(Write) /\ responses \in Seq(Responses) /\ m \in Nat /\ k \in Nat /\ n # 0
  BY <1>2, StreamLengths DEF StreamInv, StreamType
<1>6. /\ requests' \in Seq(Write) /\ mm = m + (nn - r)
      /\ \A i \in 1..m : requests'[i] = requests[i]
      /\ \A i \in 1..nn - r : requests'[m + i] = pipeline'[r + i].write
  <2> HIDE DEF rest
  <2> QED
    BY <1>1, <1>3, <1>5, SentAdded
<1>7. /\ responses' \in Seq(Responses) /\ kk = k - 1 /\ k > 0
      /\ \A i \in 1..k - 1 : responses'[i] = responses[i + 1]
  BY <1>1, <1>5, Popped
<1>8. /\ k + m = n
      /\ \A i \in 1..k : responses[i].write = pipeline[i].write
      /\ \A i \in 1..m : requests[i] = pipeline[k + i].write
  BY <1>1 DEF StreamInv, ChannelInv, StreamMatches
<1>9. \A i \in 1..k : IF responses[i].kind = "applied" THEN responses[i].write \in applied
                      ELSE i = k /\ responses[i].write \in refused
  BY DEF StreamInv, ChannelInv
<1>10. StreamMatches'
  <2> HIDE DEF rest, n, m, k, r, nn, mm, kk
  <2>1. kk + mm = nn
    BY <1>3, <1>5, <1>6, <1>7, <1>8
  <2>2. ASSUME NEW i \in 1..mm PROVE requests'[i] = pipeline'[kk + i].write
    <3>1. CASE i <= m
      <4>1. i \in 1..m /\ kk + i \in 1..n - 1 /\ kk + i + 1 = k + i
        BY <1>3, <1>5, <1>6, <1>7, <1>8, <3>1
      <4> QED
        BY <1>3, <1>6, <1>8, <4>1
    <3>2. CASE i > m
      <4>1. i - m \in 1..nn - r /\ m + (i - m) = i /\ r + (i - m) = kk + i
        BY <1>3, <1>5, <1>6, <1>7, <1>8, <3>2
      <4> QED
        BY <1>6, <4>1
    <3> QED
      BY <1>3, <1>5, <1>6, <3>1, <3>2
  <2>3. ASSUME NEW i \in 1..kk PROVE responses'[i].write = pipeline'[i].write
    <3>1. i \in 1..k - 1 /\ i + 1 \in 1..k /\ i \in 1..n - 1
      BY <1>3, <1>5, <1>7, <1>8
    <3> QED
      BY <1>3, <1>7, <1>8, <3>1
  <2> QED
    BY <2>1, <2>2, <2>3 DEF StreamMatches, kk, mm, nn
<1>11. ChannelInv'
  <2>1. ASSUME NEW i \in 1..kk
        PROVE  IF responses'[i].kind = "applied" THEN responses'[i].write \in applied
               ELSE i = kk /\ responses'[i].write \in refused
    <3> HIDE DEF rest, n, m, k, r, nn, mm, kk
    <3>1. i \in 1..k - 1 /\ i + 1 \in 1..k /\ (i + 1 = k => i = kk)
      BY <1>5, <1>7
    <3> QED
      BY <1>7, <1>9, <3>1
  <2> QED
    BY <1>1, <1>10, <2>1 DEF StreamInv, ChannelInv, Writing
<1>12. idle' = (pipeline' = <<>>)
  BY <1>1, <1>2 DEF StreamInv, IdleOnlyWhenUnneeded
<1>13. IdleOnlyWhenUnneeded'
  BY <1>1, <1>12 DEF IdleOnlyWhenUnneeded, IsStarted, Writing
<1>14. StreamType'
  BY <1>1, <1>6, <1>7, <1>12 DEF StreamInv, StreamType
<1> QED
  BY <1>4, <1>11, <1>13, <1>14 DEF StreamInv

(* The server looks at the next request. *)
LEMMA AnswerStream ==
    ASSUME PipeInv, StreamInv, Apply \/ Refuse
    PROVE  /\ StreamInv'
           /\ requests # <<>> /\ Head(requests) = pipeline[Len(responses) + 1].write
           /\ Len(responses) + 1 \in 1..Len(pipeline)
           /\ \A i \in 1..Len(responses) : pipeline[i].write \in applied
<1> DEFINE n == Len(pipeline)
           m == Len(requests)
           k == Len(responses)
           mm == Len(requests')
           kk == Len(responses')
           kind == IF Apply THEN "applied" ELSE "refused"
           answer == [kind |-> kind, write |-> Head(requests)]
<1>1. /\ requests # <<>> /\ ~Ended(responses) /\ requests' = Tail(requests)
      /\ responses' = Append(responses, answer)
      /\ UNCHANGED <<pipeline, stream, handshake, idle, overtaken>>
  BY DEF Apply, Refuse, Answer
<1>2. /\ applied \subseteq applied' /\ refused \subseteq refused'
      /\ kind = "applied" => Head(requests) \in applied'
      /\ kind # "applied" => Head(requests) \in refused'
  BY DEF Apply, Refuse
<1>3. requests \in Seq(Write) /\ responses \in Seq(Responses) /\ n \in Nat /\ m \in Nat /\ k \in Nat
      /\ m # 0 /\ (responses = <<>> <=> k = 0)
  BY <1>1, StreamLengths DEF StreamInv, StreamType
<1>4. Writing
  BY <1>1 DEF StreamInv, ChannelInv
<1>5. /\ k + m = n
      /\ \A i \in 1..k : responses[i].write = pipeline[i].write
      /\ \A i \in 1..m : requests[i] = pipeline[k + i].write
  BY <1>4 DEF StreamInv, ChannelInv, StreamMatches
<1>6. \A i \in 1..k : IF responses[i].kind = "applied" THEN responses[i].write \in applied
                      ELSE i = k /\ responses[i].write \in refused
  BY DEF StreamInv, ChannelInv
<1>7. /\ requests' \in Seq(Write) /\ mm = m - 1 /\ Head(requests) = requests[1]
      /\ \A i \in 1..m - 1 : requests'[i] = requests[i + 1]
      /\ Head(requests) \in Write
  BY <1>1, <1>3, Popped
<1>8. answer \in Responses /\ answer.kind = kind /\ answer.write = Head(requests)
  BY <1>7 DEF Responses
<1> HIDE DEF answer
<1>9. /\ responses' \in Seq(Responses) /\ kk = k + 1
      /\ \A i \in 1..k : responses'[i] = responses[i]
      /\ responses'[k + 1] = answer
  BY <1>1, <1>3, <1>8, Appended
<1>10. \A i \in 1..k : responses[i].kind = "applied" /\ responses[i].write \in applied
  <2> SUFFICES ASSUME NEW i \in 1..k PROVE responses[i].kind = "applied" /\ responses[i].write \in applied
    OBVIOUS
  <2>1. responses[k].kind # "refused"
    <3>1. k # 0
      BY <1>3
    <3> QED
      BY <1>1, <1>3, <3>1 DEF Ended, Last
  <2>2. responses[i] \in Responses
    BY <1>3, SeqBasics
  <2> QED
    BY <1>6, <2>1, <2>2 DEF Responses
<1> HIDE DEF n, m, k, mm, kk, kind
<1>11. k + 1 \in 1..n /\ Head(requests) = pipeline[k + 1].write
  BY <1>3, <1>5, <1>7
<1>12. StreamMatches'
  <2>1. kk + mm = n
    BY <1>3, <1>5, <1>7, <1>9
  <2>2. ASSUME NEW i \in 1..mm PROVE requests'[i] = pipeline[kk + i].write
    <3>1. i \in 1..m - 1 /\ i + 1 \in 1..m /\ k + (i + 1) = kk + i
      BY <1>3, <1>7, <1>9
    <3> QED
      BY <1>5, <1>7, <3>1
  <2>3. ASSUME NEW i \in 1..kk PROVE responses'[i].write = pipeline[i].write
    <3>1. i \in 1..k \/ i = k + 1
      BY <1>3, <1>9
    <3> QED
      BY <1>5, <1>8, <1>9, <1>11, <3>1
  <2> QED
    BY <1>1, <2>1, <2>2, <2>3 DEF StreamMatches, n, kk, mm
<1>13. ASSUME NEW i \in 1..kk
       PROVE  IF responses'[i].kind = "applied" THEN responses'[i].write \in applied'
              ELSE i = kk /\ responses'[i].write \in refused'
  <2>1. i \in 1..k \/ i = k + 1
    BY <1>3, <1>9
  <2>2. CASE i \in 1..k
    BY <1>2, <1>9, <1>10, <2>2
  <2>3. CASE i = k + 1
    BY <1>2, <1>8, <1>9, <2>3
  <2> QED
    BY <2>1, <2>2, <2>3
<1>14. ChannelInv'
  BY <1>1, <1>4, <1>12, <1>13 DEF StreamInv, ChannelInv, Writing, kk
<1>15. StreamType' /\ IdleOnlyWhenUnneeded'
  BY <1>1, <1>7, <1>9 DEF StreamInv, StreamType, IdleOnlyWhenUnneeded, Writing, IsStarted
<1> QED
  BY <1>1, <1>5, <1>10, <1>11, <1>14, <1>15 DEF StreamInv, k, n

-----------------------------------------------------------------------------
(* The callbacks and the server. *)

RecordType ==
    /\ callbacks \subseteq Callbacks
    /\ applied \subseteq Write /\ refused \subseteq Write
    /\ told \in [Write -> {"nothing", "ok", "failed"}]

RecordInv == RecordType /\ ServerInv /\ CallbackInv

LEMMA RecordKept ==
    ASSUME RecordInv, UNCHANGED <<queue, made, applied, refused, told>>, callbacks' \subseteq callbacks
    PROVE  RecordInv'
BY DEF RecordInv, RecordType, ServerInv, CallbackInv, AppliedInOrder

LEMMA WriteRecord ==
    ASSUME QueueInv, RecordInv, WriteMutations
    PROVE  RecordInv'
<1> DEFINE w == made + 1
           n == Len(queue[user])
           callback == [user |-> user, id |-> nextBatchId, write |-> w]
<1>1. /\ made' = w /\ made < MaxWrites /\ UNCHANGED <<applied, refused, told>>
      /\ callbacks' = IF Called(nextBatchId) = {} THEN callbacks \cup {callback} ELSE callbacks
  BY DEF WriteMutations, server
<1>2. made \in 0..MaxWrites /\ nextBatchId \in Nat /\ user \in User
  BY DEF QueueInv
<1>3. w \in Write /\ w \in Nat /\ made \in Nat /\ MaxWrites \in Nat
  BY <1>1, <1>2, BoundAssumption DEF Write
<1>4. /\ \A u \in User : u # user => queue'[u] = queue[u]
      /\ queue'[user] = Append(queue[user], [id |-> nextBatchId, write |-> w])
      /\ [id |-> nextBatchId, write |-> w] \in Batches
  BY QueueAppended
<1>5. queue[user] \in Seq(Batches)
  BY QueueFacts, <1>2
<1> DEFINE batch == [id |-> nextBatchId, write |-> w]
           qq == queue'[user]
<1>6. batch.write = w
  OBVIOUS
<1>7. /\ n \in Nat /\ DOMAIN queue[user] = 1..n /\ DOMAIN qq = 1..n+1
      /\ \A i \in 1..n : qq[i] = queue[user][i]
      /\ qq[n + 1] = batch
  <2>1. qq = Append(queue[user], batch) /\ batch \in Batches
    BY <1>4
  <2> HIDE DEF batch, qq
  <2>2. /\ qq \in Seq(Batches) /\ n \in Nat /\ Len(qq) = n + 1
        /\ \A i \in 1..n : qq[i] = queue[user][i]
        /\ qq[n + 1] = batch
    BY <1>5, <2>1, Appended
  <2> QED
    BY <1>5, <2>2, SeqBasics
<1>8. \A u \in User : \A i \in DOMAIN queue[u] :
          i \in DOMAIN queue'[u] /\ queue'[u][i] = queue[u][i]
  <2>1. \A i \in 1..n : i \in 1..n+1
    BY <1>7
  <2> QED
    BY <1>4, <1>7, <2>1
<1>9. \A u \in User : \A i \in DOMAIN queue'[u] :
          \/ i \in DOMAIN queue[u] /\ queue'[u][i] = queue[u][i]
          \/ u = user /\ i = n + 1 /\ queue'[u][i] = batch
  <2>1. \A i \in 1..n+1 : i \in 1..n \/ i = n + 1
    BY <1>7
  <2> QED
    BY <1>4, <1>7, <2>1
<1> HIDE DEF batch, w
<1>10. w \notin applied /\ told[w] = "nothing"
  BY <1>3 DEF RecordInv, ServerInv, w
<1>11. AppliedInOrder'
  <2> SUFFICES ASSUME NEW u \in User, NEW i \in DOMAIN queue'[u], NEW j \in DOMAIN queue'[u],
                      i < j, queue'[u][j].write \in applied
               PROVE  queue'[u][i].write \in applied
    BY <1>1 DEF AppliedInOrder
  <2>1. j \in DOMAIN queue[u] /\ queue'[u][j] = queue[u][j]
    BY <1>6, <1>9, <1>10
  <2>2. ~(u = user /\ i = n + 1)
    BY <1>7, <2>1
  <2>3. i \in DOMAIN queue[u] /\ queue'[u][i] = queue[u][i]
    BY <1>9, <2>2
  <2> QED
    BY <2>1, <2>3 DEF RecordInv, ServerInv, AppliedInOrder
<1>12. applied' \subseteq 1..made'
  BY <1>1, <1>2, <1>3 DEF RecordInv, ServerInv, w
<1>13. \A v \in Write : v > made' => told'[v] = "nothing"
  <2>1. \A v \in Write : v > made' => v > made
    BY <1>1, <1>3, BoundAssumption DEF Write, w
  <2> QED
    BY <1>1, <2>1 DEF RecordInv, ServerInv
<1>14. RecordType'
  <2>1. callback \in Callbacks
    BY <1>2, <1>3 DEF Callbacks
  <2> QED
    BY <1>1, <2>1 DEF RecordInv, RecordType
<1>15. CallbackInv'
  <2>1. ASSUME NEW c \in callbacks
        PROVE  /\ told[c.write] = "nothing"
               /\ \E i \in DOMAIN queue'[c.user] :
                      queue'[c.user][i] = [id |-> c.id, write |-> c.write]
    <3>1. c.user \in User /\ told[c.write] = "nothing"
      BY DEF RecordInv, RecordType, CallbackInv, Callbacks
    <3>2. PICK i \in DOMAIN queue[c.user] : queue[c.user][i] = [id |-> c.id, write |-> c.write]
      BY DEF RecordInv, CallbackInv
    <3> QED
      BY <1>8, <3>1, <3>2
  <2>2. /\ callback.user = user /\ callback.write = w /\ told[callback.write] = "nothing"
        /\ \E i \in DOMAIN queue'[callback.user] :
               queue'[callback.user][i] = [id |-> callback.id, write |-> callback.write]
    <3>1. callback.user = user /\ batch = [id |-> callback.id, write |-> callback.write]
          /\ callback.write = w
      BY DEF batch
    <3>2. n + 1 \in DOMAIN qq
      BY <1>7
    <3> QED
      BY <1>7, <1>10, <3>1, <3>2
  <2>3. \A c \in callbacks' : c \in callbacks \/ c = callback
    BY <1>1
  <2> HIDE DEF callback
  <2>4. ASSUME NEW c \in callbacks'
        PROVE  /\ told[c.write] = "nothing"
               /\ \E i \in DOMAIN queue'[c.user] :
                      queue'[c.user][i] = [id |-> c.id, write |-> c.write]
    BY <2>1, <2>2, <2>3
  <2> QED
    BY <1>1, <2>4 DEF CallbackInv
<1> QED
  BY <1>11, <1>12, <1>13, <1>14, <1>15 DEF RecordInv, ServerInv

(* The callbacks that are called are for the write at the head.            *)
LEMMA CalledForHead ==
    ASSUME QueueInv, PipeInv, RecordInv, pipeline # <<>>
    PROVE  /\ Head(pipeline).write \in Write /\ Head(pipeline).write <= made
           /\ \A c \in Called(Head(pipeline).id) :
                  c.write = Head(pipeline).write /\ told[c.write] = "nothing"
           /\ \A c \in callbacks \ Called(Head(pipeline).id) :
                  /\ c.user \in User /\ c.write \in Write /\ c.write # Head(pipeline).write
                  /\ \E i \in DOMAIN queue[c.user] :
                         /\ queue[c.user][i] = [id |-> c.id, write |-> c.write]
                         /\ ~(c.user = user /\ i = 1)
<1> DEFINE batch == Head(pipeline)
<1>1. user \in User /\ 1 \in DOMAIN queue[user] /\ batch = queue[user][1]
  BY HeadOfQueue DEF QueueInv
<1>2. batch.write \in Write /\ batch.write <= made
  BY <1>1, QueueFacts DEF QueueInv, QueuesInOrder
<1> HIDE DEF batch
<1>3. ASSUME NEW c \in callbacks
      PROVE  /\ c.user \in User /\ c.write \in Write /\ told[c.write] = "nothing"
             /\ \E i \in DOMAIN queue[c.user] :
                    /\ queue[c.user][i] = [id |-> c.id, write |-> c.write]
                    /\ queue[c.user][i].id = c.id /\ queue[c.user][i].write = c.write
                    /\ (c.id = batch.id \/ c.write = batch.write => c.user = user /\ i = 1)
                    /\ (c.user = user /\ i = 1 => c.id = batch.id /\ c.write = batch.write)
  <2>1. c.user \in User /\ c.write \in Write /\ told[c.write] = "nothing"
    BY DEF RecordInv, RecordType, CallbackInv, Callbacks
  <2>2. PICK i \in DOMAIN queue[c.user] : queue[c.user][i] = [id |-> c.id, write |-> c.write]
    BY DEF RecordInv, CallbackInv
  <2>3. queue[c.user][i].id = c.id /\ queue[c.user][i].write = c.write
    BY <2>2
  <2>4. (c.id = batch.id \/ c.write = batch.write) => (c.user = user /\ i = 1)
    BY <1>1, <2>1, <2>3 DEF QueueInv, QueuesInOrder
  <2> QED
    BY <1>1, <2>1, <2>2, <2>3, <2>4
<1>4. ASSUME NEW c \in Called(batch.id) PROVE c.write = batch.write /\ told[c.write] = "nothing"
  <2>1. c \in callbacks /\ c.user = user /\ c.id = batch.id
    BY DEF Called
  <2> QED
    BY <1>3, <2>1
<1>5. ASSUME NEW c \in callbacks \ Called(batch.id)
      PROVE  /\ c.user \in User /\ c.write \in Write /\ c.write # batch.write
             /\ \E i \in DOMAIN queue[c.user] :
                    /\ queue[c.user][i] = [id |-> c.id, write |-> c.write]
                    /\ ~(c.user = user /\ i = 1)
  <2>1. ~(c.user = user /\ c.id = batch.id)
    BY DEF Called
  <2> QED
    BY <1>3, <2>1
<1> QED
  BY <1>2, <1>4, <1>5 DEF batch

(* NotifyUser for the head of the pipeline. *)
LEMMA Notified ==
    ASSUME QueueInv, PipeInv, RecordInv, pipeline # <<>>, NEW result \in {"ok", "failed"},
           told' = [w \in Write |-> IF \E c \in Called(Head(pipeline).id) : c.write = w
                                    THEN result ELSE told[w]]
    PROVE  /\ told' \in [Write -> {"nothing", "ok", "failed"}]
           /\ \A w \in Write : w # Head(pipeline).write => told'[w] = told[w]
           /\ \/ told' = told
              \/ /\ told[Head(pipeline).write] = "nothing"
                 /\ told' = [told EXCEPT ![Head(pipeline).write] = result]
<1> DEFINE h == Head(pipeline).write
           called == Called(Head(pipeline).id)
<1>1. h \in Write /\ \A c \in called : c.write = h /\ told[c.write] = "nothing"
  BY CalledForHead
<1>2. told \in [Write -> {"nothing", "ok", "failed"}]
  BY DEF RecordInv, RecordType
<1>3. told' = [w \in Write |-> IF \E c \in called : c.write = w THEN result ELSE told[w]]
  OBVIOUS
<1> HIDE DEF h, called
<1>4. told' \in [Write -> {"nothing", "ok", "failed"}] /\ \A w \in Write : w # h => told'[w] = told[w]
  BY <1>1, <1>2, <1>3
<1>5. CASE called = {}
  <2>1. told' = told
    BY <1>2, <1>3, <1>5
  <2> QED
    BY <1>4, <2>1 DEF h
<1>6. CASE called # {}
  <2>1. told[h] = "nothing" /\ told'[h] = result
    BY <1>1, <1>3, <1>6
  <2>2. told' = [told EXCEPT ![h] = result]
    BY <1>1, <1>2, <1>4, <2>1
  <2> QED
    BY <1>4, <2>1, <2>2 DEF h
<1> QED
  BY <1>5, <1>6

LEMMA PoppedRecord ==
    ASSUME QueueInv, PipeInv, RecordInv, pipeline # <<>>, UNCHANGED <<made, applied, refused>>,
           user' \in User, queue' = [queue EXCEPT ![user] = Tail(@)],
           nextBatchId' = nextBatchId \/ nextBatchId' = LoadNextBatchId(queue'),
           told' \in [Write -> {"nothing", "ok", "failed"}],
           \A w \in Write : w # Head(pipeline).write => told'[w] = told[w],
           callbacks' \subseteq callbacks \ Called(Head(pipeline).id)
    PROVE  RecordInv'
<1>1. /\ \A u \in User : \A i \in DOMAIN queue'[u] :
             Before(u, i) \in DOMAIN queue[u] /\ queue'[u][i] = queue[u][Before(u, i)]
      /\ \A u \in User : \A k \in DOMAIN queue[u] :
             \/ u = user /\ k = 1
             \/ \E i \in DOMAIN queue'[u] : Before(u, i) = k
      /\ QueueInv'
  BY HeadOfQueue, QueuePopped
<1>2. RecordType'
  BY DEF RecordInv, RecordType
<1>3. AppliedInOrder'
  <2> SUFFICES ASSUME NEW u \in User, NEW i \in DOMAIN queue'[u], NEW j \in DOMAIN queue'[u],
                      i < j, queue'[u][j].write \in applied
               PROVE  queue'[u][i].write \in applied
    BY DEF AppliedInOrder
  <2> DEFINE k == Before(u, i)
             m == Before(u, j)
  <2>1. queue'[u] \in Seq(Batches)
    BY <1>1 DEF QueueInv
  <2>2. i \in Nat /\ j \in Nat
    BY <2>1, SeqBasics
  <2>3. k < m
    BY <2>2 DEF Before
  <2>4. k \in DOMAIN queue[u] /\ m \in DOMAIN queue[u]
        /\ queue'[u][i] = queue[u][k] /\ queue'[u][j] = queue[u][m]
    BY <1>1
  <2> HIDE DEF k, m
  <2> QED
    BY <2>3, <2>4 DEF RecordInv, ServerInv, AppliedInOrder
<1>4. \A w \in Write : w > made => told'[w] = "nothing"
  <2>1. \A w \in Write : w > made => w # Head(pipeline).write
    BY CalledForHead, BoundAssumption DEF Write, QueueInv
  <2> QED
    BY <2>1 DEF RecordInv, ServerInv
<1>5. CallbackInv'
  <2> SUFFICES ASSUME NEW c \in callbacks'
               PROVE  /\ told'[c.write] = "nothing"
                      /\ \E i \in DOMAIN queue'[c.user] :
                             queue'[c.user][i] = [id |-> c.id, write |-> c.write]
    BY DEF CallbackInv
  <2>1. c \in callbacks \ Called(Head(pipeline).id)
    OBVIOUS
  <2>2. c.user \in User /\ c.write \in Write /\ c.write # Head(pipeline).write
    BY <2>1, CalledForHead
  <2>3. PICK k \in DOMAIN queue[c.user] :
            queue[c.user][k] = [id |-> c.id, write |-> c.write] /\ ~(c.user = user /\ k = 1)
    BY <2>1, CalledForHead
  <2>4. \E i \in DOMAIN queue'[c.user] : Before(c.user, i) = k
    BY <1>1, <2>2, <2>3
  <2>5. \E i \in DOMAIN queue'[c.user] : queue'[c.user][i] = [id |-> c.id, write |-> c.write]
    BY <1>1, <2>2, <2>3, <2>4
  <2>6. told[c.write] = "nothing"
    BY <2>1 DEF RecordInv, CallbackInv
  <2> QED
    BY <2>2, <2>5, <2>6
<1> QED
  BY <1>2, <1>3, <1>4, <1>5 DEF RecordInv, ServerInv

(* The server decides the write after those it has answered. *)
LEMMA AnswerRecord ==
    ASSUME QueueInv, PipeInv, StreamInv, RecordInv, Apply \/ Refuse
    PROVE  RecordInv'
<1> DEFINE w == Head(requests)
           k == Len(responses)
           n == Len(pipeline)
           q == queue[user]
<1>1. /\ requests # <<>> /\ w = pipeline[k + 1].write /\ k + 1 \in 1..n
      /\ \A i \in 1..k : pipeline[i].write \in applied
  BY AnswerStream
<1>2. /\ n \in Nat /\ k \in Nat
      /\ \A i \in 1..n : i \in DOMAIN q /\ pipeline[i] = q[i]
  <2>1. n \in Nat /\ k \in Nat
    BY StreamLengths
  <2>2. n <= Len(q) /\ \A i \in 1..n : pipeline[i] = q[i]
    BY DEF PipeInv, FullPrefixOf, PrefixOf
  <2>3. Len(q) \in Nat /\ DOMAIN q = 1..Len(q)
    BY QueueFacts DEF QueueInv
  <2> QED
    BY <2>1, <2>2, <2>3
<1>3. /\ UNCHANGED <<queue, made, callbacks, told>>
      /\ applied' = applied \cup {w} \/ applied' = applied
      /\ refused' \subseteq refused \cup {w}
  BY DEF Apply, Refuse, Answer, local
<1>4. user \in User /\ made \in Nat
  BY BoundAssumption DEF QueueInv
<1> HIDE DEF w, k, n
<1>5. k + 1 \in DOMAIN q /\ q[k + 1].write = w
  BY <1>1, <1>2
<1>6. w \in Write /\ w <= made /\ w \in 1..made
  BY <1>4, <1>5, QueueFacts, BoundAssumption DEF QueueInv, QueuesInOrder, Write
<1>7. RecordType'
  BY <1>3, <1>6 DEF RecordInv, RecordType
<1>8. CallbackInv'
  BY <1>3 DEF RecordInv, CallbackInv
<1>9. applied' \subseteq 1..made' /\ \A v \in Write : v > made' => told'[v] = "nothing"
  BY <1>3, <1>6 DEF RecordInv, ServerInv
<1>10. AppliedInOrder'
  <2> SUFFICES ASSUME NEW u \in User, NEW i \in DOMAIN queue[u], NEW j \in DOMAIN queue[u],
                      i < j, queue[u][j].write \in applied'
               PROVE  queue[u][i].write \in applied'
    BY <1>3 DEF AppliedInOrder
  <2>1. CASE queue[u][j].write \in applied
    BY <1>3, <2>1 DEF RecordInv, ServerInv, AppliedInOrder
  <2>2. CASE queue[u][j].write = w
    <3>1. u = user /\ j = k + 1
      BY <1>4, <1>5, <2>2 DEF QueueInv, QueuesInOrder
    <3>2. i \in Nat /\ i > 0
      BY QueueFacts
    <3>3. i \in 1..k /\ i \in 1..n
      BY <1>1, <1>2, <3>1, <3>2
    <3> QED
      BY <1>1, <1>2, <1>3, <3>1, <3>3
  <2> QED
    BY <1>3, <2>1, <2>2
<1> QED
  BY <1>7, <1>8, <1>9, <1>10 DEF RecordInv, ServerInv

-----------------------------------------------------------------------------
(* The steps. *)

PipelineInv == QueueInv /\ PipeInv /\ StreamInv /\ RecordInv

LEMMA InitInv == Init => PipelineInv
<1> SUFFICES ASSUME Init PROVE PipelineInv
  OBVIOUS
<1>1. /\ <<>> \in Seq(Batches) /\ <<>> \in Seq(Write) /\ <<>> \in Seq(Responses) /\ Len(<<>>) = 0
  BY EmptySeq
<1>2. \A u \in User : queue[u] = <<>> /\ DOMAIN queue[u] = {}
  BY DEF Init
<1>3. QueueInv
  BY <1>1, <1>2, UserAssumption, BoundAssumption DEF Init, QueueInv, QueuesInOrder
<1>4. PipeInv
  BY <1>1, <1>2, UserAssumption, PipelineAssumption DEF Init, PipeInv, FullPrefixOf, PrefixOf
<1>5. StreamInv
  <2>1. StreamType
    BY <1>1 DEF Init, StreamType
  <2>2. ChannelInv
    BY <1>1 DEF Init, ChannelInv, Writing
  <2>3. IdleOnlyWhenUnneeded
    BY DEF Init, IdleOnlyWhenUnneeded
  <2> QED
    BY <2>1, <2>2, <2>3 DEF StreamInv
<1>6. RecordInv
  BY <1>2 DEF Init, RecordInv, RecordType, ServerInv, CallbackInv, AppliedInOrder
<1> QED
  BY <1>3, <1>4, <1>5, <1>6 DEF PipelineInv

LEMMA WriteStep ==
    ASSUME PipelineInv, WriteMutations
    PROVE  PipelineInv'
BY QueueAppended, PipeAppended, WriteStream, WriteRecord DEF PipelineInv

(* Steps of the stream alone. *)
LEMMA StreamStep ==
    ASSUME PipelineInv, UNCHANGED <<local, pipeline, server, told>>, StreamInv'
    PROVE  PipelineInv'
<1>1. UNCHANGED <<queue, nextBatchId, user, callbacks, made, pipeline, applied, refused, told>>
  BY DEF local, server
<1>2. QueueInv'
  BY <1>1 DEF PipelineInv, QueueInv, QueuesInOrder
<1>3. PipeInv'
  BY <1>1 DEF PipelineInv, PipeInv, FullPrefixOf, PrefixOf
<1>4. RecordInv'
  BY <1>1, RecordKept DEF PipelineInv
<1> QED
  BY <1>2, <1>3, <1>4 DEF PipelineInv

LEMMA OpeningStep ==
    ASSUME PipelineInv, Open \/ ServerHandshake \/ BackoffElapsed \/ HandshakeComplete
    PROVE  PipelineInv'
<1>1. CASE HandshakeComplete
  BY <1>1, HandshakeStream, StreamStep DEF PipelineInv, HandshakeComplete
<1>2. CASE Open \/ ServerHandshake \/ BackoffElapsed
  <2>1. UNCHANGED <<local, pipeline, idle, requests, responses, overtaken, server, told>>
    BY <1>2 DEF Open, ServerHandshake, BackoffElapsed
  <2>2. ~Writing /\ ~Writing'
    <3>1. StreamType /\ ChannelInv
      BY DEF PipelineInv, StreamInv
    <3> QED
      BY <1>2, <3>1 DEF Open, ServerHandshake, BackoffElapsed, Writing, ChannelInv, StreamType
  <2>3. StreamType'
    BY <1>2, <2>1 DEF PipelineInv, StreamInv, StreamType, Open, ServerHandshake, BackoffElapsed
  <2>4. requests = <<>> /\ responses = <<>> /\ ~idle /\ (handshake # "none" => stream = "Open")
    BY <2>2 DEF PipelineInv, StreamInv, ChannelInv, IdleOnlyWhenUnneeded
  <2>5. ChannelInv'
    <3>1. Len(<<>>) = 0
      OBVIOUS
    <3>2. handshake' # "none" => stream' = "Open"
      BY <1>2, <2>4 DEF Open, ServerHandshake, BackoffElapsed
    <3> QED
      BY <2>1, <2>2, <2>4, <3>1, <3>2 DEF ChannelInv
  <2>6. IdleOnlyWhenUnneeded'
    <3>1. pipeline # <<>> => stream' \in {"Starting", "Backoff", "Open"}
      BY <1>2 DEF Open, ServerHandshake, BackoffElapsed, PipelineInv, StreamInv,
         IdleOnlyWhenUnneeded, IsStarted
    <3> QED
      BY <2>1, <2>4, <3>1 DEF IdleOnlyWhenUnneeded, IsStarted
  <2>7. StreamInv'
    BY <2>3, <2>5, <2>6 DEF StreamInv
  <2> QED
    BY <2>1, <2>7, StreamStep
<1> QED
  BY <1>1, <1>2

LEMMA ResultStep ==
    ASSUME PipelineInv, MutationResult
    PROVE  PipelineInv'
<1> USE DEF PipelineInv
<1>1. /\ pipeline # <<>> /\ queue[user] # <<>> /\ queue' = [queue EXCEPT ![user] = Tail(@)]
      /\ UNCHANGED <<nextBatchId, user, made>> /\ user \in User
  BY ResultQueue DEF QueueInv
<1>2. QueueInv'
  BY <1>1, QueuePopped
<1>3. StreamInv' /\ PipeInv'
  BY ResultStream
<1>4. /\ told' = [w \in Write |-> IF \E c \in Called(Head(pipeline).id) : c.write = w
                                  THEN "ok" ELSE told[w]]
      /\ callbacks' = callbacks \ Called(Head(pipeline).id)
      /\ UNCHANGED <<applied, refused>>
  BY DEF MutationResult, NotifyUser, server
<1>5. /\ told' \in [Write -> {"nothing", "ok", "failed"}]
      /\ \A w \in Write : w # Head(pipeline).write => told'[w] = told[w]
  BY <1>1, <1>4, Notified
<1>6. RecordInv'
  BY <1>1, <1>4, <1>5, PoppedRecord
<1> QED
  BY <1>2, <1>3, <1>6

(* What ends the stream is an answer for the head of the pipeline.         *)
LEMMA EndedQueue ==
    ASSUME PipelineInv, EndedByWrite
    PROVE  /\ Writing /\ responses # <<>> /\ pipeline # <<>> /\ queue[user] # <<>> /\ user \in User
           /\ [queue EXCEPT ![user] = RemoveMutationBatch(@, Head(pipeline).id)]
                = [queue EXCEPT ![user] = Tail(@)]
<1>1. Writing /\ responses # <<>>
  BY DEF EndedByWrite, Ended
<1>2. pipeline # <<>>
  BY <1>1, AnswerForHead DEF PipelineInv
<1> QED
  BY <1>1, <1>2, HeadOfQueue DEF PipelineInv, QueueInv

LEMMA ErrorStep ==
    ASSUME PipelineInv, WriteError
    PROVE  PipelineInv'
<1> USE DEF PipelineInv
<1>1. /\ EndedByWrite /\ Close
      /\ queue' = [queue EXCEPT ![user] = RemoveMutationBatch(@, Head(pipeline).id)]
      /\ pipeline' = FillWritePipeline(Tail(pipeline), queue'[user])
      /\ stream' = StartIfNeeded("Initial", pipeline')
      /\ UNCHANGED <<nextBatchId, user, made, applied, refused>>
      /\ told' = [w \in Write |-> IF \E c \in Called(Head(pipeline).id) : c.write = w
                                  THEN "failed" ELSE told[w]]
      /\ callbacks' = callbacks \ Called(Head(pipeline).id)
  BY DEF WriteError, NotifyUser, server
<1>2. /\ pipeline # <<>> /\ queue[user] # <<>> /\ queue' = [queue EXCEPT ![user] = Tail(@)]
      /\ user \in User /\ user' \in User
  BY <1>1, EndedQueue
<1>3. QueueInv' /\ queue'[user] = Tail(queue[user])
  BY <1>1, <1>2, QueuePopped
<1>4. PipeInv'
  <2>1. pipeline' \in Seq(Batches) /\ FullPrefixOf(pipeline', Tail(queue[user]))
    BY <1>1, <1>2, <1>3, PipePopped
  <2> QED
    BY <1>1, <1>3, <2>1 DEF PipeInv, FullPrefixOf, PrefixOf
<1>5. StreamInv'
  BY <1>1, StreamClosed
<1>6. /\ told' \in [Write -> {"nothing", "ok", "failed"}]
      /\ \A w \in Write : w # Head(pipeline).write => told'[w] = told[w]
  BY <1>1, <1>2, Notified
<1>7. RecordInv'
  BY <1>1, <1>2, <1>6, PoppedRecord
<1> QED
  BY <1>3, <1>4, <1>5, <1>7

LEMMA ClosingStep ==
    ASSUME PipelineInv, StreamError \/ IdleStop
    PROVE  PipelineInv'
<1>1. Close /\ UNCHANGED <<local, pipeline, server, told>>
  BY DEF StreamError, IdleStop
<1>2. PICK state \in {"Initial", "Error"} : stream' = StartIfNeeded(state, pipeline')
  <2>1. CASE StreamError
    BY <1>1, <2>1 DEF StreamError
  <2>2. CASE IdleStop
    <3>1. pipeline' = <<>> /\ stream' = "Initial"
      BY <1>1, <2>2 DEF IdleStop, PipelineInv, StreamInv, IdleOnlyWhenUnneeded
    <3> QED
      BY <3>1 DEF StartIfNeeded
  <2> QED
    BY <2>1, <2>2
<1>3. StreamInv'
  BY <1>1, <1>2, StreamClosed
<1> QED
  BY <1>1, <1>3, StreamStep

LEMMA CredentialStep ==
    ASSUME PipelineInv, NEW u \in User, CredentialChange(u)
    PROVE  PipelineInv'
<1>1. /\ user' = u /\ Close
      /\ nextBatchId' = nextBatchId \/ nextBatchId' = LoadNextBatchId(queue)
      /\ pipeline' = FillWritePipeline(<<>>, queue[u])
      /\ UNCHANGED <<queue, callbacks, made, applied, refused, told>>
  BY DEF CredentialChange, server
<1>2. PICK state \in {"Initial", "Error"} : stream' = StartIfNeeded(state, pipeline')
  BY DEF CredentialChange, IsStarted, PipelineInv, StreamInv, StreamType
<1>3. QueueInv'
  BY <1>1, QueueKept DEF PipelineInv
<1>4. PipeInv'
  BY <1>1, <1>3, PipeAnew
<1>5. StreamInv'
  BY <1>1, <1>2, StreamClosed
<1>6. RecordInv'
  BY <1>1, RecordKept DEF PipelineInv
<1> QED
  BY <1>3, <1>4, <1>5, <1>6 DEF PipelineInv

(* Any of the restarts, once the queue and the records are accounted for.  *)
LEMMA InitializeStep ==
    ASSUME PipelineInv, NEW u \in User, Initialize(u), QueueInv', RecordInv'
    PROVE  PipelineInv'
<1>1. /\ user' = u /\ Close /\ pipeline' = FillWritePipeline(<<>>, queue'[u])
      /\ stream' = StartIfNeeded("Initial", pipeline')
  BY DEF Initialize
<1>2. PipeInv'
  BY <1>1, PipeAnew
<1>3. StreamInv'
  BY <1>1, StreamClosed
<1> QED
  BY <1>2, <1>3 DEF PipelineInv

LEMMA RestartStep ==
    ASSUME PipelineInv, NEW u \in User,
           Restart(u) \/ RestartAfterCallback(u) \/ RestartBeforeCallback(u)
    PROVE  PipelineInv'
<1>1. /\ Initialize(u) /\ user' = u /\ callbacks' = {} /\ UNCHANGED <<made, applied, refused>>
      /\ nextBatchId' = LoadNextBatchId(queue')
  BY DEF Restart, RestartAfterCallback, RestartBeforeCallback, Initialize, server
<1>2. CASE Restart(u)
  <2>1. UNCHANGED <<queue, told>>
    BY <1>2 DEF Restart
  <2>2. QueueInv'
    BY <1>1, <2>1, QueueKept DEF PipelineInv
  <2>3. RecordInv'
    BY <1>1, <2>1, RecordKept DEF PipelineInv
  <2> QED
    BY <1>1, <2>2, <2>3, InitializeStep
<1>3. CASE RestartAfterCallback(u)
  <2>1. /\ UNCHANGED queue /\ Writing /\ responses # <<>>
        /\ told' = [w \in Write |-> IF \E c \in Called(Head(pipeline).id) : c.write = w
                                    THEN "ok" ELSE told[w]]
    BY <1>3 DEF RestartAfterCallback
  <2>2. QueueInv'
    BY <1>1, <2>1, QueueKept DEF PipelineInv
  <2>3. pipeline # <<>>
    BY <2>1, AnswerForHead DEF PipelineInv
  <2>4. /\ told' \in [Write -> {"nothing", "ok", "failed"}]
        /\ \A w \in Write : w # Head(pipeline).write => told'[w] = told[w]
    BY <2>1, <2>3, Notified DEF PipelineInv
  <2>5. \A w \in Write : w > made => w # Head(pipeline).write
    BY <2>3, CalledForHead, BoundAssumption DEF PipelineInv, Write, QueueInv
  <2>6. RecordInv'
    BY <1>1, <2>1, <2>4, <2>5
    DEF PipelineInv, RecordInv, RecordType, ServerInv, CallbackInv, AppliedInOrder
  <2> QED
    BY <1>1, <2>2, <2>6, InitializeStep
<1>4. CASE RestartBeforeCallback(u)
  <2>1. /\ EndedByWrite /\ UNCHANGED told
        /\ queue' = [queue EXCEPT ![user] = RemoveMutationBatch(@, Head(pipeline).id)]
    BY <1>4 DEF RestartBeforeCallback
  <2>2. pipeline # <<>> /\ queue[user] # <<>> /\ queue' = [queue EXCEPT ![user] = Tail(@)]
    BY <2>1, EndedQueue
  <2>3. QueueInv'
    BY <1>1, <2>2, QueuePopped DEF PipelineInv
  <2>4. told' \in [Write -> {"nothing", "ok", "failed"}]
    BY <2>1 DEF PipelineInv, RecordInv, RecordType
  <2>5. RecordInv'
    BY <1>1, <2>1, <2>2, <2>4, PoppedRecord DEF PipelineInv
  <2> QED
    BY <1>1, <2>3, <2>5, InitializeStep
<1> QED
  BY <1>2, <1>3, <1>4

LEMMA AnswerStep ==
    ASSUME PipelineInv, Apply \/ Refuse
    PROVE  PipelineInv'
<1> USE DEF PipelineInv
<1>1. UNCHANGED <<queue, nextBatchId, user, made, pipeline>>
  BY DEF Apply, Refuse, Answer, local
<1>2. QueueInv'
  BY <1>1 DEF QueueInv, QueuesInOrder
<1>3. PipeInv'
  BY <1>1 DEF PipeInv, FullPrefixOf, PrefixOf
<1> QED
  BY <1>2, <1>3, AnswerStream, AnswerRecord

LEMMA StepInv == PipelineInv /\ [Next]_vars => PipelineInv'
<1> SUFFICES ASSUME PipelineInv, [Next]_vars PROVE PipelineInv'
  OBVIOUS
<1>1. CASE UNCHANGED vars
  <2>1. UNCHANGED <<local, pipeline, channel, server, told>>
    BY <1>1 DEF vars
  <2>2. StreamInv'
    BY <2>1 DEF PipelineInv, StreamInv, StreamType, ChannelInv, StreamMatches, IdleOnlyWhenUnneeded,
       Writing, IsStarted, channel, server
  <2> QED
    BY <2>1, <2>2, StreamStep
<1>2. CASE Progress
  BY <1>2, OpeningStep, ResultStep, ErrorStep, AnswerStep DEF Progress
<1>3. CASE Restarts
  BY <1>3, RestartStep DEF Restarts
<1> QED
  BY <1>1, <1>2, <1>3, WriteStep, ClosingStep, CredentialStep DEF Next

-----------------------------------------------------------------------------
(* What DurableWrites sees. *)

LEMMA QueuedMade ==
    ASSUME QueueInv
    PROVE  /\ Queued \subseteq 1..made /\ Queued \subseteq Write
           /\ \A u \in User : \A i \in DOMAIN queue[u] : queue[u][i].write \in Queued
<1>1. \A u \in User : \A i \in DOMAIN queue[u] :
          queue[u][i].write \in Write /\ queue[u][i].write <= made
  BY QueueFacts DEF QueueInv, QueuesInOrder
<1>2. made \in Nat
  BY BoundAssumption DEF QueueInv
<1> QED
  BY <1>1, <1>2, BoundAssumption DEF Queued, Write

LEMMA QueuedAppended ==
    ASSUME QueueInv, WriteMutations
    PROVE  /\ made + 1 \in Write /\ made + 1 \notin 1..made
           /\ Queued' = Queued \cup {made + 1}
<1> DEFINE w == made + 1
           batch == [id |-> nextBatchId, write |-> w]
           q == queue[user]
           qq == queue'[user]
<1>1. /\ \A u \in User : u # user => queue'[u] = queue[u]
      /\ qq = Append(q, batch) /\ batch \in Batches
  BY QueueAppended
<1>2. user \in User /\ q \in Seq(Batches) /\ made \in Nat
  BY BoundAssumption DEF QueueInv
<1>3. batch.write = w
  OBVIOUS
<1>4. w \in Write /\ w \notin 1..made
  BY <1>1, <1>2, <1>3, BatchFields
<1> HIDE DEF batch, w, q, qq
<1>5. /\ qq \in Seq(Batches) /\ Len(q) \in Nat /\ Len(qq) = Len(q) + 1
      /\ \A i \in 1..Len(q) : qq[i] = q[i]
      /\ qq[Len(q) + 1] = batch
  BY <1>1, <1>2, Appended
<1>6. DOMAIN q = 1..Len(q) /\ DOMAIN qq = 1..Len(q) + 1
  BY <1>2, <1>5, SeqBasics
<1>7. \A v \in Write : (\E i \in DOMAIN qq : qq[i].write = v)
                           <=> ((\E i \in DOMAIN q : q[i].write = v) \/ v = w)
  <2>1. \A i \in 1..Len(q) + 1 : i \in 1..Len(q) \/ i = Len(q) + 1
    BY <1>5
  <2>2. Len(q) + 1 \in 1..Len(q) + 1 /\ \A i \in 1..Len(q) : i \in 1..Len(q) + 1
    BY <1>5
  <2> QED
    BY <1>3, <1>5, <1>6, <2>1, <2>2
<1>8. \A v \in Write : v \in Queued' <=> (v \in Queued \/ v = w)
  <2> SUFFICES ASSUME NEW v \in Write PROVE v \in Queued' <=> (v \in Queued \/ v = w)
    OBVIOUS
  <2>1. v \in Queued' <=> \E u \in User : \E i \in DOMAIN queue'[u] : queue'[u][i].write = v
    BY DEF Queued
  <2>2. v \in Queued <=> \E u \in User : \E i \in DOMAIN queue[u] : queue[u][i].write = v
    BY DEF Queued
  <2>3. \A u \in User : u # user => queue'[u] = queue[u]
    BY <1>1
  <2>4. (\E i \in DOMAIN queue'[user] : queue'[user][i].write = v)
            <=> ((\E i \in DOMAIN queue[user] : queue[user][i].write = v) \/ v = w)
    BY <1>7 DEF q, qq
  <2> QED
    BY <1>2, <2>1, <2>2, <2>3, <2>4
<1>9. Queued \subseteq Write /\ Queued' \subseteq Write
  BY DEF Queued
<1> QED
  BY <1>4, <1>8, <1>9 DEF w

LEMMA QueuedPopped ==
    ASSUME QueueInv, queue[user] # <<>>, UNCHANGED made, user' \in User,
           queue' = [queue EXCEPT ![user] = Tail(@)],
           nextBatchId' = nextBatchId \/ nextBatchId' = LoadNextBatchId(queue'),
           NEW w, 1 \in DOMAIN queue[user], w = queue[user][1].write
    PROVE  w \in Queued /\ Queued' = Queued \ {w}
<1>1. /\ \A u \in User : \A i \in DOMAIN queue'[u] :
             Before(u, i) \in DOMAIN queue[u] /\ queue'[u][i] = queue[u][Before(u, i)]
      /\ \A u \in User : \A k \in DOMAIN queue[u] :
             \/ u = user /\ k = 1
             \/ \E i \in DOMAIN queue'[u] : Before(u, i) = k
      /\ \A u \in User : \A i \in DOMAIN queue'[u] : ~(u = user /\ Before(u, i) = 1)
  BY QueuePopped
<1>2. user \in User
  BY DEF QueueInv
<1>3. w \in Queued
  BY <1>2, QueuedMade
<1>4. ASSUME NEW u \in User, NEW i \in DOMAIN queue'[u]
      PROVE  queue'[u][i].write \in Queued /\ queue'[u][i].write # w
  <2> DEFINE k == Before(u, i)
  <2>1. k \in DOMAIN queue[u] /\ queue'[u][i] = queue[u][k] /\ ~(u = user /\ k = 1)
    BY <1>1
  <2> HIDE DEF k
  <2> QED
    BY <1>2, <2>1, QueuedMade DEF QueueInv, QueuesInOrder
<1>5. ASSUME NEW v \in Queued, v # w PROVE v \in Queued'
  <2>1. v \in Write /\ \E u \in User : \E k \in DOMAIN queue[u] : queue[u][k].write = v
    BY DEF Queued
  <2>2. PICK u \in User : \E k \in DOMAIN queue[u] : queue[u][k].write = v
    BY <2>1
  <2>3. PICK k \in DOMAIN queue[u] : queue[u][k].write = v /\ ~(u = user /\ k = 1)
    BY <1>5, <2>2
  <2>4. \E i \in DOMAIN queue'[u] : queue'[u][i].write = v
    BY <1>1, <2>3
  <2> QED
    BY <2>1, <2>4 DEF Queued
<1>6. \A v \in Queued' : \E u \in User : \E i \in DOMAIN queue'[u] : queue'[u][i].write = v
  BY DEF Queued
<1> QED
  BY <1>3, <1>4, <1>5, <1>6

LEMMA InitDurable == Init => Durable!Init
<1> SUFFICES ASSUME Init PROVE Durable!Init
  OBVIOUS
<1>1. \A u \in User : DOMAIN queue[u] = {}
  BY DEF Init
<1>2. Queued = {}
  BY <1>1 DEF Queued
<1>3. (1..made) \ Queued = {}
  BY DEF Init
<1> QED
  BY <1>2, <1>3 DEF Init, Durable!Init

LEMMA SameDurable ==
    ASSUME UNCHANGED <<queue, made, applied, refused, told>>
    PROVE  UNCHANGED Durable!abstract
BY DEF Durable!abstract, Queued

(* A callback runs, a batch leaves, or both. *)
LEMMA SettleHead ==
    ASSUME PipelineInv, NEW w \in Queued, w \in applied \cup refused,
           UNCHANGED <<made, applied, refused>>,
           \/ told' = told
           \/ /\ told[w] = "nothing"
              /\ \/ w \in applied /\ told' = [told EXCEPT ![w] = "ok"]
                 \/ told' = [told EXCEPT ![w] = "failed"],
           Queued' = Queued \/ Queued' = Queued \ {w}
    PROVE  Durable!Settle(w)
<1>1. Queued \subseteq 1..made
  BY QueuedMade DEF PipelineInv
<1>2. Queued' = Queued \ {w} => (1..made') \ Queued' = ((1..made) \ Queued) \cup {w}
  BY <1>1
<1>3. Queued' = Queued => (1..made') \ Queued' = (1..made) \ Queued
  OBVIOUS
<1> QED
  BY <1>2, <1>3 DEF Durable!Settle

LEMMA StepDurable == PipelineInv /\ [Next]_vars => [Durable!Next]_(Durable!abstract)
<1> SUFFICES ASSUME PipelineInv, [Next]_vars PROVE [Durable!Next]_(Durable!abstract)
  OBVIOUS
<1> DEFINE h == Head(pipeline).write
<1>1. CASE WriteMutations
  <2> DEFINE w == made + 1
  <2>1. w \in Write /\ w \notin 1..made /\ Queued' = Queued \cup {w} /\ Queued \subseteq 1..made
    BY <1>1, QueuedAppended, QueuedMade DEF PipelineInv
  <2>2. made' = w /\ UNCHANGED <<applied, refused, told>> /\ made \in Nat
    BY <1>1, BoundAssumption DEF WriteMutations, server, PipelineInv, QueueInv
  <2>3. 1..made' = (1..made) \cup {w}
    BY <2>2
  <2> HIDE DEF w
  <2>4. (1..made') \ Queued' = (1..made) \ Queued
    BY <2>1, <2>3
  <2>5. Durable!Make(w)
    BY <2>1, <2>2, <2>4 DEF Durable!Make
  <2> QED
    BY <2>1, <2>5 DEF Durable!Next
<1>2. ASSUME pipeline # <<>>
      PROVE  /\ h \in Write /\ h \in Queued /\ 1 \in DOMAIN queue[user] /\ h = queue[user][1].write
             /\ queue[user] # <<>>
  <2>1. 1 \in DOMAIN queue[user] /\ h = queue[user][1].write /\ user \in User /\ queue[user] # <<>>
    BY <1>2, HeadOfQueue DEF PipelineInv, QueueInv
  <2> QED
    BY <2>1, QueuedMade DEF PipelineInv
<1>3. CASE MutationResult
  <2>1. /\ pipeline # <<>> /\ queue' = [queue EXCEPT ![user] = Tail(@)]
        /\ UNCHANGED <<nextBatchId, user, made>> /\ user \in User
    BY <1>3, ResultQueue DEF PipelineInv, QueueInv
  <2>2. h \in applied
    BY <1>3, AnswerForHead DEF MutationResult, PipelineInv
  <2>3. told' = told \/ (told[h] = "nothing" /\ told' = [told EXCEPT ![h] = "ok"])
    BY <1>3, <2>1, Notified DEF MutationResult, NotifyUser, PipelineInv
  <2>4. Queued' = Queued \ {h}
    BY <1>2, <2>1, QueuedPopped DEF PipelineInv
  <2>5. Durable!Settle(h)
    BY <1>2, <1>3, <2>1, <2>2, <2>3, <2>4, SettleHead DEF MutationResult, server
  <2> QED
    BY <1>2, <2>1, <2>5 DEF Durable!Next
<1>4. ASSUME EndedByWrite
      PROVE  pipeline # <<>> /\ h \in applied \cup refused
  BY <1>4, EndedQueue, AnswerForHead DEF PipelineInv
<1>5. CASE WriteError
  <2>1. EndedByWrite /\ pipeline # <<>> /\ user' = user /\ user \in User
        /\ UNCHANGED <<nextBatchId, made, applied, refused>>
    BY <1>5, EndedQueue DEF WriteError, server, PipelineInv
  <2>2. queue' = [queue EXCEPT ![user] = Tail(@)]
    BY <1>5, <2>1, EndedQueue DEF WriteError
  <2>3. told' = told \/ (told[h] = "nothing" /\ told' = [told EXCEPT ![h] = "failed"])
    BY <1>5, <2>1, Notified DEF WriteError, NotifyUser, PipelineInv
  <2>4. Queued' = Queued \ {h}
    BY <1>2, <2>1, <2>2, QueuedPopped DEF PipelineInv
  <2>5. Durable!Settle(h)
    BY <1>2, <1>4, <2>1, <2>3, <2>4, SettleHead
  <2> QED
    BY <1>2, <2>1, <2>5 DEF Durable!Next
<1>6. ASSUME NEW u \in User, RestartAfterCallback(u) PROVE Durable!Next
  <2>1. /\ Writing /\ responses # <<>> /\ Head(responses).kind = "applied"
        /\ UNCHANGED <<queue, made, applied, refused>>
        /\ told' = [w \in Write |-> IF \E c \in Called(Head(pipeline).id) : c.write = w
                                    THEN "ok" ELSE told[w]]
    BY <1>6 DEF RestartAfterCallback, Initialize, server
  <2>2. pipeline # <<>> /\ h \in applied
    BY <2>1, AnswerForHead DEF PipelineInv
  <2>3. told' = told \/ (told[h] = "nothing" /\ told' = [told EXCEPT ![h] = "ok"])
    BY <2>1, <2>2, Notified DEF PipelineInv
  <2>4. Queued' = Queued
    BY <2>1 DEF Queued
  <2>5. Durable!Settle(h)
    BY <1>2, <2>1, <2>2, <2>3, <2>4, SettleHead
  <2> QED
    BY <1>2, <2>2, <2>5 DEF Durable!Next
<1>7. ASSUME NEW u \in User, RestartBeforeCallback(u) PROVE Durable!Next
  <2>1. /\ EndedByWrite /\ user' \in User /\ nextBatchId' = LoadNextBatchId(queue')
        /\ UNCHANGED <<made, applied, refused, told>>
        /\ queue' = [queue EXCEPT ![user] = RemoveMutationBatch(@, Head(pipeline).id)]
    BY <1>7 DEF RestartBeforeCallback, Initialize, server
  <2>2. queue' = [queue EXCEPT ![user] = Tail(@)]
    BY <2>1, EndedQueue
  <2>3. Queued' = Queued \ {h}
    BY <1>2, <1>4, <2>1, <2>2, QueuedPopped DEF PipelineInv
  <2>4. Durable!Settle(h)
    BY <1>2, <1>4, <2>1, <2>3, SettleHead
  <2> QED
    BY <1>2, <1>4, <2>1, <2>4 DEF Durable!Next
<1>8. CASE Apply \/ Refuse
  <2> DEFINE w == Head(requests)
             k == Len(responses) + 1
  <2>1. w = pipeline[k].write /\ k \in 1..Len(pipeline)
    BY <1>8, AnswerStream DEF PipelineInv
  <2>2. pipeline[k] = queue[user][k] /\ k \in DOMAIN queue[user] /\ user \in User
    <3>1. /\ Len(pipeline) <= Len(queue[user])
          /\ \A i \in 1..Len(pipeline) : pipeline[i] = queue[user][i]
      BY DEF PipelineInv, PipeInv, FullPrefixOf, PrefixOf
    <3>2. Len(pipeline) \in Nat
      BY StreamLengths DEF PipelineInv
    <3>3. Len(queue[user]) \in Nat /\ DOMAIN queue[user] = 1..Len(queue[user]) /\ user \in User
      BY QueueFacts DEF PipelineInv, QueueInv
    <3> HIDE DEF k
    <3> QED
      BY <2>1, <3>1, <3>2, <3>3
  <2> HIDE DEF k
  <2>3. w \in Queued /\ w \in Write
    BY <2>1, <2>2, QueuedMade DEF PipelineInv
  <2>4. UNCHANGED <<queue, made, told>>
    BY <1>8 DEF Apply, Refuse, Answer, local
  <2>5. Queued' = Queued /\ (1..made') \ Queued' = (1..made) \ Queued
    BY <2>4 DEF Queued
  <2>6. \/ applied' = applied \cup {w} /\ UNCHANGED refused
        \/ refused' = refused \cup {w} /\ UNCHANGED applied
    BY <1>8 DEF Apply, Refuse
  <2>7. Durable!Decide(w)
    BY <2>3, <2>4, <2>5, <2>6 DEF Durable!Decide
  <2> QED
    BY <2>3, <2>7 DEF Durable!Next
<1>9. ASSUME UNCHANGED <<queue, made, applied, refused, told>> PROVE UNCHANGED Durable!abstract
  BY <1>9, SameDurable
<1>10. CASE Open \/ HandshakeComplete \/ BackoffElapsed \/ ServerHandshake \/ StreamError \/ IdleStop
  BY <1>9, <1>10
  DEF Open, HandshakeComplete, BackoffElapsed, ServerHandshake, StreamError, IdleStop, local, server
<1>11. ASSUME NEW u \in User, CredentialChange(u) \/ Restart(u) PROVE UNCHANGED Durable!abstract
  BY <1>9, <1>11 DEF CredentialChange, Restart, Initialize, server
<1>12. CASE UNCHANGED vars
  BY <1>9, <1>12 DEF vars, local, server
<1> QED
  BY <1>1, <1>3, <1>5, <1>6, <1>7, <1>8, <1>10, <1>11, <1>12 DEF Next, Progress, Restarts

-----------------------------------------------------------------------------
(* Progress. *)

(* An open stream is past its first step, and a failure is ahead of the    *)
(* next answer only where the server has ended the stream.                 *)
OpenInv ==
    /\ stream = "Open" => handshake # "none"
    /\ overtaken => Writing /\ Ended(responses)
    /\ disturbances \in Nat

LEMMA NotStarted ==
    ASSUME NEW state \in {"Initial", "Starting", "Error", "Backoff"}, NEW p
    PROVE  StartIfNeeded(state, p) # "Open"
BY DEF StartIfNeeded

(* A stream that was closed is not open.                                   *)
LEMMA ClosedIsNotOpen ==
    ASSUME Close, NEW state \in {"Initial", "Starting", "Error", "Backoff"},
           stream' = StartIfNeeded(state, pipeline'), disturbances' \in Nat
    PROVE  OpenInv'
<1> DEFINE p == pipeline'
<1>1. StartIfNeeded(state, p) # "Open"
  <2> HIDE DEF p
  <2> QED
    BY NotStarted
<1> QED
  BY <1>1 DEF Close, OpenInv

LEMMA OpenStep ==
    ASSUME PipelineInv, OpenInv, [Next]_vars
    PROVE  OpenInv'
<1>1. /\ stream \in {"Initial", "Starting", "Open", "Error", "Backoff"}
      /\ overtaken \in BOOLEAN /\ disturbances \in Nat
      /\ handshake \in {"none", "asked", "answered", "complete"}
      /\ handshake # "none" => stream = "Open"
  BY DEF PipelineInv, StreamInv, StreamType, ChannelInv, OpenInv
<1>2. CASE WriteMutations
  <2>1. /\ stream' = StartIfNeeded(stream, pipeline')
        /\ UNCHANGED <<handshake, responses, overtaken, disturbances>>
    BY <1>2 DEF WriteMutations
  <2>2. stream' = "Open" <=> stream = "Open"
    BY <1>1, <2>1, StartedIfNeeded
  <2> QED
    BY <2>1, <2>2 DEF OpenInv, Writing, Ended
<1>3. CASE Open \/ BackoffElapsed \/ ServerHandshake \/ HandshakeComplete
  <2>1. ~Writing /\ ~overtaken
    BY <1>1, <1>3 DEF Open, BackoffElapsed, ServerHandshake, HandshakeComplete, OpenInv, Writing
  <2>2. UNCHANGED <<overtaken, disturbances>>
    BY <1>3 DEF Open, BackoffElapsed, ServerHandshake, HandshakeComplete
  <2>3. stream' = "Open" => handshake' # "none"
    BY <1>1, <1>3 DEF Open, BackoffElapsed, ServerHandshake, HandshakeComplete, OpenInv
  <2> QED
    BY <1>1, <2>1, <2>2, <2>3 DEF OpenInv
<1>4. CASE MutationResult
  <2>1. /\ Writing /\ UNCHANGED <<stream, handshake, disturbances>>
        /\ overtaken' => Ended(responses')
    BY <1>4 DEF MutationResult
  <2> QED
    BY <1>1, <2>1 DEF OpenInv, Writing, Ended
<1>5. CASE Apply \/ Refuse
  <2>1. ~Ended(responses) /\ UNCHANGED <<stream, handshake, overtaken, disturbances>>
    BY <1>5 DEF Apply, Refuse, Answer
  <2> QED
    BY <1>1, <2>1 DEF OpenInv
<1>6. CASE WriteError
  BY <1>1, <1>6, ClosedIsNotOpen DEF WriteError
<1>7. CASE StreamError \/ IdleStop
  <2>1. Close /\ UNCHANGED pipeline
        /\ (disturbances' = disturbances \/ disturbances' = disturbances + 1)
    BY <1>7 DEF StreamError, IdleStop, Disturbed
  <2>2. stream' # "Open"
    BY <1>7 DEF StreamError, IdleStop, StartIfNeeded
  <2> QED
    BY <1>1, <2>1, <2>2 DEF Close, OpenInv
<1>8. ASSUME NEW u \in User, CredentialChange(u) PROVE OpenInv'
  <2>1. Close /\ disturbances' = disturbances + 1
        /\ \E state \in {"Initial", "Starting", "Error", "Backoff"} :
               stream' = StartIfNeeded(state, pipeline')
    BY <1>1, <1>8 DEF CredentialChange, Disturbed, IsStarted
  <2> QED
    BY <1>1, <2>1, ClosedIsNotOpen
<1>9. ASSUME NEW u \in User, Restart(u) \/ RestartAfterCallback(u) \/ RestartBeforeCallback(u)
      PROVE  OpenInv'
  <2>1. Close /\ disturbances' = disturbances + 1 /\ stream' = StartIfNeeded("Initial", pipeline')
    BY <1>9 DEF Restart, RestartAfterCallback, RestartBeforeCallback, Initialize, Disturbed
  <2> QED
    BY <1>1, <2>1, ClosedIsNotOpen
<1>10. CASE UNCHANGED vars
  BY <1>10 DEF vars, channel, OpenInv, Writing, Ended
<1> QED
  BY <1>2, <1>3, <1>4, <1>5, <1>6, <1>7, <1>8, <1>9, <1>10 DEF Next, Progress, Restarts

LEMMA InitOpen == Init => OpenInv
BY DEF Init, OpenInv

(* A queue with something in it has its beginning in the pipeline.         *)
LEMMA QueuedIsInPipeline ==
    ASSUME PipelineInv, queue[user] # <<>>
    PROVE  /\ pipeline # <<>> /\ IsStarted /\ ~idle
           /\ Len(queue[user]) \in Nat
           /\ Len(pipeline) \in 1..kMaxPendingWrites
           /\ Len(Tail(queue[user])) < Len(queue[user])
<1>1. queue[user] \in Seq(Batches)
  BY QueueFacts DEF PipelineInv, QueueInv
<1>2. /\ Len(queue[user]) \in Nat /\ Len(queue[user]) # 0
      /\ Len(Tail(queue[user])) < Len(queue[user])
  BY <1>1, SeqBasics, Popped
<1>3. /\ Len(pipeline) \in Nat /\ (pipeline = <<>> <=> Len(pipeline) = 0)
      /\ Len(pipeline) <= kMaxPendingWrites
      /\ Len(pipeline) = kMaxPendingWrites \/ Len(pipeline) = Len(queue[user])
  BY StreamLengths DEF PipelineInv, PipeInv, FullPrefixOf, PrefixOf
<1>4. Len(pipeline) \in 1..kMaxPendingWrites /\ pipeline # <<>>
  BY <1>2, <1>3, PipelineAssumption
<1> QED
  BY <1>2, <1>4 DEF PipelineInv, StreamInv, IdleOnlyWhenUnneeded

LEMMA NeverStuck ==
    ASSUME PipelineInv, OpenInv, queue[user] # <<>>
    PROVE  SomethingUnderWay
<1>1. stream \in {"Starting", "Backoff", "Open"} /\ Len(pipeline) \in Nat /\ Len(pipeline) > 0
  BY QueuedIsInPipeline, PipelineAssumption DEF IsStarted
<1>2. SUFFICES ASSUME Writing PROVE SomethingUnderWay
  BY <1>1 DEF SomethingUnderWay, OpenInv, PipelineInv, StreamInv, StreamType, Writing
<1>3. /\ Len(requests) \in Nat /\ Len(responses) \in Nat
      /\ requests = <<>> <=> Len(requests) = 0
      /\ responses = <<>> <=> Len(responses) = 0
      /\ responses \in Seq(Responses)
      /\ Len(responses) + Len(requests) = Len(pipeline)
      /\ \A i \in 1..Len(responses) : responses[i].kind # "applied" => i = Len(responses)
  BY <1>2, StreamLengths
  DEF PipelineInv, StreamInv, StreamType, ChannelInv, StreamMatches
<1>4. CASE responses = <<>>
  BY <1>1, <1>2, <1>3, <1>4 DEF SomethingUnderWay, Ended
<1>5. CASE responses # <<>>
  <2>1. 1 \in 1..Len(responses) /\ Head(responses) = responses[1] /\ responses[1] \in Responses
    BY <1>3, <1>5, Popped, SeqBasics
  <2>2. CASE overtaken
    BY <1>2, <2>2 DEF SomethingUnderWay, OpenInv, EndedByWrite
  <2>3. CASE Head(responses).kind # "applied" /\ ~overtaken
    <3>1. Len(responses) = 1 /\ Head(responses).kind = "refused"
      BY <1>3, <2>1, <2>3 DEF Responses
    <3>2. Last(responses).kind = "refused"
      BY <2>1, <3>1 DEF Last
    <3> QED
      BY <1>2, <1>5, <3>1, <3>2 DEF SomethingUnderWay, EndedByWrite, Ended
  <2> QED
    BY <1>2, <1>5, <2>2, <2>3 DEF SomethingUnderWay
<1> QED
  BY <1>4, <1>5

LEMMA StepsAdvance ==
    ASSUME PipelineInv, OpenInv, Next, queue[user] # <<>>, UNCHANGED <<made, disturbances>>
    PROVE  \/ Len(queue'[user]) < Len(queue[user])
           \/ queue' = queue /\ StepsAhead' < StepsAhead
<1>1. /\ stream \in {"Initial", "Starting", "Open", "Error", "Backoff"}
      /\ handshake \in {"none", "asked", "answered", "complete"}
      /\ handshake # "none" => stream = "Open"
      /\ made \in Nat /\ disturbances \in Nat /\ kMaxPendingWrites \in Nat
      /\ user \in User /\ queue \in [User -> Seq(Batches)]
      /\ pipeline \in Seq(Batches) /\ requests \in Seq(Write)
  BY BoundAssumption, PipelineAssumption
  DEF PipelineInv, QueueInv, PipeInv, StreamInv, StreamType, ChannelInv, OpenInv
<1>2. pipeline # <<>> /\ ~idle /\ Len(pipeline) <= kMaxPendingWrites /\ Len(pipeline) \in Nat
  BY QueuedIsInPipeline, <1>1
<1>3. ~IdleStop
  BY <1>2 DEF IdleStop
<1>4. ~Disturbed /\ ~WriteMutations
  BY <1>1 DEF Disturbed, WriteMutations
<1>5. Progress
  BY <1>3, <1>4 DEF Next, StreamError, CredentialChange, Restarts, Restart, RestartAfterCallback,
     RestartBeforeCallback, Initialize
<1>6. CASE Open \/ BackoffElapsed \/ ServerHandshake
  <2>1. queue' = queue
    BY <1>6 DEF Open, BackoffElapsed, ServerHandshake, local
  <2> QED
    BY <1>1, <1>6, <2>1 DEF Open, BackoffElapsed, ServerHandshake, StepsAhead
<1>7. CASE HandshakeComplete
  <2>1. /\ queue' = queue /\ stream' = "Open" /\ handshake' = "complete"
        /\ stream = "Open" /\ handshake = "answered" /\ requests' = WritesOf(pipeline)
    BY <1>7 DEF HandshakeComplete, local
  <2>2. Len(requests') = Len(pipeline)
    BY <1>1, <2>1, WritesOfBatches
  <2> QED
    BY <1>1, <1>2, <2>1, <2>2 DEF StepsAhead
<1>8. CASE Apply \/ Refuse
  <2>1. /\ queue' = queue /\ UNCHANGED <<stream, handshake>>
        /\ requests # <<>> /\ requests' = Tail(requests)
    BY <1>8 DEF Apply, Refuse, Answer, local
  <2>2. Len(requests') < Len(requests)
    BY <1>1, <2>1, Popped
  <2>3. Writing
    BY <2>1 DEF PipelineInv, StreamInv, ChannelInv
  <2> QED
    BY <2>1, <2>2, <2>3 DEF StepsAhead, Writing
<1>9. CASE MutationResult
  <2>1. queue'[user] = Tail(queue[user])
    BY <1>9, ResultQueue DEF PipelineInv
  <2> QED
    BY <2>1, QueuedIsInPipeline
<1>10. CASE WriteError
  <2>1. queue' = [queue EXCEPT ![user] = Tail(@)]
    BY <1>10, EndedQueue DEF WriteError
  <2>2. queue'[user] = Tail(queue[user])
    BY <1>1, <2>1
  <2> QED
    BY <2>2, QueuedIsInPipeline
<1> QED
  BY <1>5, <1>6, <1>7, <1>8, <1>9, <1>10 DEF Progress

-----------------------------------------------------------------------------
(* The theorems. *)

(* The invariant the others follow from: batches are in the order of their *)
(* ids and share none, the pipeline and the stream agree with the queue    *)
(* place by place, and callbacks and the server with the writes.           *)
THEOREM WritePipelineInvariant == Spec => []PipelineInv
BY InitInv, StepInv, PTL DEF Spec

(* The pipeline is always as long a beginning of the current user's queue  *)
(* as it may hold.                                                         *)
THEOREM WritePipelinePrefix == Spec => []PipelineIsQueuePrefix
<1>1. PipelineInv => PipelineIsQueuePrefix
  <2> SUFFICES ASSUME PipelineInv PROVE PipelineIsQueuePrefix
    OBVIOUS
  <2> DEFINE n == Len(pipeline)
             q == queue[user]
  <2>1. /\ q \in Seq(Batches) /\ pipeline \in Seq(Batches)
        /\ n <= Len(q) /\ (n = kMaxPendingWrites \/ n = Len(q))
        /\ \A i \in 1..n : pipeline[i] = q[i]
    BY DEF PipelineInv, QueueInv, PipeInv, FullPrefixOf, PrefixOf
  <2>2. n \in Nat
    BY <2>1, LenProperties
  <2> HIDE DEF q
  <2>3. pipeline = SubSeq(q, 1, n)
    <3> DEFINE s == SubSeq(q, 0 + 1, n)
    <3>1. /\ s \in Seq(Batches) /\ Len(s) = n - 0
          /\ \A i \in 1..n - 0 : s[i] = q[0 + i]
      BY <2>1, <2>2, Sliced
    <3>2. Len(s) = n /\ \A i \in 1..n : s[i] = q[i]
      BY <2>2, <3>1
    <3>3. s = SubSeq(q, 1, n)
      OBVIOUS
    <3> HIDE DEF s
    <3>4. pipeline = s
      BY <2>1, <3>1, <3>2, SeqEqual
    <3> QED
      BY <3>3, <3>4
  <2> QED
    BY <2>1, <2>3 DEF PipelineIsQueuePrefix, q
<1> QED
  BY <1>1, WritePipelineInvariant, PTL

(* What the server said and what it has still to look at are exactly the   *)
(* pipeline: an answer is for the batch it is taken for.                   *)
THEOREM WritePipelineResults == Spec => []ResultsMatchPipeline
<1>1. PipelineInv => ResultsMatchPipeline
  <2> SUFFICES ASSUME PipelineInv PROVE ResultsMatchPipeline
    OBVIOUS
  <2>1. CASE ~Writing
    BY <2>1 DEF PipelineInv, StreamInv, ChannelInv, ResultsMatchPipeline
  <2>2. CASE Writing
    <3> DEFINE n == Len(pipeline)
               m == Len(requests)
               k == Len(responses)
               s == WritesOf(pipeline)
               t == WritesOf(responses)
               both == t \o requests
    <3>1. n \in Nat /\ m \in Nat /\ k \in Nat
      BY StreamLengths DEF PipelineInv
    <3>2. /\ k + m = n
          /\ \A i \in 1..k : responses[i].write = pipeline[i].write
          /\ \A i \in 1..m : requests[i] = pipeline[k + i].write
      BY <2>2 DEF PipelineInv, StreamInv, ChannelInv, StreamMatches
    <3>3. /\ pipeline \in Seq(Batches) /\ requests \in Seq(Write)
          /\ responses \in Seq(Responses)
      BY DEF PipelineInv, PipeInv, StreamInv, StreamType
    <3>4. s \in Seq(Write) /\ Len(s) = n /\ \A i \in 1..n : s[i] = pipeline[i].write
      BY <3>3, WritesOfBatches
    <3>5. t \in Seq(Write) /\ Len(t) = k /\ \A i \in 1..k : t[i] = responses[i].write
      BY <3>3, WritesOfResponses
    <3> HIDE DEF s, t, n, m, k
    <3>6. /\ both \in Seq(Write) /\ Len(both) = k + Len(requests)
          /\ \A i \in 1..k : both[i] = t[i]
          /\ \A i \in 1..Len(requests) : both[k + i] = requests[i]
      <4>1. requests \in Seq(Write) /\ t \in Seq(Write)
        BY <3>3, <3>5
      <4>2. /\ both \in Seq(Write) /\ Len(both) = Len(t) + Len(requests)
            /\ \A i \in 1..Len(t) : both[i] = t[i]
            /\ \A i \in 1..Len(requests) : both[Len(t) + i] = requests[i]
        BY <4>1, Joined
      <4> QED
        BY <3>5, <4>2
    <3> HIDE DEF both
    <3>7. Len(both) = n
      BY <3>2, <3>6 DEF m
    <3>8. ASSUME NEW i \in 1..n PROVE s[i] = both[i]
      <4>1. CASE i <= k
        <5>1. i \in 1..k
          BY <3>1, <4>1
        <5> QED
          BY <3>2, <3>4, <3>5, <3>6, <5>1
      <4>2. CASE i > k
        <5>1. i - k \in 1..m /\ k + (i - k) = i
          BY <3>1, <3>2, <4>2
        <5>2. both[k + (i - k)] = requests[i - k]
          BY <3>6, <5>1 DEF m
        <5>3. requests[i - k] = pipeline[k + (i - k)].write
          BY <3>2, <5>1
        <5> QED
          BY <3>4, <5>1, <5>2, <5>3
      <4> QED
        BY <3>1, <4>1, <4>2
    <3>9. s = both
      BY <3>4, <3>6, <3>7, <3>8, SeqEqual
    <3> QED
      BY <2>2, <3>9 DEF ResultsMatchPipeline, s, t, both
  <2> QED
    BY <2>1, <2>2
<1> QED
  BY <1>1, WritePipelineInvariant, PTL

(* The idle timer never fires on a stream that is needed, and a pipeline   *)
(* with something in it never goes without one.                            *)
THEOREM WritePipelineIdle == Spec => []IdleOnlyWhenUnneeded
<1>1. PipelineInv => IdleOnlyWhenUnneeded
  BY DEF PipelineInv, StreamInv
<1> QED
  BY <1>1, WritePipelineInvariant, PTL

(* No two batches share an id, and a callback waits under the id of the    *)
(* batch of its own write.                                                 *)
THEOREM WritePipelineCallbacks == Spec => []CallbacksFollowTheirWrites
<1>1. PipelineInv => CallbacksFollowTheirWrites
  BY DEF PipelineInv, QueueInv, QueuesInOrder, RecordInv, CallbackInv, CallbacksFollowTheirWrites
<1> QED
  BY <1>1, WritePipelineInvariant, PTL

(* The server never applies a write while an earlier one of the same user  *)
(* is queued and was not applied.                                          *)
THEOREM WritePipelineOrder == Spec => []AppliedInOrder
<1>1. PipelineInv => AppliedInOrder
  BY DEF PipelineInv, RecordInv, ServerInv
<1> QED
  BY <1>1, WritePipelineInvariant, PTL

(* The write path keeps the promise of DurableWrites, whatever becomes of  *)
(* the network, the account and the process.                               *)
THEOREM WritePipelineDurable == Spec => ImplementsDurableWrites
BY InitDurable, StepDurable, WritePipelineInvariant, PTL DEF Spec, ImplementsDurableWrites, Durable!Spec

(* The promise, kept step by step: what is pending, decided or said.       *)
LEMMA OutcomesStay ==
    ASSUME told \in [Write -> {"nothing", "ok", "failed"}], Durable!OutcomesTrue, Durable!Next
    PROVE  Durable!OutcomesTrue' /\ Durable!Kept
<1> DEFINE settled == (1..made) \ Queued
<1>1. ASSUME NEW w \in Write, Durable!Make(w)
      PROVE  Durable!OutcomesTrue' /\ Durable!Kept
  BY <1>1 DEF Durable!Make, Durable!OutcomesTrue, Durable!Kept
<1>2. ASSUME NEW w \in Write, Durable!Decide(w)
      PROVE  Durable!OutcomesTrue' /\ Durable!Kept
  BY <1>2 DEF Durable!Decide, Durable!OutcomesTrue, Durable!Kept
<1>3. ASSUME NEW w \in Write, Durable!Settle(w)
      PROVE  Durable!OutcomesTrue' /\ Durable!Kept
  <2>1. /\ w \in Queued /\ w \in applied \cup refused /\ UNCHANGED <<applied, refused>>
        /\ \/ UNCHANGED <<Queued, settled>>
           \/ Queued' = Queued \ {w} /\ settled' = settled \cup {w}
    BY <1>3 DEF Durable!Settle
  <2>2. /\ \A v \in Write : told[v] # "nothing" => told'[v] = told[v]
        /\ \A v \in Write : told'[v] # "nothing" => told'[v] = told[v] \/ v = w
        /\ told'[w] = "ok" => told[w] = "ok" \/ w \in applied
    BY <1>3 DEF Durable!Settle
  <2> HIDE DEF settled
  <2> QED
    BY <2>1, <2>2 DEF Durable!OutcomesTrue, Durable!Kept, settled
<1> QED
  BY <1>1, <1>2, <1>3 DEF Durable!Next

(* What it means for the app: a write is done with, or its handler run,    *)
(* only when the server has decided it, and "no error" is true.            *)
THEOREM WritePipelineOutcomes == Spec => []Durable!OutcomesTrue
<1>1. Durable!Init => Durable!OutcomesTrue
  BY DEF Durable!Init, Durable!OutcomesTrue
<1>2. PipelineInv => told \in [Write -> {"nothing", "ok", "failed"}]
  BY DEF PipelineInv, RecordInv, RecordType
<1>3. PipelineInv /\ Durable!OutcomesTrue /\ [Durable!Next]_(Durable!abstract)
        => Durable!OutcomesTrue'
  <2>1. CASE UNCHANGED Durable!abstract
    BY <2>1 DEF Durable!abstract, Durable!OutcomesTrue
  <2>2. CASE Durable!Next
    BY <1>2, <2>2, OutcomesStay
  <2> QED
    BY <2>1, <2>2
<1> QED
  BY <1>1, <1>3, WritePipelineInvariant, WritePipelineDurable, PTL
     DEF ImplementsDurableWrites, Durable!Spec

(* No handler's word is taken back, and no write disappears: what was      *)
(* pending is pending or done with, over restarts and changes of account.  *)
THEOREM WritePipelineNothingLost == Spec => Durable!OutcomesKept
<1>1. PipelineInv => told \in [Write -> {"nothing", "ok", "failed"}]
  BY DEF PipelineInv, RecordInv, RecordType
<1>2. PipelineInv /\ Durable!OutcomesTrue /\ [Durable!Next]_(Durable!abstract)
        => [Durable!Kept]_(Durable!abstract)
  BY <1>1, OutcomesStay
<1> QED
  BY <1>2, WritePipelineInvariant, WritePipelineOutcomes, WritePipelineDurable, PTL
     DEF ImplementsDurableWrites, Durable!Spec, Durable!OutcomesKept

(* A queued batch of the current user always has a step of Progress to     *)
(* look forward to, and every step that is neither a new write nor a       *)
(* disturbance leads to a batch leaving the queue.                         *)
THEOREM WritePipelineAdvances == Spec => EveryWriteAdvances
<1> DEFINE Nearer ==
             queue[user] # <<>> /\ UNCHANGED <<made, disturbances>> =>
                 \/ Len(queue'[user]) < Len(queue[user])
                 \/ queue' = queue /\ StepsAhead' < StepsAhead
<1>1. Spec => []OpenInv
  BY InitOpen, OpenStep, WritePipelineInvariant, PTL DEF Spec
<1>2. PipelineInv /\ OpenInv => (queue[user] # <<>> => SomethingUnderWay)
  BY NeverStuck
<1>3. PipelineInv /\ OpenInv /\ [Next]_vars => [Nearer]_vars
  BY StepsAdvance
<1>4. Spec => [](queue[user] # <<>> => SomethingUnderWay)
  BY <1>1, <1>2, WritePipelineInvariant, PTL
<1>5. Spec => [][Nearer]_vars
  BY <1>1, <1>3, WritePipelineInvariant, PTL DEF Spec
<1> QED
  BY <1>4, <1>5 DEF EveryWriteAdvances
=============================================================================
