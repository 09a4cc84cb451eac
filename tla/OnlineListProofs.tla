-------------------------- MODULE OnlineListProofs --------------------------
(***************************************************************************)
(* The list of shared documents, for every set of accounts and documents:  *)
(* its type and the safety properties, which with AnswersBounded form an   *)
(* inductive invariant.                                                    *)
(***************************************************************************)
EXTENDS OnlineList, FiniteSetTheorems, SequenceTheorems, TLAPS

(* An arrangement of a set of documents is a sequence of them without      *)
(* repetition.                                                             *)
LEMMA Arranged ==
    ASSUME NEW docs \in SUBSET Doc, NEW s \in Bijection(1 .. Cardinality(docs), docs)
    PROVE  s \in Seq(Doc) /\ Range(s) = docs /\ IsInjective(s)
<1> DEFINE n == Cardinality(docs)
<1>1. n \in Nat
  BY DocAssumption, FS_Subset, FS_CardinalityType
<1>2. s \in [1 .. n -> docs] /\ IsInjective(s) /\ \A d \in docs : \E i \in 1 .. n : s[i] = d
  BY DEF Bijection, Injection, Surjection
<1>3. s \in [1 .. n -> Doc]
  BY <1>2
<1>4. s \in Seq(Doc)
  BY <1>1, <1>3, SeqDef
<1>5. Range(s) = docs
  BY <1>2 DEF Range
<1> QED
  BY <1>2, <1>4, <1>5

LEMMA AnswerBounds ==
    ASSUME NEW online \in BOOLEAN, NEW now, NEW cached,
           NEW s \in Answer(online, cached, now)
    PROVE  cached \cap now \subseteq s /\ s \subseteq cached \cup now /\ (online => s = now)
BY DEF Answer

-----------------------------------------------------------------------------
LEMMA StepType ==
    ASSUME TypeOK, AnswersBounded, [Next]_vars
    PROVE  TypeOK'
<1>1. ASSUME NEW u \in User, SignIn(u)
      PROVE  TypeOK'
  <2>1. atPull' \in Answers
    BY <1>1 DEF SignIn, TypeOK, Answers
  <2> QED
    BY <1>1, <2>1 DEF SignIn, Shared!SignIn, TypeOK, table
<1>2. ASSUME NEW d \in Doc, Upload(d)
      PROVE  TypeOK'
  BY <1>2 DEF Upload, Shared!Upload, TypeOK, fetch, table
<1>3. CASE UpdateList
  <2>1. dataArray' \in Seq(Doc) /\ atPull' \in Answers /\ phase' \in Phases
    BY <1>3 DEF UpdateList, Emptied, FirstBlock, TypeOK, Answers, Phases
  <2> QED
    BY <1>3, <2>1 DEF UpdateList, Emptied, FirstBlock, TypeOK, server, table
<1>4. ASSUME NEW online \in BOOLEAN, UsersRead(online)
      PROVE  TypeOK'
  <2>1. PICK users \in Answer(online, cache.users, registered) :
           userInfos' = userInfos \cup users /\ cache' = [cache EXCEPT !.users = users]
    BY <1>4 DEF UsersRead
  <2>2. users \subseteq User
    BY AnswerBounds DEF TypeOK, Answers
  <2>3. cache' \in Answers /\ atPull' \in Answers /\ phase' \in Phases /\ userInfos' \subseteq User
    BY <1>4, <2>1, <2>2 DEF UsersRead, TypeOK, Answers, Phases, FlagSet
  <2> QED
    BY <1>4, <2>3 DEF UsersRead, TypeOK, server, table
<1>5. ASSUME NEW online \in BOOLEAN, DocumentsRead(online)
      PROVE  TypeOK'
  <2>1. PICK docs \in Answer(online, cache.docs, uploaded) :
           /\ cache' = [cache EXCEPT !.docs = docs]
           /\ IF \A d \in docs : Owner[d] \in userInfos
              THEN /\ \E read \in Bijection(1 .. Cardinality(docs), docs) :
                         dataArray' = dataArray \o read
                   /\ FlagSet("notify")
                   /\ UNCHANGED trap
              ELSE /\ trap' = "owner"
                   /\ UNCHANGED <<dataArray, phase>>
    BY <1>5 DEF DocumentsRead
  <2>2. docs \in SUBSET Doc
    BY <2>1, AnswerBounds DEF TypeOK, AnswersBounded
  <2>3. dataArray' \in Seq(Doc)
    <3>1. CASE \A d \in docs : Owner[d] \in userInfos
      <4>1. PICK read \in Bijection(1 .. Cardinality(docs), docs) : dataArray' = dataArray \o read
        BY <2>1, <3>1
      <4>2. read \in Seq(Doc) /\ dataArray \in Seq(Doc)
        BY <2>2, Arranged DEF TypeOK
      <4> QED
        BY <4>1, <4>2
    <3>2. CASE ~ \A d \in docs : Owner[d] \in userInfos
      BY <2>1, <3>2 DEF TypeOK
    <3> QED
      BY <3>1, <3>2
  <2>4. cache' \in Answers /\ atPull' \in Answers
    BY <1>5, <2>1, <2>2 DEF DocumentsRead, TypeOK, Answers
  <2>5. phase' \in Phases /\ trap' \in {"none", "index", "owner"}
    BY <2>1 DEF FlagSet, Phases, TypeOK
  <2> QED
    BY <1>5, <2>3, <2>4, <2>5 DEF DocumentsRead, TypeOK, server, table
<1>6. CASE QueryFails
  BY <1>6 DEF QueryFails, AfterError, TypeOK, Phases, server, table
<1>7. CASE Notify
  <2>1. rows' \in Nat /\ cells' \in [{} -> Doc] /\ {} \in SUBSET (1 .. rows')
    BY <1>7 DEF Notify, Reloaded, EndRefreshing, TypeOK
  <2> QED
    BY <1>7, <2>1 DEF Notify, Reloaded, EndRefreshing, TypeOK, Phases, server
<1>8. ASSUME NEW row \in 1 .. rows, CellForRow(row)
      PROVE  TypeOK'
  <2>1. PICK shown \in SUBSET (1 .. rows) : cells \in [shown -> Doc]
    BY DEF TypeOK
  <2>2. Checked(row) = "none" => dataArray[row] \in Doc
    BY DEF Checked, TypeOK
  <2>3. /\ Checked(row) # "none" => cells' = cells
        /\ Checked(row) = "none" => cells' \in [shown \cup {row} -> Doc]
    BY <1>8, <2>1, <2>2 DEF CellForRow
  <2>4. shown \cup {row} \in SUBSET (1 .. rows)
    OBVIOUS
  <2>5. \E s \in SUBSET (1 .. rows) : cells' \in [s -> Doc]
    BY <2>1, <2>3, <2>4
  <2>6. trap' \in {"none", "index", "owner"}
    BY <1>8 DEF CellForRow, Checked
  <2> QED
    BY <1>8, <2>5, <2>6 DEF CellForRow, TypeOK, server, fetch
<1>9. ASSUME NEW row \in 1 .. rows, ScrollAway(row)
      PROVE  TypeOK'
  <2>1. PICK shown \in SUBSET (1 .. rows) : cells \in [shown -> Doc]
    BY DEF TypeOK
  <2>2. cells' \in [shown \ {row} -> Doc] /\ shown \ {row} \in SUBSET (1 .. rows)
    BY <1>9, <2>1 DEF ScrollAway, Restrict
  <2> QED
    BY <1>9, <2>2 DEF ScrollAway, TypeOK, server, fetch
<1>10. ASSUME NEW row \in 1 .. rows, DidSelectRow(row)
       PROVE  TypeOK'
  <2>1. cells[row] \in Doc
    BY <1>10 DEF DidSelectRow, TypeOK
  <2>2. Checked(row) = "none" => dataArray[row] \in Doc
    BY DEF Checked, TypeOK
  <2>3. alert' \in Alerts \cup {NoAlert} /\ trap' \in {"none", "index", "owner"}
    BY <1>10, <2>1, <2>2 DEF DidSelectRow, Alerts, Checked, TypeOK
  <2> QED
    BY <1>10, <2>3 DEF DidSelectRow, TypeOK, server, fetch
<1>11. CASE Close
  BY <1>11 DEF Close, TypeOK, server, fetch
<1>12. CASE UNCHANGED vars
  BY <1>12 DEF vars, server, fetch, table, TypeOK
<1> QED
  BY <1>1, <1>2, <1>3, <1>4, <1>5, <1>6, <1>7, <1>8, <1>9, <1>10, <1>11, <1>12 DEF Next

-----------------------------------------------------------------------------
LEMMA InitType == Init => TypeOK
<1> SUFFICES ASSUME Init PROVE TypeOK
  OBVIOUS
<1>1. cells \in [{} -> Doc] /\ {} \in SUBSET (1 .. rows) /\ dataArray \in Seq(Doc)
  BY DEF Init
<1> QED
  BY <1>1 DEF Init, TypeOK, Answers, Phases

LEMMA InitInv == Init => OnlineInv
<1> SUFFICES ASSUME Init PROVE OnlineInv
  OBVIOUS
<1>1. Range(dataArray) = {} /\ IsInjective(dataArray)
  BY DEF Init, Range, IsInjective
<1> QED
  BY <1>1 DEF Init, OnlineInv, AnswersBounded, Settled, IndexTrapOnlyInRefresh,
              SettledTapOpensShown, RefreshShowsAll, OwnerTrapExplained

(* What other installations do leaves the list alone, and what is due from *)
(* the first query is still on the server.                                 *)
LEMMA ServerInv ==
    ASSUME TypeOK, OnlineInv,
           UNCHANGED <<phase, userInfos, dataArray, cache, table, trap>>,
           uploaded \subseteq uploaded',
           atPull'.docs = atPull.docs, atPull'.users \subseteq atPull.users,
           phase = "users" => atPull'.users \subseteq registered'
    PROVE  OnlineInv'
BY DEF table, OnlineInv, AnswersBounded, Settled, IndexTrapOnlyInRefresh,
       SettledTapOpensShown, RefreshShowsAll, OwnerTrapExplained

LEMMA UpdateListInv ==
    ASSUME TypeOK, OnlineInv, UpdateList
    PROVE  OnlineInv'
BY DEF UpdateList, Emptied, FirstBlock, server, table, OnlineInv, AnswersBounded, Settled,
       IndexTrapOnlyInRefresh, SettledTapOpensShown, RefreshShowsAll, OwnerTrapExplained

LEMMA UsersReadInv ==
    ASSUME TypeOK, OnlineInv, NEW online \in BOOLEAN, UsersRead(online)
    PROVE  OnlineInv'
<1>0. PICK users \in Answer(online, cache.users, registered) :
         userInfos' = userInfos \cup users /\ cache' = [cache EXCEPT !.users = users]
  BY DEF UsersRead
<1>1. cache.users \cap registered \subseteq users /\ (online => users = registered)
  BY AnswerBounds
<1>2. cache'.users = users /\ cache'.docs = cache.docs
  BY <1>0 DEF TypeOK, Answers
<1>3. atPull'.users = (IF online THEN atPull.users ELSE cache.users \cap registered)
         /\ atPull'.docs = atPull.docs
  BY DEF UsersRead, TypeOK, Answers
<1>4. /\ phase' \in {"documents", "stuck"} /\ trap = "none" /\ phase = "users"
      /\ UNCHANGED <<server, dataArray, table, trap>>
  BY DEF UsersRead, FlagSet
<1>5. AnswersBounded'
  BY <1>0, <1>1, <1>2, <1>3, <1>4 DEF OnlineInv, AnswersBounded, server
<1> QED
  BY <1>4, <1>5 DEF server, table, OnlineInv, Settled, IndexTrapOnlyInRefresh,
                    SettledTapOpensShown, RefreshShowsAll, OwnerTrapExplained

LEMMA DocumentsReadInv ==
    ASSUME TypeOK, OnlineInv, NEW online \in BOOLEAN, DocumentsRead(online)
    PROVE  OnlineInv'
<1>1. PICK docs \in Answer(online, cache.docs, uploaded) :
         /\ cache' = [cache EXCEPT !.docs = docs]
         /\ IF \A d \in docs : Owner[d] \in userInfos
            THEN /\ \E read \in Bijection(1 .. Cardinality(docs), docs) :
                       dataArray' = dataArray \o read
                 /\ FlagSet("notify")
                 /\ UNCHANGED trap
            ELSE /\ trap' = "owner"
                 /\ UNCHANGED <<dataArray, phase>>
  BY DEF DocumentsRead
<1>2. cache.docs \subseteq docs /\ docs \subseteq uploaded /\ (online => docs = uploaded)
         /\ docs \in SUBSET Doc
  BY <1>1, AnswerBounds DEF OnlineInv, AnswersBounded, TypeOK
<1>3. cache'.docs = docs /\ cache'.users = cache.users
  BY <1>1 DEF TypeOK, Answers
<1>4. atPull'.docs = (IF online THEN atPull.docs ELSE cache.docs)
         /\ atPull'.users = atPull.users
  BY DEF DocumentsRead, TypeOK, Answers
<1>5. trap = "none" /\ phase = "documents" /\ UNCHANGED <<server, userInfos, table>>
  BY DEF DocumentsRead
<1>6. AnswersBounded'
  BY <1>1, <1>2, <1>3, <1>4, <1>5 DEF OnlineInv, AnswersBounded, server, FlagSet
<1>7. CASE \A d \in docs : Owner[d] \in userInfos
  <2>1. PICK read \in Bijection(1 .. Cardinality(docs), docs) :
           dataArray' = dataArray \o read /\ phase' \in {"notify", "stuck"} /\ trap' = trap
    BY <1>1, <1>7 DEF FlagSet
  <2>2. read \in Seq(Doc) /\ Range(read) = docs /\ IsInjective(read)
    BY <1>2, Arranged
  <2>3. dataArray = <<>>
    BY <1>5 DEF OnlineInv, AnswersBounded
  <2>4. dataArray' = read
    BY <2>1, <2>2, <2>3
  <2>5. RefreshShowsAll'
    BY <1>2, <1>4, <1>5, <2>2, <2>4 DEF OnlineInv, AnswersBounded, RefreshShowsAll, server
  <2> QED
    BY <1>5, <1>6, <2>1, <2>5 DEF table, OnlineInv, Settled, IndexTrapOnlyInRefresh,
                                  SettledTapOpensShown, OwnerTrapExplained
<1>8. CASE ~ \A d \in docs : Owner[d] \in userInfos
  <2>1. trap' = "owner" /\ phase' = "documents"
    BY <1>1, <1>5, <1>8
  <2>2. PICK d \in docs : Owner[d] \notin userInfos
    BY <1>8
  <2>3. d \in uploaded /\ Owner[d] \notin atPull.users
    BY <1>2, <1>5, <2>2 DEF OnlineInv, AnswersBounded
  <2>4. OwnerTrapExplained'
    BY <1>4, <1>5, <2>3 DEF OwnerTrapExplained, server
  <2> QED
    BY <1>5, <1>6, <2>1, <2>4 DEF table, OnlineInv, Settled, IndexTrapOnlyInRefresh,
                                  SettledTapOpensShown, RefreshShowsAll
<1> QED
  BY <1>7, <1>8

LEMMA QueryFailsInv ==
    ASSUME TypeOK, OnlineInv, QueryFails
    PROVE  OnlineInv'
BY DEF QueryFails, AfterError, server, table, OnlineInv, AnswersBounded, Settled,
       IndexTrapOnlyInRefresh, SettledTapOpensShown, RefreshShowsAll, OwnerTrapExplained

LEMMA NotifyInv ==
    ASSUME TypeOK, OnlineInv, Notify
    PROVE  OnlineInv'
BY DEF Notify, Reloaded, EndRefreshing, server, OnlineInv, AnswersBounded, Settled,
       IndexTrapOnlyInRefresh, SettledTapOpensShown, RefreshShowsAll, OwnerTrapExplained

(* The callbacks of the table: what they assert of a row holds when no     *)
(* refresh is under way.                                                   *)
LEMMA TableInv ==
    ASSUME TypeOK, OnlineInv, NEW row \in 1 .. rows,
           CellForRow(row) \/ ScrollAway(row) \/ DidSelectRow(row)
    PROVE  OnlineInv'
<1>1. UNCHANGED <<server, fetch, rows>>
  BY DEF CellForRow, ScrollAway, DidSelectRow
<1>2. AnswersBounded' /\ RefreshShowsAll'
  BY <1>1 DEF server, fetch, OnlineInv, AnswersBounded, RefreshShowsAll
<1>3. phase = "idle" => Checked(row) = "none"
  BY DEF OnlineInv, Settled, Checked, TypeOK
<1>4. trap' # "owner" \/ trap' = trap
  BY DEF CellForRow, ScrollAway, DidSelectRow, Checked
<1>5. OwnerTrapExplained'
  BY <1>1, <1>4 DEF server, fetch, OnlineInv, OwnerTrapExplained
<1>6. IndexTrapOnlyInRefresh'
  BY <1>1, <1>3 DEF CellForRow, ScrollAway, DidSelectRow, TableActive, fetch,
                    OnlineInv, IndexTrapOnlyInRefresh
<1>7. Settled'
  BY <1>1 DEF CellForRow, ScrollAway, DidSelectRow, Restrict, fetch, OnlineInv, Settled
<1>8. SettledTapOpensShown'
  BY <1>1 DEF CellForRow, ScrollAway, DidSelectRow, TableActive, fetch, OnlineInv, Settled,
              SettledTapOpensShown
<1> QED
  BY <1>2, <1>5, <1>6, <1>7, <1>8 DEF OnlineInv

LEMMA CloseInv ==
    ASSUME OnlineInv, Close
    PROVE  OnlineInv'
BY DEF Close, server, fetch, OnlineInv, AnswersBounded, Settled, IndexTrapOnlyInRefresh,
       SettledTapOpensShown, RefreshShowsAll, OwnerTrapExplained

LEMMA StepInv ==
    ASSUME TypeOK, OnlineInv, [Next]_vars
    PROVE  OnlineInv'
<1>1. ASSUME NEW u \in User, SignIn(u)
      PROVE  OnlineInv'
  <2>1. /\ atPull'.docs = atPull.docs
        /\ atPull'.users = IF phase = "users" THEN atPull.users \cap registered' ELSE atPull.users
    BY <1>1 DEF SignIn, TypeOK, Answers
  <2> QED
    BY <1>1, <2>1, ServerInv DEF SignIn, Shared!SignIn
<1>2. ASSUME NEW d \in Doc, Upload(d)
      PROVE  OnlineInv'
  BY <1>2, ServerInv DEF Upload, Shared!Upload, fetch, OnlineInv, AnswersBounded
<1>3. CASE UNCHANGED vars
  BY <1>3, ServerInv DEF vars, server, fetch, OnlineInv, AnswersBounded
<1> QED
  BY <1>1, <1>2, <1>3, UpdateListInv, UsersReadInv, DocumentsReadInv, QueryFailsInv,
     NotifyInv, TableInv, CloseInv DEF Next

(* Type correctness of the list, its refresh and the collections.          *)
THEOREM OnlineType == Spec => []TypeOK
<1>1. OnlineInv => AnswersBounded
  BY DEF OnlineInv
<1> QED
  BY <1>1, InitType, InitInv, StepType, StepInv, PTL DEF Spec

(* The inductive invariant.                                                *)
THEOREM OnlineInvariant == Spec => []OnlineInv
BY OnlineType, InitInv, StepInv, PTL DEF Spec

(* A row out of range stops the program only inside a refresh.             *)
THEOREM OnlineIndexTrap == Spec => []IndexTrapOnlyInRefresh
<1>1. OnlineInv => IndexTrapOnlyInRefresh
  BY DEF OnlineInv
<1> QED
  BY <1>1, OnlineInvariant, PTL

(* A tap on a settled list opens the document its cell shows.              *)
THEOREM OnlineTapOpensShown == Spec => []SettledTapOpensShown
<1>1. OnlineInv => SettledTapOpensShown
  BY DEF OnlineInv
<1> QED
  BY <1>1, OnlineInvariant, PTL

(* A refresh that ends shows all there was when it began, each once.       *)
THEOREM OnlineRefreshShowsAll == Spec => []RefreshShowsAll
<1>1. OnlineInv => RefreshShowsAll
  BY DEF OnlineInv
<1> QED
  BY <1>1, OnlineInvariant, PTL

(* The force unwrap fails only over an owner without an entry at the pull. *)
THEOREM OnlineOwnerTrap == Spec => []OwnerTrapExplained
<1>1. OnlineInv => OwnerTrapExplained
  BY DEF OnlineInv
<1> QED
  BY <1>1, OnlineInvariant, PTL
=============================================================================
