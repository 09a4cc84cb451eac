------------------------ MODULE DocumentStoreProofs ------------------------
(***************************************************************************)
(* The store for every set of identifiers, contents and pictures: its      *)
(* type, the inductive invariant, the properties that follow from it, and  *)
(* that it implements DocumentLibrary.                                     *)
(***************************************************************************)
EXTENDS DocumentStore, FiniteSetTheorems, SequenceTheorems, TLAPS

-----------------------------------------------------------------------------
(* The entries of a finite sequence are finitely many.                     *)
LEMMA ListedFinite ==
    ASSUME NEW s \in Seq(Uid)
    PROVE  Range(s) \subseteq Uid /\ IsFiniteSet(Range(s))
<1>1. PICK n \in Nat : s \in [1 .. n -> Uid]
  BY SMT
<1>2. Range(s) \subseteq Uid
  BY <1>1 DEF Range
<1>3. s \in Surjection(1 .. n, Range(s))
  BY <1>1 DEF Surjection, Range
<1>4. IsFiniteSet(1 .. n)
  BY <1>1, FS_Interval
<1> QED
  BY <1>2, <1>3, <1>4, FS_Surjection

(* Array(Set(..)) returns the old identifiers and the new one, each once.  *)
LEMMA AddUidResult ==
    ASSUME NEW s \in Seq(Uid), NEW uid \in Uid, NEW new \in AddUid(s, uid)
    PROVE  /\ new \in Seq(Uid)
           /\ Range(new) = Range(s) \cup {uid}
           /\ IsInjective(new)
<1> DEFINE all == Range(s) \cup {uid}
           n == Cardinality(all)
<1>1. all \subseteq Uid /\ n \in Nat
  BY ListedFinite, FS_AddElement, FS_CardinalityType
<1>2. new \in [1 .. n -> all] /\ IsInjective(new)
           /\ \A t \in all : \E i \in 1 .. n : new[i] = t
  BY DEF AddUid, Bijection, Injection, Surjection
<1>3. new \in Seq(Uid)
  <2>1. new \in [1 .. n -> Uid]
    BY <1>1, <1>2
  <2> QED
    BY <2>1, <1>1, SeqDef
<1>4. Range(new) = all
  BY <1>2 DEF Range
<1> QED
  BY <1>2, <1>3, <1>4

-----------------------------------------------------------------------------
LEMMA InitType == Init => TypeOK
BY SaveAssumption DEF Init, TypeOK, Domains

LEMMA SaveData2LocalType ==
    ASSUME TypeOK, NEW uid \in Uid, NEW info \in Info, NEW image \in Shown,
           SaveData2Local(uid, info, image)
    PROVE  TypeOK'
<1>1. PICK new \in AddUid(userDefaults.uidArray, uid) :
          userDefaults' = [userDefaults EXCEPT !.uidArray = new]
  BY DEF SaveData2Local
<1>2. userDefaults.uidArray \in Seq(Uid)
  BY DEF TypeOK, Domains
<1>3. new \in Seq(Uid)
  BY <1>2, AddUidResult
<1>4. userDefaults' \in Domains
  BY <1>1, <1>3 DEF TypeOK, Domains
<1>5. save' \in Saves
  BY StoreAssumption DEF SaveData2Local, Saves
<1> QED
  BY <1>4, <1>5 DEF TypeOK, SaveData2Local

LEMMA StepType == TypeOK /\ [Next]_storeVars => TypeOK'
<1> SUFFICES ASSUME TypeOK, [Next]_storeVars PROVE TypeOK'
  OBVIOUS
<1>1. ASSUME NEW uid \in Uid, NEW info \in Info, NEW image \in Shown,
             SaveData2Local(uid, info, image)
      PROVE  TypeOK'
  BY <1>1, SaveData2LocalType
<1>2. CASE SaveImage
  BY <1>2 DEF SaveImage, WriteImage, GoOn, TypeOK, Saves
<1>3. CASE SaveImageFails
  BY <1>3 DEF SaveImageFails, GoOn, TypeOK, Saves
<1>4. CASE SaveDocumentInfo
  BY <1>4 DEF SaveDocumentInfo, Archived, TypeOK, Domains, Saves
<1>5. CASE Flush
  BY <1>5 DEF Flush, TypeOK
<1>6. CASE Restart
  BY <1>6 DEF Restart, TypeOK
<1>7. CASE UNCHANGED storeVars
  BY <1>7 DEF storeVars, TypeOK
<1> QED
  BY <1>1, <1>2, <1>3, <1>4, <1>5, <1>6, <1>7 DEF Next

(* Type correctness of the store.                                          *)
THEOREM StoreType == Spec => []TypeOK
BY InitType, StepType, PTL DEF Spec

-----------------------------------------------------------------------------
LEMMA InitInv == Init => StoreInv
<1> SUFFICES ASSUME Init PROVE StoreInv
  OBVIOUS
<1>1. Listed(userDefaults) = {} /\ Listed(persisted) = {}
  BY DEF Init, Listed, Range
<1> QED
  BY <1>1 DEF Init, StoreInv, ArchivedIsListed, DiskIsBehind, OnlyIssued,
              SaveUnderWay, IssuedAccounted

(* addUid lists one more identifier and archives nothing.                  *)
LEMMA SaveData2LocalLists ==
    ASSUME TypeOK, NEW uid \in Uid, NEW info \in Info, NEW image \in Shown,
           SaveData2Local(uid, info, image)
    PROVE  /\ Listed(userDefaults)' = Listed(userDefaults) \cup {uid}
           /\ IsInjective(userDefaults'.uidArray)
           /\ userDefaults'.docInfo = userDefaults.docInfo
           /\ save' \in Saves /\ save'.uid = uid
<1>1. PICK new \in AddUid(userDefaults.uidArray, uid) :
          userDefaults' = [userDefaults EXCEPT !.uidArray = new]
  BY DEF SaveData2Local
<1>2. userDefaults.uidArray \in Seq(Uid)
  BY DEF TypeOK, Domains
<1>3. Range(new) = Range(userDefaults.uidArray) \cup {uid} /\ IsInjective(new)
  BY <1>2, AddUidResult
<1>4. userDefaults'.uidArray = new /\ userDefaults'.docInfo = userDefaults.docInfo
  BY <1>1 DEF TypeOK, Domains
<1>5. save' \in Saves /\ save'.uid = uid
  BY StoreAssumption DEF SaveData2Local, Saves
<1> QED
  BY <1>3, <1>4, <1>5 DEF Listed

LEMMA SaveData2LocalInv ==
    ASSUME TypeOK, StoreInv, NEW uid \in Uid, NEW info \in Info, NEW image \in Shown,
           SaveData2Local(uid, info, image)
    PROVE  StoreInv'
<1>1. /\ Listed(userDefaults)' = Listed(userDefaults) \cup {uid}
      /\ userDefaults'.docInfo = userDefaults.docInfo
      /\ save' # NoSave /\ save'.uid = uid
  BY SaveData2LocalLists, SaveAssumption
<1>2. save = NoSave /\ uid \notin issued /\ issued' = issued \cup {uid}
      /\ persisted' = persisted /\ cut' = cut
  BY DEF SaveData2Local
<1>3. Listed(persisted)' = Listed(persisted)
  BY <1>2 DEF Listed
<1>4. userDefaults.docInfo[uid] = NoInfo
  BY <1>2 DEF StoreInv, ArchivedIsListed, OnlyIssued
<1>5. ArchivedIsListed'
  BY <1>1, <1>2, <1>3 DEF StoreInv, ArchivedIsListed, Listed
<1>6. DiskIsBehind'
  BY <1>1, <1>2, <1>3 DEF StoreInv, DiskIsBehind
<1>7. OnlyIssued'
  BY <1>1, <1>2 DEF StoreInv, OnlyIssued
<1>8. SaveUnderWay'
  BY <1>1, <1>2, <1>4 DEF StoreInv, SaveUnderWay, OnlyIssued
<1>9. IssuedAccounted'
  BY <1>1, <1>2 DEF StoreInv, IssuedAccounted, OnlyIssued
<1> QED
  BY <1>5, <1>6, <1>7, <1>8, <1>9 DEF StoreInv

(* The picture is written or not: either way only the next call changes.   *)
LEMMA GoOnInv ==
    ASSUME TypeOK, StoreInv, save # NoSave, GoOn,
           UNCHANGED <<userDefaults, persisted, issued, cut>>
    PROVE  StoreInv'
<1>1. save' # NoSave /\ save'.uid = save.uid
  BY SaveAssumption DEF TypeOK, GoOn, Saves
<1> QED
  BY <1>1 DEF StoreInv, ArchivedIsListed, DiskIsBehind, OnlyIssued, SaveUnderWay,
              IssuedAccounted, Listed

LEMMA SaveDocumentInfoInv ==
    ASSUME TypeOK, StoreInv, SaveDocumentInfo
    PROVE  StoreInv'
<1> DEFINE u == save.uid
<1>1. save \in Saves /\ u \in Uid /\ save.info \in Info /\ save.info # NoInfo
  BY StoreAssumption DEF TypeOK, SaveDocumentInfo, Archived, Saves
<1>2. /\ userDefaults'.docInfo = [userDefaults.docInfo EXCEPT ![u] = save.info]
      /\ userDefaults'.uidArray = userDefaults.uidArray
  BY DEF SaveDocumentInfo, Archived, TypeOK, Domains
<1>3. /\ userDefaults'.docInfo[u] # NoInfo
      /\ \A v \in Uid \ {u} : userDefaults'.docInfo[v] = userDefaults.docInfo[v]
  BY <1>1, <1>2 DEF TypeOK, Domains
<1>4. save' = NoSave /\ persisted' = persisted /\ issued' = issued /\ cut' = cut
  BY DEF SaveDocumentInfo, Archived
<1>5. /\ Listed(userDefaults)' = Listed(userDefaults)
      /\ Listed(persisted)' = Listed(persisted)
  BY <1>2, <1>4 DEF Listed
<1>6. u \in Listed(userDefaults) /\ u \notin cut /\ userDefaults.docInfo[u] = NoInfo
  BY DEF StoreInv, SaveUnderWay, SaveDocumentInfo
<1>7. ArchivedIsListed'
  BY <1>3, <1>4, <1>5, <1>6 DEF StoreInv, ArchivedIsListed
<1>8. DiskIsBehind'
  BY <1>3, <1>4, <1>5, <1>6 DEF StoreInv, DiskIsBehind
<1>9. OnlyIssued' /\ SaveUnderWay'
  BY <1>4, <1>5 DEF StoreInv, OnlyIssued, SaveUnderWay
<1>10. IssuedAccounted'
  BY <1>3, <1>4, <1>6 DEF StoreInv, IssuedAccounted, TypeOK
<1> QED
  BY <1>7, <1>8, <1>9, <1>10 DEF StoreInv

LEMMA FlushInv ==
    ASSUME TypeOK, StoreInv, Flush
    PROVE  StoreInv'
BY DEF Flush, StoreInv, ArchivedIsListed, DiskIsBehind, OnlyIssued, SaveUnderWay,
       IssuedAccounted, Listed

(* A relaunch reads the disk, which is behind memory but never ahead; the  *)
(* saves whose archive it lacks are cut from now on.                       *)
LEMMA RestartInv ==
    ASSUME TypeOK, StoreInv, Restart
    PROVE  StoreInv'
<1>1. /\ userDefaults' = persisted /\ persisted' = persisted /\ issued' = issued
      /\ save' = NoSave /\ cut' = cut \cup {u \in issued : persisted.docInfo[u] = NoInfo}
  BY DEF Restart
<1>2. Listed(userDefaults)' = Listed(persisted) /\ Listed(persisted)' = Listed(persisted)
  BY <1>1 DEF Listed
<1>3. ArchivedIsListed'
  BY <1>1, <1>2 DEF StoreInv, ArchivedIsListed
<1>4. DiskIsBehind' /\ SaveUnderWay'
  BY <1>1, <1>2 DEF DiskIsBehind, SaveUnderWay
<1>5. OnlyIssued'
  BY <1>1, <1>2 DEF StoreInv, OnlyIssued, DiskIsBehind
<1>6. IssuedAccounted'
  BY <1>1 DEF StoreInv, IssuedAccounted, DiskIsBehind, TypeOK
<1> QED
  BY <1>3, <1>4, <1>5, <1>6 DEF StoreInv

LEMMA StepInv == TypeOK /\ StoreInv /\ [Next]_storeVars => StoreInv'
<1> SUFFICES ASSUME TypeOK, StoreInv, [Next]_storeVars PROVE StoreInv'
  OBVIOUS
<1>1. ASSUME NEW uid \in Uid, NEW info \in Info, NEW image \in Shown,
             SaveData2Local(uid, info, image)
      PROVE  StoreInv'
  BY <1>1, SaveData2LocalInv
<1>2. CASE SaveImage
  BY <1>2, GoOnInv DEF SaveImage
<1>3. CASE SaveImageFails
  BY <1>3, GoOnInv DEF SaveImageFails
<1>4. CASE SaveDocumentInfo
  BY <1>4, SaveDocumentInfoInv
<1>5. CASE Flush
  BY <1>5, FlushInv
<1>6. CASE Restart
  BY <1>6, RestartInv
<1>7. CASE UNCHANGED storeVars
  BY <1>7 DEF storeVars, StoreInv, ArchivedIsListed, DiskIsBehind, OnlyIssued,
              SaveUnderWay, IssuedAccounted, Listed
<1> QED
  BY <1>1, <1>2, <1>3, <1>4, <1>5, <1>6, <1>7 DEF Next

(* The inductive invariant: memory and disk agree, and every issued        *)
(* identifier is archived, being saved, or was cut by a termination.       *)
THEOREM StoreInvariant == Spec => []StoreInv
BY InitType, StepType, InitInv, StepInv, PTL DEF Spec

-----------------------------------------------------------------------------
(* Whatever is archived is listed, in memory and on disk.                  *)
THEOREM StoreArchivedIsListed == Spec => []ArchivedIsListed
<1>1. StoreInv => ArchivedIsListed
  BY DEF StoreInv
<1> QED
  BY <1>1, StoreInvariant, PTL

(* A listed identifier lacks its archive only while its save runs or       *)
(* because a termination came before that save was on disk.                *)
THEOREM StoreTornOnlyWhenCut == Spec => []TornOnlyWhenCut
<1>1. StoreInv => TornOnlyWhenCut
  BY DEF StoreInv, OnlyIssued, IssuedAccounted, TornOnlyWhenCut, Torn
<1> QED
  BY <1>1, StoreInvariant, PTL

(* No document is listed twice, however often the array is rebuilt.        *)
THEOREM StoreNoDocumentTwice == Spec => []NoDocumentTwice
<1>1. Init => NoDocumentTwice
  BY DEF Init, NoDocumentTwice, IsInjective
<1>2. TypeOK /\ NoDocumentTwice /\ [Next]_storeVars => NoDocumentTwice'
  <2> SUFFICES ASSUME TypeOK, NoDocumentTwice, [Next]_storeVars
               PROVE  IsInjective(userDefaults'.uidArray) /\ IsInjective(persisted'.uidArray)
    BY DEF NoDocumentTwice
  <2>1. IsInjective(userDefaults.uidArray) /\ IsInjective(persisted.uidArray)
    BY DEF NoDocumentTwice
  <2>2. ASSUME NEW uid \in Uid, NEW info \in Info, NEW image \in Shown,
               SaveData2Local(uid, info, image)
        PROVE  IsInjective(userDefaults'.uidArray) /\ persisted' = persisted
    BY <2>2, SaveData2LocalLists DEF SaveData2Local
  <2>3. CASE SaveDocumentInfo
    BY <2>1, <2>3 DEF SaveDocumentInfo, Archived, TypeOK, Domains
  <2>4. CASE SaveImage \/ SaveImageFails \/ Flush \/ Restart \/ UNCHANGED storeVars
    BY <2>1, <2>4 DEF SaveImage, WriteImage, SaveImageFails, Flush, Restart, storeVars
  <2> QED
    BY <2>1, <2>2, <2>3, <2>4 DEF Next
<1> QED
  BY <1>1, <1>2, StoreType, PTL DEF Spec

(* What a termination left without archive on disk is never repaired.      *)
THEOREM StoreTornForever == Spec => TornForever
<1> DEFINE Kept == \A u \in cut \cap Torn(persisted) :
                      u \in Torn(persisted') /\ u \in Torn(userDefaults')
<1>1. TypeOK /\ StoreInv /\ [Next]_storeVars => [Kept]_storeVars
  <2> SUFFICES ASSUME TypeOK, StoreInv, Next, NEW u \in cut \cap Torn(persisted)
               PROVE  u \in Torn(persisted') /\ u \in Torn(userDefaults')
    OBVIOUS
  <2>1. /\ u \in Listed(persisted) /\ persisted.docInfo[u] = NoInfo
        /\ u \in Listed(userDefaults) /\ userDefaults.docInfo[u] = NoInfo
        /\ u \in issued /\ (save # NoSave => save.uid # u)
    BY DEF Torn, StoreInv, DiskIsBehind, OnlyIssued, IssuedAccounted, SaveUnderWay
  <2>2. ASSUME NEW uid \in Uid, NEW info \in Info, NEW image \in Shown,
               SaveData2Local(uid, info, image)
        PROVE  u \in Torn(persisted') /\ u \in Torn(userDefaults')
    <3>1. /\ Listed(userDefaults') = Listed(userDefaults) \cup {uid}
          /\ userDefaults'.docInfo = userDefaults.docInfo
      BY <2>2, SaveData2LocalLists DEF Listed
    <3>2. persisted' = persisted
      BY <2>2 DEF SaveData2Local
    <3> QED
      BY <2>1, <3>1, <3>2 DEF Torn
  <2>3. CASE SaveDocumentInfo
    <3>1. /\ userDefaults'.docInfo = [userDefaults.docInfo EXCEPT ![save.uid] = save.info]
          /\ userDefaults'.uidArray = userDefaults.uidArray
      BY <2>3 DEF SaveDocumentInfo, Archived, TypeOK, Domains
    <3>2. userDefaults'.docInfo[u] = NoInfo /\ persisted' = persisted
      BY <2>1, <2>3, <3>1 DEF SaveDocumentInfo, Archived, TypeOK, Domains
    <3> QED
      BY <2>1, <3>1, <3>2 DEF Torn, Listed
  <2>4. CASE SaveImage \/ SaveImageFails \/ Flush \/ Restart
    BY <2>1, <2>4 DEF SaveImage, WriteImage, SaveImageFails, Flush, Restart, Torn
  <2> QED
    BY <2>2, <2>3, <2>4 DEF Next
<1> QED
  BY <1>1, StoreType, StoreInvariant, PTL DEF Spec, TornForever

-----------------------------------------------------------------------------
LEMMA InitImplements == Init => Library!Init
<1> SUFFICES ASSUME Init PROVE Library!Init
  OBVIOUS
<1>1. Listed(userDefaults) = {} /\ persisted = userDefaults
  BY DEF Init, Listed, Range
<1> QED
  BY <1>1 DEF Library!Init, Readable, NoDocument

(* addUid: a reader sees nothing of it, since the new identifier has no    *)
(* archive.                                                                *)
LEMMA SaveData2LocalStutters ==
    ASSUME TypeOK, StoreInv, NEW uid \in Uid, NEW info \in Info, NEW image \in Shown,
           SaveData2Local(uid, info, image)
    PROVE  UNCHANGED <<Readable(userDefaults), Readable(persisted)>>
<1>1. /\ Listed(userDefaults)' = Listed(userDefaults) \cup {uid}
      /\ userDefaults'.docInfo = userDefaults.docInfo
  BY SaveData2LocalLists
<1>2. persisted' = persisted /\ files' = files /\ uid \notin issued
  BY DEF SaveData2Local
<1>3. userDefaults.docInfo[uid] = NoInfo
  BY <1>2 DEF StoreInv, ArchivedIsListed, OnlyIssued
<1>4. Readable(userDefaults)' = Readable(userDefaults)
  BY <1>1, <1>2, <1>3 DEF Readable
<1>5. Readable(persisted)' = Readable(persisted)
  BY <1>2 DEF Readable, Listed
<1> QED
  BY <1>4, <1>5

(* The picture of a document that is not archived is not read by anyone.   *)
LEMMA SaveImageStutters ==
    ASSUME TypeOK, StoreInv, SaveImage
    PROVE  UNCHANGED <<Readable(userDefaults), Readable(persisted)>>
<1>1. userDefaults.docInfo[save.uid] = NoInfo /\ save.uid \in Uid
  BY DEF SaveImage, WriteImage, StoreInv, SaveUnderWay, TypeOK, Saves
<1>2. persisted.docInfo[save.uid] = NoInfo
  BY <1>1 DEF StoreInv, DiskIsBehind
<1>3. /\ userDefaults' = userDefaults /\ persisted' = persisted
      /\ \A v \in Uid \ {save.uid} : files'[v] = files[v]
  BY DEF SaveImage, WriteImage, TypeOK
<1> QED
  BY <1>1, <1>2, <1>3 DEF Readable, Listed

(* saveDocumentInfo is the step that adds the document.                    *)
LEMMA SaveDocumentInfoSaves ==
    ASSUME TypeOK, StoreInv, SaveDocumentInfo
    PROVE  \E u \in Uid, d \in Document : Library!Save(u, d)
<1> DEFINE u == save.uid
           d == [info |-> save.info, image |-> files[u]]
<1>1. u \in Uid /\ save.info \in Info /\ save.info # NoInfo /\ d \in Document
  BY StoreAssumption DEF TypeOK, SaveDocumentInfo, Archived, Saves, Document
<1>2. /\ userDefaults'.docInfo = [userDefaults.docInfo EXCEPT ![u] = save.info]
      /\ userDefaults'.uidArray = userDefaults.uidArray
      /\ persisted' = persisted /\ files' = files
  BY DEF SaveDocumentInfo, Archived, TypeOK, Domains
<1>3. u \in Listed(userDefaults) /\ userDefaults.docInfo[u] = NoInfo
  BY DEF SaveDocumentInfo, Archived, StoreInv, SaveUnderWay
<1>4. /\ userDefaults'.docInfo[u] = save.info
      /\ \A v \in Uid \ {u} : userDefaults'.docInfo[v] = userDefaults.docInfo[v]
  BY <1>1, <1>2 DEF TypeOK, Domains
<1>5. Readable(userDefaults)[u] = NoDocument
  BY <1>1, <1>3 DEF Readable
<1>6. Readable(userDefaults)' = [Readable(userDefaults) EXCEPT ![u] = d]
  BY <1>1, <1>2, <1>3, <1>4 DEF Readable, Listed
<1>7. Readable(persisted)' = Readable(persisted)
  BY <1>2 DEF Readable, Listed
<1> HIDE DEF d, u
<1> QED
  BY <1>1, <1>5, <1>6, <1>7 DEF Library!Save

LEMMA StepImplements ==
    TypeOK /\ StoreInv /\ [Next]_storeVars => [Library!Next]_(Library!vars)
<1> SUFFICES ASSUME TypeOK, StoreInv, [Next]_storeVars
             PROVE  Library!Next \/ UNCHANGED Library!vars
  OBVIOUS
<1>1. ASSUME NEW uid \in Uid, NEW info \in Info, NEW image \in Shown,
             SaveData2Local(uid, info, image)
      PROVE  UNCHANGED Library!vars
  BY <1>1, SaveData2LocalStutters DEF Library!vars
<1>2. CASE SaveImage
  BY <1>2, SaveImageStutters DEF Library!vars
<1>3. CASE SaveImageFails
  BY <1>3 DEF SaveImageFails, Library!vars, Readable, Listed
<1>4. CASE SaveDocumentInfo
  BY <1>4, SaveDocumentInfoSaves DEF Library!Next
<1>5. CASE Flush
  <2>1. Library!Persist
    BY <1>5 DEF Flush, Library!Persist, Readable, Listed
  <2> QED
    BY <2>1 DEF Library!Next
<1>6. CASE Restart
  <2>1. Library!Lose
    BY <1>6 DEF Restart, Library!Lose, Readable, Listed
  <2> QED
    BY <2>1 DEF Library!Next
<1>7. CASE UNCHANGED storeVars
  BY <1>7 DEF storeVars, Library!vars, Readable, Listed
<1> QED
  BY <1>1, <1>2, <1>3, <1>4, <1>5, <1>6, <1>7 DEF Next

(* The store implements the library: a reader sees a document appear whole *)
(* or not at all, and never change.                                        *)
THEOREM StoreImplementsLibrary == Spec => ImplementsLibrary
BY InitImplements, StepImplements, StoreType, StoreInvariant, PTL
   DEF Spec, ImplementsLibrary, Library!Spec

LibraryProofs == INSTANCE DocumentLibraryProofs
                    WITH library <- Readable(userDefaults), durable <- Readable(persisted)

(* What DocumentLibrary promises of durable documents the store keeps: a   *)
(* document on disk stays there, unaltered.                                *)
THEOREM StoreDurableDocumentsKept == Spec => DurableDocumentsKept
<1>1. Library!Spec => Library!DurableForever
  <2>1. Library!Init <=> LibraryProofs!Init
    BY DEF Library!Init, LibraryProofs!Init
  <2>2. [Library!Next]_(Library!vars) <=> [LibraryProofs!Next]_(LibraryProofs!vars)
    BY DEF Library!Next, LibraryProofs!Next, Library!vars, LibraryProofs!vars,
           Library!Save, LibraryProofs!Save, Library!Persist, LibraryProofs!Persist,
           Library!Lose, LibraryProofs!Lose
  <2>3. [\A u \in Uid : Readable(persisted)[u] # NoDocument =>
             Readable(persisted)'[u] = Readable(persisted)[u]]_(Library!vars)
           <=> [\A u \in Uid : Readable(persisted)[u] # NoDocument =>
                    Readable(persisted)'[u] = Readable(persisted)[u]]_(LibraryProofs!vars)
    BY DEF Library!vars, LibraryProofs!vars
  <2> QED
    BY <2>1, <2>2, <2>3, LibraryProofs!DurableStays, PTL
       DEF Library!Spec, LibraryProofs!Spec, Library!DurableForever, LibraryProofs!DurableForever
<1> QED
  BY <1>1, StoreImplementsLibrary DEF ImplementsLibrary, DurableDocumentsKept
=============================================================================
