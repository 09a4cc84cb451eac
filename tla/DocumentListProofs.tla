------------------------- MODULE DocumentListProofs -------------------------
(***************************************************************************)
(* The table of local documents, for every set of identifiers: its type,   *)
(* the inductive invariant, and the properties that follow from it.  The   *)
(* facts about the store are those of DocumentStoreProofs, since a step of *)
(* the table is a step of the store or leaves it alone.                    *)
(***************************************************************************)
EXTENDS DocumentList, DocumentStoreProofs

LEMMA ListRunsStore == ListSpec => Spec
<1>1. ListInit => Init
  BY DEF ListInit
<1>2. [ListNext]_vars => [Next]_storeVars
  BY DEF ListNext, vars, ReloadData, CellForRow, ScrollAway, DidSelectRow, Cancel, Ok,
         SaveFromSheet, SaveGoesOn, SaveStep, FlushDefaults, Relaunch, Next
<1> QED
  BY <1>1, <1>2, PTL DEF ListSpec, Spec

(* Under the table and its taps as well, saves look like DocumentLibrary's *)
(* to whoever reads: a document appears complete, in one step, and none is *)
(* altered.                                                                *)
THEOREM ListImplementsLibrary == ListSpec => ImplementsLibrary
BY ListRunsStore, StoreImplementsLibrary

(* No tap, reload or save of the list takes a document off the disk, and   *)
(* none mends an identifier whose archive a termination prevented.         *)
THEOREM ListKeepsDisk == ListSpec => DurableDocumentsKept /\ TornForever
BY ListRunsStore, StoreDurableDocumentsKept, StoreTornForever

(* A list without repetition is as long as the set of its entries.         *)
LEMMA LengthOfInjective ==
    ASSUME NEW s \in Seq(Uid), IsInjective(s)
    PROVE  Len(s) = Cardinality(Range(s))
<1>1. Len(s) \in Nat /\ s \in [1 .. Len(s) -> Uid]
  OBVIOUS
<1>2. s \in Bijection(1 .. Len(s), Range(s))
  BY <1>1 DEF Bijection, Injection, Surjection, Range
<1>3. ExistsBijection(1 .. Len(s), Range(s))
  BY <1>2 DEF ExistsBijection
<1> QED
  BY <1>1, <1>3, FS_CountingElements

(* Rebuilding the array never shortens it: this needs that it held no      *)
(* identifier twice before.                                                *)
LEMMA ListGrows ==
    ASSUME TypeOK, NoDocumentTwice, NEW uid \in Uid, NEW info \in Info,
           NEW image \in Shown, SaveData2Local(uid, info, image)
    PROVE  Len(userDefaults.uidArray) <= Len(userDefaults'.uidArray)
<1> DEFINE old == userDefaults.uidArray
           new == userDefaults'.uidArray
<1>1. old \in Seq(Uid) /\ new \in Seq(Uid)
  BY SaveData2LocalType DEF TypeOK, Domains
<1>2. IsInjective(old) /\ IsInjective(new) /\ Range(old) \subseteq Range(new)
  BY SaveData2LocalLists DEF NoDocumentTwice, Listed
<1>3. Cardinality(Range(old)) <= Cardinality(Range(new))
  BY <1>1, <1>2, ListedFinite, FS_Subset
<1> QED
  BY <1>1, <1>2, <1>3, LengthOfInjective

-----------------------------------------------------------------------------
(* The part of the type the table adds to the store's.                     *)
LEMMA ListStepType ==
    ASSUME ListTypeOK, TypeOK', [ListNext]_vars
    PROVE  ListTypeOK'
<1>0. userDefaults.uidArray \in Seq(Uid) /\ rows \in Nat
  BY DEF ListTypeOK, TypeOK, Domains
<1>1. CASE ReloadData
  <2>1. rows' \in Nat /\ cells' \in [{} -> Uid] /\ {} \in SUBSET (1 .. rows')
    BY <1>0, <1>1 DEF ReloadData, Reloaded
  <2> QED
    BY <1>1, <2>1 DEF ReloadData, Reloaded, ListTypeOK
<1>2. ASSUME NEW row \in 1 .. rows, CellForRow(row)
      PROVE  ListTypeOK'
  <2>1. PICK shown \in SUBSET (1 .. rows) : cells \in [shown -> Uid]
    BY DEF ListTypeOK
  <2>2. Checked(row) = "none" => userDefaults.uidArray[row] \in Uid
    BY <1>0 DEF Checked
  <2>3. /\ Checked(row) # "none" => cells' = cells
        /\ Checked(row) = "none" => cells' \in [shown \cup {row} -> Uid]
    BY <1>2, <2>1, <2>2 DEF CellForRow
  <2>4. \E s \in SUBSET (1 .. rows) : cells' \in [s -> Uid]
    <3>1. shown \cup {row} \in SUBSET (1 .. rows)
      OBVIOUS
    <3> QED
      BY <2>1, <2>3, <3>1
  <2>5. trap' \in {"none", "index", "nil"}
    BY <1>2 DEF CellForRow, Checked
  <2> QED
    BY <1>2, <2>4, <2>5 DEF CellForRow, ListTypeOK
<1>3. ASSUME NEW row \in 1 .. rows, ScrollAway(row)
      PROVE  ListTypeOK'
  <2>1. PICK shown \in SUBSET (1 .. rows) : cells \in [shown -> Uid]
    BY DEF ListTypeOK
  <2>2. cells' \in [shown \ {row} -> Uid] /\ shown \ {row} \in SUBSET (1 .. rows)
    BY <1>3, <2>1 DEF ScrollAway, Restrict
  <2> QED
    BY <1>3, <2>2 DEF ScrollAway, ListTypeOK
<1>4. ASSUME NEW row \in 1 .. rows, DidSelectRow(row)
      PROVE  ListTypeOK'
  <2>1. cells[row] \in Uid
    BY <1>4 DEF DidSelectRow, ListTypeOK
  <2>2. Checked(row) = "none" => userDefaults.uidArray[row] \in Uid
    BY <1>0 DEF Checked
  <2>3. alert' \in Alerts \cup {NoAlert} /\ trap' \in {"none", "index", "nil"}
    BY <1>4, <2>1, <2>2 DEF DidSelectRow, Alerts, Checked
  <2> QED
    BY <1>4, <2>3 DEF DidSelectRow, ListTypeOK
<1>5. CASE Cancel
  BY <1>5 DEF Cancel, ListTypeOK
<1>6. CASE Ok
  <2>1. rows' \in Nat /\ cells' \in [{} -> Uid] /\ {} \in SUBSET (1 .. rows')
    BY <1>6 DEF Ok, NewTable
  <2> QED
    BY <1>6, <2>1 DEF Ok, NewTable, ListTypeOK
<1>7. CASE SaveFromSheet
  BY <1>7 DEF SaveFromSheet, ListTypeOK
<1>8. CASE SaveGoesOn \/ FlushDefaults \/ UNCHANGED vars
  BY <1>8 DEF SaveGoesOn, FlushDefaults, vars, listVars, ListTypeOK
<1>9. CASE Relaunch
  <2>1. rows' \in Nat /\ cells' \in [{} -> Uid] /\ {} \in SUBSET (1 .. rows')
    BY <1>9 DEF Relaunch, NewTable
  <2> QED
    BY <1>9, <2>1 DEF Relaunch, NewTable, ListTypeOK
<1> QED
  BY <1>1, <1>2, <1>3, <1>4, <1>5, <1>6, <1>7, <1>8, <1>9 DEF ListNext

(* Type correctness of the store and the table together.                   *)
THEOREM ListType == ListSpec => []ListTypeOK
<1>1. ListInit /\ TypeOK => ListTypeOK
  <2> SUFFICES ASSUME ListInit, TypeOK PROVE ListTypeOK
    OBVIOUS
  <2>1. cells \in [{} -> Uid] /\ {} \in SUBSET (1 .. rows)
    BY DEF ListInit
  <2> QED
    BY <2>1 DEF ListInit, ListTypeOK
<1>2. ListTypeOK /\ TypeOK' /\ [ListNext]_vars => ListTypeOK'
  BY ListStepType
<1> QED
  BY <1>1, <1>2, ListRunsStore, StoreType, PTL DEF ListSpec

-----------------------------------------------------------------------------
LEMMA InitList == ListInit => ListInv
BY DEF ListInit, Init, ListInv, InStep

LEMMA CheckedIndex ==
    ASSUME NEW row \in Nat, row <= Len(userDefaults.uidArray)
    PROVE  Checked(row) # "index"
BY DEF Checked

LEMMA CheckedNil ==
    ASSUME TypeOK, NEW row \in Nat \ {0}, Checked(row) = "nil"
    PROVE  Torn(userDefaults) # {}
<1>1. userDefaults.uidArray \in Seq(Uid) /\ row <= Len(userDefaults.uidArray)
  BY DEF Checked, TypeOK, Domains
<1>2. userDefaults.uidArray[row] \in Torn(userDefaults)
  BY <1>1 DEF Checked, Torn, Listed, Range
<1> QED
  BY <1>2

LEMMA CellForRowInv ==
    ASSUME TypeOK, ListInv, NEW row \in 1 .. rows, rows \in Nat, CellForRow(row)
    PROVE  ListInv'
<1>1. row \in Nat \ {0} /\ row <= Len(userDefaults.uidArray)
  BY DEF ListInv, TypeOK, Domains
<1>2. /\ trap' # "index" /\ (trap' = "nil" => Torn(userDefaults) # {})
      /\ Checked(row) = "none" =>
             userDefaults.docInfo[userDefaults.uidArray[row]] # NoInfo
  BY <1>1, CheckedIndex, CheckedNil DEF CellForRow, Checked
<1>3. /\ userDefaults' = userDefaults /\ save' = save /\ save = NoSave
      /\ rows' = rows /\ alert' = alert /\ stale' = stale
  BY DEF CellForRow, storeVars, TableActive
<1>4. /\ DOMAIN cells' \subseteq DOMAIN cells \cup {row}
      /\ \A r \in DOMAIN cells' : cells'[r] = IF r = row THEN userDefaults.uidArray[row]
                                              ELSE cells[r]
      /\ row \in DOMAIN cells' => Checked(row) = "none"
  BY DEF CellForRow
<1> QED
  BY <1>2, <1>3, <1>4 DEF ListInv, InStep, Torn, Listed

LEMMA ScrollAwayInv ==
    ASSUME ListInv, NEW row \in 1 .. rows, ScrollAway(row)
    PROVE  ListInv'
BY DEF ScrollAway, ListInv, InStep, Restrict, Torn, Listed, storeVars

LEMMA DidSelectRowInv ==
    ASSUME TypeOK, ListInv, NEW row \in 1 .. rows, rows \in Nat, DidSelectRow(row)
    PROVE  ListInv'
<1>1. row \in Nat \ {0} /\ row <= Len(userDefaults.uidArray)
  BY DEF ListInv, TypeOK, Domains
<1>2. trap' # "index" /\ (trap' = "nil" => Torn(userDefaults) # {})
  BY <1>1, CheckedIndex, CheckedNil DEF DidSelectRow
<1>3. /\ userDefaults' = userDefaults /\ save' = save /\ save = NoSave
      /\ rows' = rows /\ cells' = cells /\ stale' = stale
  BY DEF DidSelectRow, storeVars, TableActive
<1>4. alert' # NoAlert => alert'.shown = cells[row] /\ alert'.uid = userDefaults.uidArray[row]
  BY DEF DidSelectRow
<1>5. row \in DOMAIN cells
  BY DEF DidSelectRow
<1> QED
  BY <1>2, <1>3, <1>4, <1>5 DEF ListInv, InStep, Torn, Listed

LEMMA SaveFromSheetInv ==
    ASSUME TypeOK, NoDocumentTwice, ListInv, rows \in Nat, SaveFromSheet
    PROVE  ListInv'
<1>1. PICK uid \in Uid, info \in Info, image \in Shown : SaveData2Local(uid, info, image)
  BY DEF SaveFromSheet
<1>2. Len(userDefaults.uidArray) <= Len(userDefaults'.uidArray)
  BY <1>1, ListGrows
<1>3. Len(userDefaults.uidArray) \in Nat /\ Len(userDefaults'.uidArray) \in Nat
  BY <1>1, SaveData2LocalType DEF TypeOK, Domains
<1>4. userDefaults'.docInfo = userDefaults.docInfo
  BY <1>1, SaveData2LocalLists
<1> QED
  BY <1>2, <1>3, <1>4 DEF SaveFromSheet, ListInv

LEMMA SaveGoesOnInv ==
    ASSUME ListTypeOK, ListInv, SaveGoesOn
    PROVE  ListInv'
<1>0. TypeOK /\ \A row \in DOMAIN cells : cells[row] \in Uid
  BY DEF ListTypeOK
<1>1. save # NoSave /\ UNCHANGED listVars
  BY DEF SaveGoesOn, SaveStep, SaveImage, SaveImageFails, SaveDocumentInfo, Archived
<1>2. userDefaults'.uidArray = userDefaults.uidArray
  BY <1>0 DEF SaveGoesOn, SaveStep, SaveImage, SaveImageFails, SaveDocumentInfo, Archived, TypeOK, Domains
<1>3. \A u \in Uid : userDefaults.docInfo[u] # NoInfo => userDefaults'.docInfo[u] # NoInfo
  <2>1. CASE SaveDocumentInfo
    <3>1. save.info # NoInfo /\ save.uid \in Uid
      BY <1>0, <2>1, StoreAssumption DEF SaveDocumentInfo, Archived, TypeOK, Saves
    <3> QED
      BY <1>0, <2>1, <3>1 DEF SaveDocumentInfo, Archived, TypeOK, Domains
  <2>2. CASE SaveImage \/ SaveImageFails
    BY <2>2 DEF SaveImage, SaveImageFails
  <2> QED
    BY <2>1, <2>2 DEF SaveGoesOn, SaveStep
<1> QED
  BY <1>0, <1>1, <1>2, <1>3 DEF ListInv, InStep, listVars

LEMMA StepList ==
    ASSUME ListTypeOK, NoDocumentTwice, ListInv, [ListNext]_vars
    PROVE  ListInv'
<1>0. /\ userDefaults.uidArray \in Seq(Uid) /\ persisted.uidArray \in Seq(Uid)
      /\ TypeOK /\ rows \in Nat
  BY DEF ListTypeOK, TypeOK, Domains
<1>1. CASE ReloadData
  BY <1>0, <1>1 DEF ReloadData, Reloaded, TableActive, ListInv, InStep, storeVars, Torn, Listed
<1>2. ASSUME NEW row \in 1 .. rows, CellForRow(row) \/ ScrollAway(row) \/ DidSelectRow(row)
      PROVE  ListInv'
  BY <1>0, <1>2, CellForRowInv, ScrollAwayInv, DidSelectRowInv
<1>3. CASE Cancel
  BY <1>3 DEF Cancel, ListInv, InStep, storeVars, Torn, Listed
<1>4. CASE Ok
  BY <1>0, <1>4 DEF Ok, NewTable, ListInv, InStep, storeVars, Torn, Listed
<1>5. CASE SaveFromSheet
  BY <1>0, <1>5, SaveFromSheetInv
<1>6. CASE SaveGoesOn
  BY <1>6, SaveGoesOnInv
<1>7. CASE FlushDefaults
  BY <1>7 DEF FlushDefaults, Flush, listVars, ListInv, InStep, Torn, Listed
<1>8. CASE Relaunch
  BY <1>0, <1>8 DEF Relaunch, Restart, NewTable, ListInv, InStep
<1>9. CASE UNCHANGED vars
  BY <1>9 DEF vars, storeVars, listVars, ListInv, InStep, Torn, Listed
<1> QED
  BY <1>1, <1>2, <1>3, <1>4, <1>5, <1>6, <1>7, <1>8, <1>9 DEF ListNext

(* The inductive invariant of the table: it never counts more rows than    *)
(* there are identifiers, and agrees with them until a save begins.        *)
THEOREM ListInvariant == ListSpec => []ListInv
<1>1. ListTypeOK /\ NoDocumentTwice /\ ListInv /\ [ListNext]_vars => ListInv'
  BY StepList
<1> QED
  BY <1>1, InitList, ListRunsStore, ListType, StoreNoDocumentTwice, PTL DEF ListSpec

-----------------------------------------------------------------------------
(* "index is out of range uid array" never stops the program.              *)
THEOREM ListIndexAssertHolds == ListSpec => []IndexAssertHolds
<1>1. ListInv => IndexAssertHolds
  BY DEF ListInv, IndexAssertHolds
<1> QED
  BY <1>1, ListInvariant, PTL

(* A tap opens another document than its cell shows only after a save that *)
(* no reload has followed.                                                 *)
THEOREM ListTapOpensShown == ListSpec => []TapOpensShown
<1>1. ListTypeOK /\ ListInv => TapOpensShown
  BY DEF ListTypeOK, ListInv, InStep, TapOpensShown
<1> QED
  BY <1>1, ListType, ListInvariant, PTL

(* "loaded document info class -> nil" stops it only when a termination    *)
(* met a save before it was on disk.                                       *)
THEOREM ListNilOnlyWhenCut == ListSpec => []NilOnlyWhenCut
<1>1. ListInv /\ TornOnlyWhenCut => NilOnlyWhenCut
  BY DEF ListInv, TornOnlyWhenCut, NilOnlyWhenCut
<1> QED
  BY <1>1, ListInvariant, ListRunsStore, StoreTornOnlyWhenCut, PTL

(* Scrolled from end to end after a reload and before a save, the table    *)
(* shows every listed document, and each one once.                         *)
THEOREM ListFreshShowsAll == ListSpec => []FreshListShowsAll
<1>1. ListTypeOK /\ ListInv /\ NoDocumentTwice => FreshListShowsAll
  <2> SUFFICES ASSUME ListTypeOK, ListInv, NoDocumentTwice, ~stale, FullyShown
               PROVE  IsInjective(cells) /\ Range(cells) = Listed(userDefaults)
    BY DEF FreshListShowsAll
  <2>1. userDefaults.uidArray \in Seq(Uid) /\ IsInjective(userDefaults.uidArray)
    BY DEF ListTypeOK, TypeOK, Domains, NoDocumentTwice
  <2>2. /\ DOMAIN cells = 1 .. Len(userDefaults.uidArray)
        /\ \A row \in DOMAIN cells : cells[row] = userDefaults.uidArray[row]
    BY DEF ListInv, InStep, FullyShown
  <2> QED
    BY <2>1, <2>2 DEF IsInjective, Range, Listed
<1> QED
  BY <1>1, ListType, ListInvariant, ListRunsStore, StoreNoDocumentTwice, PTL

(* With an identifier on disk whose archive a termination prevented, the   *)
(* list is never again shown from end to end.                              *)
THEOREM ListCrashLoop == ListSpec => []CrashLoop
<1>1. ListInv /\ StoreInv /\ FreshListShowsAll => CrashLoop
  <2> SUFFICES ASSUME ListInv, StoreInv, FreshListShowsAll,
                      NEW u \in cut \cap Torn(persisted), ~stale, FullyShown
               PROVE  FALSE
    BY DEF CrashLoop
  <2>1. u \in Listed(userDefaults) /\ userDefaults.docInfo[u] = NoInfo
    BY DEF StoreInv, DiskIsBehind, OnlyIssued, IssuedAccounted, Torn
  <2>2. PICK row \in DOMAIN cells : cells[row] = u
    BY <2>1 DEF FreshListShowsAll, Range
  <2> QED
    BY <2>1, <2>2 DEF ListInv
<1> QED
  BY <1>1, ListInvariant, ListRunsStore, StoreInvariant, ListFreshShowsAll, PTL
=============================================================================
