--------------------------- MODULE DocumentStore ---------------------------
(***************************************************************************)
(* The local document storage: the singleton DocumentDataOperator, the     *)
(* UserDefaults and the Documents directory behind it, and the one handler *)
(* that writes to it, saveData2Local of DocumentSaveSceneVC.               *)
(*                                                                         *)
(* A save is three calls on the main thread: addUid puts the new           *)
(* identifier in the list, saveImage compresses and writes the picture,    *)
(* saveDocumentInfo archives the rest.  Nothing else runs on the main      *)
(* thread meanwhile, but the process can end between any two of them: the  *)
(* system or the user kills it, `jpgImageData!' finds nil, archiving stops *)
(* at fatalError.                                                          *)
(*                                                                         *)
(* UserDefaults answers from memory and writes to disk later, the whole    *)
(* domain at once, so there are two copies of it; picture files are        *)
(* written when the call returns.                                          *)
(***************************************************************************)
EXTENDS Naturals, Sequences, FiniteSets, Functions

CONSTANTS
    Uid,        \* what NSUUID().uuidString may return
    Info,       \* the explain, savedDate and context of a document
    NoInfo,     \* loadDocumentInfo's nil
    Image,      \* pictures
    NoImage,    \* loadImageFromPath's nil, and a nil imageView.image
    Shown,      \* what imageView.image can be when the user saves
    NoSave      \* saveData2Local is not running

ASSUME StoreAssumption ==
    /\ NoInfo \notin Info
    /\ NoImage \notin Image
    /\ Shown \subseteq Image \cup {NoImage}

VARIABLES
    userDefaults,   \* the domain as the running process reads it
    persisted,      \* the domain as a relaunched process would read it
    files,          \* the picture file of each identifier
    save,           \* the call of saveData2Local under way, and where it is
    issued,         \* history: identifiers handed out by NSUUID
    cut             \* history: saves a termination met before they were on disk

storeVars == <<userDefaults, persisted, files, save, issued, cut>>

(* uidArray is the value of DATA_UID_KEY, empty when the key has no value  *)
(* (getUidArray reads both alike); docInfo[u] is what is stored under u.   *)
Domains == [uidArray : Seq(Uid), docInfo : [Uid -> Info \cup {NoInfo}]]

(* A DocumentInfo with its picture, and the call that comes next.          *)
Saves == [next : {"saveImage", "saveDocumentInfo"},
          uid : Uid, info : Info, image : Image \cup {NoImage}]

ASSUME SaveAssumption == NoSave \notin Saves

Listed(domain) == Range(domain.uidArray)

TypeOK ==
    /\ userDefaults \in Domains
    /\ persisted \in Domains
    /\ files \in [Uid -> Image \cup {NoImage}]
    /\ save \in Saves \cup {NoSave}
    /\ issued \subseteq Uid
    /\ cut \subseteq Uid

Init ==
    /\ userDefaults = [uidArray |-> <<>>, docInfo |-> [u \in Uid |-> NoInfo]]
    /\ persisted = userDefaults
    /\ files = [u \in Uid |-> NoImage]
    /\ save = NoSave
    /\ issued = {}
    /\ cut = {}

-----------------------------------------------------------------------------
(* Operators named Slip... are wrong versions of the definition each of    *)
(* them precedes; a property is worth checking if it notices one.          *)

(* addUid: the array is rebuilt as Array(Set(..)), so any order of the old *)
(* identifiers and the new one may come back.                              *)
SlipAddUid(uidArray, uid) == {<<uid>>}
AddUid(uidArray, uid) ==
    LET all == Range(uidArray) \cup {uid}
    IN  Bijection(1 .. Cardinality(all), all)

(* saveData2Local up to and including addUid; the picture decides whether  *)
(* saveDocumentData or saveDocumentInfo alone follows.                     *)
SaveData2Local(uid, info, image) ==
    /\ save = NoSave
    /\ uid \notin issued
    /\ issued' = issued \cup {uid}
    /\ \E newUidArray \in AddUid(userDefaults.uidArray, uid) :
          userDefaults' = [userDefaults EXCEPT !.uidArray = newUidArray]
    /\ save' = [next |-> IF image = NoImage THEN "saveDocumentInfo" ELSE "saveImage",
                uid |-> uid, info |-> info, image |-> image]
    /\ UNCHANGED <<persisted, files, cut>>

(* The rest of saveDocumentData is reached whether or not the picture was  *)
(* written: its `if !saveImage' only prints.                               *)
SlipGoOn == save' = NoSave
GoOn == save' = [save EXCEPT !.next = "saveDocumentInfo"]

SlipWriteOneFile == files' = [u \in Uid |-> save.image]
SlipWriteText == files' = [files EXCEPT ![save.uid] = save.info]
WriteImage == files' = [files EXCEPT ![save.uid] = save.image]

SaveImage ==
    /\ save # NoSave /\ save.next = "saveImage"
    /\ WriteImage
    /\ GoOn
    /\ UNCHANGED <<userDefaults, persisted, issued, cut>>

(* write(to:) throws, for instance on a full disk.                         *)
SaveImageFails ==
    /\ save # NoSave /\ save.next = "saveImage"
    /\ GoOn
    /\ UNCHANGED <<userDefaults, persisted, files, issued, cut>>

SlipArchived == [uidArray |-> Append(userDefaults.uidArray, save.uid),
                 docInfo |-> [userDefaults.docInfo EXCEPT ![save.uid] = save.info]]
Archived == [userDefaults EXCEPT !.docInfo[save.uid] = save.info]

SaveDocumentInfo ==
    /\ save # NoSave /\ save.next = "saveDocumentInfo"
    /\ userDefaults' = Archived
    /\ save' = NoSave
    /\ UNCHANGED <<persisted, files, issued, cut>>

(* UserDefaults writes the domain to disk at a time of its own choosing.   *)
Flush ==
    /\ persisted' = userDefaults
    /\ UNCHANGED <<userDefaults, files, save, issued, cut>>

(* The process ends, in the middle of a save or not, and is launched again *)
(* with what UserDefaults has on disk.                                     *)
Restart ==
    /\ userDefaults' = persisted
    /\ save' = NoSave
    /\ cut' = cut \cup {u \in issued : persisted.docInfo[u] = NoInfo}
    /\ UNCHANGED <<persisted, files, issued>>

Next ==
    \/ \E uid \in Uid, info \in Info, image \in Shown : SaveData2Local(uid, info, image)
    \/ SaveImage
    \/ SaveImageFails
    \/ SaveDocumentInfo
    \/ Flush
    \/ Restart

Spec == Init /\ [][Next]_storeVars

(* A handler that has begun runs on to its end unless the process dies,    *)
(* and UserDefaults does write to disk some time.                          *)
SaveStep == SaveImage \/ SaveImageFails \/ SaveDocumentInfo

FairSpec == Spec /\ WF_storeVars(SaveStep) /\ WF_storeVars(Flush)

-----------------------------------------------------------------------------
(* The library a reader of the store sees: what is listed and archived.    *)
Document == [info : Info, image : Image \cup {NoImage}]
NoDocument == NoInfo

Readable(domain) ==
    [u \in Uid |-> IF u \in Listed(domain) /\ domain.docInfo[u] # NoInfo
                   THEN [info |-> domain.docInfo[u], image |-> files[u]]
                   ELSE NoDocument]

Library == INSTANCE DocumentLibrary
              WITH library <- Readable(userDefaults), durable <- Readable(persisted)

(* The three calls of a save appear to a reader as one step, a termination *)
(* between them included: the store implements DocumentLibrary.            *)
ImplementsLibrary == Library!Spec

(* A document that reached the disk is there for ever, with the same text  *)
(* and the same picture, whatever is saved or cut short later.             *)
DurableDocumentsKept == Library!DurableForever

(* No document is listed twice, in memory or on disk, however often the    *)
(* array is rebuilt: the table would otherwise show it in two rows.        *)
NoDocumentTwice ==
    \A domain \in {userDefaults, persisted} : IsInjective(domain.uidArray)

(* Whatever is archived is listed: no document can be stored where         *)
(* DocumentListVC never looks for it, after any termination.               *)
ArchivedIsListed ==
    \A domain \in {userDefaults, persisted} : \A u \in Uid :
        domain.docInfo[u] # NoInfo => u \in Listed(domain)

(* DocumentListVC stops the program at an identifier without an archive.   *)
(* There is one only while its save runs, or because a termination came    *)
(* before that save was on disk: a picture that cannot be written, say,    *)
(* leaves none.                                                            *)
Torn(domain) == {u \in Listed(domain) : domain.docInfo[u] = NoInfo}

TornOnlyWhenCut ==
    \A u \in Torn(userDefaults) : u \in cut \/ (save # NoSave /\ save.uid = u)

(* The inductive invariant behind the properties above.                    *)
(* The disk is behind memory and never contradicts it.                     *)
DiskIsBehind ==
    /\ Listed(persisted) \subseteq Listed(userDefaults)
    /\ \A u \in Uid : persisted.docInfo[u] # NoInfo =>
                         userDefaults.docInfo[u] = persisted.docInfo[u]

(* An identifier is used only after it was issued, and the one being saved *)
(* is listed but not archived, and was never cut.                          *)
OnlyIssued == Listed(userDefaults) \cup cut \subseteq issued

SaveUnderWay ==
    save # NoSave =>
        /\ save.uid \in Listed(userDefaults) \ cut
        /\ userDefaults.docInfo[save.uid] = NoInfo

(* Every issued identifier is archived, being saved, or was cut; one that  *)
(* was cut has no archive.                                                 *)
IssuedAccounted ==
    \A u \in issued :
        IF u \in cut THEN userDefaults.docInfo[u] = NoInfo
        ELSE (save # NoSave /\ save.uid = u) \/ userDefaults.docInfo[u] # NoInfo

StoreInv ==
    /\ ArchivedIsListed
    /\ DiskIsBehind
    /\ OnlyIssued
    /\ SaveUnderWay
    /\ IssuedAccounted

(* An identifier that a termination left on disk without its archive stays *)
(* so for ever: no code removes it (removeUid has no caller) and no later  *)
(* save repairs it, since a save takes a new identifier.                   *)
TornForever ==
    [][\A u \in cut \cap Torn(persisted) :
           u \in Torn(persisted') /\ u \in Torn(userDefaults')]_storeVars

(* Every save the user confirmed is on disk in the end, unless a           *)
(* termination came first.                                                 *)
SaveIsKept ==
    \A u \in Uid : u \in issued ~> (u \in cut \/ persisted.docInfo[u] # NoInfo)
=============================================================================
