---------------------------- MODULE DocumentList ----------------------------
(***************************************************************************)
(* DocumentListVC: the table of local documents, composed with the store   *)
(* it reads.  The table view caches the number of rows and the cells on    *)
(* the screen; the callbacks read the identifiers anew each time, so the   *)
(* two can differ after a save.  Callbacks and saves share the main        *)
(* thread: no callback runs inside a save.                                 *)
(***************************************************************************)
EXTENDS DocumentStore

CONSTANT NoAlert

VARIABLES
    rows,   \* numberOfRowsInSection, as the table view last asked for it
    cells,  \* the rows that have a cell, and the document each cell shows
    alert,  \* the confirmation alert: the document the tapped cell showed, the one it is for
    trap,   \* why the program has stopped, if it has
    stale   \* history: a save has begun since the rows were counted

listVars == <<rows, cells, alert, trap, stale>>
vars == <<storeVars, listVars>>

Alerts == [shown : Uid, uid : Uid]

ListTypeOK ==
    /\ TypeOK
    /\ rows \in Nat
    /\ \E shown \in SUBSET (1 .. rows) : cells \in [shown -> Uid]
    /\ alert \in Alerts \cup {NoAlert}
    /\ trap \in {"none", "index", "nil"}
    /\ stale \in BOOLEAN

(* A table view that has not been laid out: after launch, and in the new   *)
(* TabController that QuestionSceneVC presents on the way back.            *)
SlipNewTableKept == UNCHANGED <<rows, cells>> /\ stale' = FALSE
NewTable == rows' = 0 /\ cells' = <<>> /\ stale' = FALSE

ListInit ==
    /\ Init
    /\ rows = 0 /\ cells = <<>> /\ stale = FALSE
    /\ alert = NoAlert
    /\ trap = "none"

-----------------------------------------------------------------------------
(* The table view calls when no handler runs and no alert is in front.     *)
TableActive == trap = "none" /\ save = NoSave /\ alert = NoAlert

(* The two assertions both callbacks make about the row they are given.    *)
SlipChecked(row) == IF row > Len(userDefaults.uidArray) THEN "index" ELSE "none"
Checked(row) ==
    IF row > Len(userDefaults.uidArray) THEN "index"
    ELSE IF userDefaults.docInfo[userDefaults.uidArray[row]] = NoInfo THEN "nil"
    ELSE "none"

(* reloadData, by pull to refresh or on first layout: rows are counted and *)
(* every cell is dropped, to be asked for again.                           *)
SlipReloaded == rows' = Len(userDefaults.uidArray) /\ UNCHANGED cells
Reloaded == rows' = Len(userDefaults.uidArray) /\ cells' = <<>>

ReloadData ==
    /\ TableActive
    /\ Reloaded
    /\ stale' = FALSE
    /\ UNCHANGED <<storeVars, alert, trap>>

CellForRow(row) ==
    /\ TableActive
    /\ row \notin DOMAIN cells
    /\ trap' = Checked(row)
    /\ cells' = IF Checked(row) # "none" THEN cells
                ELSE [r \in DOMAIN cells \cup {row} |->
                         IF r = row THEN userDefaults.uidArray[row] ELSE cells[r]]
    /\ UNCHANGED <<storeVars, rows, alert, stale>>

(* A cell that leaves the screen is recycled.                              *)
ScrollAway(row) ==
    /\ TableActive
    /\ row \in DOMAIN cells
    /\ cells' = Restrict(cells, DOMAIN cells \ {row})
    /\ UNCHANGED <<storeVars, rows, alert, trap, stale>>

DidSelectRow(row) ==
    /\ TableActive
    /\ row \in DOMAIN cells
    /\ trap' = Checked(row)
    /\ alert' = IF Checked(row) # "none" THEN NoAlert
                ELSE [shown |-> cells[row], uid |-> userDefaults.uidArray[row]]
    /\ UNCHANGED <<storeVars, rows, cells, stale>>

Cancel ==
    /\ alert # NoAlert
    /\ alert' = NoAlert
    /\ UNCHANGED <<storeVars, rows, cells, trap, stale>>

(* The question scene; its way back presents a new list.                   *)
Ok ==
    /\ alert # NoAlert
    /\ alert' = NoAlert
    /\ NewTable
    /\ UNCHANGED <<storeVars, trap>>

-----------------------------------------------------------------------------
(* The save sheet belongs to another tab: it cannot be used under an alert.*)
SaveFromSheet ==
    /\ trap = "none" /\ alert = NoAlert
    /\ \E uid \in Uid, info \in Info, image \in Shown : SaveData2Local(uid, info, image)
    /\ stale' = TRUE
    /\ UNCHANGED <<rows, cells, alert, trap>>

SaveGoesOn == SaveStep /\ UNCHANGED listVars

FlushDefaults == Flush /\ UNCHANGED listVars

Relaunch ==
    /\ Restart
    /\ NewTable
    /\ alert' = NoAlert
    /\ trap' = "none"

ListNext ==
    \/ ReloadData
    \/ \E row \in 1 .. rows : CellForRow(row) \/ ScrollAway(row) \/ DidSelectRow(row)
    \/ Cancel
    \/ Ok
    \/ SaveFromSheet
    \/ SaveGoesOn
    \/ FlushDefaults
    \/ Relaunch

ListSpec == ListInit /\ [][ListNext]_vars

-----------------------------------------------------------------------------
(* The inductive invariant behind the properties below: the table never    *)
(* counts more rows than there are identifiers, has cells only for what is *)
(* archived, and until a save begins it agrees with the list.              *)
InStep ==
    /\ rows \in {0, Len(userDefaults.uidArray)}
    /\ \A row \in DOMAIN cells : cells[row] = userDefaults.uidArray[row]
    /\ alert # NoAlert => alert.shown = alert.uid

ListInv ==
    /\ rows <= Len(userDefaults.uidArray)
    /\ DOMAIN cells \subseteq 1 .. rows
    /\ trap # "index"
    /\ trap = "nil" => save = NoSave /\ Torn(userDefaults) # {}
    /\ \A row \in DOMAIN cells : userDefaults.docInfo[cells[row]] # NoInfo
    /\ ~stale => InStep

(* "index is out of range uid array" is never the end of the program: the  *)
(* table may count its rows long before it asks for one, but the list only *)
(* grows, and a relaunch that shrinks it has a new table.                  *)
IndexAssertHolds == trap # "index"

(* A tap may open another document than the one the cell shows, since a    *)
(* save reorders the identifiers; it does so only after a save that no     *)
(* reload has followed.                                                    *)
TapOpensShown == alert # NoAlert /\ alert.shown # alert.uid => stale

(* Scrolled from end to end with no save since the reload, the table shows *)
(* every listed document, and each one once.                               *)
FullyShown == rows > 0 /\ DOMAIN cells = 1 .. rows

FreshListShowsAll ==
    ~stale /\ FullyShown => IsInjective(cells) /\ Range(cells) = Listed(userDefaults)

(* The program stops at a missing archive only when a termination met a    *)
(* save before it was on disk.                                             *)
NilOnlyWhenCut == trap = "nil" => Torn(userDefaults) \cap cut # {}

(* Once such an identifier is on disk the list can never again be shown    *)
(* from end to end: every launch stops at the same row.                    *)
CrashLoop ==
    cut \cap Torn(persisted) # {} /\ ~stale => ~FullyShown

(* What cellForRowAt and didSelectRowAt assert: the archive of a listed    *)
(* identifier can be loaded ("loaded document info class -> nil").         *)
ListedInfoLoads == trap # "nil"
=============================================================================
