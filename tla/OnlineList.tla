----------------------------- MODULE OnlineList -----------------------------
(***************************************************************************)
(* DocumentOnlineListVC: one list of shared documents, from viewDidLoad    *)
(* on, and the two Firestore collections it reads.                         *)
(*                                                                         *)
(* A refresh empties userInfos and dataArray at once, then reads the two   *)
(* collections one after the other: two blocks on a serial queue, each of  *)
(* which starts a query and spins until the query's callback, on the main  *)
(* thread, sets a flag.  The table is reloaded when both are done.         *)
(* Meanwhile the table keeps its old rows and can be used, and other       *)
(* installations sign in and upload.  Off line Firestore answers a query   *)
(* from its cache.                                                         *)
(***************************************************************************)
EXTENDS Integers, Sequences, FiniteSets, Functions

CONSTANTS
    User,       \* accounts
    Doc,        \* documents that may be uploaded
    Owner,      \* the account each of them is uploaded from
    NoAlert

ASSUME OwnerAssumption == Owner \in [Doc -> User]
ASSUME DocAssumption == IsFiniteSet(Doc)

VARIABLES
    created,    \* accounts that exist
    registered, \* accounts with a readable entry in the collection userInfos
    uploaded,   \* documents in the collection documents
    cache,      \* the last answers to the two queries, as Firestore keeps them
    phase,      \* what the serial queue waits for
    userInfos,  \* the accounts read by the refresh under way, or by the last one
    dataArray,  \* the documents read, in the order of the rows
    rows,       \* numberOfRowsInSection, as the table view last asked for it
    cells,      \* the rows that have a cell, and the document each cell shows
    alert,      \* the confirmation alert, and the phase in which it was opened
    trap,       \* why the program has stopped, if it has
    atPull      \* history: what an answer must hold: what was there when the
                \* refresh began, or, off line, the cache

server == <<created, registered, uploaded>>
fetch == <<phase, userInfos, dataArray, cache, atPull>>
table == <<rows, cells, alert>>
vars == <<server, fetch, table, trap>>

(* "stuck": the block spins on a flag that will never be seen set.         *)
Phases == {"idle", "users", "documents", "notify", "stuck"}

Alerts == [shown : Doc, doc : Doc, phase : Phases]

Answers == [users : SUBSET User, docs : SUBSET Doc]

TypeOK ==
    /\ created \subseteq User /\ registered \subseteq User /\ uploaded \subseteq Doc
    /\ cache \in Answers /\ atPull \in Answers
    /\ phase \in Phases
    /\ userInfos \subseteq User
    /\ dataArray \in Seq(Doc)
    /\ rows \in Nat
    /\ \E shown \in SUBSET (1 .. rows) : cells \in [shown -> Doc]
    /\ alert \in Alerts \cup {NoAlert}
    /\ trap \in {"none", "index", "owner"}

Init ==
    /\ created = {} /\ registered = {} /\ uploaded = {}
    /\ cache = [users |-> {}, docs |-> {}] /\ atPull = cache
    /\ phase = "idle"
    /\ userInfos = {} /\ dataArray = <<>>
    /\ rows = 0 /\ cells = <<>>
    /\ alert = NoAlert
    /\ trap = "none"

-----------------------------------------------------------------------------
(* Other installations, as SharedCollections has them.  What an answer to  *)
(* the first query must hold are the entries readable ever since the pull. *)
Shared == INSTANCE SharedCollections

SignIn(u) ==
    /\ Shared!SignIn(u)
    /\ atPull' = IF phase = "users" THEN [atPull EXCEPT !.users = @ \cap registered'] ELSE atPull
    /\ UNCHANGED <<phase, userInfos, dataArray, cache, table, trap>>

Upload(d) ==
    /\ Shared!Upload(d)
    /\ UNCHANGED <<fetch, table, trap>>

-----------------------------------------------------------------------------
(* Operators named Slip... are wrong versions of the definition each of    *)
(* them precedes; a property is worth checking if it notices one.          *)
SlipEmptied == userInfos' = {} /\ UNCHANGED dataArray
Emptied == userInfos' = {} /\ dataArray' = <<>>

SlipFirstBlock == "documents"
FirstBlock == "users"

(* updateList.  The refresh control fires only when it is not refreshing.  *)
UpdateList ==
    /\ trap = "none" /\ alert = NoAlert
    /\ phase = "idle"
    /\ phase' = FirstBlock
    /\ Emptied
    /\ atPull' = [users |-> registered, docs |-> uploaded]
    /\ UNCHANGED <<server, cache, table, trap>>

(* The flag is a plain variable shared by two threads: the spinning block  *)
(* may see it set, or never.                                               *)
FlagSet(next) == phase' \in {next, "stuck"}

(* What Firestore may answer: what the server has or, off line, what the   *)
(* cache has: the last answer, changed by this installation's own writes.  *)
Answer(online, cached, now) ==
    IF online THEN {now}
    ELSE {s \in SUBSET (cached \cup now) : cached \cap now \subseteq s}

UsersRead(online) ==
    /\ trap = "none" /\ phase = "users"
    /\ \E users \in Answer(online, cache.users, registered) :
          /\ userInfos' = userInfos \cup users
          /\ cache' = [cache EXCEPT !.users = users]
    /\ atPull' = IF online THEN atPull ELSE [atPull EXCEPT !.users = cache.users \cap registered]
    /\ FlagSet("documents")
    /\ UNCHANGED <<server, dataArray, table, trap>>

(* `self.userInfos[user_uid]!' for every document, in any order.           *)
DocumentsRead(online) ==
    /\ trap = "none" /\ phase = "documents"
    /\ \E docs \in Answer(online, cache.docs, uploaded) :
          /\ cache' = [cache EXCEPT !.docs = docs]
          /\ IF \A d \in docs : Owner[d] \in userInfos
             THEN /\ \E read \in Bijection(1 .. Cardinality(docs), docs) :
                        dataArray' = dataArray \o read
                  /\ FlagSet("notify")
                  /\ UNCHANGED trap
             ELSE /\ trap' = "owner"
                  /\ UNCHANGED <<dataArray, phase>>
    /\ atPull' = IF online THEN atPull ELSE [atPull EXCEPT !.docs = cache.docs]
    /\ UNCHANGED <<server, userInfos, table>>

(* Both callbacks only print an error and leave the flag as it is.         *)
SlipAfterError == "idle"
AfterError == "stuck"

QueryFails ==
    /\ trap = "none" /\ phase \in {"users", "documents"}
    /\ phase' = AfterError
    /\ UNCHANGED <<server, userInfos, dataArray, cache, atPull, table, trap>>

SlipReloadedCells == rows' = Len(dataArray) /\ UNCHANGED cells
Reloaded == rows' = Len(dataArray) /\ cells' = <<>>

SlipEndRefreshing == UNCHANGED phase
EndRefreshing == phase' = "idle"

Notify ==
    /\ trap = "none" /\ phase = "notify"
    /\ Reloaded
    /\ EndRefreshing
    /\ UNCHANGED <<server, userInfos, dataArray, cache, atPull, alert, trap>>

-----------------------------------------------------------------------------
(* The table view calls when no alert is in front, refresh or not.         *)
TableActive == trap = "none" /\ alert = NoAlert

Checked(row) == IF row > Len(dataArray) THEN "index" ELSE "none"

CellForRow(row) ==
    /\ TableActive
    /\ row \notin DOMAIN cells
    /\ trap' = Checked(row)
    /\ cells' = IF Checked(row) # "none" THEN cells
                ELSE [r \in DOMAIN cells \cup {row} |->
                         IF r = row THEN dataArray[row] ELSE cells[r]]
    /\ UNCHANGED <<server, fetch, rows, alert>>

ScrollAway(row) ==
    /\ TableActive
    /\ row \in DOMAIN cells
    /\ cells' = Restrict(cells, DOMAIN cells \ {row})
    /\ UNCHANGED <<server, fetch, rows, alert, trap>>

DidSelectRow(row) ==
    /\ TableActive
    /\ row \in DOMAIN cells
    /\ trap' = Checked(row)
    /\ alert' = IF Checked(row) # "none" THEN NoAlert
                ELSE [shown |-> cells[row], doc |-> dataArray[row], phase |-> phase]
    /\ UNCHANGED <<server, fetch, rows, cells>>

(* Either button.  "OK" goes to the question scene, whose way back is to   *)
(* another list: this one is no longer touched, but its refresh goes on.   *)
Close ==
    /\ trap = "none"
    /\ alert # NoAlert
    /\ alert' = NoAlert
    /\ UNCHANGED <<server, fetch, rows, cells, trap>>

-----------------------------------------------------------------------------
Next ==
    \/ \E u \in User : SignIn(u)
    \/ \E d \in Doc : Upload(d)
    \/ UpdateList
    \/ \E online \in BOOLEAN : UsersRead(online) \/ DocumentsRead(online)
    \/ QueryFails
    \/ Notify
    \/ \E row \in 1 .. rows : CellForRow(row) \/ ScrollAway(row) \/ DidSelectRow(row)
    \/ Close

Spec == Init /\ [][Next]_vars

(* Firestore calls back once for every query, with a result or an error,   *)
(* and the main queue runs what is put on it.                              *)
CalledBack(asked) ==
    phase = asked /\ (QueryFails \/ \E online \in BOOLEAN : UsersRead(online) \/ DocumentsRead(online))

FairSpec ==
    /\ Spec
    /\ WF_vars(CalledBack("users")) /\ WF_vars(CalledBack("documents")) /\ WF_vars(Notify)

-----------------------------------------------------------------------------
(* The table agrees with dataArray except while a refresh is under way or  *)
(* has got stuck.                                                          *)
Settled ==
    phase = "idle" =>
        /\ rows = Len(dataArray)
        /\ \A row \in DOMAIN cells : cells[row] = dataArray[row]

(* Scrolling or tapping stops the program only between the pull, which     *)
(* empties dataArray under the old rows, and the reload; a list that was   *)
(* never refreshed, or whose last refresh came to its end, is safe.        *)
IndexTrapOnlyInRefresh == trap = "index" => phase # "idle"

(* A tap on a settled list opens the document its cell shows; in a refresh *)
(* it may open another one.                                                *)
SettledTapOpensShown ==
    alert # NoAlert /\ alert.phase = "idle" => alert.shown = alert.doc

(* A refresh that ends shows every document there was when it began (off  *)
(* line: in the cache), each in one row, and none that was never uploaded: *)
(* refreshes do not add up, and the time between the queries loses none.   *)
RefreshShowsAll ==
    phase \in {"notify", "idle"} =>
        /\ atPull.docs \subseteq Range(dataArray)
        /\ Range(dataArray) \subseteq uploaded
        /\ IsInjective(dataArray)

(* The force unwrap stops the program only over a document whose owner had *)
(* no readable entry when the refresh began (off line: in the cache), or   *)
(* lost it before the entries were read.                                   *)
OwnerTrapExplained ==
    trap = "owner" => \E d \in uploaded : Owner[d] \notin atPull.users

(* A refresh ends: the table is reloaded, or the program stops, or the     *)
(* block spins for ever.                                                   *)
RefreshEnds == phase = "users" ~> (phase \in {"idle", "stuck"} \/ trap # "none")

(* The inductive invariant behind the safety properties: no document comes *)
(* from nowhere, the entries read hold what was due, and nothing of an     *)
(* earlier refresh is left when the documents are appended.                *)
AnswersBounded ==
    /\ cache.docs \subseteq uploaded /\ atPull.docs \subseteq uploaded
    /\ phase = "users" => atPull.users \subseteq registered
    /\ phase = "documents" => atPull.users \subseteq userInfos
    /\ phase \in {"users", "documents"} => dataArray = <<>>

OnlineInv ==
    /\ AnswersBounded
    /\ Settled
    /\ IndexTrapOnlyInRefresh
    /\ SettledTapOpensShown
    /\ RefreshShowsAll
    /\ OwnerTrapExplained

(* What cellForRowAt and didSelectRowAt assert: the row is in dataArray    *)
(* ("index is out of range uid array").                                    *)
RowInDataArray == trap # "index"
=============================================================================
