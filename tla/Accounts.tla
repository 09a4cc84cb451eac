------------------------------ MODULE Accounts ------------------------------
(***************************************************************************)
(* AuthenticationVC and the on-line half of DocumentSaveSceneVC, on every  *)
(* installation, with Firebase's accounts and the two shared collections.  *)
(* Any account may be used from any installation.                          *)
(*                                                                         *)
(* Signing up is a chain of three requests, each made in the callback of   *)
(* the one before; signing in is one request.  Firebase handles a request, *)
(* then changes the current user on a queue of its own, then runs the      *)
(* callback on the main thread.  Every callback holds the sheet by a weak  *)
(* reference and does nothing once the sheet is dismissed.  Users can      *)
(* start any number of chains, dismiss the sheet, and save.                *)
(***************************************************************************)
EXTENDS FiniteSets

CONSTANTS
    User,       \* accounts, each with its address and password
    Doc,        \* documents that may be uploaded
    Owner,      \* the account each of them is uploaded from
    Installation,
    Chain,      \* as many chains as may be under way at a time
    At,         \* the installation each of them runs on
    NoUser,     \* currentUser is nil
    NoCall      \* the chain is not in use

ASSUME OwnerAssumption == Owner \in [Doc -> User]
ASSUME AtAssumption == At \in [Chain -> Installation]

VARIABLES
    created,    \* accounts that exist
    named,      \* accounts that have a display name
    mailed,     \* accounts that were sent the verification message
    verified,   \* accounts whose address is verified
    registered, \* accounts with a readable entry in the collection userInfos
    uploaded,   \* documents in the collection documents
    current,    \* Auth.auth().currentUser of each installation
    calls,      \* the request of each chain that is under way
    screen,     \* the sheet or alert in front
    asked,      \* history: the account the alert in front was shown for
    switched,   \* history: documents uploaded from another account than that
    missed      \* history: accounts of which a sign-in was cut off from writing
                \* the entry, or wrote one without a name

firebase == <<created, named, mailed, verified>>
collections == <<registered, uploaded>>
history == <<asked, switched, missed>>
vars == <<firebase, collections, current, calls, screen, history>>

(* A FIRUser, what it knows of its account, and the chain it came from: a  *)
(* later sign-in to the same account makes another object.                 *)
Users == [uid : User, named : BOOLEAN, verified : BOOLEAN, from : Chain]

(* A request, how far it is, whether it succeeded, what its answer says of *)
(* the account, and whether the sheet that made it is still there.         *)
Calls == [kind : {"createUser", "commitChanges", "sendEmailVerification", "signIn"},
          uid : User,
          stage : {"sent", "answered", "returned"},
          ok : BOOLEAN, named : BOOLEAN, verified : BOOLEAN,
          sheet : BOOLEAN]

ASSUME SentinelAssumption == NoUser \notin Users /\ NoUser \notin User /\ NoCall \notin Calls

TypeOK ==
    /\ created \subseteq User /\ named \subseteq User
    /\ mailed \subseteq User /\ verified \subseteq User
    /\ registered \subseteq User /\ uploaded \subseteq Doc
    /\ current \in [Installation -> Users \cup {NoUser}]
    /\ calls \in [Chain -> Calls \cup {NoCall}]
    /\ screen \in [Installation -> {"save", "authentication", "confirmation"}]
    /\ asked \in [Installation -> User \cup {NoUser}]
    /\ switched \subseteq Doc
    /\ missed \subseteq User

Init ==
    /\ created = {} /\ named = {} /\ mailed = {} /\ verified = {}
    /\ registered = {} /\ uploaded = {}
    /\ current = [i \in Installation |-> NoUser]
    /\ calls = [c \in Chain |-> NoCall]
    /\ screen = [i \in Installation |-> "save"]
    /\ asked = [i \in Installation |-> NoUser]
    /\ switched = {} /\ missed = {}

-----------------------------------------------------------------------------
(* Operators named Slip... are wrong versions of the definition each of    *)
(* them precedes; a property is worth checking if it notices one.          *)
Sent(kind, uid) ==
    [kind |-> kind, uid |-> uid, stage |-> "sent",
     ok |-> FALSE, named |-> FALSE, verified |-> FALSE, sheet |-> TRUE]

SingUp(c, u) ==
    /\ screen[At[c]] = "authentication"
    /\ calls[c] = NoCall
    /\ calls' = [calls EXCEPT ![c] = Sent("createUser", u)]
    /\ UNCHANGED <<firebase, collections, current, screen, history>>

SignIn(c, u) ==
    /\ screen[At[c]] = "authentication"
    /\ calls[c] = NoCall
    /\ calls' = [calls EXCEPT ![c] = Sent("signIn", u)]
    /\ UNCHANGED <<firebase, collections, current, screen, history>>

SignOut(i) ==
    /\ screen[i] = "authentication"
    /\ current' = [current EXCEPT ![i] = NoUser]
    /\ UNCHANGED <<firebase, collections, calls, screen, history>>

(* An address can be registered once, and only what exists be signed in to.*)
Accepted(call) ==
    /\ call.kind = "createUser" => call.uid \notin created
    /\ call.kind = "signIn" => call.uid \in created

(* An error goes straight to the callback.                                 *)
Answered(call, ok) ==
    [call EXCEPT !.stage = IF ok THEN "answered" ELSE "returned",
                 !.ok = ok,
                 !.named = call.kind = "signIn" /\ call.uid \in named,
                 !.verified = call.kind = "signIn" /\ call.uid \in verified]

Done(kind, call, accounts) == IF call.kind = kind THEN accounts \cup {call.uid} ELSE accounts

(* Firebase handles a request and answers; either way may be lost.         *)
Serve(c) ==
    /\ calls[c] # NoCall /\ calls[c].stage = "sent"
    /\ \/ /\ created' = Done("createUser", calls[c], created)
          /\ named' = Done("commitChanges", calls[c], named)
          /\ mailed' = Done("sendEmailVerification", calls[c], mailed)
          /\ \E heard \in BOOLEAN :
                calls' = [calls EXCEPT ![c] = Answered(@, heard /\ Accepted(@))]
       \/ /\ calls' = [calls EXCEPT ![c] = Answered(@, FALSE)]
          /\ UNCHANGED <<created, named, mailed>>
    /\ UNCHANGED <<verified, collections, current, screen, history>>

(* The user follows the link in the message.                               *)
Verify(u) ==
    /\ u \in mailed
    /\ verified' = verified \cup {u}
    /\ UNCHANGED <<created, named, mailed, collections, current, calls, screen, history>>

(* The answer arrives: a sign-in or a new account is the current user from *)
(* now on, a name is set in the object that asked for it.                  *)
Returned(call, c, user) ==
    CASE call.kind \in {"createUser", "signIn"} ->
            [uid |-> call.uid, named |-> call.named, verified |-> call.verified, from |-> c]
      [] call.kind = "commitChanges" /\ user # NoUser /\ user.from = c ->
            [user EXCEPT !.named = TRUE]
      [] OTHER -> user

Return(c) ==
    /\ calls[c] # NoCall /\ calls[c].stage = "answered"
    /\ current' = [current EXCEPT ![At[c]] = Returned(calls[c], c, @)]
    /\ calls' = [calls EXCEPT ![c].stage = "returned", ![c].named = FALSE, ![c].verified = FALSE]
    /\ UNCHANGED <<firebase, collections, screen, history>>

-----------------------------------------------------------------------------
(* The callbacks.  A chain goes on only after a success and under a sheet. *)
SlipGoesOn(call) == call.sheet
GoesOn(call) == call.ok /\ call.sheet

SlipNextCall(kind) == IF kind = "createUser" THEN "sendEmailVerification" ELSE "commitChanges"
NextCall(kind) == IF kind = "createUser" THEN "commitChanges" ELSE "sendEmailVerification"

LastOfItsChain(kind) == kind \in {"sendEmailVerification", "signIn"}

(* saveLoginUserInfo2Database: the entry of whoever is the current user.   *)
SlipNoEntry(user) == UNCHANGED <<registered, missed>>
SlipOneEntry(user) == registered' = (IF user = NoUser THEN {} ELSE {user.uid}) /\ UNCHANGED missed
SaveLoginUserInfo2Database(user) ==
    IF user = NoUser THEN UNCHANGED <<registered, missed>>
    ELSE IF user.named
    THEN registered' = registered \cup {user.uid} /\ UNCHANGED missed
    ELSE /\ registered' = registered \ {user.uid}
         /\ missed' = missed \cup {user.uid}

ChainGoesOn(c) ==
    /\ calls[c] # NoCall /\ calls[c].stage = "returned"
    /\ GoesOn(calls[c]) /\ ~LastOfItsChain(calls[c].kind)
    /\ calls' = [calls EXCEPT ![c] = Sent(NextCall(calls[c].kind), calls[c].uid)]
    /\ UNCHANGED <<firebase, collections, current, screen, history>>

ChainCompletes(c) ==
    /\ calls[c] # NoCall /\ calls[c].stage = "returned"
    /\ GoesOn(calls[c]) /\ LastOfItsChain(calls[c].kind)
    /\ SaveLoginUserInfo2Database(current[At[c]])
    /\ calls' = [calls EXCEPT ![c] = NoCall]
    /\ UNCHANGED <<firebase, uploaded, current, screen, asked, switched>>

ChainBreaks(c) ==
    /\ calls[c] # NoCall /\ calls[c].stage = "returned"
    /\ ~GoesOn(calls[c])
    /\ calls' = [calls EXCEPT ![c] = NoCall]
    /\ UNCHANGED <<firebase, collections, current, screen, history>>

-----------------------------------------------------------------------------
MoveAuthScene(i) ==
    /\ screen[i] = "save"
    /\ screen' = [screen EXCEPT ![i] = "authentication"]
    /\ UNCHANGED <<firebase, collections, current, calls, history>>

SigningIn(i) ==
    {calls[c].uid : c \in {b \in Chain : At[b] = i /\ calls[b] # NoCall /\ calls[b].kind = "signIn"}}

(* The sheet is swiped away: requests go on, their callbacks find no sheet.*)
Dismiss(i) ==
    /\ screen[i] = "authentication"
    /\ screen' = [screen EXCEPT ![i] = "save"]
    /\ calls' = [c \in Chain |-> IF At[c] # i \/ calls[c] = NoCall THEN calls[c]
                                 ELSE [calls[c] EXCEPT !.sheet = FALSE]]
    /\ missed' = missed \cup SigningIn(i)
    /\ UNCHANGED <<firebase, collections, current, asked, switched>>

(* The switch for sharing is on.                                           *)
SlipMayShare(user) == user # NoUser
MayShare(user) == user # NoUser /\ user.verified

SaveButtonTapped(i) ==
    /\ screen[i] = "save"
    /\ MayShare(current[i])
    /\ screen' = [screen EXCEPT ![i] = "confirmation"]
    /\ asked' = [asked EXCEPT ![i] = current[i].uid]
    /\ UNCHANGED <<firebase, collections, current, calls, switched, missed>>

AlertClosed(i) ==
    /\ screen[i] = "confirmation"
    /\ screen' = [screen EXCEPT ![i] = "save"]
    /\ asked' = [asked EXCEPT ![i] = NoUser]

Cancel(i) ==
    /\ AlertClosed(i)
    /\ UNCHANGED <<firebase, collections, current, calls, switched, missed>>

(* setData([docInfo.uid: archive], merge: true): the account's other       *)
(* documents stay, this one is filed under its own identifier.             *)
Merged(d) == uploaded \cup {d}

(* "ok", hence saveData2Online: the current user, whoever it is by now.    *)
SaveData2Online(i, d) ==
    /\ AlertClosed(i)
    /\ d \notin uploaded
    /\ current[i] # NoUser /\ Owner[d] = current[i].uid
    /\ uploaded' = Merged(d)
    /\ switched' = IF current[i].uid = asked[i] THEN switched ELSE switched \cup {d}
    /\ UNCHANGED <<firebase, registered, current, calls, missed>>

(* The process ends and is launched again: Firebase keeps the current user.*)
Relaunch(i) ==
    /\ calls' = [c \in Chain |-> IF At[c] = i THEN NoCall ELSE calls[c]]
    /\ screen' = [screen EXCEPT ![i] = "save"]
    /\ asked' = [asked EXCEPT ![i] = NoUser]
    /\ missed' = missed \cup SigningIn(i)
    /\ UNCHANGED <<firebase, collections, current, switched>>

Next ==
    \/ \E c \in Chain, u \in User : SingUp(c, u) \/ SignIn(c, u)
    \/ \E u \in User : Verify(u)
    \/ \E c \in Chain : Serve(c) \/ Return(c)
    \/ \E c \in Chain : ChainGoesOn(c) \/ ChainCompletes(c) \/ ChainBreaks(c)
    \/ \E i \in Installation : SignOut(i) \/ MoveAuthScene(i) \/ Dismiss(i)
    \/ \E i \in Installation : SaveButtonTapped(i) \/ Cancel(i)
    \/ \E i \in Installation, d \in Doc : SaveData2Online(i, d)
    \/ \E i \in Installation : Relaunch(i)

Spec == Init /\ [][Next]_vars

-----------------------------------------------------------------------------
(* The collections as an online list sees them: whatever chains and sheets *)
(* do, and on however many installations, accounts sign in and documents   *)
(* are added, one at a time.                                               *)
Shared == INSTANCE SharedCollections

ImplementsShared == Shared!Spec

MayPass(user) == user # NoUser /\ user.verified

(* An account that is verified has its name, and the current user that     *)
(* passes for verified has too: it can only write an entry that is readable*)
VerifiedIsNamed ==
    /\ verified \subseteq named
    /\ \A i \in Installation : MayPass(current[i]) => current[i].named

(* A document of an unverified account is on line only if the current user *)
(* changed between the check and the alert's ok.                           *)
SharedIsVerified == \A d \in uploaded \ switched : Owner[d] \in verified

(* The owner of a document has a readable entry, unless the current user   *)
(* changed under the alert, or a sign-in missed leaving the entry.         *)
OwnerHasEntry ==
    \A d \in uploaded \ switched : Owner[d] \in registered \cup missed

(* A sign-up that was cut before its message was sent: no chain is left    *)
(* that could send it.                                                     *)
MayMail(call) ==
    \/ call.kind = "createUser" /\ call.stage # "sent" /\ call.ok
    \/ call.kind \in {"commitChanges", "sendEmailVerification"}

CutOff == {u \in created \ mailed :
              \A c \in Chain : calls[c] # NoCall /\ calls[c].uid = u => ~MayMail(calls[c])}

(* It stays so for ever: the address cannot be signed up a second time,    *)
(* nothing but signing up sends the message, and so it is never verified.  *)
CutOffForever == [][CutOff \subseteq CutOff']_vars

-----------------------------------------------------------------------------
(* The inductive invariant behind the properties above.                    *)
(* Each step of signing up comes after the one before it.                  *)
StepsInOrder ==
    /\ verified \subseteq mailed /\ mailed \subseteq named /\ named \subseteq created

(* A request is of an account that is far enough for it, and what an       *)
(* answer says of the account is true; only signing in finds it verified.  *)
CallSound(call, i) ==
    /\ call.kind # "createUser" /\ call.kind # "signIn" => call.uid \in created
    /\ call.stage # "sent" /\ call.ok => call.uid \in created
    /\ call.stage = "answered" => call.ok
    /\ call.kind = "commitChanges" /\ call.stage # "sent" /\ call.ok => call.uid \in named
    /\ call.kind = "sendEmailVerification" => call.uid \in named
    /\ call.verified => call.kind = "signIn" /\ call.named /\ call.uid \in verified
    /\ call.kind = "signIn" /\ ~call.sheet => call.uid \in missed
    /\ call.sheet => screen[i] = "authentication"

CurrentSound ==
    \A i \in Installation : current[i] # NoUser =>
        /\ current[i].uid \in created
        /\ current[i].verified => current[i].named /\ current[i].uid \in verified

(* The entry of a verified current user is there, or was missed, or is     *)
(* what a callback that can still run will write.                          *)
Pending(call) == call.kind = "signIn" /\ call.stage = "returned" /\ call.ok /\ call.sheet

CurrentHasEntry ==
    \A i \in Installation : MayPass(current[i]) =>
        \/ current[i].uid \in registered \cup missed
        \/ \E c \in Chain : /\ At[c] = i /\ calls[c] # NoCall
                            /\ calls[c].uid = current[i].uid /\ Pending(calls[c])

(* The account an alert was shown for may share, as far as it goes.        *)
AskedMayShare ==
    \A i \in Installation : screen[i] = "confirmation" =>
        asked[i] \in verified /\ asked[i] \in registered \cup missed

AccountsInv ==
    /\ StepsInOrder
    /\ \A c \in Chain : calls[c] # NoCall => CallSound(calls[c], At[c])
    /\ CurrentSound
    /\ CurrentHasEntry
    /\ AskedMayShare
    /\ SharedIsVerified
    /\ OwnerHasEntry

-----------------------------------------------------------------------------
(* Only verified accounts can share: "unless you verify, documents cannot  *)
(* be registered", as the alert after signing up says.                     *)
OnlyVerifiedShare == \A d \in uploaded : Owner[d] \in verified

(* What the online list unwraps: an owner's entry is there.                *)
OwnersRegistered == \A d \in uploaded : Owner[d] \in registered
=============================================================================
