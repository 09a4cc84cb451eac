------------------------- MODULE SharedCollections -------------------------
(***************************************************************************)
(* The two Firestore collections all installations share, as one of them   *)
(* may see the others change them: abstract, with none of the installations*)
(* in it.  Accounts implements it, OnlineList relies on it.                *)
(***************************************************************************)
CONSTANTS
    User,       \* accounts
    Doc,        \* documents that may be uploaded
    Owner       \* the account each of them is uploaded from

VARIABLES
    created,    \* accounts that exist
    registered, \* accounts with a readable entry in the collection userInfos
    uploaded    \* documents in the collection documents

vars == <<created, registered, uploaded>>

Init == created = {} /\ registered = {} /\ uploaded = {}

(* An account is created, or an installation that is signed in to it writes*)
(* its entry: with a name, or with none, which leaves an entry the list    *)
(* cannot read, where there may have been one it could.                    *)
SignIn(u) ==
    /\ created' = created \cup {u}
    /\ registered' \in {registered, registered \cup {u}, registered \ {u}}
    /\ UNCHANGED uploaded

(* A document is added for an account that exists, whether or not it has   *)
(* an entry; none is ever taken away.                                      *)
Upload(d) ==
    /\ Owner[d] \in created
    /\ uploaded' = uploaded \cup {d}
    /\ UNCHANGED <<created, registered>>

Next == (\E u \in User : SignIn(u)) \/ (\E d \in Doc : Upload(d))

Spec == Init /\ [][Next]_vars
=============================================================================
