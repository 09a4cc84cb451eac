--------------------------- MODULE AccountsProofs ---------------------------
(***************************************************************************)
(* Accounts and sharing, for any accounts, documents and installations and *)
(* any number of chains under way on each of them: type correctness, the   *)
(* inductive invariant, the safety properties, and the step-by-step        *)
(* refinement of SharedCollections.                                        *)
(***************************************************************************)
EXTENDS Accounts, TLAPS

LEMMA SentType ==
    ASSUME NEW kind \in {"createUser", "commitChanges", "sendEmailVerification", "signIn"},
           NEW u \in User
    PROVE  Sent(kind, u) \in Calls
BY DEF Sent, Calls

LEMMA InitType == Init => TypeOK
BY DEF Init, TypeOK

-----------------------------------------------------------------------------
LEMMA AnsweredType ==
    ASSUME NEW call \in Calls, NEW ok \in BOOLEAN
    PROVE  Answered(call, ok) \in Calls
BY DEF Answered, Calls

(* What a request that is handled becomes, and what it has done.           *)
LEMMA ServeStep ==
    ASSUME TypeOK, NEW c \in Chain, Serve(c)
    PROVE  /\ calls[c] \in Calls /\ calls[c].stage = "sent"
           /\ \A b \in Chain : b # c => calls'[b] = calls[b]
           /\ \E ok \in BOOLEAN : calls'[c] = Answered(calls[c], ok)
                                /\ (ok => Accepted(calls[c]))
                                /\ (ok => created' = Done("createUser", calls[c], created))
                                /\ (ok => named' = Done("commitChanges", calls[c], named))
           /\ created' \in {created, Done("createUser", calls[c], created)}
           /\ named' \in {named, Done("commitChanges", calls[c], named)}
           /\ mailed' \in {mailed, Done("sendEmailVerification", calls[c], mailed)}
           /\ calls' = [calls EXCEPT ![c] = calls'[c]]
           /\ UNCHANGED <<verified, collections, current, screen, history>>
<1>1. calls[c] \in Calls /\ calls[c].stage = "sent"
  BY DEF Serve, TypeOK
<1>2. PICK ok \in BOOLEAN :
         /\ calls' = [calls EXCEPT ![c] = Answered(calls[c], ok)]
         /\ ok => Accepted(calls[c])
         /\ ok => created' = Done("createUser", calls[c], created)
         /\ ok => named' = Done("commitChanges", calls[c], named)
  <2>1. CASE calls' = [calls EXCEPT ![c] = Answered(calls[c], FALSE)]
    BY <2>1
  <2>2. CASE /\ created' = Done("createUser", calls[c], created)
             /\ named' = Done("commitChanges", calls[c], named)
             /\ \E heard \in BOOLEAN :
                   calls' = [calls EXCEPT ![c] = Answered(calls[c], heard /\ Accepted(calls[c]))]
    <3>1. PICK heard \in BOOLEAN :
             calls' = [calls EXCEPT ![c] = Answered(calls[c], heard /\ Accepted(calls[c]))]
      BY <2>2
    <3>2. (heard /\ Accepted(calls[c])) \in BOOLEAN
      BY Zenon
    <3> QED
      BY <2>2, <3>1, <3>2
  <2> QED
    BY <2>1, <2>2 DEF Serve
<1>3. calls'[c] = Answered(calls[c], ok) /\ \A b \in Chain : b # c => calls'[b] = calls[b]
  BY <1>2 DEF TypeOK
<1> QED
  BY <1>1, <1>2, <1>3 DEF Serve

LEMMA ServeType ==
    ASSUME TypeOK, NEW c \in Chain, Serve(c)
    PROVE  TypeOK'
<1>1. created' \subseteq User /\ named' \subseteq User /\ mailed' \subseteq User
  BY ServeStep DEF TypeOK, Calls, Done
<1>2. calls' \in [Chain -> Calls \cup {NoCall}]
  BY ServeStep, AnsweredType DEF TypeOK
<1> QED
  BY <1>1, <1>2 DEF Serve, TypeOK, collections, history

LEMMA ReturnedType ==
    ASSUME NEW call \in Calls, NEW c \in Chain, NEW user \in Users \cup {NoUser}
    PROVE  Returned(call, c, user) \in Users \cup {NoUser}
<1>1. CASE call.kind \in {"createUser", "signIn"}
  BY <1>1 DEF Returned, Calls, Users
<1>2. CASE call.kind \notin {"createUser", "signIn"} /\ user \in Users
  BY <1>2 DEF Returned, Users
<1>3. CASE call.kind \notin {"createUser", "signIn"} /\ user = NoUser
  BY <1>3 DEF Returned
<1> QED
  BY <1>1, <1>2, <1>3

LEMMA ReturnType ==
    ASSUME TypeOK, NEW c \in Chain, Return(c)
    PROVE  TypeOK'
<1>1. calls[c] \in Calls
  BY DEF Return, TypeOK
<1>2. Returned(calls[c], c, current[At[c]]) \in Users \cup {NoUser}
  BY <1>1, ReturnedType, AtAssumption DEF TypeOK
<1>3. calls' \in [Chain -> Calls \cup {NoCall}]
  BY <1>1 DEF Return, TypeOK, Calls
<1> QED
  BY <1>2, <1>3 DEF Return, TypeOK, firebase, collections, history

LEMMA ChainType ==
    ASSUME TypeOK, NEW c \in Chain, ChainGoesOn(c) \/ ChainCompletes(c) \/ ChainBreaks(c)
    PROVE  TypeOK'
<1>1. calls[c] \in Calls
  BY DEF ChainGoesOn, ChainCompletes, ChainBreaks, TypeOK
<1>2. Sent(NextCall(calls[c].kind), calls[c].uid) \in Calls
  BY <1>1, SentType DEF NextCall, Calls
<1>3. calls' \in [Chain -> Calls \cup {NoCall}]
  BY <1>2 DEF ChainGoesOn, ChainCompletes, ChainBreaks, TypeOK
<1>4. CASE ChainCompletes(c)
  <2>1. current[At[c]] # NoUser => current[At[c]].uid \in User
    BY AtAssumption DEF TypeOK, Users
  <2>2. registered' \subseteq User /\ missed' \subseteq User
    BY <1>4, <2>1 DEF ChainCompletes, SaveLoginUserInfo2Database, TypeOK
  <2> QED
    BY <1>3, <1>4, <2>2 DEF ChainCompletes, TypeOK, firebase
<1>5. CASE ChainGoesOn(c) \/ ChainBreaks(c)
  BY <1>3, <1>5 DEF ChainGoesOn, ChainBreaks, TypeOK, firebase, collections, history
<1> QED
  BY <1>4, <1>5

LEMMA SigningInType ==
    ASSUME TypeOK, NEW i \in Installation
    PROVE  SigningIn(i) \subseteq User
BY DEF SigningIn, TypeOK, Calls

LEMMA StepType ==
    ASSUME TypeOK, [Next]_vars
    PROVE  TypeOK'
<1>1. ASSUME NEW c \in Chain, NEW u \in User, SingUp(c, u)
      PROVE  TypeOK'
  BY <1>1, SentType DEF SingUp, TypeOK, firebase, collections, history
<1>2. ASSUME NEW c \in Chain, NEW u \in User, SignIn(c, u)
      PROVE  TypeOK'
  BY <1>2, SentType DEF SignIn, TypeOK, firebase, collections, history
<1>3. ASSUME NEW u \in User, Verify(u)
      PROVE  TypeOK'
  BY <1>3 DEF Verify, TypeOK, collections, history
<1>4. ASSUME NEW i \in Installation, SignOut(i)
      PROVE  TypeOK'
  BY <1>4 DEF SignOut, TypeOK, firebase, collections, history
<1>5. ASSUME NEW i \in Installation, MoveAuthScene(i)
      PROVE  TypeOK'
  BY <1>5 DEF MoveAuthScene, TypeOK, firebase, collections, history
<1>6. ASSUME NEW i \in Installation, Dismiss(i)
      PROVE  TypeOK'
  <2>1. ASSUME NEW c \in Chain, calls[c] # NoCall
        PROVE  [calls[c] EXCEPT !.sheet = FALSE] \in Calls
    BY <2>1 DEF TypeOK, Calls
  <2>2. calls' \in [Chain -> Calls \cup {NoCall}]
    BY <1>6, <2>1 DEF Dismiss, TypeOK
  <2> QED
    BY <1>6, <2>2, SigningInType DEF Dismiss, TypeOK, firebase, collections
<1>7. ASSUME NEW i \in Installation, SaveButtonTapped(i)
      PROVE  TypeOK'
  <2>1. current[i].uid \in User
    BY <1>7 DEF SaveButtonTapped, MayShare, TypeOK, Users
  <2> QED
    BY <1>7, <2>1 DEF SaveButtonTapped, TypeOK, firebase, collections
<1>8. ASSUME NEW i \in Installation, Cancel(i)
      PROVE  TypeOK'
  BY <1>8 DEF Cancel, AlertClosed, TypeOK, firebase, collections
<1>9. ASSUME NEW i \in Installation, NEW d \in Doc, SaveData2Online(i, d)
      PROVE  TypeOK'
  BY <1>9 DEF SaveData2Online, AlertClosed, Merged, TypeOK, firebase
<1>10. ASSUME NEW i \in Installation, Relaunch(i)
       PROVE  TypeOK'
  BY <1>10, SigningInType DEF Relaunch, TypeOK, firebase, collections
<1>11. CASE UNCHANGED vars
  BY <1>11 DEF vars, TypeOK, firebase, collections, history
<1> QED
  BY <1>1, <1>2, <1>3, <1>4, <1>5, <1>6, <1>7, <1>8, <1>9, <1>10, <1>11,
     ServeType, ReturnType, ChainType DEF Next

(* Type correctness of the installations, accounts and collections.        *)
THEOREM AccountsType == Spec => []TypeOK
BY InitType, StepType, PTL DEF Spec
-----------------------------------------------------------------------------
CallsSound == \A c \in Chain : calls[c] # NoCall => CallSound(calls[c], At[c])

LEMMA InitInv == Init => AccountsInv
<1> SUFFICES ASSUME Init
             PROVE  AccountsInv
  OBVIOUS
<1>1. /\ \A i \in Installation : current[i] = NoUser /\ screen[i] = "save"
      /\ \A c \in Chain : calls[c] = NoCall
  BY DEF Init
<1>2. StepsInOrder /\ SharedIsVerified /\ OwnerHasEntry
  BY DEF Init, StepsInOrder, SharedIsVerified, OwnerHasEntry
<1> QED
  BY <1>1, <1>2 DEF AccountsInv, CurrentSound, CurrentHasEntry, AskedMayShare, MayPass

(* What a step does not disturb that touches a chain only.                 *)
LEMMA ChainOnly ==
    ASSUME AccountsInv, UNCHANGED <<firebase, collections, current, screen, history>>
    PROVE  /\ StepsInOrder' /\ CurrentSound' /\ AskedMayShare'
           /\ SharedIsVerified' /\ OwnerHasEntry'
BY DEF firebase, collections, history, AccountsInv, StepsInOrder, CurrentSound, AskedMayShare,
       SharedIsVerified, OwnerHasEntry

(* A request sent under the sheet, in a chain that was free or goes on.    *)
LEMMA SentInv ==
    ASSUME TypeOK, AccountsInv, NEW c \in Chain, screen[At[c]] = "authentication",
           UNCHANGED <<firebase, collections, current, screen, history>>,
           calls[c] # NoCall => ~Pending(calls[c]),
           NEW kind \in {"createUser", "commitChanges", "sendEmailVerification", "signIn"},
           NEW u \in User,
           kind \in {"commitChanges", "sendEmailVerification"} => u \in created,
           kind = "sendEmailVerification" => u \in named,
           calls' = [calls EXCEPT ![c] = Sent(kind, u)]
    PROVE  AccountsInv'
<1>1. calls'[c] = Sent(kind, u) /\ \A b \in Chain : b # c => calls'[b] = calls[b]
  BY DEF TypeOK
<1>2. CallsSound'
  BY <1>1 DEF CallsSound, CallSound, AccountsInv, Sent, firebase, history
<1>3. CurrentHasEntry'
  BY <1>1 DEF CurrentHasEntry, AccountsInv, Pending, collections, history
<1> QED
  BY <1>2, <1>3, ChainOnly DEF AccountsInv, CallsSound

LEMMA ServeInv ==
    ASSUME TypeOK, AccountsInv, NEW c \in Chain, Serve(c)
    PROVE  AccountsInv'
<1>1. /\ calls[c] \in Calls /\ calls[c].stage = "sent" /\ CallSound(calls[c], At[c])
      /\ \A b \in Chain : b # c => calls'[b] = calls[b]
      /\ UNCHANGED <<verified, collections, current, screen, history>>
  BY ServeStep DEF Serve, AccountsInv
<1>2. created \subseteq created' /\ named \subseteq named' /\ mailed \subseteq mailed'
  BY ServeStep DEF Done
<1>3. StepsInOrder'
  BY <1>1, <1>2, ServeStep DEF StepsInOrder, AccountsInv, CallSound, Done
<1>4. PICK ok \in BOOLEAN :
         /\ calls'[c] = Answered(calls[c], ok)
         /\ ok => Accepted(calls[c])
         /\ ok => created' = Done("createUser", calls[c], created)
         /\ ok => named' = Done("commitChanges", calls[c], named)
  BY ServeStep
<1>5. CallSound(calls[c], At[c])'
  <2>1. /\ calls'[c].kind = calls[c].kind /\ calls'[c].uid = calls[c].uid
        /\ calls'[c].stage = (IF ok THEN "answered" ELSE "returned") /\ calls'[c].ok = ok
        /\ calls'[c].verified = (calls[c].kind = "signIn" /\ calls[c].uid \in verified)
        /\ calls'[c].named = (calls[c].kind = "signIn" /\ calls[c].uid \in named)
        /\ calls'[c].sheet = calls[c].sheet
    BY <1>1, <1>4 DEF Answered, Calls
  <2>2. ok => calls[c].uid \in created'
    BY <1>1, <1>2, <1>4 DEF Accepted, Done, CallSound, Calls
  <2>3. ok /\ calls[c].kind = "commitChanges" => calls[c].uid \in named'
    BY <1>4 DEF Done
  <2>4. verified \subseteq named
    BY DEF AccountsInv, StepsInOrder
  <2> QED
    BY <1>1, <1>2, <2>1, <2>2, <2>3, <2>4 DEF CallSound, history
<1>6. CallsSound'
  BY <1>1, <1>2, <1>5 DEF CallsSound, CallSound, AccountsInv, history
<1>7. CurrentSound'
  BY <1>1, <1>2 DEF CurrentSound, AccountsInv
<1>8. CurrentHasEntry'
  BY <1>1 DEF CurrentHasEntry, AccountsInv, Pending, collections, history
<1>9. AskedMayShare' /\ SharedIsVerified' /\ OwnerHasEntry'
  BY <1>1 DEF AskedMayShare, SharedIsVerified, OwnerHasEntry, AccountsInv, collections, history
<1> QED
  BY <1>3, <1>6, <1>7, <1>8, <1>9 DEF AccountsInv, CallsSound

LEMMA ReturnInv ==
    ASSUME TypeOK, AccountsInv, NEW c \in Chain, Return(c)
    PROVE  AccountsInv'
<1> DEFINE call == calls[c]
           here == At[c]
           user == current[here]
<1>0. here \in Installation
  BY AtAssumption
<1>1. /\ call \in Calls /\ call.stage = "answered" /\ CallSound(call, At[c]) /\ call # NoCall
      /\ UNCHANGED <<firebase, collections, screen, history>>
      /\ current' = [current EXCEPT ![here] = Returned(call, c, @)]
      /\ current'[here] = Returned(call, c, user)
      /\ \A i \in Installation : i # here => current'[i] = current[i]
  BY AtAssumption DEF Return, TypeOK, AccountsInv
<1>2. /\ calls'[c].kind = call.kind /\ calls'[c].uid = call.uid
      /\ calls'[c].stage = "returned" /\ calls'[c].ok = call.ok
      /\ calls'[c].verified = FALSE /\ calls'[c].sheet = call.sheet
      /\ calls'[c] # NoCall
  <2>1. calls'[c] = [call EXCEPT !.stage = "returned", !.named = FALSE, !.verified = FALSE]
    BY DEF Return, TypeOK
  <2>2. call \in Calls
    BY <1>1
  <2> HIDE DEF call
  <2>3. calls'[c] \in Calls
    BY <2>1, <2>2 DEF Calls
  <2>4. calls'[c] # NoCall
    BY <2>3, SentinelAssumption
  <2> QED
    BY <2>1, <2>2, <2>4 DEF Calls
<1>3. \A b \in Chain : b # c => calls'[b] = calls[b]
  BY DEF Return, TypeOK
<1>4. CallsSound'
  <2>1. CallSound(calls[c], At[c])'
    BY <1>1, <1>2 DEF CallSound, firebase, history
  <2> QED
    BY <1>1, <1>3, <2>1 DEF CallsSound, CallSound, AccountsInv, firebase, history
<1>5. /\ current'[here] # NoUser => current'[here].uid \in created
      /\ MayPass(current'[here]) =>
             /\ current'[here].named /\ current'[here].uid \in verified
             /\ \/ current'[here].uid \in registered \cup missed
                \/ \E b \in Chain : /\ At[b] = here /\ calls'[b] # NoCall
                                    /\ calls'[b].uid = current'[here].uid /\ Pending(calls'[b])
  <2>1. CASE call.kind \in {"createUser", "signIn"}
    <3>1. current'[here] = [uid |-> call.uid, named |-> call.named, verified |-> call.verified,
                            from |-> c]
      BY <1>1, <2>1 DEF Returned
    <3> QED
      BY <1>1, <1>2, <3>1 DEF CallSound, Pending, MayPass, Calls
  <2>2. CASE call.kind \notin {"createUser", "signIn"}
    <3>0. user \in Users \cup {NoUser} /\ NoUser \notin Users
      BY <1>0, SentinelAssumption DEF TypeOK
    <3>2. \A b \in Chain : calls[b] # NoCall /\ Pending(calls[b]) => b # c
      BY <2>2 DEF Pending
    <3> HIDE DEF here, call, user
    <3>4. current'[here] \in {user, [user EXCEPT !.named = TRUE]}
          /\ (user = NoUser => current'[here] = user)
      BY <1>1, <2>2 DEF Returned
    <3>5. user # NoUser => [user EXCEPT !.named = TRUE] \in Users
      BY <3>0 DEF Users
    <3>1. /\ current'[here] # NoUser <=> user # NoUser
          /\ user # NoUser => /\ current'[here].uid = user.uid
                              /\ current'[here].verified = user.verified
                              /\ user.named => current'[here].named
      <4>1. CASE user = NoUser
        BY <3>4, <4>1
      <4>2. CASE user # NoUser /\ current'[here] = user
        BY <4>2
      <4>3. CASE user # NoUser /\ current'[here] = [user EXCEPT !.named = TRUE]
        <5>1. user \in Users /\ current'[here] # NoUser
          BY <3>0, <3>5, <4>3
        <5> QED
          BY <4>3, <5>1 DEF Users
      <4> QED
        BY <3>4, <4>1, <4>2, <4>3
    <3>3. /\ user # NoUser => user.uid \in created
          /\ MayPass(user) =>
                 /\ user.named /\ user.uid \in verified
                 /\ \/ user.uid \in registered \cup missed
                    \/ \E b \in Chain : /\ At[b] = here /\ calls[b] # NoCall
                                        /\ calls[b].uid = user.uid /\ Pending(calls[b])
      BY <1>0 DEF AccountsInv, CurrentSound, CurrentHasEntry, MayPass, user
    <3> QED
      BY <1>3, <3>1, <3>2, <3>3 DEF MayPass
  <2> QED
    BY <2>1, <2>2
<1>6. \A b \in Chain : calls[b] # NoCall /\ Pending(calls[b]) => At[b] = here \/ calls'[b] = calls[b]
  BY <1>3
<1>7. CurrentSound'
  BY <1>1, <1>5 DEF AccountsInv, CurrentSound, MayPass, firebase
<1>8. CurrentHasEntry'
  <2> SUFFICES ASSUME NEW i \in Installation, MayPass(current'[i])
               PROVE  \/ current'[i].uid \in registered' \cup missed'
                      \/ \E b \in Chain : /\ At[b] = i /\ calls'[b] # NoCall
                                          /\ calls'[b].uid = current'[i].uid /\ Pending(calls'[b])
    BY DEF CurrentHasEntry, MayPass, Pending
  <2>1. CASE i = here
    BY <1>1, <1>5, <2>1 DEF collections, history
  <2>2. CASE i # here
    BY <1>1, <1>6, <2>2 DEF AccountsInv, CurrentHasEntry, collections, history
  <2> QED
    BY <2>1, <2>2
<1> QED
  BY <1>1, <1>4, <1>7, <1>8 DEF AccountsInv, CallsSound, StepsInOrder, AskedMayShare,
     SharedIsVerified, OwnerHasEntry, firebase, collections, history

LEMMA ChainGoesOnInv ==
    ASSUME TypeOK, AccountsInv, NEW c \in Chain, ChainGoesOn(c)
    PROVE  AccountsInv'
<1>1. calls[c] \in Calls /\ CallSound(calls[c], At[c]) /\ GoesOn(calls[c])
      /\ calls[c].stage = "returned" /\ ~LastOfItsChain(calls[c].kind)
  BY DEF ChainGoesOn, TypeOK, AccountsInv
<1>2. /\ screen[At[c]] = "authentication" /\ ~Pending(calls[c]) /\ calls[c].uid \in User
      /\ NextCall(calls[c].kind) \in {"commitChanges", "sendEmailVerification"}
      /\ calls[c].uid \in created
      /\ NextCall(calls[c].kind) = "sendEmailVerification" => calls[c].uid \in named
  BY <1>1 DEF CallSound, GoesOn, LastOfItsChain, NextCall, Pending, Calls
<1> QED
  BY <1>2, SentInv DEF ChainGoesOn

(* A chain that ends without its callback doing anything: nothing pending  *)
(* is lost, since a callback that breaks off has failed or has no sheet.   *)
LEMMA ChainBreaksInv ==
    ASSUME TypeOK, AccountsInv, NEW c \in Chain, ChainBreaks(c)
    PROVE  AccountsInv'
<1>1. /\ ~Pending(calls[c]) /\ calls'[c] = NoCall
      /\ \A b \in Chain : b # c => calls'[b] = calls[b]
      /\ UNCHANGED <<firebase, collections, current, screen, history>>
  BY DEF ChainBreaks, Pending, GoesOn, TypeOK
<1>2. CallsSound'
  BY <1>1 DEF CallsSound, CallSound, AccountsInv, firebase, history
<1>3. CurrentHasEntry'
  BY <1>1 DEF CurrentHasEntry, AccountsInv, Pending, collections, history
<1> QED
  BY <1>1, <1>2, <1>3, ChainOnly DEF AccountsInv, CallsSound

LEMMA ChainCompletesInv ==
    ASSUME TypeOK, AccountsInv, NEW c \in Chain, ChainCompletes(c)
    PROVE  AccountsInv'
<1>1. /\ calls'[c] = NoCall /\ \A b \in Chain : b # c => calls'[b] = calls[b]
      /\ UNCHANGED <<firebase, uploaded, current, screen, asked, switched>>
      /\ screen[At[c]] = "authentication" /\ At[c] \in Installation
      /\ SaveLoginUserInfo2Database(current[At[c]])
  BY AtAssumption DEF ChainCompletes, TypeOK, GoesOn, AccountsInv, CallSound
<1>2. /\ missed \subseteq missed'
      /\ registered \cup missed \subseteq registered' \cup missed'
      /\ current[At[c]] # NoUser => current[At[c]].uid \in registered' \cup missed'
  BY <1>1 DEF SaveLoginUserInfo2Database
<1>3. CallsSound'
  BY <1>1, <1>2 DEF CallsSound, CallSound, AccountsInv, firebase
<1>4. CurrentSound' /\ CurrentHasEntry'
  BY <1>1, <1>2 DEF CurrentSound, CurrentHasEntry, MayPass, AccountsInv, firebase
<1>5. OwnerHasEntry'
  BY <1>1, <1>2 DEF OwnerHasEntry, AccountsInv
<1>6. StepsInOrder' /\ AskedMayShare' /\ SharedIsVerified'
  BY <1>1, <1>2 DEF StepsInOrder, AskedMayShare, SharedIsVerified, AccountsInv, firebase
<1> QED
  BY <1>3, <1>4, <1>5, <1>6 DEF AccountsInv, CallsSound

(* With no sheet in front, no callback is pending: a verified current user *)
(* has an entry or missed one.                                             *)
LEMMA NothingPending ==
    ASSUME AccountsInv, NEW i \in Installation, screen[i] # "authentication", MayPass(current[i])
    PROVE  current[i].uid \in verified /\ current[i].uid \in registered \cup missed
BY DEF AccountsInv, CurrentSound, CurrentHasEntry, CallSound, Pending, MayPass

LEMMA DismissInv ==
    ASSUME TypeOK, AccountsInv, NEW i \in Installation, Dismiss(i)
    PROVE  AccountsInv'
<1>1. /\ \A c \in Chain : calls'[c] = IF At[c] # i \/ calls[c] = NoCall THEN calls[c]
                                      ELSE [calls[c] EXCEPT !.sheet = FALSE]
      /\ screen'[i] = "save" /\ \A j \in Installation : j # i => screen'[j] = screen[j]
  BY DEF Dismiss, TypeOK
<1>2. /\ \A c \in Chain : At[c] = i /\ calls[c] # NoCall /\ calls[c].kind = "signIn"
                           => calls[c].uid \in missed'
      /\ missed \subseteq missed' /\ UNCHANGED <<firebase, collections, current, asked, switched>>
  BY DEF Dismiss, SigningIn
<1>3. \A c \in Chain : At[c] = i /\ calls[c] # NoCall =>
         /\ calls'[c].kind = calls[c].kind /\ calls'[c].uid = calls[c].uid
         /\ calls'[c].stage = calls[c].stage /\ calls'[c].ok = calls[c].ok
         /\ calls'[c].named = calls[c].named /\ calls'[c].verified = calls[c].verified
         /\ calls'[c].sheet = FALSE
  <2> SUFFICES ASSUME NEW c \in Chain, At[c] = i, calls[c] # NoCall
               PROVE  /\ calls'[c].kind = calls[c].kind /\ calls'[c].uid = calls[c].uid
                      /\ calls'[c].stage = calls[c].stage /\ calls'[c].ok = calls[c].ok
                      /\ calls'[c].named = calls[c].named
                      /\ calls'[c].verified = calls[c].verified /\ calls'[c].sheet = FALSE
    OBVIOUS
  <2>1. calls[c] \in Calls
    BY DEF TypeOK
  <2>2. calls'[c] = [calls[c] EXCEPT !.sheet = FALSE]
    BY <1>1
  <2> QED
    BY <2>1, <2>2 DEF Calls
<1>4. CallsSound'
  <2> SUFFICES ASSUME NEW c \in Chain, calls'[c] # NoCall
               PROVE  CallSound(calls[c], At[c])'
    BY DEF CallsSound
  <2>1. calls[c] # NoCall /\ CallSound(calls[c], At[c])
    BY <1>1 DEF AccountsInv
  <2>2. CASE At[c] = i
    BY <1>2, <1>3, <2>1, <2>2 DEF CallSound, firebase
  <2>3. CASE At[c] # i
    BY <1>1, <1>2, <2>1, <2>3, AtAssumption DEF CallSound, firebase
  <2> QED
    BY <2>2, <2>3
<1>5. CurrentHasEntry'
  <2> SUFFICES ASSUME NEW j \in Installation, MayPass(current[j])
               PROVE  \/ current[j].uid \in registered \cup missed'
                      \/ \E c \in Chain : /\ At[c] = j /\ calls'[c] # NoCall
                                          /\ calls'[c].uid = current[j].uid /\ Pending(calls'[c])
    BY <1>2 DEF CurrentHasEntry, MayPass, Pending, collections
  <2>1. \/ current[j].uid \in registered \cup missed
        \/ \E c \in Chain : /\ At[c] = j /\ calls[c] # NoCall
                            /\ calls[c].uid = current[j].uid /\ Pending(calls[c])
    BY DEF CurrentHasEntry, AccountsInv
  <2>2. CASE j = i
    BY <1>2, <2>1, <2>2 DEF Pending
  <2>3. CASE j # i
    BY <1>1, <1>2, <2>1, <2>3
  <2> QED
    BY <2>2, <2>3
<1>6. AskedMayShare'
  BY <1>1, <1>2 DEF AskedMayShare, AccountsInv, firebase, collections
<1> QED
  BY <1>2, <1>4, <1>5, <1>6 DEF AccountsInv, CallsSound, StepsInOrder, CurrentSound,
     SharedIsVerified, OwnerHasEntry, firebase, collections

LEMMA RelaunchInv ==
    ASSUME TypeOK, AccountsInv, NEW i \in Installation, Relaunch(i)
    PROVE  AccountsInv'
<1>1. /\ \A c \in Chain : calls'[c] = IF At[c] = i THEN NoCall ELSE calls[c]
      /\ screen'[i] = "save" /\ \A j \in Installation : j # i => screen'[j] = screen[j]
      /\ \A j \in Installation : j # i => asked'[j] = asked[j]
  BY DEF Relaunch, TypeOK
<1>2. /\ \A c \in Chain : At[c] = i /\ calls[c] # NoCall /\ calls[c].kind = "signIn"
                           => calls[c].uid \in missed'
      /\ missed \subseteq missed' /\ UNCHANGED <<firebase, collections, current, switched>>
  BY DEF Relaunch, SigningIn
<1>3. CallsSound'
  BY <1>1, <1>2, AtAssumption DEF CallsSound, CallSound, AccountsInv, firebase
<1>4. CurrentHasEntry'
  BY <1>1, <1>2 DEF CurrentHasEntry, AccountsInv, Pending, MayPass, collections
<1>5. AskedMayShare'
  BY <1>1, <1>2 DEF AskedMayShare, AccountsInv, firebase, collections
<1> QED
  BY <1>2, <1>3, <1>4, <1>5 DEF AccountsInv, CallsSound, StepsInOrder, CurrentSound,
     SharedIsVerified, OwnerHasEntry, firebase, collections

(* The steps that leave every chain alone.                                 *)
LEMMA ChainsAlone ==
    ASSUME TypeOK, AccountsInv, UNCHANGED <<calls, created, named, mailed, registered, missed>>,
           verified \subseteq verified',
           \A c \in Chain : calls[c] # NoCall /\ calls[c].sheet => screen'[At[c]] = "authentication"
    PROVE  CallsSound'
BY DEF CallsSound, CallSound, AccountsInv

LEMMA NoSheetInv ==
    ASSUME TypeOK, AccountsInv, NEW i \in Installation, screen[i] # "authentication",
           \/ SaveButtonTapped(i) \/ Cancel(i) \/ MoveAuthScene(i)
           \/ \E d \in Doc : SaveData2Online(i, d)
    PROVE  AccountsInv'
<1>1. /\ UNCHANGED <<firebase, registered, current, calls, missed>>
      /\ \A j \in Installation : j # i => screen'[j] = screen[j] /\ asked'[j] = asked[j]
  BY DEF SaveButtonTapped, Cancel, AlertClosed, MoveAuthScene, SaveData2Online, collections, history,
     TypeOK
<1>2. \A c \in Chain : calls[c] # NoCall /\ calls[c].sheet => screen'[At[c]] = "authentication"
  BY <1>1, AtAssumption DEF AccountsInv, CallSound
<1>3. CallsSound' /\ StepsInOrder' /\ CurrentSound' /\ CurrentHasEntry'
  BY <1>1, <1>2, ChainsAlone DEF AccountsInv, StepsInOrder, CurrentSound, CurrentHasEntry, Pending,
     MayPass, firebase
<1>4. AskedMayShare'
  <2>1. CASE SaveButtonTapped(i)
    <3>1. MayPass(current[i]) /\ asked'[i] = current[i].uid
      BY <2>1 DEF SaveButtonTapped, MayShare, MayPass, TypeOK
    <3> QED
      BY <1>1, <3>1, NothingPending DEF AskedMayShare, AccountsInv, firebase
  <2>2. CASE ~SaveButtonTapped(i)
    <3>1. screen'[i] # "confirmation"
      BY <2>2 DEF Cancel, AlertClosed, MoveAuthScene, SaveData2Online, TypeOK
    <3> QED
      BY <1>1, <3>1 DEF AskedMayShare, AccountsInv, firebase
  <2> QED
    BY <2>1, <2>2
<1>5. SharedIsVerified' /\ OwnerHasEntry'
  <2>1. CASE \E d \in Doc : SaveData2Online(i, d)
    <3>1. PICK d \in Doc : SaveData2Online(i, d)
      BY <2>1
    <3>2. d \in uploaded' \ switched' => Owner[d] = asked[i]
      BY <3>1 DEF SaveData2Online
    <3>3. asked[i] \in verified /\ asked[i] \in registered \cup missed
      BY <3>1 DEF SaveData2Online, AlertClosed, AccountsInv, AskedMayShare
    <3>4. \A e \in uploaded' \ switched' : e = d \/ e \in uploaded \ switched
      BY <3>1 DEF SaveData2Online, Merged
    <3> QED
      BY <1>1, <3>2, <3>3, <3>4 DEF SharedIsVerified, OwnerHasEntry, AccountsInv, firebase
  <2>2. CASE SaveButtonTapped(i) \/ Cancel(i) \/ MoveAuthScene(i)
    BY <2>2 DEF SaveButtonTapped, Cancel, MoveAuthScene, SharedIsVerified, OwnerHasEntry,
       AccountsInv, firebase, collections, history
  <2> QED
    BY <2>1, <2>2
<1> QED
  BY <1>3, <1>4, <1>5 DEF AccountsInv, CallsSound

LEMMA StepInv ==
    ASSUME TypeOK, AccountsInv, [Next]_vars
    PROVE  AccountsInv'
<1>1. ASSUME NEW c \in Chain, NEW u \in User, SingUp(c, u) \/ SignIn(c, u)
      PROVE  AccountsInv'
  BY <1>1, SentInv DEF SingUp, SignIn
<1>2. ASSUME NEW u \in User, Verify(u)
      PROVE  AccountsInv'
  <2>1. CallsSound'
    BY <1>2, ChainsAlone DEF Verify, AccountsInv, CallSound, collections, history
  <2> QED
    BY <1>2, <2>1 DEF Verify, AccountsInv, CallsSound, StepsInOrder, CurrentSound, CurrentHasEntry,
       Pending, MayPass, AskedMayShare, SharedIsVerified, OwnerHasEntry, collections, history
<1>3. ASSUME NEW i \in Installation, SignOut(i)
      PROVE  AccountsInv'
  <2>1. \A j \in Installation : current'[j] = NoUser \/ current'[j] = current[j]
    BY <1>3 DEF SignOut, TypeOK
  <2>2. CallsSound'
    BY <1>3, ChainsAlone DEF SignOut, AccountsInv, CallSound, firebase, collections, history
  <2>3. CurrentSound' /\ CurrentHasEntry'
    BY <1>3, <2>1 DEF SignOut, AccountsInv, CurrentSound, CurrentHasEntry, MayPass, Pending,
       firebase, collections, history
  <2> QED
    BY <1>3, <2>2, <2>3 DEF SignOut, AccountsInv, CallsSound, StepsInOrder, AskedMayShare,
       SharedIsVerified, OwnerHasEntry, firebase, collections, history
<1>4. ASSUME NEW i \in Installation,
             \/ SaveButtonTapped(i) \/ Cancel(i) \/ MoveAuthScene(i)
             \/ \E d \in Doc : SaveData2Online(i, d)
      PROVE  AccountsInv'
  <2>1. screen[i] # "authentication"
    BY <1>4 DEF SaveButtonTapped, Cancel, AlertClosed, MoveAuthScene, SaveData2Online
  <2> QED
    BY <1>4, <2>1, NoSheetInv
<1>5. CASE UNCHANGED vars
  <2>1. CallsSound' /\ CurrentHasEntry'
    BY <1>5 DEF vars, AccountsInv, CallsSound, CallSound, CurrentHasEntry, Pending, MayPass,
       firebase, collections, history
  <2> QED
    BY <1>5, <2>1, ChainOnly DEF vars, AccountsInv, CallsSound
<1> QED
  BY <1>1, <1>2, <1>3, <1>4, <1>5, ServeInv, ReturnInv, ChainGoesOnInv, ChainCompletesInv,
     ChainBreaksInv, DismissInv, RelaunchInv DEF Next

(* The inductive invariant.                                                *)
THEOREM AccountsInvariant == Spec => []AccountsInv
BY AccountsType, InitInv, StepInv, PTL DEF Spec

(* A verified account has its name, and so has the current user that       *)
(* passes for verified.                                                    *)
THEOREM AccountsVerifiedIsNamed == Spec => []VerifiedIsNamed
<1>1. AccountsInv => VerifiedIsNamed
  BY DEF AccountsInv, StepsInOrder, CurrentSound, VerifiedIsNamed, MayPass
<1> QED
  BY <1>1, AccountsInvariant, PTL

(* Without a change of user under the alert, only the verified share.      *)
THEOREM AccountsSharedIsVerified == Spec => []SharedIsVerified
<1>1. AccountsInv => SharedIsVerified
  BY DEF AccountsInv
<1> QED
  BY <1>1, AccountsInvariant, PTL

(* Nor does an owner lack an entry, unless a sign-in missed leaving it.    *)
THEOREM AccountsOwnerHasEntry == Spec => []OwnerHasEntry
<1>1. AccountsInv => OwnerHasEntry
  BY DEF AccountsInv
<1> QED
  BY <1>1, AccountsInvariant, PTL
-----------------------------------------------------------------------------
(* A chain that could not send the message to u cannot after a step that   *)
(* only touches the sheet, or makes a request that starts a chain.         *)
MayMailTo(u, c) == calls[c] # NoCall /\ calls[c].uid = u /\ MayMail(calls[c])

LEMMA NoNewMail ==
    ASSUME TypeOK, [Next]_vars, NEW u \in CutOff, NEW b \in Chain
    PROVE  ~MayMailTo(u, b)'
<1>0. u \in created /\ \A c \in Chain : ~MayMailTo(u, c)
  BY DEF CutOff, MayMailTo
<1>1. ASSUME NEW c \in Chain, NEW v \in User, SingUp(c, v) \/ SignIn(c, v)
      PROVE  ~MayMailTo(u, b)'
  <2>1. PICK kind \in {"createUser", "signIn"} : calls' = [calls EXCEPT ![c] = Sent(kind, v)]
    BY <1>1 DEF SingUp, SignIn
  <2>2. calls'[b] = (IF b = c THEN Sent(kind, v) ELSE calls[b])
    BY <2>1 DEF TypeOK
  <2> QED
    BY <1>0, <2>2 DEF MayMailTo, MayMail, Sent
<1>2. ASSUME NEW c \in Chain, Serve(c)
      PROVE  ~MayMailTo(u, b)'
  <2>1. calls[c] \in Calls /\ calls[c] # NoCall /\ calls[c].stage = "sent"
    BY <1>2, ServeStep DEF Serve
  <2>2. PICK ok \in BOOLEAN : calls'[c] = Answered(calls[c], ok) /\ (ok => Accepted(calls[c]))
    BY <1>2, ServeStep
  <2>3. /\ calls'[c].kind = calls[c].kind /\ calls'[c].uid = calls[c].uid /\ calls'[c].ok = ok
    BY <2>1, <2>2 DEF Answered, Calls
  <2>4. CASE b = c
    BY <1>0, <2>1, <2>2, <2>3, <2>4 DEF MayMailTo, MayMail, Accepted
  <2>5. CASE b # c
    <3>1. calls'[b] = calls[b]
      BY <1>2, <2>5, ServeStep
    <3> QED
      BY <1>0, <3>1 DEF MayMailTo, MayMail
  <2> QED
    BY <2>4, <2>5
<1>3. ASSUME NEW c \in Chain, Return(c)
      PROVE  ~MayMailTo(u, b)'
  <2>1. calls[c] \in Calls /\ calls[c] # NoCall /\ calls[c].stage = "answered"
    BY <1>3 DEF Return, TypeOK
  <2>2. calls' = [calls EXCEPT ![c] = [calls[c] EXCEPT !.stage = "returned", !.named = FALSE, !.verified = FALSE]]
    BY <1>3 DEF Return, TypeOK
  <2>3. calls'[b] = IF b = c THEN [calls[c] EXCEPT !.stage = "returned", !.named = FALSE, !.verified = FALSE]
                             ELSE calls[b]
    BY <2>2 DEF TypeOK
  <2> QED
    BY <1>0, <2>1, <2>3 DEF MayMailTo, MayMail, Calls
<1>4. ASSUME NEW c \in Chain, ChainGoesOn(c)
      PROVE  ~MayMailTo(u, b)'
  <2>1. calls[c] \in Calls /\ calls[c] # NoCall /\ MayMail(calls[c])
    BY <1>4 DEF ChainGoesOn, TypeOK, MayMail, GoesOn, LastOfItsChain, Calls
  <2>2. calls[c].uid # u
    BY <1>0, <2>1 DEF MayMailTo
  <2>3. calls'[b] = IF b = c THEN Sent(NextCall(calls[c].kind), calls[c].uid) ELSE calls[b]
    BY <1>4 DEF ChainGoesOn, TypeOK
  <2> QED
    BY <1>0, <2>2, <2>3 DEF MayMailTo, MayMail, Sent
<1>5. ASSUME NEW c \in Chain, ChainCompletes(c) \/ ChainBreaks(c)
      PROVE  ~MayMailTo(u, b)'
  <2>1. calls'[b] = IF b = c THEN NoCall ELSE calls[b]
    BY <1>5 DEF ChainCompletes, ChainBreaks, TypeOK
  <2> QED
    BY <1>0, <2>1 DEF MayMailTo, MayMail
<1>6. ASSUME NEW i \in Installation, Dismiss(i)
      PROVE  ~MayMailTo(u, b)'
  <2>1. calls'[b] \in {calls[b], [calls[b] EXCEPT !.sheet = FALSE]}
        /\ (calls[b] = NoCall => calls'[b] = NoCall)
    BY <1>6 DEF Dismiss
  <2> QED
    BY <1>0, <2>1 DEF MayMailTo, MayMail, TypeOK, Calls
<1>7. ASSUME NEW i \in Installation, Relaunch(i)
      PROVE  ~MayMailTo(u, b)'
  <2>1. calls'[b] \in {calls[b], NoCall}
    BY <1>7 DEF Relaunch
  <2> QED
    BY <1>0, <2>1 DEF MayMailTo, MayMail
<1>8. CASE UNCHANGED calls
  BY <1>0, <1>8 DEF MayMailTo, MayMail
<1> QED
  BY <1>1, <1>2, <1>3, <1>4, <1>5, <1>6, <1>7, <1>8
  DEF Next, vars, Verify, SignOut, MoveAuthScene, SaveButtonTapped, Cancel, AlertClosed,
      SaveData2Online

(* Accounts are never removed, and the message is sent by a chain only.    *)
LEMMA StillUnmailed ==
    ASSUME TypeOK, [Next]_vars, NEW u \in CutOff
    PROVE  u \in created' /\ u \notin mailed'
<1>1. ASSUME NEW c \in Chain, Serve(c)
      PROVE  u \in created' /\ u \notin mailed'
  <2>1. created \subseteq created' /\ mailed' \in {mailed, Done("sendEmailVerification", calls[c], mailed)}
    BY <1>1, ServeStep DEF Done
  <2>2. calls[c].kind = "sendEmailVerification" => calls[c].uid # u
    BY <1>1 DEF CutOff, MayMail, Serve
  <2> QED
    BY <2>1, <2>2 DEF CutOff, Done
<1>2. CASE UNCHANGED <<created, mailed>>
  BY <1>2 DEF CutOff
<1> QED
  BY <1>1, <1>2
  DEF Next, vars, firebase, SingUp, SignIn, Verify, Return, ChainGoesOn, ChainCompletes, ChainBreaks,
      SignOut, MoveAuthScene, Dismiss, SaveButtonTapped, Cancel, SaveData2Online, Relaunch

(* A sign-up cut before its message can never be made good.                *)
THEOREM AccountsCutOffForever == Spec => CutOffForever
<1>1. TypeOK /\ [Next]_vars => [CutOff \subseteq CutOff']_vars
  <2> SUFFICES ASSUME TypeOK, [Next]_vars, NEW u \in CutOff
               PROVE  u \in CutOff'
    OBVIOUS
  <2> QED
    BY NoNewMail, StillUnmailed DEF CutOff, MayMailTo
<1> QED
  BY <1>1, AccountsType, PTL DEF Spec, CutOffForever

-----------------------------------------------------------------------------
(* Every step is a sign-in or an upload of the abstract specification, or  *)
(* leaves the accounts and both collections alone.                         *)
LEMMA StepImplements ==
    ASSUME TypeOK, AccountsInv, [Next]_vars
    PROVE  [Shared!Next]_(Shared!vars)
<1>1. ASSUME NEW c \in Chain, Serve(c)
      PROVE  [Shared!Next]_(Shared!vars)
  <2>1. /\ calls[c] \in Calls /\ UNCHANGED <<registered, uploaded>>
        /\ created' \in {created, created \cup {calls[c].uid}}
    BY <1>1, ServeStep DEF Done, collections
  <2>2. CASE created' = created
    BY <2>1, <2>2 DEF Shared!vars
  <2>3. CASE created' = created \cup {calls[c].uid}
    <3>1. Shared!SignIn(calls[c].uid) /\ calls[c].uid \in User
      BY <2>1, <2>3 DEF Shared!SignIn, Calls
    <3> QED
      BY <3>1 DEF Shared!Next
  <2> QED
    BY <2>1, <2>2, <2>3
<1>2. ASSUME NEW c \in Chain, ChainCompletes(c)
      PROVE  [Shared!Next]_(Shared!vars)
  <2> DEFINE user == current[At[c]]
  <2>1. SaveLoginUserInfo2Database(user) /\ UNCHANGED <<created, uploaded>>
    BY <1>2 DEF ChainCompletes, firebase
  <2>2. CASE user = NoUser
    BY <2>1, <2>2 DEF SaveLoginUserInfo2Database, Shared!vars
  <2>3. CASE user # NoUser
    <3>1. user.uid \in created /\ user.uid \in User
      BY <2>3, AtAssumption DEF AccountsInv, CurrentSound, TypeOK, Users
    <3>2. Shared!SignIn(user.uid)
      BY <2>1, <2>3, <3>1 DEF SaveLoginUserInfo2Database, Shared!SignIn
    <3> QED
      BY <3>1, <3>2 DEF Shared!Next
  <2> QED
    BY <2>2, <2>3
<1>3. ASSUME NEW i \in Installation, NEW d \in Doc, SaveData2Online(i, d)
      PROVE  [Shared!Next]_(Shared!vars)
  <2>1. Shared!Upload(d)
    BY <1>3 DEF SaveData2Online, Merged, AccountsInv, CurrentSound, Shared!Upload, firebase
  <2> QED
    BY <2>1 DEF Shared!Next
<1>4. CASE UNCHANGED <<created, registered, uploaded>>
  BY <1>4 DEF Shared!vars
<1> QED
  BY <1>1, <1>2, <1>3, <1>4
  DEF Next, vars, firebase, collections, SingUp, SignIn, Verify, Return, ChainGoesOn, ChainBreaks,
      SignOut, MoveAuthScene, Dismiss, SaveButtonTapped, Cancel, Relaunch

(* All installations together change the shared collections only as        *)
(* OnlineList takes other installations to do.                             *)
THEOREM AccountsImplementsShared == Spec => ImplementsShared
<1>1. Init => Shared!Init
  BY DEF Init, Shared!Init
<1>2. TypeOK /\ AccountsInv /\ [Next]_vars => [Shared!Next]_(Shared!vars)
  BY StepImplements
<1> QED
  BY <1>1, <1>2, AccountsType, AccountsInvariant, PTL DEF Spec, Shared!Spec, ImplementsShared
=============================================================================
