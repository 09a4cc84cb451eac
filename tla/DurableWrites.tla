---------------------------- MODULE DurableWrites ----------------------------
(***************************************************************************)
(* What setData promises the app, whatever becomes of the network, of the  *)
(* account and of the process: a write stays pending until the server has  *)
(* decided it, the server may see it more than once while it is pending,   *)
(* and its completion handler runs at most once, with no error only for a  *)
(* write that was applied.                                                 *)
(***************************************************************************)
CONSTANT Write  \* the calls of setData

VARIABLES
    pending,    \* writes made and not decided for the client
    settled,    \* writes the client has done with
    applied,    \* writes the server applied, once or more
    refused,    \* writes the server refused at least once
    told        \* what the completion handler of each write was called with

abstract == <<pending, settled, applied, refused, told>>

Init ==
    /\ pending = {} /\ settled = {}
    /\ applied = {} /\ refused = {}
    /\ told = [w \in Write |-> "nothing"]

(* The app calls setData. *)
Make(w) ==
    /\ w \notin pending \cup settled
    /\ pending' = pending \cup {w}
    /\ UNCHANGED <<settled, applied, refused, told>>

(* The server decides a pending write, not always for the first time.      *)
Decide(w) ==
    /\ w \in pending
    /\ \/ applied' = applied \cup {w} /\ UNCHANGED refused
       \/ refused' = refused \cup {w} /\ UNCHANGED applied
    /\ UNCHANGED <<pending, settled, told>>

(* The completion handler may run, once; the write may leave the client.   *)
(* Both are for a decided write only; they may come in one step.           *)
Settle(w) ==
    /\ w \in pending
    /\ w \in applied \cup refused
    /\ \/ UNCHANGED told
       \/ /\ told[w] = "nothing"
          /\ \/ w \in applied /\ told' = [told EXCEPT ![w] = "ok"]
             \/ told' = [told EXCEPT ![w] = "failed"]
    /\ \/ UNCHANGED <<pending, settled>>
       \/ pending' = pending \ {w} /\ settled' = settled \cup {w}
    /\ UNCHANGED <<applied, refused>>

Next == \E w \in Write : Make(w) \/ Decide(w) \/ Settle(w)

Spec == Init /\ [][Next]_abstract

-----------------------------------------------------------------------------
(* What follows from it for the app.                                       *)

(* Only a write the server has decided is done with, or its handler run;   *)
(* "no error" is only ever said of a write that was applied; and no write  *)
(* is pending and done with.                                               *)
OutcomesTrue ==
    /\ pending \cap settled = {}
    /\ settled \subseteq applied \cup refused
    /\ \A w \in Write :
           /\ told[w] # "nothing" => w \in (pending \cup settled) \cap (applied \cup refused)
           /\ told[w] = "ok" => w \in applied

(* What was said once is not taken back, what is done with stays so, and a *)
(* pending write leaves only by being done with.                           *)
Kept ==
    /\ \A w \in Write : told[w] # "nothing" => told'[w] = told[w]
    /\ settled \subseteq settled' /\ pending \subseteq pending' \cup settled'
OutcomesKept == [][Kept]_abstract
=============================================================================
