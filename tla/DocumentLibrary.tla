-------------------------- MODULE DocumentLibrary --------------------------
(***************************************************************************)
(* What the local storage of the application promises, without saying how: *)
(* a library of documents to which a document is added in ONE step, that   *)
(* is made durable now and then, and that falls back to its durable part   *)
(* when the process ends.  A document, once in the library, is never       *)
(* altered.  DocumentStore is shown to implement this specification.       *)
(***************************************************************************)
CONSTANTS Uid, Document, NoDocument

VARIABLES
    library,    \* [Uid -> Document or NoDocument]: what the running program reads
    durable     \* the same, as a relaunch would find it

vars == <<library, durable>>

Contents == [Uid -> Document \cup {NoDocument}]

TypeOK == library \in Contents /\ durable \in Contents

Init ==
    /\ library = [u \in Uid |-> NoDocument]
    /\ durable = library

(* A document appears, complete, under an identifier that has none. *)
Save(u, d) ==
    /\ library[u] = NoDocument
    /\ library' = [library EXCEPT ![u] = d]
    /\ UNCHANGED durable

(* Everything read so far will survive from now on. *)
Persist == durable' = library /\ UNCHANGED library

(* The process ends: what was not durable is gone. *)
Lose == library' = durable /\ UNCHANGED durable

Next ==
    \/ \E u \in Uid, d \in Document : Save(u, d)
    \/ Persist
    \/ Lose

Spec == Init /\ [][Next]_vars

-----------------------------------------------------------------------------
(* A durable document is one the running program reads too, unaltered: no  *)
(* step of saveData2Local may touch a document that was saved before.      *)
DurableIsRead == \A u \in Uid : durable[u] # NoDocument => library[u] = durable[u]

(* A durable document is durable for ever, with the same content.          *)
DurableForever ==
    [][\A u \in Uid : durable[u] # NoDocument => durable'[u] = durable[u]]_vars
=============================================================================
