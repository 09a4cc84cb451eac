----------------------- MODULE DocumentLibraryProofs -----------------------
(* What DocumentLibrary promises about durable documents, for any set of   *)
(* identifiers and documents.                                              *)
EXTENDS DocumentLibrary, TLAPS

(* Every content of the library stays a library.                           *)
THEOREM LibraryType == Spec => []TypeOK
<1>1. Init => TypeOK
  BY DEF Init, TypeOK, Contents
<1>2. TypeOK /\ [Next]_vars => TypeOK'
  BY DEF TypeOK, Contents, Next, Save, Persist, Lose, vars
<1> QED
  BY <1>1, <1>2, PTL DEF Spec

(* A durable document is one the running program reads, unaltered.         *)
THEOREM DurableRead == Spec => []DurableIsRead
<1>1. Init => DurableIsRead
  BY DEF Init, DurableIsRead
<1>2. TypeOK /\ DurableIsRead /\ [Next]_vars => DurableIsRead'
  <2> SUFFICES ASSUME TypeOK, DurableIsRead, [Next]_vars, NEW v \in Uid,
                      durable'[v] # NoDocument
               PROVE  library'[v] = durable'[v]
    BY DEF DurableIsRead
  <2>1. ASSUME NEW u \in Uid, NEW d \in Document, Save(u, d)
        PROVE  library'[v] = durable'[v]
    BY <2>1 DEF Save, TypeOK, Contents, DurableIsRead
  <2>2. CASE Persist
    BY <2>2 DEF Persist
  <2>3. CASE Lose
    BY <2>3 DEF Lose
  <2>4. CASE UNCHANGED vars
    BY <2>4 DEF vars, DurableIsRead
  <2> QED
    BY <2>1, <2>2, <2>3, <2>4 DEF Next
<1> QED
  BY <1>1, <1>2, LibraryType, PTL DEF Spec

(* A document that is durable stays durable, with the same content.        *)
THEOREM DurableStays == Spec => DurableForever
<1>1. DurableIsRead /\ [Next]_vars
        => [\A u \in Uid : durable[u] # NoDocument => durable'[u] = durable[u]]_vars
  BY DEF DurableIsRead, Next, Save, Persist, Lose, vars
<1> QED
  BY <1>1, DurableRead, PTL DEF Spec, DurableForever
=============================================================================
