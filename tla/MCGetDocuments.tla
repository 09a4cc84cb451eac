--------------------------- MODULE MCGetDocuments ---------------------------
(* Two lists read the accounts, and one of them goes on to the documents.  *)
EXTENDS GetDocuments, TLC

CONSTANTS users, documents, c1, c2, c3

MCQuery == {users, documents}
MCCall == {c1, c2, c3}
MCFollows == c1 :> {} @@ c2 :> {c1} @@ c3 :> {}
MCQueryOf == c1 :> users @@ c2 :> documents @@ c3 :> users
=============================================================================
