---------------------------- MODULE VectorStore ----------------------------
(***************************************************************************)
(* What a collection promises its clients, without logs, internal ids or   *)
(* recovery: a map from document ids to items that survives restarts.  The *)
(* one operation a stop interrupts may or may not have taken place.        *)
(***************************************************************************)
CONSTANTS Ids,     \* the ids a document may get
          Items    \* what a client may store

VARIABLES docs,    \* the stored items, by id
          used     \* the ids ever handed out

Without(id) == [x \in DOMAIN docs \ {id} |-> docs[x]]
With(id, item) ==
    [x \in DOMAIN docs \cup {id} |-> IF x = id THEN item ELSE docs[x]]

Init == docs = [x \in {} |-> {}] /\ used = {}

(* A new document gets an id no document ever had.                         *)
Insert(id, item) ==
    /\ id \notin used
    /\ used' = used \cup {id}
    /\ docs' = With(id, item)

Delete(id) ==
    /\ id \in DOMAIN docs
    /\ docs' = Without(id)
    /\ UNCHANGED used

(* An insert that fails uses up an id, and nothing else.                   *)
FailInsert(id) ==
    /\ id \notin used
    /\ used' = used \cup {id}
    /\ UNCHANGED docs

Next == \E id \in Ids : \/ \E item \in Items : Insert(id, item)
                        \/ Delete(id)
                        \/ FailInsert(id)

Spec == Init /\ [][Next]_<<docs, used>>
=============================================================================
