----------------------------- MODULE Collection -----------------------------
(***************************************************************************)
(* A collection (internal/collection): the log it writes before it changes *)
(* its memory, the four maps and the index that make up this memory, and   *)
(* the replay that rebuilds it.                                            *)
(*                                                                         *)
(* Insert, Delete and LoadState hold c.mu throughout, and every reader     *)
(* takes it, so an operation that completes is one step; a stop inside it  *)
(* is a step of its own.  LoadState is a step per record.  The log is the  *)
(* sequence of the records that Recover would return; module WAL says when *)
(* that is the sequence of the records appended.                           *)
(*                                                                         *)
(* A definition named Bug_X stands before X: X with a plausible bug, used  *)
(* to see that a property notices it.                                      *)
(***************************************************************************)
EXTENDS Naturals, Sequences

CONSTANTS
    ExternalIDs, \* the ids uuid.NewString may yield; none comes up twice
    Items,       \* what clients insert: a valid vector with its payload
    LogFaults,   \* what a failing append leaves: "absent" - no record;
                 \* "present" - the record, only its fsync failed
    AllowReload, \* TRUE: LoadState may be called on a collection in use
    LossyStop,   \* TRUE: a stop may lose the end of the log (SyncOS)
    MaxLog,      \* bound on the records in the log
    MaxStops,    \* bound on the stops
    MaxFaults    \* bound on the failing appends

ASSUME FaultAssumption == /\ LogFaults \subseteq {"absent", "present"}
                          /\ AllowReload \in BOOLEAN /\ LossyStop \in BOOLEAN
ASSUME BoundAssumption == /\ MaxLog \in Nat /\ MaxStops \in Nat
                          /\ MaxFaults \in Nat

VARIABLES
    log,        \* the records on the disk, in order
    phase,      \* down, loading, reloading, ready or closed
    cursor,     \* while LoadState runs: the records replayed so far
    idCounter, extToInt, intToExt, payload, index,   \* the struct's fields
    used,       \* the external ids drawn so far
    acked,      \* history: ids whose Insert returned nil
    deleted,    \* history: ids whose Delete returned nil
    unsure,     \* history: ids with an operation that failed or was cut off
    stops, faults   \* counters, for the bounds

maps    == <<extToInt, intToExt, payload>>
memory  == <<idCounter, maps, index>>
history == <<acked, deleted, unsure>>
vars    == <<log, phase, cursor, memory, used, history, stops, faults>>

-----------------------------------------------------------------------------
(* Data *)

(* Go maps.                                                                *)
Empty        == [x \in {} |-> {}]
Put(f, k, v) == [x \in DOMAIN f \cup {k} |-> IF x = k THEN v ELSE f[x]]
Drop(f, k)   == [x \in DOMAIN f \ {k} |-> f[x]]

(* vector.NewVector keeps the normalized vector; the log keeps the raw one.*)
(* json.Marshal and Unmarshal give a payload back as maps, strings and     *)
(* float64s, so a payload is not the caller's value once it was replayed.  *)
Unit(item) == <<"unit", item>>
JSON(item) == <<"json", item>>

(* A payload can be told from the JSON tree of another.                    *)
ASSUME ItemAssumption == \A i, j \in Items : i # JSON(j)

InsertRecord(e, i, item) == [op |-> "insert", ext |-> e, int |-> i,
                             raw |-> item, meta |-> JSON(item)]
DeleteRecord(e, i) == [op |-> "delete", ext |-> e, int |-> i]

Room(n) == Len(log) + n <= MaxLog

(* A fault of the append: the log afterwards holds the record or not.      *)
Faulty(r) ==
    /\ faults < MaxFaults /\ faults' = faults + 1
    /\ \/ "absent" \in LogFaults /\ UNCHANGED log
       \/ "present" \in LogFaults /\ log' = Append(log, r)

-----------------------------------------------------------------------------

Init ==
    /\ log = <<>> /\ phase = "down" /\ cursor = 0
    /\ idCounter = 0 /\ extToInt = Empty /\ intToExt = Empty
    /\ payload = Empty /\ index = Empty
    /\ used = {} /\ acked = {} /\ deleted = {} /\ unsure = {}
    /\ stops = 0 /\ faults = 0

-----------------------------------------------------------------------------
(* Insert *)

Bug_internalID == idCounter   \* counts after the use, not before
internalID == idCounter + 1

Draw(e) == e \notin used /\ used' = used \cup {e}

InsertOK(e, item) ==
    /\ phase = "ready" /\ Room(1) /\ Draw(e)
    /\ internalID \notin DOMAIN index
    /\ log' = Append(log, InsertRecord(e, internalID, item))
    /\ index' = Put(index, internalID, Unit(item))
    /\ idCounter' = internalID
    /\ extToInt' = Put(extToInt, e, internalID)
    /\ intToExt' = Put(intToExt, internalID, e)
    /\ payload' = Put(payload, e, item)
    /\ acked' = acked \cup {e}
    /\ UNCHANGED <<phase, cursor, deleted, unsure, stops, faults>>

(* AppendInsert fails: Insert returns its error.                           *)
Bug_InsertFails(e, item) ==   \* memory is changed before the log
    /\ phase = "ready" /\ Room(1) /\ Draw(e) /\ internalID \notin DOMAIN index
    /\ Faulty(InsertRecord(e, internalID, item))
    /\ index' = Put(index, internalID, Unit(item))
    /\ idCounter' = internalID
    /\ extToInt' = Put(extToInt, e, internalID)
    /\ intToExt' = Put(intToExt, internalID, e)
    /\ payload' = Put(payload, e, item)
    /\ unsure' = unsure \cup {e}
    /\ UNCHANGED <<phase, cursor, acked, deleted, stops>>
InsertFails(e, item) ==
    /\ phase = "ready" /\ Room(1) /\ Draw(e)
    /\ Faulty(InsertRecord(e, internalID, item))
    /\ unsure' = unsure \cup {e}
    /\ UNCHANGED <<phase, cursor, memory, acked, deleted, stops>>

(* index.Add refuses an id it holds: Insert appends a Delete record that   *)
(* is to cancel the insert's, and returns ErrInternalIDCollision.          *)
InsertCompensated(e, item) ==
    /\ phase = "ready" /\ Room(2) /\ Draw(e)
    /\ internalID \in DOMAIN index
    /\ \/ /\ log' = Append(Append(log, InsertRecord(e, internalID, item)),
                         DeleteRecord(e, internalID))
          /\ UNCHANGED faults
       \/ /\ "absent" \in LogFaults   \* "critical wal rollback failed"
          /\ faults < MaxFaults /\ faults' = faults + 1
          /\ log' = Append(log, InsertRecord(e, internalID, item))
    /\ unsure' = unsure \cup {e}
    /\ UNCHANGED <<phase, cursor, memory, acked, deleted, stops>>

(* A closed log takes no record: Insert fails, and so does Delete, without *)
(* a change.  Searches and Gets go on being answered from memory.          *)
InsertClosed(e) ==
    /\ phase = "closed" /\ Draw(e)
    /\ UNCHANGED <<log, phase, cursor, memory, history, stops, faults>>

-----------------------------------------------------------------------------
(* Delete *)

Bug_DropDocument(e, i) ==   \* forgets the reverse map
    /\ index' = Drop(index, i)
    /\ extToInt' = Drop(extToInt, e)
    /\ payload' = Drop(payload, e)
    /\ UNCHANGED intToExt
DropDocument(e, i) ==
    /\ index' = Drop(index, i)
    /\ extToInt' = Drop(extToInt, e)
    /\ intToExt' = Drop(intToExt, i)
    /\ payload' = Drop(payload, e)

Bug_DeleteOK(e) ==   \* forgets the log
    /\ phase = "ready" /\ Room(1) /\ e \in DOMAIN extToInt
    /\ DropDocument(e, extToInt[e])
    /\ deleted' = deleted \cup {e}
    /\ UNCHANGED <<log, phase, cursor, idCounter, used, acked, unsure, stops,
                   faults>>
DeleteOK(e) ==
    /\ phase = "ready" /\ Room(1)
    /\ e \in DOMAIN extToInt
    /\ log' = Append(log, DeleteRecord(e, extToInt[e]))
    /\ DropDocument(e, extToInt[e])
    /\ deleted' = deleted \cup {e}
    /\ UNCHANGED <<phase, cursor, idCounter, used, acked, unsure, stops, faults>>

DeleteFails(e) ==
    /\ phase = "ready" /\ Room(1)
    /\ e \in DOMAIN extToInt
    /\ Faulty(DeleteRecord(e, extToInt[e]))
    /\ unsure' = unsure \cup {e}
    /\ UNCHANGED <<phase, cursor, memory, used, acked, deleted, stops>>

-----------------------------------------------------------------------------
(* Close, and the process stopping                                         *)

Close ==
    /\ phase = "ready" /\ phase' = "closed"
    /\ UNCHANGED <<log, cursor, memory, used, history, stops, faults>>

Forget ==
    /\ stops < MaxStops /\ stops' = stops + 1
    /\ phase' = "down" /\ cursor' = 0
    /\ idCounter' = 0 /\ extToInt' = Empty /\ intToExt' = Empty
    /\ payload' = Empty /\ index' = Empty
    /\ UNCHANGED <<acked, deleted, faults>>

Stop ==
    /\ phase # "down" /\ Forget
    /\ \/ UNCHANGED log
       \/ LossyStop /\ \E n \in 0 .. Len(log) : log' = SubSeq(log, 1, n)
    /\ UNCHANGED <<used, unsure>>

(* ... between an append and the return of the call.                       *)
StopInInsert(e, item) ==
    /\ phase = "ready" /\ Room(1) /\ Draw(e)
    /\ log' = Append(log, InsertRecord(e, internalID, item))
    /\ unsure' = unsure \cup {e}
    /\ Forget

StopInDelete(e) ==
    /\ phase = "ready" /\ Room(1)
    /\ e \in DOMAIN extToInt
    /\ log' = Append(log, DeleteRecord(e, extToInt[e]))
    /\ unsure' = unsure \cup {e}
    /\ Forget /\ UNCHANGED used

-----------------------------------------------------------------------------
(* OpenCollection and LoadState *)

OpenCollection ==
    /\ phase = "down" /\ phase' = "loading" /\ cursor' = 0
    /\ UNCHANGED <<log, memory, used, history, stops, faults>>

(* LoadState on a collection that is loaded already: the maps and the      *)
(* counter start afresh, the index does not.                               *)
Reload ==
    /\ AllowReload /\ phase = "ready" /\ phase' = "reloading"
    /\ cursor' = 0 /\ idCounter' = 0
    /\ extToInt' = Empty /\ intToExt' = Empty /\ payload' = Empty
    /\ UNCHANGED <<log, index, used, history, stops, faults>>

Replaying == phase \in {"loading", "reloading"} /\ cursor < Len(log)
record    == log[cursor + 1]

Bug_Bump(i) == UNCHANGED idCounter   \* ids start over after a restart
Bump(i) == idCounter' = IF i > idCounter THEN i ELSE idCounter

Bug_Collides(r) == FALSE   \* an insert that index.Add refused goes on
Collides(r) == r.op = "insert" /\ r.int \in DOMAIN index

ReplayInsert ==
    /\ Replaying /\ record.op = "insert" /\ ~Collides(record)
    /\ index' = Put(index, record.int, Unit(record.raw))
    /\ extToInt' = Put(extToInt, record.ext, record.int)
    /\ intToExt' = Put(intToExt, record.int, record.ext)
    /\ Bump(record.int)
    /\ payload' = Put(payload, record.ext, record.meta)
    /\ cursor' = cursor + 1
    /\ UNCHANGED <<log, phase, used, history, stops, faults>>

ReplayDelete ==
    /\ Replaying /\ record.op = "delete"
    /\ Bump(record.int)
    /\ DropDocument(record.ext, record.int)
    /\ cursor' = cursor + 1
    /\ UNCHANGED <<log, phase, used, history, stops, faults>>

(* "recovery failed: internal id collision": OpenCollection gives up; a    *)
(* collection in use keeps what LoadState left of it.                      *)
ReplayCollides ==
    /\ Replaying /\ Collides(record)
    /\ cursor' = 0
    /\ \/ /\ phase = "reloading" /\ phase' = "ready" /\ UNCHANGED memory
       \/ /\ phase = "loading" /\ phase' = "down"
          /\ idCounter' = 0 /\ extToInt' = Empty /\ intToExt' = Empty
          /\ payload' = Empty /\ index' = Empty
    /\ UNCHANGED <<log, used, history, stops, faults>>

Bug_LoadDone ==   \* serves before the replay is complete
    /\ phase \in {"loading", "reloading"}
    /\ phase' = "ready" /\ cursor' = 0
    /\ UNCHANGED <<log, memory, used, history, stops, faults>>
LoadDone ==
    /\ phase \in {"loading", "reloading"} /\ cursor = Len(log)
    /\ phase' = "ready" /\ cursor' = 0
    /\ UNCHANGED <<log, memory, used, history, stops, faults>>

-----------------------------------------------------------------------------

ClientStep ==
    \E e \in ExternalIDs :
        \/ \E item \in Items : \/ InsertOK(e, item) \/ InsertFails(e, item)
                               \/ InsertCompensated(e, item)
                               \/ StopInInsert(e, item)
        \/ InsertClosed(e)
        \/ DeleteOK(e) \/ DeleteFails(e) \/ StopInDelete(e)

LoadStep == \/ OpenCollection \/ Reload
            \/ ReplayInsert \/ ReplayDelete \/ ReplayCollides \/ LoadDone

Next == ClientStep \/ LoadStep \/ Close \/ Stop

Spec == Init /\ [][Next]_vars

-----------------------------------------------------------------------------
(* Properties *)

Record == [op : {"insert"}, ext : ExternalIDs, int : Nat \ {0},
           raw : Items, meta : {JSON(i) : i \in Items}]
          \cup [op : {"delete"}, ext : ExternalIDs, int : Nat \ {0}]

(* Every variable holds a value the program could hold; internal ids start *)
(* at 1.                                                                   *)
TypeOK ==
    /\ log \in Seq(Record)
    /\ phase \in {"down", "loading", "reloading", "ready", "closed"}
    /\ cursor \in Nat
    /\ idCounter \in Nat
    /\ extToInt \in [DOMAIN extToInt -> Nat \ {0}]
    /\ DOMAIN extToInt \subseteq ExternalIDs
    /\ intToExt \in [DOMAIN intToExt -> ExternalIDs]
    /\ DOMAIN intToExt \subseteq Nat \ {0}
    /\ payload \in [DOMAIN payload -> Items \cup {JSON(i) : i \in Items}]
    /\ DOMAIN payload \subseteq ExternalIDs
    /\ index \in [DOMAIN index -> {Unit(i) : i \in Items}]
    /\ DOMAIN index \subseteq Nat \ {0}
    /\ used \subseteq ExternalIDs
    /\ acked \subseteq used /\ deleted \subseteq used /\ unsure \subseteq used
    /\ stops \in Nat /\ faults \in Nat

(* The two id maps are inverse to each other, and the index and the        *)
(* payloads cover exactly their ids, also while the log is replayed: a     *)
(* Search can never meet an id without a document ("id doesn't exist       *)
(* internal corruption", collection.go:227), nor a Get one without vector. *)
MapsAgree ==
    /\ DOMAIN index = DOMAIN intToExt
    /\ DOMAIN payload = DOMAIN extToInt
    /\ \A e \in DOMAIN extToInt : /\ extToInt[e] \in DOMAIN intToExt
                                  /\ intToExt[extToInt[e]] = e
    /\ \A i \in DOMAIN intToExt : /\ intToExt[i] \in DOMAIN extToInt
                                  /\ extToInt[intToExt[i]] = i

(* The log is written ahead of memory: nothing is served whose insert is   *)
(* not in the log with the same ids and content, whatever failed, was      *)
(* reloaded or was lost before.                                            *)
WriteAhead ==
    \A e \in DOMAIN extToInt :
        \E p \in DOMAIN log :
            /\ log[p].op = "insert" /\ log[p].ext = e /\ log[p].int = extToInt[e]
            /\ payload[e] \in {log[p].raw, log[p].meta}

(* A document's vector is found under its own id, and Search translates    *)
(* that id back to the document, in the same circumstances.                *)
OwnVector ==
    \A e \in DOMAIN extToInt :
        /\ extToInt[e] \in DOMAIN index \cap DOMAIN intToExt
        /\ intToExt[extToInt[e]] = e
        /\ \E item \in Items : /\ index[extToInt[e]] = Unit(item)
                              /\ payload[e] \in {item, JSON(item)}

(* The records of the log that memory has seen.                            *)
Seen == IF phase = "loading" THEN 1 .. cursor
        ELSE IF phase \in {"ready", "closed"} THEN DOMAIN log ELSE {}

(* The counter covers every internal id in the log, those of deleted       *)
(* documents too: the next insert logs an id no record ever had, so that   *)
(* index.Add accepts it and the compensation in Insert is never needed.    *)
CounterCoversLog == \A p \in Seen : log[p].int <= idCounter

(* In the whole log an internal id belongs to one external id and back,    *)
(* and no document is inserted twice.                                      *)
IdsUnique ==
    /\ \A p, q \in DOMAIN log : log[p].int = log[q].int <=> log[p].ext = log[q].ext
    /\ \A p, q \in DOMAIN log :
          log[p].op = "insert" /\ log[q].op = "insert" /\ log[p].int = log[q].int
              => p = q

(* Across any number of stops and reloads: what Insert acknowledged is     *)
(* served until it is deleted, and what Delete acknowledged never returns. *)
AckedServed ==
    phase = "ready" =>
        /\ acked \ (deleted \cup unsure) \subseteq DOMAIN payload
        /\ deleted \cap DOMAIN payload = {}

(* The log of a collection always replays: OpenCollection never fails with *)
(* "recovery failed: internal id collision".                               *)
OpenSucceeds == phase = "loading" /\ cursor < Len(log) => ~Collides(record)

(* A second LoadState on the same collection replays, too ("defensive for  *)
(* multiple load state calls in row", recovery.go:18).                     *)
ReloadSucceeds == phase = "reloading" /\ cursor < Len(log) => ~Collides(record)

-----------------------------------------------------------------------------
(* The collection implements the vector store: its documents are what its  *)
(* memory serves, and while it has no memory what the log will give back.  *)

Document(item) == [vector |-> Unit(item), payload |-> JSON(item)]
Plain(p) == IF p \in Items THEN JSON(p) ELSE p

Served ==
    [e \in DOMAIN extToInt |-> [vector  |-> index[extToInt[e]],
                                payload |-> Plain(payload[e])]]

LivePositions ==
    {p \in DOMAIN log :
        /\ log[p].op = "insert"
        /\ \A q \in p + 1 .. Len(log) : log[q].op = "delete" => log[q].int # log[p].int}
Logged ==
    [e \in {log[p].ext : p \in LivePositions} |->
        LET p == CHOOSE p \in LivePositions : log[p].ext = e
        IN  [vector |-> Unit(log[p].raw), payload |-> log[p].meta]]

Store == INSTANCE VectorStore WITH
    Ids   <- ExternalIDs,
    Items <- {Document(i) : i \in Items},
    docs  <- IF phase \in {"ready", "closed"} THEN Served ELSE Logged,
    used  <- used

(* Whatever stops or fails in between, a client sees a map that changes    *)
(* only by the operations it called.                                       *)
ImplementsStore == Store!Spec
=============================================================================
